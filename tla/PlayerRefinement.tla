-------------------------- MODULE PlayerRefinement --------------------------
(***************************************************************************)
(* Player implements PlayerDelivery under the mapping of Player.Delivery, *)
(* for every packet count, queue limit and pause policy.                  *)
(***************************************************************************)
EXTENDS PlayerProofs

(* The packets the player still holds: queued, in the drain loop's hand, *)
(* or in a QueueRTP call between its paused test and the lock.            *)
Live == Elems(queue) \cup ({hand, inFlight} \ {NoPack})

(* A packet the player holds has not been dropped.                        *)
LiveNotDropped == Live \cap (overflowDropped \cup pauseDropped) = {}

(* Only produced packets are dropped while paused.                       *)
PauseDroppedProduced == \A x \in pauseDropped : x <= produced

RInv == IInv /\ LiveNotDropped /\ PauseDroppedProduced

(* The packets the player holds are apart: the hand and the packet in    *)
(* flight are not queued, and differ.                                     *)
LEMMA Apart ==
    ASSUME IInv
    PROVE  /\ hand # NoPack => hand \notin Elems(queue)
           /\ inFlight # NoPack => /\ inFlight \notin Elems(queue)
                                   /\ inFlight # hand
                                   /\ inFlight = produced
           /\ \A x \in Old : x \in 1..produced
<1>1. queue \in Seq(Packets) /\ Old \subseteq Packets /\ produced \in Nat
  BY OldPackets DEF IInv, TypeOK
<1>2. hand # NoPack => hand \notin Elems(queue)
  <2> SUFFICES ASSUME hand # NoPack, hand \in Elems(queue) PROVE FALSE
    OBVIOUS
  <2>1. PICK k \in 1..Len(queue) : queue[k] = hand
    BY <1>1, ElemsSeq
  <2>2. hand < queue[k] /\ hand \in Nat
    BY <2>1 DEF IInv, HandBetween, TypeOK, Packets
  <2>3. QED
    BY <2>1, <2>2
<1>3. inFlight # NoPack =>
        /\ inFlight \notin Elems(queue) /\ inFlight # hand /\ inFlight = produced
  <2>1. Elems(queue) \subseteq Old /\ ({hand} \ {NoPack}) \subseteq Old
    BY DEF Old
  <2>2. QED
    BY <1>1, <2>1 DEF IInv, InFlightNewest, Packets
<1>4. \A x \in Old : x \in 1..produced
  BY <1>1 DEF IInv, OldProduced, Packets
<1>5. QED
  BY <1>2, <1>3, <1>4

(* Every packet the player holds is pending for the abstract player:     *)
(* produced, neither sent nor dropped.                                    *)
LEMMA LivePending ==
    ASSUME RInv
    PROVE  Live \subseteq Delivery!Pending
<1>1. Live \subseteq 1..produced
  <2>1. Elems(queue) \cup ({hand} \ {NoPack}) \subseteq Old
    BY DEF Old
  <2>2. inFlight # NoPack => inFlight \in Packets /\ inFlight = produced
    BY Apart DEF RInv, IInv, TypeOK
  <2>3. QED
    BY <2>1, <2>2, Apart DEF RInv, Live, Packets
<1>2. Live \cap Elems(sent) = {}
  <2>1. queue \in Seq(Packets) /\ sent \in Seq(Packets)
    BY DEF RInv, IInv, TypeOK
  <2>2. Elems(queue) \cap Elems(sent) = {}
    <3> SUFFICES ASSUME NEW x \in Elems(queue), x \in Elems(sent) PROVE FALSE
      OBVIOUS
    <3>1. PICK k \in 1..Len(queue) : queue[k] = x
      BY <2>1, ElemsSeq
    <3>2. PICK i \in 1..Len(sent) : sent[i] = x
      BY <2>1, ElemsSeq
    <3>3. sent[i] < queue[k]
      BY DEF RInv, IInv, SentBeforeQueue
    <3>5. x \in Nat
      <4>1. Elems(queue) \subseteq Packets
        BY <2>1, ElemsSeq
      <4>2. QED
        BY <4>1 DEF Packets
    <3>4. QED
      BY <3>1, <3>2, <3>3, <3>5
  <2>3. hand # NoPack => hand \notin Elems(sent)
    <3> SUFFICES ASSUME hand # NoPack, hand \in Elems(sent) PROVE FALSE
      OBVIOUS
    <3>1. PICK i \in 1..Len(sent) : sent[i] = hand
      BY <2>1 DEF Elems
    <3>2. sent[i] < hand /\ hand \in Nat
      BY <3>1 DEF RInv, IInv, HandBetween, TypeOK, Packets
    <3>3. QED
      BY <3>1, <3>2
  <2>4. inFlight # NoPack => inFlight \notin Elems(sent)
    <3> SUFFICES ASSUME inFlight # NoPack, inFlight \in Elems(sent) PROVE FALSE
      OBVIOUS
    <3>1. inFlight \in Old /\ inFlight \in Nat
      BY DEF Old, RInv, IInv, TypeOK, Packets
    <3>2. QED
      BY <3>1 DEF RInv, IInv, InFlightNewest
  <2>5. QED
    BY <2>2, <2>3, <2>4 DEF Live
<1>3. QED
  BY <1>1, <1>2 DEF RInv, LiveNotDropped, Delivery!Pending,
     Delivery!DeliveredSet, Elems

LEMMA InitRInv == Init => RInv
<1> SUFFICES ASSUME Init PROVE RInv
  OBVIOUS
<1>1. IInv
  BY InitIInv
<1>2. LiveNotDropped /\ PauseDroppedProduced
  BY DEF Init, LiveNotDropped, PauseDroppedProduced
<1>3. QED
  BY <1>1, <1>2 DEF RInv

(* A step that drops nothing and takes no packet in keeps the rest of     *)
(* RInv.                                                                   *)
LEMMA LiveShrinks ==
    ASSUME RInv, Live' \subseteq Live, produced' = produced,
           overflowDropped' = overflowDropped, pauseDropped' = pauseDropped
    PROVE  LiveNotDropped' /\ PauseDroppedProduced'
BY DEF RInv, LiveNotDropped, PauseDroppedProduced

LEMMA RInvStep == RInv /\ [Next]_vars => RInv'
<1> SUFFICES ASSUME RInv, [Next]_vars PROVE RInv'
  OBVIOUS
<1>0. IInv'
  BY IInvStep DEF RInv
<1> DEFINE Rest == LiveNotDropped' /\ PauseDroppedProduced'
<1>a. Rest => RInv'
  BY <1>0 DEF RInv
<1>b. /\ queue \in Seq(Packets) /\ produced \in Nat
      /\ \A x \in Old : x \in 1..produced
      /\ Elems(queue) \subseteq Old
      /\ hand # NoPack => hand \in Old
  BY Apart DEF RInv, IInv, TypeOK, Old
<1>1. CASE QueueRTP
  <2>1. /\ inFlight = NoPack /\ produced' = produced + 1
        /\ UNCHANGED <<queue, hand, overflowDropped>>
    BY <1>1 DEF QueueRTP
  <2>2. Live \subseteq 1..produced
    BY <1>b, <2>1 DEF Live
  <2>3. overflowDropped \subseteq 1..produced
    BY <1>b DEF Old
  <2>4. CASE paused /\ DropWhenPaused
    <3>1. pauseDropped' = pauseDropped \cup {produced + 1} /\ inFlight' = NoPack
      BY <1>1, <2>1, <2>4 DEF QueueRTP
    <3>2. Live' = Live
      BY <2>1, <3>1 DEF Live
    <3>3. produced + 1 \notin Live
      BY <1>b, <2>2
    <3>4. LiveNotDropped'
      BY <2>1, <3>1, <3>2, <3>3 DEF RInv, LiveNotDropped
    <3>5. PauseDroppedProduced'
      <4>1. pauseDropped \subseteq Packets
        BY DEF RInv, IInv, TypeOK
      <4>2. QED
        BY <1>b, <2>1, <3>1, <4>1 DEF RInv, PauseDroppedProduced, Packets
    <3>6. QED
      BY <1>a, <3>4, <3>5
  <2>5. CASE ~(paused /\ DropWhenPaused)
    <3>1. pauseDropped' = pauseDropped /\ inFlight' = produced + 1
      BY <1>1, <2>5 DEF QueueRTP
    <3>2. Live' = Live \cup {produced + 1}
      BY <1>b, <2>1, <3>1 DEF Live, NoPack
    <3>3. produced + 1 \notin overflowDropped \cup pauseDropped
      <4>1. pauseDropped \subseteq Packets
        BY DEF RInv, IInv, TypeOK
      <4>2. QED
        BY <1>b, <2>3, <4>1 DEF RInv, PauseDroppedProduced, Packets
    <3>4. LiveNotDropped'
      BY <2>1, <3>1, <3>2, <3>3 DEF RInv, LiveNotDropped
    <3>5. PauseDroppedProduced'
      <4>1. pauseDropped \subseteq Packets
        BY DEF RInv, IInv, TypeOK
      <4>2. QED
        BY <1>b, <2>1, <3>1, <4>1 DEF RInv, PauseDroppedProduced, Packets
    <3>6. QED
      BY <1>a, <3>4, <3>5
  <2>6. QED
    BY <2>4, <2>5
<1>2. CASE QueueRTPLocked
  <2> DEFINE q == Append(queue, inFlight)
  <2>1. /\ inFlight # NoPack /\ inFlight \in Packets
        /\ queue' = Admit(q)
        /\ overflowDropped' = overflowDropped \cup (Elems(q) \ Elems(Admit(q)))
        /\ inFlight' = NoPack
        /\ UNCHANGED <<hand, produced, pauseDropped>>
    BY <1>2 DEF QueueRTPLocked, RInv, IInv, TypeOK
  <2>2. Elems(q) = Elems(queue) \cup {inFlight} /\ q \in Seq(Packets)
    BY <1>b, <2>1, ElemsAppend, AppendProperties
  <2>3. Elems(Admit(q)) \subseteq Elems(q)
    <3>1. CASE Overflows(Len(q))
      <4>1. q # << >>
        BY <1>b, <2>1, AppendProperties
      <4>2. QED
        BY <2>2, <3>1, <4>1, ElemsTail DEF Admit
    <3>2. QED
      BY <3>1 DEF Admit
  <2>4. hand # NoPack => hand \notin Elems(q)
    BY <2>1, <2>2, Apart DEF RInv
  <2>5. Live' \subseteq Live
    BY <2>1, <2>2, <2>3 DEF Live
  <2>6. LiveNotDropped'
    <3>1. Live' \subseteq Elems(Admit(q)) \cup ({hand} \ {NoPack})
      BY <2>1 DEF Live
    <3>2. QED
      BY <2>1, <2>4, <2>5, <3>1 DEF RInv, LiveNotDropped
  <2>7. QED
    BY <1>a, <2>1, <2>6 DEF RInv, PauseDroppedProduced
<1>3. CASE DrainLoop
  <2>1. Live' = Live /\ UNCHANGED <<produced, overflowDropped, pauseDropped>>
    BY <1>3 DEF DrainLoop, Live
  <2>2. QED
    BY <1>a, <2>1, LiveShrinks
<1>4. CASE DrainLock \/ DrainWoken
  <2>1. /\ UNCHANGED <<produced, inFlight, overflowDropped, pauseDropped>>
        /\ \/ UNCHANGED <<queue, hand>>
           \/ queue # << >> /\ TakeHead
    BY <1>4 DEF DrainLock, DrainWoken
  <2>2. Live' \subseteq Live
    <3>1. CASE queue # << >> /\ TakeHead
      <4>1. hand' = queue[1] /\ queue' = Tail(queue) /\ 1 \in 1..Len(queue)
        BY <1>b, <3>1, HeadTailProperties, EmptySeq DEF TakeHead
      <4>2. Elems(queue') \subseteq Elems(queue) /\ hand' \in Elems(queue)
        BY <1>b, <3>1, <4>1, ElemsTail, ElemsSeq
      <4>3. QED
        BY <2>1, <4>2 DEF Live
    <3>2. QED
      BY <2>1, <3>1 DEF Live
  <2>3. QED
    BY <1>a, <2>1, <2>2, LiveShrinks
<1>5. CASE DrainSend
  <2>1. /\ hand' = NoPack
        /\ UNCHANGED <<produced, inFlight, queue, overflowDropped>>
    BY <1>5 DEF DrainSend
  <2>2. Live' \subseteq Elems(queue) \cup ({inFlight} \ {NoPack})
    BY <2>1 DEF Live
  <2>3. CASE Sendable(hand)
    <3>1. pauseDropped' = pauseDropped
      BY <1>5, <2>3 DEF DrainSend
    <3>2. QED
      BY <1>a, <2>1, <2>2, <3>1, LiveShrinks DEF Live
  <2>4. CASE ~Sendable(hand)
    <3>1. pauseDropped' = pauseDropped \cup ({hand} \ {NoPack})
      BY <1>5, <2>4 DEF DrainSend
    <3>2. hand # NoPack => hand \notin Live'
      BY <2>2, Apart DEF RInv
    <3>3. LiveNotDropped'
      BY <2>1, <2>2, <3>1, <3>2 DEF RInv, LiveNotDropped, Live
    <3>4. PauseDroppedProduced'
      BY <1>b, <2>1, <3>1 DEF RInv, PauseDroppedProduced
    <3>5. QED
      BY <1>a, <3>3, <3>4
  <2>5. QED
    BY <2>3, <2>4
<1>6. ASSUME NEW p \in BOOLEAN, Pause(p) PROVE RInv'
  <2>1. UNCHANGED <<produced, inFlight, hand, overflowDropped>>
    BY <1>6 DEF Pause
  <2>2. CASE p /\ DropWhenPaused /\ queue # << >>
    <3>1. queue' = << >> /\ pauseDropped' = pauseDropped \cup Elems(queue)
      BY <1>6, <2>2 DEF Pause
    <3>2. Live' = {hand, inFlight} \ {NoPack}
      BY <2>1, <3>1 DEF Live, Elems
    <3>3. Live' \cap Elems(queue) = {}
      BY <3>2, Apart DEF RInv
    <3>4. LiveNotDropped'
      BY <2>1, <3>1, <3>2, <3>3 DEF RInv, LiveNotDropped, Live
    <3>5. PauseDroppedProduced'
      BY <1>b, <2>1, <3>1 DEF RInv, PauseDroppedProduced
    <3>6. QED
      BY <1>a, <3>4, <3>5
  <2>3. CASE ~(p /\ DropWhenPaused /\ queue # << >>)
    <3>1. UNCHANGED <<queue, pauseDropped>>
      BY <1>6, <2>3 DEF Pause
    <3>2. QED
      BY <1>a, <2>1, <3>1, LiveShrinks DEF Live
  <2>4. QED
    BY <2>2, <2>3
<1>7. CASE SessionStop \/ StopHandler \/ UNCHANGED vars
  <2>1. UNCHANGED <<produced, inFlight, queue, hand, overflowDropped, pauseDropped>>
    BY <1>7 DEF SessionStop, StopHandler, vars
  <2>2. QED
    BY <1>a, <2>1, LiveShrinks DEF Live
<1>8. QED
  BY <1>1, <1>2, <1>3, <1>4, <1>5, <1>6, <1>7 DEF Next

(* The refinement invariant holds in every reachable state.              *)
THEOREM RInvHolds == Spec => []RInv
BY InitRInv, RInvStep, PTL DEF Spec

-----------------------------------------------------------------------------
(* The initial player is the initial abstract player.                    *)
LEMMA InitRefined == Init => Delivery!Init
BY DEF Init, Delivery!Init

(* Dropping packets the player holds is an abstract drop.                *)
LEMMA DropLive ==
    ASSUME RInv, NEW S \in SUBSET Live,
           overflowDropped' \cup pauseDropped' = overflowDropped \cup pauseDropped \cup S,
           produced' = produced, sent' = sent
    PROVE  Delivery!Next
<1>1. S \subseteq Delivery!Pending
  BY LivePending
<1>2. S \in SUBSET Delivery!Packets
  <2>1. produced \in 0..MaxPackets
    BY DEF RInv, IInv, TypeOK
  <2>2. Delivery!Pending \subseteq 1..produced
    BY DEF Delivery!Pending
  <2>3. QED
    BY <1>1, <2>1, <2>2, PlayerAssumption DEF Delivery!Packets
<1>3. Delivery!Drop(S)
  BY <1>1 DEF Delivery!Drop
<1>4. QED
  BY <1>2, <1>3 DEF Delivery!Next

(* Every step of the player is a step of the abstract player or leaves   *)
(* the produced count, the sent sequence and the dropped set unchanged.  *)
LEMMA StepRefined ==
    RInv /\ [Next]_vars => [Delivery!Next]_(Delivery!absVars)
<1> SUFFICES ASSUME RInv, [Next]_vars
             PROVE  [Delivery!Next]_(Delivery!absVars)
  OBVIOUS
<1> USE PlayerAssumption
<1> DEFINE Same == UNCHANGED <<produced, sent, overflowDropped, pauseDropped>>
<1>0. Same => UNCHANGED Delivery!absVars
  BY DEF Delivery!absVars
<1>1. CASE QueueRTP
  <2>1. /\ produced < MaxPackets /\ produced' = produced + 1
        /\ UNCHANGED <<sent, overflowDropped>>
        /\ pauseDropped' \in {pauseDropped, pauseDropped \cup {produced + 1}}
    BY <1>1 DEF QueueRTP
  <2>2. Delivery!Produce
    BY <2>1 DEF Delivery!Produce
  <2>3. QED
    BY <2>2 DEF Delivery!Next
<1>2. CASE QueueRTPLocked
  <2> DEFINE q == Append(queue, inFlight)
  <2>1. /\ inFlight # NoPack /\ inFlight \in Packets /\ queue \in Seq(Packets)
        /\ overflowDropped' = overflowDropped \cup (Elems(q) \ Elems(Admit(q)))
        /\ UNCHANGED <<produced, sent, pauseDropped>>
    BY <1>2 DEF QueueRTPLocked, RInv, IInv, TypeOK
  <2>2. Elems(q) \subseteq Live
    BY <2>1, ElemsAppend DEF Live
  <2>3. QED
    BY <2>1, <2>2, DropLive
<1>3. CASE DrainSend
  <2>1. UNCHANGED <<produced, overflowDropped>>
    BY <1>3 DEF DrainSend
  <2>2. CASE Sendable(hand)
    <3>1. /\ hand # NoPack /\ hand \in Packets
          /\ sent' = Append(sent, hand) /\ pauseDropped' = pauseDropped
      BY <1>3, <2>2 DEF DrainSend, Sendable, RInv, IInv, TypeOK
    <3>2. hand \in Delivery!Pending
      BY <3>1, LivePending DEF Live
    <3>3. \A i \in 1..Len(sent) : sent[i] < hand
      BY <3>1 DEF RInv, IInv, HandBetween
    <3>4. Delivery!Deliver(hand)
      BY <2>1, <3>1, <3>2, <3>3 DEF Delivery!Deliver
    <3>5. QED
      BY <3>1, <3>4 DEF Delivery!Next, Delivery!Packets, Packets
  <2>3. CASE ~Sendable(hand)
    <3>1. pauseDropped' = pauseDropped \cup ({hand} \ {NoPack}) /\ sent' = sent
      BY <1>3, <2>3 DEF DrainSend
    <3>2. ({hand} \ {NoPack}) \subseteq Live
      BY DEF Live
    <3>3. QED
      BY <2>1, <3>1, <3>2, DropLive
  <2>4. QED
    BY <2>2, <2>3
<1>4. ASSUME NEW p \in BOOLEAN, Pause(p) PROVE [Delivery!Next]_(Delivery!absVars)
  <2>1. UNCHANGED <<produced, sent, overflowDropped>>
    BY <1>4 DEF Pause
  <2>2. CASE p /\ DropWhenPaused /\ queue # << >>
    <3>1. pauseDropped' = pauseDropped \cup Elems(queue)
      BY <1>4, <2>2 DEF Pause
    <3>2. QED
      BY <2>1, <3>1, DropLive DEF Live
  <2>3. CASE ~(p /\ DropWhenPaused /\ queue # << >>)
    <3>1. pauseDropped' = pauseDropped
      BY <1>4, <2>3 DEF Pause
    <3>2. QED
      BY <1>0, <2>1, <3>1
  <2>4. QED
    BY <2>2, <2>3
<1>5. CASE DrainLoop \/ DrainLock \/ DrainWoken \/ SessionStop \/ StopHandler
              \/ UNCHANGED vars
  <2>1. Same
    BY <1>5 DEF DrainLoop, DrainLock, DrainWoken, TakeHead, SessionStop,
                StopHandler, vars
  <2>2. QED
    BY <1>0, <2>1
<1>6. QED
  BY <1>1, <1>2, <1>3, <1>4, <1>5 DEF Next

(* The player implements PlayerDelivery, for every packet count, queue  *)
(* limit and pause policy: the drain loop sends packets in production   *)
(* order, each at most once, never one that the queue limit, QueueRTP    *)
(* while paused, Pause's flush or the drain loop while paused dropped.   *)
THEOREM DeliveryRefined == Spec => DeliverySpec
<1>1. Spec => []RInv
  BY RInvHolds
<1>2. Spec => Delivery!Init
  BY InitRefined DEF Spec
<1>3. Spec => [][Delivery!Next]_(Delivery!absVars)
  BY <1>1, StepRefined, PTL DEF Spec
<1>4. QED
  BY <1>2, <1>3 DEF DeliverySpec, Delivery!Spec
=============================================================================
