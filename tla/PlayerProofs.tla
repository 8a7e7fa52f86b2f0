---------------------------- MODULE PlayerProofs ----------------------------
(***************************************************************************)
(* Proofs about Player for every packet count, queue limit and pause     *)
(* policy.                                                                 *)
(***************************************************************************)
EXTENDS Player, SequenceTheorems, TLAPS

(* The elements of a sequence are its values at 1..Len.                  *)
LEMMA ElemsSeq ==
    ASSUME NEW S, NEW s \in Seq(S)
    PROVE  /\ Elems(s) \subseteq S
           /\ \A x \in Elems(s) : \E i \in 1..Len(s) : s[i] = x
           /\ \A i \in 1..Len(s) : s[i] \in Elems(s)
BY DEF Elems

(* Tail keeps every element but the head.                                 *)
LEMMA ElemsTail ==
    ASSUME NEW S, NEW s \in Seq(S), s # << >>
    PROVE  /\ Elems(Tail(s)) \subseteq Elems(s)
           /\ Elems(s) \subseteq Elems(Tail(s)) \cup {s[1]}
<1>1. /\ Tail(s) \in Seq(S) /\ Len(Tail(s)) = Len(s) - 1
      /\ \A i \in 1..Len(Tail(s)) : Tail(s)[i] = s[i+1]
      /\ Len(s) \in Nat \ {0}
  BY HeadTailProperties, EmptySeq
<1>2. Elems(Tail(s)) \subseteq Elems(s)
  <2> SUFFICES ASSUME NEW i \in 1..Len(Tail(s)) PROVE Tail(s)[i] \in Elems(s)
    BY <1>1 DEF Elems
  <2>1. i + 1 \in 1..Len(s) /\ Tail(s)[i] = s[i+1]
    BY <1>1
  <2>2. QED
    BY <2>1 DEF Elems
<1>3. ASSUME NEW x \in Elems(s), x # s[1] PROVE x \in Elems(Tail(s))
  <2>1. PICK i \in 1..Len(s) : s[i] = x
    BY ElemsSeq
  <2>2. i - 1 \in 1..Len(Tail(s)) /\ Tail(s)[i-1] = x
    BY <1>1, <1>3, <2>1
  <2>3. QED
    BY <1>1, <2>2, ElemsSeq
<1>4. QED
  BY <1>2, <1>3

(* Append adds its element.                                               *)
LEMMA ElemsAppend ==
    ASSUME NEW S, NEW s \in Seq(S), NEW x \in S
    PROVE  Elems(Append(s, x)) = Elems(s) \cup {x}
<1>1. /\ Append(s, x) \in Seq(S) /\ Len(Append(s, x)) = Len(s) + 1
      /\ \A i \in 1..Len(s) : Append(s, x)[i] = s[i]
      /\ Append(s, x)[Len(s) + 1] = x
  BY AppendProperties
<1>2. Elems(Append(s, x)) \subseteq Elems(s) \cup {x}
  <2> SUFFICES ASSUME NEW y \in Elems(Append(s, x)), y # x PROVE y \in Elems(s)
    OBVIOUS
  <2>1. PICK i \in 1..Len(Append(s, x)) : Append(s, x)[i] = y
    BY <1>1, ElemsSeq
  <2>2. i \in 1..Len(s)
    BY <1>1, <2>1
  <2>3. QED
    BY <1>1, <2>1, <2>2, ElemsSeq
<1>3. Elems(s) \cup {x} \subseteq Elems(Append(s, x))
  <2>1. \A i \in 1..Len(s) : s[i] \in Elems(Append(s, x))
    BY <1>1 DEF Elems
  <2>2. x \in Elems(Append(s, x))
    BY <1>1 DEF Elems
  <2>3. QED
    BY <2>1, <2>2 DEF Elems
<1>4. QED
  BY <1>2, <1>3

(* The packets a step may still compare a new packet with: those queued, *)
(* sent, dropped for the limit, or in the drain loop's hand.              *)
Old == Elems(queue) \cup Elems(sent) \cup overflowDropped \cup ({hand} \ {NoPack})

(* The queue is in production order.                                       *)
QueueSorted == \A i, j \in 1..Len(queue) : i < j => queue[i] < queue[j]

(* The drain loop holds a packet only between taking it and sending it. *)
HandClear == dpc # "send" => hand = NoPack

(* Every packet sent is older than every queued one.                     *)
SentBeforeQueue ==
    \A i \in 1..Len(sent), k \in 1..Len(queue) : sent[i] < queue[k]

(* The packet in the drain loop's hand is younger than every packet sent *)
(* and older than every queued one.                                        *)
HandBetween ==
    hand # NoPack =>
        /\ \A i \in 1..Len(sent) : sent[i] < hand
        /\ \A k \in 1..Len(queue) : hand < queue[k]

(* No packet seen is younger than the last one produced.                  *)
OldProduced == \A x \in Old : x <= produced

(* A QueueRTP call in flight holds the youngest packet.                   *)
InFlightNewest ==
    inFlight # NoPack => /\ inFlight = produced
                        /\ \A x \in Old : x < inFlight

(* The strengthening of the order properties: sent, then hand, then the   *)
(* queue, then the packet of a QueueRTP call in flight, are in production *)
(* order, and a new packet is younger than every packet seen so far.      *)
IInv ==
    /\ TypeOK
    /\ QueueBound
    /\ QueueSorted
    /\ DeliveredInOrder
    /\ DropsOldest
    /\ HandClear
    /\ SentBeforeQueue
    /\ HandBetween
    /\ OldProduced
    /\ InFlightNewest

(* Every packet seen is a packet.                                          *)
LEMMA OldPackets == TypeOK => Old \subseteq Packets
BY ElemsSeq DEF TypeOK, Old, NoPack

LEMMA InitIInv == Init => IInv
<1> SUFFICES ASSUME Init PROVE IInv
  OBVIOUS
<1>1. TypeOK
  <2>1. produced \in 0..MaxPackets
    BY PlayerAssumption DEF Init
  <2>2. queue \in Seq(Packets) /\ sent \in Seq(Packets)
    BY DEF Init
  <2>3. inFlight \in Packets \cup {NoPack} /\ hand \in Packets \cup {NoPack}
    BY DEF Init
  <2>4. QED
    BY <2>1, <2>2, <2>3 DEF Init, TypeOK, DrainPcs, SessionStates
<1>2. Elems(<<>>) = {}
  BY DEF Elems
<1>3. Old = {}
  BY <1>2 DEF Init, Old, NoPack
<1>4. QED
  BY <1>1, <1>3, PlayerAssumption DEF Init, IInv, QueueBound, QueueSorted,
     DeliveredInOrder, DropsOldest, HandClear, SentBeforeQueue, HandBetween,
     OldProduced, InFlightNewest, NoPack

(* A step that forgets packets keeps the newest-packet facts.             *)
LEMMA OldShrinks ==
    ASSUME IInv, Old' \subseteq Old, produced' = produced, inFlight' = inFlight
    PROVE  OldProduced' /\ InFlightNewest'
BY DEF IInv, OldProduced, InFlightNewest

(* Taking the head of a non-empty queue into an empty hand keeps the      *)
(* order facts: the head is younger than what was sent and older than     *)
(* the rest of the queue.                                                  *)
LEMMA TakeHeadKeeps ==
    ASSUME IInv, queue # << >>, hand = NoPack, TakeHead,
           sent' = sent, overflowDropped' = overflowDropped
    PROVE  /\ Old' \subseteq Old
           /\ queue' \in Seq(Packets) /\ hand' \in Packets
           /\ QueueBound' /\ QueueSorted' /\ DropsOldest'
           /\ SentBeforeQueue' /\ HandBetween'
<1>1. /\ queue \in Seq(Packets) /\ Len(queue) \in Nat \ {0}
      /\ Head(queue) = queue[1] /\ Head(queue) \in Packets
      /\ Tail(queue) \in Seq(Packets) /\ Len(Tail(queue)) = Len(queue) - 1
      /\ \A k \in 1..Len(Tail(queue)) : Tail(queue)[k] = queue[k+1]
  BY HeadTailProperties, EmptySeq DEF IInv, TypeOK
<1>2. hand' = queue[1] /\ queue' = Tail(queue)
  BY <1>1 DEF TakeHead
<1>3. Old' \subseteq Old
  <2>1. Elems(queue') \subseteq Elems(queue) /\ hand' \in Elems(queue)
    BY <1>1, <1>2, ElemsTail, ElemsSeq
  <2>2. QED
    BY <2>1 DEF Old
<1>4. QueueBound'
  BY <1>1, <1>2, PlayerAssumption DEF IInv, QueueBound
<1>5. QueueSorted'
  BY <1>1, <1>2 DEF IInv, QueueSorted, Packets
<1>6. DropsOldest'
  BY <1>1, <1>2 DEF IInv, DropsOldest
<1>7. SentBeforeQueue'
  BY <1>1, <1>2 DEF IInv, SentBeforeQueue
<1>8. HandBetween'
  <2>1. \A i \in 1..Len(sent) : sent[i] < hand'
    BY <1>1, <1>2 DEF IInv, SentBeforeQueue
  <2>2. \A k \in 1..Len(queue') : hand' < queue'[k]
    BY <1>1, <1>2 DEF IInv, QueueSorted, Packets
  <2>3. QED
    BY <2>1, <2>2 DEF HandBetween
<1>9. QED
  BY <1>1, <1>2, <1>3, <1>4, <1>5, <1>6, <1>7, <1>8

LEMMA IInvStep == IInv /\ [Next]_vars => IInv'
<1> SUFFICES ASSUME IInv, [Next]_vars PROVE IInv'
  OBVIOUS
<1> USE PlayerAssumption
<1>1. CASE QueueRTP
  <2>1. Old' = Old
    BY <1>1 DEF QueueRTP, Old
  <2>2. TypeOK'
    <3>1. produced + 1 \in Packets /\ produced' \in 0..MaxPackets
      BY <1>1 DEF QueueRTP, IInv, TypeOK, Packets
    <3>2. CASE paused /\ DropWhenPaused
      BY <1>1, <3>1, <3>2 DEF QueueRTP, IInv, TypeOK
    <3>3. CASE ~(paused /\ DropWhenPaused)
      BY <1>1, <3>1, <3>3 DEF QueueRTP, IInv, TypeOK
    <3>4. QED
      BY <3>2, <3>3
  <2>3. Old \subseteq Nat /\ produced \in Nat
    BY OldPackets DEF IInv, TypeOK, Packets
  <2>4. OldProduced'
    BY <1>1, <2>1, <2>3 DEF QueueRTP, IInv, OldProduced
  <2>5. InFlightNewest'
    BY <1>1, <2>1, <2>3 DEF QueueRTP, IInv, OldProduced, InFlightNewest, NoPack
  <2>6. QED
    BY <1>1, <2>2, <2>4, <2>5
       DEF QueueRTP, IInv, QueueBound, QueueSorted, DeliveredInOrder,
           DropsOldest, HandClear, SentBeforeQueue, HandBetween
<1>2. CASE QueueRTPLocked
  <2> DEFINE q == Append(queue, inFlight)
  <2>1. /\ inFlight \in Packets /\ inFlight = produced
        /\ \A x \in Old : x < inFlight
    BY <1>2 DEF QueueRTPLocked, IInv, TypeOK, InFlightNewest, NoPack
  <2>2. /\ q \in Seq(Packets) /\ Len(q) = Len(queue) + 1
        /\ \A i \in 1..Len(queue) : q[i] = queue[i]
        /\ q[Len(queue) + 1] = inFlight
        /\ Elems(q) = Elems(queue) \cup {inFlight}
    BY <2>1, AppendProperties, ElemsAppend DEF IInv, TypeOK
  <2>3. \A i \in 1..Len(queue) : queue[i] < inFlight
    BY <2>1, ElemsSeq DEF IInv, TypeOK, Old
  <2>4. \A i, j \in 1..Len(q) : i < j => q[i] < q[j]
    BY <2>2, <2>3 DEF IInv, QueueSorted
  <2>5. /\ \A i \in 1..Len(sent) : sent[i] < inFlight
        /\ hand # NoPack => hand < inFlight
        /\ \A d \in overflowDropped : d < inFlight
    BY <2>1, ElemsSeq DEF IInv, TypeOK, Old
  <2>6. /\ \A i \in 1..Len(sent), k \in 1..Len(q) : sent[i] < q[k]
        /\ hand # NoPack => \A k \in 1..Len(q) : hand < q[k]
        /\ \A d \in overflowDropped, k \in 1..Len(q) : d < q[k]
    BY <2>2, <2>5 DEF IInv, SentBeforeQueue, HandBetween, DropsOldest
  <2>7. /\ inFlight' = NoPack /\ hand' = hand /\ sent' = sent
        /\ produced' = produced /\ dpc' \in DrainPcs
        /\ HandClear'
    BY <1>2 DEF QueueRTPLocked, Signal, IInv, TypeOK, HandClear, DrainPcs
  <2>8. CASE Overflows(Len(q))
    <3>1. /\ queue' = Tail(q)
          /\ overflowDropped' = overflowDropped \cup (Elems(q) \ Elems(Tail(q)))
      BY <1>2, <2>8 DEF QueueRTPLocked, Admit
    <3>2. /\ Tail(q) \in Seq(Packets) /\ Len(Tail(q)) = Len(queue)
          /\ \A k \in 1..Len(Tail(q)) : Tail(q)[k] = q[k+1]
          /\ Elems(Tail(q)) \subseteq Elems(q)
          /\ Elems(q) \ Elems(Tail(q)) \subseteq {q[1]}
      <4>1. q # << >>
        BY <2>1, AppendProperties DEF IInv, TypeOK
      <4>2. /\ Tail(q) \in Seq(Packets) /\ Len(Tail(q)) = Len(q) - 1
            /\ \A k \in 1..Len(Tail(q)) : Tail(q)[k] = q[k+1]
        BY <2>2, <4>1, HeadTailProperties
      <4>3. Elems(Tail(q)) \subseteq Elems(q)
            /\ Elems(q) \subseteq Elems(Tail(q)) \cup {q[1]}
        BY <2>2, <4>1, ElemsTail
      <4>4. QED
        BY <2>2, <4>2, <4>3
    <3>3. TypeOK'
      BY <1>2, <2>2, <2>7, <3>1, <3>2, ElemsSeq
         DEF QueueRTPLocked, IInv, TypeOK, NoPack
    <3>4. QueueBound' /\ QueueSorted'
      <4>1. Len(queue) \in Nat
        BY DEF IInv, TypeOK
      <4>2. QueueBound'
        BY <3>1, <3>2, <4>1, PlayerAssumption DEF IInv, QueueBound
      <4>3. QueueSorted'
        <5>1. SUFFICES ASSUME NEW i \in 1..Len(queue), NEW j \in 1..Len(queue),
                              i < j
                       PROVE  Tail(q)[i] < Tail(q)[j]
          BY <3>1, <3>2 DEF QueueSorted
        <5>2. i + 1 \in 1..Len(q) /\ j + 1 \in 1..Len(q) /\ i + 1 < j + 1
          <6>1. Len(q) = Len(queue) + 1
            BY <2>2
          <6>2. QED
            BY <6>1, <4>1, <5>1
        <5>3. Tail(q)[i] = q[i+1] /\ Tail(q)[j] = q[j+1]
          BY <3>2
        <5>4. QED
          BY <2>4, <5>2, <5>3
      <4>4. QED
        BY <4>2, <4>3
    <3>5. DropsOldest'
      BY <2>4, <2>6, <3>1, <3>2, <2>2 DEF DropsOldest
    <3>6. SentBeforeQueue' /\ HandBetween'
      <4>1. \A k \in 1..Len(queue') : k + 1 \in 1..Len(q) /\ queue'[k] = q[k+1]
        <5>1. Len(queue) \in Nat
          BY DEF IInv, TypeOK
        <5>2. QED
          BY <5>1, <3>1, <3>2, <2>2
      <4>2. SentBeforeQueue'
        BY <4>1, <2>6, <2>7 DEF SentBeforeQueue
      <4>3. HandBetween'
        BY <4>1, <2>6, <2>7 DEF IInv, HandBetween
      <4>4. QED
        BY <4>2, <4>3
    <3>7. OldProduced' /\ InFlightNewest'
      <4>1. Old' \subseteq Old \cup {inFlight}
        BY <2>2, <2>7, <3>1, <3>2 DEF Old
      <4>2. QED
        <5>1. Old \subseteq Nat /\ produced \in Nat
          BY OldPackets DEF IInv, TypeOK, Packets
        <5>2. OldProduced'
          BY <4>1, <5>1, <2>1, <2>7 DEF IInv, OldProduced
        <5>3. InFlightNewest'
          BY <2>7 DEF InFlightNewest
        <5>4. QED
          BY <5>2, <5>3
    <3>8. QED
      BY <2>7, <3>3, <3>4, <3>5, <3>6, <3>7 DEF IInv, DeliveredInOrder
  <2>9. CASE ~Overflows(Len(q))
    <3>1. queue' = q /\ overflowDropped' = overflowDropped
      BY <1>2, <2>9 DEF QueueRTPLocked, Admit
    <3>2. TypeOK'
      BY <1>2, <2>2, <2>7, <3>1 DEF QueueRTPLocked, IInv, TypeOK, NoPack
    <3>3. QueueBound' /\ QueueSorted'
      BY <2>4, <2>9, <3>1 DEF QueueBound, QueueSorted, Overflows
    <3>4. DropsOldest' /\ SentBeforeQueue' /\ HandBetween'
      BY <2>6, <2>7, <3>1, <2>2, <2>5 DEF IInv, DropsOldest, SentBeforeQueue, HandBetween
    <3>5. OldProduced' /\ InFlightNewest'
      <4>1. Old' \subseteq Old \cup {inFlight}
        BY <2>2, <2>7, <3>1 DEF Old
      <4>2. QED
        <5>1. Old \subseteq Nat /\ produced \in Nat
          BY OldPackets DEF IInv, TypeOK, Packets
        <5>2. OldProduced'
          BY <4>1, <5>1, <2>1, <2>7 DEF IInv, OldProduced
        <5>3. InFlightNewest'
          BY <2>7 DEF InFlightNewest
        <5>4. QED
          BY <5>2, <5>3
    <3>6. QED
      BY <2>7, <3>2, <3>3, <3>4, <3>5 DEF IInv, DeliveredInOrder
  <2>10. QED
    BY <2>8, <2>9
<1>3. CASE DrainLoop
  <2>1. Old' = Old
    BY <1>3 DEF DrainLoop, Old
  <2>2. QED
    BY <1>3, <2>1, OldShrinks
       DEF DrainLoop, IInv, TypeOK, QueueBound, QueueSorted, DeliveredInOrder,
           DropsOldest, HandClear, SentBeforeQueue, HandBetween, DrainPcs
<1>4. CASE DrainLock
  <2>1. hand = NoPack
    BY <1>4 DEF DrainLock, IInv, HandClear
  <2>2. CASE queue = << >>
    <3>1. Old' = Old
      BY <1>4, <2>2 DEF DrainLock, Old
    <3>2. QED
      BY <1>4, <2>1, <2>2, <3>1, OldShrinks
         DEF DrainLock, IInv, TypeOK, QueueBound, QueueSorted, DeliveredInOrder,
             DropsOldest, HandClear, SentBeforeQueue, HandBetween, DrainPcs
  <2>3. CASE queue # << >>
    <3>1. TakeHead /\ sent' = sent /\ overflowDropped' = overflowDropped
      BY <1>4, <2>3 DEF DrainLock
    <3>2. Old' \subseteq Old
      BY <2>1, <2>3, <3>1, TakeHeadKeeps
    <3>3. QED
      BY <1>4, <2>1, <2>3, <3>1, <3>2, TakeHeadKeeps, OldShrinks
         DEF DrainLock, IInv, TypeOK, DeliveredInOrder, HandClear, DrainPcs
  <2>4. QED
    BY <2>2, <2>3
<1>5. CASE DrainWoken
  <2>1. hand = NoPack
    BY <1>5 DEF DrainWoken, IInv, HandClear
  <2>2. CASE queue = << >>
    <3>1. Old' = Old
      BY <1>5, <2>2 DEF DrainWoken, Old
    <3>2. QED
      BY <1>5, <2>1, <2>2, <3>1, OldShrinks
         DEF DrainWoken, IInv, TypeOK, QueueBound, QueueSorted, DeliveredInOrder,
             DropsOldest, HandClear, SentBeforeQueue, HandBetween, DrainPcs
  <2>3. CASE queue # << >>
    <3>1. TakeHead /\ sent' = sent /\ overflowDropped' = overflowDropped
      BY <1>5, <2>3 DEF DrainWoken
    <3>2. Old' \subseteq Old
      BY <2>1, <2>3, <3>1, TakeHeadKeeps
    <3>3. QED
      BY <1>5, <2>1, <2>3, <3>1, <3>2, TakeHeadKeeps, OldShrinks
         DEF DrainWoken, IInv, TypeOK, DeliveredInOrder, HandClear, DrainPcs
  <2>4. QED
    BY <2>2, <2>3
<1>6. CASE DrainSend
  <2>1. hand' = NoPack /\ dpc' = "loop" /\ queue' = queue
        /\ overflowDropped' = overflowDropped
    BY <1>6 DEF DrainSend
  <2>2. CASE Sendable(hand)
    <3>1. hand \in Packets
      BY <2>2 DEF Sendable, IInv, TypeOK, NoPack
    <3>2. /\ sent' = Append(sent, hand)
          /\ sent' \in Seq(Packets) /\ Len(sent') = Len(sent) + 1
          /\ \A i \in 1..Len(sent) : sent'[i] = sent[i]
          /\ sent'[Len(sent) + 1] = hand
          /\ Elems(sent') = Elems(sent) \cup {hand}
      <4>1. sent' = Append(sent, hand)
        BY <1>6, <2>2 DEF DrainSend
      <4>2. QED
        BY <4>1, <3>1, AppendProperties, ElemsAppend DEF IInv, TypeOK
    <3>3. DeliveredInOrder'
      BY <3>1, <3>2, <2>2 DEF IInv, DeliveredInOrder, HandBetween, Sendable
    <3>4. SentBeforeQueue'
      BY <2>1, <3>2, <2>2 DEF IInv, SentBeforeQueue, HandBetween, Sendable
    <3>5. Old' \subseteq Old
      BY <2>1, <3>2, <3>1 DEF Old, NoPack, Packets
    <3>6. TypeOK'
      BY <1>6, <2>1, <3>2 DEF DrainSend, IInv, TypeOK, DrainPcs, NoPack
    <3>7. QED
      BY <1>6, <2>1, <3>3, <3>4, <3>5, <3>6, OldShrinks
         DEF DrainSend, IInv, QueueBound, QueueSorted, DropsOldest, HandClear,
             HandBetween
  <2>3. CASE ~Sendable(hand)
    <3>1. sent' = sent
      BY <1>6, <2>3 DEF DrainSend
    <3>2. Old' \subseteq Old
      BY <2>1, <3>1 DEF Old, NoPack
    <3>3. TypeOK'
      BY <1>6, <2>1, <2>3, <3>1 DEF DrainSend, IInv, TypeOK, DrainPcs, NoPack
    <3>4. QED
      BY <1>6, <2>1, <3>1, <3>2, <3>3, OldShrinks
         DEF DrainSend, IInv, QueueBound, QueueSorted, DeliveredInOrder,
             DropsOldest, HandClear, SentBeforeQueue, HandBetween
  <2>4. QED
    BY <2>2, <2>3
<1>7. ASSUME NEW p \in BOOLEAN, Pause(p) PROVE IInv'
  <2>1. CASE p /\ DropWhenPaused /\ queue # << >>
    <3>1. queue' = << >> /\ pauseDropped' = pauseDropped \cup Elems(queue)
      BY <1>7, <2>1 DEF Pause
    <3>2. Elems(<< >>) = {} /\ Len(<< >>) = 0 /\ << >> \in Seq(Packets)
      BY EmptySeq DEF Elems
    <3>3. Old' \subseteq Old
      BY <1>7, <3>1, <3>2 DEF Pause, Old
    <3>4. TypeOK'
      BY <1>7, <3>1, <3>2, ElemsSeq DEF Pause, IInv, TypeOK
    <3>5. QED
      BY <1>7, <3>1, <3>2, <3>3, <3>4, OldShrinks, PlayerAssumption
         DEF Pause, IInv, QueueBound, QueueSorted, DeliveredInOrder,
             DropsOldest, HandClear, SentBeforeQueue, HandBetween
  <2>2. CASE ~(p /\ DropWhenPaused /\ queue # << >>)
    <3>1. Old' = Old
      BY <1>7, <2>2 DEF Pause, Old
    <3>2. QED
      BY <1>7, <2>2, <3>1, OldShrinks
         DEF Pause, IInv, TypeOK, QueueBound, QueueSorted, DeliveredInOrder,
             DropsOldest, HandClear, SentBeforeQueue, HandBetween
  <2>3. QED
    BY <2>1, <2>2
<1>8. CASE SessionStop
  <2>1. Old' = Old
    BY <1>8 DEF SessionStop, Old
  <2>2. QED
    BY <1>8, <2>1, OldShrinks
       DEF SessionStop, IInv, TypeOK, QueueBound, QueueSorted, DeliveredInOrder,
           DropsOldest, HandClear, SentBeforeQueue, HandBetween, SessionStates
<1>9. CASE StopHandler
  <2>1. Old' = Old
    BY <1>9 DEF StopHandler, Old
  <2>2. QED
    BY <1>9, <2>1, OldShrinks
       DEF StopHandler, Signal, IInv, TypeOK, QueueBound, QueueSorted,
           DeliveredInOrder, DropsOldest, HandClear, SentBeforeQueue,
           HandBetween, SessionStates, DrainPcs
<1>10. CASE UNCHANGED vars
  BY <1>10 DEF vars, IInv, TypeOK, QueueBound, QueueSorted, DeliveredInOrder,
     DropsOldest, HandClear, SentBeforeQueue, HandBetween, OldProduced,
     InFlightNewest, Old
<1>11. QED
  BY <1>1, <1>2, <1>3, <1>4, <1>5, <1>6, <1>7, <1>8, <1>9, <1>10 DEF Next
-----------------------------------------------------------------------------
(* The strengthened invariant holds in every reachable state.             *)
THEOREM IInvHolds == Spec => []IInv
<1>1. Init => IInv
  BY InitIInv
<1>2. IInv /\ [Next]_vars => IInv'
  BY IInvStep
<1>3. QED
  BY <1>1, <1>2, PTL DEF Spec

(* QueueRTP, the drain loop, Pause and the session's stop keep every     *)
(* variable of the player in its type, for every instance.                *)
THEOREM TypeCorrect == Spec => []TypeOK
BY IInvHolds, PTL DEF IInv

(* With a queue limit N, QueueRTP never leaves more than N packets queued, *)
(* for every limit and every number of packets.                            *)
THEOREM QueueBounded == Spec => []QueueBound
BY IInvHolds, PTL DEF IInv

(* What the queue limit drops in QueueRTPLocked is always older than      *)
(* every packet still queued: the overflow drops the oldest.               *)
THEOREM OverflowDropsOldest == Spec => []DropsOldest
BY IInvHolds, PTL DEF IInv

(* The drain loop of Start sends packets in the order the pusher produced *)
(* them, each once, whatever the overflow drops, pause flushes, wake-ups  *)
(* and unsynchronized reads of paused and Stopped in between.             *)
THEOREM SendsInOrder == Spec => []DeliveredInOrder
BY IInvHolds, PTL DEF IInv
=============================================================================
