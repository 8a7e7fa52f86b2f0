------------------------------- MODULE Player --------------------------------
(***************************************************************************)
(* One downstream player of the MDU (cvds-mdu/rtsp/player.go): the pusher *)
(* calls QueueRTP with each packet, the player's drain loop (Start) takes *)
(* packets from the queue under the condition variable's lock and sends   *)
(* them, the session's PAUSE calls Pause, and the session's Stop runs the *)
(* stop handler that NewPlayer registers.                                 *)
(*                                                                         *)
(* A packet is its number in the order the pusher produced it.  paused and *)
(* Stopped are read without the lock in the code (unsynchronized bools);  *)
(* each such read is a step of its own, so every interleaving of it with  *)
(* the writers is explored.  The pusher and the session are not under    *)
(* src/: what they do here is taken from the spec (sections 4.5, 4.6).    *)
(***************************************************************************)
EXTENDS Naturals, Sequences

CONSTANTS
    MaxPackets,       \* packets the pusher produces in a behaviour
    QueueLimit,       \* player.queue-limit (0: unbounded)
    DropWhenPaused    \* player.drop-packet-when-paused

ASSUME PlayerAssumption ==
    /\ MaxPackets \in Nat
    /\ QueueLimit \in Nat
    /\ DropWhenPaused \in BOOLEAN

Packets == 1..MaxPackets
NoPack == 0               \* a nil *RTPPack

\* The drain loop of Start: "loop" is the `for !player.Stopped` test,
\* "lock" the locked queue test, "wait" blocked in cond.Wait, "woken"
\* signalled and re-acquiring the lock, "send" the unlocked tail of the
\* loop body, "done" returned.
DrainPcs == {"loop", "lock", "wait", "woken", "send", "done"}

\* The session: "open", "stopping" (Stopped set, handlers not yet run),
\* "closed" (handlers run).
SessionStates == {"open", "stopping", "closed"}

VARIABLES
    produced,         \* packets the pusher has produced so far
    inFlight,         \* the packet of a QueueRTP call past its paused test
    queue,            \* player.queue
    paused,           \* player.paused
    attached,         \* the pusher still holds the player
    session,          \* the session's stop state
    dpc,              \* the drain loop's place
    hand,             \* the drain loop's local pack
    sent,             \* history: packets passed to SendRTP, in order
    overflowDropped,  \* history: packets dropped by the queue limit
    pauseDropped      \* history: packets dropped because of a pause

vars == <<produced, inFlight, queue, paused, attached, session, dpc, hand,
          sent, overflowDropped, pauseDropped>>

Elems(s) == {s[i] : i \in DOMAIN s}

Stopped == session # "open"

-----------------------------------------------------------------------------
(* Mutants (PROJECT.json "mutants").                                      *)
OverflowsOffByOne(len) == QueueLimit > 0 /\ len > QueueLimit + 1
AdmitDropNewest(q) == IF QueueLimit > 0 /\ Len(q) > QueueLimit
                      THEN SubSeq(q, 1, Len(q) - 1) ELSE q
TakeNewest == /\ hand' = queue[Len(queue)]
              /\ queue' = SubSeq(queue, 1, Len(queue) - 1)
SignalLost == UNCHANGED dpc
TakeHeadNoPop == /\ hand' = Head(queue)
                 /\ UNCHANGED queue
SendableNoNilCheck(h) == ~paused

-----------------------------------------------------------------------------
(* `player.queueLimit > 0 && oldLen > int(player.queueLimit)`.             *)
Overflows(len) == QueueLimit > 0 /\ len > QueueLimit

(* The queue after an append: `player.queue[1:]` when it overflows.        *)
Admit(q) == IF Overflows(Len(q)) THEN Tail(q) ELSE q

(* cond.Signal / cond.Broadcast: the one waiter, the drain loop, wakes.    *)
Signal == dpc' = IF dpc = "wait" THEN "woken" ELSE dpc

(* `pack = player.queue[0]; player.queue = player.queue[1:]`.             *)
TakeHead == /\ hand' = Head(queue)
            /\ queue' = Tail(queue)

(* The drain loop sends its pack unless paused or nil.                   *)
Sendable(h) == ~paused /\ h # NoPack

Init ==
    /\ produced = 0
    /\ inFlight = NoPack
    /\ queue = <<>>
    /\ paused = FALSE
    /\ attached = TRUE
    /\ session = "open"
    /\ dpc = "loop"
    /\ hand = NoPack
    /\ sent = <<>>
    /\ overflowDropped = {}
    /\ pauseDropped = {}

(* QueueRTP, up to the lock: the pusher hands over its next packet; a      *)
(* paused player that drops while paused returns at once.                  *)
QueueRTP ==
    /\ attached /\ inFlight = NoPack /\ produced < MaxPackets
    /\ produced' = produced + 1
    /\ IF paused /\ DropWhenPaused
         THEN /\ pauseDropped' = pauseDropped \cup {produced + 1}
              /\ UNCHANGED inFlight
         ELSE /\ inFlight' = produced + 1
              /\ UNCHANGED pauseDropped
    /\ UNCHANGED <<queue, paused, attached, session, dpc, hand, sent,
                   overflowDropped>>

(* QueueRTP under the lock: append, drop the oldest over the limit,        *)
(* Signal, unlock.                                                         *)
QueueRTPLocked ==
    /\ inFlight # NoPack
    /\ LET q == Append(queue, inFlight)
       IN  /\ queue' = Admit(q)
           /\ overflowDropped' = overflowDropped \cup (Elems(q) \ Elems(Admit(q)))
    /\ inFlight' = NoPack
    /\ Signal
    /\ UNCHANGED <<produced, paused, attached, session, hand, sent,
                   pauseDropped>>

(* `for !player.Stopped`: the unlocked test of the drain loop.             *)
DrainLoop ==
    /\ dpc = "loop"
    /\ dpc' = IF Stopped THEN "done" ELSE "lock"
    /\ UNCHANGED <<produced, inFlight, queue, paused, attached, session,
                   hand, sent, overflowDropped, pauseDropped>>

(* Lock; an empty queue waits, otherwise the head is taken and unlocked.   *)
DrainLock ==
    /\ dpc = "lock"
    /\ IF queue = <<>>
         THEN /\ dpc' = "wait"
              /\ UNCHANGED <<queue, hand>>
         ELSE /\ TakeHead
              /\ dpc' = "send"
    /\ UNCHANGED <<produced, inFlight, paused, attached, session, sent,
                   overflowDropped, pauseDropped>>

(* Back from cond.Wait with the lock: take the head if there is one.       *)
DrainWoken ==
    /\ dpc = "woken"
    /\ IF queue = <<>>
         THEN UNCHANGED <<queue, hand>>
         ELSE TakeHead
    /\ dpc' = "send"
    /\ UNCHANGED <<produced, inFlight, paused, attached, session, sent,
                   overflowDropped, pauseDropped>>

(* After the unlock: a paused player discards the packet, a nil pack is    *)
(* skipped, anything else goes to SendRTP (whose error is only logged).    *)
DrainSend ==
    /\ dpc = "send"
    /\ IF Sendable(hand)
         THEN /\ sent' = Append(sent, hand)
              /\ UNCHANGED pauseDropped
         ELSE /\ pauseDropped' = pauseDropped \cup ({hand} \ {NoPack})
              /\ UNCHANGED sent
    /\ hand' = NoPack
    /\ dpc' = "loop"
    /\ UNCHANGED <<produced, inFlight, queue, paused, attached, session,
                   overflowDropped>>

(* Pause(p) from the session's PAUSE or PLAY: under the lock, pausing a   *)
(* player that drops while paused flushes its queue.                       *)
Pause(p) ==
    /\ ~Stopped
    /\ IF p /\ DropWhenPaused /\ queue # <<>>
         THEN /\ queue' = <<>>
              /\ pauseDropped' = pauseDropped \cup Elems(queue)
         ELSE UNCHANGED <<queue, pauseDropped>>
    /\ paused' = p
    /\ UNCHANGED <<produced, inFlight, attached, session, dpc, hand, sent,
                   overflowDropped>>

(* Session.Stop (TEARDOWN or a transport error) sets Stopped.              *)
SessionStop ==
    /\ session = "open"
    /\ session' = "stopping"
    /\ UNCHANGED <<produced, inFlight, queue, paused, attached, dpc, hand,
                   sent, overflowDropped, pauseDropped>>

(* The stop handler of NewPlayer: RemovePlayer, then cond.Broadcast,       *)
(* without the lock.                                                       *)
StopHandler ==
    /\ session = "stopping"
    /\ session' = "closed"
    /\ attached' = FALSE
    /\ Signal
    /\ UNCHANGED <<produced, inFlight, queue, paused, hand, sent,
                   overflowDropped, pauseDropped>>

Next ==
    \/ QueueRTP \/ QueueRTPLocked
    \/ DrainLoop \/ DrainLock \/ DrainWoken \/ DrainSend
    \/ \E p \in BOOLEAN : Pause(p)
    \/ SessionStop \/ StopHandler

(* Goroutines that can run do: the drain loop, a QueueRTP call that has   *)
(* started, and the session's stop handlers once Stop was called.  The   *)
(* pusher producing and the client pausing or stopping are not required. *)
Fairness ==
    /\ WF_vars(QueueRTPLocked)
    /\ WF_vars(DrainLoop) /\ WF_vars(DrainLock)
    /\ WF_vars(DrainWoken) /\ WF_vars(DrainSend)
    /\ WF_vars(StopHandler)

Spec == Init /\ [][Next]_vars /\ Fairness

-----------------------------------------------------------------------------
(* Type invariant.                                                        *)
TypeOK ==
    /\ produced \in 0..MaxPackets
    /\ inFlight \in Packets \cup {NoPack}
    /\ queue \in Seq(Packets)
    /\ paused \in BOOLEAN /\ attached \in BOOLEAN
    /\ session \in SessionStates
    /\ dpc \in DrainPcs
    /\ hand \in Packets \cup {NoPack}
    /\ sent \in Seq(Packets)
    /\ overflowDropped \subseteq Packets /\ pauseDropped \subseteq Packets

(* Queue bound (spec section 8, property 4): with a limit N, QueueRTP     *)
(* never leaves more than N packets in the queue.                          *)
QueueBound ==
    QueueLimit > 0 => Len(queue) <= QueueLimit

(* Overflow drops the oldest: every packet QueueRTP dropped for the limit *)
(* is older than every packet still queued, so what the limit drops is a  *)
(* prefix of what the queue received (spec section 8, property 4).        *)
DropsOldest ==
    \A d \in overflowDropped : \A i \in 1..Len(queue) : d < queue[i]

(* The drain loop sends packets in the order the pusher produced them,    *)
(* each at most once (spec section 7, ordering guarantees), whatever the *)
(* overflow drops, pause flushes and wake-ups in between.                 *)
DeliveredInOrder ==
    \A i, j \in 1..Len(sent) : i < j => sent[i] < sent[j]

(* No packet is stranded in the queue of a live player: every queued      *)
(* packet is eventually taken out, unless the drain loop has returned     *)
(* (spec section 3: every packet entering a queue is sent or dropped).    *)
QueuedEventuallyTaken ==
    \A p \in Packets :
        (p \in Elems(queue)) ~> (p \notin Elems(queue) \/ dpc = "done")

(* Stopping a session ends its player's drain goroutine (spec section 3: *)
(* no leaks under shutdown; the stop handler broadcasts for this).        *)
DrainExitsAfterStop ==
    (session = "closed") ~> (dpc = "done")

-----------------------------------------------------------------------------
(* The player implements PlayerDelivery: what SendRTP received is the     *)
(* delivered sequence, and the packets dropped by the queue limit, by     *)
(* QueueRTP while paused, by Pause's flush and by the drain loop while     *)
(* paused are the dropped set.  Every step of the pusher, the drain loop, *)
(* Pause and the session's stop is a step of the abstract player or      *)
(* leaves it unchanged.                                                    *)
Delivery == INSTANCE PlayerDelivery
                WITH delivered <- sent,
                     dropped <- overflowDropped \cup pauseDropped
DeliverySpec == Delivery!Spec
=============================================================================
