--------------------------- MODULE PlayerDelivery ---------------------------
(***************************************************************************)
(* What one MDU player promises (spec sections 3, 7 and 8), without its  *)
(* queue, lock or goroutines: every packet the pusher produces is either *)
(* delivered, in production order and at most once, or dropped, and a     *)
(* dropped packet is never delivered.  Player implements this module      *)
(* (PlayerProofs.DeliveryRefined).                                         *)
(***************************************************************************)
EXTENDS Naturals, Sequences

CONSTANT MaxPackets

VARIABLES
    produced,    \* packets produced so far, numbered 1..produced
    delivered,   \* packets delivered to the client, in order
    dropped      \* packets dropped, never to be delivered

absVars == <<produced, delivered, dropped>>

Packets == 1..MaxPackets

DeliveredSet == {delivered[i] : i \in DOMAIN delivered}

(* Produced packets neither delivered nor dropped yet.                    *)
Pending == (1..produced) \ (DeliveredSet \cup dropped)

Init ==
    /\ produced = 0
    /\ delivered = <<>>
    /\ dropped = {}

(* The pusher produces its next packet, which may be dropped at once.    *)
Produce ==
    /\ produced < MaxPackets
    /\ produced' = produced + 1
    /\ dropped' \in {dropped, dropped \cup {produced + 1}}
    /\ UNCHANGED delivered

(* A pending packet younger than every delivered one is delivered.       *)
Deliver(p) ==
    /\ p \in Pending
    /\ \A i \in 1..Len(delivered) : delivered[i] < p
    /\ delivered' = Append(delivered, p)
    /\ UNCHANGED <<produced, dropped>>

(* Some pending packets are dropped.                                      *)
Drop(S) ==
    /\ S \subseteq Pending
    /\ dropped' = dropped \cup S
    /\ UNCHANGED <<produced, delivered>>

Next ==
    \/ Produce
    \/ \E p \in Packets : Deliver(p)
    \/ \E S \in SUBSET Packets : Drop(S)

Spec == Init /\ [][Next]_absVars
=============================================================================
