------------------------- MODULE MC_ChannelRegistry -------------------------
(* Model-checking instance of ChannelRegistry: two concurrent requests,   *)
(* two UUIDs and two channel names.                                     *)
EXTENDS ChannelRegistry

CONSTANTS r1, r2, i1, i2, n1, n2

MCReqs == {r1, r2}
MCIds == {i1, i2}
MCTwoNames == {n1, n2}
=============================================================================
