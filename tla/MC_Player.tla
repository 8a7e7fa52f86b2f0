------------------------------ MODULE MC_Player ------------------------------
EXTENDS Player

(* Four packets through a queue of two: the limit is exceeded twice, and  *)
(* a pause can flush a queue that holds packets.                          *)
MCMaxPackets == 4
MCQueueLimit == 2
=============================================================================
