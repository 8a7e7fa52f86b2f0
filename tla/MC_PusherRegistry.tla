-------------------------- MODULE MC_PusherRegistry --------------------------
EXTENDS PusherRegistry

CONSTANTS q1, q2, p1, p2

(* Two pulls, on one path or on two, and one restart.                     *)
MCReqs == {q1, q2}
MCPaths == {p1, p2}
MCMaxRestarts == 1

(* One path: every pair of pulls competes for it.                         *)
MCOnePath == {p1}

(* One pull.                                                              *)
MCOneReq == {q1}
=============================================================================
