--------------------------- MODULE MC_Lifecycle ---------------------------
(* Model-checking instance of Lifecycle: two callers, every runner result *)
(* possible.  Which callers may Restart is chosen per configuration.      *)
EXTENDS Lifecycle

CONSTANTS c1, c2

MCCallers == {c1, c2}
MCNoRestarters == {}
MCOneRestarter == {c1}
MCResults == {"nil", "err"}
=============================================================================
