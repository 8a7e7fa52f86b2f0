----------------------------- MODULE MC_Archive -----------------------------
(* Model-checking instance of Archive: six clock slots, two per day       *)
(* directory, so that three day directories exist; a file expires two    *)
(* slots after its creation.                                              *)
EXTENDS Archive

MCMaxTime == 5
MCSlotsPerDay == 2
MCCover == 1
=============================================================================
