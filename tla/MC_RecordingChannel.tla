----------------------- MODULE MC_RecordingChannel -----------------------
(* Model-checking instance of RecordingChannel: two users (say, a         *)
(* StartChannel request and a StopChannel or StopAll), the channel's own  *)
(* runner results: doStart as RecordingChannel has it, doRun and doClose *)
(* return nil.                                                           *)
EXTENDS RecordingChannel

CONSTANTS u1, u2

MCUsers == {u1, u2}
MCNoRestarters == {}
MCNil == {"nil"}
=============================================================================
