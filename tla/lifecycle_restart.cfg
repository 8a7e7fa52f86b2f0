\* Restart interleaved with Start, Close and run exits: futures stay accounted.
CONSTANTS
    c1 = c1
    c2 = c2
    Callers <- MCCallers
    Restarters <- MCOneRestarter
    StartCheckResults <- MCResults
    DoStartResults <- MCResults
    DoRunResults <- MCResults
    DoCloseResults <- MCResults
SPECIFICATION Spec
INVARIANT WaitersAccounted
\* Callers may all block waiting on each other, as in lifecycle.cfg.
CHECK_DEADLOCK FALSE
