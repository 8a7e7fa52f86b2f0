\* The lifecycle as the repository uses it: nobody calls Restart.
CONSTANTS
    c1 = c1
    c2 = c2
    Callers <- MCCallers
    Restarters <- MCNoRestarters
    StartCheckResults <- MCResults
    DoStartResults <- MCResults
    DoRunResults <- MCResults
    DoCloseResults <- MCResults
SPECIFICATION Spec
INVARIANT TypeOK
INVARIANT RunGoroutineIffRunning
INVARIANT WaitersAccounted
PROPERTY CloseWaitCompletes
\* Both callers may block in AddRunningFuture with nobody left to Start:
\* the library allows that, so a state with no successor is not an error.
CHECK_DEADLOCK FALSE
