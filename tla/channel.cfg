\* The recording channel and its lifecycle, as the MSU controller drives it.
CONSTANTS
    u1 = u1
    u2 = u2
    Callers <- MCUsers
    Restarters <- MCNoRestarters
    StartCheckResults <- MCNil
    DoStartResults <- doStartResults
    DoRunResults <- MCNil
    DoCloseResults <- MCNil
SPECIFICATION ChSpec
INVARIANT ChTypeOK
INVARIANT CloseSignalNeverBlocks
INVARIANT NoOrphanFfmpeg
PROPERTY DestroyCompletes
