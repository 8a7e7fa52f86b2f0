\* One pull, stopped by StreamStop while its upstream fails.
CONSTANTS
    q1 = q1
    q2 = q2
    p1 = p1
    p2 = p2
    None = None
    Reqs <- MCOneReq
    Paths <- MCOnePath
    MaxRestarts = 0
SPECIFICATION Spec
INVARIANTS
    StopNeverPanics
\* Once every request has been answered and every pull stopped, nothing is left to do.
CHECK_DEADLOCK FALSE
