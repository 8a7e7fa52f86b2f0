\* Two pulls on one path, without /restart.
CONSTANTS
    q1 = q1
    q2 = q2
    p1 = p1
    p2 = p2
    None = None
    Reqs <- MCReqs
    Paths <- MCOnePath
    MaxRestarts = 0
SPECIFICATION Spec
INVARIANTS
    RegistryTracksPulls
\* Once every request has been answered and every pull stopped, nothing is left to do.
CHECK_DEADLOCK FALSE
