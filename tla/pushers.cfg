\* Two pulls over two paths (both may ask for the same one), with one /restart.
CONSTANTS
    q1 = q1
    q2 = q2
    p1 = p1
    p2 = p2
    None = None
    Reqs <- MCReqs
    Paths <- MCPaths
    MaxRestarts <- MCMaxRestarts
SPECIFICATION Spec
PROPERTIES
    StopReleases
    StreamStopFreesPath
\* Once every request has been answered and every pull stopped, nothing is left to do.
CHECK_DEADLOCK FALSE
