\* The registry with distinct channel names, requests racing each other
\* and the shutdown hook.
CONSTANTS
    r1 = r1
    r2 = r2
    i1 = i1
    i2 = i2
    n1 = n1
    n2 = n2
    None = None
    Reqs <- MCReqs
    Ids <- MCIds
    Names <- MCTwoNames
SPECIFICATION Spec
INVARIANT TypeOK
INVARIANT RegisteredNotDestroyed
PROPERTY DestroysComplete
\* Every UUID of the model drawn and the shutdown hook run: nothing is left
\* to do, which is the end of the run and not a deadlock of the code.
CHECK_DEADLOCK FALSE
