\* Violation run: the deleter only ever looks at the smallest day directory.
CONSTANTS
    MaxTime <- MCMaxTime
    SlotsPerDay <- MCSlotsPerDay
    Cover <- MCCover
SPECIFICATION Spec
PROPERTY ExpiredEventuallyDeleted
