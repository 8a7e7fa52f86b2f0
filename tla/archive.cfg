\* The mover and the deleter against ffmpeg's segments, monotonic clock.
CONSTANTS
    MaxTime <- MCMaxTime
    SlotsPerDay <- MCSlotsPerDay
    Cover <- MCCover
SPECIFICATION Spec
INVARIANT TypeOK
INVARIANT CurrentNeverMoved
