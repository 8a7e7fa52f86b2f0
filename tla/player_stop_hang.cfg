\* Stop racing the drain loop's unlocked Stopped test.
CONSTANTS
    MaxPackets <- MCMaxPackets
    QueueLimit <- MCQueueLimit
    DropWhenPaused = TRUE
SPECIFICATION Spec
PROPERTIES
    DrainExitsAfterStop
\* A stopped player whose drain loop has returned has nothing left to do.
CHECK_DEADLOCK FALSE
