\* One player fed four packets through a queue limit of two, dropping while paused.
CONSTANTS
    MaxPackets <- MCMaxPackets
    QueueLimit <- MCQueueLimit
    DropWhenPaused = TRUE
SPECIFICATION Spec
INVARIANTS
    TypeOK
    QueueBound
    DropsOldest
    DeliveredInOrder
PROPERTIES
    QueuedEventuallyTaken
    DeliverySpec
\* A stopped player whose drain loop has returned has nothing left to do.
CHECK_DEADLOCK FALSE
