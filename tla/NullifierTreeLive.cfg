SPECIFICATION FairSpec
CONSTANTS
    Nullifiers = {1, 2, 3, 4, 5, 6, 7}
    ZkpBatchSize = 1
    ZkpBatches = 2
    Capacity = 8
    NoRoot = NoRoot
    ForeignTrees <- MCForeignTrees
ACTION_CONSTRAINT FreshInOrder
PROPERTIES
    QueueDrains
    PdasReclaimed
CHECK_DEADLOCK FALSE
