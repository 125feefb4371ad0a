SPECIFICATION Spec
CONSTANTS
    Nullifiers = {1, 2, 3, 4, 5, 6, 7, 8, 9, 10, 11, 12, 13, 14}
    ZkpBatchSize = 2
    ZkpBatches = 2
    Capacity = 14
    NoRoot = NoRoot
    ForeignTrees <- MCForeignTrees
ACTION_CONSTRAINT FreshInOrder
INVARIANTS
    SpentOnce
    SafePdaLifetime
    OrderedApplication
    CascadeNeverFails
CHECK_DEADLOCK FALSE
