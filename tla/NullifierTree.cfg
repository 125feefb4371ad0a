SPECIFICATION Spec
CONSTANTS
    Nullifiers = {1, 2, 3, 4, 5, 6, 7, 8}
    ZkpBatchSize = 1
    ZkpBatches = 2
    Capacity = 9
    NoRoot = NoRoot
    ForeignTrees <- MCForeignTrees
ACTION_CONSTRAINT FreshInOrder
INVARIANTS
    TypeOK
    SpentOnce
    SafePdaLifetime
    OrderedApplication
    CascadeNeverFails
    NextSlotFree
    InsertedBatchIsZeroed
    UnclosableBound
PROPERTIES
    LedgerSpec
CHECK_DEADLOCK FALSE
