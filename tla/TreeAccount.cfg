SPECIFICATION Spec
CONSTANTS
    Nullifiers = {1, 2, 3, 4, 5, 6, 7, 8, 9, 10}
    ZkpBatchSize = 2
    ZkpBatches = 1
    Capacity = 10
    NoRoot = NoRoot
    UtxoCapacity = 2
    MaxInputs = 2
    MaxOutputs = 1
    Schedules <- MCSchedules
    MaxFeePerTree = 2
    TreeRent = 1
    PdaRent = 2
    Gifts = {0}
    MaxLamports = 0
ACTION_CONSTRAINT FreshInOrder
INVARIANTS
    Solvent
    LiveCountIsExact
    NeverStarved
    UtxosStaySpendable
    NoDoubleSpend
    PdaRecordsQueueIndex
PROPERTIES
    ClaimKeepsOwed
    FrozenWhilePaused
CHECK_DEADLOCK FALSE
