SPECIFICATION Spec
CONSTANTS
    Nullifiers = {1, 2, 3, 4, 5}
    ZkpBatchSize = 1
    ZkpBatches = 1
    Capacity = 6
    NoRoot = NoRoot
    UtxoCapacity = 2
    MaxInputs = 2
    MaxOutputs = 1
    Schedules <- MCSchedules
    MaxFeePerTree = 2
    TreeRent = 1
    PdaRent = 2
    Gifts = {0, 1, 3}
    MaxLamports = 9
ACTION_CONSTRAINT FreshInOrder
INVARIANTS
    Solvent
    NeverStarved
CHECK_DEADLOCK FALSE
