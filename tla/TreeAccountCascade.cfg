SPECIFICATION Spec
CONSTANTS
    Nullifiers = {1, 2, 3, 4, 5, 6, 7}
    ZkpBatchSize = 1
    ZkpBatches = 2
    Capacity = 8
    NoRoot = NoRoot
    UtxoCapacity = 2
    MaxInputs = 2
    MaxOutputs = 1
    Schedules <- MCSchedules
    MaxFeePerTree = 2
    TreeRent = 1
    PdaRent = 2
    Gifts = {0}
    MaxLamports = 0
ACTION_CONSTRAINT FreshInOrder
INVARIANTS
    Solvent
CHECK_DEADLOCK FALSE
