SPECIFICATION Spec
CONSTANTS
    Values <- MCValues
    ZkpBatchSize = 7
    ZkpBatches = 2
    MaxQueued = 17
    ZeroSuffixChainMaxWidth = 15
INVARIANTS
    CompleteChainIsHashChain4
    OpenChainIsPrefix
    PaddedChainIsRightFold
CHECK_DEADLOCK FALSE
