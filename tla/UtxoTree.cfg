SPECIFICATION Spec
CONSTANTS
    Height = 3
    RootHistoryCapacity = 3
    MaxBatch = 3
    MaxSlot = 5
INVARIANTS
    RootIsMerkleRoot
    AcceptsRecentSlots
    LayoutStaysValid
CHECK_DEADLOCK FALSE
