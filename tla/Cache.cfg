SPECIFICATION Spec
CONSTANTS
    Caches = {c1, c2}
    Authorities = {a1, a2}
    Trees = {t1, t2}
    Slots = {0, 1}
    MaxInputs = 1
    MaxOutputs = 2
    MaxUtxos = 2
    MaxTime = 2
    NoCache = NoCache
    Empty = Empty
SYMMETRY Symmetry
INVARIANTS
    HoldsUtxosOfItsTree
PROPERTIES
    SpendsEarlierOutputs
    KeptUntilClosed
CHECK_DEADLOCK FALSE
