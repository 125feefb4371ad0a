SPECIFICATION Spec
CONSTANTS
    Payers = {p1, p2}
    MaxTreeId = 2
    Params = {good, other, bad}
    ValidParams = {good, other}
    FullSize = 5
    Step = 2
    Rents = {2, 3}
    MaxLamports = 4
    NoRecord = NoRecord
INVARIANTS
    IdsAreConsecutive
    CreationNeverWedged
PROPERTIES
    FinishedAsStarted
    InitializedIsFunded
