SPECIFICATION Spec
CONSTANTS
    ZeroSuffixChainMaxWidth = 54
    SupportedInputCounts <- MCSupportedInputCounts
    InputTrees = 5
    Statements <- MCStatements
    Instructions <- MCInstructions
    NoProof = NoProof
    NoMerge = NoMerge
INVARIANTS
    VerifiesWhatWasProved
