SPECIFICATION Spec
CONSTANTS
    Radix = 16
    Inputs <- MCInputs
    Base = 3
    WordBits = 2
    MaxWords = 12
    Slack = 1
    Adjacency <- MCAdjacency
    Callers = {7, 8}
    MaxLen = 3
    MaxNew = 1
INVARIANTS
    ContractHolds
    SizesExact
    SlicesSafe
PROPERTIES
    ImplementsIteration
