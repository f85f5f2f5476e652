SPECIFICATION Spec
CONSTANTS
    Specs <- MCSpecs
    Counts <- MCCounts
    Workers = {w1, w2}
    Traversed = {"er", "grid"}
INVARIANTS
    GraphWellFormed
    QueriesFit
    RepliesDetermined
PROPERTIES
    AllAnswered
