SPECIFICATION Spec
CONSTANTS
    Inputs <- MCInputs
    WordBits = 4
INVARIANTS
    RowsConsistent
    EdgesSplit
    ContractHolds
    BitmapOverhead
