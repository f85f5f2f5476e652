SPECIFICATION Spec
CONSTANT Inputs <- MCInputs
INVARIANTS
    OffsetsCount
    ScatterInBlock
    BlocksPartition
    ContractHolds
