SPECIFICATION Spec
CONSTANTS
  Inputs <- RealInputs
  WordBits = 64
INVARIANT BitmapsNeverCostMore
