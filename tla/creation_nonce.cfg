SPECIFICATION Spec
CONSTANTS
  Requests = {r1, r2, r3, r4}
  Keys = {}
  None = None
  Bodies <- MCGoodBodies
  MaxBitcoinAmount = 1
  MaxEVMAmount = None
  EvmDevKey = TRUE
  EvmRpc = FALSE
  Faults <- MCAllFaults
SYMMETRY MCSymmetry
CHECK_DEADLOCK FALSE
INVARIANTS NoncesAreUnique
