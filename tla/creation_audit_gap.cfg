SPECIFICATION Spec
CONSTANTS
  Requests = {r1, r2}
  Keys = {k1}
  None = None
  Bodies <- MCGoodBodies
  MaxBitcoinAmount = 0
  MaxEVMAmount = None
  EvmDevKey = FALSE
  EvmRpc = FALSE
  Faults = {"cancel"}
CHECK_DEADLOCK FALSE
INVARIANTS AcknowledgedIsAudited
