SPECIFICATION Spec
CONSTANTS
  Requests = {r1, r2, r3}
  Keys = {k1}
  None = None
  Bodies <- MCBodies
  MaxBitcoinAmount = 0
  MaxEVMAmount = 1
  EvmDevKey = FALSE
  EvmRpc = TRUE
  Faults <- MCAllFaults
SYMMETRY MCSymmetry
CHECK_DEADLOCK FALSE
INVARIANTS
  KeyCreatesOnce
  RepliesAgree
  ReplyIsInScope
  CreationAuditedOnce
  NoncesAreReachable
  SafetyInv
PROPERTIES
  StoredWithMaterial
  ImplementsIdempotentStore
