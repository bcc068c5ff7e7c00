CONSTANTS
  None = None
  NoKey = NoKey
  Calls = {c1, c2, c3, c4}
  Keys = {k1}
  MaxConns = 2
  Faults = {"error", "lost_ack"}
SPECIFICATION FairSpec
INVARIANTS NeverEmpty
PROPERTIES ImplementsIdempotentStore EveryCallReturns
CHECK_DEADLOCK FALSE
