CONSTANTS
  None = None
  Txns = {t1}
  Signers = {s1, s2}
  Calls = {c1, c2, c3}
  Faults = {"error", "lost_ack"}
SPECIFICATION FairSpec
INVARIANTS StatusColumnAgrees SignedOnce
PROPERTIES EveryWriteIsAMethod RowCallsReturn
CHECK_DEADLOCK FALSE
