SPECIFICATION MCSpec
CONSTANTS
  Events = {e1, e2, e3, e4}
  Resources = {t1, t2}
  MaxLimit = 3
  DefaultLimit = 2
  MaxClock = 2
  MaxInt64 = 4
  MaxNumber = 6
  Malformed = Malformed
  None = None
  Signers = {alice, bob}
  MaxItems = 2
  Blank = Blank
SYMMETRY MCSymmetry
CHECK_DEADLOCK FALSE
INVARIANTS
  LogInv
  PageIsFull
  EffectsAboveCauses
  DecidesAsConfigured
