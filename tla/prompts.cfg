SPECIFICATION Spec
CONSTANTS
  zero = zero
  good = good
  other = other
  x = x
  y = y
  junk = junk
  none = none
  Values <- AllValues
  Zero <- zero
  Accepts <- Accepted
  None <- none
  Targets <- TwoTargets
  Junk <- junk
  Calls <- AllCalls
  Start <- AtZero
INVARIANTS
  FaultyFormOnlySeeds
  DefaultsTakenOrReported
  OnlyAcceptedStored
  ConfirmIsEarned
CHECK_DEADLOCK FALSE
