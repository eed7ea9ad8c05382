SPECIFICATION ProcessSpec
CONSTANTS
  MaxOutages = 1
  k1 = k1
  k2 = k2
  Kids = {k1, k2}
  Documents <- Rotation
  Callers = {c1, c2}
  MinInterval = 2
  MaxStep = 2
  MaxSteps = 1
  MaxRotations = 2
  Nil = Nil
CHECK_DEADLOCK FALSE
INVARIANTS NothingStartsHalfUp PoolOutlivesItsUsers ExitTellsTheTruth
PROPERTIES StopEnds IssuerIsNotHammered DeclineIsBounded EveryCallEnds RotationIsPickedUp
