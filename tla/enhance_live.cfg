SPECIFICATION FairSpec
CONSTANTS
  o1 = o1
  o2 = o2
  None = None
  Workers = {w1, w2}
  Objects = {o1, o2}
  Fields <- OneField
  Values = {0, 1}
  Inputs = {0, 1, 2, 3}
  Validated <- Fold
  Origin = 0
  Plans = {n1, n2}
  Batches <- Crossing
  RunIds = {r1, r2}
  Kinds = {"apply", "retry", "rename"}
CHECK_DEADLOCK FALSE
PROPERTIES EveryRequestEnds
