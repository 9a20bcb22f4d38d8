SPECIFICATION Spec
CONSTANTS
  o1 = o1
  o2 = o2
  None = None
  Workers = {w1, w2}
  Objects = {o1}
  Fields <- OneField
  Values <- Places
  Inputs <- Places
  Validated <- Anywhere
  Origin = 0
  Plans = {n1}
  Batches <- OneMove
  RunIds = {r1, r2}
  Kinds = {"apply", "undo", "move"}
CHECK_DEADLOCK FALSE
PROPERTIES UndoKeepsManualEdits
