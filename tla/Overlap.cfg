CONSTANTS
  NumKeys = 3
  MaxSequence = 4
  NumLevels = 3
  MaxMemCompactLevel = 2
  SnapshotsAt = {}
  SplitKeys = FALSE
  Manual = TRUE
SPECIFICATION Spec
INVARIANT LevelsDisjoint
CHECK_DEADLOCK FALSE
