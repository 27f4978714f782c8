CONSTANTS
  NumKeys = 1
  MaxSequence = 3
  NumLevels = 4
  MaxMemCompactLevel = 2
  SnapshotsAt = {2}
  SplitKeys = TRUE
  Manual = FALSE
SPECIFICATION Spec
INVARIANT EntriesNeverHop
CHECK_DEADLOCK FALSE
