CONSTANTS
  NumKeys = 2
  MaxSequence = 4
  NumLevels = 3
  MaxMemCompactLevel = 1
  SnapshotsAt = {2}
  SplitKeys = FALSE
  Manual = FALSE
SPECIFICATION Spec
INVARIANTS TypeOK LevelsDisjoint EntriesNeverHop
PROPERTY ReadsAreSnapshots
CHECK_DEADLOCK FALSE
