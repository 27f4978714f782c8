CONSTANTS
  MaxWrites = 3
  MaxCrashes = 2
  MaxEvents = 4
  MaxFaults = 1
  MaxReaders = 1
  WriteBuffer = 0
  CompactionTrigger = 1
  StopTrigger = 2
SPECIFICATION FairSpec
INVARIANTS TypeOK AckedWritesAreRead SequencesFollowWrites NeededTablesExist
PROPERTIES SyncedWritesSurvive WritersReturn
CHECK_DEADLOCK FALSE
