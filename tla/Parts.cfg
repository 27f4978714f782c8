\* LRUCache, SkipList, LogFormat, Iterators, Table and Protobuf, each on its own.
SPECIFICATION PartsSpec
CONSTANTS
  Key = {1, 2}
  Address = {1, 2, 3, 4}
  Charges = {1, 2}
  Capacity = 2
  MaxHandles = 3
  NumKeys = 3
  MaxHeight = 2
  BlockSize = 8
  HeaderSize = 3
  Sizes = {0, 1, 2, 4, 5, 8, 13}
  MaxRecords = 3
  NumUserKeys = 2
  NumEntries = 3
  NumChildren = 2
  UserKeys <- FourUserKeys
  Seqs = {1, 2}
  MaxSequence = 3
  MaxByte = 2
  MaxEntries = 3
  RestartInterval = 2
  FilterBase = 2
  BlockSizes = {1, 4}
INVARIANTS
  EntriesLiveAsLongAsNeeded
  UsageIsCharged
  SearchStaysInTheList
  SearchFindsWhatWasThere
  CutFileReadsWhole
  OffsetReadsTheRest
  DamageIsContained
  GetFindsTheNewest
  DecodesAsMerge
PROPERTIES
  OverCapacityOnlyInUse
  IteratorIsCursor
  TableIsCursor
\* A log of MaxRecords, a table of MaxEntries, a list of all keys: there is an end.
CHECK_DEADLOCK FALSE
