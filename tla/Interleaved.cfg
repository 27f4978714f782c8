CONSTANTS
  ana = ana  bea = bea  a1 = a1  n1 = n1
  Uid = {ana}
  Article = {a1}
  NoteText = {n1}
  NoData = NoData  NoNote = NoNote  Nil = Nil
  MaxSame = 2
  StartRecords <- FirstLogin
  StartUsers = {ana}
  Tabs = {"Home", "Search"}
  MaxTaps = 2
  MaxBacklog = 1
  MayKill = FALSE
  MayGoOffline = TRUE
SPECIFICATION Spec
INVARIANT CopiesAgree
PROPERTY SearchReadsOnce
CHECK_DEADLOCK FALSE
