CONSTANTS
  ana = ana  bea = bea  a1 = a1  n1 = n1
  Uid = {ana}
  Article = {a1}
  NoteText = {n1}
  NoData = NoData  NoNote = NoNote  Nil = Nil
  MaxSame = 1
  StartRecords <- FirstLogin
  StartUsers = {ana}
  Tabs = {"Home", "Search", "Notes"}
  MaxTaps = 2
  MaxBacklog = 0
  MayKill = FALSE
  MayGoOffline = FALSE
SPECIFICATION Spec
PROPERTY NotesStayStored
CHECK_DEADLOCK FALSE
