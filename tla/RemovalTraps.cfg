CONSTANTS
  ana = ana  bea = bea  a1 = a1  n1 = n1
  Uid = {ana}
  Article = {a1}
  NoteText = {n1}
  NoData = NoData  NoNote = NoNote  Nil = Nil
  MaxSame = 1
  StartRecords <- Returning
  StartUsers = {ana, Nil}
  Tabs = {"Home", "Favorites"}
  MaxTaps = 3
  MaxBacklog = 0
  MayKill = FALSE
  MayGoOffline = FALSE
SPECIFICATION Spec
INVARIANT RemovalNeverTraps
CHECK_DEADLOCK FALSE
