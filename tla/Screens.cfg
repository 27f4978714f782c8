CONSTANTS
  ana = ana  bea = bea  a1 = a1  n1 = n1
  Uid = {ana}
  Article = {a1}
  NoteText = {n1}
  NoData = NoData  NoNote = NoNote  Nil = Nil
  MaxSame = 1
  StartRecords <- Returning
  StartUsers = {ana, Nil}
  Tabs = {"Home", "Favorites", "Notes"}
  MaxTaps = 2
  MaxBacklog = 0
  MayKill = TRUE
  MayGoOffline = FALSE
SPECIFICATION Spec
INVARIANTS TypeOK CopiesAgree IconMatchesSession
PROPERTIES UploadsAreEdits RemovesTheSwipedRow UnfavoriteIsComplete
CHECK_DEADLOCK FALSE
