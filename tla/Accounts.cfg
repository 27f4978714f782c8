CONSTANTS
  ana = ana  bea = bea  a1 = a1  n1 = n1
  Uid = {ana, bea}
  Article = {}
  NoteText = {n1}
  NoData = NoData  NoNote = NoNote  Nil = Nil
  MaxSame = 1
  StartRecords <- FirstLogin
  StartUsers = {ana, Nil}
  Tabs = {"Home", "Notes"}
  MaxTaps = 2
  MaxBacklog = 0
  MayKill = FALSE
  MayGoOffline = FALSE
SPECIFICATION FairSpec
INVARIANTS CopiesAgree
PROPERTIES UploadsAreEdits CheckedAccountIsStored SavedNotesAreShown
CHECK_DEADLOCK FALSE
