CONSTANTS
  sports = sports
  clarin = clarin  nacion = nacion  pagina = pagina  infobae = infobae
  Sources <- Three
  Sections = {sports}
  RowsOnScreen = 2
  Nothing = Nothing
  MaxRequests = 2
  Counts = {0, 20, 21}
  MayFail = TRUE
SPECIFICATION FairSpec
INVARIANTS TypeOK OneParameter TickedSourceIsSelected TableIsTheSelectedFeed
PROPERTY SelectedFeedIsShown
CHECK_DEADLOCK FALSE
