---------------------------- MODULE SourceFilter ----------------------------
(***************************************************************************)
(* The filter screen (FilterViewController): a picker of sections, a table *)
(* of sources whose cells are reused as it scrolls, and what Save hands to *)
(* Home.  A new controller is made each time the screen is presented.      *)
(*                                                                         *)
(* Rows are numbered from 0 as in the code; row 0 is "All sources".  A cell*)
(* is a checkmark or none: `ticked` holds the rows on screen that have one *)
(* and 0 when the cell of row 0, the only one of its kind, has one, on     *)
(* screen or not.                                                          *)
(***************************************************************************)
EXTENDS Naturals, Sequences, FiniteSets

CONSTANTS Sources,      \* the list the news service answers with
          Sections,     \* sections of the picker, "All" apart
          RowsOnScreen, \* rows of the table that fit
          Nothing       \* the empty string: no source, no section

\* A source has an id, and its own.
ASSUME FilterAssumption ==
  /\ RowsOnScreen \in Nat \ {0}
  /\ Sources \in Seq({Sources[i] : i \in DOMAIN Sources})
  /\ \A i \in DOMAIN Sources : Sources[i] # Nothing
  /\ \A i, j \in DOMAIN Sources : Sources[i] = Sources[j] => i = j
  /\ Nothing \notin Sections

VARIABLES presented,          \* the screen covers Home
          sourcesForTableView,
          top,                \* the first row on screen
          oldIndexPath,       \* the row selected last, 0 at first
          ticked,
          selectedSource,
          selectedSection

filterVars == <<presented, sourcesForTableView, top, oldIndexPath, ticked,
                selectedSource, selectedSection>>

Rows == 0 .. Len(sourcesForTableView) - 1

OnScreenFrom(t) == {r \in Rows : t <= r /\ r < t + RowsOnScreen}
OnScreen == OnScreenFrom(top)

\* Mutant: the row is sent for the source.
RowAsSource(row) == IF row = 0 THEN Nothing ELSE row

\* The source a row shows: the row is the index into the array, and row 0 shows
\* none.
SourceOf(row) == IF row = 0 THEN Nothing ELSE sourcesForTableView[row + 1]

FilterClosed ==
  /\ presented = FALSE
  /\ sourcesForTableView = <<>>
  /\ top = 0
  /\ oldIndexPath = 0
  /\ ticked = {}
  /\ selectedSource = Nothing
  /\ selectedSection = Nothing

\* viewDidLoad of a new controller.
Present ==
  /\ ~presented
  /\ presented' = TRUE
  /\ UNCHANGED <<sourcesForTableView, top, oldIndexPath, ticked, selectedSource,
                 selectedSection>>

\* dismiss: the controller goes with its state.
Dismissed ==
  /\ presented' = FALSE
  /\ sourcesForTableView' = <<>>
  /\ top' = 0
  /\ oldIndexPath' = 0
  /\ ticked' = {}
  /\ selectedSource' = Nothing
  /\ selectedSection' = Nothing

\* The answer to getSources, and the reload that configures the rows on screen.
SourcesArrive ==
  /\ presented /\ sourcesForTableView = <<>>
  /\ sourcesForTableView' = Sources
  /\ ticked' = ticked \cap {0}
  /\ UNCHANGED <<presented, top, oldIndexPath, selectedSource, selectedSection>>

\* Mutant: a source's cell keeps the checkmark it had in another row.
KeepsReusedTick(row, entering) ==
  IF row \in entering THEN row = oldIndexPath \/ (row - RowsOnScreen) \in ticked
                      ELSE row \in ticked

\* cellForRowAt: a source's cell that comes on screen is configured, one that
\* stays is not, and the cell of row 0 never is.
TickAfterScroll(row, entering) ==
  IF row \in entering /\ row # 0 THEN row = oldIndexPath ELSE row \in ticked

Scroll(t) ==
  /\ presented /\ t \in Rows /\ t # top
  /\ top' = t
  /\ LET entering == OnScreenFrom(t) \ OnScreen
     IN ticked' = {r \in OnScreenFrom(t) \cup {0} : TickAfterScroll(r, entering)}
  /\ UNCHANGED <<presented, sourcesForTableView, oldIndexPath, selectedSource,
                 selectedSection>>

\* didSelectRowAt: the cell of the row before, which the table has only when it is
\* on screen, loses its checkmark; the selected cell gets one.
SelectRow(row) ==
  /\ presented /\ row \in OnScreen
  /\ selectedSource' = SourceOf(row)
  /\ ticked' = (ticked \ ({oldIndexPath} \cap OnScreen)) \cup {row}
  /\ oldIndexPath' = row
  /\ UNCHANGED <<presented, sourcesForTableView, top, selectedSection>>

\* The picker; "All" is the empty string.
PickSection(s) ==
  /\ presented
  /\ selectedSection' = s
  /\ UNCHANGED <<presented, sourcesForTableView, top, oldIndexPath, ticked,
                 selectedSource>>

\* Mutant: the alert for a source and a section together is left out.
AlwaysSaves == TRUE

\* saveTap sends what was chosen unless there are both a source and a section;
\* then an alert is shown and nothing changes.
Saves == selectedSource = Nothing \/ selectedSection = Nothing

FilterStep ==
  \/ Present \/ SourcesArrive
  \/ \E t \in Rows : Scroll(t) \/ SelectRow(t)
  \/ \E s \in Sections \cup {Nothing} : PickSection(s)

-----------------------------------------------------------------------------
(***************************************************************************)
(* Among the sources on screen the ticked one, and only that, is the one   *)
(* that Save would send, however the table was scrolled and its cells      *)
(* reused in between.                                                      *)
(***************************************************************************)
TickedSourceIsSelected ==
  \A r \in OnScreen \ {0} : r \in ticked <=> selectedSource = SourceOf(r)
=============================================================================
