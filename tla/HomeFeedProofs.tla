--------------------------- MODULE HomeFeedProofs ---------------------------
(***************************************************************************)
(* Theorems about the filter and the feed of Home, for every list of       *)
(* sources, every set of sections and every height of the screen.          *)
(***************************************************************************)
EXTENDS HomeFeed, TLAPS

-----------------------------------------------------------------------------
(* Requests.                                                                *)

\* The feeds one may ask for.
Names    == {Sources[i] : i \in DOMAIN Sources} \cup {Nothing}
AnyFeed  == FeedsOf(Names)

\* Taking a request out leaves requests that were there.
LEMMA RemoveAtSubset ==
  ASSUME NEW S, NEW s \in Seq(S), NEW i \in DOMAIN s
  PROVE  /\ RemoveAt(s, i) \in Seq(S)
         /\ \A j \in DOMAIN RemoveAt(s, i) : \E k \in DOMAIN s : RemoveAt(s, i)[j] = s[k]
<1> DEFINE a == SubSeq(s, 1, i - 1)
<1> DEFINE b == SubSeq(s, i + 1, Len(s))
<1>1. a \in Seq(S) /\ Len(a) = i - 1 /\ \A j \in 1 .. i - 1 : a[j] = s[j]
  OBVIOUS
<1>2. b \in Seq(S) /\ Len(b) = Len(s) - i /\ \A j \in 1 .. Len(s) - i : b[j] = s[i + j]
  OBVIOUS
<1>3. RemoveAt(s, i) = a \o b
  BY DEF RemoveAt
<1> HIDE DEF a, b
<1>4. a \o b \in Seq(S)
  BY <1>1, <1>2
<1>5. ASSUME NEW j \in DOMAIN (a \o b)
      PROVE  \E k \in DOMAIN s : (a \o b)[j] = s[k]
  <2>1. j \in 1 .. Len(a) + Len(b)
    BY <1>1, <1>2
  <2>2. CASE j <= Len(a)
    <3>1. (a \o b)[j] = a[j] /\ j \in DOMAIN s
      BY <1>1, <1>2, <2>1, <2>2
    <3>. QED  BY <3>1, <1>1, <2>1, <2>2
  <2>3. CASE j > Len(a)
    <3>1. (a \o b)[j] = b[j - Len(a)]
      BY <1>1, <1>2, <2>1, <2>3
    <3>2. j - Len(a) \in 1 .. Len(s) - i /\ i + (j - Len(a)) \in DOMAIN s
      BY <1>1, <1>2, <2>1, <2>3
    <3>. QED  BY <3>1, <3>2, <1>2
  <2>. QED  BY <1>1, <2>1, <2>2, <2>3
<1>. QED  BY <1>3, <1>4, <1>5

\* getData asks for one more feed or for nothing.
LEMMA GetDataType ==
  ASSUME NEW rs \in Seq(AnyFeed), NEW source \in Names,
         NEW section \in Sections \cup {Nothing}
  PROVE  GetData(rs, source, section) \in Seq(AnyFeed)
<1>1. Feed(source, section) \in AnyFeed
  BY DEF Feed, AnyFeed, FeedsOf
<1>. QED  BY <1>1 DEF GetData

\* A request that getData makes has one parameter.
LEMMA GetDataSingle ==
  ASSUME NEW rs \in Seq(AnyFeed), NEW source \in Names,
         NEW section \in Sections \cup {Nothing},
         source = Nothing \/ section = Nothing,
         \A i \in DOMAIN rs : rs[i].source = Nothing \/ rs[i].section = Nothing
  PROVE  LET q == GetData(rs, source, section)
         IN \A i \in DOMAIN q : q[i].source = Nothing \/ q[i].section = Nothing
<1> DEFINE f == Feed(source, section)
<1>1. f.source = source /\ f.section = section
  BY DEF Feed
<1>2. GetData(rs, source, section) = Append(rs, f)
  BY DEF GetData
<1> HIDE DEF f
<1>3. DOMAIN Append(rs, f) = 1 .. Len(rs) + 1
      /\ Append(rs, f)[Len(rs) + 1] = f
      /\ \A i \in 1 .. Len(rs) : Append(rs, f)[i] = rs[i]
  OBVIOUS
<1>4. DOMAIN rs = 1 .. Len(rs) /\ Len(rs) \in Nat
  OBVIOUS
<1>. QED  BY <1>1, <1>2, <1>3, <1>4

-----------------------------------------------------------------------------
(* Rows of the table of sources.                                            *)

\* The table has rows once the sources have arrived, one for each of them.
LEMMA RowFacts ==
  ASSUME TypeOK, NEW r \in Rows
  PROVE  r \in Nat /\ sourcesForTableView = Sources /\ r + 1 \in DOMAIN Sources
<1>1. Sources \in Seq({Sources[i] : i \in DOMAIN Sources})
  BY FilterAssumption
<1>2. sourcesForTableView \in {<<>>, Sources}
  BY DEF TypeOK
<1>3. CASE sourcesForTableView = <<>>
  BY <1>3 DEF Rows
<1>4. CASE sourcesForTableView = Sources
  BY <1>1, <1>4 DEF Rows
<1>. QED  BY <1>2, <1>3, <1>4

\* What a row stands for is a source or nothing.
LEMMA SourceOfType ==
  ASSUME TypeOK, NEW r \in Rows \cup {0}
  PROVE  SourceOf(r) \in Names
<1>1. CASE r = 0
  BY <1>1 DEF SourceOf, Names
<1>2. CASE r # 0
  <2>1. r \in Rows
    BY <1>2
  <2>. QED  BY <1>2, <2>1, RowFacts DEF SourceOf, Names
<1>. QED  BY <1>1, <1>2

\* Rows stand for different things.
LEMMA SourceOfInjective ==
  ASSUME TypeOK, NEW r \in Rows \cup {0}, NEW q \in Rows \cup {0}
  PROVE  SourceOf(r) = SourceOf(q) <=> r = q
<1>1. CASE r = 0 \/ q = 0
  <2>1. \A p \in Rows : p # 0 => SourceOf(p) # Nothing
    BY RowFacts, FilterAssumption DEF SourceOf
  <2>. QED  BY <1>1, <2>1 DEF SourceOf
<1>2. CASE r # 0 /\ q # 0
  <2>1. /\ r \in Nat /\ q \in Nat
        /\ sourcesForTableView = Sources
        /\ r + 1 \in DOMAIN Sources /\ q + 1 \in DOMAIN Sources
    BY <1>2, RowFacts
  <2>2. Sources[r + 1] = Sources[q + 1] => r + 1 = q + 1
    BY <2>1, FilterAssumption
  <2>. QED  BY <1>2, <2>1, <2>2 DEF SourceOf
<1>. QED  BY <1>1, <1>2

\* The rows on screen are rows.
LEMMA OnScreenRows ==
  ASSUME NEW t
  PROVE  OnScreenFrom(t) \subseteq Rows
BY DEF OnScreenFrom

-----------------------------------------------------------------------------
(* Types.                                                                   *)

\* The type invariant by component, over Names.
LEMMA TypeParts ==
  TypeOK <=> /\ presented \in BOOLEAN
             /\ sourcesForTableView \in {<<>>, Sources}
             /\ top \in Nat /\ oldIndexPath \in Nat /\ ticked \subseteq Rows \cup {0}
             /\ selectedSource \in Names /\ homeSource \in Names
             /\ selectedSection \in Sections \cup {Nothing}
             /\ homeSection \in Sections \cup {Nothing}
             /\ requests \in Seq(AnyFeed)
             /\ articles.feed \in AnyFeed \cup {Nothing} /\ articles.count \in Nat
             /\ crashed \in BOOLEAN /\ latest \in {"alone", "among", "failed"}
BY DEF TypeOK, Names, AnyFeed

\* The state of the filter is well typed after each of its steps.
FilterTypeOK ==
  /\ presented \in BOOLEAN
  /\ sourcesForTableView \in {<<>>, Sources}
  /\ top \in Nat /\ oldIndexPath \in Nat /\ ticked \subseteq Rows \cup {0}
  /\ selectedSource \in Names
  /\ selectedSection \in Sections \cup {Nothing}

LEMMA DismissedType ==
  ASSUME Dismissed
  PROVE  FilterTypeOK'
BY DEF Dismissed, FilterTypeOK, Names

LEMMA FilterStepType ==
  ASSUME TypeOK, FilterStep
  PROVE  FilterTypeOK'
<1>1. FilterTypeOK
  BY TypeParts DEF FilterTypeOK
<1>2. CASE Present
  BY <1>1, <1>2 DEF Present, FilterTypeOK, Rows
<1>3. CASE SourcesArrive
  BY <1>1, <1>3 DEF SourcesArrive, FilterTypeOK, Rows
<1>4. ASSUME NEW t \in Rows, Scroll(t) PROVE FilterTypeOK'
  <2>1. t \in Nat
    BY RowFacts
  <2>2. Rows' = Rows
    BY <1>4 DEF Scroll, Rows
  <2>3. ticked' \subseteq OnScreenFrom(t) \cup {0}
    BY <1>4 DEF Scroll
  <2>4. ticked' \subseteq Rows' \cup {0}
    BY <2>2, <2>3, OnScreenRows
  <2>. QED  BY <1>1, <1>4, <2>1, <2>4 DEF Scroll, FilterTypeOK
<1>5. ASSUME NEW r \in Rows, SelectRow(r) PROVE FilterTypeOK'
  <2>1. r \in Nat /\ SourceOf(r) \in Names
    BY RowFacts, SourceOfType
  <2>2. ticked' \subseteq Rows' \cup {0}
    BY <1>1, <1>5 DEF SelectRow, FilterTypeOK, Rows
  <2>. QED  BY <1>1, <1>5, <2>1, <2>2 DEF SelectRow, FilterTypeOK
<1>6. ASSUME NEW x \in Sections \cup {Nothing}, PickSection(x) PROVE FilterTypeOK'
  BY <1>1, <1>6 DEF PickSection, FilterTypeOK, Rows
<1>. QED  BY <1>2, <1>3, <1>4, <1>5, <1>6 DEF FilterStep

\* Every step keeps the types.
LEMMA TypeStep ==
  ASSUME TypeOK, [Next]_vars
  PROVE  TypeOK'
<1>1. FilterTypeOK /\ homeSource \in Names /\ homeSection \in Sections \cup {Nothing}
      /\ requests \in Seq(AnyFeed)
      /\ articles.feed \in AnyFeed \cup {Nothing} /\ articles.count \in Nat
      /\ crashed \in BOOLEAN /\ latest \in {"alone", "among", "failed"}
  BY TypeParts DEF FilterTypeOK
<1> DEFINE HomeTypeOK ==
      /\ homeSource \in Names /\ homeSection \in Sections \cup {Nothing}
      /\ requests \in Seq(AnyFeed)
      /\ articles.feed \in AnyFeed \cup {Nothing} /\ articles.count \in Nat
      /\ crashed \in BOOLEAN /\ latest \in {"alone", "among", "failed"}
<1> SUFFICES FilterTypeOK' /\ HomeTypeOK'
  <2>1. FilterTypeOK' /\ HomeTypeOK' => TypeOK'
    BY DEF FilterTypeOK, TypeOK, Names, AnyFeed, FeedsOf, Rows
  <2>. QED  BY <2>1
<1>2. ASSUME UNCHANGED filterVars PROVE FilterTypeOK'
  BY <1>1, <1>2 DEF FilterTypeOK, filterVars, Rows
<1>3. CASE PullToRefresh
  BY <1>1, <1>2, <1>3, GetDataType DEF PullToRefresh, Company
<1>4. CASE SaveTap
  BY <1>1, <1>4, GetDataType, DismissedType DEF SaveTap, Company, FilterTypeOK
<1>5. CASE CancelTap
  BY <1>1, <1>5, DismissedType DEF CancelTap, homeVars
<1>6. CASE Shake
  BY <1>1, <1>2, <1>6 DEF Shake, ShakeIndices
<1>7. CASE FilterActs
  BY <1>1, <1>7, FilterStepType DEF FilterActs, homeVars
<1>8. ASSUME NEW i \in DOMAIN requests, Answer(i) PROVE FilterTypeOK' /\ HomeTypeOK'
  <2>1. PICK n \in Counts : Completion(i, n)
    BY <1>8 DEF Answer
  <2>2. n \in Nat
    BY FeedAssumption
  <2>3. requests[i] \in AnyFeed /\ RemoveAt(requests, i) \in Seq(AnyFeed)
    BY <1>1, RemoveAtSubset
  <2>. QED  BY <1>1, <1>2, <1>8, <2>1, <2>2, <2>3 DEF Answer, Completion
<1>9. ASSUME NEW i \in DOMAIN requests, Failure(i) PROVE FilterTypeOK' /\ HomeTypeOK'
  <2>1. RemoveAt(requests, i) \in Seq(AnyFeed)
    BY <1>1, RemoveAtSubset
  <2>. QED  BY <1>1, <1>2, <1>9, <2>1 DEF Failure
<1>10. CASE UNCHANGED vars
  BY <1>1, <1>2, <1>10 DEF vars, homeVars
<1>. QED  BY <1>3, <1>4, <1>5, <1>6, <1>7, <1>8, <1>9, <1>10 DEF Next

LEMMA TypeInit ==
  ASSUME Init
  PROVE  TypeOK
<1>1. Nothing \in Names /\ Nothing \in Sections \cup {Nothing}
  BY DEF Names
<1>2. <<>> \in Seq(AnyFeed)
  OBVIOUS
<1>3. GetData(<<>>, Nothing, Nothing) \in Seq(AnyFeed)
  BY <1>1, <1>2, GetDataType
<1>. QED  BY <1>1, <1>3, TypeParts DEF Init, FilterClosed, NoArticles

\* The filter's choices, the requests and the table keep their types, whatever the
\* sources and the answers.
THEOREM TypeCorrect == Spec => []TypeOK
BY TypeInit, TypeStep, PTL DEF Spec

-----------------------------------------------------------------------------
(* One parameter in a request.                                              *)

\* Every step keeps the requests single: SaveTap by its alert, the others because
\* they only repeat or forget what was chosen.
LEMMA OneParameterStep ==
  ASSUME TypeOK, OneParameter, [Next]_vars
  PROVE  OneParameter'
<1>1. /\ requests \in Seq(AnyFeed)
      /\ homeSource \in Names /\ homeSection \in Sections \cup {Nothing}
      /\ selectedSource \in Names /\ selectedSection \in Sections \cup {Nothing}
  BY TypeParts
<1>2. ASSUME NEW i \in DOMAIN requests, requests' = RemoveAt(requests, i),
             UNCHANGED <<homeSource, homeSection>>
      PROVE  OneParameter'
  BY <1>1, <1>2, RemoveAtSubset DEF OneParameter
<1>3. CASE PullToRefresh
  BY <1>1, <1>3, GetDataSingle DEF PullToRefresh, OneParameter
<1>4. CASE SaveTap
  BY <1>1, <1>4, GetDataSingle DEF SaveTap, Saves, OneParameter
<1>5. CASE CancelTap \/ Shake \/ FilterActs \/ UNCHANGED vars
  BY <1>5 DEF CancelTap, Shake, FilterActs, vars, homeVars, OneParameter
<1>6. ASSUME NEW i \in DOMAIN requests, Answer(i) PROVE OneParameter'
  BY <1>2, <1>6 DEF Answer, Completion
<1>7. ASSUME NEW i \in DOMAIN requests, Failure(i) PROVE OneParameter'
  BY <1>2, <1>7 DEF Failure
<1>. QED  BY <1>3, <1>4, <1>5, <1>6, <1>7 DEF Next

LEMMA OneParameterInit ==
  ASSUME Init
  PROVE  OneParameter
<1>1. Nothing \in Names /\ Nothing \in Sections \cup {Nothing} /\ <<>> \in Seq(AnyFeed)
  BY DEF Names
<1>2. \A i \in DOMAIN <<>> : <<>>[i].source = Nothing \/ <<>>[i].section = Nothing
  OBVIOUS
<1>. QED  BY <1>1, <1>2, GetDataSingle DEF Init, OneParameter

\* Whatever is chosen on the filter, no request has a source and a section, so
\* getArticlesFromAPI drops none.
THEOREM OneParameterCorrect == Spec => []OneParameter
<1>1. Init => TypeOK /\ OneParameter
  BY TypeInit, OneParameterInit
<1>2. TypeOK /\ OneParameter /\ [Next]_vars => TypeOK' /\ OneParameter'
  BY TypeStep, OneParameterStep
<1>. QED  BY <1>1, <1>2, PTL DEF Spec

-----------------------------------------------------------------------------
(* The checkmark among the sources.                                         *)

\* What keeps the checkmarks right: the row selected last is a row of the table,
\* Save would send its source, and among the sources on screen its cell alone is
\* ticked.
TickInv ==
  /\ oldIndexPath \in Rows \cup {0}
  /\ selectedSource = SourceOf(oldIndexPath)
  /\ \A r \in OnScreen \ {0} : r \in ticked <=> r = oldIndexPath

LEMMA TickInvSuffices ==
  ASSUME TypeOK, TickInv
  PROVE  TickedSourceIsSelected
<1>1. ASSUME NEW r \in OnScreen \ {0}
      PROVE  r \in ticked <=> selectedSource = SourceOf(r)
  <2>1. r \in Rows
    BY OnScreenRows DEF OnScreen
  <2>. QED  BY <2>1, SourceOfInjective DEF TickInv
<1>. QED  BY <1>1 DEF TickedSourceIsSelected

\* A filter that is not there has no rows.
LEMMA ClosedTick ==
  ASSUME FilterClosed
  PROVE  TickInv
<1>1. Rows = {}
  BY DEF FilterClosed, Rows
<1>2. OnScreen = {}
  BY <1>1, OnScreenRows DEF OnScreen
<1>. QED  BY <1>2 DEF FilterClosed, TickInv, SourceOf

LEMMA TickFilterStep ==
  ASSUME TypeOK, TickInv, FilterStep
  PROVE  TickInv'
<1>1. CASE Present
  BY <1>1 DEF Present, TickInv, Rows, OnScreen, OnScreenFrom, SourceOf
<1>2. CASE SourcesArrive
  <2>1. Rows = {}
    BY <1>2 DEF SourcesArrive, Rows
  <2>2. oldIndexPath = 0 /\ selectedSource = Nothing
    BY <2>1 DEF TickInv, SourceOf
  <2>. QED  BY <1>2, <2>2 DEF SourcesArrive, TickInv, SourceOf
<1>3. ASSUME NEW t \in Rows, Scroll(t) PROVE TickInv'
  <2>1. Rows' = Rows /\ OnScreen' = OnScreenFrom(t) /\ oldIndexPath' = oldIndexPath
    BY <1>3 DEF Scroll, Rows, OnScreen, OnScreenFrom
  <2>2. SourceOf(oldIndexPath)' = SourceOf(oldIndexPath)
    BY <1>3 DEF Scroll, SourceOf
  <2> DEFINE entering == OnScreenFrom(t) \ OnScreen
  <2>3. ASSUME NEW r \in OnScreenFrom(t) \ {0}
        PROVE  r \in ticked' <=> r = oldIndexPath
    <3>1. r \in ticked' <=> TickAfterScroll(r, entering)
      BY <1>3 DEF Scroll
    <3>2. CASE r \in entering
      BY <3>1, <3>2 DEF TickAfterScroll
    <3>3. CASE r \notin entering
      BY <3>1, <3>3 DEF TickAfterScroll, TickInv
    <3>. QED  BY <3>2, <3>3
  <2>. QED  BY <1>3, <2>1, <2>2, <2>3 DEF Scroll, TickInv
<1>4. ASSUME NEW q \in Rows, SelectRow(q) PROVE TickInv'
  <2>1. Rows' = Rows /\ OnScreen' = OnScreen /\ oldIndexPath' = q
    BY <1>4 DEF SelectRow, Rows, OnScreen, OnScreenFrom
  <2>2. selectedSource' = SourceOf(oldIndexPath)'
    BY <1>4 DEF SelectRow, SourceOf
  <2>3. ASSUME NEW r \in OnScreen \ {0}
        PROVE  r \in ticked' <=> r = q
    BY <1>4 DEF SelectRow, TickInv
  <2>. QED  BY <2>1, <2>2, <2>3 DEF TickInv
<1>5. ASSUME NEW x \in Sections \cup {Nothing}, PickSection(x) PROVE TickInv'
  BY <1>5 DEF PickSection, TickInv, Rows, OnScreen, OnScreenFrom, SourceOf
<1>. QED  BY <1>1, <1>2, <1>3, <1>4, <1>5 DEF FilterStep

\* Every step keeps it: the filter's own, and those that close it.
LEMMA TickStep ==
  ASSUME TypeOK, TickInv, [Next]_vars
  PROVE  TickInv'
<1>1. ASSUME UNCHANGED filterVars PROVE TickInv'
  BY <1>1 DEF filterVars, TickInv, Rows, OnScreen, OnScreenFrom, SourceOf
<1>2. CASE FilterActs
  BY <1>2, TickFilterStep DEF FilterActs
<1>3. CASE SaveTap \/ CancelTap
  <2>1. Dismissed
    BY <1>3 DEF SaveTap, CancelTap
  <2>2. Rows' = {}
    BY <2>1 DEF Dismissed, Rows
  <2>3. OnScreen' = {}
    BY <2>2 DEF OnScreen, OnScreenFrom
  <2>. QED  BY <2>1, <2>3 DEF Dismissed, TickInv, SourceOf
<1>4. CASE PullToRefresh \/ Shake \/ UNCHANGED vars
  BY <1>1, <1>4 DEF PullToRefresh, Shake, vars
<1>5. ASSUME NEW i \in DOMAIN requests, Answer(i) \/ Failure(i) PROVE TickInv'
  BY <1>1, <1>5 DEF Answer, Failure
<1>. QED  BY <1>2, <1>3, <1>4, <1>5 DEF Next

\* The source that is ticked on screen is the one Save sends, for any number of
\* sources and any height of the screen, however the table is scrolled.
THEOREM TickCorrect == Spec => []TickedSourceIsSelected
<1>1. Init => TypeOK /\ TickInv
  BY TypeInit, ClosedTick DEF Init
<1>2. TypeOK /\ TickInv /\ [Next]_vars => TypeOK' /\ TickInv'
  BY TypeStep, TickStep
<1>3. TypeOK /\ TickInv => TickedSourceIsSelected
  BY TickInvSuffices
<1>. QED  BY <1>1, <1>2, <1>3, PTL DEF Spec

-----------------------------------------------------------------------------
(* The table.                                                               *)

\* After a request that was made alone there is that request, or its answer.
TableInv ==
  latest = "alone" =>
    \/ requests = <<Feed(homeSource, homeSection)>>
    \/ requests = <<>> /\ articles.feed = Feed(homeSource, homeSection)

\* getData with one parameter makes a request.
LEMMA GetDataAsks ==
  ASSUME NEW source, NEW section, source = Nothing \/ section = Nothing, NEW rs,
         rs = <<>>
  PROVE  GetData(rs, source, section) = <<Feed(source, section)>>
BY DEF GetData

\* Every step keeps it: a request made with others waiting is not alone, and the answer
\* of the one that waits, or its failure, leaves none.
LEMMA TableStep ==
  ASSUME TypeOK, OneParameter, TableInv, [Next]_vars
  PROVE  TableInv'
<1>1. CASE PullToRefresh
  <2>1. homeSource = Nothing \/ homeSection = Nothing
    BY DEF OneParameter
  <2>. QED  BY <1>1, <2>1, GetDataAsks DEF PullToRefresh, Company, TableInv
<1>2. CASE SaveTap
  <2>1. selectedSource = Nothing \/ selectedSection = Nothing
    BY <1>2 DEF SaveTap, Saves
  <2>. QED  BY <1>2, <2>1, GetDataAsks DEF SaveTap, Company, TableInv
<1>3. CASE CancelTap \/ Shake \/ FilterActs \/ UNCHANGED vars
  BY <1>3 DEF CancelTap, Shake, FilterActs, vars, homeVars, TableInv
<1>4. ASSUME NEW i \in DOMAIN requests, latest = "alone"
      PROVE  /\ i = 1 /\ i = Len(requests)
             /\ requests[i] = Feed(homeSource, homeSection)
             /\ RemoveAt(requests, i) = <<>>
  <2>1. requests = <<Feed(homeSource, homeSection)>>
    BY <1>4 DEF TableInv
  <2>. QED  BY <1>4, <2>1 DEF RemoveAt
<1>5. ASSUME NEW i \in DOMAIN requests, Answer(i) PROVE TableInv'
  <2>1. PICK n \in Counts : Completion(i, n)
    BY <1>5 DEF Answer
  <2>2. articles'.feed = requests[i]
    BY <2>1 DEF Completion
  <2>. QED  BY <1>4, <1>5, <2>1, <2>2 DEF Answer, Completion, TableInv
<1>6. ASSUME NEW i \in DOMAIN requests, Failure(i) PROVE TableInv'
  BY <1>4, <1>6 DEF Failure, TableInv
<1>. QED  BY <1>1, <1>2, <1>3, <1>5, <1>6 DEF Next

\* The table of Home has the news that are selected, for any sources and sections and
\* however requests were answered before: the last request, made when none waited, is the
\* only one that can still change it.
THEOREM TableCorrect == Spec => []TableIsTheSelectedFeed
<1>1. Init => TypeOK /\ OneParameter /\ TableInv
  <2>1. Init => TableInv
    BY GetDataAsks DEF Init, TableInv
  <2>. QED  BY <2>1, TypeInit, OneParameterInit
<1>2. TypeOK /\ OneParameter /\ TableInv /\ [Next]_vars => TypeOK' /\ OneParameter' /\ TableInv'
  BY TypeStep, OneParameterStep, TableStep
<1>3. TableInv => TableIsTheSelectedFeed
  BY DEF TableInv, TableIsTheSelectedFeed
<1>. QED  BY <1>1, <1>2, <1>3, PTL DEF Spec
=============================================================================
