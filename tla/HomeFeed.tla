------------------------------ MODULE HomeFeed ------------------------------
(***************************************************************************)
(* The news of the Home screen: getData and the requests of ArticlesDAO,   *)
(* pull to refresh, the filter's Save and the shake that opens a random    *)
(* article.                                                                *)
(*                                                                         *)
(* Requests are independent: each is answered on its own, in any order, or *)
(* fails (no network, an error of the service), and then its completion is *)
(* never called.  The date in the header is left out.                      *)
(***************************************************************************)
EXTENDS SourceFilter, SequencesExt

CONSTANTS MaxRequests,   \* the user asks with fewer requests than this waiting
          Counts,        \* how many articles an answer may have
          MayFail        \* a request may fail

ASSUME FeedAssumption ==
  /\ MaxRequests \in Nat \ {0}
  /\ Counts \subseteq Nat
  /\ MayFail \in BOOLEAN

VARIABLES homeSource,         \* Home's selectedSource and selectedSection
          homeSection,
          requests,           \* the requests waiting, in the order they were made
          articles,           \* the feed in the table and its length
          crashed,
          latest              \* history: the last request was made with none waiting
                              \* ("alone") or with others ("among"), or it failed

homeVars == <<homeSource, homeSection, requests, articles, crashed, latest>>
vars     == <<filterVars, homeVars>>

Feed(source, section) == [source |-> source, section |-> section]
NoArticles == [feed |-> Nothing, count |-> 0]

\* Mutant: the section is left out of the request.
GetSourceOnly(rs, source, section) == Append(rs, Feed(source, Nothing))

\* The three cases of getArticlesFromAPI; with both a source and a section there is
\* none, and no request.
GetData(rs, source, section) ==
  IF source # Nothing /\ section # Nothing
  THEN rs
  ELSE Append(rs, Feed(source, section))

\* How the request that is made now finds the others.
Company == IF requests = <<>> THEN "alone" ELSE "among"

Init ==
  /\ FilterClosed
  /\ homeSource = Nothing /\ homeSection = Nothing
  /\ requests = GetData(<<>>, Nothing, Nothing)
  /\ articles = NoArticles
  /\ crashed = FALSE /\ latest = "alone"

UserMayAsk == ~crashed /\ Len(requests) < MaxRequests

\* sortArray.
PullToRefresh ==
  /\ UserMayAsk /\ ~presented
  /\ requests' = GetData(requests, homeSource, homeSection)
  /\ latest' = Company
  /\ UNCHANGED <<filterVars, homeSource, homeSection, articles, crashed>>

\* saveTap: Home gets the choice and asks, the filter goes, Home appears.
SaveTap ==
  /\ UserMayAsk /\ presented /\ Saves
  /\ homeSource' = selectedSource
  /\ homeSection' = selectedSection
  /\ requests' = GetData(requests, selectedSource, selectedSection)
  /\ latest' = Company
  /\ Dismissed
  /\ UNCHANGED <<articles, crashed>>

CancelTap ==
  /\ presented /\ ~crashed
  /\ Dismissed
  /\ UNCHANGED homeVars

\* Mutant: an answer is added to what the table has.
AnswerAppends(i, n) ==
  /\ articles' = [feed |-> IF articles.count = 0 THEN requests[i] ELSE articles.feed,
                  count |-> articles.count + n]
  /\ requests' = RemoveAt(requests, i)

\* The completion replaces the table's articles by those of the answer.
Completion(i, n) ==
  /\ articles' = [feed |-> requests[i], count |-> n]
  /\ requests' = RemoveAt(requests, i)

Answer(i) ==
  /\ ~crashed /\ i \in DOMAIN requests
  /\ \E n \in Counts : Completion(i, n)
  /\ UNCHANGED <<filterVars, homeSource, homeSection, crashed, latest>>

\* A response without articles: the completion is not called.
Failure(i) ==
  /\ MayFail /\ i \in DOMAIN requests
  /\ requests' = RemoveAt(requests, i)
  /\ latest' = IF i = Len(requests) THEN "failed" ELSE latest
  /\ UNCHANGED <<filterVars, homeSource, homeSection, articles, crashed>>

ShakeIndices == 0 .. 20

\* motionEnded: a random index into the articles, which traps past their end.
Shake ==
  /\ ~presented /\ ~crashed
  /\ \E i \in ShakeIndices : crashed' = (i >= articles.count)
  /\ UNCHANGED <<filterVars, homeSource, homeSection, requests, articles, latest>>

FilterActs == ~crashed /\ FilterStep /\ UNCHANGED homeVars

Next ==
  \/ PullToRefresh \/ SaveTap \/ CancelTap \/ Shake \/ FilterActs
  \/ \E i \in DOMAIN requests : Answer(i) \/ Failure(i)

Spec == Init /\ [][Next]_vars

\* As long as requests wait, the oldest is not left waiting and not all of them fail.
FairSpec == Spec /\ WF_vars(Answer(1))

-----------------------------------------------------------------------------
FeedsOf(S) == [source : S, section : Sections \cup {Nothing}]

TypeOK ==
  LET S == {Sources[i] : i \in DOMAIN Sources} \cup {Nothing}
  IN /\ presented \in BOOLEAN
     /\ sourcesForTableView \in {<<>>, Sources}
     /\ top \in Nat /\ oldIndexPath \in Nat /\ ticked \subseteq Rows \cup {0}
     /\ selectedSource \in S /\ homeSource \in S
     /\ selectedSection \in Sections \cup {Nothing}
     /\ homeSection \in Sections \cup {Nothing}
     /\ requests \in Seq(FeedsOf(S))
     /\ articles.feed \in FeedsOf(S) \cup {Nothing} /\ articles.count \in Nat
     /\ crashed \in BOOLEAN /\ latest \in {"alone", "among", "failed"}

(***************************************************************************)
(* The service takes a source or a section, not both: whatever is chosen   *)
(* on the filter and in whatever order, no request and no later refresh    *)
(* has the two, so none is silently dropped by getArticlesFromAPI.         *)
(***************************************************************************)
OneParameter ==
  /\ homeSource = Nothing \/ homeSection = Nothing
  /\ \A i \in DOMAIN requests : requests[i].source = Nothing \/ requests[i].section = Nothing

(***************************************************************************)
(* When nothing is waiting, and the last request was made by a user who    *)
(* had waited for the answers and did not fail, the table has the news of  *)
(* the source or section that Home has selected, whatever happened before. *)
(* With two requests waiting it would not: the last answer wins.           *)
(***************************************************************************)
TableIsTheSelectedFeed ==
  requests = <<>> /\ latest = "alone" => articles.feed = Feed(homeSource, homeSection)

(***************************************************************************)
(* What is selected by a user who had waited for the answers is shown at   *)
(* some point, also when the user does not wait any more, unless something *)
(* else is selected first or the last request fails.                       *)
(***************************************************************************)
SelectedFeedIsShown ==
  \A f \in FeedsOf({Sources[i] : i \in DOMAIN Sources} \cup {Nothing}) :
    f = Feed(homeSource, homeSection) /\ latest = "alone"
      ~> articles.feed = f \/ f # Feed(homeSource, homeSection) \/ crashed \/ latest = "failed"
=============================================================================
