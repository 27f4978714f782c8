------------------------------- MODULE BatApp -------------------------------
(***************************************************************************)
(* The app's screens over the database client: the four tabs, the account  *)
(* check, the login and filter modals, favourites and notes.               *)
(*                                                                         *)
(* Every controller keeps its own User object (loggedUser), rewrites the   *)
(* whole record users/<ID> from it on each edit, and is told of changes by *)
(* observers that are never removed.  The main thread runs one handler or  *)
(* one callback at a time; between two of them the server may answer,      *)
(* acknowledge a write, the network may go and the system may kill the     *)
(* app.  The feed Home shows is module HomeFeed's concern: here a refresh   *)
(* or a search and its answer are one step that replaces the articles.     *)
(***************************************************************************)
EXTENDS FirebaseClient

CONSTANTS StartRecords,  \* what the database may hold of an account at first
          StartUsers,    \* the session the app may start with
          Tabs,          \* the tabs the user visits, Home among them
          MaxTaps,       \* edits the user makes, in all
          MaxBacklog,    \* the user acts with at most this many batches of
                         \* callbacks waiting; 0: lets the screen settle
          MayKill,       \* the system may kill the app
          MayGoOffline   \* the network may go

ASSUME AppAssumption ==
  /\ StartRecords \subseteq Stored \cup {Nil}
  /\ StartUsers \subseteq Uid \cup {Nil}
  /\ Tabs \subseteq Controller
  /\ "Home" \in Tabs
  /\ MaxTaps \in Nat
  /\ MaxBacklog \in Nat
  /\ MayKill \in BOOLEAN
  /\ MayGoOffline \in BOOLEAN

Feeds == {"Home", "Search"}        \* screens with a table of news
Lists == {"Favorites", "Notes"}    \* screens with a table of saved rows

VARIABLES client,       \* the database and its client
          currentUser,  \* Auth.auth().currentUser, kept across restarts
          online,       \* NetworkReachabilityManager().isReachable
          tab,          \* the tab in front
          loadedTabs,   \* controllers whose viewDidLoad has run
          modal,        \* what covers the tab bar: "none", "login", "filter"
          icon,         \* the image of Home's session button
          loggedUser,   \* per controller
          rows,         \* Favorites' articles and Notes' notes
          articles,     \* the articles in the tables of Home and Search
          isFavorite,   \* those of them whose flag is set
          loop,         \* the loop that removes a favourite, when it is running
          crashed,      \* a runtime trap has ended the process
          taps          \* edits made so far

vars == <<client, currentUser, online, tab, loadedTabs, modal, icon, loggedUser,
          rows, articles, isFavorite, loop, crashed, taps>>

session == <<currentUser, online, tab, loadedTabs, modal, icon>>
screen  == <<loggedUser, rows, articles, isFavorite>>

NoLoop == [vc |-> "none"]
Loop   == [vc : Feeds, article : Article, left : Nat]
Row    == Favorite \cup Note

TypeOK ==
  /\ client \in Client
  /\ currentUser \in Uid \cup {Nil}
  /\ online \in BOOLEAN
  /\ tab \in Controller
  /\ loadedTabs \subseteq Controller
  /\ modal \in {"none", "login", "filter"}
  /\ icon \in {"sign-in", "sign-out2"}
  /\ loggedUser \in [Controller -> User \cup {Nil}]
  /\ rows \in [Lists -> Seq(Row)]
  /\ articles \in [Feeds -> SUBSET Article]
  /\ isFavorite \in [Feeds -> SUBSET Article]
  /\ loop \in Loop \cup {NoLoop}
  /\ crashed \in BOOLEAN
  /\ taps \in Nat

-----------------------------------------------------------------------------
(* What the handlers share.                                                 *)

\* forceChechUser and passiveCheckUser register the same observer; nothing
\* happens without network or without a session.
CheckUser(c, vc, u) ==
  IF online /\ u # Nil THEN Observe(c, vc, u, "users") ELSE c

\* Mutant: the session is not tested.
GetRowsOfNobody(c, vc, u) == Observe(c, vc, u, "rows")

\* getFavorites and getNotes, for the account signed in now.
GetRows(c, vc, u) == IF u # Nil THEN Observe(c, vc, u, "rows") ELSE c

\* Search's whoIsLoggedIn.
WhoIsLoggedIn(c, u) == IF u # Nil THEN Observe(c, "Search", u, "once") ELSE c

ViewDidLoad(c, t, u) ==
  CASE t = "Home"      -> CheckUser(c, t, u)
    [] t = "Favorites" -> GetRows(c, t, u)
    [] t = "Search"    -> WhoIsLoggedIn(c, u)
    [] t = "Notes"     -> GetRows(CheckUser(c, t, u), t, u)

\* Favorites checks the account each time it appears ...
ViewDidAppear(c, t, u) == IF t = "Favorites" THEN CheckUser(c, t, u) ELSE c

\* ... and sends to the login when there is none.
LoginModal(u) == IF online /\ u = Nil THEN "login" ELSE "none"
ModalOnAppear(t, u) == IF t = "Favorites" THEN LoginModal(u) ELSE "none"

\* actualizarIconoDeLogout.
IconFor(u) == IF u = Nil THEN "sign-in" ELSE "sign-out2"
\* Mutant: viewDidAppear does not refresh the button.
IconOnLogoutOnly(t, u) == icon
IconOnAppear(t, u) == IF t = "Home" THEN IconFor(u) ELSE icon

\* The main thread is free, and the user acts on the screen in front.
MainIdle    == loop = NoLoop /\ ~crashed
UserActs    == MainIdle /\ Len(client.queue) <= MaxBacklog
UserActsOn(t) == UserActs /\ tab = t /\ modal = "none"
UserEditsOn(t) == UserActsOn(t) /\ taps < MaxTaps /\ taps' = taps + 1

-----------------------------------------------------------------------------
\* AppDelegate starts Firebase and the tab bar shows Home: its viewDidLoad and
\* viewDidAppear run.  The session is kept in the keychain.
Launched(server, u) == ViewDidLoad(FreshClient(server), "Home", u)

Init ==
  /\ \E server \in [Uid -> StartRecords] :
       /\ currentUser \in StartUsers
       /\ online = TRUE
       /\ client = Launched(server, currentUser)
  /\ tab = "Home"
  /\ loadedTabs = {"Home"}
  /\ modal = "none"
  /\ icon = IconFor(currentUser)
  /\ loggedUser = [vc \in Controller |-> Nil]
  /\ rows = [vc \in Lists |-> <<>>]
  /\ articles = [vc \in Feeds |-> {}]
  /\ isFavorite = [vc \in Feeds |-> {}]
  /\ loop = NoLoop
  /\ crashed = FALSE
  /\ taps = 0

\* The process ends, by the system or by its own trap, and is started again:
\* what was not acknowledged is lost.
Relaunch ==
  /\ MayKill
  /\ client' = Launched(client.server, currentUser)
  /\ tab' = "Home"
  /\ loadedTabs' = {"Home"}
  /\ modal' = "none"
  /\ icon' = IconFor(currentUser)
  /\ loggedUser' = [vc \in Controller |-> Nil]
  /\ rows' = [vc \in Lists |-> <<>>]
  /\ articles' = [vc \in Feeds |-> {}]
  /\ isFavorite' = [vc \in Feeds |-> {}]
  /\ loop' = NoLoop
  /\ crashed' = FALSE
  /\ UNCHANGED <<currentUser, online, taps>>

SelectTab(t) ==
  /\ UserActs /\ modal = "none" /\ t # tab
  /\ client' = ViewDidAppear(IF t \in loadedTabs
                             THEN client ELSE ViewDidLoad(client, t, currentUser),
                             t, currentUser)
  /\ tab' = t
  /\ loadedTabs' = loadedTabs \cup {t}
  /\ modal' = ModalOnAppear(t, currentUser)
  /\ icon' = IconOnAppear(t, currentUser)
  /\ UNCHANGED <<currentUser, online, screen, loop, crashed, taps>>

-----------------------------------------------------------------------------
(* The session.                                                             *)

\* logOutTapped, when there is a session.
LogOut ==
  /\ UserActsOn("Home") /\ currentUser # Nil
  /\ currentUser' = Nil
  /\ icon' = IconFor(Nil)
  /\ loggedUser' = [loggedUser EXCEPT !["Home"] = Nil]
  /\ UNCHANGED <<client, online, tab, loadedTabs, modal, rows, articles,
                 isFavorite, loop, crashed, taps>>

\* A handler that needs a user and has none calls forceChechUser.
ForceCheck(vc) ==
  /\ client' = CheckUser(client, vc, currentUser)
  /\ modal' = LoginModal(currentUser)
  /\ UNCHANGED <<currentUser, online, tab, loadedTabs, icon, screen, loop,
                 crashed, taps>>

\* logOutTapped, when there is none.
LogIn == UserActsOn("Home") /\ currentUser = Nil /\ ForceCheck("Home")

\* The modal goes away and the tab under it appears again.
Dismiss(u) ==
  /\ client' = ViewDidAppear(client, tab, u)
  /\ modal' = ModalOnAppear(tab, u)
  /\ icon' = IconOnAppear(tab, u)
  /\ UNCHANGED <<online, tab, loadedTabs, screen, loop, crashed, taps>>

SignIn(u) ==
  /\ UserActs /\ modal = "login" /\ online
  /\ currentUser' = u
  /\ Dismiss(u)

CancelLogin ==
  /\ UserActs /\ modal = "login"
  /\ Dismiss(currentUser)
  /\ UNCHANGED currentUser

\* The filter is presented over Home; its viewDidLoad signs the user out.
OpenFilter ==
  /\ UserActsOn("Home")
  /\ modal' = "filter"
  /\ currentUser' = Nil
  /\ UNCHANGED <<client, online, tab, loadedTabs, icon, screen, loop, crashed, taps>>

\* saveTap and cancelTap both end in dismiss.
CloseFilter ==
  /\ UserActs /\ modal = "filter"
  /\ Dismiss(currentUser)
  /\ UNCHANGED currentUser

-----------------------------------------------------------------------------
(* Favourites and notes.                                                    *)

\* An answer of the news service: new Article objects, none of them favourite.
FeedArrives(vc, as) ==
  /\ MainIdle /\ vc \in loadedTabs
  /\ articles' = [articles EXCEPT ![vc] = as]
  /\ isFavorite' = [isFavorite EXCEPT ![vc] = {}]
  /\ UNCHANGED <<client, session, loggedUser, rows, loop, crashed, taps>>

\* setValue of the whole record of a User object.
Upload(user) == client' = SetValue(client, user.ID, ToDictionary(user))

\* toggleFavorite with a user and the flag off: set, append, upload.
AddToFavorites(vc, a) ==
  /\ UserEditsOn(vc) /\ loggedUser[vc] # Nil
  /\ a \in articles[vc] \ isFavorite[vc]
  /\ isFavorite' = [isFavorite EXCEPT ![vc] = @ \cup {a}]
  /\ loggedUser' = [loggedUser EXCEPT ![vc] = AppendFavorite(@, a)]
  /\ Upload(loggedUser'[vc])
  /\ UNCHANGED <<session, rows, articles, loop, crashed>>

\* Mutant: one turn too few.
UnfavoriteShort(vc, a) ==
  /\ UserEditsOn(vc) /\ loggedUser[vc] # Nil
  /\ a \in isFavorite[vc]
  /\ isFavorite' = [isFavorite EXCEPT ![vc] = @ \ {a}]
  /\ loop' = [vc |-> vc, article |-> a, left |-> Len(loggedUser[vc].favorites) - 1]
  /\ UNCHANGED <<client, session, loggedUser, rows, articles, crashed>>

\* toggleFavorite with a user and the flag on: cleared, and the loop starts,
\* with a turn for each entry the list has now.
Unfavorite(vc, a) ==
  /\ UserEditsOn(vc) /\ loggedUser[vc] # Nil
  /\ a \in isFavorite[vc]
  /\ isFavorite' = [isFavorite EXCEPT ![vc] = @ \ {a}]
  /\ loop' = [vc |-> vc, article |-> a, left |-> Len(loggedUser[vc].favorites)]
  /\ UNCHANGED <<client, session, loggedUser, rows, articles, crashed>>

\* A turn of the loop: the first entry equal to the article, if there is one
\* left, is removed and the record uploaded.
LoopRemoves ==
  /\ loop # NoLoop /\ loop.left > 0
  /\ \E i \in DOMAIN loggedUser[loop.vc].favorites :
       /\ IsFirstIndex(loggedUser[loop.vc].favorites, loop.article, i)
       /\ loggedUser' = [loggedUser EXCEPT ![loop.vc] = RemoveFavoriteAt(@, i)]
       /\ Upload(loggedUser'[loop.vc])
  /\ loop' = [vc |-> loop.vc, article |-> loop.article, left |-> loop.left - 1]
  /\ UNCHANGED <<session, rows, articles, isFavorite, crashed, taps>>

\* No turn is left, or none would find the article.
LoopEnds ==
  /\ loop # NoLoop
  /\ loop.left = 0 \/ ~Contains(loggedUser[loop.vc].favorites, loop.article)
  /\ loop' = NoLoop
  /\ UNCHANGED <<client, session, screen, crashed, taps>>

\* Home's toggleFavorite without a user leaves the flag alone.
FavoriteAsksLogin ==
  /\ UserActsOn("Home") /\ loggedUser["Home"] = Nil /\ articles["Home"] # {}
  /\ ForceCheck("Home")

\* Search's toggleFavorite without a user flips the flag in any case, and with a
\* session writes a new record that has this article alone.
FavoriteCreates(a) ==
  /\ UserEditsOn("Search") /\ loggedUser["Search"] = Nil
  /\ a \in articles["Search"]
  /\ isFavorite' = [isFavorite EXCEPT !["Search"] =
                      IF a \in @ THEN @ \ {a} ELSE @ \cup {a}]
  /\ IF currentUser = Nil
     THEN UNCHANGED <<loggedUser, client>>
     ELSE /\ loggedUser' = [loggedUser EXCEPT !["Search"] =
                              AppendFavorite(NewUser(currentUser), a)]
          /\ Upload(loggedUser'["Search"])
  /\ UNCHANGED <<session, rows, articles, loop, crashed>>

\* removeFavorite of row i: the position of the row's article in the table is
\* used on the User object's list, which traps when it is shorter.
RemoveFavorite(i) ==
  /\ UserEditsOn("Favorites") /\ loggedUser["Favorites"] # Nil
  /\ i \in DOMAIN rows["Favorites"]
  /\ \E position \in 1 .. i :
       /\ IsFirstIndex(rows["Favorites"], rows["Favorites"][i], position)
       /\ IF position <= Len(loggedUser["Favorites"].favorites)
          THEN /\ loggedUser' = [loggedUser EXCEPT !["Favorites"] =
                                   RemoveFavoriteAt(@, position)]
               /\ Upload(loggedUser'["Favorites"])
               /\ UNCHANGED crashed
          ELSE /\ crashed' = TRUE
               /\ UNCHANGED <<loggedUser, client>>
  /\ UNCHANGED <<session, rows, articles, isFavorite, loop>>

\* Pull to refresh on Favorites.
RefreshFavorites ==
  /\ UserActsOn("Favorites")
  /\ client' = GetRows(client, "Favorites", currentUser)
  /\ UNCHANGED <<session, screen, loop, crashed, taps>>

\* Mutant: the note is kept in the User object and not uploaded.
SaveMessageLocally(n) ==
  /\ UserEditsOn("Notes") /\ loggedUser["Notes"] # Nil
  /\ loggedUser' = [loggedUser EXCEPT !["Notes"] = AppendNewNote(@, n)]
  /\ UNCHANGED <<client, session, rows, articles, isFavorite, loop, crashed>>

\* saveMessage with a user.
SaveMessage(n) ==
  /\ UserEditsOn("Notes") /\ loggedUser["Notes"] # Nil
  /\ loggedUser' = [loggedUser EXCEPT !["Notes"] = AppendNewNote(@, n)]
  /\ Upload(loggedUser'["Notes"])
  /\ UNCHANGED <<session, rows, articles, isFavorite, loop, crashed>>

\* saveMessage without one.
NoteAsksLogin ==
  /\ UserActsOn("Notes") /\ loggedUser["Notes"] = Nil
  /\ ForceCheck("Notes")

-----------------------------------------------------------------------------
(* Callbacks of the database, on the main thread.                           *)

\* Mutant: a controller that has a user keeps it.
CompletionOnce(c, vc, user) ==
  /\ loggedUser' = [loggedUser EXCEPT ![vc] = IF @ = Nil THEN user ELSE @]
  /\ client' = IF vc = "Favorites" THEN GetRows(c, vc, currentUser) ELSE c

\* The completion handler given to the check: the user is kept, and Favorites
\* asks for its rows again.
Completion(c, vc, user) ==
  /\ loggedUser' = [loggedUser EXCEPT ![vc] = user]
  /\ client' = IF vc = "Favorites" THEN GetRows(c, vc, currentUser) ELSE c

\* Mutant: the account is uploaded without asking whether it is there.
UsersCallbackCreates(c, vc, u, snap) ==
  /\ Completion(SetValue(c, u, ToDictionary(NewUser(u))), vc, NewUser(u))
  /\ UNCHANGED <<rows, isFavorite>>

\* Mutant: the new account is handed over and not uploaded.
UsersCallbackForgets(c, vc, u, snap) ==
  /\ IF snap # Nil
     THEN /\ client' = Observe(c, vc, u, "copy")
          /\ UNCHANGED loggedUser
     ELSE Completion(c, vc, NewUser(u))
  /\ UNCHANGED <<rows, isFavorite>>

\* users/ has a value: the account is observed, or created when it is missing.
UsersCallback(c, vc, u, snap) ==
  /\ IF snap # Nil
     THEN /\ client' = Observe(c, vc, u, "copy")
          /\ UNCHANGED loggedUser
     ELSE Completion(SetValue(c, u, ToDictionary(NewUser(u))), vc, NewUser(u))
  /\ UNCHANGED <<rows, isFavorite>>

\* users/uid has a value, for the check.
CopyCallback(c, vc, u, snap) ==
  /\ IF snap # Nil
     THEN Completion(c, vc, FromDictionary(u, snap))
     ELSE client' = c /\ UNCHANGED loggedUser
  /\ UNCHANGED <<rows, isFavorite>>

\* Mutant: the default entry is left out of the table, and stays in the list.
RowsCallbackHidesDefault(c, vc, u, snap) ==
  /\ client' = c
  /\ IF snap # Nil
     THEN rows' = [rows EXCEPT ![vc] =
                     IF vc = "Notes" THEN snap.notes
                                     ELSE SelectSeq(snap.favorites, LAMBDA a : a # NoData)]
     ELSE UNCHANGED rows
  /\ UNCHANGED <<loggedUser, isFavorite>>

\* users/uid has a value, for a table.
RowsCallback(c, vc, u, snap) ==
  /\ client' = c
  /\ IF snap # Nil
     THEN rows' = [rows EXCEPT ![vc] =
                     IF vc = "Notes" THEN FromDictionary(u, snap).notes
                                     ELSE FromDictionary(u, snap).favorites]
     ELSE UNCHANGED rows
  /\ UNCHANGED <<loggedUser, isFavorite>>

\* The article's flag is flipped once for each time it is in the list.
Flipped(flags, shown, list) ==
  LET Odd(a) == Len(SelectSeq(list, LAMBDA x : x = a)) % 2 = 1
  IN {a \in shown : (a \in flags) # Odd(a)}

\* Mutant: a second event runs the handler again.
OnceCallbackAgain(c, l, u, snap) ==
  /\ client' = c
  /\ IF snap # Nil
     THEN /\ loggedUser' = [loggedUser EXCEPT !["Search"] = FromDictionary(u, snap)]
          /\ isFavorite' = [isFavorite EXCEPT !["Search"] =
                              Flipped(@, articles["Search"],
                                      FromDictionary(u, snap).favorites)]
     ELSE UNCHANGED <<loggedUser, isFavorite>>
  /\ UNCHANGED rows

\* whoIsLoggedIn's only event; a second one finds the observer removed.
OnceCallback(c, l, u, snap) ==
  /\ client' = c
  /\ IF snap # Nil /\ l \in client.listeners
     THEN /\ loggedUser' = [loggedUser EXCEPT !["Search"] = FromDictionary(u, snap)]
          /\ isFavorite' = [isFavorite EXCEPT !["Search"] =
                              Flipped(@, articles["Search"],
                                      FromDictionary(u, snap).favorites)]
     ELSE UNCHANGED <<loggedUser, isFavorite>>
  /\ UNCHANGED rows

Deliver ==
  /\ MainIdle /\ client.queue # <<>>
  /\ \E e \in Due(client) :
       LET c == Take(client, e)
           l == e.listener
       IN CASE l.kind = "users" -> UsersCallback(c, l.vc, l.uid, e.snap)
            [] l.kind = "copy"  -> CopyCallback(c, l.vc, l.uid, e.snap)
            [] l.kind = "rows"  -> RowsCallback(c, l.vc, l.uid, e.snap)
            [] l.kind = "once"  -> OnceCallback(c, l, l.uid, e.snap)
  /\ UNCHANGED <<session, articles, loop, crashed, taps>>

-----------------------------------------------------------------------------
(* The server and the network.                                              *)

ServerAnswers ==
  /\ online /\ ~crashed
  /\ \E p \in Unanswered(client) : client' = Answer(client, p)
  /\ UNCHANGED <<session, screen, loop, crashed, taps>>

\* Requests are served in order: the listens before a write are answered first.
ServerAcks ==
  /\ online /\ ~crashed
  /\ client.pending # <<>> /\ Unanswered(client) = {}
  /\ client' = Ack(client)
  /\ UNCHANGED <<session, screen, loop, crashed, taps>>

NetworkChanges ==
  /\ MayGoOffline
  /\ online' = ~online
  /\ UNCHANGED <<client, currentUser, tab, loadedTabs, modal, icon, screen, loop,
                 crashed, taps>>

-----------------------------------------------------------------------------
Environment == ServerAnswers \/ ServerAcks \/ NetworkChanges \/ Relaunch

Session ==
  \/ \E t \in Tabs : SelectTab(t)
  \/ \E u \in Uid : SignIn(u)
  \/ LogOut \/ LogIn \/ CancelLogin \/ OpenFilter \/ CloseFilter

Edits ==
  \/ \E vc \in Feeds, a \in Article : AddToFavorites(vc, a) \/ Unfavorite(vc, a)
  \/ \E a \in Article : FavoriteCreates(a)
  \/ \E i \in DOMAIN rows["Favorites"] : RemoveFavorite(i)
  \/ \E n \in NoteText : SaveMessage(n)
  \/ FavoriteAsksLogin \/ NoteAsksLogin \/ RefreshFavorites

MainThread ==
  \/ \E vc \in Feeds, as \in SUBSET Article : FeedArrives(vc, as)
  \/ LoopRemoves \/ LoopEnds \/ Deliver

Next == Environment \/ Session \/ Edits \/ MainThread

Spec == Init /\ [][Next]_vars

\* The main thread runs what it is given and, with the network up, the server
\* answers; nothing makes the user act.
Fairness ==
  /\ WF_vars(Deliver) /\ WF_vars(LoopRemoves) /\ WF_vars(LoopEnds)
  /\ WF_vars(ServerAnswers) /\ WF_vars(ServerAcks)

FairSpec == Spec /\ Fairness
=============================================================================
