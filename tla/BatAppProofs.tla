---------------------------- MODULE BatAppProofs ----------------------------
(***************************************************************************)
(* Theorems about BatApp, for every value of its constants: its types, the *)
(* session button, that the screens' copies of an account agree, and that  *)
(* what they upload amounts to single edits of what is stored.             *)
(***************************************************************************)
EXTENDS BatAppProperties, Extrema, SequenceTheorems, TLAPS

-----------------------------------------------------------------------------
(* Sequences.                                                               *)

\* Appending and putting an element in front keep the type of a sequence.
LEMMA SeqGrowth ==
  ASSUME NEW S, NEW s \in Seq(S), NEW x \in S
  PROVE  Append(s, x) \in Seq(S) /\ <<x>> \o s \in Seq(S)
OBVIOUS

-----------------------------------------------------------------------------
(* The conversions of a User object.                                        *)

\* A new account is a user, and uploads a record.
LEMMA NewUserType ==
  ASSUME NEW u \in Uid
  PROVE  NewUser(u) \in User
BY DEF NewUser, User

\* What is read from a record is a user of the account it was asked for.
LEMMA FromDictionaryType ==
  ASSUME NEW u \in Uid, NEW r \in Stored
  PROVE  FromDictionary(u, r) \in User
<1>1. r.favorites \in Seq(Favorite) /\ r.notes \in Seq(Note)
  BY DEF Stored
<1>2. <<NoData>> \in Seq(Favorite) /\ <<NoNote>> \in Seq(Note)
  BY DEF Favorite, Note
<1>3. OrDefault(r.favorites, NoData) \in Seq(Favorite)
  BY <1>1, <1>2 DEF OrDefault
<1>4. OrDefault(r.notes, NoNote) \in Seq(Note)
  BY <1>1, <1>2 DEF OrDefault
<1>. QED  BY <1>3, <1>4 DEF FromDictionary, User

\* What is uploaded is a record.
LEMMA ToDictionaryType ==
  ASSUME NEW user \in User
  PROVE  ToDictionary(user) \in Stored
BY DEF ToDictionary, User, Stored

\* The edits of a user give a user of the same account.
LEMMA EditTypes ==
  ASSUME NEW user \in User
  PROVE  /\ \A a \in Article : AppendFavorite(user, a) \in User
         /\ \A n \in NoteText : AppendNewNote(user, n) \in User
         /\ \A i \in 1 .. Len(user.favorites) : RemoveFavoriteAt(user, i) \in User
<1>1. ASSUME NEW a \in Article PROVE AppendFavorite(user, a) \in User
  BY DEF AppendFavorite, User, Favorite
<1>2. ASSUME NEW n \in NoteText PROVE AppendNewNote(user, n) \in User
  BY DEF AppendNewNote, User, Note
<1>3. ASSUME NEW i \in 1 .. Len(user.favorites) PROVE RemoveFavoriteAt(user, i) \in User
  <2> DEFINE f == user.favorites
  <2>1. f \in Seq(Favorite)
    BY DEF User
  <2>2. SubSeq(f, 1, i - 1) \o SubSeq(f, i + 1, Len(f)) \in Seq(Favorite)
    BY <2>1
  <2>. QED  BY <2>2 DEF RemoveFavoriteAt, User
<1>. QED  BY <1>1, <1>2, <1>3

-----------------------------------------------------------------------------
(* The operations of the client.                                            *)

\* The values a client may be built from.
LEMMA ClientFields ==
  ASSUME NEW c \in Client
  PROVE  /\ c.server \in [Uid -> Stored \cup {Nil}]
         /\ c.view \in [Uid -> Stored \cup {Nil}]
         /\ c.pending \in Seq(Write)
         /\ c.listeners \subseteq Listener
         /\ c.synced \subseteq Uid \cup {AllUsers}
         /\ c.queue \in Seq(SUBSET Event)
BY DEF Client

\* Dispatching adds at most a batch of events.
LEMMA DispatchType ==
  ASSUME NEW q \in Seq(SUBSET Event), NEW v \in [Uid -> Stored \cup {Nil}],
         NEW ls \in SUBSET Listener
  PROVE  Dispatch(q, v, ls) \in Seq(SUBSET Event)
<1>1. Events(v, ls) \in SUBSET Event
  BY DEF Events, Event, Listener
<1>. QED  BY <1>1 DEF Dispatch

LEMMA FreshClientType ==
  ASSUME NEW server \in [Uid -> Stored \cup {Nil}]
  PROVE  FreshClient(server) \in Client
BY DEF FreshClient, Client

LEMMA SlotType ==
  ASSUME NEW c, NEW vc \in Controller, NEW u \in Uid, NEW kind \in Kind
  PROVE  Slot(c, vc, u, kind) \in Listener
<1> DEFINE Free(n) == [vc |-> vc, uid |-> u, kind |-> kind, n |-> n] \notin c.listeners
<1> DEFINE P(n) == Free(n) \/ \A m \in 1 .. MaxSame : ~Free(m)
<1>1. \E n \in 1 .. MaxSame : P(n)
  <2>1. 1 \in 1 .. MaxSame
    BY MaxSameAssumption
  <2>. QED  BY <2>1
<1>2. (CHOOSE n \in 1 .. MaxSame : P(n)) \in 1 .. MaxSame
  BY <1>1
<1>. QED  BY <1>2 DEF Slot, Listener

LEMMA ObserveType ==
  ASSUME NEW c \in Client, NEW vc \in Controller, NEW u \in Uid, NEW kind \in Kind
  PROVE  Observe(c, vc, u, kind) \in Client
<1> DEFINE l == Slot(c, vc, u, kind)
<1> DEFINE ls == IF HasData(c, l) THEN {l} ELSE {}
<1>1. l \in Listener
  BY SlotType
<1>2. Dispatch(c.queue, c.view, ls) \in Seq(SUBSET Event)
  BY <1>1, ClientFields, DispatchType
<1>3. c.listeners \cup {l} \subseteq Listener
  BY <1>1, ClientFields
<1> DEFINE q == Dispatch(c.queue, c.view, ls)
<1> HIDE DEF l, q
<1>4. [server |-> c.server, view |-> c.view, pending |-> c.pending,
       listeners |-> c.listeners \cup {l}, synced |-> c.synced, queue |-> q] \in Client
  BY <1>2, <1>3, ClientFields DEF Client, q
<1>. QED  BY <1>4 DEF Observe, l, q

LEMMA SetValueType ==
  ASSUME NEW c \in Client, NEW u \in Uid, NEW r \in Stored
  PROVE  SetValue(c, u, r) \in Client
<1> DEFINE v == [c.view EXCEPT ![u] = r]
<1>1. v \in [Uid -> Stored \cup {Nil}]
  BY ClientFields
<1>2. Append(c.pending, [uid |-> u, record |-> r]) \in Seq(Write)
  <2>1. [uid |-> u, record |-> r] \in Write
    BY DEF Write
  <2>. QED  BY <2>1, ClientFields, SeqGrowth
<1>3. Fired(c, u, r) \in SUBSET Listener
  BY ClientFields DEF Fired
<1>4. Dispatch(c.queue, v, Fired(c, u, r)) \in Seq(SUBSET Event)
  BY <1>1, <1>3, ClientFields, DispatchType
<1>. QED  BY <1>1, <1>2, <1>4, ClientFields DEF SetValue, Client

LEMMA AnswerType ==
  ASSUME NEW c \in Client, NEW p \in Unanswered(c)
  PROVE  Answer(c, p) \in Client
<1> DEFINE fired == {l \in c.listeners :
                       IF l.kind = "users" THEN p = AllUsers
                       ELSE p \in {AllUsers, l.uid} /\ ~Complete(c, l.uid)}
<1>1. p \in Uid \cup {AllUsers}
  BY ClientFields DEF Unanswered, Listener
<1>2. fired \in SUBSET Listener
  BY ClientFields
<1>3. Dispatch(c.queue, c.view, fired) \in Seq(SUBSET Event)
  BY <1>2, ClientFields, DispatchType
<1>. QED  BY <1>1, <1>3, ClientFields DEF Answer, Client

LEMMA AckType ==
  ASSUME NEW c \in Client, c.pending # <<>>
  PROVE  Ack(c) \in Client
<1>1. Head(c.pending) \in Write /\ Tail(c.pending) \in Seq(Write)
  BY ClientFields
<1>2. [c.server EXCEPT ![Head(c.pending).uid] = Head(c.pending).record]
        \in [Uid -> Stored \cup {Nil}]
  BY <1>1, ClientFields DEF Write
<1>. QED  BY <1>1, <1>2, ClientFields DEF Ack, Client

\* An event that may be delivered is one of the first batch.
LEMMA DueType ==
  ASSUME NEW c \in Client, c.queue # <<>>, NEW e \in Due(c)
  PROVE  e \in Event
<1>1. Head(c.queue) \in SUBSET Event
  BY ClientFields
<1>. QED  BY <1>1 DEF Due

LEMMA TakeType ==
  ASSUME NEW c \in Client, c.queue # <<>>, NEW e \in Due(c)
  PROVE  Take(c, e) \in Client
<1> DEFINE l    == e.listener
           rest == Head(c.queue) \ {e}
           left == IF l.kind = "once" THEN c.listeners \ {l} ELSE c.listeners
           kept == \E k \in left : k.uid = l.uid \/ k.kind = "users"
           q    == IF rest = {} THEN Tail(c.queue) ELSE <<rest>> \o Tail(c.queue)
           sy   == IF kept THEN c.synced ELSE c.synced \ {l.uid}
<1>1. Head(c.queue) \in SUBSET Event /\ Tail(c.queue) \in Seq(SUBSET Event)
  BY ClientFields
<1>2. <<rest>> \o Tail(c.queue) \in Seq(SUBSET Event)
  <2>1. rest \in SUBSET Event
    BY <1>1
  <2>. HIDE DEF rest
  <2>. QED  BY <1>1, <2>1, SeqGrowth
<1>3. q \in Seq(SUBSET Event)
  BY <1>1, <1>2
<1>4. left \subseteq Listener /\ sy \subseteq Uid \cup {AllUsers}
  BY ClientFields
<1> DEFINE t == [server |-> c.server, view |-> c.view, pending |-> c.pending,
                 listeners |-> left, synced |-> sy, queue |-> q]
<1> HIDE DEF q, left, sy
<1>5. t \in Client
  BY <1>3, <1>4, ClientFields DEF Client
<1>6. Take(c, e) = t
  BY Zenon DEF Take, q, left, sy
<1>. QED  BY <1>5, <1>6

-----------------------------------------------------------------------------
(* What the handlers share.                                                 *)

\* Registering observers, whoever is signed in, leaves a client.
LEMMA RegistrationTypes ==
  ASSUME NEW c \in Client, NEW u \in Uid \cup {Nil}
  PROVE  /\ \A vc \in Controller : CheckUser(c, vc, u) \in Client
         /\ \A vc \in Controller : GetRows(c, vc, u) \in Client
         /\ WhoIsLoggedIn(c, u) \in Client
<1>1. \A vc \in Controller, v \in Uid, kind \in Kind : Observe(c, vc, v, kind) \in Client
  BY ObserveType
<1>2. "users" \in Kind /\ "rows" \in Kind /\ "once" \in Kind /\ "Search" \in Controller
  BY DEF Kind, Controller
<1>. QED  BY <1>1, <1>2 DEF CheckUser, GetRows, WhoIsLoggedIn

LEMMA AppearanceTypes ==
  ASSUME NEW c \in Client, NEW t \in Controller, NEW u \in Uid \cup {Nil}
  PROVE  /\ ViewDidLoad(c, t, u) \in Client
         /\ ViewDidAppear(c, t, u) \in Client
<1>1. CheckUser(c, t, u) \in Client /\ GetRows(c, t, u) \in Client
      /\ WhoIsLoggedIn(c, u) \in Client
  BY RegistrationTypes
<1>2. GetRows(CheckUser(c, t, u), t, u) \in Client
  BY <1>1, RegistrationTypes
<1>. QED  BY <1>1, <1>2 DEF ViewDidLoad, ViewDidAppear, Controller

LEMMA LaunchedType ==
  ASSUME NEW server \in [Uid -> Stored \cup {Nil}], NEW u \in Uid \cup {Nil}
  PROVE  Launched(server, u) \in Client
BY FreshClientType, AppearanceTypes DEF Launched, Controller

LEMMA ScreenTypes ==
  ASSUME NEW t, NEW u, icon \in {"sign-in", "sign-out2"}
  PROVE  /\ ModalOnAppear(t, u) \in {"none", "login", "filter"}
         /\ LoginModal(u) \in {"none", "login", "filter"}
         /\ IconOnAppear(t, u) \in {"sign-in", "sign-out2"}
         /\ IconFor(u) \in {"sign-in", "sign-out2"}
BY DEF ModalOnAppear, LoginModal, IconOnAppear, IconFor

\* An upload of a user is a write of a record.
LEMMA UploadType ==
  ASSUME NEW user \in User, client \in Client, Upload(user)
  PROVE  client' \in Client
<1>1. user.ID \in Uid
  BY DEF User
<1>. QED  BY <1>1, ToDictionaryType, SetValueType DEF Upload

\* A check asked for by a handler.
LEMMA ForceCheckType ==
  ASSUME TypeOK, NEW vc \in Controller, ForceCheck(vc)
  PROVE  TypeOK'
<1>1. client' \in Client
  BY RegistrationTypes DEF ForceCheck, TypeOK
<1>2. modal' \in {"none", "login", "filter"}
  BY DEF ForceCheck, LoginModal
<1>. QED  BY <1>1, <1>2 DEF ForceCheck, TypeOK, screen

\* The initial values of a launch.
LEMMA LaunchScreenTypes ==
  /\ [vc \in Controller |-> Nil] \in [Controller -> User \cup {Nil}]
  /\ [vc \in Lists |-> <<>>] \in [Lists -> Seq(Row)]
  /\ [vc \in Feeds |-> {}] \in [Feeds -> SUBSET Article]
OBVIOUS

-----------------------------------------------------------------------------
(* Type correctness.                                                        *)

\* The loop runs with the main thread to itself, so the user it started with is
\* still there: without this a turn of the loop would have no list to work on.
LoopHasUser == loop # NoLoop => loggedUser[loop.vc] # Nil

LEMMA InitType == Init => TypeOK
<1> SUFFICES ASSUME Init PROVE TypeOK
  OBVIOUS
<1>1. PICK server \in [Uid -> StartRecords] :
        currentUser \in StartUsers /\ online = TRUE /\ client = Launched(server, currentUser)
  BY DEF Init
<1>2. server \in [Uid -> Stored \cup {Nil}] /\ currentUser \in Uid \cup {Nil}
  BY <1>1, AppAssumption
<1>3. client \in Client
  BY <1>1, <1>2, LaunchedType
<1>. QED  BY <1>1, <1>2, <1>3, LaunchScreenTypes
          DEF Init, TypeOK, IconFor, Controller

LEMMA EnvironmentType ==
  ASSUME TypeOK, Environment
  PROVE  TypeOK'
<1>1. CASE ServerAnswers
  <2>1. client' \in Client
    BY <1>1, AnswerType DEF ServerAnswers, TypeOK
  <2>. QED  BY <1>1, <2>1 DEF ServerAnswers, TypeOK, session, screen
<1>2. CASE ServerAcks
  <2>1. client' \in Client
    BY <1>2, AckType DEF ServerAcks, TypeOK
  <2>. QED  BY <1>2, <2>1 DEF ServerAcks, TypeOK, session, screen
<1>3. CASE NetworkChanges
  BY <1>3 DEF NetworkChanges, TypeOK, screen
<1>4. CASE Relaunch
  <2>1. client' \in Client
    BY <1>4, ClientFields, LaunchedType DEF Relaunch, TypeOK
  <2>. QED  BY <1>4, <2>1, LaunchScreenTypes DEF Relaunch, TypeOK, IconFor, Controller
<1>. QED  BY <1>1, <1>2, <1>3, <1>4 DEF Environment

LEMMA SessionType ==
  ASSUME TypeOK, Session
  PROVE  TypeOK'
<1>0. client \in Client /\ tab \in Controller /\ currentUser \in Uid \cup {Nil}
      /\ icon \in {"sign-in", "sign-out2"}
  BY DEF TypeOK
<1>1. ASSUME NEW u \in Uid \cup {Nil}, Dismiss(u), currentUser' = u
      PROVE  TypeOK'
  <2>1. client' \in Client
    BY <1>0, <1>1, AppearanceTypes DEF Dismiss
  <2>2. modal' \in {"none", "login", "filter"} /\ icon' \in {"sign-in", "sign-out2"}
    BY <1>0, <1>1, ScreenTypes DEF Dismiss
  <2>. QED  BY <1>1, <2>1, <2>2 DEF Dismiss, TypeOK, screen
<1>2. ASSUME NEW t \in Tabs, SelectTab(t) PROVE TypeOK'
  <2>0. t \in Controller
    BY AppAssumption
  <2>1. (IF t \in loadedTabs THEN client ELSE ViewDidLoad(client, t, currentUser)) \in Client
    BY <1>0, <2>0, AppearanceTypes
  <2>2. client' \in Client
    BY <1>0, <1>2, <2>0, <2>1, AppearanceTypes DEF SelectTab
  <2>3. modal' \in {"none", "login", "filter"} /\ icon' \in {"sign-in", "sign-out2"}
    BY <1>0, <1>2, ScreenTypes DEF SelectTab
  <2>. QED  BY <1>2, <2>0, <2>2, <2>3 DEF SelectTab, TypeOK, screen
<1>3. ASSUME NEW u \in Uid, SignIn(u) PROVE TypeOK'
  BY <1>1, <1>3 DEF SignIn
<1>4. CASE LogOut
  BY <1>4 DEF LogOut, TypeOK, IconFor
<1>5. CASE LogIn
  BY <1>0, <1>5, ForceCheckType DEF LogIn, Controller
<1>6. CASE CancelLogin
  BY <1>0, <1>1, <1>6 DEF CancelLogin
<1>7. CASE OpenFilter
  BY <1>7 DEF OpenFilter, TypeOK, screen
<1>8. CASE CloseFilter
  BY <1>0, <1>1, <1>8 DEF CloseFilter
<1>. QED  BY <1>2, <1>3, <1>4, <1>5, <1>6, <1>7, <1>8 DEF Session

LEMMA EditsType ==
  ASSUME TypeOK, Edits
  PROVE  TypeOK'
<1>0. /\ client \in Client /\ currentUser \in Uid \cup {Nil}
      /\ loggedUser \in [Controller -> User \cup {Nil}] /\ taps \in Nat
      /\ Feeds \subseteq Controller
      /\ "Search" \in Controller /\ "Favorites" \in Controller /\ "Notes" \in Controller
  BY DEF TypeOK, Feeds, Controller
<1>1. ASSUME NEW vc \in Controller, NEW user \in User,
             loggedUser' = [loggedUser EXCEPT ![vc] = user], Upload(loggedUser'[vc])
      PROVE  loggedUser' \in [Controller -> User \cup {Nil}] /\ client' \in Client
  <2>1. loggedUser'[vc] = user
    BY <1>0, <1>1
  <2>. QED  BY <1>0, <1>1, <2>1, UploadType
<1>2. ASSUME NEW vc \in Feeds, NEW a \in Article, AddToFavorites(vc, a) PROVE TypeOK'
  <2>1. AppendFavorite(loggedUser[vc], a) \in User
    BY <1>0, <1>2, EditTypes DEF AddToFavorites
  <2>2. loggedUser' \in [Controller -> User \cup {Nil}] /\ client' \in Client
    BY <1>0, <1>1, <1>2, <2>1 DEF AddToFavorites
  <2>. QED  BY <1>2, <2>2 DEF AddToFavorites, UserEditsOn, TypeOK, session
<1>3. ASSUME NEW vc \in Feeds, NEW a \in Article, Unfavorite(vc, a) PROVE TypeOK'
  <2>1. Len(loggedUser[vc].favorites) \in Nat
    BY <1>0, <1>3 DEF Unfavorite, User
  <2>2. loop' \in Loop
    BY <1>3, <2>1 DEF Unfavorite, Loop
  <2>. QED  BY <1>3, <2>2 DEF Unfavorite, UserEditsOn, TypeOK, session
<1>4. ASSUME NEW a \in Article, FavoriteCreates(a) PROVE TypeOK'
  <2>1. isFavorite' \in [Feeds -> SUBSET Article]
    BY <1>4 DEF FavoriteCreates, TypeOK
  <2>2. loggedUser' \in [Controller -> User \cup {Nil}] /\ client' \in Client
    <3>1. CASE currentUser = Nil
      BY <1>0, <1>4, <3>1 DEF FavoriteCreates
    <3>2. CASE currentUser # Nil
      <4>1. AppendFavorite(NewUser(currentUser), a) \in User
        BY <1>0, <3>2, NewUserType, EditTypes
      <4>. QED  BY <1>0, <1>1, <1>4, <3>2, <4>1 DEF FavoriteCreates
    <3>. QED  BY <3>1, <3>2
  <2>. QED  BY <1>4, <2>1, <2>2 DEF FavoriteCreates, UserEditsOn, TypeOK, session
<1>5. ASSUME NEW i \in DOMAIN rows["Favorites"], RemoveFavorite(i) PROVE TypeOK'
  <2>1. PICK position \in 1 .. i :
          IF position <= Len(loggedUser["Favorites"].favorites)
          THEN /\ loggedUser' = [loggedUser EXCEPT !["Favorites"] =
                                   RemoveFavoriteAt(@, position)]
               /\ Upload(loggedUser'["Favorites"])
               /\ UNCHANGED crashed
          ELSE /\ crashed' = TRUE
               /\ UNCHANGED <<loggedUser, client>>
    BY <1>5 DEF RemoveFavorite
  <2>2. loggedUser' \in [Controller -> User \cup {Nil}] /\ client' \in Client
        /\ crashed' \in BOOLEAN
    <3>1. CASE position <= Len(loggedUser["Favorites"].favorites)
      <4>1. loggedUser["Favorites"] \in User
        BY <1>0, <1>5 DEF RemoveFavorite
      <4>2. rows["Favorites"] \in Seq(Row)
        BY DEF TypeOK, Lists
      <4>3. position \in 1 .. Len(loggedUser["Favorites"].favorites)
        BY <3>1, <4>2
      <4>4. RemoveFavoriteAt(loggedUser["Favorites"], position) \in User
        BY <4>1, <4>3, EditTypes
      <4>. QED  BY <1>0, <1>1, <2>1, <3>1, <4>4 DEF TypeOK
    <3>2. CASE ~(position <= Len(loggedUser["Favorites"].favorites))
      BY <1>0, <2>1, <3>2
    <3>. QED  BY <3>1, <3>2
  <2>. QED  BY <1>5, <2>2 DEF RemoveFavorite, UserEditsOn, TypeOK, session
<1>6. ASSUME NEW n \in NoteText, SaveMessage(n) PROVE TypeOK'
  <2>1. AppendNewNote(loggedUser["Notes"], n) \in User
    BY <1>0, <1>6, EditTypes DEF SaveMessage
  <2>2. loggedUser' \in [Controller -> User \cup {Nil}] /\ client' \in Client
    BY <1>0, <1>1, <1>6, <2>1 DEF SaveMessage
  <2>. QED  BY <1>6, <2>2 DEF SaveMessage, UserEditsOn, TypeOK, session
<1>7. CASE FavoriteAsksLogin
  BY <1>7, ForceCheckType DEF FavoriteAsksLogin, Controller
<1>8. CASE NoteAsksLogin
  BY <1>8, ForceCheckType DEF NoteAsksLogin, Controller
<1>9. CASE RefreshFavorites
  <2>1. client' \in Client
    BY <1>0, <1>9, RegistrationTypes DEF RefreshFavorites
  <2>. QED  BY <1>9, <2>1 DEF RefreshFavorites, TypeOK, session, screen
<1>. QED  BY <1>2, <1>3, <1>4, <1>5, <1>6, <1>7, <1>8, <1>9 DEF Edits

LEMMA DeliverType ==
  ASSUME TypeOK, Deliver
  PROVE  TypeOK'
<1>0. /\ client \in Client /\ currentUser \in Uid \cup {Nil}
      /\ loggedUser \in [Controller -> User \cup {Nil}]
      /\ rows \in [Lists -> Seq(Row)] /\ isFavorite \in [Feeds -> SUBSET Article]
      /\ articles \in [Feeds -> SUBSET Article]
  BY DEF TypeOK
<1>1. PICK e \in Due(client) :
        LET c == Take(client, e)
            l == e.listener
        IN CASE l.kind = "users" -> UsersCallback(c, l.vc, l.uid, e.snap)
             [] l.kind = "copy"  -> CopyCallback(c, l.vc, l.uid, e.snap)
             [] l.kind = "rows"  -> RowsCallback(c, l.vc, l.uid, e.snap)
             [] l.kind = "once"  -> OnceCallback(c, l, l.uid, e.snap)
  BY DEF Deliver
<1> DEFINE c == Take(client, e)
           l == e.listener
<1>2. e \in Event
  BY <1>0, DueType DEF Deliver
<1>3. l \in Listener /\ e.snap \in Stored \cup {Nil}
  BY <1>2 DEF Event
<1>4. l.vc \in Controller /\ l.uid \in Uid /\ l.kind \in Kind
  BY <1>3 DEF Listener
<1>5. c \in Client
  BY <1>0, TakeType DEF Deliver
<1> HIDE DEF c
<1>6. ASSUME NEW d \in Client, NEW user \in User, Completion(d, l.vc, user)
      PROVE  loggedUser' \in [Controller -> User \cup {Nil}] /\ client' \in Client
  BY <1>0, <1>4, <1>6, RegistrationTypes DEF Completion
<1>7. e.snap # Nil => FromDictionary(l.uid, e.snap) \in User
  BY <1>3, <1>4, FromDictionaryType
<1>8. /\ client' \in Client
      /\ loggedUser' \in [Controller -> User \cup {Nil}]
      /\ rows' \in [Lists -> Seq(Row)]
      /\ isFavorite' \in [Feeds -> SUBSET Article]
  <2>1. CASE l.kind = "users"
    <3>1. UsersCallback(c, l.vc, l.uid, e.snap)
      BY <1>1, <2>1 DEF c
    <3>2. CASE e.snap # Nil
      <4>1. Observe(c, l.vc, l.uid, "copy") \in Client
        BY <1>4, <1>5, ObserveType DEF Kind
      <4>. QED  BY <1>0, <3>1, <3>2, <4>1 DEF UsersCallback
    <3>3. CASE e.snap = Nil
      <4>1. NewUser(l.uid) \in User /\ ToDictionary(NewUser(l.uid)) \in Stored
        BY <1>4, NewUserType, ToDictionaryType
      <4>2. SetValue(c, l.uid, ToDictionary(NewUser(l.uid))) \in Client
        BY <1>4, <1>5, <4>1, SetValueType
      <4>. QED  BY <1>0, <1>6, <3>1, <3>3, <4>1, <4>2 DEF UsersCallback
    <3>. QED  BY <3>2, <3>3
  <2>2. CASE l.kind = "copy"
    <3>1. CopyCallback(c, l.vc, l.uid, e.snap)
      BY <1>1, <2>2 DEF c
    <3>. QED  BY <1>0, <1>5, <1>6, <1>7, <3>1 DEF CopyCallback
  <2>3. CASE l.kind = "rows"
    <3>1. RowsCallback(c, l.vc, l.uid, e.snap)
      BY <1>1, <2>3 DEF c
    <3>2. e.snap # Nil => /\ FromDictionary(l.uid, e.snap).notes \in Seq(Row)
                          /\ FromDictionary(l.uid, e.snap).favorites \in Seq(Row)
      BY <1>7 DEF User, Row
    <3>. QED  BY <1>0, <1>5, <3>1, <3>2 DEF RowsCallback
  <2>4. CASE l.kind = "once"
    <3>1. OnceCallback(c, l, l.uid, e.snap)
      BY <1>1, <2>4 DEF c
    <3>2. \A flags, list : Flipped(flags, articles["Search"], list) \in SUBSET Article
      BY <1>0 DEF Flipped, Feeds
    <3> DEFINE flipped == Flipped(isFavorite["Search"], articles["Search"],
                                  FromDictionary(l.uid, e.snap).favorites)
               user == FromDictionary(l.uid, e.snap)
    <3>3. flipped \in SUBSET Article
      BY <3>2
    <3>4. [isFavorite EXCEPT !["Search"] = flipped] \in [Feeds -> SUBSET Article]
      BY <1>0, <3>3
    <3>5. e.snap # Nil => [loggedUser EXCEPT !["Search"] = user]
                            \in [Controller -> User \cup {Nil}]
      BY <1>0, <1>7
    <3>. HIDE DEF flipped, user
    <3>6. /\ client' = c /\ rows' = rows
          /\ \/ loggedUser' = loggedUser /\ isFavorite' = isFavorite
             \/ /\ e.snap # Nil
                /\ loggedUser' = [loggedUser EXCEPT !["Search"] = user]
                /\ isFavorite' = [isFavorite EXCEPT !["Search"] = flipped]
      BY <3>1 DEF OnceCallback, flipped, user
    <3>. QED  BY <1>0, <1>5, <3>4, <3>5, <3>6
  <2>. QED  BY <1>4, <2>1, <2>2, <2>3, <2>4 DEF Kind
<1>. QED  BY <1>8 DEF Deliver, TypeOK, session

LEMMA MainThreadType ==
  ASSUME TypeOK, LoopHasUser, MainThread
  PROVE  TypeOK'
<1>1. ASSUME NEW vc \in Feeds, NEW as \in SUBSET Article, FeedArrives(vc, as) PROVE TypeOK'
  BY <1>1 DEF FeedArrives, TypeOK, session
<1>2. CASE LoopRemoves
  <2>0. loop \in Loop /\ loop.left \in Nat \ {0} /\ loop.vc \in Controller
    BY <1>2 DEF LoopRemoves, TypeOK, Loop, Feeds, Controller
  <2>1. loop' \in Loop
    BY <1>2, <2>0 DEF LoopRemoves, Loop
  <2>2. PICK i \in DOMAIN loggedUser[loop.vc].favorites :
          /\ loggedUser' = [loggedUser EXCEPT ![loop.vc] = RemoveFavoriteAt(@, i)]
          /\ Upload(loggedUser'[loop.vc])
    BY <1>2 DEF LoopRemoves
  <2>3. loggedUser[loop.vc] \in User
    BY <1>2, <2>0 DEF LoopRemoves, LoopHasUser, TypeOK
  <2>4. RemoveFavoriteAt(loggedUser[loop.vc], i) \in User
    BY <2>3, EditTypes DEF User
  <2>5. loggedUser'[loop.vc] = RemoveFavoriteAt(loggedUser[loop.vc], i)
        /\ loggedUser' \in [Controller -> User \cup {Nil}]
    BY <2>0, <2>2, <2>4 DEF TypeOK
  <2>6. client' \in Client
    BY <2>2, <2>4, <2>5, UploadType DEF TypeOK
  <2>. QED  BY <1>2, <2>1, <2>5, <2>6 DEF LoopRemoves, TypeOK, session
<1>3. CASE LoopEnds
  BY <1>3 DEF LoopEnds, TypeOK, session, screen
<1>4. CASE Deliver
  BY <1>4, DeliverType
<1>. QED  BY <1>1, <1>2, <1>3, <1>4 DEF MainThread

LEMMA NextType ==
  ASSUME TypeOK, LoopHasUser, [Next]_vars
  PROVE  TypeOK'
<1>1. CASE Next
  BY <1>1, EnvironmentType, SessionType, EditsType, MainThreadType DEF Next
<1>2. CASE UNCHANGED vars
  BY <1>2 DEF vars, TypeOK
<1>. QED  BY <1>1, <1>2

LEMMA NextLoopHasUser ==
  ASSUME TypeOK, LoopHasUser, [Next]_vars
  PROVE  LoopHasUser'
<1>1. ASSUME loop = NoLoop, loop' = loop PROVE LoopHasUser'
  BY <1>1 DEF LoopHasUser
<1>2. CASE Environment
  BY <1>2 DEF Environment, ServerAnswers, ServerAcks, NetworkChanges, Relaunch,
              screen, LoopHasUser
<1>3. CASE Session
  BY <1>1, <1>3 DEF Session, SelectTab, SignIn, LogOut, LogIn, CancelLogin, OpenFilter,
              CloseFilter, Dismiss, ForceCheck, UserActsOn, UserActs, MainIdle
<1>4. CASE Edits
  <2>1. ASSUME NEW vc \in Feeds, NEW a \in Article, Unfavorite(vc, a) PROVE LoopHasUser'
    <3>1. loop'.vc = vc /\ loggedUser[vc] # Nil /\ loggedUser' = loggedUser
      BY <2>1 DEF Unfavorite
    <3>. QED  BY <3>1 DEF LoopHasUser
  <2>. QED  BY <1>1, <1>4, <2>1 DEF Edits, AddToFavorites, FavoriteCreates,
              RemoveFavorite, SaveMessage, FavoriteAsksLogin, NoteAsksLogin,
              RefreshFavorites, ForceCheck, UserEditsOn, UserActsOn, UserActs, MainIdle
<1>5. CASE MainThread
  <2>1. ASSUME NEW vc \in Feeds, NEW as \in SUBSET Article, FeedArrives(vc, as)
        PROVE  LoopHasUser'
    BY <1>1, <2>1 DEF FeedArrives, MainIdle
  <2>2. CASE LoopRemoves
    <3>1. loop'.vc = loop.vc /\ loop.vc \in Controller /\ loop \in Loop
      BY <2>2 DEF LoopRemoves, TypeOK, Loop, Feeds, Controller
    <3>2. \E user : user # Nil /\ loggedUser' = [loggedUser EXCEPT ![loop.vc] = user]
      <4>1. PICK i \in DOMAIN loggedUser[loop.vc].favorites :
              loggedUser' = [loggedUser EXCEPT ![loop.vc] = RemoveFavoriteAt(@, i)]
        BY <2>2 DEF LoopRemoves
      <4>2. loggedUser[loop.vc] \in User
        BY <2>2, <3>1 DEF LoopRemoves, LoopHasUser, TypeOK
      <4>3. RemoveFavoriteAt(loggedUser[loop.vc], i) \in User
        BY <4>2, EditTypes DEF User
      <4>. QED  BY <4>1, <4>3, NilAssumption
    <3>3. loggedUser'[loop.vc] # Nil
      BY <3>1, <3>2 DEF TypeOK
    <3>. QED  BY <3>1, <3>3 DEF LoopHasUser
  <2>3. CASE LoopEnds
    BY <2>3 DEF LoopEnds, LoopHasUser
  <2>4. CASE Deliver
    BY <1>1, <2>4 DEF Deliver, MainIdle
  <2>. QED  BY <1>5, <2>1, <2>2, <2>3, <2>4 DEF MainThread
<1>6. CASE UNCHANGED vars
  BY <1>6 DEF vars, LoopHasUser
<1>. QED  BY <1>2, <1>3, <1>4, <1>5, <1>6 DEF Next

\* Every variable keeps its type in every reachable state: in particular no
\* handler works on a missing User object, and no observer, write or callback is
\* for anything but an account and one of its records.
THEOREM TypeCorrect == Spec => []TypeOK
<1>1. Init => TypeOK /\ LoopHasUser
  BY InitType DEF Init, LoopHasUser
<1>2. TypeOK /\ LoopHasUser /\ [Next]_vars => (TypeOK /\ LoopHasUser)'
  BY NextType, NextLoopHasUser
<1>. QED  BY <1>1, <1>2, PTL DEF Spec

-----------------------------------------------------------------------------
(* The session button.                                                      *)

\* With Home in front and nothing over it, the button shows whether there is a
\* session: sign-out by the filter happens under a modal, and the modal's end
\* lets Home appear again.
THEOREM IconCorrect == Spec => []IconMatchesSession
<1>1. Init => IconMatchesSession
  BY DEF Init, IconMatchesSession
<1>2. ASSUME IconMatchesSession, [Next]_vars
      PROVE  IconMatchesSession'
  <2>1. ASSUME NEW u, Dismiss(u), currentUser' = u PROVE IconMatchesSession'
    BY <2>1 DEF Dismiss, IconOnAppear, IconFor, IconMatchesSession
  <2>3. ASSUME NEW vc, ForceCheck(vc), modal = "none" PROVE IconMatchesSession'
    BY <1>2, <2>3 DEF ForceCheck, IconFor, IconMatchesSession
  <2>4. CASE Environment
    <3>1. CASE Relaunch
      BY <3>1 DEF Relaunch, IconFor, IconMatchesSession
    <3>. QED  BY <1>2, <2>4, <3>1
              DEF Environment, ServerAnswers, ServerAcks, NetworkChanges, session,
                  IconMatchesSession, IconFor
  <2>5. CASE Session
    <3>1. ASSUME NEW t \in Tabs, SelectTab(t) PROVE IconMatchesSession'
      BY <3>1 DEF SelectTab, IconOnAppear, IconFor, IconMatchesSession
    <3>2. ASSUME NEW u \in Uid, SignIn(u) PROVE IconMatchesSession'
      BY <2>1, <3>2 DEF SignIn
    <3>3. CASE LogOut
      BY <3>3 DEF LogOut, IconFor, IconMatchesSession
    <3>4. CASE LogIn
      BY <2>3, <3>4 DEF LogIn, UserActsOn
    <3>5. CASE CancelLogin \/ CloseFilter
      BY <2>1, <3>5 DEF CancelLogin, CloseFilter
    <3>6. CASE OpenFilter
      BY <3>6 DEF OpenFilter, IconMatchesSession
    <3>. QED  BY <2>5, <3>1, <3>2, <3>3, <3>4, <3>5, <3>6 DEF Session
  <2>6. CASE Edits
    <3>1. CASE FavoriteAsksLogin \/ NoteAsksLogin
      BY <2>3, <3>1 DEF FavoriteAsksLogin, NoteAsksLogin, UserActsOn
    <3>2. CASE ~(FavoriteAsksLogin \/ NoteAsksLogin)
      BY <1>2, <2>6, <3>2 DEF Edits, AddToFavorites, Unfavorite, FavoriteCreates,
         RemoveFavorite, SaveMessage, RefreshFavorites, session, IconMatchesSession, IconFor
    <3>. QED  BY <3>1, <3>2
  <2>7. CASE MainThread
    BY <1>2, <2>7 DEF MainThread, FeedArrives, LoopRemoves, LoopEnds, Deliver, session,
       IconMatchesSession, IconFor
  <2>8. CASE UNCHANGED vars
    BY <1>2, <2>8 DEF vars, IconMatchesSession, IconFor
  <2>. QED  BY <1>2, <2>4, <2>5, <2>6, <2>7, <2>8 DEF Next
<1>. QED  BY <1>1, <1>2, PTL DEF Spec

-----------------------------------------------------------------------------
(***************************************************************************)
(* That the screens' copies of an account agree (CopiesAgree), for every   *)
(* value of the constants: any number of accounts, any backlog of callbacks*)
(* when the user acts, any loss of the network and any kill of the app.    *)
(*                                                                         *)
(* The property speaks of the states where every callback has run.  What   *)
(* makes it inductive is what the callbacks still waiting will do: the last*)
(* one of each observer carries the value the client shows now, so an older*)
(* value delivered late is always followed by the current one.  This rests *)
(* on the client knowing the whole of users/ as soon as an account is      *)
(* observed for the check: from then on a write that changes the view fires*)
(* every such observer.                                                    *)
(***************************************************************************)

-----------------------------------------------------------------------------
(* The invariant.                                                           *)

\* The check's observer on users/ is there and has been answered; it is never
\* removed, and while it is there the client forgets nothing.
Checked(c) ==
  /\ AllUsers \in c.synced
  /\ \E k \in c.listeners : k.kind = "users"

\* A screen that observes an account does so through the check, and the account
\* has a record.  Search never checks.
ObserversSound(c) ==
  \A l \in c.listeners :
    /\ l.kind \in {"users", "copy"} => l.vc # "Search"
    /\ l.kind = "copy" => Checked(c) /\ c.view[l.uid] # Nil

\* A later batch has an event for the observer.
Later(c, i, l) == \E j \in DOMAIN c.queue : j > i /\ \E f \in c.queue[j] : f.listener = l

\* The events waiting are for observers that are there; records do not go away;
\* and the last event of an observer shows what the client shows.
EventSound(c, i, e) ==
  /\ e.listener.kind # "once" => e.listener \in c.listeners
  /\ e.listener.kind = "users" => AllUsers \in c.synced
  /\ e.snap # Nil => c.view[e.listener.uid] # Nil
  /\ e.listener.kind \in {"copy", "rows"} =>
       \/ e.snap = c.view[e.listener.uid]
       \/ Later(c, i, e.listener)

EventsSound(c) == \A i \in DOMAIN c.queue : \A e \in c.queue[i] : EventSound(c, i, e)

\* A screen waits for the value of an account.
Waiting(c, vc, u) ==
  \E i \in DOMAIN c.queue : \E e \in c.queue[i] :
    e.listener.kind = "copy" /\ e.listener.vc = vc /\ e.listener.uid = u

Agrees(user, r) ==
  r # Nil /\ (user = FromDictionary(user.ID, r) \/ ToDictionary(user) = r)

\* A screen that waits for nothing has what the client shows.
Accord(c, users) ==
  \A l \in c.listeners :
    l.kind = "copy" /\ users[l.vc] # Nil /\ users[l.vc].ID = l.uid
      => Waiting(c, l.vc, l.uid) \/ Agrees(users[l.vc], c.view[l.uid])

\* Rows of Favorites wait for a value of the account they are of, or are those the
\* client shows of it.  Without an object that has favourites they are of no use.
WaitingFor(c, l) == \E i \in DOMAIN c.queue : \E e \in c.queue[i] : e.listener = l

Shown(c, lists) ==
  \/ lists["Favorites"] = <<>>
  \/ \E l \in c.listeners :
       /\ l.kind = "rows" /\ l.vc = "Favorites" /\ c.view[l.uid] # Nil
       /\ \/ WaitingFor(c, l)
          \/ lists["Favorites"] = FromDictionary(l.uid, c.view[l.uid]).favorites

\* Favorites has an object with favourites only through an observer of the check.
Bare(user) == user = Nil \/ user.favorites = <<>>

Observed(c, users) ==
  \/ Bare(users["Favorites"])
  \/ \E l \in c.listeners : l.kind = "copy" /\ l.vc = "Favorites"

Sound(c, users, lists) ==
  /\ ObserversSound(c) /\ EventsSound(c)
  /\ Accord(c, users) /\ Observed(c, users) /\ Shown(c, lists)

CopyInv == Sound(client, loggedUser, rows)

-----------------------------------------------------------------------------
(* Registrations, writes and answers: a batch more, for some observers.     *)

\* From c to d the client may show another value and have more observers; those
\* in ls are told, among them the check's observers of what changed and of what
\* is new.
Grows(c, d, ls) ==
  /\ d.queue = Dispatch(c.queue, d.view, ls)
  /\ ls \subseteq d.listeners
  /\ c.listeners \subseteq d.listeners
  /\ c.synced \subseteq d.synced
  /\ \A u \in Uid : c.view[u] # Nil => d.view[u] # Nil
  /\ \A l \in c.listeners :
       l.kind \in {"copy", "rows"} /\ d.view[l.uid] # c.view[l.uid] => l \in ls
  /\ \A l \in d.listeners \ c.listeners :
       /\ l.kind \in {"users", "copy"} => l.vc # "Search"
       /\ l.kind = "copy" => Checked(d) /\ d.view[l.uid] # Nil /\ l \in ls
  /\ \A l \in ls : l.kind = "users" => AllUsers \in d.synced

\* What was waiting stays where it was, and the new batch comes after it.
LEMMA DispatchKeeps ==
  ASSUME NEW q \in Seq(SUBSET Event), NEW v \in [Uid -> Stored \cup {Nil}],
         NEW ls \in SUBSET Listener, NEW r, r = Dispatch(q, v, ls)
  PROVE  /\ \A i \in DOMAIN q : i \in DOMAIN r /\ r[i] = q[i] /\ i < Len(q) + 1
         /\ \A i \in DOMAIN r : i \in DOMAIN q \/ r[i] = Events(v, ls)
         /\ ls # {} => Len(q) + 1 \in DOMAIN r /\ r[Len(q) + 1] = Events(v, ls)
<1>1. Events(v, ls) \in SUBSET Event
  BY DEF Events, Event, Listener
<1>. DEFINE b == Events(v, ls)
<1>. HIDE DEF b
<1>2. CASE ls = {}
  <2>1. r = q
    BY <1>2 DEF Dispatch
  <2>. QED  BY <1>2, <2>1
<1>3. CASE ls # {}
  <2>1. r = Append(q, b)
    BY <1>3 DEF Dispatch, b
  <2>2. /\ DOMAIN q = 1 .. Len(q) /\ DOMAIN r = 1 .. Len(q) + 1 /\ Len(q) \in Nat
        /\ r[Len(q) + 1] = b
        /\ \A i \in 1 .. Len(q) : r[i] = q[i]
    BY <1>1, <2>1 DEF b
  <2>. QED  BY <2>2 DEF b
<1>. QED  BY <1>2, <1>3

LEMMA EventsOf ==
  ASSUME NEW v, NEW ls
  PROVE  /\ \A e \in Events(v, ls) : e.listener \in ls /\ e.snap = v[e.listener.uid]
         /\ \A l \in ls : \E e \in Events(v, ls) : e.listener = l
<1>1. ASSUME NEW l \in ls PROVE \E e \in Events(v, ls) : e.listener = l
  <2>1. [listener |-> l, snap |-> v[l.uid]] \in Events(v, ls)
    BY DEF Events
  <2>. QED  BY <2>1
<1>. QED  BY <1>1 DEF Events

LEMMA GrowthSound ==
  ASSUME NEW c \in Client, NEW d \in Client, NEW ls, Grows(c, d, ls),
         ObserversSound(c), EventsSound(c)
  PROVE  ObserversSound(d) /\ EventsSound(d)
<1>0. /\ c.queue \in Seq(SUBSET Event) /\ d.view \in [Uid -> Stored \cup {Nil}]
      /\ c.listeners \subseteq Listener /\ d.listeners \subseteq Listener
      /\ ls \in SUBSET Listener /\ d.queue = Dispatch(c.queue, d.view, ls)
  BY ClientFields DEF Grows
<1>. DEFINE q == c.queue
            b == Events(d.view, ls)
<1>1. /\ \A i \in DOMAIN q : i \in DOMAIN d.queue /\ d.queue[i] = q[i] /\ i < Len(q) + 1
      /\ \A i \in DOMAIN d.queue : i \in DOMAIN q \/ d.queue[i] = b
      /\ ls # {} => Len(q) + 1 \in DOMAIN d.queue /\ d.queue[Len(q) + 1] = b
  BY <1>0, DispatchKeeps
<1>2. /\ \A e \in b : e.listener \in ls /\ e.snap = d.view[e.listener.uid]
      /\ \A l \in ls : \E e \in b : e.listener = l
  BY EventsOf
<1>. HIDE DEF b
<1>3. Checked(c) => Checked(d)
  BY DEF Checked, Grows
<1>4. ObserversSound(d)
  <2>. SUFFICES ASSUME NEW l \in d.listeners
                PROVE  /\ l.kind \in {"users", "copy"} => l.vc # "Search"
                       /\ l.kind = "copy" => Checked(d) /\ d.view[l.uid] # Nil
    BY DEF ObserversSound
  <2>1. CASE l \in c.listeners
    <3>1. l.uid \in Uid
      BY <1>0 DEF Listener
    <3>. QED  BY <1>3, <2>1, <3>1 DEF ObserversSound, Grows
  <2>2. CASE l \notin c.listeners
    BY <2>2 DEF Grows
  <2>. QED  BY <2>1, <2>2
<1>5. ASSUME NEW i \in DOMAIN d.queue, NEW e \in d.queue[i]
      PROVE  EventSound(d, i, e)
  <2>1. CASE i \in DOMAIN q
    <3>1. e \in q[i] /\ EventSound(c, i, e)
      BY <1>1, <1>5, <2>1 DEF EventsSound
    <3>2. e.listener.uid \in Uid
      BY <1>0, <2>1, <3>1 DEF Event, Listener
    <3>3. /\ e.listener.kind # "once" => e.listener \in d.listeners
          /\ e.listener.kind = "users" => AllUsers \in d.synced
          /\ e.snap # Nil => d.view[e.listener.uid] # Nil
      BY <3>1, <3>2 DEF EventSound, Grows
    <3>4. ASSUME e.listener.kind \in {"copy", "rows"}
          PROVE  e.snap = d.view[e.listener.uid] \/ Later(d, i, e.listener)
      <4>1. CASE Later(c, i, e.listener)
        <5>1. PICK j \in DOMAIN q : j > i /\ \E f \in q[j] : f.listener = e.listener
          BY <4>1 DEF Later
        <5>. QED  BY <1>1, <5>1 DEF Later
      <4>2. CASE e.listener \in ls
        <5>1. Len(q) + 1 > i /\ Len(q) + 1 \in DOMAIN d.queue /\ d.queue[Len(q) + 1] = b
          BY <1>1, <2>1, <4>2
        <5>2. \E f \in d.queue[Len(q) + 1] : f.listener = e.listener
          BY <1>2, <4>2, <5>1
        <5>. QED  BY <5>1, <5>2 DEF Later
      <4>3. CASE ~Later(c, i, e.listener) /\ e.listener \notin ls
        BY <3>1, <3>4, <4>3 DEF EventSound, Grows
      <4>. QED  BY <4>1, <4>2, <4>3
    <3>. QED  BY <3>3, <3>4 DEF EventSound
  <2>2. CASE d.queue[i] = b
    <3>1. e.listener \in ls /\ e.snap = d.view[e.listener.uid]
      BY <1>2, <1>5, <2>2
    <3>. QED  BY <3>1 DEF EventSound, Grows
  <2>. QED  BY <1>1, <2>1, <2>2
<1>. QED  BY <1>4, <1>5 DEF EventsSound

\* Nothing that waits stops waiting, and who is told waits.
LEMMA GrowthWaits ==
  ASSUME NEW c \in Client, NEW d \in Client, NEW ls, Grows(c, d, ls)
  PROVE  /\ \A vc, u : Waiting(c, vc, u) => Waiting(d, vc, u)
         /\ \A l \in ls : l.kind = "copy" => Waiting(d, l.vc, l.uid)
         /\ \A l : WaitingFor(c, l) \/ l \in ls => WaitingFor(d, l)
<1>0. /\ c.queue \in Seq(SUBSET Event) /\ d.view \in [Uid -> Stored \cup {Nil}]
      /\ ls \in SUBSET Listener /\ d.queue = Dispatch(c.queue, d.view, ls)
  BY ClientFields DEF Grows
<1>. DEFINE q == c.queue
            b == Events(d.view, ls)
<1>1. /\ \A i \in DOMAIN q : i \in DOMAIN d.queue /\ d.queue[i] = q[i]
      /\ ls # {} => Len(q) + 1 \in DOMAIN d.queue /\ d.queue[Len(q) + 1] = b
  BY <1>0, DispatchKeeps
<1>2. \A l \in ls : \E e \in b : e.listener = l
  BY EventsOf
<1>. HIDE DEF b
<1>3. ASSUME NEW vc, NEW u, Waiting(c, vc, u) PROVE Waiting(d, vc, u)
  <2>1. PICK i \in DOMAIN q : \E e \in q[i] :
          e.listener.kind = "copy" /\ e.listener.vc = vc /\ e.listener.uid = u
    BY <1>3 DEF Waiting
  <2>. QED  BY <1>1, <2>1 DEF Waiting
<1>4. ASSUME NEW l \in ls, l.kind = "copy" PROVE Waiting(d, l.vc, l.uid)
  <2>1. \E e \in d.queue[Len(q) + 1] : e.listener = l
    BY <1>1, <1>2
  <2>. QED  BY <1>1, <1>4, <2>1 DEF Waiting
<1>5. ASSUME NEW l, WaitingFor(c, l) PROVE WaitingFor(d, l)
  BY <1>1, <1>5 DEF WaitingFor
<1>6. ASSUME NEW l \in ls PROVE WaitingFor(d, l)
  <2>1. \E e \in d.queue[Len(q) + 1] : e.listener = l
    BY <1>1, <1>2
  <2>. QED  BY <1>1, <2>1 DEF WaitingFor
<1>. QED  BY <1>3, <1>4, <1>5, <1>6

\* The screens stay in accord if each keeps its object or takes the value shown.
LEMMA GrowthAccord ==
  ASSUME NEW c \in Client, NEW d \in Client, NEW ls, Grows(c, d, ls),
         NEW users, NEW later, NEW lists,
         ObserversSound(c), EventsSound(c), Accord(c, users),
         \A vc \in Controller \ {"Search"} :
           later[vc] = users[vc] \/ Agrees(later[vc], d.view[later[vc].ID])
  PROVE  Accord(d, later)
<1>1. SUFFICES ASSUME NEW l \in d.listeners,
                      l.kind = "copy", later[l.vc] # Nil, later[l.vc].ID = l.uid
               PROVE  Waiting(d, l.vc, l.uid) \/ Agrees(later[l.vc], d.view[l.uid])
  BY DEF Accord
<1>2. ObserversSound(d) /\ d.listeners \subseteq Listener
  BY GrowthSound, ClientFields
<1>3. l.vc \in Controller \ {"Search"}
  BY <1>1, <1>2 DEF ObserversSound, Listener
<1>4. CASE Agrees(later[l.vc], d.view[later[l.vc].ID])
  BY <1>1, <1>4
<1>5. CASE later[l.vc] = users[l.vc]
  <2>1. CASE l \in ls
    BY <1>1, <2>1, GrowthWaits
  <2>2. CASE l \notin ls
    <3>1. l \in c.listeners /\ d.view[l.uid] = c.view[l.uid]
      BY <1>1, <2>2 DEF Grows
    <3>2. Waiting(c, l.vc, l.uid) \/ Agrees(users[l.vc], c.view[l.uid])
      BY <1>1, <1>5, <3>1 DEF Accord
    <3>. QED  BY <1>5, <3>1, <3>2, GrowthWaits
  <2>. QED  BY <2>1, <2>2
<1>. QED  BY <1>3, <1>4, <1>5

\* The rows of Favorites are still those of an account that is shown, or wait.
LEMMA GrowthShown ==
  ASSUME NEW c \in Client, NEW d \in Client, NEW ls, Grows(c, d, ls),
         NEW lists, Shown(c, lists)
  PROVE  Shown(d, lists)
<1>1. CASE lists["Favorites"] = <<>>
  BY <1>1 DEF Shown
<1>2. CASE lists["Favorites"] # <<>>
  <2>1. PICK l \in c.listeners :
          /\ l.kind = "rows" /\ l.vc = "Favorites" /\ c.view[l.uid] # Nil
          /\ \/ WaitingFor(c, l)
             \/ lists["Favorites"] = FromDictionary(l.uid, c.view[l.uid]).favorites
    BY <1>2 DEF Shown
  <2>2. l \in d.listeners /\ l.uid \in Uid
    BY ClientFields DEF Grows, Listener
  <2>3. d.view[l.uid] # Nil
    BY <2>1, <2>2 DEF Grows
  <2>4. WaitingFor(d, l) \/ (~WaitingFor(c, l) /\ l \notin ls)
    BY GrowthWaits
  <2>5. WaitingFor(d, l) \/ lists["Favorites"] = FromDictionary(l.uid, d.view[l.uid]).favorites
    BY <2>1, <2>4 DEF Grows
  <2>. QED  BY <2>1, <2>2, <2>3, <2>5 DEF Shown
<1>. QED  BY <1>1, <1>2
-----------------------------------------------------------------------------
(* The operations that grow.                                                *)

\* Whoever is not told needs not be: an observer is told when its value is known.
LEMMA ObserveGrows ==
  ASSUME NEW c \in Client, NEW vc \in Controller, NEW u \in Uid, NEW kind \in Kind,
         kind \in {"users", "copy"} => vc # "Search",
         kind = "copy" => Checked(c) /\ c.view[u] # Nil
  PROVE  \E ls : Grows(c, Observe(c, vc, u, kind), ls)
<1>. DEFINE l  == Slot(c, vc, u, kind)
            ls == IF HasData(c, l) THEN {l} ELSE {}
            d  == Observe(c, vc, u, kind)
<1>1. l.vc = vc /\ l.uid = u /\ l.kind = kind
  BY DEF Slot
<1>. HIDE DEF l
<1>2. /\ d.queue = Dispatch(c.queue, d.view, ls)
      /\ d.view = c.view /\ d.synced = c.synced /\ d.listeners = c.listeners \cup {l}
  BY DEF Observe, l
<1>. HIDE DEF d
<1>3. kind = "copy" => l \in ls /\ Checked(d)
  BY <1>1, <1>2 DEF HasData, Complete, Checked
<1>4. \A k \in ls : k = l /\ (k.kind = "users" => AllUsers \in d.synced)
  BY <1>1, <1>2 DEF HasData
<1>. HIDE DEF ls
<1>5. \A k \in d.listeners \ c.listeners :
       /\ k.kind \in {"users", "copy"} => k.vc # "Search"
       /\ k.kind = "copy" => Checked(d) /\ d.view[k.uid] # Nil /\ k \in ls
  BY <1>1, <1>2, <1>3
<1>6. Grows(c, d, ls)
  BY <1>2, <1>4, <1>5 DEF Grows
<1>. QED  BY <1>6 DEF d

LEMMA SetValueGrows ==
  ASSUME NEW c \in Client, NEW u \in Uid, NEW r \in Stored, ObserversSound(c)
  PROVE  \E ls : Grows(c, SetValue(c, u, r), ls)
<1>. DEFINE d == SetValue(c, u, r)
            ls == Fired(c, u, r)
<1>1. /\ d.view = [c.view EXCEPT ![u] = r] /\ d.synced = c.synced
      /\ d.listeners = c.listeners /\ d.queue = Dispatch(c.queue, d.view, ls)
  BY DEF SetValue
<1>. HIDE DEF d
<1>2. c.view \in [Uid -> Stored \cup {Nil}] /\ c.listeners \subseteq Listener
  BY ClientFields
<1>3. \A v \in Uid : c.view[v] # Nil => d.view[v] # Nil
  BY <1>1, <1>2, NilAssumption
<1>4. \A l \in c.listeners :
        l.kind \in {"copy", "rows"} /\ d.view[l.uid] # c.view[l.uid] => l \in ls
  BY <1>1, <1>2 DEF Fired, Listener
<1>5. ls \subseteq c.listeners /\ \A l \in ls : l.kind = "users" => AllUsers \in c.synced
  BY DEF Fired
<1>6. Grows(c, d, ls)
  BY <1>1, <1>3, <1>4, <1>5 DEF Grows
<1>. QED  BY <1>6 DEF d

LEMMA AnswerGrows ==
  ASSUME NEW c \in Client, NEW p \in Unanswered(c)
  PROVE  \E ls : Grows(c, Answer(c, p), ls)
<1>. DEFINE ls == {l \in c.listeners :
                     IF l.kind = "users" THEN p = AllUsers
                     ELSE p \in {AllUsers, l.uid} /\ ~Complete(c, l.uid)}
            d == Answer(c, p)
<1>1. /\ d.view = c.view /\ d.synced = c.synced \cup {p} /\ d.listeners = c.listeners
      /\ d.queue = Dispatch(c.queue, d.view, ls)
  BY DEF Answer
<1>. HIDE DEF d
<1>2. Grows(c, d, ls)
  BY <1>1 DEF Grows
<1>. QED  BY <1>2 DEF d

-----------------------------------------------------------------------------
(* Clients whose screens are in accord.                                     *)

LEMMA GrowthKeeps ==
  ASSUME NEW c \in Client, NEW d \in Client, NEW ls, Grows(c, d, ls),
         NEW users, NEW later, NEW lists, Sound(c, users, lists),
         Bare(users["Favorites"]) => Bare(later["Favorites"]),
         \A vc \in Controller \ {"Search"} :
           later[vc] = users[vc] \/ Agrees(later[vc], d.view[later[vc].ID])
  PROVE  Sound(d, later, lists)
<1>1. ObserversSound(d) /\ EventsSound(d) /\ Accord(d, later) /\ Shown(d, lists)
  BY GrowthSound, GrowthAccord, GrowthShown DEF Sound
<1>2. Observed(d, later)
  BY DEF Observed, Sound, Grows
<1>. QED  BY <1>1, <1>2 DEF Sound

\* An observer more.
LEMMA ObserveKeeps ==
  ASSUME NEW c \in Client, NEW vc \in Controller, NEW u \in Uid, NEW kind \in Kind,
         kind \in {"users", "copy"} => vc # "Search",
         kind = "copy" => Checked(c) /\ c.view[u] # Nil,
         NEW users, NEW lists, Sound(c, users, lists)
  PROVE  Sound(Observe(c, vc, u, kind), users, lists)
<1>1. PICK ls : Grows(c, Observe(c, vc, u, kind), ls)
  BY ObserveGrows
<1>2. Observe(c, vc, u, kind) \in Client
  BY ObserveType
<1>. QED  BY <1>1, <1>2, GrowthKeeps

\* The upload of a screen's object: that screen has what it uploads, the others
\* are told.
LEMMA UploadKeeps ==
  ASSUME NEW c \in Client, NEW user \in User,
         NEW users, NEW later, NEW lists, Sound(c, users, lists),
         Bare(users["Favorites"]) => Bare(later["Favorites"]),
         \A vc \in Controller \ {"Search"} : later[vc] \in {users[vc], user}
  PROVE  Sound(SetValue(c, user.ID, ToDictionary(user)), later, lists)
<1>. DEFINE r == ToDictionary(user)
            d == SetValue(c, user.ID, r)
<1>1. user.ID \in Uid /\ r \in Stored
  BY ToDictionaryType DEF User
<1>2. PICK ls : Grows(c, d, ls)
  BY <1>1, SetValueGrows DEF Sound
<1>3. d.view[user.ID] = r
  BY <1>1, ClientFields DEF SetValue
<1>4. Agrees(user, d.view[user.ID])
  BY <1>1, <1>3, NilAssumption DEF Agrees
<1>5. d \in Client
  BY <1>1, SetValueType
<1>. HIDE DEF d
<1>6. \A vc \in Controller \ {"Search"} :
        later[vc] = users[vc] \/ Agrees(later[vc], d.view[later[vc].ID])
  BY <1>4
<1>. QED  BY <1>2, <1>5, <1>6, GrowthKeeps DEF d

LEMMA AnswerKeeps ==
  ASSUME NEW c \in Client, NEW p \in Unanswered(c), NEW users, NEW lists, Sound(c, users, lists)
  PROVE  Sound(Answer(c, p), users, lists)
<1>1. PICK ls : Grows(c, Answer(c, p), ls)
  BY AnswerGrows
<1>. QED  BY <1>1, AnswerType, GrowthKeeps

\* An acknowledgement changes nothing that the app sees.
LEMMA AckKeeps ==
  ASSUME NEW c, NEW users, NEW lists, Sound(c, users, lists)
  PROVE  Sound(Ack(c), users, lists)
BY DEF Ack, Sound, ObserversSound, Checked, EventsSound, EventSound, Later, Accord, Waiting,
       Observed, Shown, WaitingFor

\* Registering observers, whoever is signed in.
LEMMA RegistrationKeeps ==
  ASSUME NEW c \in Client, NEW u \in Uid \cup {Nil}, NEW users, NEW lists, Sound(c, users, lists)
  PROVE  /\ \A vc \in Controller \ {"Search"} : Sound(CheckUser(c, vc, u), users, lists)
         /\ \A vc \in Controller : Sound(GetRows(c, vc, u), users, lists)
         /\ Sound(WhoIsLoggedIn(c, u), users, lists)
<1>1. "users" \in Kind /\ "rows" \in Kind /\ "once" \in Kind /\ "Search" \in Controller
  BY DEF Kind, Controller
<1>2. ASSUME NEW vc \in Controller \ {"Search"}, u \in Uid
      PROVE  Sound(Observe(c, vc, u, "users"), users, lists)
  BY <1>1, <1>2, ObserveKeeps
<1>3. ASSUME NEW vc \in Controller, u \in Uid
      PROVE  Sound(Observe(c, vc, u, "rows"), users, lists) /\ Sound(Observe(c, vc, u, "once"), users, lists)
  BY <1>1, <1>3, ObserveKeeps
<1>. QED  BY <1>1, <1>2, <1>3 DEF CheckUser, GetRows, WhoIsLoggedIn

LEMMA AppearanceKeeps ==
  ASSUME NEW c \in Client, NEW t \in Controller, NEW u \in Uid \cup {Nil},
         NEW users, NEW lists, Sound(c, users, lists)
  PROVE  Sound(ViewDidLoad(c, t, u), users, lists) /\ Sound(ViewDidAppear(c, t, u), users, lists)
<1>1. "Notes" \in Controller \ {"Search"} /\ "Favorites" \in Controller \ {"Search"}
      /\ "Home" \in Controller \ {"Search"}
  BY DEF Controller
<1>2. Sound(CheckUser(c, "Notes", u), users, lists) /\ CheckUser(c, "Notes", u) \in Client
  BY <1>1, RegistrationKeeps, RegistrationTypes
<1>3. Sound(GetRows(CheckUser(c, "Notes", u), "Notes", u), users, lists)
  BY <1>1, <1>2, RegistrationKeeps
<1>. QED  BY <1>1, <1>3, RegistrationKeeps DEF ViewDidLoad, ViewDidAppear, Controller

\* A client that starts, with no object on any screen.
LEMMA LaunchedSound ==
  ASSUME NEW server \in [Uid -> Stored \cup {Nil}], NEW u \in Uid \cup {Nil},
         NEW users, NEW lists, users["Favorites"] = Nil, lists["Favorites"] = <<>>
  PROVE  Sound(Launched(server, u), users, lists)
<1>1. Sound(FreshClient(server), users, lists)
  BY DEF FreshClient, Sound, ObserversSound, EventsSound, Accord, Observed, Bare, Shown
<1>2. "Home" \in Controller
  BY DEF Controller
<1>. QED  BY <1>1, <1>2, FreshClientType, AppearanceKeeps DEF Launched
-----------------------------------------------------------------------------
(* The main thread takes a callback.                                        *)

\* The queue without the event: a batch shorter, or an event shorter.
LEMMA TakeQueue ==
  ASSUME NEW c \in Client, c.queue # <<>>, NEW e \in Due(c), NEW d, d = Take(c, e)
  PROVE  \E k \in {0, 1} :
           /\ \A i \in DOMAIN d.queue :
                i + k \in DOMAIN c.queue /\ d.queue[i] \subseteq c.queue[i + k]
           /\ \A j \in DOMAIN c.queue : \A f \in c.queue[j] :
                j > 1 \/ f # e => j - k \in DOMAIN d.queue /\ f \in d.queue[j - k]
<1>. DEFINE q == c.queue
            rest == Head(q) \ {e}
<1>1. /\ q \in Seq(SUBSET Event) /\ Len(q) \in Nat /\ Len(q) > 0
      /\ DOMAIN q = 1 .. Len(q) /\ Head(q) = q[1]
  BY ClientFields
<1>. HIDE DEF q
<1>2. /\ Tail(q) \in Seq(SUBSET Event) /\ Len(Tail(q)) = Len(q) - 1
      /\ DOMAIN Tail(q) = 1 .. Len(q) - 1
      /\ \A i \in 1 .. Len(q) - 1 : Tail(q)[i] = q[i + 1]
  BY <1>1
<1>3. rest \in SUBSET Event
  BY <1>1
<1>4. CASE rest = {}
  <2>1. d.queue = Tail(q)
    BY <1>4 DEF Take, q
  <2>2. \A i \in DOMAIN d.queue : i + 1 \in DOMAIN q /\ d.queue[i] \subseteq q[i + 1]
    BY <1>1, <1>2, <2>1
  <2>3. ASSUME NEW j \in DOMAIN q, NEW f \in q[j], j > 1 \/ f # e
        PROVE  j - 1 \in DOMAIN d.queue /\ f \in d.queue[j - 1]
    <3>1. j > 1
      BY <1>1, <1>4, <2>3
    <3>2. j - 1 \in 1 .. Len(q) - 1 /\ (j - 1) + 1 = j
      BY <1>1, <3>1
    <3>3. Tail(q)[j - 1] = q[j]
      BY <1>2, <3>2
    <3>. QED  BY <1>2, <2>1, <2>3, <3>2, <3>3
  <2>. QED  BY <2>2, <2>3 DEF q
<1>5. CASE rest # {}
  <2>1. d.queue = <<rest>> \o Tail(q)
    BY <1>5 DEF Take, q
  <2>. DEFINE x == rest
  <2>. HIDE DEF rest
  <2>2. /\ DOMAIN d.queue = 1 .. Len(q) /\ d.queue[1] = rest
        /\ \A i \in 2 .. Len(q) : d.queue[i] = Tail(q)[i - 1]
    BY <1>1, <1>2, <1>3, <2>1
  <2>3. \A i \in 2 .. Len(q) : d.queue[i] = q[i]
    <3>1. ASSUME NEW i \in 2 .. Len(q) PROVE d.queue[i] = q[i]
      <4>1. i - 1 \in 1 .. Len(q) - 1 /\ (i - 1) + 1 = i
        BY <1>1, <3>1
      <4>2. Tail(q)[i - 1] = q[i]
        BY <1>2, <4>1
      <4>. QED  BY <2>2, <4>2
    <3>. QED  BY <3>1
  <2>4. rest \subseteq q[1] /\ \A f \in q[1] : f # e => f \in rest
    BY <1>1 DEF rest
  <2>5. ASSUME NEW i \in DOMAIN d.queue
        PROVE  i + 0 = i /\ i \in DOMAIN q /\ d.queue[i] \subseteq q[i]
    <3>1. i = 1 \/ i \in 2 .. Len(q)
      BY <1>1, <2>2
    <3>. QED  BY <1>1, <2>2, <2>3, <2>4, <3>1
  <2>6. ASSUME NEW j \in DOMAIN q, NEW f \in q[j], j > 1 \/ f # e
        PROVE  j - 0 = j /\ j \in DOMAIN d.queue /\ f \in d.queue[j]
    <3>1. j = 1 \/ j \in 2 .. Len(q)
      BY <1>1
    <3>. QED  BY <1>1, <2>2, <2>3, <2>4, <2>6, <3>1
  <2>. QED  BY <2>5, <2>6 DEF q
<1>. QED  BY <1>4, <1>5

\* An observer of the check stays, and with it what the client knows.
LEMMA TakeFacts ==
  ASSUME NEW c \in Client, c.queue # <<>>, NEW e \in Due(c), NEW d, d = Take(c, e)
  PROVE  /\ d.view = c.view
         /\ d.listeners \subseteq c.listeners
         /\ \A l \in c.listeners : l.kind # "once" => l \in d.listeners
         /\ (\E k \in c.listeners : k.kind = "users") => d.synced = c.synced
         /\ Checked(c) => Checked(d)
<1>. DEFINE left == IF e.listener.kind = "once" THEN c.listeners \ {e.listener}
                                                ELSE c.listeners
            kept == \E k \in left : k.uid = e.listener.uid \/ k.kind = "users"
<1>1. d.view = c.view /\ d.listeners = left
      /\ d.synced = IF kept THEN c.synced ELSE c.synced \ {e.listener.uid}
  BY DEF Take
<1>2. \A l \in c.listeners : l.kind # "once" => l \in left
  OBVIOUS
<1>3. (\E k \in c.listeners : k.kind = "users") => kept
  BY <1>2
<1>. HIDE DEF left, kept
<1>4. left \subseteq c.listeners
  BY DEF left
<1>5. (\E k \in c.listeners : k.kind = "users") => \E k \in d.listeners : k.kind = "users"
  BY <1>1, <1>2
<1>. QED  BY <1>1, <1>2, <1>3, <1>4, <1>5 DEF Checked

\* An event that comes before another of its observer is still before it.
LEMMA TakeEventsSound ==
  ASSUME NEW c \in Client, c.queue # <<>>, NEW e \in Due(c), NEW d, d = Take(c, e),
         ObserversSound(c), EventsSound(c)
  PROVE  ObserversSound(d) /\ EventsSound(d)
<1>1. PICK k \in {0, 1} :
        /\ \A i \in DOMAIN d.queue :
             i + k \in DOMAIN c.queue /\ d.queue[i] \subseteq c.queue[i + k]
        /\ \A j \in DOMAIN c.queue : \A f \in c.queue[j] :
             j > 1 \/ f # e => j - k \in DOMAIN d.queue /\ f \in d.queue[j - k]
  BY TakeQueue
<1>2. /\ d.view = c.view
      /\ d.listeners \subseteq c.listeners
      /\ \A l \in c.listeners : l.kind # "once" => l \in d.listeners
      /\ (\E l \in c.listeners : l.kind = "users") => d.synced = c.synced
      /\ Checked(c) => Checked(d)
  BY TakeFacts
<1>3. d \in Client
  BY TakeType
<1>4. DOMAIN d.queue \subseteq Nat \ {0} /\ DOMAIN c.queue \subseteq Nat \ {0}
  BY <1>3, ClientFields
<1>5. ObserversSound(d)
  BY <1>2 DEF ObserversSound
<1>6. ASSUME NEW i \in DOMAIN d.queue, NEW f \in d.queue[i]
      PROVE  EventSound(d, i, f)
  <2>1. i + k \in DOMAIN c.queue /\ f \in c.queue[i + k]
    BY <1>1, <1>6
  <2>2. EventSound(c, i + k, f)
    BY <2>1 DEF EventsSound
  <2>3. ASSUME Later(c, i + k, f.listener) PROVE Later(d, i, f.listener)
    <3>1. PICK j \in DOMAIN c.queue : j > i + k /\ \E g \in c.queue[j] : g.listener = f.listener
      BY <2>3 DEF Later
    <3>2. i \in Nat /\ i > 0 /\ j \in Nat
      BY <1>4
    <3>3. j > 1 /\ j - k > i
      BY <3>1, <3>2
    <3>. QED  BY <1>1, <3>1, <3>3 DEF Later
  <2>. QED  BY <1>2, <2>2, <2>3 DEF EventSound
<1>. QED  BY <1>5, <1>6 DEF EventsSound

\* The handler of a value for the table of Favorites puts it there: when it was the
\* last one waiting for that observer, the table has what the client shows.
LEMMA TakeShown ==
  ASSUME NEW c \in Client, c.queue # <<>>, NEW e \in Due(c), NEW lists, NEW filled,
         EventsSound(c), Shown(c, lists),
         filled["Favorites"] =
           IF e.listener.kind = "rows" /\ e.snap # Nil /\ e.listener.vc = "Favorites"
           THEN FromDictionary(e.listener.uid, e.snap).favorites ELSE lists["Favorites"]
  PROVE  Shown(Take(c, e), filled)
<1>. DEFINE d == Take(c, e)
<1>. HIDE DEF d
<1>1. PICK k \in {0, 1} :
        \A j \in DOMAIN c.queue : \A f \in c.queue[j] :
          j > 1 \/ f # e => j - k \in DOMAIN d.queue /\ f \in d.queue[j - k]
  BY TakeQueue DEF d
<1>2. d.view = c.view /\ \A l \in c.listeners : l.kind # "once" => l \in d.listeners
  BY TakeFacts DEF d
<1>3. 1 \in DOMAIN c.queue /\ e \in c.queue[1] /\ DOMAIN c.queue \subseteq Nat \ {0}
  BY ClientFields DEF Due
<1>4. EventSound(c, 1, e)
  BY <1>3 DEF EventsSound
<1>5. Later(c, 1, e.listener) => WaitingFor(d, e.listener)
  BY <1>1 DEF Later, WaitingFor
<1>6. CASE e.listener.kind = "rows" /\ e.snap # Nil /\ e.listener.vc = "Favorites"
  <2>1. e.listener \in d.listeners /\ d.view[e.listener.uid] # Nil
    BY <1>2, <1>4, <1>6 DEF EventSound
  <2>2. e.snap = d.view[e.listener.uid] \/ WaitingFor(d, e.listener)
    BY <1>2, <1>4, <1>5, <1>6 DEF EventSound
  <2>. QED  BY <1>6, <2>1, <2>2 DEF Shown, d
<1>7. CASE ~(e.listener.kind = "rows" /\ e.snap # Nil /\ e.listener.vc = "Favorites")
  <2>1. filled["Favorites"] = lists["Favorites"]
    BY <1>7
  <2>2. CASE lists["Favorites"] = <<>>
    BY <2>1, <2>2 DEF Shown
  <2>3. CASE lists["Favorites"] # <<>>
    <3>1. PICK l \in c.listeners :
            /\ l.kind = "rows" /\ l.vc = "Favorites" /\ c.view[l.uid] # Nil
            /\ \/ WaitingFor(c, l)
               \/ lists["Favorites"] = FromDictionary(l.uid, c.view[l.uid]).favorites
      BY <2>3 DEF Shown
    <3>2. ASSUME WaitingFor(c, l) PROVE WaitingFor(d, l)
      <4>1. PICK j \in DOMAIN c.queue : \E f \in c.queue[j] : f.listener = l
        BY <3>2 DEF WaitingFor
      <4>2. PICK f \in c.queue[j] : f.listener = l
        BY <4>1
      <4>3. CASE j > 1 \/ f # e
        BY <1>1, <4>2, <4>3 DEF WaitingFor
      <4>4. CASE f = e
        <5>1. e.snap = Nil
          BY <1>7, <3>1, <4>2, <4>4
        <5>2. Later(c, 1, e.listener)
          BY <1>4, <3>1, <4>2, <4>4, <5>1 DEF EventSound
        <5>. QED  BY <1>5, <4>2, <4>4, <5>2
      <4>. QED  BY <4>3, <4>4
    <3>. QED  BY <1>2, <2>1, <3>1, <3>2 DEF Shown, d
  <2>. QED  BY <2>2, <2>3
<1>. QED  BY <1>6, <1>7

\* The handler of a value for the check hands it to its screen: when it was the
\* last one waiting, it is what the client shows.
LEMMA TakeKeeps ==
  ASSUME NEW c \in Client, c.queue # <<>>, NEW e \in Due(c), NEW users, NEW later,
         NEW lists, NEW filled, Sound(c, users, lists),
         filled["Favorites"] =
           IF e.listener.kind = "rows" /\ e.snap # Nil /\ e.listener.vc = "Favorites"
           THEN FromDictionary(e.listener.uid, e.snap).favorites ELSE lists["Favorites"],
         \A vc \in Controller \ {"Search"} :
           later[vc] = IF e.listener.kind = "copy" /\ e.snap # Nil /\ e.listener.vc = vc
                       THEN FromDictionary(e.listener.uid, e.snap) ELSE users[vc]
  PROVE  Sound(Take(c, e), later, filled)
<1>. DEFINE d == Take(c, e)
<1>. HIDE DEF d
<1>1. PICK k \in {0, 1} :
        \A j \in DOMAIN c.queue : \A f \in c.queue[j] :
          j > 1 \/ f # e => j - k \in DOMAIN d.queue /\ f \in d.queue[j - k]
  BY TakeQueue DEF d
<1>2. d.view = c.view /\ d.listeners \subseteq c.listeners
  BY TakeFacts DEF d
<1>3. ObserversSound(d) /\ EventsSound(d)
  BY TakeEventsSound DEF d, Sound
<1>4. /\ 1 \in DOMAIN c.queue /\ e \in c.queue[1] /\ DOMAIN c.queue \subseteq Nat \ {0}
      /\ c.listeners \subseteq Listener
  BY ClientFields DEF Due
<1>5. EventSound(c, 1, e)
  BY <1>4 DEF Sound, EventsSound
<1>6. ASSUME NEW l \in d.listeners,
             l.kind = "copy", later[l.vc] # Nil, later[l.vc].ID = l.uid,
             ~Waiting(d, l.vc, l.uid)
      PROVE  Agrees(later[l.vc], d.view[l.uid])
  <2>1. l \in c.listeners /\ l.vc \in Controller \ {"Search"} /\ c.view[l.uid] # Nil
    BY <1>2, <1>4, <1>6 DEF ObserversSound, Listener, Sound
  <2>2. ASSUME NEW j \in DOMAIN c.queue, NEW f \in c.queue[j],
               f.listener.kind = "copy", f.listener.vc = l.vc, f.listener.uid = l.uid
        PROVE  j = 1 /\ f = e
    <3>1. ~(j - k \in DOMAIN d.queue /\ f \in d.queue[j - k])
      BY <1>6, <2>2 DEF Waiting
    <3>2. ~(j > 1 \/ f # e)
      BY <1>1, <3>1
    <3>. QED  BY <1>4, <3>2
  <2>3. CASE Waiting(c, l.vc, l.uid)
    <3>1. e.listener.kind = "copy" /\ e.listener.vc = l.vc /\ e.listener.uid = l.uid
      BY <2>2, <2>3 DEF Waiting
    <3>2. ~Later(c, 1, e.listener)
      BY <2>2, <3>1 DEF Later
    <3>3. e.snap = c.view[l.uid]
      BY <1>5, <3>1, <3>2 DEF EventSound
    <3>4. later[l.vc] = FromDictionary(l.uid, e.snap)
      BY <2>1, <3>1, <3>3
    <3>5. FromDictionary(l.uid, e.snap).ID = l.uid
      BY DEF FromDictionary
    <3>. QED  BY <1>2, <2>1, <3>3, <3>4, <3>5 DEF Agrees
  <2>4. CASE ~Waiting(c, l.vc, l.uid)
    <3>1. ~(e.listener.kind = "copy" /\ e.listener.vc = l.vc /\ e.listener.uid = l.uid)
      BY <1>4, <2>4 DEF Waiting
    <3>2. FromDictionary(e.listener.uid, e.snap).ID = e.listener.uid
      BY DEF FromDictionary
    <3>3. later[l.vc] = users[l.vc]
      BY <1>6, <2>1, <3>1, <3>2
    <3>. QED  BY <1>2, <1>6, <2>1, <2>4, <3>3 DEF Sound, Accord
  <2>. QED  BY <2>3, <2>4
<1>7. Accord(d, later)
  BY <1>6 DEF Accord
<1>8. Observed(d, later)
  <2>1. \A l \in c.listeners : l.kind = "copy" => l \in d.listeners
    BY TakeFacts DEF d
  <2>2. e.listener.kind = "copy" => e.listener \in c.listeners
    BY <1>5 DEF EventSound
  <2>3. "Favorites" \in Controller \ {"Search"}
    BY DEF Controller
  <2>. QED  BY <2>1, <2>2, <2>3 DEF Observed, Sound
<1>9. Shown(d, filled)
  BY TakeShown DEF d, Sound
<1>. QED  BY <1>3, <1>7, <1>8, <1>9 DEF Sound, d
-----------------------------------------------------------------------------
(* The steps of the app.                                                    *)

\* A handler that registers observers, or none, and leaves the objects alone.
LEMMA SessionKeeps ==
  ASSUME TypeOK, CopyInv, Session
  PROVE  CopyInv'
<1>0. /\ client \in Client /\ tab \in Controller /\ currentUser \in Uid \cup {Nil}
      /\ loggedUser \in [Controller -> User \cup {Nil}] /\ Sound(client, loggedUser, rows)
  BY DEF TypeOK, CopyInv
<1>. SUFFICES Sound(client', loggedUser', rows')
  BY DEF CopyInv
<1>1. ASSUME NEW u \in Uid \cup {Nil}, Dismiss(u) PROVE Sound(client', loggedUser', rows')
  BY <1>0, <1>1, AppearanceKeeps DEF Dismiss, screen
<1>2. ASSUME NEW t \in Tabs, SelectTab(t) PROVE Sound(client', loggedUser', rows')
  <2>. DEFINE c == IF t \in loadedTabs THEN client ELSE ViewDidLoad(client, t, currentUser)
  <2>1. t \in Controller
    BY AppAssumption
  <2>2. c \in Client /\ Sound(c, loggedUser, rows)
    BY <1>0, <2>1, AppearanceTypes, AppearanceKeeps
  <2>3. /\ client' = ViewDidAppear(c, t, currentUser)
        /\ loggedUser' = loggedUser /\ rows' = rows
    BY <1>2 DEF SelectTab, screen
  <2>. HIDE DEF c
  <2>. QED  BY <1>0, <2>1, <2>2, <2>3, AppearanceKeeps
<1>3. ASSUME NEW u \in Uid, SignIn(u) PROVE Sound(client', loggedUser', rows')
  BY <1>1, <1>3 DEF SignIn
<1>4. CASE LogOut
  <2>1. client' = client /\ loggedUser' = [loggedUser EXCEPT !["Home"] = Nil]
    BY <1>4 DEF LogOut
  <2>2. ASSUME NEW l \in client.listeners, loggedUser'[l.vc] # Nil
        PROVE  loggedUser'[l.vc] = loggedUser[l.vc]
    <3>1. l.vc \in Controller
      BY <1>0, ClientFields DEF Listener
    <3>. QED  BY <1>0, <2>1, <2>2, <3>1
  <2>3. rows' = rows /\ loggedUser'["Favorites"] = loggedUser["Favorites"]
    BY <1>0, <1>4, <2>1 DEF LogOut, Controller
  <2>4. Accord(client', loggedUser')
    BY <1>0, <2>1, <2>2 DEF Sound, Accord
  <2>. QED  BY <1>0, <2>1, <2>3, <2>4 DEF Sound, Observed
<1>5. CASE LogIn
  <2>1. "Home" \in Controller \ {"Search"}
    BY DEF Controller
  <2>. QED  BY <1>0, <1>5, <2>1, RegistrationKeeps DEF LogIn, ForceCheck, screen
<1>6. CASE CancelLogin \/ CloseFilter
  BY <1>0, <1>1, <1>6 DEF CancelLogin, CloseFilter
<1>7. CASE OpenFilter
  BY <1>0, <1>7 DEF OpenFilter, screen
<1>. QED  BY <1>2, <1>3, <1>4, <1>5, <1>6, <1>7 DEF Session

LEMMA EditsKeep ==
  ASSUME TypeOK, CopyInv, Edits
  PROVE  CopyInv'
<1>0. /\ client \in Client /\ currentUser \in Uid \cup {Nil}
      /\ loggedUser \in [Controller -> User \cup {Nil}] /\ Sound(client, loggedUser, rows)
      /\ Feeds \subseteq Controller
      /\ "Search" \in Controller /\ "Favorites" \in Controller /\ "Notes" \in Controller
  BY DEF TypeOK, CopyInv, Feeds, Controller
<1>. SUFFICES Sound(client', loggedUser', rows')
  BY DEF CopyInv
<1>1. ASSUME NEW vc \in Controller, NEW user \in User,
             loggedUser' = [loggedUser EXCEPT ![vc] = user], Upload(loggedUser'[vc]),
             vc = "Favorites" => ~Bare(loggedUser[vc]), rows' = rows
      PROVE  Sound(client', loggedUser', rows')
  <2>1. client' = SetValue(client, user.ID, ToDictionary(user))
    BY <1>0, <1>1 DEF Upload
  <2>2. \A c \in Controller \ {"Search"} : loggedUser'[c] \in {loggedUser[c], user}
    BY <1>0, <1>1
  <2>3. Bare(loggedUser["Favorites"]) => Bare(loggedUser'["Favorites"])
    BY <1>0, <1>1
  <2>. QED  BY <1>0, <1>1, <2>1, <2>2, <2>3, UploadKeeps
<1>2. ASSUME NEW vc \in Feeds, NEW a \in Article, AddToFavorites(vc, a)
      PROVE  Sound(client', loggedUser', rows')
  <2>1. AppendFavorite(loggedUser[vc], a) \in User
    BY <1>0, <1>2, EditTypes DEF AddToFavorites
  <2>. QED  BY <1>0, <1>1, <1>2, <2>1 DEF AddToFavorites, Feeds
<1>3. ASSUME NEW vc \in Feeds, NEW a \in Article, Unfavorite(vc, a)
      PROVE  Sound(client', loggedUser', rows')
  BY <1>0, <1>3 DEF Unfavorite
<1>4. ASSUME NEW a \in Article, FavoriteCreates(a) PROVE Sound(client', loggedUser', rows')
  <2>1. CASE currentUser = Nil
    BY <1>0, <1>4, <2>1 DEF FavoriteCreates
  <2>2. CASE currentUser # Nil
    <3>1. AppendFavorite(NewUser(currentUser), a) \in User
      BY <1>0, <2>2, NewUserType, EditTypes
    <3>. QED  BY <1>0, <1>1, <1>4, <2>2, <3>1 DEF FavoriteCreates
  <2>. QED  BY <2>1, <2>2
<1>5. ASSUME NEW i \in DOMAIN rows["Favorites"], RemoveFavorite(i)
      PROVE  Sound(client', loggedUser', rows')
  <2>1. PICK position \in 1 .. i :
          IF position <= Len(loggedUser["Favorites"].favorites)
          THEN /\ loggedUser' = [loggedUser EXCEPT !["Favorites"] =
                                   RemoveFavoriteAt(@, position)]
               /\ Upload(loggedUser'["Favorites"])
          ELSE UNCHANGED <<loggedUser, client>>
    BY <1>5 DEF RemoveFavorite
  <2>. rows' = rows
    BY <1>5 DEF RemoveFavorite
  <2>2. CASE position <= Len(loggedUser["Favorites"].favorites)
    <3>1. loggedUser["Favorites"] \in User
      BY <1>0, <1>5 DEF RemoveFavorite
    <3>2. rows["Favorites"] \in Seq(Row)
      BY DEF TypeOK, Lists
    <3>3. position \in 1 .. Len(loggedUser["Favorites"].favorites)
      BY <2>2, <3>2
    <3>4. RemoveFavoriteAt(loggedUser["Favorites"], position) \in User
      BY <3>1, <3>3, EditTypes
    <3>5. ~Bare(loggedUser["Favorites"])
      BY <3>1, <3>3, NilAssumption DEF Bare
    <3>. QED  BY <1>0, <1>1, <2>1, <2>2, <3>4, <3>5
  <2>3. CASE ~(position <= Len(loggedUser["Favorites"].favorites))
    BY <1>0, <2>1, <2>3
  <2>. QED  BY <2>2, <2>3
<1>6. ASSUME NEW n \in NoteText, SaveMessage(n) PROVE Sound(client', loggedUser', rows')
  <2>1. AppendNewNote(loggedUser["Notes"], n) \in User
    BY <1>0, <1>6, EditTypes DEF SaveMessage
  <2>. QED  BY <1>0, <1>1, <1>6, <2>1 DEF SaveMessage
<1>7. CASE FavoriteAsksLogin \/ NoteAsksLogin
  <2>1. "Home" \in Controller \ {"Search"} /\ "Notes" \in Controller \ {"Search"}
    BY DEF Controller
  <2>. QED  BY <1>0, <1>7, <2>1, RegistrationKeeps
            DEF FavoriteAsksLogin, NoteAsksLogin, ForceCheck, screen
<1>8. CASE RefreshFavorites
  BY <1>0, <1>8, RegistrationKeeps DEF RefreshFavorites, screen
<1>. QED  BY <1>2, <1>3, <1>4, <1>5, <1>6, <1>7, <1>8 DEF Edits

\* A callback: the value of users/ leads to an observer or to a new record, the
\* value of the account to its screen.
LEMMA DeliverKeeps ==
  ASSUME TypeOK, CopyInv, Deliver
  PROVE  CopyInv'
<1>0. /\ client \in Client /\ client.queue # <<>> /\ currentUser \in Uid \cup {Nil}
      /\ loggedUser \in [Controller -> User \cup {Nil}] /\ Sound(client, loggedUser, rows)
  BY DEF TypeOK, CopyInv, Deliver
<1>. SUFFICES Sound(client', loggedUser', rows')
  BY DEF CopyInv
<1>1. PICK e \in Due(client) :
        LET c == Take(client, e)
            l == e.listener
        IN CASE l.kind = "users" -> UsersCallback(c, l.vc, l.uid, e.snap)
             [] l.kind = "copy"  -> CopyCallback(c, l.vc, l.uid, e.snap)
             [] l.kind = "rows"  -> RowsCallback(c, l.vc, l.uid, e.snap)
             [] l.kind = "once"  -> OnceCallback(c, l, l.uid, e.snap)
  BY DEF Deliver
<1> DEFINE c == Take(client, e)
           l == e.listener
<1>2. e \in Event
  BY <1>0, DueType
<1>3. l \in Listener /\ e.snap \in Stored \cup {Nil}
  BY <1>2 DEF Event
<1>4. l.vc \in Controller /\ l.uid \in Uid /\ l.kind \in Kind
  BY <1>3 DEF Listener
<1>5. c \in Client
  BY <1>0, TakeType
<1>6. EventSound(client, 1, e)
  <2>1. 1 \in DOMAIN client.queue /\ e \in client.queue[1]
    BY <1>0, ClientFields DEF Due
  <2>. QED  BY <1>0, <2>1 DEF Sound, EventsSound
<1>7. /\ c.view = client.view
      /\ Checked(client) => Checked(c)
  BY <1>0, TakeFacts
<1>8. l.kind \notin {"copy", "rows"} => Sound(c, loggedUser, rows)
  BY <1>0, TakeKeeps
<1> HIDE DEF c
<1>9. ASSUME NEW d \in Client, Sound(d, loggedUser', rows'), NEW user,
             Completion(d, l.vc, user)
      PROVE  Sound(client', loggedUser', rows')
  BY <1>0, <1>4, <1>9, RegistrationKeeps DEF Completion
<1>10. CASE l.kind = "users"
  <2>1. UsersCallback(c, l.vc, l.uid, e.snap)
    BY <1>1, <1>10 DEF c
  <2>2. /\ l \in client.listeners /\ AllUsers \in client.synced
        /\ e.snap # Nil => client.view[l.uid] # Nil
    BY <1>6, <1>10 DEF EventSound
  <2>3. Checked(c) /\ l.vc # "Search"
    BY <1>0, <1>7, <1>10, <2>2 DEF Checked, Sound, ObserversSound
  <2>4. CASE e.snap # Nil
    <3>1. "copy" \in Kind
      BY DEF Kind
    <3>2. Sound(Observe(c, l.vc, l.uid, "copy"), loggedUser, rows)
      BY <1>4, <1>5, <1>7, <1>8, <1>10, <2>2, <2>3, <2>4, <3>1, ObserveKeeps
    <3>. QED  BY <2>1, <2>4, <3>2 DEF UsersCallback
  <2>5. CASE e.snap = Nil
    <3>. DEFINE user == NewUser(l.uid)
                d == SetValue(c, l.uid, ToDictionary(user))
    <3>1. user \in User /\ user.ID = l.uid
      BY <1>4, NewUserType DEF NewUser
    <3>2. ToDictionary(user) \in Stored
      BY <3>1, ToDictionaryType
    <3>3. Completion(d, l.vc, user)
      BY <2>1, <2>5 DEF UsersCallback
    <3>. HIDE DEF user
    <3>4. \A vc \in Controller \ {"Search"} : loggedUser'[vc] \in {loggedUser[vc], user}
      BY <1>0, <3>3 DEF Completion
    <3>. rows' = rows
      BY <2>1 DEF UsersCallback
    <3>6. Bare(loggedUser["Favorites"]) => Bare(loggedUser'["Favorites"])
      BY <1>0, <3>3 DEF Completion, user, Bare, NewUser
    <3>5. Sound(d, loggedUser', rows') /\ d \in Client
      BY <3>6, <1>4, <1>5, <1>8, <1>10, <3>1, <3>2, <3>4, UploadKeeps, SetValueType
    <3>. HIDE DEF d
    <3>. QED  BY <1>9, <3>3, <3>5
  <2>. QED  BY <2>4, <2>5
<1>11. CASE l.kind = "copy"
  <2>1. CopyCallback(c, l.vc, l.uid, e.snap)
    BY <1>1, <1>11 DEF c
  <2>. rows' = rows
    BY <2>1 DEF CopyCallback
  <2>. DEFINE user == FromDictionary(l.uid, e.snap)
  <2>2. CASE e.snap # Nil
    <3>1. Completion(c, l.vc, user)
      BY <2>1, <2>2 DEF CopyCallback
    <3>. HIDE DEF user
    <3>2. loggedUser' = [loggedUser EXCEPT ![l.vc] = user]
      BY <3>1 DEF Completion
    <3>3. \A vc \in Controller \ {"Search"} :
            loggedUser'[vc] = IF l.kind = "copy" /\ e.snap # Nil /\ l.vc = vc
                              THEN user ELSE loggedUser[vc]
      BY <1>0, <1>11, <2>2, <3>2
    <3>4. Sound(c, loggedUser', rows')
      BY <1>0, <1>11, <3>3, TakeKeeps DEF c, user
    <3>. QED  BY <1>5, <1>9, <3>1, <3>4
  <2>3. CASE e.snap = Nil
    <3>1. client' = c /\ loggedUser' = loggedUser
      BY <2>1, <2>3 DEF CopyCallback
    <3>2. Sound(c, loggedUser, rows)
      BY <1>0, <1>11, <2>3, TakeKeeps DEF c
    <3>. QED  BY <3>1, <3>2
  <2>. QED  BY <2>2, <2>3
<1>12. CASE l.kind = "rows"
  <2>1. RowsCallback(c, l.vc, l.uid, e.snap)
    BY <1>1, <1>12 DEF c
  <2>2. rows' = IF e.snap = Nil THEN rows
                ELSE [rows EXCEPT ![l.vc] = IF l.vc = "Notes" THEN FromDictionary(l.uid, e.snap).notes
                                            ELSE FromDictionary(l.uid, e.snap).favorites]
    BY <2>1 DEF RowsCallback
  <2>3. client' = c /\ loggedUser' = loggedUser
    BY <2>1 DEF RowsCallback
  <2>4. "Favorites" \in DOMAIN rows
    BY DEF TypeOK, Lists
  <2>5. rows'["Favorites"] =
          IF l.kind = "rows" /\ e.snap # Nil /\ l.vc = "Favorites"
          THEN FromDictionary(l.uid, e.snap).favorites ELSE rows["Favorites"]
    BY <1>12, <2>2, <2>4
  <2>6. Sound(c, loggedUser, rows')
    BY <1>0, <1>12, <2>5, TakeKeeps DEF c
  <2>. QED  BY <2>3, <2>6
<1>13. CASE l.kind = "once"
  <2>1. OnceCallback(c, l, l.uid, e.snap)
    BY <1>1, <1>13 DEF c
  <2>2. /\ client' = c
        /\ \/ loggedUser' = loggedUser
           \/ loggedUser' = [loggedUser EXCEPT !["Search"] = FromDictionary(l.uid, e.snap)]
    BY <2>1 DEF OnceCallback
  <2>3. \A vc \in Controller \ {"Search"} : loggedUser'[vc] = loggedUser[vc]
    BY <1>0, <2>2
  <2>. rows' = rows
    BY <2>1 DEF OnceCallback
  <2>4. Sound(c, loggedUser', rows')
    BY <1>0, <1>13, <2>3, TakeKeeps DEF c
  <2>. QED  BY <2>2, <2>4
<1>. QED  BY <1>4, <1>10, <1>11, <1>12, <1>13 DEF Kind

LEMMA MainThreadKeeps ==
  ASSUME TypeOK, LoopHasUser, CopyInv, MainThread
  PROVE  CopyInv'
<1>1. ASSUME NEW vc \in Feeds, NEW as \in SUBSET Article, FeedArrives(vc, as)
      PROVE  CopyInv'
  BY <1>1 DEF FeedArrives, CopyInv
<1>2. CASE LoopRemoves
  <2>0. /\ loop.vc \in Controller /\ client \in Client
        /\ loggedUser \in [Controller -> User \cup {Nil}] /\ Sound(client, loggedUser, rows)
    BY <1>2 DEF LoopRemoves, TypeOK, Loop, Feeds, Controller, CopyInv, Sound
  <2>1. PICK i \in DOMAIN loggedUser[loop.vc].favorites :
          /\ loggedUser' = [loggedUser EXCEPT ![loop.vc] = RemoveFavoriteAt(@, i)]
          /\ Upload(loggedUser'[loop.vc])
    BY <1>2 DEF LoopRemoves
  <2>. DEFINE user == RemoveFavoriteAt(loggedUser[loop.vc], i)
  <2>2. loggedUser[loop.vc] \in User
    BY <1>2, <2>0 DEF LoopRemoves, LoopHasUser
  <2>3. user \in User
    BY <2>2, EditTypes DEF User
  <2>4. loggedUser' = [loggedUser EXCEPT ![loop.vc] = user]
    BY <2>1
  <2>. HIDE DEF user
  <2>5. client' = SetValue(client, user.ID, ToDictionary(user))
    BY <2>0, <2>1, <2>4 DEF Upload
  <2>6. \A vc \in Controller \ {"Search"} : loggedUser'[vc] \in {loggedUser[vc], user}
    BY <2>0, <2>4
  <2>8. rows' = rows /\ (Bare(loggedUser["Favorites"]) => Bare(loggedUser'["Favorites"]))
    BY <1>2, <2>0, <2>4 DEF LoopRemoves, TypeOK, Loop, Feeds, NoLoop
  <2>7. Sound(client', loggedUser', rows')
    BY <2>0, <2>3, <2>5, <2>6, <2>8, UploadKeeps
  <2>. QED  BY <2>7 DEF CopyInv, Sound
<1>3. CASE LoopEnds
  BY <1>3 DEF LoopEnds, CopyInv, screen
<1>4. CASE Deliver
  BY <1>4, DeliverKeeps
<1>. QED  BY <1>1, <1>2, <1>3, <1>4 DEF MainThread

LEMMA EnvironmentKeeps ==
  ASSUME TypeOK, CopyInv, Environment
  PROVE  CopyInv'
<1>0. client \in Client /\ currentUser \in Uid \cup {Nil} /\ Sound(client, loggedUser, rows)
  BY DEF TypeOK, CopyInv
<1>. SUFFICES Sound(client', loggedUser', rows')
  BY DEF CopyInv
<1>1. CASE ServerAnswers
  BY <1>0, <1>1, AnswerKeeps DEF ServerAnswers, screen
<1>2. CASE ServerAcks
  BY <1>0, <1>2, AckKeeps DEF ServerAcks, screen
<1>3. CASE NetworkChanges
  BY <1>0, <1>3 DEF NetworkChanges, screen
<1>4. CASE Relaunch
  BY <1>0, <1>4, ClientFields, LaunchedSound DEF Relaunch, Controller, Lists
<1>. QED  BY <1>1, <1>2, <1>3, <1>4 DEF Environment

LEMMA NextKeepsCopies ==
  ASSUME TypeOK, LoopHasUser, CopyInv, [Next]_vars
  PROVE  CopyInv'
<1>1. CASE Next
  BY <1>1, EnvironmentKeeps, SessionKeeps, EditsKeep, MainThreadKeeps DEF Next
<1>2. CASE UNCHANGED vars
  BY <1>2 DEF vars, CopyInv
<1>. QED  BY <1>1, <1>2

LEMMA InitCopies == Init => CopyInv
<1>. SUFFICES ASSUME Init PROVE Sound(client, loggedUser, rows)
  BY DEF CopyInv
<1>1. PICK server \in [Uid -> StartRecords] :
        currentUser \in StartUsers /\ client = Launched(server, currentUser)
  BY DEF Init
<1>2. server \in [Uid -> Stored \cup {Nil}] /\ currentUser \in Uid \cup {Nil}
  BY <1>1, AppAssumption
<1>3. loggedUser["Favorites"] = Nil /\ rows["Favorites"] = <<>>
  BY DEF Init, Controller, Lists
<1>. QED  BY <1>1, <1>2, <1>3, LaunchedSound

\* Once every callback has run, the User object of a screen that observes its
\* account is the record the client shows: late and repeated callbacks, uploads
\* of other screens, logins of another account and registrations made again
\* never leave a screen with an older copy.
THEOREM CopiesCorrect == Spec => []CopiesAgree
<1>1. Init => TypeOK /\ LoopHasUser /\ CopyInv
  BY InitType, InitCopies DEF Init, LoopHasUser
<1>2. TypeOK /\ LoopHasUser /\ CopyInv /\ [Next]_vars => (TypeOK /\ LoopHasUser /\ CopyInv)'
  BY NextType, NextLoopHasUser, NextKeepsCopies
<1>3. CopyInv => CopiesAgree
  <2>. SUFFICES ASSUME CopyInv, Settled, NEW vc \in Controller, loggedUser[vc] # Nil,
                       NEW l \in Live(vc, "copy"), l.uid = loggedUser[vc].ID
                PROVE  Agrees(loggedUser[vc], client.view[loggedUser[vc].ID])
    BY DEF CopiesAgree, Agrees
  <2>1. l \in client.listeners /\ l.kind = "copy" /\ l.vc = vc
    BY DEF Live
  <2>2. ~Waiting(client, l.vc, l.uid)
    BY DEF Settled, Waiting
  <2>. QED  BY <2>1, <2>2 DEF CopyInv, Sound, Accord
<1>. QED  BY <1>1, <1>2, <1>3, PTL DEF Spec
-----------------------------------------------------------------------------
(* The rows of Favorites.                                                   *)

\* With no callback waiting, the table and the object of Favorites have the same
\* favourites, unless one of them has none.
LEMMA RowsAreFavourites ==
  ASSUME TypeOK, CopyInv, client.queue = <<>>, \A u, v \in Uid : u = v,
         rows["Favorites"] # <<>>, ~Bare(loggedUser["Favorites"])
  PROVE  loggedUser["Favorites"].favorites = rows["Favorites"]
<1>. DEFINE user == loggedUser["Favorites"]
<1>1. /\ client \in Client /\ user \in User /\ Sound(client, loggedUser, rows)
      /\ \A l \in client.listeners : l.uid \in Uid
  BY ClientFields DEF TypeOK, CopyInv, Controller, Bare, Listener
<1>2. PICK l \in client.listeners :
        /\ client.view[l.uid] # Nil
        /\ rows["Favorites"] = FromDictionary(l.uid, client.view[l.uid]).favorites
  BY <1>1 DEF Sound, Shown, WaitingFor
<1>3. PICK k \in client.listeners : k.kind = "copy" /\ k.vc = "Favorites"
  BY <1>1 DEF Sound, Observed
<1>4. user.ID = k.uid /\ user.ID = l.uid
  BY <1>1, Zenon DEF User
<1>. DEFINE r == client.view[l.uid]
<1>5. Agrees(user, r)
  BY <1>1, <1>3, <1>4 DEF Sound, Accord, Waiting, Bare
<1>6. user.favorites # <<>>
  BY DEF Bare
<1>7. rows["Favorites"] = OrDefault(r.favorites, NoData)
  BY <1>2 DEF FromDictionary
<1>. HIDE DEF r, user
<1>8. CASE user = FromDictionary(user.ID, r)
  BY <1>7, <1>8 DEF FromDictionary, user
<1>9. CASE ToDictionary(user) = r
  <2>1. r.favorites = user.favorites
    BY <1>9 DEF ToDictionary
  <2>. QED  BY <1>6, <1>7, <2>1 DEF OrDefault, user
<1>. QED  BY <1>5, <1>8, <1>9 DEF Agrees

\* With one account, and a user who lets the callbacks run before each action, the
\* row that is swiped is the entry that leaves the record, although the table and
\* the object are filled by different observers and their positions are mixed.
THEOREM SwipedRowCorrect ==
  ASSUME MaxBacklog = 0, \A u, v \in Uid : u = v
  PROVE  Spec => RemovesTheSwipedRow
<1>1. Init => TypeOK /\ LoopHasUser /\ CopyInv
  BY InitType, InitCopies DEF Init, LoopHasUser
<1>2. TypeOK /\ LoopHasUser /\ CopyInv /\ [Next]_vars => (TypeOK /\ LoopHasUser /\ CopyInv)'
  BY NextType, NextLoopHasUser, NextKeepsCopies
<1>3. TypeOK /\ CopyInv =>
        \A i \in DOMAIN rows["Favorites"] :
          RemoveFavorite(i) /\ ~crashed' =>
            \E p \in DOMAIN rows["Favorites"] :
              /\ rows["Favorites"][p] = rows["Favorites"][i]
              /\ loggedUser'["Favorites"].favorites = Without(rows["Favorites"], p)
  <2>. SUFFICES ASSUME TypeOK, CopyInv, NEW i \in DOMAIN rows["Favorites"],
                       RemoveFavorite(i), ~crashed'
                PROVE  \E p \in DOMAIN rows["Favorites"] :
                         /\ rows["Favorites"][p] = rows["Favorites"][i]
                         /\ loggedUser'["Favorites"].favorites = Without(rows["Favorites"], p)
    OBVIOUS
  <2>1. /\ client.queue \in Seq(SUBSET Event) /\ rows["Favorites"] \in Seq(Row)
        /\ loggedUser \in [Controller -> User \cup {Nil}] /\ "Favorites" \in Controller
    BY ClientFields DEF TypeOK, Lists, Controller
  <2>2. client.queue = <<>> /\ loggedUser["Favorites"] # Nil
    BY <2>1 DEF RemoveFavorite, UserEditsOn, UserActsOn, UserActs
  <2>3. PICK position \in 1 .. i :
          /\ IsFirstIndex(rows["Favorites"], rows["Favorites"][i], position)
          /\ position <= Len(loggedUser["Favorites"].favorites)
          /\ loggedUser' = [loggedUser EXCEPT !["Favorites"] = RemoveFavoriteAt(@, position)]
    BY DEF RemoveFavorite
  <2>4. loggedUser["Favorites"].favorites = rows["Favorites"]
    <3>1. loggedUser["Favorites"] \in User
      BY <2>1, <2>2
    <3>2. position \in Nat \ {0}
      BY <2>1, <2>3
    <3>3. ~Bare(loggedUser["Favorites"])
      BY <2>2, <2>3, <3>1, <3>2 DEF Bare, User
    <3>4. rows["Favorites"] # <<>>
      OBVIOUS
    <3>. QED  BY <2>2, <3>3, <3>4, RowsAreFavourites
  <2>5. loggedUser'["Favorites"].favorites = Without(rows["Favorites"], position)
    BY <2>1, <2>3, <2>4 DEF RemoveFavoriteAt, Without
  <2>. QED  BY <2>3, <2>5 DEF IsFirstIndex
<1>. QED  BY <1>1, <1>2, <1>3, PTL DEF Spec, RemovesTheSwipedRow
-----------------------------------------------------------------------------
(* Search's single event.                                                   *)

\* A step that replaces Search's object without an edit is the delivery of the
\* single event to an observer that is still there.
LEMMA SearchStep ==
  ASSUME TypeOK, CopyInv, Next, loggedUser["Search"] # Nil,
         loggedUser'["Search"] # loggedUser["Search"], taps' = taps, loop = NoLoop,
         loggedUser'["Search"] # Nil
  PROVE  \E l \in client.listeners : l.kind = "once"
<1>0. loggedUser \in [Controller -> User \cup {Nil}] /\ taps \in Nat
      /\ "Search" \in Controller /\ "Home" \in Controller
  BY DEF TypeOK, Controller
<1>1. CASE Environment
  BY <1>0, <1>1 DEF Environment, ServerAnswers, ServerAcks, NetworkChanges, Relaunch, screen
<1>2. CASE Session
  BY <1>0, <1>2 DEF Session, SelectTab, SignIn, LogOut, LogIn, CancelLogin, OpenFilter,
                    CloseFilter, Dismiss, ForceCheck, screen
<1>3. CASE Edits
  <2>1. taps + 1 # taps
    BY <1>0
  <2>. QED  BY <1>3, <2>1 DEF Edits, AddToFavorites, Unfavorite, FavoriteCreates,
               RemoveFavorite, SaveMessage, FavoriteAsksLogin, NoteAsksLogin,
               RefreshFavorites, ForceCheck, UserEditsOn, screen
<1>4. CASE MainThread
  <2>1. CASE Deliver
    <3>1. PICK e \in Due(client) :
            LET c == Take(client, e)
                l == e.listener
            IN CASE l.kind = "users" -> UsersCallback(c, l.vc, l.uid, e.snap)
                 [] l.kind = "copy"  -> CopyCallback(c, l.vc, l.uid, e.snap)
                 [] l.kind = "rows"  -> RowsCallback(c, l.vc, l.uid, e.snap)
                 [] l.kind = "once"  -> OnceCallback(c, l, l.uid, e.snap)
      BY <2>1 DEF Deliver
    <3>. DEFINE c == Take(client, e)
                l == e.listener
    <3>. HIDE DEF c
    <3>2. e \in Event /\ 1 \in DOMAIN client.queue /\ e \in client.queue[1]
      BY <2>1, DueType, ClientFields DEF Deliver, TypeOK, Due
    <3>3. l.vc \in Controller /\ l.kind \in Kind
      BY <3>2 DEF Event, Listener
    <3>4. EventSound(client, 1, e)
      BY <3>2 DEF CopyInv, Sound, EventsSound
    <3>5. CASE l.kind \in {"users", "copy"}
      <4>1. l.vc # "Search"
        BY <3>4, <3>5 DEF EventSound, CopyInv, Sound, ObserversSound
      <4>2. \A d, user : ~Completion(d, l.vc, user)
        BY <1>0, <3>3, <4>1 DEF Completion
      <4>3. CASE l.kind = "users"
        <5>1. UsersCallback(c, l.vc, l.uid, e.snap)
          BY <3>1, <4>3 DEF c
        <5>. QED  BY <4>2, <5>1 DEF UsersCallback
      <4>4. CASE l.kind = "copy"
        <5>1. CopyCallback(c, l.vc, l.uid, e.snap)
          BY <3>1, <4>4 DEF c
        <5>. QED  BY <4>2, <5>1 DEF CopyCallback
      <4>. QED  BY <3>5, <4>3, <4>4
    <3>6. CASE l.kind = "rows"
      <4>1. RowsCallback(c, l.vc, l.uid, e.snap)
        BY <3>1, <3>6 DEF c
      <4>. QED  BY <4>1 DEF RowsCallback
    <3>7. CASE l.kind = "once"
      <4>1. OnceCallback(c, l, l.uid, e.snap)
        BY <3>1, <3>7 DEF c
      <4>. QED  BY <3>7, <4>1 DEF OnceCallback
    <3>. QED  BY <3>3, <3>5, <3>6, <3>7 DEF Kind
  <2>. QED  BY <1>4, <2>1 DEF MainThread, FeedArrives, LoopRemoves, LoopEnds, screen
<1>. QED  BY <1>1, <1>2, <1>3, <1>4 DEF Next

\* A second event that reaches Search's observer before the first is handled does
\* nothing, and nothing else but the user's edits replaces Search's object: the
\* check of another screen never does.
THEOREM SearchReadsOnceCorrect == Spec => SearchReadsOnce
<1>1. Init => TypeOK /\ LoopHasUser /\ CopyInv
  BY InitType, InitCopies DEF Init, LoopHasUser
<1>2. TypeOK /\ LoopHasUser /\ CopyInv /\ [Next]_vars => (TypeOK /\ LoopHasUser /\ CopyInv)'
  BY NextType, NextLoopHasUser, NextKeepsCopies
<1>3. ASSUME TypeOK, CopyInv, [Next]_vars
      PROVE  [loggedUser["Search"] # Nil /\ loggedUser'["Search"] # loggedUser["Search"]
                => \/ taps' # taps \/ loop # NoLoop \/ loggedUser'["Search"] = Nil
                   \/ \E l \in client.listeners : l.kind = "once"]_vars
  BY <1>3, SearchStep
<1>. QED  BY <1>1, <1>2, <1>3, PTL DEF Spec, SearchReadsOnce

-----------------------------------------------------------------------------
(* The loop that removes a favourite.                                       *)

\* The turns left are the entries left: nobody else touches the list meanwhile.
TurnsLeft == loop # NoLoop => Len(loggedUser[loop.vc].favorites) = loop.left

LEMMA NextTurnsLeft ==
  ASSUME TypeOK, LoopHasUser, TurnsLeft, [Next]_vars
  PROVE  TurnsLeft'
<1>0. loggedUser \in [Controller -> User \cup {Nil}]
  BY DEF TypeOK
<1>1. ASSUME loop = NoLoop, loop' = loop PROVE TurnsLeft'
  BY <1>1 DEF TurnsLeft
<1>2. CASE Environment
  BY <1>2 DEF Environment, ServerAnswers, ServerAcks, NetworkChanges, Relaunch,
              screen, TurnsLeft
<1>3. CASE Session
  BY <1>1, <1>3 DEF Session, SelectTab, SignIn, LogOut, LogIn, CancelLogin, OpenFilter,
              CloseFilter, Dismiss, ForceCheck, UserActsOn, UserActs, MainIdle
<1>4. CASE Edits
  <2>1. ASSUME NEW vc \in Feeds, NEW a \in Article, Unfavorite(vc, a) PROVE TurnsLeft'
    <3>1. loop'.vc = vc /\ loggedUser' = loggedUser
          /\ loop'.left = Len(loggedUser[vc].favorites)
      BY <2>1 DEF Unfavorite
    <3>. QED  BY <3>1 DEF TurnsLeft
  <2>. QED  BY <1>1, <1>4, <2>1 DEF Edits, AddToFavorites, FavoriteCreates,
              RemoveFavorite, SaveMessage, FavoriteAsksLogin, NoteAsksLogin,
              RefreshFavorites, ForceCheck, UserEditsOn, UserActsOn, UserActs, MainIdle
<1>5. CASE MainThread
  <2>1. ASSUME NEW vc \in Feeds, NEW as \in SUBSET Article, FeedArrives(vc, as)
        PROVE  TurnsLeft'
    BY <1>1, <2>1 DEF FeedArrives, MainIdle
  <2>2. CASE LoopRemoves
    <3>1. /\ loop'.vc = loop.vc /\ loop.vc \in Controller /\ loop.left \in Nat
          /\ loop'.left = loop.left - 1
      BY <2>2 DEF LoopRemoves, TypeOK, Loop, Feeds, Controller
    <3>. DEFINE user == loggedUser[loop.vc]
                f    == user.favorites
    <3>2. PICK i \in DOMAIN f : loggedUser' = [loggedUser EXCEPT ![loop.vc] =
                                                 RemoveFavoriteAt(@, i)]
      BY <2>2 DEF LoopRemoves
    <3>3. user \in User
      BY <1>0, <2>2, <3>1 DEF LoopRemoves, LoopHasUser
    <3>4. f \in Seq(Favorite) /\ i \in 1 .. Len(f)
      BY <3>2, <3>3 DEF User
    <3>5. loggedUser'[loop.vc].favorites = SubSeq(f, 1, i - 1) \o SubSeq(f, i + 1, Len(f))
      BY <1>0, <3>1, <3>2 DEF RemoveFavoriteAt
    <3>. HIDE DEF f
    <3>6. Len(SubSeq(f, 1, i - 1) \o SubSeq(f, i + 1, Len(f))) = Len(f) - 1
      BY <3>4
    <3>7. Len(f) = loop.left
      BY <2>2 DEF TurnsLeft, LoopRemoves, f
    <3>. QED  BY <3>1, <3>5, <3>6, <3>7 DEF TurnsLeft
  <2>3. CASE LoopEnds
    BY <2>3 DEF LoopEnds, TurnsLeft
  <2>4. CASE Deliver
    BY <1>1, <2>4 DEF Deliver, MainIdle
  <2>. QED  BY <1>5, <2>1, <2>2, <2>3, <2>4 DEF MainThread
<1>6. CASE UNCHANGED vars
  BY <1>6 DEF vars, TurnsLeft
<1>. QED  BY <1>2, <1>3, <1>4, <1>5, <1>6 DEF Next

\* However many entries of the article the list has, the loop ends when none is
\* left: it has a turn for each entry of the list it started with.
THEOREM UnfavoriteCorrect == Spec => UnfavoriteIsComplete
<1>1. Init => TypeOK /\ LoopHasUser /\ TurnsLeft
  BY InitType DEF Init, LoopHasUser, TurnsLeft
<1>2. TypeOK /\ LoopHasUser /\ TurnsLeft /\ [Next]_vars
        => (TypeOK /\ LoopHasUser /\ TurnsLeft)'
  BY NextType, NextLoopHasUser, NextTurnsLeft
<1>3. ASSUME TypeOK, LoopHasUser, TurnsLeft, LoopEnds
      PROVE  ~Contains(loggedUser'[loop.vc].favorites, loop.article)
  <2>1. /\ loop # NoLoop /\ loggedUser' = loggedUser
        /\ loop.left = 0 \/ ~Contains(loggedUser[loop.vc].favorites, loop.article)
    BY <1>3 DEF LoopEnds, screen
  <2>2. loggedUser[loop.vc] \in User
    BY <1>3, <2>1 DEF TypeOK, LoopHasUser, Loop, Feeds, Controller
  <2>3. CASE loop.left = 0
    <3>1. loggedUser[loop.vc].favorites \in Seq(Favorite)
          /\ Len(loggedUser[loop.vc].favorites) = 0
      BY <1>3, <2>1, <2>2, <2>3 DEF TurnsLeft, User
    <3>2. DOMAIN loggedUser[loop.vc].favorites = {}
      BY <3>1
    <3>. QED  BY <2>1, <3>2 DEF Contains
  <2>. QED  BY <2>1, <2>3
<1>. QED  BY <1>1, <1>2, <1>3, PTL DEF Spec, UnfavoriteIsComplete

-----------------------------------------------------------------------------
(***************************************************************************)
(* That what reaches the server is one edit after another (UploadsAreEdits,*)
(* the refinement of Shelf), when the user waits for the callbacks before  *)
(* each action and does not visit Search.                                  *)
(*                                                                         *)
(* Every upload carries a whole record, the screen's own.  That it changes *)
(* one thing only is because the screen's object agrees with what the      *)
(* client shows at that moment (CopiesAgree), and for this every screen    *)
(* with an object must observe its account, or be about to (Attended).  The*)
(* server receives the writes later, one by one: what it has is carried to *)
(* what the client shows by the writes not yet received, each of them an   *)
(* edit of the record before it (SentAreEdits).                            *)
(***************************************************************************)

(* The invariant.                                                           *)

\* A record that was just created.
Created == [favorites |-> <<>>, notes |-> <<>>]

\* A screen observes an account, or what will make it do so is on its way.
HasCopy(c, vc, u) == \E l \in c.listeners : l.kind = "copy" /\ l.vc = vc /\ l.uid = u

HasCall(c, vc, u) ==
  \E i \in DOMAIN c.queue : \E e \in c.queue[i] :
    /\ e.listener.kind = "users" /\ e.listener.vc = vc /\ e.listener.uid = u
    /\ e.snap # Nil

Attended(c, users) ==
  \A vc \in Controller \ {"Search"} :
    users[vc] # Nil => HasCopy(c, vc, users[vc].ID) \/ HasCall(c, vc, users[vc].ID)

\* Who will be told that an account is missing will create nothing else than what is there.
LaterCall(c, i, l) ==
  \E j \in DOMAIN c.queue : j > i /\ \E f \in c.queue[j] : f.listener = l /\ f.snap # Nil

MissingSound(c, i, e) ==
  e.listener.kind = "users" /\ e.snap = Nil =>
    \/ c.view[e.listener.uid] = Nil
    \/ c.view[e.listener.uid] = Created /\ LaterCall(c, i, e.listener)

MissingAreSound(c) == \A i \in DOMAIN c.queue : \A e \in c.queue[i] : MissingSound(c, i, e)

\* Nobody will be told that the account is missing.
Present(c, u) ==
  /\ c.view[u] # Nil
  /\ \A i \in DOMAIN c.queue : \A e \in c.queue[i] :
       e.listener.kind = "users" /\ e.listener.uid = u => e.snap # Nil

\* One edit of a record: it is created, or it gains a note, or it gains or loses a
\* favourite; the upload of what is already there leaves it as it is.
Edited(r, s) ==
  \/ s = r
  \/ r = Nil /\ s = Created
  \/ /\ r # Nil /\ s # Nil
     /\ \/ s.favorites = r.favorites /\ \E n \in NoteText : s.notes = Append(r.notes, n)
        \/ s.notes = r.notes /\ \E a \in Article : s.favorites = Append(r.favorites, a)
        \/ s.notes = r.notes /\ \E i \in DOMAIN r.favorites : s.favorites = Without(r.favorites, i)

\* The writes sent lead, edit by edit, from what the server has to what the client shows.
Replay(c, h) ==
  /\ h \in [0 .. Len(c.pending) -> [Uid -> Stored \cup {Nil}]]
  /\ h[0] = c.server /\ h[Len(c.pending)] = c.view
  /\ \A i \in DOMAIN c.pending :
       /\ h[i] = [h[i - 1] EXCEPT ![c.pending[i].uid] = c.pending[i].record]
       /\ Edited(Real(h[i - 1][c.pending[i].uid]), Real(c.pending[i].record))

SentAreEdits(c) == \E h : Replay(c, h)

\* While a favourite is removed, turn by turn, its screen has what the client shows.
LoopSound(c, users, lp) ==
  lp # NoLoop =>
    /\ lp.vc # "Search"
    /\ Agrees(users[lp.vc], c.view[users[lp.vc].ID])
    /\ Present(c, users[lp.vc].ID)

Orderly(c, users) == Attended(c, users) /\ MissingAreSound(c) /\ SentAreEdits(c)

ShelfInv ==
  tab # "Search" /\ Orderly(client, loggedUser) /\ LoopSound(client, loggedUser, loop)

-----------------------------------------------------------------------------
(* What of a list is kept.                                                  *)

\* What is kept of each beginning of a list, up to the N-th entry.
Keeps(f, list, default, N) ==
  f[0] = <<>> /\ \A n \in 1 .. N : f[n] = Keep(f[n - 1], list[n], default)

\* Kept ends with what is kept of the whole list.
LEMMA KeptAre ==
  ASSUME NEW S, NEW list \in Seq(S), NEW default
  PROVE  \E f : Keeps(f, list, default, Len(list)) /\ Kept(list, default) = f[Len(list)]
<1>. DEFINE P(k) == \E g : g = [n \in 0 .. k |-> IF n = 0 THEN <<>> ELSE Keep(g[n - 1], list[n], default)]
            D == {k \in Nat : P(k)}
<1>1. P(0)
  <2>1. PICK g : g = [n \in 0 .. 0 |-> <<>>]
    OBVIOUS
  <2>2. g = [n \in 0 .. 0 |-> IF n = 0 THEN <<>> ELSE Keep(g[n - 1], list[n], default)]
    BY <2>1
  <2>. QED  BY <2>2
<1>2. ASSUME NEW k \in Nat, P(k) PROVE P(k + 1)
  <2>1. PICK g : g = [n \in 0 .. k |-> IF n = 0 THEN <<>> ELSE Keep(g[n - 1], list[n], default)]
    BY <1>2
  <2>2. PICK h : h = [n \in 0 .. k + 1 |-> IF n = k + 1 THEN Keep(g[k], list[k + 1], default) ELSE g[n]]
    OBVIOUS
  <2>3. \A n \in 0 .. k + 1 : h[n] = IF n = 0 THEN <<>> ELSE Keep(h[n - 1], list[n], default)
    <3> TAKE n \in 0 .. k + 1
    <3>1. CASE n = 0
      BY <3>1, <2>1, <2>2
    <3>2. CASE n = k + 1
      <4>1. h[n] = Keep(g[k], list[n], default) /\ n - 1 = k /\ h[k] = g[k] /\ n # 0
        BY <3>2, <2>2
      <4>. QED  BY <4>1
    <3>3. CASE n # 0 /\ n # k + 1
      <4>1. n \in 0 .. k /\ n - 1 \in 0 .. k /\ n - 1 # k + 1
        BY <3>3
      <4>2. h[n] = g[n] /\ h[n - 1] = g[n - 1]
        BY <4>1, <2>2
      <4>3. g[n] = Keep(g[n - 1], list[n], default)
        BY <4>1, <2>1, <3>3
      <4>. QED  BY <3>3, <4>2, <4>3
    <3>. QED  BY <3>1, <3>2, <3>3
  <2>4. h = [n \in 0 .. k + 1 |-> IF n = 0 THEN <<>> ELSE Keep(h[n - 1], list[n], default)]
    BY <2>2, <2>3
  <2>. QED  BY <2>4
<1>3. Len(list) \in D
  <2>. HIDE DEF P
  <2>1. 0 \in D /\ \A k \in Nat : k \in D => k + 1 \in D
    BY <1>1, <1>2
  <2>. HIDE DEF D
  <2>. QED  BY <2>1, Induction
<1>4. P(Len(list))
  BY <1>3
<1>5. CASE \A n \in DOMAIN list : list[n] # default
  <2>. DEFINE f == [n \in 0 .. Len(list) |-> SubSeq(list, 1, n)]
  <2>1. f[0] = <<>> /\ f[Len(list)] = list
    OBVIOUS
  <2>2. ASSUME NEW n \in 1 .. Len(list)
        PROVE  f[n] = Keep(f[n - 1], list[n], default)
    <3>1. n - 1 \in 0 .. Len(list) /\ list[n] # default
      BY <1>5
    <3>2. SubSeq(list, 1, n) = Append(SubSeq(list, 1, n - 1), list[n])
      OBVIOUS
    <3>. QED  BY <3>1, <3>2 DEF Keep
  <2>3. Kept(list, default) = list
    BY <1>5 DEF Kept
  <2>. HIDE DEF f
  <2>. QED  BY <2>1, <2>2, <2>3 DEF Keeps
<1>6. CASE \E n \in DOMAIN list : list[n] = default
  <2>1. PICK g : /\ Kept(list, default) = g[Len(list)]
                 /\ g = [n \in 0 .. Len(list) |-> IF n = 0 THEN <<>> ELSE Keep(g[n - 1], list[n], default)]
    BY <1>4, <1>6, Zenon DEF Kept
  <2>2. g[0] = <<>> /\ \A n \in 1 .. Len(list) : g[n] = Keep(g[n - 1], list[n], default)
    BY <2>1
  <2>. QED  BY <2>1, <2>2 DEF Keeps
<1>. QED  BY <1>5, <1>6

\* And it is a list of entries that are not the default.
LEMMA KeptSeq ==
  ASSUME NEW S, NEW default, NEW list \in Seq(S), NEW f, Keeps(f, list, default, Len(list))
  PROVE  \A n \in 0 .. Len(list) : f[n] \in Seq(S \ {default})
<1>. DEFINE D == {n \in Nat : n <= Len(list) => f[n] \in Seq(S \ {default})}
<1>1. 0 \in D
  <2>1. <<>> \in Seq(S \ {default})
    OBVIOUS
  <2>. QED  BY <2>1 DEF Keeps
<1>2. ASSUME NEW n \in Nat, n \in D, n + 1 <= Len(list) PROVE f[n + 1] \in Seq(S \ {default})
  <2>1. n + 1 \in 1 .. Len(list) /\ (n + 1) - 1 = n
    BY <1>2
  <2>2. f[n + 1] = Keep(f[n], list[n + 1], default) /\ list[n + 1] \in S
    BY <2>1 DEF Keeps
  <2>3. f[n] \in Seq(S \ {default})
    BY <1>2
  <2>. QED  BY <2>2, <2>3 DEF Keep
<1>3. \A n \in Nat : n \in D => n + 1 \in D
  BY <1>2
<1>4. \A n \in Nat : n \in D
  <2>. HIDE DEF D
  <2>. QED  BY <1>1, <1>3, Induction
<1>. QED  BY <1>4

\* So what is kept is a list of the same type.
LEMMA KeptType ==
  ASSUME NEW S, NEW default, NEW list \in Seq(S)
  PROVE  Kept(list, default) \in Seq(S \ {default})
<1>1. Len(list) \in Nat
  OBVIOUS
<1>2. PICK f : Keeps(f, list, default, Len(list)) /\ Kept(list, default) = f[Len(list)]
  BY <1>1, KeptAre
<1>3. \A n \in 0 .. Len(list) : f[n] \in Seq(S \ {default})
  BY <1>2, KeptSeq, Zenon
<1>. QED  BY <1>1, <1>2, <1>3

\* Lists that begin alike keep alike.
LEMMA KeptAlike ==
  ASSUME NEW default, NEW s, NEW t, NEW f, NEW g, NEW N \in Nat,
         Keeps(f, s, default, N), Keeps(g, t, default, N), \A n \in 1 .. N : s[n] = t[n]
  PROVE  f[N] = g[N]
<1>. DEFINE D == {n \in Nat : n <= N => f[n] = g[n]}
<1>1. 0 \in D
  BY DEF Keeps
<1>2. ASSUME NEW n \in Nat, n \in D, n + 1 <= N PROVE f[n + 1] = g[n + 1]
  <2>1. n + 1 \in 1 .. N /\ (n + 1) - 1 = n
    BY <1>2
  <2>2. f[n + 1] = Keep(f[n], s[n + 1], default) /\ g[n + 1] = Keep(g[n], t[n + 1], default)
    BY <2>1 DEF Keeps
  <2>. QED  BY <1>2, <2>1, <2>2
<1>3. \A n \in Nat : n \in D => n + 1 \in D
  BY <1>2
<1>4. N \in D
  <2>. HIDE DEF D
  <2>. QED  BY <1>1, <1>3, Induction
<1>. QED  BY <1>4

\* Nothing is kept of an empty list, and of one entry more, that entry or no other.
LEMMA KeptEmpty == ASSUME NEW default PROVE Kept(<<>>, default) = <<>>
<1>. <<>> \in Seq({default})
  OBVIOUS
<1>1. PICK f : Keeps(f, <<>>, default, Len(<<>>)) /\ Kept(<<>>, default) = f[Len(<<>>)]
  BY KeptAre
<1>. QED  BY <1>1 DEF Keeps

LEMMA KeptAppend ==
  ASSUME NEW S, NEW list \in Seq(S), NEW x \in S, NEW default
  PROVE  Kept(Append(list, x), default) = Keep(Kept(list, default), x, default)
<1>. DEFINE more == Append(list, x)
<1>1. /\ more \in Seq(S)
      /\ Len(list) \in Nat /\ Len(more) = Len(list) + 1 /\ more[Len(list) + 1] = x
      /\ \A n \in 1 .. Len(list) : more[n] = list[n]
  OBVIOUS
<1>. HIDE DEF more
<1>2. PICK f : Keeps(f, list, default, Len(list)) /\ Kept(list, default) = f[Len(list)]
  BY KeptAre
<1>3. PICK g : Keeps(g, more, default, Len(more)) /\ Kept(more, default) = g[Len(more)]
  BY <1>1, KeptAre
<1>4. f[Len(list)] = g[Len(list)]
  <2>1. Keeps(g, more, default, Len(list))
    BY <1>1, <1>3 DEF Keeps
  <2>. QED  BY <1>1, <1>2, <2>1, KeptAlike
<1>5. Len(list) + 1 \in 1 .. Len(more) /\ (Len(list) + 1) - 1 = Len(list)
  BY <1>1
<1>6. g[Len(list) + 1] = Keep(g[Len(list)], x, default)
  BY <1>1, <1>3, <1>5 DEF Keeps
<1>. QED  BY <1>1, <1>2, <1>3, <1>4, <1>6 DEF more

\* A default list keeps nothing, and neither does an empty one.
LEMMA KeptDefault ==
  ASSUME NEW S, NEW default, NEW list \in Seq(S)
  PROVE  Kept(OrDefault(list, default), default) = Kept(list, default)
<1>1. Kept(<<default>>, default) = <<>>
  <2>1. <<>> \in Seq({default}) /\ <<default>> = Append(<<>>, default)
    OBVIOUS
  <2>2. Kept(Append(<<>>, default), default) = Keep(Kept(<<>>, default), default, default)
    BY <2>1, KeptAppend
  <2>. QED  BY <2>1, <2>2, KeptEmpty DEF Keep
<1>. QED  BY <1>1, KeptEmpty DEF OrDefault

-----------------------------------------------------------------------------
(* An entry less.                                                           *)

\* Removing an entry puts the ones after it one place forward.
LEMMA WithoutIs ==
  ASSUME NEW S, NEW s \in Seq(S), NEW i \in 1 .. Len(s)
  PROVE  /\ Without(s, i) \in Seq(S) /\ Len(Without(s, i)) = Len(s) - 1
         /\ \A j \in 1 .. Len(s) - 1 : Without(s, i)[j] = IF j < i THEN s[j] ELSE s[j + 1]
<1>. DEFINE a == SubSeq(s, 1, i - 1)
            b == SubSeq(s, i + 1, Len(s))
<1>1. /\ a \in Seq(S) /\ Len(a) = i - 1
      /\ \A j \in 1 .. i - 1 : a[j] = s[j]
  OBVIOUS
<1>2. /\ b \in Seq(S) /\ Len(b) = Len(s) - i
      /\ \A j \in 1 .. Len(s) - i : b[j] = s[i + j]
  OBVIOUS
<1>3. Len(s) \in Nat
  OBVIOUS
<1>. HIDE DEF a, b
<1>4. /\ a \o b \in Seq(S) /\ Len(a \o b) = Len(s) - 1
      /\ \A j \in 1 .. Len(s) - 1 : (a \o b)[j] = IF j < i THEN a[j] ELSE b[j - (i - 1)]
  <2>1. /\ a \o b \in Seq(S) /\ Len(a \o b) = Len(a) + Len(b)
        /\ \A j \in 1 .. Len(a) + Len(b) : (a \o b)[j] = IF j <= Len(a) THEN a[j] ELSE b[j - Len(a)]
    BY <1>1, <1>2, ConcatProperties
  <2>. QED  BY <1>1, <1>2, <1>3, <2>1
<1>5. ASSUME NEW j \in 1 .. Len(s) - 1
      PROVE  (a \o b)[j] = IF j < i THEN s[j] ELSE s[j + 1]
  <2>1. CASE j < i
    BY <1>1, <1>3, <1>4, <2>1
  <2>2. CASE ~(j < i)
    <3>1. j - (i - 1) \in 1 .. Len(s) - i /\ i + (j - (i - 1)) = j + 1
      BY <1>3, <2>2
    <3>. QED  BY <1>2, <1>4, <2>2, <3>1
  <2>. QED  BY <1>3, <2>1, <2>2
<1>6. Without(s, i) = a \o b
  BY DEF Without, a, b
<1>. QED  BY <1>4, <1>5, <1>6

\* The entry that was put last, and an entry before it.
LEMMA WithoutAppend ==
  ASSUME NEW S, NEW s \in Seq(S), NEW x \in S
  PROVE  /\ Without(Append(s, x), Len(s) + 1) = s
         /\ \A i \in 1 .. Len(s) : Without(Append(s, x), i) = Append(Without(s, i), x)
<1>. DEFINE t == Append(s, x)
<1>1. /\ t \in Seq(S) /\ Len(s) \in Nat /\ Len(t) = Len(s) + 1 /\ t[Len(s) + 1] = x
      /\ \A j \in 1 .. Len(s) : t[j] = s[j]
  OBVIOUS
<1>. HIDE DEF t
<1>2. Without(t, Len(s) + 1) = s
  <2>1. /\ Without(t, Len(s) + 1) \in Seq(S) /\ Len(Without(t, Len(s) + 1)) = Len(s)
        /\ \A j \in 1 .. Len(s) : Without(t, Len(s) + 1)[j] = s[j]
    <3>. DEFINE i == Len(s) + 1
    <3>1. i \in 1 .. Len(t) /\ Len(t) - 1 = Len(s) /\ \A j \in 1 .. Len(s) : j < i
      BY <1>1
    <3>. HIDE DEF i
    <3>2. /\ Without(t, i) \in Seq(S) /\ Len(Without(t, i)) = Len(t) - 1
          /\ \A j \in 1 .. Len(t) - 1 : Without(t, i)[j] = IF j < i THEN t[j] ELSE t[j + 1]
      BY <1>1, <3>1, WithoutIs
    <3>3. \A j \in 1 .. Len(s) : Without(t, i)[j] = s[j]
      BY <1>1, <3>1, <3>2
    <3>. QED  BY <3>1, <3>2, <3>3 DEF i
  <2>. QED  BY <2>1, SeqEqual
<1>3. ASSUME NEW i \in 1 .. Len(s) PROVE Without(t, i) = Append(Without(s, i), x)
  <2>. DEFINE v == Without(t, i)
              w == Without(s, i)
              z == Append(w, x)
  <2>1. /\ w \in Seq(S) /\ Len(w) = Len(s) - 1
        /\ \A j \in 1 .. Len(s) - 1 : w[j] = IF j < i THEN s[j] ELSE s[j + 1]
    BY WithoutIs
  <2>2. /\ v \in Seq(S) /\ Len(v) = Len(s)
        /\ \A j \in 1 .. Len(s) : v[j] = IF j < i THEN t[j] ELSE t[j + 1]
    <3>1. i \in 1 .. Len(t) /\ Len(t) - 1 = Len(s)
      BY <1>1
    <3>2. /\ v \in Seq(S) /\ Len(v) = Len(t) - 1
          /\ \A j \in 1 .. Len(t) - 1 : v[j] = IF j < i THEN t[j] ELSE t[j + 1]
      BY <1>1, <3>1, WithoutIs
    <3>. QED  BY <3>1, <3>2
  <2>. HIDE DEF v, w
  <2>3. /\ z \in Seq(S) /\ Len(z) = Len(s) /\ z[Len(s)] = x
        /\ \A j \in 1 .. Len(s) - 1 : z[j] = w[j]
    BY <1>1, <2>1
  <2>. HIDE DEF z
  <2>4. ASSUME NEW j \in 1 .. Len(s) PROVE v[j] = z[j]
    <3>1. CASE j = Len(s)
      BY <1>1, <2>2, <2>3, <3>1
    <3>2. CASE j \in 1 .. Len(s) - 1
      <4>1. j \in 1 .. Len(s) /\ j + 1 \in 1 .. Len(s)
        BY <1>1, <3>2
      <4>. QED  BY <1>1, <2>1, <2>2, <2>3, <3>2, <4>1
    <3>. QED  BY <1>1, <3>1, <3>2
  <2>5. v = z
    BY <2>2, <2>3, <2>4, SeqEqual
  <2>. QED  BY <2>5 DEF v, w, z
<1>. QED  BY <1>2, <1>3 DEF t

\* Removing an entry of a list removes one of what is kept of it, or nothing.
Removal(s, t) == t = s \/ \E i \in DOMAIN s : t = Without(s, i)

\* Keeping one entry more after the removal.
LEMMA KeepRemoval ==
  ASSUME NEW S, NEW default, NEW s \in Seq(S \ {default}), NEW t, Removal(s, t), NEW x \in S
  PROVE  Removal(Keep(s, x, default), Keep(t, x, default))
<1>1. CASE x = default
  BY <1>1 DEF Keep
<1>2. CASE x # default
  <2>1. CASE t = s
    BY <2>1 DEF Removal
  <2>2. CASE t # s
    <3>1. PICK i \in 1 .. Len(s) : t = Without(s, i)
      BY <2>2 DEF Removal
    <3>2. Append(t, x) = Without(Append(s, x), i)
      BY <1>2, <3>1, WithoutAppend
    <3>3. i \in DOMAIN Append(s, x)
      BY <3>1
    <3>. QED  BY <1>2, <3>2, <3>3 DEF Removal, Keep
  <2>. QED  BY <2>1, <2>2
<1>. QED  BY <1>1, <1>2

\* The same of a whole list.
LEMMA KeptRemoval ==
  ASSUME NEW S, NEW default, NEW list \in Seq(S), NEW i \in 1 .. Len(list)
  PROVE  Removal(Kept(list, default), Kept(Without(list, i), default))
<1>. DEFINE less == Without(list, i)
<1>1. /\ less \in Seq(S) /\ Len(less) = Len(list) - 1 /\ Len(list) \in Nat /\ Len(less) \in Nat
      /\ \A j \in 1 .. Len(list) - 1 : less[j] = IF j < i THEN list[j] ELSE list[j + 1]
  BY WithoutIs
<1>. HIDE DEF less
<1>2. PICK f : Keeps(f, list, default, Len(list)) /\ Kept(list, default) = f[Len(list)]
  BY <1>1, KeptAre
<1>3. PICK g : Keeps(g, less, default, Len(less)) /\ Kept(less, default) = g[Len(less)]
  BY <1>1, KeptAre
<1>4. \A n \in 0 .. Len(list) : f[n] \in Seq(S \ {default})
  BY <1>2, KeptSeq
<1>5. f[i - 1] = g[i - 1]
  <2>1. Keeps(f, list, default, i - 1) /\ Keeps(g, less, default, i - 1)
    BY <1>1, <1>2, <1>3 DEF Keeps
  <2>2. i - 1 \in Nat /\ \A n \in 1 .. i - 1 : list[n] = less[n]
    BY <1>1
  <2>. QED  BY <2>1, <2>2, KeptAlike
<1>6. Removal(f[i], g[i - 1])
  <2>1. i \in 0 .. Len(list) /\ i - 1 \in 0 .. Len(list)
    BY <1>1
  <2>2. f[i] = Keep(f[i - 1], list[i], default) /\ list[i] \in S
    BY <1>2 DEF Keeps
  <2>3. f[i - 1] \in Seq(S \ {default})
    BY <1>4, <2>1
  <2>4. CASE list[i] = default
    BY <1>5, <2>2, <2>4 DEF Keep, Removal
  <2>5. CASE list[i] # default
    <3>1. f[i] = Append(f[i - 1], list[i])
      BY <2>2, <2>5 DEF Keep
    <3>2. f[i - 1] = Without(f[i], Len(f[i - 1]) + 1)
      BY <2>2, <2>3, <2>5, <3>1, WithoutAppend
    <3>3. Len(f[i - 1]) + 1 \in DOMAIN f[i]
      BY <2>2, <2>3, <2>5, <3>1
    <3>. QED  BY <1>5, <3>2, <3>3 DEF Removal
  <2>. QED  BY <2>4, <2>5
<1>. DEFINE D == {n \in Nat : i + n <= Len(list) => Removal(f[i + n], g[i + n - 1])}
<1>7. 0 \in D
  BY <1>6
<1>8. ASSUME NEW n \in Nat, n \in D PROVE n + 1 \in D
  <2>. SUFFICES ASSUME i + (n + 1) <= Len(list)
                PROVE  Removal(f[i + (n + 1)], g[i + (n + 1) - 1])
    OBVIOUS
  <2>. DEFINE m == i + n
  <2>1. /\ m \in 1 .. Len(list) - 1 /\ m \in 0 .. Len(list) /\ m \in 1 .. Len(less)
        /\ m + 1 \in 1 .. Len(list) /\ (m + 1) - 1 = m
        /\ i + (n + 1) = m + 1 /\ i + (n + 1) - 1 = m /\ ~(m < i) /\ m <= Len(list)
    BY <1>1
  <2>2. Removal(f[m], g[m - 1])
    BY <1>8, <2>1
  <2>. HIDE DEF m, D
  <2>3. f[m + 1] = Keep(f[m], list[m + 1], default) /\ g[m] = Keep(g[m - 1], list[m + 1], default)
    BY <1>1, <1>2, <1>3, <2>1 DEF Keeps
  <2>4. f[m] \in Seq(S \ {default}) /\ list[m + 1] \in S
    BY <1>4, <2>1
  <2>5. Removal(f[m + 1], g[m])
    BY <2>2, <2>3, <2>4, KeepRemoval
  <2>. QED  BY <2>1, <2>5
<1>9. Len(list) - i \in D
  <2>1. Len(list) - i \in Nat
    BY <1>1
  <2>2. \A n \in Nat : n \in D => n + 1 \in D
    BY <1>8
  <2>. HIDE DEF D
  <2>. QED  BY <1>7, <2>1, <2>2, Induction
<1>10. i + (Len(list) - i) = Len(list) /\ Len(list) - 1 = Len(less)
  BY <1>1
<1>. QED  BY <1>1, <1>2, <1>3, <1>9, <1>10 DEF less

-----------------------------------------------------------------------------
(* Edits of what a record keeps.                                            *)

\* What is kept of a record is one.
LEMMA RealType ==
  ASSUME NEW r \in Stored
  PROVE  /\ Real(r) = [favorites |-> Kept(r.favorites, NoData), notes |-> Kept(r.notes, NoNote)]
         /\ Real(r) \in [favorites : Seq(Article), notes : Seq(NoteText)]
         /\ Real(r) # Nil
<1>1. r.favorites \in Seq(Favorite) /\ r.notes \in Seq(Note) /\ r # Nil
  BY NilAssumption DEF Stored
<1>2. Kept(r.favorites, NoData) \in Seq(Favorite \ {NoData}) /\ Kept(r.notes, NoNote) \in Seq(Note \ {NoNote})
  BY <1>1, KeptType
<1>3. Favorite \ {NoData} \subseteq Article /\ Note \ {NoNote} \subseteq NoteText
  BY DEF Favorite, Note
<1>4. Kept(r.favorites, NoData) \in Seq(Article) /\ Kept(r.notes, NoNote) \in Seq(NoteText)
  BY <1>2, <1>3, SeqMonotonic
<1>5. Article \subseteq Favorite /\ NoteText \subseteq Note
  BY DEF Favorite, Note
<1>6. Kept(r.favorites, NoData) \in Seq(Favorite) /\ Kept(r.notes, NoNote) \in Seq(Note)
  BY <1>4, <1>5, SeqMonotonic
<1>7. Real(r) = [favorites |-> Kept(r.favorites, NoData), notes |-> Kept(r.notes, NoNote)]
  BY <1>1 DEF Real
<1>8. Real(r) \in Stored
  BY <1>6, <1>7 DEF Stored
<1>. QED  BY <1>4, <1>7, <1>8, NilAssumption

\* An object that agrees with a record keeps the same.
LEMMA AgreesReal ==
  ASSUME NEW user \in User, NEW r \in Stored \cup {Nil}, Agrees(user, r)
  PROVE  r \in Stored /\ Real(ToDictionary(user)) = Real(r)
<1>1. r \in Stored /\ r.favorites \in Seq(Favorite) /\ r.notes \in Seq(Note)
  BY DEF Agrees, Stored
<1>2. CASE ToDictionary(user) = r
  BY <1>1, <1>2
<1>3. CASE user = FromDictionary(user.ID, r)
  <2>1. user.favorites = OrDefault(r.favorites, NoData) /\ user.notes = OrDefault(r.notes, NoNote)
    BY <1>3 DEF FromDictionary
  <2>2. Kept(user.favorites, NoData) = Kept(r.favorites, NoData)
    BY <1>1, <2>1, KeptDefault
  <2>3. Kept(user.notes, NoNote) = Kept(r.notes, NoNote)
    BY <1>1, <2>1, KeptDefault
  <2>4. ToDictionary(user) \in Stored
    BY ToDictionaryType
  <2>5. ToDictionary(user).favorites = user.favorites /\ ToDictionary(user).notes = user.notes
    BY DEF ToDictionary
  <2>. QED  BY <1>1, <2>2, <2>3, <2>4, <2>5, RealType
<1>. QED  BY <1>1, <1>2, <1>3 DEF Agrees

\* What an edit of an object that agrees with a record uploads is an edit of the record.
LEMMA UserEdits ==
  ASSUME NEW user \in User, NEW r \in Stored \cup {Nil}, Agrees(user, r)
  PROVE  /\ \A a \in Article : Edited(Real(r), Real(ToDictionary(AppendFavorite(user, a))))
         /\ \A n \in NoteText : Edited(Real(r), Real(ToDictionary(AppendNewNote(user, n))))
         /\ \A i \in 1 .. Len(user.favorites) :
              Edited(Real(r), Real(ToDictionary(RemoveFavoriteAt(user, i))))
<1>. DEFINE f == Kept(user.favorites, NoData)
            m == Kept(user.notes, NoNote)
<1>1. user.favorites \in Seq(Favorite) /\ user.notes \in Seq(Note)
  BY DEF User
<1>2. Real(r) = [favorites |-> f, notes |-> m] /\ Real(r) # Nil
  <2>1. ToDictionary(user) \in Stored
    BY ToDictionaryType
  <2>2. ToDictionary(user).favorites = user.favorites /\ ToDictionary(user).notes = user.notes
    BY DEF ToDictionary
  <2>. QED  BY <2>1, <2>2, AgreesReal, RealType
<1>3. f \in Seq(Favorite \ {NoData})
  BY <1>1, KeptType
<1>4. ASSUME NEW other \in User
      PROVE  /\ Real(ToDictionary(other)) = [favorites |-> Kept(other.favorites, NoData),
                                             notes |-> Kept(other.notes, NoNote)]
             /\ Real(ToDictionary(other)) # Nil
  <2>1. ToDictionary(other) \in Stored
    BY ToDictionaryType
  <2>2. ToDictionary(other).favorites = other.favorites /\ ToDictionary(other).notes = other.notes
    BY DEF ToDictionary
  <2>. QED  BY <2>1, <2>2, RealType
<1>5. ASSUME NEW a \in Article
      PROVE  Edited(Real(r), Real(ToDictionary(AppendFavorite(user, a))))
  <2>. DEFINE other == AppendFavorite(user, a)
  <2>1. /\ other \in User /\ a \in Favorite
        /\ other.favorites = Append(user.favorites, a) /\ other.notes = user.notes
    BY EditTypes DEF AppendFavorite, Favorite
  <2>2. Kept(other.favorites, NoData) = Keep(f, a, NoData)
    BY <1>1, <2>1, KeptAppend
  <2>3. /\ Real(ToDictionary(other)) = [favorites |-> Keep(f, a, NoData), notes |-> m]
        /\ Real(ToDictionary(other)) # Nil
    BY <1>4, <2>1, <2>2
  <2>. DEFINE x == Real(r)
              y == Real(ToDictionary(other))
  <2>. HIDE DEF other, f, m, x, y
  <2>4. x # Nil /\ x = [favorites |-> f, notes |-> m] /\ x.favorites = f /\ x.notes = m
    BY <1>2 DEF x
  <2>5. CASE a = NoData
    <3>1. y = x
      BY <2>3, <2>4, <2>5 DEF y, Keep
    <3>. QED  BY <3>1 DEF Edited, x, y, other
  <2>6. CASE ~(a = NoData)
    <3>1. y # Nil /\ y.favorites = Append(f, a) /\ y.notes = m
      BY <2>3, <2>6 DEF y, Keep
    <3>2. Edited(x, y)
      BY <2>4, <3>1 DEF Edited
    <3>. QED  BY <3>2 DEF x, y, other
  <2>. QED  BY <2>5, <2>6
<1>6. ASSUME NEW n \in NoteText
      PROVE  Edited(Real(r), Real(ToDictionary(AppendNewNote(user, n))))
  <2>. DEFINE other == AppendNewNote(user, n)
  <2>1. /\ other \in User /\ n \in Note
        /\ other.favorites = user.favorites /\ other.notes = Append(user.notes, n)
    BY EditTypes DEF AppendNewNote, Note
  <2>2. Kept(other.notes, NoNote) = Keep(m, n, NoNote)
    BY <1>1, <2>1, KeptAppend
  <2>3. /\ Real(ToDictionary(other)) = [favorites |-> f, notes |-> Keep(m, n, NoNote)]
        /\ Real(ToDictionary(other)) # Nil
    BY <1>4, <2>1, <2>2
  <2>. DEFINE x == Real(r)
              y == Real(ToDictionary(other))
  <2>. HIDE DEF other, f, m, x, y
  <2>4. x # Nil /\ x = [favorites |-> f, notes |-> m] /\ x.favorites = f /\ x.notes = m
    BY <1>2 DEF x
  <2>5. CASE n = NoNote
    <3>1. y = x
      BY <2>3, <2>4, <2>5 DEF y, Keep
    <3>. QED  BY <3>1 DEF Edited, x, y, other
  <2>6. CASE ~(n = NoNote)
    <3>1. y # Nil /\ y.favorites = f /\ y.notes = Append(m, n)
      BY <2>3, <2>6 DEF y, Keep
    <3>2. Edited(x, y)
      BY <2>4, <3>1 DEF Edited
    <3>. QED  BY <3>2 DEF x, y, other
  <2>. QED  BY <2>5, <2>6
<1>7. ASSUME NEW i \in 1 .. Len(user.favorites)
      PROVE  Edited(Real(r), Real(ToDictionary(RemoveFavoriteAt(user, i))))
  <2>. DEFINE other == RemoveFavoriteAt(user, i)
  <2>1. /\ other \in User
        /\ other.favorites = Without(user.favorites, i) /\ other.notes = user.notes
    BY EditTypes DEF RemoveFavoriteAt, Without
  <2>2. Removal(f, Kept(other.favorites, NoData))
    BY <1>1, <2>1, KeptRemoval
  <2>3. /\ Real(ToDictionary(other)) = [favorites |-> Kept(other.favorites, NoData), notes |-> m]
        /\ Real(ToDictionary(other)) # Nil
    BY <1>4, <2>1
  <2>. DEFINE x == Real(r)
              y == Real(ToDictionary(other))
              g == Kept(other.favorites, NoData)
  <2>. HIDE DEF other, f, m, x, y, g
  <2>4. x # Nil /\ x = [favorites |-> f, notes |-> m] /\ x.favorites = f /\ x.notes = m
    BY <1>2 DEF x
  <2>5. y # Nil /\ y = [favorites |-> g, notes |-> m] /\ y.favorites = g /\ y.notes = m
    BY <2>3 DEF y, g
  <2>6. g = f \/ \E j \in DOMAIN f : g = Without(f, j)
    BY <2>2 DEF Removal, g
  <2>7. Edited(x, y)
    BY <2>4, <2>5, <2>6 DEF Edited
  <2>. QED  BY <2>7 DEF x, y, other
<1>. QED  BY <1>5, <1>6, <1>7

\* The record of a new account: over a missing one, or over itself.
LEMMA CreationEdits ==
  ASSUME NEW u \in Uid
  PROVE  /\ ToDictionary(NewUser(u)) = Created /\ Created \in Stored
         /\ Edited(Real(Nil), Real(Created)) /\ Edited(Real(Created), Real(Created))
<1>1. ToDictionary(NewUser(u)) = Created
  BY DEF ToDictionary, NewUser, Created
<1>2. Created \in Stored /\ Created.favorites = <<>> /\ Created.notes = <<>>
  BY DEF Created, Stored
<1>3. Real(Created) = Created /\ Real(Nil) = Nil
  BY <1>2, RealType, KeptEmpty DEF Created, Real
<1>. QED  BY <1>1, <1>2, <1>3 DEF Edited

-----------------------------------------------------------------------------
(* Orderly clients.                                                         *)

\* What is on its way stays on its way.
LEMMA GrowthAttends ==
  ASSUME NEW c \in Client, NEW d \in Client, NEW ls, Grows(c, d, ls)
  PROVE  /\ \A vc, u : HasCopy(c, vc, u) => HasCopy(d, vc, u)
         /\ \A vc, u : HasCall(c, vc, u) => HasCall(d, vc, u)
         /\ \A i \in DOMAIN c.queue : \A l : LaterCall(c, i, l) => LaterCall(d, i, l)
<1>1. /\ c.queue \in Seq(SUBSET Event) /\ d.view \in [Uid -> Stored \cup {Nil}]
      /\ ls \in SUBSET Listener /\ d.queue = Dispatch(c.queue, d.view, ls)
  BY ClientFields DEF Grows
<1>2. \A i \in DOMAIN c.queue : i \in DOMAIN d.queue /\ d.queue[i] = c.queue[i]
  BY <1>1, DispatchKeeps
<1>3. \A vc, u : HasCopy(c, vc, u) => HasCopy(d, vc, u)
  BY DEF Grows, HasCopy
<1>4. \A vc, u : HasCall(c, vc, u) => HasCall(d, vc, u)
  BY <1>2 DEF HasCall
<1>5. \A i \in DOMAIN c.queue : \A l : LaterCall(c, i, l) => LaterCall(d, i, l)
  BY <1>2 DEF LaterCall
<1>. QED  BY <1>3, <1>4, <1>5

\* The new events show what the client shows.
LEMMA GrowthEvents ==
  ASSUME NEW c \in Client, NEW d \in Client, NEW ls, Grows(c, d, ls),
         NEW i \in DOMAIN d.queue, NEW e \in d.queue[i]
  PROVE  \/ i \in DOMAIN c.queue /\ e \in c.queue[i]
         \/ e.snap = d.view[e.listener.uid]
<1>1. /\ c.queue \in Seq(SUBSET Event) /\ d.view \in [Uid -> Stored \cup {Nil}]
      /\ ls \in SUBSET Listener /\ d.queue = Dispatch(c.queue, d.view, ls)
  BY ClientFields DEF Grows
<1>2. /\ \A j \in DOMAIN c.queue : j \in DOMAIN d.queue /\ d.queue[j] = c.queue[j]
      /\ \A j \in DOMAIN d.queue : j \in DOMAIN c.queue \/ d.queue[j] = Events(d.view, ls)
  BY <1>1, DispatchKeeps
<1>3. \A f \in Events(d.view, ls) : f.snap = d.view[f.listener.uid]
  BY EventsOf
<1>. QED  BY <1>2, <1>3

\* What was sent depends on nothing else.
LEMMA SameSent ==
  ASSUME NEW c, NEW d, d.server = c.server, d.view = c.view, d.pending = c.pending,
         SentAreEdits(c)
  PROVE  SentAreEdits(d)
<1>1. PICK h : Replay(c, h)
  BY DEF SentAreEdits
<1>2. Replay(d, h)
  BY <1>1 DEF Replay
<1>. QED  BY <1>2 DEF SentAreEdits

\* A registration or an answer: nothing the client shows changes.
LEMMA QuietGrowth ==
  ASSUME NEW c \in Client, NEW d \in Client, NEW ls, Grows(c, d, ls),
         d.server = c.server, d.view = c.view, d.pending = c.pending,
         NEW users, Orderly(c, users)
  PROVE  Orderly(d, users) /\ \A u : Present(c, u) => Present(d, u)
<1>1. Attended(d, users)
  BY GrowthAttends DEF Attended, Orderly
<1>2. SentAreEdits(d)
  BY SameSent DEF Orderly
<1>3. ASSUME NEW i \in DOMAIN d.queue, NEW e \in d.queue[i]
      PROVE  MissingSound(d, i, e)
  <2>1. CASE i \in DOMAIN c.queue /\ e \in c.queue[i]
    <3>1. MissingSound(c, i, e)
      BY <2>1 DEF Orderly, MissingAreSound
    <3>2. LaterCall(c, i, e.listener) => LaterCall(d, i, e.listener)
      BY <2>1, GrowthAttends
    <3>. QED  BY <3>1, <3>2 DEF MissingSound
  <2>2. CASE e.snap = d.view[e.listener.uid]
    BY <2>2 DEF MissingSound
  <2>. QED  BY <2>1, <2>2, GrowthEvents
<1>4. ASSUME NEW u, Present(c, u) PROVE Present(d, u)
  <2>1. ASSUME NEW i \in DOMAIN d.queue, NEW e \in d.queue[i],
               e.listener.kind = "users", e.listener.uid = u
        PROVE  e.snap # Nil
    <3>1. CASE i \in DOMAIN c.queue /\ e \in c.queue[i]
      BY <1>4, <2>1, <3>1 DEF Present
    <3>2. CASE e.snap = d.view[e.listener.uid]
      BY <1>4, <2>1, <3>2 DEF Present
    <3>. QED  BY <3>1, <3>2, GrowthEvents
  <2>. QED  BY <1>4, <2>1 DEF Present
<1>. QED  BY <1>1, <1>2, <1>3, <1>4 DEF Orderly, MissingAreSound

\* A write more: the records sent go one step further.
LEMMA WriteSent ==
  ASSUME NEW c \in Client, SentAreEdits(c), NEW u \in Uid, NEW r \in Stored,
         Edited(Real(c.view[u]), Real(r))
  PROVE  SentAreEdits(SetValue(c, u, r))
<1>. DEFINE d == SetValue(c, u, r)
            w == [uid |-> u, record |-> r]
            N == Len(c.pending)
<1>1. /\ d.server = c.server /\ d.view = [c.view EXCEPT ![u] = r]
      /\ d.pending = Append(c.pending, w)
  BY DEF SetValue
<1>2. /\ c.pending \in Seq(Write) /\ c.view \in [Uid -> Stored \cup {Nil}]
  BY ClientFields
<1>3. w \in Write /\ w.uid = u /\ w.record = r
  BY DEF Write
<1>. HIDE DEF d, w
<1>4. /\ N \in Nat /\ DOMAIN c.pending = 1 .. N
      /\ Len(d.pending) = N + 1 /\ DOMAIN d.pending = 1 .. N + 1
      /\ d.pending[N + 1] = w /\ \A i \in 1 .. N : d.pending[i] = c.pending[i]
  BY <1>1, <1>2, <1>3
<1>5. PICK h \in [0 .. N -> [Uid -> Stored \cup {Nil}]] :
        /\ h[0] = c.server /\ h[N] = c.view
        /\ \A i \in 1 .. N :
             /\ h[i] = [h[i - 1] EXCEPT ![c.pending[i].uid] = c.pending[i].record]
             /\ Edited(Real(h[i - 1][c.pending[i].uid]), Real(c.pending[i].record))
  BY <1>4 DEF SentAreEdits, Replay
<1>. HIDE DEF N
<1>6. PICK g : g = [i \in 0 .. N + 1 |-> IF i = N + 1 THEN d.view ELSE h[i]]
  OBVIOUS
<1>7. g[N + 1] = d.view /\ \A i \in 0 .. N : g[i] = h[i]
  BY <1>4, <1>6
<1>8. d.view \in [Uid -> Stored \cup {Nil}]
  BY <1>1, <1>2
<1>9. g \in [0 .. N + 1 -> [Uid -> Stored \cup {Nil}]]
  BY <1>4, <1>6, <1>8
<1>10. ASSUME NEW i \in 1 .. N + 1
       PROVE  /\ g[i] = [g[i - 1] EXCEPT ![d.pending[i].uid] = d.pending[i].record]
              /\ Edited(Real(g[i - 1][d.pending[i].uid]), Real(d.pending[i].record))
  <2>1. CASE i = N + 1
    <3>1. i - 1 = N /\ N \in 0 .. N
      BY <1>4, <2>1
    <3>2. g[i] = d.view /\ g[i - 1] = c.view /\ d.pending[i] = w
      BY <1>4, <1>5, <1>7, <2>1, <3>1
    <3>. QED  BY <1>1, <1>3, <3>2
  <2>2. CASE i \in 1 .. N
    <3>1. i \in 0 .. N /\ i - 1 \in 0 .. N
      BY <1>4, <2>2
    <3>2. g[i] = h[i] /\ g[i - 1] = h[i - 1] /\ d.pending[i] = c.pending[i]
      BY <1>4, <1>7, <2>2, <3>1
    <3>. QED  BY <1>5, <2>2, <3>2
  <2>. QED  BY <1>4, <2>1, <2>2
<1>11. g[0] = d.server
  <2>1. 0 \in 0 .. N
    BY <1>4
  <2>. QED  BY <1>1, <1>5, <1>7, <2>1
<1>12. Replay(d, g)
  BY <1>4, <1>7, <1>9, <1>10, <1>11 DEF Replay
<1>13. SentAreEdits(d)
  BY <1>12 DEF SentAreEdits
<1>. QED  BY <1>13 DEF d

\* The oldest write reaches the server: an edit of what it had.
LEMMA AckSent ==
  ASSUME NEW c \in Client, c.pending # <<>>, SentAreEdits(c)
  PROVE  /\ SentAreEdits(Ack(c))
         /\ \E u \in Uid : \E r \in Stored :
              /\ Ack(c).server = [c.server EXCEPT ![u] = r]
              /\ Edited(Real(c.server[u]), Real(r))
<1>. DEFINE d == Ack(c)
            w == Head(c.pending)
            N == Len(c.pending)
<1>1. /\ d.server = [c.server EXCEPT ![w.uid] = w.record] /\ d.view = c.view
      /\ d.pending = Tail(c.pending)
  BY DEF Ack
<1>2. c.pending \in Seq(Write) /\ c.server \in [Uid -> Stored \cup {Nil}]
  BY ClientFields
<1>. HIDE DEF d
<1>3. /\ N \in Nat /\ N > 0 /\ DOMAIN c.pending = 1 .. N /\ w = c.pending[1] /\ w \in Write
      /\ Len(d.pending) = N - 1 /\ DOMAIN d.pending = 1 .. N - 1
      /\ \A i \in 1 .. N - 1 : d.pending[i] = c.pending[i + 1]
  BY <1>1, <1>2
<1>4. PICK h \in [0 .. N -> [Uid -> Stored \cup {Nil}]] :
        /\ h[0] = c.server /\ h[N] = c.view
        /\ \A i \in 1 .. N :
             /\ h[i] = [h[i - 1] EXCEPT ![c.pending[i].uid] = c.pending[i].record]
             /\ Edited(Real(h[i - 1][c.pending[i].uid]), Real(c.pending[i].record))
  BY <1>3 DEF SentAreEdits, Replay
<1>. HIDE DEF N, w
<1>5. h[1] = d.server /\ Edited(Real(c.server[w.uid]), Real(w.record))
  <2>1. 1 \in 1 .. N /\ 1 - 1 = 0
    BY <1>3
  <2>. QED  BY <1>1, <1>3, <1>4, <2>1
<1>6. PICK g : g = [i \in 0 .. N - 1 |-> h[i + 1]]
  OBVIOUS
<1>7. \A i \in 0 .. N - 1 : i + 1 \in 0 .. N /\ g[i] = h[i + 1]
  BY <1>3, <1>6
<1>8. g \in [0 .. N - 1 -> [Uid -> Stored \cup {Nil}]]
  BY <1>6, <1>7
<1>9. g[0] = d.server /\ g[N - 1] = d.view
  <2>1. 0 \in 0 .. N - 1 /\ 0 + 1 = 1 /\ N - 1 \in 0 .. N - 1 /\ (N - 1) + 1 = N
    BY <1>3
  <2>. QED  BY <1>1, <1>4, <1>5, <1>7, <2>1
<1>10. ASSUME NEW i \in 1 .. N - 1
       PROVE  /\ g[i] = [g[i - 1] EXCEPT ![d.pending[i].uid] = d.pending[i].record]
              /\ Edited(Real(g[i - 1][d.pending[i].uid]), Real(d.pending[i].record))
  <2>1. /\ i \in 0 .. N - 1 /\ i - 1 \in 0 .. N - 1 /\ (i - 1) + 1 = i /\ (i + 1) - 1 = i
        /\ i + 1 \in 1 .. N
    BY <1>3
  <2>2. g[i] = h[i + 1] /\ g[i - 1] = h[i] /\ d.pending[i] = c.pending[i + 1]
    BY <1>3, <1>7, <2>1
  <2>3. /\ h[i + 1] = [h[i] EXCEPT ![c.pending[i + 1].uid] = c.pending[i + 1].record]
        /\ Edited(Real(h[i][c.pending[i + 1].uid]), Real(c.pending[i + 1].record))
    BY <1>4, <2>1
  <2>. QED  BY <2>2, <2>3
<1>11. Replay(d, g)
  BY <1>3, <1>8, <1>9, <1>10 DEF Replay
<1>12. w.uid \in Uid /\ w.record \in Stored
  BY <1>3 DEF Write
<1>. QED  BY <1>1, <1>5, <1>11, <1>12 DEF SentAreEdits, d

\* Who is told that the account is missing, when it was just created, is told after
\* that that it is there.
LEMMA WriteMissing ==
  ASSUME NEW c \in Client, ObserversSound(c), EventsSound(c), MissingAreSound(c),
         NEW u \in Uid, NEW r \in Stored, Present(c, u) \/ r = Created
  PROVE  /\ MissingAreSound(SetValue(c, u, r))
         /\ Present(c, u) => Present(SetValue(c, u, r), u)
         /\ c.view[u] = Nil =>
              \A l \in c.listeners : l.kind = "users" /\ l.uid = u /\ AllUsers \in c.synced
                => HasCall(SetValue(c, u, r), l.vc, u)
<1>. DEFINE d  == SetValue(c, u, r)
            ls == Fired(c, u, r)
            b  == Events(d.view, ls)
<1>1. /\ d.view = [c.view EXCEPT ![u] = r] /\ d.listeners = c.listeners
      /\ d.queue = Dispatch(c.queue, d.view, ls)
  BY DEF SetValue
<1>2. /\ d \in Client /\ c.view \in [Uid -> Stored \cup {Nil}]
      /\ d.view \in [Uid -> Stored \cup {Nil}] /\ c.queue \in Seq(SUBSET Event)
      /\ c.listeners \subseteq Listener
  BY SetValueType, ClientFields
<1>3. ls \subseteq c.listeners
  BY DEF Fired
<1>4. d.view[u] = r /\ r # Nil /\ \A v \in Uid : v # u => d.view[v] = c.view[v]
  BY <1>1, <1>2, NilAssumption
<1>5. \A l \in c.listeners :
        l.kind = "users" /\ AllUsers \in c.synced /\ c.view[u] # r => l \in ls
  BY DEF Fired
<1>. HIDE DEF d, ls
<1>6. /\ \A i \in DOMAIN c.queue : i \in DOMAIN d.queue /\ d.queue[i] = c.queue[i] /\ i < Len(c.queue) + 1
      /\ \A i \in DOMAIN d.queue : i \in DOMAIN c.queue \/ d.queue[i] = b
      /\ ls # {} => Len(c.queue) + 1 \in DOMAIN d.queue /\ d.queue[Len(c.queue) + 1] = b
  BY <1>1, <1>2, <1>3, DispatchKeeps
<1>7. /\ \A e \in b : e.listener \in ls /\ e.snap = d.view[e.listener.uid]
      /\ \A l \in ls : \E e \in b : e.listener = l
  BY EventsOf
<1>. HIDE DEF b
<1>8. ASSUME NEW l \in c.listeners, l.kind = "users", l.uid = u, AllUsers \in c.synced,
             c.view[u] = Nil
      PROVE  /\ HasCall(d, l.vc, u)
             /\ \A i \in DOMAIN c.queue : LaterCall(d, i, l)
  <2>1. l \in ls
    BY <1>4, <1>5, <1>8
  <2>2. PICK e \in b : e.listener = l
    BY <1>7, <2>1
  <2>3. e.snap = d.view[u] /\ e.snap # Nil
    BY <1>4, <1>7, <1>8, <2>2
  <2>4. Len(c.queue) + 1 \in DOMAIN d.queue /\ e \in d.queue[Len(c.queue) + 1]
    BY <1>6, <2>1, <2>2
  <2>5. HasCall(d, l.vc, u)
    BY <1>8, <2>2, <2>3, <2>4 DEF HasCall
  <2>6. \A i \in DOMAIN c.queue : LaterCall(d, i, l)
    <3>1. \A i \in DOMAIN c.queue : Len(c.queue) + 1 > i
      BY <1>2, <1>6
    <3>. QED  BY <2>2, <2>3, <2>4, <3>1 DEF LaterCall
  <2>. QED  BY <2>5, <2>6
<1>9. ASSUME NEW i \in DOMAIN d.queue, NEW e \in d.queue[i]
      PROVE  \/ i \in DOMAIN c.queue /\ e \in c.queue[i]
             \/ e.snap = d.view[e.listener.uid]
  BY <1>6, <1>7, <1>9
<1>10. ASSUME NEW i \in DOMAIN d.queue, NEW e \in d.queue[i]
       PROVE  MissingSound(d, i, e)
  <2>1. CASE e.snap = d.view[e.listener.uid]
    BY <2>1 DEF MissingSound
  <2>2. CASE i \in DOMAIN c.queue /\ e \in c.queue[i]
    <3>. DEFINE l == e.listener
    <3>. SUFFICES ASSUME l.kind = "users", e.snap = Nil
                  PROVE  d.view[l.uid] = Nil \/ (d.view[l.uid] = Created /\ LaterCall(d, i, l))
      BY DEF MissingSound
    <3>1. c.view[l.uid] = Nil \/ (c.view[l.uid] = Created /\ LaterCall(c, i, l))
      BY <2>2 DEF MissingAreSound, MissingSound
    <3>2. LaterCall(c, i, l) => LaterCall(d, i, l)
      BY <1>6 DEF LaterCall
    <3>3. l \in c.listeners /\ AllUsers \in c.synced
      BY <2>2 DEF EventsSound, EventSound
    <3>4. l.uid \in Uid
      BY <1>2, <3>3 DEF Listener
    <3>5. CASE l.uid # u
      BY <1>4, <3>1, <3>2, <3>4, <3>5
    <3>6. CASE l.uid = u
      <4>1. r = Created
        BY <2>2, <3>6 DEF Present
      <4>2. CASE c.view[u] = Nil
        BY <1>4, <1>8, <2>2, <3>3, <3>6, <4>1, <4>2
      <4>3. CASE c.view[u] # Nil
        BY <1>4, <3>1, <3>2, <3>6, <4>1, <4>3
      <4>. QED  BY <4>2, <4>3
    <3>. QED  BY <3>5, <3>6
  <2>. QED  BY <1>9, <2>1, <2>2
<1>11. ASSUME Present(c, u) PROVE Present(d, u)
  <2>1. ASSUME NEW i \in DOMAIN d.queue, NEW e \in d.queue[i],
               e.listener.kind = "users", e.listener.uid = u
        PROVE  e.snap # Nil
    BY <1>4, <1>9, <1>11, <2>1 DEF Present
  <2>. QED  BY <1>4, <2>1 DEF Present
<1>. QED  BY <1>8, <1>10, <1>11 DEF MissingAreSound, d

\* The upload of an edit.
LEMMA WriteOrderly ==
  ASSUME NEW c \in Client, ObserversSound(c), EventsSound(c),
         NEW u \in Uid, NEW r \in Stored, Present(c, u) \/ r = Created,
         Edited(Real(c.view[u]), Real(r)),
         NEW users, Orderly(c, users), NEW later,
         \A vc \in Controller \ {"Search"} :
           later[vc] # Nil => \/ users[vc] # Nil /\ users[vc].ID = later[vc].ID
                              \/ HasCopy(c, vc, later[vc].ID)
                              \/ HasCall(SetValue(c, u, r), vc, later[vc].ID)
  PROVE  Orderly(SetValue(c, u, r), later)
<1>1. PICK ls : Grows(c, SetValue(c, u, r), ls)
  BY SetValueGrows
<1>2. SetValue(c, u, r) \in Client
  BY SetValueType
<1>3. Attended(SetValue(c, u, r), later)
  BY <1>1, <1>2, GrowthAttends DEF Attended, Orderly
<1>. QED  BY <1>3, WriteSent, WriteMissing DEF Orderly

\* The main thread takes a callback: only that call is no longer on its way.
LEMMA TakeOrderly ==
  ASSUME NEW c \in Client, c.queue # <<>>, NEW e \in Due(c), NEW d, d = Take(c, e),
         ObserversSound(c), EventsSound(c), MissingAreSound(c), SentAreEdits(c)
  PROVE  /\ MissingAreSound(d) /\ SentAreEdits(d)
         /\ \A vc, u : HasCopy(c, vc, u) => HasCopy(d, vc, u)
         /\ \A vc, u : HasCall(c, vc, u) =>
              \/ HasCall(d, vc, u)
              \/ /\ e.listener.kind = "users" /\ e.snap # Nil
                 /\ e.listener.vc = vc /\ e.listener.uid = u
         /\ e.listener.kind = "users" /\ e.snap = Nil =>
              \/ d.view[e.listener.uid] = Nil
              \/ /\ d.view[e.listener.uid] = Created
                 /\ HasCall(d, e.listener.vc, e.listener.uid)
<1>1. PICK k \in {0, 1} :
        /\ \A i \in DOMAIN d.queue :
             i + k \in DOMAIN c.queue /\ d.queue[i] \subseteq c.queue[i + k]
        /\ \A j \in DOMAIN c.queue : \A f \in c.queue[j] :
             j > 1 \/ f # e => j - k \in DOMAIN d.queue /\ f \in d.queue[j - k]
  BY TakeQueue
<1>2. /\ d.view = c.view
      /\ \A l \in c.listeners : l.kind # "once" => l \in d.listeners
  BY TakeFacts
<1>3. d \in Client
  BY TakeType
<1>4. DOMAIN d.queue \subseteq Nat \ {0} /\ DOMAIN c.queue \subseteq Nat \ {0}
  BY <1>3, ClientFields
<1>5. ASSUME NEW i \in DOMAIN d.queue, NEW f \in d.queue[i]
      PROVE  MissingSound(d, i, f)
  <2>1. i + k \in DOMAIN c.queue /\ f \in c.queue[i + k]
    BY <1>1, <1>5
  <2>2. MissingSound(c, i + k, f)
    BY <2>1 DEF MissingAreSound
  <2>3. ASSUME LaterCall(c, i + k, f.listener) PROVE LaterCall(d, i, f.listener)
    <3>1. PICK j \in DOMAIN c.queue :
            j > i + k /\ \E g \in c.queue[j] : g.listener = f.listener /\ g.snap # Nil
      BY <2>3 DEF LaterCall
    <3>2. i \in Nat /\ i > 0 /\ j \in Nat
      BY <1>4
    <3>3. j > 1 /\ j - k > i
      BY <3>1, <3>2
    <3>. QED  BY <1>1, <3>1, <3>3 DEF LaterCall
  <2>. QED  BY <1>2, <2>2, <2>3 DEF MissingSound
<1>6. SentAreEdits(d)
  <2>1. d.server = c.server /\ d.view = c.view /\ d.pending = c.pending
    BY DEF Take
  <2>. QED  BY <2>1, SameSent
<1>7. \A vc, u : HasCopy(c, vc, u) => HasCopy(d, vc, u)
  BY <1>2 DEF HasCopy
<1>8. ASSUME NEW vc, NEW u, HasCall(c, vc, u)
      PROVE  \/ HasCall(d, vc, u)
             \/ /\ e.listener.kind = "users" /\ e.snap # Nil
                /\ e.listener.vc = vc /\ e.listener.uid = u
  <2>1. PICK j \in DOMAIN c.queue : \E f \in c.queue[j] :
          /\ f.listener.kind = "users" /\ f.listener.vc = vc /\ f.listener.uid = u
          /\ f.snap # Nil
    BY <1>8 DEF HasCall
  <2>. QED  BY <1>1, <2>1 DEF HasCall
<1>9. ASSUME e.listener.kind = "users", e.snap = Nil, d.view[e.listener.uid] # Nil
      PROVE  /\ d.view[e.listener.uid] = Created
             /\ HasCall(d, e.listener.vc, e.listener.uid)
  <2>1. 1 \in DOMAIN c.queue /\ e \in c.queue[1]
    BY ClientFields DEF Due
  <2>2. MissingSound(c, 1, e)
    BY <2>1 DEF MissingAreSound
  <2>3. c.view[e.listener.uid] = Created /\ LaterCall(c, 1, e.listener)
    BY <1>2, <1>9, <2>2 DEF MissingSound
  <2>4. PICK j \in DOMAIN c.queue :
          j > 1 /\ \E f \in c.queue[j] : f.listener = e.listener /\ f.snap # Nil
    BY <2>3 DEF LaterCall
  <2>. QED  BY <1>1, <1>2, <1>9, <2>3, <2>4 DEF HasCall
<1>. QED  BY <1>5, <1>6, <1>7, <1>8, <1>9 DEF MissingAreSound

-----------------------------------------------------------------------------
(* Registrations, launches and answers.                                     *)

\* An observer more, and the values it is told at once.
LEMMA ObserveOrderly ==
  ASSUME NEW c \in Client, NEW vc \in Controller, NEW u \in Uid, NEW kind \in Kind,
         kind \in {"users", "copy"} => vc # "Search",
         kind = "copy" => Checked(c) /\ c.view[u] # Nil,
         NEW users, Orderly(c, users)
  PROVE  Orderly(Observe(c, vc, u, kind), users)
<1>1. PICK ls : Grows(c, Observe(c, vc, u, kind), ls)
  BY ObserveGrows
<1>2. Observe(c, vc, u, kind) \in Client
  BY ObserveType
<1>3. /\ Observe(c, vc, u, kind).server = c.server /\ Observe(c, vc, u, kind).view = c.view
      /\ Observe(c, vc, u, kind).pending = c.pending
  BY DEF Observe
<1>. QED  BY <1>1, <1>2, <1>3, QuietGrowth

\* The answer of the server to a path.
LEMMA AnswerOrderly ==
  ASSUME NEW c \in Client, NEW p \in Unanswered(c), NEW users, Orderly(c, users)
  PROVE  Orderly(Answer(c, p), users) /\ \A u : Present(c, u) => Present(Answer(c, p), u)
<1>1. PICK ls : Grows(c, Answer(c, p), ls)
  BY AnswerGrows
<1>2. /\ Answer(c, p).server = c.server /\ Answer(c, p).view = c.view
      /\ Answer(c, p).pending = c.pending
  BY DEF Answer
<1>. QED  BY <1>1, <1>2, AnswerType, QuietGrowth

\* What the screens register.
LEMMA RegistrationOrderly ==
  ASSUME NEW c \in Client, NEW u \in Uid \cup {Nil}, NEW users, Orderly(c, users)
  PROVE  /\ \A vc \in Controller \ {"Search"} : Orderly(CheckUser(c, vc, u), users)
         /\ \A vc \in Controller : Orderly(GetRows(c, vc, u), users)
         /\ Orderly(WhoIsLoggedIn(c, u), users)
<1>1. "users" \in Kind /\ "rows" \in Kind /\ "once" \in Kind /\ "Search" \in Controller
  BY DEF Kind, Controller
<1>2. ASSUME NEW vc \in Controller \ {"Search"}, u \in Uid
      PROVE  Orderly(Observe(c, vc, u, "users"), users)
  BY <1>1, <1>2, ObserveOrderly
<1>3. ASSUME NEW vc \in Controller, u \in Uid
      PROVE  Orderly(Observe(c, vc, u, "rows"), users) /\ Orderly(Observe(c, vc, u, "once"), users)
  BY <1>1, <1>3, ObserveOrderly
<1>. QED  BY <1>1, <1>2, <1>3 DEF CheckUser, GetRows, WhoIsLoggedIn

\* A screen is loaded and appears.
LEMMA AppearanceOrderly ==
  ASSUME NEW c \in Client, NEW t \in Controller, NEW u \in Uid \cup {Nil},
         NEW users, Orderly(c, users)
  PROVE  Orderly(ViewDidLoad(c, t, u), users) /\ Orderly(ViewDidAppear(c, t, u), users)
<1>1. "Notes" \in Controller \ {"Search"} /\ "Favorites" \in Controller \ {"Search"}
      /\ "Home" \in Controller \ {"Search"}
  BY DEF Controller
<1>2. Orderly(CheckUser(c, "Notes", u), users) /\ CheckUser(c, "Notes", u) \in Client
  BY <1>1, RegistrationOrderly, RegistrationTypes
<1>3. Orderly(GetRows(CheckUser(c, "Notes", u), "Notes", u), users)
  BY <1>1, <1>2, RegistrationOrderly
<1>. QED  BY <1>1, <1>3, RegistrationOrderly DEF ViewDidLoad, ViewDidAppear, Controller

\* A new launch: nobody has an object and nothing was sent.
LEMMA LaunchedOrderly ==
  ASSUME NEW server \in [Uid -> Stored \cup {Nil}], NEW u \in Uid \cup {Nil},
         NEW users, \A vc \in Controller : users[vc] = Nil
  PROVE  Orderly(Launched(server, u), users)
<1>. DEFINE c == FreshClient(server)
<1>1. /\ c \in Client /\ c.server = server /\ c.view = server /\ c.pending = <<>> /\ c.queue = <<>>
  BY FreshClientType DEF FreshClient
<1>. HIDE DEF c
<1>2. PICK h : h = [i \in 0 .. 0 |-> server]
  OBVIOUS
<1>3. Replay(c, h)
  <2>1. Len(c.pending) = 0 /\ DOMAIN c.pending = {}
    BY <1>1
  <2>2. h \in [0 .. 0 -> [Uid -> Stored \cup {Nil}]] /\ h[0] = server
    BY <1>2
  <2>. QED  BY <1>1, <2>1, <2>2 DEF Replay
<1>4. Orderly(c, users)
  BY <1>1, <1>3 DEF Orderly, Attended, MissingAreSound, SentAreEdits
<1>5. "Home" \in Controller
  BY DEF Controller
<1>. QED  BY <1>1, <1>4, <1>5, AppearanceOrderly DEF Launched, c

-----------------------------------------------------------------------------
(* The steps of the app, when the user lets the screen settle.              *)

\* With no callback waiting, a screen with an object has what the client shows.
LEMMA SettledAgrees ==
  ASSUME NEW c \in Client, c.queue = <<>>, NEW users, NEW lists, Sound(c, users, lists),
         Orderly(c, users), NEW vc \in Controller \ {"Search"}, users[vc] # Nil
  PROVE  Agrees(users[vc], c.view[users[vc].ID]) /\ Present(c, users[vc].ID)
<1>1. PICK l \in c.listeners : l.kind = "copy" /\ l.vc = vc /\ l.uid = users[vc].ID
  BY DEF Orderly, Attended, HasCopy, HasCall
<1>2. ~Waiting(c, l.vc, l.uid)
  BY DEF Waiting
<1>3. Agrees(users[vc], c.view[users[vc].ID])
  BY <1>1, <1>2 DEF Sound, Accord
<1>. QED  BY <1>3 DEF Agrees, Present

\* The upload of an edited object by the screen it belongs to.
LEMMA UploadOrderly ==
  ASSUME NEW c \in Client, NEW users \in [Controller -> User \cup {Nil}], NEW lists,
         Sound(c, users, lists), Orderly(c, users),
         NEW vc \in Controller \ {"Search"}, users[vc] # Nil,
         Present(c, users[vc].ID), NEW user \in User, user.ID = users[vc].ID,
         Edited(Real(c.view[user.ID]), Real(ToDictionary(user))),
         NEW later, later = [users EXCEPT ![vc] = user]
  PROVE  /\ Orderly(SetValue(c, user.ID, ToDictionary(user)), later)
         /\ Present(SetValue(c, user.ID, ToDictionary(user)), user.ID)
         /\ Agrees(user, SetValue(c, user.ID, ToDictionary(user)).view[user.ID])
<1>1. ToDictionary(user) \in Stored /\ user.ID \in Uid
  BY ToDictionaryType DEF User
<1>2. \A k \in Controller \ {"Search"} :
        later[k] # Nil => users[k] # Nil /\ users[k].ID = later[k].ID
  OBVIOUS
<1>3. Orderly(SetValue(c, user.ID, ToDictionary(user)), later)
  <2>1. ObserversSound(c) /\ EventsSound(c)
    BY DEF Sound
  <2>2. Present(c, user.ID) /\ Edited(Real(c.view[user.ID]), Real(ToDictionary(user)))
    OBVIOUS
  <2>. DEFINE u == user.ID
              r == ToDictionary(user)
  <2>3. u \in Uid /\ r \in Stored /\ Present(c, u) /\ Edited(Real(c.view[u]), Real(r))
    BY <1>1, <2>2
  <2>. HIDE DEF u, r
  <2>4. \A k \in Controller \ {"Search"} :
          later[k] # Nil => \/ users[k] # Nil /\ users[k].ID = later[k].ID
                            \/ HasCopy(c, k, later[k].ID)
                            \/ HasCall(SetValue(c, u, r), k, later[k].ID)
    BY <1>2
  <2>5. Orderly(SetValue(c, u, r), later)
    BY <2>1, <2>3, <2>4, WriteOrderly, Zenon
  <2>. QED  BY <2>5 DEF u, r
<1>4. Present(SetValue(c, user.ID, ToDictionary(user)), user.ID)
  BY <1>1, WriteMissing DEF Sound, Orderly
<1>5. SetValue(c, user.ID, ToDictionary(user)).view[user.ID] = ToDictionary(user)
  BY <1>1, ClientFields DEF SetValue
<1>. QED  BY <1>1, <1>3, <1>4, <1>5, NilAssumption DEF Agrees

\* No favourite is being removed: the part of the invariant that speaks of the client.
LEMMA IdleShelf ==
  ASSUME tab' # "Search", Orderly(client', loggedUser'), loop' = NoLoop
  PROVE  ShelfInv'
BY DEF ShelfInv, LoopSound

\* Tabs, logins, logouts and the filter.
LEMMA SessionShelf ==
  ASSUME "Search" \notin Tabs, TypeOK, ShelfInv, Session
  PROVE  ShelfInv'
<1>0. /\ client \in Client /\ tab \in Controller /\ currentUser \in Uid \cup {Nil}
      /\ loggedUser \in [Controller -> User \cup {Nil}] /\ Orderly(client, loggedUser)
      /\ tab # "Search"
  BY DEF TypeOK, ShelfInv
<1>00. loop' = NoLoop
  BY DEF Session, SelectTab, SignIn, LogOut, LogIn, CancelLogin, OpenFilter, CloseFilter,
         Dismiss, ForceCheck, UserActsOn, UserActs, MainIdle
<1>. SUFFICES tab' # "Search" /\ Orderly(client', loggedUser')
  BY <1>00, IdleShelf
<1>1. ASSUME NEW u \in Uid \cup {Nil}, Dismiss(u)
      PROVE  tab' # "Search" /\ Orderly(client', loggedUser')
  BY <1>0, <1>1, AppearanceOrderly DEF Dismiss, screen
<1>2. ASSUME NEW t \in Tabs, SelectTab(t)
      PROVE  tab' # "Search" /\ Orderly(client', loggedUser')
  <2>. DEFINE c == IF t \in loadedTabs THEN client ELSE ViewDidLoad(client, t, currentUser)
  <2>1. t \in Controller
    BY AppAssumption
  <2>2. c \in Client /\ Orderly(c, loggedUser)
    BY <1>0, <2>1, AppearanceTypes, AppearanceOrderly
  <2>3. /\ client' = ViewDidAppear(c, t, currentUser)
        /\ loggedUser' = loggedUser /\ tab' = t
    BY <1>2 DEF SelectTab, screen
  <2>. HIDE DEF c
  <2>. QED  BY <1>0, <1>2, <2>1, <2>2, <2>3, AppearanceOrderly
<1>3. ASSUME NEW u \in Uid, SignIn(u) PROVE tab' # "Search" /\ Orderly(client', loggedUser')
  BY <1>1, <1>3 DEF SignIn
<1>4. CASE LogOut
  <2>1. client' = client /\ loggedUser' = [loggedUser EXCEPT !["Home"] = Nil] /\ tab' = tab
    BY <1>4 DEF LogOut
  <2>2. \A vc \in Controller \ {"Search"} : loggedUser'[vc] # Nil => loggedUser'[vc] = loggedUser[vc]
    BY <1>0, <2>1
  <2>3. Attended(client', loggedUser')
    BY <1>0, <2>1, <2>2 DEF Orderly, Attended
  <2>. QED  BY <1>0, <2>1, <2>3 DEF Orderly
<1>5. CASE LogIn
  <2>1. "Home" \in Controller \ {"Search"}
    BY DEF Controller
  <2>. QED  BY <1>0, <1>5, <2>1, RegistrationOrderly DEF LogIn, ForceCheck, screen
<1>6. CASE CancelLogin \/ CloseFilter
  BY <1>0, <1>1, <1>6 DEF CancelLogin, CloseFilter
<1>7. CASE OpenFilter
  BY <1>0, <1>7 DEF OpenFilter, screen
<1>. QED  BY <1>2, <1>3, <1>4, <1>5, <1>6, <1>7 DEF Session

\* The user's edits.
LEMMA EditsShelf ==
  ASSUME MaxBacklog = 0, TypeOK, CopyInv, ShelfInv, Edits
  PROVE  ShelfInv'
<1>0. /\ client \in Client /\ currentUser \in Uid \cup {Nil} /\ tab # "Search"
      /\ loggedUser \in [Controller -> User \cup {Nil}]
      /\ Sound(client, loggedUser, rows) /\ Orderly(client, loggedUser)
      /\ "Home" \in Controller \ {"Search"} /\ "Favorites" \in Controller \ {"Search"}
      /\ "Notes" \in Controller \ {"Search"}
  BY DEF TypeOK, CopyInv, ShelfInv, Controller
<1>1. ASSUME NEW vc \in Controller \ {"Search"}, UserActsOn(vc), loggedUser[vc] # Nil
      PROVE  /\ loggedUser[vc] \in User
             /\ Agrees(loggedUser[vc], client.view[loggedUser[vc].ID])
             /\ Present(client, loggedUser[vc].ID)
             /\ client.view[loggedUser[vc].ID] \in Stored \cup {Nil}
  <2>1. client.queue \in Seq(SUBSET Event) /\ client.view \in [Uid -> Stored \cup {Nil}]
    BY <1>0, ClientFields
  <2>2. client.queue = <<>>
    BY <1>1, <2>1 DEF UserActsOn, UserActs
  <2>3. loggedUser[vc] \in User
    BY <1>0, <1>1
  <2>. QED  BY <1>0, <1>1, <2>1, <2>2, <2>3, SettledAgrees DEF User
<1>2. ASSUME NEW vc \in Controller \ {"Search"}, UserActsOn(vc), loggedUser[vc] # Nil,
             NEW user \in User, user.ID = loggedUser[vc].ID,
             Edited(Real(client.view[user.ID]), Real(ToDictionary(user))),
             loggedUser' = [loggedUser EXCEPT ![vc] = user], Upload(loggedUser'[vc]),
             tab' = tab, loop' = loop
      PROVE  ShelfInv'
  <2>1. client' = SetValue(client, user.ID, ToDictionary(user))
    BY <1>0, <1>2 DEF Upload
  <2>2. Orderly(client', loggedUser')
    BY <1>0, <1>1, <1>2, <2>1, UploadOrderly
  <2>. QED  BY <1>0, <1>2, <2>2, IdleShelf DEF UserActsOn, UserActs, MainIdle
<1>3. ASSUME NEW vc \in Feeds, NEW a \in Article, AddToFavorites(vc, a) PROVE ShelfInv'
  <2>. DEFINE user == AppendFavorite(loggedUser[vc], a)
  <2>1. /\ vc \in Controller \ {"Search"} /\ UserActsOn(vc) /\ loggedUser[vc] # Nil
        /\ loggedUser' = [loggedUser EXCEPT ![vc] = user] /\ Upload(loggedUser'[vc])
        /\ tab' = tab /\ loop' = loop
    BY <1>0, <1>3 DEF AddToFavorites, UserEditsOn, UserActsOn, Feeds, session
  <2>2. /\ user \in User /\ user.ID = loggedUser[vc].ID
        /\ Edited(Real(client.view[user.ID]), Real(ToDictionary(user)))
    BY <1>1, <2>1, EditTypes, UserEdits DEF AppendFavorite
  <2>. HIDE DEF user
  <2>. QED  BY <1>2, <2>1, <2>2
<1>4. ASSUME NEW vc \in Feeds, NEW a \in Article, Unfavorite(vc, a) PROVE ShelfInv'
  <2>1. /\ vc \in Controller \ {"Search"} /\ UserActsOn(vc) /\ loggedUser[vc] # Nil
        /\ client' = client /\ loggedUser' = loggedUser /\ tab' = tab /\ loop'.vc = vc
    BY <1>0, <1>4 DEF Unfavorite, UserEditsOn, UserActsOn, Feeds, session
  <2>2. /\ Agrees(loggedUser[vc], client.view[loggedUser[vc].ID])
        /\ Present(client, loggedUser[vc].ID)
    BY <1>1, <2>1
  <2>. QED  BY <1>0, <2>1, <2>2 DEF ShelfInv, LoopSound
<1>5. ASSUME NEW i \in DOMAIN rows["Favorites"], RemoveFavorite(i) PROVE ShelfInv'
  <2>1. /\ UserActsOn("Favorites") /\ loggedUser["Favorites"] # Nil /\ tab' = tab /\ loop' = loop
    BY <1>5 DEF RemoveFavorite, UserEditsOn, session
  <2>2. PICK position \in 1 .. i :
          IF position <= Len(loggedUser["Favorites"].favorites)
          THEN /\ loggedUser' = [loggedUser EXCEPT !["Favorites"] =
                                   RemoveFavoriteAt(@, position)]
               /\ Upload(loggedUser'["Favorites"])
          ELSE UNCHANGED <<loggedUser, client>>
    BY <1>5 DEF RemoveFavorite
  <2>3. CASE position <= Len(loggedUser["Favorites"].favorites)
    <3>. DEFINE user == RemoveFavoriteAt(loggedUser["Favorites"], position)
    <3>1. rows["Favorites"] \in Seq(Row)
      BY DEF TypeOK, Lists
    <3>2. position \in 1 .. Len(loggedUser["Favorites"].favorites)
      BY <2>3, <3>1
    <3>3. /\ user \in User /\ user.ID = loggedUser["Favorites"].ID
          /\ Edited(Real(client.view[user.ID]), Real(ToDictionary(user)))
      BY <1>0, <1>1, <2>1, <3>2, EditTypes, UserEdits DEF RemoveFavoriteAt
    <3>4. loggedUser' = [loggedUser EXCEPT !["Favorites"] = user] /\ Upload(loggedUser'["Favorites"])
      BY <2>2, <2>3
    <3>. HIDE DEF user
    <3>. QED  BY <1>0, <1>2, <2>1, <3>3, <3>4
  <2>4. CASE ~(position <= Len(loggedUser["Favorites"].favorites))
    BY <1>0, <2>1, <2>2, <2>4, IdleShelf DEF UserActsOn, UserActs, MainIdle
  <2>. QED  BY <2>3, <2>4
<1>6. ASSUME NEW n \in NoteText, SaveMessage(n) PROVE ShelfInv'
  <2>. DEFINE user == AppendNewNote(loggedUser["Notes"], n)
  <2>1. /\ UserActsOn("Notes") /\ loggedUser["Notes"] # Nil
        /\ loggedUser' = [loggedUser EXCEPT !["Notes"] = user] /\ Upload(loggedUser'["Notes"])
        /\ tab' = tab /\ loop' = loop
    BY <1>6 DEF SaveMessage, UserEditsOn, session
  <2>2. /\ user \in User /\ user.ID = loggedUser["Notes"].ID
        /\ Edited(Real(client.view[user.ID]), Real(ToDictionary(user)))
    BY <1>0, <1>1, <2>1, EditTypes, UserEdits DEF AppendNewNote
  <2>. HIDE DEF user
  <2>. QED  BY <1>0, <1>2, <2>1, <2>2
<1>7. CASE FavoriteAsksLogin \/ NoteAsksLogin
  <2>1. Orderly(client', loggedUser') /\ tab' = tab /\ loop' = NoLoop
    BY <1>0, <1>7, RegistrationOrderly
       DEF FavoriteAsksLogin, NoteAsksLogin, ForceCheck, screen, UserActsOn, UserActs, MainIdle
  <2>. QED  BY <1>0, <2>1, IdleShelf
<1>8. CASE RefreshFavorites
  <2>1. Orderly(client', loggedUser') /\ tab' = tab /\ loop' = NoLoop
    BY <1>0, <1>8, RegistrationOrderly
       DEF RefreshFavorites, screen, session, UserActsOn, UserActs, MainIdle
  <2>. QED  BY <1>0, <2>1, IdleShelf
<1>9. ~\E a \in Article : FavoriteCreates(a)
  BY <1>0 DEF FavoriteCreates, UserEditsOn, UserActsOn
<1>. QED  BY <1>3, <1>4, <1>5, <1>6, <1>7, <1>8, <1>9 DEF Edits

\* A callback: the value of users/ makes its screen observe the account, or creates the
\* account when it is missing; the value of the account goes to a screen that observes it.
LEMMA DeliverShelf ==
  ASSUME TypeOK, CopyInv, ShelfInv, Deliver
  PROVE  ShelfInv'
<1>0. /\ client \in Client /\ client.queue # <<>> /\ currentUser \in Uid \cup {Nil}
      /\ loggedUser \in [Controller -> User \cup {Nil}] /\ Orderly(client, loggedUser)
      /\ ObserversSound(client) /\ EventsSound(client) /\ "Search" \in Controller
  BY DEF TypeOK, CopyInv, Sound, Deliver, ShelfInv, Controller
<1>. SUFFICES Orderly(client', loggedUser')
  BY IdleShelf DEF Deliver, MainIdle, session, ShelfInv
<1>1. PICK e \in Due(client) :
        LET c == Take(client, e)
            l == e.listener
        IN CASE l.kind = "users" -> UsersCallback(c, l.vc, l.uid, e.snap)
             [] l.kind = "copy"  -> CopyCallback(c, l.vc, l.uid, e.snap)
             [] l.kind = "rows"  -> RowsCallback(c, l.vc, l.uid, e.snap)
             [] l.kind = "once"  -> OnceCallback(c, l, l.uid, e.snap)
  BY DEF Deliver
<1> DEFINE c == Take(client, e)
           l == e.listener
<1>2. e \in Event
  BY <1>0, DueType
<1>3. l \in Listener /\ e.snap \in Stored \cup {Nil}
  BY <1>2 DEF Event
<1>4. l.vc \in Controller /\ l.uid \in Uid /\ l.kind \in Kind
  BY <1>3 DEF Listener
<1>5. c \in Client
  BY <1>0, TakeType
<1>6. EventSound(client, 1, e)
  <2>1. 1 \in DOMAIN client.queue /\ e \in client.queue[1]
    BY <1>0, ClientFields DEF Due
  <2>. QED  BY <1>0, <2>1 DEF EventsSound
<1>7. /\ c.view = client.view
      /\ \A k \in client.listeners : k.kind # "once" => k \in c.listeners
      /\ (\E k \in client.listeners : k.kind = "users") => c.synced = client.synced
      /\ Checked(client) => Checked(c)
  BY <1>0, TakeFacts
<1>8. ObserversSound(c) /\ EventsSound(c)
  BY <1>0, TakeEventsSound
<1>9. /\ MissingAreSound(c) /\ SentAreEdits(c)
      /\ \A vc, u : HasCopy(client, vc, u) => HasCopy(c, vc, u)
      /\ \A vc, u : HasCall(client, vc, u) =>
           HasCall(c, vc, u) \/ (l.kind = "users" /\ e.snap # Nil /\ l.vc = vc /\ l.uid = u)
      /\ l.kind = "users" /\ e.snap = Nil =>
           c.view[l.uid] = Nil \/ (c.view[l.uid] = Created /\ HasCall(c, l.vc, l.uid))
  BY <1>0, TakeOrderly DEF Orderly
<1> HIDE DEF c
<1>10. l.kind # "users" \/ e.snap = Nil => Attended(c, loggedUser)
  BY <1>0, <1>9 DEF Orderly, Attended
<1>11. ASSUME NEW d \in Client, Orderly(d, loggedUser'), NEW user, Completion(d, l.vc, user)
       PROVE  Orderly(client', loggedUser')
  BY <1>0, <1>4, <1>11, RegistrationOrderly DEF Completion
<1>12. CASE l.kind = "users"
  <2>1. UsersCallback(c, l.vc, l.uid, e.snap)
    BY <1>1, <1>12 DEF c
  <2>2. /\ l \in client.listeners /\ AllUsers \in client.synced
        /\ e.snap # Nil => client.view[l.uid] # Nil
    BY <1>6, <1>12 DEF EventSound
  <2>3. /\ Checked(c) /\ l.vc # "Search" /\ l \in c.listeners /\ AllUsers \in c.synced
    BY <1>0, <1>7, <1>12, <2>2 DEF Checked, ObserversSound
  <2>4. CASE e.snap # Nil
    <3>. DEFINE d == Observe(c, l.vc, l.uid, "copy")
                nobody == [vc \in Controller |-> Nil]
    <3>1. "copy" \in Kind
      BY DEF Kind
    <3>2. c.view[l.uid] # Nil
      BY <1>7, <2>2, <2>4
    <3>3. PICK ls : Grows(c, d, ls)
      BY <1>4, <1>5, <2>3, <3>1, <3>2, ObserveGrows
    <3>4. d \in Client
      BY <1>4, <1>5, <3>1, ObserveType
    <3>5. HasCopy(d, l.vc, l.uid)
      <4>. DEFINE k == Slot(c, l.vc, l.uid, "copy")
      <4>1. k.kind = "copy" /\ k.vc = l.vc /\ k.uid = l.uid
        BY DEF Slot
      <4>2. k \in d.listeners
        BY DEF Observe
      <4>. HIDE DEF d, k
      <4>. QED  BY <4>1, <4>2 DEF HasCopy
    <3>6. client' = d /\ loggedUser' = loggedUser
      BY <2>1, <2>4 DEF UsersCallback
    <3>7. Orderly(d, nobody)
      <4>1. Orderly(c, nobody)
        BY <1>9 DEF Orderly, Attended
      <4>. HIDE DEF nobody
      <4>. QED  BY <1>4, <1>5, <2>3, <3>1, <3>2, <4>1, ObserveOrderly
    <3>. HIDE DEF d, nobody
    <3>8. ASSUME NEW vc \in Controller \ {"Search"}, loggedUser[vc] # Nil
          PROVE  HasCopy(d, vc, loggedUser[vc].ID) \/ HasCall(d, vc, loggedUser[vc].ID)
      <4>1. HasCopy(client, vc, loggedUser[vc].ID) \/ HasCall(client, vc, loggedUser[vc].ID)
        BY <1>0, <3>8 DEF Orderly, Attended
      <4>2. \/ HasCopy(c, vc, loggedUser[vc].ID) \/ HasCall(c, vc, loggedUser[vc].ID)
            \/ (l.vc = vc /\ l.uid = loggedUser[vc].ID)
        BY <1>9, <4>1
      <4>. QED  BY <1>5, <3>3, <3>4, <3>5, <4>2, GrowthAttends
    <3>9. Attended(d, loggedUser)
      BY <3>8 DEF Attended
    <3>. QED  BY <3>6, <3>7, <3>9 DEF Orderly
  <2>5. CASE e.snap = Nil
    <3>. DEFINE d == SetValue(c, l.uid, Created)
    <3>1. /\ ToDictionary(NewUser(l.uid)) = Created /\ Created \in Stored
          /\ Edited(Real(Nil), Real(Created)) /\ Edited(Real(Created), Real(Created))
      BY <1>4, CreationEdits
    <3>2. Completion(d, l.vc, NewUser(l.uid))
      BY <2>1, <2>5, <3>1 DEF UsersCallback
    <3>3. loggedUser' = [loggedUser EXCEPT ![l.vc] = NewUser(l.uid)]
      BY <3>2 DEF Completion
    <3>4. d \in Client
      BY <1>4, <1>5, <3>1, SetValueType
    <3>5. Edited(Real(c.view[l.uid]), Real(Created))
      BY <1>9, <1>12, <2>5, <3>1
    <3>6. HasCall(d, l.vc, l.uid)
      <4>1. CASE c.view[l.uid] = Nil
        BY <1>4, <1>5, <1>8, <1>9, <1>12, <2>3, <3>1, <4>1, WriteMissing
      <4>2. CASE c.view[l.uid] # Nil
        <5>1. HasCall(c, l.vc, l.uid)
          BY <1>9, <1>12, <2>5, <4>2
        <5>2. PICK ls : Grows(c, d, ls)
          BY <1>4, <1>5, <1>8, <3>1, SetValueGrows
        <5>. HIDE DEF d
        <5>. QED  BY <1>5, <3>4, <5>1, <5>2, GrowthAttends
      <4>. QED  BY <4>1, <4>2
    <3>7. \A k \in Controller \ {"Search"} :
            loggedUser'[k] # Nil => \/ loggedUser[k] # Nil /\ loggedUser[k].ID = loggedUser'[k].ID
                                    \/ HasCopy(c, k, loggedUser'[k].ID)
                                    \/ HasCall(d, k, loggedUser'[k].ID)
      <4>. HIDE DEF d
      <4>1. NewUser(l.uid).ID = l.uid
        BY DEF NewUser
      <4>2. \A k \in Controller : loggedUser'[k] = IF k = l.vc THEN NewUser(l.uid) ELSE loggedUser[k]
        BY <1>0, <3>3
      <4>. QED  BY <3>6, <4>1, <4>2
    <3>8. Orderly(c, loggedUser)
      BY <1>9, <1>10, <2>5 DEF Orderly
    <3>9. Orderly(d, loggedUser')
      BY <1>4, <1>5, <1>8, <3>1, <3>5, <3>7, <3>8, WriteOrderly, Zenon
    <3>. HIDE DEF d
    <3>. QED  BY <1>11, <3>2, <3>4, <3>9
  <2>. QED  BY <2>4, <2>5
<1>13. CASE l.kind = "copy"
  <2>1. CopyCallback(c, l.vc, l.uid, e.snap)
    BY <1>1, <1>13 DEF c
  <2>2. CASE e.snap # Nil
    <3>. DEFINE user == FromDictionary(l.uid, e.snap)
    <3>1. Completion(c, l.vc, user)
      BY <2>1, <2>2 DEF CopyCallback
    <3>2. loggedUser' = [loggedUser EXCEPT ![l.vc] = user]
      BY <3>1 DEF Completion
    <3>3. user.ID = l.uid
      BY DEF FromDictionary
    <3>. HIDE DEF user
    <3>4. HasCopy(c, l.vc, l.uid)
      BY <1>6, <1>7, <1>13 DEF EventSound, HasCopy
    <3>5. \A k \in Controller : loggedUser'[k] = IF k = l.vc THEN user ELSE loggedUser[k]
      BY <1>0, <3>2
    <3>6. Attended(c, loggedUser')
      BY <1>10, <1>13, <3>3, <3>4, <3>5 DEF Attended
    <3>. QED  BY <1>5, <1>9, <1>11, <3>1, <3>6 DEF Orderly
  <2>3. CASE e.snap = Nil
    <3>1. client' = c /\ loggedUser' = loggedUser
      BY <2>1, <2>3 DEF CopyCallback
    <3>. QED  BY <1>9, <1>10, <1>13, <3>1 DEF Orderly
  <2>. QED  BY <2>2, <2>3
<1>14. CASE l.kind = "rows"
  <2>1. RowsCallback(c, l.vc, l.uid, e.snap)
    BY <1>1, <1>14 DEF c
  <2>2. client' = c /\ loggedUser' = loggedUser
    BY <2>1 DEF RowsCallback
  <2>. QED  BY <1>9, <1>10, <1>14, <2>2 DEF Orderly
<1>15. CASE l.kind = "once"
  <2>1. OnceCallback(c, l, l.uid, e.snap)
    BY <1>1, <1>15 DEF c
  <2>2. /\ client' = c
        /\ \/ loggedUser' = loggedUser
           \/ loggedUser' = [loggedUser EXCEPT !["Search"] = FromDictionary(l.uid, e.snap)]
    BY <2>1 DEF OnceCallback
  <2>3. \A vc \in Controller \ {"Search"} : loggedUser'[vc] = loggedUser[vc]
    BY <1>0, <2>2
  <2>4. Attended(c, loggedUser')
    BY <1>10, <1>15, <2>3 DEF Attended
  <2>. QED  BY <1>9, <2>2, <2>4 DEF Orderly
<1>. QED  BY <1>4, <1>12, <1>13, <1>14, <1>15 DEF Kind

\* The turns of the favourites' loop, and the callbacks.
LEMMA MainThreadShelf ==
  ASSUME TypeOK, LoopHasUser, CopyInv, ShelfInv, MainThread
  PROVE  ShelfInv'
<1>1. ASSUME NEW vc \in Feeds, NEW as \in SUBSET Article, FeedArrives(vc, as)
      PROVE  ShelfInv'
  BY <1>1 DEF FeedArrives, ShelfInv, session
<1>2. CASE LoopRemoves
  <2>0. /\ loop.vc \in Controller \ {"Search"} /\ client \in Client
        /\ loggedUser \in [Controller -> User \cup {Nil}] /\ Sound(client, loggedUser, rows)
        /\ Orderly(client, loggedUser) /\ tab' # "Search" /\ loop'.vc = loop.vc
        /\ Agrees(loggedUser[loop.vc], client.view[loggedUser[loop.vc].ID])
        /\ Present(client, loggedUser[loop.vc].ID)
    BY <1>2 DEF LoopRemoves, TypeOK, Loop, Feeds, Controller, CopyInv, ShelfInv, LoopSound, session
  <2>1. PICK i \in DOMAIN loggedUser[loop.vc].favorites :
          /\ loggedUser' = [loggedUser EXCEPT ![loop.vc] = RemoveFavoriteAt(@, i)]
          /\ Upload(loggedUser'[loop.vc])
    BY <1>2 DEF LoopRemoves
  <2>. DEFINE user == RemoveFavoriteAt(loggedUser[loop.vc], i)
  <2>2. loggedUser[loop.vc] \in User /\ loggedUser[loop.vc] # Nil
    BY <1>2, <2>0, NilAssumption DEF LoopRemoves, LoopHasUser
  <2>3. user \in User /\ user.ID = loggedUser[loop.vc].ID /\ i \in 1 .. Len(loggedUser[loop.vc].favorites)
    BY <2>2, EditTypes DEF User, RemoveFavoriteAt
  <2>4. client.view[user.ID] \in Stored \cup {Nil}
    BY <2>0, <2>3, ClientFields DEF User
  <2>5. Edited(Real(client.view[user.ID]), Real(ToDictionary(user)))
    BY <2>0, <2>2, <2>3, <2>4, UserEdits
  <2>6. loggedUser' = [loggedUser EXCEPT ![loop.vc] = user]
    BY <2>1
  <2>. HIDE DEF user
  <2>7. client' = SetValue(client, user.ID, ToDictionary(user)) /\ loggedUser'[loop.vc] = user
    BY <2>0, <2>1, <2>6 DEF Upload
  <2>8. /\ Orderly(client', loggedUser') /\ Present(client', user.ID)
        /\ Agrees(user, client'.view[user.ID])
    BY <2>0, <2>2, <2>3, <2>5, <2>6, <2>7, UploadOrderly
  <2>. QED  BY <2>0, <2>7, <2>8 DEF ShelfInv, LoopSound
<1>3. CASE LoopEnds
  BY <1>3 DEF LoopEnds, ShelfInv, LoopSound, screen, session
<1>4. CASE Deliver
  BY <1>4, DeliverShelf
<1>. QED  BY <1>1, <1>2, <1>3, <1>4 DEF MainThread

\* The server's answers and acknowledgements, the network, a kill of the app.
LEMMA EnvironmentShelf ==
  ASSUME TypeOK, ShelfInv, Environment
  PROVE  ShelfInv'
<1>0. client \in Client /\ currentUser \in Uid \cup {Nil} /\ Orderly(client, loggedUser)
  BY DEF TypeOK, ShelfInv
<1>1. CASE ServerAnswers
  <2>1. PICK p \in Unanswered(client) : client' = Answer(client, p)
    BY <1>1 DEF ServerAnswers
  <2>2. Orderly(client', loggedUser) /\ \A u : Present(client, u) => Present(client', u)
    BY <1>0, <2>1, AnswerOrderly
  <2>3. client'.view = client.view
    BY <2>1 DEF Answer
  <2>. QED  BY <1>1, <2>2, <2>3 DEF ServerAnswers, screen, session, ShelfInv, LoopSound
<1>2. CASE ServerAcks
  <2>1. client.pending # <<>> /\ client' = Ack(client)
    BY <1>2 DEF ServerAcks
  <2>2. client'.view = client.view /\ client'.queue = client.queue /\ client'.listeners = client.listeners
    BY <2>1 DEF Ack
  <2>3. SentAreEdits(client')
    BY <1>0, <2>1, AckSent DEF Orderly
  <2>4. Orderly(client', loggedUser)
    BY <1>0, <2>2, <2>3 DEF Orderly, Attended, HasCopy, HasCall, MissingAreSound, MissingSound, LaterCall
  <2>5. \A u : Present(client, u) => Present(client', u)
    BY <2>2 DEF Present
  <2>. QED  BY <1>2, <2>2, <2>4, <2>5 DEF ServerAcks, screen, session, ShelfInv, LoopSound
<1>3. CASE NetworkChanges
  BY <1>3 DEF NetworkChanges, screen, ShelfInv
<1>4. CASE Relaunch
  <2>1. /\ client' = Launched(client.server, currentUser) /\ loop' = NoLoop /\ tab' = "Home"
        /\ loggedUser' = [vc \in Controller |-> Nil]
    BY <1>4 DEF Relaunch
  <2>2. client.server \in [Uid -> Stored \cup {Nil}] /\ \A vc \in Controller : loggedUser'[vc] = Nil
    BY <1>0, <2>1, ClientFields
  <2>3. Orderly(client', loggedUser')
    BY <1>0, <2>1, <2>2, LaunchedOrderly
  <2>. QED  BY <2>1, <2>3, IdleShelf
<1>. QED  BY <1>1, <1>2, <1>3, <1>4 DEF Environment

\* Every step keeps the invariant, and it holds at first.
LEMMA NextKeepsShelf ==
  ASSUME MaxBacklog = 0, "Search" \notin Tabs, TypeOK, LoopHasUser, CopyInv, ShelfInv, [Next]_vars
  PROVE  ShelfInv'
<1>1. CASE Next
  BY <1>1, EnvironmentShelf, SessionShelf, EditsShelf, MainThreadShelf DEF Next
<1>2. CASE UNCHANGED vars
  BY <1>2 DEF vars, ShelfInv
<1>. QED  BY <1>1, <1>2

LEMMA InitShelf == Init => ShelfInv
<1>. SUFFICES ASSUME Init PROVE ShelfInv
  OBVIOUS
<1>1. PICK server \in [Uid -> StartRecords] :
        currentUser \in StartUsers /\ client = Launched(server, currentUser)
  BY DEF Init
<1>2. server \in [Uid -> Stored \cup {Nil}] /\ currentUser \in Uid \cup {Nil}
  BY <1>1, AppAssumption
<1>3. \A vc \in Controller : loggedUser[vc] = Nil
  BY DEF Init
<1>4. Orderly(client, loggedUser)
  BY <1>1, <1>2, <1>3, LaunchedOrderly
<1>. QED  BY <1>4 DEF Init, ShelfInv, LoopSound

-----------------------------------------------------------------------------
(* The refinement of Shelf.                                                 *)

\* What the server has, as the shelf.
ShelfShown == [u \in Uid |-> Real(client.server[u])]

\* An edit of one account's record is a step of Shelf.
LEMMA EditedIsStep ==
  ASSUME NEW server \in [Uid -> Stored \cup {Nil}], client.server = server,
         NEW u \in Uid, NEW r \in Stored, client'.server = [server EXCEPT ![u] = r],
         Edited(Real(server[u]), Real(r))
  PROVE  [Library!Next]_ShelfShown
<1>. DEFINE s == ShelfShown
            x == Real(server[u])
            y == Real(r)
<1>1. s' = [s EXCEPT ![u] = y] /\ s[u] = x /\ s = [v \in Uid |-> Real(server[v])]
  BY DEF ShelfShown
<1>2. y = [favorites |-> y.favorites, notes |-> y.notes] /\ y # Nil
  BY RealType
<1>3. x # Nil => x = [favorites |-> x.favorites, notes |-> x.notes]
  BY RealType DEF Real
<1>. HIDE DEF x, y
<1>4. CASE y = x
  BY <1>1, <1>4
<1>5. CASE x = Nil /\ y = Created
  <2>1. Library!Put(u, <<>>, <<>>)
    BY <1>1, <1>5 DEF Library!Put, Created, s, ShelfShown
  <2>2. Library!Create(u)
    BY <1>1, <1>5, <2>1 DEF Library!Create, s, ShelfShown
  <2>. QED  BY <2>2 DEF Library!Next
<1>6. CASE x # Nil /\ \E n \in NoteText : y.favorites = x.favorites /\ y.notes = Append(x.notes, n)
  <2>1. PICK n \in NoteText : y.favorites = x.favorites /\ y.notes = Append(x.notes, n)
    BY <1>6
  <2>2. Library!Put(u, x.favorites, Append(x.notes, n))
    BY <1>1, <1>2, <2>1 DEF Library!Put, s, ShelfShown
  <2>3. Library!AddNote(u, n)
    BY <1>1, <1>6, <2>2 DEF Library!AddNote, s, ShelfShown
  <2>. QED  BY <2>3 DEF Library!Next
<1>7. CASE x # Nil /\ \E a \in Article : y.notes = x.notes /\ y.favorites = Append(x.favorites, a)
  <2>1. PICK a \in Article : y.notes = x.notes /\ y.favorites = Append(x.favorites, a)
    BY <1>7
  <2>2. Library!Put(u, Append(x.favorites, a), x.notes)
    BY <1>1, <1>2, <2>1 DEF Library!Put, s, ShelfShown
  <2>3. Library!AddFavorite(u, a)
    BY <1>1, <1>7, <2>2 DEF Library!AddFavorite, s, ShelfShown
  <2>. QED  BY <2>3 DEF Library!Next
<1>8. CASE x # Nil /\ \E i \in DOMAIN x.favorites : y.notes = x.notes /\ y.favorites = Without(x.favorites, i)
  <2>1. PICK i \in DOMAIN x.favorites : y.notes = x.notes /\ y.favorites = Without(x.favorites, i)
    BY <1>8
  <2>2. Library!Put(u, Without(x.favorites, i), x.notes)
    BY <1>1, <1>2, <2>1 DEF Library!Put, s, ShelfShown
  <2>3. Library!RemoveEntry(u, i)
    BY <1>1, <2>2 DEF Library!RemoveEntry, Without, s, ShelfShown
  <2>4. Library!Remove(u)
    BY <1>1, <1>8, <2>3 DEF Library!Remove, s, ShelfShown
  <2>. QED  BY <2>4 DEF Library!Next
<1>. QED  BY <1>4, <1>5, <1>6, <1>7, <1>8 DEF Edited, x, y, s, ShelfShown

\* Only an acknowledgement changes what the server has.
LEMMA ServerStays ==
  ASSUME TypeOK, [Next]_vars, ~ServerAcks
  PROVE  client'.server = client.server
<1>1. /\ \A c, vc, u, kind : Observe(c, vc, u, kind).server = c.server
      /\ \A c, u, r : SetValue(c, u, r).server = c.server
      /\ \A c, e : Take(c, e).server = c.server
      /\ \A c, p : Answer(c, p).server = c.server
      /\ \A server : FreshClient(server).server = server
  BY DEF Observe, SetValue, Take, Answer, FreshClient
<1>2. /\ \A c, vc, u : CheckUser(c, vc, u).server = c.server
      /\ \A c, vc, u : GetRows(c, vc, u).server = c.server
      /\ \A c, u : WhoIsLoggedIn(c, u).server = c.server
  BY <1>1 DEF CheckUser, GetRows, WhoIsLoggedIn
<1>3. /\ \A c, t, u : t \in Controller => ViewDidLoad(c, t, u).server = c.server
      /\ \A c, t, u : ViewDidAppear(c, t, u).server = c.server
      /\ \A server, u : Launched(server, u).server = server
  BY <1>1, <1>2 DEF ViewDidLoad, ViewDidAppear, Launched, Controller
<1>4. CASE Environment
  BY <1>1, <1>3, <1>4 DEF Environment, ServerAnswers, NetworkChanges, Relaunch
<1>5. CASE Session
  <2>1. Tabs \subseteq Controller
    BY AppAssumption
  <2>. QED  BY <1>2, <1>3, <1>5, <2>1 DEF Session, SelectTab, SignIn, LogOut, LogIn, CancelLogin,
               OpenFilter, CloseFilter, Dismiss, ForceCheck
<1>6. CASE Edits
  BY <1>1, <1>2, <1>6 DEF Edits, AddToFavorites, Unfavorite, FavoriteCreates, RemoveFavorite,
     SaveMessage, FavoriteAsksLogin, NoteAsksLogin, RefreshFavorites, ForceCheck, Upload
<1>7. CASE MainThread
  <2>1. CASE Deliver
    <3>1. PICK e \in Due(client) :
            LET c == Take(client, e)
                l == e.listener
            IN CASE l.kind = "users" -> UsersCallback(c, l.vc, l.uid, e.snap)
                 [] l.kind = "copy"  -> CopyCallback(c, l.vc, l.uid, e.snap)
                 [] l.kind = "rows"  -> RowsCallback(c, l.vc, l.uid, e.snap)
                 [] l.kind = "once"  -> OnceCallback(c, l, l.uid, e.snap)
      BY <2>1 DEF Deliver
    <3>. DEFINE c == Take(client, e)
                l == e.listener
    <3>2. l.kind \in Kind
      BY <2>1, DueType DEF Deliver, TypeOK, Event, Listener
    <3>3. c.server = client.server
      BY <1>1
    <3>. HIDE DEF c
    <3>4. ASSUME NEW d, NEW vc, NEW user, Completion(d, vc, user) PROVE client'.server = d.server
      BY <1>2, <3>4 DEF Completion
    <3>5. CASE l.kind = "users"
      <4>1. UsersCallback(c, l.vc, l.uid, e.snap)
        BY <3>1, <3>5 DEF c
      <4>. QED  BY <1>1, <3>3, <3>4, <4>1 DEF UsersCallback
    <3>6. CASE l.kind = "copy"
      <4>1. CopyCallback(c, l.vc, l.uid, e.snap)
        BY <3>1, <3>6 DEF c
      <4>. QED  BY <3>3, <3>4, <4>1 DEF CopyCallback
    <3>7. CASE l.kind = "rows"
      <4>1. RowsCallback(c, l.vc, l.uid, e.snap)
        BY <3>1, <3>7 DEF c
      <4>. QED  BY <3>3, <4>1 DEF RowsCallback
    <3>8. CASE l.kind = "once"
      <4>1. OnceCallback(c, l, l.uid, e.snap)
        BY <3>1, <3>8 DEF c
      <4>. QED  BY <3>3, <4>1 DEF OnceCallback
    <3>. QED  BY <3>2, <3>5, <3>6, <3>7, <3>8 DEF Kind
  <2>. QED  BY <1>1, <1>7, <2>1 DEF MainThread, FeedArrives, LoopRemoves, LoopEnds, Upload
<1>8. CASE UNCHANGED vars
  BY <1>8 DEF vars
<1>. QED  BY <1>4, <1>5, <1>6, <1>7, <1>8 DEF Next

\* Every step is an edit of one record on the server, or leaves all of them as they are.
LEMMA ShelfStep ==
  ASSUME TypeOK, ShelfInv, [Next]_vars
  PROVE  [Library!Next]_ShelfShown
<1>0. client \in Client /\ client.server \in [Uid -> Stored \cup {Nil}] /\ SentAreEdits(client)
  BY ClientFields DEF TypeOK, ShelfInv, Orderly
<1>1. CASE ServerAcks
  <2>1. client.pending # <<>> /\ client' = Ack(client)
    BY <1>1 DEF ServerAcks
  <2>2. PICK u \in Uid : \E r \in Stored :
          /\ client'.server = [client.server EXCEPT ![u] = r]
          /\ Edited(Real(client.server[u]), Real(r))
    BY <1>0, <2>1, AckSent
  <2>. QED  BY <1>0, <2>2, EditedIsStep
<1>2. CASE ~ServerAcks
  <2>1. client'.server = client.server
    BY <1>2, ServerStays
  <2>. QED  BY <2>1 DEF ShelfShown
<1>. QED  BY <1>1, <1>2

\* The server has what the shelf has at first.
LEMMA ShelfInit == Init => Library!Init
<1>. SUFFICES ASSUME Init PROVE Library!Init
  OBVIOUS
<1>1. PICK server \in [Uid -> StartRecords] :
        currentUser \in StartUsers /\ client = Launched(server, currentUser)
  BY DEF Init
<1>2. server \in [Uid -> Stored \cup {Nil}] /\ client.server = server
  BY <1>1, AppAssumption DEF Launched, ViewDidLoad, CheckUser, Observe, FreshClient
<1>3. \A u \in Uid : Real(server[u]) \in [favorites : Seq(Article), notes : Seq(NoteText)] \cup {Nil}
  BY <1>2, RealType DEF Real
<1>. QED  BY <1>2, <1>3 DEF Library!Init

\* When the user lets the screen settle before each action and does not visit Search,
\* what reaches the server is one edit after another: no upload of a whole record takes
\* back what another screen saved, whatever is lost, late or repeated in between.
THEOREM UploadsCorrect ==
  ASSUME MaxBacklog = 0, "Search" \notin Tabs
  PROVE  Spec => UploadsAreEdits
<1>1. Init => TypeOK /\ LoopHasUser /\ CopyInv /\ ShelfInv /\ Library!Init
  BY InitType, InitCopies, InitShelf, ShelfInit DEF Init, LoopHasUser
<1>2. TypeOK /\ LoopHasUser /\ CopyInv /\ ShelfInv /\ [Next]_vars
        => (TypeOK /\ LoopHasUser /\ CopyInv /\ ShelfInv)'
  BY NextType, NextLoopHasUser, NextKeepsCopies, NextKeepsShelf
<1>3. TypeOK /\ ShelfInv /\ [Next]_vars => [Library!Next]_ShelfShown
  BY ShelfStep
<1>. QED  BY <1>1, <1>2, <1>3, PTL DEF Spec, UploadsAreEdits, Library!Spec, ShelfShown
=============================================================================
