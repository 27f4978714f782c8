-------------------------- MODULE BatAppProperties --------------------------
(***************************************************************************)
(* What the screens of BatApp promise about the records they share.        *)
(***************************************************************************)
EXTENDS BatApp

\* The database has nothing more to tell the app.
Settled == client.queue = <<>> /\ loop = NoLoop

\* One entry more of what is kept, unless it is the default.
Keep(kept, x, default) == IF x = default THEN kept ELSE Append(kept, x)

\* A list without the entries that were read from an absent one: mostly, all of it.
Kept(list, default) ==
  IF \A n \in DOMAIN list : list[n] # default THEN list
  ELSE LET kept[n \in 0 .. Len(list)] ==
             IF n = 0 THEN <<>> ELSE Keep(kept[n - 1], list[n], default)
       IN kept[Len(list)]

Real(r) ==
  IF r = Nil THEN Nil
  ELSE [favorites |-> Kept(r.favorites, NoData), notes |-> Kept(r.notes, NoNote)]

Live(vc, kind) == {l \in client.listeners : l.vc = vc /\ l.kind = kind}

-----------------------------------------------------------------------------
(***************************************************************************)
(* Once every callback has run, the User object of a controller that       *)
(* observes its account is the record the client shows: no screen works on *)
(* a copy that another screen's upload has made old.  (The object and the  *)
(* record may differ by the default entries.)                              *)
(***************************************************************************)
CopiesAgree ==
  Settled =>
    \A vc \in Controller :
      LET user == loggedUser[vc]
      IN user # Nil /\ (\E l \in Live(vc, "copy") : l.uid = user.ID)
         => LET r == client.view[user.ID]
            IN r # Nil /\ (user = FromDictionary(user.ID, r) \/ ToDictionary(user) = r)

(***************************************************************************)
(* The app rewrites the whole record at each edit, from the copy of the    *)
(* screen in front; on the server this amounts to single edits: no upload  *)
(* takes back what another screen saved.                                   *)
(***************************************************************************)
Library == INSTANCE Shelf WITH shelf <- [u \in Uid |-> Real(client.server[u])]

UploadsAreEdits == Library!Spec

(***************************************************************************)
(* The row the user swipes on Favorites is the one that leaves the record: *)
(* the position in the table and the one in the User object agree.         *)
(***************************************************************************)
Without(list, i) == SubSeq(list, 1, i - 1) \o SubSeq(list, i + 1, Len(list))

RemovesTheSwipedRow ==
  [][\A i \in DOMAIN rows["Favorites"] :
       RemoveFavorite(i) /\ ~crashed' =>
         \E p \in DOMAIN rows["Favorites"] :
           /\ rows["Favorites"][p] = rows["Favorites"][i]
           /\ loggedUser'["Favorites"].favorites = Without(rows["Favorites"], p)]_vars

(***************************************************************************)
(* When the loop that removes a favourite is over, no entry of the article *)
(* is left in the user's list, however many there were.                    *)
(***************************************************************************)
UnfavoriteIsComplete ==
  [][LoopEnds => ~Contains(loggedUser'[loop.vc].favorites, loop.article)]_vars

(***************************************************************************)
(* With Home in front, the session button shows whether there is a session,*)
(* whatever modals and tabs were visited on the way.                       *)
(***************************************************************************)
IconMatchesSession ==
  tab = "Home" /\ modal = "none" => icon = IconFor(currentUser)

(***************************************************************************)
(* Search reads its account once: a change that reaches its observer before*)
(* the first event is handled does not run the handler a second time, and  *)
(* afterwards only Search's own edits change its User object.              *)
(***************************************************************************)
SearchReadsOnce ==
  [][loggedUser["Search"] # Nil /\ loggedUser'["Search"] # loggedUser["Search"]
       => \/ taps' # taps \/ loop # NoLoop \/ loggedUser'["Search"] = Nil
          \/ \E l \in client.listeners : l.kind = "once"]_vars

-----------------------------------------------------------------------------
(***************************************************************************)
(* An account that is being checked gets its record: it is there, or it is *)
(* created (the first login), unless the app is closed first.              *)
(***************************************************************************)
CheckedAccountIsStored ==
  \A u \in Uid :
    (\E l \in client.listeners : l.kind = "users" /\ l.uid = u)
      ~> client.server[u] # Nil

(***************************************************************************)
(* A note that is saved is eventually in the rows of Notes, if these are   *)
(* observed for the account that Notes has: it gets there through the      *)
(* observer and not through the handler that saved it.                     *)
(***************************************************************************)
SavedNotesAreShown ==
  \A n \in NoteText :
    (loggedUser["Notes"] # Nil /\ Contains(loggedUser["Notes"].notes, n)
       /\ \E l \in Live("Notes", "rows") : l.uid = loggedUser["Notes"].ID)
      ~> Contains(rows["Notes"], n)

-----------------------------------------------------------------------------
(* What comments of the code say.                                           *)

\* Notes, saveMessage: "La siguente funcion es para que el ok guarde las notas
\* en la base de datos".  A note that is in the database stays there: nothing in
\* the app deletes notes.
NotesStayStored ==
  [][\A u \in Uid, n \in NoteText :
       client.server[u] # Nil /\ Contains(client.server[u].notes, n)
         => Contains(client'.server[u].notes, n)]_vars

\* Favorites, removeFavorite: "Articulo removido del objeto usuario, ahora subo a
\* Fireabase".  The swiped row is removed; the handler does not trap.
RemovalNeverTraps == ~crashed

\* CheckUserService: "No se encontro el usuatio en firebase. Hay que subirlo. Esto
\* en teoria pasa unicamente cuando recien te logueas por primera vez".  The
\* empty record is not written over a favourite or a note.
CreationErasesNothing ==
  [][\A u \in Uid :
       /\ Len(client'.pending) > Len(client.pending)
       /\ client'.pending[Len(client'.pending)] =
            [uid |-> u, record |-> ToDictionary(NewUser(u))]
       /\ loop = NoLoop /\ taps' = taps
       => Real(client.view[u]) \in {Nil, ToDictionary(NewUser(u))}]_vars
=============================================================================
