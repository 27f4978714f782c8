-------------------------------- MODULE Shelf --------------------------------
(***************************************************************************)
(* What the app promises of an account's record: it is created empty, and  *)
(* from then on changes by one edit at a time.  A note is added and stays; *)
(* a favourite is added, or one entry of it is removed.  Entries read from *)
(* an absent list are not part of the shelf.                               *)
(***************************************************************************)
EXTENDS Naturals, Sequences

CONSTANTS Uid, Article, NoteText, Nil

VARIABLE shelf    \* per account: Nil, or its favourites and its notes

Init == shelf \in [Uid -> [favorites : Seq(Article), notes : Seq(NoteText)] \cup {Nil}]

Put(u, favorites, notes) ==
  shelf' = [shelf EXCEPT ![u] = [favorites |-> favorites, notes |-> notes]]

Create(u) == shelf[u] = Nil /\ Put(u, <<>>, <<>>)

AddNote(u, n) ==
  shelf[u] # Nil /\ Put(u, shelf[u].favorites, Append(shelf[u].notes, n))

AddFavorite(u, a) ==
  shelf[u] # Nil /\ Put(u, Append(shelf[u].favorites, a), shelf[u].notes)

RemoveEntry(u, i) ==
  LET f == shelf[u].favorites
  IN Put(u, SubSeq(f, 1, i - 1) \o SubSeq(f, i + 1, Len(f)), shelf[u].notes)

Remove(u) == shelf[u] # Nil /\ \E i \in DOMAIN shelf[u].favorites : RemoveEntry(u, i)

Next ==
  \E u \in Uid :
    \/ Create(u) \/ Remove(u)
    \/ \E n \in NoteText : AddNote(u, n)
    \/ \E a \in Article : AddFavorite(u, a)

Spec == Init /\ [][Next]_shelf
=============================================================================
