----------------------------- MODULE UserRecord -----------------------------
(***************************************************************************)
(* The data of an account: what is stored under users/<uid> in the         *)
(* database, the User object a view controller works on, and the two       *)
(* conversions between them (Model/User.swift, Article.swift, Note.swift). *)
(*                                                                         *)
(* An article is identified by its url, which is all that Article.==       *)
(* compares; a note is its text.  The database keeps no empty list: an     *)
(* empty "favorites" or "notes" is an absent child, and User.init reads an *)
(* absent list as a list of one empty dictionary, from which Article.init  *)
(* and Note.init make an entry of defaults, NoData and NoNote.             *)
(***************************************************************************)
EXTENDS Naturals, Sequences

CONSTANTS Uid,       \* accounts
          Article,   \* articles, by url
          NoteText,  \* texts of notes
          NoData,    \* the article read from an empty dictionary
          NoNote,    \* the note read from an empty dictionary
          Nil        \* no object, no record

Favorite == Article \cup {NoData}
Note     == NoteText \cup {NoNote}

\* A record of the database; <<>> is an absent list.
Stored == [favorites : Seq(Favorite), notes : Seq(Note)]

\* A User object.
User == [ID : Uid, favorites : Seq(Favorite), notes : Seq(Note)]

ASSUME NilAssumption == Nil \notin Stored /\ Nil \notin User /\ Nil \notin Uid

NewUser(u) == [ID |-> u, favorites |-> <<>>, notes |-> <<>>]

\* The `?? [[:]]` of User.init.
OrDefault(list, default) == IF list = <<>> THEN <<default>> ELSE list

FromDictionary(u, r) ==
  [ID        |-> u,
   favorites |-> OrDefault(r.favorites, NoData),
   notes     |-> OrDefault(r.notes, NoNote)]

ToDictionary(user) == [favorites |-> user.favorites, notes |-> user.notes]

AppendFavorite(user, a) ==
  [ID |-> user.ID, favorites |-> Append(user.favorites, a), notes |-> user.notes]

AppendNewNote(user, n) ==
  [ID |-> user.ID, favorites |-> user.favorites, notes |-> Append(user.notes, n)]

\* Array.remove(at:), positions counted from 1; only called inside the array.
RemoveFavoriteAt(user, i) ==
  [ID        |-> user.ID,
   favorites |-> SubSeq(user.favorites, 1, i - 1)
                   \o SubSeq(user.favorites, i + 1, Len(user.favorites)),
   notes     |-> user.notes]

\* Article.==, through index(of:) and firstIndex(of:).
IsFirstIndex(list, a, i) ==
  /\ i \in DOMAIN list
  /\ list[i] = a
  /\ \A j \in 1 .. i - 1 : list[j] # a

Contains(list, a) == \E i \in DOMAIN list : list[i] = a
=============================================================================
