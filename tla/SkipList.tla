------------------------------ MODULE SkipList ------------------------------
(***************************************************************************)
(* The memtable's skip list: one writer at a time inserts, and readers     *)
(* search without a lock while it does.  A step of a search reads one      *)
(* pointer, a step of an insertion publishes the node at one level.        *)
(*                                                                         *)
(* A node is its key; the head is before all keys and the null pointer     *)
(* after them.  A pointer of a node that is not set yet has any value: it  *)
(* is Garbage here, and no search may read it.  Pointers are stored with   *)
(* release and loaded with acquire; max_height_ has no barrier, so that a  *)
(* reader may see an old value of it.                                      *)
(***************************************************************************)
EXTENDS Integers, FiniteSetsExt

CONSTANTS NumKeys,    \* the keys are 1 .. NumKeys
          MaxHeight   \* kMaxHeight

ASSUME SkipListAssumption == {NumKeys, MaxHeight} \subseteq Nat \ {0}

ListKey == 1 .. NumKeys
HeadNode    == 0
Null    == NumKeys + 1
Garbage == -1
Levels  == 0 .. MaxHeight - 1
Node    == {HeadNode} \cup ListKey

VARIABLES next,        \* next_ of every node, by level
          maxHeight,   \* max_height_
          insertion,   \* the insertion being done, if any: key, height, level, prev
          inserted,    \* the keys whose insertion has returned
          search,      \* the search being done, if any
          found        \* what the last search was and found

skipVars == <<next, maxHeight, insertion, inserted, search, found>>

KeyIsAfterNode(key, n) == n # Null /\ n < key

\* The keys linked into a level.
Linked(l) == {n \in ListKey : \E m \in Node : next[m][l] = n}

-----------------------------------------------------------------------------
(* Insert.                                                                  *)

\* FindGreaterOrEqual by the writer, which alone changes the list.
PrevAt(key, l) == Max({n \in {HeadNode} \cup Linked(l) : n < key})

\* The highest level of the node is chosen, and max_height_ stored before any link.
StartInsert(key, height) ==
  /\ insertion = {} /\ key \notin inserted
  /\ insertion' = {[key |-> key, height |-> height, level |-> 0,
                    prev |-> [l \in Levels |-> IF l < maxHeight THEN PrevAt(key, l) ELSE HeadNode]]}
  /\ maxHeight' = IF height > maxHeight THEN height ELSE maxHeight
  /\ UNCHANGED <<next, inserted, search, found>>

\* Mutant: from the top down.
LevelFromTop(i) == i.height - 1 - i.level

LevelToLink(i) == i.level

\* The node's pointer is set, then the one that publishes it.
LinkLevel ==
  /\ \E i \in insertion :
       LET l == LevelToLink(i)
           p == i.prev[l]
       IN /\ i.level < i.height
          /\ next' = [next EXCEPT ![i.key][l] = next[p][l], ![p][l] = i.key]
          /\ insertion' = {[i EXCEPT !.level = @ + 1]}
  /\ UNCHANGED <<maxHeight, inserted, search, found>>

InsertReturns ==
  /\ \E i \in insertion : i.level = i.height /\ inserted' = inserted \cup {i.key}
  /\ insertion' = {}
  /\ UNCHANGED <<next, maxHeight, search, found>>

-----------------------------------------------------------------------------
(* Readers.                                                                 *)

\* FindGreaterOrEqual, FindLessThan and FindLast, from some height.
StartSearch(kind, target) ==
  /\ search = {}
  /\ \E h \in 1 .. maxHeight :
       search' = {[kind |-> kind, target |-> target, x |-> HeadNode, level |-> h - 1,
                   known |-> inserted]}
  /\ found' = {}
  /\ UNCHANGED <<next, maxHeight, insertion, inserted>>

\* Whether the search keeps to this level.
GoesOn(s, n) ==
  CASE s.kind = "ge"   -> KeyIsAfterNode(s.target, n)
    [] s.kind = "lt"   -> n # Null /\ n < s.target
    [] s.kind = "last" -> n # Null

\* Mutant: it ends at the level it began.
AtAnyLevel(s) == s.level >= 0

AtBottom(s) == s.level = 0

SearchStep ==
  /\ \E s \in search :
       LET n == next[s.x][s.level]
           result == IF s.kind = "ge" THEN n ELSE s.x
       IN IF GoesOn(s, n) THEN search' = {[s EXCEPT !.x = n]} /\ UNCHANGED found
          ELSE IF ~AtBottom(s) THEN search' = {[s EXCEPT !.level = @ - 1]} /\ UNCHANGED found
          ELSE /\ search' = {}
               /\ found' = {[kind |-> s.kind, target |-> s.target, known |-> s.known,
                             node |-> result]}
  /\ UNCHANGED <<next, maxHeight, insertion, inserted>>

\* Iterator::Next, from a node that was found.
IteratorNext ==
  /\ \E f \in found :
       /\ f.node \in ListKey
       /\ found' = {[kind |-> "ge", target |-> f.node + 1, known |-> inserted,
                     node |-> next[f.node][0]]}
  /\ UNCHANGED <<next, maxHeight, insertion, inserted, search>>

ListInit ==
  /\ next = [n \in Node |-> [l \in Levels |-> IF n = HeadNode THEN Null ELSE Garbage]]
  /\ maxHeight = 1
  /\ insertion = {} /\ inserted = {}
  /\ search = {} /\ found = {}

ListNext ==
  \/ \E key \in ListKey, height \in 1 .. MaxHeight : StartInsert(key, height)
  \/ LinkLevel \/ InsertReturns
  \/ \E target \in ListKey, kind \in {"ge", "lt", "last"} : StartSearch(kind, target)
  \/ SearchStep \/ IteratorNext

ListSpec == ListInit /\ [][ListNext]_skipVars

-----------------------------------------------------------------------------
(***************************************************************************)
(* A search that runs beside an insertion reads no pointer that is not set *)
(* yet and comes to a node of the list, on the right side of its target.   *)
(***************************************************************************)
SearchStaysInTheList ==
  /\ \A s \in search : /\ s.x = HeadNode \/ s.x \in Linked(0)
                       /\ next[s.x][s.level] # Garbage
                       /\ s.kind # "last" => s.x < s.target
  /\ \A f \in found : f.node \in Linked(0) \cup (IF f.kind = "ge" THEN {Null} ELSE {HeadNode})

(***************************************************************************)
(* It misses no key whose insertion had returned when it began: there is   *)
(* none between its target and what it found.  A key that is inserted      *)
(* meanwhile it may find or not.                                           *)
(***************************************************************************)
SearchFindsWhatWasThere ==
  \A f \in found : \A k \in f.known :
    CASE f.kind = "ge"   -> k >= f.target => f.node <= k
      [] f.kind = "lt"   -> k < f.target => f.node >= k
      [] f.kind = "last" -> f.node >= k
=============================================================================
