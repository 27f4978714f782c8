------------------------------ MODULE Iterators ------------------------------
(***************************************************************************)
(* Reading the store in order: MergingIterator over the iterators of the   *)
(* memtables and tables, and DBIter over it, which shows each user key     *)
(* once, as it was at the iterator's sequence number.  Both go both ways   *)
(* and turn around; no call depends on what the caller did before.         *)
(*                                                                         *)
(* A child is a sorted sequence and a position in it, 0 when not valid.    *)
(* Reports of read samples and of corrupted keys are left out.             *)
(***************************************************************************)
EXTENDS Integers, Sequences, FiniteSets

CONSTANTS NumUserKeys,   \* user keys
          NumEntries,    \* bound: entries in all the children together
          NumChildren    \* bound: children merged

VARIABLES children,      \* the lists of the children
          sequence,      \* sequence_
          merged,        \* the MergingIterator: positions, current_, direction_
          iter,          \* the DBIter: valid_, direction_, saved_key_, saved_value_
          op             \* the last call

iterVars == <<children, sequence, merged, iter, op>>

UserKey == 1 .. NumUserKeys
Child   == 1 .. NumChildren

Before(a, b) == a.key < b.key \/ (a.key = b.key /\ a.seq > b.seq)

Entries == UNION {{children[c][p] : p \in DOMAIN children[c]} : c \in Child}

-----------------------------------------------------------------------------
(* A child.                                                                 *)

SeekIn(list, e) ==
  LET P == {p \in DOMAIN list : ~Before(list[p], e)}
  IN IF P = {} THEN 0 ELSE CHOOSE p \in P : \A q \in P : p <= q

NextIn(list, p) == IF p < Len(list) THEN p + 1 ELSE 0

-----------------------------------------------------------------------------
(* MergingIterator.                                                         *)

Valid(m) == m.current # 0
MergedKey(m) == children[m.current][m.pos[m.current]]

\* FindSmallest and FindLargest among the children that are valid.
FindSmallest(m) ==
  LET C == {c \in Child : m.pos[c] # 0}
      At(c) == children[c][m.pos[c]]
  IN [m EXCEPT !.current = IF C = {} THEN 0
                           ELSE CHOOSE c \in C : \A d \in C \ {c} : Before(At(c), At(d))]

FindLargest(m) ==
  LET C == {c \in Child : m.pos[c] # 0}
      At(c) == children[c][m.pos[c]]
  IN [m EXCEPT !.current = IF C = {} THEN 0
                           ELSE CHOOSE c \in C : \A d \in C \ {c} : Before(At(d), At(c))]

MergedSeekToFirst ==
  FindSmallest([pos |-> [c \in Child |-> IF children[c] = <<>> THEN 0 ELSE 1],
                current |-> 0, direction |-> "forward"])

MergedSeekToLast ==
  FindLargest([pos |-> [c \in Child |-> Len(children[c])],
               current |-> 0, direction |-> "reverse"])

MergedSeek(e) ==
  FindSmallest([pos |-> [c \in Child |-> SeekIn(children[c], e)],
                current |-> 0, direction |-> "forward"])

\* The position after MergedKey(m) in a child that is not the current one.
AfterKey(m, c) ==
  IF m.direction = "forward" THEN m.pos[c]
  ELSE LET p == SeekIn(children[c], MergedKey(m))
       IN IF p # 0 /\ children[c][p] = MergedKey(m) THEN NextIn(children[c], p) ELSE p

MergedNext(m) ==
  FindSmallest([m EXCEPT !.direction = "forward",
    !.pos = [c \in Child |-> IF c = m.current THEN NextIn(children[c], m.pos[c])
                             ELSE AfterKey(m, c)]])

\* Mutant: a child without an entry at or after the key is left where it is.
BeforeKeyStays(m, c) ==
  IF m.direction = "reverse" THEN m.pos[c]
  ELSE LET p == SeekIn(children[c], MergedKey(m)) IN IF p # 0 THEN p - 1 ELSE 0

\* The position before MergedKey(m): one step back, or the last entry.
BeforeKey(m, c) ==
  IF m.direction = "reverse" THEN m.pos[c]
  ELSE LET p == SeekIn(children[c], MergedKey(m)) IN IF p # 0 THEN p - 1 ELSE Len(children[c])

MergedPrev(m) ==
  FindLargest([m EXCEPT !.direction = "reverse",
    !.pos = [c \in Child |-> IF c = m.current THEN m.pos[c] - 1 ELSE BeforeKey(m, c)]])

-----------------------------------------------------------------------------
(* DBIter.  A saved key is a set, empty when it was cleared.                *)

NotValid(direction) == [valid |-> FALSE, direction |-> direction, key |-> {}, value |-> {}]

\* FindNextUserEntry: a turn of its loop passes the entry that the merged iterator is on,
\* unless it is to be shown.
ToShow(s) ==
  LET e == MergedKey(s.merged)
  IN e.seq <= sequence /\ e.type = "value" /\ ~(s.skipping /\ \E k \in s.skip : e.key <= k)

PassEntry(s) ==
  LET e == MergedKey(s.merged)
      hides == e.seq <= sequence /\ e.type = "deletion"
  IN IF ~Valid(s.merged) \/ ToShow(s) THEN s
     ELSE [merged   |-> MergedNext(s.merged),
           skipping |-> hides \/ s.skipping,
           skip     |-> IF hides THEN {e.key} ELSE s.skip]

\* The merged iterator and the DBIter when the loop ends.  It passes each entry once, at most.
FindNextUserEntry(m, skipping, skip) ==
  LET turn[n \in 0 .. Cardinality(Entries)] ==
        IF n = 0 THEN [merged |-> m, skipping |-> skipping, skip |-> skip]
        ELSE PassEntry(turn[n - 1])
      end == turn[Cardinality(Entries)].merged
  IN [merged |-> end, iter |-> [NotValid("forward") EXCEPT !.valid = Valid(end)]]

\* FindPrevUserEntry: back over the entries of a key, keeping the newest one seen, until
\* the entries of an earlier key.
AtEarlierKey(s) ==
  LET e == MergedKey(s.merged)
  IN e.seq <= sequence /\ s.iter.value # {} /\ \E k \in s.iter.key : e.key < k

KeepEntry(s) ==
  LET e == MergedKey(s.merged)
  IN IF ~Valid(s.merged) \/ AtEarlierKey(s) THEN s
     ELSE [merged |-> MergedPrev(s.merged),
           iter   |-> IF e.seq > sequence THEN s.iter
                      ELSE IF e.type = "deletion"
                      THEN [s.iter EXCEPT !.key = {}, !.value = {}]
                      ELSE [s.iter EXCEPT !.key = {e.key}, !.value = {e.seq}]]

FindPrevUserEntry(m, it) ==
  LET turn[n \in 0 .. Cardinality(Entries)] ==
        IF n = 0 THEN [merged |-> m, iter |-> it] ELSE KeepEntry(turn[n - 1])
      end == turn[Cardinality(Entries)]
  IN [merged |-> end.merged,
      iter   |-> IF end.iter.value = {} THEN NotValid("forward")
                 ELSE [end.iter EXCEPT !.valid = TRUE]]

\* Prev going forward: back to before the entries of the key.
StepBack(m, k) == IF Valid(m) /\ MergedKey(m).key >= k THEN MergedPrev(m) ELSE m

BackBefore(m, k) ==
  LET turn[n \in 0 .. Cardinality(Entries)] ==
        IF n = 0 THEN m ELSE StepBack(turn[n - 1], k)
  IN turn[Cardinality(Entries)]

Backwards == [valid |-> FALSE, direction |-> "reverse", key |-> {}, value |-> {}]

\* Next: a DBIter going backwards is before the entries of its key.
NextUserEntry ==
  IF iter.direction = "reverse"
  THEN FindNextUserEntry(IF Valid(merged) THEN MergedNext(merged) ELSE MergedSeekToFirst,
                         TRUE, iter.key)
  ELSE FindNextUserEntry(merged, TRUE, {MergedKey(merged).key})

\* Prev: nothing before the key ends it, still forward.
PrevUserEntry ==
  IF iter.direction = "forward"
  THEN LET m == BackBefore(MergedPrev(merged), MergedKey(merged).key)
       IN IF Valid(m) THEN FindPrevUserEntry(m, Backwards)
          ELSE [merged |-> m, iter |-> NotValid("forward")]
  ELSE FindPrevUserEntry(merged, [iter EXCEPT !.value = {}])

-----------------------------------------------------------------------------
Sorted(E) ==
  CHOOSE s \in [1 .. Cardinality(E) -> E] :
    \A i, j \in 1 .. Cardinality(E) : i < j => Before(s[i], s[j])

\* Any entries, distributed over the children in any way.
Init ==
  /\ \E n \in 0 .. NumEntries :
       \E key \in [1 .. n -> UserKey], type \in [1 .. n -> {"value", "deletion"}],
          where \in [1 .. n -> Child] :
         children = [c \in Child |-> Sorted(
           {[key |-> key[s], seq |-> s, type |-> type[s]] : s \in {t \in 1 .. n : where[t] = c}})]
  /\ sequence \in 0 .. NumEntries
  /\ merged = [pos |-> [c \in Child |-> 0], current |-> 0, direction |-> "forward"]
  /\ iter = NotValid("forward")
  /\ op = <<"none">>

Moved(call, result) ==
  /\ op' = call
  /\ merged' = result.merged /\ iter' = result.iter
  /\ UNCHANGED <<children, sequence>>

SeekToFirst == Moved(<<"first">>, FindNextUserEntry(MergedSeekToFirst, FALSE, {}))
SeekToLast  == Moved(<<"last">>, FindPrevUserEntry(MergedSeekToLast, Backwards))

Seek(k) ==
  Moved(<<"seek", k>>,
        FindNextUserEntry(MergedSeek([key |-> k, seq |-> sequence]), FALSE, {}))

Next == iter.valid /\ Moved(<<"next">>, NextUserEntry)
Prev == iter.valid /\ Moved(<<"prev">>, PrevUserEntry)

Move == SeekToFirst \/ SeekToLast \/ (\E k \in UserKey : Seek(k)) \/ Next \/ Prev

Spec == Init /\ [][Move]_iterVars

-----------------------------------------------------------------------------
\* What the entries say that the store has at the sequence number.
Visible ==
  {[key |-> e.key, value |-> e.seq] : e \in
     {d \in Entries : /\ d.type = "value" /\ d.seq <= sequence
                      /\ \A c \in Entries : c.key = d.key /\ c.seq <= sequence => c.seq <= d.seq}}

\* DBIter's key() and value().
Shown ==
  IF ~iter.valid THEN {}
  ELSE IF iter.direction = "forward" THEN {[key |-> MergedKey(merged).key, value |-> MergedKey(merged).seq]}
  ELSE {[key |-> k, value |-> v] : k \in iter.key, v \in iter.value}

ItemLess(c, d) == c.key < d.key
ItemEnds(c, t) == c.key >= t

View == INSTANCE Cursor WITH
  Less <- ItemLess, Target <- UserKey, Ends <- ItemEnds, contents <- Visible, at <- Shown

(***************************************************************************)
(* DBIter over MergingIterator is a cursor over what the store had at its  *)
(* sequence number: each key once, with its newest value, none that was    *)
(* deleted, forwards and backwards and through every change of direction.  *)
(***************************************************************************)
IteratorIsCursor == View!Spec
=============================================================================
