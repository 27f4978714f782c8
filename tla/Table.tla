-------------------------------- MODULE Table --------------------------------
(***************************************************************************)
(* A table file: TableBuilder with its blocks, index and filters, then the *)
(* iterator over the two levels and InternalGet.                           *)
(*                                                                         *)
(* A user key is a sequence of bytes 0 .. MaxByte.  An internal key has    *)
(* one more byte: how far its sequence number is below the greatest.  In a *)
(* block an offset is the number of an entry; a handle is the number of a  *)
(* block.  A filter is the set of the keys it was made from.  Checksums,   *)
(* compression and files that are damaged are left out.                    *)
(***************************************************************************)
EXTENDS Integers, SequencesExt

CONSTANTS UserKeys, Seqs,    \* keys and sequence numbers of the entries
          MaxSequence,       \* kMaxSequenceNumber
          MaxByte,           \* 0xff
          MaxEntries,        \* bound: entries added
          RestartInterval,   \* block_restart_interval
          FilterBase,        \* kFilterBase
          BlockSizes         \* the sizes a block may have in the file

ASSUME TableAssumption ==
  /\ UserKeys \subseteq Seq(Nat) /\ MaxSequence \in Nat /\ Seqs \subseteq 0 .. MaxSequence
  /\ RestartInterval \in Nat /\ FilterBase \in Nat \ {0} /\ BlockSizes \subseteq Nat

VARIABLES builder,    \* the TableBuilder and the file it wrote
          tableIter,  \* the TwoLevelIterator over the file
          tableOp     \* its last call

tableVars == <<builder, tableIter, tableOp>>

-----------------------------------------------------------------------------
(* Keys.                                                                    *)

\* How many bytes two strings begin with in common.
Common(a, b) ==
  CHOOSE i \in 0 .. Len(a) :
    /\ i <= Len(b) /\ \A j \in 1 .. i : a[j] = b[j]
    /\ (i < Len(a) /\ i < Len(b)) => a[i + 1] # b[i + 1]

StringLess(a, b) ==
  LET i == Common(a, b)
  IN i < Len(b) /\ (i < Len(a) => a[i + 1] < b[i + 1])

InternalKey(user, seq) == Append(user, MaxSequence - seq)
User(k) == Front(k)

\* InternalKeyComparator: of one user key the greatest number is first.
KeyLess(a, b) ==
  StringLess(User(a), User(b)) \/ (User(a) = User(b) /\ Last(a) < Last(b))

\* A user key that became shorter and greater is taken, with the number that is first.
Shortened(k, user) ==
  IF Len(user) < Len(User(k)) /\ StringLess(User(k), user)
  THEN InternalKey(user, MaxSequence) ELSE k

\* Mutant: the separator may reach the key it separates from.
SeparatorAtLimit(k, limit) ==
  LET a == User(k)
      b == User(limit)
      i == Common(a, b)
  IN IF i < Len(a) /\ i < Len(b) /\ a[i + 1] < MaxByte /\ a[i + 1] + 1 <= b[i + 1]
     THEN Shortened(k, Append(SubSeq(a, 1, i), a[i + 1] + 1)) ELSE k

FindShortestSeparator(k, limit) ==
  LET a == User(k)
      b == User(limit)
      i == Common(a, b)
  IN IF i < Len(a) /\ i < Len(b) /\ a[i + 1] < MaxByte /\ a[i + 1] + 1 < b[i + 1]
     THEN Shortened(k, Append(SubSeq(a, 1, i), a[i + 1] + 1)) ELSE k

FindShortSuccessor(k) ==
  LET a == User(k)
      I == {i \in 1 .. Len(a) : a[i] # MaxByte}
      i == CHOOSE i \in I : \A j \in I : i <= j
  IN IF I = {} THEN k ELSE Shortened(k, Append(SubSeq(a, 1, i - 1), a[i] + 1))

-----------------------------------------------------------------------------
(* Blocks.  counter and last belong to the builder of the block.            *)

EmptyBlock == [entries |-> <<>>, restarts |-> <<1>>, counter |-> 0, last |-> <<>>]

\* BlockBuilder::Add: what the key has in common with the last one is not written, except
\* at a restart point.
AddToBlock(b, k, value, interval) ==
  LET restart == b.counter >= interval
      shared == IF restart THEN 0 ELSE Common(b.last, k)
      entry == [shared |-> shared, delta |-> SubSeq(k, shared + 1, Len(k)), value |-> value]
  IN [entries  |-> Append(b.entries, entry),
      restarts |-> IF restart THEN Append(b.restarts, Len(b.entries) + 1) ELSE b.restarts,
      counter  |-> IF restart THEN 1 ELSE b.counter + 1,
      last     |-> k]

\* A Block::Iter: current_, NextEntryOffset, restart_index_ and key_.
BlockIter(b) ==
  [block |-> b, current |-> Len(b.entries) + 1, next |-> 1,
   restart |-> Len(b.restarts) + 1, key |-> <<>>]

Invalid(it) ==
  [it EXCEPT !.current = Len(it.block.entries) + 1, !.restart = Len(it.block.restarts) + 1]

OnEntry(it) == it.current <= Len(it.block.entries)
Value(it)   == it.block.entries[it.current].value

ParseNextKey(it) ==
  LET b == it.block
      e == b.entries[it.next]
      passed == {it.restart} \cup
                {r \in it.restart + 1 .. Len(b.restarts) : b.restarts[r] < it.next}
  IN IF it.next > Len(b.entries) THEN Invalid(it)
     ELSE [it EXCEPT !.current = it.next, !.next = it.next + 1,
                     !.key = SubSeq(it.key, 1, e.shared) \o e.delta,
                     !.restart = CHOOSE r \in passed : \A q \in passed : q <= r]

SeekToRestartPoint(it, r) ==
  [it EXCEPT !.key = <<>>, !.restart = r, !.next = it.block.restarts[r]]

\* The loop of Prev and of SeekToLast: on to the entry that ends at an offset.
ParseUpTo(it, offset) ==
  LET turn[n \in 0 .. Len(it.block.entries)] ==
        IF n = 0 THEN ParseNextKey(it)
        ELSE LET p == turn[n - 1]
             IN IF OnEntry(p) /\ p.next < offset THEN ParseNextKey(p) ELSE p
  IN turn[Len(it.block.entries)]

\* The loop of Seek: on to the first entry that is not before a key.
ParseToKey(it, k) ==
  LET turn[n \in 0 .. Len(it.block.entries)] ==
        IF n = 0 THEN ParseNextKey(it)
        ELSE LET p == turn[n - 1]
             IN IF OnEntry(p) /\ KeyLess(p.key, k) THEN ParseNextKey(p) ELSE p
  IN turn[Len(it.block.entries)]

\* Seek's binary search for the last restart point with a key before k.
Halve(b, k, s) ==
  LET mid == (s.left + s.right + 1) \div 2
  IN IF s.left >= s.right THEN s
     ELSE IF KeyLess(b.entries[b.restarts[mid]].delta, k) THEN [s EXCEPT !.left = mid]
     ELSE [s EXCEPT !.right = mid - 1]

RestartBefore(b, k) ==
  LET turn[n \in 0 .. Len(b.restarts)] ==
        IF n = 0 THEN [left |-> 1, right |-> Len(b.restarts)] ELSE Halve(b, k, turn[n - 1])
  IN turn[Len(b.restarts)].left

FirstInBlock(it) == ParseNextKey(SeekToRestartPoint(it, 1))

LastInBlock(it) ==
  ParseUpTo(SeekToRestartPoint(it, Len(it.block.restarts)), Len(it.block.entries) + 1)

SeekInBlock(it, k) ==
  ParseToKey(SeekToRestartPoint(it, RestartBefore(it.block, k)), k)

\* Mutant: a restart point at the entry itself is taken to be before it.
PrevFromSamePoint(it) ==
  LET R == {r \in 1 .. it.restart : it.block.restarts[r] <= it.current}
  IN IF R = {} THEN Invalid(it)
     ELSE ParseUpTo(SeekToRestartPoint(it, CHOOSE r \in R : \A q \in R : q <= r), it.current)

\* Block::Iter::Prev: from the last restart point before the entry.
PrevInBlock(it) ==
  LET R == {r \in 1 .. it.restart : it.block.restarts[r] < it.current}
  IN IF R = {} THEN Invalid(it)
     ELSE ParseUpTo(SeekToRestartPoint(it, CHOOSE r \in R : \A q \in R : q <= r), it.current)

-----------------------------------------------------------------------------
(* TableBuilder.                                                            *)

\* FilterBlockBuilder: GenerateFilter until there is one for each 2^base bytes before.
GenerateFilter(f) == [filters |-> Append(f.filters, f.keys), keys |-> {}]

StartBlock(f, offset) ==
  LET missing == offset \div FilterBase - Len(f.filters)
  IN IF missing <= 0 THEN f
     ELSE [filters |-> Append(f.filters, f.keys) \o [i \in 1 .. missing - 1 |-> {}],
           keys |-> {}]

\* Flush: the block goes to the file with a size and the index entry is pending.
Flush(t, size) ==
  IF t.data.entries = <<>> THEN t
  ELSE [t EXCEPT !.file = Append(t.file, [block |-> t.data, offset |-> t.offset]),
                 !.data = EmptyBlock, !.offset = t.offset + size,
                 !.pending = TRUE, !.filter = StartBlock(t.filter, t.offset + size)]

\* The index has one entry for each block, each of them a restart point.
AddPending(t, separator) ==
  IF t.pending
  THEN [t EXCEPT !.index = AddToBlock(t.index, separator, Len(t.file), 1), !.pending = FALSE]
  ELSE t

\* Add: the pending index entry can now be separated from this key.  The block is flushed
\* when it is large enough.
Add(k) ==
  /\ ~builder.closed /\ Cardinality(builder.added) < MaxEntries
  /\ \A j \in builder.added : KeyLess(j, k)
  /\ \E full \in BOOLEAN, size \in BlockSizes :
       LET t == AddPending(builder, FindShortestSeparator(builder.last, k))
           u == [t EXCEPT !.filter.keys = @ \cup {User(k)}, !.last = k,
                          !.added = @ \cup {k},
                          !.data = AddToBlock(t.data, k, k, RestartInterval)]
       IN builder' = IF full THEN Flush(u, size) ELSE u
  /\ UNCHANGED <<tableIter, tableOp>>

NoIter == [index |-> BlockIter(EmptyBlock), data |-> BlockIter(EmptyBlock), handle |-> 0]

\* Finish, and an iterator over the table.
Finish ==
  /\ ~builder.closed
  /\ \E size \in BlockSizes :
       LET t == Flush(builder, size)
           u == AddPending(t, FindShortSuccessor(t.last))
       IN /\ builder' = [u EXCEPT !.closed = TRUE,
                                  !.filter = IF u.filter.keys = {} THEN u.filter
                                             ELSE GenerateFilter(u.filter)]
          /\ tableIter' = [NoIter EXCEPT !.index = BlockIter(u.index)]
  /\ UNCHANGED tableOp

-----------------------------------------------------------------------------
(* TwoLevelIterator.  handle is the block data was made from, 0 for NULL.   *)

InitDataBlock(it) ==
  IF ~OnEntry(it.index) THEN [NoIter EXCEPT !.index = it.index]
  ELSE IF it.handle = Value(it.index) THEN it
  ELSE [it EXCEPT !.data = BlockIter(builder.file[Value(it.index)].block),
                  !.handle = Value(it.index)]

FirstInData(it) == IF it.handle = 0 THEN it ELSE [it EXCEPT !.data = FirstInBlock(@)]
LastInData(it)  == IF it.handle = 0 THEN it ELSE [it EXCEPT !.data = LastInBlock(@)]

\* Past the blocks that are at their end: the next one, or none when the index ends.
ToNextBlock(it) ==
  IF it.handle # 0 /\ OnEntry(it.data) THEN it
  ELSE IF ~OnEntry(it.index) THEN [NoIter EXCEPT !.index = it.index]
  ELSE FirstInData(InitDataBlock([it EXCEPT !.index = ParseNextKey(@)]))

SkipForward(it) ==
  LET turn[n \in 0 .. Len(builder.file) + 1] == IF n = 0 THEN it ELSE ToNextBlock(turn[n - 1])
  IN turn[Len(builder.file) + 1]

ToPrevBlock(it) ==
  IF it.handle # 0 /\ OnEntry(it.data) THEN it
  ELSE IF ~OnEntry(it.index) THEN [NoIter EXCEPT !.index = it.index]
  ELSE LastInData(InitDataBlock([it EXCEPT !.index = PrevInBlock(@)]))

SkipBackward(it) ==
  LET turn[n \in 0 .. Len(builder.file) + 1] == IF n = 0 THEN it ELSE ToPrevBlock(turn[n - 1])
  IN turn[Len(builder.file) + 1]

TableMoved(call, it) ==
  /\ builder.closed
  /\ tableOp' = call /\ tableIter' = it
  /\ UNCHANGED builder

TableSeekToFirst ==
  TableMoved(<<"first">>,
    SkipForward(FirstInData(InitDataBlock([tableIter EXCEPT !.index = FirstInBlock(@)]))))

TableSeekToLast ==
  TableMoved(<<"last">>,
    SkipBackward(LastInData(InitDataBlock([tableIter EXCEPT !.index = LastInBlock(@)]))))

TableSeek(k) ==
  LET it == InitDataBlock([tableIter EXCEPT !.index = SeekInBlock(@, k)])
  IN TableMoved(<<"seek", k>>,
       SkipForward(IF it.handle = 0 THEN it ELSE [it EXCEPT !.data = SeekInBlock(@, k)]))

TableNext ==
  /\ OnEntry(tableIter.data)
  /\ TableMoved(<<"next">>, SkipForward([tableIter EXCEPT !.data = ParseNextKey(@)]))

TablePrev ==
  /\ OnEntry(tableIter.data)
  /\ TableMoved(<<"prev">>, SkipBackward([tableIter EXCEPT !.data = PrevInBlock(@)]))

-----------------------------------------------------------------------------
(* Table::InternalGet.                                                      *)

\* FilterBlockReader::KeyMayMatch: the filter for where the block begins, if there is one.
KeyMayMatch(offset, user) ==
  LET f == builder.filter.filters
      index == offset \div FilterBase + 1
  IN index <= Len(f) => user \in f[index]

\* What is given to the saver, if it is an entry of the user key.
InternalGet(k, filtered) ==
  LET i == SeekInBlock(BlockIter(builder.index), k)
      handle == builder.file[Value(i)]
      b == SeekInBlock(BlockIter(handle.block), k)
  IN IF ~OnEntry(i) \/ (filtered /\ ~KeyMayMatch(handle.offset, User(k))) \/ ~OnEntry(b)
     THEN {} ELSE {c \in {b.key} : User(c) = User(k)}

-----------------------------------------------------------------------------
SeekTargets == {InternalKey(u, s) : u \in UserKeys, s \in 0 .. MaxSequence}

TableInit ==
  /\ builder = [data |-> EmptyBlock, index |-> EmptyBlock, pending |-> FALSE,
                filter |-> [filters |-> <<>>, keys |-> {}], file |-> <<>>, offset |-> 0,
                last |-> <<>>, added |-> {}, closed |-> FALSE]
  /\ tableIter = NoIter
  /\ tableOp = <<"none">>

Build == (\E u \in UserKeys, s \in Seqs : Add(InternalKey(u, s))) \/ Finish
TableMove ==
  \/ TableSeekToFirst \/ TableSeekToLast \/ (\E k \in SeekTargets : TableSeek(k))
  \/ TableNext \/ TablePrev

TableStep == Build \/ TableMove

TableSpec == TableInit /\ [][TableStep]_tableVars

-----------------------------------------------------------------------------
\* The iterator's key() and value(), which is the key it was added with.
TableShown ==
  IF OnEntry(tableIter.data)
  THEN {[key |-> tableIter.data.key, value |-> Value(tableIter.data)]} ELSE {}

Entry == {[key |-> k, value |-> k] : k \in builder.added}

EntryLess(c, d) == KeyLess(c.key, d.key)
EntryEnds(c, k) == ~KeyLess(c.key, k)

TableView == INSTANCE Cursor WITH
  Less <- EntryLess, Target <- SeekTargets, Ends <- EntryEnds, contents <- Entry, at <- TableShown,
  op <- tableOp

(***************************************************************************)
(* The iterator over a finished table is a cursor over the entries that    *)
(* were added, whatever the sizes of the blocks, the places of the restart *)
(* points and the separators in the index.                                 *)
(***************************************************************************)
TableIsCursor ==
  TableView!Init /\ [][builder.closed => TableView!Move /\ UNCHANGED Entry]_<<TableShown, tableOp>>

(***************************************************************************)
(* InternalGet finds the newest entry of a user key that a snapshot may    *)
(* see, and nothing when there is none; the filter of the block the index  *)
(* leads to never hides it.                                                *)
(***************************************************************************)
GetFindsTheNewest ==
  builder.closed =>
    \A u \in UserKeys, s \in 0 .. MaxSequence, filtered \in BOOLEAN :
      InternalGet(InternalKey(u, s), filtered) =
        {k \in builder.added :
           /\ User(k) = u /\ ~KeyLess(k, InternalKey(u, s))
           /\ \A j \in builder.added : User(j) = u /\ ~KeyLess(j, InternalKey(u, s)) => ~KeyLess(j, k)}
=============================================================================
