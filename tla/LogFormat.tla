------------------------------ MODULE LogFormat ------------------------------
(***************************************************************************)
(* The format of logs and MANIFESTs: log::Writer cuts records into         *)
(* fragments that do not cross blocks, log::Reader puts them together      *)
(* again, from a file that a crash cut anywhere, from an offset in its     *)
(* middle, or with a fragment that was damaged.                            *)
(*                                                                         *)
(* A fragment is where its header is, its type, its length and the record  *)
(* it is from: the reader never looks at bytes that are not a fragment's   *)
(* header, its payload, or the zeros that end a block.                     *)
(***************************************************************************)
EXTENDS Integers, SequencesExt

CONSTANTS BlockSize,     \* kBlockSize
          HeaderSize,    \* kHeaderSize
          Sizes,         \* sizes of records
          MaxRecords     \* bound: records added

\* A block has room for a header and more.
ASSUME LogAssumption ==
  /\ HeaderSize \in Nat \ {0} /\ BlockSize \in Nat /\ BlockSize > HeaderSize
  /\ Sizes \subseteq Nat

VARIABLES fragments,     \* what the file holds, zeros apart
          size,          \* its size
          blockOffset,   \* block_offset_ of the writer
          records        \* where the records begin and end

logVars == <<fragments, size, blockOffset, records>>

-----------------------------------------------------------------------------
(* log::Writer.                                                             *)

Smaller(a, b) == IF a < b THEN a ELSE b

\* The zeros that fill a block too short for a header.
Trailer(offset) == IF BlockSize - offset < HeaderSize THEN BlockSize - offset ELSE 0

\* One turn of the loop of AddRecord: EmitPhysicalRecord, and what is left of the record.
EmitPhysicalRecord(w) ==
  LET start  == w.size + Trailer(w.offset)
      inside == IF BlockSize - w.offset < HeaderSize THEN 0 ELSE w.offset
      length == Smaller(w.left, BlockSize - inside - HeaderSize)
      end    == w.left = length
      type   == IF w.begin /\ end THEN "full" ELSE IF w.begin THEN "first"
                ELSE IF end THEN "last" ELSE "middle"
      g == [at |-> start, type |-> type, length |-> length, rec |-> Len(records) + 1]
  IN IF w.done THEN w
     ELSE [fs |-> Append(w.fs, g), size |-> start + HeaderSize + length,
           offset |-> inside + HeaderSize + length, left |-> w.left - length,
           begin |-> FALSE, done |-> end]

\* The loop, which an empty record goes through once; only the first fragment of another
\* may be empty.
Emitted(n) ==
  LET turn[k \in 0 .. n + 1] ==
        IF k = 0
        THEN [fs |-> fragments, size |-> size, offset |-> blockOffset, left |-> n,
              begin |-> TRUE, done |-> FALSE]
        ELSE EmitPhysicalRecord(turn[k - 1])
  IN turn[n + 1]

AddRecord(n) ==
  /\ Len(records) < MaxRecords
  /\ LET w == Emitted(n)
         begin == w.fs[Len(fragments) + 1].at
     IN /\ fragments' = w.fs /\ size' = w.size /\ blockOffset' = w.offset
        /\ records' = Append(records, [from |-> begin, to |-> w.size])

\* A writer for a file that has data already.
Reopen ==
  /\ blockOffset' = size % BlockSize
  /\ UNCHANGED <<fragments, size, records>>

LogInit == fragments = <<>> /\ size = 0 /\ blockOffset = 0 /\ records = <<>>

LogNext == (\E n \in Sizes : AddRecord(n)) \/ Reopen

LogSpec == LogInit /\ [][LogNext]_logVars

-----------------------------------------------------------------------------
(* log::Reader, of a file that ends at `end`, from initial_offset_, with    *)
(* the fragments in `damaged` failing their checksum and those in `wrong`   *)
(* with a length that is too large for their block.                         *)

File(end, initial, damaged, wrong) ==
  [end |-> end, initial |-> initial, damaged |-> damaged, wrong |-> wrong]

\* Where the block begins that has a byte.
BlockOf(p) == p - (p % BlockSize)

\* Mutant: the search begins after the block of the offset.
NextBlock(initial) == BlockOf(initial + BlockSize - 1)

\* SkipToInitialBlock: 6 is the largest trailer.
FirstBlock(initial) ==
  BlockOf(initial)
    + (IF initial % BlockSize > BlockSize - (HeaderSize - 1) THEN BlockSize ELSE 0)

\* The reader: what of its buffer is read and where that ends, whether the last read came
\* short, and the logical record that is being put together.
Start(f) ==
  [at |-> FirstBlock(f.initial), buffered |-> FirstBlock(f.initial), eof |-> FALSE,
   resyncing |-> f.initial > 0, pieces |-> {}, found |-> <<>>, reports |-> 0, done |-> FALSE]

\* A buffer too short for a header is read anew, unless the last read came short; once is
\* enough, for what is read is a whole block or comes short.
Refill(f, r) ==
  LET from == Smaller(r.buffered, f.end)
      next == Smaller(r.buffered + BlockSize, f.end)
  IN IF r.buffered - r.at >= HeaderSize \/ r.eof THEN r
     ELSE [r EXCEPT !.at = from, !.buffered = next, !.eof = next - from < BlockSize]

\* Mutant: a record that the end of the file cuts is a corruption.
NeverDied(r) == FALSE

\* A length that is beyond the buffer is that of a writer that died, at the end of the file.
WriterDied(r) == r.eof

\* The fragment whose header the reader is at.
FragmentAt(p) == CHOOSE g \in ToSet(fragments) : g.at = p

\* The rest of the buffer is not read.
Dropped(r) == [r EXCEPT !.at = r.buffered]

Corrupted(f, r) ==
  [Dropped(r) EXCEPT !.reports = @ + (IF r.at >= f.initial THEN 1 ELSE 0)]

\* ReadPhysicalRecord, of a buffer that was filled.
Parse(f, r) ==
  LET Result(type, s) == [type |-> type, reader |-> s]
      g == FragmentAt(r.at)
      past == r.at + HeaderSize + g.length
  IN IF r.buffered - r.at < HeaderSize THEN Result("eof", Dropped(r))
     ELSE IF past > r.buffered \/ g \in f.wrong
     THEN IF WriterDied(r) THEN Result("eof", Dropped(r)) ELSE Result("bad", Corrupted(f, r))
     ELSE IF g \in f.damaged THEN Result("bad", Corrupted(f, r))
     ELSE Result(IF r.at < f.initial THEN "bad" ELSE g.type, [r EXCEPT !.at = past])

ReadPhysicalRecord(f, r) == Parse(f, Refill(f, r))

\* Mutant: what was read of a record is kept when a fragment of it is bad.
KeepsPieces(s, n) == [s EXCEPT !.reports = @ + n]

\* An error in the middle of a record.
Forgets(s, n) == [s EXCEPT !.reports = @ + n, !.pieces = {}]

\* One turn of the loop of ReadRecord.  It is called again and again until the end of the
\* file, so that the record found is put with those before.
ReadFragment(f, r) ==
  LET p == ReadPhysicalRecord(f, r)
      g == FragmentAt(Refill(f, r).at)
      s == [p.reader EXCEPT !.resyncing = FALSE]
      inRecord == r.pieces # {}
      begun == IF \E d \in r.pieces : d.length > 0 THEN 1 ELSE 0
      Found(t, pieces) == [t EXCEPT !.found = Append(@, pieces), !.pieces = {}]
  IN IF r.done THEN r ELSE
     CASE p.type = "eof" -> [s EXCEPT !.done = TRUE]
       [] p.type = "bad" -> Forgets(s, IF inRecord THEN 1 ELSE 0)
       [] p.type = "full" -> Found(Forgets(s, begun), {g})
       [] p.type = "first" -> [Forgets(s, begun) EXCEPT !.pieces = {g}]
       [] p.type = "middle" ->
            IF r.resyncing THEN p.reader
            ELSE IF inRecord THEN [s EXCEPT !.pieces = @ \cup {g}] ELSE Forgets(s, 1)
       [] p.type = "last" ->
            IF r.resyncing THEN s
            ELSE IF inRecord THEN Found(s, r.pieces \cup {g}) ELSE Forgets(s, 1)

\* A turn reads a fragment or more, or is the last.
Read(end, initial, damaged, wrong) ==
  LET f == File(end, initial, damaged, wrong)
      turn[k \in 0 .. Len(fragments) + 1] ==
        IF k = 0 THEN Start(f) ELSE ReadFragment(f, turn[k - 1])
  IN turn[Len(fragments) + 1]

-----------------------------------------------------------------------------
\* The fragments of some of the records, in order.
Written(kept) ==
  LET first[i \in 0 .. Len(records)] ==
        IF i = 0 THEN <<>>
        ELSE IF i \in kept THEN Append(first[i - 1], {g \in ToSet(fragments) : g.rec = i})
        ELSE first[i - 1]
  IN first[Len(records)]

(***************************************************************************)
(* A file that a crash cut at any byte reads as the records that were      *)
(* written whole, and nothing is reported: the end of a writer that died   *)
(* is not a corruption.                                                    *)
(***************************************************************************)
CutFileReadsWhole ==
  \A end \in 0 .. size :
    LET whole == {i \in DOMAIN records : records[i].to <= end}
        r == Read(end, 0, {}, {})
    IN r.found = Written(whole) /\ r.reports = 0

(***************************************************************************)
(* "Start reading at the first record located at physical position >=      *)
(* initial_offset" (log_reader.h): from any byte, also one in a trailer or *)
(* in the middle of a record of several blocks, exactly those are read.    *)
(***************************************************************************)
OffsetReadsTheRest ==
  \A initial \in 0 .. size :
    LET later == {i \in DOMAIN records : records[i].from >= initial}
    IN Read(size, initial, {}, {}).found = Written(later)

(***************************************************************************)
(* A damaged fragment costs the records with a fragment from there to the  *)
(* end of its block and no others; what is read was written, none is put   *)
(* together from pieces of two, and a wrong checksum is reported.          *)
(***************************************************************************)
DamageIsContained ==
  \A g \in ToSet(fragments) :
    LET lost == {d \in ToSet(fragments) : BlockOf(d.at) = BlockOf(g.at) /\ d.at >= g.at}
        untouched == {i \in DOMAIN records : \A d \in lost : d.rec # i}
        checksum == Read(size, 0, {g}, {})
    IN /\ checksum.found = Written(untouched) /\ checksum.reports > 0
       /\ Read(size, 0, {}, {g}).found = Written(untouched)
=============================================================================
