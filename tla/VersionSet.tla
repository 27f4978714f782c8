----------------------------- MODULE VersionSet -----------------------------
(***************************************************************************)
(* LevelDB's tree of tables: the memtables, the levels, the choice of what *)
(* is compacted, which entries a compaction drops, and how a key is read   *)
(* at a snapshot.  Sizes in bytes are abstracted: where the code compares  *)
(* one with a limit, both outcomes are possible.                           *)
(*                                                                         *)
(* One thread works in the background.  A compaction is two steps, because *)
(* the mutex is free between them: writes, snapshots and the compaction of *)
(* the immutable memtable come in the middle.                              *)
(***************************************************************************)
EXTENDS Integers, FiniteSetsExt

CONSTANTS NumKeys,           \* the user keys are 1 .. NumKeys
          MaxSequence,       \* bound: writes made
          NumLevels,         \* kNumLevels
          MaxMemCompactLevel,\* kMaxMemCompactLevel
          SnapshotsAt,       \* bound: the numbers snapshots are taken at
          SplitKeys,         \* an output may end between two entries of one user key
          Manual             \* CompactRange is called

ASSUME VersionSetAssumption ==
  /\ {NumKeys, MaxSequence, NumLevels} \subseteq Nat \ {0}
  /\ MaxMemCompactLevel \in 0 .. NumLevels - 1
  /\ SnapshotsAt \subseteq Nat
  /\ {SplitKeys, Manual} \subseteq BOOLEAN

VARIABLES lastSequence,   \* last_sequence_
          mem, imm,       \* entries of mem_ and imm_; {} is no immutable memtable
          files,          \* files_ of current_: the tables of each level
          snapshots,      \* sequence numbers held by snapshots
          compaction      \* the compaction whose work is being done, if any

vars == <<lastSequence, mem, imm, files, snapshots, compaction>>

UserKey == 1 .. NumKeys
Level   == 0 .. NumLevels - 1
Entry   == [key : UserKey, seq : 1 .. MaxSequence, type : {"value", "deletion"}]

\* Internal keys: user keys ascending, sequence numbers descending.
Before(a, b) == a.key < b.key \/ (a.key = b.key /\ a.seq > b.seq)

First(E) == CHOOSE e \in E : \A d \in E \ {e} : Before(e, d)
Last(E)  == CHOOSE e \in E : \A d \in E \ {e} : Before(d, e)

Smallest(f) == First(f.entries)
Largest(f)  == Last(f.entries)

-----------------------------------------------------------------------------
(* Reading.                                                                 *)

\* What a seek to the key at the sequence number finds in a memtable or table: the newest
\* entry of the key that the number sees, in a set that is empty when there is none.
Seek(E, k, s) ==
  {e \in E : e.key = k /\ e.seq <= s /\ \A d \in E : d.key = k /\ d.seq <= s => d.seq <= e.seq}

\* FindFile: the first table of a sorted level that ends at or after the internal key,
\* in a set that is empty when there is none.
FindFile(fs, e) ==
  {f \in fs : /\ ~Before(Largest(f), e)
              /\ \A g \in fs : ~Before(Largest(g), e) => ~Before(Largest(g), Largest(f))}

\* Level 0 is searched table by table, the newest number first.
GetLevel0(fs, k, s) ==
  UNION {Seek(f.entries, k, s) :
           f \in {f \in fs : \A g \in fs : g.number > f.number => Seek(g.entries, k, s) = {}}}

\* In each other level one table is searched.
GetLevel(fs, k, s) ==
  UNION {Seek(f.entries, k, s) :
           f \in {f \in FindFile(fs, [key |-> k, seq |-> s]) : k >= Smallest(f).key}}

\* Version::Get: the first level that has an entry of the key decides.
GetVersion(v, k, s) ==
  LET At(l) == IF l = 0 THEN GetLevel0(v[0], k, s) ELSE GetLevel(v[l], k, s)
      Deciding(l) == At(l) # {} /\ \A j \in 0 .. l - 1 : At(j) = {}
  IN UNION {At(l) : l \in {l \in Level : Deciding(l)}}

\* DBImpl::Get: the memtable, then the immutable one, then the tables.
GetEntry(k, s) ==
  IF Seek(mem, k, s) # {} THEN Seek(mem, k, s)
  ELSE IF Seek(imm, k, s) # {} THEN Seek(imm, k, s)
  ELSE GetVersion(files, k, s)

\* {} is NotFound, and a value is told by the number of its write.
Get(k, s) == {e.seq : e \in {d \in GetEntry(k, s) : d.type = "value"}}

-----------------------------------------------------------------------------
(* Ranges of user keys, and the tables that touch them.                     *)

Touches(f, lo, hi) == Largest(f).key >= lo /\ Smallest(f).key <= hi

LowKey(fs)  == Min({Smallest(f).key : f \in fs})
HighKey(fs) == Max({Largest(f).key : f \in fs})

OverlapInLevel(v, l, lo, hi) == \E f \in v[l] : Touches(f, lo, hi)

\* The range, widened to the tables of level 0 that touch it.
Widened(v, r) ==
  LET t == {f \in v[0] : Touches(f, r[1], r[2])}
  IN IF t = {} THEN r ELSE <<Min({r[1], LowKey(t)}), Max({r[2], HighKey(t)})>>

Ranges(v, lo, hi) ==
  LET range[n \in 0 .. NumKeys] == IF n = 0 THEN <<lo, hi>> ELSE Widened(v, range[n - 1])
  IN range

\* GetOverlappingInputs: in level 0 a table that is taken widens the range, and the
\* search starts again.
GetOverlappingInputs(v, l, lo, hi) ==
  LET r == IF l = 0 THEN Ranges(v, lo, hi)[NumKeys] ELSE <<lo, hi>>
  IN {f \in v[l] : Touches(f, r[1], r[2])}

\* SetupOtherInputs: the tables of the next level, and more of this level when that
\* brings none of the next.  Whether the sizes allow it is open.
SetupOtherInputs(v, l, in0) ==
  LET in1  == GetOverlappingInputs(v, l + 1, LowKey(in0), HighKey(in0))
      all  == in0 \cup in1
      exp0 == GetOverlappingInputs(v, l, LowKey(all), HighKey(all))
      exp1 == GetOverlappingInputs(v, l + 1, LowKey(exp0), HighKey(exp0))
      plain == [level |-> l, in0 |-> in0, in1 |-> in1]
  IN {plain} \cup
     IF /\ in1 # {}
        /\ Cardinality(exp0) > Cardinality(in0)
        /\ Cardinality(exp1) = Cardinality(in1)
     THEN {[level |-> l, in0 |-> exp0, in1 |-> exp1]}
     ELSE {}

\* PickCompaction: a level that is too big, or a table that cost too many seeks.  The
\* last level is never compacted.
PickCompaction(v) ==
  UNION {LET in0(f) == IF l = 0 THEN GetOverlappingInputs(v, 0, Smallest(f).key, Largest(f).key)
                       ELSE {f}
         IN UNION {SetupOtherInputs(v, l, in0(f)) : f \in v[l]} : l \in 0 .. NumLevels - 2}

\* CompactRange: the tables of the range; above level 0 the first of them, up to a size.
CompactRange(v, l, lo, hi) ==
  LET inputs == GetOverlappingInputs(v, l, lo, hi)
      UpTo(f) == {g \in inputs : ~Before(Smallest(f), Smallest(g))}
  IN IF inputs = {} THEN {}
     ELSE IF l = 0 THEN SetupOtherInputs(v, l, inputs)
     ELSE UNION {SetupOtherInputs(v, l, UpTo(f)) : f \in inputs}

-----------------------------------------------------------------------------
(* What a compaction writes.                                                *)

InputEntries(c) == UNION {f.entries : f \in c.in0 \cup c.in1}

\* Mutant: a level below that may have the key is not looked at.
AlwaysBaseLevel(c, k) == TRUE

IsBaseLevelForKey(c, k) ==
  \A l \in c.level + 2 .. NumLevels - 1 : ~OverlapInLevel(c.version, l, k, k)

\* Hidden by a newer entry that every snapshot sees, or a deletion with nothing left
\* to hide.
Drops(c, e) ==
  \/ \E d \in InputEntries(c) :
       d.key = e.key /\ d.seq > e.seq /\ d.seq <= c.smallestSnapshot
  \/ /\ e.type = "deletion"
     /\ e.seq <= c.smallestSnapshot
     /\ IsBaseLevelForKey(c, e.key)

\* Where the outputs may be cut: after any entry that is kept.
CutPoints(kept) ==
  IF SplitKeys THEN kept
  ELSE {e \in kept : \A d \in kept : d.key = e.key => d.seq >= e.seq}

\* The tables for the kept entries, cut after the entries of cuts.
Outputs(kept, cuts) ==
  LET Run(e) == Cardinality({d \in cuts : Before(d, e)})
      runs == {Run(e) : e \in kept}
  IN {[number |-> 0, entries |-> {e \in kept : Run(e) = r}] : r \in runs}

\* Numbers order the tables of level 0 and no others: the others have 0 here.
NewFileNumber == 1 + Max({0} \cup {f.number : f \in files[0]})

-----------------------------------------------------------------------------
Init ==
  /\ lastSequence = 0
  /\ mem = {} /\ imm = {}
  /\ files = [l \in Level |-> {}]
  /\ snapshots = {}
  /\ compaction = {}

\* MemTable::Add of one entry of a batch.
Write(k, t) ==
  /\ lastSequence < MaxSequence
  /\ lastSequence' = lastSequence + 1
  /\ mem' = mem \cup {[key |-> k, seq |-> lastSequence + 1, type |-> t]}
  /\ UNCHANGED <<imm, files, snapshots, compaction>>

\* MakeRoomForWrite switches to a new memtable once the old immutable one is gone.
SwitchMemTable ==
  /\ mem # {} /\ imm = {}
  /\ imm' = mem /\ mem' = {}
  /\ UNCHANGED <<lastSequence, files, snapshots, compaction>>

\* A snapshot of a number that is held is that one again.
GetSnapshot ==
  /\ lastSequence \in SnapshotsAt
  /\ lastSequence \notin snapshots
  /\ snapshots' = snapshots \cup {lastSequence}
  /\ UNCHANGED <<lastSequence, mem, imm, files, compaction>>

ReleaseSnapshot(s) ==
  /\ s \in snapshots
  /\ snapshots' = snapshots \ {s}
  /\ UNCHANGED <<lastSequence, mem, imm, files, compaction>>

\* Mutant: the memtable's table goes down whatever overlaps it.
AnyLevel(v, lo, hi) == 0 .. MaxMemCompactLevel

\* PickLevelForMemTableOutput: down while nothing overlaps, or less far when much of
\* the level after the next does.
PickLevelForMemTableOutput(v, lo, hi) ==
  LET Free(l) == ~OverlapInLevel(v, l, lo, hi)
  IN {l \in 0 .. MaxMemCompactLevel :
        /\ \A j \in 1 .. l : Free(j)
        /\ l > 0 => Free(0)
        /\ \/ l = MaxMemCompactLevel \/ ~Free(0) \/ ~Free(l + 1)
           \/ l + 2 < NumLevels /\ ~Free(l + 2)}

\* CompactMemTable: also in the middle of a compaction's work.
CompactMemTable ==
  /\ imm # {}
  /\ \E l \in PickLevelForMemTableOutput(files, First(imm).key, Last(imm).key) :
       LET f == [number |-> IF l = 0 THEN NewFileNumber ELSE 0, entries |-> imm]
       IN files' = [files EXCEPT ![l] = @ \cup {f}]
  /\ imm' = {}
  /\ UNCHANGED <<lastSequence, mem, snapshots, compaction>>

\* The edit of a compaction: its inputs go, its outputs come one level down.
Applied(c, outputs) ==
  [files EXCEPT ![c.level] = @ \ c.in0, ![c.level + 1] = (@ \ c.in1) \cup outputs]

\* Mutant: a second compaction is picked while the first one works.
MayCompactTwice == imm = {}

\* BackgroundCompaction: no compaction runs, and an immutable memtable goes first.
MayCompact == compaction = {} /\ imm = {}

\* A single table without anything to merge with moves down.
MoveFile ==
  /\ MayCompact
  /\ \E c \in PickCompaction(files) :
       /\ Cardinality(c.in0) = 1 /\ c.in1 = {}
       /\ files' = Applied(c, {[f EXCEPT !.number = 0] : f \in c.in0})
  /\ UNCHANGED <<lastSequence, mem, imm, snapshots, compaction>>

\* DoCompactionWork up to where it releases the mutex.
SmallestSnapshot == IF snapshots = {} THEN lastSequence ELSE Min(snapshots)

StartCompaction ==
  /\ MayCompact
  /\ \E c \in PickCompaction(files) \cup
              IF Manual
              THEN UNION {CompactRange(files, l, lo, hi) :
                            l \in 0 .. NumLevels - 2, lo \in UserKey, hi \in UserKey}
              ELSE {} :
       compaction' = {[level |-> c.level, in0 |-> c.in0, in1 |-> c.in1, version |-> files,
                       smallestSnapshot |-> SmallestSnapshot]}
  /\ UNCHANGED <<lastSequence, mem, imm, files, snapshots>>

\* The rest of DoCompactionWork, and InstallCompactionResults.
FinishCompaction ==
  /\ \E c \in compaction :
       LET kept == {e \in InputEntries(c) : ~Drops(c, e)}
       IN \E cuts \in SUBSET CutPoints(kept) : files' = Applied(c, Outputs(kept, cuts))
  /\ compaction' = {}
  /\ UNCHANGED <<lastSequence, mem, imm, snapshots>>

Next ==
  \/ \E k \in UserKey, t \in {"value", "deletion"} : Write(k, t)
  \/ SwitchMemTable \/ GetSnapshot
  \/ \E s \in snapshots : ReleaseSnapshot(s)
  \/ CompactMemTable \/ MoveFile \/ StartCompaction \/ FinishCompaction

Spec == Init /\ [][Next]_vars
=============================================================================
