------------------------ MODULE VersionSetProperties ------------------------
(***************************************************************************)
(* What the tree of tables must keep, and the store it implements.         *)
(***************************************************************************)
EXTENDS VersionSet

Table == [number : Nat, entries : SUBSET Entry]

(***************************************************************************)
(* The type invariant: in it, that the inputs of a compaction are tables   *)
(* of the current version for as long as it works.                         *)
(***************************************************************************)
TypeOK ==
  /\ lastSequence \in 0 .. MaxSequence
  /\ mem \subseteq Entry /\ imm \subseteq Entry
  /\ \A l \in Level : files[l] \subseteq Table
  /\ snapshots \subseteq 0 .. MaxSequence
  /\ \A c \in compaction : /\ c.level \in 0 .. NumLevels - 2
                           /\ c.in0 \subseteq files[c.level]
                           /\ c.in1 \subseteq files[c.level + 1]

(***************************************************************************)
(* Version::Builder asserts that above level 0 the tables of a level never *)
(* overlap: a search there looks into one table only.  Two tables may meet *)
(* in a user key, not in an internal one.                                  *)
(***************************************************************************)
LevelsDisjoint ==
  \A l \in Level \ {0} : \A f, g \in files[l] :
    f = g \/ Before(Largest(f), Smallest(g)) \/ Before(Largest(g), Smallest(f))

\* Where an entry is looked for: memtables, then the tables of level 0 from the newest,
\* then the levels.
Places ==
  {<<-2, 0, mem>>, <<-1, 0, imm>>} \cup
  UNION {{<<l, IF l = 0 THEN -f.number ELSE 0, f.entries>> : f \in files[l]} : l \in Level}

Above(p, q) == p[1] < q[1] \/ (p[1] = q[1] /\ p[2] < q[2])

(***************************************************************************)
(* "Entries never hop across levels" (Version::Get): of two entries of one *)
(* key the newer one is never deeper, whatever flushes, moves and merges   *)
(* were done, so the first place that has the key has its newest entry.    *)
(***************************************************************************)
EntriesNeverHop ==
  \A p, q \in Places : Above(p, q) =>
    \A d \in p[3], e \in q[3] : d.key = e.key => d.seq > e.seq

Store == INSTANCE SnapshotStore WITH
  Key <- UserKey, Absent <- {}, Snapshot <- 0 .. MaxSequence,
  Value  <- [s \in 1 .. MaxSequence |-> {s}],
  writes <- lastSequence,
  value  <- [k \in UserKey |-> Get(k, lastSequence)],
  frozen <- [s \in snapshots |-> [k \in UserKey |-> Get(k, s)]]

(***************************************************************************)
(* The tree implements the store with snapshots: a write gives its key its *)
(* own value or none and leaves the other keys, and flushes, moves and     *)
(* merges, which take no sequence number, change nothing a reader sees, at *)
(* the present or at any snapshot held.                                    *)
(***************************************************************************)
ReadsAreSnapshots == Store!Spec
=============================================================================
