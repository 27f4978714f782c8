------------------------ MODULE VersionSetInvariant ------------------------
(***************************************************************************)
(* Why the tree of tables keeps what it must: the invariant the proofs     *)
(* rest on.  It speaks of the memtables m and i and of the tables v, so    *)
(* that it can be said of the tree before a step and of the tree after it. *)
(***************************************************************************)
EXTENDS VersionSetProperties

EntriesOf(fs) == UNION {f.entries : f \in fs}
InFiles(v) == UNION {EntriesOf(v[l]) : l \in Level}
Everything(m, i, v) == m \cup i \cup InFiles(v)

\* A sequence number is one write.
Unique(E) == \A d, e \in E : d.seq = e.seq => d = e

\* Tables that a search can be made in.
Searchable(fs) == \A f \in fs : f.entries \in SUBSET Entry /\ f.entries # {} /\ Unique(f.entries)

\* No user key between the first and the last of the tables is outside them all.
Spanned(fs) ==
  \A k \in UserKey : LowKey(fs) <= k /\ k <= HighKey(fs) => \E f \in fs : Touches(f, k, k)

\* With what covers a range, the tables cover a wider one that they all touch.
Covering(fs, lo, hi) ==
  \E a, b \in UserKey :
    /\ a <= lo /\ hi <= b
    /\ \A f \in fs : Touches(f, a, b)
    /\ \A k \in UserKey : a <= k /\ k <= b => (lo <= k /\ k <= hi) \/ \E f \in fs : Touches(f, k, k)

\* How the tables of a level follow each other: they may meet in a user key only where
\* outputs are split there.
Precedes(d, e) == IF SplitKeys THEN Before(d, e) ELSE d.key < e.key
Left(E, F)  == \A d \in E, e \in F : Precedes(d, e)
Apart(E, F) == Left(E, F) \/ Left(F, E)

\* E comes before F when a key is looked for.
Newer(E, F) == \A d \in E, e \in F : d.key = e.key => d.seq > e.seq

TreeTyped(m, i, v, last) ==
  /\ m \subseteq Entry /\ i \subseteq Entry /\ v \in [Level -> SUBSET Table]
  /\ last \in 0 .. MaxSequence
  /\ \A l \in Level : IsFiniteSet(v[l]) /\ \A f \in v[l] : f.entries # {}
  /\ Unique(Everything(m, i, v)) /\ \A e \in Everything(m, i, v) : e.seq <= last
  /\ \A f, g \in v[0] : f.number = g.number => f = g

Sorted(v) == \A l \in Level \ {0} : \A f, g \in v[l] : f = g \/ Apart(f.entries, g.entries)

Layered(m, i, v) ==
  /\ Newer(m, i \cup InFiles(v)) /\ Newer(i, InFiles(v))
  /\ \A f, g \in v[0] : f.number > g.number => Newer(f.entries, g.entries)
  /\ \A j, l \in Level : j < l => Newer(EntriesOf(v[j]), EntriesOf(v[l]))

\* The inputs of a compaction are still in the tree, and cover their range of user keys.
InputsThere(c, v) ==
  /\ c.level \in 0 .. NumLevels - 2
  /\ c.in0 \subseteq v[c.level] /\ c.in1 \subseteq v[c.level + 1]

\* What PickCompaction returns: above level 0 the tables that touch the range, which has
\* no gap, and in level 0 the rest does not touch it.
WellChosen(c, v) ==
  /\ InputsThere(c, v) /\ c.in0 # {}
  /\ c.in1 = {f \in v[c.level + 1] : Touches(f, LowKey(c.in0), HighKey(c.in0))}
  /\ Spanned(c.in0 \cup c.in1)
  /\ c.level = 0 => \A g \in v[0] \ c.in0 : ~Touches(g, LowKey(c.in0), HighKey(c.in0))

Covered(c) ==
  \A d, e \in InputEntries(c) : \A k \in UserKey :
    d.key <= k /\ k <= e.key => \E f \in c.in0 \cup c.in1 : Touches(f, k, k)

\* The tables of the next level that stay are on one side of all that is written there.
InputsApart(c, v) ==
  \A g \in v[c.level + 1] \ c.in1 : Apart(InputEntries(c), g.entries)

\* What stays in the level of the inputs is newer than what leaves it.
InputsOldest(c, v) ==
  \A g \in v[c.level] \ c.in0 : Newer(g.entries, EntriesOf(c.in0))

\* Where the compaction sees no table below that may have the key, none has it.
BaseHolds(c, v) ==
  \A e \in InputEntries(c) : IsBaseLevelForKey(c, e.key) =>
    \A l \in c.level + 2 .. NumLevels - 1 : \A d \in EntriesOf(v[l]) : d.key # e.key

CompactionInv(c) ==
  /\ InputsThere(c, files)
  /\ c.smallestSnapshot <= lastSequence /\ c.smallestSnapshot \in Nat
  /\ \A s \in snapshots : c.smallestSnapshot <= s
  /\ BaseHolds(c, files)
  /\ ~Manual => Covered(c) /\ InputsApart(c, files)
  /\ ~Manual /\ ~SplitKeys => InputsOldest(c, files)

TreeInv ==
  /\ TreeTyped(mem, imm, files, lastSequence)
  /\ snapshots \subseteq 0 .. lastSequence
  /\ \A c \in compaction : CompactionInv(c)
  /\ ~Manual => Sorted(files)
  /\ ~Manual /\ ~SplitKeys => Layered(mem, imm, files)
=============================================================================
