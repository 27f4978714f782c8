-------------------------- MODULE VersionSetProofs --------------------------
(***************************************************************************)
(* VersionSetInvariant's TreeInv is inductive, and what                    *)
(* VersionSetProperties states follows from it: also that the tree of      *)
(* tables implements the store with snapshots.  First the order of entries *)
(* and the ranges of user keys, then what the choice of a compaction       *)
(* gives, the tree after a compaction and after a flush, one lemma for     *)
(* each step, and last what a reader finds.                                *)
(***************************************************************************)
EXTENDS VersionSetInvariant, Extrema

-----------------------------------------------------------------------------
(* Entries and their order.                                                 *)

\* Internal keys are ordered, totally where the numbers differ.
LEMMA BeforeOrder ==
  /\ \A a, b, c \in Entry : Before(a, b) /\ Before(b, c) => Before(a, c)
  /\ \A a, b \in Entry : ~(Before(a, b) /\ Before(b, a))
  /\ \A a, b \in Entry : a.seq # b.seq => Before(a, b) \/ Before(b, a)
  /\ \A a, b \in Entry : Before(a, b) => a.key <= b.key
<1>1. UserKey \subseteq Int /\ 1 .. MaxSequence \subseteq Int
  BY DEF UserKey
<1>2. \A a \in Entry : a.key \in Int /\ a.seq \in Int
  BY <1>1 DEF Entry
<1>. QED  BY <1>2 DEF Before

\* The order of the tables of a level, against that of keys.
LEMMA PrecedesOrder ==
  /\ \A a, b \in Entry : a.key < b.key => Precedes(a, b)
  /\ \A a, b \in Entry : Precedes(a, b) => Before(a, b) /\ a.key <= b.key
  /\ ~SplitKeys => \A a, b : Precedes(a, b) => a.key < b.key
<1>1. UserKey \subseteq Int /\ 1 .. MaxSequence \subseteq Int
  BY DEF UserKey
<1>2. \A a \in Entry : a.key \in Int /\ a.seq \in Int
  BY <1>1 DEF Entry
<1>. QED  BY <1>2 DEF Before, Precedes

LEMMA Keys == UserKey \subseteq Nat /\ \A S \in SUBSET UserKey : IsFiniteSet(S)
<1>1. NumKeys \in Nat
  BY VersionSetAssumption
<1>2. UserKey \subseteq Nat /\ IsFiniteSet(UserKey)
  BY <1>1, FS_Interval DEF UserKey
<1>. QED  BY <1>2, FS_Subset

LEMMA EntryFields ==
  \A e \in Entry : /\ e.key \in UserKey /\ e.seq \in 1 .. MaxSequence /\ e.key \in Nat /\ e.seq \in Nat
                   /\ e.type \in {"value", "deletion"}
<1>1. MaxSequence \in Nat
  BY VersionSetAssumption
<1>2. UserKey \subseteq Nat /\ 1 .. MaxSequence \subseteq Nat
  BY <1>1, Keys
<1>. QED  BY <1>2 DEF Entry

\* Where sequence numbers tell the entries apart there are no more entries than numbers.
LEMMA EntriesFinite ==
  ASSUME NEW E \in SUBSET Entry, Unique(E)
  PROVE  IsFiniteSet(E)
<1>1. PICK g : g = [e \in E |-> e.seq]
  OBVIOUS
<1>2. MaxSequence \in Nat /\ IsFiniteSet(1 .. MaxSequence)
  BY VersionSetAssumption, FS_Interval
<1>3. g \in [E -> 1 .. MaxSequence]
  BY <1>1, EntryFields
<1>4. \A d, e \in E : g[d] = g[e] => d = e
  BY <1>1 DEF Unique
<1>5. g \in Injection(E, 1 .. MaxSequence)
  BY <1>3, <1>4 DEF Injection, IsInjective
<1>. QED  BY <1>2, <1>5, FS_Injection

\* Smallest and Largest of a table.
LEMMA FirstIs ==
  ASSUME NEW E \in SUBSET Entry, E # {}, Unique(E)
  PROVE  First(E) \in E /\ \A d \in E : d # First(E) => Before(First(E), d)
<1>1. PICK K : K = {e.key : e \in E}
  OBVIOUS
<1>2. K \subseteq UserKey /\ K # {}
  BY <1>1, EntryFields
<1>3. PICK k \in K : \A j \in K : k <= j
  BY <1>2, Keys, LeastNatural
<1>4. PICK S : S = {e.seq : e \in {d \in E : d.key = k}}
  OBVIOUS
<1>5. S \subseteq Int /\ S # {} /\ IsFiniteSet(S)
  <2>1. S \subseteq 1 .. MaxSequence /\ S # {}
    BY <1>1, <1>3, <1>4, EntryFields
  <2>2. MaxSequence \in Nat /\ IsFiniteSet(1 .. MaxSequence)
    BY VersionSetAssumption, FS_Interval
  <2>3. IsFiniteSet(S)
    BY <2>1, <2>2, FS_Subset
  <2>. QED  BY <2>1, <2>3
<1>6. PICK s \in S : \A t \in S : t <= s
  BY <1>5, FiniteExtrema
<1>7. PICK e \in E : e.key = k /\ e.seq = s
  BY <1>4, <1>6
<1>8. ASSUME NEW d \in E \ {e} PROVE Before(e, d)
  <2>1. d.seq # e.seq
    BY DEF Unique
  <2>2. d.key \in Nat /\ e.key \in Nat /\ d.seq \in Nat /\ e.seq \in Nat /\ k <= d.key
    BY <1>1, <1>3, EntryFields
  <2>3. d.key = k => d.seq <= s
    BY <1>4, <1>6
  <2>. QED  BY <1>7, <2>1, <2>2, <2>3 DEF Before
<1>9. \E x \in E : \A d \in E \ {x} : Before(x, d)
  BY <1>8
<1>10. First(E) \in E /\ \A d \in E \ {First(E)} : Before(First(E), d)
  BY <1>9, Zenon DEF First
<1>. QED  BY <1>10

LEMMA LastIs ==
  ASSUME NEW E \in SUBSET Entry, E # {}, Unique(E)
  PROVE  Last(E) \in E /\ \A d \in E : d # Last(E) => Before(d, Last(E))
<1>1. PICK K : K = {e.key : e \in E}
  OBVIOUS
<1>2. K \subseteq UserKey /\ K # {}
  BY <1>1, EntryFields
<1>3. PICK k \in K : \A j \in K : j <= k
  <2>1. K \subseteq Int /\ IsFiniteSet(K)
    BY <1>2, Keys
  <2>. QED  BY <1>2, <2>1, FiniteExtrema
<1>4. PICK S : S = {e.seq : e \in {d \in E : d.key = k}}
  OBVIOUS
<1>5. S \subseteq Nat /\ S # {}
  BY <1>1, <1>3, <1>4, EntryFields
<1>6. PICK s \in S : \A t \in S : s <= t
  BY <1>5, LeastNatural
<1>7. PICK e \in E : e.key = k /\ e.seq = s
  BY <1>4, <1>6
<1>8. ASSUME NEW d \in E \ {e} PROVE Before(d, e)
  <2>1. d.seq # e.seq
    BY DEF Unique
  <2>2. d.key \in Nat /\ e.key \in Nat /\ d.seq \in Nat /\ e.seq \in Nat /\ d.key <= k
    BY <1>1, <1>3, EntryFields
  <2>3. d.key = k => s <= d.seq
    BY <1>4, <1>6
  <2>. QED  BY <1>7, <2>1, <2>2, <2>3 DEF Before
<1>9. \E x \in E : \A d \in E \ {x} : Before(d, x)
  BY <1>8
<1>10. Last(E) \in E /\ \A d \in E \ {Last(E)} : Before(d, Last(E))
  BY <1>9, Zenon DEF Last
<1>. QED  BY <1>10

\* A table that a search can be made in.
LEMMA TableEnds ==
  ASSUME NEW f, f.entries \in SUBSET Entry, f.entries # {}, Unique(f.entries)
  PROVE  /\ Smallest(f) \in f.entries /\ Largest(f) \in f.entries
         /\ Smallest(f).key \in UserKey /\ Largest(f).key \in UserKey
         /\ Smallest(f).key <= Largest(f).key
         /\ \A d \in f.entries : Smallest(f).key <= d.key /\ d.key <= Largest(f).key
         /\ \A d \in f.entries : d # Largest(f) => Before(d, Largest(f))
         /\ \A d \in f.entries : Touches(f, d.key, d.key)
<1>1. Smallest(f) \in f.entries /\ \A d \in f.entries : d # Smallest(f) => Before(Smallest(f), d)
  BY FirstIs DEF Smallest
<1>2. Largest(f) \in f.entries /\ \A d \in f.entries : d # Largest(f) => Before(d, Largest(f))
  BY LastIs DEF Largest
<1>3. \A d \in f.entries : Smallest(f).key <= d.key /\ d.key <= Largest(f).key
  <2> TAKE d \in f.entries
  <2>1. d.key \in Nat /\ Smallest(f).key \in Nat /\ Largest(f).key \in Nat
    BY <1>1, <1>2, EntryFields
  <2>2. Smallest(f).key <= d.key
    BY <1>1, <2>1, BeforeOrder
  <2>3. d.key <= Largest(f).key
    BY <1>2, <2>1, BeforeOrder
  <2>. QED  BY <2>2, <2>3
<1>4. Smallest(f).key \in UserKey /\ Largest(f).key \in UserKey
  BY <1>1, <1>2, EntryFields
<1>5. \A d \in f.entries : Touches(f, d.key, d.key)
  BY <1>1, <1>2, <1>3, EntryFields DEF Touches
<1>. QED  BY <1>1, <1>2, <1>3, <1>4, <1>5

-----------------------------------------------------------------------------
(* Ranges of user keys.                                                     *)

LEMMA RangesAre ==
  ASSUME NEW v, NEW lo, NEW hi
  PROVE  /\ Ranges(v, lo, hi)[0] = <<lo, hi>>
         /\ \A n \in 0 .. NumKeys - 1 : Ranges(v, lo, hi)[n + 1] = Widened(v, Ranges(v, lo, hi)[n])
<1> DEFINE P(k) == \E g : g = [n \in 0 .. k |-> IF n = 0 THEN <<lo, hi>> ELSE Widened(v, g[n - 1])]
<1> DEFINE D == {k \in Nat : ~P(k)}
<1>1. P(0)
  <2>1. PICK g : g = [n \in 0 .. 0 |-> <<lo, hi>>]
    OBVIOUS
  <2>2. g = [n \in 0 .. 0 |-> IF n = 0 THEN <<lo, hi>> ELSE Widened(v, g[n - 1])]
    BY <2>1
  <2>. QED  BY <2>2
<1>2. ASSUME NEW k \in Nat, P(k) PROVE P(k + 1)
  <2>1. PICK g : g = [n \in 0 .. k |-> IF n = 0 THEN <<lo, hi>> ELSE Widened(v, g[n - 1])]
    BY <1>2
  <2>2. PICK h : h = [n \in 0 .. k + 1 |-> IF n = k + 1 THEN Widened(v, g[k]) ELSE g[n]]
    OBVIOUS
  <2>3. \A n \in 0 .. k + 1 : h[n] = IF n = 0 THEN <<lo, hi>> ELSE Widened(v, h[n - 1])
    <3> TAKE n \in 0 .. k + 1
    <3>1. CASE n = 0
      BY <3>1, <2>1, <2>2
    <3>2. CASE n = k + 1
      <4>1. h[n] = Widened(v, g[k]) /\ n - 1 = k /\ h[k] = g[k] /\ n # 0
        BY <3>2, <2>2
      <4>. QED  BY <4>1
    <3>3. CASE n # 0 /\ n # k + 1
      <4>1. n \in 0 .. k /\ n - 1 \in 0 .. k /\ n - 1 # k + 1
        BY <3>3
      <4>2. h[n] = g[n] /\ h[n - 1] = g[n - 1]
        BY <4>1, <2>2
      <4>3. g[n] = Widened(v, g[n - 1])
        BY <4>1, <2>1, <3>3
      <4>. QED  BY <3>3, <4>2, <4>3
    <3>. QED  BY <3>1, <3>2, <3>3
  <2>4. h = [n \in 0 .. k + 1 |-> IF n = 0 THEN <<lo, hi>> ELSE Widened(v, h[n - 1])]
    BY <2>2, <2>3
  <2>. QED  BY <2>4
<1>3. D = {}
  <2> SUFFICES ASSUME D # {} PROVE FALSE
    OBVIOUS
  <2> HIDE DEF P
  <2>1. PICK k \in D : \A j \in D : k <= j
    BY LeastNatural
  <2>2. k # 0
    BY <1>1, <2>1
  <2>3. k - 1 \in Nat /\ k - 1 \notin D
    BY <2>1, <2>2
  <2>4. P(k - 1)
    BY <2>3
  <2>5. P(k - 1 + 1)
    BY <2>3, <2>4, <1>2
  <2>6. k - 1 + 1 = k
    BY <2>1
  <2>. QED  BY <2>1, <2>5, <2>6
<1>4. NumKeys \in Nat \ {0}
  BY VersionSetAssumption
<1>5. P(NumKeys)
  <2> HIDE DEF P
  <2>. QED  BY <1>3, <1>4
<1>6. PICK g : /\ g = Ranges(v, lo, hi)
               /\ g = [n \in 0 .. NumKeys |-> IF n = 0 THEN <<lo, hi>> ELSE Widened(v, g[n - 1])]
  BY <1>5, Zenon DEF Ranges
<1>7. g[0] = <<lo, hi>>
  BY <1>4, <1>6
<1>8. ASSUME NEW n \in 0 .. NumKeys - 1 PROVE g[n + 1] = Widened(v, g[n])
  <2>1. PICK k : k = n + 1 /\ k \in 0 .. NumKeys /\ k # 0 /\ n = k - 1
    BY <1>4
  <2>2. g[k] = Widened(v, g[k - 1])
    BY <1>6, <2>1
  <2>. QED  BY <2>1, <2>2
<1>. QED  BY <1>6, <1>7, <1>8

\* The least and the greatest user key of some tables.
LEMMA LowHigh ==
  ASSUME NEW fs, fs # {}, Searchable(fs)
  PROVE  /\ LowKey(fs) \in UserKey /\ HighKey(fs) \in UserKey /\ LowKey(fs) <= HighKey(fs)
         /\ \E f \in fs : LowKey(fs) = Smallest(f).key
         /\ \E f \in fs : HighKey(fs) = Largest(f).key
         /\ \A f \in fs : LowKey(fs) <= Smallest(f).key /\ Largest(f).key <= HighKey(fs)
         /\ \A f \in fs : Touches(f, LowKey(fs), HighKey(fs))
<1>1. \A f \in fs : Smallest(f).key \in UserKey /\ Largest(f).key \in UserKey /\ Smallest(f).key <= Largest(f).key
  BY TableEnds DEF Searchable
<1>2. PICK L, H : L = {Smallest(f).key : f \in fs} /\ H = {Largest(f).key : f \in fs}
  OBVIOUS
<1>3. L \subseteq UserKey /\ H \subseteq UserKey /\ L # {} /\ H # {}
  BY <1>1, <1>2
<1>4. L \subseteq Int /\ H \subseteq Int /\ IsFiniteSet(L) /\ IsFiniteSet(H)
  BY <1>3, Keys
<1>5. Min(L) \in L /\ \A x \in L : Min(L) <= x
  BY <1>3, <1>4, MinOfFinite
<1>6. Max(H) \in H /\ \A x \in H : x <= Max(H)
  BY <1>3, <1>4, MaxOfFinite
<1>7. LowKey(fs) = Min(L) /\ HighKey(fs) = Max(H)
  BY <1>2 DEF LowKey, HighKey
<1>8. \A f \in fs : LowKey(fs) <= Smallest(f).key /\ Largest(f).key <= HighKey(fs)
  BY <1>2, <1>5, <1>6, <1>7
<1>9. LowKey(fs) \in UserKey /\ HighKey(fs) \in UserKey
  BY <1>3, <1>5, <1>6, <1>7
<1>10. \A f \in fs : Touches(f, LowKey(fs), HighKey(fs)) /\ LowKey(fs) <= HighKey(fs)
  <2> TAKE f \in fs
  <2>1. /\ LowKey(fs) \in Nat /\ HighKey(fs) \in Nat /\ Smallest(f).key \in Nat /\ Largest(f).key \in Nat
    BY <1>1, <1>9, Keys
  <2>2. /\ LowKey(fs) <= Smallest(f).key /\ Largest(f).key <= HighKey(fs) /\ Smallest(f).key <= Largest(f).key
    BY <1>1, <1>8
  <2>. QED  BY <2>1, <2>2 DEF Touches
<1>. QED  BY <1>2, <1>5, <1>6, <1>7, <1>8, <1>9, <1>10

\* Tables that all touch a range which they cover leave no gap.
LEMMA SpannedAround ==
  ASSUME NEW fs, fs # {}, Searchable(fs), NEW a \in UserKey, NEW b \in UserKey, a <= b,
         \A f \in fs : Touches(f, a, b),
         \A k \in UserKey : a <= k /\ k <= b => \E f \in fs : Touches(f, k, k)
  PROVE  Spanned(fs)
<1> SUFFICES ASSUME NEW k \in UserKey, LowKey(fs) <= k, k <= HighKey(fs)
             PROVE  \E f \in fs : Touches(f, k, k)
  BY DEF Spanned
<1>1. \A f \in fs : Smallest(f).key \in Nat /\ Largest(f).key \in Nat
  BY TableEnds, Keys DEF Searchable
<1>2. a \in Nat /\ b \in Nat /\ k \in Nat
  BY Keys
<1>3. CASE k < a
  <2>1. PICK f \in fs : LowKey(fs) = Smallest(f).key
    BY LowHigh
  <2>2. Largest(f).key >= a
    BY DEF Touches
  <2>3. Touches(f, k, k)
    BY <1>1, <1>2, <1>3, <2>1, <2>2 DEF Touches
  <2>. QED  BY <2>3
<1>4. CASE k > b
  <2>1. PICK f \in fs : HighKey(fs) = Largest(f).key
    BY LowHigh
  <2>2. Smallest(f).key <= b
    BY DEF Touches
  <2>3. Touches(f, k, k)
    BY <1>1, <1>2, <1>4, <2>1, <2>2 DEF Touches
  <2>. QED  BY <2>3
<1>5. CASE a <= k /\ k <= b
  BY <1>5
<1>. QED  BY <1>2, <1>3, <1>4, <1>5

\* One start of the search in level 0: the range grows by tables that touch it, or they are
\* all in it.
LEMMA WidenedIs ==
  ASSUME NEW v, Searchable(v[0]), NEW a \in UserKey, NEW b \in UserKey, a <= b
  PROVE  \E c, d \in UserKey :
           /\ Widened(v, <<a, b>>) = <<c, d>> /\ c <= a /\ b <= d
           /\ c = a /\ d = b => \A f \in v[0] : Touches(f, a, b) => a <= Smallest(f).key /\ Largest(f).key <= b
           /\ \A k \in UserKey : c <= k /\ k <= d =>
                \/ a <= k /\ k <= b
                \/ \E f \in v[0] : Touches(f, a, b) /\ Touches(f, k, k)
<1>1. PICK t : t = {f \in v[0] : Touches(f, a, b)}
  OBVIOUS
<1>2. <<a, b>>[1] = a /\ <<a, b>>[2] = b
  OBVIOUS
<1>3. Widened(v, <<a, b>>) = IF t = {} THEN <<a, b>> ELSE <<Min({a, LowKey(t)}), Max({b, HighKey(t)})>>
  BY <1>1, <1>2 DEF Widened
<1>4. a \in Nat /\ b \in Nat
  BY Keys
<1>5. CASE t = {}
  <2>1. Widened(v, <<a, b>>) = <<a, b>> /\ a <= a /\ b <= b
    BY <1>3, <1>4, <1>5
  <2>2. \A f \in v[0] : ~Touches(f, a, b)
    BY <1>1, <1>5
  <2>. QED  BY <2>1, <2>2
<1>6. CASE t # {}
  <2>1. Searchable(t)
    BY <1>1 DEF Searchable
  <2>2. PICK x, y : x = LowKey(t) /\ y = HighKey(t)
    OBVIOUS
  <2>3. /\ x \in UserKey /\ y \in UserKey
        /\ \E f \in t : x = Smallest(f).key
        /\ \E f \in t : y = Largest(f).key
        /\ \A f \in t : x <= Smallest(f).key /\ Largest(f).key <= y
    BY <1>6, <2>1, <2>2, LowHigh
  <2>4. PICK c, d : c = Min({a, x}) /\ d = Max({b, y})
    OBVIOUS
  <2>5. c \in {a, x} /\ c <= a /\ c <= x
    <3>1. {a, x} \subseteq Int /\ {a, x} # {} /\ IsFiniteSet({a, x})
      BY <2>3, Keys
    <3>. QED  BY <2>4, <3>1, MinOfFinite
  <2>6. d \in {b, y} /\ b <= d /\ y <= d
    <3>1. {b, y} \subseteq Int /\ {b, y} # {} /\ IsFiniteSet({b, y})
      BY <2>3, Keys
    <3>. QED  BY <2>4, <3>1, MaxOfFinite
  <2>7. Widened(v, <<a, b>>) = <<c, d>> /\ c \in UserKey /\ d \in UserKey
    BY <1>3, <1>6, <2>2, <2>3, <2>4, <2>5, <2>6
  <2>8. \A f \in t : Smallest(f).key \in Nat /\ Largest(f).key \in Nat
    BY <2>1, TableEnds, Keys DEF Searchable
  <2>9. c \in Nat /\ d \in Nat /\ x \in Nat /\ y \in Nat
    BY <2>3, <2>7, Keys
  <2>10. ASSUME c = a, d = b, NEW f \in v[0], Touches(f, a, b)
         PROVE  a <= Smallest(f).key /\ Largest(f).key <= b
    <3>1. f \in t
      BY <1>1, <2>10
    <3>. QED  BY <1>4, <2>3, <2>5, <2>6, <2>8, <2>9, <2>10, <3>1
  <2>11. ASSUME NEW k \in UserKey, c <= k, k <= d, ~(a <= k /\ k <= b)
         PROVE  \E f \in v[0] : Touches(f, a, b) /\ Touches(f, k, k)
    <3>1. k \in Nat
      BY Keys
    <3>2. CASE k < a
      <4>1. PICK f \in t : x = Smallest(f).key
        BY <2>3
      <4>2. f \in v[0] /\ Touches(f, a, b)
        BY <1>1
      <4>3. c = x /\ Largest(f).key >= a
        BY <1>4, <2>5, <2>9, <2>11, <3>1, <3>2, <4>2 DEF Touches
      <4>4. Touches(f, k, k)
        BY <1>4, <2>8, <2>11, <3>1, <3>2, <4>1, <4>3 DEF Touches
      <4>. QED  BY <4>2, <4>4
    <3>3. CASE k > b
      <4>1. PICK f \in t : y = Largest(f).key
        BY <2>3
      <4>2. f \in v[0] /\ Touches(f, a, b)
        BY <1>1
      <4>3. d = y /\ Smallest(f).key <= b
        BY <1>4, <2>6, <2>9, <2>11, <3>1, <3>3, <4>2 DEF Touches
      <4>4. Touches(f, k, k)
        BY <1>4, <2>8, <2>11, <3>1, <3>3, <4>1, <4>3 DEF Touches
      <4>. QED  BY <4>2, <4>4
    <3>. QED  BY <1>4, <2>11, <3>1, <3>2, <3>3
  <2>. QED  BY <2>5, <2>6, <2>7, <2>10, <2>11
<1>. QED  BY <1>5, <1>6

\* A table that touches a range touches a wider one.
LEMMA TouchesWider ==
  ASSUME NEW f, f.entries \in SUBSET Entry, f.entries # {}, Unique(f.entries),
         NEW a \in UserKey, NEW b \in UserKey, NEW c \in UserKey, NEW d \in UserKey,
         c <= a, b <= d, Touches(f, a, b)
  PROVE  Touches(f, c, d)
<1>1. Smallest(f).key \in Nat /\ Largest(f).key \in Nat
  BY TableEnds, Keys
<1>2. a \in Nat /\ b \in Nat /\ c \in Nat /\ d \in Nat
  BY Keys
<1>. QED  BY <1>1, <1>2 DEF Touches

\* After n starts the range is one that the tables in it cover, and either nothing widens it
\* or it has at least n more keys than one.
LEMMA RangesGrow ==
  ASSUME NEW v, Searchable(v[0]), NEW lo \in UserKey, NEW hi \in UserKey, lo <= hi,
         NEW n \in 0 .. NumKeys
  PROVE  \E a, b \in UserKey :
           /\ Ranges(v, lo, hi)[n] = <<a, b>> /\ a <= lo /\ hi <= b
           /\ \A k \in UserKey : a <= k /\ k <= b =>
                \/ lo <= k /\ k <= hi
                \/ \E f \in v[0] : Touches(f, a, b) /\ Touches(f, k, k)
           /\ \/ \A f \in v[0] : Touches(f, a, b) => a <= Smallest(f).key /\ Largest(f).key <= b
              \/ b - a >= n
<1> DEFINE P(m, a, b) ==
             /\ Ranges(v, lo, hi)[m] = <<a, b>> /\ a <= lo /\ hi <= b
             /\ \A k \in UserKey : a <= k /\ k <= b =>
                  \/ lo <= k /\ k <= hi
                  \/ \E f \in v[0] : Touches(f, a, b) /\ Touches(f, k, k)
             /\ \/ \A f \in v[0] : Touches(f, a, b) => a <= Smallest(f).key /\ Largest(f).key <= b
                \/ b - a >= m
           D == {m \in 0 .. NumKeys : \A a, b \in UserKey : ~P(m, a, b)}
<1>1. NumKeys \in Nat /\ UserKey \subseteq Nat
  BY VersionSetAssumption, Keys
<1>2. P(0, lo, hi)
  BY <1>1, RangesAre
<1>3. ASSUME NEW m \in 0 .. NumKeys - 1, NEW a \in UserKey, NEW b \in UserKey, P(m, a, b)
      PROVE  \E c, d \in UserKey : P(m + 1, c, d)
  <2>1. a \in Nat /\ b \in Nat /\ lo \in Nat /\ hi \in Nat /\ a <= b /\ m \in Nat
    BY <1>1, <1>3
  <2>2. PICK c \in UserKey, d \in UserKey :
          /\ Widened(v, <<a, b>>) = <<c, d>> /\ c <= a /\ b <= d
          /\ c = a /\ d = b => \A f \in v[0] : Touches(f, a, b) => a <= Smallest(f).key /\ Largest(f).key <= b
          /\ \A k \in UserKey : c <= k /\ k <= d =>
               \/ a <= k /\ k <= b
               \/ \E f \in v[0] : Touches(f, a, b) /\ Touches(f, k, k)
    BY <2>1, WidenedIs
  <2>3. Ranges(v, lo, hi)[m + 1] = <<c, d>>
    BY <1>1, <1>3, <2>2, RangesAre
  <2>4. c \in Nat /\ d \in Nat
    BY <1>1
  <2>5. \A f \in v[0] : Touches(f, a, b) => Touches(f, c, d)
    BY <2>2, TouchesWider DEF Searchable
  <2>6. c <= lo /\ hi <= d
    BY <1>3, <2>1, <2>2, <2>4
  <2>7. ASSUME NEW k \in UserKey, c <= k, k <= d, ~(lo <= k /\ k <= hi)
        PROVE  \E f \in v[0] : Touches(f, c, d) /\ Touches(f, k, k)
    BY <1>3, <2>2, <2>5, <2>7
  <2>8. \/ \A f \in v[0] : Touches(f, c, d) => c <= Smallest(f).key /\ Largest(f).key <= d
        \/ d - c >= m + 1
    <3>1. CASE c = a /\ d = b
      BY <2>2, <3>1
    <3>2. CASE ~(c = a /\ d = b)
      <4>1. CASE b - a >= m
        BY <2>1, <2>2, <2>4, <3>2, <4>1
      <4>2. CASE \A f \in v[0] : Touches(f, a, b) => a <= Smallest(f).key /\ Largest(f).key <= b
        <5>1. c = a /\ d = b
          <6>1. a \in UserKey /\ b \in UserKey
            OBVIOUS
          <6>2. CASE c < a
            <7>1. c \in UserKey /\ c <= c /\ c <= d
              BY <2>1, <2>2, <2>4
            <7>2. PICK f \in v[0] : Touches(f, a, b) /\ Touches(f, c, c)
              BY <2>1, <2>2, <2>4, <6>2, <7>1
            <7>3. Smallest(f).key \in Nat /\ Smallest(f).key <= c
              BY <7>2, TableEnds, Keys DEF Touches, Searchable
            <7>. QED  BY <2>1, <2>4, <4>2, <6>2, <7>2, <7>3
          <6>3. CASE b < d
            <7>1. d \in UserKey /\ d <= d /\ c <= d
              BY <2>1, <2>2, <2>4
            <7>2. PICK f \in v[0] : Touches(f, a, b) /\ Touches(f, d, d)
              BY <2>1, <2>2, <2>4, <6>3, <7>1
            <7>3. Largest(f).key \in Nat /\ Largest(f).key >= d
              BY <7>2, TableEnds, Keys DEF Touches, Searchable
            <7>. QED  BY <2>1, <2>4, <4>2, <6>3, <7>2, <7>3
          <6>. QED  BY <2>1, <2>2, <2>4, <6>2, <6>3
        <5>. QED  BY <3>2, <5>1
      <4>. QED  BY <1>3, <4>1, <4>2
    <3>. QED  BY <3>1, <3>2
  <2>9. P(m + 1, c, d)
    BY <2>3, <2>6, <2>7, <2>8
  <2>. QED  BY <2>9
<1>4. D = {}
  <2> SUFFICES ASSUME D # {} PROVE FALSE
    OBVIOUS
  <2> HIDE DEF P
  <2>1. D \subseteq Nat
    BY <1>1
  <2>2. PICK m \in D : \A j \in D : m <= j
    BY <2>1, LeastNatural
  <2>3. m # 0
    BY <1>2, <2>2
  <2>4. PICK j : j = m - 1 /\ j \in 0 .. NumKeys - 1 /\ j \in 0 .. NumKeys /\ j \notin D /\ j + 1 = m
    BY <1>1, <2>2, <2>3
  <2>5. PICK a \in UserKey, b \in UserKey : P(j, a, b)
    BY <2>4
  <2>6. \E c, d \in UserKey : P(j + 1, c, d)
    BY <1>3, <2>4, <2>5
  <2>. QED  BY <2>2, <2>4, <2>6
<1>. QED  BY <1>4

\* GetOverlappingInputs in level 0: all that touches a range which is closed.
LEMMA OverlapLevel0 ==
  ASSUME NEW v, Searchable(v[0]), NEW lo \in UserKey, NEW hi \in UserKey, lo <= hi
  PROVE  \E a, b \in UserKey :
           /\ a <= lo /\ hi <= b
           /\ GetOverlappingInputs(v, 0, lo, hi) = {f \in v[0] : Touches(f, a, b)}
           /\ \A f \in v[0] : Touches(f, a, b) => a <= Smallest(f).key /\ Largest(f).key <= b
           /\ \A k \in UserKey : a <= k /\ k <= b =>
                \/ lo <= k /\ k <= hi
                \/ \E f \in v[0] : Touches(f, a, b) /\ Touches(f, k, k)
<1>1. NumKeys \in Nat \ {0} /\ NumKeys \in 0 .. NumKeys
  BY VersionSetAssumption
<1>2. PICK a \in UserKey, b \in UserKey :
        /\ Ranges(v, lo, hi)[NumKeys] = <<a, b>> /\ a <= lo /\ hi <= b
        /\ \A k \in UserKey : a <= k /\ k <= b =>
             \/ lo <= k /\ k <= hi
             \/ \E f \in v[0] : Touches(f, a, b) /\ Touches(f, k, k)
        /\ \/ \A f \in v[0] : Touches(f, a, b) => a <= Smallest(f).key /\ Largest(f).key <= b
           \/ b - a >= NumKeys
  BY <1>1, RangesGrow
<1>3. ~(b - a >= NumKeys)
  BY <1>1 DEF UserKey
<1>4. GetOverlappingInputs(v, 0, lo, hi) = {f \in v[0] : Touches(f, a, b)}
  <2>1. PICK r : r = Ranges(v, lo, hi)[NumKeys] /\ r[1] = a /\ r[2] = b
    BY <1>2
  <2>2. GetOverlappingInputs(v, 0, lo, hi) = {f \in v[0] : Touches(f, r[1], r[2])}
    BY <2>1 DEF GetOverlappingInputs
  <2>. QED  BY <2>1, <2>2
<1>. QED  BY <1>2, <1>3, <1>4

LEMMA OverlapBelow ==
  ASSUME NEW v, NEW l, l # 0, NEW lo \in UserKey, NEW hi \in UserKey
  PROVE  GetOverlappingInputs(v, l, lo, hi) = {f \in v[l] : Touches(f, lo, hi)}
<1>0. <<lo, hi>>[1] = lo /\ <<lo, hi>>[2] = hi
  OBVIOUS
<1>1. PICK r : r = <<lo, hi>> /\ r[1] = lo /\ r[2] = hi
  BY <1>0, Zenon
<1>2. GetOverlappingInputs(v, l, lo, hi) = {f \in v[l] : Touches(f, r[1], r[2])}
  BY <1>1 DEF GetOverlappingInputs
<1>. QED  BY <1>1, <1>2

\* The same for every level, as the choice of a compaction needs it: what is taken has all
\* that touched the range, covers it with what covered it before, and in level 0 nothing
\* that is left touches what is taken.
LEMMA OverlapIs ==
  ASSUME NEW v, NEW l \in Nat, Searchable(v[l]), NEW lo \in UserKey, NEW hi \in UserKey, lo <= hi,
         NEW fs, GetOverlappingInputs(v, l, lo, hi) = fs
  PROVE  /\ fs \subseteq v[l]
         /\ \A f \in v[l] : Touches(f, lo, hi) => f \in fs
         /\ l = 0 /\ fs # {} => \A g \in v[0] \ fs : ~Touches(g, LowKey(fs), HighKey(fs))
         /\ Covering(fs, lo, hi)
<1>1. CASE l = 0
  <2>1. PICK a \in UserKey, b \in UserKey :
           /\ a <= lo /\ hi <= b
           /\ fs = {f \in v[0] : Touches(f, a, b)}
           /\ \A f \in v[0] : Touches(f, a, b) => a <= Smallest(f).key /\ Largest(f).key <= b
           /\ \A k \in UserKey : a <= k /\ k <= b =>
                \/ lo <= k /\ k <= hi
                \/ \E f \in v[0] : Touches(f, a, b) /\ Touches(f, k, k)
    BY <1>1, OverlapLevel0
  <2>2. \A f \in v[0] : Touches(f, lo, hi) => f \in fs
    BY <1>1, <2>1, TouchesWider DEF Searchable
  <2>3. ASSUME fs # {}, NEW g \in v[0] \ fs PROVE ~Touches(g, LowKey(fs), HighKey(fs))
    <3>1. Searchable(fs)
      BY <1>1, <2>1 DEF Searchable
    <3>2. PICK x \in UserKey, y \in UserKey : x = LowKey(fs) /\ y = HighKey(fs)
      BY <2>3, <3>1, LowHigh
    <3>3. (\E f \in fs : x = Smallest(f).key) /\ (\E f \in fs : y = Largest(f).key)
      BY <2>3, <3>1, <3>2, LowHigh
    <3>4. a <= x /\ y <= b
      BY <2>1, <3>3
    <3>5. ~Touches(g, a, b)
      BY <2>1, <2>3
    <3>6. g.entries \in SUBSET Entry /\ g.entries # {} /\ Unique(g.entries)
      BY <1>1, <2>3 DEF Searchable
    <3>. QED  BY <3>2, <3>4, <3>5, <3>6, TouchesWider
  <2>4. \A f \in fs : Touches(f, a, b)
    BY <2>1
  <2>5. \A k \in UserKey : a <= k /\ k <= b => (lo <= k /\ k <= hi) \/ \E f \in fs : Touches(f, k, k)
    BY <2>1
  <2>6. Covering(fs, lo, hi)
    BY <2>1, <2>4, <2>5 DEF Covering
  <2>. QED  BY <1>1, <2>1, <2>2, <2>3, <2>6
<1>2. CASE l # 0
  <2>1. fs = {f \in v[l] : Touches(f, lo, hi)}
    BY <1>2, OverlapBelow
  <2>2. lo <= lo /\ hi <= hi
    BY Keys
  <2>3. Covering(fs, lo, hi)
    BY <2>1, <2>2 DEF Covering
  <2>. QED  BY <1>2, <2>1, <2>3
<1>. QED  BY <1>1, <1>2

-----------------------------------------------------------------------------
(* The choice of a compaction.                                              *)

\* What the inputs of one level must be: spanned, and in level 0 not touched by the rest.
LEMMA SetupIs ==
  ASSUME NEW v, NEW l \in 0 .. NumLevels - 2,
         Searchable(v[l]), Searchable(v[l + 1]), IsFiniteSet(v[l]), IsFiniteSet(v[l + 1]),
         NEW in0, in0 # {}, in0 \subseteq v[l], Spanned(in0),
         l = 0 => \A g \in v[0] \ in0 : ~Touches(g, LowKey(in0), HighKey(in0)),
         NEW c \in SetupOtherInputs(v, l, in0)
  PROVE  /\ c.level = l /\ c.in0 # {} /\ c.in0 \subseteq v[l] /\ c.in1 \subseteq v[l + 1]
         /\ c.in1 = {f \in v[l + 1] : Touches(f, LowKey(c.in0), HighKey(c.in0))}
         /\ Spanned(c.in0 \cup c.in1)
         /\ l = 0 => \A g \in v[0] \ c.in0 : ~Touches(g, LowKey(c.in0), HighKey(c.in0))
<1>1. l \in Nat /\ l + 1 # 0
  BY VersionSetAssumption
<1>2. PICK lo, hi : lo = LowKey(in0) /\ hi = HighKey(in0)
  OBVIOUS
<1>3. Searchable(in0)
  BY DEF Searchable
<1>4. lo \in UserKey /\ hi \in UserKey /\ lo <= hi /\ \A f \in in0 : Touches(f, lo, hi)
  BY <1>2, <1>3, LowHigh
<1>5. PICK in1 : in1 = {f \in v[l + 1] : Touches(f, lo, hi)} /\ in1 = GetOverlappingInputs(v, l + 1, lo, hi)
  BY <1>1, <1>4, OverlapBelow
<1>6. PICK all : all = in0 \cup in1
  OBVIOUS
<1>7. all # {} /\ Searchable(all)
  BY <1>3, <1>5, <1>6 DEF Searchable
<1>8. PICK A, B : A = LowKey(all) /\ B = HighKey(all)
  OBVIOUS
<1>9. A \in UserKey /\ B \in UserKey /\ A <= B /\ \A f \in all : Touches(f, A, B)
  BY <1>7, <1>8, LowHigh
<1>10. Spanned(all)
  <2>1. \A f \in all : Touches(f, lo, hi)
    BY <1>4, <1>5, <1>6
  <2>2. \A k \in UserKey : lo <= k /\ k <= hi => \E f \in all : Touches(f, k, k)
    BY <1>2, <1>6 DEF Spanned
  <2>. QED  BY <1>4, <1>7, <2>1, <2>2, SpannedAround
<1>11. PICK exp0 : exp0 = GetOverlappingInputs(v, l, A, B)
  OBVIOUS
<1>12. PICK exp1 : exp1 = GetOverlappingInputs(v, l + 1, LowKey(exp0), HighKey(exp0))
  OBVIOUS
<1>13. \/ c = [level |-> l, in0 |-> in0, in1 |-> in1]
       \/ c = [level |-> l, in0 |-> exp0, in1 |-> exp1] /\ Cardinality(exp1) = Cardinality(in1)
  BY <1>2, <1>5, <1>6, <1>8, <1>11, <1>12, Zenon DEF SetupOtherInputs
<1>14. CASE c = [level |-> l, in0 |-> in0, in1 |-> in1]
  <2>1. c.level = l /\ c.in0 = in0 /\ c.in1 = in1
    BY <1>14
  <2>. QED  BY <1>2, <1>5, <1>6, <1>10, <2>1
<1>15. CASE c = [level |-> l, in0 |-> exp0, in1 |-> exp1] /\ Cardinality(exp1) = Cardinality(in1)
  <2>1. c.level = l /\ c.in0 = exp0 /\ c.in1 = exp1
    BY <1>15
  <2>0. l \in Nat /\ Searchable(v[l]) /\ A \in UserKey /\ B \in UserKey /\ A <= B /\ exp0 = GetOverlappingInputs(v, l, A, B)
    BY <1>1, <1>9, <1>11
  <2>2. /\ exp0 \subseteq v[l]
        /\ \A f \in v[l] : Touches(f, A, B) => f \in exp0
        /\ l = 0 /\ exp0 # {} => \A g \in v[0] \ exp0 : ~Touches(g, LowKey(exp0), HighKey(exp0))
        /\ Covering(exp0, A, B)
    BY ONLY <2>0, OverlapIs
  <2>3. PICK a \in UserKey, b \in UserKey :
          /\ a <= A /\ B <= b
          /\ \A f \in exp0 : Touches(f, a, b)
          /\ \A k \in UserKey : a <= k /\ k <= b => (A <= k /\ k <= B) \/ \E f \in exp0 : Touches(f, k, k)
    BY <2>2 DEF Covering
  <2>4. in0 \subseteq exp0 /\ exp0 # {} /\ Searchable(exp0)
    BY <1>6, <1>9, <2>2 DEF Searchable
  <2>5. PICK x, y : x = LowKey(exp0) /\ y = HighKey(exp0)
    OBVIOUS
  <2>6. /\ x \in UserKey /\ y \in UserKey /\ x <= y
        /\ \A f \in exp0 : x <= Smallest(f).key /\ Largest(f).key <= y
    BY <2>4, <2>5, LowHigh
  <2>7. exp1 = {f \in v[l + 1] : Touches(f, x, y)}
    BY <1>1, <1>12, <2>5, <2>6, OverlapBelow
  <2>8. x <= lo /\ hi <= y
    <3>1. (\E f \in in0 : lo = Smallest(f).key) /\ (\E f \in in0 : hi = Largest(f).key)
      BY <1>2, <1>3, LowHigh
    <3>. QED  BY <2>4, <2>6, <3>1
  <2>9. in1 \subseteq exp1
    <3> SUFFICES ASSUME NEW f \in in1 PROVE f \in exp1
      OBVIOUS
    <3>1. f \in v[l + 1] /\ Touches(f, lo, hi)
      BY <1>5
    <3>2. f.entries \in SUBSET Entry /\ f.entries # {} /\ Unique(f.entries)
      BY <3>1 DEF Searchable
    <3>3. Touches(f, x, y)
      BY <1>4, <2>6, <2>8, <3>1, <3>2, TouchesWider
    <3>. QED  BY <2>7, <3>1, <3>3
  <2>10. exp1 = in1
    <3>1. IsFiniteSet(exp1)
      BY <2>7, FS_Subset
    <3>. QED  BY <1>15, <2>9, <3>1, FS_Subset
  <2>11. Spanned(exp0 \cup exp1)
    <3>1. exp0 \cup exp1 # {} /\ Searchable(exp0 \cup exp1)
      BY <2>4, <2>7 DEF Searchable
    <3>2. a <= b
      BY <1>9, <2>3, Keys
    <3>3. \A f \in exp1 : Touches(f, a, b)
      <4> TAKE f \in exp1
      <4>1. Touches(f, A, B) /\ f \in all
        BY <1>6, <1>9, <2>10
      <4>2. f.entries \in SUBSET Entry /\ f.entries # {} /\ Unique(f.entries)
        BY <1>7, <4>1 DEF Searchable
      <4>. QED  BY <1>9, <2>3, <4>1, <4>2, TouchesWider
    <3>4. \A f \in exp0 \cup exp1 : Touches(f, a, b)
      BY <2>3, <3>3
    <3>5. \A k \in UserKey : A <= k /\ k <= B => \E f \in all : Touches(f, k, k)
      BY <1>8, <1>10 DEF Spanned
    <3>6. all \subseteq exp0 \cup exp1
      BY <1>6, <2>4, <2>9
    <3>7. \A k \in UserKey : a <= k /\ k <= b => \E f \in exp0 \cup exp1 : Touches(f, k, k)
      BY <2>3, <3>5, <3>6
    <3>. QED  BY <3>1, <3>2, <3>4, <3>7, SpannedAround
  <2>. QED  BY <2>1, <2>2, <2>4, <2>5, <2>7, <2>11
<1>. QED  BY <1>13, <1>14, <1>15

LEMMA PickedIs ==
  ASSUME NEW v, \A l \in Level : Searchable(v[l]) /\ IsFiniteSet(v[l]), NEW c \in PickCompaction(v)
  PROVE  WellChosen(c, v)
<1>1. PICK l \in 0 .. NumLevels - 2 :
        c \in UNION {SetupOtherInputs(v, l, IF l = 0 THEN GetOverlappingInputs(v, 0, Smallest(f).key, Largest(f).key)
                                          ELSE {f}) : f \in v[l]}
  BY Zenon DEF PickCompaction
<1>2. PICK f \in v[l] :
        c \in SetupOtherInputs(v, l, IF l = 0 THEN GetOverlappingInputs(v, 0, Smallest(f).key, Largest(f).key)
                                   ELSE {f})
  BY <1>1, Zenon
<1>0. PICK in0 : /\ in0 = IF l = 0 THEN GetOverlappingInputs(v, 0, Smallest(f).key, Largest(f).key) ELSE {f}
                 /\ c \in SetupOtherInputs(v, l, in0)
  BY <1>2, Zenon
<1>3. l \in Level /\ l + 1 \in Level /\ l \in Nat
  BY VersionSetAssumption DEF Level
<1>4. Searchable(v[l]) /\ Searchable(v[l + 1]) /\ IsFiniteSet(v[l]) /\ IsFiniteSet(v[l + 1])
  BY <1>3
<1>5. PICK lo, hi : lo = Smallest(f).key /\ hi = Largest(f).key
  OBVIOUS
<1>6. lo \in UserKey /\ hi \in UserKey /\ lo <= hi /\ f.entries \in SUBSET Entry /\ f.entries # {} /\ Unique(f.entries)
  BY <1>4, <1>5, TableEnds DEF Searchable
<1>7. \A k \in UserKey : lo <= k /\ k <= hi => Touches(f, k, k)
  BY <1>5, <1>6, Keys DEF Touches
<1>8. Touches(f, lo, hi)
  BY <1>5, <1>6, Keys DEF Touches
<1>9. /\ in0 # {} /\ in0 \subseteq v[l] /\ Spanned(in0)
      /\ l = 0 => \A g \in v[0] \ in0 : ~Touches(g, LowKey(in0), HighKey(in0))
  <2>1. CASE l = 0
    <3>1. Searchable(v[0]) /\ in0 = GetOverlappingInputs(v, 0, lo, hi) /\ 0 \in Nat
      BY <1>0, <1>4, <1>5, <2>1
    <3>2. /\ in0 \subseteq v[0]
          /\ \A g \in v[0] : Touches(g, lo, hi) => g \in in0
          /\ in0 # {} => \A g \in v[0] \ in0 : ~Touches(g, LowKey(in0), HighKey(in0))
          /\ Covering(in0, lo, hi)
      BY ONLY <1>6, <3>1, OverlapIs
    <3>3. f \in in0
      BY <1>8, <2>1, <3>2
    <3>4. Searchable(in0)
      BY <3>1, <3>2 DEF Searchable
    <3>5. PICK a \in UserKey, b \in UserKey :
            /\ a <= lo /\ hi <= b
            /\ \A g \in in0 : Touches(g, a, b)
            /\ \A k \in UserKey : a <= k /\ k <= b => (lo <= k /\ k <= hi) \/ \E g \in in0 : Touches(g, k, k)
      BY <3>2 DEF Covering
    <3>6. a <= b
      BY <1>6, <3>5, Keys
    <3>7. \A k \in UserKey : a <= k /\ k <= b => \E g \in in0 : Touches(g, k, k)
      BY <1>7, <3>3, <3>5
    <3>8. Spanned(in0)
      BY <3>3, <3>4, <3>5, <3>6, <3>7, SpannedAround
    <3>. QED  BY <2>1, <3>2, <3>3, <3>8
  <2>2. CASE l # 0
    <3>1. in0 = {f}
      BY <1>0, <2>2
    <3>2. Searchable(in0)
      BY <1>6, <3>1 DEF Searchable
    <3>3. Spanned(in0)
      BY <1>6, <1>7, <1>8, <3>1, <3>2, SpannedAround
    <3>. QED  BY <2>2, <3>1, <3>3
  <2>. QED  BY <2>1, <2>2
<1>10. /\ c.level = l /\ c.in0 # {} /\ c.in0 \subseteq v[l] /\ c.in1 \subseteq v[l + 1]
       /\ c.in1 = {g \in v[l + 1] : Touches(g, LowKey(c.in0), HighKey(c.in0))}
       /\ Spanned(c.in0 \cup c.in1)
       /\ l = 0 => \A g \in v[0] \ c.in0 : ~Touches(g, LowKey(c.in0), HighKey(c.in0))
  BY <1>0, <1>4, <1>9, SetupIs
<1>. QED  BY <1>10 DEF WellChosen, InputsThere

LEMMA OverlapPart == \A v, l, lo, hi : GetOverlappingInputs(v, l, lo, hi) \subseteq v[l]
BY DEF GetOverlappingInputs

LEMMA RangeInputs ==
  ASSUME NEW v, NEW l \in 0 .. NumLevels - 2, NEW lo, NEW hi, NEW c \in CompactRange(v, l, lo, hi)
  PROVE  InputsThere(c, v)
<1>1. PICK inputs : inputs = GetOverlappingInputs(v, l, lo, hi)
  OBVIOUS
<1>2. inputs \subseteq v[l]
  BY <1>1, OverlapPart
<1>3. \/ c \in SetupOtherInputs(v, l, inputs)
      \/ \E f \in inputs : c \in SetupOtherInputs(v, l, {g \in inputs : ~Before(Smallest(f), Smallest(g))})
  BY <1>1, Zenon DEF CompactRange
<1>4. PICK in0 : c \in SetupOtherInputs(v, l, in0) /\ in0 \subseteq v[l]
  <2>1. CASE c \in SetupOtherInputs(v, l, inputs)
    BY <1>2, <2>1
  <2>2. CASE \E f \in inputs : c \in SetupOtherInputs(v, l, {g \in inputs : ~Before(Smallest(f), Smallest(g))})
    <3>1. PICK f \in inputs : c \in SetupOtherInputs(v, l, {g \in inputs : ~Before(Smallest(f), Smallest(g))})
      BY <2>2
    <3>2. {g \in inputs : ~Before(Smallest(f), Smallest(g))} \subseteq v[l]
      BY <1>2
    <3>. QED  BY <3>1, <3>2
  <2>. QED  BY <1>3, <2>1, <2>2
<1>5. PICK in1, all : /\ in1 = GetOverlappingInputs(v, l + 1, LowKey(in0), HighKey(in0))
                      /\ all = in0 \cup in1
  OBVIOUS
<1>6. PICK exp0 : exp0 = GetOverlappingInputs(v, l, LowKey(all), HighKey(all))
  OBVIOUS
<1>7. PICK exp1 : exp1 = GetOverlappingInputs(v, l + 1, LowKey(exp0), HighKey(exp0))
  OBVIOUS
<1>8. \/ c = [level |-> l, in0 |-> in0, in1 |-> in1]
      \/ c = [level |-> l, in0 |-> exp0, in1 |-> exp1]
  BY <1>4, <1>5, <1>6, <1>7, Zenon DEF SetupOtherInputs
<1>9. in1 \subseteq v[l + 1] /\ exp0 \subseteq v[l] /\ exp1 \subseteq v[l + 1]
  BY <1>5, <1>6, <1>7, OverlapPart, Zenon
<1>10. c.level = l /\ c.in0 \subseteq v[l] /\ c.in1 \subseteq v[l + 1]
  BY <1>4, <1>8, <1>9
<1>. QED  BY <1>10 DEF InputsThere

-----------------------------------------------------------------------------
(* What a choice gives.                                                     *)

\* The entries of the inputs are in their range, and the range has no gap.
LEMMA ChosenCovered ==
  ASSUME NEW v, \A l \in Level : Searchable(v[l]), NEW c, WellChosen(c, v)
  PROVE  Covered(c) /\ Searchable(c.in0 \cup c.in1)
<1>1. c.level \in Level /\ c.level + 1 \in Level /\ c.in0 \subseteq v[c.level] /\ c.in1 \subseteq v[c.level + 1]
  BY VersionSetAssumption DEF WellChosen, InputsThere, Level
<1>2. PICK fs : fs = c.in0 \cup c.in1
  OBVIOUS
<1>3. Searchable(fs) /\ fs # {} /\ Spanned(fs)
  BY <1>1, <1>2 DEF WellChosen, Searchable
<1>4. \A f \in fs : LowKey(fs) <= Smallest(f).key /\ Largest(f).key <= HighKey(fs)
  BY <1>3, LowHigh
<1>5. LowKey(fs) \in Nat /\ HighKey(fs) \in Nat
  BY <1>3, LowHigh, Keys
<1>6. ASSUME NEW d \in InputEntries(c) PROVE LowKey(fs) <= d.key /\ d.key <= HighKey(fs) /\ d.key \in Nat
  <2>1. PICK f \in fs : d \in f.entries
    BY <1>2 DEF InputEntries
  <2>2. /\ Smallest(f).key <= d.key /\ d.key <= Largest(f).key
        /\ Smallest(f).key \in Nat /\ Largest(f).key \in Nat /\ d.key \in Nat
    BY <1>3, <2>1, TableEnds, EntryFields, Keys DEF Searchable
  <2>. QED  BY <1>4, <1>5, <2>2
<1>7. ASSUME NEW d \in InputEntries(c), NEW e \in InputEntries(c), NEW k \in UserKey, d.key <= k, k <= e.key
      PROVE  \E f \in fs : Touches(f, k, k)
  <2>1. LowKey(fs) <= k /\ k <= HighKey(fs)
    BY <1>5, <1>6, <1>7, Keys
  <2>. QED  BY <1>3, <2>1 DEF Spanned
<1>. QED  BY <1>2, <1>3, <1>7 DEF Covered

\* Above level 0 what stays is on one side of what comes.
LEMMA ChosenApart ==
  ASSUME NEW v, \A l \in Level : Searchable(v[l]), Sorted(v), NEW c, WellChosen(c, v)
  PROVE  InputsApart(c, v)
<1>1. /\ c.level \in Level /\ c.level + 1 \in Level \ {0} /\ c.in0 \subseteq v[c.level] /\ c.in1 \subseteq v[c.level + 1]
      /\ c.in0 # {} /\ c.in1 = {f \in v[c.level + 1] : Touches(f, LowKey(c.in0), HighKey(c.in0))}
  BY VersionSetAssumption DEF WellChosen, InputsThere, Level
<1>2. PICK lo, hi : lo = LowKey(c.in0) /\ hi = HighKey(c.in0)
  OBVIOUS
<1>3. Searchable(c.in0) /\ Searchable(v[c.level + 1])
  BY <1>1 DEF Searchable
<1>4. lo \in Nat /\ hi \in Nat /\ \A f \in c.in0 : lo <= Smallest(f).key /\ Largest(f).key <= hi
  BY <1>1, <1>2, <1>3, LowHigh, Keys
<1> SUFFICES ASSUME NEW g \in v[c.level + 1] \ c.in1 PROVE Apart(InputEntries(c), g.entries)
  BY DEF InputsApart
<1>5. g.entries \subseteq Entry /\ g.entries # {} /\ Unique(g.entries)
  BY <1>3 DEF Searchable
<1>6. PICK s, t : s = Smallest(g).key /\ t = Largest(g).key
  OBVIOUS
<1>7. s \in Nat /\ t \in Nat /\ \A e \in g.entries : s <= e.key /\ e.key <= t /\ e.key \in Nat /\ e \in Entry
  BY <1>5, <1>6, TableEnds, EntryFields, Keys
<1>8. t < lo \/ hi < s
  BY <1>1, <1>2, <1>4, <1>6, <1>7 DEF Touches
<1>9. \A f \in c.in0 : \A d \in f.entries : d \in Entry /\ d.key \in Nat /\ lo <= d.key /\ d.key <= hi
  <2> TAKE f \in c.in0
  <2> TAKE d \in f.entries
  <2>1. /\ d \in Entry /\ d.key \in Nat /\ Smallest(f).key \in Nat /\ Largest(f).key \in Nat
        /\ Smallest(f).key <= d.key /\ d.key <= Largest(f).key
    BY <1>3, TableEnds, EntryFields, Keys DEF Searchable
  <2>. QED  BY <1>4, <2>1
<1>10. ASSUME NEW h \in c.in1
       PROVE  /\ h.entries \subseteq Entry /\ h # g /\ Apart(h.entries, g.entries)
              /\ \E d \in h.entries : d.key <= hi /\ d.key \in Nat
              /\ \E d \in h.entries : lo <= d.key /\ d.key \in Nat
  <2>1. h \in v[c.level + 1] /\ h # g /\ Touches(h, lo, hi)
    BY <1>1, <1>2
  <2>2. Apart(h.entries, g.entries)
    BY <1>1, <2>1 DEF Sorted
  <2>3. /\ h.entries \subseteq Entry /\ Smallest(h) \in h.entries /\ Largest(h) \in h.entries
        /\ Smallest(h).key \in Nat /\ Largest(h).key \in Nat
    BY <1>3, <2>1, TableEnds, Keys DEF Searchable
  <2>. QED  BY <1>4, <2>1, <2>2, <2>3 DEF Touches
<1>11. CASE hi < s
  <2>1. ASSUME NEW f \in c.in0 \cup c.in1, NEW d \in f.entries, NEW e \in g.entries PROVE Precedes(d, e)
    <3>1. CASE f \in c.in0
      <4>1. d.key < e.key /\ d \in Entry /\ e \in Entry
        BY <1>4, <1>7, <1>9, <1>11, <3>1
      <4>. QED  BY <4>1, PrecedesOrder
    <3>2. CASE f \in c.in1
      <4>1. PICK x \in f.entries : x.key <= hi /\ x.key \in Nat
        BY <1>10, <3>2
      <4>2. x.key < e.key /\ x \in Entry
        BY <1>4, <1>7, <1>10, <1>11, <3>2, <4>1
      <4>3. ~Precedes(e, x)
        BY <1>7, <4>1, <4>2, PrecedesOrder
      <4>. QED  BY <1>10, <3>2, <4>3 DEF Apart, Left
    <3>. QED  BY <3>1, <3>2
  <2>. QED  BY <2>1 DEF Apart, Left, InputEntries
<1>12. CASE t < lo
  <2>1. ASSUME NEW f \in c.in0 \cup c.in1, NEW d \in f.entries, NEW e \in g.entries PROVE Precedes(e, d)
    <3>1. CASE f \in c.in0
      <4>1. e.key < d.key /\ d \in Entry /\ e \in Entry
        BY <1>4, <1>7, <1>9, <1>12, <3>1
      <4>. QED  BY <4>1, PrecedesOrder
    <3>2. CASE f \in c.in1
      <4>1. PICK x \in f.entries : lo <= x.key /\ x.key \in Nat
        BY <1>10, <3>2
      <4>2. e.key < x.key /\ x \in Entry
        BY <1>4, <1>7, <1>10, <1>12, <3>2, <4>1
      <4>3. ~Precedes(x, e)
        BY <1>7, <4>1, <4>2, PrecedesOrder
      <4>. QED  BY <1>10, <3>2, <4>3 DEF Apart, Left
    <3>. QED  BY <3>1, <3>2
  <2>. QED  BY <2>1 DEF Apart, Left, InputEntries
<1>. QED  BY <1>8, <1>11, <1>12

\* Nothing that stays in the level of the inputs has a key of theirs.
LEMMA ChosenOldest ==
  ASSUME NEW v, \A l \in Level : Searchable(v[l]), Sorted(v), ~SplitKeys, NEW c, WellChosen(c, v)
  PROVE  \A g \in v[c.level] \ c.in0 : \A e \in g.entries, d \in EntriesOf(c.in0) : e.key # d.key
<1>1. c.level \in Level /\ c.in0 \subseteq v[c.level] /\ c.in0 # {} /\ Searchable(v[c.level])
  BY VersionSetAssumption DEF WellChosen, InputsThere, Level
<1> SUFFICES ASSUME NEW g \in v[c.level] \ c.in0, NEW e \in g.entries, NEW f \in c.in0, NEW d \in f.entries,
                    e.key = d.key
             PROVE  FALSE
  BY DEF EntriesOf
<1>2. d \in Entry /\ e \in Entry /\ d.key \in Nat /\ e.key \in Nat
  BY <1>1, EntryFields DEF Searchable
<1>3. CASE c.level = 0
  <2>1. Searchable(c.in0)
    BY <1>1 DEF Searchable
  <2>2. LowKey(c.in0) <= Smallest(f).key /\ Largest(f).key <= HighKey(c.in0)
    BY <1>1, <2>1, LowHigh
  <2>3. LowKey(c.in0) \in UserKey /\ HighKey(c.in0) \in UserKey
    BY <1>1, <2>1, LowHigh
  <2>4. /\ Smallest(f).key \in Nat /\ Largest(f).key \in Nat /\ Smallest(f).key <= d.key /\ d.key <= Largest(f).key
    BY <2>1, TableEnds, Keys DEF Searchable
  <2>5. Touches(g, e.key, e.key)
    BY <1>1, TableEnds DEF Searchable
  <2>6. /\ LowKey(c.in0) \in Nat /\ HighKey(c.in0) \in Nat /\ e.key \in UserKey
        /\ LowKey(c.in0) <= e.key /\ e.key <= HighKey(c.in0)
    <3>1. LowKey(c.in0) \in Nat /\ HighKey(c.in0) \in Nat /\ e.key \in UserKey
      BY <1>2, <2>3, Keys, EntryFields
    <3>. QED  BY <1>2, <2>2, <2>4, <3>1
  <2>7. Touches(g, LowKey(c.in0), HighKey(c.in0))
    BY <1>1, <2>3, <2>5, <2>6, TouchesWider DEF Searchable
  <2>. QED  BY <1>3, <2>7 DEF WellChosen
<1>4. CASE c.level # 0
  <2>1. f # g /\ f \in v[c.level]
    BY <1>1
  <2>2. Apart(f.entries, g.entries)
    BY <1>1, <1>4, <2>1 DEF Sorted
  <2>. QED  BY <1>2, <2>2, PrecedesOrder DEF Apart, Left
<1>. QED  BY <1>3, <1>4

-----------------------------------------------------------------------------
(* The tree after a compaction and after a flush.                           *)

LEMMA TreeTables ==
  ASSUME NEW m, NEW i, NEW v, NEW last, TreeTyped(m, i, v, last)
  PROVE  /\ \A l \in Level : Searchable(v[l]) /\ IsFiniteSet(v[l]) /\ v[l] \subseteq Table
         /\ \A l \in Level : \A d \in EntriesOf(v[l]) : d \in InFiles(v) /\ d \in Everything(m, i, v)
         /\ Everything(m, i, v) \subseteq Entry
<1>1. \A l \in Level : v[l] \subseteq Table /\ IsFiniteSet(v[l]) /\ \A f \in v[l] : f.entries # {}
  BY DEF TreeTyped
<1>2. \A l \in Level : \A f \in v[l] : f.entries \in SUBSET Entry /\ f.entries \subseteq Everything(m, i, v)
  BY <1>1 DEF Table, Everything, InFiles, EntriesOf
<1>3. \A l \in Level : \A f \in v[l] : Unique(f.entries)
  BY <1>2 DEF TreeTyped, Unique
<1>4. \A l \in Level : Searchable(v[l])
  BY <1>1, <1>2, <1>3 DEF Searchable
<1>5. \A l \in Level : \A d \in EntriesOf(v[l]) : d \in InFiles(v) /\ d \in Everything(m, i, v)
  BY DEF Everything, InFiles
<1>6. Everything(m, i, v) \subseteq Entry
  BY <1>2 DEF TreeTyped, Everything, InFiles, EntriesOf
<1>. QED  BY <1>1, <1>4, <1>5, <1>6

LEMMA UniquePart ==
  ASSUME NEW E, NEW F, Unique(E), F \subseteq E
  PROVE  Unique(F)
BY DEF Unique

\* The tree v after the compaction c has written out.
Compacted(v, c, out) == [v EXCEPT ![c.level] = @ \ c.in0, ![c.level + 1] = (@ \ c.in1) \cup out]

\* The tree stays typed, sorted and layered, with outputs made of the inputs.
LEMMA AppliedTree ==
  ASSUME NEW m, NEW i, NEW v, NEW last, TreeTyped(m, i, v, last), NEW c, InputsThere(c, v),
         NEW out \in SUBSET Table, IsFiniteSet(out),
         \A o \in out : o.entries # {} /\ o.entries \subseteq InputEntries(c),
         NEW w, w = Compacted(v, c, out)
  PROVE  /\ TreeTyped(m, i, w, last)
         /\ Everything(m, i, w) \subseteq Everything(m, i, v)
         /\ Sorted(v) /\ InputsApart(c, v) /\ (\A o, p \in out : o = p \/ Apart(o.entries, p.entries)) => Sorted(w)
         /\ Layered(m, i, v) /\ InputsOldest(c, v) => Layered(m, i, w)
<1>1. PICK a, b : a = c.level /\ b = c.level + 1
  OBVIOUS
<1>2. a \in Level /\ b \in Level \ {0} /\ a \in Nat /\ b = a + 1 /\ a # b /\ c.in0 \subseteq v[a] /\ c.in1 \subseteq v[b]
  BY <1>1, VersionSetAssumption DEF InputsThere, Level
<1>3. v \in [Level -> SUBSET Table] /\ \A l \in Level : v[l] \subseteq Table
  BY DEF TreeTyped
<1>4. /\ w[a] = v[a] \ c.in0 /\ w[b] = (v[b] \ c.in1) \cup out
      /\ \A l \in Level : l # a /\ l # b => w[l] = v[l]
      /\ w \in [Level -> SUBSET Table]
  <2>1. w = [v EXCEPT ![a] = @ \ c.in0, ![b] = (@ \ c.in1) \cup out]
    BY <1>1 DEF Compacted
  <2>2. w[a] = v[a] \ c.in0
    BY <1>2, <1>3, <2>1
  <2>3. w[b] = (v[b] \ c.in1) \cup out
    BY <1>2, <1>3, <2>1
  <2>4. \A l \in Level : l # a /\ l # b => w[l] = v[l]
    BY <1>2, <1>3, <2>1
  <2>5. \A l \in Level : w[l] \subseteq Table
    BY <1>3, <2>2, <2>3, <2>4
  <2>6. w = [l \in Level |-> w[l]]
    BY <1>3, <2>1
  <2>. QED  BY <2>2, <2>3, <2>4, <2>5, <2>6
<1>5. InputEntries(c) \subseteq EntriesOf(v[a]) \cup EntriesOf(v[b])
  BY <1>2 DEF InputEntries, EntriesOf
<1>6. \A l \in Level : \A d \in EntriesOf(w[l]) : d \in EntriesOf(v[l]) \/ (l = b /\ d \in InputEntries(c))
  BY <1>2, <1>4 DEF EntriesOf
<1>7. InFiles(w) \subseteq InFiles(v)
  BY <1>2, <1>5, <1>6 DEF InFiles
<1>8. Everything(m, i, w) \subseteq Everything(m, i, v)
  BY <1>7 DEF Everything
<1>9. \A l \in Level : IsFiniteSet(w[l]) /\ \A f \in w[l] : f.entries # {}
  <2> TAKE l \in Level
  <2>1. IsFiniteSet(v[l]) /\ \A f \in v[l] : f.entries # {}
    BY DEF TreeTyped
  <2>2. CASE l = b
    <3>1. IsFiniteSet(v[l] \ c.in1)
      BY <2>1, FS_Subset
    <3>2. IsFiniteSet((v[l] \ c.in1) \cup out)
      BY <3>1, FS_Union
    <3>. QED  BY <1>4, <2>1, <2>2, <3>2
  <2>3. CASE l # b
    <3>1. w[l] \subseteq v[l]
      BY <1>4, <2>3
    <3>. QED  BY <2>1, <3>1, FS_Subset
  <2>. QED  BY <2>2, <2>3
<1>10. w[0] \subseteq v[0]
  <2>1. 0 \in Level
    BY VersionSetAssumption DEF Level
  <2>. QED  BY <1>2, <1>4, <2>1
<1>11. TreeTyped(m, i, w, last)
  <2>1. Unique(Everything(m, i, w)) /\ \A e \in Everything(m, i, w) : e.seq <= last
    BY <1>8, UniquePart DEF TreeTyped
  <2>. QED  BY <1>4, <1>9, <1>10, <2>1 DEF TreeTyped
<1>12. ASSUME Sorted(v), InputsApart(c, v), \A o, p \in out : o = p \/ Apart(o.entries, p.entries)
       PROVE  Sorted(w)
  <2> SUFFICES ASSUME NEW l \in Level \ {0}, NEW f \in w[l], NEW g \in w[l], f # g
               PROVE  Apart(f.entries, g.entries)
    BY DEF Sorted
  <2>1. \A x, y \in v[l] : x = y \/ Apart(x.entries, y.entries)
    BY <1>12 DEF Sorted
  <2>2. CASE l = b
    <3>1. \A x \in v[b] \ c.in1 : Apart(InputEntries(c), x.entries)
      BY <1>1, <1>12 DEF InputsApart
    <3>2. \A x \in v[b] \ c.in1, o \in out : Apart(o.entries, x.entries) /\ Apart(x.entries, o.entries)
      BY <3>1 DEF Apart, Left
    <3>3. CASE f \in out /\ g \in out
      BY <1>12, <3>3
    <3>4. CASE f \notin out \/ g \notin out
      BY <1>4, <2>1, <2>2, <3>2, <3>4
    <3>. QED  BY <3>3, <3>4
  <2>3. CASE l # b
    <3>1. f \in v[l] /\ g \in v[l]
      BY <1>4, <2>3
    <3>. QED  BY <2>1, <3>1
  <2>. QED  BY <2>2, <2>3
<1>13. ASSUME Layered(m, i, v), InputsOldest(c, v) PROVE Layered(m, i, w)
  <2>1. Newer(m, i \cup InFiles(w)) /\ Newer(i, InFiles(w))
    BY <1>7, <1>13 DEF Layered, Newer
  <2>2. \A f, g \in w[0] : f.number > g.number => Newer(f.entries, g.entries)
    BY <1>10, <1>13 DEF Layered
  <2>3. ASSUME NEW j \in Level, NEW l \in Level, j < l, NEW d \in EntriesOf(w[j]), NEW e \in EntriesOf(w[l]), d.key = e.key
        PROVE  d.seq > e.seq
    <3>1. \A x, y \in Level : x < y => \A p \in EntriesOf(v[x]), q \in EntriesOf(v[y]) : p.key = q.key => p.seq > q.seq
      BY <1>13 DEF Layered, Newer
    <3>2. j \in Nat /\ l \in Nat
      BY VersionSetAssumption DEF Level
    <3>3. CASE l = b
      <4>0. j # b
        BY <2>3, <3>2, <3>3
      <4>1. CASE e \in EntriesOf(v[l])
        <5>1. d \in EntriesOf(v[j])
          BY <1>6, <2>3, <4>0
        <5>. QED  BY <2>3, <3>1, <4>1, <5>1
      <4>2. CASE e \in InputEntries(c)
        <5>1. e \in EntriesOf(c.in0) \/ e \in EntriesOf(c.in1)
          BY <4>2 DEF InputEntries, EntriesOf
        <5>2. d \in EntriesOf(v[j])
          BY <1>6, <2>3, <4>0
        <5>3. CASE e \in EntriesOf(c.in1)
          <6>1. e \in EntriesOf(v[b])
            BY <1>2, <5>3 DEF EntriesOf
          <6>. QED  BY <2>3, <3>1, <3>3, <5>2, <6>1
        <5>4. CASE e \in EntriesOf(c.in0)
          <6>1. e \in EntriesOf(v[a])
            BY <1>2, <5>4 DEF EntriesOf
          <6>2. CASE j < a
            BY <1>2, <2>3, <3>1, <5>2, <6>1, <6>2
          <6>3. CASE j = a
            <7>1. PICK g \in v[a] \ c.in0 : d \in g.entries
              BY <1>4, <2>3, <6>3 DEF EntriesOf
            <7>2. Newer(g.entries, EntriesOf(c.in0))
              BY <1>1, <1>13, <7>1 DEF InputsOldest
            <7>. QED  BY <2>3, <5>4, <7>1, <7>2 DEF Newer
          <6>. QED  BY <1>2, <2>3, <3>2, <3>3, <6>2, <6>3
        <5>. QED  BY <5>1, <5>3, <5>4
      <4>. QED  BY <1>6, <2>3, <4>1, <4>2
    <3>4. CASE l # b
      <4>1. e \in EntriesOf(v[l])
        BY <1>6, <2>3, <3>4
      <4>2. CASE d \in EntriesOf(v[j])
        BY <2>3, <3>1, <4>1, <4>2
      <4>3. CASE j = b /\ d \in InputEntries(c)
        <5>1. a < l /\ b < l
          BY <1>2, <2>3, <3>2, <4>3
        <5>. QED  BY <1>2, <1>5, <2>3, <3>1, <4>1, <4>3, <5>1
      <4>. QED  BY <1>6, <2>3, <4>2, <4>3
    <3>. QED  BY <3>3, <3>4
  <2>4. \A j, l \in Level : j < l => Newer(EntriesOf(w[j]), EntriesOf(w[l]))
    BY <2>3 DEF Newer
  <2>. QED  BY <2>1, <2>2, <2>4 DEF Layered
<1>. QED  BY <1>8, <1>11, <1>12, <1>13

-----------------------------------------------------------------------------
(* What a compaction writes.                                                *)

RunOf(cuts, e) == Cardinality({d \in cuts : Before(d, e)})

\* The number of an output never falls from an entry to a later one, and grows only over a cut.
LEMMA RunsGrow ==
  ASSUME NEW cuts \in SUBSET Entry, IsFiniteSet(cuts), NEW d \in Entry, NEW e \in Entry
  PROVE  /\ RunOf(cuts, d) \in Nat
         /\ Before(d, e) => RunOf(cuts, d) <= RunOf(cuts, e)
         /\ RunOf(cuts, d) < RunOf(cuts, e) => \E c \in cuts : Before(c, e) /\ ~Before(c, d)
<1>1. PICK D, E : D = {c \in cuts : Before(c, d)} /\ E = {c \in cuts : Before(c, e)}
  OBVIOUS
<1>2. IsFiniteSet(D) /\ IsFiniteSet(E)
  <2>1. D \subseteq cuts /\ E \subseteq cuts
    BY <1>1
  <2>. QED  BY <2>1, FS_Subset
<1>3. Cardinality(D) \in Nat /\ Cardinality(E) \in Nat
  BY <1>2, FS_CardinalityType
<1>4. RunOf(cuts, d) = Cardinality(D) /\ RunOf(cuts, e) = Cardinality(E)
  BY <1>1 DEF RunOf
<1>5. ASSUME Before(d, e) PROVE Cardinality(D) <= Cardinality(E)
  <2>1. D \subseteq E
    BY <1>1, <1>5, BeforeOrder
  <2>. QED  BY <1>2, <2>1, FS_Subset
<1>6. ASSUME Cardinality(D) < Cardinality(E) PROVE \E c \in cuts : Before(c, e) /\ ~Before(c, d)
  <2> SUFFICES ASSUME \A c \in cuts : Before(c, e) => Before(c, d) PROVE FALSE
    OBVIOUS
  <2>1. E \subseteq D
    BY <1>1
  <2>2. Cardinality(E) <= Cardinality(D)
    BY <1>2, <2>1, FS_Subset
  <2>. QED  BY <1>3, <1>6, <2>2
<1>. QED  BY <1>3, <1>4, <1>5, <1>6

\* The outputs are tables of what is kept, and they follow each other.
LEMMA OutputsAre ==
  ASSUME NEW kept \in SUBSET Entry, Unique(kept), NEW cuts \in SUBSET CutPoints(kept)
  PROVE  /\ Outputs(kept, cuts) \in SUBSET Table /\ IsFiniteSet(Outputs(kept, cuts))
         /\ \A o \in Outputs(kept, cuts) : o.entries # {} /\ o.entries \subseteq kept
         /\ EntriesOf(Outputs(kept, cuts)) = kept
         /\ \A o, p \in Outputs(kept, cuts) : o = p \/ Apart(o.entries, p.entries)
<1>1. cuts \in SUBSET Entry /\ cuts \subseteq kept /\ IsFiniteSet(kept) /\ IsFiniteSet(cuts)
  <2>1. cuts \subseteq kept
    BY DEF CutPoints
  <2>2. IsFiniteSet(kept)
    BY EntriesFinite
  <2>. QED  BY <2>1, <2>2, FS_Subset
<1> DEFINE Out(e) == [number |-> 0, entries |-> {d \in kept : RunOf(cuts, d) = RunOf(cuts, e)}]
<1>2. PICK out : out = Outputs(kept, cuts)
  OBVIOUS
<1>3. out = {Out(e) : e \in kept}
  <2>1. out = {[number |-> 0, entries |-> {e \in kept : RunOf(cuts, e) = r}] : r \in {RunOf(cuts, e) : e \in kept}}
    BY <1>2, Zenon DEF Outputs, RunOf
  <2>2. \A o \in out : \E e \in kept : o = Out(e)
    BY <2>1
  <2>3. \A e \in kept : Out(e) \in out
    BY <2>1
  <2>. QED  BY <2>2, <2>3
<1>4. IsFiniteSet(out)
  <2>1. PICK g : g = [e \in kept |-> Out(e)]
    OBVIOUS
  <2>2. g \in Surjection(kept, out)
    BY <1>3, <2>1 DEF Surjection
  <2>. QED  BY <1>1, <2>2, FS_Surjection
<1>5. \A e \in kept : e \in Out(e).entries /\ Out(e).entries \subseteq kept
  OBVIOUS
<1>6. out \in SUBSET Table /\ \A o \in out : o.entries # {} /\ o.entries \subseteq kept
  <2>1. \A e \in kept : Out(e) \in Table
    BY DEF Table
  <2>. QED  BY <1>3, <1>5, <2>1
<1>7. EntriesOf(out) = kept
  <2>1. \A e \in kept : Out(e) \in out /\ e \in Out(e).entries
    BY <1>3, <1>5
  <2>2. \A e \in kept : \E o \in out : e \in o.entries
    BY <2>1
  <2>3. kept \subseteq EntriesOf(out)
    BY <2>2 DEF EntriesOf
  <2>4. EntriesOf(out) \subseteq kept
    BY <1>6 DEF EntriesOf
  <2>. QED  BY <2>3, <2>4
<1>8. ASSUME NEW d \in kept, NEW e \in kept, RunOf(cuts, d) < RunOf(cuts, e) PROVE Precedes(d, e)
  <2>1. d \in Entry /\ e \in Entry /\ RunOf(cuts, d) \in Nat /\ RunOf(cuts, e) \in Nat
    BY <1>1, RunsGrow
  <2>2. ~Before(e, d)
    <3>1. Before(e, d) => RunOf(cuts, e) <= RunOf(cuts, d)
      BY <1>1, <2>1, RunsGrow
    <3>. QED  BY <1>8, <2>1, <3>1
  <2>3. d # e /\ d.seq # e.seq
    BY <1>8, <2>1 DEF Unique
  <2>4. Before(d, e)
    BY <2>1, <2>2, <2>3, BeforeOrder
  <2>5. CASE SplitKeys
    BY <2>4, <2>5 DEF Precedes
  <2>6. CASE ~SplitKeys
    <3>1. PICK c \in cuts : Before(c, e) /\ ~Before(c, d)
      BY <1>1, <1>8, <2>1, RunsGrow
    <3>2. c \in kept /\ c \in Entry
      BY <1>1
    <3>3. \A x \in kept : x.key = c.key => x.seq >= c.seq
      BY <2>6 DEF CutPoints
    <3>4. c = d \/ Before(d, c)
      BY <2>1, <3>1, <3>2, BeforeOrder DEF Unique
    <3>5. d.key <= c.key
      BY <2>1, <3>2, <3>4, BeforeOrder, EntryFields
    <3>6. d.key \in Nat /\ c.key \in Nat /\ e.key \in Nat /\ c.seq \in Nat /\ e.seq \in Nat
      BY <2>1, <3>2, EntryFields
    <3>7. c.key < e.key
      BY <3>1, <3>3, <3>6 DEF Before
    <3>. QED  BY <2>6, <3>5, <3>6, <3>7 DEF Precedes
  <2>. QED  BY <2>5, <2>6
<1>9. ASSUME NEW o \in out, NEW p \in out, o # p PROVE Apart(o.entries, p.entries)
  <2>1. PICK d \in kept, e \in kept : o = Out(d) /\ p = Out(e)
    BY <1>3
  <2>2. RunOf(cuts, d) \in Nat /\ RunOf(cuts, e) \in Nat /\ RunOf(cuts, d) # RunOf(cuts, e)
    <3>1. RunOf(cuts, d) # RunOf(cuts, e)
      BY <1>9, <2>1
    <3>. QED  BY <1>1, <3>1, RunsGrow
  <2>3. /\ \A x \in o.entries : x \in kept /\ RunOf(cuts, x) = RunOf(cuts, d)
        /\ \A x \in p.entries : x \in kept /\ RunOf(cuts, x) = RunOf(cuts, e)
    BY <2>1
  <2>4. CASE RunOf(cuts, d) < RunOf(cuts, e)
    BY <1>8, <2>3, <2>4 DEF Apart, Left
  <2>5. CASE RunOf(cuts, e) < RunOf(cuts, d)
    BY <1>8, <2>3, <2>5 DEF Apart, Left
  <2>. QED  BY <2>2, <2>4, <2>5
<1>. QED  BY <1>2, <1>4, <1>6, <1>7, <1>9

-----------------------------------------------------------------------------
(* The tree after a flush.                                                  *)

\* A number that no table of level 0 has.
LEMMA FreshNumber ==
  ASSUME NEW fs \in SUBSET Table, IsFiniteSet(fs), NEW n, n = 1 + Max({0} \cup {f.number : f \in fs})
  PROVE  n \in Nat /\ \A f \in fs : f.number < n
<1>1. PICK N, M : N = {f.number : f \in fs} /\ M = {0} \cup N
  OBVIOUS
<1>2. N \subseteq Nat
  BY <1>1 DEF Table
<1>3. IsFiniteSet(N)
  <2>1. PICK g : g = [f \in fs |-> f.number]
    OBVIOUS
  <2>2. g \in Surjection(fs, N)
    BY <1>1, <2>1 DEF Surjection
  <2>. QED  BY <2>2, FS_Surjection
<1>4. IsFiniteSet(M)
  <2>1. IsFiniteSet(N \cup {0})
    BY <1>3, FS_AddElement
  <2>2. M = N \cup {0}
    BY <1>1
  <2>. QED  BY <2>1, <2>2
<1>5. M \subseteq Int /\ M # {} /\ \A f \in fs : f.number \in M
  BY <1>1, <1>2
<1>6. Max(M) \in M /\ \A x \in M : x <= Max(M)
  BY <1>4, <1>5, MaxOfFinite
<1>7. n = 1 + Max(M)
  BY <1>1, Zenon
<1>8. Max(M) \in Nat
  BY <1>1, <1>2, <1>6
<1>9. \A f \in fs : f.number \in Nat
  BY DEF Table
<1>10. \A f \in fs : f.number <= Max(M)
  BY <1>5, <1>6
<1>11. n \in Nat
  BY <1>7, <1>8
<1>12. \A f \in fs : f.number < n
  <2> TAKE f \in fs
  <2>1. f.number \in Nat /\ f.number <= Max(M)
    BY <1>9, <1>10
  <2>. QED  BY <1>7, <1>8, <2>1
<1>. QED  BY <1>11, <1>12

\* A table that does not touch a range is on one side of it.
LEMMA FreeTables ==
  ASSUME NEW v, NEW l, Searchable(v[l]), NEW lo \in UserKey, NEW hi \in UserKey, lo <= hi,
         ~OverlapInLevel(v, l, lo, hi), NEW g \in v[l]
  PROVE  (\A d \in g.entries : d.key < lo) \/ (\A d \in g.entries : hi < d.key)
<1>1. ~Touches(g, lo, hi)
  BY DEF OverlapInLevel
<1>2. Smallest(g).key \in UserKey /\ Largest(g).key \in UserKey
  BY TableEnds DEF Searchable
<1>3. \A d \in g.entries : d.key \in Nat /\ Smallest(g).key <= d.key /\ d.key <= Largest(g).key
  BY TableEnds, EntryFields DEF Searchable
<1>4. lo \in Nat /\ hi \in Nat /\ Smallest(g).key \in Nat /\ Largest(g).key \in Nat
  BY <1>2, Keys
<1>5. Largest(g).key < lo \/ hi < Smallest(g).key
  BY <1>1, <1>4 DEF Touches
<1>6. CASE Largest(g).key < lo
  BY <1>3, <1>4, <1>6
<1>7. CASE hi < Smallest(g).key
  BY <1>3, <1>4, <1>7
<1>. QED  BY <1>5, <1>6, <1>7

\* The range of the immutable memtable, and the levels its table passes.
LEMMA FlushRange ==
  ASSUME NEW i \in SUBSET Entry, i # {}, Unique(i)
  PROVE  /\ First(i).key \in UserKey /\ Last(i).key \in UserKey /\ First(i).key <= Last(i).key
         /\ \A d \in i : First(i).key <= d.key /\ d.key <= Last(i).key
<1>1. PICK f : f = [number |-> 0, entries |-> i]
  OBVIOUS
<1>2. f.entries = i /\ Smallest(f) = First(i) /\ Largest(f) = Last(i)
  BY <1>1 DEF Smallest, Largest
<1>3. f.entries \in SUBSET Entry /\ f.entries # {} /\ Unique(f.entries)
  BY <1>2
<1>. QED  BY <1>2, <1>3, TableEnds

LEMMA FlushLevel ==
  ASSUME NEW v, NEW lo, NEW hi, NEW l \in PickLevelForMemTableOutput(v, lo, hi)
  PROVE  l \in Level /\ l \in Nat /\ (l > 0 => \A j \in 0 .. l : ~OverlapInLevel(v, j, lo, hi))
<1>1. /\ l \in 0 .. MaxMemCompactLevel
      /\ \A j \in 1 .. l : ~OverlapInLevel(v, j, lo, hi)
      /\ l > 0 => ~OverlapInLevel(v, 0, lo, hi)
  BY DEF PickLevelForMemTableOutput
<1>2. l \in Level /\ l \in Nat
  BY <1>1, VersionSetAssumption DEF Level
<1>. QED  BY <1>1, <1>2

\* Where the flushed table passed, nothing in the tree has a key of its range.
LEMMA FlushClear ==
  ASSUME NEW v, NEW i \in SUBSET Entry, i # {}, Unique(i), \A j \in Level : Searchable(v[j]),
         NEW l \in PickLevelForMemTableOutput(v, First(i).key, Last(i).key), l > 0,
         NEW j \in 0 .. l
  PROVE  \A g \in v[j] :
           /\ ~Touches(g, First(i).key, Last(i).key)
           /\ \/ \A d \in g.entries, e \in i : d.key < e.key
              \/ \A d \in g.entries, e \in i : e.key < d.key
<1> TAKE g \in v[j]
<1>1. PICK lo \in UserKey, hi \in UserKey :
         lo = First(i).key /\ hi = Last(i).key /\ lo <= hi /\ \A e \in i : lo <= e.key /\ e.key <= hi
  BY FlushRange
<1>2. l \in Level /\ l \in Nat /\ ~OverlapInLevel(v, j, lo, hi)
  BY <1>1, FlushLevel
<1>3. j \in Level
  BY <1>2, VersionSetAssumption DEF Level
<1>4. (\A d \in g.entries : d.key < lo) \/ (\A d \in g.entries : hi < d.key)
  BY <1>1, <1>2, <1>3, FreeTables
<1>5. lo \in Nat /\ hi \in Nat /\ (\A e \in i : e.key \in Nat) /\ \A d \in g.entries : d.key \in Nat
  BY <1>3, Keys, EntryFields DEF Searchable
<1>6. ~Touches(g, lo, hi)
  BY <1>2 DEF OverlapInLevel
<1>7. CASE \A d \in g.entries : d.key < lo
  BY <1>1, <1>5, <1>6, <1>7
<1>8. CASE \A d \in g.entries : hi < d.key
  BY <1>1, <1>5, <1>6, <1>8
<1>. QED  BY <1>4, <1>7, <1>8

\* The table of the immutable memtable i in the tree v, and the tree with it in level l.
Flushed(v, i, l) ==
  [number |-> IF l = 0 THEN 1 + Max({0} \cup {g.number : g \in v[0]}) ELSE 0, entries |-> i]

WithFlush(v, i, l) == [v EXCEPT ![l] = @ \cup {Flushed(v, i, l)}]

\* The tree stays typed, sorted and layered, with everything in it that was.
LEMMA FlushedTree ==
  ASSUME NEW m, NEW i, NEW v, NEW last, TreeTyped(m, i, v, last), i # {},
         NEW l \in PickLevelForMemTableOutput(v, First(i).key, Last(i).key),
         NEW w, w = WithFlush(v, i, l)
  PROVE  /\ TreeTyped(m, {}, w, last)
         /\ Everything(m, {}, w) = Everything(m, i, v)
         /\ Sorted(v) => Sorted(w)
         /\ Layered(m, i, v) => Layered(m, {}, w)
<1>1. l \in Level /\ l \in Nat /\ \A j \in Level : Searchable(v[j]) /\ v[j] \subseteq Table /\ IsFiniteSet(v[j])
  BY FlushLevel, TreeTables
<1>2. v \in [Level -> SUBSET Table] /\ i \in SUBSET Entry /\ m \subseteq Entry
  BY DEF TreeTyped
<1> PICK f : f = Flushed(v, i, l)
  OBVIOUS
<1>0. /\ f.entries = i /\ f.number = IF l = 0 THEN 1 + Max({0} \cup {g.number : g \in v[0]}) ELSE 0
      /\ f \in Table
  <2>1. 0 \in Level
    BY VersionSetAssumption DEF Level
  <2>2. l = 0 => f.number \in Nat
    BY <1>1, <2>1, FreshNumber DEF Flushed
  <2>. QED  BY <1>2, <2>2 DEF Flushed, Table
<1>3. /\ w[l] = v[l] \cup {f} /\ \A j \in Level : j # l => w[j] = v[j]
      /\ w \in [Level -> SUBSET Table]
  BY <1>0, <1>1, <1>2 DEF WithFlush
<1>4. InFiles(w) = InFiles(v) \cup i
  <2>1. \A j \in Level : EntriesOf(w[j]) \subseteq InFiles(v) \cup i
    BY <1>0, <1>3 DEF EntriesOf, InFiles
  <2>2. InFiles(w) \subseteq InFiles(v) \cup i
    BY <2>1 DEF InFiles
  <2>3. \A j \in Level : EntriesOf(v[j]) \subseteq EntriesOf(w[j])
    BY <1>3 DEF EntriesOf
  <2>4. InFiles(v) \subseteq InFiles(w)
    BY <2>3 DEF InFiles
  <2>5. i \subseteq EntriesOf(w[l])
    BY <1>0, <1>3 DEF EntriesOf
  <2>6. i \subseteq InFiles(w)
    BY <1>1, <2>5 DEF InFiles
  <2>. QED  BY <2>2, <2>4, <2>6
<1>5. Everything(m, {}, w) = Everything(m, i, v)
  BY <1>4 DEF Everything
<1>6. Unique(i)
  BY UniquePart DEF TreeTyped, Everything
<1>7. 0 \in Level /\ \A j \in Level : j \in Nat
  BY VersionSetAssumption DEF Level
<1>8. l = 0 => \A g \in v[0] : g.number < f.number
  BY <1>0, <1>1, <1>7, FreshNumber
<1>9. \A g \in v[0] : g.number \in Nat
  BY <1>1, <1>7 DEF Table
<1>10. \A g, h \in w[0] : g.number = h.number => g = h
  <2>1. \A g, h \in v[0] : g.number = h.number => g = h
    BY DEF TreeTyped
  <2>2. f.number \in Nat
    BY <1>0 DEF Table
  <2>3. CASE l = 0
    <3>1. \A g \in v[0] : g.number # f.number
      BY <1>8, <1>9, <2>2, <2>3
    <3>. QED  BY <1>3, <2>1, <2>3, <3>1
  <2>4. CASE l # 0
    BY <1>3, <1>7, <2>1, <2>4
  <2>. QED  BY <2>3, <2>4
<1>11. TreeTyped(m, {}, w, last)
  <2>1. \A j \in Level : IsFiniteSet(w[j])
    BY <1>1, <1>3, FS_AddElement
  <2>2. \A j \in Level : \A g \in w[j] : g.entries # {}
    BY <1>0, <1>3 DEF TreeTyped
  <2>. QED  BY <1>2, <1>3, <1>5, <1>10, <2>1, <2>2 DEF TreeTyped
<1>12. l > 0 => \A j \in 0 .. l : \A g \in v[j] :
           \/ \A d \in g.entries, e \in i : d.key < e.key
           \/ \A d \in g.entries, e \in i : e.key < d.key
  BY <1>1, <1>2, <1>6, FlushClear
<1>13. ASSUME Sorted(v) PROVE Sorted(w)
  <2> SUFFICES ASSUME NEW j \in Level \ {0}, NEW g \in w[j], NEW h \in w[j], g # h
               PROVE  Apart(g.entries, h.entries)
    BY DEF Sorted
  <2>1. \A x, y \in v[j] : x = y \/ Apart(x.entries, y.entries)
    BY <1>13 DEF Sorted
  <2>2. CASE j # l
    BY <1>3, <2>1, <2>2
  <2>3. CASE j = l
    <3>1. \A x \in v[j] : \A d \in x.entries : d \in Entry
      BY <1>1 DEF Searchable
    <3>2. l > 0 /\ j \in 0 .. l
      BY <1>1, <2>3
    <3>3. \A x \in v[j] : Apart(x.entries, i) /\ Apart(i, x.entries)
      <4> TAKE x \in v[j]
      <4>1. CASE \A d \in x.entries, e \in i : d.key < e.key
        <5>1. \A d \in x.entries, e \in i : Precedes(d, e)
          BY <1>2, <3>1, <4>1, PrecedesOrder
        <5>. QED  BY <5>1 DEF Apart, Left
      <4>2. CASE \A d \in x.entries, e \in i : e.key < d.key
        <5>1. \A d \in x.entries, e \in i : Precedes(e, d)
          BY <1>2, <3>1, <4>2, PrecedesOrder
        <5>. QED  BY <5>1 DEF Apart, Left
      <4>. QED  BY <1>12, <3>2, <4>1, <4>2
    <3>. QED  BY <1>0, <1>3, <2>1, <2>3, <3>3
  <2>. QED  BY <2>2, <2>3
<1>14. ASSUME Layered(m, i, v) PROVE Layered(m, {}, w)
  <2>1. Newer(m, InFiles(w)) /\ Newer({}, InFiles(w))
    BY <1>4, <1>14 DEF Layered, Newer
  <2>2. ASSUME NEW g \in w[0], NEW h \in w[0], g.number > h.number PROVE Newer(g.entries, h.entries)
    <3>1. \A x, y \in v[0] : x.number > y.number => Newer(x.entries, y.entries)
      BY <1>14 DEF Layered
    <3>2. CASE g \in v[0] /\ h \in v[0]
      BY <2>2, <3>1, <3>2
    <3>3. CASE l = 0 /\ g = f /\ h \in v[0]
      <4>1. h.entries \subseteq InFiles(v)
        BY <1>7, <3>3 DEF InFiles, EntriesOf
      <4>. QED  BY <1>0, <1>14, <3>3, <4>1 DEF Layered, Newer
    <3>4. CASE l = 0 /\ h = f
      <4>1. f.number \in Nat
        BY <1>0 DEF Table
      <4>2. g = f \/ g \in v[0]
        BY <1>3, <3>4
      <4>. QED  BY <1>8, <1>9, <2>2, <3>4, <4>1, <4>2
    <3>5. g \in v[0] \/ (l = 0 /\ g = f)
      BY <1>3, <1>7
    <3>6. h \in v[0] \/ (l = 0 /\ h = f)
      BY <1>3, <1>7
    <3>. QED  BY <3>2, <3>3, <3>4, <3>5, <3>6
  <2>3. ASSUME NEW j \in Level, NEW k \in Level, j < k, NEW d \in EntriesOf(w[j]), NEW e \in EntriesOf(w[k]), d.key = e.key
        PROVE  d.seq > e.seq
    <3>1. \A x, y \in Level : x < y => \A p \in EntriesOf(v[x]), q \in EntriesOf(v[y]) : p.key = q.key => p.seq > q.seq
      BY <1>14 DEF Layered, Newer
    <3>2. \A p \in i, q \in InFiles(v) : p.key = q.key => p.seq > q.seq
      BY <1>14 DEF Layered, Newer
    <3>3. d \in EntriesOf(v[j]) \/ (j = l /\ d \in i)
      BY <1>0, <1>3 DEF EntriesOf
    <3>4. e \in EntriesOf(v[k]) \/ (k = l /\ e \in i)
      BY <1>0, <1>3 DEF EntriesOf
    <3>5. CASE d \in EntriesOf(v[j]) /\ e \in EntriesOf(v[k])
      BY <2>3, <3>1, <3>5
    <3>6. CASE d \in i /\ e \in EntriesOf(v[k])
      <4>1. e \in InFiles(v)
        BY <3>6 DEF InFiles
      <4>. QED  BY <2>3, <3>2, <3>6, <4>1
    <3>7. CASE k = l /\ e \in i /\ d \in EntriesOf(v[j])
      <4>1. PICK g \in v[j] : d \in g.entries
        BY <3>7 DEF EntriesOf
      <4>2. l > 0 /\ j \in 0 .. l
        BY <1>7, <2>3, <3>7
      <4>3. d.key \in Nat /\ e.key \in Nat
        BY <1>1, <1>2, <3>7, <4>1, EntryFields DEF Searchable
      <4>4. d.key < e.key \/ e.key < d.key
        BY <1>12, <3>7, <4>1, <4>2
      <4>. QED  BY <2>3, <4>3, <4>4
    <3>8. ~(j = l /\ k = l)
      BY <1>7, <2>3
    <3>. QED  BY <3>3, <3>4, <3>5, <3>6, <3>7, <3>8
  <2>4. \A j, k \in Level : j < k => Newer(EntriesOf(w[j]), EntriesOf(w[k]))
    BY <2>3 DEF Newer
  <2>5. {} \cup InFiles(w) = InFiles(w)
    OBVIOUS
  <2>. QED  BY <2>1, <2>2, <2>4, <2>5 DEF Layered
<1>. QED  BY <1>5, <1>11, <1>13, <1>14

\* A flush in the middle of a compaction: what the compaction rests on stays true.
LEMMA FlushedCompaction ==
  ASSUME NEW m, NEW i, NEW v, NEW last, TreeTyped(m, i, v, last), i # {},
         NEW l \in PickLevelForMemTableOutput(v, First(i).key, Last(i).key),
         NEW w, w = WithFlush(v, i, l),
         NEW c, InputsThere(c, v)
  PROVE  /\ InputsThere(c, w)
         /\ BaseHolds(c, v) => BaseHolds(c, w)
         /\ Covered(c) /\ InputsApart(c, v) => InputsApart(c, w)
         /\ Layered(m, i, v) /\ InputsOldest(c, v) => InputsOldest(c, w)
<1>1. l \in Level /\ l \in Nat /\ \A j \in Level : Searchable(v[j])
  BY FlushLevel, TreeTables
<1>2. v \in [Level -> SUBSET Table] /\ i \in SUBSET Entry
  BY DEF TreeTyped
<1> PICK f : f = Flushed(v, i, l)
  OBVIOUS
<1>0. f.entries = i
  BY DEF Flushed
<1>3. w[l] = v[l] \cup {f} /\ \A j \in Level : j # l => w[j] = v[j]
  BY <1>1, <1>2 DEF WithFlush
<1>4. PICK a, b : a = c.level /\ b = c.level + 1
  OBVIOUS
<1>5. /\ a \in Level /\ b \in Level /\ a \in Nat /\ b = a + 1 /\ c.in0 \subseteq v[a] /\ c.in1 \subseteq v[b]
      /\ \A j \in a + 2 .. NumLevels - 1 : j \in Level /\ j \in Nat /\ j > b
  BY <1>4, VersionSetAssumption DEF InputsThere, Level
<1>6. InputsThere(c, w)
  <2>1. v[a] \subseteq w[a] /\ v[b] \subseteq w[b]
    BY <1>3, <1>5
  <2>2. c.level \in 0 .. NumLevels - 2
    BY DEF InputsThere
  <2>. QED  BY <1>4, <1>5, <2>1, <2>2 DEF InputsThere
<1>7. Unique(i)
  BY UniquePart DEF TreeTyped, Everything
<1>8. ASSUME l >= b
      PROVE  \A g \in c.in0 \cup c.in1 :
               /\ ~Touches(g, First(i).key, Last(i).key)
               /\ \/ \A d \in g.entries, e \in i : d.key < e.key
                  \/ \A d \in g.entries, e \in i : e.key < d.key
  <2>1. l > 0 /\ a \in 0 .. l /\ b \in 0 .. l
    BY <1>1, <1>5, <1>8
  <2>2. \A j \in 0 .. l : \A g \in v[j] :
          /\ ~Touches(g, First(i).key, Last(i).key)
          /\ \/ \A d \in g.entries, e \in i : d.key < e.key
             \/ \A d \in g.entries, e \in i : e.key < d.key
    BY <1>1, <1>2, <1>7, <2>1, FlushClear
  <2>. QED  BY <1>5, <2>1, <2>2
<1>9. \A g \in c.in0 \cup c.in1 : \A d \in g.entries : d \in Entry /\ d.key \in Nat
  BY <1>1, <1>5, EntryFields DEF Searchable
<1>10. \A e \in i : e.key \in Nat /\ e.key \in UserKey
  BY <1>2, EntryFields
<1>11. ASSUME BaseHolds(c, v) PROVE BaseHolds(c, w)
  <2> SUFFICES ASSUME NEW e \in InputEntries(c), IsBaseLevelForKey(c, e.key),
                      NEW j \in a + 2 .. NumLevels - 1, NEW d \in EntriesOf(w[j]), d.key = e.key
               PROVE  FALSE
    BY <1>4 DEF BaseHolds
  <2>1. d \notin EntriesOf(v[j])
    BY <1>4, <1>11 DEF BaseHolds
  <2>2. j = l /\ d \in i
    BY <1>0, <1>3, <1>5, <2>1 DEF EntriesOf
  <2>3. l >= b
    BY <1>1, <1>5, <2>2
  <2>4. PICK g \in c.in0 \cup c.in1 : e \in g.entries
    BY DEF InputEntries
  <2>5. e.key < d.key \/ d.key < e.key
    BY <1>8, <2>2, <2>3, <2>4
  <2>6. d.key \in Nat /\ e.key \in Nat
    BY <1>9, <1>10, <2>2, <2>4
  <2>. QED  BY <2>5, <2>6
<1>12. ASSUME Covered(c), InputsApart(c, v) PROVE InputsApart(c, w)
  <2> SUFFICES ASSUME NEW g \in w[b] \ c.in1 PROVE Apart(InputEntries(c), g.entries)
    BY <1>4 DEF InputsApart
  <2>1. CASE g \in v[b]
    BY <1>4, <1>12, <2>1 DEF InputsApart
  <2>2. CASE g \notin v[b]
    <3>1. l = b /\ g = f
      BY <1>3, <1>5, <2>2
    <3>2. l >= b
      BY <1>1, <3>1
    <3>3. PICK lo \in UserKey, hi \in UserKey :
             lo = First(i).key /\ hi = Last(i).key /\ lo <= hi /\ \A e \in i : lo <= e.key /\ e.key <= hi
      BY <1>2, <1>7, FlushRange
    <3>4. lo \in Nat /\ hi \in Nat
      BY Keys
    <3>5. lo \in UserKey /\ \E e \in i : e.key = lo
      <4>1. First(i) \in i
        BY <1>2, <1>7, FirstIs
      <4>. QED  BY <3>3, <4>1
    <3>6. \A d \in InputEntries(c) : d.key < lo \/ hi < d.key
      <4> TAKE d \in InputEntries(c)
      <4>1. PICK x \in c.in0 \cup c.in1 : d \in x.entries
        BY DEF InputEntries
      <4>2. First(i) \in i /\ Last(i) \in i
        BY <1>2, <1>7, FirstIs, LastIs
      <4>. QED  BY <1>8, <3>2, <3>3, <4>1, <4>2
    <3>7. ASSUME NEW d \in InputEntries(c), NEW e \in InputEntries(c), d.key < lo, hi < e.key PROVE FALSE
      <4>1. d.key \in Nat /\ e.key \in Nat
        BY <1>9 DEF InputEntries
      <4>2. d.key <= lo /\ lo <= e.key
        BY <3>3, <3>4, <3>7, <4>1
      <4>3. PICK x \in c.in0 \cup c.in1 : Touches(x, lo, lo)
        BY <1>12, <4>2 DEF Covered
      <4>4. x.entries \in SUBSET Entry /\ x.entries # {} /\ Unique(x.entries)
        BY <1>1, <1>5 DEF Searchable
      <4>5. lo <= lo
        BY <3>4
      <4>6. Touches(x, lo, hi)
        BY <3>3, <4>3, <4>4, <4>5, TouchesWider
      <4>. QED  BY <1>8, <3>2, <3>3, <4>6
    <3>8. \A d \in InputEntries(c) : d \in Entry /\ d.key \in Nat
      BY <1>9 DEF InputEntries
    <3>9. CASE \A d \in InputEntries(c) : d.key < lo
      <4>1. \A d \in InputEntries(c), e \in i : d.key < e.key
        BY <1>10, <3>3, <3>4, <3>8, <3>9
      <4>2. \A d \in InputEntries(c), e \in i : Precedes(d, e)
        BY <1>2, <3>8, <4>1, PrecedesOrder
      <4>. QED  BY <1>0, <3>1, <4>2 DEF Apart, Left
    <3>10. CASE \A d \in InputEntries(c) : hi < d.key
      <4>1. \A d \in InputEntries(c), e \in i : e.key < d.key
        BY <1>10, <3>3, <3>4, <3>8, <3>10
      <4>2. \A d \in InputEntries(c), e \in i : Precedes(e, d)
        BY <1>2, <3>8, <4>1, PrecedesOrder
      <4>. QED  BY <1>0, <3>1, <4>2 DEF Apart, Left
    <3>. QED  BY <3>6, <3>7, <3>9, <3>10
  <2>. QED  BY <2>1, <2>2
<1>13. ASSUME Layered(m, i, v), InputsOldest(c, v) PROVE InputsOldest(c, w)
  <2> SUFFICES ASSUME NEW g \in w[a] \ c.in0 PROVE Newer(g.entries, EntriesOf(c.in0))
    BY <1>4 DEF InputsOldest
  <2>1. CASE g \in v[a]
    BY <1>4, <1>13, <2>1 DEF InputsOldest
  <2>2. CASE g \notin v[a]
    <3>1. g = f
      BY <1>3, <1>5, <2>2
    <3>2. EntriesOf(c.in0) \subseteq InFiles(v)
      BY <1>5 DEF EntriesOf, InFiles
    <3>. QED  BY <1>0, <1>13, <3>1, <3>2 DEF Layered, Newer
  <2>. QED  BY <2>1, <2>2
<1>. QED  BY <1>6, <1>11, <1>12, <1>13

-----------------------------------------------------------------------------
(* The steps.                                                               *)

LEMMA InitTree == Init => TreeInv
<1> SUFFICES ASSUME Init PROVE TreeInv
  OBVIOUS
<1>1. /\ lastSequence = 0 /\ mem = {} /\ imm = {} /\ files = [l \in Level |-> {}]
      /\ snapshots = {} /\ compaction = {}
  BY DEF Init
<1>2. MaxSequence \in Nat
  BY VersionSetAssumption
<1>3. Everything(mem, imm, files) = {} /\ InFiles(files) = {} /\ \A l \in Level : EntriesOf(files[l]) = {}
  BY <1>1 DEF Everything, InFiles, EntriesOf
<1>4. 0 \in Level
  BY VersionSetAssumption DEF Level
<1>5. TreeTyped(mem, imm, files, lastSequence)
  <2>1. files \in [Level -> SUBSET Table]
    BY <1>1
  <2>2. \A l \in Level : IsFiniteSet(files[l]) /\ \A f \in files[l] : f.entries # {}
    BY <1>1, FS_EmptySet
  <2>3. mem \subseteq Entry /\ imm \subseteq Entry /\ lastSequence \in 0 .. MaxSequence
    BY <1>1, <1>2
  <2>4. Unique(Everything(mem, imm, files)) /\ \A e \in Everything(mem, imm, files) : e.seq <= lastSequence
    BY <1>3 DEF Unique
  <2>5. \A f, g \in files[0] : f.number = g.number => f = g
    BY <1>1, <1>4
  <2>. QED  BY <2>1, <2>2, <2>3, <2>4, <2>5 DEF TreeTyped
<1>6. Sorted(files)
  BY <1>1 DEF Sorted
<1>7. Layered(mem, imm, files)
  BY <1>1, <1>3, <1>4 DEF Layered, Newer
<1>. QED  BY <1>1, <1>5, <1>6, <1>7 DEF TreeInv

\* Where only the memtables, the snapshots or the last number change, the compaction keeps
\* what it needs.
LEMMA SameFiles ==
  ASSUME TreeInv, UNCHANGED <<files, compaction>>, lastSequence' \in Int, lastSequence <= lastSequence',
         \A s \in snapshots' : s \in snapshots \/ s = lastSequence
  PROVE  \A c \in compaction' : CompactionInv(c)'
<1> TAKE c \in compaction'
<1>1. c \in compaction /\ CompactionInv(c)
  BY DEF TreeInv
<1>2. c.smallestSnapshot \in Nat /\ c.smallestSnapshot <= lastSequence /\ \A s \in snapshots : c.smallestSnapshot <= s
  BY <1>1 DEF CompactionInv
<1>3. lastSequence \in Int /\ MaxSequence \in Nat
  BY VersionSetAssumption DEF TreeInv, TreeTyped
<1>4. c.smallestSnapshot <= lastSequence' /\ \A s \in snapshots' : c.smallestSnapshot <= s
  BY <1>2, <1>3
<1>. QED  BY <1>1, <1>2, <1>4 DEF CompactionInv

LEMMA WriteTree ==
  ASSUME TreeInv, NEW k \in UserKey, NEW t \in {"value", "deletion"}, Write(k, t)
  PROVE  TreeInv'
<1>1. /\ lastSequence < MaxSequence /\ lastSequence' = lastSequence + 1
      /\ UNCHANGED <<imm, files, snapshots, compaction>>
  BY DEF Write
<1>2. PICK e : e = [key |-> k, seq |-> lastSequence + 1, type |-> t]
  OBVIOUS
<1>3. mem' = mem \cup {e}
  BY <1>2 DEF Write
<1>4. MaxSequence \in Nat /\ lastSequence \in 0 .. MaxSequence /\ TreeTyped(mem, imm, files, lastSequence)
  BY VersionSetAssumption DEF TreeInv, TreeTyped
<1>5. e \in Entry /\ e.seq = lastSequence + 1 /\ e.seq \in Nat
  BY <1>1, <1>2, <1>4 DEF Entry
<1>6. \A d \in Everything(mem, imm, files) : d.seq <= lastSequence /\ d.seq \in Nat /\ d \in Entry
  BY <1>4, TreeTables, EntryFields DEF TreeTyped
<1>7. \A d \in Everything(mem, imm, files) : d.seq < e.seq
  BY <1>4, <1>5, <1>6
<1>8. Everything(mem', imm', files') = Everything(mem, imm, files) \cup {e}
  BY <1>1, <1>3 DEF Everything
<1>9. Unique(Everything(mem', imm', files'))
  <2>1. Unique(Everything(mem, imm, files))
    BY <1>4 DEF TreeTyped
  <2>2. \A d \in Everything(mem, imm, files) : d.seq # e.seq
    BY <1>5, <1>6, <1>7
  <2>. QED  BY <1>8, <2>1, <2>2 DEF Unique
<1>10. \A d \in Everything(mem', imm', files') : d.seq <= lastSequence'
  <2>1. \A d \in Everything(mem, imm, files) : d.seq <= lastSequence + 1
    BY <1>4, <1>6
  <2>. QED  BY <1>1, <1>4, <1>5, <1>8, <2>1
<1>11. TreeTyped(mem', imm', files', lastSequence')
  <2>1. mem' \subseteq Entry /\ lastSequence' \in 0 .. MaxSequence
    BY <1>1, <1>3, <1>4, <1>5 DEF TreeTyped
  <2>. QED  BY <1>1, <1>4, <1>9, <1>10, <2>1 DEF TreeTyped
<1>12. snapshots' \subseteq 0 .. lastSequence'
  BY <1>1, <1>4 DEF TreeInv
<1>13. \A c \in compaction' : CompactionInv(c)'
  BY <1>1, <1>4, SameFiles
<1>14. ~Manual => Sorted(files')
  BY <1>1 DEF TreeInv
<1>15. ASSUME ~Manual, ~SplitKeys PROVE Layered(mem', imm', files')
  <2>1. Layered(mem, imm, files)
    BY <1>15 DEF TreeInv
  <2>2. \A d \in imm \cup InFiles(files) : d.seq < e.seq /\ d.seq \in Nat
    BY <1>6, <1>7 DEF Everything
  <2>3. Newer(mem', imm' \cup InFiles(files'))
    BY <1>1, <1>3, <1>5, <2>1, <2>2 DEF Layered, Newer
  <2>. QED  BY <1>1, <2>1, <2>3 DEF Layered
<1>. QED  BY <1>11, <1>12, <1>13, <1>14, <1>15 DEF TreeInv

LEMMA SwitchTree ==
  ASSUME TreeInv, SwitchMemTable
  PROVE  TreeInv'
<1>1. imm = {} /\ imm' = mem /\ mem' = {} /\ UNCHANGED <<lastSequence, files, snapshots, compaction>>
  BY DEF SwitchMemTable
<1>2. MaxSequence \in Nat /\ lastSequence \in 0 .. MaxSequence /\ TreeTyped(mem, imm, files, lastSequence)
  BY VersionSetAssumption DEF TreeInv, TreeTyped
<1>3. Everything(mem', imm', files') = Everything(mem, imm, files)
  BY <1>1 DEF Everything
<1>4. TreeTyped(mem', imm', files', lastSequence')
  BY <1>1, <1>2, <1>3 DEF TreeTyped
<1>5. \A c \in compaction' : CompactionInv(c)'
  BY <1>1, <1>2, SameFiles
<1>6. ASSUME ~Manual, ~SplitKeys PROVE Layered(mem', imm', files')
  <2>1. Layered(mem, imm, files)
    BY <1>6 DEF TreeInv
  <2>. QED  BY <1>1, <2>1 DEF Layered, Newer
<1>. QED  BY <1>1, <1>4, <1>5, <1>6 DEF TreeInv

LEMMA SnapshotsTree ==
  ASSUME TreeInv, UNCHANGED <<lastSequence, mem, imm, files, compaction>>,
         snapshots' \subseteq snapshots \cup {lastSequence}
  PROVE  TreeInv'
<1>1. MaxSequence \in Nat /\ lastSequence \in 0 .. MaxSequence /\ snapshots \subseteq 0 .. lastSequence
  BY VersionSetAssumption DEF TreeInv, TreeTyped
<1>2. \A c \in compaction' : CompactionInv(c)'
  BY <1>1, SameFiles
<1>3. snapshots' \subseteq 0 .. lastSequence'
  BY <1>1
<1>. QED  BY <1>2, <1>3 DEF TreeInv

LEMMA FlushTree ==
  ASSUME TreeInv, CompactMemTable
  PROVE  TreeInv'
<1>1. imm # {} /\ imm' = {} /\ UNCHANGED <<lastSequence, mem, snapshots, compaction>>
  BY DEF CompactMemTable
<1>2. PICK l \in PickLevelForMemTableOutput(files, First(imm).key, Last(imm).key) :
         files' = WithFlush(files, imm, l)
  BY Zenon DEF CompactMemTable, WithFlush, Flushed, NewFileNumber
<1>5. TreeTyped(mem, imm, files, lastSequence)
  BY DEF TreeInv
<1>3. PICK w : w = files'
  OBVIOUS
<1>4. w = WithFlush(files, imm, l)
  BY <1>2, <1>3
<1>9. /\ TreeTyped(mem, {}, w, lastSequence)
      /\ Sorted(files) => Sorted(w)
      /\ Layered(mem, imm, files) => Layered(mem, {}, w)
  BY <1>1, <1>4, <1>5, FlushedTree
<1>10. ASSUME NEW c \in compaction PROVE CompactionInv(c)'
  <2>1. CompactionInv(c)
    BY DEF TreeInv
  <2>2. InputsThere(c, files)
    BY <2>1 DEF CompactionInv
  <2>3. /\ InputsThere(c, files')
        /\ BaseHolds(c, files) => BaseHolds(c, files')
        /\ Covered(c) /\ InputsApart(c, files) => InputsApart(c, files')
        /\ Layered(mem, imm, files) /\ InputsOldest(c, files) => InputsOldest(c, files')
    BY <1>1, <1>3, <1>4, <1>5, <2>2, FlushedCompaction
  <2>4. ~Manual /\ ~SplitKeys => Layered(mem, imm, files)
    BY DEF TreeInv
  <2>. QED  BY <1>1, <2>1, <2>3, <2>4 DEF CompactionInv
<1>. QED  BY <1>1, <1>3, <1>9, <1>10 DEF TreeInv

\* The inputs are part of the tree.
LEMMA InputsPart ==
  ASSUME NEW m, NEW i, NEW v, NEW last, TreeTyped(m, i, v, last), NEW c, InputsThere(c, v)
  PROVE  /\ InputEntries(c) \subseteq Everything(m, i, v)
         /\ InputEntries(c) \in SUBSET Entry /\ Unique(InputEntries(c))
<1>1. c.level \in Level /\ c.level + 1 \in Level
  BY VersionSetAssumption DEF InputsThere, Level
<1>2. \A d \in InputEntries(c) : d \in EntriesOf(v[c.level]) \/ d \in EntriesOf(v[c.level + 1])
  BY DEF InputEntries, EntriesOf, InputsThere
<1>3. InputEntries(c) \subseteq Everything(m, i, v)
  BY <1>1, <1>2, TreeTables
<1>4. Everything(m, i, v) \subseteq Entry /\ Unique(Everything(m, i, v))
  BY TreeTables DEF TreeTyped
<1>. QED  BY <1>3, <1>4, UniquePart

\* What the choice gives to the tree the compaction is applied to.
LEMMA ChosenGood ==
  ASSUME NEW v, \A l \in Level : Searchable(v[l]), NEW c, WellChosen(c, v), Sorted(v)
  PROVE  /\ InputsThere(c, v) /\ Covered(c) /\ InputsApart(c, v)
         /\ ~SplitKeys => InputsOldest(c, v)
<1>1. InputsThere(c, v)
  BY DEF WellChosen
<1>2. Covered(c) /\ InputsApart(c, v)
  BY ChosenCovered, ChosenApart
<1>3. ASSUME ~SplitKeys PROVE InputsOldest(c, v)
  BY <1>3, ChosenOldest DEF InputsOldest, Newer
<1>. QED  BY <1>1, <1>2, <1>3

\* A moved table is written out as it is.
LEMMA MovedIs ==
  ASSUME TreeInv, MoveFile
  PROVE  \E c : \E out \in SUBSET Table :
           /\ WellChosen(c, files) /\ IsFiniteSet(out) /\ files' = Compacted(files, c, out)
           /\ \A p \in out : p.entries # {} /\ p.entries \subseteq InputEntries(c)
           /\ EntriesOf(out) = InputEntries(c) /\ \A p, q \in out : p = q
<1>2. PICK c \in PickCompaction(files) :
        /\ Cardinality(c.in0) = 1 /\ c.in1 = {}
        /\ files' = Compacted(files, c, {[f EXCEPT !.number = 0] : f \in c.in0})
  BY Zenon DEF MoveFile, Applied, Compacted
<1>3. TreeTyped(mem, imm, files, lastSequence)
  BY DEF TreeInv
<1>4. \A l \in Level : Searchable(files[l]) /\ IsFiniteSet(files[l]) /\ files[l] \subseteq Table
  BY <1>3, TreeTables
<1>5. WellChosen(c, files)
  BY <1>4, PickedIs
<1>6. InputsThere(c, files) /\ c.level \in Level
  BY <1>5, VersionSetAssumption DEF WellChosen, InputsThere, Level
<1>7. IsFiniteSet(c.in0) /\ c.in0 \subseteq Table /\ c.in0 \subseteq files[c.level]
  BY <1>4, <1>6, FS_Subset DEF InputsThere
<1>8. PICK x : c.in0 = {x}
  BY <1>2, <1>7, FS_Singleton
<1>9. PICK o : o = [x EXCEPT !.number = 0]
  OBVIOUS
<1>10. PICK out : out = {[f EXCEPT !.number = 0] : f \in c.in0}
  OBVIOUS
<1>11. out = {o}
  BY <1>8, <1>9, <1>10
<1>12. o \in Table /\ o.entries = x.entries /\ x.entries # {}
  <2>1. x \in Table /\ x \in files[c.level]
    BY <1>7, <1>8
  <2>2. x.entries # {}
    BY <1>4, <1>6, <2>1 DEF Searchable
  <2>. QED  BY <1>9, <2>1, <2>2 DEF Table
<1>13. InputEntries(c) = x.entries
  BY <1>2, <1>8 DEF InputEntries
<1>14. out \in SUBSET Table /\ IsFiniteSet(out) /\ \A p \in out : p.entries # {} /\ p.entries \subseteq InputEntries(c)
  BY <1>11, <1>12, <1>13, FS_Singleton
<1>15. files' = Compacted(files, c, out)
  BY <1>2, <1>10
<1>16. EntriesOf(out) = InputEntries(c) /\ \A p, q \in out : p = q
  BY <1>11, <1>12, <1>13 DEF EntriesOf
<1>. QED  BY <1>5, <1>14, <1>15, <1>16

LEMMA MoveTree ==
  ASSUME TreeInv, MoveFile
  PROVE  TreeInv'
<1>1. compaction = {} /\ UNCHANGED <<lastSequence, mem, imm, snapshots, compaction>>
  BY DEF MoveFile, MayCompact
<1>2. PICK c : \E out \in SUBSET Table :
           /\ WellChosen(c, files) /\ IsFiniteSet(out) /\ files' = Compacted(files, c, out)
           /\ \A p \in out : p.entries # {} /\ p.entries \subseteq InputEntries(c)
           /\ EntriesOf(out) = InputEntries(c) /\ \A p, q \in out : p = q
  BY MovedIs
<1>3. PICK out \in SUBSET Table :
           /\ WellChosen(c, files) /\ IsFiniteSet(out) /\ files' = Compacted(files, c, out)
           /\ \A p \in out : p.entries # {} /\ p.entries \subseteq InputEntries(c)
           /\ \A p, q \in out : p = q
  BY <1>2
<1>4. TreeTyped(mem, imm, files, lastSequence)
  BY DEF TreeInv
<1>5. \A l \in Level : Searchable(files[l])
  BY <1>4, TreeTables
<1>6. InputsThere(c, files)
  BY <1>3 DEF WellChosen
<1>7. PICK w : w = files'
  OBVIOUS
<1>8. w = Compacted(files, c, out)
  BY <1>3, <1>7
<1>9. /\ TreeTyped(mem, imm, w, lastSequence)
      /\ Sorted(files) /\ InputsApart(c, files) /\ (\A p, q \in out : p = q \/ Apart(p.entries, q.entries)) => Sorted(w)
      /\ Layered(mem, imm, files) /\ InputsOldest(c, files) => Layered(mem, imm, w)
  BY <1>3, <1>4, <1>6, <1>8, AppliedTree
<1>10. ASSUME ~Manual PROVE Sorted(files) /\ InputsApart(c, files) /\ (~SplitKeys => InputsOldest(c, files))
  BY <1>3, <1>5, <1>10, ChosenGood DEF TreeInv
<1>11. ~Manual => Sorted(w)
  BY <1>3, <1>9, <1>10
<1>12. ~Manual /\ ~SplitKeys => Layered(mem, imm, w)
  BY <1>9, <1>10 DEF TreeInv
<1>. QED  BY <1>1, <1>7, <1>9, <1>11, <1>12 DEF TreeInv

\* The smallest snapshot is below every snapshot and below the last number.
LEMMA SnapshotBound ==
  ASSUME snapshots \subseteq 0 .. lastSequence, lastSequence \in Nat
  PROVE  /\ SmallestSnapshot \in Nat /\ SmallestSnapshot <= lastSequence
         /\ \A s \in snapshots : SmallestSnapshot <= s
<1>1. CASE snapshots = {}
  BY <1>1 DEF SmallestSnapshot
<1>2. CASE snapshots # {}
  <2>1. IsFiniteSet(0 .. lastSequence)
    BY FS_Interval
  <2>2. IsFiniteSet(snapshots)
    BY <2>1, FS_Subset
  <2>3. Min(snapshots) \in snapshots /\ \A s \in snapshots : Min(snapshots) <= s
    <3>1. snapshots \subseteq Int
      OBVIOUS
    <3>. QED  BY <1>2, <2>2, <3>1, MinOfFinite
  <2>4. SmallestSnapshot = Min(snapshots)
    BY <1>2 DEF SmallestSnapshot
  <2>5. Min(snapshots) \in 0 .. lastSequence
    BY <2>3
  <2>. QED  BY <2>3, <2>4, <2>5
<1>. QED  BY <1>1, <1>2

LEMMA StartTree ==
  ASSUME TreeInv, StartCompaction
  PROVE  TreeInv'
<1>1. UNCHANGED <<lastSequence, mem, imm, files, snapshots>>
  BY DEF StartCompaction
<1>2. PICK c : /\ \/ c \in PickCompaction(files)
                  \/ Manual /\ \E l \in 0 .. NumLevels - 2 : \E lo, hi \in UserKey : c \in CompactRange(files, l, lo, hi)
               /\ compaction' = {[level |-> c.level, in0 |-> c.in0, in1 |-> c.in1, version |-> files,
                                  smallestSnapshot |-> SmallestSnapshot]}
  BY DEF StartCompaction
<1>3. PICK r : r = [level |-> c.level, in0 |-> c.in0, in1 |-> c.in1, version |-> files,
                    smallestSnapshot |-> SmallestSnapshot]
  OBVIOUS
<1>4. compaction' = {r}
  BY <1>2, <1>3
<1>5. /\ r.level = c.level /\ r.in0 = c.in0 /\ r.in1 = c.in1 /\ r.version = files
      /\ r.smallestSnapshot = SmallestSnapshot
  BY <1>3
<1>6. TreeTyped(mem, imm, files, lastSequence) /\ snapshots \subseteq 0 .. lastSequence /\ lastSequence \in Nat
  BY VersionSetAssumption DEF TreeInv, TreeTyped
<1>7. \A l \in Level : Searchable(files[l]) /\ IsFiniteSet(files[l]) /\ files[l] \subseteq Table
  BY <1>6, TreeTables
<1>8. c \in PickCompaction(files) => WellChosen(c, files)
  BY <1>7, PickedIs
<1>9. InputsThere(c, files)
  <2>1. CASE c \in PickCompaction(files)
    BY <1>8, <2>1 DEF WellChosen
  <2>2. CASE Manual /\ \E l \in 0 .. NumLevels - 2 : \E lo, hi \in UserKey : c \in CompactRange(files, l, lo, hi)
    BY <2>2, RangeInputs
  <2>. QED  BY <1>2, <2>1, <2>2
<1>10. InputsThere(r, files)
  BY <1>5, <1>9 DEF InputsThere
<1>11. /\ r.smallestSnapshot \in Nat /\ r.smallestSnapshot <= lastSequence
       /\ \A s \in snapshots : r.smallestSnapshot <= s
  BY <1>5, <1>6, SnapshotBound
<1>12. BaseHolds(r, files)
  <2> SUFFICES ASSUME NEW e \in InputEntries(r), IsBaseLevelForKey(r, e.key),
                      NEW l \in r.level + 2 .. NumLevels - 1, NEW d \in EntriesOf(files[l]), d.key = e.key
               PROVE  FALSE
    BY DEF BaseHolds
  <2>1. ~OverlapInLevel(files, l, e.key, e.key)
    BY <1>5 DEF IsBaseLevelForKey
  <2>2. PICK f \in files[l] : d \in f.entries
    BY DEF EntriesOf
  <2>3. l \in Level
    BY <1>10, VersionSetAssumption DEF InputsThere, Level
  <2>4. Touches(f, d.key, d.key)
    BY <1>7, <2>2, <2>3, TableEnds DEF Searchable
  <2>. QED  BY <2>1, <2>4 DEF OverlapInLevel
<1>13. ASSUME ~Manual PROVE Covered(r) /\ InputsApart(r, files) /\ (~SplitKeys => InputsOldest(r, files))
  <2>1. WellChosen(c, files)
    BY <1>2, <1>8, <1>13
  <2>2. WellChosen(r, files)
    BY <1>5, <1>10, <2>1 DEF WellChosen
  <2>. QED  BY <1>7, <1>13, <2>2, ChosenGood DEF TreeInv
<1>14. CompactionInv(r)'
  BY <1>1, <1>10, <1>11, <1>12, <1>13 DEF CompactionInv
<1>. QED  BY <1>1, <1>4, <1>14 DEF TreeInv

\* What a compaction writes out: the entries it keeps, in tables that follow each other.
LEMMA FinishedIs ==
  ASSUME TreeInv, FinishCompaction
  PROVE  \E c \in compaction : \E out \in SUBSET Table :
           /\ IsFiniteSet(out) /\ files' = Compacted(files, c, out)
           /\ \A p \in out : p.entries # {} /\ p.entries \subseteq InputEntries(c)
           /\ EntriesOf(out) = {e \in InputEntries(c) : ~Drops(c, e)}
           /\ \A p, q \in out : p = q \/ Apart(p.entries, q.entries)
<1>1. PICK c \in compaction : \E cuts \in SUBSET CutPoints({e \in InputEntries(c) : ~Drops(c, e)}) :
        files' = Compacted(files, c, Outputs({e \in InputEntries(c) : ~Drops(c, e)}, cuts))
  BY Zenon DEF FinishCompaction, Applied, Compacted
<1>2. PICK kept : kept = {e \in InputEntries(c) : ~Drops(c, e)}
  OBVIOUS
<1>3. PICK cuts \in SUBSET CutPoints(kept) : files' = Compacted(files, c, Outputs(kept, cuts))
  BY <1>1, <1>2
<1>4. TreeTyped(mem, imm, files, lastSequence) /\ InputsThere(c, files)
  BY DEF TreeInv, CompactionInv
<1>5. kept \subseteq InputEntries(c) /\ kept \in SUBSET Entry /\ Unique(kept)
  <2>1. InputEntries(c) \in SUBSET Entry /\ Unique(InputEntries(c))
    BY <1>4, InputsPart
  <2>2. kept \subseteq InputEntries(c)
    BY <1>2
  <2>. QED  BY <2>1, <2>2, UniquePart
<1>6. PICK out : out = Outputs(kept, cuts)
  OBVIOUS
<1>7. /\ out \in SUBSET Table /\ IsFiniteSet(out) /\ EntriesOf(out) = kept
      /\ \A o \in out : o.entries # {} /\ o.entries \subseteq InputEntries(c)
      /\ \A o, p \in out : o = p \/ Apart(o.entries, p.entries)
  BY <1>5, <1>6, OutputsAre
<1>. QED  BY <1>2, <1>3, <1>6, <1>7

LEMMA FinishTree ==
  ASSUME TreeInv, FinishCompaction
  PROVE  TreeInv'
<1>1. compaction' = {} /\ UNCHANGED <<lastSequence, mem, imm, snapshots>>
  BY DEF FinishCompaction
<1>2. PICK c \in compaction : \E out \in SUBSET Table :
           /\ IsFiniteSet(out) /\ files' = Compacted(files, c, out)
           /\ \A p \in out : p.entries # {} /\ p.entries \subseteq InputEntries(c)
           /\ \A p, q \in out : p = q \/ Apart(p.entries, q.entries)
  BY FinishedIs
<1>3. PICK out \in SUBSET Table :
           /\ IsFiniteSet(out) /\ files' = Compacted(files, c, out)
           /\ \A p \in out : p.entries # {} /\ p.entries \subseteq InputEntries(c)
           /\ \A p, q \in out : p = q \/ Apart(p.entries, q.entries)
  BY <1>2
<1>4. TreeTyped(mem, imm, files, lastSequence) /\ CompactionInv(c) /\ InputsThere(c, files)
  BY DEF TreeInv, CompactionInv
<1>5. PICK w : w = files'
  OBVIOUS
<1>6. w = Compacted(files, c, out)
  BY <1>3, <1>5
<1>7. /\ TreeTyped(mem, imm, w, lastSequence)
      /\ Sorted(files) /\ InputsApart(c, files) /\ (\A p, q \in out : p = q \/ Apart(p.entries, q.entries)) => Sorted(w)
      /\ Layered(mem, imm, files) /\ InputsOldest(c, files) => Layered(mem, imm, w)
  BY <1>3, <1>4, <1>6, AppliedTree
<1>8. ~Manual => Sorted(w)
  BY <1>3, <1>4, <1>7 DEF CompactionInv, TreeInv
<1>9. ~Manual /\ ~SplitKeys => Layered(mem, imm, w)
  BY <1>4, <1>7 DEF CompactionInv, TreeInv
<1>. QED  BY <1>1, <1>5, <1>7, <1>8, <1>9 DEF TreeInv

LEMMA StepTree == TreeInv /\ [Next]_vars => TreeInv'
<1> SUFFICES ASSUME TreeInv, [Next]_vars PROVE TreeInv'
  OBVIOUS
<1>1. CASE \E k \in UserKey, t \in {"value", "deletion"} : Write(k, t)
  BY <1>1, WriteTree
<1>2. CASE SwitchMemTable
  BY <1>2, SwitchTree
<1>3. CASE GetSnapshot
  BY <1>3, SnapshotsTree DEF GetSnapshot
<1>4. CASE \E s \in snapshots : ReleaseSnapshot(s)
  <2>1. PICK s \in snapshots : ReleaseSnapshot(s)
    BY <1>4
  <2>2. UNCHANGED <<lastSequence, mem, imm, files, compaction>> /\ snapshots' \subseteq snapshots \cup {lastSequence}
    BY <2>1 DEF ReleaseSnapshot
  <2>. QED  BY <2>2, SnapshotsTree
<1>5. CASE CompactMemTable
  BY <1>5, FlushTree
<1>6. CASE MoveFile
  BY <1>6, MoveTree
<1>7. CASE StartCompaction
  BY <1>7, StartTree
<1>8. CASE FinishCompaction
  BY <1>8, FinishTree
<1>9. CASE UNCHANGED vars
  <2>1. UNCHANGED <<lastSequence, mem, imm, files, snapshots, compaction>>
    BY <1>9 DEF vars
  <2>2. snapshots' \subseteq snapshots \cup {lastSequence}
    BY <2>1
  <2>. QED  BY <2>1, <2>2, SnapshotsTree
<1>. QED  BY <1>1, <1>2, <1>3, <1>4, <1>5, <1>6, <1>7, <1>8, <1>9 DEF Next

\* The tree keeps its invariant.
THEOREM TreeInvariance == Spec => []TreeInv
BY InitTree, StepTree, PTL DEF Spec

\* In every state the memtables and tables hold entries, the snapshots are numbers of writes
\* made, and the inputs of the compaction at work are tables of the current version: neither
\* a flush nor a write takes one away.
THEOREM TypeCorrect == Spec => []TypeOK
<1>1. TreeInv => TypeOK
  <2> SUFFICES ASSUME TreeInv PROVE TypeOK
    OBVIOUS
  <2>1. MaxSequence \in Nat /\ lastSequence \in 0 .. MaxSequence /\ snapshots \subseteq 0 .. MaxSequence
    BY VersionSetAssumption DEF TreeInv, TreeTyped
  <2>2. mem \subseteq Entry /\ imm \subseteq Entry /\ \A l \in Level : files[l] \subseteq Table
    BY DEF TreeInv, TreeTyped
  <2>3. \A c \in compaction : InputsThere(c, files)
    BY DEF TreeInv, CompactionInv
  <2>. QED  BY <2>1, <2>2, <2>3 DEF TypeOK, InputsThere
<1>. QED  BY <1>1, TreeInvariance, PTL

\* Without CompactRange the tables of a level above 0 never overlap, so that the search of a
\* level may look into one table: what Version::Builder asserts.
THEOREM LevelsDisjointCorrect ==
  ASSUME ~Manual
  PROVE  Spec => []LevelsDisjoint
<1>1. TreeInv => LevelsDisjoint
  <2> SUFFICES ASSUME TreeInv, NEW l \in Level \ {0}, NEW f \in files[l], NEW g \in files[l], f # g
               PROVE  Before(Largest(f), Smallest(g)) \/ Before(Largest(g), Smallest(f))
    BY DEF LevelsDisjoint
  <2>1. TreeTyped(mem, imm, files, lastSequence) /\ Sorted(files)
    BY DEF TreeInv
  <2>2. Searchable(files[l])
    BY <2>1, TreeTables
  <2>3. /\ Smallest(f) \in f.entries /\ Largest(f) \in f.entries
        /\ Smallest(g) \in g.entries /\ Largest(g) \in g.entries
    BY <2>2, TableEnds DEF Searchable
  <2>4. {Smallest(f), Largest(f), Smallest(g), Largest(g)} \subseteq Entry
    BY <2>2, <2>3 DEF Searchable
  <2>5. Apart(f.entries, g.entries)
    BY <2>1 DEF Sorted
  <2>6. Precedes(Largest(f), Smallest(g)) \/ Precedes(Largest(g), Smallest(f))
    BY <2>3, <2>5 DEF Apart, Left
  <2>. QED  BY <2>4, <2>6, PrecedesOrder
<1>. QED  BY <1>1, TreeInvariance, PTL

\* The places by their parts.
LEMMA PlaceIs ==
  ASSUME NEW p \in Places
  PROVE  \/ p[1] = -2 /\ p[2] = 0 /\ p[3] = mem
         \/ p[1] = -1 /\ p[2] = 0 /\ p[3] = imm
         \/ \E l \in Level : \E f \in files[l] :
              p[1] = l /\ p[2] = (IF l = 0 THEN -f.number ELSE 0) /\ p[3] = f.entries
<1>1. \/ p = <<-2, 0, mem>> \/ p = <<-1, 0, imm>>
      \/ \E l \in Level : \E f \in files[l] : p = <<l, IF l = 0 THEN -f.number ELSE 0, f.entries>>
  BY DEF Places
<1>. QED  BY <1>1

\* Without CompactRange, and where no output ends between two entries of one user key, a newer
\* entry of a key is never looked for after an older one: what Version::Get says of the levels.
THEOREM NeverHopCorrect ==
  ASSUME ~Manual, ~SplitKeys
  PROVE  Spec => []EntriesNeverHop
<1>1. TreeInv => EntriesNeverHop
  <2> SUFFICES ASSUME TreeInv, NEW p \in Places, NEW q \in Places, Above(p, q) PROVE Newer(p[3], q[3])
    BY DEF EntriesNeverHop, Newer
  <2>1. TreeTyped(mem, imm, files, lastSequence) /\ Layered(mem, imm, files)
    BY DEF TreeInv
  <2>2. 0 \in Level /\ (\A l \in Level : l \in Nat) /\ \A l \in Level : \A f \in files[l] : f.number \in Nat
    <3>1. \A l \in Level : files[l] \subseteq Table
      BY <2>1, TreeTables
    <3>. QED  BY <3>1, VersionSetAssumption DEF Level, Table
  <2>3. \A l \in Level : \A f \in files[l] : f.entries \subseteq EntriesOf(files[l]) /\ f.entries \subseteq InFiles(files)
    BY DEF EntriesOf, InFiles
  <2>4. p[1] < q[1] \/ (p[1] = q[1] /\ p[2] < q[2])
    BY DEF Above
  <2>5. CASE p[1] = -2 /\ p[2] = 0 /\ p[3] = mem
    <3>1. CASE q[1] = -2 /\ q[2] = 0 /\ q[3] = mem
      BY <2>4, <2>5, <3>1
    <3>2. CASE q[1] = -1 /\ q[2] = 0 /\ q[3] = imm
      BY <2>1, <2>5, <3>2 DEF Layered, Newer
    <3>3. CASE \E l \in Level : \E f \in files[l] : q[3] = f.entries
      BY <2>1, <2>3, <2>5, <3>3 DEF Layered, Newer
    <3>. QED  BY <3>1, <3>2, <3>3, PlaceIs
  <2>6. CASE p[1] = -1 /\ p[2] = 0 /\ p[3] = imm
    <3>1. CASE q[1] = -2 \/ (q[1] = -1 /\ q[2] = 0)
      BY <2>4, <2>6, <3>1
    <3>3. CASE \E l \in Level : \E f \in files[l] : q[3] = f.entries
      BY <2>1, <2>3, <2>6, <3>3 DEF Layered, Newer
    <3>. QED  BY <3>1, <3>3, PlaceIs
  <2>7. ASSUME NEW j \in Level, NEW f \in files[j],
               p[1] = j /\ p[2] = (IF j = 0 THEN -f.number ELSE 0) /\ p[3] = f.entries
        PROVE  Newer(p[3], q[3])
    <3>1. CASE q[1] = -2 \/ q[1] = -1
      BY <2>2, <2>4, <2>7, <3>1
    <3>2. ASSUME NEW l \in Level, NEW g \in files[l],
                 q[1] = l /\ q[2] = (IF l = 0 THEN -g.number ELSE 0) /\ q[3] = g.entries
          PROVE  Newer(p[3], q[3])
      <4>1. j \in Nat /\ l \in Nat /\ f.number \in Nat /\ g.number \in Nat
        BY <2>2
      <4>2. j < l \/ (j = l /\ j = 0 /\ f.number > g.number)
        BY <2>4, <2>7, <3>2, <4>1
      <4>3. CASE j < l
        <5>1. Newer(EntriesOf(files[j]), EntriesOf(files[l]))
          BY <2>1, <4>3 DEF Layered
        <5>. QED  BY <2>3, <2>7, <3>2, <5>1 DEF Newer
      <4>4. CASE j = l /\ j = 0 /\ f.number > g.number
        BY <2>1, <2>7, <3>2, <4>4 DEF Layered
      <4>. QED  BY <4>2, <4>3, <4>4
    <3>. QED  BY <3>1, <3>2, PlaceIs
  <2>. QED  BY <2>5, <2>6, <2>7, PlaceIs
<1>. QED  BY <1>1, TreeInvariance, PTL

-----------------------------------------------------------------------------
(* Reading at a number: one search of everything.                           *)

\* A search that finds nothing has nothing to find.
LEMMA SeekEmpty ==
  ASSUME NEW E \in SUBSET Entry, NEW k, NEW s \in Nat
  PROVE  Seek(E, k, s) = {} => \A e \in E : e.key = k => ~(e.seq <= s)
<1> SUFFICES ASSUME NEW e \in E, e.key = k, e.seq <= s PROVE Seek(E, k, s) # {}
  OBVIOUS
<1>1. PICK S : S = {d.seq : d \in {d \in E : d.key = k /\ d.seq <= s}}
  OBVIOUS
<1>2. S \subseteq 1 .. MaxSequence /\ S # {}
  BY <1>1, EntryFields
<1>3. IsFiniteSet(S) /\ S \subseteq Int
  <2>1. MaxSequence \in Nat /\ IsFiniteSet(1 .. MaxSequence)
    BY VersionSetAssumption, FS_Interval
  <2>2. IsFiniteSet(S)
    BY <1>2, <2>1, FS_Subset
  <2>. QED  BY <1>2, <2>2
<1>4. PICK n \in S : \A x \in S : x <= n
  BY <1>2, <1>3, FiniteExtrema
<1>5. PICK d \in E : d.key = k /\ d.seq <= s /\ d.seq = n
  BY <1>1, <1>4
<1>6. \A x \in E : x.key = k /\ x.seq <= s => x.seq <= d.seq
  BY <1>1, <1>4, <1>5
<1>7. d \in Seek(E, k, s)
  BY <1>5, <1>6 DEF Seek
<1>. QED  BY <1>7

LEMMA SeekOne ==
  ASSUME NEW E \in SUBSET Entry, Unique(E), NEW k, NEW s, NEW d \in Seek(E, k, s)
  PROVE  Seek(E, k, s) = {d} /\ d \in E
<1>1. d \in E /\ d.key = k /\ d.seq <= s
  BY DEF Seek
<1>2. ASSUME NEW e \in Seek(E, k, s) PROVE e = d
  <2>1. e \in E /\ e.key = k /\ e.seq <= s
    BY DEF Seek
  <2>2. e.seq <= d.seq /\ d.seq <= e.seq
    BY <1>1, <2>1 DEF Seek
  <2>3. e.seq \in Nat /\ d.seq \in Nat
    BY <1>1, <2>1, EntryFields
  <2>4. e.seq = d.seq
    BY <2>2, <2>3
  <2>. QED  BY <1>1, <2>1, <2>4 DEF Unique
<1>. QED  BY <1>1, <1>2

\* Where one part is newer than the other, the search of both is the search of the first
\* one that has the key.
LEMMA SeekNewer ==
  ASSUME NEW D \in SUBSET Entry, NEW E \in SUBSET Entry, Newer(D, E), NEW k, NEW s \in Nat
  PROVE  Seek(D \cup E, k, s) = IF Seek(D, k, s) # {} THEN Seek(D, k, s) ELSE Seek(E, k, s)
<1>0. \A e \in D \cup E : e.seq \in Nat
  BY EntryFields
<1>1. CASE Seek(D, k, s) = {}
  <2>1. \A e \in D : e.key = k => ~(e.seq <= s)
    BY <1>1, SeekEmpty
  <2>. QED  BY <1>1, <2>1 DEF Seek
<1>2. CASE Seek(D, k, s) # {}
  <2>1. PICK d : d \in Seek(D, k, s)
    BY <1>2
  <2>2. d \in D /\ d.key = k /\ d.seq <= s
    BY <2>1 DEF Seek
  <2>3. ASSUME NEW x \in Seek(D, k, s) PROVE x \in Seek(D \cup E, k, s)
    <3>1. x \in D /\ x.key = k /\ x.seq <= s /\ \A e \in D : e.key = k /\ e.seq <= s => e.seq <= x.seq
      BY <2>3 DEF Seek
    <3>2. \A e \in E : e.key = k => e.seq <= x.seq
      <4> TAKE e \in E
      <4>1. e.key = k => x.seq > e.seq
        BY <3>1 DEF Newer
      <4>. QED  BY <1>0, <3>1, <4>1
    <3>. QED  BY <3>1, <3>2 DEF Seek
  <2>4. ASSUME NEW x \in Seek(D \cup E, k, s) PROVE x \in Seek(D, k, s)
    <3>1. x \in D \cup E /\ x.key = k /\ x.seq <= s /\ \A e \in D \cup E : e.key = k /\ e.seq <= s => e.seq <= x.seq
      BY <2>4 DEF Seek
    <3>2. d.seq <= x.seq /\ d.seq \in Nat /\ x.seq \in Nat
      BY <1>0, <2>2, <3>1
    <3>3. x \notin E
      BY <2>2, <3>1, <3>2 DEF Newer
    <3>. QED  BY <3>1, <3>3 DEF Seek
  <2>. QED  BY <1>2, <2>3, <2>4
<1>. QED  BY <1>1, <1>2

\* Level 0, searched table by table from the newest.
LEMMA Level0Is ==
  ASSUME NEW fs \in SUBSET Table, \A f, g \in fs : f.number = g.number => f = g,
         \A f, g \in fs : f.number > g.number => Newer(f.entries, g.entries),
         NEW k, NEW s \in Nat
  PROVE  GetLevel0(fs, k, s) = Seek(EntriesOf(fs), k, s)
<1>1. \A f \in fs : f.number \in Nat /\ f.entries \in SUBSET Entry /\ f.entries \subseteq EntriesOf(fs)
  BY DEF Table, EntriesOf
<1>2. \A f \in fs : \A e \in f.entries : e.seq \in Nat
  BY <1>1, EntryFields
<1>3. ASSUME NEW x \in GetLevel0(fs, k, s) PROVE x \in Seek(EntriesOf(fs), k, s)
  <2>1. PICK f \in fs : x \in Seek(f.entries, k, s) /\ \A g \in fs : g.number > f.number => Seek(g.entries, k, s) = {}
    BY <1>3 DEF GetLevel0
  <2>2. x \in f.entries /\ x.key = k /\ x.seq <= s /\ \A e \in f.entries : e.key = k /\ e.seq <= s => e.seq <= x.seq
    BY <2>1 DEF Seek
  <2>3. ASSUME NEW g \in fs, NEW e \in g.entries, e.key = k, e.seq <= s PROVE e.seq <= x.seq
    <3>1. CASE g = f
      BY <2>2, <2>3, <3>1
    <3>2. CASE g.number > f.number
      <4>1. Seek(g.entries, k, s) = {}
        BY <2>1, <3>2
      <4>. QED  BY <1>1, <2>3, <4>1, SeekEmpty
    <3>3. CASE f.number > g.number
      <4>1. x.seq > e.seq
        BY <2>2, <2>3, <3>3 DEF Newer
      <4>. QED  BY <1>2, <2>2, <4>1
    <3>. QED  BY <1>1, <3>1, <3>2, <3>3
  <2>4. \A e \in EntriesOf(fs) : e.key = k /\ e.seq <= s => e.seq <= x.seq
    BY <2>3 DEF EntriesOf
  <2>5. x \in EntriesOf(fs)
    BY <1>1, <2>2
  <2>. QED  BY <2>2, <2>4, <2>5 DEF Seek
<1>4. ASSUME NEW x \in Seek(EntriesOf(fs), k, s) PROVE x \in GetLevel0(fs, k, s)
  <2>1. x \in EntriesOf(fs) /\ x.key = k /\ x.seq <= s /\ \A e \in EntriesOf(fs) : e.key = k /\ e.seq <= s => e.seq <= x.seq
    BY <1>4 DEF Seek
  <2>2. PICK f \in fs : x \in f.entries
    BY <2>1 DEF EntriesOf
  <2>3. x \in Seek(f.entries, k, s)
    BY <1>1, <2>1, <2>2 DEF Seek
  <2>4. ASSUME NEW g \in fs, g.number > f.number, NEW y \in Seek(g.entries, k, s) PROVE FALSE
    <3>1. y \in g.entries /\ y.key = k /\ y.seq <= s
      BY <2>4 DEF Seek
    <3>2. y.seq <= x.seq
      BY <1>1, <2>1, <3>1
    <3>3. y.seq > x.seq
      BY <2>1, <2>2, <2>4, <3>1 DEF Newer
    <3>. QED  BY <1>2, <2>2, <3>1, <3>2, <3>3
  <2>5. \A g \in fs : g.number > f.number => Seek(g.entries, k, s) = {}
    BY <2>4
  <2>. QED  BY <2>2, <2>3, <2>5 DEF GetLevel0
<1>. QED  BY <1>3, <1>4

\* A sorted level, where one table is searched.
LEMMA LevelIs ==
  ASSUME NEW fs, Searchable(fs), ~SplitKeys, \A f, g \in fs : f = g \/ Apart(f.entries, g.entries),
         NEW k \in UserKey, NEW s \in Nat
  PROVE  GetLevel(fs, k, s) = Seek(EntriesOf(fs), k, s)
<1>1. \A f \in fs : f.entries \in SUBSET Entry /\ f.entries \subseteq EntriesOf(fs)
  BY DEF Searchable, EntriesOf
<1>2. \A f \in fs : \A e \in f.entries : e.seq \in Nat /\ e.key \in Nat
  BY <1>1, EntryFields
<1>3. \A f, g \in fs : f # g => \/ \A d \in f.entries, e \in g.entries : d.key < e.key
                                \/ \A d \in f.entries, e \in g.entries : e.key < d.key
  BY PrecedesOrder DEF Apart, Left
<1>4. PICK t : t = [key |-> k, seq |-> s]
  OBVIOUS
<1>5. t.key = k /\ t.seq = s /\ k \in Nat
  BY <1>4, Keys
<1>6. \A x : x \in GetLevel(fs, k, s) <=> \E f \in FindFile(fs, t) : k >= Smallest(f).key /\ x \in Seek(f.entries, k, s)
  BY <1>4 DEF GetLevel
<1>7. ASSUME NEW x \in GetLevel(fs, k, s) PROVE x \in Seek(EntriesOf(fs), k, s)
  <2>1. PICK f \in FindFile(fs, t) : x \in Seek(f.entries, k, s)
    BY <1>6, <1>7
  <2>2. f \in fs
    BY DEF FindFile
  <2>3. x \in f.entries /\ x.key = k /\ x.seq <= s /\ \A e \in f.entries : e.key = k /\ e.seq <= s => e.seq <= x.seq
    BY <2>1 DEF Seek
  <2>4. ASSUME NEW g \in fs, NEW e \in g.entries, e.key = k PROVE g = f
    BY <1>2, <1>3, <2>2, <2>3, <2>4
  <2>5. \A e \in EntriesOf(fs) : e.key = k /\ e.seq <= s => e.seq <= x.seq
    BY <2>3, <2>4 DEF EntriesOf
  <2>6. x \in EntriesOf(fs)
    BY <1>1, <2>2, <2>3
  <2>. QED  BY <2>3, <2>5, <2>6 DEF Seek
<1>8. ASSUME NEW x \in Seek(EntriesOf(fs), k, s) PROVE x \in GetLevel(fs, k, s)
  <2>1. x \in EntriesOf(fs) /\ x.key = k /\ x.seq <= s /\ \A e \in EntriesOf(fs) : e.key = k /\ e.seq <= s => e.seq <= x.seq
    BY <1>8 DEF Seek
  <2>2. PICK f \in fs : x \in f.entries
    BY <2>1 DEF EntriesOf
  <2>3. x \in Seek(f.entries, k, s)
    BY <1>1, <2>1, <2>2 DEF Seek
  <2>4. /\ Largest(f) \in f.entries /\ Smallest(f).key <= x.key /\ x.key <= Largest(f).key
        /\ x = Largest(f) \/ Before(x, Largest(f))
    BY <2>2, TableEnds DEF Searchable
  <2>5. k >= Smallest(f).key
    <3>1. Smallest(f) \in f.entries
      BY TableEnds DEF Searchable
    <3>. QED  BY <1>2, <1>5, <2>1, <2>4, <3>1
  <2>6. ~Before(Largest(f), t)
    BY <1>2, <1>5, <2>1, <2>2, <2>4 DEF Before
  <2>7. ASSUME NEW g \in fs, ~Before(Largest(g), t), Before(Largest(g), Largest(f)) PROVE FALSE
    <3>1. Largest(g) \in g.entries /\ Largest(g) \in Entry /\ Largest(f) \in Entry
      BY <1>1, <2>4, TableEnds DEF Searchable
    <3>2. g # f
      BY <2>7, <3>1, BeforeOrder
    <3>3. Largest(g).key <= Largest(f).key /\ Largest(g).key \in Nat /\ Largest(f).key \in Nat
      BY <2>7, <3>1, BeforeOrder, EntryFields
    <3>4. Largest(g).key < x.key
      BY <1>3, <2>2, <2>4, <3>1, <3>2, <3>3
    <3>. QED  BY <1>5, <2>1, <2>7, <3>4 DEF Before
  <2>8. f \in FindFile(fs, t)
    BY <2>6, <2>7 DEF FindFile
  <2>. QED  BY <1>6, <2>3, <2>5, <2>8
<1>. QED  BY <1>7, <1>8

\* The tables of all levels: the first level that has the key decides.
LEMMA VersionIs ==
  ASSUME NEW m, NEW i, NEW v, NEW last, TreeTyped(m, i, v, last), Sorted(v), Layered(m, i, v), ~SplitKeys,
         NEW k \in UserKey, NEW s \in Nat
  PROVE  GetVersion(v, k, s) = Seek(InFiles(v), k, s)
<1>1. 0 \in Level /\ \A l \in Level : l \in Nat /\ \A j \in 0 .. l - 1 : j \in Level /\ j < l
  BY VersionSetAssumption DEF Level
<1>2. \A l \in Level : Searchable(v[l]) /\ v[l] \subseteq Table /\ EntriesOf(v[l]) \in SUBSET Entry
  <2>1. \A l \in Level : Searchable(v[l]) /\ v[l] \subseteq Table
    BY TreeTables
  <2>. QED  BY <2>1 DEF EntriesOf, Table
<1>3. \A l \in Level : \A e \in EntriesOf(v[l]) : e.seq \in Nat
  BY <1>2, EntryFields
<1>4. PICK at : at = [l \in Level |-> Seek(EntriesOf(v[l]), k, s)]
  OBVIOUS
<1>5. \A l \in Level : (IF l = 0 THEN GetLevel0(v[0], k, s) ELSE GetLevel(v[l], k, s)) = at[l]
  <2> TAKE l \in Level
  <2>1. CASE l = 0
    <3>1. v[0] \in SUBSET Table
      BY <1>1, <1>2
    <3>2. \A f, g \in v[0] : f.number = g.number => f = g
      BY DEF TreeTyped
    <3>3. \A f, g \in v[0] : f.number > g.number => Newer(f.entries, g.entries)
      BY DEF Layered
    <3>4. GetLevel0(v[0], k, s) = Seek(EntriesOf(v[0]), k, s)
      BY <3>1, <3>2, <3>3, Level0Is
    <3>. QED  BY <1>4, <2>1, <3>4
  <2>2. CASE l # 0
    <3>1. \A f, g \in v[l] : f = g \/ Apart(f.entries, g.entries)
      BY <2>2 DEF Sorted
    <3>2. GetLevel(v[l], k, s) = Seek(EntriesOf(v[l]), k, s)
      BY <1>2, <3>1, LevelIs
    <3>. QED  BY <1>4, <2>2, <3>2
  <2>. QED  BY <2>1, <2>2
<1>6. \A x : x \in GetVersion(v, k, s) <=>
               \E l \in Level : x \in at[l] /\ \A j \in 0 .. l - 1 : at[j] = {}
  <2>1. GetVersion(v, k, s) =
          UNION {IF l = 0 THEN GetLevel0(v[0], k, s) ELSE GetLevel(v[l], k, s) :
                   l \in {l \in Level :
                            /\ (IF l = 0 THEN GetLevel0(v[0], k, s) ELSE GetLevel(v[l], k, s)) # {}
                            /\ \A j \in 0 .. l - 1 :
                                 (IF j = 0 THEN GetLevel0(v[0], k, s) ELSE GetLevel(v[j], k, s)) = {}}}
    BY Zenon DEF GetVersion
  <2>2. ASSUME NEW x \in GetVersion(v, k, s)
        PROVE  \E l \in Level : x \in at[l] /\ \A j \in 0 .. l - 1 : at[j] = {}
    <3>1. PICK l \in Level :
             /\ x \in (IF l = 0 THEN GetLevel0(v[0], k, s) ELSE GetLevel(v[l], k, s))
             /\ \A j \in 0 .. l - 1 : (IF j = 0 THEN GetLevel0(v[0], k, s) ELSE GetLevel(v[j], k, s)) = {}
      BY <2>1, <2>2
    <3>2. x \in at[l]
      BY <1>5, <3>1
    <3>3. \A j \in 0 .. l - 1 : at[j] = {}
      BY <1>1, <1>5, <3>1
    <3>. QED  BY <3>2, <3>3
  <2>3. ASSUME NEW x, NEW l \in Level, x \in at[l], \A j \in 0 .. l - 1 : at[j] = {}
        PROVE  x \in GetVersion(v, k, s)
    <3>1. x \in (IF l = 0 THEN GetLevel0(v[0], k, s) ELSE GetLevel(v[l], k, s))
      BY <1>5, <2>3
    <3>2. \A j \in 0 .. l - 1 : (IF j = 0 THEN GetLevel0(v[0], k, s) ELSE GetLevel(v[j], k, s)) = {}
      BY <1>1, <1>5, <2>3
    <3>. QED  BY <2>1, <3>1, <3>2
  <2>. QED  BY <2>2, <2>3
<1>7. ASSUME NEW x \in GetVersion(v, k, s) PROVE x \in Seek(InFiles(v), k, s)
  <2>1. PICK l \in Level : x \in at[l] /\ \A j \in 0 .. l - 1 : at[j] = {}
    BY <1>6, <1>7
  <2>2. /\ x \in EntriesOf(v[l]) /\ x.key = k /\ x.seq <= s
        /\ \A e \in EntriesOf(v[l]) : e.key = k /\ e.seq <= s => e.seq <= x.seq
    BY <1>4, <2>1 DEF Seek
  <2>3. ASSUME NEW j \in Level, NEW e \in EntriesOf(v[j]), e.key = k, e.seq <= s PROVE e.seq <= x.seq
    <3>1. CASE j < l
      <4>1. j \in 0 .. l - 1
        BY <1>1, <3>1
      <4>2. Seek(EntriesOf(v[j]), k, s) = {}
        BY <1>4, <2>1, <4>1
      <4>. QED  BY <1>2, <2>3, <4>2, SeekEmpty
    <3>2. CASE j = l
      BY <2>2, <2>3, <3>2
    <3>3. CASE l < j
      <4>1. x.seq > e.seq
        BY <2>2, <2>3, <3>3 DEF Layered, Newer
      <4>. QED  BY <1>3, <2>2, <4>1
    <3>. QED  BY <1>1, <3>1, <3>2, <3>3
  <2>4. x \in InFiles(v) /\ \A e \in InFiles(v) : e.key = k /\ e.seq <= s => e.seq <= x.seq
    BY <2>2, <2>3 DEF InFiles
  <2>. QED  BY <2>2, <2>4 DEF Seek
<1>8. ASSUME NEW x \in Seek(InFiles(v), k, s) PROVE x \in GetVersion(v, k, s)
  <2>1. x \in InFiles(v) /\ x.key = k /\ x.seq <= s /\ \A e \in InFiles(v) : e.key = k /\ e.seq <= s => e.seq <= x.seq
    BY <1>8 DEF Seek
  <2>2. PICK l \in Level : x \in EntriesOf(v[l])
    BY <2>1 DEF InFiles
  <2>3. \A j \in Level : \A e \in EntriesOf(v[j]) : e.key = k /\ e.seq <= s => e.seq <= x.seq
    BY <2>1 DEF InFiles
  <2>4. x \in at[l]
    BY <1>4, <2>1, <2>2, <2>3 DEF Seek
  <2>5. ASSUME NEW j \in 0 .. l - 1, NEW y \in at[j] PROVE FALSE
    <3>1. j \in Level /\ j < l
      BY <1>1
    <3>2. y \in EntriesOf(v[j]) /\ y.key = k /\ y.seq <= s
      BY <1>4, <2>5, <3>1 DEF Seek
    <3>3. y.seq <= x.seq
      BY <2>3, <3>1, <3>2
    <3>4. y.seq > x.seq
      BY <2>1, <2>2, <3>1, <3>2 DEF Layered, Newer
    <3>. QED  BY <1>3, <2>2, <3>1, <3>2, <3>3, <3>4
  <2>. QED  BY <1>6, <2>4, <2>5
<1>. QED  BY <1>7, <1>8

\* What a reader of the key finds at the number, in the entries E.
Reads(E, k, s) == {e.seq : e \in {d \in Seek(E, k, s) : d.type = "value"}}

\* DBImpl::Get is one search of all entries.
LEMMA GetIs ==
  ASSUME TreeInv, ~Manual, ~SplitKeys, NEW k \in UserKey, NEW s \in Nat
  PROVE  Get(k, s) = Reads(Everything(mem, imm, files), k, s)
<1>1. TreeTyped(mem, imm, files, lastSequence) /\ Sorted(files) /\ Layered(mem, imm, files)
  BY DEF TreeInv
<1>2. mem \in SUBSET Entry /\ imm \in SUBSET Entry /\ InFiles(files) \in SUBSET Entry
  <2>1. Everything(mem, imm, files) \subseteq Entry
    BY <1>1, TreeTables
  <2>. QED  BY <2>1 DEF Everything
<1>3. GetVersion(files, k, s) = Seek(InFiles(files), k, s)
  BY <1>1, VersionIs
<1>4. Seek(imm \cup InFiles(files), k, s) = IF Seek(imm, k, s) # {} THEN Seek(imm, k, s) ELSE Seek(InFiles(files), k, s)
  BY <1>1, <1>2, SeekNewer DEF Layered
<1>5. PICK rest : rest = imm \cup InFiles(files)
  OBVIOUS
<1>6. rest \in SUBSET Entry /\ Newer(mem, rest)
  BY <1>1, <1>2, <1>5 DEF Layered
<1>7. Seek(mem \cup rest, k, s) = IF Seek(mem, k, s) # {} THEN Seek(mem, k, s) ELSE Seek(rest, k, s)
  BY <1>2, <1>6, SeekNewer
<1>8. mem \cup rest = Everything(mem, imm, files)
  BY <1>5 DEF Everything
<1>9. GetEntry(k, s) = Seek(Everything(mem, imm, files), k, s)
  BY <1>3, <1>4, <1>5, <1>7, <1>8 DEF GetEntry
<1>. QED  BY <1>9 DEF Get, Reads

-----------------------------------------------------------------------------
(* Reading across a compaction.                                             *)

\* What is in the levels after the compaction c, and what is no longer there.
LEMMA CompactedEntries ==
  ASSUME NEW m, NEW i, NEW v, NEW last, TreeTyped(m, i, v, last), NEW c, InputsThere(c, v),
         NEW out \in SUBSET Table, NEW w, w = Compacted(v, c, out)
  PROVE  /\ \A x \in Everything(m, i, v) :
              x \in Everything(m, i, w) \/ (x \in InputEntries(c) /\ x \notin EntriesOf(out))
         /\ \A l \in Level : \A y \in EntriesOf(w[l]) :
              \/ l # c.level /\ l # c.level + 1 /\ y \in EntriesOf(v[l])
              \/ l = c.level /\ \E g \in v[l] \ c.in0 : y \in g.entries
              \/ l = c.level + 1 /\ (y \in EntriesOf(out) \/ \E g \in v[l] \ c.in1 : y \in g.entries)
<1>1. PICK a, b : a = c.level /\ b = c.level + 1
  OBVIOUS
<1>2. a \in Level /\ b \in Level /\ a # b
  BY <1>1, VersionSetAssumption DEF InputsThere, Level
<1>3. v \in [Level -> SUBSET Table]
  BY DEF TreeTyped
<1>4. w[a] = v[a] \ c.in0 /\ w[b] = (v[b] \ c.in1) \cup out /\ \A l \in Level : l # a /\ l # b => w[l] = v[l]
  BY <1>1, <1>2, <1>3 DEF Compacted
<1>5. ASSUME NEW x \in Everything(m, i, v), x \notin Everything(m, i, w)
      PROVE  x \in InputEntries(c) /\ x \notin EntriesOf(out)
  <2>1. x \in InFiles(v) /\ x \notin InFiles(w)
    BY <1>5 DEF Everything
  <2>2. PICK l \in Level : x \in EntriesOf(v[l])
    BY <2>1 DEF InFiles
  <2>3. PICK f \in v[l] : x \in f.entries
    BY <2>2 DEF EntriesOf
  <2>4. x \notin EntriesOf(w[l]) /\ x \notin EntriesOf(w[b])
    BY <1>2, <2>1 DEF InFiles
  <2>5. f \notin w[l]
    BY <2>3, <2>4 DEF EntriesOf
  <2>6. f \in c.in0 \cup c.in1
    BY <1>4, <2>3, <2>5
  <2>7. x \notin EntriesOf(out)
    BY <1>4, <2>4 DEF EntriesOf
  <2>. QED  BY <2>3, <2>6, <2>7 DEF InputEntries
<1>6. ASSUME NEW l \in Level, NEW y \in EntriesOf(w[l])
      PROVE  \/ l # a /\ l # b /\ y \in EntriesOf(v[l])
             \/ l = a /\ \E g \in v[l] \ c.in0 : y \in g.entries
             \/ l = b /\ (y \in EntriesOf(out) \/ \E g \in v[l] \ c.in1 : y \in g.entries)
  <2>1. PICK g \in w[l] : y \in g.entries
    BY DEF EntriesOf
  <2>2. CASE l = a
    BY <1>4, <2>1, <2>2
  <2>3. CASE l = b
    BY <1>4, <2>1, <2>3 DEF EntriesOf
  <2>4. CASE l # a /\ l # b
    BY <1>4, <2>4
  <2>. QED  BY <2>2, <2>3, <2>4
<1>. QED  BY <1>1, <1>5, <1>6

\* Nothing older is left of a key whose deletion is dropped.
LEMMA NothingOlder ==
  ASSUME NEW m, NEW i, NEW v, NEW last, TreeTyped(m, i, v, last), Layered(m, i, v), ~SplitKeys,
         NEW c, InputsThere(c, v), BaseHolds(c, v), InputsApart(c, v), InputsOldest(c, v),
         c.smallestSnapshot \in Nat,
         NEW out \in SUBSET Table, EntriesOf(out) = {e \in InputEntries(c) : ~Drops(c, e)},
         NEW w, w = Compacted(v, c, out),
         NEW x \in InputEntries(c), IsBaseLevelForKey(c, x.key), x.seq <= c.smallestSnapshot,
         NEW y \in Everything(m, i, w), y.key = x.key, y.seq < x.seq
  PROVE  FALSE
<1>1. PICK a, b : a = c.level /\ b = c.level + 1
  OBVIOUS
<1>2. /\ a \in Level /\ b \in Level /\ a \in Nat /\ b = a + 1
      /\ \A l \in Level : l \in Nat /\ (l > b => l \in a + 2 .. NumLevels - 1)
  BY <1>1, VersionSetAssumption DEF InputsThere, Level
<1>3. x \in Entry /\ x.seq \in Nat
  BY InputsPart, EntryFields
<1>4. x \in EntriesOf(c.in0) \/ x \in EntriesOf(c.in1)
  BY DEF InputEntries, EntriesOf
<1>5. (x \in EntriesOf(c.in0) => x \in EntriesOf(v[a])) /\ (x \in EntriesOf(c.in1) => x \in EntriesOf(v[b]))
  BY <1>1 DEF InputsThere, EntriesOf
<1>6. x \in InFiles(v)
  BY <1>2, <1>4, <1>5 DEF InFiles
<1>7. ~(y.seq > x.seq)
  <2>1. \A l \in Level : \A d \in EntriesOf(w[l]) : d \in EntriesOf(v[l]) \/ d \in InputEntries(c)
    BY CompactedEntries DEF EntriesOf
  <2>2. \A l \in Level : \A d \in EntriesOf(v[l]) : d \in Everything(m, i, v)
    BY TreeTables
  <2>3. y \in Everything(m, i, v)
    BY <2>1, <2>2, InputsPart DEF Everything, InFiles
  <2>4. y.seq \in Nat
    BY <2>3, TreeTables, EntryFields
  <2>. QED  BY <1>3, <2>4
<1>8. y \notin m /\ y \notin i
  BY <1>6, <1>7 DEF Layered, Newer
<1>9. PICK l \in Level : y \in EntriesOf(w[l])
  BY <1>8 DEF Everything, InFiles
<1>10. \A j, k \in Level : j < k => \A d \in EntriesOf(v[j]), e \in EntriesOf(v[k]) : d.key = e.key => d.seq > e.seq
  BY DEF Layered, Newer
<1>11. CASE l # a /\ l # b /\ y \in EntriesOf(v[l])
  <2>1. CASE l < a
    <3>1. l < b
      <4>1. l \in Nat
        BY <1>2
      <4>. QED  BY <1>2, <2>1, <4>1
    <3>. QED  BY <1>2, <1>4, <1>5, <1>7, <1>10, <1>11, <2>1, <3>1
  <2>2. CASE l > b
    BY <1>1, <1>2, <1>11, <2>2 DEF BaseHolds
  <2>. QED  BY <1>2, <1>11, <2>1, <2>2
<1>12. ASSUME l = a, NEW g \in v[l] \ c.in0, y \in g.entries PROVE FALSE
  <2>1. x \notin EntriesOf(c.in0)
    BY <1>1, <1>7, <1>12 DEF InputsOldest, Newer
  <2>2. y \in EntriesOf(v[a]) /\ x \in EntriesOf(v[b]) /\ a < b
    BY <1>2, <1>4, <1>5, <1>12, <2>1 DEF EntriesOf
  <2>. QED  BY <1>2, <1>7, <1>10, <2>2
<1>13. ASSUME l = b, NEW g \in v[l] \ c.in1, y \in g.entries PROVE FALSE
  <2>1. Apart(InputEntries(c), g.entries)
    BY <1>1, <1>13 DEF InputsApart
  <2>2. x.key < y.key \/ y.key < x.key
    BY <1>13, <2>1, PrecedesOrder DEF Apart, Left
  <2>3. x.key \in Nat
    BY <1>3, EntryFields
  <2>. QED  BY <2>2, <2>3
<1>14. y \notin EntriesOf(out)
  BY <1>3, <1>7 DEF Drops
<1>15. \/ l # a /\ l # b /\ y \in EntriesOf(v[l])
       \/ l = a /\ \E g \in v[l] \ c.in0 : y \in g.entries
       \/ l = b /\ (y \in EntriesOf(out) \/ \E g \in v[l] \ c.in1 : y \in g.entries)
  BY <1>1, <1>9, CompactedEntries
<1>. QED  BY <1>11, <1>12, <1>13, <1>14, <1>15

\* A compaction changes nothing that is read at a number it had to respect.
LEMMA CompactedReads ==
  ASSUME NEW m, NEW i, NEW v, NEW last, TreeTyped(m, i, v, last), Layered(m, i, v), ~SplitKeys,
         NEW c, InputsThere(c, v), BaseHolds(c, v), InputsApart(c, v), InputsOldest(c, v),
         c.smallestSnapshot \in Nat,
         NEW out \in SUBSET Table, EntriesOf(out) = {e \in InputEntries(c) : ~Drops(c, e)},
         NEW w, w = Compacted(v, c, out), Everything(m, i, w) \subseteq Everything(m, i, v),
         NEW k \in UserKey, NEW s \in Nat, c.smallestSnapshot <= s
  PROVE  Reads(Everything(m, i, w), k, s) = Reads(Everything(m, i, v), k, s)
<1>1. PICK E, F : E = Everything(m, i, v) /\ F = Everything(m, i, w)
  OBVIOUS
<1>2. F \subseteq E /\ E \in SUBSET Entry /\ F \in SUBSET Entry /\ Unique(E) /\ Unique(F)
  <2>1. E \subseteq Entry /\ Unique(E) /\ F \subseteq E
    BY <1>1, TreeTables DEF TreeTyped
  <2>. QED  BY <2>1, UniquePart
<1>3. \A e \in E : e.seq \in Nat
  BY <1>2, EntryFields
<1>4. CASE Seek(E, k, s) = {}
  <2>1. \A e \in E : e.key = k => ~(e.seq <= s)
    BY <1>2, <1>4, SeekEmpty
  <2>2. Seek(F, k, s) = {}
    BY <1>2, <2>1 DEF Seek
  <2>. QED  BY <1>1, <1>4, <2>2 DEF Reads
<1>5. ASSUME NEW x \in Seek(E, k, s) PROVE Reads(F, k, s) = Reads(E, k, s)
  <2>1. x \in E /\ x.key = k /\ x.seq <= s /\ (\A e \in E : e.key = k /\ e.seq <= s => e.seq <= x.seq)
    BY <1>5 DEF Seek
  <2>2. Seek(E, k, s) = {x}
    BY <1>2, <1>5, SeekOne
  <2>3. CASE x \in F
    <3>1. x \in Seek(F, k, s)
      BY <1>2, <2>1, <2>3 DEF Seek
    <3>2. Seek(F, k, s) = {x}
      BY <1>2, <3>1, SeekOne
    <3>. QED  BY <2>2, <3>2 DEF Reads
  <2>4. CASE x \notin F
    <3>1. x \in InputEntries(c) /\ Drops(c, x)
      <4>1. x \in InputEntries(c) /\ x \notin EntriesOf(out)
        BY <1>1, <2>1, <2>4, CompactedEntries
      <4>. QED  BY <4>1
    <3>2. ~\E d \in InputEntries(c) : d.key = x.key /\ d.seq > x.seq /\ d.seq <= c.smallestSnapshot
      <4> SUFFICES ASSUME NEW d \in InputEntries(c), d.key = x.key, d.seq > x.seq, d.seq <= c.smallestSnapshot
                   PROVE  FALSE
        OBVIOUS
      <4>1. d \in E
        BY <1>1, InputsPart
      <4>2. d.seq \in Nat /\ x.seq \in Nat
        BY <1>3, <2>1, <4>1
      <4>3. d.seq <= s
        BY <4>2
      <4>. QED  BY <2>1, <4>1, <4>2, <4>3
    <3>3. x.type = "deletion" /\ x.seq <= c.smallestSnapshot /\ IsBaseLevelForKey(c, x.key)
      BY <3>1, <3>2 DEF Drops
    <3>4. Seek(F, k, s) = {}
      <4> SUFFICES ASSUME NEW y \in Seek(F, k, s) PROVE FALSE
        OBVIOUS
      <4>1. y \in F /\ y.key = x.key /\ y.seq <= s
        BY <2>1 DEF Seek
      <4>2. y.seq <= x.seq /\ y # x /\ y.seq \in Nat /\ x.seq \in Nat
        BY <1>2, <1>3, <2>1, <2>4, <4>1
      <4>3. y.seq # x.seq
        BY <1>2, <2>1, <4>1, <4>2 DEF Unique
      <4>4. y.seq < x.seq
        BY <4>2, <4>3
      <4>5. y \in Everything(m, i, w)
        BY <1>1, <4>1
      <4>. QED  BY <3>1, <3>3, <4>1, <4>4, <4>5, NothingOlder
    <3>5. Reads(F, k, s) = {}
      BY <3>4 DEF Reads
    <3>6. Reads(E, k, s) = {}
      BY <2>2, <3>3 DEF Reads
    <3>. QED  BY <3>5, <3>6
  <2>. QED  BY <2>3, <2>4
<1>. QED  BY <1>1, <1>4, <1>5

-----------------------------------------------------------------------------
(* The tree implements the store with snapshots.                            *)

\* What the readers see, in the entries E: at the number n, and at the snapshots S.
ValueIn(E, n)  == [k \in UserKey |-> Reads(E, k, n)]
FrozenIn(E, S) == [s \in S |-> [k \in UserKey |-> Reads(E, k, s)]]

ReadsSeen ==
  TreeInv /\ ~Manual /\ ~SplitKeys =>
    /\ [k \in UserKey |-> Get(k, lastSequence)] = ValueIn(Everything(mem, imm, files), lastSequence)
    /\ [s \in snapshots |-> [k \in UserKey |-> Get(k, s)]] = FrozenIn(Everything(mem, imm, files), snapshots)

LEMMA ReadsAre == ReadsSeen
<1> SUFFICES ASSUME TreeInv, ~Manual, ~SplitKeys
             PROVE  /\ [k \in UserKey |-> Get(k, lastSequence)] = ValueIn(Everything(mem, imm, files), lastSequence)
                    /\ [s \in snapshots |-> [k \in UserKey |-> Get(k, s)]]
                         = FrozenIn(Everything(mem, imm, files), snapshots)
  BY DEF ReadsSeen
<1>1. MaxSequence \in Nat /\ lastSequence \in 0 .. MaxSequence /\ snapshots \subseteq 0 .. lastSequence
  BY VersionSetAssumption DEF TreeInv, TreeTyped
<1>2. lastSequence \in Nat /\ \A s \in snapshots : s \in Nat
  BY <1>1
<1>3. \A k \in UserKey : Get(k, lastSequence) = Reads(Everything(mem, imm, files), k, lastSequence)
  BY <1>2, GetIs
<1>4. \A s \in snapshots : \A k \in UserKey : Get(k, s) = Reads(Everything(mem, imm, files), k, s)
  BY <1>2, GetIs
<1>. QED  BY <1>3, <1>4 DEF ValueIn, FrozenIn

LEMMA ReadsAreNext == ReadsSeen'
BY ReadsAre, PTL

\* Of the key just written a reader at the present finds that write, or nothing when it is a
\* deletion.
LEMMA ReadsNew ==
  ASSUME NEW E \in SUBSET Entry, NEW e \in Entry, NEW n \in Nat, \A d \in E : d.seq <= n,
         e.seq = n + 1
  PROVE  Reads(E \cup {e}, e.key, n + 1) \in {{n + 1}, {}}
<1>1. ASSUME NEW d \in E PROVE d.seq \in Nat /\ ~(n + 1 <= d.seq) /\ d.seq <= n + 1
  BY <1>1, EntryFields
<1>2. \A d \in E \cup {e} : d.seq <= n + 1
  BY <1>1
<1>3. Seek(E \cup {e}, e.key, n + 1) \subseteq {e}
  <2> SUFFICES ASSUME NEW d \in Seek(E \cup {e}, e.key, n + 1) PROVE d = e
    OBVIOUS
  <2>1. d \in E \cup {e} /\ (n + 1 <= n + 1 => e.seq <= d.seq)
    BY DEF Seek
  <2>2. n + 1 <= d.seq
    BY <2>1
  <2>. QED  BY <1>1, <2>1, <2>2
<1>4. Seek(E \cup {e}, e.key, n + 1) = {e} \/ Seek(E \cup {e}, e.key, n + 1) = {}
  BY <1>3
<1>. QED  BY <1>4 DEF Reads

\* An entry that the number does not see, or of another key, is not read.
LEMMA ReadsOthers ==
  ASSUME NEW E, NEW e, NEW k, NEW s, e.key # k \/ ~(e.seq <= s)
  PROVE  Reads(E \cup {e}, k, s) = Reads(E, k, s)
<1>1. Seek(E \cup {e}, k, s) = Seek(E, k, s)
  BY DEF Seek
<1>. QED  BY <1>1 DEF Reads

\* With every number seen, the last one or the next one makes no difference.
LEMMA ReadsLater ==
  ASSUME NEW E \in SUBSET Entry, NEW n \in Nat, \A e \in E : e.seq <= n, NEW k
  PROVE  Reads(E, k, n + 1) = Reads(E, k, n)
<1>1. \A e \in E : e.seq <= n /\ e.seq <= n + 1
  BY EntryFields
<1>2. Seek(E, k, n + 1) = Seek(E, k, n)
  BY <1>1 DEF Seek
<1>. QED  BY <1>2 DEF Reads

StoreValue  == [k \in UserKey |-> Get(k, lastSequence)]
StoreFrozen == [s \in snapshots |-> [k \in UserKey |-> Get(k, s)]]

LEMMA StoreReads ==
  ASSUME TreeInv, TreeInv', ~Manual, ~SplitKeys
  PROVE  /\ StoreValue = ValueIn(Everything(mem, imm, files), lastSequence)
         /\ StoreFrozen = FrozenIn(Everything(mem, imm, files), snapshots)
         /\ StoreValue' = ValueIn(Everything(mem', imm', files'), lastSequence')
         /\ StoreFrozen' = FrozenIn(Everything(mem', imm', files'), snapshots')
         /\ lastSequence \in 0 .. MaxSequence /\ lastSequence \in Nat /\ MaxSequence \in Nat
         /\ snapshots \subseteq 0 .. lastSequence
<1>1. /\ StoreValue = ValueIn(Everything(mem, imm, files), lastSequence)
      /\ StoreFrozen = FrozenIn(Everything(mem, imm, files), snapshots)
  BY ReadsAre DEF ReadsSeen, StoreValue, StoreFrozen
<1>2. /\ StoreValue' = ValueIn(Everything(mem', imm', files'), lastSequence')
      /\ StoreFrozen' = FrozenIn(Everything(mem', imm', files'), snapshots')
  BY ReadsAreNext DEF ReadsSeen, StoreValue, StoreFrozen
<1>3. lastSequence \in 0 .. MaxSequence /\ MaxSequence \in Nat /\ snapshots \subseteq 0 .. lastSequence
  BY VersionSetAssumption DEF TreeInv, TreeTyped
<1>. QED  BY <1>1, <1>2, <1>3

\* The steps that leave the entries, the last number and the snapshots alone are not seen.
LEMMA UnseenEntries ==
  ASSUME TreeInv, TreeInv', ~Manual, ~SplitKeys, UNCHANGED <<lastSequence, snapshots>>,
         Everything(mem', imm', files') = Everything(mem, imm, files)
  PROVE  UNCHANGED <<lastSequence, StoreValue, StoreFrozen>>
BY StoreReads

LEMMA UnseenFinish ==
  ASSUME TreeInv, TreeInv', ~Manual, ~SplitKeys, FinishCompaction
  PROVE  UNCHANGED <<lastSequence, StoreValue, StoreFrozen>>
<1>1. UNCHANGED <<lastSequence, mem, imm, snapshots>>
  BY DEF FinishCompaction
<1>2. PICK c \in compaction : \E out \in SUBSET Table :
           /\ IsFiniteSet(out) /\ files' = Compacted(files, c, out)
           /\ \A p \in out : p.entries # {} /\ p.entries \subseteq InputEntries(c)
           /\ EntriesOf(out) = {e \in InputEntries(c) : ~Drops(c, e)}
  BY FinishedIs
<1>3. PICK out \in SUBSET Table :
           /\ IsFiniteSet(out) /\ files' = Compacted(files, c, out)
           /\ \A p \in out : p.entries # {} /\ p.entries \subseteq InputEntries(c)
           /\ EntriesOf(out) = {e \in InputEntries(c) : ~Drops(c, e)}
  BY <1>2
<1>4. TreeTyped(mem, imm, files, lastSequence) /\ Layered(mem, imm, files) /\ CompactionInv(c)
  BY DEF TreeInv
<1>5. /\ InputsThere(c, files) /\ BaseHolds(c, files) /\ InputsApart(c, files) /\ InputsOldest(c, files)
      /\ c.smallestSnapshot \in Nat /\ c.smallestSnapshot <= lastSequence
      /\ \A s \in snapshots : c.smallestSnapshot <= s
  BY <1>4 DEF CompactionInv
<1>6. PICK w : w = files'
  OBVIOUS
<1>7. w = Compacted(files, c, out)
  BY <1>3, <1>6
<1>8. Everything(mem, imm, w) \subseteq Everything(mem, imm, files)
  BY <1>3, <1>4, <1>5, <1>7, AppliedTree
<1>9. ASSUME NEW k \in UserKey, NEW s \in Nat, c.smallestSnapshot <= s
      PROVE  Reads(Everything(mem, imm, w), k, s) = Reads(Everything(mem, imm, files), k, s)
  BY <1>3, <1>4, <1>5, <1>7, <1>8, <1>9, CompactedReads
<1>10. lastSequence \in Nat /\ \A s \in snapshots : s \in Nat
  BY StoreReads
<1>11. ValueIn(Everything(mem, imm, w), lastSequence) = ValueIn(Everything(mem, imm, files), lastSequence)
  BY <1>5, <1>9, <1>10 DEF ValueIn
<1>12. FrozenIn(Everything(mem, imm, w), snapshots) = FrozenIn(Everything(mem, imm, files), snapshots)
  BY <1>5, <1>9, <1>10 DEF FrozenIn
<1>. QED  BY <1>1, <1>6, <1>11, <1>12, StoreReads

LEMMA UnseenMove ==
  ASSUME TreeInv, TreeInv', ~Manual, ~SplitKeys, MoveFile
  PROVE  UNCHANGED <<lastSequence, StoreValue, StoreFrozen>>
<1>1. UNCHANGED <<lastSequence, mem, imm, snapshots>>
  BY DEF MoveFile
<1>2. PICK c : \E out \in SUBSET Table :
           /\ WellChosen(c, files) /\ IsFiniteSet(out) /\ files' = Compacted(files, c, out)
           /\ \A p \in out : p.entries # {} /\ p.entries \subseteq InputEntries(c)
           /\ EntriesOf(out) = InputEntries(c)
  BY MovedIs
<1>3. PICK out \in SUBSET Table :
           /\ WellChosen(c, files) /\ IsFiniteSet(out) /\ files' = Compacted(files, c, out)
           /\ \A p \in out : p.entries # {} /\ p.entries \subseteq InputEntries(c)
           /\ EntriesOf(out) = InputEntries(c)
  BY <1>2
<1>4. TreeTyped(mem, imm, files, lastSequence) /\ InputsThere(c, files)
  BY <1>3 DEF TreeInv, WellChosen
<1>5. PICK w : w = files'
  OBVIOUS
<1>6. w = Compacted(files, c, out)
  BY <1>3, <1>5
<1>7. Everything(mem, imm, w) \subseteq Everything(mem, imm, files)
  BY <1>3, <1>4, <1>6, AppliedTree
<1>8. \A x \in Everything(mem, imm, files) : x \in Everything(mem, imm, w)
  BY <1>3, <1>4, <1>6, CompactedEntries
<1>9. Everything(mem', imm', files') = Everything(mem, imm, files)
  BY <1>1, <1>5, <1>7, <1>8
<1>. QED  BY <1>1, <1>9, UnseenEntries

LEMMA UnseenFlush ==
  ASSUME TreeInv, TreeInv', ~Manual, ~SplitKeys, CompactMemTable
  PROVE  UNCHANGED <<lastSequence, StoreValue, StoreFrozen>>
<1>1. imm # {} /\ imm' = {} /\ UNCHANGED <<lastSequence, mem, snapshots>>
  BY DEF CompactMemTable
<1>2. PICK l \in PickLevelForMemTableOutput(files, First(imm).key, Last(imm).key) :
         files' = WithFlush(files, imm, l)
  BY Zenon DEF CompactMemTable, WithFlush, Flushed, NewFileNumber
<1>3. PICK w : w = files'
  OBVIOUS
<1>4. w = WithFlush(files, imm, l)
  BY <1>2, <1>3
<1>5. TreeTyped(mem, imm, files, lastSequence)
  BY DEF TreeInv
<1>6. Everything(mem, {}, w) = Everything(mem, imm, files)
  BY <1>1, <1>4, <1>5, FlushedTree
<1>. QED  BY <1>1, <1>3, <1>6, UnseenEntries

LEMMA SeenWrite ==
  ASSUME TreeInv, TreeInv', ~Manual, ~SplitKeys, NEW k \in UserKey, NEW t \in {"value", "deletion"}, Write(k, t)
  PROVE  /\ lastSequence' = lastSequence + 1 /\ lastSequence + 1 \in 1 .. MaxSequence
         /\ \E v \in {{lastSequence + 1}, {}} : StoreValue' = [StoreValue EXCEPT ![k] = v]
         /\ UNCHANGED StoreFrozen
<1>1. /\ lastSequence' = lastSequence + 1 /\ lastSequence < MaxSequence
      /\ UNCHANGED <<imm, files, snapshots>>
  BY DEF Write
<1>2. PICK e : e = [key |-> k, seq |-> lastSequence + 1, type |-> t]
  OBVIOUS
<1>3. mem' = mem \cup {e} /\ e.key = k /\ e.seq = lastSequence + 1
  BY <1>2 DEF Write
<1>4. PICK E, F, n : E = Everything(mem, imm, files) /\ F = Everything(mem', imm', files') /\ n = lastSequence
  OBVIOUS
<1>5. F = E \cup {e}
  BY <1>1, <1>3, <1>4 DEF Everything
<1>6. /\ StoreValue = ValueIn(E, n) /\ StoreValue' = ValueIn(F, n + 1)
      /\ StoreFrozen = FrozenIn(E, snapshots) /\ StoreFrozen' = FrozenIn(F, snapshots)
      /\ n \in Nat /\ snapshots \subseteq 0 .. n
  BY <1>1, <1>4, StoreReads
<1>7. E \in SUBSET Entry /\ \A d \in E : d.seq <= n
  BY <1>4, TreeTables DEF TreeInv, TreeTyped
<1>8. F \in SUBSET Entry /\ Unique(F)
  <2>1. TreeTyped(mem', imm', files', lastSequence')
    BY DEF TreeInv
  <2>. QED  BY <1>4, <2>1, TreeTables DEF TreeTyped
<1>9. StoreValue'[k] \in {{n + 1}, {}}
  <2>1. StoreValue'[k] = Reads(F, k, n + 1)
    BY <1>6 DEF ValueIn
  <2>. QED  BY <1>3, <1>4, <1>5, <1>6, <1>7, <1>8, <2>1, ReadsNew
<1>10. ASSUME NEW j \in UserKey \ {k} PROVE StoreValue'[j] = StoreValue[j]
  <2>1. Reads(F, j, n + 1) = Reads(E, j, n + 1)
    BY <1>3, <1>5, ReadsOthers
  <2>2. Reads(E, j, n + 1) = Reads(E, j, n)
    BY <1>6, <1>7, ReadsLater
  <2>. QED  BY <1>6, <2>1, <2>2 DEF ValueIn
<1>11. FrozenIn(F, snapshots) = FrozenIn(E, snapshots)
  <2>1. ASSUME NEW s \in snapshots, NEW j \in UserKey PROVE Reads(F, j, s) = Reads(E, j, s)
    <3>1. ~(e.seq <= s)
      BY <1>3, <1>4, <1>6
    <3>. QED  BY <1>5, <3>1, ReadsOthers
  <2>. QED  BY <2>1 DEF FrozenIn
<1>12. PICK v \in {{n + 1}, {}} : StoreValue'[k] = v
  BY <1>9
<1>13. StoreValue' = [StoreValue EXCEPT ![k] = v]
  <2>1. StoreValue' = [j \in UserKey |-> StoreValue'[j]] /\ StoreValue = [j \in UserKey |-> StoreValue[j]]
    BY DEF StoreValue
  <2>. QED  BY <1>10, <1>12, <2>1
<1>14. lastSequence + 1 \in 1 .. MaxSequence
  BY <1>1, StoreReads
<1>. QED  BY <1>1, <1>4, <1>6, <1>11, <1>12, <1>13, <1>14

LEMMA SeenSnapshot ==
  ASSUME TreeInv, TreeInv', ~Manual, ~SplitKeys, GetSnapshot
  PROVE  /\ lastSequence \in 0 .. MaxSequence /\ lastSequence \notin DOMAIN StoreFrozen
         /\ StoreFrozen' = [t \in DOMAIN StoreFrozen \cup {lastSequence} |->
                              IF t = lastSequence THEN StoreValue ELSE StoreFrozen[t]]
         /\ UNCHANGED <<lastSequence, StoreValue>>
<1>1. /\ lastSequence \notin snapshots /\ snapshots' = snapshots \cup {lastSequence}
      /\ UNCHANGED <<lastSequence, mem, imm, files>>
  BY DEF GetSnapshot
<1>2. PICK E, n : E = Everything(mem, imm, files) /\ n = lastSequence
  OBVIOUS
<1>3. /\ StoreValue = ValueIn(E, n) /\ StoreValue' = ValueIn(E, n)
      /\ StoreFrozen = FrozenIn(E, snapshots) /\ StoreFrozen' = FrozenIn(E, snapshots \cup {n})
      /\ n \in 0 .. MaxSequence
  BY <1>1, <1>2, StoreReads
<1>4. DOMAIN StoreFrozen = snapshots
  BY DEF StoreFrozen
<1>5. FrozenIn(E, snapshots \cup {n}) = [t \in snapshots \cup {n} |-> IF t = n THEN ValueIn(E, n) ELSE FrozenIn(E, snapshots)[t]]
  BY <1>1, <1>2 DEF FrozenIn, ValueIn
<1>. QED  BY <1>1, <1>2, <1>3, <1>4, <1>5

LEMMA SeenRelease ==
  ASSUME TreeInv, TreeInv', ~Manual, ~SplitKeys, NEW s \in snapshots, ReleaseSnapshot(s)
  PROVE  /\ s \in 0 .. MaxSequence /\ s \in DOMAIN StoreFrozen
         /\ StoreFrozen' = [t \in DOMAIN StoreFrozen \ {s} |-> StoreFrozen[t]]
         /\ UNCHANGED <<lastSequence, StoreValue>>
<1>1. snapshots' = snapshots \ {s} /\ UNCHANGED <<lastSequence, mem, imm, files>>
  BY DEF ReleaseSnapshot
<1>2. PICK E, n : E = Everything(mem, imm, files) /\ n = lastSequence
  OBVIOUS
<1>3. /\ StoreValue = ValueIn(E, n) /\ StoreValue' = ValueIn(E, n)
      /\ StoreFrozen = FrozenIn(E, snapshots) /\ StoreFrozen' = FrozenIn(E, snapshots \ {s})
      /\ snapshots \subseteq 0 .. n /\ n \in 0 .. MaxSequence /\ MaxSequence \in Nat
  BY <1>1, <1>2, StoreReads
<1>4. DOMAIN StoreFrozen = snapshots
  BY DEF StoreFrozen
<1>5. FrozenIn(E, snapshots \ {s}) = [t \in snapshots \ {s} |-> FrozenIn(E, snapshots)[t]]
  BY DEF FrozenIn
<1>6. s \in 0 .. MaxSequence
  BY <1>3
<1>. QED  BY <1>1, <1>3, <1>4, <1>5, <1>6

\* Every step is one of the store, or none that a reader sees.
LEMMA StepsImplement ==
  ASSUME TreeInv, TreeInv', ~Manual, ~SplitKeys, [Next]_vars
  PROVE  [Store!Next]_<<lastSequence, StoreValue, StoreFrozen>>
<1>1. CASE \E k \in UserKey, t \in {"value", "deletion"} : Write(k, t)
  <2>1. PICK k \in UserKey, t \in {"value", "deletion"} : Write(k, t)
    BY <1>1
  <2>2. /\ lastSequence' = lastSequence + 1 /\ lastSequence + 1 \in 1 .. MaxSequence
        /\ \E v \in {{lastSequence + 1}, {}} : StoreValue' = [StoreValue EXCEPT ![k] = v]
        /\ UNCHANGED StoreFrozen
    BY <2>1, SeenWrite
  <2>3. [n \in 1 .. MaxSequence |-> {n}][lastSequence + 1] = {lastSequence + 1}
    BY <2>2
  <2>4. Store!Write(k)
    BY <2>2, <2>3 DEF Store!Write, StoreValue, StoreFrozen
  <2>. QED  BY <2>4 DEF Store!Next
<1>2. CASE SwitchMemTable
  <2>1. imm = {} /\ imm' = mem /\ mem' = {} /\ UNCHANGED <<lastSequence, files, snapshots>>
    BY <1>2 DEF SwitchMemTable
  <2>2. Everything(mem', imm', files') = Everything(mem, imm, files)
    BY <2>1 DEF Everything
  <2>. QED  BY <2>1, <2>2, UnseenEntries
<1>3. CASE GetSnapshot
  <2>1. /\ lastSequence \in 0 .. MaxSequence /\ lastSequence \notin DOMAIN StoreFrozen
        /\ StoreFrozen' = [t \in DOMAIN StoreFrozen \cup {lastSequence} |->
                             IF t = lastSequence THEN StoreValue ELSE StoreFrozen[t]]
        /\ UNCHANGED <<lastSequence, StoreValue>>
    BY <1>3, SeenSnapshot
  <2>2. Store!GetSnapshot(lastSequence)
    BY <2>1 DEF Store!GetSnapshot, StoreValue, StoreFrozen
  <2>. QED  BY <2>1, <2>2 DEF Store!Next
<1>4. CASE \E s \in snapshots : ReleaseSnapshot(s)
  <2>1. PICK s \in snapshots : ReleaseSnapshot(s)
    BY <1>4
  <2>2. /\ s \in 0 .. MaxSequence /\ s \in DOMAIN StoreFrozen
        /\ StoreFrozen' = [t \in DOMAIN StoreFrozen \ {s} |-> StoreFrozen[t]]
        /\ UNCHANGED <<lastSequence, StoreValue>>
    BY <2>1, SeenRelease
  <2>3. Store!ReleaseSnapshot(s)
    BY <2>2 DEF Store!ReleaseSnapshot, StoreValue, StoreFrozen
  <2>. QED  BY <2>2, <2>3 DEF Store!Next
<1>5. CASE CompactMemTable
  BY <1>5, UnseenFlush
<1>6. CASE MoveFile
  BY <1>6, UnseenMove
<1>7. CASE StartCompaction
  <2>1. UNCHANGED <<lastSequence, mem, imm, files, snapshots>>
    BY <1>7 DEF StartCompaction
  <2>. QED  BY <2>1, UnseenEntries
<1>8. CASE FinishCompaction
  BY <1>8, UnseenFinish
<1>9. CASE UNCHANGED vars
  <2>1. UNCHANGED <<lastSequence, mem, imm, files, snapshots>>
    BY <1>9 DEF vars
  <2>. QED  BY <2>1, UnseenEntries
<1>. QED  BY <1>1, <1>2, <1>3, <1>4, <1>5, <1>6, <1>7, <1>8, <1>9 DEF Next

\* Under the same two conditions the tree implements the store with snapshots, in which only a
\* write, with a number of its own, changes what its key has now: flushes, moves and merges, with
\* the entries these drop, leave every read as it was, at the present and at each snapshot held.
THEOREM ReadsCorrect ==
  ASSUME ~Manual, ~SplitKeys
  PROVE  Spec => ReadsAreSnapshots
<1>1. Init => Store!Init
  <2> SUFFICES ASSUME Init PROVE Store!Init
    OBVIOUS
  <2>1. TreeInv
    BY InitTree
  <2>2. Everything(mem, imm, files) = {} /\ snapshots = {}
    BY DEF Init, Everything, InFiles, EntriesOf
  <2>3. /\ StoreValue = ValueIn(Everything(mem, imm, files), lastSequence)
        /\ StoreFrozen = FrozenIn(Everything(mem, imm, files), snapshots)
    BY <2>1, ReadsAre DEF ReadsSeen, StoreValue, StoreFrozen
  <2>4. StoreValue = [k \in UserKey |-> {}]
    <3>1. \A k \in UserKey : Reads({}, k, lastSequence) = {}
      BY DEF Reads, Seek
    <3>. QED  BY <2>2, <2>3, <3>1 DEF ValueIn
  <2>5. StoreFrozen = [s \in {} |-> StoreValue]
    BY <2>2 DEF StoreFrozen
  <2>6. lastSequence = 0
    BY DEF Init
  <2>. QED  BY <2>4, <2>5, <2>6, Zenon DEF Store!Init, StoreValue, StoreFrozen
<1>2. TreeInv /\ TreeInv' /\ [Next]_vars => [Store!Next]_<<lastSequence, StoreValue, StoreFrozen>>
  BY StepsImplement
<1>. QED  BY <1>1, <1>2, TreeInvariance, PTL DEF Spec, ReadsAreSnapshots, Store!Spec, StoreValue, StoreFrozen
=============================================================================
