--------------------------- MODULE IteratorsProofs ---------------------------
(***************************************************************************)
(* DBIter over MergingIterator implements Cursor, for any entries and any  *)
(* number of children.  The merged iterator, going forward, has each child *)
(* on its first entry of a set that contains what follows its own          *)
(* (Forward), and going backwards on its last of one that contains what    *)
(* precedes (Backward); the set loses an entry with each step, so that the *)
(* loops of DBIter end, and each has an invariant that says which entries  *)
(* it has still to find (PassInv, KeepInv, BackInv).  Between calls the    *)
(* DBIter is on an entry that is to be shown, in one of two ways (On).     *)
(***************************************************************************)
EXTENDS Iterators, Extrema, SequenceTheorems

Bounds == NumUserKeys \in Nat /\ NumEntries \in Nat /\ NumChildren \in Nat

Entry == [key : UserKey, seq : 1 .. NumEntries, type : {"value", "deletion"}]

\* Each child is sorted, and no two entries of all of them have the same sequence number.
ChildrenSound ==
  /\ children \in [Child -> Seq(Entry)]
  /\ \A c \in Child : \A i, j \in DOMAIN children[c] :
       i < j => Before(children[c][i], children[c][j])
  /\ \A c, d \in Child : \A i \in DOMAIN children[c], j \in DOMAIN children[d] :
       children[c][i].seq = children[d][j].seq => c = d /\ i = j
  /\ sequence \in Nat

-----------------------------------------------------------------------------
(* The order of the entries.                                                *)

\* The entries are those in the lists, each in one place.
LEMMA EntriesAre ==
  ASSUME Bounds, ChildrenSound
  PROVE  /\ Entries \subseteq Entry
         /\ \A c \in Child : \A i \in DOMAIN children[c] : children[c][i] \in Entries
         /\ \A e \in Entries : \E c \in Child : \E i \in DOMAIN children[c] : e = children[c][i]
         /\ \A a, b \in Entries : a.seq = b.seq => a = b
<1>1. \A c \in Child : \A i \in DOMAIN children[c] : children[c][i] \in Entries
  BY DEF Entries
<1>2. \A e \in Entries : \E c \in Child : \E i \in DOMAIN children[c] : e = children[c][i]
  BY DEF Entries
<1>3. Entries \subseteq Entry
  <2>1. \A c \in Child : \A i \in DOMAIN children[c] : children[c][i] \in Entry
    BY DEF ChildrenSound
  <2>. QED  BY <1>2, <2>1
<1>4. ASSUME NEW a \in Entries, NEW b \in Entries, a.seq = b.seq PROVE a = b
  <2>1. PICK c \in Child : \E i \in DOMAIN children[c] : a = children[c][i]
    BY <1>2
  <2>2. PICK i \in DOMAIN children[c] : a = children[c][i]
    BY <2>1
  <2>3. PICK d \in Child : \E j \in DOMAIN children[d] : b = children[d][j]
    BY <1>2
  <2>4. PICK j \in DOMAIN children[d] : b = children[d][j]
    BY <2>3
  <2>. QED  BY <1>4, <2>2, <2>4 DEF ChildrenSound
<1>. QED  BY <1>1, <1>2, <1>3, <1>4

\* It is total and strict.
LEMMA Order ==
  ASSUME Bounds, ChildrenSound
  PROVE  /\ \A a, b \in Entries : a = b \/ Before(a, b) \/ Before(b, a)
         /\ \A a, b \in Entries : Before(a, b) => a # b /\ ~Before(b, a)
         /\ \A a, b, c \in Entries : Before(a, b) /\ Before(b, c) => Before(a, c)
<1>1. /\ \A a \in Entries : a.key \in Int /\ a.seq \in Int
      /\ \A a, b \in Entries : a.seq = b.seq => a = b
  BY EntriesAre DEF Entry, UserKey, Bounds
<1>. QED  BY <1>1 DEF Before

Least(R, x)    == x \in R /\ \A y \in R : x = y \/ Before(x, y)
Greatest(R, x) == x \in R /\ \A y \in R : x = y \/ Before(y, x)

\* Entries have a first and a last one.
LEMMA HasLeast ==
  ASSUME Bounds, ChildrenSound, NEW R, R \subseteq Entries, R # {}
  PROVE  \E x : Least(R, x)
<1>1. /\ \A a \in R : a.key \in Nat /\ a.seq \in Nat /\ NumEntries - a.seq \in Nat
      /\ \A a, b \in R : a.seq = b.seq => a = b
  BY EntriesAre DEF Entry, UserKey, Bounds
<1>2. PICK a \in R : \A b \in R : a.key <= b.key
  <2>. DEFINE D == {a.key : a \in R}
  <2>1. D \subseteq Nat /\ D # {}
    BY <1>1
  <2>2. PICK k \in D : \A j \in D : k <= j
    <3>. HIDE DEF D
    <3>. QED  BY <2>1, LeastNatural
  <2>. QED  BY <2>2
<1>3. PICK x \in R : x.key = a.key /\ \A b \in R : b.key = a.key => b.seq <= x.seq
  <2>. DEFINE D == {NumEntries - b.seq : b \in {b \in R : b.key = a.key}}
  <2>1. D \subseteq Nat /\ D # {}
    BY <1>1
  <2>2. PICK k \in D : \A j \in D : k <= j
    <3>. HIDE DEF D
    <3>. QED  BY <2>1, LeastNatural
  <2>3. PICK x \in R : x.key = a.key /\ k = NumEntries - x.seq
    BY <2>2
  <2>4. ASSUME NEW b \in R, b.key = a.key PROVE b.seq <= x.seq
    <3>1. NumEntries - x.seq <= NumEntries - b.seq
      BY <2>2, <2>3, <2>4
    <3>. QED  BY <1>1, <3>1 DEF Bounds
  <2>. QED  BY <2>3, <2>4
<1>4. \A y \in R : x = y \/ Before(x, y)
  <2>. TAKE y \in R
  <2>1. /\ a.key \in Nat /\ y.key \in Nat /\ y.seq \in Nat /\ x.seq \in Nat
        /\ a.key <= y.key /\ x.key = a.key
    BY <1>1, <1>2, <1>3
  <2>2. CASE y.key = a.key
    BY <1>1, <1>3, <2>1, <2>2 DEF Before
  <2>3. CASE y.key # a.key
    BY <2>1, <2>3 DEF Before
  <2>. QED  BY <2>2, <2>3
<1>. QED  BY <1>3, <1>4 DEF Least

\* As any that differ in their sequence numbers do.
Distinct(R) == R \subseteq Entry /\ \A a, b \in R : a.seq = b.seq => a = b

\* Such entries have a last one.
LEMMA LastOf ==
  ASSUME Bounds, NEW R, R # {}, Distinct(R)
  PROVE  \E x : Greatest(R, x)
<1>1. /\ \A a \in R : a.key \in Nat /\ a.seq \in Nat /\ NumUserKeys - a.key \in Nat
      /\ \A a, b \in R : a.seq = b.seq => a = b
  BY DEF Distinct, Entry, UserKey, Bounds
<1>2. PICK a \in R : \A b \in R : b.key <= a.key
  <2>. DEFINE D == {NumUserKeys - a.key : a \in R}
  <2>1. D \subseteq Nat /\ D # {}
    BY <1>1
  <2>2. PICK k \in D : \A j \in D : k <= j
    <3>. HIDE DEF D
    <3>. QED  BY <2>1, LeastNatural
  <2>3. PICK a \in R : k = NumUserKeys - a.key
    BY <2>2
  <2>4. ASSUME NEW b \in R PROVE b.key <= a.key
    <3>1. NumUserKeys - a.key <= NumUserKeys - b.key
      BY <2>2, <2>3
    <3>. QED  BY <1>1, <3>1 DEF Bounds
  <2>. QED  BY <2>3, <2>4
<1>3. PICK x \in R : x.key = a.key /\ \A b \in R : b.key = a.key => x.seq <= b.seq
  <2>. DEFINE D == {b.seq : b \in {b \in R : b.key = a.key}}
  <2>1. D \subseteq Nat /\ D # {}
    BY <1>1
  <2>2. PICK k \in D : \A j \in D : k <= j
    <3>. HIDE DEF D
    <3>. QED  BY <2>1, LeastNatural
  <2>. QED  BY <1>1, <2>2
<1>4. \A y \in R : x = y \/ Before(y, x)
  <2>. TAKE y \in R
  <2>1. /\ a.key \in Nat /\ y.key \in Nat /\ y.seq \in Nat /\ x.seq \in Nat
        /\ y.key <= a.key /\ x.key = a.key
    BY <1>1, <1>2, <1>3
  <2>2. CASE y.key = a.key
    BY <1>1, <1>3, <2>1, <2>2 DEF Before
  <2>3. CASE y.key # a.key
    BY <2>1, <2>3 DEF Before
  <2>. QED  BY <2>2, <2>3
<1>. QED  BY <1>3, <1>4 DEF Greatest

\* And so have those of the children.
LEMMA HasGreatest ==
  ASSUME Bounds, ChildrenSound, NEW R, R \subseteq Entries, R # {}
  PROVE  \E x : Greatest(R, x)
<1>1. Distinct(R)
  BY EntriesAre DEF Distinct
<1>. QED  BY <1>1, LastOf

-----------------------------------------------------------------------------
(* Positions.                                                               *)

\* A set with all the entries after each of its own, or before.
UpSet(R)   == R \subseteq Entries /\ \A a \in R, b \in Entries : Before(a, b) => b \in R
DownSet(L) == L \subseteq Entries /\ \A a \in L, b \in Entries : Before(b, a) => b \in L

\* A child is on its first entry of a set, or its last.
FirstIn(list, R, p) ==
  /\ p \in Nat
  /\ p # 0 => p \in DOMAIN list /\ list[p] \in R
  /\ \A i \in DOMAIN list : list[i] \in R => p # 0 /\ p <= i

LastIn(list, L, p) ==
  /\ p \in Nat
  /\ p # 0 => p \in DOMAIN list /\ list[p] \in L
  /\ \A i \in DOMAIN list : list[i] \in L => i <= p

\* The merged iterator has the entries of R to go, or those of L.
Forward(m, R) ==
  /\ m \in [pos : [Child -> Nat], current : Nat, direction : {"forward"}]
  /\ UpSet(R) /\ \A c \in Child : FirstIn(children[c], R, m.pos[c])
  /\ R = {} => m.current = 0
  /\ R # {} => m.current \in Child /\ m.pos[m.current] # 0 /\ Least(R, MergedKey(m))

Backward(m, L) ==
  /\ m \in [pos : [Child -> Nat], current : Nat, direction : {"reverse"}]
  /\ DownSet(L) /\ \A c \in Child : LastIn(children[c], L, m.pos[c])
  /\ L = {} => m.current = 0
  /\ L # {} => m.current \in Child /\ m.pos[m.current] # 0 /\ Greatest(L, MergedKey(m))

\* FindSmallest makes the child with the first entry of all the current one.
LEMMA FindSmallestIs ==
  ASSUME Bounds, ChildrenSound, NEW R, UpSet(R),
         NEW m \in [pos : [Child -> Nat], current : Nat, direction : {"forward"}],
         \A c \in Child : FirstIn(children[c], R, m.pos[c])
  PROVE  Forward(FindSmallest(m), R)
<1>. DEFINE C == {c \in Child : m.pos[c] # 0}
            At(c) == children[c][m.pos[c]]
            Smallest(c) == \A d \in C \ {c} : Before(At(c), At(d))
            n == IF C = {} THEN 0 ELSE CHOOSE c \in C : Smallest(c)
<1>1. FindSmallest(m) = [m EXCEPT !.current = n]
  BY DEF FindSmallest
<1>2. \A c \in C : At(c) \in R /\ At(c) \in Entries
  BY DEF FirstIn, UpSet
<1>3. C \subseteq Child /\ Child \subseteq Nat /\ 0 \notin Child
  BY DEF Child, Bounds
<1>4. CASE R = {}
  <2>1. C = {}
    BY <1>2, <1>4
  <2>. QED  BY <1>1, <1>4, <2>1 DEF Forward
<1>5. CASE R # {}
  <2>1. PICK x : Least(R, x)
    BY <1>5, HasLeast DEF UpSet
  <2>2. PICK c \in Child : \E i \in DOMAIN children[c] : x = children[c][i]
    BY <2>1, EntriesAre DEF Least, UpSet
  <2>3. PICK i \in DOMAIN children[c] : x = children[c][i]
    BY <2>2
  <2>4. c \in C /\ m.pos[c] \in DOMAIN children[c] /\ m.pos[c] <= i /\ At(c) \in R
    BY <2>1, <2>3 DEF FirstIn, Least
  <2>5. At(c) = x
    <3>1. CASE m.pos[c] = i
      BY <2>3, <3>1
    <3>2. CASE m.pos[c] # i
      <4>1. m.pos[c] \in Nat /\ i \in Nat
        BY <2>4 DEF ChildrenSound
      <4>2. Before(At(c), x)
        BY <2>3, <2>4, <3>2, <4>1 DEF ChildrenSound
      <4>3. x \in Entries /\ At(c) \in Entries /\ (x = At(c) \/ Before(x, At(c)))
        BY <1>2, <2>1, <2>4 DEF Least, UpSet
      <4>. QED  BY <4>2, <4>3, Order
    <3>. QED  BY <3>1, <3>2
  <2>6. Smallest(c)
    <3>. SUFFICES ASSUME NEW d \in C \ {c} PROVE Before(At(c), At(d))
      OBVIOUS
    <3>1. At(d) \in R /\ m.pos[d] \in DOMAIN children[d] /\ d \in Child
      BY <1>2 DEF FirstIn
    <3>2. At(d) # x
      BY <2>4, <2>5, <3>1 DEF ChildrenSound
    <3>. QED  BY <2>1, <2>5, <3>1, <3>2 DEF Least
  <2>. HIDE DEF Smallest
  <2>7. n \in C /\ Smallest(n)
    BY <2>4, <2>6
  <2>. HIDE DEF n
  <2>. USE DEF Smallest
  <2>8. At(n) = x
    <3>1. CASE n = c
      BY <2>5, <3>1
    <3>2. CASE n # c
      <4>1. c \in C \ {n} /\ n \in C \ {c}
        BY <2>4, <2>7, <3>2
      <4>2. Before(At(n), At(c)) /\ Before(At(c), At(n))
        BY <2>6, <2>7, <4>1
      <4>3. At(n) \in Entries /\ At(c) \in Entries
        BY <1>2, <2>4, <2>7
      <4>. QED  BY <4>2, <4>3, Order
    <3>. QED  BY <3>1, <3>2
  <2>. DEFINE r == [m EXCEPT !.current = n]
  <2>. HIDE DEF C, At
  <2>9. /\ n \in Child /\ n \in Nat /\ m.pos[n] # 0
    BY <1>3, <2>7 DEF C
  <2>10. /\ r \in [pos : [Child -> Nat], current : Nat, direction : {"forward"}]
         /\ r.pos = m.pos /\ r.current = n
    BY <2>9
  <2>11. MergedKey(r) = x
    BY <2>8, <2>10 DEF MergedKey, At
  <2>. HIDE DEF r
  <2>12. Forward(r, R)
    BY <1>5, <2>1, <2>9, <2>10, <2>11 DEF Forward
  <2>. QED  BY <1>1, <2>12 DEF r
<1>. QED  BY <1>4, <1>5

\* FindLargest makes the one with the last entry.
LEMMA FindLargestIs ==
  ASSUME Bounds, ChildrenSound, NEW L, DownSet(L),
         NEW m \in [pos : [Child -> Nat], current : Nat, direction : {"reverse"}],
         \A c \in Child : LastIn(children[c], L, m.pos[c])
  PROVE  Backward(FindLargest(m), L)
<1>. DEFINE C == {c \in Child : m.pos[c] # 0}
            At(c) == children[c][m.pos[c]]
            Largest(c) == \A d \in C \ {c} : Before(At(d), At(c))
            n == IF C = {} THEN 0 ELSE CHOOSE c \in C : Largest(c)
<1>1. FindLargest(m) = [m EXCEPT !.current = n]
  BY DEF FindLargest
<1>2. \A c \in C : At(c) \in L /\ At(c) \in Entries
  BY DEF LastIn, DownSet
<1>3. C \subseteq Child /\ Child \subseteq Nat /\ 0 \notin Child
  BY DEF Child, Bounds
<1>4. CASE L = {}
  <2>1. C = {}
    BY <1>2, <1>4
  <2>. QED  BY <1>1, <1>4, <2>1 DEF Backward
<1>5. CASE L # {}
  <2>1. PICK x : Greatest(L, x)
    BY <1>5, HasGreatest DEF DownSet
  <2>2. PICK c \in Child : \E i \in DOMAIN children[c] : x = children[c][i]
    BY <2>1, EntriesAre DEF Greatest, DownSet
  <2>3. PICK i \in DOMAIN children[c] : x = children[c][i]
    BY <2>2
  <2>. i \in Nat \ {0}
    BY DEF ChildrenSound
  <2>4. c \in C /\ m.pos[c] \in DOMAIN children[c] /\ i <= m.pos[c] /\ At(c) \in L
    BY <2>1, <2>3 DEF LastIn, Greatest
  <2>5. At(c) = x
    <3>1. CASE m.pos[c] = i
      BY <2>3, <3>1
    <3>2. CASE m.pos[c] # i
      <4>1. m.pos[c] \in Nat /\ i \in Nat
        BY <2>4 DEF ChildrenSound
      <4>2. Before(x, At(c))
        BY <2>3, <2>4, <3>2, <4>1 DEF ChildrenSound
      <4>3. x \in Entries /\ At(c) \in Entries /\ (x = At(c) \/ Before(At(c), x))
        BY <1>2, <2>1, <2>4 DEF Greatest, DownSet
      <4>. QED  BY <4>2, <4>3, Order
    <3>. QED  BY <3>1, <3>2
  <2>6. Largest(c)
    <3>. SUFFICES ASSUME NEW d \in C \ {c} PROVE Before(At(d), At(c))
      OBVIOUS
    <3>1. At(d) \in L /\ m.pos[d] \in DOMAIN children[d] /\ d \in Child
      BY <1>2 DEF LastIn
    <3>2. At(d) # x
      BY <2>4, <2>5, <3>1 DEF ChildrenSound
    <3>. QED  BY <2>1, <2>5, <3>1, <3>2 DEF Greatest
  <2>. HIDE DEF Largest
  <2>7. n \in C /\ Largest(n)
    BY <2>4, <2>6
  <2>. HIDE DEF n
  <2>. USE DEF Largest
  <2>8. At(n) = x
    <3>1. CASE n = c
      BY <2>5, <3>1
    <3>2. CASE n # c
      <4>1. c \in C \ {n} /\ n \in C \ {c}
        BY <2>4, <2>7, <3>2
      <4>2. Before(At(c), At(n)) /\ Before(At(n), At(c))
        BY <2>6, <2>7, <4>1
      <4>3. At(n) \in Entries /\ At(c) \in Entries
        BY <1>2, <2>4, <2>7
      <4>. QED  BY <4>2, <4>3, Order
    <3>. QED  BY <3>1, <3>2
  <2>. DEFINE r == [m EXCEPT !.current = n]
  <2>. HIDE DEF C, At
  <2>9. /\ n \in Child /\ n \in Nat /\ m.pos[n] # 0
    BY <1>3, <2>7 DEF C
  <2>10. /\ r \in [pos : [Child -> Nat], current : Nat, direction : {"reverse"}]
         /\ r.pos = m.pos /\ r.current = n
    BY <2>9
  <2>11. MergedKey(r) = x
    BY <2>8, <2>10 DEF MergedKey, At
  <2>. HIDE DEF r
  <2>12. Backward(r, L)
    BY <1>5, <2>1, <2>9, <2>10, <2>11 DEF Backward
  <2>. QED  BY <1>1, <2>12 DEF r
<1>. QED  BY <1>4, <1>5

-----------------------------------------------------------------------------
(* The moves of the merged iterator.                                        *)

After(e)  == {d \in Entries : Before(e, d)}
Prior(e)  == {d \in Entries : Before(d, e)}
AtLeast(e) == {d \in Entries : ~Before(d, e)}

\* Cutting the entries at one of them, or at a target, leaves sets of these kinds.
LEMMA CutsAre ==
  ASSUME Bounds, ChildrenSound, NEW e, e.key \in Int, e.seq \in Int
  PROVE  UpSet(After(e)) /\ DownSet(Prior(e)) /\ UpSet(AtLeast(e))
<1>1. \A a \in Entries : a.key \in Int /\ a.seq \in Int
  BY EntriesAre DEF Entry, UserKey, Bounds
<1>. QED  BY <1>1 DEF UpSet, DownSet, After, Prior, AtLeast, Before

\* Seek in a child goes to its first entry at or after the target.
LEMMA SeekIs ==
  ASSUME Bounds, ChildrenSound, NEW c \in Child, NEW e
  PROVE  FirstIn(children[c], AtLeast(e), SeekIn(children[c], e))
<1>. DEFINE list == children[c]
            P == {p \in DOMAIN list : ~Before(list[p], e)}
<1>1. DOMAIN list \subseteq Nat \ {0} /\ \A i \in DOMAIN list : list[i] \in Entries
  BY EntriesAre DEF ChildrenSound
<1>2. \A i \in DOMAIN list : i \in P <=> list[i] \in AtLeast(e)
  BY <1>1 DEF AtLeast
<1>3. CASE P = {}
  <2>1. SeekIn(list, e) = 0
    BY <1>3 DEF SeekIn
  <2>. QED  BY <1>2, <1>3, <2>1 DEF FirstIn
<1>4. CASE P # {}
  <2>1. SeekIn(list, e) = CHOOSE p \in P : \A q \in P : p <= q
    BY <1>4 DEF SeekIn
  <2>. HIDE DEF P
  <2>2. P \subseteq Nat
    BY <1>1 DEF P
  <2>3. SeekIn(list, e) \in P /\ \A q \in P : SeekIn(list, e) <= q
    BY <1>4, <2>1, <2>2, LeastNatural
  <2>4. P \subseteq DOMAIN list
    BY DEF P
  <2>. QED  BY <1>1, <1>2, <2>2, <2>3, <2>4 DEF FirstIn
<1>. QED  BY <1>3, <1>4

\* SeekToFirst has all the entries to go.
LEMMA SeekToFirstIs ==
  ASSUME Bounds, ChildrenSound
  PROVE  Forward(MergedSeekToFirst, Entries)
<1>. DEFINE m == [pos |-> [c \in Child |-> IF children[c] = <<>> THEN 0 ELSE 1],
                  current |-> 0, direction |-> "forward"]
<1>1. m \in [pos : [Child -> Nat], current : Nat, direction : {"forward"}]
  OBVIOUS
<1>2. ASSUME NEW c \in Child PROVE FirstIn(children[c], Entries, m.pos[c])
  <2>1. children[c] \in Seq(Entry) /\ \A i \in DOMAIN children[c] : children[c][i] \in Entries
    BY EntriesAre DEF ChildrenSound
  <2>2. CASE children[c] = <<>>
    <3>1. DOMAIN children[c] = {} /\ m.pos[c] = 0
      BY <2>2
    <3>. QED  BY <3>1 DEF FirstIn
  <2>3. CASE children[c] # <<>>
    <3>1. DOMAIN children[c] = 1 .. Len(children[c]) /\ Len(children[c]) \in Nat \ {0}
      BY <2>1, <2>3
    <3>. QED  BY <2>1, <2>3, <3>1 DEF FirstIn
  <2>. QED  BY <2>2, <2>3
<1>3. UpSet(Entries)
  BY DEF UpSet
<1>. HIDE DEF m
<1>4. Forward(FindSmallest(m), Entries)
  BY <1>1, <1>2, <1>3, FindSmallestIs
<1>. QED  BY <1>4 DEF MergedSeekToFirst, m

\* And so has SeekToLast, backwards.
LEMMA SeekToLastIs ==
  ASSUME Bounds, ChildrenSound
  PROVE  Backward(MergedSeekToLast, Entries)
<1>. DEFINE m == [pos |-> [c \in Child |-> Len(children[c])],
                  current |-> 0, direction |-> "reverse"]
<1>0. \A c \in Child : children[c] \in Seq(Entry)
  BY DEF ChildrenSound
<1>1. m \in [pos : [Child -> Nat], current : Nat, direction : {"reverse"}]
  BY <1>0
<1>2. ASSUME NEW c \in Child PROVE LastIn(children[c], Entries, m.pos[c])
  <2>1. /\ DOMAIN children[c] = 1 .. Len(children[c]) /\ Len(children[c]) \in Nat
        /\ \A i \in DOMAIN children[c] : children[c][i] \in Entries
    BY <1>0, EntriesAre
  <2>. QED  BY <2>1 DEF LastIn
<1>3. DownSet(Entries)
  BY DEF DownSet
<1>. HIDE DEF m
<1>4. Backward(FindLargest(m), Entries)
  BY <1>1, <1>2, <1>3, FindLargestIs
<1>. QED  BY <1>4 DEF MergedSeekToLast, m

\* Seek has those at or after the target to go.
LEMMA MergedSeekIs ==
  ASSUME Bounds, ChildrenSound, NEW e, e.key \in Int, e.seq \in Int
  PROVE  Forward(MergedSeek(e), AtLeast(e))
<1>. DEFINE m == [pos |-> [c \in Child |-> SeekIn(children[c], e)],
                  current |-> 0, direction |-> "forward"]
<1>1. \A c \in Child : FirstIn(children[c], AtLeast(e), SeekIn(children[c], e))
  BY SeekIs
<1>2. m \in [pos : [Child -> Nat], current : Nat, direction : {"forward"}]
  BY <1>1 DEF FirstIn
<1>3. \A c \in Child : FirstIn(children[c], AtLeast(e), m.pos[c])
  BY <1>1
<1>. HIDE DEF m
<1>4. Forward(FindSmallest(m), AtLeast(e))
  BY <1>2, <1>3, CutsAre, FindSmallestIs
<1>. QED  BY <1>4 DEF MergedSeek, m

\* Where the merged iterator is, when it has entries to go.
LEMMA CurrentIs ==
  ASSUME Bounds, ChildrenSound, NEW m, NEW R, R # {}, Forward(m, R) \/ Backward(m, R)
  PROVE  /\ m.current \in Child /\ m.pos \in [Child -> Nat]
         /\ m.pos[m.current] \in DOMAIN children[m.current]
         /\ MergedKey(m) = children[m.current][m.pos[m.current]]
         /\ MergedKey(m) \in R /\ MergedKey(m) \in Entries
         /\ MergedKey(m).key \in Int /\ MergedKey(m).seq \in Int
         /\ \A c \in Child \ {m.current} :
              \A i \in DOMAIN children[c] : children[c][i] # MergedKey(m)
         /\ m \in [pos : [Child -> Nat], current : Nat, direction : {"forward", "reverse"}]
<1>1. /\ m.current \in Child /\ m.pos \in [Child -> Nat] /\ m.pos[m.current] # 0
      /\ MergedKey(m) \in R /\ MergedKey(m) \in Entries
      /\ m \in [pos : [Child -> Nat], current : Nat, direction : {"forward", "reverse"}]
  BY DEF Forward, Backward, Least, Greatest, UpSet, DownSet
<1>2. m.pos[m.current] \in DOMAIN children[m.current]
  BY <1>1 DEF Forward, Backward, FirstIn, LastIn
<1>3. MergedKey(m).key \in Int /\ MergedKey(m).seq \in Int
  BY <1>1, EntriesAre DEF Entry, UserKey, Bounds
<1>4. MergedKey(m) = children[m.current][m.pos[m.current]]
  BY DEF MergedKey
<1>5. \A c \in Child \ {m.current} : \A i \in DOMAIN children[c] : children[c][i] # MergedKey(m)
  BY <1>1, <1>2, <1>4 DEF ChildrenSound
<1>. QED  BY <1>1, <1>2, <1>3, <1>4, <1>5

\* A child is on its first entry after E.
LEMMA NextInIs ==
  ASSUME Bounds, ChildrenSound, NEW c \in Child, NEW p \in DOMAIN children[c]
  PROVE  FirstIn(children[c], After(children[c][p]), NextIn(children[c], p))
<1>. DEFINE list == children[c]
            e == list[p]
<1>1. /\ DOMAIN list = 1 .. Len(list) /\ Len(list) \in Nat
      /\ \A i \in DOMAIN list : list[i] \in Entries
  BY EntriesAre DEF ChildrenSound
<1>2. \A i, j \in DOMAIN list : i < j => Before(list[i], list[j])
  BY DEF ChildrenSound
<1>3. \A i \in DOMAIN list : list[i] \in After(e) <=> i > p
  <2>. TAKE i \in DOMAIN list
  <2>1. i \in Nat /\ p \in Nat
    BY <1>1
  <2>2. CASE i > p
    BY <1>1, <1>2, <2>1, <2>2 DEF After
  <2>3. CASE i = p
    BY <1>1, <2>3, Order DEF After
  <2>4. CASE i < p
    <3>1. Before(list[i], list[p]) /\ list[i] \in Entries /\ list[p] \in Entries
      BY <1>1, <1>2, <2>4
    <3>. QED  BY <2>1, <2>4, <3>1, Order DEF After
  <2>. QED  BY <2>1, <2>2, <2>3, <2>4
<1>. HIDE DEF list, e
<1>4. FirstIn(list, After(e), NextIn(list, p))
  <2>1. p \in 1 .. Len(list)
    BY <1>1 DEF list
  <2>. QED  BY <1>1, <1>3, <2>1 DEF FirstIn, NextIn
<1>. QED  BY <1>4 DEF list, e

\* A child is on its last entry before E.
LEMMA StepBackIs ==
  ASSUME Bounds, ChildrenSound, NEW c \in Child, NEW p \in DOMAIN children[c]
  PROVE  LastIn(children[c], Prior(children[c][p]), p - 1)
<1>. DEFINE list == children[c]
            e == list[p]
<1>1. /\ DOMAIN list = 1 .. Len(list) /\ Len(list) \in Nat
      /\ \A i \in DOMAIN list : list[i] \in Entries
  BY EntriesAre DEF ChildrenSound
<1>2. \A i, j \in DOMAIN list : i < j => Before(list[i], list[j])
  BY DEF ChildrenSound
<1>3. \A i \in DOMAIN list : list[i] \in Prior(e) <=> i < p
  <2>. TAKE i \in DOMAIN list
  <2>1. i \in Nat /\ p \in Nat
    BY <1>1
  <2>2. CASE i < p
    BY <1>1, <1>2, <2>1, <2>2 DEF Prior
  <2>3. CASE i = p
    BY <1>1, <2>3, Order DEF Prior
  <2>4. CASE i > p
    <3>1. Before(list[p], list[i]) /\ list[i] \in Entries /\ list[p] \in Entries
      BY <1>1, <1>2, <2>4
    <3>. QED  BY <2>1, <2>4, <3>1, Order DEF Prior
  <2>. QED  BY <2>1, <2>2, <2>3, <2>4
<1>. HIDE DEF list, e
<1>4. LastIn(list, Prior(e), p - 1)
  <2>1. p \in 1 .. Len(list)
    BY <1>1 DEF list
  <2>. QED  BY <1>1, <1>3, <2>1 DEF LastIn
<1>. QED  BY <1>4 DEF list, e

\* Next goes to the first entry after the one it is on, whatever way it was going.
LEMMA NextIs ==
  ASSUME Bounds, ChildrenSound, NEW m, NEW R, R # {}, Forward(m, R) \/ Backward(m, R)
  PROVE  Forward(MergedNext(m), After(MergedKey(m)))
<1>. DEFINE e == MergedKey(m)
            pos == [c \in Child |-> IF c = m.current THEN NextIn(children[c], m.pos[c])
                                    ELSE AfterKey(m, c)]
<1>1. /\ m.current \in Child /\ m.pos \in [Child -> Nat]
      /\ m.pos[m.current] \in DOMAIN children[m.current]
      /\ e = children[m.current][m.pos[m.current]]
      /\ e \in R /\ e \in Entries /\ e.key \in Int /\ e.seq \in Int
      /\ \A c \in Child \ {m.current} : \A i \in DOMAIN children[c] : children[c][i] # e
      /\ m \in [pos : [Child -> Nat], current : Nat, direction : {"forward", "reverse"}]
  BY CurrentIs
<1>2. ASSUME NEW c \in Child PROVE FirstIn(children[c], After(e), pos[c])
  <2>1. CASE c = m.current
    BY <1>1, <2>1, NextInIs
  <2>2. CASE c # m.current /\ Forward(m, R)
    <3>1. pos[c] = m.pos[c] /\ FirstIn(children[c], R, m.pos[c])
      BY <2>2 DEF AfterKey, Forward
    <3>2. \A i \in DOMAIN children[c] : children[c][i] \in Entries /\ children[c][i] # e
      BY <1>1, <2>2, EntriesAre
    <3>3. \A d \in Entries \ {e} : d \in R <=> d \in After(e)
      BY <1>1, <2>2 DEF Forward, UpSet, Least, After
    <3>4. \A i \in DOMAIN children[c] : children[c][i] \in R <=> children[c][i] \in After(e)
      BY <3>2, <3>3
    <3>. HIDE DEF pos, e
    <3>. QED  BY <3>1, <3>4 DEF FirstIn
  <2>3. CASE c # m.current /\ Backward(m, R)
    <3>. DEFINE p == SeekIn(children[c], e)
    <3>1. FirstIn(children[c], AtLeast(e), p)
      BY SeekIs
    <3>2. \A i \in DOMAIN children[c] : children[c][i] \in Entries /\ children[c][i] # e
      BY <1>1, <2>3, EntriesAre
    <3>3. \A i \in DOMAIN children[c] :
            children[c][i] \in AtLeast(e) <=> children[c][i] \in After(e)
      BY <1>1, <3>2, Order DEF AtLeast, After
    <3>4. m.direction = "reverse"
      BY <2>3 DEF Backward
    <3>5. pos[c] = p
      <4>1. p # 0 => p \in DOMAIN children[c]
        BY <3>1 DEF FirstIn
      <4>. QED  BY <2>3, <3>2, <3>4, <4>1 DEF AfterKey
    <3>. HIDE DEF pos, p, e
    <3>. QED  BY <3>1, <3>3, <3>5 DEF FirstIn
  <2>. QED  BY <2>1, <2>2, <2>3
<1>. DEFINE n == [m EXCEPT !.direction = "forward", !.pos = pos]
<1>3. n \in [pos : [Child -> Nat], current : Nat, direction : {"forward"}] /\ n.pos = pos
  <2>1. pos \in [Child -> Nat]
    BY <1>2 DEF FirstIn
  <2>. QED  BY <1>1, <2>1
<1>. HIDE DEF n, pos
<1>4. Forward(FindSmallest(n), After(e))
  BY <1>1, <1>2, <1>3, CutsAre, FindSmallestIs
<1>. QED  BY <1>4 DEF n, pos, MergedNext

\* And Prev to the last one before it.
LEMMA PrevIs ==
  ASSUME Bounds, ChildrenSound, NEW m, NEW R, R # {}, Forward(m, R) \/ Backward(m, R)
  PROVE  Backward(MergedPrev(m), Prior(MergedKey(m)))
<1>. DEFINE e == MergedKey(m)
            pos == [c \in Child |-> IF c = m.current THEN m.pos[c] - 1 ELSE BeforeKey(m, c)]
<1>1. /\ m.current \in Child /\ m.pos \in [Child -> Nat]
      /\ m.pos[m.current] \in DOMAIN children[m.current]
      /\ e = children[m.current][m.pos[m.current]]
      /\ e \in R /\ e \in Entries /\ e.key \in Int /\ e.seq \in Int
      /\ \A c \in Child \ {m.current} : \A i \in DOMAIN children[c] : children[c][i] # e
      /\ m \in [pos : [Child -> Nat], current : Nat, direction : {"forward", "reverse"}]
  BY CurrentIs
<1>2. ASSUME NEW c \in Child PROVE LastIn(children[c], Prior(e), pos[c])
  <2>1. CASE c = m.current
    BY <1>1, <2>1, StepBackIs
  <2>2. CASE c # m.current /\ Backward(m, R)
    <3>1. pos[c] = m.pos[c] /\ LastIn(children[c], R, m.pos[c])
      BY <2>2 DEF BeforeKey, Backward
    <3>2. \A i \in DOMAIN children[c] : children[c][i] \in Entries /\ children[c][i] # e
      BY <1>1, <2>2, EntriesAre
    <3>3. \A d \in Entries \ {e} : d \in R <=> d \in Prior(e)
      BY <1>1, <2>2 DEF Backward, DownSet, Greatest, Prior
    <3>4. \A i \in DOMAIN children[c] : children[c][i] \in R <=> children[c][i] \in Prior(e)
      BY <3>2, <3>3
    <3>. HIDE DEF pos, e
    <3>. QED  BY <3>1, <3>4 DEF LastIn
  <2>3. CASE c # m.current /\ Forward(m, R)
    <3>. DEFINE p == SeekIn(children[c], e)
                list == children[c]
    <3>1. FirstIn(list, AtLeast(e), p)
      BY SeekIs
    <3>2. \A i \in DOMAIN list : list[i] \in Entries /\ list[i] # e
      BY <1>1, <2>3, EntriesAre
    <3>3. \A i \in DOMAIN list : list[i] \in AtLeast(e) <=> ~(list[i] \in Prior(e))
      BY <3>2 DEF AtLeast, Prior
    <3>4. \A i, j \in DOMAIN list : i < j /\ list[j] \in Prior(e) => list[i] \in Prior(e)
      <4>1. \A i, j \in DOMAIN list : i < j => Before(list[i], list[j])
        BY DEF ChildrenSound
      <4>. HIDE DEF list
      <4>. QED  BY <1>1, <3>2, <4>1, Order DEF Prior
    <3>5. m.direction = "forward"
      BY <2>3 DEF Forward
    <3>6. pos[c] = IF p # 0 THEN p - 1 ELSE Len(list)
      BY <2>3, <3>5 DEF BeforeKey
    <3>7. DOMAIN list = 1 .. Len(list) /\ Len(list) \in Nat
      BY DEF ChildrenSound
    <3>. HIDE DEF pos, p, e, list
    <3>8. LastIn(list, Prior(e), pos[c])
      BY <3>1, <3>3, <3>4, <3>6, <3>7 DEF FirstIn, LastIn
    <3>. QED  BY <3>8 DEF list
  <2>. QED  BY <2>1, <2>2, <2>3
<1>. DEFINE n == [m EXCEPT !.direction = "reverse", !.pos = pos]
<1>3. n \in [pos : [Child -> Nat], current : Nat, direction : {"reverse"}] /\ n.pos = pos
  <2>1. pos \in [Child -> Nat]
    BY <1>2 DEF LastIn
  <2>. QED  BY <1>1, <2>1
<1>. HIDE DEF n, pos
<1>4. Backward(FindLargest(n), Prior(e))
  BY <1>1, <1>2, <1>3, CutsAre, FindLargestIs
<1>. QED  BY <1>4 DEF n, pos, MergedPrev

\* The entries are finitely many: as many as their sequence numbers.
LEMMA EntriesFinite ==
  ASSUME Bounds, ChildrenSound
  PROVE  IsFiniteSet(Entries) /\ Cardinality(Entries) \in Nat
<1>. DEFINE f == [e \in Entries |-> e.seq]
<1>1. \A a, b \in Entries : a.seq \in 1 .. NumEntries /\ (a.seq = b.seq => a = b)
  BY EntriesAre DEF Entry
<1>2. f \in Injection(Entries, 1 .. NumEntries)
  <2>1. f \in [Entries -> 1 .. NumEntries]
    BY <1>1
  <2>2. \A a, b \in Entries : f[a] = f[b] => a = b
    BY <1>1
  <2>. HIDE DEF f
  <2>. QED  BY <2>1, <2>2 DEF Injection, IsInjective
<1>3. IsFiniteSet(1 .. NumEntries)
  BY FS_Interval DEF Bounds
<1>4. IsFiniteSet(Entries)
  <2>. HIDE DEF f
  <2>. QED  BY <1>2, <1>3, FS_Injection
<1>. QED  BY <1>4, FS_CardinalityType

\* An entry passed is one less.
LEMMA OneLess ==
  ASSUME Bounds, ChildrenSound, NEW R, R \subseteq Entries, NEW e \in R
  PROVE  /\ Cardinality(R) \in Nat /\ Cardinality(R \ {e}) \in Nat
         /\ Cardinality(R \ {e}) = Cardinality(R) - 1
         /\ Cardinality(R) <= Cardinality(Entries)
<1>1. IsFiniteSet(R) /\ Cardinality(R) <= Cardinality(Entries)
  BY EntriesFinite, FS_Subset
<1>. QED  BY <1>1, FS_CardinalityType, FS_RemoveElement

-----------------------------------------------------------------------------
(* What is to be shown.                                                     *)

\* The newest entry of its key, at the sequence number, and no deletion.
Current(d) ==
  /\ d.type = "value" /\ d.seq <= sequence
  /\ \A c \in Entries : c.key = d.key /\ c.seq <= sequence => c.seq <= d.seq

Item(d) == [key |-> d.key, value |-> d.seq]

\* They are what the store has at the sequence number.
LEMMA VisibleAre == Visible = {Item(d) : d \in {d \in Entries : Current(d)}}
BY DEF Visible, Current, Item

\* There is one for each key.
LEMMA CurrentsDiffer ==
  ASSUME Bounds, ChildrenSound, NEW a \in Entries, NEW b \in Entries,
         Current(a), Current(b), a.key = b.key
  PROVE  a = b
<1>1. a.seq \in Int /\ b.seq \in Int /\ (a.seq = b.seq => a = b)
  BY EntriesAre DEF Entry
<1>. QED  BY <1>1 DEF Current

\* The first of the items is that of the first entry.
LEMMA FirstIs ==
  ASSUME Bounds, ChildrenSound, NEW W, W \subseteq Entries, \A d \in W : Current(d)
  PROVE  /\ W = {} => View!First({Item(d) : d \in W}) = {}
         /\ \A x : Least(W, x) => View!First({Item(d) : d \in W}) = {Item(x)}
<1>. DEFINE S == {Item(d) : d \in W}
<1>1. W = {} => View!First(S) = {}
  BY DEF View!First
<1>2. ASSUME NEW x, Least(W, x) PROVE View!First(S) = {Item(x)}
  <2>1. x \in W /\ x \in Entries
    BY <1>2 DEF Least
  <2>2. \A d \in W : d # x => x.key < d.key
    <3>. SUFFICES ASSUME NEW d \in W, d # x PROVE x.key < d.key
      OBVIOUS
    <3>1. d \in Entries /\ Before(x, d) /\ x.key # d.key
      BY <1>2, <2>1, CurrentsDiffer DEF Least
    <3>2. x.key \in Int /\ d.key \in Int
      BY <2>1, <3>1, EntriesAre DEF Entry, UserKey, Bounds
    <3>. QED  BY <3>1, <3>2 DEF Before
  <2>3. Item(x) \in S /\ \A c \in S \ {Item(x)} : ItemLess(Item(x), c)
    BY <2>1, <2>2 DEF Item, ItemLess
  <2>4. ASSUME NEW c \in S, c # Item(x) PROVE ~ItemLess(c, Item(x))
    <3>1. PICK d \in W : c = Item(d) /\ d # x
      BY <2>4
    <3>2. x.key < d.key /\ x.key \in Int /\ d.key \in Int
      BY <2>1, <2>2, <3>1, EntriesAre DEF Entry, UserKey, Bounds
    <3>. QED  BY <3>1, <3>2 DEF Item, ItemLess
  <2>. HIDE DEF S
  <2>. QED  BY <2>3, <2>4 DEF View!First
<1>. QED  BY <1>1, <1>2

\* And the last one that of the last.
LEMMA LastIs ==
  ASSUME Bounds, ChildrenSound, NEW W, W \subseteq Entries, \A d \in W : Current(d)
  PROVE  /\ W = {} => View!Last({Item(d) : d \in W}) = {}
         /\ \A x : Greatest(W, x) => View!Last({Item(d) : d \in W}) = {Item(x)}
<1>. DEFINE S == {Item(d) : d \in W}
<1>1. W = {} => View!Last(S) = {}
  BY DEF View!Last
<1>2. ASSUME NEW x, Greatest(W, x) PROVE View!Last(S) = {Item(x)}
  <2>1. x \in W /\ x \in Entries
    BY <1>2 DEF Greatest
  <2>2. \A d \in W : d # x => d.key < x.key
    <3>. SUFFICES ASSUME NEW d \in W, d # x PROVE d.key < x.key
      OBVIOUS
    <3>1. d \in Entries /\ Before(d, x) /\ x.key # d.key
      BY <1>2, <2>1, CurrentsDiffer DEF Greatest
    <3>2. x.key \in Int /\ d.key \in Int
      BY <2>1, <3>1, EntriesAre DEF Entry, UserKey, Bounds
    <3>. QED  BY <3>1, <3>2 DEF Before
  <2>3. Item(x) \in S /\ \A c \in S \ {Item(x)} : ItemLess(c, Item(x))
    BY <2>1, <2>2 DEF Item, ItemLess
  <2>4. ASSUME NEW c \in S, c # Item(x) PROVE ~ItemLess(Item(x), c)
    <3>1. PICK d \in W : c = Item(d) /\ d # x
      BY <2>4
    <3>2. d.key < x.key /\ x.key \in Int /\ d.key \in Int
      BY <2>1, <2>2, <3>1, EntriesAre DEF Entry, UserKey, Bounds
    <3>. QED  BY <3>1, <3>2 DEF Item, ItemLess
  <2>. HIDE DEF S
  <2>. QED  BY <2>3, <2>4 DEF View!Last
<1>. QED  BY <1>1, <1>2

-----------------------------------------------------------------------------
(* FindNextUserEntry.                                                       *)

Skipped(s, d) == s.skipping /\ \E k \in s.skip : d.key <= k

\* What is still to be shown, of the entries that are ahead.
Wanted(s, R) == {d \in R : Current(d) /\ ~Skipped(s, d)}

\* What the iterator skips is behind it or comes first; and of a key it does not skip, no
\* entry that the iterator sees is behind it.
PassInv(s, R) ==
  /\ Forward(s.merged, R)
  /\ s.skipping \in BOOLEAN
  /\ s.skipping => \E k \in Int : s.skip = {k} /\ \A d \in R : d.seq <= sequence => k <= d.key
  /\ \A d \in R, c \in Entries :
       d.seq <= sequence /\ c.seq <= sequence /\ c.key = d.key /\ ~Skipped(s, d) => c \in R

\* After its first entry an up-set has all the others.
LEMMA ForwardRest ==
  ASSUME Bounds, ChildrenSound, NEW R, NEW e, UpSet(R), Least(R, e)
  PROVE  After(e) = R \ {e} /\ e \in Entries /\ e \in R /\ R \subseteq Entries
<1>1. e \in R /\ e \in Entries /\ R \subseteq Entries
  BY DEF UpSet, Least
<1>2. \A d \in Entries : Before(e, d) <=> d \in R /\ d # e
  BY <1>1, Order DEF UpSet, Least
<1>. QED  BY <1>1, <1>2 DEF After

\* And before its last a down-set.
LEMMA BackwardRest ==
  ASSUME Bounds, ChildrenSound, NEW L, NEW e, DownSet(L), Greatest(L, e)
  PROVE  Prior(e) = L \ {e} /\ e \in Entries /\ e \in L /\ L \subseteq Entries
<1>1. e \in L /\ e \in Entries /\ L \subseteq Entries
  BY DEF DownSet, Greatest
<1>2. \A d \in Entries : Before(d, e) <=> d \in L /\ d # e
  BY <1>1, Order DEF DownSet, Greatest
<1>. QED  BY <1>1, <1>2 DEF Prior

\* An entry that the loop stops at is the first that is wanted.
LEMMA PassShows ==
  ASSUME Bounds, ChildrenSound, NEW s, NEW R, R # {}, PassInv(s, R), ToShow(s)
  PROVE  Least(Wanted(s, R), MergedKey(s.merged))
<1>. DEFINE e == MergedKey(s.merged)
<1>1. UpSet(R) /\ Least(R, e) /\ e \in R /\ R \subseteq Entries
  BY DEF PassInv, Forward, UpSet, Least
<1>2. e.seq <= sequence /\ e.type = "value" /\ ~Skipped(s, e)
  BY DEF ToShow, Skipped
<1>3. ASSUME NEW c \in Entries, c.key = e.key, c.seq <= sequence PROVE c.seq <= e.seq
  <2>1. c \in R
    BY <1>1, <1>2, <1>3 DEF PassInv
  <2>2. c = e \/ Before(e, c)
    BY <1>1, <2>1 DEF Least
  <2>3. c.key \in Int /\ e.key \in Int /\ c.seq \in Int /\ e.seq \in Int
    BY <1>1, EntriesAre DEF Entry, UserKey, Bounds
  <2>. QED  BY <1>3, <2>2, <2>3 DEF Before
<1>4. Current(e)
  BY <1>2, <1>3 DEF Current
<1>. HIDE DEF e
<1>5. Least(Wanted(s, R), e)
  BY <1>1, <1>2, <1>4 DEF Least, Wanted
<1>. QED  BY <1>5 DEF e

\* One that it passes is not wanted, and what it remembers of it hides what it should.
LEMMA PassKeeps ==
  ASSUME Bounds, ChildrenSound, NEW s, NEW R, R # {}, PassInv(s, R), ~ToShow(s)
  PROVE  /\ PassInv(PassEntry(s), R \ {MergedKey(s.merged)})
         /\ Wanted(PassEntry(s), R \ {MergedKey(s.merged)}) = Wanted(s, R)
         /\ MergedKey(s.merged) \in R
<1>. DEFINE e == MergedKey(s.merged)
            Q == R \ {e}
            t == PassEntry(s)
            hides == e.seq <= sequence /\ e.type = "deletion"
<1>1. /\ Forward(s.merged, R) /\ UpSet(R) /\ Least(R, e) /\ s.merged.current # 0
  BY DEF PassInv, Forward, Child
<1>2. After(e) = Q /\ e \in Entries /\ e \in R /\ R \subseteq Entries
  BY <1>1, ForwardRest
<1>3. /\ t.merged = MergedNext(s.merged) /\ t.skipping = (hides \/ s.skipping)
      /\ t.skip = IF hides THEN {e.key} ELSE s.skip
  BY <1>1 DEF PassEntry, Valid
<1>4. Forward(t.merged, Q)
  BY <1>1, <1>2, <1>3, NextIs
<1>5. /\ \A d \in Entries : d.key \in Int /\ d.seq \in Int /\ d.type \in {"value", "deletion"}
      /\ \A a, b \in Entries : a.seq = b.seq => a = b
      /\ sequence \in Nat
  <2>1. Entries \subseteq Entry /\ \A a, b \in Entries : a.seq = b.seq => a = b
    BY EntriesAre
  <2>2. \A d \in Entry : d.key \in Int /\ d.seq \in Int /\ d.type \in {"value", "deletion"}
    BY DEF Entry, UserKey, Bounds
  <2>. QED  BY <2>1, <2>2 DEF ChildrenSound
<1>6. \A d \in Q : d \in Entries /\ d # e /\ d \in R /\ Before(e, d) /\ e.key <= d.key
  <2>. TAKE d \in Q
  <2>1. d \in Entries /\ d # e /\ d \in R /\ Before(e, d)
    BY <1>2 DEF After
  <2>. QED  BY <1>2, <1>5, <2>1 DEF Before
<1>7. ~hides => e.seq > sequence \/ Skipped(s, e)
  BY <1>2, <1>5 DEF ToShow, Skipped
<1>8. s.skipping => \E k \in Int : s.skip = {k} /\ \A d \in R : d.seq <= sequence => k <= d.key
  BY DEF PassInv
<1>9. \A d \in R, c \in Entries :
        d.seq <= sequence /\ c.seq <= sequence /\ c.key = d.key /\ ~Skipped(s, d) => c \in R
  BY DEF PassInv
<1>. HIDE DEF t, Q, e
<1>10. CASE hides
  <2>1. t.skipping /\ t.skip = {e.key}
    BY <1>3, <1>10
  <2>2. \A d \in Entries : Skipped(t, d) <=> d.key <= e.key
    BY <2>1 DEF Skipped
  <2>3. \A d \in Q : d.seq <= sequence /\ Skipped(s, d) => Skipped(t, d)
    <3>. SUFFICES ASSUME NEW d \in Q, d.seq <= sequence, Skipped(s, d) PROVE d.key <= e.key
      BY <1>6, <2>2
    <3>1. PICK k \in Int : s.skip = {k} /\ \A c \in R : c.seq <= sequence => k <= c.key
      BY <1>8 DEF Skipped
    <3>2. d.key <= k /\ k <= e.key
      BY <1>2, <1>10, <3>1 DEF Skipped
    <3>. QED  BY <1>2, <1>5, <1>6, <3>2
  <2>4. ASSUME NEW d \in Q, NEW c \in Entries, d.seq <= sequence, c.seq <= sequence,
               c.key = d.key, ~Skipped(t, d)
        PROVE  c \in Q
    <3>1. c \in R /\ c.key # e.key
      BY <1>2, <1>5, <1>6, <1>9, <2>2, <2>3, <2>4
    <3>. QED  BY <3>1 DEF Q
  <2>5. PassInv(t, Q)
    <3>1. \E k \in Int : t.skip = {k} /\ \A d \in Q : d.seq <= sequence => k <= d.key
      BY <1>2, <1>5, <1>6, <2>1
    <3>. QED  BY <1>4, <2>1, <2>4, <3>1 DEF PassInv
  <2>6. ASSUME NEW d \in Wanted(s, R) PROVE d \in Wanted(t, Q)
    <3>1. d \in R /\ Current(d) /\ d \in Entries /\ d.type = "value" /\ d.seq <= sequence
      BY <1>2 DEF Wanted, Current
    <3>2. d # e /\ d \in Q
      BY <1>10, <3>1 DEF Q
    <3>3. d.key # e.key
      <4>. SUFFICES ASSUME d.key = e.key PROVE FALSE
        OBVIOUS
      <4>1. e.seq <= d.seq
        BY <1>2, <1>10, <3>1 DEF Current
      <4>2. d.seq < e.seq
        BY <1>2, <1>5, <1>6, <3>1, <3>2 DEF Before
      <4>. QED  BY <1>2, <1>5, <3>1, <4>1, <4>2
    <3>. QED  BY <1>2, <1>5, <1>6, <2>2, <3>1, <3>2, <3>3 DEF Wanted
  <2>7. ASSUME NEW d \in Wanted(t, Q) PROVE d \in Wanted(s, R)
    BY <1>6, <2>3, <2>7 DEF Wanted, Current
  <2>. QED  BY <1>2, <2>5, <2>6, <2>7 DEF t, Q, e
<1>11. CASE ~hides
  <2>1. t.skipping = s.skipping /\ t.skip = s.skip
    BY <1>3, <1>11 DEF PassInv
  <2>2. \A d : Skipped(t, d) <=> Skipped(s, d)
    BY <2>1 DEF Skipped
  <2>3. ASSUME NEW d \in Q, NEW c \in Entries, d.seq <= sequence, c.seq <= sequence,
               c.key = d.key, ~Skipped(t, d)
        PROVE  c \in Q
    <3>1. c \in R
      BY <1>6, <1>9, <2>2, <2>3
    <3>2. c # e
      <4>. SUFFICES ASSUME c = e PROVE FALSE
        OBVIOUS
      <4>1. Skipped(s, e)
        BY <1>2, <1>5, <1>7, <1>11, <2>3
      <4>. QED  BY <2>2, <2>3, <4>1 DEF Skipped
    <3>. QED  BY <3>1, <3>2 DEF Q
  <2>4. PassInv(t, Q)
    <3>1. t.skipping \in BOOLEAN
      BY <2>1 DEF PassInv
    <3>2. t.skipping => \E k \in Int : t.skip = {k} /\ \A d \in Q : d.seq <= sequence => k <= d.key
      BY <1>6, <1>8, <2>1
    <3>. QED  BY <1>4, <2>3, <3>1, <3>2 DEF PassInv
  <2>5. e \notin Wanted(s, R)
    BY <1>2, <1>5, <1>7, <1>11 DEF Wanted, Current
  <2>6. Wanted(t, Q) = Wanted(s, R)
    BY <2>2, <2>5 DEF Wanted, Q
  <2>. QED  BY <1>2, <2>4, <2>6 DEF t, Q, e
<1>. QED  BY <1>10, <1>11

\* The turns of the loop, one after another.
LEMMA PassTurns ==
  ASSUME NEW start, NEW N \in Nat
  PROVE  \E t : t = [n \in 0 .. N |-> IF n = 0 THEN start ELSE PassEntry(t[n - 1])]
<1>. DEFINE P(k) == \E t : t = [n \in 0 .. k |-> IF n = 0 THEN start ELSE PassEntry(t[n - 1])]
            D == {k \in Nat : P(k)}
<1>1. P(0)
  <2>1. PICK t : t = [n \in 0 .. 0 |-> start]
    OBVIOUS
  <2>2. t = [n \in 0 .. 0 |-> IF n = 0 THEN start ELSE PassEntry(t[n - 1])]
    BY <2>1
  <2>. QED  BY <2>2
<1>2. ASSUME NEW k \in Nat, P(k) PROVE P(k + 1)
  <2>1. PICK t : t = [n \in 0 .. k |-> IF n = 0 THEN start ELSE PassEntry(t[n - 1])]
    BY <1>2
  <2>2. PICK u : u = [n \in 0 .. k + 1 |-> IF n = k + 1 THEN PassEntry(t[k]) ELSE t[n]]
    OBVIOUS
  <2>3. \A n \in 0 .. k + 1 : u[n] = IF n = 0 THEN start ELSE PassEntry(u[n - 1])
    <3> TAKE n \in 0 .. k + 1
    <3>1. CASE n = 0
      BY <3>1, <2>1, <2>2
    <3>2. CASE n = k + 1
      <4>1. u[n] = PassEntry(t[k]) /\ n - 1 = k /\ u[k] = t[k] /\ n # 0
        BY <3>2, <2>2
      <4>. QED  BY <4>1
    <3>3. CASE n # 0 /\ n # k + 1
      <4>1. n \in 0 .. k /\ n - 1 \in 0 .. k /\ n - 1 # k + 1
        BY <3>3
      <4>2. u[n] = t[n] /\ u[n - 1] = t[n - 1]
        BY <4>1, <2>2
      <4>3. t[n] = PassEntry(t[n - 1])
        BY <4>1, <2>1, <3>3
      <4>. QED  BY <3>3, <4>2, <4>3
    <3>. QED  BY <3>1, <3>2, <3>3
  <2>4. u = [n \in 0 .. k + 1 |-> IF n = 0 THEN start ELSE PassEntry(u[n - 1])]
    BY <2>2, <2>3
  <2>. QED  BY <2>4
<1>3. N \in D
  <2>. HIDE DEF P
  <2>1. 0 \in D /\ \A k \in Nat : k \in D => k + 1 \in D
    BY <1>1, <1>2
  <2>. HIDE DEF D
  <2>. QED  BY <2>1, Induction
<1>. QED  BY <1>3

\* FindNextUserEntry is the last of the turns.
LEMMA FindNextEnds ==
  ASSUME NEW m, NEW skipping, NEW skip, Cardinality(Entries) \in Nat
  PROVE  \E t : /\ t[0] = [merged |-> m, skipping |-> skipping, skip |-> skip]
                /\ \A n \in 1 .. Cardinality(Entries) : t[n] = PassEntry(t[n - 1])
                /\ FindNextUserEntry(m, skipping, skip) =
                     [merged |-> t[Cardinality(Entries)].merged,
                      iter |-> [NotValid("forward") EXCEPT
                                  !.valid = Valid(t[Cardinality(Entries)].merged)]]
<1>. DEFINE start == [merged |-> m, skipping |-> skipping, skip |-> skip]
            N == Cardinality(Entries)
<1>1. \E t : t = [n \in 0 .. N |-> IF n = 0 THEN start ELSE PassEntry(t[n - 1])]
  BY PassTurns
<1>2. PICK t : /\ FindNextUserEntry(m, skipping, skip) =
                    [merged |-> t[N].merged,
                     iter |-> [NotValid("forward") EXCEPT !.valid = Valid(t[N].merged)]]
               /\ t = [n \in 0 .. N |-> IF n = 0 THEN start ELSE PassEntry(t[n - 1])]
  BY <1>1, Zenon DEF FindNextUserEntry
<1>3. t[0] = start /\ \A n \in 1 .. N : t[n] = PassEntry(t[n - 1])
  <2>. HIDE DEF start
  <2>1. \A n \in 0 .. N : t[n] = IF n = 0 THEN start ELSE PassEntry(t[n - 1])
    BY <1>2
  <2>. QED  BY <2>1
<1>. QED  BY <1>2, <1>3

\* The loop ends at the first entry that is to be shown, or passes them all.
LEMMA FindNextIs ==
  ASSUME Bounds, ChildrenSound, NEW m, NEW skipping, NEW skip, NEW R, NEW W,
         PassInv([merged |-> m, skipping |-> skipping, skip |-> skip], R),
         W = Wanted([merged |-> m, skipping |-> skipping, skip |-> skip], R)
  PROVE  \E n, v : /\ FindNextUserEntry(m, skipping, skip) =
                        [merged |-> n, iter |-> [NotValid("forward") EXCEPT !.valid = v]]
                   /\ v = (W # {})
                   /\ W # {} => /\ \E Q : Q # {} /\ Forward(n, Q)
                                /\ Least(W, MergedKey(n))
<1>. DEFINE N == Cardinality(Entries)
<1>1. N \in Nat /\ IsFiniteSet(Entries)
  BY EntriesFinite
<1>2. PICK t : /\ t[0] = [merged |-> m, skipping |-> skipping, skip |-> skip]
               /\ \A n \in 1 .. N : t[n] = PassEntry(t[n - 1])
               /\ FindNextUserEntry(m, skipping, skip) =
                     [merged |-> t[N].merged,
                      iter |-> [NotValid("forward") EXCEPT !.valid = Valid(t[N].merged)]]
  BY <1>1, FindNextEnds
<1>. HIDE DEF N
<1>. DEFINE Good(n, Q) == PassInv(t[n], Q) /\ Wanted(t[n], Q) = W
            Stops(n, Q) == Q = {} \/ ToShow(t[n])
            P(n) == \E Q : Good(n, Q) /\ (Stops(n, Q) \/ Cardinality(Q) + n <= N)
            D == {n \in Nat : n <= N => P(n)}
<1>3. P(0)
  <2>1. Good(0, R)
    BY <1>2
  <2>2. R \subseteq Entries
    BY DEF PassInv, Forward, UpSet
  <2>3. Cardinality(R) + 0 <= N
    BY <1>1, <2>2, FS_Subset, FS_CardinalityType DEF N
  <2>. QED  BY <2>1, <2>3
<1>4. ASSUME NEW n \in Nat, n + 1 <= N, P(n) PROVE P(n + 1)
  <2>1. PICK Q : Good(n, Q) /\ (Stops(n, Q) \/ Cardinality(Q) + n <= N)
    BY <1>4
  <2>2. t[n + 1] = PassEntry(t[n])
    <3>1. n + 1 \in 1 .. N /\ (n + 1) - 1 = n
      BY <1>1, <1>4
    <3>. QED  BY <1>2, <3>1
  <2>3. CASE Stops(n, Q)
    <3>1. Q = {} => ~Valid(t[n].merged)
      BY <2>1 DEF PassInv, Forward, Valid
    <3>2. t[n + 1] = t[n]
      BY <2>2, <2>3, <3>1 DEF PassEntry
    <3>. QED  BY <2>1, <2>3, <3>2
  <2>4. CASE ~Stops(n, Q)
    <3>. DEFINE e == MergedKey(t[n].merged)
    <3>1. PassInv(t[n + 1], Q \ {e}) /\ Wanted(t[n + 1], Q \ {e}) = W /\ e \in Q
      BY <2>1, <2>2, <2>4, PassKeeps
    <3>2. Q \subseteq Entries
      BY <2>1 DEF PassInv, Forward, UpSet
    <3>. HIDE DEF e
    <3>3. Cardinality(Q) \in Nat /\ Cardinality(Q \ {e}) = Cardinality(Q) - 1
      BY <3>1, <3>2, OneLess
    <3>4. Cardinality(Q \ {e}) + (n + 1) <= N
      BY <1>1, <2>1, <2>4, <3>3
    <3>. QED  BY <3>1, <3>4
  <2>. QED  BY <2>3, <2>4
<1>5. P(N)
  <2>. HIDE DEF P
  <2>1. \A n \in Nat : n \in D => n + 1 \in D
    BY <1>1, <1>4
  <2>2. 0 \in D
    BY <1>3
  <2>. HIDE DEF D
  <2>3. N \in D
    BY <1>1, <2>1, <2>2, Induction
  <2>. QED  BY <1>1, <2>3 DEF D
<1>6. PICK Q : Good(N, Q) /\ Stops(N, Q)
  <2>1. PICK Q : Good(N, Q) /\ (Stops(N, Q) \/ Cardinality(Q) + N <= N)
    BY <1>5
  <2>2. CASE Cardinality(Q) + N <= N
    <3>1. Q \subseteq Entries
      BY <2>1 DEF PassInv, Forward, UpSet
    <3>2. IsFiniteSet(Q) /\ Cardinality(Q) \in Nat
      BY <1>1, <3>1, FS_Subset, FS_CardinalityType
    <3>3. Cardinality(Q) = 0
      BY <1>1, <2>2, <3>2
    <3>4. Q = {}
      BY <3>2, <3>3, FS_EmptySet
    <3>. QED  BY <2>1, <3>4
  <2>. QED  BY <2>1, <2>2
<1>. DEFINE n == t[N].merged
<1>7. Forward(n, Q)
  BY <1>6 DEF PassInv
<1>8. CASE Q = {}
  <2>1. W = {} /\ ~Valid(n)
    BY <1>6, <1>7, <1>8 DEF Wanted, Forward, Valid
  <2>2. Valid(n) = (W # {})
    BY <2>1 DEF Valid
  <2>3. FindNextUserEntry(m, skipping, skip) =
          [merged |-> n, iter |-> [NotValid("forward") EXCEPT !.valid = Valid(n)]]
    BY <1>2
  <2>. HIDE DEF n
  <2>. QED  BY <2>1, <2>2, <2>3
<1>9. CASE Q # {}
  <2>1. Least(W, MergedKey(n)) /\ W # {}
    <3>1. Least(W, MergedKey(n))
      BY <1>6, <1>9, PassShows
    <3>. QED  BY <3>1 DEF Least
  <2>2. Valid(n) /\ Valid(n) = TRUE
    BY <1>7, <1>9 DEF Forward, Valid, Child
  <2>3. /\ FindNextUserEntry(m, skipping, skip) =
                 [merged |-> n, iter |-> [NotValid("forward") EXCEPT !.valid = (W # {})]]
        /\ Q # {} /\ Forward(n, Q) /\ Least(W, MergedKey(n))
    <3>1. Valid(n) = (W # {})
      BY <2>1, <2>2
    <3>2. FindNextUserEntry(m, skipping, skip) =
            [merged |-> n, iter |-> [NotValid("forward") EXCEPT !.valid = Valid(n)]]
      BY <1>2
    <3>. HIDE DEF n
    <3>. QED  BY <1>7, <1>9, <2>1, <3>1, <3>2
  <2>. HIDE DEF n
  <2>. QED  BY <2>3
<1>. QED  BY <1>8, <1>9

-----------------------------------------------------------------------------
(* FindPrevUserEntry.                                                       *)

Currents(L) == {d \in L : Current(d)}

\* The iterator is before all the entries of the key of X, and after those before that it sees.
AllPrior(Q, x) ==
  /\ \A d \in Q : d.key < x.key
  /\ \A d \in Entries \ Q : d.seq <= sequence => x.key <= d.key

\* X is saved: the newest so far of its key, and the newer ones are still to come.
Saved(s, L, x) ==
  /\ s.iter.key = {x.key} /\ s.iter.value = {x.seq}
  /\ x.type = "value" /\ x.seq <= sequence
  /\ \A d \in L : Before(d, x)
  /\ \A d \in Entries : Before(d, x) /\ d.key = x.key /\ d.seq <= sequence => d \in L
  /\ \A d \in Entries \ L : d.seq <= sequence => x.key <= d.key

IterType ==
  [valid : BOOLEAN, direction : {"reverse"}, key : SUBSET Int, value : SUBSET Int]

\* The entries of W are still to come, or the last of them is the one saved.
KeepInv(s, L, W) ==
  /\ Backward(s.merged, L)
  /\ s.iter \in IterType
  /\ \/ s.iter.value = {} /\ W = Currents(L)
     \/ \E x \in Entries : /\ Saved(s, L, x)
                           /\ W = Currents(L) \cup (IF Current(x) THEN {x} ELSE {})

\* What the entries are made of.
LEMMA EntryParts ==
  ASSUME Bounds, ChildrenSound
  PROVE  /\ \A d \in Entries : d.key \in Int /\ d.seq \in Int /\ d.type \in {"value", "deletion"}
         /\ \A a, b \in Entries : a.seq = b.seq => a = b
         /\ sequence \in Int
<1>1. Entries \subseteq Entry /\ \A a, b \in Entries : a.seq = b.seq => a = b
  BY EntriesAre
<1>2. \A d \in Entry : d.key \in Int /\ d.seq \in Int /\ d.type \in {"value", "deletion"}
  BY DEF Entry, UserKey, Bounds
<1>. QED  BY <1>1, <1>2 DEF ChildrenSound

\* What is saved of an entry.
Save(it, e) == [it EXCEPT !.key = {e.key}, !.value = {e.seq}]

\* A saved entry is of the type of what is saved.
LEMMA SaveType ==
  ASSUME NEW it \in IterType, NEW e, e.key \in Int, e.seq \in Int
  PROVE  Save(it, e) \in IterType /\ Save(it, e).key = {e.key} /\ Save(it, e).value = {e.seq}
<1>1. {e.key} \in SUBSET Int /\ {e.seq} \in SUBSET Int
  OBVIOUS
<1>. QED  BY <1>1 DEF Save, IterType

\* A turn of the loop keeps what is still to be found.
LEMMA KeepKeeps ==
  ASSUME Bounds, ChildrenSound, NEW s, NEW L, NEW W, L # {}, KeepInv(s, L, W), ~AtEarlierKey(s)
  PROVE  /\ KeepInv(KeepEntry(s), L \ {MergedKey(s.merged)}, W)
         /\ MergedKey(s.merged) \in L
<1>. DEFINE e == MergedKey(s.merged)
            Q == L \ {e}
            t == KeepEntry(s)
<1>1. Backward(s.merged, L) /\ DownSet(L) /\ Greatest(L, e) /\ s.merged.current # 0
  BY DEF KeepInv, Backward, Child
<1>2. Prior(e) = Q /\ e \in Entries /\ e \in L /\ L \subseteq Entries
  BY <1>1, BackwardRest
<1>3. /\ t.merged = MergedPrev(s.merged)
      /\ t.iter = IF e.seq > sequence THEN s.iter
                  ELSE IF e.type = "deletion"
                  THEN [s.iter EXCEPT !.key = {}, !.value = {}]
                  ELSE [s.iter EXCEPT !.key = {e.key}, !.value = {e.seq}]
  BY <1>1 DEF KeepEntry, Valid
<1>4. Backward(t.merged, Q)
  BY <1>1, <1>2, <1>3, PrevIs
<1>5. /\ \A d \in Entries : d.key \in Int /\ d.seq \in Int /\ d.type \in {"value", "deletion"}
      /\ \A a, b \in Entries : a.seq = b.seq => a = b
      /\ sequence \in Int
  BY EntryParts
<1>6. s.iter \in IterType
  BY DEF KeepInv
<1>7. /\ e.seq > sequence \/ ~Current(e) => Currents(Q) = Currents(L)
      /\ Current(e) => Currents(L) = Currents(Q) \cup {e}
  BY <1>2, <1>5 DEF Currents, Current
<1>8. CASE s.iter.value = {} /\ W = Currents(L)
  <2>1. CASE e.seq > sequence
    BY <1>3, <1>4, <1>6, <1>7, <1>8, <2>1, <1>2 DEF KeepInv
  <2>2. CASE ~(e.seq > sequence) /\ e.type = "deletion"
    <3>1. ~Current(e)
      BY <2>2 DEF Current
    <3>2. t.iter = [s.iter EXCEPT !.key = {}, !.value = {}]
      BY <1>3, <2>2
    <3>. HIDE DEF t, Q, e
    <3>3. KeepInv(t, Q, W)
      BY <1>4, <1>6, <1>7, <1>8, <3>1, <3>2 DEF KeepInv, IterType
    <3>. QED  BY <1>2, <3>3 DEF t, Q, e
  <2>3. CASE ~(e.seq > sequence) /\ e.type # "deletion"
    <3>1. t.iter = Save(s.iter, e)
      BY <1>3, <2>3 DEF Save
    <3>. HIDE DEF t, Q, e
    <3>2. e.key \in Int /\ e.seq \in Int /\ e.type = "value" /\ e.seq <= sequence
      BY <1>2, <1>5, <2>3
    <3>3. /\ t.iter.key = {e.key} /\ t.iter.value = {e.seq}
          /\ t.iter \in IterType
      BY <1>6, <3>1, <3>2, SaveType
    <3>4. /\ \A d \in Q : Before(d, e)
          /\ \A d \in Entries : Before(d, e) => d \in Q
      BY <1>2 DEF Prior
    <3>5. \A d \in Entries \ Q : e.key <= d.key
      <4>. TAKE d \in Entries \ Q
      <4>1. ~Before(d, e)
        BY <3>4
      <4>2. d = e \/ Before(e, d)
        BY <1>2, <4>1, Order
      <4>. QED  BY <1>2, <1>5, <4>2 DEF Before
    <3>6. Saved(t, Q, e)
      BY <3>2, <3>3, <3>4, <3>5 DEF Saved
    <3>7. W = Currents(Q) \cup (IF Current(e) THEN {e} ELSE {})
      BY <1>7, <1>8
    <3>8. KeepInv(t, Q, W)
      BY <1>2, <1>4, <3>3, <3>6, <3>7 DEF KeepInv
    <3>. QED  BY <1>2, <3>8 DEF t, Q, e
  <2>. QED  BY <2>1, <2>2, <2>3
<1>9. CASE \E x \in Entries : /\ Saved(s, L, x)
                              /\ W = Currents(L) \cup (IF Current(x) THEN {x} ELSE {})
  <2>1. PICK x \in Entries : /\ Saved(s, L, x)
                             /\ W = Currents(L) \cup (IF Current(x) THEN {x} ELSE {})
    BY <1>9
  <2>2. CASE e.seq > sequence
    <3>1. t.iter = s.iter
      BY <1>3, <2>2
    <3>. HIDE DEF t, e
    <3>2. ASSUME NEW d \in Entries, Before(d, x), d.key = x.key, d.seq <= sequence PROVE d \in Q
      BY <1>2, <1>5, <2>1, <2>2, <3>2 DEF Saved
    <3>3. ASSUME NEW d \in Entries \ Q, d.seq <= sequence PROVE x.key <= d.key
      BY <1>2, <1>5, <2>1, <2>2, <3>3 DEF Saved
    <3>4. Saved(t, Q, x)
      BY <2>1, <3>1, <3>2, <3>3 DEF Saved
    <3>5. W = Currents(Q) \cup (IF Current(x) THEN {x} ELSE {})
      BY <1>7, <2>1, <2>2
    <3>6. KeepInv(t, Q, W)
      BY <1>4, <1>6, <3>1, <3>4, <3>5 DEF KeepInv
    <3>. QED  BY <1>2, <3>6 DEF t, Q, e
  <2>3. CASE ~(e.seq > sequence)
    <3>1. e.key = x.key /\ x.seq < e.seq
      <4>1. Before(e, x) /\ ~(e.key < x.key)
        BY <1>2, <1>5, <2>1, <2>3 DEF Saved, AtEarlierKey
      <4>. QED  BY <1>2, <1>5, <4>1 DEF Before
    <3>2. ~Current(x)
      <4>. HIDE DEF e
      <4>. QED  BY <1>2, <1>5, <2>3, <3>1 DEF Current
    <3>3. W = Currents(L)
      BY <2>1, <3>2
    <3>4. CASE e.type = "deletion"
      <4>1. ~Current(e)
        BY <3>4 DEF Current
      <4>2. t.iter = [s.iter EXCEPT !.key = {}, !.value = {}]
        BY <1>3, <2>3, <3>4
      <4>. HIDE DEF t, Q, e
      <4>3. KeepInv(t, Q, W)
        BY <1>4, <1>6, <1>7, <3>3, <4>1, <4>2 DEF KeepInv, IterType
      <4>. QED  BY <1>2, <4>3 DEF t, Q, e
    <3>5. CASE e.type # "deletion"
      <4>1. t.iter = Save(s.iter, e)
        BY <1>3, <2>3, <3>5 DEF Save
      <4>. HIDE DEF t, Q, e
      <4>2. e.key \in Int /\ e.seq \in Int /\ e.type = "value" /\ e.seq <= sequence
        BY <1>2, <1>5, <2>3, <3>5
      <4>3. /\ t.iter.key = {e.key} /\ t.iter.value = {e.seq}
            /\ t.iter \in IterType
        BY <1>6, <4>1, <4>2, SaveType
      <4>4. /\ \A d \in Q : Before(d, e)
            /\ \A d \in Entries : Before(d, e) => d \in Q
        BY <1>2 DEF Prior
      <4>5. \A d \in Entries \ Q : e.key <= d.key
        <5>. TAKE d \in Entries \ Q
        <5>1. ~Before(d, e)
          BY <4>4
        <5>2. d = e \/ Before(e, d)
          BY <1>2, <5>1, Order
        <5>. QED  BY <1>2, <1>5, <5>2 DEF Before
      <4>6. Saved(t, Q, e)
        BY <4>2, <4>3, <4>4, <4>5 DEF Saved
      <4>7. W = Currents(Q) \cup (IF Current(e) THEN {e} ELSE {})
        BY <1>7, <3>3
      <4>8. KeepInv(t, Q, W)
        BY <1>2, <1>4, <4>3, <4>6, <4>7 DEF KeepInv
      <4>. QED  BY <1>2, <4>8 DEF t, Q, e
    <3>. QED  BY <3>4, <3>5
  <2>. QED  BY <2>2, <2>3
<1>. QED  BY <1>8, <1>9 DEF KeepInv

\* When the loop ends, the last of what was to be found is saved.
LEMMA KeepEnds ==
  ASSUME Bounds, ChildrenSound, NEW s, NEW L, NEW W, KeepInv(s, L, W), L = {} \/ AtEarlierKey(s)
  PROVE  /\ s.iter.value = {} => W = {}
         /\ s.iter.value # {} =>
              \E x \in Entries : /\ Current(x) /\ Greatest(W, x) /\ AllPrior(L, x)
                                /\ s.iter.key = {x.key} /\ s.iter.value = {x.seq}
<1>. DEFINE e == MergedKey(s.merged)
<1>1. CASE s.iter.value = {}
  <2>1. L = {} /\ W = Currents(L)
    BY <1>1 DEF KeepInv, Saved, AtEarlierKey
  <2>. QED  BY <1>1, <2>1 DEF Currents
<1>2. CASE s.iter.value # {}
  <2>1. PICK x \in Entries : /\ Saved(s, L, x)
                             /\ W = Currents(L) \cup (IF Current(x) THEN {x} ELSE {})
    BY <1>2 DEF KeepInv
  <2>2. /\ \A d \in Entries : d.key \in Int /\ d.seq \in Int /\ d.type \in {"value", "deletion"}
        /\ \A a, b \in Entries : a.seq = b.seq => a = b
        /\ sequence \in Int
    BY EntryParts
  <2>3. \A d \in L : d \in Entries /\ d.key < x.key
    <3>1. CASE L = {}
      BY <3>1
    <3>2. CASE L # {}
      <4>1. Greatest(L, e) /\ DownSet(L)
        BY <3>2 DEF KeepInv, Backward
      <4>2. e.key < x.key
        BY <2>1, <3>2 DEF Saved, AtEarlierKey
      <4>3. L \subseteq Entries /\ e \in Entries
        BY <4>1 DEF DownSet, Greatest
      <4>. HIDE DEF e
      <4>4. \A d \in L : d.key <= e.key
        BY <2>2, <4>1, <4>3 DEF Greatest, Before
      <4>. QED  BY <2>2, <4>2, <4>3, <4>4
    <3>. QED  BY <3>1, <3>2
  <2>4. ASSUME NEW c \in Entries, c.key = x.key, c.seq <= sequence PROVE c.seq <= x.seq
    <3>1. ~(c \in L)
      BY <2>2, <2>3, <2>4
    <3>2. ~Before(c, x)
      BY <2>1, <2>4, <3>1 DEF Saved
    <3>. QED  BY <2>2, <2>4, <3>2 DEF Before
  <2>5. Current(x)
    BY <2>1, <2>4 DEF Current, Saved
  <2>6. Greatest(W, x)
    BY <2>1, <2>5 DEF Greatest, Saved, Currents
  <2>7. AllPrior(L, x)
    BY <2>1, <2>3 DEF AllPrior, Saved
  <2>. QED  BY <1>2, <2>1, <2>5, <2>6, <2>7 DEF Saved
<1>. QED  BY <1>1, <1>2

\* The turns of the loop, one after another.
LEMMA KeepTurns ==
  ASSUME NEW start, NEW N \in Nat
  PROVE  \E t : t = [n \in 0 .. N |-> IF n = 0 THEN start ELSE KeepEntry(t[n - 1])]
<1>. DEFINE P(k) == \E t : t = [n \in 0 .. k |-> IF n = 0 THEN start ELSE KeepEntry(t[n - 1])]
            D == {k \in Nat : P(k)}
<1>1. P(0)
  <2>1. PICK t : t = [n \in 0 .. 0 |-> start]
    OBVIOUS
  <2>2. t = [n \in 0 .. 0 |-> IF n = 0 THEN start ELSE KeepEntry(t[n - 1])]
    BY <2>1
  <2>. QED  BY <2>2
<1>2. ASSUME NEW k \in Nat, P(k) PROVE P(k + 1)
  <2>1. PICK t : t = [n \in 0 .. k |-> IF n = 0 THEN start ELSE KeepEntry(t[n - 1])]
    BY <1>2
  <2>2. PICK u : u = [n \in 0 .. k + 1 |-> IF n = k + 1 THEN KeepEntry(t[k]) ELSE t[n]]
    OBVIOUS
  <2>3. \A n \in 0 .. k + 1 : u[n] = IF n = 0 THEN start ELSE KeepEntry(u[n - 1])
    <3> TAKE n \in 0 .. k + 1
    <3>1. CASE n = 0
      BY <3>1, <2>1, <2>2
    <3>2. CASE n = k + 1
      <4>1. u[n] = KeepEntry(t[k]) /\ n - 1 = k /\ u[k] = t[k] /\ n # 0
        BY <3>2, <2>2
      <4>. QED  BY <4>1
    <3>3. CASE n # 0 /\ n # k + 1
      <4>1. n \in 0 .. k /\ n - 1 \in 0 .. k /\ n - 1 # k + 1
        BY <3>3
      <4>2. u[n] = t[n] /\ u[n - 1] = t[n - 1]
        BY <4>1, <2>2
      <4>3. t[n] = KeepEntry(t[n - 1])
        BY <4>1, <2>1, <3>3
      <4>. QED  BY <3>3, <4>2, <4>3
    <3>. QED  BY <3>1, <3>2, <3>3
  <2>4. u = [n \in 0 .. k + 1 |-> IF n = 0 THEN start ELSE KeepEntry(u[n - 1])]
    BY <2>2, <2>3
  <2>. QED  BY <2>4
<1>3. N \in D
  <2>. HIDE DEF P
  <2>1. 0 \in D /\ \A k \in Nat : k \in D => k + 1 \in D
    BY <1>1, <1>2
  <2>. HIDE DEF D
  <2>. QED  BY <2>1, Induction
<1>. QED  BY <1>3

IsBackTurns(t, start, key, N) ==
  t = [n \in 0 .. N |-> IF n = 0 THEN start ELSE StepBack(t[n - 1], key)]

\* And those of Prev's own loop.
LEMMA BackTurns ==
  ASSUME NEW start, NEW key, NEW N \in Nat
  PROVE  \E t : IsBackTurns(t, start, key, N)
<1>. DEFINE P(k) == \E t : t = [n \in 0 .. k |-> IF n = 0 THEN start ELSE StepBack(t[n - 1], key)]
            D == {k \in Nat : P(k)}
<1>1. P(0)
  <2>1. PICK t : t = [n \in 0 .. 0 |-> start]
    OBVIOUS
  <2>2. t = [n \in 0 .. 0 |-> IF n = 0 THEN start ELSE StepBack(t[n - 1], key)]
    BY <2>1
  <2>. QED  BY <2>2
<1>2. ASSUME NEW k \in Nat, P(k) PROVE P(k + 1)
  <2>1. PICK t : t = [n \in 0 .. k |-> IF n = 0 THEN start ELSE StepBack(t[n - 1], key)]
    BY <1>2
  <2>2. PICK u : u = [n \in 0 .. k + 1 |-> IF n = k + 1 THEN StepBack(t[k], key) ELSE t[n]]
    OBVIOUS
  <2>3. \A n \in 0 .. k + 1 : u[n] = IF n = 0 THEN start ELSE StepBack(u[n - 1], key)
    <3> TAKE n \in 0 .. k + 1
    <3>1. CASE n = 0
      BY <3>1, <2>1, <2>2
    <3>2. CASE n = k + 1
      <4>1. u[n] = StepBack(t[k], key) /\ n - 1 = k /\ u[k] = t[k] /\ n # 0
        BY <3>2, <2>2
      <4>. QED  BY <4>1
    <3>3. CASE n # 0 /\ n # k + 1
      <4>1. n \in 0 .. k /\ n - 1 \in 0 .. k /\ n - 1 # k + 1
        BY <3>3
      <4>2. u[n] = t[n] /\ u[n - 1] = t[n - 1]
        BY <4>1, <2>2
      <4>3. t[n] = StepBack(t[n - 1], key)
        BY <4>1, <2>1, <3>3
      <4>. QED  BY <3>3, <4>2, <4>3
    <3>. QED  BY <3>1, <3>2, <3>3
  <2>4. u = [n \in 0 .. k + 1 |-> IF n = 0 THEN start ELSE StepBack(u[n - 1], key)]
    BY <2>2, <2>3
  <2>. QED  BY <2>4
<1>3. N \in D
  <2>. HIDE DEF P
  <2>1. 0 \in D /\ \A k \in Nat : k \in D => k + 1 \in D
    BY <1>1, <1>2
  <2>. HIDE DEF D
  <2>. QED  BY <2>1, Induction
<1>. QED  BY <1>3 DEF IsBackTurns

\* FindPrevUserEntry is the last of the turns.
LEMMA FindPrevEnds ==
  ASSUME NEW m, NEW it, Cardinality(Entries) \in Nat
  PROVE  \E t : /\ t[0] = [merged |-> m, iter |-> it]
                /\ \A n \in 1 .. Cardinality(Entries) : t[n] = KeepEntry(t[n - 1])
                /\ FindPrevUserEntry(m, it) =
                     [merged |-> t[Cardinality(Entries)].merged,
                      iter |-> IF t[Cardinality(Entries)].iter.value = {} THEN NotValid("forward")
                               ELSE [t[Cardinality(Entries)].iter EXCEPT !.valid = TRUE]]
<1>. DEFINE start == [merged |-> m, iter |-> it]
            N == Cardinality(Entries)
<1>1. \E t : t = [n \in 0 .. N |-> IF n = 0 THEN start ELSE KeepEntry(t[n - 1])]
  BY KeepTurns
<1>2. PICK t : /\ FindPrevUserEntry(m, it) =
                    [merged |-> t[N].merged,
                     iter |-> IF t[N].iter.value = {} THEN NotValid("forward")
                              ELSE [t[N].iter EXCEPT !.valid = TRUE]]
               /\ t = [n \in 0 .. N |-> IF n = 0 THEN start ELSE KeepEntry(t[n - 1])]
  BY <1>1, Zenon DEF FindPrevUserEntry
<1>3. t[0] = start /\ \A n \in 1 .. N : t[n] = KeepEntry(t[n - 1])
  <2>. HIDE DEF start
  <2>1. \A n \in 0 .. N : t[n] = IF n = 0 THEN start ELSE KeepEntry(t[n - 1])
    BY <1>2
  <2>. QED  BY <2>1
<1>. QED  BY <1>2, <1>3

\* And so is the loop of Prev.
LEMMA BackBeforeEnds ==
  ASSUME NEW m, NEW key, Cardinality(Entries) \in Nat
  PROVE  \E t : /\ t[0] = m
                /\ \A n \in 1 .. Cardinality(Entries) : t[n] = StepBack(t[n - 1], key)
                /\ BackBefore(m, key) = t[Cardinality(Entries)]
<1>. DEFINE N == Cardinality(Entries)
<1>1. \E t : IsBackTurns(t, m, key, N)
  BY BackTurns
<1>2. PICK t : /\ BackBefore(m, key) = t[N]
               /\ t = [n \in 0 .. N |-> IF n = 0 THEN m ELSE StepBack(t[n - 1], key)]
  BY <1>1, Zenon DEF BackBefore, IsBackTurns
<1>3. t[0] = m /\ \A n \in 1 .. N : t[n] = StepBack(t[n - 1], key)
  <2>1. \A n \in 0 .. N : t[n] = IF n = 0 THEN m ELSE StepBack(t[n - 1], key)
    BY <1>2
  <2>. QED  BY <2>1
<1>. QED  BY <1>2, <1>3

\* Of entries that are finitely many: none of them are left when none are counted.
LEMMA NoneLeft ==
  ASSUME Bounds, ChildrenSound, NEW Q, Q \subseteq Entries,
         Cardinality(Q) + Cardinality(Entries) <= Cardinality(Entries)
  PROVE  Q = {}
<1>1. IsFiniteSet(Q) /\ Cardinality(Q) \in Nat /\ Cardinality(Entries) \in Nat
  BY EntriesFinite, FS_Subset, FS_CardinalityType
<1>2. Cardinality(Q) = 0
  BY <1>1
<1>. QED  BY <1>1, <1>2, FS_EmptySet

\* At first there are no more of them than there are entries.
LEMMA AtMostAll ==
  ASSUME Bounds, ChildrenSound, NEW Q, Q \subseteq Entries
  PROVE  Cardinality(Q) + 0 <= Cardinality(Entries)
<1>1. IsFiniteSet(Q) /\ Cardinality(Q) <= Cardinality(Entries) /\ Cardinality(Q) \in Nat
  BY EntriesFinite, FS_Subset, FS_CardinalityType
<1>. QED  BY <1>1

\* The loop ends with the last of W saved, before the entries of its key.
LEMMA FindPrevIs ==
  ASSUME Bounds, ChildrenSound, NEW m, NEW it, NEW L, NEW W,
         KeepInv([merged |-> m, iter |-> it], L, W)
  PROVE  \E n, i : /\ FindPrevUserEntry(m, it) = [merged |-> n, iter |-> i]
                   /\ W = {} => i = NotValid("forward")
                   /\ W # {} => \E x \in Entries : \E Q :
                        /\ Current(x) /\ Greatest(W, x) /\ AllPrior(Q, x) /\ Backward(n, Q)
                        /\ i = [valid |-> TRUE, direction |-> "reverse",
                                key |-> {x.key}, value |-> {x.seq}]
<1>. DEFINE N == Cardinality(Entries)
<1>1. N \in Nat /\ IsFiniteSet(Entries)
  BY EntriesFinite
<1>2. PICK t : /\ t[0] = [merged |-> m, iter |-> it]
               /\ \A n \in 1 .. N : t[n] = KeepEntry(t[n - 1])
               /\ FindPrevUserEntry(m, it) =
                     [merged |-> t[N].merged,
                      iter |-> IF t[N].iter.value = {} THEN NotValid("forward")
                               ELSE [t[N].iter EXCEPT !.valid = TRUE]]
  BY <1>1, FindPrevEnds
<1>. HIDE DEF N
<1>. DEFINE Good(n, Q) == KeepInv(t[n], Q, W)
            Stops(n, Q) == Q = {} \/ AtEarlierKey(t[n])
            P(n) == \E Q : Good(n, Q) /\ (Stops(n, Q) \/ Cardinality(Q) + n <= N)
            D == {n \in Nat : n <= N => P(n)}
<1>3. P(0)
  <2>1. Good(0, L)
    BY <1>2
  <2>2. L \subseteq Entries
    BY DEF KeepInv, Backward, DownSet
  <2>. QED  BY <2>1, <2>2, AtMostAll DEF N
<1>4. ASSUME NEW n \in Nat, n + 1 <= N, P(n) PROVE P(n + 1)
  <2>1. PICK Q : Good(n, Q) /\ (Stops(n, Q) \/ Cardinality(Q) + n <= N)
    BY <1>4
  <2>2. t[n + 1] = KeepEntry(t[n])
    <3>1. n + 1 \in 1 .. N /\ (n + 1) - 1 = n
      BY <1>1, <1>4
    <3>. QED  BY <1>2, <3>1
  <2>3. CASE Stops(n, Q)
    <3>1. Q = {} => ~Valid(t[n].merged)
      BY <2>1 DEF KeepInv, Backward, Valid
    <3>2. t[n + 1] = t[n]
      BY <2>2, <2>3, <3>1 DEF KeepEntry
    <3>. QED  BY <2>1, <2>3, <3>2
  <2>4. CASE ~Stops(n, Q)
    <3>. DEFINE e == MergedKey(t[n].merged)
    <3>1. KeepInv(t[n + 1], Q \ {e}, W) /\ e \in Q
      BY <2>1, <2>2, <2>4, KeepKeeps
    <3>2. Q \subseteq Entries
      BY <2>1 DEF KeepInv, Backward, DownSet
    <3>. HIDE DEF e
    <3>3. Cardinality(Q) \in Nat /\ Cardinality(Q \ {e}) = Cardinality(Q) - 1
      BY <3>1, <3>2, OneLess
    <3>4. Cardinality(Q \ {e}) + (n + 1) <= N
      BY <1>1, <2>1, <2>4, <3>3
    <3>. QED  BY <3>1, <3>4
  <2>. QED  BY <2>3, <2>4
<1>5. P(N)
  <2>. HIDE DEF P
  <2>1. \A n \in Nat : n \in D => n + 1 \in D
    BY <1>1, <1>4
  <2>2. 0 \in D
    BY <1>3
  <2>. HIDE DEF D
  <2>3. N \in D
    BY <1>1, <2>1, <2>2, Induction
  <2>. QED  BY <1>1, <2>3 DEF D
<1>6. PICK Q : Good(N, Q) /\ Stops(N, Q)
  <2>1. PICK Q : Good(N, Q) /\ (Stops(N, Q) \/ Cardinality(Q) + N <= N)
    BY <1>5
  <2>2. Q \subseteq Entries
    BY <2>1 DEF KeepInv, Backward, DownSet
  <2>. QED  BY <2>1, <2>2, NoneLeft DEF N
<1>. DEFINE n == t[N].merged
            s == t[N].iter
            i == IF s.value = {} THEN NotValid("forward") ELSE [s EXCEPT !.valid = TRUE]
<1>7. FindPrevUserEntry(m, it) = [merged |-> n, iter |-> i]
  BY <1>2
<1>8. Backward(n, Q) /\ s \in IterType
  BY <1>6 DEF KeepInv
<1>9. /\ s.value = {} => W = {}
      /\ s.value # {} =>
              \E x \in Entries : /\ Current(x) /\ Greatest(W, x) /\ AllPrior(Q, x)
                                /\ s.key = {x.key} /\ s.value = {x.seq}
  BY <1>6, KeepEnds
<1>. HIDE DEF n, s
<1>10. CASE s.value = {}
  <2>1. i = NotValid("forward") /\ W = {}
    BY <1>9, <1>10
  <2>. HIDE DEF i
  <2>. QED  BY <1>7, <2>1
<1>11. CASE s.value # {}
  <2>1. PICK x \in Entries : /\ Current(x) /\ Greatest(W, x) /\ AllPrior(Q, x)
                             /\ s.key = {x.key} /\ s.value = {x.seq}
    BY <1>9, <1>11
  <2>2. i = [valid |-> TRUE, direction |-> "reverse", key |-> {x.key}, value |-> {x.seq}]
    BY <1>8, <1>11, <2>1 DEF IterType
  <2>3. W # {}
    BY <2>1 DEF Greatest
  <2>. HIDE DEF i
  <2>. QED  BY <1>7, <1>8, <2>1, <2>2, <2>3
<1>. QED  BY <1>10, <1>11

\* Back to before the entries of a key.
Below(k) == {d \in Entries : d.key < k}

BackInv(m, L, k) == Backward(m, L) /\ Below(k) \subseteq L

\* A step back stays after the entries of earlier keys, and stops at them.
LEMMA StepBackKeeps ==
  ASSUME Bounds, ChildrenSound, NEW m, NEW L, NEW k \in Int, BackInv(m, L, k)
  PROVE  \/ StepBack(m, k) = m /\ L = Below(k)
         \/ \E e \in L : BackInv(StepBack(m, k), L \ {e}, k)
<1>. DEFINE e == MergedKey(m)
<1>0. /\ \A d \in Entries : d.key \in Int /\ d.seq \in Int
      /\ Backward(m, L) /\ Below(k) \subseteq L
  BY EntryParts DEF BackInv
<1>1. CASE L = {}
  <2>1. ~Valid(m) /\ Below(k) = {}
    BY <1>0, <1>1 DEF Backward, Valid
  <2>. QED  BY <1>1, <2>1 DEF StepBack
<1>2. CASE L # {}
  <2>1. /\ DownSet(L) /\ Greatest(L, e) /\ Valid(m)
    BY <1>0, <1>2 DEF Backward, Valid, Child
  <2>2. Prior(e) = L \ {e} /\ e \in Entries /\ e \in L /\ L \subseteq Entries
    BY <2>1, BackwardRest
  <2>3. CASE e.key >= k
    <3>1. StepBack(m, k) = MergedPrev(m)
      BY <2>1, <2>3 DEF StepBack
    <3>2. Backward(MergedPrev(m), L \ {e})
      BY <1>0, <1>2, <2>2, PrevIs
    <3>3. Below(k) \subseteq L \ {e}
      <4>. HIDE DEF e
      <4>. QED  BY <1>0, <2>2, <2>3 DEF Below
    <3>. QED  BY <2>2, <3>1, <3>2, <3>3 DEF BackInv
  <2>4. CASE ~(e.key >= k)
    <3>1. StepBack(m, k) = m
      BY <2>4 DEF StepBack
    <3>. HIDE DEF e
    <3>2. \A d \in L : d.key < k
      BY <1>0, <2>1, <2>2, <2>4 DEF Greatest, Before
    <3>. QED  BY <1>0, <2>2, <3>1, <3>2 DEF Below
  <2>. QED  BY <2>3, <2>4
<1>. QED  BY <1>1, <1>2

\* The loop ends before the entries of the key.
LEMMA BackBeforeIs ==
  ASSUME Bounds, ChildrenSound, NEW m, NEW L, NEW k \in Int, BackInv(m, L, k)
  PROVE  Backward(BackBefore(m, k), Below(k))
<1>. DEFINE N == Cardinality(Entries)
<1>1. N \in Nat /\ IsFiniteSet(Entries)
  BY EntriesFinite
<1>2. PICK t : /\ t[0] = m
               /\ \A n \in 1 .. N : t[n] = StepBack(t[n - 1], k)
               /\ BackBefore(m, k) = t[N]
  BY <1>1, BackBeforeEnds
<1>. HIDE DEF N
<1>. DEFINE P(n) == \E Q : BackInv(t[n], Q, k) /\ (Q = Below(k) \/ Cardinality(Q) + n <= N)
            D == {n \in Nat : n <= N => P(n)}
<1>3. P(0)
  <2>1. L \subseteq Entries
    BY DEF BackInv, Backward, DownSet
  <2>. QED  BY <1>2, <2>1, AtMostAll DEF N
<1>4. ASSUME NEW n \in Nat, n + 1 <= N, P(n) PROVE P(n + 1)
  <2>1. PICK Q : BackInv(t[n], Q, k) /\ (Q = Below(k) \/ Cardinality(Q) + n <= N)
    BY <1>4
  <2>2. t[n + 1] = StepBack(t[n], k)
    <3>1. n + 1 \in 1 .. N /\ (n + 1) - 1 = n
      BY <1>1, <1>4
    <3>. QED  BY <1>2, <3>1
  <2>3. CASE StepBack(t[n], k) = t[n] /\ Q = Below(k)
    BY <2>1, <2>2, <2>3
  <2>4. CASE \E e \in Q : BackInv(StepBack(t[n], k), Q \ {e}, k)
    <3>1. PICK e \in Q : BackInv(t[n + 1], Q \ {e}, k)
      BY <2>2, <2>4
    <3>2. Q \subseteq Entries
      BY <2>1 DEF BackInv, Backward, DownSet
    <3>3. Cardinality(Q) \in Nat /\ Cardinality(Q \ {e}) = Cardinality(Q) - 1
      BY <3>2, OneLess
    <3>4. CASE Q # Below(k)
      <4>1. Cardinality(Q \ {e}) + (n + 1) <= N
        BY <1>1, <2>1, <3>3, <3>4
      <4>. QED  BY <3>1, <4>1
    <3>5. CASE Q = Below(k)
      <4>1. Below(k) \subseteq Q \ {e}
        BY <3>1 DEF BackInv
      <4>. QED  BY <3>5, <4>1
    <3>. QED  BY <3>4, <3>5
  <2>. QED  BY <2>1, <2>3, <2>4, StepBackKeeps
<1>5. P(N)
  <2>. HIDE DEF P
  <2>1. \A n \in Nat : n \in D => n + 1 \in D
    BY <1>1, <1>4
  <2>2. 0 \in D
    BY <1>3
  <2>. HIDE DEF D
  <2>3. N \in D
    BY <1>1, <2>1, <2>2, Induction
  <2>. QED  BY <1>1, <2>3 DEF D
<1>6. PICK Q : BackInv(t[N], Q, k) /\ (Q = Below(k) \/ Cardinality(Q) + N <= N)
  BY <1>5
<1>7. Q = Below(k)
  <2>1. Q \subseteq Entries
    BY <1>6 DEF BackInv, Backward, DownSet
  <2>2. CASE Cardinality(Q) + N <= N
    <3>1. Q = {}
      BY <2>1, <2>2, NoneLeft DEF N
    <3>. QED  BY <1>6, <3>1 DEF BackInv
  <2>. QED  BY <1>6, <2>2
<1>. QED  BY <1>2, <1>6, <1>7 DEF BackInv

-----------------------------------------------------------------------------
(* The calls.                                                               *)

\* The DBIter is on X: going forward the merged iterator is on it too, going backwards it is
\* saved and the merged iterator is before the entries of its key.
OnForward(m, i, x) ==
  /\ i = [NotValid("forward") EXCEPT !.valid = TRUE]
  /\ MergedKey(m) = x
  /\ \E R : R # {} /\ Forward(m, R)

OnReverse(m, i, x) ==
  /\ i = [valid |-> TRUE, direction |-> "reverse", key |-> {x.key}, value |-> {x.seq}]
  /\ \E Q : Backward(m, Q) /\ AllPrior(Q, x)

On(m, i, x) == x \in Entries /\ Current(x) /\ (OnForward(m, i, x) \/ OnReverse(m, i, x))

LandsFirst(r, W) ==
  /\ W = {} => ~r.iter.valid
  /\ W # {} => r.iter.valid /\ \E x : Least(W, x) /\ On(r.merged, r.iter, x)

LandsLast(r, W) ==
  /\ W = {} => ~r.iter.valid
  /\ W # {} => r.iter.valid /\ \E x : Greatest(W, x) /\ On(r.merged, r.iter, x)

\* FindNextUserEntry goes to the first entry that is wanted.
LEMMA FindNextLands ==
  ASSUME Bounds, ChildrenSound, NEW m, NEW skipping, NEW skip, NEW R, NEW W,
         PassInv([merged |-> m, skipping |-> skipping, skip |-> skip], R),
         W = Wanted([merged |-> m, skipping |-> skipping, skip |-> skip], R)
  PROVE  LandsFirst(FindNextUserEntry(m, skipping, skip), W)
<1>. DEFINE r == FindNextUserEntry(m, skipping, skip)
<1>1. PICK n, v : /\ r = [merged |-> n, iter |-> [NotValid("forward") EXCEPT !.valid = v]]
                  /\ v = (W # {})
                  /\ W # {} => (\E Q : Q # {} /\ Forward(n, Q)) /\ Least(W, MergedKey(n))
  BY FindNextIs
<1>2. r.merged = n /\ r.iter.valid = (W # {})
  BY <1>1 DEF NotValid
<1>3. ASSUME W # {} PROVE On(n, r.iter, MergedKey(n))
  <2>1. r.iter = [NotValid("forward") EXCEPT !.valid = TRUE]
    <3>1. v = TRUE
      BY <1>1, <1>3, Zenon
    <3>2. r.iter = [NotValid("forward") EXCEPT !.valid = v]
      BY <1>1
    <3>. QED  BY <3>1, <3>2, Zenon
  <2>2. OnForward(n, r.iter, MergedKey(n))
    BY <1>1, <1>3, <2>1 DEF OnForward
  <2>3. MergedKey(n) \in W
    BY <1>1, <1>3 DEF Least
  <2>4. W \subseteq Entries /\ \A d \in W : Current(d)
    BY DEF Wanted, PassInv, Forward, UpSet
  <2>5. MergedKey(n) \in Entries /\ Current(MergedKey(n))
    BY <2>3, <2>4
  <2>. HIDE DEF r
  <2>. QED  BY <2>2, <2>5, Zenon DEF On
<1>. HIDE DEF r
<1>4. LandsFirst(r, W)
  BY <1>1, <1>2, <1>3 DEF LandsFirst
<1>. QED  BY <1>4 DEF r

\* FindPrevUserEntry goes to the last one.
LEMMA FindPrevLands ==
  ASSUME Bounds, ChildrenSound, NEW m, NEW it, NEW L, NEW W,
         KeepInv([merged |-> m, iter |-> it], L, W)
  PROVE  LandsLast(FindPrevUserEntry(m, it), W)
<1>. DEFINE r == FindPrevUserEntry(m, it)
<1>1. PICK n, i : /\ r = [merged |-> n, iter |-> i]
                  /\ W = {} => i = NotValid("forward")
                  /\ W # {} => \E x \in Entries : \E Q :
                        /\ Current(x) /\ Greatest(W, x) /\ AllPrior(Q, x) /\ Backward(n, Q)
                        /\ i = [valid |-> TRUE, direction |-> "reverse",
                                key |-> {x.key}, value |-> {x.seq}]
  BY FindPrevIs
<1>2. r.merged = n /\ r.iter = i
  BY <1>1
<1>3. CASE W = {}
  <2>1. ~i.valid
    BY <1>1, <1>3 DEF NotValid
  <2>. QED  BY <1>2, <1>3, <2>1 DEF LandsLast
<1>4. CASE W # {}
  <2>1. PICK x \in Entries : \E Q :
               /\ Current(x) /\ Greatest(W, x) /\ AllPrior(Q, x) /\ Backward(n, Q)
               /\ i = [valid |-> TRUE, direction |-> "reverse",
                       key |-> {x.key}, value |-> {x.seq}]
    BY <1>1, <1>4
  <2>2. OnReverse(n, i, x) /\ Current(x) /\ Greatest(W, x)
    BY <2>1, Zenon DEF OnReverse
  <2>5. i.valid
    BY <2>1
  <2>3. On(n, i, x)
    BY <2>1, <2>2, Zenon DEF On
  <2>. HIDE DEF r
  <2>6. LandsLast(r, W)
    BY <1>2, <1>4, <2>2, <2>3, <2>5 DEF LandsLast
  <2>. QED  BY <2>6 DEF r
<1>. QED  BY <1>3, <1>4

\* SeekToFirst goes to the first entry to be shown of all.
LEMMA SeekToFirstLands ==
  ASSUME Bounds, ChildrenSound
  PROVE  LandsFirst(FindNextUserEntry(MergedSeekToFirst, FALSE, {}), Currents(Entries))
<1>. DEFINE s == [merged |-> MergedSeekToFirst, skipping |-> FALSE, skip |-> {}]
<1>1. PassInv(s, Entries)
  BY SeekToFirstIs DEF PassInv
<1>2. Wanted(s, Entries) = Currents(Entries)
  BY DEF Wanted, Skipped, Currents
<1>. QED  BY <1>1, <1>2, FindNextLands

\* SeekToLast goes to the last.
LEMMA SeekToLastLands ==
  ASSUME Bounds, ChildrenSound
  PROVE  LandsLast(FindPrevUserEntry(MergedSeekToLast, Backwards), Currents(Entries))
<1>. DEFINE s == [merged |-> MergedSeekToLast, iter |-> Backwards]
<1>1. Backwards \in IterType /\ Backwards.value = {}
  BY DEF Backwards, IterType
<1>2. KeepInv(s, Entries, Currents(Entries))
  BY <1>1, SeekToLastIs DEF KeepInv
<1>. QED  BY <1>2, FindPrevLands

\* An entry of the key that is seen is not before the key at the sequence number.
LEMMA SeekLands ==
  ASSUME Bounds, ChildrenSound, NEW k \in UserKey
  PROVE  LandsFirst(FindNextUserEntry(MergedSeek([key |-> k, seq |-> sequence]), FALSE, {}),
                    {d \in Currents(Entries) : d.key >= k})
<1>. DEFINE e == [key |-> k, seq |-> sequence]
            R == AtLeast(e)
            s == [merged |-> MergedSeek(e), skipping |-> FALSE, skip |-> {}]
<1>1. /\ \A d \in Entries : d.key \in Int /\ d.seq \in Int
      /\ sequence \in Int /\ k \in Int /\ e.key = k /\ e.seq = sequence
  BY EntryParts DEF UserKey, Bounds
<1>2. \A d \in Entries : d.seq <= sequence => (d \in R <=> d.key >= k)
  BY <1>1 DEF AtLeast, Before
<1>3. Forward(MergedSeek(e), R) /\ R \subseteq Entries
  BY <1>1, MergedSeekIs DEF AtLeast
<1>. HIDE DEF e, R
<1>4. PassInv(s, R)
  BY <1>2, <1>3 DEF PassInv
<1>5. Wanted(s, R) = {d \in Currents(Entries) : d.key >= k}
  BY <1>2, <1>3 DEF Wanted, Skipped, Currents, Current
<1>6. LandsFirst(FindNextUserEntry(MergedSeek(e), FALSE, {}),
                 {d \in Currents(Entries) : d.key >= k})
  BY <1>4, <1>5, FindNextLands
<1>. QED  BY <1>6 DEF e

\* Going forward it skips its own key, of which there may be older entries ahead.
LEMMA NextForwardLands ==
  ASSUME Bounds, ChildrenSound, NEW x, On(merged, iter, x), OnForward(merged, iter, x)
  PROVE  LandsFirst(NextUserEntry, {d \in Currents(Entries) : x.key < d.key})
<1>. DEFINE s == [merged |-> merged, skipping |-> TRUE, skip |-> {x.key}]
            W == {d \in Currents(Entries) : x.key < d.key}
<1>1. PICK R : R # {} /\ Forward(merged, R)
  BY DEF OnForward
<1>2. /\ \A d \in Entries : d.key \in Int /\ d.seq \in Int
      /\ sequence \in Int /\ x \in Entries /\ x = MergedKey(merged)
  BY EntryParts DEF On, OnForward
<1>3. UpSet(R) /\ Least(R, x) /\ R \subseteq Entries
  BY <1>1, <1>2 DEF Forward, UpSet
<1>4. \A d \in R : x.key <= d.key
  BY <1>2, <1>3 DEF Least, Before
<1>5. \A d \in Entries : x.key < d.key => d \in R
  BY <1>2, <1>3 DEF UpSet, Least, Before
<1>6. \A d \in Entries : Skipped(s, d) <=> d.key <= x.key
  BY DEF Skipped
<1>7. PassInv(s, R)
  <2>1. s.skip = {x.key} /\ x.key \in Int /\ s.skipping /\ s.merged = merged
    BY <1>2
  <2>2. ASSUME NEW d \in R, NEW c \in Entries, c.key = d.key, ~Skipped(s, d) PROVE c \in R
    BY <1>2, <1>3, <1>5, <1>6, <2>2
  <2>3. s.skipping \in BOOLEAN
    OBVIOUS
  <2>. HIDE DEF s
  <2>. QED  BY <1>1, <1>4, <2>1, <2>2, <2>3 DEF PassInv
<1>8. Wanted(s, R) = W
  <2>. HIDE DEF s
  <2>. QED  BY <1>2, <1>3, <1>5, <1>6 DEF Wanted, Currents
<1>9. LandsFirst(FindNextUserEntry(merged, TRUE, {x.key}), W)
  <2>. HIDE DEF W
  <2>. QED  BY <1>7, <1>8, FindNextLands
<1>10. NextUserEntry = FindNextUserEntry(merged, TRUE, {x.key})
  <2>1. iter.direction # "reverse"
    BY DEF OnForward, NotValid
  <2>. QED  BY <1>2, <2>1 DEF NextUserEntry
<1>. QED  BY <1>9, <1>10

\* Going backwards it is before the entries of the key, which it skips.
LEMMA NextReverseLands ==
  ASSUME Bounds, ChildrenSound, NEW x, On(merged, iter, x), OnReverse(merged, iter, x)
  PROVE  LandsFirst(NextUserEntry, {d \in Currents(Entries) : x.key < d.key})
<1>. DEFINE m == IF Valid(merged) THEN MergedNext(merged) ELSE MergedSeekToFirst
            s == [merged |-> m, skipping |-> TRUE, skip |-> {x.key}]
            W == {d \in Currents(Entries) : x.key < d.key}
<1>1. PICK Q : Backward(merged, Q) /\ AllPrior(Q, x)
  BY DEF OnReverse
<1>. DEFINE R == Entries \ Q
<1>2. /\ \A d \in Entries : d.key \in Int /\ d.seq \in Int
      /\ sequence \in Int /\ x \in Entries
  BY EntryParts DEF On
<1>3. DownSet(Q) /\ Q \subseteq Entries
  BY <1>1 DEF Backward, DownSet
<1>4. Forward(m, R)
  <2>1. CASE Q = {}
    <3>1. ~Valid(merged) /\ R = Entries
      BY <1>1, <2>1 DEF Backward, Valid
    <3>. HIDE DEF R
    <3>. QED  BY <3>1, SeekToFirstIs
  <2>2. CASE Q # {}
    <3>1. Valid(merged)
      BY <1>1, <2>2 DEF Backward, Valid, Child
    <3>2. Greatest(Q, MergedKey(merged))
      BY <1>1, <2>2 DEF Backward
    <3>3. After(MergedKey(merged)) = R
      BY <1>3, <3>2, Order DEF After, Greatest, DownSet
    <3>4. Forward(MergedNext(merged), After(MergedKey(merged)))
      BY <1>1, <2>2, NextIs
    <3>. HIDE DEF R
    <3>. QED  BY <3>1, <3>3, <3>4
  <2>. QED  BY <2>1, <2>2
<1>5. \A d \in R : d.seq <= sequence => x.key <= d.key
  BY <1>1 DEF AllPrior
<1>6. \A d \in Entries : x.key <= d.key => d \in R
  BY <1>1, <1>2 DEF AllPrior
<1>7. \A d \in Entries : Skipped(s, d) <=> d.key <= x.key
  BY DEF Skipped
<1>8. PassInv(s, R)
  <2>1. s.skip = {x.key} /\ x.key \in Int /\ s.skipping /\ s.merged = m
    BY <1>2
  <2>2. ASSUME NEW d \in R, NEW c \in Entries, c.key = d.key, ~Skipped(s, d) PROVE c \in R
    BY <1>2, <1>6, <1>7, <2>2
  <2>3. s.skipping \in BOOLEAN
    OBVIOUS
  <2>. HIDE DEF s, R, m
  <2>. QED  BY <1>4, <1>5, <2>1, <2>2, <2>3 DEF PassInv
<1>9. Wanted(s, R) = W
  <2>1. R \subseteq Entries
    OBVIOUS
  <2>. HIDE DEF s, R
  <2>. QED  BY <1>2, <1>6, <1>7, <2>1 DEF Wanted, Currents
<1>10. LandsFirst(FindNextUserEntry(m, TRUE, {x.key}), W)
  <2>. HIDE DEF W, m, R
  <2>. QED  BY <1>8, <1>9, FindNextLands
<1>11. NextUserEntry = FindNextUserEntry(m, TRUE, {x.key})
  BY DEF NextUserEntry, OnReverse
<1>. QED  BY <1>10, <1>11

\* Next goes to the first of a later key, either way.
LEMMA NextLands ==
  ASSUME Bounds, ChildrenSound, NEW x, On(merged, iter, x)
  PROVE  LandsFirst(NextUserEntry, {d \in Currents(Entries) : x.key < d.key})
BY NextForwardLands, NextReverseLands DEF On

\* Turning around, back to before the entries of its key.
LEMMA PrevForwardLands ==
  ASSUME Bounds, ChildrenSound, NEW x, On(merged, iter, x), OnForward(merged, iter, x)
  PROVE  LandsLast(PrevUserEntry, {d \in Currents(Entries) : d.key < x.key})
<1>. DEFINE m == BackBefore(MergedPrev(merged), x.key)
            W == {d \in Currents(Entries) : d.key < x.key}
<1>1. PICK R : R # {} /\ Forward(merged, R)
  BY DEF OnForward
<1>2. /\ \A d \in Entries : d.key \in Int /\ d.seq \in Int
      /\ x \in Entries /\ x = MergedKey(merged)
  BY EntryParts DEF On, OnForward
<1>3. BackInv(MergedPrev(merged), Prior(x), x.key)
  <2>1. Backward(MergedPrev(merged), Prior(x))
    BY <1>1, <1>2, PrevIs
  <2>2. Below(x.key) \subseteq Prior(x)
    BY <1>2 DEF Below, Prior, Before
  <2>. QED  BY <2>1, <2>2 DEF BackInv
<1>4. Backward(m, Below(x.key))
  BY <1>2, <1>3, BackBeforeIs
<1>5. Currents(Below(x.key)) = W
  BY DEF Currents, Below
<1>6. PrevUserEntry = IF Valid(m) THEN FindPrevUserEntry(m, Backwards)
                      ELSE [merged |-> m, iter |-> NotValid("forward")]
  <2>1. iter.direction = "forward"
    BY DEF OnForward, NotValid
  <2>. QED  BY <1>2, <2>1 DEF PrevUserEntry
<1>. HIDE DEF m, W
<1>7. ASSUME Valid(m) PROVE LandsLast(PrevUserEntry, W)
  <2>1. Backwards \in IterType /\ Backwards.value = {}
    BY DEF Backwards, IterType
  <2>. DEFINE s == [merged |-> m, iter |-> Backwards]
  <2>2. KeepInv(s, Below(x.key), W)
    BY <1>4, <1>5, <2>1 DEF KeepInv
  <2>. HIDE DEF s
  <2>3. LandsLast(FindPrevUserEntry(m, Backwards), W)
    BY <2>2, FindPrevLands DEF s
  <2>. QED  BY <1>6, <1>7, <2>3
<1>8. ASSUME ~Valid(m) PROVE LandsLast(PrevUserEntry, W)
  <2>1. W = {}
    BY <1>4, <1>5, <1>8 DEF Backward, Valid, Child, Currents
  <2>2. ~PrevUserEntry.iter.valid
    BY <1>6, <1>8 DEF NotValid
  <2>. QED  BY <2>1, <2>2 DEF LandsLast
<1>9. LandsLast(PrevUserEntry, W)
  BY <1>7, <1>8
<1>. QED  BY <1>9 DEF W

\* Going backwards it is there already.
LEMMA PrevReverseLands ==
  ASSUME Bounds, ChildrenSound, NEW x, On(merged, iter, x), OnReverse(merged, iter, x)
  PROVE  LandsLast(PrevUserEntry, {d \in Currents(Entries) : d.key < x.key})
<1>. DEFINE i == [iter EXCEPT !.value = {}]
            s == [merged |-> merged, iter |-> i]
            W == {d \in Currents(Entries) : d.key < x.key}
<1>1. PICK Q : Backward(merged, Q) /\ AllPrior(Q, x)
  BY DEF OnReverse
<1>2. /\ \A d \in Entries : d.key \in Int /\ d.seq \in Int
      /\ sequence \in Int /\ x \in Entries
  BY EntryParts DEF On
<1>3. Q \subseteq Entries
  BY <1>1 DEF Backward, DownSet
<1>4. Currents(Q) = W
  BY <1>1, <1>2, <1>3 DEF AllPrior, Currents, Current
<1>5. iter = [valid |-> TRUE, direction |-> "reverse", key |-> {x.key}, value |-> {x.seq}]
  BY DEF OnReverse
<1>6. i \in IterType /\ i.value = {}
  <2>1. {x.key} \in SUBSET Int /\ {x.seq} \in SUBSET Int /\ {} \in SUBSET Int
    BY <1>2
  <2>. QED  BY <1>5, <2>1 DEF IterType
<1>7. KeepInv(s, Q, W)
  <2>. HIDE DEF i, W
  <2>. QED  BY <1>1, <1>4, <1>6 DEF KeepInv
<1>8. LandsLast(FindPrevUserEntry(merged, i), W)
  <2>. HIDE DEF i, W
  <2>. QED  BY <1>7, FindPrevLands
<1>9. PrevUserEntry = FindPrevUserEntry(merged, i)
  BY <1>5 DEF PrevUserEntry
<1>. QED  BY <1>8, <1>9

\* Prev goes to the last of an earlier key, either way.
LEMMA PrevLands ==
  ASSUME Bounds, ChildrenSound, NEW x, On(merged, iter, x)
  PROVE  LandsLast(PrevUserEntry, {d \in Currents(Entries) : d.key < x.key})
BY PrevForwardLands, PrevReverseLands DEF On

IterInv ==
  /\ ChildrenSound
  /\ iter.valid => \E x : On(merged, iter, x)

\* No call changes the entries, so that what was said of a position before it is true after it.
LEMMA SameEntries ==
  ASSUME children' = children, sequence' = sequence
  PROVE  /\ Entries' = Entries /\ Visible' = Visible
         /\ ChildrenSound => ChildrenSound'
         /\ \A m, i, x : On(m, i, x) => On(m, i, x)'
<1>1. Entries' = Entries
  BY DEF Entries
<1>2. Visible' = Visible
  BY <1>1 DEF Visible
<1>3. ChildrenSound => ChildrenSound'
  BY DEF ChildrenSound
<1>4. \A m : MergedKey(m)' = MergedKey(m)
  BY DEF MergedKey
<1>5. \A R : (UpSet(R) <=> UpSet(R)') /\ (DownSet(R) <=> DownSet(R)')
  BY <1>1 DEF UpSet, DownSet
<1>6. \A m, R : (Forward(m, R) => Forward(m, R)') /\ (Backward(m, R) => Backward(m, R)')
  BY <1>4, <1>5 DEF Forward, Backward
<1>7. \A x : Current(x) => Current(x)'
  BY <1>1 DEF Current
<1>8. \A Q, x : AllPrior(Q, x) => AllPrior(Q, x)'
  BY <1>1 DEF AllPrior
<1>9. \A m, i, x : On(m, i, x) => On(m, i, x)'
  BY <1>1, <1>4, <1>6, <1>7, <1>8 DEF On, OnForward, OnReverse
<1>. QED  BY <1>1, <1>2, <1>3, <1>9

\* What is shown of an entry.
ShowsItem ==
  /\ \A x : iter.valid /\ On(merged, iter, x) => Shown = {Item(x)}
  /\ ~iter.valid => Shown = {}

\* Both ways key() and value() are those of the entry it is on.
LEMMA ShownIs == ShowsItem
<1>1. ASSUME NEW x, iter.valid, OnForward(merged, iter, x) PROVE Shown = {Item(x)}
  BY <1>1 DEF OnForward, Shown, Item, NotValid
<1>2. ASSUME NEW x, iter.valid, OnReverse(merged, iter, x) PROVE Shown = {Item(x)}
  <2>1. iter.direction # "forward" /\ iter.key = {x.key} /\ iter.value = {x.seq}
    BY <1>2 DEF OnReverse
  <2>. QED  BY <1>2, <2>1 DEF Shown, Item
<1>3. ~iter.valid => Shown = {}
  BY DEF Shown
<1>. QED  BY <1>1, <1>2, <1>3 DEF On, ShowsItem

\* After a call the cursor is on the first of what it looks for, or off the end.
LEMMA MovedFirst ==
  ASSUME Bounds, ChildrenSound, NEW call, NEW r, NEW W, W \subseteq Currents(Entries),
         Moved(call, r), LandsFirst(r, W)
  PROVE  /\ IterInv' /\ Visible' = Visible
         /\ Shown' = View!First({Item(d) : d \in W})
<1>1. children' = children /\ sequence' = sequence /\ merged' = r.merged /\ iter' = r.iter
  BY DEF Moved
<1>2. /\ Visible' = Visible /\ ChildrenSound'
      /\ \A m, i, x : On(m, i, x) => On(m, i, x)'
  BY <1>1, SameEntries
<1>3. W \subseteq Entries /\ \A d \in W : Current(d)
  BY DEF Currents
<1>6. ShowsItem'
  BY ShownIs, PTL
<1>4. CASE W = {}
  <2>1. ~iter'.valid
    BY <1>1, <1>4 DEF LandsFirst
  <2>2. Shown' = {}
    BY <1>6, <2>1 DEF ShowsItem
  <2>3. View!First({Item(d) : d \in W}) = {}
    BY <1>3, <1>4, FirstIs
  <2>. QED  BY <1>2, <2>1, <2>2, <2>3 DEF IterInv
<1>5. CASE W # {}
  <2>1. PICK x : Least(W, x) /\ On(merged', iter', x) /\ iter'.valid
    BY <1>1, <1>5 DEF LandsFirst
  <2>2. On(merged, iter, x)'
    BY <1>2, <2>1
  <2>3. Shown' = {Item(x)}
    BY <1>6, <2>1, <2>2 DEF ShowsItem, Item
  <2>4. View!First({Item(d) : d \in W}) = {Item(x)}
    BY <1>3, <2>1, FirstIs
  <2>. QED  BY <1>2, <2>1, <2>2, <2>3, <2>4 DEF IterInv
<1>. QED  BY <1>4, <1>5

\* After a call the cursor is on the last of what it looks for, or off the end.
LEMMA MovedLast ==
  ASSUME Bounds, ChildrenSound, NEW call, NEW r, NEW W, W \subseteq Currents(Entries),
         Moved(call, r), LandsLast(r, W)
  PROVE  /\ IterInv' /\ Visible' = Visible
         /\ Shown' = View!Last({Item(d) : d \in W})
<1>1. children' = children /\ sequence' = sequence /\ merged' = r.merged /\ iter' = r.iter
  BY DEF Moved
<1>2. /\ Visible' = Visible /\ ChildrenSound'
      /\ \A m, i, x : On(m, i, x) => On(m, i, x)'
  BY <1>1, SameEntries
<1>3. W \subseteq Entries /\ \A d \in W : Current(d)
  BY DEF Currents
<1>6. ShowsItem'
  BY ShownIs, PTL
<1>4. CASE W = {}
  <2>1. ~iter'.valid
    BY <1>1, <1>4 DEF LandsLast
  <2>2. Shown' = {}
    BY <1>6, <2>1 DEF ShowsItem
  <2>3. View!Last({Item(d) : d \in W}) = {}
    BY <1>3, <1>4, LastIs
  <2>. QED  BY <1>2, <2>1, <2>2, <2>3 DEF IterInv
<1>5. CASE W # {}
  <2>1. PICK x : Greatest(W, x) /\ On(merged', iter', x) /\ iter'.valid
    BY <1>1, <1>5 DEF LandsLast
  <2>2. On(merged, iter, x)'
    BY <1>2, <2>1
  <2>3. Shown' = {Item(x)}
    BY <1>6, <2>1, <2>2 DEF ShowsItem, Item
  <2>4. View!Last({Item(d) : d \in W}) = {Item(x)}
    BY <1>3, <2>1, LastIs
  <2>. QED  BY <1>2, <2>1, <2>2, <2>3, <2>4 DEF IterInv
<1>. QED  BY <1>4, <1>5

\* The items of the entries that are to be shown, cut at a key.
LEMMA ItemsAre ==
  /\ Visible = {Item(d) : d \in Currents(Entries)}
  /\ \A k : {c \in Visible : c.key >= k} = {Item(d) : d \in {d \in Currents(Entries) : d.key >= k}}
  /\ \A k : {c \in Visible : k < c.key} = {Item(d) : d \in {d \in Currents(Entries) : k < d.key}}
  /\ \A k : {c \in Visible : c.key < k} = {Item(d) : d \in {d \in Currents(Entries) : d.key < k}}
<1>1. Visible = {Item(d) : d \in Currents(Entries)}
  BY VisibleAre DEF Currents
<1>2. \A d : Item(d).key = d.key
  BY DEF Item
<1>. QED  BY <1>1, <1>2

\* The cursor's own move.
LEMMA EachMove ==
  ASSUME Bounds, IterInv, Move
  PROVE  IterInv' /\ View!Move /\ UNCHANGED Visible
<1>0. ChildrenSound
  BY DEF IterInv
<1>1. CASE SeekToFirst
  <2>1. IterInv' /\ Visible' = Visible /\ Shown' = View!First(Visible)
    BY <1>0, <1>1, SeekToFirstLands, MovedFirst, ItemsAre DEF SeekToFirst
  <2>2. op' = <<"first">>
    BY <1>1 DEF SeekToFirst, Moved
  <2>. QED  BY <2>1, <2>2 DEF View!Move, View!SeekToFirst
<1>2. CASE SeekToLast
  <2>1. IterInv' /\ Visible' = Visible /\ Shown' = View!Last(Visible)
    BY <1>0, <1>2, SeekToLastLands, MovedLast, ItemsAre DEF SeekToLast
  <2>2. op' = <<"last">>
    BY <1>2 DEF SeekToLast, Moved
  <2>. QED  BY <2>1, <2>2 DEF View!Move, View!SeekToLast
<1>3. CASE \E k \in UserKey : Seek(k)
  <2>1. PICK k \in UserKey : Seek(k)
    BY <1>3
  <2>. DEFINE W == {d \in Currents(Entries) : d.key >= k}
              r == FindNextUserEntry(MergedSeek([key |-> k, seq |-> sequence]), FALSE, {})
  <2>2. LandsFirst(r, W) /\ Moved(<<"seek", k>>, r) /\ W \subseteq Currents(Entries)
    BY <1>0, <2>1, SeekLands DEF Seek
  <2>3. {Item(d) : d \in W} = {c \in Visible : c.key >= k}
    BY ItemsAre
  <2>. HIDE DEF W, r
  <2>4. IterInv' /\ Visible' = Visible /\ Shown' = View!First({c \in Visible : c.key >= k})
    BY <1>0, <2>2, <2>3, MovedFirst
  <2>5. op' = <<"seek", k>>
    BY <2>2 DEF Moved
  <2>6. View!Seek(k)
    BY <2>4, <2>5 DEF View!Seek, ItemEnds
  <2>. QED  BY <2>4, <2>6 DEF View!Move
<1>4. CASE Next
  <2>1. PICK x : On(merged, iter, x) /\ iter.valid
    BY <1>4 DEF Next, IterInv
  <2>. DEFINE W == {d \in Currents(Entries) : x.key < d.key}
  <2>2. LandsFirst(NextUserEntry, W) /\ Moved(<<"next">>, NextUserEntry)
        /\ W \subseteq Currents(Entries)
    BY <1>0, <1>4, <2>1, NextLands DEF Next
  <2>3. {Item(d) : d \in W} = {c \in Visible : x.key < c.key}
    BY ItemsAre
  <2>. HIDE DEF W
  <2>4. IterInv' /\ Visible' = Visible /\ Shown' = View!First({c \in Visible : x.key < c.key})
    BY <1>0, <2>2, <2>3, MovedFirst
  <2>5. op' = <<"next">>
    BY <2>2 DEF Moved
  <2>6. Shown = {Item(x)} /\ Item(x).key = x.key
    BY <2>1, ShownIs DEF ShowsItem, Item
  <2>7. {c \in Visible : \A a \in Shown : ItemLess(a, c)} = {c \in Visible : x.key < c.key}
    BY <2>6 DEF ItemLess
  <2>8. View!Next
    BY <2>4, <2>5, <2>6, <2>7 DEF View!Next
  <2>. QED  BY <2>4, <2>8 DEF View!Move
<1>5. CASE Prev
  <2>1. PICK x : On(merged, iter, x) /\ iter.valid
    BY <1>5 DEF Prev, IterInv
  <2>. DEFINE W == {d \in Currents(Entries) : d.key < x.key}
  <2>2. LandsLast(PrevUserEntry, W) /\ Moved(<<"prev">>, PrevUserEntry)
        /\ W \subseteq Currents(Entries)
    BY <1>0, <1>5, <2>1, PrevLands DEF Prev
  <2>3. {Item(d) : d \in W} = {c \in Visible : c.key < x.key}
    BY ItemsAre
  <2>. HIDE DEF W
  <2>4. IterInv' /\ Visible' = Visible /\ Shown' = View!Last({c \in Visible : c.key < x.key})
    BY <1>0, <2>2, <2>3, MovedLast
  <2>5. op' = <<"prev">>
    BY <2>2 DEF Moved
  <2>6. Shown = {Item(x)} /\ Item(x).key = x.key
    BY <2>1, ShownIs DEF ShowsItem, Item
  <2>7. {c \in Visible : \A a \in Shown : ItemLess(c, a)} = {c \in Visible : c.key < x.key}
    BY <2>6 DEF ItemLess
  <2>8. View!Prev
    BY <2>4, <2>5, <2>6, <2>7 DEF View!Prev
  <2>. QED  BY <2>4, <2>8 DEF View!Move
<1>. QED  BY <1>1, <1>2, <1>3, <1>4, <1>5 DEF Move

\* And nothing changes when nothing is called.
LEMMA Stutters ==
  ASSUME IterInv, UNCHANGED iterVars
  PROVE  IterInv' /\ UNCHANGED <<Shown, op>>
<1>1. /\ children' = children /\ sequence' = sequence
      /\ merged' = merged /\ iter' = iter /\ op' = op
  BY DEF iterVars
<1>2. ChildrenSound' /\ \A m, i, x : On(m, i, x) => On(m, i, x)'
  BY <1>1, SameEntries DEF IterInv
<1>3. IterInv'
  <2>1. ASSUME NEW x, On(merged, iter, x) PROVE On(merged, iter, x)'
    BY <1>1, <1>2, <2>1
  <2>. QED  BY <1>1, <1>2, <2>1 DEF IterInv
<1>4. Shown' = Shown
  BY <1>1 DEF Shown, MergedKey
<1>. QED  BY <1>1, <1>3, <1>4

-----------------------------------------------------------------------------
(* The lists at first.                                                      *)

Orderable(E) == IsFiniteSet(E) /\ Distinct(E)

IsSorting(E, s) ==
  /\ s \in [1 .. Cardinality(E) -> E]
  /\ \A i, j \in 1 .. Cardinality(E) : i < j => Before(s[i], s[j])

\* The last entry goes at the end of the others.
LEMMA SortingExists ==
  ASSUME Bounds
  PROVE  \A E : Orderable(E) => \E s : IsSorting(E, s)
<1>. DEFINE D == {n \in Nat : \A E : Orderable(E) /\ Cardinality(E) = n => \E s : IsSorting(E, s)}
<1>1. 0 \in D
  <2>1. ASSUME NEW E, Orderable(E), Cardinality(E) = 0 PROVE \E s : IsSorting(E, s)
    <3>1. [i \in 1 .. 0 |-> 0] \in [1 .. Cardinality(E) -> E]
      BY <2>1
    <3>2. IsSorting(E, [i \in 1 .. 0 |-> 0])
      BY <2>1, <3>1 DEF IsSorting
    <3>. QED  BY <3>2
  <2>. QED  BY <2>1
<1>2. ASSUME NEW n \in Nat, n \in D PROVE n + 1 \in D
  <2>1. ASSUME NEW E, Orderable(E), Cardinality(E) = n + 1 PROVE \E s : IsSorting(E, s)
    <3>1. E # {}
      BY <2>1, FS_EmptySet
    <3>2. PICK x : Greatest(E, x)
      BY <2>1, <3>1, LastOf DEF Orderable
    <3>. DEFINE U == E \ {x}
    <3>3. Orderable(U) /\ Cardinality(U) = n /\ x \in E
      <4>1. x \in E
        BY <3>2 DEF Greatest
      <4>2. IsFiniteSet(U) /\ Cardinality(U) = Cardinality(E) - 1
        BY <2>1, <4>1, FS_RemoveElement DEF Orderable, Distinct
      <4>. QED  BY <2>1, <4>1, <4>2 DEF Orderable, Distinct
    <3>4. PICK t : IsSorting(U, t)
      BY <1>2, <3>3
    <3>. DEFINE s == [i \in 1 .. n + 1 |-> IF i = n + 1 THEN x ELSE t[i]]
    <3>5. \A i \in 1 .. n : t[i] \in E /\ t[i] # x
      BY <3>3, <3>4 DEF IsSorting
    <3>6. s \in [1 .. n + 1 -> E]
      <4>1. ASSUME NEW i \in 1 .. n + 1 PROVE s[i] \in E
        BY <3>3, <3>5
      <4>. QED  BY <4>1
    <3>7. ASSUME NEW i \in 1 .. n + 1, NEW j \in 1 .. n + 1, i < j PROVE Before(s[i], s[j])
      <4>1. i \in 1 .. n /\ s[i] = t[i]
        BY <3>7
      <4>2. CASE j = n + 1
        BY <3>2, <3>5, <4>1, <4>2 DEF Greatest
      <4>3. CASE j # n + 1
        <5>1. j \in 1 .. n /\ s[j] = t[j]
          BY <4>3
        <5>. HIDE DEF s
        <5>. QED  BY <3>3, <3>4, <3>7, <4>1, <5>1 DEF IsSorting
      <4>. QED  BY <4>2, <4>3
    <3>. HIDE DEF s
    <3>8. IsSorting(E, s)
      BY <2>1, <3>6, <3>7 DEF IsSorting
    <3>. QED  BY <3>8
  <2>. QED  BY <2>1
<1>. HIDE DEF D
<1>3. \A n \in Nat : n \in D
  BY <1>1, <1>2, Induction
<1>4. ASSUME NEW E, Orderable(E) PROVE \E s : IsSorting(E, s)
  <2>1. Cardinality(E) \in Nat
    BY <1>4, FS_CardinalityType DEF Orderable, Distinct
  <2>2. Cardinality(E) \in D
    BY <1>3, <2>1
  <2>. QED  BY <1>4, <2>2 DEF D
<1>. QED  BY <1>4

\* The list of a child is sorted.
LEMMA SortedIs ==
  ASSUME Bounds, NEW E, Orderable(E)
  PROVE  IsSorting(E, Sorted(E))
<1>1. \E s : IsSorting(E, s)
  BY SortingExists
<1>2. \E s \in [1 .. Cardinality(E) -> E] :
        \A i, j \in 1 .. Cardinality(E) : i < j => Before(s[i], s[j])
  BY <1>1 DEF IsSorting
<1>. QED  BY <1>2, Zenon DEF Sorted, IsSorting

\* At first the children are sorted and nothing is shown.
LEMMA InitIsSound ==
  ASSUME Bounds, Init
  PROVE  IterInv /\ View!Init
<1>1. PICK n \in 0 .. NumEntries : \E key \in [1 .. n -> UserKey],
         type \in [1 .. n -> {"value", "deletion"}], where \in [1 .. n -> Child] :
           children = [c \in Child |-> Sorted(
             {[key |-> key[s], seq |-> s, type |-> type[s]] : s \in {t \in 1 .. n : where[t] = c}})]
  BY DEF Init
<1>2. PICK key \in [1 .. n -> UserKey] : \E type \in [1 .. n -> {"value", "deletion"}],
           where \in [1 .. n -> Child] :
           children = [c \in Child |-> Sorted(
             {[key |-> key[s], seq |-> s, type |-> type[s]] : s \in {t \in 1 .. n : where[t] = c}})]
  BY <1>1
<1>3. PICK type \in [1 .. n -> {"value", "deletion"}] : \E where \in [1 .. n -> Child] :
           children = [c \in Child |-> Sorted(
             {[key |-> key[s], seq |-> s, type |-> type[s]] : s \in {t \in 1 .. n : where[t] = c}})]
  BY <1>2
<1>4. PICK where \in [1 .. n -> Child] :
           children = [c \in Child |-> Sorted(
             {[key |-> key[s], seq |-> s, type |-> type[s]] : s \in {t \in 1 .. n : where[t] = c}})]
  BY <1>3
<1>. DEFINE At(s) == [key |-> key[s], seq |-> s, type |-> type[s]]
            E(c) == {At(s) : s \in {t \in 1 .. n : where[t] = c}}
<1>5. ASSUME NEW c \in Child PROVE Orderable(E(c)) /\ \A e \in E(c) : where[e.seq] = c
  <2>1. \A s \in 1 .. n : At(s) \in Entry /\ At(s).seq = s /\ s \in 1 .. NumEntries
    BY <1>1 DEF Entry, Bounds
  <2>2. E(c) \subseteq Entry /\ \A e \in E(c) : where[e.seq] = c
    BY <2>1
  <2>3. \A a, b \in E(c) : a.seq = b.seq => a = b
    BY <2>1
  <2>4. IsFiniteSet(E(c))
    <3>. DEFINE f == [e \in E(c) |-> e.seq]
    <3>1. \A e \in E(c) : e.seq \in 1 .. n
      BY <2>1
    <3>. HIDE DEF E
    <3>2. f \in Injection(E(c), 1 .. n)
      <4>1. f \in [E(c) -> 1 .. n]
        BY <3>1
      <4>2. \A a, b \in E(c) : f[a] = f[b] => a = b
        BY <2>3
      <4>. QED  BY <4>1, <4>2 DEF Injection, IsInjective
    <3>3. IsFiniteSet(1 .. n)
      BY <1>1, FS_Interval DEF Bounds
    <3>. QED  BY <3>2, <3>3, FS_Injection
  <2>. QED  BY <2>2, <2>3, <2>4 DEF Orderable, Distinct
<1>. HIDE DEF E
<1>6. ASSUME NEW c \in Child PROVE children[c] = Sorted(E(c))
  BY <1>4, <1>6 DEF E
<1>7. ASSUME NEW c \in Child
      PROVE  IsSorting(E(c), children[c]) /\ Cardinality(E(c)) \in Nat
  BY <1>5, <1>6, SortedIs, FS_CardinalityType DEF Orderable, Distinct
<1>8. ASSUME NEW c \in Child
      PROVE  /\ children[c] \in Seq(Entry)
             /\ \A i \in DOMAIN children[c] : children[c][i] \in E(c) /\ i \in Int
             /\ \A i, j \in DOMAIN children[c] : i < j => Before(children[c][i], children[c][j])
  <2>1. children[c] \in [1 .. Cardinality(E(c)) -> E(c)] /\ Cardinality(E(c)) \in Nat
    BY <1>7 DEF IsSorting
  <2>2. E(c) \subseteq Entry
    BY <1>5 DEF Orderable, Distinct
  <2>3. children[c] \in [1 .. Cardinality(E(c)) -> Entry]
    BY <2>1, <2>2
  <2>4. children[c] \in Seq(Entry)
    BY <2>1, <2>3, SeqDef
  <2>. QED  BY <1>7, <2>1, <2>4 DEF IsSorting
<1>9. children \in [Child -> Seq(Entry)]
  <2>1. \A c \in Child : children[c] \in Seq(Entry)
    BY <1>8
  <2>2. DOMAIN children = Child /\ children = [c \in Child |-> children[c]]
    BY <1>4
  <2>. QED  BY <2>1, <2>2
<1>10. ASSUME NEW c \in Child, NEW d \in Child, NEW i \in DOMAIN children[c],
              NEW j \in DOMAIN children[d], children[c][i].seq = children[d][j].seq
       PROVE  c = d /\ i = j
  <2>1. children[c][i] \in E(c) /\ children[d][j] \in E(d)
    BY <1>8
  <2>2. c = d
    BY <1>5, <1>10, <2>1
  <2>3. children[c][i] = children[c][j]
    BY <1>5, <1>10, <2>1, <2>2 DEF Orderable, Distinct
  <2>4. children[c][i].key \in Int /\ children[c][i].seq \in Int /\ i \in Nat /\ j \in Nat
    <3>1. children[c][i] \in Entry
      BY <1>5, <2>1 DEF Orderable, Distinct
    <3>. QED  BY <1>8, <1>10, <2>2, <3>1 DEF Entry, UserKey, Bounds
  <2>5. ~Before(children[c][i], children[c][i])
    BY <2>4 DEF Before
  <2>6. j \in DOMAIN children[c] /\ j \in Int
    BY <1>8, <2>2
  <2>7. ~(i < j)
    BY <1>8, <2>3, <2>5, <2>6
  <2>8. ~(j < i)
    BY <1>8, <2>3, <2>5, <2>6
  <2>. QED  BY <2>2, <2>4, <2>6, <2>7, <2>8
<1>11. ChildrenSound
  <2>1. sequence \in Nat
    BY DEF Init, Bounds
  <2>. QED  BY <1>8, <1>9, <1>10, <2>1 DEF ChildrenSound
<1>12. ~iter.valid /\ op = <<"none">>
  BY DEF Init, NotValid
<1>13. Shown = {}
  BY <1>12 DEF Shown
<1>. QED  BY <1>11, <1>12, <1>13 DEF IterInv, View!Init

-----------------------------------------------------------------------------
(***************************************************************************)
(* Whatever the entries, however they are spread over the memtables and    *)
(* tables, and whatever calls came before: DBIter over MergingIterator     *)
(* shows each user key once, at its newest value at the sequence number,   *)
(* none that was deleted, and every call goes to the key that it should.   *)
(***************************************************************************)
THEOREM IteratorCorrect ==
  ASSUME NumUserKeys \in Nat, NumEntries \in Nat, NumChildren \in Nat
  PROVE  Spec => IteratorIsCursor
<1>. Bounds
  BY DEF Bounds
<1>1. Init => IterInv /\ View!Init
  BY InitIsSound
<1>2. IterInv /\ [Move]_iterVars => IterInv'
  BY EachMove, Stutters
<1>3. IterInv /\ [Move]_iterVars => [View!Move /\ UNCHANGED Visible]_<<Shown, op>>
  BY EachMove, Stutters
<1>. QED  BY <1>1, <1>2, <1>3, PTL DEF Spec, IteratorIsCursor, View!Spec
=============================================================================
