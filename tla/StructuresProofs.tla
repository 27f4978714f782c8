-------------------------- MODULE StructuresProofs --------------------------
(***************************************************************************)
(* Theorems about three structures of LevelDB.  The cache, for any keys,   *)
(* charges, capacity and number of handles: no handle refers to an entry   *)
(* that was freed, no entry is left behind, what is over the capacity is   *)
(* in use, and the usage is what the entries in the cache are charged.     *)
(* The searches of the skip list, beside an insertion, for any number of   *)
(* keys and levels.  And the log, for blocks and headers of any size and   *)
(* records of any lengths: what is read of a file that was cut, of one     *)
(* that is read from an offset and of one with a damaged fragment.         *)
(*                                                                         *)
(* The argument for the log: the fragments lie in their blocks one after   *)
(* another, each at the only place where a reader that has passed the one  *)
(* before looks for it.  A fragment is readable when it is not before the  *)
(* offset, not cut and not after a bad one in its block, which is said of  *)
(* the file and not of the reader.  After every turn the reader is at a    *)
(* place with k fragments before it and has found the records of which all *)
(* fragments are readable, as far as they are among the k; and every turn  *)
(* but the last makes k larger.                                            *)
(***************************************************************************)
EXTENDS LRUCache, SkipList, LogFormat, Extrema, SequenceTheorems, TLAPS

-----------------------------------------------------------------------------
(* The cache.                                                               *)

Handle == [key : Key, charge : Nat, refs : Nat]

In(s, e) == \E i \in DOMAIN s : s[i] = e

\* The references of an entry are the handles callers have on it and one of the cache's
\* while it is in the cache; an entry without references is not there.
Counts(E, C, h) ==
  /\ DOMAIN E \subseteq Address /\ C \subseteq DOMAIN E
  /\ \A e \in DOMAIN E : E[e] \in Handle /\ E[e].refs > 0
  /\ h \in [Address -> Nat]
  /\ \A e \in Address \ DOMAIN E : h[e] = 0
  /\ \A e \in C : E[e].refs = h[e] + 1
  /\ \A e \in DOMAIN E \ C : E[e].refs = h[e]

\* The entries in the cache are those the table has, each under its key.
Found(E, C, t) ==
  /\ t \in [Key -> Address \cup {None}]
  /\ \A k \in Key : t[k] # None => t[k] \in C /\ E[t[k]].key = k
  /\ \A e \in C : t[E[e].key] = e

\* The LRU list has the entries in the cache that nobody holds, each once.
Listed(C, L, h) ==
  /\ L \in Seq(Address) /\ IsInjective(L)
  /\ \A e \in Address : In(L, e) <=> e \in C /\ h[e] = 0

Agree(E, C, L, t, h) == Counts(E, C, h) /\ Found(E, C, t) /\ Listed(C, L, h)

CacheInv ==
  Agree(entries, inCache, lru, table, handles) /\ loop \in {"none", "insert", "prune"}

-----------------------------------------------------------------------------
(* Lists.                                                                   *)

\* Taking an entry out of a list without repetitions.
LEMMA WithoutFacts ==
  ASSUME NEW S, NEW s \in Seq(S), IsInjective(s), NEW e
  PROVE  /\ Without(s, e) \in Seq(S) /\ IsInjective(Without(s, e))
         /\ \A d : In(Without(s, e), d) <=> In(s, d) /\ d # e
<1>1. CASE ~In(s, e)
  BY <1>1 DEF Without, In
<1>2. CASE In(s, e)
  <2> DEFINE i == CHOOSE j \in DOMAIN s : s[j] = e
  <2>1. i \in DOMAIN s /\ s[i] = e
    BY <1>2 DEF In
  <2>2. \A j \in DOMAIN s : s[j] = e => j = i
    BY <2>1 DEF IsInjective
  <2> DEFINE a == SubSeq(s, 1, i - 1)
  <2> DEFINE b == SubSeq(s, i + 1, Len(s))
  <2>3. Without(s, e) = a \o b
    BY <1>2 DEF Without, In
  <2> HIDE DEF i
  <2>4. a \in Seq(S) /\ Len(a) = i - 1 /\ \A j \in 1 .. i - 1 : a[j] = s[j]
    BY <2>1
  <2>5. b \in Seq(S) /\ Len(b) = Len(s) - i /\ \A j \in 1 .. Len(s) - i : b[j] = s[i + j]
    BY <2>1
  <2> HIDE DEF a, b
  <2> DEFINE w == a \o b
  <2>6. w \in Seq(S) /\ DOMAIN w = 1 .. Len(s) - 1
    BY <2>1, <2>4, <2>5
  <2>7. \A j \in DOMAIN w : w[j] = IF j < i THEN s[j] ELSE s[j + 1]
    BY <2>1, <2>4, <2>5, SMTT(30)
  <2> HIDE DEF w
  <2>8. IsInjective(w)
    BY <2>1, <2>6, <2>7 DEF IsInjective
  <2>9. ASSUME NEW d PROVE In(w, d) <=> In(s, d) /\ d # e
    <3>1. ASSUME NEW j \in DOMAIN w, w[j] = d PROVE In(s, d) /\ d # e
      BY <2>1, <2>2, <2>6, <2>7, <3>1, SMTT(30) DEF In
    <3>2. ASSUME NEW j \in DOMAIN s, s[j] = d, d # e PROVE In(w, d)
      <4>1. CASE j < i
        BY <2>1, <2>6, <2>7, <3>2, <4>1, SMTT(30) DEF In
      <4>2. CASE j > i
        <5>1. j - 1 \in DOMAIN w /\ w[j - 1] = s[j]
          BY <2>1, <2>6, <2>7, <4>2
        <5>. QED  BY <3>2, <5>1 DEF In
      <4>. QED  BY <2>1, <3>2, <4>1, <4>2
    <3>. QED  BY <3>1, <3>2 DEF In
  <2>. QED  BY <2>3, <2>6, <2>8, <2>9 DEF w
<1>. QED  BY <1>1, <1>2

\* An entry that is new to the list at its end.
LEMMA AppendFacts ==
  ASSUME NEW S, NEW s \in Seq(S), IsInjective(s), NEW e \in S, ~In(s, e)
  PROVE  /\ Append(s, e) \in Seq(S) /\ IsInjective(Append(s, e))
         /\ \A d : In(Append(s, e), d) <=> In(s, d) \/ d = e
<1>1. /\ Append(s, e) \in Seq(S)
      /\ DOMAIN Append(s, e) = DOMAIN s \cup {Len(s) + 1}
      /\ Len(s) + 1 \notin DOMAIN s
      /\ Append(s, e)[Len(s) + 1] = e
      /\ \A j \in DOMAIN s : Append(s, e)[j] = s[j]
  OBVIOUS
<1>. QED  BY <1>1 DEF IsInjective, In

-----------------------------------------------------------------------------
(* What the operators of the cache do to the entries and to the LRU list.   *)

\* One reference more; the entry leaves the list.
LEMMA RefResult ==
  ASSUME NEW E, NEW C, NEW L, NEW U, NEW n, NEW e
  PROVE  LET c == Ref(Shard(E, C, L, U, n), e)
         IN /\ c.entries = Counted(E, e, 1)
            /\ c.inCache = C
            /\ E[e].refs = 1 /\ e \in C => c.lru = Without(L, e)
            /\ ~(E[e].refs = 1 /\ e \in C) => c.lru = L
<1>1. CASE E[e].refs = 1 /\ e \in C
  BY <1>1 DEF Ref, Shard
<1>2. CASE ~(E[e].refs = 1 /\ e \in C)
  BY <1>2 DEF Ref, Shard
<1>. QED  BY <1>1, <1>2

\* One reference less; with the last one the entry goes, with the last but the cache's it
\* comes to the end of the list.
LEMMA UnrefResult ==
  ASSUME NEW E, NEW C, NEW L, NEW U, NEW n, NEW e
  PROVE  LET c == Unref(Shard(E, C, L, U, n), e)
         IN /\ E[e].refs = 1 => c.entries = Freed(E, e)
            /\ E[e].refs # 1 => c.entries = Counted(E, e, -1)
            /\ c.inCache = C
            /\ E[e].refs = 2 /\ e \in C => c.lru = Append(Without(L, e), e)
            /\ ~(E[e].refs = 2 /\ e \in C) => c.lru = L
<1>1. CASE E[e].refs = 1
  BY <1>1 DEF Unref, Shard
<1>2. CASE E[e].refs = 2 /\ e \in C
  BY <1>2 DEF Unref, Shard
<1>3. CASE E[e].refs # 1 /\ ~(E[e].refs = 2 /\ e \in C)
  BY <1>3 DEF Unref, Shard
<1>. QED  BY <1>1, <1>2, <1>3

\* The entry leaves the cache and the list, and goes when nobody holds it.
LEMMA FinishEraseResult ==
  ASSUME NEW E, NEW C, NEW L, NEW U, NEW n, NEW e, e # None
  PROVE  LET c == FinishErase(Shard(E, C, L, U, n), e)
         IN /\ E[e].refs = 1 => c.entries = Freed(E, e)
            /\ E[e].refs # 1 => c.entries = Counted(E, e, -1)
            /\ c.inCache = C \ {e}
            /\ c.lru = Without(L, e)
<1> DEFINE u == Shard(E, C \ {e}, Without(L, e), U \ {e}, n - E[e].charge)
<1>1. Uncached(Shard(E, C, L, U, n), e, Shard(E, C, L, U, n).entries[e].charge) = u
  BY DEF Uncached, Shard
<1>2. FinishErase(Shard(E, C, L, U, n), e) = Unref(u, e)
  BY <1>1 DEF FinishErase
<1>. QED  BY <1>2, UnrefResult
-----------------------------------------------------------------------------
(* Each of the operations keeps the agreement.                              *)

\* Lookup: one reference and one handle more.
LEMMA AgreeLookup ==
  ASSUME NEW E, NEW C, NEW L, NEW t, NEW h, Agree(E, C, L, t, h),
         NEW e \in C, NEW L2, 
         E[e].refs = 1 => L2 = Without(L, e),
         E[e].refs # 1 => L2 = L
  PROVE  Agree(Counted(E, e, 1), C, L2, t, [h EXCEPT ![e] = @ + 1])
<1>1. e \in DOMAIN E /\ e \in Address /\ E[e] \in Handle /\ E[e].refs = h[e] + 1 /\ h[e] \in Nat
  BY DEF Agree, Counts
<1> DEFINE E2 == Counted(E, e, 1)
<1>2. /\ DOMAIN E2 = DOMAIN E /\ E2[e] \in Handle
      /\ E2[e].key = E[e].key /\ E2[e].refs = E[e].refs + 1
      /\ \A d \in DOMAIN E \ {e} : E2[d] = E[d]
  BY <1>1 DEF Counted, Handle
<1> HIDE DEF E2
<1> DEFINE h2 == [h EXCEPT ![e] = @ + 1]
<1>3. h2 \in [Address -> Nat] /\ h2[e] = h[e] + 1 /\ \A d \in Address \ {e} : h2[d] = h[d]
  BY <1>1 DEF Agree, Counts
<1> HIDE DEF h2
<1>4. Counts(E2, C, h2)
  BY <1>1, <1>2, <1>3 DEF Agree, Counts
<1>5. Found(E2, C, t)
  BY <1>1, <1>2 DEF Agree, Counts, Found
<1>6. Listed(C, L2, h2)
  <2>1. CASE h[e] = 0
    <3>1. /\ L2 \in Seq(Address) /\ IsInjective(L2)
          /\ \A d : In(L2, d) <=> In(L, d) /\ d # e
      BY <1>1, <2>1, WithoutFacts DEF Agree, Listed
    <3>. QED  BY <1>1, <1>3, <3>1, SMTT(30) DEF Agree, Listed
  <2>2. CASE h[e] # 0
    <3>1. L2 = L
      BY <1>1, <2>2
    <3>. QED  BY <1>1, <1>3, <2>2, <3>1 DEF Agree, Listed
  <2>. QED  BY <2>1, <2>2
<1>. QED  BY <1>4, <1>5, <1>6 DEF Agree, E2, h2

\* Release: one reference and one handle less.
LEMMA AgreeRelease ==
  ASSUME NEW E, NEW C, NEW L, NEW t, NEW h, Agree(E, C, L, t, h),
         NEW e \in Address, h[e] > 0, NEW E2, NEW L2,
         E[e].refs = 1 => E2 = Freed(E, e),
         E[e].refs # 1 => E2 = Counted(E, e, -1),
         E[e].refs = 2 /\ e \in C => L2 = Append(Without(L, e), e),
         ~(E[e].refs = 2 /\ e \in C) => L2 = L
  PROVE  Agree(E2, C, L2, t, [h EXCEPT ![e] = @ - 1])
<1>1. e \in DOMAIN E /\ E[e] \in Handle /\ E[e].refs \in Nat /\ h[e] \in Nat
  BY DEF Agree, Counts, Handle
<1> DEFINE h2 == [h EXCEPT ![e] = @ - 1]
<1>2. h2 \in [Address -> Nat] /\ h2[e] = h[e] - 1 /\ \A d \in Address \ {e} : h2[d] = h[d]
  BY <1>1 DEF Agree, Counts
<1> HIDE DEF h2
<1>3. CASE E[e].refs = 1
  <2>1. e \notin C /\ h[e] = 1
    BY <1>1, <1>3 DEF Agree, Counts
  <2>2. DOMAIN E2 = DOMAIN E \ {e} /\ \A d \in DOMAIN E2 : E2[d] = E[d]
    BY <1>3 DEF Freed
  <2>3. Counts(E2, C, h2)
    BY <1>1, <1>2, <2>1, <2>2 DEF Agree, Counts
  <2>4. Found(E2, C, t)
    BY <2>1, <2>2 DEF Agree, Counts, Found
  <2>5. Listed(C, L2, h2)
    <3>1. L2 = L
      BY <1>3
    <3>. QED  BY <1>2, <2>1, <3>1 DEF Agree, Listed
  <2>. QED  BY <2>3, <2>4, <2>5 DEF Agree, h2
<1>4. CASE E[e].refs # 1
  <2>1. /\ DOMAIN E2 = DOMAIN E /\ E2[e] \in Handle
        /\ E2[e].key = E[e].key /\ E2[e].refs = E[e].refs - 1
        /\ \A d \in DOMAIN E \ {e} : E2[d] = E[d]
    <3>1. E[e].refs > 0
      BY <1>1 DEF Agree, Counts
    <3>. QED  BY <1>1, <1>4, <3>1 DEF Counted, Handle
  <2>2. Counts(E2, C, h2)
    <3>1. E2[e].refs > 0 /\ h2[e] \in Nat
      <4>1. E[e].refs > 0
        BY <1>1 DEF Agree, Counts
      <4>. QED  BY <1>1, <1>2, <1>4, <2>1, <4>1
    <3>2. \A d \in DOMAIN E2 : E2[d] \in Handle /\ E2[d].refs > 0
      BY <2>1, <3>1 DEF Agree, Counts
    <3>3. \A d \in C : E2[d].refs = h2[d] + 1
      <4>1. E[e].refs = h[e] + 1 => E2[e].refs = h2[e] + 1
        BY <1>1, <1>2, <2>1
      <4>. QED  BY <1>2, <2>1, <4>1 DEF Agree, Counts
    <3>4. \A d \in DOMAIN E2 \ C : E2[d].refs = h2[d]
      <4>1. E[e].refs = h[e] => E2[e].refs = h2[e]
        BY <1>1, <1>2, <2>1
      <4>. QED  BY <1>2, <2>1, <4>1 DEF Agree, Counts
    <3>5. \A d \in Address \ DOMAIN E2 : h2[d] = 0
      BY <1>1, <1>2, <2>1 DEF Agree, Counts
    <3>. QED  BY <1>2, <2>1, <3>2, <3>3, <3>4, <3>5 DEF Agree, Counts
  <2>3. Found(E2, C, t)
    <3>1. \A d \in DOMAIN E : E2[d].key = E[d].key
      BY <2>1
    <3>2. C \subseteq DOMAIN E
      BY DEF Agree, Counts
    <3>. QED  BY <3>1, <3>2 DEF Agree, Found
  <2>4. Listed(C, L2, h2)
    <3>1. CASE e \in C /\ h[e] = 1
      <4>1. E[e].refs = 2
        BY <3>1 DEF Agree, Counts
      <4>2. ~In(L, e)
        BY <3>1 DEF Agree, Listed
      <4>3. Without(L, e) = L
        BY <4>2 DEF Without, In
      <4>4. /\ L2 \in Seq(Address) /\ IsInjective(L2)
            /\ \A d : In(L2, d) <=> In(L, d) \/ d = e
        <5>1. L2 = Append(L, e)
          BY <3>1, <4>1, <4>3
        <5>2. L \in Seq(Address) /\ IsInjective(L)
          BY DEF Agree, Listed
        <5>. QED  BY <4>2, <5>1, <5>2, AppendFacts
      <4>5. h2[e] = 0
        BY <1>1, <1>2, <3>1
      <4>6. \A d \in Address : In(L2, d) <=> d \in C /\ h2[d] = 0
        <5>1. \A d \in Address : In(L, d) <=> d \in C /\ h[d] = 0
          BY DEF Agree, Listed
        <5>2. \A d \in Address \ {e} : In(L2, d) <=> d \in C /\ h2[d] = 0
          BY <1>2, <4>4, <5>1
        <5>. QED  BY <3>1, <4>4, <4>5, <5>2
      <4>. QED  BY <4>4, <4>6 DEF Listed
    <3>2. CASE ~(e \in C /\ h[e] = 1)
      <4>1. L2 = L
        <5>1. e \in C => E[e].refs = h[e] + 1
          BY DEF Agree, Counts
        <5>. QED  BY <1>1, <3>2, <5>1
      <4>. QED  BY <1>1, <1>2, <3>2, <4>1 DEF Agree, Listed
    <3>. QED  BY <3>1, <3>2
  <2>. QED  BY <2>2, <2>3, <2>4 DEF Agree, h2
<1>. QED  BY <1>3, <1>4

\* What the table had under a key leaves the table and the cache.
LEMMA AgreeErase ==
  ASSUME NEW E, NEW C, NEW L, NEW t, NEW h, Agree(E, C, L, t, h),
         NEW k \in Key, t[k] # None, NEW E2, NEW e, e = t[k],
         E[e].refs = 1 => E2 = Freed(E, e),
         E[e].refs # 1 => E2 = Counted(E, e, -1)
  PROVE  Agree(E2, C \ {e}, Without(L, e), [t EXCEPT ![k] = None], h)
<1>1. /\ e \in C /\ e \in DOMAIN E /\ e \in Address /\ E[e] \in Handle
      /\ E[e].refs = h[e] + 1 /\ h[e] \in Nat /\ E[e].key = k
  BY DEF Agree, Counts, Found
<1> DEFINE t2 == [t EXCEPT ![k] = None]
<1>2. t2 \in [Key -> Address \cup {None}] /\ t2[k] = None /\ \A q \in Key \ {k} : t2[q] = t[q]
  BY DEF Agree, Found
<1> HIDE DEF t2
<1>3. \A d \in C \ {e} : E[d].key # k /\ E[d].key \in Key
  BY <1>1 DEF Agree, Found, Counts, Handle
<1>4. Listed(C \ {e}, Without(L, e), h)
  <2>1. /\ Without(L, e) \in Seq(Address) /\ IsInjective(Without(L, e))
        /\ \A d : In(Without(L, e), d) <=> In(L, d) /\ d # e
    BY WithoutFacts DEF Agree, Listed
  <2>. QED  BY <2>1 DEF Agree, Listed
<1>5. CASE E[e].refs = 1
  <2>1. DOMAIN E2 = DOMAIN E \ {e} /\ \A d \in DOMAIN E2 : E2[d] = E[d]
    BY <1>5 DEF Freed
  <2>2. Counts(E2, C \ {e}, h)
    BY <1>1, <1>5, <2>1 DEF Agree, Counts
  <2>3. Found(E2, C \ {e}, t2)
    BY <1>1, <1>2, <1>3, <2>1 DEF Agree, Counts, Found
  <2>. QED  BY <1>4, <2>2, <2>3 DEF Agree, t2
<1>6. CASE E[e].refs # 1
  <2>1. /\ DOMAIN E2 = DOMAIN E /\ E2[e] \in Handle
        /\ E2[e].key = E[e].key /\ E2[e].refs = E[e].refs - 1
        /\ \A d \in DOMAIN E \ {e} : E2[d] = E[d]
    BY <1>1, <1>6 DEF Counted, Handle
  <2>2. Counts(E2, C \ {e}, h)
    BY <1>1, <1>6, <2>1 DEF Agree, Counts
  <2>3. Found(E2, C \ {e}, t2)
    BY <1>1, <1>2, <1>3, <2>1 DEF Agree, Counts, Found
  <2>. QED  BY <1>4, <2>2, <2>3 DEF Agree, t2
<1>. QED  BY <1>5, <1>6

\* A new entry with a handle, in the cache under a key that the table does not have.
LEMMA AgreeInsert ==
  ASSUME NEW E, NEW C, NEW L, NEW t, NEW h, Agree(E, C, L, t, h),
         NEW k \in Key, t[k] = None, NEW n \in Nat, NEW e \in Address \ DOMAIN E
  PROVE  Agree(Added(E, e, [key |-> k, charge |-> n, refs |-> 2]), C \cup {e}, L,
               [t EXCEPT ![k] = e], [h EXCEPT ![e] = @ + 1])
<1> DEFINE new == [key |-> k, charge |-> n, refs |-> 2]
<1>1. new \in Handle /\ new.refs = 2 /\ new.key = k
  BY DEF Handle
<1> HIDE DEF new
<1> DEFINE E2 == Added(E, e, new)
<1>2. DOMAIN E2 = DOMAIN E \cup {e} /\ E2[e] = new /\ \A d \in DOMAIN E : E2[d] = E[d]
  BY DEF Added
<1> HIDE DEF E2
<1> DEFINE t2 == [t EXCEPT ![k] = e]
<1>3. t2 \in [Key -> Address \cup {None}] /\ t2[k] = e /\ \A q \in Key \ {k} : t2[q] = t[q]
  BY DEF Agree, Found
<1> HIDE DEF t2
<1> DEFINE h2 == [h EXCEPT ![e] = @ + 1]
<1>4. h2 \in [Address -> Nat] /\ h2[e] = 1 /\ \A d \in Address \ {e} : h2[d] = h[d]
  BY DEF Agree, Counts
<1> HIDE DEF h2
<1>5. Counts(E2, C \cup {e}, h2)
  BY <1>1, <1>2, <1>4 DEF Agree, Counts
<1>6. Found(E2, C \cup {e}, t2)
  <2>1. \A d \in C : d \in DOMAIN E /\ E[d].key \in Key /\ t[E[d].key] = d /\ d # None
    BY CacheAssumption DEF Agree, Counts, Found, Handle
  <2>2. \A d \in C : E[d].key # k
    BY <2>1
  <2>. QED  BY <1>1, <1>2, <1>3, <2>1, <2>2 DEF Agree, Found
<1>7. Listed(C \cup {e}, L, h2)
  BY <1>4 DEF Agree, Counts, Listed
<1>. QED  BY <1>5, <1>6, <1>7 DEF Agree, E2, t2, h2, new

\* A new entry of a cache without capacity, which only its handle refers to.
LEMMA AgreeUncached ==
  ASSUME NEW E, NEW C, NEW L, NEW t, NEW h, Agree(E, C, L, t, h),
         NEW k \in Key, NEW n \in Nat, NEW e \in Address \ DOMAIN E
  PROVE  Agree(Added(E, e, [key |-> k, charge |-> n, refs |-> 1]), C, L, t,
               [h EXCEPT ![e] = @ + 1])
<1> DEFINE new == [key |-> k, charge |-> n, refs |-> 1]
<1>1. new \in Handle /\ new.refs = 1
  BY DEF Handle
<1> HIDE DEF new
<1> DEFINE E2 == Added(E, e, new)
<1>2. DOMAIN E2 = DOMAIN E \cup {e} /\ E2[e] = new /\ \A d \in DOMAIN E : E2[d] = E[d]
  BY DEF Added
<1> HIDE DEF E2
<1> DEFINE h2 == [h EXCEPT ![e] = @ + 1]
<1>3. h2 \in [Address -> Nat] /\ h2[e] = 1 /\ \A d \in Address \ {e} : h2[d] = h[d]
  BY DEF Agree, Counts
<1> HIDE DEF h2
<1>4. Counts(E2, C, h2)
  BY <1>1, <1>2, <1>3 DEF Agree, Counts
<1>5. Found(E2, C, t)
  BY <1>2 DEF Agree, Counts, Found
<1>6. Listed(C, L, h2)
  BY <1>3 DEF Agree, Counts, Listed
<1>. QED  BY <1>4, <1>5, <1>6 DEF Agree, E2, h2, new

\* The entry that goes and the entry that comes are not the same.
LEMMA AddedCommutes ==
  ASSUME NEW E, NEW d \in DOMAIN E, NEW e, e \notin DOMAIN E, NEW new
  PROVE  /\ Added(E, e, new)[d] = E[d]
         /\ Freed(Added(E, e, new), d) = Added(Freed(E, d), e, new)
         /\ Counted(Added(E, e, new), d, -1) = Added(Counted(E, d, -1), e, new)
<1>1. e # d
  OBVIOUS
<1>2. Added(E, e, new)[d] = E[d]
  BY <1>1 DEF Added
<1>3. Freed(Added(E, e, new), d) = Added(Freed(E, d), e, new)
  BY <1>1 DEF Added, Freed
<1>4. Counted(Added(E, e, new), d, -1) = Added(Counted(E, d, -1), e, new)
  BY <1>1 DEF Added, Counted
<1>. QED  BY <1>2, <1>3, <1>4

-----------------------------------------------------------------------------
(* The invariant.                                                           *)

LEMMA InitCache == CacheInit => CacheInv
<1> SUFFICES ASSUME CacheInit PROVE CacheInv
  OBVIOUS
<1>1. DOMAIN entries = {} /\ inCache = {}
  BY DEF CacheInit
<1>2. Counts(entries, inCache, handles)
  BY <1>1 DEF CacheInit, Counts
<1>3. Found(entries, inCache, table)
  BY <1>1 DEF CacheInit, Found
<1>4. Listed(inCache, lru, handles)
  BY <1>1 DEF CacheInit, Listed, IsInjective, In
<1>. QED  BY <1>2, <1>3, <1>4 DEF CacheInit, CacheInv, Agree

\* What the step of an operator on the cache makes of the variables.
LEMMA BecomesErased ==
  ASSUME NEW E, NEW C, NEW U, NEW n, NEW k \in Key, table[k] # None,
         Becomes(FinishErase(Shard(E, C, lru, U, n), table[k]))
  PROVE  /\ E[table[k]].refs = 1 => entries' = Freed(E, table[k])
         /\ E[table[k]].refs # 1 => entries' = Counted(E, table[k], -1)
         /\ inCache' = C \ {table[k]}
         /\ lru' = Without(lru, table[k])
  BY FinishEraseResult DEF Becomes

LEMMA NothingErased ==
  ASSUME NEW c, NEW k \in Key, table[k] = None, Becomes(FinishErase(c, table[k]))
  PROVE  entries' = c.entries /\ inCache' = c.inCache /\ lru' = c.lru
  BY DEF Becomes, FinishErase

\* Erase, and each step of the loops, by the key of the oldest entry.
LEMMA EraseKeeps ==
  ASSUME CacheInv, NEW k \in Key, Becomes(FinishErase(Cache, table[k])),
         table' = [table EXCEPT ![k] = None], UNCHANGED <<handles, loop>>
  PROVE  CacheInv'
<1>1. CASE table[k] = None
  <2>1. entries' = entries /\ inCache' = inCache /\ lru' = lru
    BY <1>1, NothingErased DEF Cache, Shard
  <2>2. table' = table
    BY <1>1 DEF CacheInv, Agree, Found
  <2>. QED  BY <2>1, <2>2 DEF CacheInv
<1>2. CASE table[k] # None
  <2>1. /\ entries[table[k]].refs = 1 => entries' = Freed(entries, table[k])
        /\ entries[table[k]].refs # 1 => entries' = Counted(entries, table[k], -1)
        /\ inCache' = inCache \ {table[k]}
        /\ lru' = Without(lru, table[k])
    BY <1>2, BecomesErased DEF Cache
  <2>2. Agree(entries', inCache', lru', table', handles)
    BY <1>2, <2>1, AgreeErase DEF CacheInv
  <2>. QED  BY <2>2 DEF CacheInv
<1>. QED  BY <1>1, <1>2

LEMMA InsertKeeps ==
  ASSUME CacheInv, NEW k \in Key, NEW n \in Charges, Insert(k, n)
  PROVE  CacheInv'
<1>1. n \in Nat
  BY CacheAssumption
<1>2. CASE ~(Capacity > 0)
  <2> DEFINE new == [key |-> k, charge |-> n, refs |-> 1]
  <2> HIDE DEF new
  <2>1. PICK e \in Address \ DOMAIN entries :
          /\ Becomes(Shard(Added(entries, e, new), inCache, lru, inUse, usage))
          /\ table' = table /\ handles' = [handles EXCEPT ![e] = @ + 1] /\ loop' = "insert"
    BY <1>2 DEF Insert, Held, new
  <2>2. entries' = Added(entries, e, new) /\ inCache' = inCache /\ lru' = lru
    BY <2>1 DEF Becomes, Shard
  <2>3. Agree(entries', inCache', lru', table', handles')
    BY <1>1, <2>1, <2>2, AgreeUncached DEF CacheInv, new
  <2>. QED  BY <2>1, <2>3 DEF CacheInv
<1>3. CASE Capacity > 0
  <2> DEFINE new == [key |-> k, charge |-> n, refs |-> 2]
  <2> HIDE DEF new
  <2> DEFINE c(e) == Shard(Added(entries, e, new), inCache \cup {e}, lru, inUse \cup {e}, usage + n)
  <2>1. PICK e \in Address \ DOMAIN entries :
          /\ Becomes(FinishErase(c(e), table[k]))
          /\ table' = [table EXCEPT ![k] = e]
          /\ handles' = [handles EXCEPT ![e] = @ + 1] /\ loop' = "insert"
    BY <1>3 DEF Insert, Held, new
  <2>2. CASE table[k] = None
    <3>1. entries' = Added(entries, e, new) /\ inCache' = inCache \cup {e} /\ lru' = lru
      BY <2>1, <2>2, NothingErased DEF Shard
    <3>2. Agree(entries', inCache', lru', table', handles')
      BY <1>1, <2>1, <2>2, <3>1, AgreeInsert DEF CacheInv, new
    <3>. QED  BY <2>1, <3>2 DEF CacheInv
  <2>3. CASE table[k] # None
    <3> DEFINE old == table[k]
    <3> DEFINE E2 == IF entries[old].refs = 1 THEN Freed(entries, old)
                     ELSE Counted(entries, old, -1)
    <3>1. old \in DOMAIN entries /\ old # e /\ e \notin DOMAIN entries
      BY <2>3 DEF CacheInv, Agree, Counts, Found
    <3> DEFINE E1 == Added(entries, e, new)
    <3> DEFINE C1 == inCache \cup {e}
    <3> DEFINE U1 == inUse \cup {e}
    <3> DEFINE n1 == usage + n
    <3>2. Becomes(FinishErase(Shard(E1, C1, lru, U1, n1), table[k]))
      BY <2>1
    <3> HIDE DEF E1, C1, U1, n1
    <3>3. /\ E1[old].refs = 1 => entries' = Freed(E1, old)
          /\ E1[old].refs # 1 => entries' = Counted(E1, old, -1)
          /\ inCache' = C1 \ {old} /\ lru' = Without(lru, old)
      BY <2>3, <3>2, BecomesErased
    <3>4. entries' = Added(E2, e, new)
      <4>1. /\ Added(entries, e, new)[old].refs = 1 =>
                 entries' = Freed(Added(entries, e, new), old)
            /\ Added(entries, e, new)[old].refs # 1 =>
                 entries' = Counted(Added(entries, e, new), old, -1)
        BY <3>3 DEF E1
      <4>. QED  BY <3>1, <4>1, AddedCommutes
    <3>5. inCache' = (inCache \ {old}) \cup {e} /\ lru' = Without(lru, old)
      <4>1. inCache' = (inCache \cup {e}) \ {old} /\ lru' = Without(lru, old)
        BY <3>3 DEF C1
      <4>. QED  BY <3>1, <4>1
    <3> DEFINE t2 == [table EXCEPT ![k] = None]
    <3>6. Agree(E2, inCache \ {old}, Without(lru, old), t2, handles)
      BY <2>3, AgreeErase DEF CacheInv
    <3>7. t2[k] = None /\ table' = [t2 EXCEPT ![k] = e]
      BY <2>1 DEF CacheInv, Agree, Found
    <3>8. e \in Address \ DOMAIN E2
      BY <3>1 DEF Freed, Counted
    <3> HIDE DEF E2, t2, old
    <3> DEFINE h2 == [handles EXCEPT ![e] = @ + 1]
    <3> HIDE DEF h2
    <3>9. Agree(Added(E2, e, new), (inCache \ {old}) \cup {e}, Without(lru, old),
                [t2 EXCEPT ![k] = e], h2)
      BY <1>1, <3>6, <3>7, <3>8, AgreeInsert DEF new, h2
    <3>10. Agree(entries', inCache', lru', table', handles')
      BY <2>1, <3>4, <3>5, <3>7, <3>9 DEF h2
    <3>. QED  BY <2>1, <3>10 DEF CacheInv
  <2>. QED  BY <2>2, <2>3
<1>. QED  BY <1>2, <1>3

LEMMA LookupKeeps ==
  ASSUME CacheInv, NEW k \in Key, Lookup(k)
  PROVE  CacheInv'
<1> DEFINE e == table[k]
<1>1. e \in inCache
  BY DEF Lookup, CacheInv, Agree, Found
<1>2. /\ entries' = Counted(entries, e, 1) /\ inCache' = inCache
      /\ entries[e].refs = 1 => lru' = Without(lru, e)
      /\ entries[e].refs # 1 => lru' = lru
  BY <1>1, RefResult DEF Lookup, Becomes, Cache
<1>3. handles' = [handles EXCEPT ![e] = @ + 1] /\ table' = table /\ loop' = loop
  BY DEF Lookup, Held
<1> HIDE DEF e
<1>4. Agree(entries', inCache', lru', table', handles')
  BY <1>1, <1>2, <1>3, AgreeLookup DEF CacheInv
<1>. QED  BY <1>3, <1>4 DEF CacheInv

LEMMA ReleaseKeeps ==
  ASSUME CacheInv, NEW e \in Address, Release(e)
  PROVE  CacheInv'
<1>1. /\ entries[e].refs = 1 => entries' = Freed(entries, e)
      /\ entries[e].refs # 1 => entries' = Counted(entries, e, -1)
      /\ inCache' = inCache
      /\ entries[e].refs = 2 /\ e \in inCache => lru' = Append(Without(lru, e), e)
      /\ ~(entries[e].refs = 2 /\ e \in inCache) => lru' = lru
  BY UnrefResult DEF Release, Becomes, Cache
<1>2. handles[e] > 0 /\ handles' = [handles EXCEPT ![e] = @ - 1] /\ UNCHANGED <<table, loop>>
  BY DEF Release
<1>3. Agree(entries', inCache', lru', table', handles')
  BY <1>1, <1>2, AgreeRelease DEF CacheInv
<1>. QED  BY <1>2, <1>3 DEF CacheInv

LEMMA NextCache == CacheInv /\ [CacheNext]_cacheVars => CacheInv'
<1> SUFFICES ASSUME CacheInv, [CacheNext]_cacheVars PROVE CacheInv'
  OBVIOUS
<1>1. ASSUME NEW k \in Key, NEW n \in Charges, Insert(k, n) PROVE CacheInv'
  BY <1>1, InsertKeeps
<1>2. ASSUME NEW k \in Key, Lookup(k) PROVE CacheInv'
  BY <1>2, LookupKeeps
<1>3. ASSUME NEW k \in Key, Erase(k) PROVE CacheInv'
  BY <1>3, EraseKeeps DEF Erase
<1>4. ASSUME NEW e \in Address, Release(e) PROVE CacheInv'
  BY <1>4, ReleaseKeeps
<1>5. CASE Prune
  BY <1>5 DEF Prune, CacheInv
<1>6. CASE RemoveOldest
  <2> DEFINE e == Head(lru)
  <2>1. e \in Address /\ In(lru, e)
    BY <1>6 DEF RemoveOldest, Goes, CacheInv, Agree, Listed, In
  <2>2. entries[e].key \in Key
    BY <2>1 DEF CacheInv, Agree, Listed, Counts, Handle
  <2>. QED  BY <1>6, <2>2, EraseKeeps DEF RemoveOldest
<1>7. CASE LoopEnds
  BY <1>7 DEF LoopEnds, CacheInv
<1>8. CASE UNCHANGED cacheVars
  BY <1>8 DEF cacheVars, CacheInv
<1>. QED  BY <1>1, <1>2, <1>3, <1>4, <1>5, <1>6, <1>7, <1>8 DEF CacheNext

\* The agreement of references, handles, table and list holds at every step.
THEOREM CacheCorrect == CacheSpec => []CacheInv
<1>1. CacheInit => CacheInv
  BY InitCache
<1>2. CacheInv /\ [CacheNext]_cacheVars => CacheInv'
  BY NextCache
<1>. QED  BY <1>1, <1>2, PTL DEF CacheSpec

-----------------------------------------------------------------------------
LEMMA TableIsCache == CacheInv => InTable = inCache
<1> SUFFICES ASSUME CacheInv PROVE InTable = inCache
  OBVIOUS
<1>1. ASSUME NEW e \in InTable PROVE e \in inCache
  BY DEF CacheInv, Agree, Found, InTable
<1>2. ASSUME NEW e \in inCache PROVE e \in InTable
  <2>1. e \in Address /\ entries[e].key \in Key /\ table[entries[e].key] = e
    BY DEF CacheInv, Agree, Counts, Found, Handle
  <2>. QED  BY <2>1, CacheAssumption DEF InTable
<1>. QED  BY <1>1, <1>2

\* What a handle refers to is there until it is released, and nothing else but what a
\* lookup can find: for any keys, addresses, capacity and charges.
THEOREM EntriesCorrect == CacheSpec => []EntriesLiveAsLongAsNeeded
<1>1. CacheInv => EntriesLiveAsLongAsNeeded
  <2> SUFFICES ASSUME CacheInv PROVE EntriesLiveAsLongAsNeeded
    OBVIOUS
  <2>1. InTable = inCache
    BY TableIsCache
  <2>2. ASSUME NEW e \in DOMAIN entries, e \notin inCache PROVE e \in Address /\ handles[e] > 0
    BY <2>2 DEF CacheInv, Agree, Counts
  <2>3. ASSUME NEW e \in Address, handles[e] > 0 PROVE e \in DOMAIN entries
    BY <2>3 DEF CacheInv, Agree, Counts
  <2>4. inCache \subseteq DOMAIN entries
    BY DEF CacheInv, Agree, Counts
  <2>. QED  BY <2>1, <2>2, <2>3, <2>4 DEF EntriesLiveAsLongAsNeeded
<1>. QED  BY <1>1, CacheCorrect, PTL

\* When Insert returns with more than the capacity, or Prune with something in the cache,
\* callers hold all of it.
THEOREM OverCapacityCorrect == CacheSpec => OverCapacityOnlyInUse
<1> DEFINE Step == loop # "none" /\ loop' = "none" /\ (loop = "prune" \/ usage' > Capacity)
                     => \A e \in InTable' : handles'[e] > 0
<1>1. CacheInv /\ CacheInv' /\ [CacheNext]_cacheVars => [Step]_cacheVars
  <2> SUFFICES ASSUME CacheInv, CacheInv', CacheNext,
                      loop # "none", loop' = "none", loop = "prune" \/ usage' > Capacity,
                      NEW e \in InTable'
               PROVE  handles'[e] > 0
    OBVIOUS
  <2>1. LoopEnds
    BY DEF CacheNext, Insert, Lookup, Erase, Release, Prune, RemoveOldest, LoopEnds, MutexFree
  <2>2. lru' = <<>>
    BY <2>1 DEF LoopEnds, Goes, MutexFree, CacheInv
  <2>3. (InTable = inCache)'
    BY TableIsCache, PTL
  <2>4. e \in Address /\ handles'[e] \in Nat /\ ~In(lru', e)
    BY <2>2, <2>3 DEF CacheInv, Agree, Counts, In
  <2>. QED  BY <2>3, <2>4 DEF CacheInv, Agree, Listed
<1>. QED  BY <1>1, CacheCorrect, PTL DEF CacheSpec, OverCapacityOnlyInUse

-----------------------------------------------------------------------------
(* The charge of a set of entries.                                          *)

(* MapThenSumSet evaluates a function on all the subsets of the set, each   *)
(* from one with an entry less.  That there is such a function, and that    *)
(* the order in which CHOOSE takes the entries does not matter, are         *)
(* inductions over finite sets: a smallest set without would have a subset  *)
(* without.                                                                 *)

Some(s) == CHOOSE x \in s : TRUE

\* The function that MapThenSumSet evaluates on S.
IsSum(E, S, f) ==
  f = [s \in SUBSET S |-> IF s = {} THEN 0 ELSE E[Some(s)].charge + f[s \ {Some(s)}]]

Total(E, S) == MapThenSumSet(LAMBDA e : E[e].charge, S)

LEMMA IsSumAt ==
  ASSUME NEW E, NEW S, NEW f, IsSum(E, S, f), NEW s \in SUBSET S
  PROVE  f[s] = IF s = {} THEN 0 ELSE E[Some(s)].charge + f[s \ {Some(s)}]
BY Zenon DEF IsSum

LEMMA IsSumOfNothing ==
  ASSUME NEW E, NEW S, NEW f, IsSum(E, S, f), NEW s \in SUBSET S, s = {}
  PROVE  f[s] = 0
BY IsSumAt

LEMMA IsSumOfSome ==
  ASSUME NEW E, NEW S, NEW f, IsSum(E, S, f), NEW s \in SUBSET S, s # {}
  PROVE  f[s] = E[Some(s)].charge + f[s \ {Some(s)}]
BY IsSumAt

LEMMA SomeIn ==
  ASSUME NEW s, s # {}
  PROVE  Some(s) \in s
BY DEF Some

\* Of a family of finite sets, one has no smaller one in it.
Smallest(T, U) == U \in T /\ \A v \in SUBSET U : v # U => v \notin T

LEMMA SmallestSet ==
  ASSUME NEW A, NEW T, T \subseteq FiniteSubsetsOf(A), T # {}
  PROVE  \E U : Smallest(T, U)
<1>1. IsWellFoundedOn(StrictSubsetOrdering(A), FiniteSubsetsOf(A))
  BY FS_StrictSubsetOrderingWellFounded
<1>2. PICK U \in T : \A V \in T : ~ (<<V, U>> \in StrictSubsetOrdering(A))
  BY <1>1, WFMin
<1>3. U \subseteq A
  BY DEF FiniteSubsetsOf
<1>4. ASSUME NEW V \in SUBSET U, V # U, V \in T PROVE FALSE
  <2>1. <<V, U>> \in StrictSubsetOrdering(A)
    BY <1>3, <1>4 DEF StrictSubsetOrdering
  <2>. QED  BY <1>2, <1>4, <2>1
<1>. QED  BY <1>4 DEF Smallest

\* Two such functions agree on the sets both know whose charges are the same.
LEMMA SumsAgree ==
  ASSUME NEW E, NEW S, NEW f, IsSum(E, S, f), NEW D, NEW R, NEW g, IsSum(D, R, g),
         NEW s \in SUBSET S, s \subseteq R, IsFiniteSet(s),
         \A e \in s : E[e].charge = D[e].charge
  PROVE  f[s] = g[s]
<1>. DEFINE T == {u \in FiniteSubsetsOf(s) : f[u] # g[u]}
<1>. SUFFICES ASSUME T # {} PROVE FALSE
  BY DEF FiniteSubsetsOf
<1>0. T \subseteq FiniteSubsetsOf(s)
  OBVIOUS
<1>. HIDE DEF T
<1>1. PICK u : Smallest(T, u)
  BY <1>0, SmallestSet
<1>2. u \subseteq s /\ u \in SUBSET S /\ u \in SUBSET R /\ IsFiniteSet(u) /\ f[u] # g[u]
  BY <1>1 DEF FiniteSubsetsOf, T, Smallest
<1>3. u # {}
  <2>a. IsSum(E, S, f)
    OBVIOUS
  <2>b. u \in SUBSET S
    BY <1>2
  <2>1. u = {} => f[u] = 0
    BY <2>a, <2>b, IsSumOfNothing, IsSumOfSome
  <2>2. u = {} => g[u] = 0
    BY <1>2, IsSumOfNothing, IsSumOfSome
  <2>. QED  BY <1>2, <2>1, <2>2
<1>4. Some(u) \in u
  BY <1>3, SomeIn
<1>. DEFINE v == u \ {Some(u)}
<1>5. v \in SUBSET u /\ v # u
  BY <1>4
<1>6. IsFiniteSet(v)
  BY <1>2, FS_RemoveElement
<1>7. f[v] = g[v]
  BY <1>1, <1>2, <1>5, <1>6 DEF FiniteSubsetsOf, T, Smallest
<1>8. f[u] = E[Some(u)].charge + f[v]
  BY <1>2, <1>3, IsSumOfNothing, IsSumOfSome
<1>9. g[u] = D[Some(u)].charge + g[v]
  <2>1. IsSum(D, R, g) /\ u \in SUBSET R /\ u # {}
    BY <1>2, <1>3
  <2>2. g[u] = D[Some(u)].charge + g[u \ {Some(u)}]
    BY ONLY <2>1, IsSumOfNothing, IsSumOfSome
  <2>. QED  BY <2>2
<1>. QED  BY <1>2, <1>4, <1>7, <1>8, <1>9

\* There is one for each finite set.
LEMMA SumExists ==
  ASSUME NEW E, NEW S, IsFiniteSet(S)
  PROVE  \E f : IsSum(E, S, f)
<1>. DEFINE T == {u \in FiniteSubsetsOf(S) : ~ \E f : IsSum(E, u, f)}
<1>. SUFFICES ASSUME T # {} PROVE FALSE
  BY DEF FiniteSubsetsOf
<1>0. T \subseteq FiniteSubsetsOf(S)
  OBVIOUS
<1>. HIDE DEF T
<1>1. PICK U : Smallest(T, U)
  BY <1>0, SmallestSet
<1>9. U \subseteq S /\ IsFiniteSet(U) /\ ~ \E f : IsSum(E, U, f)
  BY <1>1 DEF FiniteSubsetsOf, T, Smallest
<1>. DEFINE G(v) == CHOOSE g : IsSum(E, v, g)
            rest(s) == s \ {Some(s)}
            F == [s \in SUBSET U |-> IF s = {} THEN 0 ELSE E[Some(s)].charge + G(rest(s))[rest(s)]]
<1>2. ASSUME NEW v \in SUBSET U, v # U
      PROVE  IsSum(E, v, G(v)) /\ IsFiniteSet(v)
  <2>1. IsFiniteSet(v)
    BY <1>9, FS_Subset
  <2>2. v \in FiniteSubsetsOf(S)
    BY <1>9, <2>1 DEF FiniteSubsetsOf
  <2>3. \E g : IsSum(E, v, g)
    BY <1>1, <1>2, <2>2 DEF T, Smallest
  <2>. QED  BY <2>1, <2>3
<1>3. ASSUME NEW s \in SUBSET U, s # {}
      PROVE  rest(s) \in SUBSET U /\ rest(s) # U /\ rest(s) # s
  BY <1>3, SomeIn
<1>. HIDE DEF G
<1>4. ASSUME NEW s \in SUBSET U, s # {}
      PROVE  G(rest(s))[rest(s)] = F[rest(s)]
  <2>. DEFINE w == rest(s)
  <2>1. w \in SUBSET U /\ w # U
    BY <1>3, <1>4
  <2>. HIDE DEF rest
  <2>2. IsSum(E, w, G(w))
    BY <1>2, <2>1
  <2>3. CASE w = {}
    <3>1. G(w)[w] = 0
      BY <2>2, <2>3, IsSumOfNothing, IsSumOfSome
    <3>. QED  BY <2>1, <2>3, <3>1
  <2>4. CASE w # {}
    <3>1. G(w)[w] = E[Some(w)].charge + G(w)[rest(w)]
      <4>1. w \in SUBSET w
        OBVIOUS
      <4>2. G(w)[w] = E[Some(w)].charge + G(w)[w \ {Some(w)}]
        BY <2>2, <2>4, <4>1, IsSumOfSome
      <4>. QED  BY <2>4, <4>2 DEF rest
    <3>2. F[w] = E[Some(w)].charge + G(rest(w))[rest(w)]
      BY <2>1, <2>4
    <3>3. rest(w) \in SUBSET w /\ rest(w) \in SUBSET U /\ rest(w) # U
      BY <1>3, <2>1, <2>4 DEF rest
    <3>4. IsSum(E, rest(w), G(rest(w))) /\ IsFiniteSet(rest(w))
      BY <1>2, <3>3
    <3>. DEFINE x == rest(w)
    <3>5. x \in SUBSET w /\ IsFiniteSet(x) /\ IsSum(E, x, G(x))
      BY <3>3, <3>4
    <3>. HIDE DEF x
    <3>6. G(w)[x] = G(x)[x]
      BY <2>2, <3>5, SumsAgree
    <3>. QED  BY <3>1, <3>2, <3>6 DEF x
  <2>. QED  BY <2>3, <2>4
<1>5. F = [s \in SUBSET U |-> IF s = {} THEN 0 ELSE E[Some(s)].charge + F[rest(s)]]
  <2>. DEFINE H == [s \in SUBSET U |-> IF s = {} THEN 0 ELSE E[Some(s)].charge + F[rest(s)]]
  <2>1. ASSUME NEW s \in SUBSET U PROVE F[s] = H[s]
    <3>1. CASE s = {}
      BY <3>1
    <3>2. CASE s # {}
      <4>1. F[s] = E[Some(s)].charge + G(rest(s))[rest(s)]
        BY <3>2
      <4>2. G(rest(s))[rest(s)] = F[rest(s)]
        BY <1>4, <3>2
      <4>. HIDE DEF F
      <4>3. H[s] = E[Some(s)].charge + F[rest(s)]
        BY <3>2
      <4>. QED  BY <4>1, <4>2, <4>3
    <3>. QED  BY <3>1, <3>2
  <2>2. F = [s \in SUBSET U |-> F[s]] /\ H = [s \in SUBSET U |-> H[s]]
    OBVIOUS
  <2>. HIDE DEF F, H
  <2>3. F = H
    BY <2>1, <2>2
  <2>. QED  BY <2>3 DEF H
<1>. HIDE DEF F
<1>6. IsSum(E, U, F)
  BY <1>5, Zenon DEF IsSum
<1>. QED  BY <1>9, <1>6

\* So the sum is what that function says of the whole set.
LEMMA TotalIs ==
  ASSUME NEW E, NEW S, IsFiniteSet(S), NEW f, IsSum(E, S, f)
  PROVE  Total(E, S) = f[S]
<1>. DEFINE g == CHOOSE g : g = [s \in SUBSET S |->
                   IF s = {} THEN 0
                   ELSE LET x == CHOOSE x \in s : TRUE
                        IN  E[x].charge + g[s \ {x}]]
<1>1. Total(E, S) = g[S]
  BY Zenon DEF Total, MapThenSumSet, MapThenFoldSet
<1>2. g = CHOOSE h : IsSum(E, S, h)
  BY Zenon DEF IsSum, Some
<1>. HIDE DEF g
<1>3. IsSum(E, S, g)
  BY <1>2
<1>4. f[S] = g[S]
  BY <1>3, SumsAgree
<1>. QED  BY <1>1, <1>4
\* Nothing has no charge, and the charge of a set is that of any of its entries and that
\* of the others.
LEMMA TotalOfNothing ==
  ASSUME NEW E
  PROVE  Total(E, {}) = 0
<1>1. IsFiniteSet({})
  BY FS_EmptySet
<1>2. PICK f : IsSum(E, {}, f)
  BY <1>1, SumExists
<1>. QED  BY <1>1, <1>2, TotalIs, IsSumOfNothing

LEMMA TotalBySome ==
  ASSUME NEW E, NEW S, IsFiniteSet(S), S # {}
  PROVE  Total(E, S) = E[Some(S)].charge + Total(E, S \ {Some(S)})
<1>. DEFINE R == S \ {Some(S)}
<1>1. PICK f : IsSum(E, S, f)
  BY SumExists
<1>2. IsFiniteSet(R)
  BY FS_RemoveElement
<1>3. PICK g : IsSum(E, R, g)
  BY <1>2, SumExists
<1>4. R \in SUBSET S /\ R \subseteq R
  OBVIOUS
<1>5. f[S] = E[Some(S)].charge + f[R]
  BY <1>1, IsSumOfSome
<1>. HIDE DEF R
<1>6. f[R] = g[R]
  BY <1>1, <1>2, <1>3, <1>4, SumsAgree
<1>7. Total(E, S) = f[S] /\ Total(E, R) = g[R]
  BY <1>1, <1>2, <1>3, TotalIs
<1>. QED  BY <1>5, <1>6, <1>7 DEF R

\* The sum depends on the charges alone.
LEMMA TotalSame ==
  ASSUME NEW E, NEW D, NEW S, IsFiniteSet(S), \A e \in S : E[e].charge = D[e].charge
  PROVE  Total(E, S) = Total(D, S)
<1>1. PICK f : IsSum(E, S, f)
  BY SumExists
<1>2. PICK g : IsSum(D, S, g)
  BY SumExists
<1>3. f[S] = g[S]
  BY <1>1, <1>2, SumsAgree
<1>. QED  BY <1>1, <1>2, <1>3, TotalIs

Priced(E, S) == IsFiniteSet(S) /\ \A e \in S : E[e].charge \in Nat

\* The charges are numbers, and so is their sum.
LEMMA TotalType ==
  ASSUME NEW E, NEW S, Priced(E, S)
  PROVE  Total(E, S) \in Nat
<1>. DEFINE T == {u \in FiniteSubsetsOf(S) : Total(E, u) \notin Nat}
<1>. SUFFICES ASSUME T # {} PROVE FALSE
  BY DEF FiniteSubsetsOf, Priced
<1>0. T \subseteq FiniteSubsetsOf(S)
  OBVIOUS
<1>. HIDE DEF T
<1>1. PICK u : Smallest(T, u)
  BY <1>0, SmallestSet
<1>2. u \subseteq S /\ IsFiniteSet(u) /\ Total(E, u) \notin Nat
  BY <1>1 DEF FiniteSubsetsOf, T, Smallest
<1>3. u # {}
  BY <1>2, TotalOfNothing
<1>4. Some(u) \in u
  BY <1>3, SomeIn
<1>. DEFINE v == u \ {Some(u)}
<1>5. v \in SUBSET u /\ v # u
  BY <1>4
<1>6. IsFiniteSet(v)
  BY <1>2, FS_RemoveElement
<1>7. Total(E, v) \in Nat
  BY <1>1, <1>2, <1>5, <1>6 DEF FiniteSubsetsOf, T, Smallest
<1>8. Total(E, u) = E[Some(u)].charge + Total(E, v)
  BY <1>2, <1>3, TotalBySome
<1>9. E[Some(u)].charge \in Nat
  BY <1>2, <1>4 DEF Priced
<1>. QED  BY <1>2, <1>7, <1>8, <1>9

\* The order in which CHOOSE takes the entries does not matter: in a smallest set where it
\* did, two entries could be taken in either order.
TakesAny(E, S) == \A x \in S : Total(E, S) = E[x].charge + Total(E, S \ {x})

LEMMA TotalWithout ==
  ASSUME NEW E, NEW S, Priced(E, S), NEW x \in S
  PROVE  Total(E, S) = E[x].charge + Total(E, S \ {x})
<1>. DEFINE T == {u \in FiniteSubsetsOf(S) : ~TakesAny(E, u)}
<1>. SUFFICES ASSUME T # {} PROVE FALSE
  BY DEF FiniteSubsetsOf, Priced, TakesAny
<1>0. T \subseteq FiniteSubsetsOf(S)
  OBVIOUS
<1>. HIDE DEF T
<1>1. PICK u : Smallest(T, u)
  BY <1>0, SmallestSet
<1>2. u \subseteq S /\ IsFiniteSet(u) /\ ~TakesAny(E, u)
  BY <1>1 DEF FiniteSubsetsOf, T, Smallest
<1>3. PICK z \in u : Total(E, u) # E[z].charge + Total(E, u \ {z})
  BY <1>2 DEF TakesAny
<1>. DEFINE y == Some(u)
            v == u \ {y}
            w == u \ {z}
            r == (u \ {y}) \ {z}
<1>4. y \in u
  BY <1>3, SomeIn
<1>5. Total(E, u) = E[y].charge + Total(E, v)
  BY <1>2, <1>4, TotalBySome
<1>. HIDE DEF y
<1>6. y # z
  BY <1>3, <1>5
<1>7. ASSUME NEW b \in SUBSET u, b # u
      PROVE  IsFiniteSet(b) /\ TakesAny(E, b) /\ Priced(E, b)
  <2>1. IsFiniteSet(b)
    BY <1>2, FS_Subset
  <2>2. TakesAny(E, b)
    BY <1>1, <1>2, <1>7, <2>1 DEF FiniteSubsetsOf, T, Smallest
  <2>3. Priced(E, b)
    BY <1>2, <2>1 DEF Priced
  <2>. QED  BY <2>1, <2>2, <2>3
<1>8. Total(E, v) = E[z].charge + Total(E, r)
  <2>1. v \in SUBSET u /\ v # u /\ z \in v
    BY <1>3, <1>4, <1>6
  <2>2. TakesAny(E, v)
    BY <1>7, <2>1
  <2>. QED  BY <2>1, <2>2 DEF TakesAny
<1>9. Total(E, w) = E[y].charge + Total(E, r)
  <2>1. w \in SUBSET u /\ w # u /\ y \in w /\ w \ {y} = r
    BY <1>3, <1>4, <1>6
  <2>2. TakesAny(E, w)
    BY <1>7, <2>1
  <2>. QED  BY <2>1, <2>2 DEF TakesAny
<1>10. /\ E[y].charge \in Nat /\ E[z].charge \in Nat /\ Total(E, r) \in Nat
  <2>1. r \in SUBSET u /\ r # u
    BY <1>4
  <2>2. Total(E, r) \in Nat
    BY <1>7, <2>1, TotalType
  <2>. QED  BY <1>2, <1>3, <1>4, <2>2 DEF Priced
<1>11. Total(E, u) = E[z].charge + Total(E, w)
  BY <1>5, <1>8, <1>9, <1>10
<1>. QED  BY <1>3, <1>11
-----------------------------------------------------------------------------
(* usage_.                                                                  *)

Charged(E, C, n) == IsFiniteSet(C) /\ n = Total(E, C)

SameCharges(E, D, C) == \A d \in C : D[d].charge = E[d].charge

\* An entry that comes, one that goes, and what happens to the others.
LEMMA ChargedSame ==
  ASSUME NEW E, NEW D, NEW C, NEW n, Charged(E, C, n), SameCharges(E, D, C)
  PROVE  Charged(D, C, n)
BY TotalSame DEF Charged, SameCharges

LEMMA ChargedAdded ==
  ASSUME NEW E, NEW C \in SUBSET DOMAIN E, NEW n, Charged(E, C, n), Priced(E, C),
         NEW e, e \notin DOMAIN E, NEW new, new.charge \in Nat
  PROVE  /\ Charged(Added(E, e, new), C \cup {e}, n + new.charge)
         /\ Priced(Added(E, e, new), C \cup {e})
         /\ Charged(Added(E, e, new), C, n)
<1>. DEFINE D == Added(E, e, new)
            B == C \cup {e}
<1>1. D[e] = new /\ \A d \in C : D[d] = E[d]
  BY DEF Added
<1>. HIDE DEF D
<1>2. IsFiniteSet(B)
  BY FS_AddElement DEF Charged
<1>3. Priced(D, B)
  BY <1>1, <1>2 DEF Priced
<1>4. e \in B /\ B \ {e} = C
  OBVIOUS
<1>5. Charged(D, C, n)
  BY <1>1, ChargedSame DEF SameCharges
<1>. HIDE DEF B
<1>6. Total(D, B) = new.charge + Total(D, C)
  BY <1>1, <1>3, <1>4, TotalWithout
<1>7. Total(D, C) \in Nat
  <2>1. Priced(D, C)
    BY <1>1 DEF Priced
  <2>. QED  BY <2>1, TotalType
<1>. QED  BY <1>2, <1>3, <1>5, <1>6, <1>7 DEF Charged, B, D

LEMMA ChargedErased ==
  ASSUME NEW E, NEW D, NEW C, NEW n, Charged(E, C, n), Priced(E, C),
         NEW e \in C, SameCharges(E, D, C \ {e})
  PROVE  Charged(D, C \ {e}, n - E[e].charge)
<1>. DEFINE B == C \ {e}
<1>1. IsFiniteSet(B)
  BY FS_RemoveElement DEF Charged
<1>2. Priced(E, B)
  BY <1>1 DEF Priced
<1>3. Total(E, C) = E[e].charge + Total(E, B)
  BY TotalWithout
<1>4. Total(E, B) \in Nat /\ E[e].charge \in Nat
  BY <1>2, TotalType DEF Priced
<1>. HIDE DEF B
<1>5. Charged(E, B, n - E[e].charge)
  BY <1>1, <1>3, <1>4 DEF Charged
<1>. QED  BY <1>5, ChargedSame DEF B

\* An entry that loses a reference or goes leaves the others as they are.
LEMMA OthersSame ==
  ASSUME NEW E, NEW C \in SUBSET DOMAIN E, NEW e, NEW n, NEW D,
         D = Freed(E, e) \/ D = Counted(E, e, n)
  PROVE  SameCharges(E, D, C \ {e})
BY DEF Freed, Counted, SameCharges

LEMMA CountedSame ==
  ASSUME NEW E, NEW C \in SUBSET DOMAIN E, NEW e, NEW n, \A d \in DOMAIN E : E[d] \in Handle
  PROVE  SameCharges(E, Counted(E, e, n), C)
BY DEF Counted, SameCharges, Handle

\* The usage that the operators leave.
LEMMA UsageResults ==
  ASSUME NEW E, NEW C, NEW L, NEW U, NEW n, NEW e
  PROVE  /\ Ref(Shard(E, C, L, U, n), e).usage = n
         /\ Unref(Shard(E, C, L, U, n), e).usage = n
         /\ e # None => FinishErase(Shard(E, C, L, U, n), e).usage = n - E[e].charge
<1>1. Ref(Shard(E, C, L, U, n), e).usage = n
  BY DEF Ref, Shard
<1>2. \A B, M, V, m : Unref(Shard(E, B, M, V, m), e).usage = m
  BY DEF Unref, Shard
<1>3. e # None => FinishErase(Shard(E, C, L, U, n), e).usage = n - E[e].charge
  <2>1. Uncached(Shard(E, C, L, U, n), e, Shard(E, C, L, U, n).entries[e].charge)
          = Shard(E, C \ {e}, Without(L, e), U \ {e}, n - E[e].charge)
    BY DEF Uncached, Shard
  <2>. QED  BY <1>2, <2>1 DEF FinishErase
<1>. QED  BY <1>1, <1>2, <1>3

UsageInv == Charged(entries, inCache, usage)

LEMMA CachePriced ==
  ASSUME CacheInv, UsageInv
  PROVE  Priced(entries, inCache) /\ inCache \in SUBSET DOMAIN entries
         /\ \A d \in DOMAIN entries : entries[d] \in Handle
BY DEF CacheInv, Agree, Counts, Handle, Priced, UsageInv, Charged

\* The entry of a key leaves the cache, whatever was put in beside it.
LEMMA ErasedUsage ==
  ASSUME NEW E, NEW C \in SUBSET DOMAIN E, NEW U, NEW n, NEW k \in Key,
         Charged(E, C, n), Priced(E, C), table[k] # None => table[k] \in C,
         Becomes(FinishErase(Shard(E, C, lru, U, n), table[k]))
  PROVE  UsageInv'
<1>. DEFINE c == Shard(E, C, lru, U, n)
<1>1. c.entries = E /\ c.inCache = C /\ c.usage = n
  BY DEF Shard
<1>2. CASE table[k] = None
  <2>1. entries' = E /\ inCache' = C /\ usage' = n
    BY <1>1, <1>2 DEF Becomes, FinishErase
  <2>. QED  BY <2>1 DEF UsageInv
<1>3. CASE table[k] # None
  <2>1. /\ E[table[k]].refs = 1 => entries' = Freed(E, table[k])
        /\ E[table[k]].refs # 1 => entries' = Counted(E, table[k], -1)
        /\ inCache' = C \ {table[k]}
    BY <1>3, FinishEraseResult DEF Becomes
  <2>2. usage' = n - E[table[k]].charge
    BY <1>3, UsageResults DEF Becomes
  <2>3. SameCharges(E, entries', C \ {table[k]})
    BY <2>1, OthersSame
  <2>4. Charged(entries', C \ {table[k]}, n - E[table[k]].charge)
    BY <1>3, <2>3, ChargedErased
  <2>. QED  BY <2>1, <2>2, <2>4 DEF UsageInv
<1>. QED  BY <1>2, <1>3

LEMMA NextUsage == CacheInv /\ UsageInv /\ [CacheNext]_cacheVars => UsageInv'
<1> SUFFICES ASSUME CacheInv, UsageInv, [CacheNext]_cacheVars PROVE UsageInv'
  OBVIOUS
<1>0. /\ Priced(entries, inCache) /\ inCache \in SUBSET DOMAIN entries
      /\ \A d \in DOMAIN entries : entries[d] \in Handle
  BY CachePriced
<1>1. ASSUME NEW k \in Key, Becomes(FinishErase(Cache, table[k])) PROVE UsageInv'
  <2>1. table[k] # None => table[k] \in inCache
    BY DEF CacheInv, Agree, Found
  <2>. QED  BY <1>0, <1>1, <2>1, ErasedUsage DEF Cache, UsageInv
<1>2. ASSUME NEW k \in Key, NEW n \in Charges, Insert(k, n) PROVE UsageInv'
  <2>0. n \in Nat
    BY CacheAssumption
  <2>1. CASE ~(Capacity > 0)
    <3>. DEFINE new == [key |-> k, charge |-> n, refs |-> 1]
    <3>0. new.charge = n
      OBVIOUS
    <3>. HIDE DEF new
    <3>1. PICK e \in Address \ DOMAIN entries :
            Becomes(Shard(Added(entries, e, new), inCache, lru, inUse, usage))
      BY <1>2, <2>1 DEF Insert, new
    <3>2. entries' = Added(entries, e, new) /\ inCache' = inCache /\ usage' = usage
      BY <3>1 DEF Becomes, Shard
    <3>. QED  BY <1>0, <2>0, <3>0, <3>2, ChargedAdded DEF UsageInv
  <2>2. CASE Capacity > 0
    <3>. DEFINE new == [key |-> k, charge |-> n, refs |-> 2]
    <3>0. new.charge = n
      OBVIOUS
    <3>. HIDE DEF new
    <3>1. PICK e \in Address \ DOMAIN entries :
            Becomes(FinishErase(Shard(Added(entries, e, new), inCache \cup {e}, lru,
                                      inUse \cup {e}, usage + n), table[k]))
      BY <1>2, <2>2 DEF Insert, new
    <3>. DEFINE E1 == Added(entries, e, new)
                C1 == inCache \cup {e}
                U1 == inUse \cup {e}
                n1 == usage + n
    <3>2. Charged(E1, C1, n1) /\ Priced(E1, C1)
      BY <1>0, <2>0, <3>0, ChargedAdded DEF UsageInv
    <3>3. C1 \in SUBSET DOMAIN E1
      BY <1>0 DEF Added
    <3>4. table[k] # None => table[k] \in C1
      BY DEF CacheInv, Agree, Found
    <3>5. Becomes(FinishErase(Shard(E1, C1, lru, U1, n1), table[k]))
      BY <3>1
    <3>. HIDE DEF E1, C1, U1, n1
    <3>. QED  BY <3>2, <3>3, <3>4, <3>5, ErasedUsage
  <2>. QED  BY <2>1, <2>2
<1>3. ASSUME NEW k \in Key, Lookup(k) PROVE UsageInv'
  <2>1. /\ entries' = Counted(entries, table[k], 1) /\ inCache' = inCache /\ usage' = usage
    BY <1>3, RefResult, UsageResults DEF Lookup, Becomes, Cache
  <2>. QED  BY <1>0, <2>1, CountedSame, ChargedSame DEF UsageInv
<1>4. ASSUME NEW k \in Key, Erase(k) PROVE UsageInv'
  BY <1>1, <1>4 DEF Erase
<1>5. ASSUME NEW e \in Address, Release(e) PROVE UsageInv'
  <2>1. /\ entries[e].refs = 1 => entries' = Freed(entries, e)
        /\ entries[e].refs # 1 => entries' = Counted(entries, e, -1)
        /\ inCache' = inCache /\ usage' = usage
    BY <1>5, UnrefResult, UsageResults DEF Release, Becomes, Cache
  <2>2. SameCharges(entries, entries', inCache)
    <3>1. CASE entries[e].refs = 1
      <4>1. e \notin inCache
        BY <1>5, <3>1 DEF Release, CacheInv, Agree, Counts
      <4>2. inCache \ {e} = inCache
        BY <4>1
      <4>3. SameCharges(entries, Freed(entries, e), inCache \ {e})
        BY <1>0, OthersSame
      <4>4. entries' = Freed(entries, e)
        BY <2>1, <3>1
      <4>. QED  BY <4>2, <4>3, <4>4
    <3>2. CASE entries[e].refs # 1
      BY <1>0, <2>1, <3>2, CountedSame
    <3>. QED  BY <3>1, <3>2
  <2>. QED  BY <2>1, <2>2, ChargedSame DEF UsageInv
<1>6. CASE RemoveOldest
  <2> DEFINE e == Head(lru)
  <2>1. e \in Address /\ In(lru, e)
    BY <1>6 DEF RemoveOldest, Goes, CacheInv, Agree, Listed, In
  <2>2. entries[e].key \in Key
    BY <2>1 DEF CacheInv, Agree, Listed, Counts, Handle
  <2>. QED  BY <1>1, <1>6, <2>2 DEF RemoveOldest
<1>7. CASE Prune \/ LoopEnds \/ UNCHANGED cacheVars
  BY <1>7 DEF Prune, LoopEnds, cacheVars, UsageInv
<1>. QED  BY <1>2, <1>3, <1>4, <1>5, <1>6, <1>7 DEF CacheNext

\* usage_ is what the entries in the cache are charged, each once: replacing, erasing and
\* evicting take off the charge of what goes, held or not, and nothing is taken off twice.
THEOREM UsageCorrect == CacheSpec => []UsageIsCharged
<1>1. CacheInit => UsageInv
  BY FS_EmptySet, TotalOfNothing DEF CacheInit, UsageInv, Charged
<1>2. CacheInv /\ UsageInv => UsageIsCharged
  BY TableIsCache DEF UsageInv, Charged, Total, UsageIsCharged
<1>. QED  BY <1>1, <1>2, NextUsage, CacheCorrect, PTL DEF CacheSpec

-----------------------------------------------------------------------------
(* The skip list.                                                           *)

Pointer == {Garbage, Null} \cup ListKey

Insertion == [key : ListKey, height : 1 .. MaxHeight, level : 0 .. MaxHeight, prev : [Levels -> Node]]

Search == [kind : {"ge", "lt", "last"}, target : ListKey, x : Node, level : Levels,
           known : SUBSET ListKey]

Result == [kind : {"ge", "lt", "last"}, target : ListKey \cup {Null}, known : SUBSET ListKey,
           node : Node \cup {Null}]

ListTypeOK ==
  /\ next \in [Node -> [Levels -> Pointer]]
  /\ maxHeight \in 1 .. MaxHeight
  /\ insertion \subseteq Insertion
  /\ \A i, j \in insertion : i = j
  /\ inserted \subseteq ListKey
  /\ search \subseteq Search
  /\ found \subseteq Result

\* The nodes from which a level can be followed.
OnLevel(l) == {HeadNode} \cup Linked(l)

(***************************************************************************)
(* Each level is a sorted list: a pointer of a node on it goes to the next *)
(* node of it, and a node that is not on it has no pointer there.  Each    *)
(* level is part of the one below, and above max_height_ there is none.    *)
(***************************************************************************)
Sorted ==
  \A l \in Levels : \A n \in Node :
    /\ next[n][l] # Garbage <=> n \in OnLevel(l)
    /\ n \in OnLevel(l) => /\ n < next[n][l]
                           /\ \A m \in Linked(l) : m <= n \/ next[n][l] <= m

Nested ==
  /\ \A l \in Levels : l + 1 \in Levels => Linked(l + 1) \subseteq Linked(l)
  /\ \A l \in Levels : l >= maxHeight => Linked(l) = {}

(***************************************************************************)
(* An insertion has linked its node from the bottom up to its level, and   *)
(* above that its prev still are the places where the node goes.           *)
(***************************************************************************)
Inserting ==
  /\ Linked(0) = inserted \cup {i.key : i \in {i \in insertion : i.level > 0}}
  /\ \A i \in insertion :
       /\ i.key \notin inserted
       /\ i.level <= i.height /\ i.height <= maxHeight
       /\ \A l \in Levels :
            /\ i.key \in Linked(l) <=> l < i.level
            /\ i.level <= l => /\ i.prev[l] \in OnLevel(l)
                               /\ i.prev[l] < i.key /\ i.key < next[i.prev[l]][l]

\* A search is on a node of its level, before its target.
Searching ==
  /\ \A s \in search : /\ s.x \in OnLevel(s.level)
                       /\ s.kind # "last" => s.x < s.target
                       /\ s.known \subseteq inserted
  /\ \A f \in found : f.node \in Linked(0) \cup (IF f.kind = "ge" THEN {Null} ELSE {HeadNode})

ListInv ==
  ListTypeOK /\ Sorted /\ Nested /\ Inserting /\ Searching /\ SearchFindsWhatWasThere

-----------------------------------------------------------------------------
LEMMA ListConstants ==
  /\ NumKeys \in Nat \ {0} /\ MaxHeight \in Nat \ {0}
  /\ ListKey \subseteq Nat \ {0} /\ Levels \subseteq Nat /\ 0 \in Levels
  /\ Null \in Nat \ {0} /\ \A k \in ListKey : k < Null
  /\ Garbage = -1 /\ HeadNode = 0 /\ Node \subseteq Nat
  /\ ListKey \subseteq Node /\ HeadNode \in Node /\ HeadNode \notin ListKey
  /\ \A l \in Levels : l - 1 \in Levels \/ l = 0
BY SkipListAssumption DEF ListKey, Levels, Null, Garbage, HeadNode, Node

LEMMA LinkedKeys == \A l : Linked(l) \subseteq ListKey /\ OnLevel(l) \subseteq Node
BY ListConstants DEF Linked, OnLevel

\* Along Nested, a node of a level is on every level below.
LEMMA OnLevelBelow ==
  ASSUME Nested, NEW l \in Levels, l # 0
  PROVE  OnLevel(l) \subseteq OnLevel(l - 1)
BY ListConstants DEF Nested, OnLevel

LEMMA LinkedBottom ==
  ASSUME Nested, NEW l \in Levels
  PROVE  Linked(l) \subseteq Linked(0)
<1> SUFFICES ASSUME NEW n, n \in Linked(l), n \notin Linked(0) PROVE FALSE
  OBVIOUS
<1> DEFINE D == {m \in Levels : n \in Linked(m)}
<1>1. D \subseteq Nat /\ D # {}
  BY ListConstants
<1>2. PICK m \in D : \A k \in D : m <= k
  <2>. HIDE DEF D
  <2>. QED  BY <1>1, LeastNatural
<1>3. m # 0 /\ m \in Levels /\ m \in Nat /\ n \in Linked(m)
  BY <1>1
<1>4. m - 1 \in Levels /\ (m - 1) + 1 = m
  BY <1>3, ListConstants
<1>5. m - 1 \in D
  BY <1>3, <1>4 DEF Nested
<1>. QED  BY <1>2, <1>3, <1>5

LEMMA ListInitInv == ListInit => ListInv
<1> SUFFICES ASSUME ListInit PROVE ListInv
  OBVIOUS
<1> USE ListConstants
<1>1. \A l \in Levels : Linked(l) = {}
  <2> SUFFICES ASSUME NEW l \in Levels, NEW n \in ListKey, NEW m \in Node, next[m][l] = n
               PROVE  FALSE
    BY DEF Linked
  <2>1. next[m][l] = IF m = HeadNode THEN Null ELSE Garbage
    BY DEF ListInit
  <2>. QED  BY <2>1
<1>2. ListTypeOK
  BY SkipListAssumption DEF ListInit, ListTypeOK, Pointer
<1>3. Sorted
  BY <1>1 DEF ListInit, Sorted, OnLevel
<1>4. Nested
  BY <1>1 DEF Nested
<1>5. Inserting /\ Searching /\ SearchFindsWhatWasThere
  BY <1>1 DEF ListInit, Inserting, Searching, SearchFindsWhatWasThere
<1>. QED  BY <1>2, <1>3, <1>4, <1>5 DEF ListInv

-----------------------------------------------------------------------------
\* The place where a key that is not on a level would go.
LEMMA PrevAtIsThePlace ==
  ASSUME ListTypeOK, Sorted, NEW l \in Levels, NEW key \in ListKey, key \notin Linked(l)
  PROVE  /\ PrevAt(key, l) \in OnLevel(l)
         /\ PrevAt(key, l) < key /\ key < next[PrevAt(key, l)][l]
<1> DEFINE S == {n \in OnLevel(l) : n < key}
<1>1. S \subseteq Int /\ HeadNode \in S /\ IsFiniteSet(S)
  <2>1. S \subseteq 0 .. NumKeys /\ HeadNode \in S
    BY LinkedKeys, ListConstants DEF OnLevel, Node, ListKey
  <2>2. IsFiniteSet(0 .. NumKeys)
    BY ListConstants, FS_Interval
  <2>3. S \in SUBSET (0 .. NumKeys) /\ S \subseteq Int
    BY <2>1
  <2>. HIDE DEF S
  <2>. QED  BY <2>1, <2>2, <2>3, FS_Subset
<1>2. PrevAt(key, l) = Max(S)
  BY DEF PrevAt, OnLevel
<1>3. PICK p \in S : p = PrevAt(key, l) /\ \A y \in S : y <= p
  <2>. HIDE DEF S
  <2>. QED  BY <1>1, <1>2, MaxOfFinite
<1>4. p \in OnLevel(l) /\ p < key /\ p \in Node
  BY <1>3, LinkedKeys
<1>5. PICK q \in Pointer : q = next[p][l]
  BY <1>4 DEF ListTypeOK
<1>6. q # Garbage /\ p < q
  BY <1>4, <1>5 DEF Sorted
<1>7. /\ p \in Int /\ key \in Int /\ q \in Int
      /\ q \in ListKey \/ (q = Null /\ key < Null)
  BY <1>4, <1>6, ListConstants DEF Pointer
<1>8. CASE q \in ListKey
  <2>1. q \in Linked(l)
    BY <1>4, <1>5, <1>8 DEF Linked
  <2>2. q # key /\ q \in OnLevel(l)
    BY <2>1 DEF OnLevel
  <2>3. q < key => q \in S
    BY <2>2
  <2>. HIDE DEF S
  <2>. QED  BY <1>3, <1>4, <1>5, <1>6, <1>7, <2>2, <2>3
<1>. QED  BY <1>3, <1>4, <1>5, <1>7, <1>8

LEMMA StartInsertStep ==
  ASSUME ListInv, NEW key \in ListKey, NEW height \in 1 .. MaxHeight, StartInsert(key, height)
  PROVE  ListInv'
<1> USE ListConstants DEF ListInv
<1> DEFINE prev == [l \in Levels |-> IF l < maxHeight THEN PrevAt(key, l) ELSE HeadNode]
           i == [key |-> key, height |-> height, level |-> 0, prev |-> prev]
<1>1. /\ insertion = {} /\ key \notin inserted /\ insertion' = {i}
      /\ maxHeight' = IF height > maxHeight THEN height ELSE maxHeight
      /\ UNCHANGED <<next, inserted, search, found>>
  BY DEF StartInsert
<1>2. \A l : Linked(l)' = Linked(l) /\ OnLevel(l)' = OnLevel(l)
  BY <1>1 DEF Linked, OnLevel
<1>3. Linked(0) = inserted
  BY <1>1 DEF Inserting
<1>4. ASSUME NEW l \in Levels
      PROVE  /\ key \notin Linked(l) /\ prev[l] \in OnLevel(l) /\ prev[l] \in Node
             /\ prev[l] < key /\ key < next[prev[l]][l]
  <2>1. key \notin Linked(l)
    BY <1>1, <1>3, LinkedBottom
  <2>2. CASE l < maxHeight
    <3>1. prev[l] = PrevAt(key, l)
      BY <2>2
    <3>. QED  BY <2>1, <3>1, PrevAtIsThePlace, LinkedKeys
  <2>3. CASE ~(l < maxHeight)
    <3>1. prev[l] = HeadNode
      BY <2>3
    <3>2. Linked(l) = {}
      BY <2>3 DEF Nested, ListTypeOK
    <3>3. HeadNode \in OnLevel(l)
      BY DEF OnLevel
    <3>4. /\ next[HeadNode][l] # Garbage /\ HeadNode < next[HeadNode][l]
          /\ next[HeadNode][l] \in Pointer
      BY <3>3 DEF Sorted, ListTypeOK
    <3>5. next[HeadNode][l] \notin ListKey
      BY <3>2 DEF Linked
    <3>6. next[HeadNode][l] = Null
      BY <3>4, <3>5 DEF Pointer
    <3>. QED  BY <2>1, <3>1, <3>3, <3>6
  <2>. QED  BY <2>2, <2>3
<1>5. i \in Insertion
  <2>1. prev \in [Levels -> Node]
    BY <1>4
  <2>. HIDE DEF prev
  <2>. QED  BY <2>1 DEF Insertion
<1>6. ListTypeOK'
  <2>1. maxHeight' \in 1 .. MaxHeight
    BY <1>1 DEF ListTypeOK
  <2>2. \A a, b \in insertion' : a = b
    BY <1>1
  <2>. QED  BY <1>1, <1>5, <2>1, <2>2 DEF ListTypeOK
<1>7. Sorted'
  BY <1>1, <1>2 DEF Sorted
<1>8. Nested'
  BY <1>1, <1>2 DEF Nested, ListTypeOK
<1>9. Inserting'
  <2>. HIDE DEF prev
  <2>1. i.level = 0 /\ i.height = height /\ i.key = key /\ i.prev = prev
    OBVIOUS
  <2>2. Linked(0)' = inserted' \cup {j.key : j \in {j \in insertion' : j.level > 0}}
    BY <1>1, <1>2, <1>3, <2>1
  <2>3. i.height <= maxHeight'
    BY <1>1, <2>1 DEF ListTypeOK
  <2>4. \A l \in Levels :
            /\ i.key \in Linked(l)' <=> l < i.level
            /\ i.level <= l => /\ i.prev[l] \in OnLevel(l)'
                               /\ i.prev[l] < i.key /\ i.key < next'[i.prev[l]][l]
    <3> SUFFICES ASSUME NEW l \in Levels
                 PROVE  /\ key \in Linked(l)' <=> l < 0
                        /\ prev[l] \in OnLevel(l)'
                        /\ prev[l] < key /\ key < next'[prev[l]][l]
      BY <2>1
    <3>1. ~(l < 0)
      OBVIOUS
    <3>. QED  BY <1>1, <1>2, <1>4, <3>1
  <2>. QED  BY <1>1, <2>1, <2>2, <2>3, <2>4 DEF Inserting
<1>10. Searching' /\ SearchFindsWhatWasThere'
  BY <1>1, <1>2 DEF Searching, SearchFindsWhatWasThere
<1>. QED  BY <1>6, <1>7, <1>8, <1>9, <1>10

-----------------------------------------------------------------------------
\* A key linked at its place on a level is on it, and the level is still sorted.
LEMMA LinkAtItsPlace ==
  ASSUME ListTypeOK, Sorted, NEW l0 \in Levels, NEW key \in ListKey, NEW p \in Node,
         key \notin Linked(l0), p \in OnLevel(l0), p < key, key < next[p][l0],
         next' = [next EXCEPT ![key][l0] = next[p][l0], ![p][l0] = key]
  PROVE  /\ next' \in [Node -> [Levels -> Pointer]]
         /\ \A l \in Levels : Linked(l)' = IF l = l0 THEN Linked(l) \cup {key} ELSE Linked(l)
         /\ Sorted'
<1>1. PICK q : q = next[p][l0]
  OBVIOUS
<1>2. /\ next \in [Node -> [Levels -> Pointer]]
      /\ key \in Node /\ key \in Pointer /\ q \in Pointer /\ q # Garbage
      /\ key < q /\ p # key /\ key \notin OnLevel(l0) /\ key # Garbage
      /\ key \in Int /\ p \in Int /\ q \in Int
      /\ \A n \in Node, l \in Levels : n \in Int /\ next[n][l] \in Int
  <2>1. /\ next \in [Node -> [Levels -> Pointer]] /\ key \in Node /\ key \in Pointer /\ key < q
    BY <1>1, ListConstants DEF ListTypeOK, Pointer
  <2>2. q \in Pointer /\ Node \subseteq Int /\ Pointer \subseteq Int /\ key # Garbage
    BY <1>1, <2>1, ListConstants DEF Pointer
  <2>3. q # Garbage
    BY <1>1, <2>1 DEF Sorted
  <2>4. key \in Int /\ p \in Int /\ p # key
    BY <2>1, <2>2
  <2>5. key \notin OnLevel(l0)
    BY ListConstants DEF OnLevel
  <2>6. \A n \in Node, l \in Levels : n \in Int /\ next[n][l] \in Int
    BY <2>1, <2>2
  <2>. QED  BY <2>1, <2>2, <2>3, <2>4, <2>5, <2>6
<1>3. /\ next' \in [Node -> [Levels -> Pointer]]
      /\ \A n \in Node, l \in Levels :
           next'[n][l] = IF l = l0 /\ n = key THEN q
                         ELSE IF l = l0 /\ n = p THEN key ELSE next[n][l]
  BY <1>1, <1>2
<1>4. /\ \A m \in Linked(l0) : m \in ListKey /\ m \in Node /\ m \in Int
      /\ \A m \in Linked(l0) : m <= p \/ q <= m
      /\ \A n \in Node : next[n][l0] # Garbage <=> n \in OnLevel(l0)
      /\ \A n \in OnLevel(l0) : n < next[n][l0] /\ \A m \in Linked(l0) : m <= n \/ next[n][l0] <= m
  BY <1>1, LinkedKeys, ListConstants DEF Sorted
<1>5. ASSUME NEW l \in Levels \ {l0} PROVE Linked(l)' = Linked(l)
  <2>1. \A n \in Node : next'[n][l] = next[n][l]
    BY <1>3
  <2>. QED  BY <2>1 DEF Linked
<1>6. Linked(l0)' = Linked(l0) \cup {key}
  <2>1. ASSUME NEW n \in Linked(l0)' PROVE n \in Linked(l0) \cup {key}
    <3>1. PICK m \in Node : next'[m][l0] = n
      BY DEF Linked
    <3>2. n \in ListKey
      BY DEF Linked
    <3>3. n = q \/ n = key \/ next[m][l0] = n
      BY <3>1, <1>3
    <3>. QED  BY <1>1, <3>2, <3>3 DEF Linked
  <2>2. ASSUME NEW n \in Linked(l0) PROVE n \in Linked(l0)'
    <3>1. PICK m \in Node : next[m][l0] = n
      BY DEF Linked
    <3>2. n \in ListKey /\ n # Garbage
      BY ListConstants DEF Linked
    <3>3. m # key
      BY <1>2, <1>4, <3>1, <3>2
    <3>4. next'[m][l0] = n \/ next'[key][l0] = n
      BY <1>1, <1>2, <1>3, <3>1, <3>3
    <3>. QED  BY <1>2, <3>2, <3>4 DEF Linked
  <2>3. key \in Linked(l0)'
    <3>1. next'[p][l0] = key
      BY <1>2, <1>3
    <3>. QED  BY <3>1 DEF Linked
  <2>. QED  BY <2>1, <2>2, <2>3
<1>7. /\ \A l \in Levels \ {l0} : OnLevel(l)' = OnLevel(l)
      /\ OnLevel(l0)' = OnLevel(l0) \cup {key}
  BY <1>5, <1>6 DEF OnLevel
<1>8. Sorted'
  <2> SUFFICES ASSUME NEW l \in Levels, NEW n \in Node
               PROVE  /\ next'[n][l] # Garbage <=> n \in OnLevel(l)'
                      /\ n \in OnLevel(l)' => /\ n < next'[n][l]
                                              /\ \A m \in Linked(l)' : m <= n \/ next'[n][l] <= m
    BY DEF Sorted
  <2>1. CASE l # l0
    BY <1>3, <1>5, <1>7, <2>1 DEF Sorted
  <2>2. CASE l = l0 /\ n = key
    BY <1>2, <1>3, <1>4, <1>6, <1>7, <2>2
  <2>3. CASE l = l0 /\ n = p
    BY <1>2, <1>3, <1>4, <1>6, <1>7, <2>3
  <2>4. CASE l = l0 /\ n # key /\ n # p
    <3>1. next'[n][l] = next[n][l]
      BY <1>3, <2>4
    <3>2. n \in OnLevel(l)' <=> n \in OnLevel(l)
      BY <1>7, <2>4
    <3>3. ASSUME n \in OnLevel(l) PROVE key <= n \/ next[n][l] <= key
      <4>1. /\ n < next[n][l] /\ n \in Int /\ next[n][l] \in Int
            /\ \A m \in Linked(l) : m <= n \/ next[n][l] <= m
        BY <1>2, <1>4, <2>4, <3>3
      <4>2. n = HeadNode \/ n <= p \/ q <= n
        BY <1>4, <2>4, <3>3 DEF OnLevel
      <4>3. p = HeadNode \/ p <= n \/ next[n][l] <= p
        BY <4>1, <2>4 DEF OnLevel
      <4>4. HeadNode <= n /\ HeadNode <= p
        BY ListConstants
      <4>. QED  BY <1>2, <2>4, <4>1, <4>2, <4>3, <4>4
    <3>4. \A m \in Linked(l)' : m \in Linked(l) \/ m = key
      BY <1>6, <2>4
    <3>. QED  BY <1>4, <2>4, <3>1, <3>2, <3>3, <3>4
  <2>. QED  BY <2>1, <2>2, <2>3, <2>4
<1>9. \A l \in Levels : Linked(l)' = IF l = l0 THEN Linked(l) \cup {key} ELSE Linked(l)
  BY <1>5, <1>6
<1>. QED  BY <1>3, <1>8, <1>9

LEMMA LinkLevelStep ==
  ASSUME ListInv, LinkLevel
  PROVE  ListInv'
<1> USE DEF ListInv
<1>1. PICK i \in insertion :
        /\ i.level < i.height
        /\ next' = [next EXCEPT ![i.key][i.level] = next[i.prev[i.level]][i.level],
                                ![i.prev[i.level]][i.level] = i.key]
        /\ insertion' = {[i EXCEPT !.level = @ + 1]}
  BY DEF LinkLevel, LevelToLink
<1>2. UNCHANGED <<maxHeight, inserted, search, found>>
  BY DEF LinkLevel
<1>3. PICK key, height, l0, prev, p, j :
        /\ key = i.key /\ height = i.height /\ l0 = i.level /\ prev = i.prev
        /\ p = prev[l0] /\ j = [i EXCEPT !.level = @ + 1]
  OBVIOUS
<1>4. /\ insertion = {i} /\ i \in Insertion
      /\ key \in ListKey /\ height \in 1 .. MaxHeight /\ l0 \in 0 .. MaxHeight
      /\ prev \in [Levels -> Node] /\ l0 < height
  BY <1>1, <1>3 DEF ListTypeOK, Insertion
<1>5. l0 \in Levels /\ l0 \in Nat /\ l0 + 1 \in 0 .. MaxHeight /\ p \in Node
  <2>1. l0 \in Levels /\ l0 \in Nat /\ l0 + 1 \in 0 .. MaxHeight
    BY <1>4, ListConstants DEF Levels
  <2>. QED  BY <1>3, <1>4, <2>1
<1>6. /\ insertion' = {j} /\ j \in Insertion
      /\ j.key = key /\ j.height = height /\ j.level = l0 + 1 /\ j.prev = prev
  BY <1>1, <1>3, <1>4, <1>5 DEF Insertion
<1>7. /\ key \notin inserted /\ height <= maxHeight
      /\ \A l \in Levels :
           /\ key \in Linked(l) <=> l < l0
           /\ l0 <= l => /\ prev[l] \in OnLevel(l)
                         /\ prev[l] < key /\ key < next[prev[l]][l]
      /\ Linked(0) = inserted \cup (IF l0 > 0 THEN {key} ELSE {})
  BY <1>3, <1>4 DEF Inserting
<1>8. /\ key \notin Linked(l0) /\ p \in OnLevel(l0) /\ p < key /\ key < next[p][l0]
      /\ next' = [next EXCEPT ![key][l0] = next[p][l0], ![p][l0] = key]
  BY <1>1, <1>3, <1>5, <1>7
<1>9. /\ next' \in [Node -> [Levels -> Pointer]]
      /\ \A n \in Node, l \in Levels : next'[n][l] = next[n][l] \/ (l = l0 /\ (n = key \/ n = p))
      /\ \A l \in Levels : Linked(l)' = IF l = l0 THEN Linked(l) \cup {key} ELSE Linked(l)
      /\ Sorted'
  <2>1. ListTypeOK /\ Sorted
    OBVIOUS
  <2>. HIDE DEF ListInv
  <2>2. next' \in [Node -> [Levels -> Pointer]]
    BY <1>4, <1>5, <1>8, <2>1, LinkAtItsPlace
  <2>3. \A n \in Node, l \in Levels : next'[n][l] = next[n][l] \/ (l = l0 /\ (n = key \/ n = p))
    <3>1. next \in [Node -> [Levels -> Pointer]]
      BY <2>1 DEF ListTypeOK
    <3>2. next' = [next EXCEPT ![key][l0] = next[p][l0], ![p][l0] = key] /\ key \in Node
      BY <1>4, <1>8, ListConstants
    <3>. QED  BY <1>5, <3>1, <3>2
  <2>4. \A l \in Levels : Linked(l)' = IF l = l0 THEN Linked(l) \cup {key} ELSE Linked(l)
    BY <1>4, <1>5, <1>8, <2>1, LinkAtItsPlace
  <2>5. Sorted'
    BY <1>4, <1>5, <1>8, <2>1, LinkAtItsPlace
  <2>. QED  BY <2>2, <2>3, <2>4, <2>5
<1>10. /\ \A l \in Levels : OnLevel(l) \subseteq OnLevel(l)'
       /\ \A l \in Levels : Linked(l) \subseteq Linked(l)'
  BY <1>9 DEF OnLevel
<1>11. ListTypeOK'
  <2>1. \A a, b \in insertion' : a = b
    BY <1>6
  <2>. QED  BY <1>2, <1>6, <1>9, <2>1 DEF ListTypeOK
<1>12. Nested'
  <2>1. ASSUME NEW l \in Levels, l + 1 \in Levels PROVE Linked(l + 1)' \subseteq Linked(l)'
    <3>1. Linked(l + 1) \subseteq Linked(l)
      BY <2>1 DEF Nested
    <3>2. CASE l + 1 = l0
      <4>1. key \in Linked(l)
        BY <1>7, <3>2, ListConstants
      <4>2. Linked(l + 1)' = Linked(l + 1) \cup {key}
        BY <1>9, <2>1, <3>2
      <4>. QED  BY <1>10, <3>1, <4>1, <4>2
    <3>3. CASE l + 1 # l0
      BY <1>9, <1>10, <2>1, <3>1, <3>3
    <3>. QED  BY <3>2, <3>3
  <2>2. ASSUME NEW l \in Levels, l >= maxHeight' PROVE Linked(l)' = {}
    <3>1. l # l0
      BY <1>2, <1>4, <1>7, <2>2, ListConstants DEF ListTypeOK
    <3>. QED  BY <1>2, <1>9, <2>2, <3>1 DEF Nested
  <2>. QED  BY <2>1, <2>2 DEF Nested
<1>13. Inserting'
  <2>1. Linked(0)' = inserted' \cup {a.key : a \in {a \in insertion' : a.level > 0}}
    <3>1. {a.key : a \in {a \in insertion' : a.level > 0}} = {key}
      BY <1>5, <1>6
    <3>. QED  BY <1>2, <1>5, <1>7, <1>9, <3>1, ListConstants, SMTT(30)
  <2>2. key \notin inserted' /\ j.level <= j.height /\ j.height <= maxHeight'
    BY <1>2, <1>4, <1>5, <1>6, <1>7
  <2>3. ASSUME NEW l \in Levels
        PROVE  /\ key \in Linked(l)' <=> l < l0 + 1
               /\ l0 + 1 <= l => /\ prev[l] \in OnLevel(l)'
                                 /\ prev[l] < key /\ key < next'[prev[l]][l]
    <3>1. l \in Int /\ prev[l] \in Node
      BY <1>4, ListConstants
    <3>2. CASE l = l0
      BY <1>5, <1>9, <3>2
    <3>3. CASE l # l0
      <4>1. key \in Linked(l)' <=> l < l0
        BY <1>7, <1>9, <3>3
      <4>. QED  BY <1>5, <1>7, <1>9, <1>10, <3>1, <3>3, <4>1
    <3>. QED  BY <3>2, <3>3
  <2>. QED  BY <1>6, <2>1, <2>2, <2>3 DEF Inserting
<1>14. Searching'
  <2>1. ASSUME NEW s \in search PROVE s.x \in OnLevel(s.level)'
    BY <1>10 DEF Searching, ListTypeOK, Search
  <2>2. Linked(0) \subseteq Linked(0)'
    BY <1>10, ListConstants
  <2>. QED  BY <1>2, <2>1, <2>2 DEF Searching
<1>15. SearchFindsWhatWasThere'
  BY <1>2 DEF SearchFindsWhatWasThere
<1>. QED  BY <1>9, <1>11, <1>12, <1>13, <1>14, <1>15

LEMMA InsertReturnsStep ==
  ASSUME ListInv, InsertReturns
  PROVE  ListInv'
<1> USE DEF ListInv
<1>1. PICK i \in insertion : i.level = i.height /\ inserted' = inserted \cup {i.key}
  BY DEF InsertReturns
<1>2. insertion' = {} /\ UNCHANGED <<next, maxHeight, search, found>>
  BY DEF InsertReturns
<1>3. insertion = {i} /\ i.key \in ListKey /\ i.level > 0
  BY <1>1, ListConstants DEF ListTypeOK, Insertion
<1>4. \A l : Linked(l)' = Linked(l) /\ OnLevel(l)' = OnLevel(l)
  BY <1>2 DEF Linked, OnLevel
<1>5. Linked(0) = inserted \cup {i.key}
  BY <1>3 DEF Inserting
<1>6. ListTypeOK' /\ Sorted' /\ Nested'
  BY <1>1, <1>2, <1>3, <1>4 DEF ListTypeOK, Sorted, Nested
<1>7. Inserting'
  BY <1>1, <1>2, <1>4, <1>5 DEF Inserting
<1>8. Searching' /\ SearchFindsWhatWasThere'
  BY <1>1, <1>2, <1>4 DEF Searching, SearchFindsWhatWasThere
<1>. QED  BY <1>6, <1>7, <1>8

-----------------------------------------------------------------------------
LEMMA StartSearchStep ==
  ASSUME ListInv, NEW kind \in {"ge", "lt", "last"}, NEW target \in ListKey,
         StartSearch(kind, target)
  PROVE  ListInv'
<1> USE DEF ListInv
<1>1. PICK h \in 1 .. maxHeight :
        search' = {[kind |-> kind, target |-> target, x |-> HeadNode, level |-> h - 1,
                    known |-> inserted]}
  BY DEF StartSearch
<1>2. found' = {} /\ UNCHANGED <<next, maxHeight, insertion, inserted>>
  BY DEF StartSearch
<1>3. \A l : Linked(l)' = Linked(l) /\ OnLevel(l)' = OnLevel(l)
  BY <1>2 DEF Linked, OnLevel
<1>4. h - 1 \in Levels
  BY ListConstants DEF ListTypeOK, Levels
<1>5. ListTypeOK'
  <2>1. search' \subseteq Search
    BY <1>1, <1>4, ListConstants DEF Search, ListTypeOK
  <2>. QED  BY <1>2, <2>1 DEF ListTypeOK
<1>6. Sorted' /\ Nested' /\ Inserting'
  BY <1>2, <1>3 DEF Sorted, Nested, Inserting
<1>7. Searching' /\ SearchFindsWhatWasThere'
  BY <1>1, <1>2, ListConstants DEF Searching, SearchFindsWhatWasThere, OnLevel
<1>. QED  BY <1>5, <1>6, <1>7

\* What makes a search keep to its level, kind by kind.
LEMMA GoesOnByKind ==
  ASSUME NEW s \in Search, NEW n
  PROVE  GoesOn(s, n) <=> /\ s.kind = "ge" => n # Null /\ n < s.target
                          /\ s.kind = "lt" => n # Null /\ n < s.target
                          /\ s.kind = "last" => n # Null
<1>1. s.kind \in {"ge", "lt", "last"}
  BY DEF Search
<1>. QED  BY <1>1, Zenon DEF GoesOn, KeyIsAfterNode

LEMMA SearchStepStep ==
  ASSUME ListInv, SearchStep
  PROVE  ListInv'
<1> USE DEF ListInv
<1>1. PICK s, n :
        /\ s \in search
        /\ n = next[s.x][s.level]
        /\ \/ GoesOn(s, n) /\ search' = {[s EXCEPT !.x = n]} /\ UNCHANGED found
           \/ ~GoesOn(s, n) /\ s.level # 0 /\ search' = {[s EXCEPT !.level = @ - 1]} /\ UNCHANGED found
           \/ /\ ~GoesOn(s, n) /\ s.level = 0 /\ search' = {}
              /\ found' = {[kind |-> s.kind, target |-> s.target, known |-> s.known,
                            node |-> IF s.kind = "ge" THEN n ELSE s.x]}
  BY DEF SearchStep, AtBottom
<1>2. UNCHANGED <<next, maxHeight, insertion, inserted>>
  BY DEF SearchStep
<1>3. \A l : Linked(l)' = Linked(l) /\ OnLevel(l)' = OnLevel(l)
  BY <1>2 DEF Linked, OnLevel
<1>4. PICK kind, target, x, level, known :
        /\ kind = s.kind /\ target = s.target /\ x = s.x /\ level = s.level /\ known = s.known
  OBVIOUS
<1>5. /\ s \in Search /\ kind \in {"ge", "lt", "last"} /\ target \in ListKey /\ x \in Node
      /\ level \in Levels /\ known \in SUBSET ListKey
      /\ x \in OnLevel(level) /\ known \subseteq inserted
      /\ kind # "last" => x < target
  BY <1>1, <1>4 DEF ListTypeOK, Search, Searching
<1>6. /\ n = next[x][level] /\ n \in Pointer /\ n # Garbage /\ x < n
      /\ \A m \in Linked(level) : m <= x \/ n <= m
      /\ n \in ListKey \cup {Null}
      /\ n \in ListKey => n \in Linked(level)
  <2>1. /\ n = next[x][level] /\ n \in Pointer /\ n # Garbage /\ x < n
        /\ \A m \in Linked(level) : m <= x \/ n <= m
    BY <1>1, <1>4, <1>5 DEF ListTypeOK, Sorted
  <2>. QED  BY <1>5, <2>1 DEF Linked, Pointer
<1>7. GoesOn(s, n) <=> /\ n # Null
                       /\ kind \in {"ge", "lt"} => n < target
  BY <1>4, <1>5, GoesOnByKind
<1>8. Sorted' /\ Nested' /\ Inserting'
  BY <1>2, <1>3 DEF Sorted, Nested, Inserting
<1>9. CASE GoesOn(s, n) /\ search' = {[s EXCEPT !.x = n]} /\ UNCHANGED found
  <2>1. /\ n \in Linked(level) /\ n \in Node
        /\ kind # "last" => n < target
    BY <1>5, <1>6, <1>7, <1>9, ListConstants
  <2>2. PICK t : t = [s EXCEPT !.x = n]
    OBVIOUS
  <2>3. /\ t \in Search /\ t.kind = kind /\ t.target = target /\ t.x = n /\ t.level = level
        /\ t.known = known /\ search' = {t}
    BY <1>4, <1>5, <1>9, <2>1, <2>2 DEF Search
  <2>4. ListTypeOK'
    BY <1>2, <1>9, <2>3 DEF ListTypeOK
  <2>5. Searching'
    BY <1>2, <1>3, <1>5, <1>9, <2>1, <2>3 DEF Searching, OnLevel
  <2>6. SearchFindsWhatWasThere'
    BY <1>9 DEF SearchFindsWhatWasThere
  <2>. QED  BY <1>8, <2>4, <2>5, <2>6
<1>10. CASE s.level # 0 /\ search' = {[s EXCEPT !.level = @ - 1]} /\ UNCHANGED found
  <2>1. level # 0 /\ level - 1 \in Levels /\ x \in OnLevel(level - 1)
    BY <1>4, <1>5, <1>10, OnLevelBelow, ListConstants
  <2>2. PICK t : t = [s EXCEPT !.level = @ - 1]
    OBVIOUS
  <2>3. /\ t \in Search /\ t.kind = kind /\ t.target = target /\ t.x = x /\ t.level = level - 1
        /\ t.known = known /\ search' = {t}
    BY <1>4, <1>5, <1>10, <2>1, <2>2 DEF Search
  <2>4. ListTypeOK'
    BY <1>2, <1>10, <2>3 DEF ListTypeOK
  <2>5. Searching'
    BY <1>2, <1>3, <1>5, <1>10, <2>1, <2>3 DEF Searching
  <2>6. SearchFindsWhatWasThere'
    BY <1>10 DEF SearchFindsWhatWasThere
  <2>. QED  BY <1>8, <2>4, <2>5, <2>6
<1>11. CASE /\ ~GoesOn(s, n) /\ s.level = 0 /\ search' = {}
            /\ found' = {[kind |-> s.kind, target |-> s.target, known |-> s.known,
                          node |-> IF s.kind = "ge" THEN n ELSE s.x]}
  <2>1. PICK f : f = [kind |-> kind, target |-> target, known |-> known,
                      node |-> IF kind = "ge" THEN n ELSE x]
    OBVIOUS
  <2>2. /\ found' = {f} /\ f.kind = kind /\ f.target = target /\ f.known = known
        /\ f.node = IF kind = "ge" THEN n ELSE x
    BY <1>4, <1>11, <2>1
  <2>3. f \in Result
    BY <1>5, <1>6, <2>1, ListConstants DEF Result
  <2>4. ListTypeOK'
    BY <1>2, <1>11, <2>2, <2>3 DEF ListTypeOK
  <2>5. Searching'
    <3>1. level = 0
      BY <1>4, <1>11
    <3>2. f.node \in Linked(0)' \cup (IF f.kind = "ge" THEN {Null} ELSE {HeadNode})
      BY <1>3, <1>5, <1>6, <2>2, <3>1 DEF OnLevel
    <3>. QED  BY <1>11, <2>2, <3>2 DEF Searching
  <2>6. SearchFindsWhatWasThere'
    <3>1. \A g \in found' : g.kind \in {"ge", "lt", "last"} /\ g.known \subseteq ListKey
      BY <1>5, <2>2
    <3>2. ASSUME NEW k \in ListKey, k \in known
          PROVE  /\ kind = "ge" /\ k >= target => n <= k
                 /\ kind = "lt" /\ k < target => x >= k
                 /\ kind = "last" => x >= k
      <4>1. k <= x \/ n <= k
        BY <1>4, <1>5, <1>6, <1>11, <3>2 DEF Inserting
      <4>2. k \in Int /\ x \in Int /\ n \in Int /\ target \in Int /\ k < Null /\ Null \in Int
        BY <1>5, <1>6, ListConstants
      <4>. QED  BY <1>5, <1>6, <1>7, <1>11, <4>1, <4>2
    <3>3. \A g \in found' : \A k \in g.known :
             /\ g.kind = "ge" /\ k >= g.target => g.node <= k
             /\ g.kind = "lt" /\ k < g.target => g.node >= k
             /\ g.kind = "last" => g.node >= k
      BY <1>5, <2>2, <3>2
    <3>. QED  BY <3>1, <3>3, Zenon DEF SearchFindsWhatWasThere
  <2>. QED  BY <1>8, <2>4, <2>5, <2>6
<1>. QED  BY <1>1, <1>9, <1>10, <1>11

LEMMA IteratorNextStep ==
  ASSUME ListInv, IteratorNext
  PROVE  ListInv'
<1> USE DEF ListInv
<1>1. PICK x, n, g :
        /\ x \in ListKey
        /\ n = next[x][0] /\ x \in Linked(0)
        /\ g = [kind |-> "ge", target |-> x + 1, known |-> inserted, node |-> n]
        /\ found' = {g}
  <2>1. PICK f \in found :
          /\ f.node \in ListKey
          /\ found' = {[kind |-> "ge", target |-> f.node + 1, known |-> inserted,
                        node |-> next[f.node][0]]}
    BY DEF IteratorNext
  <2>2. f.node \in Linked(0)
    BY <2>1, ListConstants DEF Searching
  <2>. QED  BY <2>1, <2>2
<1>2. UNCHANGED <<next, maxHeight, insertion, inserted, search>>
  BY DEF IteratorNext
<1>3. \A l : Linked(l)' = Linked(l) /\ OnLevel(l)' = OnLevel(l)
  BY <1>2 DEF Linked, OnLevel
<1>4. /\ n \in Pointer /\ n # Garbage /\ x < n
      /\ \A m \in Linked(0) : m <= x \/ n <= m
      /\ n \in ListKey \cup {Null}
      /\ n \in ListKey => n \in Linked(0)
  <2>1. /\ n \in Pointer /\ n # Garbage /\ x < n
        /\ \A m \in Linked(0) : m <= x \/ n <= m
    BY <1>1, ListConstants DEF ListTypeOK, Sorted, OnLevel
  <2>. QED  BY <1>1, <2>1, ListConstants DEF Linked, Pointer
<1>5. g \in Result
  <2>1. x + 1 \in ListKey \cup {Null}
    <3>1. x \in ListKey
      BY <1>1
    <3>. QED  BY <3>1, SkipListAssumption DEF ListKey, Null
  <2>. QED  BY <1>1, <1>4, <2>1, ListConstants DEF Result, ListTypeOK
<1>6. ListTypeOK'
  BY <1>1, <1>2, <1>5 DEF ListTypeOK
<1>7. Sorted' /\ Nested' /\ Inserting'
  BY <1>2, <1>3 DEF Sorted, Nested, Inserting
<1>8. Searching'
  BY <1>1, <1>2, <1>3, <1>4 DEF Searching
<1>9. SearchFindsWhatWasThere'
  <2>1. \A f \in found' : f.kind \in {"ge", "lt", "last"} /\ f.known \subseteq ListKey
    BY <1>1 DEF ListTypeOK
  <2>2. ASSUME NEW k \in ListKey, k \in inserted, k >= x + 1 PROVE n <= k
    <3>1. k <= x \/ n <= k
      BY <1>4, <2>2 DEF Inserting
    <3>2. k \in Int /\ x \in Int
      <4>1. x \in ListKey
        BY <1>1
      <4>. QED  BY <4>1 DEF ListKey
    <3>. QED  BY <2>2, <3>1, <3>2
  <2>3. \A f \in found' : \A k \in f.known :
             /\ f.kind = "ge" /\ k >= f.target => f.node <= k
             /\ f.kind = "lt" /\ k < f.target => f.node >= k
             /\ f.kind = "last" => f.node >= k
    BY <1>1, <2>2 DEF ListTypeOK
  <2>. QED  BY <2>1, <2>3, Zenon DEF SearchFindsWhatWasThere
<1>. QED  BY <1>6, <1>7, <1>8, <1>9

-----------------------------------------------------------------------------
(***************************************************************************)
(* Each level is a sorted list with no pointer that is not set, whatever   *)
(* the insertion has linked so far and wherever the searches are.          *)
(***************************************************************************)
THEOREM ListInvCorrect == ListSpec => []ListInv
<1>1. ListInit => ListInv
  BY ListInitInv
<1>2. ListInv /\ [ListNext]_skipVars => ListInv'
  <2> SUFFICES ASSUME ListInv, [ListNext]_skipVars PROVE ListInv'
    OBVIOUS
  <2>1. CASE UNCHANGED skipVars
    <3>1. UNCHANGED <<next, maxHeight, insertion, inserted, search, found>>
      BY <2>1 DEF skipVars
    <3>2. \A l : Linked(l)' = Linked(l) /\ OnLevel(l)' = OnLevel(l)
      BY <3>1 DEF Linked, OnLevel
    <3>3. SearchFindsWhatWasThere'
      BY <3>1 DEF ListInv, SearchFindsWhatWasThere
    <3>. QED  BY <3>1, <3>2, <3>3 DEF ListInv, ListTypeOK, Sorted, Nested, Inserting, Searching
  <2>2. ASSUME NEW key \in ListKey, NEW height \in 1 .. MaxHeight, StartInsert(key, height)
        PROVE  ListInv'
    BY <2>2, StartInsertStep
  <2>3. ASSUME NEW target \in ListKey, NEW kind \in {"ge", "lt", "last"}, StartSearch(kind, target)
        PROVE  ListInv'
    BY <2>3, StartSearchStep
  <2>. QED  BY <2>1, <2>2, <2>3, LinkLevelStep, InsertReturnsStep, SearchStepStep,
               IteratorNextStep DEF ListNext
<1>. QED  BY <1>1, <1>2, PTL DEF ListSpec

(***************************************************************************)
(* A search that runs beside an insertion reads no pointer that is not set *)
(* and ends at a node of the list, on the right side of its target.        *)
(***************************************************************************)
THEOREM SearchStaysInTheListCorrect == ListSpec => []SearchStaysInTheList
<1>1. ListInv => SearchStaysInTheList
  <2> SUFFICES ASSUME ListInv, NEW s \in search
               PROVE  /\ s.x = HeadNode \/ s.x \in Linked(0)
                      /\ next[s.x][s.level] # Garbage
    BY DEF ListInv, Searching, SearchStaysInTheList
  <2>1. s.x \in OnLevel(s.level) /\ s.level \in Levels /\ s.x \in Node
    BY DEF ListInv, ListTypeOK, Search, Searching
  <2>2. next[s.x][s.level] # Garbage
    BY <2>1 DEF ListInv, Sorted
  <2>. QED  BY <2>1, <2>2, LinkedBottom DEF ListInv, OnLevel
<1>. QED  BY <1>1, ListInvCorrect, PTL

(***************************************************************************)
(* It finds no later node, and comes back to no earlier one, than the keys *)
(* whose insertion had returned when it began allow.                       *)
(***************************************************************************)
THEOREM SearchFindsCorrect == ListSpec => []SearchFindsWhatWasThere
<1>1. ListInv => SearchFindsWhatWasThere
  BY DEF ListInv
<1>. QED  BY <1>1, ListInvCorrect, PTL

-----------------------------------------------------------------------------
(* The log: blocks.                                                         *)

Boundary(p) == p \in Nat /\ p % BlockSize = 0
BlockEnd(p) == BlockOf(p) + BlockSize

\* What the assumption says, for the solver.
LEMMA LogConstants == HeaderSize \in Nat /\ BlockSize \in Nat /\ 0 < HeaderSize /\ HeaderSize < BlockSize
BY LogAssumption

\* A boundary is a multiple of the size of blocks.
LEMMA Multiples ==
  ASSUME NEW p, Boundary(p)
  PROVE  p \div BlockSize \in Nat /\ p = BlockSize * (p \div BlockSize)
BY LogConstants DEF Boundary

\* The step from one multiple to the next.
LEMMA Products ==
  ASSUME NEW m \in Nat, NEW n \in Nat, m < n
  PROVE  BlockSize * m + BlockSize <= BlockSize * n
BY LogConstants

\* Boundaries are a block apart.
LEMMA Boundaries ==
  /\ Boundary(0)
  /\ \A p : Boundary(p) => Boundary(p + BlockSize)
  /\ \A p, q : Boundary(p) /\ Boundary(q) /\ p < q => p + BlockSize <= q
<1>1. Boundary(0)
  BY LogConstants DEF Boundary
<1>2. ASSUME NEW p, Boundary(p) PROVE Boundary(p + BlockSize)
  <2>. DEFINE n == p \div BlockSize
  <2>1. p \in Nat /\ n \in Nat /\ p = BlockSize * n
    BY <1>2, Multiples DEF Boundary
  <2>2. p + BlockSize = BlockSize * (n + 1) /\ n + 1 \in Nat
    <3>. HIDE DEF n
    <3>. QED  BY <2>1, LogConstants
  <2>3. (BlockSize * (n + 1)) % BlockSize = 0
    <3>. HIDE DEF n
    <3>. QED  BY <2>2, LogConstants
  <2>. HIDE DEF n
  <2>. QED  BY <2>1, <2>2, <2>3, LogConstants DEF Boundary
<1>3. ASSUME NEW p, NEW q, Boundary(p), Boundary(q), p < q PROVE p + BlockSize <= q
  <2>. DEFINE m == p \div BlockSize
              n == q \div BlockSize
  <2>1. m \in Nat /\ p = BlockSize * m /\ n \in Nat /\ q = BlockSize * n
    BY <1>3, Multiples
  <2>2. p \in Nat /\ q \in Nat
    BY <1>3 DEF Boundary
  <2>3. m < n
    <3>. HIDE DEF m, n
    <3>1. CASE n < m
      <4>1. BlockSize * n + BlockSize <= BlockSize * m
        BY <2>1, <3>1, Products
      <4>. QED  BY <4>1, <2>1, <2>2, <1>3, LogConstants
    <3>2. CASE n = m
      BY <3>2, <2>1, <1>3, <2>2
    <3>. QED  BY <3>1, <3>2, <2>1
  <2>4. BlockSize * m + BlockSize <= BlockSize * n
    <3>. HIDE DEF m, n
    <3>. QED  BY <2>1, <2>3, Products
  <2>. HIDE DEF m, n
  <2>. QED  BY <2>1, <2>4
<1>. QED  BY <1>1, <1>2, <1>3

\* The block of a byte begins at the only boundary that is less than a block before it.
LEMMA Blocks ==
  ASSUME NEW p \in Nat
  PROVE  /\ BlockOf(p) \in Nat /\ Boundary(BlockOf(p)) /\ BlockOf(p) <= p
         /\ BlockEnd(p) \in Nat /\ Boundary(BlockEnd(p)) /\ p < BlockEnd(p)
         /\ BlockEnd(p) = BlockOf(p) + BlockSize
         /\ \A q : Boundary(q) /\ q <= p /\ p < q + BlockSize => BlockOf(p) = q
<1>. DEFINE b == p - (p % BlockSize)
            n == p \div BlockSize
<1>1. p % BlockSize \in 0 .. BlockSize - 1 /\ n \in Nat
  BY LogConstants
<1>2. p = (BlockSize * n) + (p % BlockSize)
  BY LogConstants
<1>3. b = BlockSize * n /\ b \in Nat
  <2>. HIDE DEF n
  <2>1. BlockSize * n \in Nat
    BY <1>1, LogConstants
  <2>. QED  BY <1>1, <1>2, <2>1, LogConstants
<1>4. Boundary(b)
  <2>1. (BlockSize * n) % BlockSize = 0
    <3>. HIDE DEF n
    <3>. QED  BY <1>1, LogConstants
  <2>. HIDE DEF n, b
  <2>. QED  BY <1>3, <2>1 DEF Boundary
<1>5. b <= p /\ p < b + BlockSize
  BY <1>1, LogConstants
<1>6. BlockOf(p) = b /\ BlockEnd(p) = b + BlockSize
  BY DEF BlockOf, BlockEnd
<1>7. Boundary(b + BlockSize)
  <2>. HIDE DEF b
  <2>. QED  BY <1>4, Boundaries
<1>8. ASSUME NEW q, Boundary(q), q <= p, p < q + BlockSize PROVE b = q
  <2>. HIDE DEF b
  <2>1. q \in Nat
    BY <1>8 DEF Boundary
  <2>2. ~(b < q) /\ ~(q < b)
    <3>1. b < q => b + BlockSize <= q
      BY <1>4, <1>8, Boundaries
    <3>2. q < b => q + BlockSize <= b
      BY <1>4, <1>8, Boundaries
    <3>. QED  BY <3>1, <3>2, <1>3, <1>5, <1>8, <2>1, LogConstants
  <2>. QED  BY <2>1, <2>2, <1>3
<1>. HIDE DEF b
<1>. QED  BY <1>3, <1>4, <1>5, <1>6, <1>7, <1>8, LogConstants

-----------------------------------------------------------------------------
(* The log: where fragments are.                                            *)

FragmentType == {"full", "first", "middle", "last"}
Fragment == [at : Nat, type : FragmentType, length : Nat, rec : Nat \ {0}]

Past(g)   == g.at + HeaderSize + g.length
Begins(g) == g.type \in {"full", "first"}
Ends(g)   == g.type \in {"full", "last"}

\* Where the fragment after another is: after the trailer, if there is one.
NextAt(g) == IF BlockEnd(g.at) - Past(g) < HeaderSize THEN BlockEnd(g.at) ELSE Past(g)

InBlock(g) == Past(g) <= BlockEnd(g.at)

\* A fragment that may come after another, and one that may come after those of a file.
Succeeds(g, h) ==
  /\ h.at = NextAt(g)
  /\ Begins(h) <=> Ends(g)
  /\ h.rec = IF Ends(g) THEN g.rec + 1 ELSE g.rec

Fits(F, g) ==
  IF F = <<>> THEN g.at = 0 /\ Begins(g) /\ g.rec = 1 ELSE Succeeds(F[Len(F)], g)

Before(g, h) == Past(g) <= h.at /\ g.rec <= h.rec /\ (Ends(g) => g.rec < h.rec)

\* The fragments of a file are in their blocks, one after another.
Laid(F) ==
  /\ F \in Seq(Fragment)
  /\ \A i \in 1 .. Len(F) : InBlock(F[i])
  /\ F # <<>> => F[1].at = 0 /\ Begins(F[1]) /\ F[1].rec = 1
  /\ \A i \in 1 .. Len(F) - 1 : Succeeds(F[i], F[i + 1])
  /\ \A j \in 1 .. Len(F) : \A i \in 1 .. j - 1 : Before(F[i], F[j])

\* The parts of a fragment.
LEMMA FragmentFacts ==
  ASSUME NEW g \in Fragment
  PROVE  /\ g.at \in Nat /\ g.length \in Nat /\ g.rec \in Nat /\ g.rec > 0
         /\ g.type \in FragmentType
         /\ Past(g) \in Nat /\ Past(g) = g.at + HeaderSize + g.length /\ Past(g) > g.at
<1>1. g.at \in Nat /\ g.length \in Nat /\ g.rec \in Nat /\ g.rec > 0 /\ g.type \in FragmentType
  BY DEF Fragment
<1>. QED  BY <1>1, LogConstants DEF Past

\* The fragment after another is in its block, or where that ends.
LEMMA NextAfter ==
  ASSUME NEW g \in Fragment, InBlock(g)
  PROVE  NextAt(g) \in Nat /\ Past(g) <= NextAt(g) /\ NextAt(g) <= BlockEnd(g.at)
<1>1. g.at \in Nat /\ Past(g) \in Nat
  BY FragmentFacts
<1>2. BlockEnd(g.at) \in Nat
  BY <1>1, Blocks
<1>3. Past(g) <= BlockEnd(g.at)
  BY DEF InBlock
<1>. QED  BY <1>1, <1>2, <1>3 DEF NextAt

\* What comes next comes after.
LEMMA SucceedsIsBefore ==
  ASSUME NEW g \in Fragment, NEW h \in Fragment, InBlock(g), Succeeds(g, h)
  PROVE  Before(g, h)
<1>1. Past(g) <= h.at
  BY NextAfter DEF Succeeds
<1>2. g.rec \in Nat /\ h.rec = IF Ends(g) THEN g.rec + 1 ELSE g.rec
  BY FragmentFacts DEF Succeeds
<1>. QED  BY <1>1, <1>2 DEF Before

LEMMA BeforeTransitive ==
  ASSUME NEW f \in Fragment, NEW g \in Fragment, NEW h \in Fragment, Before(f, g), Before(g, h)
  PROVE  Before(f, h)
<1>1. /\ f.at \in Nat /\ g.at \in Nat /\ h.at \in Nat
      /\ Past(f) \in Nat /\ Past(g) \in Nat /\ Past(g) > g.at
      /\ f.rec \in Nat /\ g.rec \in Nat /\ h.rec \in Nat
  BY FragmentFacts
<1>2. /\ Past(f) <= g.at /\ f.rec <= g.rec /\ (Ends(f) => f.rec < g.rec)
      /\ Past(g) <= h.at /\ g.rec <= h.rec
  BY DEF Before
<1>3. Past(f) <= h.at /\ f.rec <= h.rec
  BY <1>1, <1>2
<1>4. Ends(f) => f.rec < h.rec
  BY <1>1, <1>2
<1>. QED  BY <1>3, <1>4 DEF Before

\* A fragment that fits after the others leaves them in order.
LEMMA AppendLaid ==
  ASSUME NEW F, Laid(F), NEW g \in Fragment, InBlock(g), Fits(F, g)
  PROVE  Laid(Append(F, g))
<1>. DEFINE n == Len(F)
            A == Append(F, g)
<1>1. F \in Seq(Fragment) /\ n \in Nat
  BY DEF Laid
<1>2. A \in Seq(Fragment) /\ Len(A) = n + 1 /\ A[n + 1] = g /\ \A i \in 1 .. n : A[i] = F[i]
  BY <1>1
<1>3. \A i \in 1 .. n : F[i] \in Fragment /\ InBlock(F[i])
  BY <1>1 DEF Laid
<1>. HIDE DEF A
<1>4. \A i \in 1 .. Len(A) : InBlock(A[i])
  BY <1>1, <1>2, <1>3
<1>5. A[1].at = 0 /\ Begins(A[1]) /\ A[1].rec = 1
  <2>1. CASE F = <<>>
    BY <2>1, <1>2 DEF Fits
  <2>2. CASE F # <<>>
    <3>1. 1 \in 1 .. n
      BY <2>2, <1>1
    <3>. QED  BY <2>2, <3>1, <1>2 DEF Laid
  <2>. QED  BY <2>1, <2>2
<1>6. ASSUME n > 0 PROVE Succeeds(F[n], g)
  BY <1>6, <1>1 DEF Fits
<1>7. \A i \in 1 .. Len(A) - 1 : Succeeds(A[i], A[i + 1])
  <2>. SUFFICES ASSUME NEW i \in 1 .. n PROVE Succeeds(A[i], A[i + 1])
    BY <1>1, <1>2
  <2>1. CASE i = n
    BY <2>1, <1>1, <1>2, <1>6
  <2>2. CASE i # n
    <3>1. i \in 1 .. n - 1 /\ i + 1 \in 1 .. n
      BY <2>2, <1>1
    <3>2. Succeeds(F[i], F[i + 1])
      BY <3>1 DEF Laid
    <3>. QED  BY <3>1, <3>2, <1>2
  <2>. QED  BY <2>1, <2>2
<1>8. \A i \in 1 .. n : Before(F[i], g)
  <2>. SUFFICES ASSUME NEW i \in 1 .. n PROVE Before(F[i], g)
    OBVIOUS
  <2>1. n > 0 /\ n \in 1 .. n /\ F[n] \in Fragment /\ F[i] \in Fragment /\ InBlock(F[n])
    BY <1>1, <1>3
  <2>2. Before(F[n], g)
    BY <2>1, <1>6, SucceedsIsBefore
  <2>3. CASE i = n
    BY <2>2, <2>3
  <2>4. CASE i # n
    <3>1. i \in 1 .. n - 1
      BY <2>4, <1>1
    <3>2. Before(F[i], F[n])
      BY <3>1, <2>1 DEF Laid
    <3>. QED  BY <2>1, <2>2, <3>2, BeforeTransitive
  <2>. QED  BY <2>3, <2>4
<1>9. \A j \in 1 .. Len(A) : \A i \in 1 .. j - 1 : Before(A[i], A[j])
  <2>. SUFFICES ASSUME NEW j \in 1 .. n + 1, NEW i \in 1 .. j - 1 PROVE Before(A[i], A[j])
    BY <1>2
  <2>1. i \in 1 .. n
    BY <1>1
  <2>2. CASE j = n + 1
    BY <2>1, <2>2, <1>2, <1>8
  <2>3. CASE j # n + 1
    <3>1. j \in 1 .. n
      BY <2>3, <1>1
    <3>2. Before(F[i], F[j])
      BY <3>1 DEF Laid
    <3>. QED  BY <2>1, <3>1, <3>2, <1>2
  <2>. QED  BY <2>2, <2>3
<1>. QED  BY <1>2, <1>4, <1>5, <1>7, <1>9 DEF Laid, A

-----------------------------------------------------------------------------
(* The log: what the writer appends.                                        *)

\* A file that ends with its last fragment, and the writer's place in the block.
AtEnd(F, s, offset) ==
  /\ s \in Nat /\ offset \in 0 .. BlockSize /\ Boundary(s - offset)
  /\ s = IF F = <<>> THEN 0 ELSE Past(F[Len(F)])

Inside(offset) == IF BlockSize - offset < HeaderSize THEN 0 ELSE offset

\* Where the writer puts the next fragment: after the trailer, if there is one.
LEMMA Placed ==
  ASSUME NEW F, NEW s, NEW offset, Laid(F), AtEnd(F, s, offset)
  PROVE  LET start == s + Trailer(offset)
             inside == Inside(offset)
         IN /\ inside \in 0 .. BlockSize - HeaderSize /\ start \in Nat
            /\ Boundary(start - inside) /\ BlockEnd(start) = (start - inside) + BlockSize
            /\ start = IF F = <<>> THEN 0 ELSE NextAt(F[Len(F)])
            /\ offset = BlockSize => inside = 0
<1>. DEFINE start == s + Trailer(offset)
            inside == Inside(offset)
            base == s - offset
<1>1. s \in Nat /\ offset \in 0 .. BlockSize /\ Boundary(base) /\ base \in Nat
  BY DEF AtEnd, Boundary
<1>2. /\ inside \in 0 .. BlockSize - HeaderSize /\ start \in Nat
      /\ offset = BlockSize => inside = 0
      /\ IF BlockSize - offset < HeaderSize
         THEN inside = 0 /\ start = base + BlockSize
         ELSE inside = offset /\ start = s
  BY <1>1, LogConstants DEF Inside, Trailer
<1>. HIDE DEF start, inside, base
<1>3. base = s - offset
  BY DEF base
<1>4. Boundary(start - inside) /\ start - inside \in Nat
  <2>1. CASE BlockSize - offset < HeaderSize
    <3>1. start - inside = base + BlockSize
      BY <2>1, <1>1, <1>2, LogConstants
    <3>2. Boundary(base + BlockSize)
      BY <1>1, Boundaries
    <3>. QED  BY <3>1, <3>2 DEF Boundary
  <2>2. CASE ~(BlockSize - offset < HeaderSize)
    <3>1. start - inside = base
      BY <2>2, <1>1, <1>2, <1>3
    <3>. QED  BY <3>1, <1>1
  <2>. QED  BY <2>1, <2>2
<1>5. BlockOf(start) = start - inside
  <2>1. start - inside <= start /\ start < (start - inside) + BlockSize
    BY <1>2, <1>4, LogConstants
  <2>. QED  BY <2>1, <1>2, <1>4, Blocks
<1>6. BlockEnd(start) = (start - inside) + BlockSize
  BY <1>5 DEF BlockEnd
<1>7. CASE F = <<>>
  <2>1. s = 0
    BY <1>7 DEF AtEnd
  <2>2. offset = 0
    BY <2>1, <1>1, <1>3
  <2>3. start = 0
    BY <2>1, <2>2, <1>2, LogConstants
  <2>. QED  BY <2>3, <1>2, <1>4, <1>6, <1>7 DEF start, inside
<1>8. CASE F # <<>>
  <2>. DEFINE l == F[Len(F)]
              b == BlockOf(l.at)
  <2>1. l \in Fragment /\ InBlock(l)
    <3>1. Len(F) \in 1 .. Len(F) /\ F \in Seq(Fragment)
      BY <1>8 DEF Laid
    <3>. QED  BY <3>1 DEF Laid
  <2>2. s = Past(l)
    BY <1>8 DEF AtEnd
  <2>. HIDE DEF l
  <2>3. l.at \in Nat /\ Past(l) > l.at
    BY <2>1, FragmentFacts
  <2>4. b \in Nat /\ Boundary(b) /\ b <= l.at /\ BlockEnd(l.at) = b + BlockSize
    BY <2>3, Blocks
  <2>. HIDE DEF b
  <2>5. b < s /\ s <= b + BlockSize
    BY <1>1, <2>1, <2>2, <2>3, <2>4 DEF InBlock
  <2>6. base = b \/ (base = b + BlockSize /\ s = base)
    <3>1. base < b => base + BlockSize <= b
      BY <1>1, <2>4, Boundaries
    <3>2. b < base => b + BlockSize <= base
      BY <1>1, <2>4, Boundaries
    <3>. QED  BY <3>1, <3>2, <1>1, <1>3, <2>4, <2>5, LogConstants
  <2>7. NextAt(l) = IF (b + BlockSize) - s < HeaderSize THEN b + BlockSize ELSE s
    BY <2>2, <2>4 DEF NextAt
  <2>8. start = NextAt(l)
    <3>1. CASE base = b
      BY <3>1, <2>7, <1>1, <1>2, <1>3, <2>4, LogConstants
    <3>2. CASE base = b + BlockSize /\ s = base
      BY <3>2, <2>7, <1>1, <1>2, <1>3, <2>4, LogConstants
    <3>. QED  BY <3>1, <3>2, <2>6
  <2>. QED  BY <2>8, <1>2, <1>4, <1>6, <1>8 DEF start, inside, l
<1>. QED  BY <1>7, <1>8

\* What EmitPhysicalRecord emits.
LengthOf(w) == Smaller(w.left, BlockSize - Inside(w.offset) - HeaderSize)

TypeOf(w) ==
  IF w.begin /\ w.left = LengthOf(w) THEN "full" ELSE IF w.begin THEN "first"
  ELSE IF w.left = LengthOf(w) THEN "last" ELSE "middle"

FragmentOf(w) ==
  [at |-> w.size + Trailer(w.offset), type |-> TypeOf(w), length |-> LengthOf(w),
   rec |-> Len(records) + 1]

\* What a turn of AddRecord appends.
LEMMA EmitIs ==
  ASSUME NEW w
  PROVE  EmitPhysicalRecord(w) =
           IF w.done THEN w
           ELSE [fs |-> Append(w.fs, FragmentOf(w)),
                 size |-> w.size + Trailer(w.offset) + HeaderSize + LengthOf(w),
                 offset |-> Inside(w.offset) + HeaderSize + LengthOf(w),
                 left |-> w.left - LengthOf(w), begin |-> FALSE, done |-> w.left = LengthOf(w)]
BY Zenon DEF EmitPhysicalRecord, FragmentOf, TypeOf, LengthOf, Inside

WriterState ==
  [fs : Seq(Fragment), size : Nat, offset : 0 .. BlockSize, left : Nat, begin : BOOLEAN,
   done : BOOLEAN]

\* The numbers of what is emitted.
LEMMA LengthFacts ==
  ASSUME NEW w \in WriterState
  PROVE  /\ Inside(w.offset) \in 0 .. BlockSize - HeaderSize
         /\ LengthOf(w) \in Nat /\ LengthOf(w) <= w.left
         /\ Inside(w.offset) + HeaderSize + LengthOf(w) \in 0 .. BlockSize
         /\ LengthOf(w) < w.left => Inside(w.offset) + HeaderSize + LengthOf(w) = BlockSize
         /\ w.left - LengthOf(w) \in Nat
         /\ Trailer(w.offset) \in Nat
<1>1. w.offset \in 0 .. BlockSize /\ w.left \in Nat
  BY DEF WriterState
<1>. DEFINE i == Inside(w.offset)
            n == LengthOf(w)
<1>2. i \in 0 .. BlockSize - HeaderSize /\ Trailer(w.offset) \in Nat
  BY <1>1, LogConstants DEF Inside, Trailer
<1>3. n = IF w.left < BlockSize - i - HeaderSize THEN w.left ELSE BlockSize - i - HeaderSize
  BY DEF LengthOf, Smaller
<1>. HIDE DEF i, n
<1>4. /\ n \in Nat /\ n <= w.left /\ i + HeaderSize + n \in 0 .. BlockSize
      /\ n < w.left => i + HeaderSize + n = BlockSize
      /\ w.left - n \in Nat
  BY <1>1, <1>2, <1>3, LogConstants
<1>. QED  BY <1>2, <1>4 DEF i, n

\* A turn leads from a state of the writer to another.
LEMMA EmitType ==
  ASSUME Len(records) \in Nat, NEW w \in WriterState
  PROVE  EmitPhysicalRecord(w) \in WriterState /\ FragmentOf(w) \in Fragment
<1>1. /\ w.fs \in Seq(Fragment) /\ w.size \in Nat /\ w.offset \in 0 .. BlockSize
      /\ w.left \in Nat /\ w.begin \in BOOLEAN /\ w.done \in BOOLEAN
  BY DEF WriterState
<1>2. /\ LengthOf(w) \in Nat /\ Inside(w.offset) + HeaderSize + LengthOf(w) \in 0 .. BlockSize
      /\ w.left - LengthOf(w) \in Nat /\ Trailer(w.offset) \in Nat
  BY LengthFacts
<1>3. TypeOf(w) \in FragmentType
  BY DEF TypeOf, FragmentType
<1>4. FragmentOf(w) \in Fragment
  <2>1. w.size + Trailer(w.offset) \in Nat /\ Len(records) + 1 \in Nat \ {0}
    BY <1>1, <1>2
  <2>. QED  BY <2>1, <1>2, <1>3 DEF FragmentOf, Fragment
<1>5. Append(w.fs, FragmentOf(w)) \in Seq(Fragment)
  BY <1>1, <1>4
<1>6. w.size + Trailer(w.offset) + HeaderSize + LengthOf(w) \in Nat
  BY <1>1, <1>2, LogConstants, SMTT(30)
<1>. QED  BY <1>1, <1>2, <1>4, <1>5, <1>6, EmitIs DEF WriterState

\* The file has whole records.
Whole(F, n) ==
  /\ n \in Nat
  /\ F = <<>> => n = 0
  /\ F # <<>> => Ends(F[Len(F)]) /\ F[Len(F)].rec = n

\* The writer, of a record of n bytes, after k turns of its loop.
Writing(w, n, k) ==
  /\ w \in WriterState /\ Laid(w.fs) /\ AtEnd(w.fs, w.size, w.offset)
  /\ Len(w.fs) >= Len(fragments)
  /\ \A i \in 1 .. Len(fragments) : w.fs[i] = fragments[i]
  /\ \A i \in Len(fragments) + 1 .. Len(w.fs) : w.fs[i].rec = Len(records) + 1
  /\ w.begin <=> k = 0
  /\ k = 0 => w.left = n /\ ~w.done /\ w.fs = fragments
  /\ k > 0 => Len(w.fs) > Len(fragments) /\ (Ends(w.fs[Len(w.fs)]) <=> w.done)
  /\ k > 0 /\ ~w.done => w.offset = BlockSize /\ w.left \in 1 .. n - (k - 1)

\* A turn keeps what there is to say of the turns before.
LEMMA WritesOn ==
  ASSUME NEW n \in Nat, NEW k \in Nat, NEW w, Writing(w, n, k), Whole(fragments, Len(records)),
         fragments \in Seq(Fragment)
  PROVE  Writing(EmitPhysicalRecord(w), n, k + 1)
<1>1. /\ w \in WriterState /\ Laid(w.fs) /\ AtEnd(w.fs, w.size, w.offset)
      /\ w.fs \in Seq(Fragment) /\ Len(w.fs) \in Nat /\ w.begin \in BOOLEAN /\ w.done \in BOOLEAN
      /\ w.size \in Nat /\ w.left \in Nat /\ Len(records) \in Nat /\ Len(fragments) \in Nat
  BY DEF Writing, WriterState, Whole
<1>2. CASE w.done
  <2>1. EmitPhysicalRecord(w) = w /\ k # 0
    BY <1>2, EmitIs DEF Writing
  <2>. QED  BY <2>1, <1>2 DEF Writing
<1>3. CASE ~w.done
  <2>. DEFINE g == FragmentOf(w)
              x == LengthOf(w)
              v == EmitPhysicalRecord(w)
              start == w.size + Trailer(w.offset)
              inside == Inside(w.offset)
              l == w.fs[Len(w.fs)]
  <2>1. v \in WriterState /\ g \in Fragment
    BY <1>1, EmitType
  <2>2. /\ v.fs = Append(w.fs, g) /\ v.size = start + HeaderSize + x
        /\ v.offset = inside + HeaderSize + x /\ v.left = w.left - x /\ v.begin = FALSE
        /\ v.done = (w.left = x)
    BY <1>3, EmitIs
  <2>3. g.at = start /\ g.type = TypeOf(w) /\ g.length = x /\ g.rec = Len(records) + 1
    BY DEF FragmentOf
  <2>4. /\ inside \in 0 .. BlockSize - HeaderSize /\ start \in Nat
        /\ Boundary(start - inside) /\ BlockEnd(start) = (start - inside) + BlockSize
        /\ start = IF w.fs = <<>> THEN 0 ELSE NextAt(l)
        /\ w.offset = BlockSize => inside = 0
    BY <1>1, Placed
  <2>5. /\ x \in Nat /\ x <= w.left /\ inside + HeaderSize + x \in 0 .. BlockSize
        /\ x < w.left => inside + HeaderSize + x = BlockSize
    BY <1>1, LengthFacts
  <2>6. (Begins(g) <=> w.begin) /\ (Ends(g) <=> w.left = x)
    BY <1>1, <2>3 DEF Begins, Ends, TypeOf
  <2>. HIDE DEF g, x, v, start, inside
  <2>7. Past(g) = start + HeaderSize + x /\ InBlock(g)
    <3>1. Past(g) = start + HeaderSize + x
      BY <2>3 DEF Past
    <3>2. start + HeaderSize + x <= (start - inside) + BlockSize
      BY <2>4, <2>5, LogConstants, SMTT(30)
    <3>. QED  BY <3>1, <3>2, <2>3, <2>4 DEF InBlock
  <2>8. Fits(w.fs, g)
    <3>1. CASE k = 0
      <4>1. w.begin /\ w.fs = fragments
        BY <3>1 DEF Writing
      <4>2. CASE w.fs = <<>>
        BY <4>1, <4>2, <2>3, <2>4, <2>6 DEF Fits, Whole
      <4>3. CASE w.fs # <<>>
        <5>1. Ends(l) /\ l.rec = Len(records)
          BY <4>1, <4>3 DEF Whole
        <5>2. Succeeds(l, g)
          BY <5>1, <4>1, <4>3, <2>3, <2>4, <2>6 DEF Succeeds
        <5>. QED  BY <5>2, <4>3 DEF Fits
      <4>. QED  BY <4>2, <4>3
    <3>2. CASE k > 0
      <4>1. ~w.begin /\ Len(w.fs) > Len(fragments) /\ ~Ends(l)
        BY <3>2, <1>3 DEF Writing
      <4>2. Len(w.fs) \in Len(fragments) + 1 .. Len(w.fs)
        BY <4>1, <1>1
      <4>3. l.rec = Len(records) + 1
        BY <4>2 DEF Writing
      <4>4. w.fs # <<>>
        BY <4>1, <1>1
      <4>5. Succeeds(l, g)
        BY <4>1, <4>3, <4>4, <2>3, <2>4, <2>6 DEF Succeeds
      <4>. QED  BY <4>4, <4>5 DEF Fits
    <3>. QED  BY <3>1, <3>2
  <2>9. Laid(v.fs)
    BY <1>1, <2>1, <2>2, <2>7, <2>8, AppendLaid
  <2>10. /\ Len(v.fs) = Len(w.fs) + 1 /\ v.fs[Len(w.fs) + 1] = g
         /\ \A i \in 1 .. Len(w.fs) : v.fs[i] = w.fs[i]
         /\ v.fs # <<>>
    <3>. DEFINE fs == w.fs
                A == Append(fs, g)
    <3>1. fs \in Seq(Fragment) /\ g \in Fragment /\ v.fs = A
      BY <1>1, <2>1, <2>2
    <3>. HIDE DEF fs
    <3>2. Len(A) = Len(fs) + 1 /\ A[Len(fs) + 1] = g /\ (\A i \in 1 .. Len(fs) : A[i] = fs[i]) /\ A # <<>>
      BY <3>1, AppendProperties
    <3>. HIDE DEF A
    <3>3. Len(v.fs) = Len(fs) + 1 /\ v.fs[Len(fs) + 1] = g /\ (\A i \in 1 .. Len(fs) : v.fs[i] = fs[i]) /\ v.fs # <<>>
      BY <3>1, <3>2
    <3>. QED  BY <3>3, Zenon DEF fs
  <2>11. AtEnd(v.fs, v.size, v.offset)
    <3>1. v.size - v.offset = start - inside
      BY <2>2, <2>4, <2>5, LogConstants
    <3>2. v.size \in Nat /\ v.offset \in 0 .. BlockSize
      BY <2>1 DEF WriterState
    <3>3. v.size = Past(v.fs[Len(v.fs)])
      BY <2>2, <2>7, <2>10
    <3>. QED  BY <3>1, <3>2, <3>3, <2>4, <2>10 DEF AtEnd
  <2>12. /\ Len(v.fs) > Len(fragments)
         /\ \A i \in 1 .. Len(fragments) : v.fs[i] = fragments[i]
    <3>1. /\ Len(w.fs) >= Len(fragments)
          /\ \A i \in 1 .. Len(fragments) : w.fs[i] = fragments[i]
      BY DEF Writing
    <3>2. Len(v.fs) > Len(fragments)
      BY <3>1, <1>1, <2>10
    <3>3. \A i \in 1 .. Len(fragments) : i \in 1 .. Len(w.fs)
      BY <3>1, <1>1
    <3>. QED  BY <3>1, <3>2, <3>3, <2>10
  <2>13. ASSUME NEW i \in Len(fragments) + 1 .. Len(v.fs) PROVE v.fs[i].rec = Len(records) + 1
    <3>1. CASE i = Len(w.fs) + 1
      BY <3>1, <2>3, <2>10
    <3>2. CASE i # Len(w.fs) + 1
      <4>1. i \in Len(fragments) + 1 .. Len(w.fs) /\ i \in 1 .. Len(w.fs)
        BY <3>2, <1>1, <2>10
      <4>2. w.fs[i].rec = Len(records) + 1
        BY <4>1 DEF Writing
      <4>. QED  BY <4>1, <4>2, <2>10
    <3>. QED  BY <3>1, <3>2
  <2>14. Ends(v.fs[Len(v.fs)]) <=> v.done
    BY <2>2, <2>6, <2>10
  <2>15. ASSUME ~v.done PROVE v.offset = BlockSize /\ v.left \in 1 .. n - k
    <3>1. x < w.left
      <4>1. w.left # x
        BY <2>15, <2>2
      <4>. QED  BY <4>1, <2>5, <1>1
    <3>2. v.offset = BlockSize /\ v.left = w.left - x
      BY <3>1, <2>2, <2>5
    <3>3. CASE k = 0
      <4>1. w.left = n
        BY <3>3 DEF Writing
      <4>. QED  BY <4>1, <3>1, <3>2, <3>3, <2>5, <1>1
    <3>4. CASE k > 0
      <4>1. w.offset = BlockSize /\ w.left \in 1 .. n - (k - 1)
        BY <3>4, <1>3 DEF Writing
      <4>2. inside = 0
        BY <4>1, <2>4
      <4>3. x >= 1
        BY <4>2, <3>1, <2>5, LogConstants
      <4>. QED  BY <4>1, <4>3, <3>1, <3>2, <2>5, <1>1
    <3>. QED  BY <3>3, <3>4
  <2>16. k + 1 > 0 /\ k + 1 # 0 /\ (k + 1) - 1 = k
    OBVIOUS
  <2>17. Writing(v, n, k + 1)
    BY <2>1, <2>2, <2>9, <2>11, <2>12, <2>13, <2>14, <2>15, <2>16, <1>1, <2>10, SMTT(30) DEF Writing
  <2>. QED  BY <2>17 DEF v
<1>. QED  BY <1>2, <1>3

\* The loop ends when the record is written.
LEMMA EmittedIs ==
  ASSUME Laid(fragments), AtEnd(fragments, size, blockOffset), Whole(fragments, Len(records)),
         NEW n \in Nat
  PROVE  Writing(Emitted(n), n, n + 1) /\ Emitted(n).done
<1>. DEFINE S == WriterState
            start == [fs |-> fragments, size |-> size, offset |-> blockOffset, left |-> n,
                      begin |-> TRUE, done |-> FALSE]
            f == [w \in S |-> EmitPhysicalRecord(w)]
            N == n + 1
<1>1. fragments \in Seq(Fragment) /\ Len(records) \in Nat /\ N \in Nat /\ N # 0
  BY DEF Laid, Whole
<1>2. start \in S
  BY <1>1 DEF AtEnd, WriterState
<1>3. Writing(start, n, 0)
  <2>1. start \in WriterState
    BY <1>2
  <2>. QED  BY <2>1, <1>1 DEF Writing
<1>4. f \in [S -> S]
  <2>1. \A w \in S : EmitPhysicalRecord(w) \in S
    BY <1>1, EmitType
  <2>. HIDE DEF S
  <2>. QED  BY <2>1
<1>. HIDE DEF start
<1>5. PICK t : AreTurns(t, S, f, start, N)
  <2>. HIDE DEF S, f, N
  <2>. QED  BY <1>1, <1>2, <1>4, Turns
<1>6. /\ t[0] = start
      /\ \A k \in 1 .. N : t[k - 1] \in S /\ t[k] = EmitPhysicalRecord(t[k - 1])
  <2>1. t[0] = start /\ t \in [0 .. N -> S] /\ \A k \in 1 .. N : t[k] = f[t[k - 1]]
    BY <1>5 DEF AreTurns
  <2>2. \A k \in 1 .. N : k - 1 \in 0 .. N
    BY <1>1
  <2>. HIDE DEF S, N
  <2>. QED  BY <2>1, <2>2
<1>7. t = [k \in 0 .. n + 1 |-> IF k = 0 THEN start ELSE EmitPhysicalRecord(t[k - 1])]
  <2>1. t \in [0 .. N -> S]
    BY <1>5 DEF AreTurns
  <2>2. \A k \in 0 .. N : k # 0 => k \in 1 .. N
    BY <1>1
  <2>. HIDE DEF S
  <2>. QED  BY <2>1, <2>2, <1>6
<1>8. \E u : u = [k \in 0 .. n + 1 |-> IF k = 0 THEN start ELSE EmitPhysicalRecord(u[k - 1])]
  BY <1>7
<1>9. PICK u : /\ Emitted(n) = u[n + 1]
               /\ u = [k \in 0 .. n + 1 |->
                         IF k = 0 THEN start ELSE EmitPhysicalRecord(u[k - 1])]
  BY <1>8, Zenon DEF Emitted, start
<1>10. /\ u[0] = start
       /\ \A k \in 0 .. n : u[k + 1] = EmitPhysicalRecord(u[k])
  <2>1. u[0] = start
    BY <1>9, <1>1
  <2>2. ASSUME NEW k \in 0 .. n PROVE u[k + 1] = EmitPhysicalRecord(u[k])
    <3>1. k + 1 \in 0 .. n + 1 /\ k + 1 # 0 /\ (k + 1) - 1 = k
      OBVIOUS
    <3>. QED  BY <3>1, <1>9
  <2>. QED  BY <2>1, <2>2
<1>. DEFINE D == {k \in Nat : k <= n + 1 => Writing(u[k], n, k)}
<1>11. n + 1 \in D
  <2>1. 0 \in D
    BY <1>3, <1>10
  <2>2. ASSUME NEW k \in Nat, k \in D PROVE k + 1 \in D
    <3>. SUFFICES ASSUME k + 1 <= n + 1 PROVE Writing(u[k + 1], n, k + 1)
      OBVIOUS
    <3>1. Writing(u[k], n, k) /\ k \in 0 .. n
      BY <2>2
    <3>2. Writing(EmitPhysicalRecord(u[k]), n, k + 1)
      BY <3>1, <1>1, WritesOn
    <3>. QED  BY <3>1, <3>2, <1>10
  <2>3. n + 1 \in Nat
    OBVIOUS
  <2>. HIDE DEF D
  <2>. QED  BY <2>1, <2>2, <2>3, Induction
<1>12. Writing(Emitted(n), n, n + 1)
  BY <1>9, <1>11
<1>13. Emitted(n).done
  <2>1. n + 1 > 0 /\ n - ((n + 1) - 1) = 0 /\ 1 .. 0 = {}
    OBVIOUS
  <2>. QED  BY <2>1, <1>12 DEF Writing
<1>. QED  BY <1>12, <1>13

-----------------------------------------------------------------------------
(* The log: its invariant.                                                  *)

\* Records are where their fragments are, and every fragment is of a record.
Recorded(F, R) ==
  /\ R \in Seq([from : Nat, to : Nat]) /\ Whole(F, Len(R))
  /\ \A j \in 1 .. Len(F) :
       /\ F[j].rec \in 1 .. Len(R)
       /\ R[F[j].rec].from <= F[j].at /\ Past(F[j]) <= R[F[j].rec].to
  /\ \A i \in 1 .. Len(R) :
       /\ \E j \in 1 .. Len(F) : F[j].rec = i /\ F[j].at = R[i].from
       /\ \E j \in 1 .. Len(F) : F[j].rec = i /\ Past(F[j]) = R[i].to

LogInv ==
  Laid(fragments) /\ AtEnd(fragments, size, blockOffset) /\ Recorded(fragments, records)

\* A new file.
LEMMA InitLog == LogInit => LogInv
<1>. SUFFICES ASSUME LogInit PROVE LogInv
  OBVIOUS
<1>1. fragments = <<>> /\ size = 0 /\ blockOffset = 0 /\ records = <<>>
  BY DEF LogInit
<1>2. Laid(<<>>)
  BY DEF Laid
<1>3. AtEnd(<<>>, 0, 0)
  <2>1. 0 - 0 = 0 /\ 0 \in 0 .. BlockSize
    BY LogConstants
  <2>. QED  BY <2>1, Boundaries DEF AtEnd
<1>4. Recorded(<<>>, <<>>)
  BY DEF Recorded, Whole
<1>. QED  BY <1>1, <1>2, <1>3, <1>4 DEF LogInv

\* A writer that goes on with a file begins where it ends.
LEMMA ReopenKeeps == LogInv /\ Reopen => LogInv'
<1>. SUFFICES ASSUME LogInv, Reopen PROVE LogInv'
  OBVIOUS
<1>1. /\ fragments' = fragments /\ size' = size /\ records' = records
      /\ blockOffset' = size % BlockSize
  BY DEF Reopen
<1>2. size \in Nat
  BY DEF LogInv, AtEnd
<1>3. Boundary(size - (size % BlockSize))
  BY <1>2, Blocks DEF BlockOf
<1>4. size % BlockSize \in 0 .. BlockSize
  BY <1>2, LogConstants
<1>5. AtEnd(fragments, size, size % BlockSize)
  BY <1>2, <1>3, <1>4 DEF LogInv, AtEnd
<1>. QED  BY <1>1, <1>5 DEF LogInv

\* A record more.
LEMMA AddKeeps ==
  ASSUME LogInv, NEW n \in Sizes, AddRecord(n)
  PROVE  LogInv'
<1>. DEFINE w == Emitted(n)
            G == w.fs
            m == Len(G)
            n0 == Len(fragments)
            c == Len(records)
            new == [from |-> G[n0 + 1].at, to |-> w.size]
            R == Append(records, new)
<1>1. /\ fragments' = G /\ size' = w.size /\ blockOffset' = w.offset /\ records' = R
  BY DEF AddRecord
<1>2. /\ Laid(fragments) /\ AtEnd(fragments, size, blockOffset) /\ Recorded(fragments, records)
      /\ Whole(fragments, c) /\ n \in Nat
  BY LogAssumption DEF LogInv, Recorded
<1>3. Writing(w, n, n + 1) /\ w.done
  BY <1>2, EmittedIs
<1>4. n + 1 > 0 /\ n + 1 # 0
  BY <1>2
<1>5. /\ Laid(G) /\ AtEnd(G, w.size, w.offset) /\ m > n0 /\ Ends(G[m])
      /\ \A i \in 1 .. n0 : G[i] = fragments[i]
      /\ \A i \in n0 + 1 .. m : G[i].rec = c + 1
  BY <1>3, <1>4 DEF Writing
<1>6. /\ G \in Seq(Fragment) /\ m \in Nat /\ n0 \in Nat /\ c \in Nat
      /\ fragments \in Seq(Fragment) /\ records \in Seq([from : Nat, to : Nat])
  BY <1>2, <1>5 DEF Laid, Recorded
<1>7. /\ n0 + 1 \in 1 .. m /\ m \in 1 .. m /\ G # <<>> /\ w.size \in Nat /\ w.size = Past(G[m])
      /\ m \in n0 + 1 .. m /\ n0 + 1 \in n0 + 1 .. m
  BY <1>5, <1>6 DEF AtEnd
<1>. HIDE DEF w, G, m
<1>8. \A j \in 1 .. m : /\ G[j] \in Fragment /\ G[j].at \in Nat /\ Past(G[j]) \in Nat
                        /\ G[j].at < Past(G[j]) /\ G[j].rec \in Nat
  <2>1. \A j \in 1 .. m : G[j] \in Fragment
    BY <1>6 DEF m
  <2>. QED  BY <2>1, FragmentFacts
<1>9. new \in [from : Nat, to : Nat] /\ new.from = G[n0 + 1].at /\ new.to = w.size
  BY <1>7, <1>8
<1>. HIDE DEF new
<1>10. /\ R \in Seq([from : Nat, to : Nat]) /\ Len(R) = c + 1 /\ R[c + 1] = new
       /\ \A i \in 1 .. c : R[i] = records[i]
  BY <1>6, <1>9, AppendProperties
<1>. HIDE DEF R, c, n0
<1>11. \A i, j \in 1 .. m : i < j => Past(G[i]) <= G[j].at
  <2>. SUFFICES ASSUME NEW i \in 1 .. m, NEW j \in 1 .. m, i < j PROVE Past(G[i]) <= G[j].at
    OBVIOUS
  <2>1. i \in 1 .. j - 1 /\ j \in 1 .. Len(G)
    BY <1>6 DEF m
  <2>2. Before(G[i], G[j])
    BY <2>1, <1>5 DEF Laid
  <2>. QED  BY <2>2 DEF Before
<1>12. Whole(G, Len(R))
  <2>1. G[Len(G)].rec = Len(R) /\ Ends(G[Len(G)])
    BY <1>5, <1>7, <1>10 DEF m
  <2>. QED  BY <2>1, <1>6, <1>7, <1>10 DEF Whole
<1>13. ASSUME NEW j \in 1 .. m
       PROVE  /\ G[j].rec \in 1 .. Len(R)
              /\ R[G[j].rec].from <= G[j].at /\ Past(G[j]) <= R[G[j].rec].to
  <2>1. CASE j <= n0
    <3>1. j \in 1 .. Len(fragments) /\ G[j] = fragments[j]
      BY <2>1, <1>5, <1>6 DEF n0
    <3>2. /\ fragments[j].rec \in 1 .. c
          /\ records[fragments[j].rec].from <= fragments[j].at
          /\ Past(fragments[j]) <= records[fragments[j].rec].to
      BY <3>1, <1>2 DEF Recorded, c
    <3>3. /\ G[j].rec \in 1 .. c /\ R[G[j].rec] = records[G[j].rec]
          /\ records[G[j].rec].from <= G[j].at /\ Past(G[j]) <= records[G[j].rec].to
      BY <3>1, <3>2, <1>10
    <3>4. G[j].rec \in 1 .. Len(R)
      <4>1. c \in Nat /\ Len(R) = c + 1
        BY <1>6, <1>10
      <4>2. 1 .. c \subseteq 1 .. Len(R)
        BY <4>1
      <4>. QED  BY <3>3, <4>2
    <3>. QED  BY <3>3, <3>4
  <2>2. CASE j > n0
    <3>1. j \in n0 + 1 .. m
      BY <2>2, <1>6
    <3>2. G[j].rec = c + 1
      BY <3>1, <1>5
    <3>3. G[n0 + 1].at <= G[j].at
      <4>1. CASE j = n0 + 1
        BY <4>1, <1>8
      <4>2. CASE j # n0 + 1
        <5>1. n0 + 1 < j /\ n0 + 1 \in 1 .. m
          BY <4>2, <3>1, <1>6, <1>7
        <5>2. Past(G[n0 + 1]) <= G[j].at
          BY <5>1, <1>11
        <5>. QED  BY <5>1, <5>2, <1>8
      <4>. QED  BY <4>1, <4>2
    <3>4. Past(G[j]) <= Past(G[m])
      <4>1. CASE j = m
        BY <4>1, <1>8
      <4>2. CASE j # m
        <5>1. j < m /\ m \in 1 .. m
          BY <4>2, <1>6, <1>7
        <5>2. Past(G[j]) <= G[m].at
          BY <5>1, <1>11
        <5>. QED  BY <5>1, <5>2, <1>8
      <4>. QED  BY <4>1, <4>2
    <3>. QED  BY <3>2, <3>3, <3>4, <1>6, <1>7, <1>9, <1>10
  <2>. QED  BY <2>1, <2>2, <1>6
<1>14. ASSUME NEW i \in 1 .. Len(R)
       PROVE  /\ \E j \in 1 .. m : G[j].rec = i /\ G[j].at = R[i].from
              /\ \E j \in 1 .. m : G[j].rec = i /\ Past(G[j]) = R[i].to
  <2>1. CASE i \in 1 .. c
    <3>1. i \in 1 .. Len(records) /\ R[i] = records[i]
      BY <2>1, <1>10 DEF c
    <3>2. PICK a \in 1 .. Len(fragments) :
            fragments[a].rec = i /\ fragments[a].at = records[i].from
      BY <3>1, <1>2 DEF Recorded
    <3>3. PICK b \in 1 .. Len(fragments) :
            fragments[b].rec = i /\ Past(fragments[b]) = records[i].to
      BY <3>1, <1>2 DEF Recorded
    <3>4. a \in 1 .. m /\ b \in 1 .. m /\ G[a] = fragments[a] /\ G[b] = fragments[b]
      BY <1>5, <1>6 DEF n0
    <3>. QED  BY <3>1, <3>2, <3>3, <3>4
  <2>2. CASE i = c + 1
    BY <2>2, <1>5, <1>7, <1>9, <1>10
  <2>. QED  BY <2>1, <2>2, <1>6, <1>10
<1>15. Recorded(G, R)
  BY <1>10, <1>12, <1>13, <1>14 DEF Recorded, m
<1>. QED  BY <1>1, <1>5, <1>15 DEF LogInv

\* The fragments lie in their blocks, and the records are where their fragments are.
THEOREM LogCorrect == LogSpec => []LogInv
<1>1. LogInv /\ [LogNext]_logVars => LogInv'
  <2>. SUFFICES ASSUME LogInv, [LogNext]_logVars PROVE LogInv'
    OBVIOUS
  <2>1. CASE UNCHANGED logVars
    BY <2>1 DEF logVars, LogInv
  <2>2. CASE LogNext
    BY <2>2, AddKeeps, ReopenKeeps DEF LogNext
  <2>. QED  BY <2>1, <2>2
<1>. QED  BY <1>1, InitLog, PTL DEF LogSpec

-----------------------------------------------------------------------------
(* The log: the fragments of some records.                                  *)

RecordOf(i) == {g \in ToSet(fragments) : g.rec = i}

\* u[i] has the records up to the i-th that are kept.
AreKept(u, kept) ==
  /\ u[0] = <<>>
  /\ \A i \in 1 .. Len(records) :
       u[i] = IF i \in kept THEN Append(u[i - 1], RecordOf(i)) ELSE u[i - 1]

KeptTurns(u, kept, N) ==
  u = [i \in 0 .. N |->
         IF i = 0 THEN <<>>
         ELSE IF i \in kept THEN Append(u[i - 1], RecordOf(i)) ELSE u[i - 1]]

\* The definition of Written has a function to speak of.
LEMMA KeptExist ==
  ASSUME NEW kept, NEW N \in Nat
  PROVE  \E u : KeptTurns(u, kept, N)
<1>. DEFINE P(k) == \E u : KeptTurns(u, kept, k)
            D == {k \in Nat : P(k)}
<1>1. P(0)
  <2>. DEFINE u == [i \in 0 .. 0 |-> <<>>]
  <2>1. u = [i \in 0 .. 0 |->
                       IF i = 0 THEN <<>>
                       ELSE IF i \in kept THEN Append(u[i - 1], RecordOf(i)) ELSE u[i - 1]]
    OBVIOUS
  <2>. HIDE DEF u
  <2>. QED  BY <2>1 DEF KeptTurns
<1>2. ASSUME NEW k \in Nat, P(k) PROVE P(k + 1)
  <2>1. PICK u : u = [i \in 0 .. k |->
                       IF i = 0 THEN <<>>
                       ELSE IF i \in kept THEN Append(u[i - 1], RecordOf(i)) ELSE u[i - 1]]
    BY <1>2 DEF KeptTurns
  <2>. DEFINE then == IF k + 1 \in kept THEN Append(u[k], RecordOf(k + 1)) ELSE u[k]
              v == [i \in 0 .. k + 1 |-> IF i = k + 1 THEN then ELSE u[i]]
  <2>2. \A i \in 0 .. k : v[i] = u[i]
    BY Z3
  <2>3. v[k + 1] = then
    BY Z3
  <2>4. ASSUME NEW i \in 0 .. k + 1
        PROVE  v[i] = IF i = 0 THEN <<>>
                      ELSE IF i \in kept THEN Append(v[i - 1], RecordOf(i)) ELSE v[i - 1]
    <3>1. CASE i = k + 1
      <4>1. i # 0 /\ i - 1 = k /\ k \in 0 .. k
        BY <3>1
      <4>2. v[i - 1] = u[k]
        BY <4>1, <2>2
      <4>. HIDE DEF v
      <4>. QED  BY <3>1, <4>1, <4>2, <2>3
    <3>2. CASE i # k + 1
      <4>1. i \in 0 .. k /\ (i # 0 => i - 1 \in 0 .. k)
        BY <3>2
      <4>2. v[i] = u[i] /\ (i # 0 => v[i - 1] = u[i - 1])
        BY <4>1, <2>2
      <4>3. u[i] = IF i = 0 THEN <<>>
                   ELSE IF i \in kept THEN Append(u[i - 1], RecordOf(i)) ELSE u[i - 1]
        BY <4>1, <2>1
      <4>. HIDE DEF v
      <4>. QED  BY <4>2, <4>3
    <3>. QED  BY <3>1, <3>2
  <2>5. v = [i \in 0 .. k + 1 |-> v[i]]
    OBVIOUS
  <2>. HIDE DEF v, then
  <2>6. v = [i \in 0 .. k + 1 |->
                       IF i = 0 THEN <<>>
                       ELSE IF i \in kept THEN Append(v[i - 1], RecordOf(i)) ELSE v[i - 1]]
    BY <2>4, <2>5
  <2>. QED  BY <2>6 DEF KeptTurns
<1>3. N \in D
  <2>. HIDE DEF P
  <2>1. 0 \in D /\ \A k \in Nat : k \in D => k + 1 \in D
    BY <1>1, <1>2
  <2>. HIDE DEF D
  <2>. QED  BY <2>1, Induction
<1>. QED  BY <1>3

\* Written, by what it says of one record after another.
LEMMA WrittenIs ==
  ASSUME Len(records) \in Nat, NEW kept
  PROVE  \E u : AreKept(u, kept) /\ Written(kept) = u[Len(records)]
<1>. DEFINE N == Len(records)
<1>1. \E u : KeptTurns(u, kept, N)
  BY KeptExist
<1>2. PICK u : /\ Written(kept) = u[N]
               /\ u = [i \in 0 .. N |->
                    IF i = 0 THEN <<>>
                    ELSE IF i \in kept THEN Append(u[i - 1], RecordOf(i)) ELSE u[i - 1]]
  BY <1>1, Zenon DEF Written, RecordOf, KeptTurns
<1>. HIDE DEF N
<1>3. u[0] = <<>>
  <2>1. N \in Nat
    BY DEF N
  <2>2. 0 \in 0 .. N
    BY <2>1
  <2>. QED  BY <2>2, <1>2
<1>4. ASSUME NEW i \in 1 .. N
      PROVE  u[i] = IF i \in kept THEN Append(u[i - 1], RecordOf(i)) ELSE u[i - 1]
  <2>1. i \in 0 .. N /\ i # 0
    BY DEF N
  <2>. QED  BY <2>1, <1>2
<1>. QED  BY <1>2, <1>3, <1>4 DEF AreKept, N

-----------------------------------------------------------------------------
(* The log: the order of its fragments.                                     *)

\* The fragments, one after another.
LEMMA Order ==
  ASSUME LogInv
  PROVE  /\ Len(fragments) \in Nat /\ Len(records) \in Nat /\ size \in Nat
         /\ \A j \in 1 .. Len(fragments) :
              /\ fragments[j] \in Fragment /\ InBlock(fragments[j])
              /\ fragments[j].at \in Nat /\ Past(fragments[j]) \in Nat
              /\ fragments[j].at + HeaderSize <= Past(fragments[j])
              /\ Past(fragments[j]) <= BlockEnd(fragments[j].at)
              /\ Past(fragments[j]) <= size
              /\ fragments[j].rec \in 1 .. Len(records)
         /\ \A i, j \in 1 .. Len(fragments) :
              i < j => /\ Past(fragments[i]) <= fragments[j].at
                       /\ fragments[i].rec <= fragments[j].rec
                       /\ Ends(fragments[i]) => fragments[i].rec < fragments[j].rec
<1>. DEFINE F == fragments
            n == Len(F)
<1>1. /\ F \in Seq(Fragment) /\ n \in Nat /\ size \in Nat /\ Len(records) \in Nat
      /\ size = IF F = <<>> THEN 0 ELSE Past(F[n])
  BY DEF LogInv, Laid, AtEnd, Recorded
<1>2. ASSUME NEW j \in 1 .. n
      PROVE  /\ F[j] \in Fragment /\ InBlock(F[j])
             /\ F[j].at \in Nat /\ Past(F[j]) \in Nat
             /\ F[j].at + HeaderSize <= Past(F[j])
             /\ Past(F[j]) <= BlockEnd(F[j].at)
             /\ F[j].rec \in 1 .. Len(records)
  <2>1. F[j] \in Fragment /\ InBlock(F[j])
    BY <1>1 DEF LogInv, Laid
  <2>2. /\ F[j].at \in Nat /\ F[j].length \in Nat /\ Past(F[j]) \in Nat
        /\ Past(F[j]) = F[j].at + HeaderSize + F[j].length
    BY <2>1, FragmentFacts
  <2>3. F[j].at + HeaderSize <= Past(F[j])
    BY <2>2, LogConstants, SMTT(30)
  <2>4. F[j].rec \in 1 .. Len(records)
    BY DEF LogInv, Recorded
  <2>. QED  BY <2>1, <2>2, <2>3, <2>4 DEF InBlock
<1>3. ASSUME NEW i \in 1 .. n, NEW j \in 1 .. n, i < j
      PROVE  /\ Past(F[i]) <= F[j].at /\ F[i].rec <= F[j].rec
             /\ Ends(F[i]) => F[i].rec < F[j].rec
  <2>1. i \in 1 .. j - 1
    BY <1>3, <1>1
  <2>2. Before(F[i], F[j])
    BY <2>1 DEF LogInv, Laid
  <2>. QED  BY <2>2 DEF Before
<1>4. ASSUME NEW j \in 1 .. n PROVE Past(F[j]) <= size
  <2>1. n \in 1 .. n /\ F # <<>> /\ size = Past(F[n])
    BY <1>1
  <2>2. CASE j = n
    BY <2>1, <2>2, <1>1
  <2>3. CASE j # n
    <3>1. j < n
      BY <2>3, <1>1
    <3>2. Past(F[j]) <= F[n].at
      BY <2>1, <3>1, <1>3
    <3>3. /\ F[n].at \in Nat /\ Past(F[n]) \in Nat /\ F[n].at + HeaderSize <= Past(F[n])
          /\ Past(F[j]) \in Nat
      BY <2>1, <1>2
    <3>. QED  BY <2>1, <3>2, <3>3, LogConstants
  <2>. QED  BY <2>2, <2>3
<1>. QED  BY <1>1, <1>2, <1>3, <1>4

\* The records that end with one of the first k fragments.
Count(k) ==
  IF k = 0 THEN 0 ELSE IF Ends(fragments[k]) THEN fragments[k].rec ELSE fragments[k].rec - 1

\* The fragments of its record up to the j-th.
SoFar(j) == {i \in 1 .. j : fragments[i].rec = fragments[j].rec}

\* How many records the first fragments complete.
LEMMA CountFacts ==
  ASSUME LogInv, NEW j \in 1 .. Len(fragments)
  PROVE  /\ Count(j - 1) = fragments[j].rec - 1
         /\ Count(j) = IF Ends(fragments[j]) THEN fragments[j].rec ELSE Count(j - 1)
         /\ Begins(fragments[j]) <=> j = 1 \/ Ends(fragments[j - 1])
<1>1. Len(fragments) \in Nat /\ fragments[j].rec \in Nat
  BY Order
<1>2. Count(j - 1) = fragments[j].rec - 1 /\ (Begins(fragments[j]) <=> j = 1 \/ Ends(fragments[j - 1]))
  <2>1. CASE j = 1
    <3>1. fragments # <<>>
      BY <1>1
    <3>2. fragments[1].rec = 1 /\ Begins(fragments[1])
      BY <3>1 DEF LogInv, Laid
    <3>. QED  BY <2>1, <3>2 DEF Count
  <2>2. CASE j # 1
    <3>. DEFINE i == j - 1
    <3>1. i \in 1 .. Len(fragments) - 1 /\ i \in 1 .. Len(fragments) /\ i # 0 /\ i + 1 = j
      BY <2>2, <1>1
    <3>2. Succeeds(fragments[i], fragments[j])
      BY <3>1 DEF LogInv, Laid
    <3>3. fragments[i].rec \in Nat
      BY <3>1, Order
    <3>4. Count(i) = fragments[j].rec - 1
      BY <3>1, <3>2, <3>3 DEF Succeeds, Count
    <3>. QED  BY <2>2, <3>2, <3>4 DEF Succeeds
  <2>. QED  BY <2>1, <2>2
<1>3. j # 0
  OBVIOUS
<1>. QED  BY <1>2, <1>3 DEF Count

\* The fragments of a record lie together.
LEMMA SoFarFacts ==
  ASSUME LogInv, NEW j \in 1 .. Len(fragments)
  PROVE  /\ j \in SoFar(j) /\ SoFar(j) \subseteq 1 .. j
         /\ Begins(fragments[j]) => SoFar(j) = {j}
         /\ ~Begins(fragments[j]) => SoFar(j) = SoFar(j - 1) \cup {j}
         /\ Ends(fragments[j]) =>
              /\ \A i \in 1 .. Len(fragments) :
                   fragments[i].rec = fragments[j].rec => i \in SoFar(j)
              /\ RecordOf(fragments[j].rec) = {fragments[i] : i \in SoFar(j)}
<1>. DEFINE F == fragments
            n == Len(F)
<1>1. /\ n \in Nat /\ \A i \in 1 .. n : F[i].rec \in Nat
      /\ \A i, k \in 1 .. n : i < k => F[i].rec <= F[k].rec /\ (Ends(F[i]) => F[i].rec < F[k].rec)
  BY Order
<1>2. j \in SoFar(j) /\ SoFar(j) \subseteq 1 .. j
  BY <1>1 DEF SoFar
<1>3. ASSUME Begins(F[j]) PROVE SoFar(j) = {j}
  <2>. SUFFICES ASSUME NEW i \in 1 .. j, i # j PROVE F[i].rec # F[j].rec
    BY <1>2 DEF SoFar
  <2>1. j # 1 /\ j - 1 \in 1 .. n /\ i \in 1 .. n /\ i <= j - 1 /\ j - 1 < j
    BY <1>1
  <2>2. Ends(F[j - 1])
    BY <1>3, <2>1, CountFacts
  <2>3. F[j - 1].rec < F[j].rec
    BY <1>1, <2>1, <2>2
  <2>4. F[i].rec <= F[j - 1].rec
    <3>1. CASE i = j - 1
      BY <3>1, <1>1, <2>1
    <3>2. CASE i # j - 1
      BY <3>2, <1>1, <2>1
    <3>. QED  BY <3>1, <3>2
  <2>5. F[i].rec \in Nat /\ F[j].rec \in Nat /\ F[j - 1].rec \in Nat
    BY <1>1, <2>1
  <2>. QED  BY <2>3, <2>4, <2>5
<1>4. ASSUME ~Begins(F[j]) PROVE SoFar(j) = SoFar(j - 1) \cup {j}
  <2>1. j # 1 /\ ~Ends(F[j - 1])
    BY <1>4, CountFacts
  <2>2. j - 1 \in 1 .. n - 1 /\ (j - 1) + 1 = j /\ j - 1 \in 1 .. n
    BY <2>1, <1>1
  <2>3. Succeeds(F[j - 1], F[j])
    BY <2>2 DEF LogInv, Laid
  <2>4. F[j].rec = F[j - 1].rec
    BY <2>1, <2>3 DEF Succeeds
  <2>5. 1 .. j = (1 .. j - 1) \cup {j}
    BY <2>2
  <2>. QED  BY <2>4, <2>5 DEF SoFar
<1>5. ASSUME Ends(F[j]), NEW i \in 1 .. n, F[i].rec = F[j].rec PROVE i \in SoFar(j)
  <2>1. ~(j < i)
    BY <1>1, <1>5
  <2>2. i \in 1 .. j
    BY <2>1, <1>1
  <2>. QED  BY <2>2, <1>5 DEF SoFar
<1>6. ASSUME Ends(F[j]) PROVE RecordOf(F[j].rec) = {F[i] : i \in SoFar(j)}
  <2>1. ToSet(F) = {F[i] : i \in 1 .. n}
    <3>1. DOMAIN F = 1 .. n
      BY DEF LogInv, Laid
    <3>. QED  BY <3>1 DEF ToSet
  <2>2. \A i \in SoFar(j) : i \in 1 .. n /\ F[i].rec = F[j].rec
    BY <1>1 DEF SoFar
  <2>. QED  BY <2>1, <2>2, <1>5, <1>6 DEF RecordOf
<1>. QED  BY <1>2, <1>3, <1>4, <1>5, <1>6

-----------------------------------------------------------------------------
(* The log: places of the reader.                                           *)

IsFile(f) == f.end \in 0 .. size /\ f.initial \in 0 .. size

\* The fragments that are read: not before the offset, not beyond the end of the file, and
\* not after one that is bad in its block.
Bad(f, j) == fragments[j] \in f.damaged \/ fragments[j] \in f.wrong

Readable(f, j) ==
  /\ f.initial <= fragments[j].at /\ Past(fragments[j]) <= f.end
  /\ \A i \in 1 .. j : Bad(f, i) => BlockOf(fragments[i].at) # BlockOf(fragments[j].at)

\* A boundary comes after the first k fragments and before the upto.
Divides(p, k) ==
  /\ Boundary(p) /\ k \in 0 .. Len(fragments)
  /\ \A j \in 1 .. k : fragments[j].at < p
  /\ \A j \in k + 1 .. Len(fragments) : p <= fragments[j].at
  /\ k < Len(fragments) => fragments[k + 1].at = p
  /\ k = Len(fragments) => size <= p

\* With k fragments read or passed, the reader is where a block ends, where the upto of
\* them begins, or at the end of the file.
AtBlock(f, at, buffered, eof, k) ==
  /\ ~eof /\ at \in Nat /\ buffered \in Nat /\ at <= buffered /\ buffered - at < HeaderSize
  /\ Divides(buffered, k)

AtFragment(f, at, buffered, eof, k) ==
  /\ k \in 0 .. Len(fragments) - 1 /\ at = fragments[k + 1].at /\ at <= f.end
  /\ buffered = Smaller(BlockEnd(at), f.end)
  /\ eof <=> f.end < BlockEnd(at)
  /\ \A j \in 1 .. k : Bad(f, j) => BlockOf(fragments[j].at) # BlockOf(at)

AtEof(f, at, buffered, eof, k) ==
  /\ eof /\ at \in Nat /\ buffered \in Nat /\ at <= buffered /\ buffered - at < HeaderSize
  /\ k \in 0 .. Len(fragments)
  /\ \A j \in k + 1 .. Len(fragments) : f.end < Past(fragments[j])

Place(f, at, buffered, eof, k) ==
  \/ AtBlock(f, at, buffered, eof, k)
  \/ AtFragment(f, at, buffered, eof, k)
  \/ AtEof(f, at, buffered, eof, k)

\* Every boundary has the fragments before it and those after.
LEMMA DividesAt ==
  ASSUME LogInv, NEW p, Boundary(p)
  PROVE  \E k : Divides(p, k)
<1>. DEFINE F == fragments
            n == Len(F)
            D == {k \in 0 .. n : k = n \/ p <= F[k + 1].at}
<1>1. /\ n \in Nat /\ p \in Nat
      /\ \A j \in 1 .. n : F[j] \in Fragment /\ F[j].at \in Nat /\ InBlock(F[j])
                           /\ F[j].at <= Past(F[j]) /\ Past(F[j]) \in Nat
      /\ \A i, j \in 1 .. n : i < j => Past(F[i]) <= F[j].at
  <2>1. /\ n \in Nat
        /\ \A j \in 1 .. n : F[j] \in Fragment /\ F[j].at \in Nat /\ InBlock(F[j])
                             /\ F[j].at + HeaderSize <= Past(F[j]) /\ Past(F[j]) \in Nat
        /\ \A i, j \in 1 .. n : i < j => Past(F[i]) <= F[j].at
    BY Order
  <2>2. \A a, b \in Nat : a + HeaderSize <= b => a <= b
    BY LogConstants
  <2>. QED  BY <2>1, <2>2 DEF Boundary
<1>2. D \subseteq Nat /\ n \in D
  BY <1>1
<1>3. PICK k \in D : \A m \in D : k <= m
  <2>. HIDE DEF D
  <2>. QED  BY <1>2, LeastNatural
<1>4. ASSUME NEW j \in 1 .. k PROVE F[j].at < p
  <2>1. j - 1 \in 0 .. n /\ ~(k <= j - 1) /\ j - 1 # n /\ (j - 1) + 1 = j /\ j \in 1 .. n
    BY <1>1
  <2>2. ~(p <= F[j].at)
    BY <2>1, <1>3
  <2>. QED  BY <2>1, <2>2, <1>1
<1>5. ASSUME NEW j \in k + 1 .. n PROVE p <= F[j].at
  <2>1. k < n /\ k + 1 \in 1 .. n /\ j \in 1 .. n /\ p <= F[k + 1].at
    BY <1>1, <1>3
  <2>2. CASE j = k + 1
    BY <2>1, <2>2
  <2>3. CASE j # k + 1
    <3>1. Past(F[k + 1]) <= F[j].at
      BY <2>1, <2>3, <1>1
    <3>2. /\ F[k + 1].at <= Past(F[k + 1]) /\ F[k + 1].at \in Nat /\ Past(F[k + 1]) \in Nat
          /\ F[j].at \in Nat
      BY <2>1, <1>1
    <3>. QED  BY <2>1, <3>1, <3>2, <1>1
  <2>. QED  BY <2>2, <2>3
\* All of the last one's block is before the boundary.
<1>6. ASSUME k > 0 PROVE BlockEnd(F[k].at) <= p /\ NextAt(F[k]) <= p /\ Past(F[k]) <= p
  <2>1. k \in 1 .. n /\ F[k].at < p /\ F[k] \in Fragment /\ F[k].at \in Nat /\ InBlock(F[k])
    BY <1>1, <1>3, <1>4, <1>6
  <2>2. /\ Boundary(BlockOf(F[k].at)) /\ BlockOf(F[k].at) <= F[k].at
        /\ BlockOf(F[k].at) \in Nat /\ BlockEnd(F[k].at) = BlockOf(F[k].at) + BlockSize
        /\ BlockEnd(F[k].at) \in Nat
    BY <2>1, Blocks
  <2>3. BlockEnd(F[k].at) <= p
    <3>1. BlockOf(F[k].at) < p
      BY <2>1, <2>2, <1>1
    <3>. QED  BY <3>1, <2>2, Boundaries
  <2>4. NextAt(F[k]) \in Nat /\ Past(F[k]) <= NextAt(F[k]) /\ NextAt(F[k]) <= BlockEnd(F[k].at)
    BY <2>1, NextAfter
  <2>5. Past(F[k]) \in Nat
    BY <2>1, <1>1
  <2>. QED  BY <2>2, <2>3, <2>4, <2>5, <1>1
<1>7. ASSUME k < n PROVE F[k + 1].at = p
  <2>1. k + 1 \in 1 .. n /\ F[k + 1].at \in Nat /\ p <= F[k + 1].at
    BY <1>1, <1>3, <1>7
  <2>2. CASE k = 0
    <3>1. F # <<>>
      BY <2>2, <1>1, <1>7
    <3>2. F[1].at = 0
      BY <3>1 DEF LogInv, Laid
    <3>. QED  BY <2>1, <2>2, <3>2, <1>1
  <2>3. CASE k # 0
    <3>1. k \in 1 .. n - 1 /\ k > 0
      BY <2>3, <1>1, <1>3, <1>7
    <3>2. Succeeds(F[k], F[k + 1])
      BY <3>1 DEF LogInv, Laid
    <3>3. F[k + 1].at <= p
      BY <3>1, <3>2, <1>6 DEF Succeeds
    <3>. QED  BY <2>1, <3>3, <1>1
  <2>. QED  BY <2>2, <2>3
<1>8. ASSUME k = n PROVE size <= p
  <2>1. CASE F = <<>>
    <3>1. size = 0
      BY <2>1 DEF LogInv, AtEnd
    <3>. QED  BY <3>1, <1>1
  <2>2. CASE F # <<>>
    <3>1. size = Past(F[n])
      BY <2>2 DEF LogInv, AtEnd
    <3>2. k > 0
      <4>1. n # 0
        BY <2>2, <1>1 DEF LogInv, Laid
      <4>. QED  BY <4>1, <1>1, <1>8
    <3>. QED  BY <3>1, <3>2, <1>6, <1>8
  <2>. QED  BY <2>1, <2>2
<1>9. k \in 0 .. n
  BY <1>3
<1>. QED  BY <1>4, <1>5, <1>7, <1>8, <1>9 DEF Divides

ReaderState ==
  [at : Nat, buffered : Nat, eof : BOOLEAN, resyncing : BOOLEAN,
   pieces : SUBSET ToSet(fragments), found : Seq(SUBSET ToSet(fragments)), reports : Nat,
   done : BOOLEAN]

\* The part of the reader that is not its place.
SameRecord(r, s) ==
  /\ s.resyncing = r.resyncing /\ s.pieces = r.pieces /\ s.found = r.found
  /\ s.done = r.done

\* Once the buffer is filled the reader is at a fragment, or at the end of the file.
LEMMA RefillIs ==
  ASSUME LogInv, NEW f, IsFile(f), NEW r \in ReaderState, NEW k,
         Place(f, r.at, r.buffered, r.eof, k)
  PROVE  LET b == Refill(f, r)
         IN /\ b \in ReaderState /\ SameRecord(r, b) /\ b.reports = r.reports
            /\ \/ AtFragment(f, b.at, b.buffered, b.eof, k)
               \/ AtEof(f, b.at, b.buffered, b.eof, k)
<1>. DEFINE n == Len(fragments)
            from == Smaller(r.buffered, f.end)
            upto == Smaller(r.buffered + BlockSize, f.end)
            b == Refill(f, r)
<1>0. /\ n \in Nat /\ size \in Nat /\ f.end \in Nat /\ f.end <= size
      /\ \A j \in 1 .. n : fragments[j].at \in Nat /\ Past(fragments[j]) \in Nat
                           /\ fragments[j].at + HeaderSize <= Past(fragments[j])
                           /\ Past(fragments[j]) <= BlockEnd(fragments[j].at)
  <2>1. f.end \in 0 .. size
    BY DEF IsFile
  <2>. QED  BY <2>1, Order
<1>1. r.at \in Nat /\ r.buffered \in Nat /\ r.eof \in BOOLEAN
  BY DEF ReaderState
<1>2. ASSUME r.buffered - r.at >= HeaderSize \/ r.eof
      PROVE  b = r
  BY <1>2 DEF Refill
<1>3. SameRecord(r, r) /\ r.reports = r.reports
  BY DEF SameRecord
<1>4. CASE AtFragment(f, r.at, r.buffered, r.eof, k)
  <2>1. k + 1 \in 1 .. n /\ r.at = fragments[k + 1].at
    BY <1>4, <1>0 DEF AtFragment
  <2>2. r.buffered = Smaller(BlockEnd(r.at), f.end) /\ (r.eof <=> f.end < BlockEnd(r.at))
    BY <1>4 DEF AtFragment
  <2>3. r.at + HeaderSize <= BlockEnd(r.at) /\ BlockEnd(r.at) \in Nat
    <3>1. BlockEnd(r.at) \in Nat
      BY <1>1, Blocks
    <3>. QED  BY <3>1, <2>1, <1>0, LogConstants
  <2>4. r.buffered - r.at >= HeaderSize \/ r.eof
    BY <2>2, <2>3, <1>0, <1>1, LogConstants DEF Smaller
  <2>. QED  BY <2>4, <1>2, <1>3, <1>4
<1>5. CASE AtEof(f, r.at, r.buffered, r.eof, k)
  <2>1. r.eof
    BY <1>5 DEF AtEof
  <2>. QED  BY <2>1, <1>2, <1>3, <1>5
<1>6. CASE AtBlock(f, r.at, r.buffered, r.eof, k)
  <2>. DEFINE p == r.buffered
  <2>1. /\ ~r.eof /\ ~(p - r.at >= HeaderSize) /\ Divides(p, k) /\ p \in Nat /\ k \in 0 .. n
    <3>1. ~r.eof /\ p - r.at < HeaderSize /\ Divides(p, k)
      BY <1>6 DEF AtBlock
    <3>2. k \in 0 .. n
      BY <3>1 DEF Divides
    <3>3. ~(p - r.at >= HeaderSize)
      BY <3>1, <1>1, LogConstants
    <3>. QED  BY <3>1, <3>2, <3>3, <1>1
  <2>2. b = [r EXCEPT !.at = from, !.buffered = upto, !.eof = upto - from < BlockSize]
    BY <2>1 DEF Refill
  <2>3. from \in Nat /\ upto \in Nat /\ from <= upto
    BY <1>0, <2>1, LogConstants DEF Smaller
  <2>. HIDE DEF from, upto
  <2>4. (upto - from < BlockSize) \in BOOLEAN
    BY <2>3, LogConstants
  <2>5. b \in ReaderState /\ SameRecord(r, b) /\ b.reports = r.reports
    BY <2>2, <2>3, <2>4 DEF ReaderState, SameRecord
  <2>6. b.at = from /\ b.buffered = upto /\ (b.eof <=> upto - from < BlockSize)
    BY <2>2 DEF ReaderState
  <2>. HIDE DEF b, p
  <2>7. CASE k < n /\ p <= f.end
    <3>1. from = p /\ upto = Smaller(p + BlockSize, f.end)
      BY <2>7, <2>1, <1>0 DEF from, upto, Smaller, p
    <3>2. fragments[k + 1].at = p
      BY <2>1, <2>7 DEF Divides
    <3>3. BlockOf(p) = p /\ BlockEnd(p) = p + BlockSize
      <4>1. Boundary(p) /\ p <= p /\ p < p + BlockSize
        BY <2>1, LogConstants DEF Divides
      <4>2. BlockOf(p) = p
        BY <4>1, <2>1, Blocks
      <4>. QED  BY <4>2 DEF BlockEnd
    <3>4. (upto - from < BlockSize) <=> f.end < BlockEnd(p)
      BY <3>1, <3>3, <2>1, <1>0, <2>7, LogConstants DEF Smaller
    <3>5. ASSUME NEW j \in 1 .. k PROVE BlockOf(fragments[j].at) # BlockOf(p)
      <4>1. j \in 1 .. n /\ fragments[j].at < p
        BY <2>1, <1>0 DEF Divides
      <4>2. fragments[j].at \in Nat
        BY <4>1, <1>0
      <4>3. BlockOf(fragments[j].at) <= fragments[j].at /\ BlockOf(fragments[j].at) \in Nat
        BY <4>2, Blocks
      <4>. QED  BY <4>1, <4>2, <4>3, <3>3, <2>1
    <3>6. k \in 0 .. n - 1
      BY <2>1, <2>7, <1>0
    <3>7. AtFragment(f, b.at, b.buffered, b.eof, k)
      BY <3>1, <3>2, <3>3, <3>4, <3>5, <3>6, <2>6, <2>7 DEF AtFragment
    <3>. QED  BY <3>7, <2>5 DEF b
  <2>8. CASE ~(k < n /\ p <= f.end)
    <3>1. f.end <= p
      <4>1. CASE k < n
        BY <4>1, <2>8, <2>1, <1>0
      <4>2. CASE ~(k < n)
        <5>1. size <= p
          BY <4>2, <2>1, <1>0 DEF Divides
        <5>. QED  BY <5>1, <2>1, <1>0
      <4>. QED  BY <4>1, <4>2
    <3>2. from = f.end /\ upto = f.end
      BY <3>1, <2>1, <1>0, LogConstants DEF from, upto, Smaller, p
    <3>3. upto - from < BlockSize /\ upto - from < HeaderSize /\ b.eof
      BY <3>2, <2>6, <1>0, LogConstants
    <3>4. ASSUME NEW j \in k + 1 .. n PROVE f.end < Past(fragments[j])
      <4>1. j \in 1 .. n /\ p <= fragments[j].at /\ f.end < p
        BY <2>1, <2>8, <1>0 DEF Divides
      <4>. QED  BY <4>1, <2>1, <1>0, LogConstants
    <3>5. AtEof(f, b.at, b.buffered, b.eof, k)
      BY <3>3, <3>4, <2>1, <2>3, <2>6 DEF AtEof
    <3>. QED  BY <3>5, <2>5 DEF b
  <2>. QED  BY <2>7, <2>8
<1>. QED  BY <1>4, <1>5, <1>6 DEF Place

\* After a fragment that is in the buffer there is a place again.
LEMMA Passes ==
  ASSUME LogInv, NEW f, IsFile(f), NEW at, NEW buffered, NEW eof \in BOOLEAN, NEW k,
         AtFragment(f, at, buffered, eof, k), ~Bad(f, k + 1),
         Past(fragments[k + 1]) <= buffered
  PROVE  Place(f, Past(fragments[k + 1]), buffered, eof, k + 1)
<1>. DEFINE n == Len(fragments)
            g == fragments[k + 1]
            q == Past(g)
            e == BlockEnd(at)
<1>1. /\ n \in Nat /\ size \in Nat /\ f.end \in Nat /\ f.end <= size
      /\ \A j \in 1 .. n : fragments[j].at \in Nat /\ Past(fragments[j]) \in Nat
                           /\ fragments[j].at + HeaderSize <= Past(fragments[j])
                           /\ Past(fragments[j]) <= BlockEnd(fragments[j].at)
      /\ \A i, j \in 1 .. n : i < j => Past(fragments[i]) <= fragments[j].at
  <2>1. f.end \in 0 .. size /\ size \in Nat
    BY Order DEF IsFile
  <2>2. f.end \in Nat /\ f.end <= size
    BY <2>1
  <2>3. \A j \in 1 .. n : /\ fragments[j].at \in Nat /\ Past(fragments[j]) \in Nat
                         /\ fragments[j].at + HeaderSize <= Past(fragments[j])
                         /\ Past(fragments[j]) <= BlockEnd(fragments[j].at)
    BY Order
  <2>4. n \in Nat /\ \A i, j \in 1 .. n : i < j => Past(fragments[i]) <= fragments[j].at
    BY Order
  <2>. QED  BY <2>1, <2>2, <2>3, <2>4
<1>2. /\ k \in 0 .. n - 1 /\ at = g.at /\ at <= f.end
      /\ buffered = Smaller(e, f.end) /\ (eof <=> f.end < e)
      /\ \A j \in 1 .. k : Bad(f, j) => BlockOf(fragments[j].at) # BlockOf(at)
  BY DEF AtFragment
<1>3. k + 1 \in 1 .. n /\ k \in Nat
  BY <1>1, <1>2
<1>4. /\ at \in Nat /\ q \in Nat /\ at + HeaderSize <= q /\ q <= e /\ e \in Nat
      /\ Boundary(e) /\ at < e /\ BlockOf(at) <= at /\ Boundary(BlockOf(at))
      /\ e = BlockOf(at) + BlockSize /\ BlockOf(at) \in Nat
  <2>1. at \in Nat /\ q \in Nat /\ at + HeaderSize <= q /\ q <= e
    BY <1>1, <1>2, <1>3
  <2>. HIDE DEF q, g
  <2>. QED  BY <2>1, Blocks
<1>. HIDE DEF q, g, e
<1>5. buffered \in Nat /\ q <= buffered /\ buffered <= f.end /\ (~eof => buffered = e)
      /\ (eof => buffered = f.end)
  <2>1. q <= buffered
    BY DEF q, g
  <2>. QED  BY <2>1, <1>1, <1>2, <1>4 DEF Smaller
<1>6. CASE k + 1 < n
  <2>. DEFINE h == fragments[k + 2]
  <2>1. k + 1 \in 1 .. n - 1 /\ k + 2 \in 1 .. n /\ (k + 1) + 1 = k + 2
    BY <1>1, <1>3, <1>6
  <2>2. h.at = NextAt(g)
    <3>1. Succeeds(fragments[k + 1], fragments[(k + 1) + 1])
      BY <2>1 DEF LogInv, Laid
    <3>. QED  BY <3>1, <2>1 DEF Succeeds, g
  <2>3. h.at = IF e - q < HeaderSize THEN e ELSE q
    BY <2>2, <1>2 DEF NextAt, e, q
  <2>4. \A j \in k + 2 .. n : h.at <= fragments[j].at
    <3>. SUFFICES ASSUME NEW j \in k + 2 .. n PROVE h.at <= fragments[j].at
      OBVIOUS
    <3>1. j \in 1 .. n /\ k + 2 \in Nat
      BY <1>3
    <3>2. h.at \in Nat /\ Past(h) \in Nat /\ h.at + HeaderSize <= Past(h) /\ fragments[j].at \in Nat
      BY <2>1, <3>1, <1>1
    <3>3. CASE j = k + 2
      BY <3>2, <3>3
    <3>4. CASE j # k + 2
      <4>1. k + 2 < j
        BY <3>4, <3>1
      <4>2. Past(h) <= fragments[j].at
        BY <4>1, <3>1, <2>1, <1>1
      <4>. QED  BY <3>2, <4>2, LogConstants, SMTT(30)
    <3>. QED  BY <3>3, <3>4
  <2>. HIDE DEF h
  <2>5. CASE ~(e - q < HeaderSize)
    <3>1. h.at = q
      BY <2>3, <2>5
    <3>2. BlockOf(q) = BlockOf(at)
      <4>1. Boundary(BlockOf(at)) /\ BlockOf(at) <= q /\ q < BlockOf(at) + BlockSize
        BY <2>5, <1>4, LogConstants
      <4>. QED  BY <4>1, <1>4, Blocks
    <3>3. BlockEnd(q) = e
      BY <3>2 DEF BlockEnd, e
    <3>4. ASSUME NEW j \in 1 .. k + 1, Bad(f, j)
          PROVE  BlockOf(fragments[j].at) # BlockOf(q)
      <4>1. j # k + 1
        BY <3>4
      <4>2. j \in 1 .. k
        BY <4>1, <1>3
      <4>. QED  BY <4>2, <3>2, <3>4, <1>2
    <3>5. k + 1 \in 0 .. n - 1 /\ q <= f.end
      BY <2>1, <1>1, <1>4, <1>5, SMTT(30)
    <3>6. AtFragment(f, q, buffered, eof, k + 1)
      BY <3>1, <3>3, <3>4, <3>5, <2>1, <1>2 DEF AtFragment, h
    <3>. QED  BY <3>6 DEF Place, q, g
  <2>6. CASE e - q < HeaderSize
    <3>1. h.at = e
      BY <2>3, <2>6
    <3>2. CASE eof
      <4>1. \A j \in k + 2 .. n : f.end < Past(fragments[j])
        <5>. SUFFICES ASSUME NEW j \in k + 2 .. n PROVE f.end < Past(fragments[j])
          OBVIOUS
        <5>1. j \in 1 .. n /\ e <= fragments[j].at /\ f.end < e
          BY <2>4, <3>1, <3>2, <1>2, <1>3
        <5>2. /\ fragments[j].at \in Nat /\ Past(fragments[j]) \in Nat
              /\ fragments[j].at + HeaderSize <= Past(fragments[j])
          BY <5>1, <1>1
        <5>. QED  BY <5>1, <5>2, <1>1, <1>4, LogConstants, SMTT(30)
      <4>2. buffered - q < HeaderSize
        BY <2>6, <3>2, <1>1, <1>2, <1>4, <1>5, LogConstants
      <4>3. k + 1 \in 0 .. n /\ (k + 1) + 1 = k + 2
        BY <1>3, <1>1
      <4>4. AtEof(f, q, buffered, eof, k + 1)
        BY <4>1, <4>2, <4>3, <3>2, <1>4, <1>5 DEF AtEof
      <4>. QED  BY <4>4 DEF Place, q, g
    <3>3. CASE ~eof
      <4>1. buffered = e
        BY <3>3, <1>5
      <4>2. ASSUME NEW j \in 1 .. k + 1 PROVE fragments[j].at < e
        <5>1. CASE j = k + 1
          BY <5>1, <1>2, <1>4 DEF g
        <5>2. CASE j # k + 1
          <6>1. j < k + 1 /\ j \in 1 .. n
            BY <5>2, <1>1, <1>3
          <6>2. Past(fragments[j]) <= at
            BY <6>1, <1>1, <1>2, <1>3 DEF g
          <6>3. /\ fragments[j].at \in Nat /\ Past(fragments[j]) \in Nat
                /\ fragments[j].at + HeaderSize <= Past(fragments[j])
            BY <6>1, <1>1
          <6>. QED  BY <6>2, <6>3, <1>4, LogConstants
        <5>. QED  BY <5>1, <5>2
      <4>3. k + 1 \in 0 .. n /\ (k + 1) + 1 = k + 2 /\ k + 1 # n
        BY <1>3, <1>1, <1>6
      <4>4. \A j \in k + 2 .. n : e <= fragments[j].at
        BY <2>4, <3>1
      <4>5. Divides(e, k + 1)
        BY <4>2, <4>3, <4>4, <3>1, <1>4 DEF Divides, h
      <4>6. AtBlock(f, q, buffered, eof, k + 1)
        BY <4>1, <4>5, <3>3, <2>6, <1>4, <1>5 DEF AtBlock
      <4>. QED  BY <4>6 DEF Place, q, g
    <3>. QED  BY <3>2, <3>3
  <2>. QED  BY <2>5, <2>6
<1>7. CASE k + 1 = n
  <2>1. size = q
    <3>1. fragments # <<>>
      BY <1>3
    <3>. QED  BY <3>1, <1>7 DEF LogInv, AtEnd, q, g
  <2>2. CASE eof
    <3>1. buffered - q < HeaderSize
      BY <2>1, <2>2, <1>1, <1>4, <1>5, LogConstants
    <3>2. \A j \in (k + 1) + 1 .. n : FALSE
      BY <1>1, <1>7
    <3>3. k + 1 \in 0 .. n
      BY <1>3
    <3>4. AtEof(f, q, buffered, eof, k + 1)
      BY <3>1, <3>2, <3>3, <2>2, <1>4, <1>5 DEF AtEof
    <3>. QED  BY <3>4 DEF Place, q, g
  <2>3. CASE ~eof
    <3>1. buffered = e /\ buffered - q < HeaderSize /\ size <= e
      BY <2>1, <2>3, <1>1, <1>4, <1>5, LogConstants
    <3>2. ASSUME NEW j \in 1 .. k + 1 PROVE fragments[j].at < e
      <4>1. j \in 1 .. n
        BY <1>1, <1>3
      <4>2. /\ fragments[j].at \in Nat /\ Past(fragments[j]) \in Nat
            /\ fragments[j].at + HeaderSize <= Past(fragments[j])
        BY <4>1, <1>1
      <4>3. Past(fragments[j]) <= size
        BY <4>1, Order
      <4>4. size \in Nat /\ size <= e /\ e \in Nat
        BY <3>1, <1>1, <1>4
      <4>. QED  BY <4>2, <4>3, <4>4, LogConstants
    <3>3. \A j \in (k + 1) + 1 .. n : FALSE
      BY <1>1, <1>7
    <3>4. k + 1 \in 0 .. n /\ ~(k + 1 < n)
      BY <1>3, <1>7, <1>1
    <3>5. Divides(e, k + 1)
      BY <3>1, <3>2, <3>3, <3>4, <1>4 DEF Divides
    <3>6. AtBlock(f, q, buffered, eof, k + 1)
      BY <3>1, <3>5, <2>3, <1>4, <1>5 DEF AtBlock
    <3>. QED  BY <3>6 DEF Place, q, g
  <2>. QED  BY <2>2, <2>3
<1>. QED  BY <1>1, <1>3, <1>6, <1>7

\* A fragment that is bad takes with it the rest of its block.
LEMMA Drops ==
  ASSUME LogInv, NEW f, IsFile(f), NEW at, NEW buffered, NEW eof \in BOOLEAN, NEW k,
         AtFragment(f, at, buffered, eof, k), Bad(f, k + 1)
  PROVE  \E m \in k + 1 .. Len(fragments) :
           /\ \A j \in k + 1 .. m : ~Readable(f, j)
           /\ Place(f, buffered, buffered, eof, m)
           /\ eof => m = Len(fragments)
<1>. DEFINE n == Len(fragments)
            e == BlockEnd(at)
<1>1. /\ n \in Nat /\ size \in Nat /\ f.end \in Nat /\ f.end <= size
      /\ \A j \in 1 .. n : fragments[j].at \in Nat /\ Past(fragments[j]) \in Nat
                           /\ fragments[j].at + HeaderSize <= Past(fragments[j])
      /\ \A i, j \in 1 .. n : i < j => Past(fragments[i]) <= fragments[j].at
  <2>1. f.end \in 0 .. size
    BY DEF IsFile
  <2>. QED  BY <2>1, Order
<1>2. /\ k \in 0 .. n - 1 /\ at = fragments[k + 1].at /\ at <= f.end
      /\ buffered = Smaller(e, f.end) /\ (eof <=> f.end < e)
  BY DEF AtFragment
<1>3. k + 1 \in 1 .. n /\ k \in Nat /\ at \in Nat
  BY <1>1, <1>2
<1>4. /\ e \in Nat /\ Boundary(e) /\ at < e /\ BlockOf(at) <= at /\ BlockOf(at) \in Nat
      /\ Boundary(BlockOf(at)) /\ e = BlockOf(at) + BlockSize
  BY <1>3, Blocks
<1>. HIDE DEF e
<1>5. buffered \in Nat /\ (~eof => buffered = e)
  BY <1>1, <1>2, <1>4 DEF Smaller
<1>6. ASSUME NEW j \in k + 1 .. n, fragments[j].at < e PROVE ~Readable(f, j)
  <2>1. j \in 1 .. n /\ k + 1 \in 1 .. j /\ fragments[j].at \in Nat
    BY <1>1, <1>3
  <2>2. at <= fragments[j].at
    <3>1. CASE j = k + 1
      BY <3>1, <1>2, <1>3
    <3>2. CASE j # k + 1
      <4>1. k + 1 < j
        BY <3>2, <1>3
      <4>2. Past(fragments[k + 1]) <= fragments[j].at
        BY <4>1, <2>1, <1>1, <1>3
      <4>3. at + HeaderSize <= Past(fragments[k + 1]) /\ Past(fragments[k + 1]) \in Nat
        BY <1>1, <1>2, <1>3
      <4>. QED  BY <4>2, <4>3, <2>1, <1>3, LogConstants
    <3>. QED  BY <3>1, <3>2
  <2>3. BlockOf(fragments[j].at) = BlockOf(at)
    <3>1. BlockOf(at) <= fragments[j].at /\ fragments[j].at < BlockOf(at) + BlockSize
      BY <2>1, <2>2, <1>3, <1>4, <1>6
    <3>. QED  BY <3>1, <2>1, <1>4, Blocks
  <2>. QED  BY <2>1, <2>3, <1>2 DEF Readable
<1>7. CASE eof
  <2>1. ASSUME NEW j \in k + 1 .. n PROVE ~Readable(f, j)
    <3>1. CASE fragments[j].at < e
      BY <3>1, <1>6
    <3>2. CASE ~(fragments[j].at < e)
      <4>1. j \in 1 .. n
        BY <1>3
      <4>2. f.end < Past(fragments[j])
        BY <4>1, <3>2, <1>1, <1>2, <1>4, <1>7, LogConstants, SMTT(30)
      <4>3. ~(Past(fragments[j]) <= f.end)
        BY <4>1, <4>2, <1>1
      <4>. QED  BY <4>3 DEF Readable
    <3>. QED  BY <3>1, <3>2
  <2>2. n \in k + 1 .. n /\ n \in 0 .. n /\ \A j \in n + 1 .. n : FALSE
    BY <1>1, <1>3
  <2>3. AtEof(f, buffered, buffered, eof, n)
    BY <2>2, <1>5, <1>7, LogConstants DEF AtEof
  <2>. QED  BY <2>1, <2>2, <2>3 DEF Place
<1>8. CASE ~eof
  <2>1. PICK m : Divides(e, m)
    BY <1>4, DividesAt
  <2>2. m \in 0 .. n
    BY <2>1 DEF Divides
  <2>3. m \in k + 1 .. n
    <3>1. CASE m < k + 1
      <4>1. k + 1 \in m + 1 .. n
        BY <3>1, <2>2, <1>1, <1>3
      <4>2. e <= at
        BY <4>1, <2>1, <1>2 DEF Divides
      <4>. QED  BY <4>2, <1>3, <1>4
    <3>. QED  BY <3>1, <2>2, <1>1, <1>3
  <2>4. ASSUME NEW j \in k + 1 .. m PROVE ~Readable(f, j)
    <3>1. j \in k + 1 .. n /\ j \in 1 .. m
      BY <2>2, <1>1, <1>3
    <3>2. fragments[j].at < e
      BY <3>1, <2>1 DEF Divides
    <3>. QED  BY <3>1, <3>2, <1>6
  <2>5. AtBlock(f, buffered, buffered, eof, m)
    BY <2>1, <1>4, <1>5, <1>8, LogConstants DEF AtBlock
  <2>. QED  BY <2>3, <2>4, <2>5, <1>8 DEF Place
<1>. QED  BY <1>7, <1>8

\* No two fragments are at the same place.
LEMMA FragmentAtIs ==
  ASSUME LogInv, NEW j \in 1 .. Len(fragments)
  PROVE  FragmentAt(fragments[j].at) = fragments[j]
<1>. DEFINE F == fragments
            n == Len(F)
<1>1. /\ n \in Nat
      /\ \A i \in 1 .. n : F[i].at \in Nat /\ Past(F[i]) \in Nat
                           /\ F[i].at + HeaderSize <= Past(F[i])
      /\ \A i, k \in 1 .. n : i < k => Past(F[i]) <= F[k].at
  BY Order
<1>2. ToSet(F) = {F[i] : i \in 1 .. n}
  <2>1. DOMAIN F = 1 .. n
    BY DEF LogInv, Laid
  <2>. QED  BY <2>1 DEF ToSet
<1>3. ASSUME NEW i \in 1 .. n, F[i].at = F[j].at PROVE i = j
  <2>1. ASSUME NEW a \in 1 .. n, NEW b \in 1 .. n, a < b PROVE F[a].at < F[b].at
    <3>1. Past(F[a]) <= F[b].at
      BY <2>1, <1>1
    <3>2. /\ F[a].at \in Nat /\ Past(F[a]) \in Nat /\ F[b].at \in Nat
          /\ F[a].at + HeaderSize <= Past(F[a])
      BY <1>1
    <3>. QED  BY <3>1, <3>2, LogConstants
  <2>2. ~(i < j) /\ ~(j < i)
    <3>1. i < j => F[i].at < F[j].at
      BY <2>1
    <3>2. j < i => F[j].at < F[i].at
      BY <2>1
    <3>3. F[i].at \in Nat /\ F[j].at \in Nat
      BY <1>1
    <3>. QED  BY <3>1, <3>2, <3>3, <1>3
  <2>. QED  BY <2>2, <1>1
<1>4. \A g \in ToSet(F) : g.at = F[j].at => g = F[j]
  BY <1>2, <1>3
<1>5. F[j] \in ToSet(F)
  BY <1>2
<1>. QED  BY <1>4, <1>5 DEF FragmentAt

\* What ReadPhysicalRecord may return.
ReadsEof(f, b, p, k) ==
  /\ p.type = "eof" /\ p.reader \in ReaderState /\ SameRecord(b, p.reader)
  /\ p.reader.reports = b.reports
  /\ \E m \in k .. Len(fragments) :
       /\ \A j \in k + 1 .. m : ~Readable(f, j)
       /\ \A j \in m + 1 .. Len(fragments) : f.end < Past(fragments[j])
       /\ m = k \/ f.wrong # {}

ReadsBad(f, b, p, k) ==
  /\ p.type = "bad" /\ p.reader \in ReaderState /\ SameRecord(b, p.reader)
  /\ f.initial = 0 => p.reader.reports > 0 /\ Bad(f, k + 1)
  /\ \E m \in k + 1 .. Len(fragments) :
       /\ \A j \in k + 1 .. m : ~Readable(f, j)
       /\ Place(f, p.reader.at, p.reader.buffered, p.reader.eof, m)

ReadsFragment(f, b, p, k) ==
  /\ k + 1 \in 1 .. Len(fragments) /\ Readable(f, k + 1) /\ ~Bad(f, k + 1)
  /\ p.type = fragments[k + 1].type /\ p.reader \in ReaderState /\ SameRecord(b, p.reader)
  /\ p.reader.reports = b.reports
  /\ Place(f, p.reader.at, p.reader.buffered, p.reader.eof, k + 1)

\* What is left of the reader when the rest of its buffer is dropped.
LEMMA CorruptedIs ==
  ASSUME NEW f, f.initial \in Nat, NEW b \in ReaderState
  PROVE  /\ Dropped(b) \in ReaderState /\ SameRecord(b, Dropped(b))
         /\ Dropped(b).reports = b.reports
         /\ Corrupted(f, b) \in ReaderState /\ SameRecord(b, Corrupted(f, b))
         /\ Corrupted(f, b).at = b.buffered /\ Corrupted(f, b).buffered = b.buffered
         /\ Corrupted(f, b).eof = b.eof
         /\ f.initial = 0 => Corrupted(f, b).reports > 0
<1>1. b.at \in Nat /\ b.buffered \in Nat /\ b.reports \in Nat
  BY DEF ReaderState
<1>2. /\ Dropped(b) \in ReaderState /\ SameRecord(b, Dropped(b))
      /\ Dropped(b).reports = b.reports
      /\ Dropped(b).at = b.buffered /\ Dropped(b).buffered = b.buffered
      /\ Dropped(b).eof = b.eof
  BY <1>1 DEF Dropped, ReaderState, SameRecord
<1>. DEFINE d == Dropped(b)
            x == IF b.at >= f.initial THEN 1 ELSE 0
            c == [d EXCEPT !.reports = @ + x]
<1>3. Corrupted(f, b) = c
  BY DEF Corrupted
<1>4. x \in Nat /\ (f.initial = 0 => x = 1)
  BY <1>1
<1>. HIDE DEF d, x
<1>5. /\ d \in ReaderState /\ SameRecord(b, d) /\ d.reports = b.reports
      /\ d.at = b.buffered /\ d.buffered = b.buffered /\ d.eof = b.eof
  BY <1>2 DEF d
<1>6. d.reports + x \in Nat /\ (f.initial = 0 => d.reports + x > 0)
  BY <1>1, <1>4, <1>5
<1>7. /\ c \in ReaderState /\ c.at = d.at /\ c.buffered = d.buffered /\ c.eof = d.eof
      /\ c.reports = d.reports + x /\ SameRecord(d, c)
  BY <1>5, <1>6 DEF ReaderState, SameRecord
<1>8. SameRecord(b, c)
  BY <1>5, <1>7 DEF SameRecord
<1>. HIDE DEF c
<1>. QED  BY <1>2, <1>3, <1>5, <1>6, <1>7, <1>8

\* At the end of the file ReadPhysicalRecord says so.
LEMMA ParsesEof ==
  ASSUME LogInv, NEW f, IsFile(f), NEW b \in ReaderState, NEW k,
         AtEof(f, b.at, b.buffered, b.eof, k)
  PROVE  ReadsEof(f, b, Parse(f, b), k)
<1>1. Parse(f, b).type = "eof" /\ Parse(f, b).reader = Dropped(b)
  BY DEF Parse, AtEof
<1>2. f.initial \in Nat
  BY Order DEF IsFile
<1>3. k \in k .. Len(fragments) /\ \A j \in k + 1 .. k : FALSE
  BY Order DEF AtEof
<1>. QED  BY <1>1, <1>2, <1>3, CorruptedIs DEF AtEof, ReadsEof

\* At a fragment it is read when it is readable; when not, it is dropped or the file ends.
LEMMA ParsesFragment ==
  ASSUME LogInv, NEW f, IsFile(f), NEW b \in ReaderState, NEW k,
         AtFragment(f, b.at, b.buffered, b.eof, k)
  PROVE  \/ ReadsEof(f, b, Parse(f, b), k)
         \/ ReadsBad(f, b, Parse(f, b), k)
         \/ ReadsFragment(f, b, Parse(f, b), k)
<1>. DEFINE n == Len(fragments)
            g == fragments[k + 1]
            q == b.at + HeaderSize + g.length
            e == BlockEnd(b.at)
            p == Parse(f, b)
            moved == [b EXCEPT !.at = q]
<1>1. /\ n \in Nat /\ size \in Nat /\ f.end \in Nat /\ f.end <= size /\ f.initial \in Nat
  <2>1. f.end \in 0 .. size /\ f.initial \in 0 .. size /\ n \in Nat /\ size \in Nat
    BY Order DEF IsFile
  <2>. QED  BY <2>1
<1>2. /\ k \in 0 .. n - 1 /\ b.at = g.at /\ b.at <= f.end
      /\ b.buffered = Smaller(e, f.end) /\ (b.eof <=> f.end < e)
      /\ \A j \in 1 .. k : Bad(f, j) => BlockOf(fragments[j].at) # BlockOf(b.at)
  BY DEF AtFragment
<1>3. k + 1 \in 1 .. n /\ k \in Nat /\ (k + 1) - 1 = k
  BY <1>1, <1>2
<1>4. /\ b.at \in Nat /\ b.buffered \in Nat /\ b.eof \in BOOLEAN /\ b.reports \in Nat
  BY DEF ReaderState
<1>5. q = Past(g) /\ q \in Nat /\ q <= e /\ e \in Nat /\ b.at + HeaderSize <= q
  <2>1. /\ g \in Fragment /\ Past(g) \in Nat /\ g.at + HeaderSize <= Past(g)
        /\ Past(g) <= BlockEnd(g.at)
    BY <1>3, Order
  <2>2. e \in Nat
    BY <1>4, Blocks
  <2>3. q = Past(g)
    BY <1>2 DEF Past
  <2>. QED  BY <2>1, <2>2, <2>3, <1>2
<1>6. FragmentAt(b.at) = g
  BY <1>2, <1>3, FragmentAtIs
<1>7. ASSUME f.end < q PROVE \A j \in k + 1 .. n : f.end < Past(fragments[j])
  <2>. SUFFICES ASSUME NEW j \in k + 1 .. n PROVE f.end < Past(fragments[j])
    OBVIOUS
  <2>1. j \in 1 .. n
    BY <1>3
  <2>2. /\ fragments[j].at \in Nat /\ Past(fragments[j]) \in Nat
        /\ fragments[j].at + HeaderSize <= Past(fragments[j])
    BY <2>1, Order
  <2>3. CASE j = k + 1
    BY <2>3, <1>5, <1>7
  <2>4. CASE j # k + 1
    <3>1. k + 1 < j
      BY <2>4, <1>3
    <3>2. Past(g) <= fragments[j].at
      BY <3>1, <2>1, <1>3, Order
    <3>3. q <= fragments[j].at
      BY <3>2, <1>5
    <3>. HIDE DEF q
    <3>. QED  BY <3>3, <2>2, <1>1, <1>5, <1>7, LogConstants
  <2>. QED  BY <2>3, <2>4
<1>8. k \in k .. n /\ \A j \in k + 1 .. k : FALSE
  BY <1>1, <1>2
\* The outcomes, and when they are.
<1>9. ASSUME p.type = "eof", p.reader = Dropped(b), f.end < q PROVE ReadsEof(f, b, p, k)
  <2>1. \A j \in k + 1 .. n : f.end < Past(fragments[j])
    BY <1>7, <1>9
  <2>2. /\ p.reader \in ReaderState /\ SameRecord(b, p.reader)
        /\ p.reader.reports = b.reports
    BY <1>1, <1>9, CorruptedIs
  <2>. HIDE DEF p, q
  <2>. QED  BY <2>1, <2>2, <1>8, <1>9 DEF ReadsEof
<1>10. ASSUME p.type = "bad", p.reader = Corrupted(f, b), Bad(f, k + 1)
       PROVE  ReadsBad(f, b, p, k)
  <2>1. PICK m \in k + 1 .. n :
          /\ \A j \in k + 1 .. m : ~Readable(f, j)
          /\ Place(f, b.buffered, b.buffered, b.eof, m)
    BY <1>4, <1>10, Drops
  <2>2. /\ p.reader \in ReaderState /\ SameRecord(b, p.reader)
        /\ p.reader.at = b.buffered /\ p.reader.buffered = b.buffered
        /\ p.reader.eof = b.eof
        /\ f.initial = 0 => p.reader.reports > 0
    BY <1>1, <1>10, CorruptedIs
  <2>. HIDE DEF p
  <2>. QED  BY <2>1, <2>2, <1>10 DEF ReadsBad
<1>11. CASE b.buffered - b.at < HeaderSize
  <2>1. p.type = "eof" /\ p.reader = Dropped(b)
    BY <1>11 DEF Parse
  <2>2. f.end < q
    <3>. HIDE DEF q, e
    <3>. QED  BY <1>11, <1>1, <1>2, <1>4, <1>5, LogConstants DEF Smaller
  <2>. QED  BY <2>1, <2>2, <1>9
<1>12. CASE ~(b.buffered - b.at < HeaderSize) /\ q > b.buffered
  <2>1. b.eof /\ f.end < q
    <3>. HIDE DEF q, e
    <3>. QED  BY <1>12, <1>1, <1>2, <1>4, <1>5 DEF Smaller
  <2>2. p.type = "eof" /\ p.reader = Dropped(b)
    BY <2>1, <1>6, <1>12 DEF Parse, WriterDied
  <2>. QED  BY <2>1, <2>2, <1>9
<1>13. CASE ~(b.buffered - b.at < HeaderSize) /\ ~(q > b.buffered) /\ g \in f.wrong
  <2>0. Bad(f, k + 1)
    BY <1>13 DEF Bad
  <2>1. CASE b.eof
    <3>1. p.type = "eof" /\ p.reader = Dropped(b)
      BY <2>1, <1>6, <1>13 DEF Parse, WriterDied
    <3>2. PICK m \in k + 1 .. n : (\A j \in k + 1 .. m : ~Readable(f, j)) /\ m = n
      BY <2>0, <2>1, <1>4, Drops
    <3>3. n \in k .. n /\ (\A j \in n + 1 .. n : FALSE) /\ f.wrong # {}
      BY <1>1, <1>2, <1>13
    <3>4. /\ p.reader \in ReaderState /\ SameRecord(b, p.reader)
          /\ p.reader.reports = b.reports
      BY <1>1, <3>1, CorruptedIs
    <3>5. \A j \in k + 1 .. n : ~Readable(f, j)
      BY <3>2
    <3>. HIDE DEF p
    <3>6. ReadsEof(f, b, p, k)
      BY <3>1, <3>3, <3>4, <3>5 DEF ReadsEof
    <3>. QED  BY <3>6 DEF p
  <2>2. CASE ~b.eof
    <3>1. p.type = "bad" /\ p.reader = Corrupted(f, b)
      BY <2>2, <1>6, <1>13 DEF Parse, WriterDied
    <3>. QED  BY <3>1, <2>0, <1>10
  <2>. QED  BY <2>1, <2>2
<1>14. CASE ~(b.buffered - b.at < HeaderSize) /\ ~(q > b.buffered) /\ g \notin f.wrong
            /\ g \in f.damaged
  <2>1. Bad(f, k + 1)
    BY <1>14 DEF Bad
  <2>2. p.type = "bad" /\ p.reader = Corrupted(f, b)
    BY <1>6, <1>14 DEF Parse
  <2>. QED  BY <2>1, <2>2, <1>10
<1>15. CASE ~(b.buffered - b.at < HeaderSize) /\ ~(q > b.buffered) /\ g \notin f.wrong
            /\ g \notin f.damaged
  <2>1. ~Bad(f, k + 1)
    BY <1>15 DEF Bad
  <2>2. p.type = (IF b.at < f.initial THEN "bad" ELSE g.type) /\ p.reader = moved
    BY <1>6, <1>15 DEF Parse
  <2>3. q <= b.buffered
    <3>. HIDE DEF q
    <3>. QED  BY <1>4, <1>5, <1>15
  <2>4. Place(f, q, b.buffered, b.eof, k + 1)
    <3>1. Past(fragments[k + 1]) <= b.buffered
      BY <2>3, <1>5
    <3>2. Place(f, Past(fragments[k + 1]), b.buffered, b.eof, k + 1)
      BY <3>1, <2>1, <1>4, Passes
    <3>. QED  BY <3>2, <1>5
  <2>5. /\ moved \in ReaderState /\ moved.at = q /\ moved.buffered = b.buffered
        /\ moved.eof = b.eof /\ moved.reports = b.reports /\ SameRecord(b, moved)
    <3>. HIDE DEF q
    <3>. QED  BY <1>5 DEF ReaderState, SameRecord
  <2>. HIDE DEF moved
  <2>6. CASE b.at < f.initial
    <3>1. ~Readable(f, k + 1)
      <4>1. ~(f.initial <= fragments[k + 1].at)
        BY <2>6, <1>1, <1>2, <1>4
      <4>. QED  BY <4>1 DEF Readable
    <3>2. k + 1 \in k + 1 .. n /\ \A j \in k + 1 .. k + 1 : j = k + 1
      BY <1>3
    <3>3. f.initial # 0
      BY <2>6, <1>1, <1>4
    <3>. HIDE DEF p
    <3>4. ReadsBad(f, b, p, k)
      BY <3>1, <3>2, <3>3, <2>2, <2>4, <2>5, <2>6 DEF ReadsBad
    <3>. QED  BY <3>4 DEF p
  <2>7. CASE ~(b.at < f.initial)
    <3>1. f.initial <= g.at
      BY <2>7, <1>1, <1>2, <1>4
    <3>2. q <= f.end
      <4>. HIDE DEF q, e
      <4>. QED  BY <2>3, <1>1, <1>2, <1>4, <1>5 DEF Smaller
    <3>3. ASSUME NEW i \in 1 .. k + 1, Bad(f, i)
          PROVE  BlockOf(fragments[i].at) # BlockOf(g.at)
      <4>1. i # k + 1
        BY <3>3, <2>1
      <4>2. i \in 1 .. k
        BY <4>1, <1>3
      <4>. QED  BY <4>2, <3>3, <1>2
    <3>4. Readable(f, k + 1)
      BY <3>1, <3>2, <3>3, <1>5 DEF Readable
    <3>5. p.type = g.type
      BY <2>2, <2>7
    <3>. HIDE DEF p
    <3>6. ReadsFragment(f, b, p, k)
      BY <3>4, <3>5, <2>1, <2>2, <2>4, <2>5, <1>3 DEF ReadsFragment
    <3>. QED  BY <3>6 DEF p
  <2>. QED  BY <2>6, <2>7
<1>. QED  BY <1>11, <1>12, <1>13, <1>14, <1>15

-----------------------------------------------------------------------------
(* The log: what the reader has of a record, and of those before.           *)

AllSoFar(f, j) == \A i \in SoFar(j) : Readable(f, i)

PiecesAt(f, k) ==
  IF k = 0 \/ Ends(fragments[k]) \/ ~AllSoFar(f, k) THEN {}
  ELSE {fragments[i] : i \in SoFar(k)}

\* The records of which every fragment is read.
Complete(f) ==
  {i \in 1 .. Len(records) :
     \A j \in 1 .. Len(fragments) : fragments[j].rec = i => Readable(f, j)}

\* A record is read when its fragments up to the last are.
LEMMA CompleteIs ==
  ASSUME LogInv, NEW f, NEW j \in 1 .. Len(fragments), Ends(fragments[j])
  PROVE  fragments[j].rec \in Complete(f) <=> AllSoFar(f, j)
<1>1. fragments[j].rec \in 1 .. Len(records) /\ Len(fragments) \in Nat
  BY Order
<1>2. \A i \in 1 .. Len(fragments) : fragments[i].rec = fragments[j].rec <=> i \in SoFar(j)
  <2>1. \A i \in 1 .. Len(fragments) : fragments[i].rec = fragments[j].rec => i \in SoFar(j)
    BY SoFarFacts
  <2>. QED  BY <2>1 DEF SoFar
<1>3. SoFar(j) \subseteq 1 .. Len(fragments)
  <2>1. SoFar(j) \subseteq 1 .. j
    BY SoFarFacts
  <2>. QED  BY <2>1, <1>1
<1>. QED  BY <1>1, <1>2, <1>3 DEF Complete, AllSoFar

\* One fragment more.
LEMMA FoundAt ==
  ASSUME LogInv, NEW f, NEW u, AreKept(u, Complete(f)), NEW j \in 1 .. Len(fragments)
  PROVE  u[Count(j)] = IF Ends(fragments[j]) /\ AllSoFar(f, j)
                       THEN Append(u[Count(j - 1)], {fragments[i] : i \in SoFar(j)})
                       ELSE u[Count(j - 1)]
<1>. DEFINE x == fragments[j].rec
<1>1. x \in 1 .. Len(records) /\ Len(records) \in Nat
  BY Order
<1>2. Count(j - 1) = x - 1 /\ Count(j) = IF Ends(fragments[j]) THEN x ELSE Count(j - 1)
  BY CountFacts
<1>3. CASE Ends(fragments[j])
  <2>1. u[x] = IF x \in Complete(f) THEN Append(u[x - 1], RecordOf(x)) ELSE u[x - 1]
    BY <1>1 DEF AreKept
  <2>2. RecordOf(x) = {fragments[i] : i \in SoFar(j)}
    BY <1>3, SoFarFacts
  <2>3. x \in Complete(f) <=> AllSoFar(f, j)
    BY <1>3, CompleteIs
  <2>. HIDE DEF x
  <2>. QED  BY <2>1, <2>2, <2>3, <1>2, <1>3
<1>4. CASE ~Ends(fragments[j])
  BY <1>2, <1>4
<1>. QED  BY <1>3, <1>4

\* A fragment that is not read adds nothing.
LEMMA NotRead ==
  ASSUME LogInv, NEW f, NEW u, AreKept(u, Complete(f)), NEW j \in 1 .. Len(fragments),
         ~Readable(f, j)
  PROVE  PiecesAt(f, j) = {} /\ u[Count(j)] = u[Count(j - 1)]
<1>1. j \in SoFar(j)
  BY SoFarFacts
<1>2. ~AllSoFar(f, j)
  BY <1>1 DEF AllSoFar
<1>3. u[Count(j)] = u[Count(j - 1)]
  BY <1>2, FoundAt
<1>. QED  BY <1>2, <1>3 DEF PiecesAt

\* Nor do several.
LEMMA NoneRead ==
  ASSUME LogInv, NEW f, NEW u, AreKept(u, Complete(f)), NEW k \in 0 .. Len(fragments),
         NEW m \in k .. Len(fragments), \A j \in k + 1 .. m : ~Readable(f, j)
  PROVE  /\ u[Count(m)] = u[Count(k)]
         /\ m # k => PiecesAt(f, m) = {}
<1>. DEFINE D == {d \in Nat : k + d <= m => u[Count(k + d)] = u[Count(k)]}
<1>0. Len(fragments) \in Nat /\ k \in Nat /\ m \in Nat
  BY Order
<1>1. 0 \in D
  BY <1>0
<1>2. ASSUME NEW d \in Nat, d \in D PROVE d + 1 \in D
  <2>. SUFFICES ASSUME k + (d + 1) <= m PROVE u[Count(k + (d + 1))] = u[Count(k)]
    OBVIOUS
  <2>1. k + d <= m /\ k + (d + 1) \in 1 .. Len(fragments) /\ (k + (d + 1)) - 1 = k + d
        /\ k + (d + 1) \in k + 1 .. m
    BY <1>0
  <2>2. u[Count(k + d)] = u[Count(k)]
    BY <1>2, <2>1
  <2>3. u[Count(k + (d + 1))] = u[Count((k + (d + 1)) - 1)]
    BY <2>1, NotRead
  <2>. QED  BY <2>1, <2>2, <2>3
<1>3. m - k \in Nat /\ k + (m - k) = m
  BY <1>0
<1>4. m - k \in D
  <2>. HIDE DEF D
  <2>. QED  BY <1>1, <1>2, <1>3, Induction
<1>5. u[Count(m)] = u[Count(k)]
  BY <1>3, <1>4, <1>0
<1>6. ASSUME m # k PROVE PiecesAt(f, m) = {}
  <2>1. m \in 1 .. Len(fragments) /\ m \in k + 1 .. m
    BY <1>0, <1>6
  <2>. QED  BY <2>1, NotRead
<1>. QED  BY <1>5, <1>6

\* A fragment that is read begins a record, or goes on with it.
LEMMA ReadOn ==
  ASSUME LogInv, NEW f, NEW u, AreKept(u, Complete(f)), NEW j \in 1 .. Len(fragments),
         Readable(f, j)
  PROVE  LET g == fragments[j]
             before == PiecesAt(f, j - 1)
             got == u[Count(j - 1)]
         IN /\ Begins(g) => before = {}
            /\ ~Begins(g) /\ before = {} => \E i \in 1 .. j - 1 : ~Readable(f, i)
            /\ g.type = "full" => PiecesAt(f, j) = {} /\ u[Count(j)] = Append(got, {g})
            /\ g.type = "first" => PiecesAt(f, j) = {g} /\ u[Count(j)] = got
            /\ g.type = "middle" =>
                 /\ PiecesAt(f, j) = IF before = {} THEN {} ELSE before \cup {g}
                 /\ u[Count(j)] = got
            /\ g.type = "last" =>
                 /\ PiecesAt(f, j) = {}
                 /\ u[Count(j)] = IF before = {} THEN got ELSE Append(got, before \cup {g})
<1>. DEFINE g == fragments[j]
            before == PiecesAt(f, j - 1)
            got == u[Count(j - 1)]
            new == {fragments[i] : i \in SoFar(j)}
<1>1. u[Count(j)] = IF Ends(g) /\ AllSoFar(f, j) THEN Append(got, new) ELSE got
  BY FoundAt
<1>2. PiecesAt(f, j) = IF Ends(g) \/ ~AllSoFar(f, j) THEN {} ELSE new
  BY DEF PiecesAt
<1>3. j \in SoFar(j) /\ SoFar(j) \subseteq 1 .. j
  BY SoFarFacts
<1>4. ASSUME Begins(g) PROVE before = {} /\ AllSoFar(f, j) /\ new = {g}
  <2>1. j = 1 \/ Ends(fragments[j - 1])
    BY <1>4, CountFacts
  <2>2. before = {}
    BY <2>1 DEF PiecesAt
  <2>3. SoFar(j) = {j}
    BY <1>4, SoFarFacts
  <2>. QED  BY <2>2, <2>3 DEF AllSoFar
<1>5. ASSUME ~Begins(g)
      PROVE  /\ before = {} => ~AllSoFar(f, j) /\ \E i \in 1 .. j - 1 : ~Readable(f, i)
             /\ before # {} => AllSoFar(f, j) /\ new = before \cup {g}
  <2>1. j # 1 /\ ~Ends(fragments[j - 1])
    BY <1>5, CountFacts
  <2>2. j - 1 \in 1 .. Len(fragments) /\ j - 1 # 0
    BY <2>1, Order
  <2>3. SoFar(j) = SoFar(j - 1) \cup {j}
    BY <1>5, SoFarFacts
  <2>4. j - 1 \in SoFar(j - 1) /\ SoFar(j - 1) \subseteq 1 .. j - 1
    BY <2>2, SoFarFacts
  <2>5. before = IF AllSoFar(f, j - 1) THEN {fragments[i] : i \in SoFar(j - 1)} ELSE {}
    BY <2>1, <2>2 DEF PiecesAt
  <2>6. AllSoFar(f, j) <=> AllSoFar(f, j - 1)
    BY <2>3 DEF AllSoFar
  <2>7. before = {} <=> ~AllSoFar(f, j - 1)
    BY <2>4, <2>5
  <2>8. ASSUME ~AllSoFar(f, j - 1) PROVE \E i \in 1 .. j - 1 : ~Readable(f, i)
    BY <2>4, <2>8 DEF AllSoFar
  <2>9. ASSUME AllSoFar(f, j - 1) PROVE new = before \cup {g}
    BY <2>3, <2>5, <2>9
  <2>. QED  BY <2>6, <2>7, <2>8, <2>9
<1>. HIDE DEF g, before, got, new
<1>6. CASE g.type = "full"
  <2>1. Begins(g) /\ Ends(g)
    BY <1>6 DEF Begins, Ends
  <2>2. PiecesAt(f, j) = {} /\ u[Count(j)] = Append(got, {g})
    BY <2>1, <1>1, <1>2, <1>4
  <2>. QED  BY <2>1, <2>2, <1>4, <1>6 DEF g, before, got
<1>7. CASE g.type = "first"
  <2>1. Begins(g) /\ ~Ends(g)
    BY <1>7 DEF Begins, Ends
  <2>2. PiecesAt(f, j) = {g} /\ u[Count(j)] = got
    BY <2>1, <1>1, <1>2, <1>4
  <2>. QED  BY <2>1, <2>2, <1>4, <1>7 DEF g, before, got
<1>8. CASE g.type = "middle"
  <2>1. ~Begins(g) /\ ~Ends(g)
    BY <1>8 DEF Begins, Ends
  <2>2. /\ PiecesAt(f, j) = IF before = {} THEN {} ELSE before \cup {g}
        /\ u[Count(j)] = got
    BY <2>1, <1>1, <1>2, <1>5
  <2>. QED  BY <2>1, <2>2, <1>5, <1>8 DEF g, before, got
<1>9. CASE g.type = "last"
  <2>1. ~Begins(g) /\ Ends(g)
    BY <1>9 DEF Begins, Ends
  <2>2. /\ PiecesAt(f, j) = {}
        /\ u[Count(j)] = IF before = {} THEN got ELSE Append(got, before \cup {g})
    BY <2>1, <1>1, <1>2, <1>5
  <2>. QED  BY <2>1, <2>2, <1>5, <1>9 DEF g, before, got
<1>10. g.type \in FragmentType
  BY Order, FragmentFacts DEF g
<1>. QED  BY <1>6, <1>7, <1>8, <1>9, <1>10 DEF FragmentType

-----------------------------------------------------------------------------
(* The log: one turn of the reader.                                         *)

\* The reader goes on at a place, with these pieces and records.
GoesOnWith(v, x, pieces, got) ==
  /\ v \in ReaderState /\ v.at = x.at /\ v.buffered = x.buffered /\ v.eof = x.eof /\ ~v.done
  /\ v.pieces = pieces /\ v.found = got /\ (v.resyncing => v.pieces = {})
  /\ v.reports >= x.reports

Resynced(x) == [x EXCEPT !.resyncing = FALSE]

Begun(r) == IF \E d \in r.pieces : d.length > 0 THEN 1 ELSE 0

\* An error keeps the place and the records found.
LEMMA ForgetsIs ==
  ASSUME NEW x \in ReaderState, ~x.done, NEW n \in Nat
  PROVE  /\ GoesOnWith(Forgets(Resynced(x), n), x, {}, x.found)
         /\ Forgets(Resynced(x), n).reports = x.reports + n
         /\ GoesOnWith(Resynced(x), x, x.pieces, x.found)
         /\ Resynced(x).reports = x.reports
<1>1. x.reports \in Nat /\ x.reports + n \in Nat /\ x.reports + n >= x.reports
  BY DEF ReaderState
<1>2. /\ GoesOnWith(Resynced(x), x, x.pieces, x.found) /\ Resynced(x).reports = x.reports
      /\ ~Resynced(x).resyncing
  <2>. DEFINE v == [x EXCEPT !.resyncing = FALSE]
  <2>1. Resynced(x) = v
    BY DEF Resynced
  <2>2. /\ v \in ReaderState /\ v.at = x.at /\ v.buffered = x.buffered /\ v.eof = x.eof
        /\ v.done = x.done /\ v.pieces = x.pieces /\ v.found = x.found
        /\ v.reports = x.reports /\ v.resyncing = FALSE
    BY DEF ReaderState
  <2>. HIDE DEF v
  <2>3. v.reports >= x.reports
    BY <1>1, <2>2
  <2>. QED  BY <2>1, <2>2, <2>3 DEF GoesOnWith
<1>. DEFINE s == Resynced(x)
            v == [s EXCEPT !.reports = @ + n, !.pieces = {}]
<1>3. Forgets(s, n) = v
  BY DEF Forgets
<1>4. /\ s \in ReaderState /\ s.at = x.at /\ s.buffered = x.buffered /\ s.eof = x.eof
      /\ ~s.done /\ s.found = x.found /\ s.reports = x.reports /\ ~s.resyncing
  BY <1>2 DEF GoesOnWith
<1>. HIDE DEF s
<1>5. /\ v \in ReaderState /\ v.at = s.at /\ v.buffered = s.buffered /\ v.eof = s.eof
      /\ ~v.done /\ v.pieces = {} /\ v.found = s.found /\ v.reports = s.reports + n
      /\ ~v.resyncing
  BY <1>1, <1>4 DEF ReaderState
<1>. HIDE DEF v
<1>6. GoesOnWith(v, x, {}, x.found) /\ v.reports = x.reports + n
  BY <1>1, <1>4, <1>5 DEF GoesOnWith
<1>. QED  BY <1>2, <1>3, <1>6 DEF s

\* A record that is whole is put with those before.
WithRecord(t, pieces) == [t EXCEPT !.found = Append(@, pieces), !.pieces = {}]

LEMMA WithRecordIs ==
  ASSUME NEW x, NEW P, NEW R, NEW t, GoesOnWith(t, x, P, R), NEW pieces \in SUBSET ToSet(fragments)
  PROVE  /\ GoesOnWith(WithRecord(t, pieces), x, {}, Append(R, pieces))
         /\ WithRecord(t, pieces).reports = t.reports
<1>. DEFINE v == [t EXCEPT !.found = Append(@, pieces), !.pieces = {}]
<1>1. t \in ReaderState /\ t.found = R
  BY DEF GoesOnWith
<1>2. Append(t.found, pieces) \in Seq(SUBSET ToSet(fragments))
  BY <1>1 DEF ReaderState
<1>3. /\ v \in ReaderState /\ v.at = t.at /\ v.buffered = t.buffered /\ v.eof = t.eof
      /\ v.done = t.done /\ v.pieces = {} /\ v.found = Append(R, pieces) /\ v.reports = t.reports
  BY <1>1, <1>2 DEF ReaderState
<1>4. WithRecord(t, pieces) = v
  BY DEF WithRecord
<1>. HIDE DEF v
<1>. QED  BY <1>3, <1>4 DEF GoesOnWith

WithPieces(t, pieces) == [t EXCEPT !.pieces = pieces]

LEMMA WithPiecesIs ==
  ASSUME NEW x, NEW P, NEW R, NEW t, GoesOnWith(t, x, P, R), ~t.resyncing,
         NEW pieces \in SUBSET ToSet(fragments)
  PROVE  /\ GoesOnWith(WithPieces(t, pieces), x, pieces, R)
         /\ WithPieces(t, pieces).reports = t.reports
<1>. DEFINE v == [t EXCEPT !.pieces = pieces]
<1>1. t \in ReaderState
  BY DEF GoesOnWith
<1>2. /\ v \in ReaderState /\ v.at = t.at /\ v.buffered = t.buffered /\ v.eof = t.eof
      /\ v.done = t.done /\ v.pieces = pieces /\ v.found = t.found /\ v.reports = t.reports
      /\ v.resyncing = t.resyncing
  BY <1>1 DEF ReaderState
<1>3. WithPieces(t, pieces) = v
  BY DEF WithPieces
<1>. HIDE DEF v
<1>. QED  BY <1>2, <1>3 DEF GoesOnWith

\* The cases of ReadRecord.
LEMMA ReadFragmentIs ==
  ASSUME NEW f, NEW r, ~r.done
  PROVE  LET p == ReadPhysicalRecord(f, r)
             x == p.reader
             g == FragmentAt(Refill(f, r).at)
             v == ReadFragment(f, r)
             inRecord == r.pieces # {}
         IN /\ p.type = "eof" => v = [Resynced(x) EXCEPT !.done = TRUE]
            /\ p.type = "bad" => v = Forgets(Resynced(x), IF inRecord THEN 1 ELSE 0)
            /\ p.type = "full" => v = WithRecord(Forgets(Resynced(x), Begun(r)), {g})
            /\ p.type = "first" => v = WithPieces(Forgets(Resynced(x), Begun(r)), {g})
            /\ p.type = "middle" =>
                 v = IF r.resyncing THEN x
                     ELSE IF inRecord THEN WithPieces(Resynced(x), Resynced(x).pieces \cup {g})
                          ELSE Forgets(Resynced(x), 1)
            /\ p.type = "last" =>
                 v = IF r.resyncing THEN Resynced(x)
                     ELSE IF inRecord THEN WithRecord(Resynced(x), r.pieces \cup {g})
                          ELSE Forgets(Resynced(x), 1)
<1>. DEFINE p == ReadPhysicalRecord(f, r)
            x == p.reader
            g == FragmentAt(Refill(f, r).at)
            s == Resynced(x)
            inRecord == r.pieces # {}
            begun == Begun(r)
<1>1. ReadFragment(f, r) =
        CASE p.type = "eof" -> [s EXCEPT !.done = TRUE]
          [] p.type = "bad" -> Forgets(s, IF inRecord THEN 1 ELSE 0)
          [] p.type = "full" -> WithRecord(Forgets(s, begun), {g})
          [] p.type = "first" -> WithPieces(Forgets(s, begun), {g})
          [] p.type = "middle" ->
               IF r.resyncing THEN x
               ELSE IF inRecord THEN WithPieces(s, s.pieces \cup {g}) ELSE Forgets(s, 1)
          [] p.type = "last" ->
               IF r.resyncing THEN s
               ELSE IF inRecord THEN WithRecord(s, r.pieces \cup {g}) ELSE Forgets(s, 1)
  BY Zenon DEF ReadFragment, Resynced, Begun, WithRecord, WithPieces
<1>. HIDE DEF p, x, g, s, inRecord, begun
<1>2. /\ p.type = "eof" => ReadFragment(f, r) = [s EXCEPT !.done = TRUE]
      /\ p.type = "bad" => ReadFragment(f, r) = Forgets(s, IF inRecord THEN 1 ELSE 0)
      /\ p.type = "full" => ReadFragment(f, r) = WithRecord(Forgets(s, begun), {g})
      /\ p.type = "first" => ReadFragment(f, r) = WithPieces(Forgets(s, begun), {g})
      /\ p.type = "middle" =>
           ReadFragment(f, r) = IF r.resyncing THEN x
                ELSE IF inRecord THEN WithPieces(s, s.pieces \cup {g}) ELSE Forgets(s, 1)
      /\ p.type = "last" =>
           ReadFragment(f, r) = IF r.resyncing THEN s
                ELSE IF inRecord THEN WithRecord(s, r.pieces \cup {g}) ELSE Forgets(s, 1)
  BY <1>1
<1>. QED  BY <1>2, Zenon DEF p, x, g, s, inRecord, begun

Undamaged(f) == f.initial = 0 /\ f.damaged = {} /\ f.wrong = {}

\* The reader when it has read or passed k fragments: what it found is u up to there.
Reading(f, u, r, k) ==
  /\ r \in ReaderState /\ k \in 0 .. Len(fragments) /\ r.found = u[Count(k)]
  /\ Undamaged(f) => r.reports = 0 /\ \A j \in 1 .. k : Readable(f, j)
  /\ f.initial = 0 /\ f.wrong = {} => \A j \in 1 .. k : Bad(f, j) => r.reports > 0
  /\ r.done => \A j \in k + 1 .. Len(fragments) : f.end < Past(fragments[j])
  /\ ~r.done => /\ Place(f, r.at, r.buffered, r.eof, k)
                /\ r.pieces = PiecesAt(f, k) /\ (r.resyncing => r.pieces = {})

LEMMA SameRecordTwice ==
  ASSUME NEW r, NEW b, NEW x, SameRecord(r, b), SameRecord(b, x)
  PROVE  SameRecord(r, x)
BY DEF SameRecord

\* The last turn, at the end of the file or at a fragment that it cuts.
LEMMA TurnEof ==
  ASSUME LogInv, NEW f, NEW u, AreKept(u, Complete(f)), NEW r, NEW k, Reading(f, u, r, k),
         ~r.done, NEW b, SameRecord(r, b), b.reports = r.reports,
         ReadPhysicalRecord(f, r) = Parse(f, b), ReadsEof(f, b, Parse(f, b), k)
  PROVE  \E m \in k .. Len(fragments) :
           Reading(f, u, ReadFragment(f, r), m) /\ ReadFragment(f, r).done
<1>. DEFINE n == Len(fragments)
            x == Parse(f, b).reader
            s == Resynced(x)
            v == [s EXCEPT !.done = TRUE]
<1>1. /\ Parse(f, b).type = "eof" /\ x \in ReaderState /\ x.reports = r.reports
      /\ SameRecord(b, x)
  BY DEF ReadsEof
<1>2. PICK m \in k .. n :
        /\ \A j \in k + 1 .. m : ~Readable(f, j)
        /\ \A j \in m + 1 .. n : f.end < Past(fragments[j])
        /\ m = k \/ f.wrong # {}
  BY DEF ReadsEof
<1>3. ReadFragment(f, r) = v
  <2>. DEFINE q == ReadPhysicalRecord(f, r)
  <2>1. q.type = "eof" => ReadFragment(f, r) = [Resynced(q.reader) EXCEPT !.done = TRUE]
    BY ReadFragmentIs, Zenon
  <2>2. q = Parse(f, b)
    OBVIOUS
  <2>. HIDE DEF q
  <2>. QED  BY <2>1, <2>2, <1>1
<1>4. SameRecord(r, x)
  BY <1>1, SameRecordTwice
<1>5. /\ k \in 0 .. n /\ r.found = u[Count(k)] /\ n \in Nat
      /\ Undamaged(f) => r.reports = 0 /\ \A j \in 1 .. k : Readable(f, j)
      /\ f.initial = 0 /\ f.wrong = {} => \A j \in 1 .. k : Bad(f, j) => r.reports > 0
  BY Order DEF Reading
<1>. HIDE DEF x
<1>6. s \in ReaderState /\ s.found = r.found /\ s.reports = r.reports
  <2>1. ~x.done /\ x.found = r.found
    BY <1>4 DEF SameRecord
  <2>2. GoesOnWith(s, x, x.pieces, x.found) /\ s.reports = x.reports
    BY <1>1, <2>1, ForgetsIs
  <2>. QED  BY <1>1, <2>1, <2>2 DEF GoesOnWith
<1>. HIDE DEF s
<1>7. v \in ReaderState /\ v.found = r.found /\ v.reports = r.reports /\ v.done
  BY <1>6 DEF ReaderState
<1>8. v.found = u[Count(m)]
  BY <1>2, <1>5, <1>7, NoneRead
<1>9. m \in 0 .. n
  BY <1>2, <1>5
<1>. HIDE DEF v
<1>10. Undamaged(f) => v.reports = 0 /\ \A j \in 1 .. m : Readable(f, j)
  BY <1>2, <1>5, <1>7 DEF Undamaged
<1>11. f.initial = 0 /\ f.wrong = {} => \A j \in 1 .. m : Bad(f, j) => v.reports > 0
  BY <1>2, <1>5, <1>7
<1>12. Reading(f, u, v, m)
  BY <1>2, <1>7, <1>8, <1>9, <1>10, <1>11 DEF Reading
<1>. QED  BY <1>2, <1>3, <1>7, <1>12

\* A turn at a fragment that is bad, or before the offset.
LEMMA TurnBad ==
  ASSUME LogInv, NEW f, NEW u, AreKept(u, Complete(f)), NEW r, NEW k, Reading(f, u, r, k),
         ~r.done, NEW b, SameRecord(r, b), b.reports = r.reports,
         ReadPhysicalRecord(f, r) = Parse(f, b), ReadsBad(f, b, Parse(f, b), k)
  PROVE  \E m \in k + 1 .. Len(fragments) : Reading(f, u, ReadFragment(f, r), m)
<1>. DEFINE n == Len(fragments)
            x == Parse(f, b).reader
            lost == IF r.pieces # {} THEN 1 ELSE 0
            v == Forgets(Resynced(x), lost)
<1>1. /\ Parse(f, b).type = "bad" /\ x \in ReaderState /\ SameRecord(b, x)
      /\ f.initial = 0 => x.reports > 0 /\ Bad(f, k + 1)
  BY DEF ReadsBad
<1>2. PICK m \in k + 1 .. n :
        /\ \A j \in k + 1 .. m : ~Readable(f, j)
        /\ Place(f, x.at, x.buffered, x.eof, m)
  BY DEF ReadsBad
<1>3. ReadFragment(f, r) = v
  <2>. DEFINE q == ReadPhysicalRecord(f, r)
  <2>1. q.type = "bad" => ReadFragment(f, r) = Forgets(Resynced(q.reader), lost)
    BY ReadFragmentIs, Zenon
  <2>2. q = Parse(f, b)
    OBVIOUS
  <2>. HIDE DEF q, lost
  <2>. QED  BY <2>1, <2>2, <1>1
<1>4. SameRecord(r, x)
  BY <1>1, SameRecordTwice
<1>5. k \in 0 .. n /\ r.found = u[Count(k)] /\ n \in Nat
  BY Order DEF Reading
<1>. HIDE DEF x
<1>6. ~x.done /\ x.found = r.found
  BY <1>4 DEF SameRecord
<1>7. lost \in Nat
  OBVIOUS
<1>. HIDE DEF lost
<1>8. GoesOnWith(v, x, {}, x.found)
  BY <1>1, <1>6, <1>7, ForgetsIs
<1>. HIDE DEF v
<1>9. m \in k .. n /\ m # k /\ m \in 0 .. n
  BY <1>2, <1>5
<1>10. u[Count(m)] = u[Count(k)] /\ PiecesAt(f, m) = {}
  BY <1>2, <1>5, <1>9, NoneRead
<1>11. ~Undamaged(f)
  BY <1>1 DEF Undamaged, Bad
<1>12. f.initial = 0 => v.reports > 0
  <2>1. x.reports \in Nat /\ v.reports \in Nat
    BY <1>1, <1>8 DEF ReaderState, GoesOnWith
  <2>2. v.reports >= x.reports
    BY <1>8 DEF GoesOnWith
  <2>. QED  BY <1>1, <2>1, <2>2
<1>13. /\ v \in ReaderState /\ v.found = u[Count(m)] /\ ~v.done
       /\ Place(f, v.at, v.buffered, v.eof, m)
       /\ v.pieces = PiecesAt(f, m) /\ (v.resyncing => v.pieces = {})
  BY <1>2, <1>5, <1>6, <1>8, <1>10 DEF GoesOnWith
<1>14. Reading(f, u, v, m)
  BY <1>9, <1>11, <1>12, <1>13 DEF Reading
<1>. QED  BY <1>2, <1>3, <1>14

\* A turn that reads a fragment.
LEMMA TurnFragment ==
  ASSUME LogInv, NEW f, NEW u, AreKept(u, Complete(f)), NEW r, NEW k, Reading(f, u, r, k),
         ~r.done, SameRecord(r, Refill(f, r)), Refill(f, r).reports = r.reports,
         Refill(f, r).at = fragments[k + 1].at,
         ReadsFragment(f, Refill(f, r), Parse(f, Refill(f, r)), k)
  PROVE  k + 1 \in 1 .. Len(fragments) /\ Reading(f, u, ReadFragment(f, r), k + 1)
<1>. DEFINE n == Len(fragments)
            b == Refill(f, r)
            p == Parse(f, b)
            x == p.reader
            j == k + 1
            g == fragments[j]
            v == ReadFragment(f, r)
<1>1. /\ j \in 1 .. n /\ Readable(f, j) /\ ~Bad(f, j)
      /\ p.type = g.type /\ x \in ReaderState /\ SameRecord(b, x) /\ x.reports = r.reports
      /\ Place(f, x.at, x.buffered, x.eof, j)
  BY DEF ReadsFragment
<1>2. k \in 0 .. n /\ j - 1 = k /\ k \in Nat /\ n \in Nat
  <2>1. k \in 0 .. n /\ n \in Nat
    BY Order DEF Reading
  <2>. QED  BY <2>1
<1>3. SameRecord(r, x)
  BY <1>1, SameRecordTwice
<1>4. /\ r.found = u[Count(k)] /\ r.pieces = PiecesAt(f, k) /\ (r.resyncing => r.pieces = {})
      /\ Undamaged(f) => r.reports = 0 /\ \A i \in 1 .. k : Readable(f, i)
      /\ f.initial = 0 /\ f.wrong = {} => \A i \in 1 .. k : Bad(f, i) => r.reports > 0
  BY DEF Reading
<1>5. FragmentAt(b.at) = g
  BY <1>1, FragmentAtIs
<1>6. g \in ToSet(fragments) /\ g.type \in FragmentType
  <2>1. DOMAIN fragments = 1 .. n
    BY DEF LogInv, Laid
  <2>2. g \in Fragment
    BY <1>1, Order
  <2>3. g.type \in FragmentType
    BY <2>2, FragmentFacts
  <2>. QED  BY <2>1, <2>3, <1>1 DEF ToSet
<1>7. ReadPhysicalRecord(f, r) = p
  BY DEF ReadPhysicalRecord
<1>8. /\ p.type = "full" => v = WithRecord(Forgets(Resynced(x), Begun(r)), {g})
      /\ p.type = "first" => v = WithPieces(Forgets(Resynced(x), Begun(r)), {g})
      /\ p.type = "middle" =>
           v = IF r.resyncing THEN x
               ELSE IF r.pieces # {} THEN WithPieces(Resynced(x), Resynced(x).pieces \cup {g})
                    ELSE Forgets(Resynced(x), 1)
      /\ p.type = "last" =>
           v = IF r.resyncing THEN Resynced(x)
               ELSE IF r.pieces # {} THEN WithRecord(Resynced(x), r.pieces \cup {g})
                    ELSE Forgets(Resynced(x), 1)
  <2>. DEFINE q == ReadPhysicalRecord(f, r)
              h == FragmentAt(Refill(f, r).at)
  <2>1. /\ q.type = "full" => v = WithRecord(Forgets(Resynced(q.reader), Begun(r)), {h})
        /\ q.type = "first" => v = WithPieces(Forgets(Resynced(q.reader), Begun(r)), {h})
        /\ q.type = "middle" =>
             v = IF r.resyncing THEN q.reader
                 ELSE IF r.pieces # {}
                      THEN WithPieces(Resynced(q.reader), Resynced(q.reader).pieces \cup {h})
                      ELSE Forgets(Resynced(q.reader), 1)
        /\ q.type = "last" =>
             v = IF r.resyncing THEN Resynced(q.reader)
                 ELSE IF r.pieces # {} THEN WithRecord(Resynced(q.reader), r.pieces \cup {h})
                      ELSE Forgets(Resynced(q.reader), 1)
    BY ReadFragmentIs, Zenon
  <2>2. q = p /\ h = g
    BY <1>5, <1>7
  <2>. HIDE DEF q, h, p, g, v
  <2>. QED  BY <2>1, <2>2 DEF x
<1>. HIDE DEF p, x, v, b
<1>9. /\ ~x.done /\ x.found = r.found /\ x.pieces = r.pieces /\ x.resyncing = r.resyncing
  BY <1>3 DEF SameRecord
<1>10. /\ Begun(r) \in Nat /\ (r.pieces = {} => Begun(r) = 0)
       /\ r.pieces \in SUBSET ToSet(fragments) /\ r.reports \in Nat
  BY DEF Begun, Reading, ReaderState
<1>. DEFINE before == PiecesAt(f, k)
            got == u[Count(k)]
            calm == Undamaged(f) => v.reports = x.reports
            F0 == Forgets(Resynced(x), Begun(r))
            F1 == Forgets(Resynced(x), 1)
            s == Resynced(x)
\* What Forgets and Resynced do.
<1>11. /\ GoesOnWith(F0, x, {}, got) /\ F0.reports = x.reports + Begun(r)
       /\ GoesOnWith(F1, x, {}, got) /\ ~F0.resyncing
       /\ GoesOnWith(s, x, before, got) /\ s.reports = x.reports /\ s.pieces = before
       /\ ~s.resyncing
  <2>1. /\ GoesOnWith(F0, x, {}, x.found) /\ F0.reports = x.reports + Begun(r)
    BY <1>1, <1>9, <1>10, ForgetsIs
  <2>2. GoesOnWith(F1, x, {}, x.found)
    BY <1>1, <1>9, ForgetsIs
  <2>3. GoesOnWith(s, x, x.pieces, x.found) /\ s.reports = x.reports
    BY <1>1, <1>9, ForgetsIs
  <2>4. ~s.resyncing /\ s \in ReaderState
    BY <1>1 DEF Resynced, ReaderState
  <2>5. ~F0.resyncing
    <3>. HIDE DEF s
    <3>1. F0 = [s EXCEPT !.reports = @ + Begun(r), !.pieces = {}]
      BY DEF s, Forgets
    <3>. HIDE DEF F0
    <3>. QED  BY <3>1, <2>4 DEF ReaderState
  <2>. HIDE DEF F0, F1, s
  <2>. QED  BY <2>1, <2>2, <2>3, <2>4, <2>5, <1>4, <1>9 DEF GoesOnWith
<1>12. LET gg == fragments[j]
           bb == PiecesAt(f, j - 1)
           ff == u[Count(j - 1)]
       IN /\ Begins(gg) => bb = {}
          /\ ~Begins(gg) /\ bb = {} => \E i \in 1 .. j - 1 : ~Readable(f, i)
          /\ gg.type = "full" => PiecesAt(f, j) = {} /\ u[Count(j)] = Append(ff, {gg})
          /\ gg.type = "first" => PiecesAt(f, j) = {gg} /\ u[Count(j)] = ff
          /\ gg.type = "middle" =>
               /\ PiecesAt(f, j) = IF bb = {} THEN {} ELSE bb \cup {gg}
               /\ u[Count(j)] = ff
          /\ gg.type = "last" =>
               /\ PiecesAt(f, j) = {}
               /\ u[Count(j)] = IF bb = {} THEN ff ELSE Append(ff, bb \cup {gg})
  BY <1>1, ReadOn
<1>13. /\ Begins(g) => before = {}
       /\ ~Begins(g) /\ before = {} => \E i \in 1 .. k : ~Readable(f, i)
       /\ g.type = "full" => PiecesAt(f, j) = {} /\ u[Count(j)] = Append(got, {g})
       /\ g.type = "first" => PiecesAt(f, j) = {g} /\ u[Count(j)] = got
       /\ g.type = "middle" =>
            /\ PiecesAt(f, j) = IF before = {} THEN {} ELSE before \cup {g}
            /\ u[Count(j)] = got
       /\ g.type = "last" =>
            /\ PiecesAt(f, j) = {}
            /\ u[Count(j)] = IF before = {} THEN got ELSE Append(got, before \cup {g})
  BY <1>2, <1>12
<1>14. ~Begins(g) /\ Undamaged(f) => before # {}
  BY <1>4, <1>13
<1>15. x.reports \in Nat
  BY <1>1 DEF ReaderState
<1>. HIDE DEF g, before, got, F0, F1, s
\* The state after the turn.
<1>17. GoesOnWith(v, x, PiecesAt(f, j), u[Count(j)]) /\ calm
  <2>1. CASE g.type = "full"
    <3>1. Begins(g) /\ v = WithRecord(F0, {g}) /\ {g} \in SUBSET ToSet(fragments)
      BY <1>1, <1>6, <1>8, <2>1 DEF Begins, F0
    <3>2. /\ GoesOnWith(WithRecord(F0, {g}), x, {}, Append(got, {g}))
          /\ WithRecord(F0, {g}).reports = F0.reports
      BY <1>11, <3>1, WithRecordIs
    <3>3. F0.reports = x.reports
      BY <3>1, <1>4, <1>10, <1>11, <1>13, <1>15 DEF before
    <3>. QED  BY <3>1, <3>2, <3>3, <1>13, <2>1
  <2>2. CASE g.type = "first"
    <3>1. Begins(g) /\ v = WithPieces(F0, {g}) /\ {g} \in SUBSET ToSet(fragments)
      BY <1>1, <1>6, <1>8, <2>2 DEF Begins, F0
    <3>2. /\ GoesOnWith(WithPieces(F0, {g}), x, {g}, got)
          /\ WithPieces(F0, {g}).reports = F0.reports
      BY <1>11, <3>1, WithPiecesIs
    <3>3. F0.reports = x.reports
      BY <3>1, <1>4, <1>10, <1>11, <1>13, <1>15 DEF before
    <3>. QED  BY <3>1, <3>2, <3>3, <1>13, <2>2
  <2>3. CASE g.type = "middle"
    <3>0. ~Begins(g)
      BY <2>3 DEF Begins
    <3>1. CASE r.resyncing
      <4>1. v = x /\ before = {} /\ r.pieces = before
        BY <1>1, <1>4, <1>8, <2>3, <3>1 DEF before
      <4>2. PiecesAt(f, j) = {} /\ u[Count(j)] = got
        BY <4>1, <1>13, <2>3
      <4>3. got = r.found
        BY <1>4 DEF got
      <4>. QED  BY <4>1, <4>2, <4>3, <1>1, <1>9, <1>15 DEF GoesOnWith
    <3>2. CASE ~r.resyncing /\ before # {}
      <4>1. v = WithPieces(s, before \cup {g}) /\ before \cup {g} \in SUBSET ToSet(fragments)
        BY <1>1, <1>4, <1>6, <1>8, <1>10, <1>11, <2>3, <3>2 DEF before, s
      <4>2. /\ GoesOnWith(WithPieces(s, before \cup {g}), x, before \cup {g}, got)
            /\ WithPieces(s, before \cup {g}).reports = s.reports
        BY <1>11, <4>1, WithPiecesIs
      <4>. QED  BY <4>1, <4>2, <1>11, <1>13, <2>3, <3>2
    <3>3. CASE ~r.resyncing /\ before = {}
      <4>1. v = F1
        BY <1>1, <1>4, <1>8, <2>3, <3>3 DEF before, F1
      <4>. QED  BY <4>1, <3>0, <3>3, <1>11, <1>13, <1>14, <2>3
    <3>. QED  BY <3>1, <3>2, <3>3
  <2>4. CASE g.type = "last"
    <3>0. ~Begins(g)
      BY <2>4 DEF Begins
    <3>1. CASE r.resyncing
      <4>1. v = s /\ before = {}
        BY <1>1, <1>4, <1>8, <2>4, <3>1 DEF before, s
      <4>2. PiecesAt(f, j) = {} /\ u[Count(j)] = got
        BY <4>1, <1>13, <2>4
      <4>. QED  BY <4>1, <4>2, <1>11
    <3>2. CASE ~r.resyncing /\ before # {}
      <4>1. v = WithRecord(s, before \cup {g}) /\ before \cup {g} \in SUBSET ToSet(fragments)
        BY <1>1, <1>4, <1>6, <1>8, <1>10, <2>4, <3>2 DEF before, s
      <4>2. /\ GoesOnWith(WithRecord(s, before \cup {g}), x, {}, Append(got, before \cup {g}))
            /\ WithRecord(s, before \cup {g}).reports = s.reports
        BY <1>11, <4>1, WithRecordIs
      <4>. QED  BY <4>1, <4>2, <1>11, <1>13, <2>4, <3>2
    <3>3. CASE ~r.resyncing /\ before = {}
      <4>1. v = F1
        BY <1>1, <1>4, <1>8, <2>4, <3>3 DEF before, F1
      <4>. QED  BY <4>1, <3>0, <3>3, <1>11, <1>13, <1>14, <2>4
    <3>. QED  BY <3>1, <3>2, <3>3
  <2>. QED  BY <2>1, <2>2, <2>3, <2>4, <1>6 DEF FragmentType
<1>18. /\ v \in ReaderState /\ ~v.done /\ v.found = u[Count(j)]
       /\ Place(f, v.at, v.buffered, v.eof, j)
       /\ v.pieces = PiecesAt(f, j) /\ (v.resyncing => v.pieces = {})
       /\ v.reports >= r.reports
  BY <1>1, <1>17 DEF GoesOnWith
<1>19. \A i \in 1 .. j : i \in 1 .. k \/ i = j
  BY <1>2
<1>20. Undamaged(f) => v.reports = 0 /\ \A i \in 1 .. j : Readable(f, i)
  BY <1>1, <1>4, <1>17, <1>19
<1>21. f.initial = 0 /\ f.wrong = {} => \A i \in 1 .. j : Bad(f, i) => v.reports > 0
  <2>1. v.reports \in Nat
    BY <1>18 DEF ReaderState
  <2>2. r.reports > 0 => v.reports > 0
    BY <2>1, <1>10, <1>18
  <2>. QED  BY <2>2, <1>1, <1>4, <1>19
<1>22. j \in 0 .. n
  BY <1>1
<1>23. Reading(f, u, v, j)
  BY <1>18, <1>20, <1>21, <1>22 DEF Reading
<1>. QED  BY <1>1, <1>23 DEF v

-----------------------------------------------------------------------------
(* The log: all turns of the reader.                                       *)

\* A turn reads or passes a fragment or more, or is the last.
LEMMA OneTurn ==
  ASSUME LogInv, NEW f, IsFile(f), NEW u, AreKept(u, Complete(f)), NEW r, NEW k,
         Reading(f, u, r, k)
  PROVE  \E m \in k .. Len(fragments) :
           Reading(f, u, ReadFragment(f, r), m) /\ (ReadFragment(f, r).done \/ m > k)
<1>. DEFINE n == Len(fragments)
            b == Refill(f, r)
            v == ReadFragment(f, r)
<1>1. n \in Nat /\ k \in 0 .. n /\ r \in ReaderState
  BY Order DEF Reading
<1>2. CASE r.done
  <2>1. v = r
    BY <1>2 DEF ReadFragment
  <2>2. k \in k .. n
    BY <1>1
  <2>. HIDE DEF v
  <2>3. \E m \in k .. n : Reading(f, u, v, m) /\ (v.done \/ m > k)
    BY <2>1, <2>2, <1>2
  <2>. QED  BY <2>3 DEF v
<1>3. CASE ~r.done
  <2>1. Place(f, r.at, r.buffered, r.eof, k)
    BY <1>3 DEF Reading
  <2>2. /\ b \in ReaderState /\ SameRecord(r, b) /\ b.reports = r.reports
        /\ \/ AtFragment(f, b.at, b.buffered, b.eof, k)
           \/ AtEof(f, b.at, b.buffered, b.eof, k)
    BY <1>1, <2>1, RefillIs
  <2>3. ReadPhysicalRecord(f, r) = Parse(f, b)
    BY DEF ReadPhysicalRecord
  <2>4. \/ ReadsEof(f, b, Parse(f, b), k)
        \/ ReadsBad(f, b, Parse(f, b), k)
        \/ /\ ReadsFragment(f, b, Parse(f, b), k)
           /\ b.at = fragments[k + 1].at
    <3>. HIDE DEF b
    <3>1. CASE AtFragment(f, b.at, b.buffered, b.eof, k)
      <4>1. b.at = fragments[k + 1].at
        BY <3>1 DEF AtFragment
      <4>2. \/ ReadsEof(f, b, Parse(f, b), k)
            \/ ReadsBad(f, b, Parse(f, b), k)
            \/ ReadsFragment(f, b, Parse(f, b), k)
        BY <2>2, <3>1, ParsesFragment
      <4>. QED  BY <4>1, <4>2
    <3>2. CASE AtEof(f, b.at, b.buffered, b.eof, k)
      <4>1. ReadsEof(f, b, Parse(f, b), k)
        BY <2>2, <3>2, ParsesEof
      <4>. QED  BY <4>1
    <3>. QED  BY <2>2, <3>1, <3>2
  <2>5. CASE ReadsEof(f, b, Parse(f, b), k)
    <3>. HIDE DEF b
    <3>1. \E m \in k .. Len(fragments) :
            Reading(f, u, ReadFragment(f, r), m) /\ ReadFragment(f, r).done
      BY <1>3, <2>2, <2>3, <2>5, TurnEof
    <3>. QED  BY <3>1
  <2>6. CASE ReadsBad(f, b, Parse(f, b), k)
    <3>. HIDE DEF b
    <3>1. PICK m \in k + 1 .. Len(fragments) : Reading(f, u, ReadFragment(f, r), m)
      BY <1>3, <2>2, <2>3, <2>6, TurnBad
    <3>2. m \in k .. Len(fragments) /\ m > k
      BY <1>1
    <3>. QED  BY <3>1, <3>2
  <2>7. CASE ReadsFragment(f, b, Parse(f, b), k) /\ b.at = fragments[k + 1].at
    <3>1. k + 1 \in 1 .. Len(fragments) /\ Reading(f, u, ReadFragment(f, r), k + 1)
      BY <1>3, <2>2, <2>7, TurnFragment
    <3>2. k + 1 \in k .. Len(fragments) /\ k + 1 > k
      BY <1>1, <3>1
    <3>. HIDE DEF v
    <3>. QED  BY <3>1, <3>2
  <2>. QED  BY <2>4, <2>5, <2>6, <2>7
<1>. QED  BY <1>2, <1>3

\* What is before the block where the search begins is before the offset.
LEMMA FirstBlockIs ==
  ASSUME NEW initial \in Nat
  PROVE  /\ Boundary(FirstBlock(initial))
         /\ initial = 0 => FirstBlock(initial) = 0
         /\ \A a \in Nat : a + HeaderSize <= BlockEnd(a) /\ a < FirstBlock(initial) => a < initial
<1>. DEFINE p == BlockOf(initial)
            inside == initial % BlockSize
            beyond == inside > BlockSize - (HeaderSize - 1)
<1>1. p \in Nat /\ Boundary(p) /\ p <= initial
  BY Blocks
<1>2. inside \in Nat /\ p = initial - inside
  BY LogConstants DEF BlockOf
<1>3. FirstBlock(initial) = p + (IF beyond THEN BlockSize ELSE 0)
  BY DEF FirstBlock
<1>4. Boundary(p + BlockSize)
  BY <1>1, Boundaries
<1>5. initial = 0 => p = 0 /\ inside = 0
  BY <1>1, <1>2
<1>. HIDE DEF p, inside
<1>6. initial = 0 => ~beyond
  BY <1>5, LogConstants
<1>7. Boundary(FirstBlock(initial)) /\ (initial = 0 => FirstBlock(initial) = 0)
  <2>1. CASE beyond
    BY <2>1, <1>3, <1>4, <1>6
  <2>2. CASE ~beyond
    BY <2>2, <1>1, <1>3, <1>5
  <2>. QED  BY <2>1, <2>2
<1>8. ASSUME NEW a \in Nat, a + HeaderSize <= BlockEnd(a), a < FirstBlock(initial)
      PROVE  a < initial
  <2>1. CASE ~beyond
    BY <2>1, <1>1, <1>3, <1>8
  <2>2. CASE beyond
    <3>1. a < p + BlockSize
      BY <2>2, <1>3, <1>8
    <3>2. BlockOf(a) \in Nat /\ Boundary(BlockOf(a)) /\ BlockOf(a) <= a
          /\ BlockEnd(a) = BlockOf(a) + BlockSize
      BY Blocks
    <3>3. BlockOf(a) + BlockSize <= p + BlockSize
      <4>1. BlockOf(a) < p + BlockSize
        BY <3>1, <3>2, <1>1, LogConstants
      <4>. QED  BY <4>1, <3>2, <1>4, Boundaries
    <3>4. a + HeaderSize <= p + BlockSize
      BY <3>2, <3>3, <1>1, <1>8, LogConstants
    <3>. QED  BY <2>2, <3>4, <1>1, <1>2, LogConstants
  <2>. QED  BY <2>1, <2>2
<1>. QED  BY <1>7, <1>8

\* The search begins with nothing read, and nothing of what is before can be.
LEMMA StartReads ==
  ASSUME LogInv, NEW f, IsFile(f), NEW u, AreKept(u, Complete(f))
  PROVE  \E k : Reading(f, u, Start(f), k)
<1>. DEFINE n == Len(fragments)
            p == FirstBlock(f.initial)
            s == Start(f)
<1>1. f.initial \in Nat /\ n \in Nat
  BY Order DEF IsFile
<1>2. /\ Boundary(p) /\ (f.initial = 0 => p = 0)
      /\ \A a \in Nat : a + HeaderSize <= BlockEnd(a) /\ a < p => a < f.initial
  BY <1>1, FirstBlockIs
<1>3. p \in Nat
  BY <1>2 DEF Boundary
<1>4. PICK k : Divides(p, k)
  BY <1>2, DividesAt
<1>5. k \in 0 .. n /\ \A j \in 1 .. k : fragments[j].at < p
  BY <1>4 DEF Divides
<1>6. s = [at |-> p, buffered |-> p, eof |-> FALSE, resyncing |-> f.initial > 0,
           pieces |-> {}, found |-> <<>>, reports |-> 0, done |-> FALSE]
  BY DEF Start
<1>7. (f.initial > 0) \in BOOLEAN
  BY <1>1
<1>. HIDE DEF p, s
<1>8. \A j \in 1 .. k : ~Readable(f, j)
  <2>. SUFFICES ASSUME NEW j \in 1 .. k PROVE ~Readable(f, j)
    OBVIOUS
  <2>1. j \in 1 .. n /\ fragments[j].at < p
    BY <1>1, <1>5
  <2>2. /\ fragments[j].at \in Nat /\ Past(fragments[j]) \in Nat
        /\ fragments[j].at + HeaderSize <= Past(fragments[j])
        /\ Past(fragments[j]) <= BlockEnd(fragments[j].at)
    BY <2>1, Order
  <2>3. fragments[j].at + HeaderSize <= BlockEnd(fragments[j].at)
    <3>1. BlockEnd(fragments[j].at) \in Nat
      BY <2>2, Blocks
    <3>. QED  BY <2>2, <3>1, LogConstants
  <2>4. fragments[j].at < f.initial
    BY <2>1, <2>2, <2>3, <1>2
  <2>5. ~(f.initial <= fragments[j].at)
    BY <2>2, <2>4, <1>1
  <2>. QED  BY <2>5 DEF Readable
<1>9. f.initial = 0 => k = 0
  <2>. SUFFICES ASSUME f.initial = 0, k # 0 PROVE FALSE
    OBVIOUS
  <2>1. 1 \in 1 .. k /\ 1 \in 1 .. n
    BY <1>1, <1>5
  <2>2. fragments[1].at < 0 /\ fragments[1].at \in Nat
    BY <2>1, <1>2, <1>5, Order
  <2>. QED  BY <2>2
<1>10. u[Count(k)] = <<>> /\ PiecesAt(f, k) = {}
  <2>1. 0 \in 0 .. n /\ k \in 0 .. n
    BY <1>1, <1>5
  <2>2. \A j \in 0 + 1 .. k : ~Readable(f, j)
    BY <1>8
  <2>3. u[Count(k)] = u[Count(0)] /\ (k # 0 => PiecesAt(f, k) = {})
    BY <2>1, <2>2, NoneRead
  <2>4. Count(0) = 0 /\ u[0] = <<>> /\ PiecesAt(f, 0) = {}
    BY DEF Count, AreKept, PiecesAt
  <2>. QED  BY <2>3, <2>4
<1>11. s \in ReaderState
  <2>1. <<>> \in Seq(SUBSET ToSet(fragments)) /\ {} \in SUBSET ToSet(fragments)
    OBVIOUS
  <2>. QED  BY <2>1, <1>3, <1>6, <1>7 DEF ReaderState
<1>12. Place(f, s.at, s.buffered, s.eof, k)
  <2>1. p <= p /\ p - p < HeaderSize
    BY <1>3, LogConstants
  <2>2. AtBlock(f, p, p, FALSE, k)
    BY <2>1, <1>3, <1>4 DEF AtBlock
  <2>. QED  BY <2>2, <1>6 DEF Place
<1>13. Undamaged(f) => s.reports = 0 /\ \A j \in 1 .. k : Readable(f, j)
  BY <1>6, <1>9 DEF Undamaged
<1>14. f.initial = 0 => \A j \in 1 .. k : FALSE
  BY <1>9
<1>15. s.found = <<>> /\ s.pieces = {} /\ ~s.done
  BY <1>6
<1>16. Reading(f, u, s, k)
  BY <1>5, <1>10, <1>11, <1>12, <1>13, <1>14, <1>15 DEF Reading
<1>. QED  BY <1>16 DEF s

\* All the fragments are of all the records.
LEMMA AllCounted ==
  ASSUME LogInv
  PROVE  Count(Len(fragments)) = Len(records)
<1>1. /\ Len(fragments) \in Nat /\ fragments \in Seq(Fragment)
      /\ fragments = <<>> => Len(records) = 0
      /\ fragments # <<>> => /\ Ends(fragments[Len(fragments)])
                            /\ fragments[Len(fragments)].rec = Len(records)
  BY Order DEF LogInv, Recorded, Whole, Laid
<1>2. fragments = <<>> <=> Len(fragments) = 0
  BY <1>1
<1>. QED  BY <1>1, <1>2 DEF Count

ReadTurns(t, f, N) ==
  t = [k \in 0 .. N |-> IF k = 0 THEN Start(f) ELSE ReadFragment(f, t[k - 1])]

\* The definition of Read has a function to speak of.
LEMMA ReadTurnsExist ==
  ASSUME LogInv, NEW f, IsFile(f), NEW u, AreKept(u, Complete(f)), NEW N \in Nat
  PROVE  \E t : ReadTurns(t, f, N)
<1>. DEFINE S == {r \in ReaderState : \E k : Reading(f, u, r, k)}
            go == [r \in S |-> ReadFragment(f, r)]
            start == Start(f)
<1>1. start \in S
  <2>. HIDE DEF start
  <2>1. \E k : Reading(f, u, start, k)
    BY StartReads DEF start
  <2>. QED  BY <2>1 DEF Reading
<1>2. go \in [S -> S]
  <2>. SUFFICES ASSUME NEW r \in S PROVE ReadFragment(f, r) \in S
    OBVIOUS
  <2>1. PICK k : Reading(f, u, r, k)
    OBVIOUS
  <2>2. PICK m \in k .. Len(fragments) : Reading(f, u, ReadFragment(f, r), m)
    BY <2>1, OneTurn
  <2>3. ReadFragment(f, r) \in ReaderState
    BY <2>2 DEF Reading
  <2>. QED  BY <2>2, <2>3
<1>3. PICK t : AreTurns(t, S, go, start, N)
  <2>. HIDE DEF S, go, start
  <2>. QED  BY <1>1, <1>2, Turns
<1>4. \A k \in 1 .. N : t[k] = ReadFragment(f, t[k - 1])
  <2>. SUFFICES ASSUME NEW k \in 1 .. N PROVE t[k] = ReadFragment(f, t[k - 1])
    OBVIOUS
  <2>1. k - 1 \in 0 .. N
    OBVIOUS
  <2>. HIDE DEF S
  <2>. QED  BY <1>3, <2>1 DEF AreTurns
<1>5. t = [k \in 0 .. N |-> IF k = 0 THEN start ELSE ReadFragment(f, t[k - 1])]
  <2>. HIDE DEF S, start, go
  <2>1. \A k \in 0 .. N : k # 0 => k \in 1 .. N
    OBVIOUS
  <2>. QED  BY <1>3, <1>4, <2>1 DEF AreTurns
<1>6. ReadTurns(t, f, N)
  BY <1>5 DEF ReadTurns
<1>. QED  BY <1>6

\* What is read of a file: the records of which every fragment is read.
LEMMA ReadIs ==
  ASSUME LogInv, NEW f, IsFile(f), f = File(f.end, f.initial, f.damaged, f.wrong)
  PROVE  LET r == Read(f.end, f.initial, f.damaged, f.wrong)
         IN /\ r.found = Written(Complete(f))
            /\ Undamaged(f) => r.reports = 0
            /\ f.initial = 0 /\ f.wrong = {} /\ f.end = size =>
                 \A j \in 1 .. Len(fragments) : Bad(f, j) => r.reports > 0
<1>. DEFINE n == Len(fragments)
            N == n + 1
            result == Read(f.end, f.initial, f.damaged, f.wrong)
<1>1. n \in Nat /\ N \in Nat /\ Len(records) \in Nat
  BY Order
<1>2. PICK u : AreKept(u, Complete(f)) /\ Written(Complete(f)) = u[Len(records)]
  BY <1>1, WrittenIs
<1>3. \E t : ReadTurns(t, f, N)
  BY <1>1, <1>2, ReadTurnsExist
<1>4. PICK t : /\ Read(f.end, f.initial, f.damaged, f.wrong) = t[n + 1]
               /\ t = [k \in 0 .. n + 1 |-> IF k = 0 THEN Start(f) ELSE ReadFragment(f, t[k - 1])]
  <2>1. \E t : t = [k \in 0 .. n + 1 |->
                      IF k = 0 THEN Start(File(f.end, f.initial, f.damaged, f.wrong))
                      ELSE ReadFragment(File(f.end, f.initial, f.damaged, f.wrong), t[k - 1])]
    BY <1>3, Zenon DEF ReadTurns
  <2>2. \E t : /\ Read(f.end, f.initial, f.damaged, f.wrong) = t[n + 1]
               /\ t = [k \in 0 .. n + 1 |->
                      IF k = 0 THEN Start(File(f.end, f.initial, f.damaged, f.wrong))
                      ELSE ReadFragment(File(f.end, f.initial, f.damaged, f.wrong), t[k - 1])]
    BY <2>1, Zenon DEF Read
  <2>. QED  BY <2>2
<1>5. t[0] = Start(f) /\ \A k \in 0 .. n : t[k + 1] = ReadFragment(f, t[k])
  <2>1. 0 \in 0 .. n + 1 /\ \A k \in 0 .. n : k + 1 \in 0 .. n + 1 /\ k + 1 # 0 /\ (k + 1) - 1 = k
    BY <1>1
  <2>2. \A k \in 0 .. n + 1 : t[k] = IF k = 0 THEN Start(f) ELSE ReadFragment(f, t[k - 1])
    BY <1>4
  <2>. QED  BY <2>1, <2>2
<1>. DEFINE P(d) == \E k : Reading(f, u, t[d], k) /\ (t[d].done \/ d <= k)
            D == {d \in Nat : d <= N => P(d)}
<1>6. 0 \in D
  <2>1. PICK k : Reading(f, u, Start(f), k)
    BY <1>2, StartReads
  <2>2. 0 <= k
    BY <2>1, <1>1 DEF Reading
  <2>. QED  BY <1>5, <2>1, <2>2
<1>7. ASSUME NEW d \in Nat, d \in D PROVE d + 1 \in D
  <2>. SUFFICES ASSUME d + 1 <= N PROVE P(d + 1)
    OBVIOUS
  <2>1. d <= N /\ d \in 0 .. n
    BY <1>1
  <2>2. PICK k : Reading(f, u, t[d], k) /\ (t[d].done \/ d <= k)
    BY <1>7, <2>1
  <2>3. t[d + 1] = ReadFragment(f, t[d])
    BY <1>5, <2>1
  <2>4. PICK m \in k .. n :
          Reading(f, u, ReadFragment(f, t[d]), m) /\ (ReadFragment(f, t[d]).done \/ m > k)
    BY <1>2, <2>2, OneTurn
  <2>5. k \in 0 .. n
    BY <2>2 DEF Reading
  <2>6. t[d].done => ReadFragment(f, t[d]).done
    BY DEF ReadFragment
  <2>7. ReadFragment(f, t[d]).done \/ d + 1 <= m
    BY <1>1, <2>2, <2>4, <2>5, <2>6
  <2>. QED  BY <2>3, <2>4, <2>7
<1>8. N \in D
  <2>. HIDE DEF D
  <2>. QED  BY <1>1, <1>6, <1>7, Induction
<1>9. PICK k : Reading(f, u, t[N], k) /\ (t[N].done \/ N <= k)
  <2>1. N <= N
    BY <1>1
  <2>. HIDE DEF N
  <2>. QED  BY <2>1, <1>1, <1>8
<1>10. k \in 0 .. n /\ k <= n
  BY <1>1, <1>9 DEF Reading
<1>11. result = t[N] /\ t[N].done
  BY <1>1, <1>4, <1>9, <1>10
<1>. HIDE DEF result, N
<1>12. \A j \in k + 1 .. n : f.end < Past(fragments[j])
  BY <1>9, <1>11 DEF Reading
<1>13. \A j \in k + 1 .. n : ~Readable(f, j)
  <2>. SUFFICES ASSUME NEW j \in k + 1 .. n PROVE ~Readable(f, j)
    OBVIOUS
  <2>1. j \in 1 .. n /\ f.end < Past(fragments[j])
    BY <1>1, <1>10, <1>12
  <2>2. Past(fragments[j]) \in Nat /\ f.end \in Nat
    BY <2>1, Order DEF IsFile
  <2>3. ~(Past(fragments[j]) <= f.end)
    BY <2>1, <2>2
  <2>. QED  BY <2>3 DEF Readable
<1>14. result.found = u[Count(k)] /\ u[Count(k)] = u[Count(n)]
  <2>1. n \in k .. n
    BY <1>1, <1>10
  <2>2. u[Count(n)] = u[Count(k)]
    BY <1>2, <1>10, <1>13, <2>1, NoneRead
  <2>. QED  BY <2>2, <1>9, <1>11 DEF Reading
<1>15. Count(n) = Len(records)
  BY <1>1, AllCounted
<1>16. result.found = Written(Complete(f))
  BY <1>2, <1>14, <1>15
<1>17. Undamaged(f) => result.reports = 0
  BY <1>9, <1>11 DEF Reading
<1>18. ASSUME f.initial = 0, f.wrong = {}, f.end = size, NEW j \in 1 .. n, Bad(f, j)
       PROVE  result.reports > 0
  <2>1. ~(j \in k + 1 .. n)
    <3>1. Past(fragments[j]) <= size /\ Past(fragments[j]) \in Nat /\ size \in Nat
      BY Order
    <3>2. j \in k + 1 .. n => size < Past(fragments[j])
      BY <1>12, <1>18
    <3>. QED  BY <3>1, <3>2
  <2>2. j \in 1 .. k
    BY <1>1, <1>10, <2>1
  <2>. QED  BY <1>9, <1>11, <1>18, <2>2 DEF Reading
<1>19. /\ result.found = Written(Complete(f))
       /\ Undamaged(f) => result.reports = 0
       /\ f.initial = 0 /\ f.wrong = {} /\ f.end = size =>
            \A j \in 1 .. Len(fragments) : Bad(f, j) => result.reports > 0
  BY <1>16, <1>17, <1>18
<1>. QED  BY <1>19 DEF result

-----------------------------------------------------------------------------
(* The log: what a file reads as.                                          *)

\* The records and the fragments, by their places.
LEMMA RecordsAre ==
  ASSUME LogInv
  PROVE  /\ DOMAIN records = 1 .. Len(records) /\ ToSet(fragments) = {fragments[j] : j \in 1 .. Len(fragments)}
         /\ \A i \in 1 .. Len(records) : records[i].from \in Nat /\ records[i].to \in Nat
<1>1. records \in Seq([from : Nat, to : Nat]) /\ fragments \in Seq(Fragment)
  BY DEF LogInv, Recorded, Laid
<1>2. ToSet(fragments) = {fragments[j] : j \in 1 .. Len(fragments)}
  <2>1. DOMAIN fragments = 1 .. Len(fragments)
    BY <1>1
  <2>. QED  BY <2>1 DEF ToSet
<1>3. DOMAIN records = 1 .. Len(records)
  BY <1>1
<1>4. \A i \in 1 .. Len(records) : records[i] \in [from : Nat, to : Nat]
  BY <1>1, ElementOfSeq
<1>5. \A i \in 1 .. Len(records) : records[i].from \in Nat /\ records[i].to \in Nat
  BY <1>4
<1>. QED  BY <1>2, <1>3, <1>5

\* The records that end before the cut are those with all fragments before it.
LEMMA LogCutFile == LogInv => CutFileReadsWhole
<1>. SUFFICES ASSUME LogInv, NEW end \in 0 .. size
              PROVE  LET whole == {i \in DOMAIN records : records[i].to <= end}
                         r == Read(end, 0, {}, {})
                     IN r.found = Written(whole) /\ r.reports = 0
  BY Zenon DEF CutFileReadsWhole
<1>. DEFINE f == File(end, 0, {}, {})
            whole == {i \in DOMAIN records : records[i].to <= end}
<1>1. f.end = end /\ f.initial = 0 /\ f.damaged = {} /\ f.wrong = {}
  BY DEF File
<1>2. end \in Nat /\ IsFile(f) /\ Undamaged(f) /\ f = File(f.end, f.initial, f.damaged, f.wrong)
  <2>1. size \in Nat
    BY Order
  <2>. HIDE DEF f
  <2>2. IsFile(f) /\ Undamaged(f) /\ end \in Nat
    BY <1>1, <2>1 DEF IsFile, Undamaged
  <2>. QED  BY <2>2, <1>1 DEF f
<1>. HIDE DEF f
<1>3. Read(end, 0, {}, {}).found = Written(Complete(f)) /\ Read(end, 0, {}, {}).reports = 0
  <2>1. LET r == Read(f.end, f.initial, f.damaged, f.wrong)
        IN r.found = Written(Complete(f)) /\ (Undamaged(f) => r.reports = 0)
    BY <1>2, ReadIs
  <2>. QED  BY <2>1, <1>1, <1>2
<1>4. \A j \in 1 .. Len(fragments) : Readable(f, j) <=> Past(fragments[j]) <= end
  <2>. SUFFICES ASSUME NEW j \in 1 .. Len(fragments)
                PROVE  Readable(f, j) <=> Past(fragments[j]) <= end
    OBVIOUS
  <2>1. 0 <= fragments[j].at
    BY Order
  <2>2. \A i \in 1 .. j : ~Bad(f, i)
    BY <1>1 DEF Bad
  <2>. QED  BY <1>1, <2>1, <2>2 DEF Readable
<1>5. ASSUME NEW i \in 1 .. Len(records) PROVE i \in Complete(f) <=> records[i].to <= end
  <2>1. PICK j \in 1 .. Len(fragments) : fragments[j].rec = i /\ Past(fragments[j]) = records[i].to
    BY DEF LogInv, Recorded
  <2>2. ASSUME records[i].to <= end, NEW m \in 1 .. Len(fragments), fragments[m].rec = i
        PROVE  Readable(f, m)
    <3>1. Past(fragments[m]) <= records[i].to
      BY <2>2 DEF LogInv, Recorded
    <3>2. Past(fragments[m]) \in Nat /\ records[i].to \in Nat
      BY Order, RecordsAre
    <3>3. Past(fragments[m]) <= end
      BY <2>2, <3>1, <3>2, <1>2
    <3>. QED  BY <3>3, <1>4
  <2>3. records[i].to <= end => i \in Complete(f)
    BY <2>2 DEF Complete
  <2>4. i \in Complete(f) => records[i].to <= end
    BY <2>1, <1>4 DEF Complete
  <2>. QED  BY <2>3, <2>4
<1>6. Complete(f) = whole
  <2>1. DOMAIN records = 1 .. Len(records)
    BY RecordsAre
  <2>2. Complete(f) \subseteq 1 .. Len(records)
    BY DEF Complete
  <2>. QED  BY <2>1, <2>2, <1>5
<1>. QED  BY <1>3, <1>6

\* The records that begin at the offset or after are those with all fragments there.
LEMMA LogOffset == LogInv => OffsetReadsTheRest
<1>. SUFFICES ASSUME LogInv, NEW initial \in 0 .. size
              PROVE  LET later == {i \in DOMAIN records : records[i].from >= initial}
                     IN Read(size, initial, {}, {}).found = Written(later)
  BY Zenon DEF OffsetReadsTheRest
<1>. DEFINE f == File(size, initial, {}, {})
            later == {i \in DOMAIN records : records[i].from >= initial}
<1>1. f.end = size /\ f.initial = initial /\ f.damaged = {} /\ f.wrong = {}
  BY DEF File
<1>2. initial \in Nat /\ IsFile(f) /\ f = File(f.end, f.initial, f.damaged, f.wrong)
  <2>1. size \in Nat
    BY Order
  <2>. HIDE DEF f
  <2>2. IsFile(f) /\ initial \in Nat
    BY <1>1, <2>1 DEF IsFile
  <2>. QED  BY <2>2, <1>1 DEF f
<1>. HIDE DEF f
<1>3. Read(size, initial, {}, {}).found = Written(Complete(f))
  <2>1. LET r == Read(f.end, f.initial, f.damaged, f.wrong)
        IN r.found = Written(Complete(f))
    BY <1>2, ReadIs
  <2>. QED  BY <2>1, <1>1
<1>4. \A j \in 1 .. Len(fragments) : Readable(f, j) <=> initial <= fragments[j].at
  <2>. SUFFICES ASSUME NEW j \in 1 .. Len(fragments)
                PROVE  Readable(f, j) <=> initial <= fragments[j].at
    OBVIOUS
  <2>1. Past(fragments[j]) <= size
    BY Order
  <2>2. \A i \in 1 .. j : ~Bad(f, i)
    BY <1>1 DEF Bad
  <2>. QED  BY <1>1, <2>1, <2>2 DEF Readable
<1>5. ASSUME NEW i \in 1 .. Len(records) PROVE i \in Complete(f) <=> records[i].from >= initial
  <2>1. PICK j \in 1 .. Len(fragments) : fragments[j].rec = i /\ fragments[j].at = records[i].from
    BY DEF LogInv, Recorded
  <2>2. ASSUME records[i].from >= initial, NEW m \in 1 .. Len(fragments), fragments[m].rec = i
        PROVE  Readable(f, m)
    <3>1. records[i].from <= fragments[m].at
      BY <2>2 DEF LogInv, Recorded
    <3>2. fragments[m].at \in Nat /\ records[i].from \in Nat
      BY Order, RecordsAre
    <3>3. initial <= fragments[m].at
      BY <2>2, <3>1, <3>2, <1>2
    <3>. QED  BY <3>3, <1>4
  <2>3. records[i].from >= initial => i \in Complete(f)
    BY <2>2 DEF Complete
  <2>4. i \in Complete(f) => records[i].from >= initial
    <3>1. i \in Complete(f) => initial <= records[i].from
      BY <2>1, <1>4 DEF Complete
    <3>2. records[i].from \in Nat
      BY RecordsAre
    <3>. QED  BY <3>1, <3>2, <1>2
  <2>. QED  BY <2>3, <2>4
<1>6. Complete(f) = later
  <2>1. DOMAIN records = 1 .. Len(records)
    BY RecordsAre
  <2>2. Complete(f) \subseteq 1 .. Len(records)
    BY DEF Complete
  <2>. QED  BY <2>1, <2>2, <1>5
<1>. QED  BY <1>3, <1>6

\* The records that a fragment costs.
Lost(g) == {d \in ToSet(fragments) : BlockOf(d.at) = BlockOf(g.at) /\ d.at >= g.at}

Untouched(g) == {i \in DOMAIN records : \A d \in Lost(g) : d.rec # i}

\* The records of which a fragment is lost are those that are not read.
LEMMA LostIs ==
  ASSUME LogInv, NEW f, IsFile(f), f.initial = 0, f.end = size, NEW m \in 1 .. Len(fragments),
         \A i \in 1 .. Len(fragments) : Bad(f, i) <=> fragments[i] = fragments[m]
  PROVE  Complete(f) = Untouched(fragments[m])
<1>. DEFINE F == fragments
            n == Len(F)
            g == F[m]
            lost == {d \in ToSet(F) : BlockOf(d.at) = BlockOf(g.at) /\ d.at >= g.at}
<1>1. n \in Nat /\ \A j \in 1 .. n : F[j].at \in Nat /\ Past(F[j]) \in Nat
                     /\ F[j].at + HeaderSize <= Past(F[j]) /\ Past(F[j]) <= size
  BY Order
<1>2. ASSUME NEW a \in 1 .. n, NEW b \in 1 .. n, a < b PROVE F[a].at < F[b].at
  <2>1. Past(F[a]) <= F[b].at
    BY <1>2, Order
  <2>. QED  BY <2>1, <1>1, LogConstants
<1>3. ASSUME NEW j \in 1 .. n PROVE m <= j <=> F[j].at >= g.at
  <2>1. /\ m < j => g.at < F[j].at
        /\ j < m => F[j].at < g.at
    BY <1>2
  <2>2. F[j].at \in Nat /\ g.at \in Nat /\ (m = j => F[j].at = g.at)
    BY <1>1
  <2>. HIDE DEF g
  <2>. QED  BY <2>1, <2>2
<1>4. ASSUME NEW j \in 1 .. n PROVE Readable(f, j) <=> F[j] \notin lost
  <2>1. F[j] \in ToSet(F) /\ 0 <= F[j].at /\ Past(F[j]) <= size
    BY <1>1, RecordsAre
  <2>2. Readable(f, j) <=> \A i \in 1 .. j : Bad(f, i) => BlockOf(F[i].at) # BlockOf(F[j].at)
    BY <2>1 DEF Readable
  <2>3. \A i \in 1 .. j : i \in 1 .. n /\ (Bad(f, i) <=> F[i] = g)
    BY <1>1
  <2>4. \A i \in 1 .. j : F[i] = g => i = m
    <3>. SUFFICES ASSUME NEW i \in 1 .. j, F[i] = g PROVE i = m
      OBVIOUS
    <3>1. i \in 1 .. n /\ F[i].at \in Nat
      BY <1>1, <2>3
    <3>2. ~(i < m) /\ ~(m < i)
      <4>1. (i < m => F[i].at < g.at) /\ (m < i => g.at < F[i].at)
        BY <3>1, <1>2
      <4>. QED  BY <4>1, <3>1
    <3>. QED  BY <3>1, <3>2
  <2>5. m \in 1 .. j <=> m <= j
    BY <1>1
  <2>6. F[j] \in lost <=> BlockOf(F[j].at) = BlockOf(g.at) /\ m <= j
    BY <2>1, <1>3
  <2>7. Readable(f, j) <=> (m \in 1 .. j => BlockOf(g.at) # BlockOf(F[j].at))
    <3>. HIDE DEF g
    <3>1. m \in 1 .. j => F[m] = g
      BY DEF g
    <3>. QED  BY <2>2, <2>3, <2>4, <3>1
  <2>. HIDE DEF lost, g
  <2>. QED  BY <2>5, <2>6, <2>7
<1>. HIDE DEF g
<1>5. DOMAIN records = 1 .. Len(records) /\ ToSet(F) = {F[j] : j \in 1 .. n}
  BY RecordsAre
<1>6. lost \subseteq ToSet(F)
  OBVIOUS
<1>. HIDE DEF lost
<1>7. ASSUME NEW i \in 1 .. Len(records)
      PROVE  i \in Complete(f) <=> \A d \in lost : d.rec # i
  <2>1. i \in Complete(f) <=> \A j \in 1 .. n : F[j].rec = i => Readable(f, j)
    BY DEF Complete
  <2>2. i \in Complete(f) <=> \A j \in 1 .. n : F[j].rec = i => F[j] \notin lost
    BY <2>1, <1>4
  <2>. QED  BY <2>2, <1>5, <1>6
<1>8. Complete(f) = {i \in DOMAIN records : \A d \in lost : d.rec # i}
  <2>1. Complete(f) \subseteq 1 .. Len(records)
    BY DEF Complete
  <2>. QED  BY <2>1, <1>5, <1>7
<1>. QED  BY <1>8 DEF lost, g, Lost, Untouched

\* A damaged fragment and a wrong length cost the same.
LEMMA LogDamage == LogInv => DamageIsContained
<1>. SUFFICES ASSUME LogInv, NEW g \in ToSet(fragments)
              PROVE  LET lost == {d \in ToSet(fragments) :
                                    BlockOf(d.at) = BlockOf(g.at) /\ d.at >= g.at}
                         untouched == {i \in DOMAIN records : \A d \in lost : d.rec # i}
                         checksum == Read(size, 0, {g}, {})
                     IN /\ checksum.found = Written(untouched) /\ checksum.reports > 0
                        /\ Read(size, 0, {}, {g}).found = Written(untouched)
  BY Zenon DEF DamageIsContained
<1>. DEFINE lost == {d \in ToSet(fragments) : BlockOf(d.at) = BlockOf(g.at) /\ d.at >= g.at}
            untouched == {i \in DOMAIN records : \A d \in lost : d.rec # i}
            a == File(size, 0, {g}, {})
            b == File(size, 0, {}, {g})
<1>1. PICK m \in 1 .. Len(fragments) : g = fragments[m]
  BY RecordsAre
<1>2. /\ a.end = size /\ a.initial = 0 /\ a.damaged = {g} /\ a.wrong = {}
      /\ b.end = size /\ b.initial = 0 /\ b.damaged = {} /\ b.wrong = {g}
  BY DEF File
<1>3. a = File(a.end, a.initial, a.damaged, a.wrong) /\ b = File(b.end, b.initial, b.damaged, b.wrong)
  BY <1>2
<1>. HIDE DEF a, b
<1>4. IsFile(a) /\ IsFile(b)
  <2>1. size \in Nat
    BY Order
  <2>. QED  BY <2>1, <1>2 DEF IsFile
<1>5. Complete(a) = untouched
  <2>1. Complete(a) = Untouched(fragments[m])
    <3>1. IsFile(a) /\ a.initial = 0 /\ a.end = size
      BY <1>2, <1>4
    <3>2. \A i \in 1 .. Len(fragments) : Bad(a, i) <=> fragments[i] = fragments[m]
      BY <1>1, <1>2 DEF Bad
    <3>. HIDE DEF lost, untouched
    <3>. QED  BY <3>1, <3>2, LostIs
  <2>. QED  BY <2>1, <1>1 DEF Untouched, Lost
<1>6. Complete(b) = untouched
  <2>1. Complete(b) = Untouched(fragments[m])
    <3>1. IsFile(b) /\ b.initial = 0 /\ b.end = size
      BY <1>2, <1>4
    <3>2. \A i \in 1 .. Len(fragments) : Bad(b, i) <=> fragments[i] = fragments[m]
      BY <1>1, <1>2 DEF Bad
    <3>. HIDE DEF lost, untouched
    <3>. QED  BY <3>1, <3>2, LostIs
  <2>. QED  BY <2>1, <1>1 DEF Untouched, Lost
<1>. HIDE DEF untouched
<1>7. Read(size, 0, {g}, {}).found = Written(untouched) /\ Read(size, 0, {g}, {}).reports > 0
  <2>1. LET r == Read(a.end, a.initial, a.damaged, a.wrong)
        IN /\ r.found = Written(Complete(a))
           /\ a.initial = 0 /\ a.wrong = {} /\ a.end = size =>
                \A j \in 1 .. Len(fragments) : Bad(a, j) => r.reports > 0
    BY <1>3, <1>4, ReadIs
  <2>2. Bad(a, m)
    BY <1>1, <1>2 DEF Bad
  <2>. QED  BY <2>1, <2>2, <1>2, <1>5
<1>8. Read(size, 0, {}, {g}).found = Written(untouched)
  <2>1. LET r == Read(b.end, b.initial, b.damaged, b.wrong)
        IN r.found = Written(Complete(b))
    BY <1>3, <1>4, ReadIs
  <2>. QED  BY <2>1, <1>2, <1>6
<1>. QED  BY <1>7, <1>8 DEF untouched

\* For blocks of any size and records of any lengths, also those added after the file was
\* reopened: of a file that is cut at any byte log::Reader returns the records AddRecord had
\* written whole, in order, and reports nothing.
THEOREM CutFileCorrect == LogSpec => []CutFileReadsWhole
BY LogCutFile, LogCorrect, PTL

\* From any offset log::Reader returns exactly the records that begin there or after it,
\* though it begins the search at a block and may meet the middle of a record first.
THEOREM OffsetCorrect == LogSpec => []OffsetReadsTheRest
BY LogOffset, LogCorrect, PTL

\* A fragment with a wrong checksum or a wrong length costs the records with a fragment
\* from there to the end of its block; the others are returned, none is put together from
\* pieces of two, and a wrong checksum is reported.
THEOREM DamageCorrect == LogSpec => []DamageIsContained
BY LogDamage, LogCorrect, PTL
=============================================================================
