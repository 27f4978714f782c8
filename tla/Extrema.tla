------------------------------- MODULE Extrema -------------------------------
(***************************************************************************)
(* Least and greatest elements of sets of integers: what Min and Max of    *)
(* FiniteSetsExt return, and the least number principle, with which the    *)
(* other proofs do their inductions.  And the turns of a loop, of which    *)
(* there are as many as are asked for.                                     *)
(***************************************************************************)
EXTENDS Integers, FiniteSetTheorems, FiniteSetsExt, TLAPS

\* The intervals 0 .. n are finite sets, and these are well founded by inclusion.
LEMMA LeastNatural ==
  ASSUME NEW D, D \subseteq Nat, D # {}
  PROVE  \E n \in D : \A m \in D : n <= m
<1> DEFINE T == {0 .. n : n \in D}
<1>1. T \subseteq FiniteSubsetsOf(Nat)
  <2> SUFFICES ASSUME NEW n \in D PROVE 0 .. n \in FiniteSubsetsOf(Nat)
    OBVIOUS
  <2>. QED  BY FS_Interval DEF FiniteSubsetsOf
<1>2. T # {}
  OBVIOUS
<1>3. IsWellFoundedOn(StrictSubsetOrdering(Nat), FiniteSubsetsOf(Nat))
  BY FS_StrictSubsetOrderingWellFounded
<1>4. PICK x \in T : \A y \in T : ~ (<<y, x>> \in StrictSubsetOrdering(Nat))
  BY <1>1, <1>2, <1>3, WFMin, Zenon
<1>5. PICK n \in D : x = 0 .. n
  OBVIOUS
<1>6. ASSUME NEW m \in D, m < n PROVE FALSE
  <2>1. 0 .. m \in T
    OBVIOUS
  <2>2. 0 .. m \subseteq Nat /\ 0 .. n \subseteq Nat
    OBVIOUS
  <2>3. 0 .. m # 0 .. n /\ 0 .. m \subseteq 0 .. n
    BY <1>6
  <2>4. <<0 .. m, 0 .. n>> \in StrictSubsetOrdering(Nat)
    BY <2>2, <2>3 DEF StrictSubsetOrdering
  <2>. QED  BY <2>1, <2>4, <1>4, <1>5
<1>. QED  BY <1>6

\* A set of naturals with 0 that has the next of each it has is all of them.
LEMMA Induction ==
  ASSUME NEW D, 0 \in D, \A n \in Nat : n \in D => n + 1 \in D
  PROVE  \A n \in Nat : n \in D
<1>. SUFFICES ASSUME Nat \ D # {} PROVE FALSE
  OBVIOUS
<1>1. PICK n \in Nat \ D : \A m \in Nat \ D : n <= m
  BY LeastNatural
<1>2. n - 1 \in Nat /\ n - 1 \in D /\ (n - 1) + 1 = n
  BY <1>1
<1>. QED  BY <1>1, <1>2

\* A finite set that is not empty has both: of the finite sets without, a least one would
\* still be one without after it lost an element.
LEMMA FiniteExtrema ==
  ASSUME NEW S, S \subseteq Int, S # {}, IsFiniteSet(S)
  PROVE  /\ \E x \in S : \A y \in S : y <= x
         /\ \E x \in S : \A y \in S : x <= y
<1> DEFINE Both(U) == /\ \E x \in U : \A y \in U : y <= x
                      /\ \E x \in U : \A y \in U : x <= y
           T == {U \in FiniteSubsetsOf(Int) : U # {} /\ ~Both(U)}
<1> SUFFICES ASSUME ~Both(S) PROVE FALSE
  OBVIOUS
<1>1. S \in T
  BY DEF FiniteSubsetsOf
<1>2. IsWellFoundedOn(StrictSubsetOrdering(Int), FiniteSubsetsOf(Int))
  BY FS_StrictSubsetOrderingWellFounded
<1>3. T \subseteq FiniteSubsetsOf(Int)
  OBVIOUS
<1>4. PICK U \in T : \A V \in T : ~ (<<V, U>> \in StrictSubsetOrdering(Int))
  <2>. HIDE DEF T
  <2>. QED  BY <1>1, <1>2, <1>3, WFMin
<1>5. U \subseteq Int /\ IsFiniteSet(U) /\ U # {} /\ ~Both(U)
  BY <1>4 DEF FiniteSubsetsOf
<1>6. PICK x \in U : TRUE
  BY <1>5
<1> DEFINE V == U \ {x}
<1>7. V \notin T
  <2>1. V \subseteq Int /\ V # U /\ V \subseteq U
    BY <1>5, <1>6
  <2>2. <<V, U>> \in StrictSubsetOrdering(Int)
    BY <1>5, <2>1 DEF StrictSubsetOrdering
  <2>. QED  BY <1>4, <2>2
<1>8. IsFiniteSet(V)
  BY <1>5, FS_RemoveElement
<1>9. V = {} \/ Both(V)
  BY <1>5, <1>7, <1>8 DEF FiniteSubsetsOf
<1>10. CASE V = {}
  <2>1. \A y \in U : y = x
    BY <1>10
  <2>. QED  BY <2>1, <1>5, <1>6
<1>11. CASE Both(V)
  <2>1. PICK a \in V : \A y \in V : y <= a
    BY <1>11
  <2>2. PICK b \in V : \A y \in V : b <= y
    BY <1>11
  <2>3. \E c \in U : \A y \in U : y <= c
    BY <2>1, <1>5, <1>6
  <2>4. \E c \in U : \A y \in U : c <= y
    BY <2>2, <1>5, <1>6
  <2>. QED  BY <2>3, <2>4, <1>5
<1>. QED  BY <1>9, <1>10, <1>11

LEMMA MaxOfFinite ==
  ASSUME NEW S, S \subseteq Int, S # {}, IsFiniteSet(S)
  PROVE  Max(S) \in S /\ \A y \in S : y <= Max(S)
<1>1. \E x \in S : \A y \in S : x >= y
  BY FiniteExtrema
<1>. QED  BY <1>1 DEF Max

LEMMA MinOfFinite ==
  ASSUME NEW S, S \subseteq Int, S # {}, IsFiniteSet(S)
  PROVE  Min(S) \in S /\ \A y \in S : Min(S) <= y
<1>1. \E x \in S : \A y \in S : x <= y
  BY FiniteExtrema
<1>. QED  BY <1>1 DEF Min

\* The turns of a loop, one after another.
AreTurns(t, S, f, start, N) ==
  t \in [0 .. N -> S] /\ t[0] = start /\ \A n \in 1 .. N : t[n] = f[t[n - 1]]

LEMMA Turns ==
  ASSUME NEW S, NEW f \in [S -> S], NEW start \in S, NEW N \in Nat
  PROVE  \E t : AreTurns(t, S, f, start, N)
<1>. DEFINE P(k) == \E t \in [0 .. k -> S] : t[0] = start /\ \A n \in 1 .. k : t[n] = f[t[n - 1]]
            D == {k \in Nat : P(k)}
<1>1. P(0)
  <2>. DEFINE t == [n \in 0 .. 0 |-> start]
  <2>1. t \in [0 .. 0 -> S] /\ t[0] = start /\ 1 .. 0 = {}
    OBVIOUS
  <2>. HIDE DEF t
  <2>. QED  BY <2>1
<1>2. ASSUME NEW k \in Nat, P(k) PROVE P(k + 1)
  <2>1. PICK t \in [0 .. k -> S] : t[0] = start /\ \A n \in 1 .. k : t[n] = f[t[n - 1]]
    BY <1>2
  <2>. DEFINE u == [n \in 0 .. k + 1 |-> IF n = k + 1 THEN f[t[k]] ELSE t[n]]
  <2>2. u \in [0 .. k + 1 -> S] /\ u[0] = start
    BY <2>1
  <2>3. ASSUME NEW n \in 1 .. k + 1 PROVE u[n] = f[u[n - 1]]
    <3>1. CASE n = k + 1
      BY <3>1
    <3>2. CASE n # k + 1
      <4>1. n \in 1 .. k /\ n - 1 \in 0 .. k /\ n - 1 # k + 1
        BY <3>2
      <4>. QED  BY <2>1, <3>2, <4>1
    <3>. QED  BY <3>1, <3>2
  <2>. HIDE DEF u
  <2>. QED  BY <2>2, <2>3
<1>3. N \in D
  <2>. HIDE DEF P
  <2>1. 0 \in D /\ \A k \in Nat : k \in D => k + 1 \in D
    BY <1>1, <1>2
  <2>. HIDE DEF D
  <2>. QED  BY <2>1, Induction
<1>. QED  BY <1>3 DEF AreTurns
=============================================================================
