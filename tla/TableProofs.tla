---------------------------- MODULE TableProofs -----------------------------
(***************************************************************************)
(* The iterator over a finished table implements Cursor, and InternalGet   *)
(* finds the newest entry, for any keys of any bytes, any restart interval *)
(* and any sizes of the blocks.                                            *)
(*                                                                         *)
(* The argument: the keys are totally ordered and a separator lies between *)
(* the blocks it separates.  A block holds a sorted sequence of keys, each *)
(* of them whole or after the one before, and whole at a restart point; so *)
(* the moves of its iterator are moves in that sequence.  While a table is *)
(* built its blocks are in order, the index has one separator for each and *)
(* the filters have the user keys of their blocks.  Over a finished table  *)
(* the two-level iterator is at rest on a key or on no block, and each     *)
(* call leads to the key it should.                                        *)
(***************************************************************************)
EXTENDS Table, Extrema, SequenceTheorems

Bytes == Seq(Nat)
IKey  == Seq(Nat) \ {<<>>}

-----------------------------------------------------------------------------
(* The order of strings of bytes and of internal keys.                      *)

\* Up to i they agree, and then they do not.
Differ(a, b, i) ==
  /\ i \in 0 .. Len(a) /\ i <= Len(b)
  /\ \A j \in 1 .. i : a[j] = b[j]
  /\ (i < Len(a) /\ i < Len(b)) => a[i + 1] # b[i + 1]

LEMMA CommonIs ==
  ASSUME NEW a \in Bytes, NEW b \in Bytes
  PROVE  Differ(a, b, Common(a, b))
<1>. DEFINE D == {i \in Nat : i >= Len(a) \/ i >= Len(b) \/ a[i + 1] # b[i + 1]}
<1>0. Len(a) \in Nat /\ Len(b) \in Nat
  BY DEF Bytes
<1>1. Len(a) \in D
  BY <1>0
<1>2. PICK i \in D : \A m \in D : i <= m
  <2>1. D \subseteq Nat /\ D # {}
    BY <1>1
  <2>. HIDE DEF D
  <2>. QED  BY <2>1, LeastNatural
<1>3. \A j \in 1 .. i : j - 1 \in Nat /\ (j - 1) + 1 = j /\ j - 1 \notin D
  <2>. SUFFICES ASSUME NEW j \in 1 .. i PROVE j - 1 \in Nat /\ (j - 1) + 1 = j /\ j - 1 \notin D
    OBVIOUS
  <2>1. i \in Nat /\ j \in Nat /\ j - 1 \in Nat /\ (j - 1) + 1 = j /\ ~(i <= j - 1)
    OBVIOUS
  <2>. HIDE DEF D
  <2>. QED  BY <1>2, <2>1
<1>4. i \in Nat /\ i <= Len(a) /\ i <= Len(b)
  <2>1. Len(b) \in D
    BY <1>0
  <2>. QED  BY <1>1, <1>2, <2>1
<1>5. \A j \in 1 .. i : a[j] = b[j]
  <2>. SUFFICES ASSUME NEW j \in 1 .. i PROVE a[j] = b[j]
    OBVIOUS
  <2>1. j - 1 \in Nat /\ (j - 1) + 1 = j /\ j - 1 \notin D
    BY <1>3
  <2>. QED  BY <2>1
<1>6. i \in 0 .. Len(a)
  BY <1>0, <1>4
<1>7. (i < Len(a) /\ i < Len(b)) => a[i + 1] # b[i + 1]
  BY <1>0, <1>2, <1>4
<1>8. \E n \in 0 .. Len(a) : n <= Len(b) /\ (\A j \in 1 .. n : a[j] = b[j])
                            /\ ((n < Len(a) /\ n < Len(b)) => a[n + 1] # b[n + 1])
  BY <1>4, <1>5, <1>6, <1>7
<1>. HIDE DEF D
<1>. QED  BY <1>8 DEF Common, Differ

LEMMA DifferOnce ==
  ASSUME NEW a \in Bytes, NEW b \in Bytes, NEW i, NEW j, Differ(a, b, i), Differ(a, b, j)
  PROVE  i = j
<1>0. Len(a) \in Nat /\ Len(b) \in Nat /\ i \in Nat /\ j \in Nat
  BY DEF Bytes, Differ
<1>1. ASSUME i < j PROVE FALSE
  <2>1. i + 1 \in 1 .. j
    BY <1>0, <1>1
  <2>. QED  BY <1>0, <1>1, <2>1 DEF Differ
<1>2. ASSUME j < i PROVE FALSE
  <2>1. j + 1 \in 1 .. i
    BY <1>0, <1>2
  <2>. QED  BY <1>0, <1>2, <2>1 DEF Differ
<1>. QED  BY <1>0, <1>1, <1>2

LEMMA LessIs ==
  ASSUME NEW a \in Bytes, NEW b \in Bytes, NEW i, Differ(a, b, i)
  PROVE  StringLess(a, b) <=> i < Len(b) /\ (i < Len(a) => a[i + 1] < b[i + 1])
<1>1. i = Common(a, b)
  BY CommonIs, DifferOnce
<1>. QED  BY <1>1 DEF StringLess

LEMMA StringOrder ==
  /\ \A a \in Bytes : ~StringLess(a, a)
  /\ \A a, b \in Bytes : a = b \/ StringLess(a, b) \/ StringLess(b, a)
  /\ \A a, b, c \in Bytes : StringLess(a, b) /\ StringLess(b, c) => StringLess(a, c)
<1>1. ASSUME NEW a \in Bytes PROVE ~StringLess(a, a)
  <2>1. Len(a) \in Nat
    BY DEF Bytes
  <2>2. Differ(a, a, Len(a))
    BY <2>1 DEF Differ
  <2>. QED  BY <2>1, <2>2, LessIs
<1>2. ASSUME NEW a \in Bytes, NEW b \in Bytes, a # b
      PROVE  StringLess(a, b) \/ StringLess(b, a)
  <2>0. Len(a) \in Nat /\ Len(b) \in Nat
    BY DEF Bytes
  <2>1. PICK i : i = Common(a, b)
    OBVIOUS
  <2>2. Differ(a, b, i) /\ i \in Nat
    BY <2>1, CommonIs DEF Differ
  <2>3. Differ(b, a, i)
    BY <2>0, <2>2 DEF Differ
  <2>4. CASE i < Len(a) /\ i < Len(b)
    <3>1. a[i + 1] \in Nat /\ b[i + 1] \in Nat /\ a[i + 1] # b[i + 1]
      <4>1. i + 1 \in 1 .. Len(a) /\ i + 1 \in 1 .. Len(b)
        BY <2>0, <2>2, <2>4
      <4>. QED  BY <2>2, <2>4, <4>1, ElementOfSeq DEF Bytes, Differ
    <3>. QED  BY <2>2, <2>3, <2>4, <3>1, LessIs
  <2>5. CASE i = Len(a) /\ i < Len(b)
    BY <2>0, <2>2, <2>5, LessIs
  <2>6. CASE i < Len(a) /\ i = Len(b)
    BY <2>0, <2>3, <2>6, LessIs
  <2>7. CASE i = Len(a) /\ i = Len(b)
    <3>1. a = b
      BY <2>2, <2>7, SeqEqual DEF Bytes, Differ
    <3>. QED  BY <1>2, <3>1
  <2>. QED  BY <2>0, <2>2, <2>4, <2>5, <2>6, <2>7 DEF Differ
<1>3. ASSUME NEW a \in Bytes, NEW b \in Bytes, NEW c \in Bytes,
             StringLess(a, b), StringLess(b, c)
      PROVE  StringLess(a, c)
  <2>0. Len(a) \in Nat /\ Len(b) \in Nat /\ Len(c) \in Nat
    BY DEF Bytes
  <2>1. PICK i : i = Common(a, b)
    OBVIOUS
  <2>2. PICK j : j = Common(b, c)
    OBVIOUS
  <2>3. Differ(a, b, i) /\ i \in Nat /\ Differ(b, c, j) /\ j \in Nat
    BY <2>1, <2>2, CommonIs DEF Differ
  <2>4. i <= Len(a) /\ j <= Len(b)
    BY <2>0, <2>3 DEF Differ
  <2>5. i < Len(b) /\ (i < Len(a) => a[i + 1] < b[i + 1])
    BY <1>3, <2>3, LessIs
  <2>6. j < Len(c) /\ (j < Len(b) => b[j + 1] < c[j + 1])
    BY <1>3, <2>3, LessIs
  <2>7. /\ \A n \in 1 .. Len(a) : a[n] \in Nat
        /\ \A n \in 1 .. Len(b) : b[n] \in Nat
        /\ \A n \in 1 .. Len(c) : c[n] \in Nat
    BY ElementOfSeq DEF Bytes
  <2>. DEFINE m == IF i < j THEN i ELSE j
  <2>8. m \in 0 .. Len(a) /\ m <= Len(c) /\ m < Len(c)
    BY <2>0, <2>3, <2>4, <2>6
  <2>9. \A n \in 1 .. m : a[n] = c[n]
    <3>. SUFFICES ASSUME NEW n \in 1 .. m PROVE a[n] = c[n]
      OBVIOUS
    <3>1. n \in 1 .. i /\ n \in 1 .. j
      BY <2>3
    <3>. QED  BY <2>3, <3>1 DEF Differ
  <2>10. m < Len(a) => a[m + 1] < c[m + 1]
    <3>1. CASE i < j
      <4>1. i + 1 \in 1 .. j
        BY <2>3, <3>1
      <4>2. b[i + 1] = c[i + 1]
        BY <2>3, <4>1 DEF Differ
      <4>. QED  BY <2>5, <3>1, <4>2
    <3>2. CASE i = j
      <4>. SUFFICES ASSUME i < Len(a) PROVE a[i + 1] < c[i + 1]
        BY <3>2
      <4>1. i + 1 \in 1 .. Len(a) /\ i + 1 \in 1 .. Len(b) /\ i + 1 \in 1 .. Len(c)
        BY <2>0, <2>3, <2>5, <2>6, <3>2
      <4>2. a[i + 1] \in Nat /\ b[i + 1] \in Nat /\ c[i + 1] \in Nat
        BY <2>7, <4>1
      <4>3. a[i + 1] < b[i + 1] /\ b[i + 1] < c[i + 1]
        BY <2>5, <2>6, <3>2
      <4>. QED  BY <4>2, <4>3
    <3>3. CASE j < i
      <4>1. j + 1 \in 1 .. i /\ j < Len(b)
        BY <2>0, <2>3, <2>5, <3>3
      <4>2. a[j + 1] = b[j + 1]
        BY <2>3, <4>1 DEF Differ
      <4>3. m = j
        BY <2>3, <3>3
      <4>. HIDE DEF m
      <4>. QED  BY <2>6, <4>1, <4>2, <4>3
    <3>. QED  BY <2>3, <3>1, <3>2, <3>3
  <2>11. Differ(a, c, m)
    <3>1. (m < Len(a) /\ m < Len(c)) => a[m + 1] # c[m + 1]
      <4>. SUFFICES ASSUME m < Len(a) PROVE a[m + 1] # c[m + 1]
        OBVIOUS
      <4>1. m + 1 \in 1 .. Len(a) /\ m + 1 \in 1 .. Len(c)
        BY <2>0, <2>8
      <4>2. a[m + 1] \in Nat /\ c[m + 1] \in Nat /\ a[m + 1] < c[m + 1]
        BY <2>7, <2>10, <4>1
      <4>. QED  BY <4>2
    <3>. QED  BY <2>8, <2>9, <3>1 DEF Differ
  <2>. HIDE DEF m
  <2>. QED  BY <2>8, <2>10, <2>11, LessIs
<1>. QED  BY <1>1, <1>2, <1>3

\* An internal key is a user key and a last byte.
LEMMA KeyParts ==
  ASSUME NEW k \in IKey
  PROVE  User(k) \in Bytes /\ Last(k) \in Nat /\ k = Append(User(k), Last(k))
<1>0. Len(k) \in Nat /\ Len(k) > 0 /\ k \in Seq(Nat)
  BY EmptySeq DEF IKey
<1>1. User(k) \in Bytes /\ Len(User(k)) = Len(k) - 1
      /\ \A i \in 1 .. Len(k) - 1 : User(k)[i] = k[i]
  <2>1. \A i \in 1 .. Len(k) - 1 : k[i] \in Nat
    BY <1>0
  <2>2. /\ SubSeq(k, 1, Len(k) - 1) \in Seq(Nat)
        /\ Len(SubSeq(k, 1, Len(k) - 1)) = IF 1 <= Len(k) - 1 THEN (Len(k) - 1) - 1 + 1 ELSE 0
        /\ \A i \in 1 .. (Len(k) - 1) - 1 + 1 : SubSeq(k, 1, Len(k) - 1)[i] = k[1 + i - 1]
    BY <1>0, <2>1, SubSeqProperties
  <2>3. (Len(k) - 1) - 1 + 1 = Len(k) - 1 /\ User(k) = SubSeq(k, 1, Len(k) - 1)
    BY <1>0 DEF User, Front
  <2>4. Len(User(k)) = Len(k) - 1
    BY <1>0, <2>2, <2>3
  <2>5. ASSUME NEW i \in 1 .. Len(k) - 1 PROVE User(k)[i] = k[i]
    <3>1. 1 + i - 1 = i
      BY <1>0
    <3>. QED  BY <2>2, <2>3, <3>1
  <2>. QED  BY <2>2, <2>3, <2>4, <2>5 DEF Bytes
<1>2. Last(k) = k[Len(k)] /\ Last(k) \in Nat
  BY <1>0 DEF Last
<1>3. /\ Append(User(k), Last(k)) \in Seq(Nat)
      /\ Len(Append(User(k), Last(k))) = Len(k)
      /\ \A i \in 1 .. Len(k) - 1 : Append(User(k), Last(k))[i] = k[i]
      /\ Append(User(k), Last(k))[Len(k)] = k[Len(k)]
  <2>. DEFINE u == User(k)
              n == Last(k)
  <2>1. u \in Seq(Nat) /\ n \in Nat /\ Len(u) = Len(k) - 1 /\ Len(u) + 1 = Len(k)
    BY <1>0, <1>1, <1>2 DEF Bytes
  <2>. HIDE DEF u, n
  <2>2. /\ Append(u, n) \in Seq(Nat) /\ Len(Append(u, n)) = Len(u) + 1
        /\ \A i \in 1 .. Len(u) : Append(u, n)[i] = u[i]
        /\ Append(u, n)[Len(u) + 1] = n
    BY <2>1, AppendProperties
  <2>3. \A i \in 1 .. Len(k) - 1 : Append(u, n)[i] = k[i]
    BY <1>1, <2>1, <2>2 DEF u
  <2>. QED  BY <1>2, <2>1, <2>2, <2>3 DEF u, n
<1>4. k = Append(User(k), Last(k))
  <2>1. \A i \in 1 .. Len(k) : k[i] = Append(User(k), Last(k))[i]
    <3>. SUFFICES ASSUME NEW i \in 1 .. Len(k) PROVE k[i] = Append(User(k), Last(k))[i]
      OBVIOUS
    <3>1. i \in 1 .. Len(k) - 1 \/ i = Len(k)
      BY <1>0
    <3>. QED  BY <1>3, <3>1
  <2>. QED  BY <1>0, <1>3, <2>1, SeqEqual
<1>. QED  BY <1>1, <1>2, <1>4

LEMMA AppendParts ==
  ASSUME NEW u \in Bytes, NEW n \in Nat
  PROVE  Append(u, n) \in IKey /\ User(Append(u, n)) = u /\ Last(Append(u, n)) = n
<1>1. Append(u, n) \in IKey
  BY AppendProperties DEF IKey, Bytes
<1>2. Append(u, n) = Append(User(Append(u, n)), Last(Append(u, n)))
      /\ User(Append(u, n)) \in Bytes /\ Last(Append(u, n)) \in Nat
  BY <1>1, KeyParts
<1>. QED  BY <1>1, <1>2, AppendInjective DEF Bytes

LEMMA KeyOrder ==
  /\ \A a \in IKey : ~KeyLess(a, a)
  /\ \A a, b \in IKey : a = b \/ KeyLess(a, b) \/ KeyLess(b, a)
  /\ \A a, b, c \in IKey : KeyLess(a, b) /\ KeyLess(b, c) => KeyLess(a, c)
<1>1. ASSUME NEW a \in IKey PROVE ~KeyLess(a, a)
  BY KeyParts, StringOrder DEF KeyLess
<1>2. ASSUME NEW a \in IKey, NEW b \in IKey PROVE a = b \/ KeyLess(a, b) \/ KeyLess(b, a)
  <2>1. User(a) \in Bytes /\ User(b) \in Bytes /\ Last(a) \in Nat /\ Last(b) \in Nat
        /\ a = Append(User(a), Last(a)) /\ b = Append(User(b), Last(b))
    BY KeyParts
  <2>2. User(a) = User(b) \/ StringLess(User(a), User(b)) \/ StringLess(User(b), User(a))
    BY <2>1, StringOrder
  <2>3. Last(a) = Last(b) \/ Last(a) < Last(b) \/ Last(b) < Last(a)
    BY <2>1
  <2>. QED  BY <2>1, <2>2, <2>3 DEF KeyLess
<1>3. ASSUME NEW a \in IKey, NEW b \in IKey, NEW c \in IKey, KeyLess(a, b), KeyLess(b, c)
      PROVE  KeyLess(a, c)
  <2>1. User(a) \in Bytes /\ User(b) \in Bytes /\ User(c) \in Bytes
        /\ Last(a) \in Nat /\ Last(b) \in Nat /\ Last(c) \in Nat
    BY KeyParts
  <2>2. StringLess(User(a), User(b)) /\ StringLess(User(b), User(c)) => StringLess(User(a), User(c))
    BY <2>1, StringOrder
  <2>3. Last(a) < Last(b) /\ Last(b) < Last(c) => Last(a) < Last(c)
    BY <2>1
  <2>. QED  BY <1>3, <2>2, <2>3 DEF KeyLess
<1>. QED  BY <1>1, <1>2, <1>3

\* Of three keys in order the middle one has the user key of the others if they have the same.
LEMMA SameUser ==
  ASSUME NEW a \in IKey, NEW b \in IKey, NEW c \in IKey,
         ~KeyLess(b, a), ~KeyLess(c, b), User(a) = User(c)
  PROVE  User(b) = User(a)
<1>1. User(a) \in Bytes /\ User(b) \in Bytes
  BY KeyParts
<1>2. ~StringLess(User(b), User(a)) /\ ~StringLess(User(a), User(b))
  BY DEF KeyLess
<1>. QED  BY <1>1, <1>2, StringOrder

-----------------------------------------------------------------------------
(* Separators.                                                              *)

LEMMA ShortenedIs ==
  ASSUME NEW k \in IKey, NEW user \in Bytes, MaxSequence \in Nat
  PROVE  /\ Shortened(k, user) \in IKey
         /\ \/ Shortened(k, user) = k
            \/ User(Shortened(k, user)) = user /\ StringLess(User(k), user)
<1>1. MaxSequence - MaxSequence = 0
  OBVIOUS
<1>2. InternalKey(user, MaxSequence) \in IKey /\ User(InternalKey(user, MaxSequence)) = user
  BY <1>1, AppendParts DEF InternalKey
<1>. QED  BY <1>2 DEF Shortened

\* A prefix and a byte that is one more.
LEMMA OneMore ==
  ASSUME NEW a \in Bytes, NEW i \in 0 .. Len(a) - 1
  PROVE  LET s == Append(SubSeq(a, 1, i), a[i + 1] + 1)
         IN s \in Bytes /\ Len(s) = i + 1 /\ (\A j \in 1 .. i : s[j] = a[j]) /\ s[i + 1] = a[i + 1] + 1
<1>0. Len(a) \in Nat
  BY DEF Bytes
<1>1. \A j \in 1 .. Len(a) : a[j] \in Nat
  BY ElementOfSeq DEF Bytes
<1>2. /\ SubSeq(a, 1, i) \in Seq(Nat)
      /\ Len(SubSeq(a, 1, i)) = i
      /\ \A j \in 1 .. i : SubSeq(a, 1, i)[j] = a[j]
  <2>1. \A j \in 1 .. i : a[j] \in Nat
    BY <1>0, <1>1
  <2>2. /\ SubSeq(a, 1, i) \in Seq(Nat)
        /\ Len(SubSeq(a, 1, i)) = IF 1 <= i THEN i - 1 + 1 ELSE 0
        /\ \A j \in 1 .. i - 1 + 1 : SubSeq(a, 1, i)[j] = a[1 + j - 1]
    BY <2>1, SubSeqProperties
  <2>. QED  BY <2>2
<1>3. a[i + 1] \in Nat /\ a[i + 1] + 1 \in Nat
  <2>1. i + 1 \in 1 .. Len(a)
    BY <1>0
  <2>. QED  BY <1>1, <2>1
<1>. QED  BY <1>2, <1>3, AppendProperties DEF Bytes

LEMMA SeparatorIs ==
  ASSUME MaxSequence \in Nat, NEW k \in IKey, NEW limit \in IKey, KeyLess(k, limit)
  PROVE  LET sep == FindShortestSeparator(k, limit)
         IN /\ sep \in IKey /\ ~KeyLess(sep, k) /\ KeyLess(sep, limit)
            /\ sep = k \/ StringLess(User(sep), User(limit))
<1>. DEFINE a == User(k)
            b == User(limit)
            i == Common(a, b)
            s == Append(SubSeq(a, 1, i), a[i + 1] + 1)
            sep == FindShortestSeparator(k, limit)
<1>0. a \in Bytes /\ b \in Bytes /\ Len(a) \in Nat /\ Len(b) \in Nat
  BY KeyParts DEF Bytes
<1>1. Differ(a, b, i) /\ i \in Nat
  BY <1>0, CommonIs DEF Differ
<1>2. ~KeyLess(k, k)
  BY KeyOrder
<1>3. CASE sep = k
  BY <1>2, <1>3
<1>4. CASE sep # k
  <2>1. /\ i < Len(a) /\ i < Len(b) /\ a[i + 1] + 1 < b[i + 1]
        /\ sep = Shortened(k, s)
    BY <1>4 DEF FindShortestSeparator
  <2>2. s \in Bytes /\ Len(s) = i + 1 /\ (\A j \in 1 .. i : s[j] = a[j]) /\ s[i + 1] = a[i + 1] + 1
    BY <1>0, <1>1, <2>1, OneMore
  <2>3. sep \in IKey /\ User(sep) = s /\ StringLess(a, s)
    BY <1>4, <2>1, <2>2, ShortenedIs
  <2>4. b[i + 1] \in Nat /\ a[i + 1] \in Nat
    <3>1. i + 1 \in 1 .. Len(a) /\ i + 1 \in 1 .. Len(b)
      BY <1>0, <1>1, <2>1
    <3>. QED  BY <1>0, <3>1, ElementOfSeq DEF Bytes
  <2>. HIDE DEF a, b, i, s, sep
  <2>5. Differ(s, b, i)
    BY <1>0, <1>1, <2>1, <2>2, <2>4 DEF Differ
  <2>6. StringLess(s, b)
    BY <1>0, <1>1, <2>1, <2>2, <2>4, <2>5, LessIs
  <2>7. ~StringLess(s, a) /\ s # a
    BY <1>0, <2>2, <2>3, StringOrder
  <2>8. ~KeyLess(sep, k) /\ KeyLess(sep, limit)
    BY <2>3, <2>6, <2>7 DEF KeyLess, a, b
  <2>. QED  BY <2>3, <2>6, <2>8 DEF a, b, sep
<1>. QED  BY <1>3, <1>4

LEMMA SuccessorIs ==
  ASSUME MaxSequence \in Nat, NEW k \in IKey
  PROVE  FindShortSuccessor(k) \in IKey /\ ~KeyLess(FindShortSuccessor(k), k)
<1>. DEFINE a == User(k)
            I == {i \in 1 .. Len(a) : a[i] # MaxByte}
            i == CHOOSE i \in I : \A j \in I : i <= j
            s == Append(SubSeq(a, 1, i - 1), a[i] + 1)
<1>0. a \in Bytes /\ Len(a) \in Nat
  BY KeyParts DEF Bytes
<1>1. CASE I = {}
  BY <1>1, KeyOrder DEF FindShortSuccessor
<1>2. CASE I # {}
  <2>1. FindShortSuccessor(k) = Shortened(k, s)
    BY <1>2 DEF FindShortSuccessor
  <2>2. i \in I
    <3>1. \E n \in I : \A j \in I : n <= j
      <4>1. I \subseteq Nat /\ I # {}
        BY <1>0, <1>2
      <4>. HIDE DEF I
      <4>. QED  BY <4>1, LeastNatural
    <3>. QED  BY <3>1
  <2>3. i - 1 \in 0 .. Len(a) - 1 /\ (i - 1) + 1 = i
    BY <1>0, <2>2
  <2>. HIDE DEF i, a
  <2>4. s \in Bytes
    <3>1. Append(SubSeq(a, 1, i - 1), a[(i - 1) + 1] + 1) \in Bytes
      BY <1>0, <2>3, OneMore
    <3>. QED  BY <2>3, <3>1
  <2>. HIDE DEF s
  <2>5. /\ Shortened(k, s) \in IKey
        /\ Shortened(k, s) = k \/ (User(Shortened(k, s)) = s /\ StringLess(User(k), s))
    BY <2>4, ShortenedIs
  <2>6. CASE Shortened(k, s) = k
    BY <2>1, <2>6, KeyOrder
  <2>7. CASE User(Shortened(k, s)) = s /\ StringLess(User(k), s)
    <3>1. ~StringLess(s, User(k)) /\ s # User(k)
      BY <1>0, <2>4, <2>7, StringOrder DEF a
    <3>. QED  BY <2>1, <2>5, <2>7, <3>1 DEF KeyLess
  <2>. QED  BY <2>5, <2>6, <2>7
<1>. QED  BY <1>1, <1>2

-----------------------------------------------------------------------------
(* Blocks and the iterators over them.                                      *)

BlockEntry == [shared : Nat, delta : Bytes, value : IKey \cup Nat]
Block == [entries : Seq(BlockEntry), restarts : Seq(Nat), counter : Nat, last : Bytes]

\* Entry i gives key k by itself, or after the key before.
Whole(b, i, k) == b.entries[i].shared = 0 /\ b.entries[i].delta = k
Rest(b, i, k, before) == SubSeq(before, 1, b.entries[i].shared) \o b.entries[i].delta = k

\* A block holds a sequence of keys, and has a key whole at each restart point.
Holds(b, ks) ==
  /\ b \in Block /\ ks \in Seq(IKey)
  /\ Len(b.entries) = Len(ks)
  /\ \A i \in 1 .. Len(ks) : Whole(b, i, ks[i]) \/ (i > 1 /\ Rest(b, i, ks[i], ks[i - 1]))
  /\ Len(b.restarts) > 0 /\ b.restarts[1] = 1
  /\ \A r \in 2 .. Len(b.restarts) :
       b.restarts[r] \in 1 .. Len(ks) /\ Whole(b, b.restarts[r], ks[b.restarts[r]])
  /\ b.last = IF ks = <<>> THEN <<>> ELSE ks[Len(ks)]

BlockIters(b) == [block : {b}, current : Nat, next : Nat, restart : Nat, key : Bytes]

\* The iterator is on entry i, or past the last one.
AtKey(it, b, ks, i) ==
  /\ it \in BlockIters(b) /\ i \in 1 .. Len(ks) + 1 /\ it.current = i
  /\ i <= Len(ks) => it.next = i + 1 /\ it.key = ks[i] /\ it.restart \in 1 .. Len(b.restarts)

\* ParseNextKey is going to read entry i.
ToKey(it, b, ks, i) ==
  /\ it \in BlockIters(b) /\ i \in 1 .. Len(ks) + 1 /\ it.next = i
  /\ it.restart \in 1 .. Len(b.restarts)
  /\ i <= Len(ks) => Whole(b, i, ks[i]) \/ Rest(b, i, ks[i], it.key)

LEMMA HoldsTypes ==
  ASSUME NEW b, NEW ks, Holds(b, ks)
  PROVE  /\ Len(ks) \in Nat /\ Len(b.entries) = Len(ks) /\ Len(b.restarts) \in Nat
         /\ Len(b.restarts) >= 1
         /\ \A i \in 1 .. Len(ks) : ks[i] \in IKey /\ ks[i] \in Bytes /\ b.entries[i] \in BlockEntry
         /\ \A r \in 1 .. Len(b.restarts) : b.restarts[r] \in 1 .. Len(ks) + 1
         /\ \A r \in 1 .. Len(b.restarts) :
              b.restarts[r] <= Len(ks) => Whole(b, b.restarts[r], ks[b.restarts[r]])
<1>1. b.entries \in Seq(BlockEntry) /\ b.restarts \in Seq(Nat) /\ ks \in Seq(IKey)
  BY DEF Holds, Block
<1>2. Len(ks) \in Nat /\ Len(b.entries) = Len(ks) /\ Len(b.restarts) \in Nat /\ Len(b.restarts) >= 1
  BY <1>1 DEF Holds
<1>3. \A i \in 1 .. Len(ks) : ks[i] \in IKey /\ ks[i] \in Bytes /\ b.entries[i] \in BlockEntry
  <2>1. \A i \in 1 .. Len(ks) : ks[i] \in IKey /\ b.entries[i] \in BlockEntry
    BY <1>1, <1>2, ElementOfSeq
  <2>. QED  BY <2>1 DEF IKey, Bytes
<1>4. ASSUME NEW r \in 1 .. Len(b.restarts)
      PROVE  /\ b.restarts[r] \in 1 .. Len(ks) + 1
             /\ b.restarts[r] <= Len(ks) => Whole(b, b.restarts[r], ks[b.restarts[r]])
  <2>1. CASE r = 1
    <3>1. b.restarts[r] = 1
      BY <2>1 DEF Holds
    <3>2. 1 <= Len(ks) => Whole(b, 1, ks[1])
      <4>1. 1 <= Len(ks) => 1 \in 1 .. Len(ks)
        BY <1>2
      <4>. QED  BY <4>1 DEF Holds
    <3>. QED  BY <1>2, <3>1, <3>2
  <2>2. CASE r # 1
    <3>1. r \in 2 .. Len(b.restarts)
      BY <1>2, <2>2
    <3>2. b.restarts[r] \in 1 .. Len(ks) /\ Whole(b, b.restarts[r], ks[b.restarts[r]])
      BY <3>1 DEF Holds
    <3>. QED  BY <1>2, <3>2
  <2>. QED  BY <2>1, <2>2
<1>. QED  BY <1>2, <1>3, <1>4

LEMMA InvalidIs ==
  ASSUME NEW b, NEW ks, Holds(b, ks), NEW it \in BlockIters(b)
  PROVE  AtKey(Invalid(it), b, ks, Len(ks) + 1)
<1>. DEFINE c == Len(b.entries) + 1
            r == Len(b.restarts) + 1
<1>1. c \in Nat /\ r \in Nat /\ c = Len(ks) + 1 /\ Len(ks) \in Nat
  BY HoldsTypes
<1>2. Invalid(it) = [it EXCEPT !.current = c, !.restart = r]
  BY DEF Invalid, BlockIters
<1>. HIDE DEF c, r
<1>3. Invalid(it) \in BlockIters(b) /\ Invalid(it).current = c
  BY <1>1, <1>2 DEF BlockIters
<1>. QED  BY <1>1, <1>3 DEF AtKey

\* ParseNextKey puts together the key of the entry.
LEMMA ParseIs ==
  ASSUME NEW b, NEW ks, Holds(b, ks), NEW it, NEW i, ToKey(it, b, ks, i)
  PROVE  AtKey(ParseNextKey(it), b, ks, i)
<1>0. /\ it.block = b /\ it.next = i /\ it.key \in Bytes /\ it.restart \in 1 .. Len(b.restarts)
      /\ Len(ks) \in Nat /\ Len(b.entries) = Len(ks) /\ Len(b.restarts) \in Nat
      /\ i \in 1 .. Len(ks) + 1 /\ it \in BlockIters(b)
  BY HoldsTypes DEF ToKey, BlockIters
<1>1. CASE i > Len(ks)
  <2>1. ParseNextKey(it) = Invalid(it) /\ i = Len(ks) + 1
    BY <1>0, <1>1 DEF ParseNextKey
  <2>. QED  BY <1>0, <2>1, InvalidIs
<1>2. CASE i <= Len(ks)
  <2>. DEFINE e == b.entries[i]
              passed == {it.restart} \cup {r \in it.restart + 1 .. Len(b.restarts) : b.restarts[r] < i}
              restart == CHOOSE r \in passed : \A q \in passed : q <= r
              key == SubSeq(it.key, 1, e.shared) \o e.delta
  <2>1. restart \in 1 .. Len(b.restarts)
    <3>1. passed \subseteq 1 .. Len(b.restarts) /\ passed # {} /\ passed \subseteq Int
      BY <1>0
    <3>2. IsFiniteSet(passed)
      <4>1. Len(b.restarts) \in Int /\ 1 \in Int
        BY <1>0
      <4>2. IsFiniteSet(1 .. Len(b.restarts))
        BY <4>1, FS_Interval
      <4>. QED  BY <3>1, <4>2, FS_Subset
    <3>. HIDE DEF passed
    <3>3. \E r \in passed : \A q \in passed : q <= r
      BY <3>1, <3>2, FiniteExtrema
    <3>4. restart \in passed
      BY <3>3
    <3>. QED  BY <3>1, <3>4
  <2>2. key = ks[i] /\ ks[i] \in Bytes
    <3>1. ks[i] \in Bytes /\ e \in BlockEntry
      BY <1>0, <1>2, HoldsTypes
    <3>2. CASE Whole(b, i, ks[i])
      <4>1. SubSeq(it.key, 1, 0) = <<>>
        BY SubSeqEmpty
      <4>2. <<>> \o ks[i] = ks[i]
        BY <3>1, ConcatEmptySeq DEF Bytes
      <4>. QED  BY <3>1, <3>2, <4>1, <4>2 DEF Whole
    <3>3. CASE Rest(b, i, ks[i], it.key)
      BY <3>1, <3>3 DEF Rest
    <3>. QED  BY <1>2, <3>2, <3>3 DEF ToKey
  <2>3. ParseNextKey(it) = [it EXCEPT !.current = i, !.next = i + 1, !.key = key, !.restart = restart]
    BY <1>0, <1>2 DEF ParseNextKey
  <2>. HIDE DEF key, restart
  <2>4. i \in Nat /\ i + 1 \in Nat /\ restart \in Nat
    BY <1>0, <2>1
  <2>. DEFINE t == [it EXCEPT !.current = i, !.next = i + 1, !.key = key, !.restart = restart]
  <2>5. t \in BlockIters(b) /\ t.current = i /\ t.next = i + 1 /\ t.key = key /\ t.restart = restart
    <3>1. it \in BlockIters(b) /\ i \in Nat /\ i + 1 \in Nat /\ restart \in Nat /\ key \in Bytes
      BY <1>0, <2>2, <2>4
    <3>. QED  BY <3>1 DEF BlockIters
  <2>. HIDE DEF t
  <2>6. AtKey(t, b, ks, i)
    BY <1>0, <2>1, <2>2, <2>5 DEF AtKey
  <2>. QED  BY <2>3, <2>6 DEF t
<1>. QED  BY <1>0, <1>1, <1>2

\* From an entry to the one after it.
LEMMA AfterKey ==
  ASSUME NEW b, NEW ks, Holds(b, ks), NEW it, NEW i, AtKey(it, b, ks, i), i <= Len(ks)
  PROVE  ToKey(it, b, ks, i + 1)
<1>0. Len(ks) \in Nat /\ i \in 1 .. Len(ks)
  BY HoldsTypes DEF AtKey
<1>1. i + 1 <= Len(ks) => Whole(b, i + 1, ks[i + 1]) \/ Rest(b, i + 1, ks[i + 1], ks[i])
  <2>1. i + 1 <= Len(ks) => i + 1 \in 1 .. Len(ks) /\ (i + 1) - 1 = i
    BY <1>0
  <2>. QED  BY <2>1 DEF Holds
<1>. QED  BY <1>0, <1>1 DEF AtKey, ToKey

LEMMA NextIs ==
  ASSUME NEW b, NEW ks, Holds(b, ks), NEW it, NEW i, AtKey(it, b, ks, i), i <= Len(ks)
  PROVE  AtKey(ParseNextKey(it), b, ks, i + 1)
BY AfterKey, ParseIs

LEMMA RestartIs ==
  ASSUME NEW b, NEW ks, Holds(b, ks), NEW it \in BlockIters(b), NEW r \in 1 .. Len(b.restarts)
  PROVE  ToKey(SeekToRestartPoint(it, r), b, ks, b.restarts[r])
<1>0. /\ it.block = b /\ b.restarts[r] \in Nat /\ r \in Nat /\ <<>> \in Bytes
      /\ b.restarts[r] \in 1 .. Len(ks) + 1
      /\ b.restarts[r] <= Len(ks) => Whole(b, b.restarts[r], ks[b.restarts[r]])
  BY HoldsTypes, EmptySeq DEF BlockIters, Bytes
<1>. DEFINE n == b.restarts[r]
<1>1. SeekToRestartPoint(it, r) = [it EXCEPT !.key = <<>>, !.restart = r, !.next = n]
  BY <1>0 DEF SeekToRestartPoint
<1>. HIDE DEF n
<1>2. /\ SeekToRestartPoint(it, r) \in BlockIters(b) /\ SeekToRestartPoint(it, r).next = n
      /\ SeekToRestartPoint(it, r).restart = r
  BY <1>0, <1>1 DEF BlockIters, n
<1>. QED  BY <1>0, <1>2 DEF ToKey, n

LEMMA OnEntryIs ==
  ASSUME NEW b, NEW ks, Holds(b, ks), NEW it, NEW i, AtKey(it, b, ks, i)
  PROVE  OnEntry(it) <=> i <= Len(ks)
<1>1. it.block = b /\ it.current = i /\ Len(b.entries) = Len(ks)
  BY HoldsTypes DEF AtKey, BlockIters
<1>. QED  BY <1>1 DEF OnEntry

Anywhere(b, ks) == {it \in BlockIters(b) : \E i \in 1 .. Len(ks) + 1 : AtKey(it, b, ks, i)}

LEMMA SomewhereIs ==
  ASSUME NEW b, NEW ks, NEW it, NEW i, AtKey(it, b, ks, i)
  PROVE  it \in Anywhere(b, ks)
BY DEF Anywhere, AtKey

LEMMA ParseStays ==
  ASSUME NEW b, NEW ks, Holds(b, ks), NEW it \in Anywhere(b, ks), OnEntry(it)
  PROVE  ParseNextKey(it) \in Anywhere(b, ks)
<1>1. PICK i : AtKey(it, b, ks, i)
  BY DEF Anywhere
<1>2. i <= Len(ks)
  BY <1>1, OnEntryIs
<1>. QED  BY <1>1, <1>2, NextIs, SomewhereIs

-----------------------------------------------------------------------------
(* The loops of an iterator.                                                *)

UpToStep(p, offset) == IF OnEntry(p) /\ p.next < offset THEN ParseNextKey(p) ELSE p

LEMMA ParseUpToIs ==
  ASSUME NEW b, NEW ks, Holds(b, ks), NEW it, NEW i, ToKey(it, b, ks, i),
         NEW offset \in 1 .. Len(ks) + 1, i < offset
  PROVE  AtKey(ParseUpTo(it, offset), b, ks, offset - 1)
<1>. DEFINE N == Len(b.entries)
            S == Anywhere(b, ks)
            start == ParseNextKey(it)
            f == [p \in S |-> UpToStep(p, offset)]
<1>0. N \in Nat /\ N = Len(ks) /\ it.block = b /\ i \in 1 .. N
  BY HoldsTypes DEF ToKey, BlockIters
<1>1. AtKey(start, b, ks, i) /\ start \in S
  BY ParseIs, SomewhereIs
<1>2. f \in [S -> S]
  <2>1. \A p \in S : UpToStep(p, offset) \in S
    BY ParseStays DEF UpToStep
  <2>. QED  BY <2>1
<1>3. PICK t : AreTurns(t, S, f, start, N)
  <2>1. N \in Nat /\ start \in S /\ f \in [S -> S]
    BY <1>0, <1>1, <1>2
  <2>. HIDE DEF S, f, start, N
  <2>. QED  BY <2>1, Turns
<1>4. \A n \in 1 .. N : t[n] = UpToStep(t[n - 1], offset)
  <2>. SUFFICES ASSUME NEW n \in 1 .. N PROVE t[n] = UpToStep(t[n - 1], offset)
    OBVIOUS
  <2>1. n - 1 \in 0 .. N
    BY <1>0
  <2>. HIDE DEF S
  <2>. QED  BY <1>3, <2>1 DEF AreTurns
<1>5. t = [n \in 0 .. N |-> IF n = 0 THEN start
                            ELSE IF OnEntry(t[n - 1]) /\ t[n - 1].next < offset
                                 THEN ParseNextKey(t[n - 1]) ELSE t[n - 1]]
  <2>. HIDE DEF S, start, f
  <2>1. \A n \in 0 .. N : n # 0 => n \in 1 .. N
    BY <1>0
  <2>. QED  BY <1>3, <1>4, <2>1 DEF UpToStep, AreTurns
<1>6. \E u : u = [n \in 0 .. Len(it.block.entries) |->
                    IF n = 0 THEN ParseNextKey(it)
                    ELSE IF OnEntry(u[n - 1]) /\ u[n - 1].next < offset
                         THEN ParseNextKey(u[n - 1]) ELSE u[n - 1]]
  BY <1>0, <1>5
<1>7. PICK u : /\ ParseUpTo(it, offset) = u[Len(it.block.entries)]
               /\ u = [n \in 0 .. Len(it.block.entries) |->
                    IF n = 0 THEN ParseNextKey(it)
                    ELSE IF OnEntry(u[n - 1]) /\ u[n - 1].next < offset
                         THEN ParseNextKey(u[n - 1]) ELSE u[n - 1]]
  BY <1>6, Zenon DEF ParseUpTo
<1>8. u[0] = start /\ (\A n \in 1 .. N : u[n] = UpToStep(u[n - 1], offset)) /\ ParseUpTo(it, offset) = u[N]
  <2>. HIDE DEF start
  <2>1. \A n \in 1 .. N : n \in 0 .. N /\ n # 0
    BY <1>0
  <2>2. u[0] = start
    BY <1>0, <1>7 DEF start
  <2>3. \A n \in 1 .. N : u[n] = UpToStep(u[n - 1], offset)
    BY <1>0, <1>7, <2>1 DEF UpToStep
  <2>. QED  BY <1>0, <1>7, <2>2, <2>3
<1>. HIDE DEF start
<1>. DEFINE where(n) == IF i + n < offset - 1 THEN i + n ELSE offset - 1
            D == {n \in Nat : n <= N => AtKey(u[n], b, ks, where(n))}
<1>9. 0 \in D
  <2>1. where(0) = i
    BY <1>0
  <2>. HIDE DEF where
  <2>. QED  BY <1>1, <1>8, <2>1
<1>10. ASSUME NEW n \in Nat, n \in D PROVE n + 1 \in D
  <2>. SUFFICES ASSUME n + 1 <= N PROVE AtKey(u[n + 1], b, ks, where(n + 1))
    OBVIOUS
  <2>1. AtKey(u[n], b, ks, where(n))
    BY <1>0, <1>10
  <2>2. u[n + 1] = UpToStep(u[n], offset)
    BY <1>0, <1>8
  <2>3. where(n) \in 1 .. Len(ks) /\ u[n].next = where(n) + 1
    BY <1>0, <2>1 DEF AtKey
  <2>4. OnEntry(u[n])
    BY <2>1, <2>3, OnEntryIs
  <2>5. CASE i + n < offset - 1
    <3>1. where(n) = i + n /\ where(n + 1) = where(n) + 1 /\ u[n].next < offset
      BY <1>0, <2>3, <2>5
    <3>. HIDE DEF where
    <3>2. AtKey(ParseNextKey(u[n]), b, ks, where(n) + 1)
      BY <2>1, <2>3, NextIs
    <3>. QED  BY <2>2, <2>4, <3>1, <3>2 DEF UpToStep
  <2>6. CASE ~(i + n < offset - 1)
    <3>1. where(n) = offset - 1 /\ where(n + 1) = where(n) /\ ~(u[n].next < offset)
      BY <1>0, <2>3, <2>6
    <3>. HIDE DEF where
    <3>. QED  BY <2>1, <2>2, <3>1 DEF UpToStep
  <2>. QED  BY <2>5, <2>6
<1>11. N \in D
  <2>. HIDE DEF D
  <2>. QED  BY <1>0, <1>9, <1>10, Induction
<1>12. where(N) = offset - 1
  BY <1>0
<1>. HIDE DEF where
<1>. QED  BY <1>0, <1>8, <1>11, <1>12

ToKeyStep(p, k) == IF OnEntry(p) /\ KeyLess(p.key, k) THEN ParseNextKey(p) ELSE p

\* j is the first place from i on with a key that is not before k.
FirstNotBefore(ks, k, i, j) ==
  /\ j \in i .. Len(ks) + 1
  /\ \A m \in i .. j - 1 : KeyLess(ks[m], k)
  /\ j <= Len(ks) => ~KeyLess(ks[j], k)

LEMMA ParseToKeyIs ==
  ASSUME NEW b, NEW ks, Holds(b, ks), NEW it, NEW i, ToKey(it, b, ks, i), NEW k
  PROVE  \E j : FirstNotBefore(ks, k, i, j) /\ AtKey(ParseToKey(it, k), b, ks, j)
<1>. DEFINE N == Len(b.entries)
            S == Anywhere(b, ks)
            start == ParseNextKey(it)
            f == [p \in S |-> ToKeyStep(p, k)]
<1>0. N \in Nat /\ N = Len(ks) /\ it.block = b /\ i \in 1 .. N + 1
  BY HoldsTypes DEF ToKey, BlockIters
<1>1. AtKey(start, b, ks, i) /\ start \in S
  BY ParseIs, SomewhereIs
<1>2. f \in [S -> S]
  <2>1. \A p \in S : ToKeyStep(p, k) \in S
    BY ParseStays DEF ToKeyStep
  <2>. QED  BY <2>1
<1>3. PICK t : AreTurns(t, S, f, start, N)
  <2>1. N \in Nat /\ start \in S /\ f \in [S -> S]
    BY <1>0, <1>1, <1>2
  <2>. HIDE DEF S, f, start, N
  <2>. QED  BY <2>1, Turns
<1>4. \A n \in 1 .. N : t[n] = ToKeyStep(t[n - 1], k)
  <2>. SUFFICES ASSUME NEW n \in 1 .. N PROVE t[n] = ToKeyStep(t[n - 1], k)
    OBVIOUS
  <2>1. n - 1 \in 0 .. N
    BY <1>0
  <2>. HIDE DEF S
  <2>. QED  BY <1>3, <2>1 DEF AreTurns
<1>5. t = [n \in 0 .. N |-> IF n = 0 THEN start
                            ELSE IF OnEntry(t[n - 1]) /\ KeyLess(t[n - 1].key, k)
                                 THEN ParseNextKey(t[n - 1]) ELSE t[n - 1]]
  <2>. HIDE DEF S, start, f
  <2>1. \A n \in 0 .. N : n # 0 => n \in 1 .. N
    BY <1>0
  <2>. QED  BY <1>3, <1>4, <2>1 DEF ToKeyStep, AreTurns
<1>6. \E u : u = [n \in 0 .. Len(it.block.entries) |->
                    IF n = 0 THEN ParseNextKey(it)
                    ELSE IF OnEntry(u[n - 1]) /\ KeyLess(u[n - 1].key, k)
                         THEN ParseNextKey(u[n - 1]) ELSE u[n - 1]]
  BY <1>0, <1>5
<1>7. PICK u : /\ ParseToKey(it, k) = u[Len(it.block.entries)]
               /\ u = [n \in 0 .. Len(it.block.entries) |->
                    IF n = 0 THEN ParseNextKey(it)
                    ELSE IF OnEntry(u[n - 1]) /\ KeyLess(u[n - 1].key, k)
                         THEN ParseNextKey(u[n - 1]) ELSE u[n - 1]]
  BY <1>6, Zenon DEF ParseToKey
<1>8. u[0] = start /\ (\A n \in 1 .. N : u[n] = ToKeyStep(u[n - 1], k)) /\ ParseToKey(it, k) = u[N]
  <2>. HIDE DEF start
  <2>1. \A n \in 1 .. N : n \in 0 .. N /\ n # 0
    BY <1>0
  <2>2. u[0] = start
    BY <1>0, <1>7 DEF start
  <2>3. \A n \in 1 .. N : u[n] = ToKeyStep(u[n - 1], k)
    BY <1>0, <1>7, <2>1 DEF ToKeyStep
  <2>. QED  BY <1>0, <1>7, <2>2, <2>3
<1>. HIDE DEF start
<1>. DEFINE stop(j) == j = N + 1 \/ ~KeyLess(ks[j], k)
            D == {n \in Nat : n <= N => \E j \in i .. N + 1 :
                    /\ AtKey(u[n], b, ks, j) /\ (\A m \in i .. j - 1 : KeyLess(ks[m], k))
                    /\ j = i + n \/ stop(j)}
<1>9. 0 \in D
  <2>1. i \in i .. N + 1 /\ i = i + 0 /\ i .. i - 1 = {}
    BY <1>0
  <2>. HIDE DEF stop
  <2>. QED  BY <1>0, <1>1, <1>8, <2>1
<1>10. ASSUME NEW n \in Nat, n \in D PROVE n + 1 \in D
  <2>. HIDE DEF stop
  <2>. SUFFICES ASSUME n + 1 <= N
                PROVE \E j \in i .. N + 1 :
                    /\ AtKey(u[n + 1], b, ks, j) /\ (\A m \in i .. j - 1 : KeyLess(ks[m], k))
                    /\ j = i + (n + 1) \/ stop(j)
    OBVIOUS
  <2>1. PICK j \in i .. N + 1 : /\ AtKey(u[n], b, ks, j) /\ (\A m \in i .. j - 1 : KeyLess(ks[m], k))
                                /\ j = i + n \/ stop(j)
    BY <1>0, <1>10
  <2>2. u[n + 1] = ToKeyStep(u[n], k)
    BY <1>0, <1>8
  <2>3. CASE j <= N /\ KeyLess(ks[j], k)
    <3>1. OnEntry(u[n]) /\ u[n].key = ks[j] /\ j = i + n
      BY <1>0, <2>1, <2>3, OnEntryIs DEF AtKey, stop
    <3>2. AtKey(u[n + 1], b, ks, j + 1)
      BY <1>0, <2>1, <2>2, <2>3, <3>1, NextIs DEF ToKeyStep
    <3>3. \A m \in i .. (j + 1) - 1 : m = j \/ m \in i .. j - 1
      BY <1>0
    <3>4. j + 1 \in i .. N + 1 /\ j + 1 = i + (n + 1)
      BY <1>0, <2>3, <3>1
    <3>. QED  BY <2>1, <2>3, <3>2, <3>3, <3>4
  <2>4. CASE ~(j <= N /\ KeyLess(ks[j], k))
    <3>1. stop(j)
      BY <1>0, <2>4 DEF stop
    <3>2. ~(OnEntry(u[n]) /\ KeyLess(u[n].key, k))
      BY <1>0, <2>1, <2>4, OnEntryIs DEF AtKey
    <3>. QED  BY <2>1, <2>2, <3>1, <3>2 DEF ToKeyStep
  <2>. QED  BY <2>3, <2>4
<1>11. N \in D
  <2>. HIDE DEF D
  <2>. QED  BY <1>0, <1>9, <1>10, Induction
<1>12. PICK j \in i .. N + 1 : /\ AtKey(u[N], b, ks, j) /\ (\A m \in i .. j - 1 : KeyLess(ks[m], k))
                               /\ j = i + N \/ stop(j)
  BY <1>0, <1>11
<1>13. stop(j)
  BY <1>0, <1>12
<1>. QED  BY <1>0, <1>8, <1>12, <1>13 DEF FirstNotBefore

InOrder(ks) == \A i, j \in 1 .. Len(ks) : i < j => KeyLess(ks[i], ks[j])

\* The key of a restart point.
RestartKey(b, r) == b.entries[b.restarts[r]].delta

\* The binary search keeps to the left what is before the key.
Halves(b, k) ==
  {s \in [left : 1 .. Len(b.restarts), right : 1 .. Len(b.restarts)] :
     s.left <= s.right /\ (s.left = 1 \/ KeyLess(RestartKey(b, s.left), k))}

LEMMA HalveStays ==
  ASSUME NEW b, NEW k, Len(b.restarts) \in Nat, NEW s \in Halves(b, k)
  PROVE  Halve(b, k, s) \in Halves(b, k)
<1>. DEFINE l == s.left
            r == s.right
            mid == (l + r + 1) \div 2
            N == Len(b.restarts)
<1>0. /\ s \in [left : 1 .. N, right : 1 .. N] /\ l \in 1 .. N /\ r \in 1 .. N /\ l <= r /\ N \in Nat
      /\ l = 1 \/ KeyLess(RestartKey(b, l), k)
  BY DEF Halves
<1>1. CASE l >= r
  BY <1>1 DEF Halve
<1>2. CASE l < r
  <2>1. mid \in 1 .. N /\ mid - 1 \in 1 .. N /\ l <= mid - 1 /\ mid <= r
    BY <1>0, <1>2
  <2>2. Halve(b, k, s) = IF KeyLess(RestartKey(b, mid), k) THEN [s EXCEPT !.left = mid]
                         ELSE [s EXCEPT !.right = mid - 1]
    BY <1>0, <1>2 DEF Halve, RestartKey
  <2>. HIDE DEF mid, N
  <2>3. CASE KeyLess(RestartKey(b, mid), k)
    <3>1. Halve(b, k, s) = [s EXCEPT !.left = mid]
      BY <2>2, <2>3
    <3>2. /\ [s EXCEPT !.left = mid] \in [left : 1 .. N, right : 1 .. N]
          /\ [s EXCEPT !.left = mid].left = mid /\ [s EXCEPT !.left = mid].right = r
      BY <1>0, <2>1
    <3>. QED  BY <2>1, <2>3, <3>1, <3>2 DEF Halves, N
  <2>4. CASE ~KeyLess(RestartKey(b, mid), k)
    <3>1. Halve(b, k, s) = [s EXCEPT !.right = mid - 1]
      BY <2>2, <2>4
    <3>2. /\ [s EXCEPT !.right = mid - 1] \in [left : 1 .. N, right : 1 .. N]
          /\ [s EXCEPT !.right = mid - 1].left = l /\ [s EXCEPT !.right = mid - 1].right = mid - 1
      BY <1>0, <2>1
    <3>. QED  BY <1>0, <2>1, <3>1, <3>2 DEF Halves, N
  <2>. QED  BY <2>3, <2>4
<1>. QED  BY <1>0, <1>1, <1>2

LEMMA RestartBeforeIs ==
  ASSUME NEW b, NEW ks, Holds(b, ks), NEW k
  PROVE  /\ RestartBefore(b, k) \in 1 .. Len(b.restarts)
         /\ RestartBefore(b, k) = 1 \/ KeyLess(RestartKey(b, RestartBefore(b, k)), k)
<1>. DEFINE N == Len(b.restarts)
            S == Halves(b, k)
            start == [left |-> 1, right |-> N]
            f == [s \in S |-> Halve(b, k, s)]
<1>0. N \in Nat /\ N >= 1
  BY HoldsTypes
<1>1. start \in S
  BY <1>0 DEF Halves
<1>2. f \in [S -> S]
  <2>1. \A s \in S : Halve(b, k, s) \in S
    BY <1>0, HalveStays
  <2>. QED  BY <2>1
<1>3. PICK t : AreTurns(t, S, f, start, N)
  <2>1. N \in Nat /\ start \in S /\ f \in [S -> S]
    BY <1>0, <1>1, <1>2
  <2>. HIDE DEF S, f, start, N
  <2>. QED  BY <2>1, Turns
<1>4. t \in [0 .. N -> S] /\ t[0] = start /\ \A n \in 1 .. N : t[n] = Halve(b, k, t[n - 1])
  <2>1. \A n \in 1 .. N : n - 1 \in 0 .. N
    BY <1>0
  <2>2. t \in [0 .. N -> S] /\ t[0] = start /\ \A n \in 1 .. N : t[n] = f[t[n - 1]]
    BY <1>3 DEF AreTurns
  <2>. HIDE DEF S, start
  <2>. QED  BY <2>1, <2>2
<1>5. t = [n \in 0 .. N |-> IF n = 0 THEN start ELSE Halve(b, k, t[n - 1])]
  <2>. HIDE DEF S, start
  <2>1. \A n \in 0 .. N : n # 0 => n \in 1 .. N
    BY <1>0
  <2>. QED  BY <1>4, <2>1
<1>6. \E u : u = [n \in 0 .. N |-> IF n = 0 THEN start ELSE Halve(b, k, u[n - 1])]
  BY <1>5
<1>7. PICK u : /\ RestartBefore(b, k) = u[N].left
               /\ u = [n \in 0 .. N |-> IF n = 0 THEN start ELSE Halve(b, k, u[n - 1])]
  BY <1>6, Zenon DEF RestartBefore
<1>8. u[0] = start /\ \A n \in 1 .. N : u[n] = Halve(b, k, u[n - 1])
  <2>. HIDE DEF start
  <2>1. \A n \in 1 .. N : n \in 0 .. N /\ n # 0
    BY <1>0
  <2>. QED  BY <1>0, <1>7, <2>1
<1>. HIDE DEF start
<1>. DEFINE D == {n \in Nat : n <= N => u[n] \in S}
<1>9. 0 \in D
  BY <1>1, <1>8
<1>10. ASSUME NEW n \in Nat, n \in D PROVE n + 1 \in D
  <2>1. n + 1 <= N => u[n + 1] = Halve(b, k, u[n]) /\ u[n] \in S
    BY <1>0, <1>8, <1>10
  <2>. QED  BY <1>0, <2>1, HalveStays
<1>11. N \in D
  <2>. HIDE DEF D
  <2>. QED  BY <1>0, <1>9, <1>10, Induction
<1>12. u[N] \in Halves(b, k)
  BY <1>0, <1>11
<1>. QED  BY <1>7, <1>12 DEF Halves

-----------------------------------------------------------------------------
(* The operations of an iterator over a block.                              *)

LEMMA FirstIs ==
  ASSUME NEW b, NEW ks, Holds(b, ks), NEW it \in BlockIters(b)
  PROVE  AtKey(FirstInBlock(it), b, ks, 1)
<1>1. 1 \in 1 .. Len(b.restarts) /\ b.restarts[1] = 1
  BY HoldsTypes DEF Holds
<1>2. ToKey(SeekToRestartPoint(it, 1), b, ks, 1)
  BY <1>1, RestartIs
<1>. QED  BY <1>2, ParseIs DEF FirstInBlock

\* In an empty block the loop does nothing.
LEMMA ParseUpToNothing ==
  ASSUME NEW b, Len(b.entries) = 0, NEW it, it.block = b, NEW offset
  PROVE  ParseUpTo(it, offset) = ParseNextKey(it)
<1>1. \E u : u = [n \in 0 .. Len(it.block.entries) |->
                    IF n = 0 THEN ParseNextKey(it)
                    ELSE IF OnEntry(u[n - 1]) /\ u[n - 1].next < offset
                         THEN ParseNextKey(u[n - 1]) ELSE u[n - 1]]
  <2>1. PICK u : u = [n \in {0} |-> ParseNextKey(it)]
    OBVIOUS
  <2>2. 0 .. Len(it.block.entries) = {0}
    OBVIOUS
  <2>3. u = [n \in {0} |-> IF n = 0 THEN ParseNextKey(it)
                    ELSE IF OnEntry(u[n - 1]) /\ u[n - 1].next < offset
                         THEN ParseNextKey(u[n - 1]) ELSE u[n - 1]]
    BY <2>1
  <2>. QED  BY <2>2, <2>3
<1>2. PICK u : /\ ParseUpTo(it, offset) = u[Len(it.block.entries)]
               /\ u = [n \in 0 .. Len(it.block.entries) |->
                    IF n = 0 THEN ParseNextKey(it)
                    ELSE IF OnEntry(u[n - 1]) /\ u[n - 1].next < offset
                         THEN ParseNextKey(u[n - 1]) ELSE u[n - 1]]
  BY <1>1, Zenon DEF ParseUpTo
<1>. QED  BY <1>2

LEMMA LastIs ==
  ASSUME NEW b, NEW ks, Holds(b, ks), NEW it \in BlockIters(b)
  PROVE  AtKey(LastInBlock(it), b, ks, IF Len(ks) = 0 THEN 1 ELSE Len(ks))
<1>. DEFINE r == Len(b.restarts)
            s == SeekToRestartPoint(it, r)
<1>0. /\ r \in 1 .. Len(b.restarts) /\ it.block = b /\ Len(ks) \in Nat /\ Len(b.entries) = Len(ks)
      /\ b.restarts[r] \in 1 .. Len(ks) + 1 /\ r >= 1 /\ r \in Nat
  BY HoldsTypes DEF BlockIters
<1>1. ToKey(s, b, ks, b.restarts[r]) /\ s.block = b
  <2>1. ToKey(s, b, ks, b.restarts[r])
    BY <1>0, RestartIs
  <2>. QED  BY <2>1 DEF ToKey, BlockIters
<1>2. LastInBlock(it) = ParseUpTo(s, Len(ks) + 1)
  BY <1>0 DEF LastInBlock
<1>. HIDE DEF s
<1>3. CASE Len(ks) = 0
  <2>1. ParseUpTo(s, Len(ks) + 1) = ParseNextKey(s)
    BY <1>0, <1>1, <1>3, ParseUpToNothing
  <2>2. b.restarts[r] = 1
    BY <1>0, <1>3
  <2>. QED  BY <1>1, <1>2, <1>3, <2>1, <2>2, ParseIs
<1>4. CASE Len(ks) # 0
  <2>1. b.restarts[r] < Len(ks) + 1
    <3>1. CASE r = 1
      BY <1>0, <1>4, <3>1 DEF Holds
    <3>2. CASE r # 1
      <4>1. r \in 2 .. r
        <5>. HIDE DEF r
        <5>. QED  BY <1>0, <3>2
      <4>2. b.restarts[r] \in 1 .. Len(ks)
        BY <4>1 DEF Holds
      <4>. QED  BY <1>0, <4>2
    <3>. QED  BY <3>1, <3>2
  <2>2. Len(ks) + 1 \in 1 .. Len(ks) + 1 /\ (Len(ks) + 1) - 1 = Len(ks)
    BY <1>0
  <2>3. AtKey(ParseUpTo(s, Len(ks) + 1), b, ks, (Len(ks) + 1) - 1)
    BY <1>1, <2>1, <2>2, ParseUpToIs
  <2>. QED  BY <1>2, <1>4, <2>2, <2>3
<1>. QED  BY <1>3, <1>4

LEMMA SeekIs ==
  ASSUME NEW b, NEW ks, Holds(b, ks), InOrder(ks), NEW it \in BlockIters(b), NEW k \in IKey
  PROVE  \E j : FirstNotBefore(ks, k, 1, j) /\ AtKey(SeekInBlock(it, k), b, ks, j)
<1>. DEFINE r == RestartBefore(b, k)
            n == b.restarts[r]
            s == SeekToRestartPoint(it, r)
<1>0. /\ it.block = b /\ Len(ks) \in Nat /\ r \in 1 .. Len(b.restarts) /\ n \in 1 .. Len(ks) + 1
      /\ r = 1 \/ KeyLess(RestartKey(b, r), k)
  BY HoldsTypes, RestartBeforeIs DEF BlockIters
<1>1. SeekInBlock(it, k) = ParseToKey(s, k)
  BY <1>0 DEF SeekInBlock
<1>2. ToKey(s, b, ks, n)
  BY <1>0, RestartIs
<1>. HIDE DEF s
<1>3. PICK j : FirstNotBefore(ks, k, n, j) /\ AtKey(ParseToKey(s, k), b, ks, j)
  <2>. HIDE DEF n
  <2>. QED  BY <1>2, ParseToKeyIs
<1>4. \A m \in 1 .. n - 1 : KeyLess(ks[m], k)
  <2>. SUFFICES ASSUME NEW m \in 1 .. n - 1 PROVE KeyLess(ks[m], k)
    OBVIOUS
  <2>1. r # 1
    BY <1>0 DEF Holds
  <2>2. n \in 1 .. Len(ks) /\ RestartKey(b, r) = ks[n]
    <3>1. r \in 2 .. Len(b.restarts)
      BY <1>0, <2>1, HoldsTypes
    <3>. QED  BY <3>1 DEF Holds, Whole, RestartKey
  <2>3. m \in 1 .. Len(ks) /\ m < n
    BY <1>0
  <2>4. KeyLess(ks[m], ks[n]) /\ ks[m] \in IKey /\ ks[n] \in IKey
    BY <2>2, <2>3, HoldsTypes DEF InOrder
  <2>. QED  BY <1>0, <2>1, <2>2, <2>4, KeyOrder
<1>5. FirstNotBefore(ks, k, 1, j)
  <2>1. /\ j \in n .. Len(ks) + 1 /\ (\A m \in n .. j - 1 : KeyLess(ks[m], k))
        /\ j <= Len(ks) => ~KeyLess(ks[j], k)
    BY <1>3 DEF FirstNotBefore
  <2>2. \A m \in 1 .. j - 1 : m \in 1 .. n - 1 \/ m \in n .. j - 1
    BY <1>0, <2>1
  <2>3. j \in 1 .. Len(ks) + 1
    BY <1>0, <2>1
  <2>. HIDE DEF n
  <2>. QED  BY <1>4, <2>1, <2>2, <2>3 DEF FirstNotBefore
<1>. QED  BY <1>1, <1>3, <1>5

LEMMA PrevIs ==
  ASSUME NEW b, NEW ks, Holds(b, ks), NEW it, NEW i, AtKey(it, b, ks, i), i <= Len(ks)
  PROVE  AtKey(PrevInBlock(it), b, ks, IF i = 1 THEN Len(ks) + 1 ELSE i - 1)
<1>. DEFINE R == {r \in 1 .. it.restart : b.restarts[r] < i}
            r == CHOOSE r \in R : \A q \in R : q <= r
            s == SeekToRestartPoint(it, r)
<1>0. /\ it \in BlockIters(b) /\ it.block = b /\ it.current = i /\ it.restart \in 1 .. Len(b.restarts)
      /\ Len(ks) \in Nat /\ Len(b.restarts) \in Nat /\ i \in 1 .. Len(ks)
      /\ \A q \in 1 .. Len(b.restarts) : b.restarts[q] \in 1 .. Len(ks) + 1
      /\ b.restarts[1] = 1
  BY HoldsTypes DEF AtKey, BlockIters, Holds
<1>1. CASE R = {}
  <2>1. i = 1
    <3>1. 1 \in 1 .. it.restart /\ ~(b.restarts[1] < i)
      BY <1>0, <1>1
    <3>. QED  BY <1>0, <3>1
  <2>2. PrevInBlock(it) = Invalid(it)
    BY <1>0, <1>1 DEF PrevInBlock
  <2>. QED  BY <1>0, <2>1, <2>2, InvalidIs
<1>2. CASE R # {}
  <2>1. r \in R
    <3>1. R \subseteq 1 .. it.restart /\ R \subseteq Int /\ 1 \in Int /\ it.restart \in Int
      BY <1>0
    <3>2. IsFiniteSet(R)
      BY <3>1, FS_Interval, FS_Subset
    <3>. HIDE DEF R
    <3>3. \E q \in R : \A p \in R : p <= q
      BY <1>2, <3>1, <3>2, FiniteExtrema
    <3>. QED  BY <3>3
  <2>2. PrevInBlock(it) = ParseUpTo(s, i)
    <3>. HIDE DEF R
    <3>1. PrevInBlock(it) = IF R = {} THEN Invalid(it) ELSE ParseUpTo(s, i)
      BY <1>0 DEF PrevInBlock, R
    <3>. QED  BY <1>2, <3>1
  <2>3. r \in 1 .. Len(b.restarts) /\ b.restarts[r] < i /\ b.restarts[r] \in 1 .. Len(ks) + 1
    <3>. HIDE DEF r
    <3>. QED  BY <1>0, <2>1
  <2>. HIDE DEF r
  <2>4. ToKey(s, b, ks, b.restarts[r])
    BY <1>0, <2>3, RestartIs
  <2>. HIDE DEF s
  <2>5. i \in 1 .. Len(ks) + 1 /\ i # 1
    BY <1>0, <2>3
  <2>. QED  BY <2>2, <2>3, <2>4, <2>5, ParseUpToIs
<1>. QED  BY <1>1, <1>2

-----------------------------------------------------------------------------
(* The builder of a block.                                                  *)

LEMMA EmptyHolds == Holds(EmptyBlock, <<>>)
<1>1. EmptyBlock \in Block
  BY EmptySeq DEF EmptyBlock, Block, Bytes
<1>2. <<>> \in Seq(IKey) /\ Len(<<>>) = 0 /\ Len(<<1>>) = 1 /\ <<1>>[1] = 1
  BY EmptySeq
<1>. QED  BY <1>1, <1>2 DEF Holds, EmptyBlock

\* The two parts of a key.
LEMMA Parts ==
  ASSUME NEW k \in Bytes, NEW a \in Bytes, NEW n, Differ(a, k, n)
  PROVE  /\ SubSeq(k, n + 1, Len(k)) \in Bytes /\ n \in Nat
         /\ SubSeq(a, 1, n) \o SubSeq(k, n + 1, Len(k)) = k
<1>0. Len(k) \in Nat /\ Len(a) \in Nat /\ n \in Nat /\ n <= Len(k) /\ n <= Len(a)
  BY DEF Bytes, Differ
<1>1. (\A i \in 1 .. Len(k) : k[i] \in Nat) /\ (\A i \in 1 .. Len(a) : a[i] \in Nat)
  BY ElementOfSeq DEF Bytes
<1>. DEFINE x == SubSeq(a, 1, n)
            y == SubSeq(k, n + 1, Len(k))
<1>2. x \in Seq(Nat) /\ Len(x) = n /\ \A i \in 1 .. n : x[i] = a[i]
  <2>1. \A i \in 1 .. n : a[i] \in Nat
    BY <1>0, <1>1
  <2>2. /\ x \in Seq(Nat)
        /\ Len(x) = IF 1 <= n THEN n - 1 + 1 ELSE 0
        /\ \A i \in 1 .. n - 1 + 1 : x[i] = a[1 + i - 1]
    BY <1>0, <2>1, SubSeqProperties
  <2>. HIDE DEF x
  <2>3. n - 1 + 1 = n /\ \A i \in 1 .. n : 1 + i - 1 = i
    BY <1>0
  <2>. QED  BY <1>0, <2>2, <2>3
<1>3. y \in Seq(Nat) /\ Len(y) = Len(k) - n /\ \A i \in 1 .. Len(k) - n : y[i] = k[n + i]
  <2>1. \A i \in n + 1 .. Len(k) : k[i] \in Nat
    BY <1>0, <1>1
  <2>2. /\ y \in Seq(Nat)
        /\ Len(y) = IF n + 1 <= Len(k) THEN Len(k) - (n + 1) + 1 ELSE 0
        /\ \A i \in 1 .. Len(k) - (n + 1) + 1 : y[i] = k[(n + 1) + i - 1]
    BY <1>0, <2>1, SubSeqProperties
  <2>. HIDE DEF y
  <2>3. Len(k) - (n + 1) + 1 = Len(k) - n /\ \A i \in 1 .. Len(k) - n : (n + 1) + i - 1 = n + i
    BY <1>0
  <2>4. Len(y) = Len(k) - n
    BY <1>0, <2>2
  <2>5. \A i \in 1 .. Len(k) - n : y[i] = k[(n + 1) + i - 1]
    BY <2>2, <2>3
  <2>. QED  BY <2>2, <2>3, <2>4, <2>5
<1>. HIDE DEF x, y
<1>4. /\ x \o y \in Seq(Nat) /\ Len(x \o y) = Len(k)
      /\ \A i \in 1 .. Len(k) : (x \o y)[i] = IF i <= n THEN x[i] ELSE y[i - n]
  <2>1. /\ x \o y \in Seq(Nat) /\ Len(x \o y) = Len(x) + Len(y)
        /\ \A i \in 1 .. Len(x) + Len(y) : (x \o y)[i] = IF i <= Len(x) THEN x[i] ELSE y[i - Len(x)]
    BY <1>2, <1>3, ConcatProperties
  <2>2. Len(x) + Len(y) = Len(k)
    BY <1>0, <1>2, <1>3
  <2>. QED  BY <1>2, <2>1, <2>2
<1>5. \A i \in 1 .. Len(k) : (x \o y)[i] = k[i]
  <2>. SUFFICES ASSUME NEW i \in 1 .. Len(k) PROVE (x \o y)[i] = k[i]
    OBVIOUS
  <2>1. CASE i <= n
    <3>1. i \in 1 .. n
      BY <1>0, <2>1
    <3>. QED  BY <1>2, <1>4, <2>1, <3>1 DEF Differ
  <2>2. CASE ~(i <= n)
    <3>1. i - n \in 1 .. Len(k) - n /\ n + (i - n) = i
      BY <1>0, <2>2
    <3>. QED  BY <1>3, <1>4, <2>2, <3>1
  <2>. QED  BY <2>1, <2>2
<1>6. x \o y = k
  BY <1>4, <1>5, SeqEqual DEF Bytes
<1>. QED  BY <1>0, <1>3, <1>6 DEF x, y, Bytes

\* A key that is added is there, as the value says and after the others.
LEMMA AddIs ==
  ASSUME NEW b, NEW ks, Holds(b, ks), NEW k \in IKey, NEW value \in IKey \cup Nat,
         NEW interval \in Nat
  PROVE  LET c == AddToBlock(b, k, value, interval)
         IN /\ Holds(c, Append(ks, k))
            /\ Len(c.entries) = Len(ks) + 1
            /\ \A i \in 1 .. Len(ks) : c.entries[i] = b.entries[i]
            /\ c.entries[Len(ks) + 1].value = value
            /\ c.counter >= 1
            /\ b.counter >= interval \/ ks = <<>> => c.entries[Len(ks) + 1].delta = k
<1>. DEFINE restart == b.counter >= interval
            shared == IF restart THEN 0 ELSE Common(b.last, k)
            entry == [shared |-> shared, delta |-> SubSeq(k, shared + 1, Len(k)), value |-> value]
            entries == Append(b.entries, entry)
            restarts == IF restart THEN Append(b.restarts, Len(b.entries) + 1) ELSE b.restarts
            counter == IF restart THEN 1 ELSE b.counter + 1
            c == [entries |-> entries, restarts |-> restarts, counter |-> counter, last |-> k]
            n == Len(ks)
            ls == Append(ks, k)
<1>0. /\ n \in Nat /\ Len(b.entries) = n /\ Len(b.restarts) \in Nat /\ Len(b.restarts) >= 1
      /\ b.entries \in Seq(BlockEntry) /\ b.restarts \in Seq(Nat) /\ b.counter \in Nat
      /\ b.last \in Bytes /\ k \in Bytes /\ k \in Seq(Nat) /\ ks \in Seq(IKey) /\ Len(k) \in Nat
      /\ \A i \in 1 .. n : ks[i] \in Bytes
  <2>1. b \in Block /\ ks \in Seq(IKey)
    BY DEF Holds
  <2>2. k \in Seq(Nat) /\ Len(k) \in Nat
    BY DEF IKey
  <2>. QED  BY <2>1, <2>2, HoldsTypes DEF Block, Bytes
<1>1. c = AddToBlock(b, k, value, interval)
  BY DEF AddToBlock
<1>2. /\ shared \in Nat /\ SubSeq(k, shared + 1, Len(k)) \in Bytes
      /\ restart \/ n = 0 => shared = 0 /\ SubSeq(k, shared + 1, Len(k)) = k
      /\ ~restart /\ n # 0 => SubSeq(ks[n], 1, shared) \o SubSeq(k, shared + 1, Len(k)) = k
  <2>1. SubSeq(k, 0 + 1, Len(k)) = k
    BY <1>0, SubSeqFull
  <2>2. CASE restart
    BY <1>0, <2>1, <2>2
  <2>3. CASE ~restart
    <3>1. Differ(b.last, k, shared)
      BY <1>0, <2>3, CommonIs
    <3>. HIDE DEF shared
    <3>2. /\ SubSeq(k, shared + 1, Len(k)) \in Bytes /\ shared \in Nat
          /\ SubSeq(b.last, 1, shared) \o SubSeq(k, shared + 1, Len(k)) = k
      BY <1>0, <3>1, Parts
    <3>3. n = 0 => shared = 0
      <4>1. n = 0 => b.last = <<>>
        BY <1>0, EmptySeq DEF Holds
      <4>. QED  BY <3>1, <4>1 DEF Differ
    <3>4. n # 0 => b.last = ks[n]
      BY EmptySeq DEF Holds
    <3>. QED  BY <2>1, <2>3, <3>2, <3>3, <3>4
  <2>. QED  BY <2>2, <2>3
<1>3. entry \in BlockEntry /\ entry.shared = shared /\ entry.value = value
      /\ entry.delta = SubSeq(k, shared + 1, Len(k))
  BY <1>2 DEF BlockEntry
<1>. HIDE DEF shared, entry
<1>4. /\ entries \in Seq(BlockEntry) /\ Len(entries) = n + 1 /\ entries[n + 1] = entry
      /\ \A i \in 1 .. n : entries[i] = b.entries[i]
  BY <1>0, <1>3, AppendProperties
<1>5. ls \in Seq(IKey) /\ Len(ls) = n + 1 /\ ls[n + 1] = k /\ (\A i \in 1 .. n : ls[i] = ks[i]) /\ ls # <<>>
  BY <1>0, AppendProperties
<1>6. /\ restarts \in Seq(Nat) /\ Len(restarts) \in Nat /\ Len(restarts) >= 1 /\ restarts[1] = 1
      /\ \A r \in 2 .. Len(restarts) :
           \/ r \in 2 .. Len(b.restarts) /\ restarts[r] = b.restarts[r]
           \/ restart /\ restarts[r] = n + 1
  <2>1. CASE restart
    <3>1. n + 1 \in Nat
      BY <1>0
    <3>2. /\ restarts \in Seq(Nat) /\ Len(restarts) = Len(b.restarts) + 1
          /\ \A r \in 1 .. Len(b.restarts) : restarts[r] = b.restarts[r]
          /\ restarts[Len(b.restarts) + 1] = n + 1
      BY <1>0, <2>1, <3>1, AppendProperties
    <3>3. restarts[1] = 1
      <4>1. 1 \in 1 .. Len(b.restarts)
        BY <1>0
      <4>. QED  BY <3>2, <4>1 DEF Holds
    <3>. HIDE DEF restarts
    <3>4. ASSUME NEW r \in 2 .. Len(restarts)
          PROVE  \/ r \in 2 .. Len(b.restarts) /\ restarts[r] = b.restarts[r]
                 \/ restart /\ restarts[r] = n + 1
      <4>1. r \in 2 .. Len(b.restarts) \/ r = Len(b.restarts) + 1
        BY <1>0, <3>2
      <4>2. r \in 2 .. Len(b.restarts) => r \in 1 .. Len(b.restarts)
        BY <1>0
      <4>. QED  BY <2>1, <3>2, <4>1, <4>2
    <3>. QED  BY <1>0, <3>2, <3>3, <3>4
  <2>2. CASE ~restart
    BY <1>0, <2>2 DEF Holds
  <2>. QED  BY <2>1, <2>2
<1>7. counter \in Nat /\ counter >= 1
  BY <1>0
<1>8. /\ c.entries = entries /\ c.restarts = restarts /\ c.counter = counter /\ c.last = k
      /\ c \in Block
  <2>. HIDE DEF entries, restarts, counter
  <2>. QED  BY <1>0, <1>4, <1>6, <1>7 DEF Block
<1>. HIDE DEF c, restarts, counter, entries, ls
<1>9. ASSUME NEW i \in 1 .. n + 1
      PROVE  Whole(c, i, ls[i]) \/ (i > 1 /\ Rest(c, i, ls[i], ls[i - 1]))
  <2>1. CASE i = n + 1
    <3>1. restart \/ n = 0 => Whole(c, i, ls[i])
      BY <1>2, <1>3, <1>4, <1>5, <1>8, <2>1 DEF Whole
    <3>2. ~restart /\ n # 0 => i > 1 /\ Rest(c, i, ls[i], ls[i - 1])
      <4>1. n # 0 => i > 1 /\ i - 1 = n /\ n \in 1 .. n
        BY <1>0, <2>1
      <4>. QED  BY <1>2, <1>3, <1>4, <1>5, <1>8, <2>1, <4>1 DEF Rest
    <3>. QED  BY <3>1, <3>2
  <2>2. CASE i # n + 1
    <3>1. i \in 1 .. n /\ (i > 1 => i - 1 \in 1 .. n)
      BY <1>0, <2>2
    <3>2. Whole(b, i, ks[i]) \/ (i > 1 /\ Rest(b, i, ks[i], ks[i - 1]))
      BY <3>1 DEF Holds
    <3>3. c.entries[i] = b.entries[i] /\ ls[i] = ks[i] /\ (i > 1 => ls[i - 1] = ks[i - 1])
      BY <1>4, <1>5, <1>8, <3>1
    <3>. QED  BY <3>2, <3>3 DEF Whole, Rest
  <2>. QED  BY <2>1, <2>2
<1>10. ASSUME NEW r \in 2 .. Len(restarts)
       PROVE  restarts[r] \in 1 .. n + 1 /\ Whole(c, restarts[r], ls[restarts[r]])
  <2>1. CASE r \in 2 .. Len(b.restarts) /\ restarts[r] = b.restarts[r]
    <3>1. b.restarts[r] \in 1 .. n /\ Whole(b, b.restarts[r], ks[b.restarts[r]])
      BY <2>1 DEF Holds
    <3>. QED  BY <1>0, <1>4, <1>5, <1>8, <2>1, <3>1 DEF Whole
  <2>2. CASE restart /\ restarts[r] = n + 1
    <3>1. Whole(c, n + 1, ls[n + 1])
      BY <1>2, <1>3, <1>4, <1>5, <1>8, <2>2 DEF Whole
    <3>2. n + 1 \in 1 .. n + 1
      BY <1>0
    <3>. QED  BY <2>2, <3>1, <3>2
  <2>. QED  BY <1>6, <2>1, <2>2
<1>11. Holds(c, ls)
  <2>1. c.last = IF ls = <<>> THEN <<>> ELSE ls[Len(ls)]
    BY <1>5, <1>8
  <2>. QED  BY <1>4, <1>5, <1>6, <1>8, <1>9, <1>10, <2>1 DEF Holds
<1>12. b.counter >= interval \/ ks = <<>> => c.entries[n + 1].delta = k
  <2>1. ks = <<>> => n = 0
    BY EmptySeq
  <2>. QED  BY <1>2, <1>3, <1>4, <1>8, <2>1
<1>13. /\ Len(c.entries) = n + 1
       /\ \A i \in 1 .. n : c.entries[i] = b.entries[i]
       /\ c.entries[n + 1].value = value
       /\ c.counter >= 1
  BY <1>3, <1>4, <1>7, <1>8
<1>. QED  BY <1>1, <1>11, <1>12, <1>13 DEF ls, n

-----------------------------------------------------------------------------
(* The blocks of a table, the last one in the builder's hands.              *)

DataKeys(b) == [i \in 1 .. Len(b.entries) |-> b.entries[i].value]
KeysIn(b)   == {b.entries[i].value : i \in 1 .. Len(b.entries)}
IndexKeys(b) == [i \in 1 .. Len(b.entries) |-> b.entries[i].delta]

FileBlock == [block : Block, offset : Nat]

Part(file, data, n) == IF n <= Len(file) THEN file[n].block ELSE data

\* Each block is sorted, and it is before the ones after it.
BlocksOK(file, data, added) ==
  /\ file \in Seq(FileBlock)
  /\ \A n \in 1 .. Len(file) + 1 :
       Holds(Part(file, data, n), DataKeys(Part(file, data, n))) /\ InOrder(DataKeys(Part(file, data, n)))
  /\ \A n \in 1 .. Len(file) : KeysIn(file[n].block) # {}
  /\ \A n, m \in 1 .. Len(file) + 1 : n < m =>
       \A x \in KeysIn(Part(file, data, n)), y \in KeysIn(Part(file, data, m)) : KeyLess(x, y)
  /\ added = UNION {KeysIn(Part(file, data, n)) : n \in 1 .. Len(file) + 1}

\* The key of a block in the index is not before the keys of the block and before those of
\* later ones, with a user key that none of these has unless it is a key of the block.
IndexOK(index, file, data) ==
  /\ Holds(index, IndexKeys(index))
  /\ index.counter >= 1 \/ index.entries = <<>>
  /\ Len(index.entries) <= Len(file)
  /\ \A j \in 1 .. Len(index.entries) :
       /\ index.entries[j].value = j
       /\ \A x \in KeysIn(file[j].block) : ~KeyLess(IndexKeys(index)[j], x)
       /\ \A m \in j + 1 .. Len(file) + 1 : \A y \in KeysIn(Part(file, data, m)) :
            /\ KeyLess(IndexKeys(index)[j], y)
            /\ \/ IndexKeys(index)[j] \in KeysIn(file[j].block)
               \/ StringLess(User(IndexKeys(index)[j]), User(y))

LEMMA HeldKeys ==
  ASSUME NEW b, Holds(b, DataKeys(b))
  PROVE  /\ Len(b.entries) \in Nat /\ Len(DataKeys(b)) = Len(b.entries) /\ KeysIn(b) \subseteq IKey
         /\ KeysIn(b) = {DataKeys(b)[i] : i \in 1 .. Len(DataKeys(b))}
         /\ KeysIn(b) = {} <=> Len(DataKeys(b)) = 0
         /\ \A i \in 1 .. Len(b.entries) : DataKeys(b)[i] = b.entries[i].value /\ DataKeys(b)[i] \in KeysIn(b)
<1>1. Len(DataKeys(b)) = Len(b.entries) /\ Len(b.entries) \in Nat
      /\ \A i \in 1 .. Len(DataKeys(b)) : DataKeys(b)[i] \in IKey
  BY HoldsTypes
<1>2. \A i \in 1 .. Len(b.entries) : DataKeys(b)[i] = b.entries[i].value
  BY DEF DataKeys
<1>3. KeysIn(b) = {DataKeys(b)[i] : i \in 1 .. Len(DataKeys(b))}
  BY <1>1, <1>2 DEF KeysIn
<1>4. KeysIn(b) = {} <=> Len(DataKeys(b)) = 0
  <2>. DEFINE n == Len(DataKeys(b))
  <2>1. n \in Nat /\ (n # 0 => 1 \in 1 .. n) /\ (n = 0 => 1 .. n = {})
    BY <1>1
  <2>2. KeysIn(b) = {DataKeys(b)[i] : i \in 1 .. n}
    BY <1>3
  <2>. HIDE DEF n
  <2>. QED  BY <2>1, <2>2 DEF n
<1>. QED  BY <1>1, <1>2, <1>3, <1>4

LEMMA NothingIn == KeysIn(EmptyBlock) = {} /\ DataKeys(EmptyBlock) = <<>> /\ IndexKeys(EmptyBlock) = <<>>
<1>1. EmptyBlock.entries = <<>> /\ Len(<<>>) = 0 /\ 1 .. 0 = {}
  BY DEF EmptyBlock
<1>2. <<>> = [i \in {} |-> EmptyBlock.entries[i].value] /\ <<>> = [i \in {} |-> EmptyBlock.entries[i].delta]
  <2>1. <<>> \in Seq(IKey) /\ Len(<<>>) = 0
    BY EmptySeq
  <2>2. DOMAIN <<>> = {}
    BY <2>1
  <2>. QED  BY <2>2
<1>. QED  BY <1>1, <1>2 DEF KeysIn, DataKeys, IndexKeys

LEMMA PartsAre ==
  ASSUME NEW file, NEW data, NEW added, BlocksOK(file, data, added)
  PROVE  /\ Len(file) \in Nat
         /\ \A n \in 1 .. Len(file) : Part(file, data, n) = file[n].block /\ file[n].offset \in Nat
         /\ Part(file, data, Len(file) + 1) = data
         /\ \A n \in 1 .. Len(file) + 1 : KeysIn(Part(file, data, n)) \subseteq added
         /\ \A n \in 1 .. Len(file) + 1 : KeysIn(Part(file, data, n)) \subseteq IKey
         /\ \A x \in added : \E n \in 1 .. Len(file) + 1 : x \in KeysIn(Part(file, data, n))
         /\ added \subseteq IKey
         /\ Holds(data, DataKeys(data)) /\ InOrder(DataKeys(data))
<1>1. file \in Seq(FileBlock) /\ Len(file) \in Nat
  BY DEF BlocksOK
<1>2. \A n \in 1 .. Len(file) : Part(file, data, n) = file[n].block /\ file[n].offset \in Nat
  <2>1. \A n \in 1 .. Len(file) : file[n] \in FileBlock /\ n <= Len(file)
    BY <1>1, ElementOfSeq
  <2>. QED  BY <2>1 DEF Part, FileBlock
<1>3. Part(file, data, Len(file) + 1) = data /\ Len(file) + 1 \in 1 .. Len(file) + 1
  BY <1>1 DEF Part
<1>4. \A n \in 1 .. Len(file) + 1 : KeysIn(Part(file, data, n)) \subseteq IKey
  BY HeldKeys DEF BlocksOK
<1>5. Holds(data, DataKeys(data)) /\ InOrder(DataKeys(data))
  BY <1>3 DEF BlocksOK
<1>6. added = UNION {KeysIn(Part(file, data, n)) : n \in 1 .. Len(file) + 1}
  BY DEF BlocksOK
<1>. QED  BY <1>1, <1>2, <1>3, <1>4, <1>5, <1>6

\* A greater key is added to the block in hand.
LEMMA DataAdd ==
  ASSUME NEW b, Holds(b, DataKeys(b)), InOrder(DataKeys(b)), NEW k \in IKey,
         \A x \in KeysIn(b) : KeyLess(x, k), RestartInterval \in Nat
  PROVE  LET c == AddToBlock(b, k, k, RestartInterval)
         IN /\ Holds(c, DataKeys(c)) /\ InOrder(DataKeys(c)) /\ KeysIn(c) = KeysIn(b) \cup {k}
<1>. DEFINE c == AddToBlock(b, k, k, RestartInterval)
            ks == DataKeys(b)
            n == Len(ks)
            ls == Append(ks, k)
<1>1. /\ n \in Nat /\ ks \in Seq(IKey) /\ Len(b.entries) = n /\ KeysIn(b) = {ks[i] : i \in 1 .. n}
      /\ \A i \in 1 .. n : ks[i] = b.entries[i].value /\ ks[i] \in KeysIn(b)
  BY HeldKeys DEF Holds
<1>2. /\ Holds(c, ls)
      /\ Len(c.entries) = n + 1
      /\ \A i \in 1 .. n : c.entries[i] = b.entries[i]
      /\ c.entries[n + 1].value = k
  BY AddIs
<1>. HIDE DEF c, ks
<1>3. ls \in Seq(IKey) /\ Len(ls) = n + 1 /\ ls[n + 1] = k /\ \A i \in 1 .. n : ls[i] = ks[i]
  BY <1>1, AppendProperties
<1>. HIDE DEF ls
<1>. HIDE DEF n
<1>4. \A i \in 1 .. n + 1 : c.entries[i].value = ls[i]
  <2>. SUFFICES ASSUME NEW i \in 1 .. n + 1 PROVE c.entries[i].value = ls[i]
    OBVIOUS
  <2>1. i \in 1 .. n \/ i = n + 1
    BY <1>1
  <2>. QED  BY <1>1, <1>2, <1>3, <2>1
<1>5. DataKeys(c) = ls
  <2>1. DOMAIN ls = 1 .. n + 1 /\ ls = [i \in 1 .. n + 1 |-> ls[i]]
    BY <1>1, <1>3, LenProperties
  <2>. QED  BY <1>2, <1>4, <2>1 DEF DataKeys
<1>6. InOrder(ls)
  <2>. SUFFICES ASSUME NEW i \in 1 .. n + 1, NEW j \in 1 .. n + 1, i < j
                PROVE  KeyLess(ls[i], ls[j])
    BY <1>3 DEF InOrder
  <2>1. i \in 1 .. n
    BY <1>1
  <2>2. CASE j = n + 1
    BY <1>1, <1>3, <2>1, <2>2
  <2>3. CASE j # n + 1
    <3>1. j \in 1 .. n
      BY <1>1, <2>3
    <3>. QED  BY <1>3, <2>1, <3>1 DEF InOrder, n, ks
  <2>. QED  BY <2>2, <2>3
<1>7. KeysIn(c) = KeysIn(b) \cup {k}
  <2>1. KeysIn(c) = {ls[i] : i \in 1 .. n + 1}
    BY <1>2, <1>4 DEF KeysIn
  <2>2. \A i : i \in 1 .. n + 1 <=> i \in 1 .. n \/ i = n + 1
    BY <1>1
  <2>. QED  BY <1>1, <1>3, <2>1, <2>2
<1>. QED  BY <1>2, <1>5, <1>6, <1>7 DEF c

LEMMA BlocksAdd ==
  ASSUME RestartInterval \in Nat, NEW file, NEW data, NEW added, BlocksOK(file, data, added),
         NEW k \in IKey, \A x \in added : KeyLess(x, k)
  PROVE  LET c == AddToBlock(data, k, k, RestartInterval)
         IN BlocksOK(file, c, added \cup {k}) /\ KeysIn(c) = KeysIn(data) \cup {k}
<1>. DEFINE c == AddToBlock(data, k, k, RestartInterval)
            N == Len(file)
<1>1. /\ N \in Nat
      /\ \A n \in 1 .. N : Part(file, data, n) = file[n].block
      /\ Part(file, data, N + 1) = data
      /\ \A n \in 1 .. N + 1 : KeysIn(Part(file, data, n)) \subseteq added
      /\ Holds(data, DataKeys(data)) /\ InOrder(DataKeys(data))
  BY PartsAre
<1>2. KeysIn(data) \subseteq added
  <2>1. N + 1 \in 1 .. N + 1
    BY <1>1
  <2>. QED  BY <1>1, <2>1
<1>3. Holds(c, DataKeys(c)) /\ InOrder(DataKeys(c)) /\ KeysIn(c) = KeysIn(data) \cup {k}
  BY <1>1, <1>2, DataAdd
<1>. HIDE DEF c
<1>4. \A n \in 1 .. N : Part(file, c, n) = file[n].block
  BY DEF Part
<1>5. Part(file, c, N + 1) = c
  BY <1>1 DEF Part
<1>6. \A n \in 1 .. N + 1 : n \in 1 .. N \/ n = N + 1
  BY <1>1
<1>7. \A n \in 1 .. N + 1 :
        Holds(Part(file, c, n), DataKeys(Part(file, c, n))) /\ InOrder(DataKeys(Part(file, c, n)))
  <2>. SUFFICES ASSUME NEW n \in 1 .. N + 1
                PROVE  Holds(Part(file, c, n), DataKeys(Part(file, c, n))) /\ InOrder(DataKeys(Part(file, c, n)))
    OBVIOUS
  <2>1. n \in 1 .. N => Part(file, c, n) = Part(file, data, n)
    BY <1>1, <1>4
  <2>. QED  BY <1>3, <1>5, <1>6, <2>1 DEF BlocksOK
<1>8. ASSUME NEW n \in 1 .. N + 1, NEW m \in 1 .. N + 1, n < m,
             NEW x \in KeysIn(Part(file, c, n)), NEW y \in KeysIn(Part(file, c, m))
      PROVE  KeyLess(x, y)
  <2>1. n \in 1 .. N /\ Part(file, c, n) = Part(file, data, n) /\ x \in added
    <3>1. n \in 1 .. N
      BY <1>1, <1>8
    <3>. QED  BY <1>1, <1>4, <3>1
  <2>2. CASE m = N + 1 /\ y = k
    BY <2>1, <2>2
  <2>3. CASE ~(m = N + 1 /\ y = k)
    <3>1. y \in KeysIn(Part(file, data, m))
      BY <1>1, <1>3, <1>4, <1>5, <1>6, <2>3
    <3>. QED  BY <1>8, <2>1, <3>1 DEF BlocksOK
  <2>. QED  BY <2>2, <2>3
<1>9. added \cup {k} = UNION {KeysIn(Part(file, c, n)) : n \in 1 .. N + 1}
  <2>1. added = UNION {KeysIn(Part(file, data, n)) : n \in 1 .. N + 1}
    BY DEF BlocksOK
  <2>2. \A n \in 1 .. N + 1 : KeysIn(Part(file, c, n)) = IF n = N + 1 THEN KeysIn(Part(file, data, n)) \cup {k}
                                                          ELSE KeysIn(Part(file, data, n))
    <3>. SUFFICES ASSUME NEW n \in 1 .. N + 1
                  PROVE  KeysIn(Part(file, c, n)) = IF n = N + 1 THEN KeysIn(Part(file, data, n)) \cup {k}
                                                    ELSE KeysIn(Part(file, data, n))
      OBVIOUS
    <3>1. CASE n = N + 1
      BY <1>1, <1>3, <1>5, <3>1
    <3>2. CASE n # N + 1
      BY <1>1, <1>4, <1>6, <3>2
    <3>. QED  BY <3>1, <3>2
  <2>3. N + 1 \in 1 .. N + 1
    BY <1>1
  <2>. QED  BY <2>1, <2>2, <2>3
<1>10. file \in Seq(FileBlock) /\ \A n \in 1 .. N : KeysIn(file[n].block) # {}
  BY DEF BlocksOK
<1>11. BlocksOK(file, c, added \cup {k})
  BY <1>7, <1>8, <1>9, <1>10 DEF BlocksOK
<1>. QED  BY <1>3, <1>11 DEF c

\* The block in hand goes to the file and there is an empty one.
LEMMA PartsFlushed ==
  ASSUME NEW file \in Seq(FileBlock), NEW data \in Block, NEW offset \in Nat
  PROVE  LET f == Append(file, [block |-> data, offset |-> offset])
         IN /\ f \in Seq(FileBlock) /\ Len(f) = Len(file) + 1 /\ Len(file) \in Nat
            /\ f[Len(file) + 1] = [block |-> data, offset |-> offset]
            /\ \A n \in 1 .. Len(file) : f[n] = file[n]
            /\ \A n \in 1 .. Len(file) + 1 : Part(f, EmptyBlock, n) = Part(file, data, n)
            /\ Part(f, EmptyBlock, Len(file) + 2) = EmptyBlock
<1>. DEFINE e == [block |-> data, offset |-> offset]
            f == Append(file, e)
            N == Len(file)
<1>1. e \in FileBlock /\ e.block = data /\ N \in Nat
  BY DEF FileBlock
<1>. HIDE DEF e
<1>2. f \in Seq(FileBlock) /\ Len(f) = N + 1 /\ f[N + 1] = e /\ \A n \in 1 .. N : f[n] = file[n]
  BY <1>1, AppendProperties
<1>. HIDE DEF f
<1>3. \A n \in 1 .. N + 1 : Part(f, EmptyBlock, n) = Part(file, data, n)
  <2>. SUFFICES ASSUME NEW n \in 1 .. N + 1 PROVE Part(f, EmptyBlock, n) = Part(file, data, n)
    OBVIOUS
  <2>1. CASE n = N + 1
    BY <1>1, <1>2, <2>1 DEF Part
  <2>2. CASE n # N + 1
    <3>1. n \in 1 .. N
      BY <1>1, <2>2
    <3>. QED  BY <1>1, <1>2, <3>1 DEF Part
  <2>. QED  BY <2>1, <2>2
<1>4. Part(f, EmptyBlock, N + 2) = EmptyBlock
  BY <1>1, <1>2 DEF Part
<1>. QED  BY <1>1, <1>2, <1>3, <1>4 DEF e, f

LEMMA BlocksFlush ==
  ASSUME NEW file, NEW data, NEW added, BlocksOK(file, data, added), KeysIn(data) # {},
         NEW offset \in Nat
  PROVE  BlocksOK(Append(file, [block |-> data, offset |-> offset]), EmptyBlock, added)
<1>. DEFINE f == Append(file, [block |-> data, offset |-> offset])
            N == Len(file)
<1>1. /\ f \in Seq(FileBlock) /\ Len(f) = N + 1 /\ N \in Nat
      /\ f[N + 1] = [block |-> data, offset |-> offset]
      /\ \A n \in 1 .. N : f[n] = file[n]
      /\ \A n \in 1 .. N + 1 : Part(f, EmptyBlock, n) = Part(file, data, n)
      /\ Part(f, EmptyBlock, N + 2) = EmptyBlock
  <2>1. file \in Seq(FileBlock)
    BY DEF BlocksOK
  <2>2. data \in Block
    BY PartsAre DEF Holds
  <2>. QED  BY <2>1, <2>2, PartsFlushed
<1>. HIDE DEF f
<1>2. \A n \in 1 .. Len(f) + 1 : n \in 1 .. N + 1 \/ n = N + 2
  BY <1>1
<1>3. ASSUME NEW n \in 1 .. Len(f) + 1
      PROVE  /\ Holds(Part(f, EmptyBlock, n), DataKeys(Part(f, EmptyBlock, n)))
             /\ InOrder(DataKeys(Part(f, EmptyBlock, n)))
  <2>1. CASE n = N + 2
    <3>1. InOrder(<<>>)
      BY EmptySeq DEF InOrder
    <3>. QED  BY <1>1, <2>1, <3>1, EmptyHolds, NothingIn
  <2>2. CASE n \in 1 .. N + 1
    BY <1>1, <2>2 DEF BlocksOK
  <2>. QED  BY <1>2, <2>1, <2>2
<1>4. ASSUME NEW n \in 1 .. Len(f) PROVE KeysIn(f[n].block) # {}
  <2>1. CASE n = N + 1
    BY <1>1, <2>1
  <2>2. CASE n # N + 1
    <3>1. n \in 1 .. N
      BY <1>1, <2>2
    <3>. QED  BY <1>1, <3>1 DEF BlocksOK
  <2>. QED  BY <2>1, <2>2
<1>5. ASSUME NEW n \in 1 .. Len(f) + 1, NEW m \in 1 .. Len(f) + 1, n < m,
             NEW x \in KeysIn(Part(f, EmptyBlock, n)), NEW y \in KeysIn(Part(f, EmptyBlock, m))
      PROVE  KeyLess(x, y)
  <2>1. m \in 1 .. N + 1
    BY <1>1, <1>2, NothingIn
  <2>2. n \in 1 .. N + 1
    BY <1>1, <1>2, NothingIn
  <2>. QED  BY <1>1, <1>5, <2>1, <2>2 DEF BlocksOK
<1>6. added = UNION {KeysIn(Part(f, EmptyBlock, n)) : n \in 1 .. Len(f) + 1}
  <2>1. added = UNION {KeysIn(Part(file, data, n)) : n \in 1 .. N + 1}
    BY DEF BlocksOK
  <2>2. \A n \in 1 .. N + 1 : n \in 1 .. Len(f) + 1
    BY <1>1
  <2>. QED  BY <1>1, <1>2, <2>1, <2>2, NothingIn
<1>7. BlocksOK(f, EmptyBlock, added)
  BY <1>1, <1>3, <1>4, <1>5, <1>6 DEF BlocksOK
<1>. QED  BY <1>7 DEF f

-----------------------------------------------------------------------------
(* The index.                                                               *)

LEMMA IndexKeysAre ==
  ASSUME NEW index, NEW file, NEW data, IndexOK(index, file, data)
  PROVE  /\ Len(index.entries) \in Nat /\ Len(IndexKeys(index)) = Len(index.entries)
         /\ \A j \in 1 .. Len(index.entries) : IndexKeys(index)[j] \in IKey
         /\ \A j \in 1 .. Len(index.entries) : IndexKeys(index)[j] = index.entries[j].delta
<1>1. Holds(index, IndexKeys(index))
  BY DEF IndexOK
<1>2. Len(index.entries) \in Nat /\ Len(IndexKeys(index)) = Len(index.entries)
      /\ \A j \in 1 .. Len(IndexKeys(index)) : IndexKeys(index)[j] \in IKey
  BY <1>1, HoldsTypes
<1>. QED  BY <1>2 DEF IndexKeys

\* A key with a smaller user key than one also has a smaller one than those after it.
LEMMA UserBelow ==
  ASSUME NEW i \in IKey, NEW z \in IKey, NEW k \in IKey, ~KeyLess(k, z)
  PROVE  /\ StringLess(User(i), User(z)) => StringLess(User(i), User(k))
         /\ KeyLess(i, z) => KeyLess(i, k)
<1>1. User(i) \in Bytes /\ User(z) \in Bytes /\ User(k) \in Bytes
  BY KeyParts
<1>2. ~StringLess(User(k), User(z))
  BY DEF KeyLess
<1>3. User(k) = User(z) \/ StringLess(User(z), User(k))
  BY <1>1, <1>2, StringOrder
<1>4. k = z \/ KeyLess(z, k)
  BY KeyOrder
<1>5. StringLess(User(i), User(z)) /\ StringLess(User(z), User(k)) => StringLess(User(i), User(k))
  BY <1>1, StringOrder
<1>6. KeyLess(i, z) /\ KeyLess(z, k) => KeyLess(i, k)
  BY KeyOrder
<1>. QED  BY <1>3, <1>4, <1>5, <1>6

LEMMA IndexAdd ==
  ASSUME NEW file, NEW data, NEW added, BlocksOK(file, data, added),
         NEW index, IndexOK(index, file, data), NEW k \in IKey, \A x \in added : KeyLess(x, k),
         Len(index.entries) < Len(file) \/ KeysIn(data) # {} \/ Len(file) = 0,
         NEW c, KeysIn(c) = KeysIn(data) \cup {k}
  PROVE  IndexOK(index, file, c)
<1>. DEFINE N == Len(file)
            I == IndexKeys(index)
<1>0. /\ N \in Nat /\ Len(index.entries) \in Nat /\ Len(index.entries) <= N
      /\ \A n \in 1 .. N : Part(file, data, n) = file[n].block /\ Part(file, c, n) = file[n].block
      /\ Part(file, data, N + 1) = data /\ Part(file, c, N + 1) = c
      /\ \A n \in 1 .. N + 1 : KeysIn(Part(file, data, n)) \subseteq added
      /\ added \subseteq IKey
      /\ \A j \in 1 .. Len(index.entries) : I[j] \in IKey
  <2>1. N \in Nat
    BY PartsAre
  <2>2. \A n \in 1 .. N : Part(file, c, n) = file[n].block
    BY DEF Part
  <2>3. Part(file, c, N + 1) = c
    BY <2>1 DEF Part
  <2>4. Len(index.entries) <= N
    BY DEF IndexOK
  <2>. QED  BY <2>2, <2>3, <2>4, PartsAre, IndexKeysAre
<1>. HIDE DEF I
<1>1. ASSUME NEW j \in 1 .. Len(index.entries), NEW m \in j + 1 .. N + 1, NEW y \in KeysIn(Part(file, c, m))
      PROVE  KeyLess(I[j], y) /\ (I[j] \in KeysIn(file[j].block) \/ StringLess(User(I[j]), User(y)))
  <2>0. \A p \in j + 1 .. N + 1 : \A z \in KeysIn(Part(file, data, p)) :
          KeyLess(I[j], z) /\ (I[j] \in KeysIn(file[j].block) \/ StringLess(User(I[j]), User(z)))
    BY DEF IndexOK, I
  <2>1. CASE m = N + 1 /\ y = k
    <3>1. PICK p \in j + 1 .. N + 1 : KeysIn(Part(file, data, p)) # {}
      <4>1. CASE j + 1 <= N
        <5>1. j + 1 \in j + 1 .. N + 1 /\ j + 1 \in 1 .. N
          BY <1>0, <4>1
        <5>2. KeysIn(file[j + 1].block) # {}
          BY <5>1 DEF BlocksOK
        <5>. QED  BY <1>0, <5>1, <5>2
      <4>2. CASE ~(j + 1 <= N)
        <5>1. N # 0 /\ Len(index.entries) = N /\ N + 1 \in j + 1 .. N + 1
          BY <1>0, <4>2
        <5>. QED  BY <1>0, <5>1
      <4>. QED  BY <4>1, <4>2
    <3>2. PICK z \in KeysIn(Part(file, data, p)) : TRUE
      BY <3>1
    <3>3. z \in added /\ z \in IKey /\ KeyLess(z, k)
      <4>1. p \in 1 .. N + 1
        BY <1>0
      <4>. QED  BY <1>0, <3>2, <4>1
    <3>4. ~KeyLess(k, z)
      BY <3>3, KeyOrder
    <3>5. I[j] \in IKey
      BY <1>0
    <3>. QED  BY <2>0, <2>1, <3>2, <3>3, <3>4, <3>5, UserBelow
  <2>2. CASE ~(m = N + 1 /\ y = k)
    <3>1. m \in 1 .. N \/ m = N + 1
      BY <1>0
    <3>2. y \in KeysIn(Part(file, data, m))
      BY <1>0, <2>2, <3>1
    <3>. QED  BY <2>0, <3>2
  <2>. QED  BY <2>1, <2>2
<1>2. \A j \in 1 .. Len(index.entries) :
        index.entries[j].value = j /\ \A x \in KeysIn(file[j].block) : ~KeyLess(I[j], x)
  BY DEF IndexOK, I
<1>3. /\ Holds(index, IndexKeys(index)) /\ (index.counter >= 1 \/ index.entries = <<>>)
      /\ Len(index.entries) <= N
  BY DEF IndexOK
<1>. QED  BY <1>1, <1>2, <1>3 DEF IndexOK, I

LEMMA IndexPending ==
  ASSUME NEW file, NEW data, NEW added, BlocksOK(file, data, added),
         NEW index, IndexOK(index, file, data), Len(file) > 0, Len(index.entries) = Len(file) - 1,
         NEW sep \in IKey, \A x \in KeysIn(file[Len(file)].block) : ~KeyLess(sep, x),
         \A y \in KeysIn(data) :
           KeyLess(sep, y) /\ (sep \in KeysIn(file[Len(file)].block) \/ StringLess(User(sep), User(y)))
  PROVE  LET new == AddToBlock(index, sep, Len(file), 1)
         IN IndexOK(new, file, data) /\ Len(new.entries) = Len(file)
<1>. DEFINE new == AddToBlock(index, sep, Len(file), 1)
            I == IndexKeys(index)
            J == Append(I, sep)
            n == Len(index.entries)
            N == Len(file)
<1>0. /\ N \in Nat /\ n \in Nat /\ N = n + 1 /\ Len(I) = n /\ I \in Seq(IKey)
      /\ (\A j \in 1 .. n : I[j] = index.entries[j].delta)
      /\ Part(file, data, N + 1) = data
      /\ Holds(index, I) /\ (index.counter >= 1 \/ index.entries = <<>>)
  <2>1. Holds(index, I) /\ (index.counter >= 1 \/ index.entries = <<>>)
    BY DEF IndexOK
  <2>2. I \in Seq(IKey)
    BY <2>1 DEF Holds
  <2>3. N \in Nat /\ Part(file, data, N + 1) = data
    BY PartsAre
  <2>4. n \in Nat /\ Len(I) = n /\ \A j \in 1 .. n : I[j] = index.entries[j].delta
    BY IndexKeysAre
  <2>. QED  BY <2>1, <2>2, <2>3, <2>4
<1>1. index.counter >= 1 \/ I = <<>>
  <2>1. index.entries = <<>> => n = 0
    OBVIOUS
  <2>. HIDE DEF I
  <2>. QED  BY <1>0, <2>1, EmptySeq
<1>. HIDE DEF I, n
<1>2. /\ Holds(new, J) /\ Len(new.entries) = n + 1
      /\ \A j \in 1 .. n : new.entries[j] = index.entries[j]
      /\ new.entries[n + 1].value = N /\ new.counter >= 1
      /\ new.entries[n + 1].delta = sep
  <2>1. /\ Holds(new, Append(I, sep))
        /\ Len(new.entries) = Len(I) + 1
        /\ \A i \in 1 .. Len(I) : new.entries[i] = index.entries[i]
        /\ new.entries[Len(I) + 1].value = N
        /\ new.counter >= 1
        /\ index.counter >= 1 \/ I = <<>> => new.entries[Len(I) + 1].delta = sep
    <3>1. Holds(index, I) /\ N \in IKey \cup Nat /\ 1 \in Nat
      BY <1>0
    <3>. HIDE DEF N
    <3>2. LET c == AddToBlock(index, sep, N, 1)
          IN /\ Holds(c, Append(I, sep))
             /\ Len(c.entries) = Len(I) + 1
             /\ \A i \in 1 .. Len(I) : c.entries[i] = index.entries[i]
             /\ c.entries[Len(I) + 1].value = N
             /\ c.counter >= 1
             /\ index.counter >= 1 \/ I = <<>> => c.entries[Len(I) + 1].delta = sep
      BY <3>1, AddIs
    <3>. QED  BY <3>2 DEF N
  <2>. QED  BY <1>0, <1>1, <2>1
<1>. HIDE DEF new
<1>3. J \in Seq(IKey) /\ Len(J) = n + 1 /\ J[n + 1] = sep /\ \A j \in 1 .. n : J[j] = I[j]
  BY <1>0, AppendProperties
<1>. HIDE DEF J
<1>4. \A j \in 1 .. n + 1 : new.entries[j].delta = J[j] /\ new.entries[j].value = j
  <2>. SUFFICES ASSUME NEW j \in 1 .. n + 1 PROVE new.entries[j].delta = J[j] /\ new.entries[j].value = j
    OBVIOUS
  <2>1. CASE j = n + 1
    BY <1>0, <1>2, <1>3, <2>1
  <2>2. CASE j # n + 1
    <3>1. j \in 1 .. n
      BY <1>0, <2>2
    <3>2. index.entries[j].value = j
      BY <3>1 DEF IndexOK, n
    <3>. QED  BY <1>0, <1>2, <1>3, <3>1, <3>2
  <2>. QED  BY <2>1, <2>2
<1>5. IndexKeys(new) = J
  <2>1. J = [j \in 1 .. n + 1 |-> J[j]]
    BY <1>0, <1>3, LenProperties
  <2>. QED  BY <1>2, <1>4, <2>1 DEF IndexKeys
<1>6. ASSUME NEW j \in 1 .. n + 1
      PROVE  /\ \A x \in KeysIn(file[j].block) : ~KeyLess(J[j], x)
             /\ \A m \in j + 1 .. N + 1 : \A y \in KeysIn(Part(file, data, m)) :
                  KeyLess(J[j], y) /\ (J[j] \in KeysIn(file[j].block) \/ StringLess(User(J[j]), User(y)))
  <2>1. CASE j = n + 1
    <3>1. J[j] = sep /\ j = N
      BY <1>0, <1>3, <2>1
    <3>2. \A m \in j + 1 .. N + 1 : Part(file, data, m) = data
      <4>1. \A m \in j + 1 .. N + 1 : m = N + 1
        BY <1>0, <3>1
      <4>. QED  BY <1>0, <4>1
    <3>. QED  BY <3>1, <3>2
  <2>2. CASE j # n + 1
    <3>1. j \in 1 .. n
      BY <1>0, <2>2
    <3>2. J[j] = I[j]
      BY <1>3, <3>1
    <3>. QED  BY <3>1, <3>2 DEF IndexOK, I, n
  <2>. QED  BY <2>1, <2>2
<1>7. IndexOK(new, file, data)
  BY <1>0, <1>2, <1>4, <1>5, <1>6 DEF IndexOK
<1>8. Len(new.entries) = Len(file)
  BY <1>0, <1>2
<1>. QED  BY <1>7, <1>8 DEF new

LEMMA IndexFlush ==
  ASSUME NEW file, NEW data, NEW added, BlocksOK(file, data, added),
         NEW index, IndexOK(index, file, data), NEW offset \in Nat
  PROVE  IndexOK(index, Append(file, [block |-> data, offset |-> offset]), EmptyBlock)
<1>. DEFINE f == Append(file, [block |-> data, offset |-> offset])
            N == Len(file)
<1>1. /\ Len(f) = N + 1 /\ N \in Nat
      /\ \A n \in 1 .. N : f[n] = file[n]
      /\ \A n \in 1 .. N + 1 : Part(f, EmptyBlock, n) = Part(file, data, n)
      /\ Part(f, EmptyBlock, N + 2) = EmptyBlock
  <2>1. file \in Seq(FileBlock)
    BY DEF BlocksOK
  <2>2. data \in Block
    BY PartsAre DEF Holds
  <2>. QED  BY <2>1, <2>2, PartsFlushed
<1>. HIDE DEF f
<1>2. Len(index.entries) \in Nat /\ Len(index.entries) <= N
  BY IndexKeysAre DEF IndexOK
<1>3. ASSUME NEW j \in 1 .. Len(index.entries)
      PROVE  /\ f[j] = file[j]
             /\ \A m \in j + 1 .. Len(f) + 1 : \A y \in KeysIn(Part(f, EmptyBlock, m)) :
                  m \in j + 1 .. N + 1 /\ y \in KeysIn(Part(file, data, m))
  <2>1. j \in 1 .. N
    BY <1>1, <1>2
  <2>2. ASSUME NEW m \in j + 1 .. Len(f) + 1, NEW y \in KeysIn(Part(f, EmptyBlock, m))
        PROVE  m \in j + 1 .. N + 1 /\ y \in KeysIn(Part(file, data, m))
    <3>1. m # N + 2
      BY <1>1, NothingIn
    <3>2. m \in j + 1 .. N + 1 /\ m \in 1 .. N + 1
      BY <1>1, <2>1, <3>1
    <3>. QED  BY <1>1, <3>2
  <2>. QED  BY <1>1, <2>1, <2>2
<1>4. IndexOK(index, f, EmptyBlock)
  <2>1. Len(index.entries) <= Len(f)
    BY <1>1, <1>2
  <2>. QED  BY <1>3, <2>1 DEF IndexOK
<1>. QED  BY <1>4 DEF f

\* The index is sorted: between two of its keys there is a key of a block.
LEMMA IndexInOrder ==
  ASSUME NEW file, NEW data, NEW added, BlocksOK(file, data, added),
         NEW index, IndexOK(index, file, data)
  PROVE  InOrder(IndexKeys(index))
<1>. DEFINE I == IndexKeys(index)
            n == Len(index.entries)
<1>0. n \in Nat /\ Len(I) = n /\ n <= Len(file) /\ Len(file) \in Nat /\ \A j \in 1 .. n : I[j] \in IKey
  <2>1. n <= Len(file)
    BY DEF IndexOK
  <2>2. Len(file) \in Nat
    BY PartsAre
  <2>3. n \in Nat /\ Len(I) = n /\ \A j \in 1 .. n : I[j] \in IKey
    BY IndexKeysAre
  <2>. QED  BY <2>1, <2>2, <2>3
<1>1. ASSUME NEW i \in 1 .. n, NEW j \in 1 .. n, i < j PROVE KeyLess(I[i], I[j])
  <2>1. j \in 1 .. Len(file) /\ j \in i + 1 .. Len(file) + 1
    BY <1>0, <1>1
  <2>2. PICK y \in KeysIn(file[j].block) : TRUE
    BY <2>1 DEF BlocksOK
  <2>3. y \in KeysIn(Part(file, data, j)) /\ y \in IKey
    <3>1. j \in 1 .. Len(file) + 1
      BY <1>0, <2>1
    <3>. QED  BY <2>1, <2>2, <3>1, PartsAre
  <2>4. KeyLess(I[i], y) /\ ~KeyLess(I[j], y)
    BY <2>1, <2>2, <2>3 DEF IndexOK
  <2>. HIDE DEF I
  <2>. QED  BY <1>0, <2>3, <2>4, UserBelow
<1>. QED  BY <1>0, <1>1 DEF InOrder

-----------------------------------------------------------------------------
(* The filters.                                                             *)

FilterBuilder == [filters : Seq(SUBSET Bytes), keys : SUBSET Bytes]

\* The filter for a part of the file, or what it is going to be made from.
FilterAt(f, q) == IF q < Len(f.filters) THEN f.filters[q + 1] ELSE f.keys

FiltersOK(f, file, data, offset) ==
  /\ f \in FilterBuilder /\ offset \in Nat /\ Len(f.filters) = offset \div FilterBase
  /\ \A n \in 1 .. Len(file) :
       /\ file[n].offset \div FilterBase \in 0 .. Len(f.filters)
       /\ \A x \in KeysIn(file[n].block) : User(x) \in FilterAt(f, file[n].offset \div FilterBase)
  /\ \A x \in KeysIn(data) : User(x) \in f.keys

\* And when there is nothing more to come.
FilteredOK(f, file) ==
  \A n \in 1 .. Len(file) :
    LET q == file[n].offset \div FilterBase
    IN q + 1 <= Len(f.filters) => \A x \in KeysIn(file[n].block) : User(x) \in f.filters[q + 1]

LEMMA DivIs ==
  ASSUME NEW a \in Nat, NEW f \in Nat \ {0}
  PROVE  a \div f \in Nat /\ f * (a \div f) <= a /\ a < f * (a \div f + 1)
OBVIOUS

LEMMA ProductGrows ==
  ASSUME NEW p \in Nat, NEW q \in Nat, NEW f \in Nat \ {0}, q < p
  PROVE  f * (q + 1) <= f * p
OBVIOUS

LEMMA DivGrows ==
  ASSUME NEW a \in Nat, NEW b \in Nat, a <= b, NEW f \in Nat \ {0}
  PROVE  a \div f <= b \div f
<1>. DEFINE p == a \div f
            q == b \div f
<1>1. p \in Nat /\ q \in Nat /\ f * p <= a /\ b < f * (q + 1)
  BY DivIs
<1>. HIDE DEF p, q
<1>2. q < p => f * (q + 1) <= f * p
  BY <1>1, ProductGrows
<1>3. f * p \in Nat /\ f * (q + 1) \in Nat
  BY <1>1
<1>. QED  BY <1>1, <1>2, <1>3 DEF p, q

LEMMA FilterAdd ==
  ASSUME NEW f, NEW file, NEW data, NEW offset, FiltersOK(f, file, data, offset),
         NEW k \in IKey, NEW c, KeysIn(c) = KeysIn(data) \cup {k}
  PROVE  FiltersOK([f EXCEPT !.keys = @ \cup {User(k)}], file, c, offset)
<1>. DEFINE u == User(k)
            g == [f EXCEPT !.keys = @ \cup {u}]
<1>0. u \in Bytes /\ f \in FilterBuilder
  BY KeyParts DEF FiltersOK
<1>. HIDE DEF u
<1>1. g \in FilterBuilder /\ g.filters = f.filters /\ g.keys = f.keys \cup {u}
  BY <1>0 DEF FilterBuilder
<1>. HIDE DEF g
<1>2. \A q : FilterAt(f, q) \subseteq FilterAt(g, q)
  BY <1>1 DEF FilterAt
<1>3. FiltersOK(g, file, c, offset)
  BY <1>1, <1>2 DEF FiltersOK, u
<1>. QED  BY <1>3 DEF g, u

LEMMA StartBlockIs ==
  ASSUME NEW f \in FilterBuilder, NEW o \in Nat, FilterBase \in Nat \ {0},
         o \div FilterBase >= Len(f.filters)
  PROVE  /\ StartBlock(f, o) \in FilterBuilder
         /\ Len(StartBlock(f, o).filters) = o \div FilterBase
         /\ \A q \in 0 .. Len(f.filters) : FilterAt(StartBlock(f, o), q) = FilterAt(f, q)
<1>. DEFINE L == Len(f.filters)
            p == o \div FilterBase
            missing == p - L
            rest == [i \in 1 .. missing - 1 |-> {}]
            filters == Append(f.filters, f.keys) \o rest
<1>0. p \in Nat /\ L \in Nat /\ f.filters \in Seq(SUBSET Bytes) /\ f.keys \in SUBSET Bytes /\ missing >= 0
  BY DivIs DEF FilterBuilder
<1>. HIDE DEF p
<1>1. CASE missing = 0
  BY <1>0, <1>1 DEF StartBlock, p
<1>2. CASE missing > 0
  <2>1. StartBlock(f, o) = [filters |-> filters, keys |-> {}]
    BY <1>0, <1>2 DEF StartBlock, p
  <2>2. rest \in Seq(SUBSET Bytes) /\ Len(rest) = missing - 1
    <3>1. missing - 1 \in Nat
      BY <1>0, <1>2
    <3>. HIDE DEF missing
    <3>2. rest \in [1 .. missing - 1 -> SUBSET Bytes]
      OBVIOUS
    <3>. HIDE DEF rest
    <3>3. rest \in Seq(SUBSET Bytes)
      BY <3>1, <3>2, SeqDef
    <3>. QED  BY <3>1, <3>2, <3>3, LenProperties
  <2>. HIDE DEF rest
  <2>. DEFINE a == Append(f.filters, f.keys)
  <2>3. a \in Seq(SUBSET Bytes) /\ Len(a) = L + 1 /\ a[L + 1] = f.keys /\ \A i \in 1 .. L : a[i] = f.filters[i]
    BY <1>0, AppendProperties
  <2>. HIDE DEF a
  <2>4. /\ filters \in Seq(SUBSET Bytes) /\ Len(filters) = Len(a) + Len(rest)
        /\ \A i \in 1 .. Len(a) + Len(rest) : filters[i] = IF i <= Len(a) THEN a[i] ELSE rest[i - Len(a)]
    <3>1. /\ a \o rest \in Seq(SUBSET Bytes) /\ Len(a \o rest) = Len(a) + Len(rest)
          /\ \A i \in 1 .. Len(a) + Len(rest) : (a \o rest)[i] = IF i <= Len(a) THEN a[i] ELSE rest[i - Len(a)]
      BY <2>2, <2>3, ConcatProperties
    <3>2. filters = a \o rest
      BY DEF a
    <3>. QED  BY <3>1, <3>2
  <2>. HIDE DEF filters
  <2>5. Len(filters) = p /\ p >= L + 1
    <3>1. Len(filters) = (L + 1) + (missing - 1)
      <4>. HIDE DEF missing, L
      <4>. QED  BY <2>2, <2>3, <2>4
    <3>. HIDE DEF L
    <3>. QED  BY <1>0, <1>2, <3>1
  <2>6. \A i \in 1 .. L + 1 : filters[i] = a[i]
    BY <1>0, <2>2, <2>3, <2>4, <1>2
  <2>7. StartBlock(f, o) \in FilterBuilder /\ StartBlock(f, o).filters = filters
    BY <2>1, <2>4 DEF FilterBuilder
  <2>8. ASSUME NEW q \in 0 .. L PROVE FilterAt(StartBlock(f, o), q) = FilterAt(f, q)
    <3>1. q < Len(filters) /\ q + 1 \in 1 .. L + 1
      BY <1>0, <2>5
    <3>2. FilterAt(StartBlock(f, o), q) = a[q + 1]
      BY <2>6, <2>7, <3>1 DEF FilterAt
    <3>3. CASE q < L
      <4>1. q + 1 \in 1 .. L
        BY <1>0, <3>3
      <4>. QED  BY <2>3, <3>2, <3>3, <4>1 DEF FilterAt
    <3>4. CASE q = L
      BY <1>0, <2>3, <3>2, <3>4 DEF FilterAt
    <3>. QED  BY <1>0, <3>3, <3>4
  <2>. QED  BY <2>5, <2>7, <2>8 DEF p
<1>. QED  BY <1>0, <1>1, <1>2

LEMMA FilterFlush ==
  ASSUME FilterBase \in Nat \ {0}, NEW f, NEW file \in Seq(FileBlock), NEW data \in Block, NEW offset,
         FiltersOK(f, file, data, offset), NEW size \in Nat
  PROVE  FiltersOK(StartBlock(f, offset + size), Append(file, [block |-> data, offset |-> offset]),
                   EmptyBlock, offset + size)
<1>. DEFINE h == Append(file, [block |-> data, offset |-> offset])
            g == StartBlock(f, offset + size)
            N == Len(file)
<1>0. /\ f \in FilterBuilder /\ offset \in Nat /\ offset + size \in Nat
      /\ Len(f.filters) = offset \div FilterBase /\ Len(f.filters) \in Nat
  BY DEF FiltersOK, FilterBuilder
<1>1. (offset + size) \div FilterBase >= Len(f.filters) /\ (offset + size) \div FilterBase \in Nat
  <2>1. offset <= offset + size
    BY <1>0
  <2>2. offset \div FilterBase <= (offset + size) \div FilterBase
    BY <1>0, <2>1, DivGrows
  <2>. QED  BY <1>0, <2>2, DivIs
<1>2. /\ g \in FilterBuilder /\ Len(g.filters) = (offset + size) \div FilterBase
      /\ \A q \in 0 .. Len(f.filters) : FilterAt(g, q) = FilterAt(f, q)
  BY <1>0, <1>1, StartBlockIs
<1>. HIDE DEF g
<1>3. /\ Len(h) = N + 1 /\ N \in Nat /\ h[N + 1] = [block |-> data, offset |-> offset]
      /\ \A n \in 1 .. N : h[n] = file[n]
  BY <1>0, PartsFlushed
<1>. HIDE DEF h
<1>4. ASSUME NEW n \in 1 .. Len(h)
      PROVE  /\ h[n].offset \div FilterBase \in 0 .. Len(g.filters)
             /\ \A x \in KeysIn(h[n].block) : User(x) \in FilterAt(g, h[n].offset \div FilterBase)
  <2>1. CASE n = N + 1
    <3>1. h[n].offset = offset /\ h[n].block = data /\ offset \div FilterBase \in 0 .. Len(f.filters)
      BY <1>0, <1>3, <2>1
    <3>2. FilterAt(f, offset \div FilterBase) = f.keys
      BY <1>0 DEF FilterAt
    <3>3. \A x \in KeysIn(data) : User(x) \in f.keys
      BY DEF FiltersOK
    <3>. QED  BY <1>0, <1>1, <1>2, <3>1, <3>2, <3>3
  <2>2. CASE n # N + 1
    <3>1. n \in 1 .. N /\ h[n] = file[n]
      BY <1>3, <2>2
    <3>2. /\ file[n].offset \div FilterBase \in 0 .. Len(f.filters)
          /\ \A x \in KeysIn(file[n].block) : User(x) \in FilterAt(f, file[n].offset \div FilterBase)
      BY <3>1 DEF FiltersOK
    <3>. QED  BY <1>0, <1>1, <1>2, <3>1, <3>2
  <2>. QED  BY <2>1, <2>2
<1>5. FiltersOK(g, h, EmptyBlock, offset + size)
  BY <1>0, <1>2, <1>4, NothingIn DEF FiltersOK
<1>. QED  BY <1>5 DEF g, h

\* Finish makes a filter of the keys that are left, if there are any.
LEMMA FilterFinish ==
  ASSUME NEW f, NEW file, NEW data, NEW offset, FiltersOK(f, file, data, offset)
  PROVE  /\ FilteredOK(f, file)
         /\ FilteredOK(GenerateFilter(f), file)
<1>. DEFINE g == GenerateFilter(f)
            L == Len(f.filters)
<1>0. f.filters \in Seq(SUBSET Bytes) /\ f.keys \in SUBSET Bytes /\ L \in Nat
  BY DEF FiltersOK, FilterBuilder
<1>1. g.filters = Append(f.filters, f.keys)
  BY DEF GenerateFilter
<1>. HIDE DEF g
<1>2. Len(g.filters) = L + 1 /\ g.filters[L + 1] = f.keys /\ \A i \in 1 .. L : g.filters[i] = f.filters[i]
  BY <1>0, <1>1, AppendProperties
<1>3. ASSUME NEW n \in 1 .. Len(file), NEW q, q = file[n].offset \div FilterBase,
             NEW x \in KeysIn(file[n].block)
      PROVE  /\ q + 1 <= L => User(x) \in f.filters[q + 1]
             /\ q + 1 <= Len(g.filters) => User(x) \in g.filters[q + 1]
  <2>1. q \in 0 .. L /\ User(x) \in FilterAt(f, q)
    BY <1>3 DEF FiltersOK
  <2>2. CASE q < L
    <3>1. q + 1 \in 1 .. L
      BY <1>0, <2>1, <2>2
    <3>. QED  BY <1>2, <2>1, <2>2, <3>1 DEF FilterAt
  <2>3. CASE q = L
    BY <1>0, <1>2, <2>1, <2>3 DEF FilterAt
  <2>. QED  BY <1>0, <2>1, <2>2, <2>3
<1>4. FilteredOK(f, file) /\ FilteredOK(g, file)
  BY <1>3 DEF FilteredOK
<1>. QED  BY <1>4 DEF g

-----------------------------------------------------------------------------
(* TableBuilder.                                                            *)

\* What the proofs use of TableAssumption.
TableBounds ==
  /\ UserKeys \subseteq Bytes /\ MaxSequence \in Nat /\ Seqs \subseteq 0 .. MaxSequence
  /\ RestartInterval \in Nat /\ FilterBase \in Nat \ {0} /\ BlockSizes \subseteq Nat

BuilderRecord ==
  [data : Block, index : Block, pending : BOOLEAN, filter : FilterBuilder, file : Seq(FileBlock),
   offset : Nat, last : Bytes, added : SUBSET IKey, closed : BOOLEAN]

BuilderInv(t) ==
  /\ t \in BuilderRecord
  /\ BlocksOK(t.file, t.data, t.added) /\ IndexOK(t.index, t.file, t.data)
  /\ Len(t.index.entries) = IF t.pending THEN Len(t.file) - 1 ELSE Len(t.file)
  /\ t.added # {} => t.last \in t.added /\ \A x \in t.added : ~KeyLess(t.last, x)
  /\ ~t.closed => /\ t.pending <=> KeysIn(t.data) = {} /\ Len(t.file) > 0
                  /\ FiltersOK(t.filter, t.file, t.data, t.offset)
  /\ t.closed => ~t.pending /\ KeysIn(t.data) = {} /\ FilteredOK(t.filter, t.file)

LEMMA EmptyIs ==
  ASSUME NEW b, Holds(b, DataKeys(b))
  PROVE  b.entries = <<>> <=> KeysIn(b) = {}
<1>1. b.entries \in Seq(BlockEntry) /\ Len(b.entries) = Len(DataKeys(b))
  BY HeldKeys DEF Holds, Block
<1>2. b.entries = <<>> <=> Len(b.entries) = 0
  BY <1>1, EmptySeq
<1>. QED  BY <1>1, <1>2, HeldKeys

LEMMA FlushFields ==
  ASSUME NEW t \in BuilderRecord, NEW size \in Nat, t.data.entries # <<>>,
         StartBlock(t.filter, t.offset + size) \in FilterBuilder
  PROVE  LET u == Flush(t, size) IN
         /\ u \in BuilderRecord
         /\ u.file = Append(t.file, [block |-> t.data, offset |-> t.offset])
         /\ u.data = EmptyBlock /\ u.offset = t.offset + size /\ u.pending = TRUE
         /\ u.filter = StartBlock(t.filter, t.offset + size)
         /\ u.index = t.index /\ u.last = t.last /\ u.added = t.added /\ u.closed = t.closed
<1>. DEFINE f == Append(t.file, [block |-> t.data, offset |-> t.offset])
            o == t.offset + size
            g == StartBlock(t.filter, t.offset + size)
            u == Flush(t, size)
<1>1. u = [t EXCEPT !.file = f, !.data = EmptyBlock, !.offset = o, !.pending = TRUE, !.filter = g]
  BY DEF Flush
<1>2. f \in Seq(FileBlock) /\ o \in Nat /\ g \in FilterBuilder /\ EmptyBlock \in Block
  <2>1. t.file \in Seq(FileBlock) /\ t.data \in Block /\ t.offset \in Nat
    BY DEF BuilderRecord
  <2>. QED  BY <2>1, PartsFlushed, EmptyHolds DEF Holds
<1>. HIDE DEF f, o, g, u
<1>3. /\ u \in BuilderRecord
      /\ u.file = f
      /\ u.data = EmptyBlock /\ u.offset = o /\ u.pending = TRUE
      /\ u.filter = g
      /\ u.index = t.index /\ u.last = t.last /\ u.added = t.added /\ u.closed = t.closed
  BY <1>1, <1>2 DEF BuilderRecord
<1>. QED  BY <1>3 DEF f, o, g, u

\* Flush keeps the invariant, and leaves an empty block in hand.
LEMMA FlushKeeps ==
  ASSUME TableBounds, NEW t, BuilderInv(t), ~t.closed, NEW size \in Nat
  PROVE  /\ BuilderInv(Flush(t, size)) /\ ~Flush(t, size).closed
         /\ KeysIn(Flush(t, size).data) = {}
<1>. DEFINE u == Flush(t, size)
<1>0. /\ t \in BuilderRecord /\ BlocksOK(t.file, t.data, t.added) /\ IndexOK(t.index, t.file, t.data)
      /\ FiltersOK(t.filter, t.file, t.data, t.offset)
  BY DEF BuilderInv
<1>1. t.data.entries = <<>> <=> KeysIn(t.data) = {}
  BY <1>0, PartsAre, EmptyIs
<1>2. CASE t.data.entries = <<>>
  BY <1>1, <1>2 DEF Flush
<1>3. CASE t.data.entries # <<>>
  <2>1. /\ t.file \in Seq(FileBlock) /\ t.data \in Block /\ t.offset \in Nat /\ t.filter \in FilterBuilder
        /\ FilterBase \in Nat \ {0}
    BY <1>0 DEF BuilderRecord, TableBounds
  <2>. DEFINE f == Append(t.file, [block |-> t.data, offset |-> t.offset])
  <2>2. FiltersOK(StartBlock(t.filter, t.offset + size), f, EmptyBlock, t.offset + size)
    BY <1>0, <2>1, FilterFlush
  <2>3. /\ u \in BuilderRecord
        /\ u.file = f
        /\ u.data = EmptyBlock /\ u.offset = t.offset + size /\ u.pending = TRUE
        /\ u.filter = StartBlock(t.filter, t.offset + size)
        /\ u.index = t.index /\ u.last = t.last /\ u.added = t.added /\ u.closed = t.closed
    <3>1. StartBlock(t.filter, t.offset + size) \in FilterBuilder
      BY <2>2 DEF FiltersOK
    <3>. QED  BY <1>0, <1>3, <3>1, FlushFields
  <2>4. KeysIn(t.data) # {}
    BY <1>1, <1>3
  <2>5. BlocksOK(f, EmptyBlock, t.added)
    BY <1>0, <2>1, <2>4, BlocksFlush
  <2>6. IndexOK(t.index, f, EmptyBlock)
    BY <1>0, <2>1, IndexFlush
  <2>7. Len(f) = Len(t.file) + 1 /\ Len(t.file) \in Nat
    BY <2>1, PartsFlushed
  <2>8. Len(t.index.entries) = Len(t.file)
    BY <2>4 DEF BuilderInv
  <2>. HIDE DEF f, u
  <2>9. BuilderInv(u)
    <3>1. Len(u.index.entries) = IF u.pending THEN Len(u.file) - 1 ELSE Len(u.file)
      BY <2>3, <2>7, <2>8
    <3>2. u.added # {} => u.last \in u.added /\ \A x \in u.added : ~KeyLess(u.last, x)
      BY <2>3 DEF BuilderInv
    <3>3. u.pending <=> KeysIn(u.data) = {} /\ Len(u.file) > 0
      BY <2>3, <2>7, NothingIn
    <3>. QED  BY <2>2, <2>3, <2>5, <2>6, <3>1, <3>2, <3>3 DEF BuilderInv
  <2>. QED  BY <2>3, <2>9, NothingIn DEF u
<1>. QED  BY <1>2, <1>3

\* The index entry that is pending: of the last block, which has the last key.
LEMMA PendingIs ==
  ASSUME NEW t, BuilderInv(t), ~t.closed, t.pending
  PROVE  /\ Len(t.file) \in Nat /\ Len(t.file) > 0 /\ KeysIn(t.data) = {}
         /\ t.last \in KeysIn(t.file[Len(t.file)].block) /\ t.last \in t.added /\ t.last \in IKey
         /\ \A x \in KeysIn(t.file[Len(t.file)].block) :
              x \in t.added /\ x \in IKey /\ ~KeyLess(t.last, x)
<1>. DEFINE N == Len(t.file)
<1>0. BlocksOK(t.file, t.data, t.added) /\ KeysIn(t.data) = {} /\ N > 0
  BY DEF BuilderInv
<1>1. /\ N \in Nat
      /\ \A n \in 1 .. N : Part(t.file, t.data, n) = t.file[n].block
      /\ Part(t.file, t.data, N + 1) = t.data
      /\ \A n \in 1 .. N + 1 : KeysIn(Part(t.file, t.data, n)) \subseteq t.added
      /\ \A x \in t.added : \E n \in 1 .. N + 1 : x \in KeysIn(Part(t.file, t.data, n))
      /\ t.added \subseteq IKey
  BY <1>0, PartsAre
<1>2. N \in 1 .. N /\ N \in 1 .. N + 1
  BY <1>0, <1>1
<1>3. PICK y \in KeysIn(t.file[N].block) : TRUE
  BY <1>0, <1>2 DEF BlocksOK
<1>4. KeysIn(t.file[N].block) \subseteq t.added
  BY <1>1, <1>2
<1>5. t.last \in t.added /\ \A x \in t.added : ~KeyLess(t.last, x)
  BY <1>3, <1>4 DEF BuilderInv
<1>6. PICK n \in 1 .. N + 1 : t.last \in KeysIn(Part(t.file, t.data, n))
  BY <1>1, <1>5
<1>7. n \in 1 .. N
  <2>1. n # N + 1
    BY <1>0, <1>1, <1>6
  <2>. QED  BY <1>1, <2>1
<1>8. n = N
  <2>. SUFFICES ASSUME n < N PROVE FALSE
    BY <1>1, <1>7
  <2>1. y \in KeysIn(Part(t.file, t.data, N))
    BY <1>1, <1>2
  <2>2. KeyLess(t.last, y)
    BY <1>0, <1>2, <1>6, <2>1 DEF BlocksOK
  <2>. QED  BY <1>4, <1>5, <2>2
<1>. QED  BY <1>0, <1>1, <1>4, <1>5, <1>6, <1>7, <1>8

\* Not before the last key is not before any of the block.
LEMMA AboveLast ==
  ASSUME NEW t, BuilderInv(t), ~t.closed, t.pending, NEW sep \in IKey, ~KeyLess(sep, t.last)
  PROVE  \A x \in KeysIn(t.file[Len(t.file)].block) : ~KeyLess(sep, x)
BY PendingIs, UserBelow

\* The key is taken, with the index entry that was pending.
Taken(t, sep, k) ==
  LET p == AddPending(t, sep)
  IN [p EXCEPT !.filter.keys = @ \cup {User(k)}, !.last = k, !.added = @ \cup {k},
               !.data = AddToBlock(p.data, k, k, RestartInterval)]

TakenFrom(u, t, sep, k) ==
  /\ u \in BuilderRecord
  /\ u.file = t.file /\ u.offset = t.offset /\ u.closed = t.closed /\ u.pending = FALSE
  /\ u.data = AddToBlock(t.data, k, k, RestartInterval)
  /\ u.index = IF t.pending THEN AddToBlock(t.index, sep, Len(t.file), 1) ELSE t.index
  /\ u.filter = [t.filter EXCEPT !.keys = @ \cup {User(k)}]
  /\ u.last = k /\ u.added = t.added \cup {k}

LEMMA AddFields ==
  ASSUME NEW t \in BuilderRecord, NEW k \in IKey, NEW sep,
         AddToBlock(t.index, sep, Len(t.file), 1) \in Block \/ ~t.pending,
         AddToBlock(t.data, k, k, RestartInterval) \in Block
  PROVE  TakenFrom(Taken(t, sep, k), t, sep, k)
<1>. DEFINE i == IF t.pending THEN AddToBlock(t.index, sep, Len(t.file), 1) ELSE t.index
            d == AddToBlock(t.data, k, k, RestartInterval)
            v == User(k)
            g == [t.filter EXCEPT !.keys = @ \cup {User(k)}]
            a == t.added \cup {k}
            p == AddPending(t, sep)
            u == Taken(t, sep, k)
<1>0. i \in Block /\ d \in Block /\ a \in SUBSET IKey /\ k \in Bytes /\ v \in Bytes
  BY KeyParts DEF BuilderRecord, IKey, Bytes
<1>1. t.filter \in FilterBuilder /\ g \in FilterBuilder
  <2>. HIDE DEF v
  <2>1. t.filter \in FilterBuilder
    BY DEF BuilderRecord
  <2>2. [t.filter EXCEPT !.keys = @ \cup {v}] \in FilterBuilder
    BY <1>0, <2>1 DEF FilterBuilder
  <2>. QED  BY <2>1, <2>2 DEF v
<1>2. p = [t EXCEPT !.index = i, !.pending = FALSE]
  <2>1. CASE t.pending
    BY <2>1 DEF AddPending
  <2>2. CASE ~t.pending
    <3>1. p = t /\ i = t.index /\ t.pending = FALSE
      BY <2>2 DEF AddPending, BuilderRecord
    <3>. HIDE DEF p, i
    <3>. QED  BY <3>1 DEF BuilderRecord
  <2>. QED  BY <2>1, <2>2
<1>. HIDE DEF i
<1>3. /\ p \in BuilderRecord /\ p.index = i /\ p.pending = FALSE /\ p.data = t.data
      /\ p.filter = t.filter /\ p.file = t.file /\ p.offset = t.offset /\ p.last = t.last
      /\ p.added = t.added /\ p.closed = t.closed
  <2>. HIDE DEF p
  <2>. QED  BY <1>0, <1>2 DEF BuilderRecord
<1>4. u = [p EXCEPT !.filter.keys = @ \cup {User(k)}, !.last = k, !.added = @ \cup {k}, !.data = d]
  <2>1. u = [p EXCEPT !.filter.keys = @ \cup {User(k)}, !.last = k, !.added = @ \cup {k},
                      !.data = AddToBlock(p.data, k, k, RestartInterval)]
    BY DEF Taken
  <2>. HIDE DEF p, u
  <2>. QED  BY <1>3, <2>1
<1>. HIDE DEF p, d, u
<1>5. u = [p EXCEPT !.filter = g, !.last = k, !.added = a, !.data = d]
  BY <1>3, <1>4 DEF BuilderRecord
<1>. HIDE DEF g, a
<1>6. /\ u \in BuilderRecord
      /\ u.file = p.file /\ u.offset = p.offset /\ u.closed = p.closed /\ u.pending = p.pending
      /\ u.data = d /\ u.index = p.index /\ u.filter = g /\ u.last = k /\ u.added = a
  BY <1>0, <1>1, <1>3, <1>5 DEF BuilderRecord
<1>. QED  BY <1>3, <1>6 DEF g, a, d, i, u, TakenFrom

\* What Add leaves before it flushes.
LEMMA AddedKeeps ==
  ASSUME TableBounds, NEW t, BuilderInv(t), ~t.closed, NEW k \in IKey, \A x \in t.added : KeyLess(x, k)
  PROVE  LET u == Taken(t, FindShortestSeparator(t.last, k), k) IN BuilderInv(u) /\ ~u.closed
<1>. DEFINE sep == FindShortestSeparator(t.last, k)
            d == AddToBlock(t.data, k, k, RestartInterval)
            a == t.added \cup {k}
            N == Len(t.file)
            new == AddToBlock(t.index, sep, N, 1)
            u == Taken(t, sep, k)
<1>0. /\ t \in BuilderRecord /\ BlocksOK(t.file, t.data, t.added) /\ IndexOK(t.index, t.file, t.data)
      /\ FiltersOK(t.filter, t.file, t.data, t.offset) /\ RestartInterval \in Nat /\ MaxSequence \in Nat
      /\ Len(t.index.entries) = IF t.pending THEN N - 1 ELSE N
      /\ t.pending <=> KeysIn(t.data) = {} /\ N > 0
  BY DEF BuilderInv, TableBounds
<1>1. BlocksOK(t.file, d, a) /\ KeysIn(d) = KeysIn(t.data) \cup {k}
  <2>1. RestartInterval \in Nat /\ BlocksOK(t.file, t.data, t.added)
    BY <1>0
  <2>. QED  BY <2>1, BlocksAdd
<1>2. N \in Nat /\ d \in Block
  BY <1>0, <1>1, PartsAre DEF Holds
<1>. HIDE DEF d
<1>3. IndexOK(t.index, t.file, d)
  <2>1. Len(t.index.entries) < N \/ KeysIn(t.data) # {} \/ N = 0
    BY <1>0, <1>2
  <2>. QED  BY <1>0, <1>1, <2>1, IndexAdd
<1>4. t.pending => IndexOK(new, t.file, d) /\ Len(new.entries) = N /\ new \in Block
  <2>. SUFFICES ASSUME t.pending PROVE IndexOK(new, t.file, d) /\ Len(new.entries) = N /\ new \in Block
    OBVIOUS
  <2>1. t.last \in IKey /\ t.last \in t.added /\ t.last \in KeysIn(t.file[N].block) /\ KeysIn(t.data) = {} /\ N > 0
    BY PendingIs
  <2>2. sep \in IKey /\ ~KeyLess(sep, t.last) /\ KeyLess(sep, k)
        /\ (sep = t.last \/ StringLess(User(sep), User(k)))
    BY <1>0, <2>1, SeparatorIs
  <2>. HIDE DEF sep
  <2>3. \A x \in KeysIn(t.file[N].block) : ~KeyLess(sep, x)
    BY <2>2, AboveLast
  <2>4. \A y \in KeysIn(d) :
          KeyLess(sep, y) /\ (sep \in KeysIn(t.file[N].block) \/ StringLess(User(sep), User(y)))
    BY <1>1, <2>1, <2>2
  <2>5. Len(t.index.entries) = N - 1
    BY <1>0
  <2>6. IndexOK(new, t.file, d) /\ Len(new.entries) = N
    BY <1>1, <1>3, <2>1, <2>2, <2>3, <2>4, <2>5, IndexPending
  <2>7. new \in Block
    BY <2>6 DEF IndexOK, Holds
  <2>. QED  BY <2>6, <2>7
<1>5. /\ u \in BuilderRecord
      /\ u.file = t.file /\ u.offset = t.offset /\ u.closed = t.closed /\ u.pending = FALSE
      /\ u.data = d
      /\ u.index = IF t.pending THEN new ELSE t.index
      /\ u.filter = [t.filter EXCEPT !.keys = @ \cup {User(k)}]
      /\ u.last = k /\ u.added = a
  <2>1. new \in Block \/ ~t.pending
    BY <1>4
  <2>2. TakenFrom(u, t, sep, k)
    <3>1. AddToBlock(t.index, sep, Len(t.file), 1) \in Block \/ ~t.pending
      BY <2>1
    <3>2. AddToBlock(t.data, k, k, RestartInterval) \in Block
      BY <1>2 DEF d
    <3>3. t \in BuilderRecord
      BY <1>0
    <3>. HIDE DEF sep
    <3>. QED  BY <3>1, <3>2, <3>3, AddFields
  <2>. HIDE DEF u, sep, a
  <2>. QED  BY <2>2 DEF d, TakenFrom, new, N, a
<1>. HIDE DEF u
<1>6. FiltersOK(u.filter, u.file, u.data, u.offset)
  <2>1. FiltersOK([t.filter EXCEPT !.keys = @ \cup {User(k)}], t.file, d, t.offset)
    BY <1>0, <1>1, FilterAdd
  <2>. QED  BY <1>5, <2>1
<1>. HIDE DEF new, a
<1>7. IndexOK(u.index, u.file, u.data) /\ Len(u.index.entries) = N
  BY <1>0, <1>3, <1>4, <1>5
<1>8. u.last \in u.added /\ \A x \in u.added : ~KeyLess(u.last, x)
  <2>1. t.added \subseteq IKey
    BY <1>0, PartsAre
  <2>2. \A x \in t.added : ~KeyLess(k, x)
    BY <2>1, KeyOrder
  <2>. QED  BY <1>5, <2>2, KeyOrder DEF a
<1>9. KeysIn(u.data) # {}
  BY <1>1, <1>5
<1>10. BuilderInv(u) /\ ~u.closed
  BY <1>1, <1>5, <1>6, <1>7, <1>8, <1>9 DEF BuilderInv
<1>. QED  BY <1>10 DEF u

LEMMA InternalKeyIs ==
  ASSUME MaxSequence \in Nat, NEW u \in Bytes, NEW s \in 0 .. MaxSequence
  PROVE  InternalKey(u, s) \in IKey /\ User(InternalKey(u, s)) = u
<1>1. MaxSequence - s \in Nat
  OBVIOUS
<1>. QED  BY <1>1, AppendParts DEF InternalKey

LEMMA AddKeeps ==
  ASSUME TableBounds, BuilderInv(builder), NEW u \in UserKeys, NEW s \in Seqs, Add(InternalKey(u, s))
  PROVE  BuilderInv(builder') /\ ~builder'.closed
<1>. DEFINE k == InternalKey(u, s)
<1>1. k \in IKey
  BY InternalKeyIs DEF TableBounds
<1>. HIDE DEF k
<1>. DEFINE t == AddPending(builder, FindShortestSeparator(builder.last, k))
            v == [t EXCEPT !.filter.keys = @ \cup {User(k)}, !.last = k,
                          !.added = @ \cup {k},
                          !.data = AddToBlock(t.data, k, k, RestartInterval)]
<1>2. PICK full \in BOOLEAN, size \in BlockSizes : builder' = IF full THEN Flush(v, size) ELSE v
  BY DEF Add, k
<1>3. ~builder.closed /\ \A x \in builder.added : KeyLess(x, k)
  BY DEF Add, k
<1>4. BuilderInv(v) /\ ~v.closed
  <2>1. v = Taken(builder, FindShortestSeparator(builder.last, k), k)
    BY DEF Taken
  <2>. HIDE DEF v
  <2>. QED  BY <1>1, <1>3, <2>1, AddedKeeps
<1>5. size \in Nat
  BY DEF TableBounds
<1>. HIDE DEF v
<1>. QED  BY <1>2, <1>4, <1>5, FlushKeeps

LEMMA FinishKeeps ==
  ASSUME TableBounds, BuilderInv(builder), Finish
  PROVE  /\ BuilderInv(builder') /\ builder'.closed
         /\ tableIter' = [NoIter EXCEPT !.index = BlockIter(builder'.index)]
         /\ UNCHANGED tableOp /\ ~builder.closed /\ builder'.added = builder.added
<1>. DEFINE t(size) == Flush(builder, size)
            u(size) == AddPending(t(size), FindShortSuccessor(t(size).last))
<1>1. PICK size \in BlockSizes :
         /\ builder' = [u(size) EXCEPT !.closed = TRUE,
                                       !.filter = IF u(size).filter.keys = {} THEN u(size).filter
                                                  ELSE GenerateFilter(u(size).filter)]
         /\ tableIter' = [NoIter EXCEPT !.index = BlockIter(u(size).index)]
  BY DEF Finish
<1>2. UNCHANGED tableOp /\ ~builder.closed
  BY DEF Finish
<1>3. size \in Nat
  BY DEF TableBounds
<1>4. PICK f : f = t(size)
  OBVIOUS
<1>5. BuilderInv(f) /\ ~f.closed /\ KeysIn(f.data) = {} /\ f.added = builder.added
  <2>1. BuilderInv(f) /\ ~f.closed /\ KeysIn(f.data) = {}
    BY <1>2, <1>3, <1>4, FlushKeeps
  <2>2. f.added = builder.added
    <3>1. builder \in BuilderRecord
      BY DEF BuilderInv
    <3>. QED  BY <1>4, <3>1 DEF Flush, BuilderRecord
  <2>. QED  BY <2>1, <2>2
<1>6. PICK v : v = AddPending(f, FindShortSuccessor(f.last))
  OBVIOUS
<1>. DEFINE sep == FindShortSuccessor(f.last)
            N == Len(f.file)
            new == AddToBlock(f.index, sep, N, 1)
<1>7. /\ f \in BuilderRecord /\ BlocksOK(f.file, f.data, f.added) /\ IndexOK(f.index, f.file, f.data)
      /\ FiltersOK(f.filter, f.file, f.data, f.offset) /\ MaxSequence \in Nat
      /\ Len(f.index.entries) = IF f.pending THEN N - 1 ELSE N
  BY <1>5 DEF BuilderInv, TableBounds
<1>8. f.pending => IndexOK(new, f.file, f.data) /\ Len(new.entries) = N /\ new \in Block
  <2>. SUFFICES ASSUME f.pending PROVE IndexOK(new, f.file, f.data) /\ Len(new.entries) = N /\ new \in Block
    OBVIOUS
  <2>1. f.last \in IKey /\ N > 0
    BY <1>5, PendingIs
  <2>2. sep \in IKey /\ ~KeyLess(sep, f.last)
    BY <1>7, <2>1, SuccessorIs
  <2>. HIDE DEF sep
  <2>3. \A x \in KeysIn(f.file[N].block) : ~KeyLess(sep, x)
    BY <1>5, <2>2, AboveLast
  <2>4. \A y \in KeysIn(f.data) :
          KeyLess(sep, y) /\ (sep \in KeysIn(f.file[N].block) \/ StringLess(User(sep), User(y)))
    BY <1>5
  <2>5. Len(f.index.entries) = N - 1
    BY <1>7
  <2>6. IndexOK(new, f.file, f.data) /\ Len(new.entries) = N
    BY <1>7, <2>1, <2>2, <2>3, <2>4, <2>5, IndexPending
  <2>7. new \in Block
    BY <2>6 DEF IndexOK, Holds
  <2>. QED  BY <2>6, <2>7
<1>. DEFINE i == IF f.pending THEN new ELSE f.index
<1>9. i \in Block /\ IndexOK(i, f.file, f.data) /\ Len(i.entries) = N
  BY <1>7, <1>8 DEF BuilderRecord
<1>10. v = [f EXCEPT !.index = i, !.pending = FALSE]
  <2>1. CASE f.pending
    BY <1>6, <2>1 DEF AddPending
  <2>2. CASE ~f.pending
    <3>1. v = f /\ i = f.index /\ f.pending = FALSE
      BY <1>6, <1>7, <2>2 DEF AddPending, BuilderRecord
    <3>. HIDE DEF i
    <3>. QED  BY <1>7, <3>1 DEF BuilderRecord
  <2>. QED  BY <2>1, <2>2
<1>. HIDE DEF i
<1>11. /\ v \in BuilderRecord /\ v.index = i /\ v.pending = FALSE /\ v.data = f.data
       /\ v.filter = f.filter /\ v.file = f.file /\ v.offset = f.offset /\ v.last = f.last
       /\ v.added = f.added /\ v.closed = f.closed
  BY <1>7, <1>9, <1>10 DEF BuilderRecord
<1>. DEFINE g == IF v.filter.keys = {} THEN v.filter ELSE GenerateFilter(v.filter)
<1>12. builder' = [v EXCEPT !.closed = TRUE, !.filter = g]
       /\ tableIter' = [NoIter EXCEPT !.index = BlockIter(v.index)]
  BY <1>1, <1>4, <1>6
<1>13. g \in FilterBuilder /\ FilteredOK(g, f.file)
  <2>1. FilteredOK(f.filter, f.file) /\ FilteredOK(GenerateFilter(f.filter), f.file)
    BY <1>7, FilterFinish
  <2>2. f.filter \in FilterBuilder
    BY <1>7 DEF BuilderRecord
  <2>3. GenerateFilter(f.filter) \in FilterBuilder
    <3>1. f.filter.filters \in Seq(SUBSET Bytes) /\ f.filter.keys \in SUBSET Bytes
      BY <2>2 DEF FilterBuilder
    <3>2. Append(f.filter.filters, f.filter.keys) \in Seq(SUBSET Bytes)
      BY <3>1, AppendProperties
    <3>. QED  BY <3>2 DEF FilterBuilder, GenerateFilter
  <2>. QED  BY <1>11, <2>1, <2>2, <2>3
<1>. HIDE DEF g
<1>14. /\ builder' \in BuilderRecord /\ builder'.index = i /\ builder'.pending = FALSE
       /\ builder'.data = f.data /\ builder'.filter = g /\ builder'.file = f.file
       /\ builder'.last = f.last /\ builder'.added = f.added /\ builder'.closed = TRUE
  BY <1>11, <1>12, <1>13 DEF BuilderRecord
<1>15. BuilderInv(builder')
  <2>1. f.added # {} => f.last \in f.added /\ \A x \in f.added : ~KeyLess(f.last, x)
    BY <1>5 DEF BuilderInv
  <2>2. builder'.added # {} => builder'.last \in builder'.added
                               /\ \A x \in builder'.added : ~KeyLess(builder'.last, x)
    BY <1>14, <2>1
  <2>3. IndexOK(builder'.index, builder'.file, builder'.data)
        /\ BlocksOK(builder'.file, builder'.data, builder'.added)
    BY <1>7, <1>9, <1>14
  <2>4. Len(builder'.index.entries) = IF builder'.pending THEN Len(builder'.file) - 1 ELSE Len(builder'.file)
    BY <1>9, <1>14
  <2>5. ~builder'.pending /\ KeysIn(builder'.data) = {} /\ FilteredOK(builder'.filter, builder'.file)
    BY <1>5, <1>13, <1>14
  <2>. QED  BY <1>14, <2>2, <2>3, <2>4, <2>5 DEF BuilderInv
<1>16. tableIter' = [NoIter EXCEPT !.index = BlockIter(builder'.index)]
  BY <1>11, <1>12, <1>14
<1>. QED  BY <1>2, <1>5, <1>14, <1>15, <1>16

-----------------------------------------------------------------------------
(* A finished table.                                                        *)

Finished == BuilderInv(builder) /\ builder.closed

NumBlocks  == Len(builder.file)
BlockAt(i) == builder.file[i].block
KeysAt(i)  == DataKeys(builder.file[i].block)
Separators == IndexKeys(builder.index)

LEMMA FinishedIs ==
  ASSUME Finished
  PROVE  /\ NumBlocks \in Nat /\ Holds(builder.index, Separators) /\ InOrder(Separators)
         /\ Len(Separators) = NumBlocks /\ builder.added \subseteq IKey
         /\ \A i \in 1 .. NumBlocks :
              /\ Holds(BlockAt(i), KeysAt(i)) /\ InOrder(KeysAt(i))
              /\ Len(KeysAt(i)) \in Nat /\ Len(KeysAt(i)) >= 1
              /\ Separators[i] \in IKey /\ builder.index.entries[i].value = i
              /\ Len(BlockAt(i).entries) = Len(KeysAt(i))
              /\ \A j \in 1 .. Len(KeysAt(i)) :
                   /\ KeysAt(i)[j] \in builder.added /\ KeysAt(i)[j] \in KeysIn(BlockAt(i))
                   /\ BlockAt(i).entries[j].value = KeysAt(i)[j]
         /\ \A x \in builder.added :
              \E i \in 1 .. NumBlocks : \E j \in 1 .. Len(KeysAt(i)) : x = KeysAt(i)[j]
<1>. DEFINE f == builder.file
            b == builder.data
            N == NumBlocks
<1>1. /\ BlocksOK(f, b, builder.added) /\ IndexOK(builder.index, f, b) /\ KeysIn(b) = {}
      /\ Len(builder.index.entries) = N
  BY DEF Finished, BuilderInv, NumBlocks
<1>2. /\ N \in Nat
      /\ \A n \in 1 .. N : Part(f, b, n) = f[n].block
      /\ Part(f, b, N + 1) = b
      /\ \A n \in 1 .. N + 1 : KeysIn(Part(f, b, n)) \subseteq builder.added
      /\ \A x \in builder.added : \E n \in 1 .. N + 1 : x \in KeysIn(Part(f, b, n))
      /\ builder.added \subseteq IKey
  BY <1>1, PartsAre DEF NumBlocks
<1>3. Holds(builder.index, Separators) /\ InOrder(Separators) /\ Len(Separators) = N
      /\ \A i \in 1 .. N : Separators[i] \in IKey /\ builder.index.entries[i].value = i
  <2>1. InOrder(IndexKeys(builder.index))
    BY <1>1, IndexInOrder
  <2>2. Len(IndexKeys(builder.index)) = N /\ \A j \in 1 .. N : IndexKeys(builder.index)[j] \in IKey
    BY <1>1, IndexKeysAre
  <2>. QED  BY <1>1, <2>1, <2>2 DEF IndexOK, Separators
<1>4. ASSUME NEW i \in 1 .. N
      PROVE  /\ Holds(BlockAt(i), KeysAt(i)) /\ InOrder(KeysAt(i)) /\ KeysIn(BlockAt(i)) # {}
             /\ KeysIn(BlockAt(i)) \subseteq builder.added
  <2>1. i \in 1 .. N + 1 /\ Part(f, b, i) = BlockAt(i) /\ N = Len(f)
    BY <1>2 DEF BlockAt, NumBlocks
  <2>2. Holds(Part(f, b, i), DataKeys(Part(f, b, i))) /\ InOrder(DataKeys(Part(f, b, i)))
        /\ KeysIn(f[i].block) # {}
    BY <1>1, <2>1 DEF BlocksOK
  <2>. QED  BY <1>2, <2>1, <2>2 DEF KeysAt, BlockAt
<1>5. ASSUME NEW i \in 1 .. N
      PROVE  /\ Len(KeysAt(i)) \in Nat /\ Len(KeysAt(i)) >= 1
             /\ Len(BlockAt(i).entries) = Len(KeysAt(i))
             /\ KeysIn(BlockAt(i)) = {KeysAt(i)[j] : j \in 1 .. Len(KeysAt(i))}
             /\ \A j \in 1 .. Len(KeysAt(i)) :
                   /\ KeysAt(i)[j] \in builder.added /\ KeysAt(i)[j] \in KeysIn(BlockAt(i))
                   /\ BlockAt(i).entries[j].value = KeysAt(i)[j]
  <2>1. DataKeys(BlockAt(i)) = KeysAt(i)
    BY DEF BlockAt, KeysAt
  <2>. QED  BY <1>4, <2>1, HeldKeys
<1>6. ASSUME NEW x \in builder.added
      PROVE  \E i \in 1 .. N : \E j \in 1 .. Len(KeysAt(i)) : x = KeysAt(i)[j]
  <2>1. PICK n \in 1 .. N + 1 : x \in KeysIn(Part(f, b, n))
    BY <1>2
  <2>2. n \in 1 .. N
    BY <1>1, <1>2, <2>1
  <2>3. x \in KeysIn(BlockAt(n))
    BY <1>2, <2>1, <2>2 DEF BlockAt
  <2>. QED  BY <1>5, <2>2, <2>3
<1>. QED  BY <1>2, <1>3, <1>4, <1>5, <1>6

\* The blocks are in order, and the separators between them.
LEMMA BlocksInOrder ==
  ASSUME Finished, NEW i \in 1 .. NumBlocks, NEW j \in 1 .. Len(KeysAt(i))
  PROVE  /\ ~KeyLess(Separators[i], KeysAt(i)[j])
         /\ \A m \in i + 1 .. NumBlocks : \A l \in 1 .. Len(KeysAt(m)) :
              /\ KeyLess(KeysAt(i)[j], KeysAt(m)[l]) /\ KeyLess(Separators[i], KeysAt(m)[l])
              /\ Separators[i] \in KeysIn(BlockAt(i)) \/ StringLess(User(Separators[i]), User(KeysAt(m)[l]))
<1>. DEFINE f == builder.file
            b == builder.data
            N == NumBlocks
<1>1. BlocksOK(f, b, builder.added) /\ IndexOK(builder.index, f, b) /\ Len(builder.index.entries) = N
  BY DEF Finished, BuilderInv, NumBlocks
<1>2. /\ N \in Nat /\ N = Len(f)
      /\ \A n \in 1 .. N : Part(f, b, n) = f[n].block
  BY <1>1, PartsAre DEF NumBlocks
<1>3. KeysAt(i)[j] \in KeysIn(f[i].block)
  BY FinishedIs DEF BlockAt
<1>4. ~KeyLess(Separators[i], KeysAt(i)[j])
  BY <1>1, <1>3 DEF IndexOK, Separators
<1>5. ASSUME NEW m \in i + 1 .. N, NEW l \in 1 .. Len(KeysAt(m))
      PROVE  /\ KeyLess(KeysAt(i)[j], KeysAt(m)[l]) /\ KeyLess(Separators[i], KeysAt(m)[l])
             /\ Separators[i] \in KeysIn(BlockAt(i)) \/ StringLess(User(Separators[i]), User(KeysAt(m)[l]))
  <2>1. m \in 1 .. N /\ i < m /\ m \in 1 .. N + 1 /\ i \in 1 .. N + 1 /\ m \in i + 1 .. N + 1
    BY <1>2
  <2>2. KeysAt(m)[l] \in KeysIn(f[m].block)
    BY <2>1, FinishedIs DEF BlockAt
  <2>3. KeysAt(i)[j] \in KeysIn(Part(f, b, i)) /\ KeysAt(m)[l] \in KeysIn(Part(f, b, m))
    BY <1>2, <1>3, <2>1, <2>2
  <2>4. KeyLess(KeysAt(i)[j], KeysAt(m)[l])
    BY <1>1, <1>2, <2>1, <2>3 DEF BlocksOK
  <2>5. /\ KeyLess(IndexKeys(builder.index)[i], KeysAt(m)[l])
        /\ \/ IndexKeys(builder.index)[i] \in KeysIn(f[i].block)
           \/ StringLess(User(IndexKeys(builder.index)[i]), User(KeysAt(m)[l]))
    <3>1. m \in i + 1 .. Len(f) + 1
      BY <1>2, <2>1
    <3>. QED  BY <1>1, <2>3, <3>1 DEF IndexOK
  <2>. QED  BY <2>4, <2>5 DEF Separators, BlockAt
<1>. QED  BY <1>4, <1>5

-----------------------------------------------------------------------------
(* The iterator over the two levels.                                        *)

DataIters ==
  {BlockIter(EmptyBlock)} \cup UNION {BlockIters(BlockAt(n)) : n \in 1 .. NumBlocks}

TwoLevelIters == [index : BlockIters(builder.index), data : DataIters, handle : 0 .. NumBlocks]

\* On no block, or on place j of block i, maybe past its last key.
Nowhere(it) ==
  /\ it \in TwoLevelIters /\ it.handle = 0 /\ it.data = BlockIter(EmptyBlock)
  /\ AtKey(it.index, builder.index, Separators, NumBlocks + 1)

\* On block i of the file, somewhere.
OnBlock(it, i) ==
  /\ it \in TwoLevelIters /\ i \in 1 .. NumBlocks /\ it.handle = i
  /\ AtKey(it.index, builder.index, Separators, i)
  /\ it.data \in BlockIters(BlockAt(i))

OnPlace(it, i, j) == OnBlock(it, i) /\ AtKey(it.data, BlockAt(i), KeysAt(i), j)

\* The data iterator is of the block it was made from.
Fits(it) ==
  /\ it \in TwoLevelIters
  /\ it.handle # 0 => it.data \in BlockIters(BlockAt(it.handle))

LEMMA BlockIterIs ==
  ASSUME NEW b, NEW ks, Holds(b, ks)
  PROVE  AtKey(BlockIter(b), b, ks, Len(ks) + 1)
<1>1. Len(ks) \in Nat /\ Len(b.entries) = Len(ks) /\ Len(b.restarts) \in Nat
  BY HoldsTypes
<1>2. Len(b.entries) + 1 \in Nat /\ Len(b.restarts) + 1 \in Nat /\ <<>> \in Bytes /\ 1 \in Nat
  BY <1>1, EmptySeq DEF Bytes
<1>. DEFINE c == Len(b.entries) + 1
            r == Len(b.restarts) + 1
<1>3. BlockIter(b) = [block |-> b, current |-> c, next |-> 1, restart |-> r, key |-> <<>>]
  BY DEF BlockIter
<1>. HIDE DEF c, r
<1>4. c \in Nat /\ r \in Nat /\ c = Len(ks) + 1
  BY <1>1, <1>2 DEF c, r
<1>5. BlockIter(b) \in BlockIters(b) /\ BlockIter(b).current = c
  BY <1>2, <1>3, <1>4 DEF BlockIters
<1>. QED  BY <1>1, <1>4, <1>5 DEF AtKey

\* No iterator yet, with its index wherever it is off the end.
LEMMA NoBlockIs ==
  ASSUME Finished, NEW x, AtKey(x, builder.index, Separators, NumBlocks + 1)
  PROVE  Nowhere([NoIter EXCEPT !.index = x])
<1>. DEFINE e == BlockIter(EmptyBlock)
            z == [NoIter EXCEPT !.index = x]
<1>1. z = [index |-> x, data |-> e, handle |-> 0]
  BY DEF NoIter
<1>2. e \in DataIters
  BY DEF DataIters
<1>3. x \in BlockIters(builder.index) /\ 0 \in 0 .. NumBlocks
  BY FinishedIs DEF AtKey
<1>. HIDE DEF e, z
<1>4. z \in TwoLevelIters /\ z.handle = 0 /\ z.data = e /\ z.index = x
  BY <1>1, <1>2, <1>3 DEF TwoLevelIters
<1>. QED  BY <1>4 DEF Nowhere, e, z

\* InitDataBlock.
LEMMA InitDataBlockIs ==
  ASSUME Finished, NEW it, Fits(it), NEW i, AtKey(it.index, builder.index, Separators, i)
  PROVE  /\ i = NumBlocks + 1 => Nowhere(InitDataBlock(it))
         /\ i <= NumBlocks => OnBlock(InitDataBlock(it), i)
<1>0. /\ NumBlocks \in Nat /\ Holds(builder.index, Separators) /\ Len(Separators) = NumBlocks
      /\ i \in 1 .. NumBlocks + 1
  BY FinishedIs DEF AtKey
<1>1. OnEntry(it.index) <=> i <= NumBlocks
  BY <1>0, OnEntryIs
<1>2. CASE i = NumBlocks + 1
  <2>1. InitDataBlock(it) = [NoIter EXCEPT !.index = it.index]
    BY <1>0, <1>1, <1>2 DEF InitDataBlock
  <2>2. Nowhere([NoIter EXCEPT !.index = it.index])
    BY <1>2, NoBlockIs
  <2>. QED  BY <1>0, <1>2, <2>1, <2>2
<1>3. CASE i <= NumBlocks
  <2>1. i \in 1 .. NumBlocks
    BY <1>0, <1>3
  <2>2. Value(it.index) = i
    <3>1. it.index.block = builder.index /\ it.index.current = i
      BY DEF AtKey, BlockIters
    <3>. QED  BY <2>1, <3>1, FinishedIs DEF Value
  <2>3. CASE it.handle = i
    <3>1. InitDataBlock(it) = it
      BY <1>1, <1>3, <2>2, <2>3 DEF InitDataBlock
    <3>2. OnBlock(it, i)
      BY <2>1, <2>3 DEF OnBlock, Fits
    <3>. QED  BY <1>0, <1>3, <3>1, <3>2
  <2>4. CASE it.handle # i
    <3>. DEFINE d == BlockIter(BlockAt(i))
                z == InitDataBlock(it)
    <3>1. z = [it EXCEPT !.data = d, !.handle = i]
      BY <1>1, <1>3, <2>2, <2>4 DEF InitDataBlock, BlockAt
    <3>2. d \in BlockIters(BlockAt(i))
      BY <2>1, FinishedIs, BlockIterIs DEF AtKey
    <3>3. d \in DataIters /\ i \in 0 .. NumBlocks /\ it \in TwoLevelIters
      BY <1>0, <2>1, <3>2 DEF DataIters, Fits
    <3>. HIDE DEF d, z
    <3>4. z \in TwoLevelIters /\ z.data = d /\ z.handle = i /\ z.index = it.index
      BY <3>1, <3>3 DEF TwoLevelIters
    <3>5. OnBlock(z, i)
      BY <2>1, <3>2, <3>4 DEF OnBlock
    <3>. QED  BY <1>0, <1>3, <3>5 DEF z
  <2>. QED  BY <2>3, <2>4
<1>. QED  BY <1>0, <1>2, <1>3

\* The data iterator moves within its block.
LEMMA DataMoves ==
  ASSUME Finished, NEW it, NEW i, OnBlock(it, i), NEW d, NEW j, AtKey(d, BlockAt(i), KeysAt(i), j)
  PROVE  OnPlace([it EXCEPT !.data = d], i, j)
<1>. DEFINE z == [it EXCEPT !.data = d]
<1>1. it \in TwoLevelIters /\ d \in BlockIters(BlockAt(i)) /\ i \in 1 .. NumBlocks
  BY DEF OnBlock, AtKey
<1>2. d \in DataIters
  BY <1>1 DEF DataIters
<1>3. z \in TwoLevelIters /\ z.data = d /\ z.handle = it.handle /\ z.index = it.index
  BY <1>1, <1>2 DEF TwoLevelIters
<1>. HIDE DEF z
<1>4. OnPlace(z, i, j)
  BY <1>1, <1>3 DEF OnBlock, OnPlace
<1>. QED  BY <1>4 DEF z

\* The index moves, and the data iterator stays what it is.
LEMMA IndexMoves ==
  ASSUME Finished, NEW it, Fits(it), NEW x, NEW i, AtKey(x, builder.index, Separators, i)
  PROVE  LET z == [it EXCEPT !.index = x]
         IN Fits(z) /\ AtKey(z.index, builder.index, Separators, i)
<1>. DEFINE z == [it EXCEPT !.index = x]
<1>1. it \in TwoLevelIters /\ x \in BlockIters(builder.index)
  BY DEF Fits, AtKey
<1>2. z \in TwoLevelIters /\ z.data = it.data /\ z.handle = it.handle /\ z.index = x
  BY <1>1 DEF TwoLevelIters
<1>. HIDE DEF z
<1>3. Fits(z) /\ AtKey(z.index, builder.index, Separators, i)
  BY <1>2 DEF Fits
<1>. QED  BY <1>3 DEF z

LEMMA FitsIs ==
  ASSUME Finished, NEW it
  PROVE  /\ Nowhere(it) => Fits(it)
         /\ \A i : OnBlock(it, i) => Fits(it)
         /\ \A i, j : OnPlace(it, i, j) => OnBlock(it, i)
<1>1. Nowhere(it) => Fits(it)
  BY DEF Nowhere, Fits
<1>2. \A i : OnBlock(it, i) => Fits(it)
  BY DEF OnBlock, Fits
<1>. QED  BY <1>1, <1>2 DEF OnPlace

LEMMA InDataIs ==
  ASSUME Finished, NEW it
  PROVE  /\ Nowhere(it) => FirstInData(it) = it /\ LastInData(it) = it
         /\ \A i : OnBlock(it, i) => /\ OnPlace(FirstInData(it), i, 1)
                                     /\ OnPlace(LastInData(it), i, Len(KeysAt(i)))
<1>1. Nowhere(it) => FirstInData(it) = it /\ LastInData(it) = it
  BY DEF Nowhere, FirstInData, LastInData
<1>2. ASSUME NEW i, OnBlock(it, i)
      PROVE  OnPlace(FirstInData(it), i, 1) /\ OnPlace(LastInData(it), i, Len(KeysAt(i)))
  <2>1. i \in 1 .. NumBlocks /\ it.handle = i /\ it.data \in BlockIters(BlockAt(i))
    BY <1>2 DEF OnBlock
  <2>2. Holds(BlockAt(i), KeysAt(i)) /\ Len(KeysAt(i)) \in Nat /\ Len(KeysAt(i)) # 0
    BY <2>1, FinishedIs
  <2>3. i # 0
    BY <2>1, FinishedIs
  <2>4. AtKey(FirstInBlock(it.data), BlockAt(i), KeysAt(i), 1)
    BY <2>1, <2>2, FirstIs
  <2>5. AtKey(LastInBlock(it.data), BlockAt(i), KeysAt(i), Len(KeysAt(i)))
    <3>1. AtKey(LastInBlock(it.data), BlockAt(i), KeysAt(i),
                IF Len(KeysAt(i)) = 0 THEN 1 ELSE Len(KeysAt(i)))
      BY <2>1, <2>2, LastIs
    <3>. QED  BY <2>2, <3>1
  <2>6. FirstInData(it) = [it EXCEPT !.data = FirstInBlock(it.data)]
    BY <2>1, <2>3 DEF FirstInData
  <2>7. LastInData(it) = [it EXCEPT !.data = LastInBlock(it.data)]
    BY <2>1, <2>3 DEF LastInData
  <2>8. OnPlace([it EXCEPT !.data = FirstInBlock(it.data)], i, 1)
    BY <1>2, <2>4, DataMoves
  <2>9. OnPlace([it EXCEPT !.data = LastInBlock(it.data)], i, Len(KeysAt(i)))
    BY <1>2, <2>5, DataMoves
  <2>. QED  BY <2>6, <2>7, <2>8, <2>9
<1>. QED  BY <1>1, <1>2

LEMMA InitThenIs ==
  ASSUME Finished, NEW it, Fits(it), NEW x, NEW i, AtKey(x, builder.index, Separators, i)
  PROVE  LET z == InitDataBlock([it EXCEPT !.index = x])
         IN /\ i = NumBlocks + 1 => Nowhere(z)
            /\ i <= NumBlocks => OnBlock(z, i)
<1>. DEFINE y == [it EXCEPT !.index = x]
<1>1. Fits(y) /\ AtKey(y.index, builder.index, Separators, i)
  BY IndexMoves
<1>. HIDE DEF y
<1>2. (i = NumBlocks + 1 => Nowhere(InitDataBlock(y))) /\ (i <= NumBlocks => OnBlock(InitDataBlock(y), i))
  BY <1>1, InitDataBlockIs
<1>. QED  BY <1>2 DEF y

\* On a key, or on no block: then no loop moves the iterator any more.
Settled(it, i, j) ==
  IF i = 0 THEN Nowhere(it) ELSE OnPlace(it, i, j) /\ j <= Len(KeysAt(i))

LEMMA OffNowhere ==
  ASSUME Finished, NEW it, Nowhere(it)
  PROVE  /\ it.handle = 0 /\ ~OnEntry(it.index) /\ Nowhere([NoIter EXCEPT !.index = it.index])
         /\ ~OnEntry(it.data)
<1>1. /\ it.handle = 0 /\ AtKey(it.index, builder.index, Separators, NumBlocks + 1)
      /\ it.data = BlockIter(EmptyBlock)
  BY DEF Nowhere
<1>2. NumBlocks \in Nat /\ Holds(builder.index, Separators) /\ Len(Separators) = NumBlocks
  BY FinishedIs
<1>3. OnEntry(it.index) <=> NumBlocks + 1 <= NumBlocks
  BY <1>1, <1>2, OnEntryIs
<1>4. AtKey(it.data, EmptyBlock, <<>>, Len(<<>>) + 1)
  BY <1>1, EmptyHolds, BlockIterIs
<1>5. OnEntry(it.data) <=> Len(<<>>) + 1 <= Len(<<>>)
  BY <1>4, EmptyHolds, OnEntryIs
<1>6. Len(<<>>) = 0
  BY EmptySeq
<1>. QED  BY <1>1, <1>2, <1>3, <1>5, <1>6, NoBlockIs

LEMMA PlaceIs ==
  ASSUME Finished, NEW it, NEW i, NEW j, OnPlace(it, i, j)
  PROVE  /\ it \in TwoLevelIters /\ i \in 1 .. NumBlocks /\ i # 0 /\ it.handle # 0
         /\ j \in 1 .. Len(KeysAt(i)) + 1
         /\ OnEntry(it.index) /\ (OnEntry(it.data) <=> j <= Len(KeysAt(i)))
         /\ AtKey(it.index, builder.index, Separators, i)
         /\ AtKey(it.data, BlockAt(i), KeysAt(i), j)
<1>1. /\ it \in TwoLevelIters /\ i \in 1 .. NumBlocks /\ it.handle = i
      /\ AtKey(it.index, builder.index, Separators, i)
      /\ AtKey(it.data, BlockAt(i), KeysAt(i), j)
  BY DEF OnPlace, OnBlock
<1>2. NumBlocks \in Nat /\ Holds(builder.index, Separators) /\ Len(Separators) = NumBlocks
      /\ Holds(BlockAt(i), KeysAt(i))
  BY <1>1, FinishedIs
<1>3. i # 0 /\ i <= Len(Separators)
  BY <1>1, <1>2
<1>4. OnEntry(it.index)
  BY <1>1, <1>2, <1>3, OnEntryIs
<1>5. OnEntry(it.data) <=> j <= Len(KeysAt(i))
  BY <1>1, <1>2, OnEntryIs
<1>6. j \in 1 .. Len(KeysAt(i)) + 1
  BY <1>1 DEF AtKey
<1>. QED  BY <1>1, <1>3, <1>4, <1>5, <1>6

LEMMA NextBlockIs ==
  ASSUME Finished, NEW it
  PROVE  /\ Nowhere(it) => Nowhere(ToNextBlock(it))
         /\ \A i, j : OnPlace(it, i, j) =>
              IF j <= Len(KeysAt(i)) THEN ToNextBlock(it) = it
              ELSE IF i < NumBlocks THEN OnPlace(ToNextBlock(it), i + 1, 1)
              ELSE Nowhere(ToNextBlock(it))
<1>1. Nowhere(it) => Nowhere(ToNextBlock(it))
  BY OffNowhere DEF ToNextBlock
<1>2. ASSUME NEW i, NEW j, OnPlace(it, i, j)
      PROVE  IF j <= Len(KeysAt(i)) THEN ToNextBlock(it) = it
             ELSE IF i < NumBlocks THEN OnPlace(ToNextBlock(it), i + 1, 1)
             ELSE Nowhere(ToNextBlock(it))
  <2>0. /\ i \in 1 .. NumBlocks /\ it.handle # 0
        /\ OnEntry(it.index) /\ (OnEntry(it.data) <=> j <= Len(KeysAt(i)))
        /\ AtKey(it.index, builder.index, Separators, i)
    BY <1>2, PlaceIs
  <2>1. CASE j <= Len(KeysAt(i))
    BY <2>0, <2>1 DEF ToNextBlock
  <2>2. CASE ~(j <= Len(KeysAt(i)))
    <3>. DEFINE x == ParseNextKey(it.index)
                z == InitDataBlock([it EXCEPT !.index = x])
    <3>1. ToNextBlock(it) = FirstInData(z)
      BY <2>0, <2>2 DEF ToNextBlock
    <3>2. NumBlocks \in Nat /\ Holds(builder.index, Separators) /\ Len(Separators) = NumBlocks
      BY FinishedIs
    <3>3. i <= Len(Separators)
      BY <2>0, <3>2
    <3>4. AtKey(x, builder.index, Separators, i + 1)
      BY <2>0, <3>2, <3>3, NextIs
    <3>5. Fits(it)
      BY <1>2, FitsIs
    <3>6. (i + 1 = NumBlocks + 1 => Nowhere(z)) /\ (i + 1 <= NumBlocks => OnBlock(z, i + 1))
      BY <3>4, <3>5, InitThenIs
    <3>. HIDE DEF z
    <3>7. CASE i < NumBlocks
      <4>1. OnBlock(z, i + 1)
        BY <2>0, <3>2, <3>6, <3>7
      <4>2. OnPlace(FirstInData(z), i + 1, 1)
        BY <4>1, InDataIs
      <4>. QED  BY <2>2, <3>1, <3>7, <4>2
    <3>8. CASE ~(i < NumBlocks)
      <4>1. Nowhere(z)
        BY <2>0, <3>2, <3>6, <3>8
      <4>2. FirstInData(z) = z
        BY <4>1, InDataIs
      <4>. QED  BY <2>2, <3>1, <3>8, <4>1, <4>2
    <3>. QED  BY <3>7, <3>8
  <2>. QED  BY <2>1, <2>2
<1>. QED  BY <1>1, <1>2

LEMMA PrevBlockIs ==
  ASSUME Finished, NEW it
  PROVE  /\ Nowhere(it) => Nowhere(ToPrevBlock(it))
         /\ \A i, j : OnPlace(it, i, j) =>
              IF j <= Len(KeysAt(i)) THEN ToPrevBlock(it) = it
              ELSE IF i > 1 THEN OnPlace(ToPrevBlock(it), i - 1, Len(KeysAt(i - 1)))
              ELSE Nowhere(ToPrevBlock(it))
<1>1. Nowhere(it) => Nowhere(ToPrevBlock(it))
  BY OffNowhere DEF ToPrevBlock
<1>2. ASSUME NEW i, NEW j, OnPlace(it, i, j)
      PROVE  IF j <= Len(KeysAt(i)) THEN ToPrevBlock(it) = it
             ELSE IF i > 1 THEN OnPlace(ToPrevBlock(it), i - 1, Len(KeysAt(i - 1)))
             ELSE Nowhere(ToPrevBlock(it))
  <2>0. /\ i \in 1 .. NumBlocks /\ it.handle # 0
        /\ OnEntry(it.index) /\ (OnEntry(it.data) <=> j <= Len(KeysAt(i)))
        /\ AtKey(it.index, builder.index, Separators, i)
    BY <1>2, PlaceIs
  <2>1. CASE j <= Len(KeysAt(i))
    BY <2>0, <2>1 DEF ToPrevBlock
  <2>2. CASE ~(j <= Len(KeysAt(i)))
    <3>. DEFINE x == PrevInBlock(it.index)
                z == InitDataBlock([it EXCEPT !.index = x])
    <3>1. ToPrevBlock(it) = LastInData(z)
      BY <2>0, <2>2 DEF ToPrevBlock
    <3>2. NumBlocks \in Nat /\ Holds(builder.index, Separators) /\ Len(Separators) = NumBlocks
      BY FinishedIs
    <3>3. i <= Len(Separators)
      BY <2>0, <3>2
    <3>4. AtKey(x, builder.index, Separators, IF i = 1 THEN Len(Separators) + 1 ELSE i - 1)
      BY <2>0, <3>2, <3>3, PrevIs
    <3>5. Fits(it)
      BY <1>2, FitsIs
    <3>7. CASE i > 1
      <4>1. i # 1 /\ i - 1 <= NumBlocks
        BY <2>0, <3>2, <3>7
      <4>2. AtKey(x, builder.index, Separators, i - 1)
        BY <3>4, <4>1
      <4>3. OnBlock(z, i - 1)
        BY <3>5, <4>1, <4>2, InitThenIs
      <4>. HIDE DEF z
      <4>4. OnPlace(LastInData(z), i - 1, Len(KeysAt(i - 1)))
        BY <4>3, InDataIs
      <4>. QED  BY <2>2, <3>1, <3>7, <4>4
    <3>8. CASE ~(i > 1)
      <4>1. i = 1
        BY <2>0, <3>2, <3>8
      <4>2. AtKey(x, builder.index, Separators, NumBlocks + 1)
        BY <3>2, <3>4, <4>1
      <4>3. Nowhere(z)
        BY <3>5, <4>2, InitThenIs
      <4>. HIDE DEF z
      <4>4. LastInData(z) = z
        BY <4>3, InDataIs
      <4>. QED  BY <2>2, <3>1, <3>8, <4>3, <4>4
    <3>. QED  BY <3>7, <3>8
  <2>. QED  BY <2>1, <2>2
<1>. QED  BY <1>1, <1>2

Places ==
  {it \in TwoLevelIters :
     Nowhere(it) \/ \E i \in 1 .. NumBlocks : \E j \in 1 .. Len(KeysAt(i)) + 1 : OnPlace(it, i, j)}

LEMMA PlacesHave ==
  ASSUME Finished, NEW it
  PROVE  /\ Nowhere(it) => it \in Places
         /\ \A i, j : OnPlace(it, i, j) => it \in Places
<1>1. Nowhere(it) => it \in Places
  BY DEF Nowhere, Places
<1>2. \A i, j : OnPlace(it, i, j) => it \in Places
  BY PlaceIs DEF Places
<1>. QED  BY <1>1, <1>2

LEMMA StaysInPlaces ==
  ASSUME Finished, NEW it \in Places
  PROVE  ToNextBlock(it) \in Places /\ ToPrevBlock(it) \in Places
<1>1. CASE Nowhere(it)
  BY <1>1, NextBlockIs, PrevBlockIs, PlacesHave
<1>2. CASE ~Nowhere(it)
  <2>1. PICK i \in 1 .. NumBlocks : \E j \in 1 .. Len(KeysAt(i)) + 1 : OnPlace(it, i, j)
    BY <1>2 DEF Places
  <2>2. PICK j \in 1 .. Len(KeysAt(i)) + 1 : OnPlace(it, i, j)
    BY <2>1
  <2>3. IF j <= Len(KeysAt(i)) THEN ToNextBlock(it) = it
        ELSE IF i < NumBlocks THEN OnPlace(ToNextBlock(it), i + 1, 1)
        ELSE Nowhere(ToNextBlock(it))
    BY <2>2, NextBlockIs
  <2>4. IF j <= Len(KeysAt(i)) THEN ToPrevBlock(it) = it
        ELSE IF i > 1 THEN OnPlace(ToPrevBlock(it), i - 1, Len(KeysAt(i - 1)))
        ELSE Nowhere(ToPrevBlock(it))
    BY <2>2, PrevBlockIs
  <2>5. ToNextBlock(it) \in Places
    BY <2>3, PlacesHave
  <2>6. ToPrevBlock(it) \in Places
    BY <2>4, PlacesHave
  <2>. QED  BY <2>5, <2>6
<1>. QED  BY <1>1, <1>2

\* A loop that is there after one turn is still there at its end.
LEMMA LoopSettles ==
  ASSUME NEW N \in Nat, N >= 1, NEW u, NEW P, u[1] \in P,
         \A n \in 2 .. N : u[n - 1] \in P => u[n] \in P
  PROVE  u[N] \in P
<1>. DEFINE D == {n \in Nat : n + 1 <= N => u[n + 1] \in P}
<1>1. 0 \in D
  OBVIOUS
<1>2. ASSUME NEW n \in Nat, n \in D PROVE n + 1 \in D
  <2>. SUFFICES ASSUME (n + 1) + 1 <= N PROVE u[(n + 1) + 1] \in P
    OBVIOUS
  <2>1. (n + 1) + 1 \in 2 .. N /\ ((n + 1) + 1) - 1 = n + 1 /\ n + 1 <= N
    OBVIOUS
  <2>2. u[n + 1] \in P
    BY <1>2, <2>1
  <2>. QED  BY <2>1, <2>2
<1>. HIDE DEF D
<1>3. \A n \in Nat : n \in D
  BY <1>1, <1>2, Induction
<1>4. N - 1 \in Nat /\ (N - 1) + 1 = N
  OBVIOUS
<1>5. N - 1 \in D
  BY <1>3, <1>4
<1>. QED  BY <1>4, <1>5 DEF D

LEMMA SkipForwardIs ==
  ASSUME Finished, NEW it \in Places, NEW i, NEW j, Settled(ToNextBlock(it), i, j)
  PROVE  Settled(SkipForward(it), i, j)
<1>. DEFINE M == Len(builder.file) + 1
            f == [p \in Places |-> ToNextBlock(p)]
<1>0. M \in Nat /\ M >= 1
  BY FinishedIs DEF NumBlocks
<1>1. f \in [Places -> Places]
  BY StaysInPlaces
<1>2. PICK t : AreTurns(t, Places, f, it, M)
  <2>. HIDE DEF f, M
  <2>. QED  BY <1>0, <1>1, Turns
<1>3. \A n \in 1 .. M : t[n] = ToNextBlock(t[n - 1])
  <2>. SUFFICES ASSUME NEW n \in 1 .. M PROVE t[n] = ToNextBlock(t[n - 1])
    OBVIOUS
  <2>1. n - 1 \in 0 .. M
    BY <1>0
  <2>. QED  BY <1>2, <2>1 DEF AreTurns
<1>4. t = [n \in 0 .. M |-> IF n = 0 THEN it ELSE ToNextBlock(t[n - 1])]
  <2>. HIDE DEF f, M
  <2>1. \A n \in 0 .. M : n # 0 => n \in 1 .. M
    BY <1>0
  <2>. QED  BY <1>2, <1>3, <2>1 DEF AreTurns
<1>5. \E u : u = [n \in 0 .. Len(builder.file) + 1 |-> IF n = 0 THEN it ELSE ToNextBlock(u[n - 1])]
  BY <1>4
<1>6. PICK u : /\ SkipForward(it) = u[Len(builder.file) + 1]
               /\ u = [n \in 0 .. Len(builder.file) + 1 |-> IF n = 0 THEN it ELSE ToNextBlock(u[n - 1])]
  BY <1>5, Zenon DEF SkipForward
<1>7. /\ SkipForward(it) = u[M] /\ u[1] = ToNextBlock(it)
      /\ \A n \in 2 .. M : u[n] = ToNextBlock(u[n - 1])
  <2>1. \A n \in 2 .. M : n \in 0 .. M /\ n # 0
    BY <1>0
  <2>2. 0 \in 0 .. M /\ 1 \in 0 .. M /\ 1 - 1 = 0
    BY <1>0
  <2>3. u = [n \in 0 .. M |-> IF n = 0 THEN it ELSE ToNextBlock(u[n - 1])]
    BY <1>6
  <2>. HIDE DEF M
  <2>4. u[0] = it
    BY <2>2, <2>3
  <2>5. u[1] = ToNextBlock(u[0])
    BY <2>2, <2>3
  <2>. QED  BY <1>6, <2>1, <2>3, <2>4, <2>5 DEF M
<1>. DEFINE P == {x \in TwoLevelIters : Settled(x, i, j)}
<1>8. \A x : Settled(x, i, j) => x \in P /\ Settled(ToNextBlock(x), i, j)
  <2>. SUFFICES ASSUME NEW x, Settled(x, i, j) PROVE x \in TwoLevelIters /\ Settled(ToNextBlock(x), i, j)
    OBVIOUS
  <2>1. CASE i = 0
    BY <2>1, NextBlockIs DEF Settled, Nowhere
  <2>2. CASE i # 0
    BY <2>2, NextBlockIs, PlaceIs DEF Settled
  <2>. QED  BY <2>1, <2>2
<1>9. \A n \in 2 .. M : u[n - 1] \in P => u[n] \in P
  BY <1>7, <1>8
<1>10. u[1] \in P
  BY <1>7, <1>8
<1>11. u[M] \in P
  <2>. HIDE DEF P, M
  <2>. QED  BY <1>0, <1>9, <1>10, LoopSettles
<1>. QED  BY <1>7, <1>11

LEMMA SkipBackwardIs ==
  ASSUME Finished, NEW it \in Places, NEW i, NEW j, Settled(ToPrevBlock(it), i, j)
  PROVE  Settled(SkipBackward(it), i, j)
<1>. DEFINE M == Len(builder.file) + 1
            f == [p \in Places |-> ToPrevBlock(p)]
<1>0. M \in Nat /\ M >= 1
  BY FinishedIs DEF NumBlocks
<1>1. f \in [Places -> Places]
  BY StaysInPlaces
<1>2. PICK t : AreTurns(t, Places, f, it, M)
  <2>. HIDE DEF f, M
  <2>. QED  BY <1>0, <1>1, Turns
<1>3. \A n \in 1 .. M : t[n] = ToPrevBlock(t[n - 1])
  <2>. SUFFICES ASSUME NEW n \in 1 .. M PROVE t[n] = ToPrevBlock(t[n - 1])
    OBVIOUS
  <2>1. n - 1 \in 0 .. M
    BY <1>0
  <2>. QED  BY <1>2, <2>1 DEF AreTurns
<1>4. t = [n \in 0 .. M |-> IF n = 0 THEN it ELSE ToPrevBlock(t[n - 1])]
  <2>. HIDE DEF f, M
  <2>1. \A n \in 0 .. M : n # 0 => n \in 1 .. M
    BY <1>0
  <2>. QED  BY <1>2, <1>3, <2>1 DEF AreTurns
<1>5. \E u : u = [n \in 0 .. Len(builder.file) + 1 |-> IF n = 0 THEN it ELSE ToPrevBlock(u[n - 1])]
  BY <1>4
<1>6. PICK u : /\ SkipBackward(it) = u[Len(builder.file) + 1]
               /\ u = [n \in 0 .. Len(builder.file) + 1 |-> IF n = 0 THEN it ELSE ToPrevBlock(u[n - 1])]
  BY <1>5, Zenon DEF SkipBackward
<1>7. /\ SkipBackward(it) = u[M] /\ u[1] = ToPrevBlock(it)
      /\ \A n \in 2 .. M : u[n] = ToPrevBlock(u[n - 1])
  <2>1. \A n \in 2 .. M : n \in 0 .. M /\ n # 0
    BY <1>0
  <2>2. 0 \in 0 .. M /\ 1 \in 0 .. M /\ 1 - 1 = 0
    BY <1>0
  <2>3. u = [n \in 0 .. M |-> IF n = 0 THEN it ELSE ToPrevBlock(u[n - 1])]
    BY <1>6
  <2>. HIDE DEF M
  <2>4. u[0] = it
    BY <2>2, <2>3
  <2>5. u[1] = ToPrevBlock(u[0])
    BY <2>2, <2>3
  <2>. QED  BY <1>6, <2>1, <2>3, <2>4, <2>5 DEF M
<1>. DEFINE P == {x \in TwoLevelIters : Settled(x, i, j)}
<1>8. \A x : Settled(x, i, j) => x \in P /\ Settled(ToPrevBlock(x), i, j)
  <2>. SUFFICES ASSUME NEW x, Settled(x, i, j) PROVE x \in TwoLevelIters /\ Settled(ToPrevBlock(x), i, j)
    OBVIOUS
  <2>1. CASE i = 0
    BY <2>1, PrevBlockIs DEF Settled, Nowhere
  <2>2. CASE i # 0
    BY <2>2, PrevBlockIs, PlaceIs DEF Settled
  <2>. QED  BY <2>1, <2>2
<1>9. \A n \in 2 .. M : u[n - 1] \in P => u[n] \in P
  BY <1>7, <1>8
<1>10. u[1] \in P
  BY <1>7, <1>8
<1>11. u[M] \in P
  <2>. HIDE DEF P, M
  <2>. QED  BY <1>0, <1>9, <1>10, LoopSettles
<1>. QED  BY <1>7, <1>11

\* Keys are in the order of their places.
LEMMA PlaceOrder ==
  ASSUME Finished, NEW i \in 1 .. NumBlocks, NEW j \in 1 .. Len(KeysAt(i)),
         NEW m \in 1 .. NumBlocks, NEW l \in 1 .. Len(KeysAt(m))
  PROVE  KeyLess(KeysAt(i)[j], KeysAt(m)[l]) <=> i < m \/ (i = m /\ j < l)
<1>1. NumBlocks \in Nat /\ KeysAt(i)[j] \in IKey /\ KeysAt(m)[l] \in IKey
      /\ Len(KeysAt(i)) \in Nat /\ Len(KeysAt(m)) \in Nat
  BY FinishedIs
<1>2. CASE i < m
  <2>1. m \in i + 1 .. NumBlocks
    BY <1>1, <1>2
  <2>2. KeyLess(KeysAt(i)[j], KeysAt(m)[l])
    BY <2>1, BlocksInOrder
  <2>. QED  BY <1>2, <2>2
<1>3. CASE m < i
  <2>1. i \in m + 1 .. NumBlocks
    BY <1>1, <1>3
  <2>2. KeyLess(KeysAt(m)[l], KeysAt(i)[j])
    BY <2>1, BlocksInOrder
  <2>3. ~(i < m) /\ i # m
    BY <1>1, <1>3
  <2>. QED  BY <1>1, <2>2, <2>3, KeyOrder
<1>4. CASE i = m
  <2>1. InOrder(KeysAt(i)) /\ j \in 1 .. Len(KeysAt(i)) /\ l \in 1 .. Len(KeysAt(i)) /\ ~(i < m)
    BY <1>1, <1>4, FinishedIs
  <2>2. CASE j < l
    BY <1>4, <2>1, <2>2 DEF InOrder
  <2>3. CASE l < j
    <3>1. KeyLess(KeysAt(i)[l], KeysAt(i)[j])
      BY <2>1, <2>3 DEF InOrder
    <3>2. ~KeyLess(KeysAt(i)[j], KeysAt(m)[l])
      BY <1>1, <1>4, <3>1, KeyOrder
    <3>3. ~(j < l)
      BY <2>1, <2>3
    <3>. QED  BY <2>1, <3>2, <3>3
  <2>4. CASE j = l
    <3>1. ~KeyLess(KeysAt(i)[j], KeysAt(m)[l])
      BY <1>1, <1>4, <2>4, KeyOrder
    <3>2. ~(j < l)
      BY <1>1, <2>4
    <3>. QED  BY <2>1, <3>1, <3>2
  <2>. QED  BY <1>1, <2>1, <2>2, <2>3, <2>4
<1>. QED  BY <1>1, <1>2, <1>3, <1>4

\* The iterator is on the least key of a set, or the greatest, or on none if it is empty.
IsFirst(it, W) ==
  \/ W = {} /\ Nowhere(it)
  \/ \E i \in 1 .. NumBlocks : \E j \in 1 .. Len(KeysAt(i)) :
       OnPlace(it, i, j) /\ KeysAt(i)[j] \in W /\ \A x \in W : ~KeyLess(x, KeysAt(i)[j])

IsLast(it, W) ==
  \/ W = {} /\ Nowhere(it)
  \/ \E i \in 1 .. NumBlocks : \E j \in 1 .. Len(KeysAt(i)) :
       OnPlace(it, i, j) /\ KeysAt(i)[j] \in W /\ \A x \in W : ~KeyLess(KeysAt(i)[j], x)

\* A set has the keys from a place on, or the keys up to it.
From(W, i, j) ==
  /\ W \subseteq builder.added
  /\ \A m \in 1 .. NumBlocks : \A l \in 1 .. Len(KeysAt(m)) :
       KeysAt(m)[l] \in W <=> i < m \/ (i = m /\ j <= l)

UpTo(W, i, j) ==
  /\ W \subseteq builder.added
  /\ \A m \in 1 .. NumBlocks : \A l \in 1 .. Len(KeysAt(m)) :
       KeysAt(m)[l] \in W <=> m < i \/ (m = i /\ l <= j /\ j <= Len(KeysAt(i)))

LEMMA FirstFrom ==
  ASSUME Finished, NEW it, NEW i \in 1 .. NumBlocks, NEW j \in 1 .. Len(KeysAt(i)), OnPlace(it, i, j),
         NEW W, From(W, i, j)
  PROVE  IsFirst(it, W)
<1>1. i <= i /\ j <= j
  BY FinishedIs
<1>2. KeysAt(i)[j] \in W
  BY <1>1 DEF From
<1>3. ASSUME NEW x \in W PROVE ~KeyLess(x, KeysAt(i)[j])
  <2>1. x \in builder.added
    BY DEF From
  <2>2. PICK m \in 1 .. NumBlocks : \E l \in 1 .. Len(KeysAt(m)) : x = KeysAt(m)[l]
    BY <2>1, FinishedIs
  <2>3. PICK l \in 1 .. Len(KeysAt(m)) : x = KeysAt(m)[l]
    BY <2>2
  <2>4. i < m \/ (i = m /\ j <= l)
    BY <2>3 DEF From
  <2>5. ~(m < i \/ (m = i /\ l < j))
    BY <2>4, FinishedIs
  <2>. QED  BY <2>3, <2>5, PlaceOrder
<1>. QED  BY <1>2, <1>3 DEF IsFirst

LEMMA LastUpTo ==
  ASSUME Finished, NEW it, NEW i \in 1 .. NumBlocks, NEW j \in 1 .. Len(KeysAt(i)), OnPlace(it, i, j),
         NEW W, UpTo(W, i, j)
  PROVE  IsLast(it, W)
<1>1. i <= i /\ j <= j /\ j <= Len(KeysAt(i))
  BY FinishedIs
<1>2. KeysAt(i)[j] \in W
  BY <1>1 DEF UpTo
<1>3. ASSUME NEW x \in W PROVE ~KeyLess(KeysAt(i)[j], x)
  <2>1. x \in builder.added
    BY DEF UpTo
  <2>2. PICK m \in 1 .. NumBlocks : \E l \in 1 .. Len(KeysAt(m)) : x = KeysAt(m)[l]
    BY <2>1, FinishedIs
  <2>3. PICK l \in 1 .. Len(KeysAt(m)) : x = KeysAt(m)[l]
    BY <2>2
  <2>4. m < i \/ (m = i /\ l <= j)
    BY <2>3 DEF UpTo
  <2>5. ~(i < m \/ (i = m /\ j < l))
    BY <2>4, FinishedIs
  <2>. QED  BY <2>3, <2>5, PlaceOrder
<1>. QED  BY <1>2, <1>3 DEF IsLast

LEMMA ForwardNowhere ==
  ASSUME Finished, NEW it, Nowhere(it)
  PROVE  IsFirst(SkipForward(it), {}) /\ IsLast(SkipBackward(it), {})
<1>1. it \in Places
  BY PlacesHave
<1>2. Settled(ToNextBlock(it), 0, 0) /\ Settled(ToPrevBlock(it), 0, 0)
  BY NextBlockIs, PrevBlockIs DEF Settled
<1>3. Settled(SkipForward(it), 0, 0) /\ Settled(SkipBackward(it), 0, 0)
  BY <1>1, <1>2, SkipForwardIs, SkipBackwardIs
<1>. QED  BY <1>3 DEF Settled, IsFirst, IsLast

LEMMA ForwardIs ==
  ASSUME Finished, NEW it, NEW i, NEW j, OnPlace(it, i, j), NEW W, From(W, i, j)
  PROVE  IsFirst(SkipForward(it), W)
<1>0. i \in 1 .. NumBlocks /\ j \in 1 .. Len(KeysAt(i)) + 1 /\ NumBlocks \in Nat /\ Len(KeysAt(i)) \in Nat
      /\ it \in Places /\ i # 0
  BY PlaceIs, FinishedIs, PlacesHave
<1>1. CASE j <= Len(KeysAt(i))
  <2>1. ToNextBlock(it) = it
    BY <1>1, NextBlockIs
  <2>2. Settled(ToNextBlock(it), i, j)
    BY <1>0, <1>1, <2>1 DEF Settled
  <2>3. Settled(SkipForward(it), i, j)
    BY <1>0, <2>2, SkipForwardIs
  <2>4. OnPlace(SkipForward(it), i, j) /\ j \in 1 .. Len(KeysAt(i))
    BY <1>0, <1>1, <2>3 DEF Settled
  <2>. QED  BY <1>0, <2>4, FirstFrom
<1>2. CASE ~(j <= Len(KeysAt(i))) /\ i < NumBlocks
  <2>1. OnPlace(ToNextBlock(it), i + 1, 1)
    BY <1>2, NextBlockIs
  <2>2. i + 1 \in 1 .. NumBlocks /\ i + 1 # 0
    BY <1>0, <1>2
  <2>3. 1 <= Len(KeysAt(i + 1)) /\ 1 \in 1 .. Len(KeysAt(i + 1))
    BY <2>2, FinishedIs
  <2>4. Settled(ToNextBlock(it), i + 1, 1)
    BY <2>1, <2>2, <2>3 DEF Settled
  <2>5. Settled(SkipForward(it), i + 1, 1)
    BY <1>0, <2>4, SkipForwardIs
  <2>6. OnPlace(SkipForward(it), i + 1, 1)
    BY <2>2, <2>5 DEF Settled
  <2>7. From(W, i + 1, 1)
    <3>1. ASSUME NEW m \in 1 .. NumBlocks, NEW l \in 1 .. Len(KeysAt(m))
          PROVE  KeysAt(m)[l] \in W <=> i + 1 < m \/ (i + 1 = m /\ 1 <= l)
      <4>1. KeysAt(m)[l] \in W <=> i < m \/ (i = m /\ j <= l)
        BY DEF From
      <4>2. ~(i = m /\ j <= l)
        BY <1>0, <1>2
      <4>3. i < m <=> i + 1 < m \/ (i + 1 = m /\ 1 <= l)
        BY <1>0
      <4>. QED  BY <4>1, <4>2, <4>3
    <3>2. W \subseteq builder.added
      BY DEF From
    <3>. QED  BY <3>1, <3>2 DEF From
  <2>. QED  BY <2>2, <2>3, <2>6, <2>7, FirstFrom
<1>3. CASE ~(j <= Len(KeysAt(i))) /\ ~(i < NumBlocks)
  <2>1. Nowhere(ToNextBlock(it))
    BY <1>3, NextBlockIs
  <2>2. Settled(ToNextBlock(it), 0, 0)
    BY <2>1 DEF Settled
  <2>3. Nowhere(SkipForward(it))
    BY <1>0, <2>2, SkipForwardIs DEF Settled
  <2>4. ASSUME NEW x \in W PROVE FALSE
    <3>1. x \in builder.added
      BY DEF From
    <3>2. PICK m \in 1 .. NumBlocks : \E l \in 1 .. Len(KeysAt(m)) : x = KeysAt(m)[l]
      BY <3>1, FinishedIs
    <3>3. PICK l \in 1 .. Len(KeysAt(m)) : x = KeysAt(m)[l]
      BY <3>2
    <3>4. i < m \/ (i = m /\ j <= l)
      BY <3>3 DEF From
    <3>. QED  BY <1>0, <1>3, <3>4
  <2>. QED  BY <2>3, <2>4 DEF IsFirst
<1>. QED  BY <1>1, <1>2, <1>3

LEMMA BackwardIs ==
  ASSUME Finished, NEW it, NEW i, NEW j, OnPlace(it, i, j), NEW W, UpTo(W, i, j)
  PROVE  IsLast(SkipBackward(it), W)
<1>0. i \in 1 .. NumBlocks /\ j \in 1 .. Len(KeysAt(i)) + 1 /\ NumBlocks \in Nat /\ Len(KeysAt(i)) \in Nat
      /\ it \in Places /\ i # 0
  BY PlaceIs, FinishedIs, PlacesHave
<1>1. CASE j <= Len(KeysAt(i))
  <2>1. ToPrevBlock(it) = it
    BY <1>1, PrevBlockIs
  <2>2. Settled(ToPrevBlock(it), i, j)
    BY <1>0, <1>1, <2>1 DEF Settled
  <2>3. Settled(SkipBackward(it), i, j)
    BY <1>0, <2>2, SkipBackwardIs
  <2>4. OnPlace(SkipBackward(it), i, j) /\ j \in 1 .. Len(KeysAt(i))
    BY <1>0, <1>1, <2>3 DEF Settled
  <2>. QED  BY <1>0, <2>4, LastUpTo
<1>2. CASE ~(j <= Len(KeysAt(i))) /\ i > 1
  <2>. DEFINE n == Len(KeysAt(i - 1))
  <2>1. OnPlace(ToPrevBlock(it), i - 1, n)
    BY <1>2, PrevBlockIs
  <2>2. i - 1 \in 1 .. NumBlocks /\ i - 1 # 0
    BY <1>0, <1>2
  <2>3. n \in Nat /\ n <= n /\ n \in 1 .. n
    BY <2>2, FinishedIs
  <2>4. Settled(ToPrevBlock(it), i - 1, n)
    BY <2>1, <2>2, <2>3 DEF Settled
  <2>5. Settled(SkipBackward(it), i - 1, n)
    BY <1>0, <2>4, SkipBackwardIs
  <2>6. OnPlace(SkipBackward(it), i - 1, n)
    BY <2>2, <2>5 DEF Settled
  <2>7. UpTo(W, i - 1, n)
    <3>1. ASSUME NEW m \in 1 .. NumBlocks, NEW l \in 1 .. Len(KeysAt(m))
          PROVE  KeysAt(m)[l] \in W <=> m < i - 1 \/ (m = i - 1 /\ l <= n /\ n <= Len(KeysAt(i - 1)))
      <4>1. KeysAt(m)[l] \in W <=> m < i
        BY <1>0, <1>2 DEF UpTo
      <4>2. m = i - 1 => l <= n
        BY <2>3
      <4>. HIDE DEF n
      <4>3. m < i <=> m < i - 1 \/ m = i - 1
        BY <1>0
      <4>. QED  BY <2>3, <4>1, <4>2, <4>3 DEF n
    <3>2. W \subseteq builder.added
      BY DEF UpTo
    <3>. QED  BY <3>1, <3>2 DEF UpTo
  <2>. QED  BY <2>2, <2>3, <2>6, <2>7, LastUpTo
<1>3. CASE ~(j <= Len(KeysAt(i))) /\ ~(i > 1)
  <2>1. Nowhere(ToPrevBlock(it))
    BY <1>3, PrevBlockIs
  <2>2. Settled(ToPrevBlock(it), 0, 0)
    BY <2>1 DEF Settled
  <2>3. Nowhere(SkipBackward(it))
    BY <1>0, <2>2, SkipBackwardIs DEF Settled
  <2>4. ASSUME NEW x \in W PROVE FALSE
    <3>1. x \in builder.added
      BY DEF UpTo
    <3>2. PICK m \in 1 .. NumBlocks : \E l \in 1 .. Len(KeysAt(m)) : x = KeysAt(m)[l]
      BY <3>1, FinishedIs
    <3>3. PICK l \in 1 .. Len(KeysAt(m)) : x = KeysAt(m)[l]
      BY <3>2
    <3>4. m < i
      BY <1>3, <3>3 DEF UpTo
    <3>. QED  BY <1>0, <1>3, <3>4
  <2>. QED  BY <2>3, <2>4 DEF IsLast
<1>. QED  BY <1>1, <1>2, <1>3

\* Every key has a place; without a block there is none.
LEMMA AllFrom ==
  ASSUME Finished
  PROVE  /\ NumBlocks = 0 => builder.added = {}
         /\ NumBlocks # 0 => From(builder.added, 1, 1)
         /\ NumBlocks # 0 => UpTo(builder.added, NumBlocks, Len(KeysAt(NumBlocks)))
<1>0. NumBlocks \in Nat
  BY FinishedIs
<1>1. ASSUME NumBlocks = 0 PROVE builder.added = {}
  <2>1. 1 .. NumBlocks = {}
    BY <1>1
  <2>. QED  BY <2>1, FinishedIs
<1>2. ASSUME NumBlocks # 0
      PROVE  /\ From(builder.added, 1, 1)
             /\ UpTo(builder.added, NumBlocks, Len(KeysAt(NumBlocks)))
  <2>1. ASSUME NEW m \in 1 .. NumBlocks, NEW l \in 1 .. Len(KeysAt(m))
        PROVE  /\ KeysAt(m)[l] \in builder.added /\ (1 < m \/ (1 = m /\ 1 <= l))
               /\ (m < NumBlocks \/ (m = NumBlocks /\ l <= Len(KeysAt(NumBlocks))))
    <3>1. KeysAt(m)[l] \in builder.added /\ Len(KeysAt(m)) \in Nat
      BY FinishedIs
    <3>. QED  BY <1>0, <3>1
  <2>2. Len(KeysAt(NumBlocks)) <= Len(KeysAt(NumBlocks))
    <3>1. NumBlocks \in 1 .. NumBlocks
      BY <1>0, <1>2
    <3>2. Len(KeysAt(NumBlocks)) \in Nat
      BY <3>1, FinishedIs
    <3>. QED  BY <3>2
  <2>3. From(builder.added, 1, 1)
    BY <2>1 DEF From
  <2>4. UpTo(builder.added, NumBlocks, Len(KeysAt(NumBlocks)))
    BY <2>1, <2>2 DEF UpTo
  <2>. QED  BY <2>3, <2>4
<1>. QED  BY <1>1, <1>2

LEMMA MoveFirst ==
  ASSUME Finished, NEW it, Fits(it)
  PROVE  IsFirst(SkipForward(FirstInData(InitDataBlock([it EXCEPT !.index = FirstInBlock(it.index)]))),
                 builder.added)
<1>. DEFINE x == FirstInBlock(it.index)
            z == InitDataBlock([it EXCEPT !.index = x])
<1>1. NumBlocks \in Nat /\ Holds(builder.index, Separators) /\ it.index \in BlockIters(builder.index)
  BY FinishedIs DEF Fits, TwoLevelIters
<1>2. AtKey(x, builder.index, Separators, 1)
  BY <1>1, FirstIs
<1>. HIDE DEF x
<1>3. (1 = NumBlocks + 1 => Nowhere(z)) /\ (1 <= NumBlocks => OnBlock(z, 1))
  BY <1>2, InitThenIs
<1>. HIDE DEF z
<1>4. IsFirst(SkipForward(FirstInData(z)), builder.added)
  <2>1. CASE NumBlocks = 0
    <3>1. Nowhere(z) /\ builder.added = {}
      BY <1>3, <2>1, AllFrom
    <3>2. FirstInData(z) = z
      BY <3>1, InDataIs
    <3>3. IsFirst(SkipForward(z), {})
      BY <3>1, ForwardNowhere
    <3>. QED  BY <3>1, <3>2, <3>3
  <2>2. CASE NumBlocks # 0
    <3>1. OnBlock(z, 1)
      BY <1>1, <1>3, <2>2
    <3>2. OnPlace(FirstInData(z), 1, 1)
      BY <3>1, InDataIs
    <3>3. From(builder.added, 1, 1)
      BY <2>2, AllFrom
    <3>. QED  BY <3>2, <3>3, ForwardIs
  <2>. QED  BY <2>1, <2>2
<1>. QED  BY <1>4 DEF x, z

LEMMA MoveLast ==
  ASSUME Finished, NEW it, Fits(it)
  PROVE  IsLast(SkipBackward(LastInData(InitDataBlock([it EXCEPT !.index = LastInBlock(it.index)]))),
                builder.added)
<1>. DEFINE x == LastInBlock(it.index)
            z == InitDataBlock([it EXCEPT !.index = x])
            N == NumBlocks
<1>1. N \in Nat /\ Holds(builder.index, Separators) /\ it.index \in BlockIters(builder.index)
      /\ Len(Separators) = N
  BY FinishedIs DEF Fits, TwoLevelIters
<1>2. AtKey(x, builder.index, Separators, IF N = 0 THEN 1 ELSE N)
  <2>1. AtKey(x, builder.index, Separators, IF Len(Separators) = 0 THEN 1 ELSE Len(Separators))
    BY <1>1, LastIs
  <2>. QED  BY <1>1, <2>1
<1>. HIDE DEF x
<1>4. IsLast(SkipBackward(LastInData(z)), builder.added)
  <2>1. CASE N = 0
    <3>0. AtKey(x, builder.index, Separators, 1) /\ 1 = NumBlocks + 1
      BY <1>2, <2>1
    <3>1. Nowhere(z)
      BY <3>0, InitThenIs
    <3>. HIDE DEF z
    <3>2. LastInData(z) = z
      BY <3>1, InDataIs
    <3>3. IsLast(SkipBackward(z), {})
      BY <3>1, ForwardNowhere
    <3>4. builder.added = {}
      BY <2>1, AllFrom
    <3>. QED  BY <3>2, <3>3, <3>4
  <2>2. CASE N # 0
    <3>0. AtKey(x, builder.index, Separators, N) /\ N <= NumBlocks
      BY <1>1, <1>2, <2>2
    <3>1. OnBlock(z, N)
      BY <3>0, InitThenIs
    <3>. HIDE DEF z
    <3>2. OnPlace(LastInData(z), N, Len(KeysAt(N)))
      BY <3>1, InDataIs
    <3>3. UpTo(builder.added, N, Len(KeysAt(N)))
      BY <2>2, AllFrom
    <3>. QED  BY <3>2, <3>3, BackwardIs
  <2>. QED  BY <2>1, <2>2
<1>. QED  BY <1>4 DEF x, z

-----------------------------------------------------------------------------
(* Seeks.                                                                   *)

AtOrAfter(k) == {x \in builder.added : ~KeyLess(x, k)}

\* The block of the first separator that is not before a key has the first such key, or the
\* next one has.
LEMMA SeekFrom ==
  ASSUME Finished, NEW k \in IKey, NEW i \in 1 .. NumBlocks, NEW j,
         FirstNotBefore(Separators, k, 1, i), FirstNotBefore(KeysAt(i), k, 1, j)
  PROVE  From(AtOrAfter(k), i, j)
<1>1. ASSUME NEW m \in 1 .. NumBlocks, NEW l \in 1 .. Len(KeysAt(m))
      PROVE  KeysAt(m)[l] \in AtOrAfter(k) <=> i < m \/ (i = m /\ j <= l)
  <2>1. /\ KeysAt(m)[l] \in builder.added /\ KeysAt(m)[l] \in IKey /\ Separators[m] \in IKey
        /\ Separators[i] \in IKey /\ NumBlocks \in Nat /\ Len(Separators) = NumBlocks
        /\ Len(KeysAt(m)) \in Nat /\ j \in Nat
    BY FinishedIs DEF FirstNotBefore
  <2>2. KeysAt(m)[l] \in AtOrAfter(k) <=> ~KeyLess(KeysAt(m)[l], k)
    BY <2>1 DEF AtOrAfter
  <2>3. CASE m < i
    <3>1. m \in 1 .. i - 1
      BY <2>1, <2>3
    <3>2. KeyLess(Separators[m], k)
      BY <3>1 DEF FirstNotBefore
    <3>3. ~KeyLess(Separators[m], KeysAt(m)[l])
      BY BlocksInOrder
    <3>4. KeyLess(KeysAt(m)[l], k)
      BY <2>1, <3>2, <3>3, KeyOrder
    <3>5. ~(i < m) /\ i # m
      BY <2>1, <2>3
    <3>. QED  BY <2>2, <3>4, <3>5
  <2>4. CASE i < m
    <3>1. ~KeyLess(Separators[i], k)
      BY <2>1 DEF FirstNotBefore
    <3>2. m \in i + 1 .. NumBlocks
      BY <2>1, <2>4
    <3>3. 1 \in 1 .. Len(KeysAt(i))
      BY FinishedIs
    <3>4. KeyLess(Separators[i], KeysAt(m)[l])
      BY <3>2, <3>3, BlocksInOrder
    <3>5. ~KeyLess(KeysAt(m)[l], k)
      BY <2>1, <3>1, <3>4, KeyOrder
    <3>. QED  BY <2>2, <2>4, <3>5
  <2>5. CASE i = m
    <3>1. CASE l < j
      <4>1. l \in 1 .. j - 1
        BY <2>1, <3>1
      <4>2. KeyLess(KeysAt(i)[l], k)
        BY <4>1 DEF FirstNotBefore
      <4>3. ~(j <= l) /\ ~(i < m)
        BY <2>1, <2>5, <3>1
      <4>. QED  BY <2>2, <2>5, <4>2, <4>3
    <3>2. CASE j <= l
      <4>1. j \in 1 .. Len(KeysAt(i)) /\ j <= Len(KeysAt(i))
        BY <2>1, <2>5, <3>2 DEF FirstNotBefore
      <4>2. ~KeyLess(KeysAt(i)[j], k) /\ KeysAt(i)[j] \in IKey
        BY <4>1, FinishedIs DEF FirstNotBefore
      <4>3. ~KeyLess(KeysAt(m)[l], KeysAt(i)[j])
        <5>1. ~(m < i \/ (m = i /\ l < j))
          BY <2>1, <2>5, <3>2
        <5>. QED  BY <4>1, <5>1, PlaceOrder
      <4>4. ~KeyLess(KeysAt(m)[l], k)
        BY <2>1, <4>2, <4>3, KeyOrder
      <4>. QED  BY <2>2, <2>5, <3>2, <4>4
    <3>. QED  BY <2>1, <3>1, <3>2
  <2>. QED  BY <2>1, <2>3, <2>4, <2>5
<1>2. AtOrAfter(k) \subseteq builder.added
  BY DEF AtOrAfter
<1>. QED  BY <1>1, <1>2 DEF From

\* If all separators are before a key, all keys are.
LEMMA SeekNothing ==
  ASSUME Finished, NEW k \in IKey, FirstNotBefore(Separators, k, 1, NumBlocks + 1)
  PROVE  AtOrAfter(k) = {}
<1>. SUFFICES ASSUME NEW x \in builder.added PROVE KeyLess(x, k)
  BY DEF AtOrAfter
<1>1. PICK m \in 1 .. NumBlocks : \E l \in 1 .. Len(KeysAt(m)) : x = KeysAt(m)[l]
  BY FinishedIs
<1>2. PICK l \in 1 .. Len(KeysAt(m)) : x = KeysAt(m)[l]
  BY <1>1
<1>3. x \in IKey /\ Separators[m] \in IKey /\ m \in 1 .. (NumBlocks + 1) - 1
  BY FinishedIs
<1>4. KeyLess(Separators[m], k)
  BY <1>3 DEF FirstNotBefore
<1>5. ~KeyLess(Separators[m], x)
  BY <1>2, BlocksInOrder
<1>. QED  BY <1>3, <1>4, <1>5, KeyOrder

SoughtIn(it, k) == IF it.handle = 0 THEN it ELSE [it EXCEPT !.data = SeekInBlock(@, k)]

LEMMA MoveSeek ==
  ASSUME Finished, NEW it, Fits(it), NEW k \in IKey
  PROVE  IsFirst(SkipForward(SoughtIn(InitDataBlock([it EXCEPT !.index = SeekInBlock(it.index, k)]), k)),
                 AtOrAfter(k))
<1>. DEFINE x == SeekInBlock(it.index, k)
            z == InitDataBlock([it EXCEPT !.index = x])
            N == NumBlocks
<1>1. N \in Nat /\ Holds(builder.index, Separators) /\ it.index \in BlockIters(builder.index)
      /\ Len(Separators) = N /\ InOrder(Separators)
  BY FinishedIs DEF Fits, TwoLevelIters
<1>2. PICK i : FirstNotBefore(Separators, k, 1, i) /\ AtKey(x, builder.index, Separators, i)
  BY <1>1, SeekIs
<1>. HIDE DEF x
<1>3. i \in 1 .. N + 1
  BY <1>1, <1>2 DEF FirstNotBefore
<1>4. (i = NumBlocks + 1 => Nowhere(z)) /\ (i <= NumBlocks => OnBlock(z, i))
  BY <1>2, InitThenIs
<1>. HIDE DEF z
<1>5. IsFirst(SkipForward(SoughtIn(z, k)), AtOrAfter(k))
  <2>1. CASE i = N + 1
    <3>1. Nowhere(z)
      BY <1>4, <2>1
    <3>2. SoughtIn(z, k) = z
      BY <3>1, OffNowhere DEF SoughtIn
    <3>3. IsFirst(SkipForward(z), {})
      BY <3>1, ForwardNowhere
    <3>4. AtOrAfter(k) = {}
      BY <1>2, <2>1, SeekNothing
    <3>. QED  BY <3>2, <3>3, <3>4
  <2>2. CASE i # N + 1
    <3>1. i \in 1 .. N /\ i <= NumBlocks /\ i # 0
      BY <1>1, <1>3, <2>2
    <3>2. OnBlock(z, i)
      BY <1>4, <3>1
    <3>3. z.handle # 0 /\ z.data \in BlockIters(BlockAt(i))
      BY <3>1, <3>2 DEF OnBlock
    <3>4. Holds(BlockAt(i), KeysAt(i)) /\ InOrder(KeysAt(i))
      BY <3>1, FinishedIs
    <3>5. PICK j : FirstNotBefore(KeysAt(i), k, 1, j)
                   /\ AtKey(SeekInBlock(z.data, k), BlockAt(i), KeysAt(i), j)
      BY <3>3, <3>4, SeekIs
    <3>6. SoughtIn(z, k) = [z EXCEPT !.data = SeekInBlock(z.data, k)]
      BY <3>3 DEF SoughtIn
    <3>7. OnPlace([z EXCEPT !.data = SeekInBlock(z.data, k)], i, j)
      BY <3>2, <3>5, DataMoves
    <3>8. From(AtOrAfter(k), i, j)
      BY <1>2, <3>1, <3>5, SeekFrom
    <3>. QED  BY <3>6, <3>7, <3>8, ForwardIs
  <2>. QED  BY <2>1, <2>2
<1>. QED  BY <1>5 DEF x, z

-----------------------------------------------------------------------------
(* Next and Prev.                                                           *)

LEMMA MoveNext ==
  ASSUME Finished, NEW it, NEW i, NEW j, OnPlace(it, i, j), j <= Len(KeysAt(i))
  PROVE  IsFirst(SkipForward([it EXCEPT !.data = ParseNextKey(it.data)]),
                 {x \in builder.added : KeyLess(KeysAt(i)[j], x)})
<1>. DEFINE d == ParseNextKey(it.data)
            W == {x \in builder.added : KeyLess(KeysAt(i)[j], x)}
<1>1. /\ i \in 1 .. NumBlocks /\ j \in 1 .. Len(KeysAt(i)) + 1
      /\ AtKey(it.data, BlockAt(i), KeysAt(i), j) /\ OnBlock(it, i)
  BY PlaceIs, FitsIs
<1>2. Holds(BlockAt(i), KeysAt(i)) /\ Len(KeysAt(i)) \in Nat
  BY <1>1, FinishedIs
<1>3. AtKey(d, BlockAt(i), KeysAt(i), j + 1)
  BY <1>1, <1>2, NextIs
<1>4. OnPlace([it EXCEPT !.data = d], i, j + 1)
  BY <1>1, <1>3, DataMoves
<1>5. From(W, i, j + 1)
  <2>1. ASSUME NEW m \in 1 .. NumBlocks, NEW l \in 1 .. Len(KeysAt(m))
        PROVE  KeysAt(m)[l] \in W <=> i < m \/ (i = m /\ j + 1 <= l)
    <3>1. KeysAt(m)[l] \in builder.added
      BY FinishedIs
    <3>2. j \in 1 .. Len(KeysAt(i))
      BY <1>1, <1>2
    <3>3. KeyLess(KeysAt(i)[j], KeysAt(m)[l]) <=> i < m \/ (i = m /\ j < l)
      BY <1>1, <3>2, PlaceOrder
    <3>4. j < l <=> j + 1 <= l
      BY <3>2
    <3>. QED  BY <3>1, <3>3, <3>4
  <2>. QED  BY <2>1 DEF From
<1>. QED  BY <1>4, <1>5, ForwardIs

LEMMA MovePrev ==
  ASSUME Finished, NEW it, NEW i, NEW j, OnPlace(it, i, j), j <= Len(KeysAt(i))
  PROVE  IsLast(SkipBackward([it EXCEPT !.data = PrevInBlock(it.data)]),
                {x \in builder.added : KeyLess(x, KeysAt(i)[j])})
<1>. DEFINE d == PrevInBlock(it.data)
            W == {x \in builder.added : KeyLess(x, KeysAt(i)[j])}
            n == Len(KeysAt(i))
            p == IF j = 1 THEN n + 1 ELSE j - 1
<1>1. /\ i \in 1 .. NumBlocks /\ j \in 1 .. n + 1
      /\ AtKey(it.data, BlockAt(i), KeysAt(i), j) /\ OnBlock(it, i)
  BY PlaceIs, FitsIs
<1>2. Holds(BlockAt(i), KeysAt(i)) /\ n \in Nat
  BY <1>1, FinishedIs
<1>3. AtKey(d, BlockAt(i), KeysAt(i), p)
  BY <1>1, <1>2, PrevIs
<1>4. OnPlace([it EXCEPT !.data = d], i, p)
  <2>. HIDE DEF d, p
  <2>. QED  BY <1>1, <1>3, DataMoves
<1>5. UpTo(W, i, p)
  <2>1. ASSUME NEW m \in 1 .. NumBlocks, NEW l \in 1 .. Len(KeysAt(m))
        PROVE  KeysAt(m)[l] \in W <=> m < i \/ (m = i /\ l <= p /\ p <= n)
    <3>1. KeysAt(m)[l] \in builder.added
      BY FinishedIs
    <3>2. j \in 1 .. n
      BY <1>1, <1>2
    <3>3. KeyLess(KeysAt(m)[l], KeysAt(i)[j]) <=> m < i \/ (m = i /\ l < j)
      BY <1>1, <3>2, PlaceOrder
    <3>. HIDE DEF n
    <3>4. l < j <=> l <= p /\ p <= n
      BY <1>2, <3>2
    <3>. QED  BY <3>1, <3>3, <3>4
  <2>. HIDE DEF p
  <2>. QED  BY <2>1 DEF UpTo
<1>. HIDE DEF p
<1>. QED  BY <1>4, <1>5, BackwardIs

-----------------------------------------------------------------------------
(* What the iterator shows.                                                 *)

ShownBy(it) == IF OnEntry(it.data) THEN {[key |-> it.data.key, value |-> Value(it.data)]} ELSE {}

Pair(k)   == [key |-> k, value |-> k]
Pairs(W)  == {Pair(k) : k \in W}

LEMMA PairIs ==
  /\ \A k : Pair(k).key = k
  /\ \A W, k : Pair(k) \in Pairs(W) <=> k \in W
  /\ \A W, c : c \in Pairs(W) => c.key \in W /\ c = Pair(c.key)
<1>1. \A k : Pair(k).key = k
  BY DEF Pair
<1>2. ASSUME NEW W, NEW k PROVE Pair(k) \in Pairs(W) <=> k \in W
  <2>1. k \in W => Pair(k) \in Pairs(W)
    BY DEF Pairs
  <2>2. ASSUME Pair(k) \in Pairs(W) PROVE k \in W
    <3>1. PICK m \in W : Pair(k) = Pair(m)
      BY <2>2 DEF Pairs
    <3>2. k = m
      BY <1>1, <3>1
    <3>. QED  BY <3>2
  <2>. QED  BY <2>1, <2>2
<1>3. ASSUME NEW W, NEW c \in Pairs(W) PROVE c.key \in W /\ c = Pair(c.key)
  <2>1. PICK m \in W : c = Pair(m)
    BY DEF Pairs
  <2>. QED  BY <1>1, <2>1
<1>. QED  BY <1>1, <1>2, <1>3

LEMMA ShownAtPlace ==
  ASSUME Finished, NEW it, NEW i, NEW j, OnPlace(it, i, j), j <= Len(KeysAt(i))
  PROVE  ShownBy(it) = {Pair(KeysAt(i)[j])} /\ KeysAt(i)[j] \in builder.added
<1>1. /\ i \in 1 .. NumBlocks /\ j \in 1 .. Len(KeysAt(i)) + 1 /\ OnEntry(it.data)
      /\ AtKey(it.data, BlockAt(i), KeysAt(i), j)
  BY PlaceIs
<1>2. j \in 1 .. Len(KeysAt(i))
  BY <1>1, FinishedIs
<1>3. it.data.key = KeysAt(i)[j] /\ it.data.current = j /\ it.data.block = BlockAt(i)
  BY <1>1 DEF AtKey, BlockIters
<1>4. Value(it.data) = KeysAt(i)[j] /\ KeysAt(i)[j] \in builder.added
  BY <1>1, <1>2, <1>3, FinishedIs DEF Value
<1>. QED  BY <1>1, <1>3, <1>4 DEF ShownBy, Pair

LEMMA ShownFirst ==
  ASSUME Finished, NEW it, NEW W \in SUBSET builder.added, IsFirst(it, W)
  PROVE  ShownBy(it) = TableView!First(Pairs(W))
<1>1. CASE W = {} /\ Nowhere(it)
  <2>1. ShownBy(it) = {}
    BY <1>1, OffNowhere DEF ShownBy
  <2>. QED  BY <1>1, <2>1 DEF TableView!First, Pairs
<1>2. CASE ~(W = {} /\ Nowhere(it))
  <2>0. PICK i \in 1 .. NumBlocks : \E j \in 1 .. Len(KeysAt(i)) :
          OnPlace(it, i, j) /\ KeysAt(i)[j] \in W /\ \A x \in W : ~KeyLess(x, KeysAt(i)[j])
    BY <1>2 DEF IsFirst
  <2>1. PICK j \in 1 .. Len(KeysAt(i)) :
          OnPlace(it, i, j) /\ KeysAt(i)[j] \in W /\ \A x \in W : ~KeyLess(x, KeysAt(i)[j])
    BY <2>0
  <2>2. j <= Len(KeysAt(i))
    BY FinishedIs
  <2>3. PICK c : c = KeysAt(i)[j]
    OBVIOUS
  <2>4. ShownBy(it) = {Pair(c)} /\ c \in W /\ \A x \in W : ~KeyLess(x, c)
    BY <2>1, <2>2, <2>3, ShownAtPlace
  <2>5. W \subseteq IKey
    BY FinishedIs
  <2>6. \A x \in W : x # c => KeyLess(c, x)
    BY <2>4, <2>5, KeyOrder
  <2>7. \A x \in W : x # c => ~KeyLess(x, c)
    BY <2>4
  <2>8. ASSUME NEW e
        PROVE  e \in TableView!First(Pairs(W)) <=> e = Pair(c)
    <3>1. e \in TableView!First(Pairs(W)) <=>
            e \in Pairs(W) /\ \A d \in Pairs(W) \ {e} : KeyLess(e.key, d.key)
      BY DEF TableView!First, EntryLess
    <3>2. ASSUME e = Pair(c) PROVE e \in Pairs(W) /\ \A d \in Pairs(W) \ {e} : KeyLess(e.key, d.key)
      <4>1. e \in Pairs(W) /\ e.key = c
        BY <2>4, <3>2, PairIs
      <4>2. ASSUME NEW d \in Pairs(W) \ {e} PROVE KeyLess(e.key, d.key)
        <5>1. d.key \in W /\ d.key # c
          BY <3>2, PairIs
        <5>. QED  BY <2>6, <4>1, <5>1
      <4>. QED  BY <4>1, <4>2
    <3>3. ASSUME e \in Pairs(W), \A d \in Pairs(W) \ {e} : KeyLess(e.key, d.key), e # Pair(c) PROVE FALSE
      <4>1. e.key \in W /\ e.key # c
        BY <3>3, PairIs
      <4>2. Pair(c) \in Pairs(W) \ {e} /\ Pair(c).key = c
        BY <2>4, <3>3, PairIs
      <4>3. KeyLess(e.key, c)
        BY <3>3, <4>2
      <4>. QED  BY <2>4, <4>1, <4>3
    <3>. QED  BY <3>1, <3>2, <3>3
  <2>. QED  BY <2>4, <2>8
<1>. QED  BY <1>1, <1>2

LEMMA ShownLast ==
  ASSUME Finished, NEW it, NEW W \in SUBSET builder.added, IsLast(it, W)
  PROVE  ShownBy(it) = TableView!Last(Pairs(W))
<1>1. CASE W = {} /\ Nowhere(it)
  <2>1. ShownBy(it) = {}
    BY <1>1, OffNowhere DEF ShownBy
  <2>. QED  BY <1>1, <2>1 DEF TableView!Last, Pairs
<1>2. CASE ~(W = {} /\ Nowhere(it))
  <2>0. PICK i \in 1 .. NumBlocks : \E j \in 1 .. Len(KeysAt(i)) :
          OnPlace(it, i, j) /\ KeysAt(i)[j] \in W /\ \A x \in W : ~KeyLess(KeysAt(i)[j], x)
    BY <1>2 DEF IsLast
  <2>1. PICK j \in 1 .. Len(KeysAt(i)) :
          OnPlace(it, i, j) /\ KeysAt(i)[j] \in W /\ \A x \in W : ~KeyLess(KeysAt(i)[j], x)
    BY <2>0
  <2>2. j <= Len(KeysAt(i))
    BY FinishedIs
  <2>3. PICK c : c = KeysAt(i)[j]
    OBVIOUS
  <2>4. ShownBy(it) = {Pair(c)} /\ c \in W /\ \A x \in W : ~KeyLess(c, x)
    BY <2>1, <2>2, <2>3, ShownAtPlace
  <2>5. W \subseteq IKey
    BY FinishedIs
  <2>6. \A x \in W : x # c => KeyLess(x, c)
    BY <2>4, <2>5, KeyOrder
  <2>8. ASSUME NEW e
        PROVE  e \in TableView!Last(Pairs(W)) <=> e = Pair(c)
    <3>1. e \in TableView!Last(Pairs(W)) <=>
            e \in Pairs(W) /\ \A d \in Pairs(W) \ {e} : KeyLess(d.key, e.key)
      BY DEF TableView!Last, EntryLess
    <3>2. ASSUME e = Pair(c) PROVE e \in Pairs(W) /\ \A d \in Pairs(W) \ {e} : KeyLess(d.key, e.key)
      <4>1. e \in Pairs(W) /\ e.key = c
        BY <2>4, <3>2, PairIs
      <4>2. ASSUME NEW d \in Pairs(W) \ {e} PROVE KeyLess(d.key, e.key)
        <5>1. d.key \in W /\ d.key # c
          BY <3>2, PairIs
        <5>. QED  BY <2>6, <4>1, <5>1
      <4>. QED  BY <4>1, <4>2
    <3>3. ASSUME e \in Pairs(W), \A d \in Pairs(W) \ {e} : KeyLess(d.key, e.key), e # Pair(c) PROVE FALSE
      <4>1. e.key \in W /\ e.key # c
        BY <3>3, PairIs
      <4>2. Pair(c) \in Pairs(W) \ {e} /\ Pair(c).key = c
        BY <2>4, <3>3, PairIs
      <4>3. KeyLess(c, e.key)
        BY <3>3, <4>2
      <4>. QED  BY <2>4, <4>1, <4>3
    <3>. QED  BY <3>1, <3>2, <3>3
  <2>. QED  BY <2>4, <2>8
<1>. QED  BY <1>1, <1>2

-----------------------------------------------------------------------------
(* The invariant and the steps.                                             *)

\* An iterator that is at rest is on a key or on no block.
AtRest(it) ==
  Nowhere(it) \/ \E i \in 1 .. NumBlocks : \E j \in 1 .. Len(KeysAt(i)) : OnPlace(it, i, j)

TableInv ==
  /\ TableBounds /\ BuilderInv(builder)
  /\ IF builder.closed THEN AtRest(tableIter) ELSE tableIter = NoIter /\ tableOp = <<"none">>

LEMMA RestIs ==
  ASSUME NEW it
  PROVE  /\ \A W : IsFirst(it, W) \/ IsLast(it, W) => AtRest(it)
         /\ Finished /\ AtRest(it) => Fits(it)
<1>1. \A W : IsFirst(it, W) \/ IsLast(it, W) => AtRest(it)
  BY DEF IsFirst, IsLast, AtRest
<1>2. Finished /\ AtRest(it) => Fits(it)
  BY FitsIs DEF AtRest
<1>. QED  BY <1>1, <1>2

\* Calls of the iterator leave the table as it is.
LEMMA InvStays ==
  ASSUME TableInv, builder.closed, UNCHANGED builder, AtRest(tableIter')
  PROVE  TableInv'
<1>1. AtRest(tableIter)'
  BY DEF AtRest, Nowhere, OnPlace, OnBlock, TwoLevelIters, DataIters, BlockAt, KeysAt, NumBlocks, Separators
<1>2. BuilderInv(builder)' /\ TableBounds' /\ builder'.closed
  BY DEF TableInv, BuilderInv, TableBounds, FiltersOK, FilteredOK
<1>. QED  BY <1>1, <1>2 DEF TableInv

LEMMA EntriesAre == Entry = Pairs(builder.added) /\ TableShown = ShownBy(tableIter)
BY DEF Entry, Pairs, Pair, TableShown, ShownBy

LEMMA Moved ==
  ASSUME TableInv, NEW call, NEW it, TableMoved(call, it)
  PROVE  /\ Finished /\ Fits(tableIter) /\ AtRest(tableIter) /\ UNCHANGED <<builder, Entry>>
         /\ tableIter' = it /\ tableOp' = call /\ TableShown' = ShownBy(it)
         /\ AtRest(it) => TableInv'
<1>1. /\ builder.closed /\ tableIter' = it /\ tableOp' = call /\ UNCHANGED builder
  BY DEF TableMoved
<1>2. Finished /\ AtRest(tableIter)
  BY <1>1 DEF TableInv, Finished
<1>3. TableShown' = ShownBy(it)
  BY <1>1 DEF TableShown, ShownBy
<1>4. UNCHANGED Entry
  BY <1>1 DEF Entry
<1>5. AtRest(it) => TableInv'
  BY <1>1, InvStays
<1>. QED  BY <1>1, <1>2, <1>3, <1>4, <1>5, RestIs

LEMMA FirstStep ==
  ASSUME TableInv, TableSeekToFirst
  PROVE  TableInv' /\ TableView!Move /\ UNCHANGED Entry
<1>. DEFINE it == SkipForward(FirstInData(InitDataBlock([tableIter EXCEPT !.index = FirstInBlock(tableIter.index)])))
<1>1. TableMoved(<<"first">>, it)
  BY DEF TableSeekToFirst
<1>. HIDE DEF it
<1>2. /\ Finished /\ Fits(tableIter) /\ UNCHANGED Entry
      /\ tableOp' = <<"first">> /\ TableShown' = ShownBy(it) /\ (AtRest(it) => TableInv')
  BY <1>1, Moved
<1>3. IsFirst(it, builder.added)
  BY <1>2, MoveFirst DEF it
<1>4. ShownBy(it) = TableView!First(Pairs(builder.added))
  BY <1>2, <1>3, ShownFirst
<1>5. TableShown' = TableView!First(Entry)
  BY <1>2, <1>4, EntriesAre
<1>6. TableView!SeekToFirst
  BY <1>2, <1>5 DEF TableView!SeekToFirst
<1>. QED  BY <1>2, <1>3, <1>6, RestIs DEF TableView!Move

LEMMA LastStep ==
  ASSUME TableInv, TableSeekToLast
  PROVE  TableInv' /\ TableView!Move /\ UNCHANGED Entry
<1>. DEFINE it == SkipBackward(LastInData(InitDataBlock([tableIter EXCEPT !.index = LastInBlock(tableIter.index)])))
<1>1. TableMoved(<<"last">>, it)
  BY DEF TableSeekToLast
<1>. HIDE DEF it
<1>2. /\ Finished /\ Fits(tableIter) /\ UNCHANGED Entry
      /\ tableOp' = <<"last">> /\ TableShown' = ShownBy(it) /\ (AtRest(it) => TableInv')
  BY <1>1, Moved
<1>3. IsLast(it, builder.added)
  BY <1>2, MoveLast DEF it
<1>4. ShownBy(it) = TableView!Last(Pairs(builder.added))
  BY <1>2, <1>3, ShownLast
<1>5. TableShown' = TableView!Last(Entry)
  BY <1>2, <1>4, EntriesAre
<1>6. TableView!SeekToLast
  BY <1>2, <1>5 DEF TableView!SeekToLast
<1>. QED  BY <1>2, <1>3, <1>6, RestIs DEF TableView!Move

LEMMA TargetsAreKeys ==
  ASSUME TableBounds
  PROVE  SeekTargets \subseteq IKey
BY InternalKeyIs DEF SeekTargets, TableBounds

LEMMA SeekStep ==
  ASSUME TableInv, NEW k \in SeekTargets, TableSeek(k)
  PROVE  TableInv' /\ TableView!Move /\ UNCHANGED Entry
<1>. DEFINE z == InitDataBlock([tableIter EXCEPT !.index = SeekInBlock(tableIter.index, k)])
            it == SkipForward(SoughtIn(z, k))
<1>1. TableMoved(<<"seek", k>>, it)
  BY DEF TableSeek, SoughtIn
<1>. HIDE DEF it
<1>2. /\ Finished /\ Fits(tableIter) /\ UNCHANGED Entry
      /\ tableOp' = <<"seek", k>> /\ TableShown' = ShownBy(it) /\ (AtRest(it) => TableInv')
  BY <1>1, Moved
<1>3. k \in IKey
  BY TargetsAreKeys DEF TableInv
<1>4. IsFirst(it, AtOrAfter(k))
  BY <1>2, <1>3, MoveSeek DEF it
<1>5. ShownBy(it) = TableView!First(Pairs(AtOrAfter(k)))
  <2>1. AtOrAfter(k) \in SUBSET builder.added
    BY DEF AtOrAfter
  <2>. QED  BY <1>2, <1>4, <2>1, ShownFirst
<1>6. Pairs(AtOrAfter(k)) = {c \in Entry : EntryEnds(c, k)}
  BY EntriesAre DEF Pairs, Pair, AtOrAfter, EntryEnds
<1>7. TableView!Seek(k)
  BY <1>2, <1>5, <1>6 DEF TableView!Seek
<1>. QED  BY <1>2, <1>4, <1>7, RestIs DEF TableView!Move

\* Next and Prev are called on a key.
LEMMA OnAKey ==
  ASSUME Finished, AtRest(tableIter), OnEntry(tableIter.data)
  PROVE  \E i, j : /\ OnPlace(tableIter, i, j) /\ j <= Len(KeysAt(i))
                   /\ TableShown = {Pair(KeysAt(i)[j])}
<1>0. PICK i \in 1 .. NumBlocks : \E j \in 1 .. Len(KeysAt(i)) : OnPlace(tableIter, i, j)
  BY OffNowhere DEF AtRest
<1>1. PICK j \in 1 .. Len(KeysAt(i)) : OnPlace(tableIter, i, j)
  BY <1>0
<1>2. j <= Len(KeysAt(i))
  BY FinishedIs
<1>3. TableShown = {Pair(KeysAt(i)[j])}
  BY <1>1, <1>2, ShownAtPlace, EntriesAre
<1>. QED  BY <1>1, <1>2, <1>3

LEMMA NextStep ==
  ASSUME TableInv, TableNext
  PROVE  TableInv' /\ TableView!Move /\ UNCHANGED Entry
<1>. DEFINE it == SkipForward([tableIter EXCEPT !.data = ParseNextKey(tableIter.data)])
<1>1. TableMoved(<<"next">>, it) /\ OnEntry(tableIter.data)
  BY DEF TableNext
<1>. HIDE DEF it
<1>2. /\ Finished /\ AtRest(tableIter) /\ UNCHANGED Entry
      /\ tableOp' = <<"next">> /\ TableShown' = ShownBy(it) /\ (AtRest(it) => TableInv')
  BY <1>1, Moved
<1>3. PICK i, j : /\ OnPlace(tableIter, i, j) /\ j <= Len(KeysAt(i))
                  /\ TableShown = {Pair(KeysAt(i)[j])}
  BY <1>1, <1>2, OnAKey
<1>. DEFINE W == {x \in builder.added : KeyLess(KeysAt(i)[j], x)}
<1>4. IsFirst(it, W)
  BY <1>2, <1>3, MoveNext DEF it
<1>5. ShownBy(it) = TableView!First(Pairs(W))
  <2>. HIDE DEF it
  <2>. QED  BY <1>2, <1>4, ShownFirst
<1>6. Pairs(W) = {c \in Entry : \A a \in TableShown : EntryLess(a, c)}
  <2>1. {c \in Entry : \A a \in TableShown : EntryLess(a, c)}
          = {c \in Pairs(builder.added) : KeyLess(KeysAt(i)[j], c.key)}
    BY <1>3, EntriesAre, PairIs DEF EntryLess
  <2>. QED  BY <2>1 DEF Pairs, Pair
<1>7. TableView!Next
  BY <1>2, <1>3, <1>5, <1>6 DEF TableView!Next
<1>. QED  BY <1>2, <1>4, <1>7, RestIs DEF TableView!Move

LEMMA PrevStep ==
  ASSUME TableInv, TablePrev
  PROVE  TableInv' /\ TableView!Move /\ UNCHANGED Entry
<1>. DEFINE it == SkipBackward([tableIter EXCEPT !.data = PrevInBlock(tableIter.data)])
<1>1. TableMoved(<<"prev">>, it) /\ OnEntry(tableIter.data)
  BY DEF TablePrev
<1>. HIDE DEF it
<1>2. /\ Finished /\ AtRest(tableIter) /\ UNCHANGED Entry
      /\ tableOp' = <<"prev">> /\ TableShown' = ShownBy(it) /\ (AtRest(it) => TableInv')
  BY <1>1, Moved
<1>3. PICK i, j : /\ OnPlace(tableIter, i, j) /\ j <= Len(KeysAt(i))
                  /\ TableShown = {Pair(KeysAt(i)[j])}
  BY <1>1, <1>2, OnAKey
<1>. DEFINE W == {x \in builder.added : KeyLess(x, KeysAt(i)[j])}
<1>4. IsLast(it, W)
  BY <1>2, <1>3, MovePrev DEF it
<1>5. ShownBy(it) = TableView!Last(Pairs(W))
  BY <1>2, <1>4, ShownLast
<1>6. Pairs(W) = {c \in Entry : \A a \in TableShown : EntryLess(c, a)}
  <2>1. {c \in Entry : \A a \in TableShown : EntryLess(c, a)}
          = {c \in Pairs(builder.added) : KeyLess(c.key, KeysAt(i)[j])}
    BY <1>3, EntriesAre, PairIs DEF EntryLess
  <2>. QED  BY <2>1 DEF Pairs, Pair
<1>7. TableView!Prev
  BY <1>2, <1>3, <1>5, <1>6 DEF TableView!Prev
<1>. QED  BY <1>2, <1>4, <1>7, RestIs DEF TableView!Move

-----------------------------------------------------------------------------
\* A new table has no keys, and no iterator.
LEMMA TableBegins ==
  ASSUME TableBounds, TableInit
  PROVE  TableInv /\ TableView!Init
<1>. DEFINE f == [filters |-> <<>>, keys |-> {}]
            e == EmptyBlock
<1>1. builder = [data |-> e, index |-> e, pending |-> FALSE, filter |-> f, file |-> <<>>,
                 offset |-> 0, last |-> <<>>, added |-> {}, closed |-> FALSE]
      /\ tableIter = NoIter /\ tableOp = <<"none">>
  BY DEF TableInit
<1>2. Holds(e, <<>>) /\ e \in Block /\ KeysIn(e) = {} /\ DataKeys(e) = <<>> /\ IndexKeys(e) = <<>>
  BY EmptyHolds, NothingIn DEF Holds
<1>3. e.entries = <<>>
  BY DEF EmptyBlock
<1>. HIDE DEF e
<1>4. Len(<<>>) = 0 /\ <<>> \in Seq(FileBlock) /\ <<>> \in Bytes /\ <<>> \in Seq(SUBSET Bytes)
  BY EmptySeq DEF Bytes
<1>5. f \in FilterBuilder /\ f.filters = <<>> /\ f.keys = {}
  BY <1>4 DEF FilterBuilder
<1>. HIDE DEF f
<1>6. BlocksOK(<<>>, e, {})
  <2>1. \A n \in 1 .. Len(<<>>) + 1 : Part(<<>>, e, n) = e /\ n = 1
    BY <1>4 DEF Part
  <2>2. InOrder(<<>>)
    BY <1>4 DEF InOrder
  <2>3. 1 .. Len(<<>>) = {}
    BY <1>4
  <2>4. \A n, m \in 1 .. Len(<<>>) + 1 : ~(n < m)
    BY <2>1
  <2>5. {} = UNION {KeysIn(Part(<<>>, e, n)) : n \in 1 .. Len(<<>>) + 1}
    BY <1>2, <2>1
  <2>. QED  BY <1>2, <1>4, <2>1, <2>2, <2>3, <2>4, <2>5 DEF BlocksOK
<1>7. IndexOK(e, <<>>, e)
  <2>1. 1 .. Len(e.entries) = {} /\ Len(e.entries) <= Len(<<>>)
    BY <1>3, <1>4
  <2>. QED  BY <1>2, <1>3, <2>1 DEF IndexOK
<1>8. FiltersOK(f, <<>>, e, 0)
  <2>1. 0 \div FilterBase = 0
    BY DEF TableBounds
  <2>2. 1 .. Len(<<>>) = {}
    BY <1>4
  <2>. QED  BY <1>2, <1>4, <1>5, <2>1, <2>2 DEF FiltersOK
<1>9. builder \in BuilderRecord
  BY <1>1, <1>2, <1>4, <1>5 DEF BuilderRecord
<1>10. /\ builder.file = <<>> /\ builder.data = e /\ builder.index = e /\ builder.filter = f
       /\ builder.offset = 0 /\ builder.pending = FALSE /\ builder.added = {} /\ builder.closed = FALSE
  BY <1>1
<1>11. BuilderInv(builder)
  <2>1. Len(builder.index.entries) = IF builder.pending THEN Len(builder.file) - 1 ELSE Len(builder.file)
    BY <1>3, <1>4, <1>10
  <2>2. builder.pending <=> KeysIn(builder.data) = {} /\ Len(builder.file) > 0
    BY <1>4, <1>10
  <2>. QED  BY <1>6, <1>7, <1>8, <1>9, <1>10, <2>1, <2>2 DEF BuilderInv
<1>12. TableInv
  BY <1>1, <1>10, <1>11 DEF TableInv
<1>13. TableShown = {}
  <2>1. AtKey(BlockIter(EmptyBlock), EmptyBlock, <<>>, Len(<<>>) + 1)
    BY EmptyHolds, BlockIterIs
  <2>2. OnEntry(BlockIter(EmptyBlock)) <=> Len(<<>>) + 1 <= Len(<<>>)
    BY <2>1, EmptyHolds, OnEntryIs
  <2>3. ~OnEntry(tableIter.data)
    BY <1>1, <1>4, <2>2 DEF NoIter
  <2>. QED  BY <2>3 DEF TableShown
<1>. QED  BY <1>1, <1>12, <1>13 DEF TableView!Init

LEMMA IterBegins ==
  Finished /\ tableIter = [NoIter EXCEPT !.index = BlockIter(builder.index)] => AtRest(tableIter)
<1>. SUFFICES ASSUME Finished, tableIter = [NoIter EXCEPT !.index = BlockIter(builder.index)]
              PROVE  AtRest(tableIter)
  OBVIOUS
<1>1. Holds(builder.index, Separators) /\ Len(Separators) = NumBlocks
  BY FinishedIs
<1>2. AtKey(BlockIter(builder.index), builder.index, Separators, NumBlocks + 1)
  BY <1>1, BlockIterIs
<1>3. Nowhere([NoIter EXCEPT !.index = BlockIter(builder.index)])
  BY <1>2, NoBlockIs
<1>. QED  BY <1>3 DEF AtRest

LEMMA BuildStep ==
  ASSUME TableInv, Build
  PROVE  TableInv' /\ ~builder.closed
<1>1. BuilderInv(builder) /\ TableBounds /\ TableBounds'
  BY DEF TableInv, TableBounds
<1>2. CASE \E u \in UserKeys, s \in Seqs : Add(InternalKey(u, s))
  <2>1. PICK u \in UserKeys, s \in Seqs : Add(InternalKey(u, s))
    BY <1>2
  <2>2. BuilderInv(builder') /\ ~builder'.closed
    BY <1>1, <2>1, AddKeeps
  <2>3. ~builder.closed /\ UNCHANGED <<tableIter, tableOp>>
    BY <2>1 DEF Add
  <2>4. NoIter' = NoIter
    BY DEF NoIter
  <2>5. BuilderInv(builder)'
    BY <2>2 DEF BuilderInv, FiltersOK, FilteredOK
  <2>. QED  BY <1>1, <2>2, <2>3, <2>4, <2>5 DEF TableInv
<1>3. CASE Finish
  <2>1. /\ BuilderInv(builder') /\ builder'.closed /\ ~builder.closed
        /\ tableIter' = [NoIter EXCEPT !.index = BlockIter(builder'.index)]
    BY <1>1, <1>3, FinishKeeps
  <2>2. BuilderInv(builder)'
    BY <2>1 DEF BuilderInv, FiltersOK, FilteredOK
  <2>3. Finished' /\ (tableIter = [NoIter EXCEPT !.index = BlockIter(builder.index)])'
    BY <2>1, <2>2 DEF Finished
  <2>4. AtRest(tableIter)'
    BY <2>3, IterBegins, PTL
  <2>. QED  BY <1>1, <2>1, <2>2, <2>4 DEF TableInv
<1>. QED  BY <1>2, <1>3 DEF Build

LEMMA MoveStep ==
  ASSUME TableInv, TableMove
  PROVE  TableInv' /\ TableView!Move /\ UNCHANGED Entry
<1>1. CASE \E k \in SeekTargets : TableSeek(k)
  <2>1. PICK k \in SeekTargets : TableSeek(k)
    BY <1>1
  <2>. QED  BY <2>1, SeekStep
<1>. QED  BY <1>1, FirstStep, LastStep, NextStep, PrevStep DEF TableMove

LEMMA StepKeeps ==
  ASSUME TableInv, [TableStep]_tableVars
  PROVE  TableInv' /\ [builder.closed => TableView!Move /\ UNCHANGED Entry]_<<TableShown, tableOp>>
<1>1. CASE Build
  BY <1>1, BuildStep
<1>2. CASE TableMove
  BY <1>2, MoveStep
<1>3. CASE UNCHANGED tableVars
  <2>1. builder' = builder /\ tableIter' = tableIter /\ tableOp' = tableOp
    BY <1>3 DEF tableVars
  <2>2. UNCHANGED <<TableShown, tableOp>>
    BY <2>1 DEF TableShown
  <2>3. CASE builder.closed
    BY <2>1, <2>2, <2>3, InvStays DEF TableInv
  <2>4. CASE ~builder.closed
    <3>1. BuilderInv(builder)' /\ TableBounds'
      BY <2>1 DEF TableInv, BuilderInv, TableBounds, FiltersOK, FilteredOK
    <3>2. NoIter' = NoIter
      BY DEF NoIter
    <3>. QED  BY <2>1, <2>2, <2>4, <3>1, <3>2 DEF TableInv
  <2>. QED  BY <2>3, <2>4
<1>. QED  BY <1>1, <1>2, <1>3 DEF TableStep

-----------------------------------------------------------------------------
(* InternalGet.                                                             *)

\* The entries of the user key of k that are not before it, and the first of them.
Visible(k) == {c \in builder.added : User(c) = User(k) /\ ~KeyLess(c, k)}
Newest(k)  == {c \in Visible(k) : \A j \in Visible(k) : ~KeyLess(j, c)}

\* The first key of all that is not before k is the newest, or there is none.
LEMMA NewestIs ==
  ASSUME Finished, NEW k \in IKey, NEW c \in AtOrAfter(k), \A x \in AtOrAfter(k) : ~KeyLess(x, c)
  PROVE  Newest(k) = {d \in {c} : User(d) = User(k)}
<1>1. Visible(k) \subseteq AtOrAfter(k) /\ AtOrAfter(k) \subseteq IKey /\ c \in IKey /\ ~KeyLess(c, k)
  BY FinishedIs DEF Visible, AtOrAfter
<1>2. CASE User(c) = User(k)
  <2>1. c \in Visible(k)
    BY <1>2 DEF Visible, AtOrAfter
  <2>2. c \in Newest(k)
    BY <1>1, <2>1 DEF Newest
  <2>3. ASSUME NEW d \in Newest(k) PROVE d = c
    <3>1. d \in Visible(k) /\ ~KeyLess(c, d)
      BY <2>1 DEF Newest
    <3>2. d \in IKey /\ ~KeyLess(d, c)
      BY <1>1, <3>1
    <3>. QED  BY <1>1, <3>1, <3>2, KeyOrder
  <2>. QED  BY <1>2, <2>2, <2>3
<1>3. CASE User(c) # User(k)
  <2>1. ASSUME NEW d \in Visible(k) PROVE FALSE
    <3>1. d \in IKey /\ ~KeyLess(d, c) /\ User(d) = User(k)
      BY <1>1 DEF Visible
    <3>. QED  BY <1>1, <1>3, <3>1, SameUser
  <2>. QED  BY <1>3, <2>1 DEF Newest
<1>. QED  BY <1>2, <1>3

\* A block that the index leads to without a key at or after k: no later one is of its user key.
LEMMA NoneLater ==
  ASSUME Finished, NEW k \in IKey, NEW i \in 1 .. NumBlocks,
         FirstNotBefore(Separators, k, 1, i),
         FirstNotBefore(KeysAt(i), k, 1, Len(KeysAt(i)) + 1)
  PROVE  Visible(k) = {}
<1>. SUFFICES ASSUME NEW c \in Visible(k) PROVE FALSE
  OBVIOUS
<1>. DEFINE n == Len(KeysAt(i))
            sep == Separators[i]
<1>1. /\ sep \in IKey /\ n \in Nat /\ n >= 1 /\ Len(Separators) = NumBlocks /\ NumBlocks \in Nat
      /\ Holds(BlockAt(i), DataKeys(BlockAt(i)))
  BY FinishedIs DEF KeysAt, BlockAt
<1>2. ~KeyLess(sep, k)
  BY <1>1 DEF FirstNotBefore
<1>3. c \in builder.added /\ c \in IKey /\ ~KeyLess(c, k) /\ User(c) = User(k)
  BY FinishedIs DEF Visible
<1>4. \A l \in 1 .. n : KeyLess(KeysAt(i)[l], k)
  <2>1. \A l \in 1 .. (n + 1) - 1 : KeyLess(KeysAt(i)[l], k)
    BY DEF FirstNotBefore
  <2>. QED  BY <1>1, <2>1
<1>5. From(AtOrAfter(k), i, n + 1)
  BY SeekFrom
<1>6. PICK m \in 1 .. NumBlocks : \E l \in 1 .. Len(KeysAt(m)) : c = KeysAt(m)[l]
  BY <1>3, FinishedIs
<1>7. PICK l \in 1 .. Len(KeysAt(m)) : c = KeysAt(m)[l]
  BY <1>6
<1>8. i < m
  <2>1. c \in AtOrAfter(k)
    BY <1>3 DEF AtOrAfter
  <2>2. i < m \/ (i = m /\ n + 1 <= l)
    BY <1>5, <1>7, <2>1 DEF From
  <2>. QED  BY <1>1, <2>2
<1>9. m \in i + 1 .. NumBlocks /\ 1 \in 1 .. n
  BY <1>1, <1>8
<1>10. /\ KeyLess(sep, c)
       /\ sep \in KeysIn(BlockAt(i)) \/ StringLess(User(sep), User(c))
  BY <1>7, <1>9, BlocksInOrder
<1>11. CASE sep \in KeysIn(BlockAt(i))
  <2>1. KeysIn(BlockAt(i)) = {DataKeys(BlockAt(i))[x] : x \in 1 .. Len(DataKeys(BlockAt(i)))}
    BY <1>1, HeldKeys
  <2>2. KeysIn(BlockAt(i)) = {KeysAt(i)[x] : x \in 1 .. n}
    BY <2>1 DEF KeysAt, BlockAt
  <2>. QED  BY <1>2, <1>4, <1>11, <2>2
<1>12. CASE StringLess(User(sep), User(c))
  <2>1. ~KeyLess(c, sep)
    BY <1>1, <1>3, <1>10, KeyOrder
  <2>2. User(sep) = User(k)
    BY <1>1, <1>2, <1>3, <2>1, SameUser
  <2>3. User(c) \in Bytes
    BY <1>3, KeyParts
  <2>. QED  BY <1>3, <1>12, <2>2, <2>3, StringOrder
<1>. QED  BY <1>10, <1>11, <1>12

LEMMA FilterPasses ==
  ASSUME Finished, NEW i \in 1 .. NumBlocks, NEW x \in KeysIn(BlockAt(i))
  PROVE  KeyMayMatch(builder.file[i].offset, User(x))
<1>1. FilteredOK(builder.filter, builder.file) /\ NumBlocks = Len(builder.file)
  BY DEF Finished, BuilderInv, NumBlocks
<1>. QED  BY <1>1 DEF FilteredOK, KeyMayMatch, BlockAt

LEMMA GetIs ==
  ASSUME Finished, NEW k \in IKey, NEW filtered \in BOOLEAN
  PROVE  InternalGet(k, filtered) = Newest(k)
<1>. DEFINE s == SeekInBlock(BlockIter(builder.index), k)
            handle == builder.file[Value(s)]
            b == SeekInBlock(BlockIter(handle.block), k)
<1>0. InternalGet(k, filtered) =
        IF ~OnEntry(s) \/ (filtered /\ ~KeyMayMatch(handle.offset, User(k))) \/ ~OnEntry(b)
        THEN {} ELSE {c \in {b.key} : User(c) = User(k)}
  BY DEF InternalGet
<1>1. NumBlocks \in Nat /\ Holds(builder.index, Separators) /\ InOrder(Separators)
      /\ Len(Separators) = NumBlocks
  BY FinishedIs
<1>2. BlockIter(builder.index) \in BlockIters(builder.index)
  BY <1>1, BlockIterIs DEF AtKey
<1>3. PICK i : FirstNotBefore(Separators, k, 1, i) /\ AtKey(s, builder.index, Separators, i)
  BY <1>1, <1>2, SeekIs
<1>. HIDE DEF s
<1>4. i \in 1 .. NumBlocks + 1 /\ (OnEntry(s) <=> i <= NumBlocks)
  BY <1>1, <1>3, OnEntryIs DEF FirstNotBefore
<1>5. CASE i = NumBlocks + 1
  <2>1. ~OnEntry(s)
    BY <1>1, <1>4, <1>5
  <2>2. AtOrAfter(k) = {}
    BY <1>3, <1>5, SeekNothing
  <2>3. Newest(k) = {}
    BY <2>2 DEF Newest, Visible, AtOrAfter
  <2>. QED  BY <1>0, <2>1, <2>3
<1>6. CASE i # NumBlocks + 1
  <2>1. i \in 1 .. NumBlocks /\ OnEntry(s)
    BY <1>1, <1>4, <1>6
  <2>2. Value(s) = i
    <3>1. s.block = builder.index /\ s.current = i
      BY <1>3 DEF AtKey, BlockIters
    <3>. QED  BY <2>1, <3>1, FinishedIs DEF Value
  <2>3. handle.block = BlockAt(i) /\ handle.offset = builder.file[i].offset
    BY <2>2 DEF BlockAt
  <2>. HIDE DEF handle
  <2>4. Holds(BlockAt(i), KeysAt(i)) /\ InOrder(KeysAt(i)) /\ Len(KeysAt(i)) \in Nat
    BY <2>1, FinishedIs
  <2>5. BlockIter(BlockAt(i)) \in BlockIters(BlockAt(i))
    BY <2>4, BlockIterIs DEF AtKey
  <2>6. PICK j : FirstNotBefore(KeysAt(i), k, 1, j) /\ AtKey(b, BlockAt(i), KeysAt(i), j)
    BY <2>3, <2>4, <2>5, SeekIs
  <2>. HIDE DEF b
  <2>7. j \in 1 .. Len(KeysAt(i)) + 1 /\ (OnEntry(b) <=> j <= Len(KeysAt(i)))
    BY <2>4, <2>6, OnEntryIs DEF FirstNotBefore
  <2>8. CASE j = Len(KeysAt(i)) + 1
    <3>1. ~OnEntry(b)
      BY <2>4, <2>7, <2>8
    <3>2. Visible(k) = {}
      BY <1>3, <2>1, <2>6, <2>8, NoneLater
    <3>3. Newest(k) = {}
      BY <3>2 DEF Newest
    <3>. QED  BY <1>0, <3>1, <3>3
  <2>9. CASE j # Len(KeysAt(i)) + 1
    <3>1. j \in 1 .. Len(KeysAt(i)) /\ j <= Len(KeysAt(i)) /\ OnEntry(b)
      BY <2>4, <2>7, <2>9
    <3>2. b.key = KeysAt(i)[j]
      BY <2>6, <3>1 DEF AtKey
    <3>3. From(AtOrAfter(k), i, j)
      BY <1>3, <2>1, <2>6, SeekFrom
    <3>4. b.key \in AtOrAfter(k)
      BY <2>1, <2>4, <3>1, <3>2, <3>3 DEF From
    <3>5. ASSUME NEW x \in AtOrAfter(k) PROVE ~KeyLess(x, b.key)
      <4>1. PICK m \in 1 .. NumBlocks : \E l \in 1 .. Len(KeysAt(m)) : x = KeysAt(m)[l]
        BY FinishedIs DEF AtOrAfter
      <4>2. PICK l \in 1 .. Len(KeysAt(m)) : x = KeysAt(m)[l]
        BY <4>1
      <4>3. i < m \/ (i = m /\ j <= l)
        BY <3>3, <4>2 DEF From
      <4>4. ~(m < i \/ (m = i /\ l < j))
        BY <1>1, <2>1, <3>1, <4>3
      <4>. QED  BY <2>1, <3>1, <3>2, <4>2, <4>4, PlaceOrder
    <3>6. Newest(k) = {d \in {b.key} : User(d) = User(k)}
      BY <3>4, <3>5, NewestIs
    <3>7. CASE User(b.key) = User(k)
      <4>1. b.key \in KeysIn(BlockAt(i))
        BY <2>1, <3>1, <3>2, FinishedIs
      <4>2. KeyMayMatch(handle.offset, User(k))
        BY <2>1, <2>3, <3>7, <4>1, FilterPasses
      <4>. QED  BY <1>0, <2>1, <3>1, <3>6, <4>2
    <3>8. CASE User(b.key) # User(k)
      <4>1. {d \in {b.key} : User(d) = User(k)} = {}
        BY <3>8
      <4>. QED  BY <1>0, <3>6, <4>1
    <3>. QED  BY <3>7, <3>8
  <2>. QED  BY <2>8, <2>9
<1>. QED  BY <1>5, <1>6

LEMMA GetsTheNewest == TableInv => GetFindsTheNewest
<1>. SUFFICES ASSUME TableInv, builder.closed, NEW u \in UserKeys, NEW s \in 0 .. MaxSequence,
                     NEW filtered \in BOOLEAN
              PROVE  InternalGet(InternalKey(u, s), filtered) =
                       {k \in builder.added :
                          /\ User(k) = u /\ ~KeyLess(k, InternalKey(u, s))
                          /\ \A j \in builder.added :
                               User(j) = u /\ ~KeyLess(j, InternalKey(u, s)) => ~KeyLess(j, k)}
  BY DEF GetFindsTheNewest
<1>. DEFINE t == InternalKey(u, s)
<1>1. t \in IKey /\ User(t) = u /\ Finished
  BY InternalKeyIs DEF TableInv, TableBounds, Finished
<1>. HIDE DEF t
<1>2. InternalGet(t, filtered) = Newest(t)
  BY <1>1, GetIs
<1>3. Newest(t) = {k \in builder.added :
                     /\ User(k) = u /\ ~KeyLess(k, t)
                     /\ \A j \in builder.added : User(j) = u /\ ~KeyLess(j, t) => ~KeyLess(j, k)}
  BY <1>1 DEF Newest, Visible
<1>. QED  BY <1>2, <1>3 DEF t

-----------------------------------------------------------------------------
(***************************************************************************)
(* Whatever the keys, the sizes of the blocks and the restart interval:    *)
(* Table::InternalGet gives the newest entry of a user key at a sequence   *)
(* number, or none, and a filter never hides it.                           *)
(***************************************************************************)
THEOREM GetsCorrect == TableSpec => []GetFindsTheNewest
<1>. TableBounds
  BY TableAssumption DEF TableBounds, Bytes
<1>1. TableInit => TableInv
  BY TableBegins
<1>2. TableInv /\ [TableStep]_tableVars => TableInv'
  BY StepKeeps
<1>. QED  BY <1>1, <1>2, GetsTheNewest, PTL DEF TableSpec

(***************************************************************************)
(* Under the same assumptions the iterator over the index and the blocks   *)
(* of a finished table is a cursor over the entries that were added.       *)
(***************************************************************************)
THEOREM TableIteratorCorrect == TableSpec => TableIsCursor
<1>. TableBounds
  BY TableAssumption DEF TableBounds, Bytes
<1>1. TableInit => TableInv /\ TableView!Init
  BY TableBegins
<1>2. TableInv /\ [TableStep]_tableVars => TableInv'
  BY StepKeeps
<1>3. TableInv /\ [TableStep]_tableVars
        => [builder.closed => TableView!Move /\ UNCHANGED Entry]_<<TableShown, tableOp>>
  BY StepKeeps
<1>. QED  BY <1>1, <1>2, <1>3, PTL DEF TableSpec, TableIsCursor
=============================================================================
