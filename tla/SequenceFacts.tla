---------------------------- MODULE SequenceFacts ----------------------------
(***************************************************************************)
(* Facts about sequences that the proofs of several components need and    *)
(* that the library does not state.                                        *)
(***************************************************************************)
EXTENDS Integers, SequencesExt, Subsequences, FunctionTheorems, SequenceTheorems,
        FiniteSetTheorems, TLAPS

\* Appending and taking the head off, as the set of elements sees them.
LEMMA RangeAppend ==
    ASSUME NEW S, NEW s \in Seq(S), NEW e \in S
    PROVE  Range(Append(s, e)) = Range(s) \cup {e}
<1>1. Append(s, e) = s \o <<e>>
  BY AppendIsConcat
<1>2. <<e>> \in Seq(S) /\ Range(<<e>>) = {e}
  <2>1. <<e>> \in Seq(S) /\ DOMAIN <<e>> = {1} /\ <<e>>[1] = e
    OBVIOUS
  <2>. QED BY <2>1 DEF Range
<1>3. Range(s \o <<e>>) = Range(s) \cup Range(<<e>>)
  BY ZenonT(60), <1>2, RangeConcatenation
<1>. QED BY <1>1, <1>2, <1>3

\* A sequence's elements are its head and those of its tail.
LEMMA RangeHeadTail ==
    ASSUME NEW S, NEW s \in Seq(S), s # <<>>
    PROVE  /\ Tail(s) \in Seq(S) /\ Head(s) \in S /\ Len(Tail(s)) = Len(s) - 1
           /\ Range(s) = {Head(s)} \cup Range(Tail(s))
<1>1. /\ Len(s) \in Nat \ {0} /\ Tail(s) \in Seq(S) /\ Head(s) \in S /\ Head(s) = s[1]
      /\ Len(Tail(s)) = Len(s) - 1 /\ \A i \in 1 .. Len(Tail(s)) : Tail(s)[i] = s[i + 1]
  BY HeadTailProperties, EmptySeq, LenProperties
<1>2. /\ Range(s) = {s[i] : i \in 1 .. Len(s)}
      /\ Range(Tail(s)) = {Tail(s)[i] : i \in 1 .. Len(Tail(s))}
  BY ZenonT(60), <1>1, RangeEquality
<1>3. ASSUME NEW i \in 1 .. Len(s) PROVE s[i] \in {Head(s)} \cup Range(Tail(s))
  <2>1. CASE i = 1
    BY <1>1, <2>1
  <2>2. CASE i # 1
    <3>1. i - 1 \in 1 .. Len(Tail(s)) /\ Tail(s)[i - 1] = s[i]
      BY <1>1, <2>2
    <3>. QED BY <1>2, <3>1
  <2>. QED BY <2>1, <2>2
<1>4. ASSUME NEW i \in 1 .. Len(Tail(s)) PROVE Tail(s)[i] \in Range(s)
  BY <1>1, <1>2
<1>5. Head(s) \in Range(s)
  BY <1>1, <1>2
<1>. QED BY <1>1, <1>2, <1>3, <1>4, <1>5

\* A sequence is its head followed by its tail.
LEMMA HeadTailConcat ==
    ASSUME NEW S, NEW s \in Seq(S), s # <<>>
    PROVE  s = <<Head(s)>> \o Tail(s)
<1>1. Len(s) \in Nat \ {0}
  BY EmptySeq
<1>2. SubSeq(s, 1, Len(s)) = <<s[1]>> \o SubSeq(s, 2, Len(s))
  <2>1. 1 \in 1 .. Len(s) /\ Len(s) \in 1 .. Len(s)
    BY <1>1
  <2>2. SubSeq(s, 1, Len(s)) = <<s[1]>> \o SubSeq(s, 1 + 1, Len(s))
    BY <2>1, SubSeqRecursiveFirst
  <2>. QED BY <2>2
<1>3. SubSeq(s, 1, Len(s)) = s
  BY SubSeqFull
<1>4. Tail(s) = SubSeq(s, 2, Len(s))
  BY TailIsSubSeq
<1>5. Head(s) = s[1]
  OBVIOUS
<1>. QED BY <1>2, <1>3, <1>4, <1>5

\* Head and tail of a sequence with one element put in front.
LEMMA ConsHeadTail ==
    ASSUME NEW S, NEW e \in S, NEW u \in Seq(S), NEW s, s = <<e>> \o u
    PROVE  s \in Seq(S) /\ s # <<>> /\ Head(s) = e /\ Tail(s) = u
<1>1. <<e>> \in Seq(S) /\ Len(<<e>>) = 1 /\ <<e>>[1] = e
  OBVIOUS
<1>2. Len(u) \in Nat
  BY LenProperties
<1>3. /\ s \in Seq(S) /\ Len(s) = 1 + Len(u)
      /\ \A i \in 1 .. 1 + Len(u) : s[i] = IF i <= 1 THEN <<e>>[i] ELSE u[i - 1]
  BY <1>1, ConcatProperties
<1>4. s # <<>>
  BY <1>2, <1>3, EmptySeq
<1>5. Head(s) = e
  BY <1>1, <1>2, <1>3, <1>4
<1>6. /\ Tail(s) \in Seq(S) /\ Len(Tail(s)) = Len(u)
      /\ \A i \in 1 .. Len(Tail(s)) : Tail(s)[i] = s[i + 1]
  BY <1>2, <1>3, <1>4, HeadTailProperties
<1>7. \A i \in 1 .. Len(u) : s[i + 1] = u[i]
  BY <1>2, <1>3
<1>8. Tail(s) = u
  BY <1>2, <1>6, <1>7, SeqEqual
<1>. QED BY <1>3, <1>4, <1>5, <1>8

\* An element appended behind the second of two sequences is the last of both.
LEMMA ConcatAppend ==
    ASSUME NEW S, NEW s \in Seq(S), NEW u \in Seq(S), NEW e \in S
    PROVE  s \o Append(u, e) = Append(s \o u, e)
<1>1. <<e>> \in Seq(S) /\ s \o u \in Seq(S)
  BY ConcatProperties
<1>2. Append(u, e) = u \o <<e>> /\ Append(s \o u, e) = (s \o u) \o <<e>>
  BY <1>1, AppendIsConcat
<1>. QED BY <1>1, <1>2, ConcatAssociative

\* Taking one element out of a sequence over S leaves a sequence over S.
LEMMA RemoveAtSeq ==
    ASSUME NEW S, NEW s \in Seq(S), NEW i \in 1 .. Len(s)
    PROVE  RemoveAt(s, i) \in Seq(S)
<1>1. \A j \in 1 .. Len(s) : s[j] \in S
  BY ElementOfSeq
<1>2. Len(s) \in Nat
  BY LenProperties
<1>3. SubSeq(s, 1, i - 1) \in Seq(S)
  BY <1>1, <1>2, SubSeqProperties
<1>4. SubSeq(s, i + 1, Len(s)) \in Seq(S)
  BY <1>1, <1>2, SubSeqProperties
<1>. QED BY <1>3, <1>4, ConcatProperties DEF RemoveAt

\* What is left of a sequence without the element between s and u.
LEMMA WithoutMiddle ==
    ASSUME NEW S, NEW s \in Seq(S), NEW e \in S, NEW u \in Seq(S),
           NEW t, t = s \o (<<e>> \o u), NEW r, r = s \o u
    PROVE  /\ r \in Seq(S) /\ t \in Seq(S)
           /\ Len(s) \in Nat /\ Len(r) \in Nat /\ Len(s) <= Len(r)
           /\ Len(t) = Len(r) + 1
           /\ \A i \in 1 .. Len(r) : r[i] = t[IF i <= Len(s) THEN i ELSE i + 1]
           /\ t[Len(s) + 1] = e
<1>. DEFINE v == <<e>> \o u
<1>1. <<e>> \in Seq(S) /\ Len(<<e>>) = 1 /\ <<e>>[1] = e
  OBVIOUS
<1>2. Len(s) \in Nat /\ Len(u) \in Nat
  BY LenProperties
<1>3. /\ v \in Seq(S) /\ Len(v) = Len(u) + 1
      /\ v[1] = e
      /\ \A i \in 1 .. Len(u) : v[i + 1] = u[i]
  <2>1. /\ v \in Seq(S) /\ Len(v) = 1 + Len(u)
        /\ \A i \in 1 .. 1 + Len(u) : v[i] = IF i <= 1 THEN <<e>>[i] ELSE u[i - 1]
    BY <1>1, ConcatProperties
  <2>. HIDE DEF v
  <2>. QED BY <1>1, <1>2, <2>1
<1>4. /\ r \in Seq(S) /\ Len(r) = Len(s) + Len(u)
      /\ \A i \in 1 .. Len(s) + Len(u) : r[i] = IF i <= Len(s) THEN s[i] ELSE u[i - Len(s)]
  BY ConcatProperties
<1>. HIDE DEF v
<1>5. /\ t \in Seq(S) /\ Len(t) = Len(s) + Len(v)
      /\ \A i \in 1 .. Len(s) + Len(v) : t[i] = IF i <= Len(s) THEN s[i] ELSE v[i - Len(s)]
  <2>1. t = s \o v
    BY DEF v
  <2>2. v \in Seq(S)
    BY <1>3
  <2>3. /\ s \o v \in Seq(S) /\ Len(s \o v) = Len(s) + Len(v)
        /\ \A i \in 1 .. Len(s) + Len(v) :
               (s \o v)[i] = IF i <= Len(s) THEN s[i] ELSE v[i - Len(s)]
    BY <2>2, ConcatProperties
  <2>. QED BY <2>1, <2>3, Zenon
<1>6. ASSUME NEW i \in 1 .. Len(r)
      PROVE  r[i] = t[IF i <= Len(s) THEN i ELSE i + 1]
  <2>1. CASE i <= Len(s)
    BY <1>2, <1>3, <1>4, <1>5, <2>1
  <2>2. CASE i > Len(s)
    <3>1. t[i + 1] = v[i + 1 - Len(s)]
      BY <1>2, <1>3, <1>4, <1>5, <2>2
    <3>2. i - Len(s) \in 1 .. Len(u) /\ i + 1 - Len(s) = (i - Len(s)) + 1
      BY <1>2, <1>4, <2>2
    <3>3. v[(i - Len(s)) + 1] = u[i - Len(s)]
      BY <1>3, <3>2
    <3>. QED BY <1>2, <1>4, <2>2, <3>1, <3>2, <3>3
  <2>. QED BY <1>2, <2>1, <2>2
<1>7. t[Len(s) + 1] = e
  BY <1>2, <1>3, <1>5
<1>. QED BY <1>2, <1>3, <1>4, <1>5, <1>6, <1>7

\* What is left without the i-th element.
LEMMA RemoveAtElements ==
    ASSUME NEW S, NEW s \in Seq(S), NEW i \in 1 .. Len(s), NEW t, t = RemoveAt(s, i)
    PROVE  /\ t \in Seq(S) /\ Len(t) = Len(s) - 1
           /\ \A j \in 1 .. Len(t) : t[j] = s[IF j < i THEN j ELSE j + 1]
<1>. DEFINE u == SubSeq(s, 1, i - 1)
            v == SubSeq(s, i + 1, Len(s))
<1>1. Len(s) \in Nat /\ \A j \in 1 .. Len(s) : s[j] \in S
  BY LenProperties, ElementOfSeq
<1>2. /\ u \in Seq(S) /\ Len(u) = i - 1
      /\ \A j \in 1 .. Len(u) : u[j] = s[j]
  BY <1>1, SubSeqProperties
<1>3. /\ v \in Seq(S) /\ Len(v) = Len(s) - i
      /\ \A j \in 1 .. Len(v) : v[j] = s[i + j]
  BY <1>1, SubSeqProperties
<1>4. t = u \o v
  BY DEF RemoveAt
<1>. HIDE DEF u, v
<1>5. /\ t \in Seq(S) /\ Len(t) = Len(u) + Len(v)
      /\ \A j \in 1 .. Len(u) + Len(v) : t[j] = IF j <= Len(u) THEN u[j] ELSE v[j - Len(u)]
  BY <1>2, <1>3, <1>4, ConcatProperties
<1>6. ASSUME NEW j \in 1 .. Len(t) PROVE t[j] = s[IF j < i THEN j ELSE j + 1]
  <2>1. CASE j < i
    BY <1>1, <1>2, <1>3, <1>5, <2>1
  <2>2. CASE j >= i
    <3>1. j - Len(u) \in 1 .. Len(v) /\ i + (j - Len(u)) = j + 1
      BY <1>1, <1>2, <1>3, <1>5, <2>2
    <3>. QED BY <1>1, <1>2, <1>3, <1>5, <2>2, <3>1
  <2>. QED BY <1>1, <1>5, <2>1, <2>2
<1>. QED BY <1>1, <1>2, <1>3, <1>5, <1>6

\* A part of a sequence does not change when the sequence grows.
LEMMA SubSeqGrows ==
    ASSUME NEW S, NEW s \in Seq(S), NEW e \in S,
           NEW m \in 1 .. Len(s) + 1, NEW k \in 0 .. Len(s)
    PROVE  SubSeq(Append(s, e), m, k) = SubSeq(s, m, k)
<1>. DEFINE t == Append(s, e)
<1>1. /\ Len(s) \in Nat /\ Len(t) = Len(s) + 1 /\ t \in Seq(S)
      /\ \A j \in 1 .. Len(s) : t[j] = s[j]
      /\ \A j \in 1 .. Len(s) : s[j] \in S
  BY AppendProperties, LenProperties, ElementOfSeq
<1>. HIDE DEF t
<1>2. ASSUME NEW j \in m .. k PROVE j \in 1 .. Len(s) /\ t[j] = s[j] /\ s[j] \in S /\ t[j] \in S
  BY <1>1
<1>3. /\ SubSeq(s, m, k) \in Seq(S) /\ SubSeq(t, m, k) \in Seq(S)
      /\ Len(SubSeq(s, m, k)) = IF m <= k THEN k - m + 1 ELSE 0
      /\ Len(SubSeq(t, m, k)) = IF m <= k THEN k - m + 1 ELSE 0
      /\ \A j \in 1 .. k - m + 1 : SubSeq(s, m, k)[j] = s[m + j - 1]
      /\ \A j \in 1 .. k - m + 1 : SubSeq(t, m, k)[j] = t[m + j - 1]
  BY <1>1, <1>2, SubSeqProperties
<1>4. \A j \in 1 .. Len(SubSeq(s, m, k)) : SubSeq(t, m, k)[j] = SubSeq(s, m, k)[j]
  BY <1>1, <1>2, <1>3
<1>5. SubSeq(t, m, k) = SubSeq(s, m, k)
  BY <1>3, <1>4, SeqEqual
<1>. QED BY <1>5 DEF t

\* Its last element, if it has one.
LEMMA SubSeqLast ==
    ASSUME NEW S, NEW s \in Seq(S), NEW m \in 1 .. Len(s), NEW k \in m .. Len(s)
    PROVE  SubSeq(s, m, k) = Append(SubSeq(s, m, k - 1), s[k])
<1>1. Len(s) \in Nat /\ \A j \in m .. k : j \in 1 .. Len(s) /\ s[j] \in S
  BY LenProperties, ElementOfSeq
<1>2. SubSeq(s, m, k) = SubSeq(s, m, k - 1) \o <<s[k]>>
  BY SubSeqRecursiveSecond
<1>3. SubSeq(s, m, k - 1) \in Seq(S) /\ s[k] \in S
  BY <1>1, SubSeqProperties
<1>. QED BY <1>2, <1>3, AppendIsConcat

\* The last element taken off again.
LEMMA FrontOfAppend ==
    ASSUME NEW S, NEW s \in Seq(S), NEW e \in S
    PROVE  Front(Append(s, e)) = s /\ Last(Append(s, e)) = e
<1>. DEFINE u == Append(s, e)
<1>1. /\ Len(s) \in Nat /\ u \in Seq(S) /\ Len(u) = Len(s) + 1 /\ u[Len(s) + 1] = e
  BY LenProperties, AppendProperties
<1>2. SubSeq(u, 1, Len(s)) = SubSeq(s, 1, Len(s))
  <2>1. 1 \in 1 .. Len(s) + 1 /\ Len(s) \in 0 .. Len(s)
    BY <1>1
  <2>. QED BY <2>1, SubSeqGrows
<1>3. SubSeq(s, 1, Len(s)) = s
  BY SubSeqFull
<1>. HIDE DEF u
<1>4. Len(u) - 1 = Len(s)
  BY <1>1
<1>5. Front(u) = s /\ Last(u) = e
  BY <1>1, <1>2, <1>3, <1>4 DEF Front, Last
<1>. QED BY <1>5 DEF u

\* A sequence is its front and its last element.
LEMMA FrontAndLast ==
    ASSUME NEW S, NEW s \in Seq(S), s # <<>>
    PROVE  Front(s) \in Seq(S) /\ Last(s) \in S /\ s = Append(Front(s), Last(s))
<1>1. PICK u \in Seq(S), e \in S : s = Append(u, e)
  BY SequenceEmptyOrAppend
<1>. QED BY <1>1, FrontOfAppend

-----------------------------------------------------------------------------
(* SubSeqAt.  Everything about it follows from the one increasing          *)
(* enumeration that a finite set of integers has.                          *)

Enumerates(f, n, I) ==
    /\ n \in Nat /\ f \in [1 .. n -> I]
    /\ \A j, k \in 1 .. n : j < k => f[j] < f[k]
    /\ \A i \in I : \E k \in 1 .. n : f[k] = i

\* The k-th element of an enumeration has k elements up to it.
LEMMA EnumerationCounts ==
    ASSUME NEW I \in SUBSET Int, NEW f, NEW n, Enumerates(f, n, I)
    PROVE  /\ IsFiniteSet(I) /\ Cardinality(I) = n
           /\ \A k \in 1 .. n : Cardinality({j \in I : j <= f[k]}) = k
<1>1. /\ n \in Nat /\ f \in [1 .. n -> I]
      /\ \A j, k \in 1 .. n : j < k => f[j] < f[k]
      /\ \A i \in I : \E k \in 1 .. n : f[k] = i
  BY DEF Enumerates
<1>2. \A j, k \in 1 .. n : f[j] \in Int /\ (f[j] <= f[k] <=> j <= k)
  <2>. SUFFICES ASSUME NEW j \in 1 .. n, NEW k \in 1 .. n
                PROVE  f[j] \in Int /\ (f[j] <= f[k] <=> j <= k)
    OBVIOUS
  <2>1. f[j] \in Int /\ f[k] \in Int
    BY <1>1
  <2>2. CASE j < k
    BY <1>1, <2>1, <2>2
  <2>3. CASE k < j
    BY <1>1, <2>1, <2>3
  <2>4. CASE j = k
    BY <2>1, <2>4
  <2>. QED BY <2>2, <2>3, <2>4
<1>3. ASSUME NEW k \in 0 .. n, NEW J, J = {i \in I : \E j \in 1 .. k : f[j] = i}
      PROVE  IsFiniteSet(J) /\ Cardinality(J) = k
  <2>. DEFINE g == [j \in 1 .. k |-> f[j]]
  <2>1. g \in [1 .. k -> J]
    <3>1. \A j \in 1 .. k : j \in 1 .. n /\ f[j] \in J
      BY <1>1, <1>3
    <3>. QED BY <3>1
  <2>2. \A a, b \in 1 .. k : g[a] = g[b] => a = b
    <3>. SUFFICES ASSUME NEW a \in 1 .. k, NEW b \in 1 .. k, f[a] = f[b]
                  PROVE  a = b
      OBVIOUS
    <3>1. a \in 1 .. n /\ b \in 1 .. n
      BY <1>1
    <3>2. f[a] <= f[b] /\ f[b] <= f[a]
      BY <1>2, <3>1
    <3>. QED BY <1>2, <3>1, <3>2
  <2>3. \A i \in J : \E j \in 1 .. k : g[j] = i
    BY <1>3
  <2>4. g \in Bijection(1 .. k, J)
    <3>. HIDE DEF g
    <3>. QED BY <2>1, <2>2, <2>3, Fun_IsBij
  <2>5. ExistsBijection(1 .. k, J)
    BY <2>4 DEF ExistsBijection
  <2>6. k \in Nat
    BY <1>1
  <2>. QED BY <2>5, <2>6, FS_CountingElements, FS_NatBijection
<1>4. IsFiniteSet(I) /\ Cardinality(I) = n
  <2>1. I = {i \in I : \E j \in 1 .. n : f[j] = i}
    BY <1>1
  <2>2. n \in 0 .. n
    BY <1>1
  <2>. QED BY <1>3, <2>1, <2>2
<1>5. ASSUME NEW k \in 1 .. n
      PROVE  Cardinality({j \in I : j <= f[k]}) = k
  <2>1. k \in 0 .. n
    BY <1>1
  <2>2. {j \in I : j <= f[k]} = {i \in I : \E j \in 1 .. k : f[j] = i}
    <3>1. ASSUME NEW i \in I, i <= f[k]
          PROVE  \E j \in 1 .. k : f[j] = i
      <4>1. PICK j \in 1 .. n : f[j] = i
        BY <1>1
      <4>2. j <= k
        BY <1>2, <3>1, <4>1
      <4>. QED BY <4>1, <4>2
    <3>2. ASSUME NEW j \in 1 .. k
          PROVE  f[j] <= f[k]
      <4>1. j \in 1 .. n /\ j <= k
        BY <1>1
      <4>. QED BY <1>2, <4>1
    <3>. QED BY <3>1, <3>2
  <2>. QED BY <1>3, <2>1, <2>2
<1>. QED BY <1>4, <1>5

\* Every finite set of integers has an enumeration.
LEMMA EnumerationExists ==
    ASSUME NEW I \in SUBSET Int, IsFiniteSet(I)
    PROVE  \E f : Enumerates(f, Cardinality(I), I)
<1>. DEFINE n == Cardinality(I)
            Below(i) == {j \in I : j <= i}
            r == [i \in I |-> Cardinality(Below(i))]
<1>1. n \in Nat /\ IsFiniteSet(1 .. n) /\ Cardinality(1 .. n) = n
  BY FS_CardinalityType, FS_Interval
<1>2. \A i \in I : /\ IsFiniteSet(Below(i)) /\ Cardinality(Below(i)) \in Nat
                   /\ Cardinality(Below(i)) <= n /\ Cardinality(Below(i)) # 0
  <2>. SUFFICES ASSUME NEW i \in I
                PROVE  /\ IsFiniteSet(Below(i)) /\ Cardinality(Below(i)) \in Nat
                       /\ Cardinality(Below(i)) <= n /\ Cardinality(Below(i)) # 0
    OBVIOUS
  <2>1. Below(i) \in SUBSET I /\ i \in Below(i)
    OBVIOUS
  <2>. HIDE DEF Below
  <2>2. IsFiniteSet(Below(i)) /\ Cardinality(Below(i)) <= n
    BY <2>1, FS_Subset
  <2>. QED BY <2>1, <2>2, FS_CardinalityType, FS_EmptySet
<1>3. ASSUME NEW i \in I, NEW j \in I, i < j
      PROVE  r[i] < r[j]
  <2>1. Below(i) \subseteq Below(j) /\ j \in Below(j) /\ j \notin Below(i)
    <3>1. \A k \in I : k \in Int
      OBVIOUS
    <3>2. \A k \in I : k <= i => k <= j
      BY <1>3, <3>1
    <3>3. i \in Int /\ j \in Int /\ ~(j <= i) /\ j <= j
      BY <1>3, <3>1
    <3>4. Below(i) \subseteq Below(j)
      BY <3>2
    <3>5. j \in Below(j) /\ j \notin Below(i)
      BY <3>3
    <3>. QED BY <3>4, <3>5
  <2>2. /\ IsFiniteSet(Below(j)) /\ Cardinality(Below(j)) \in Nat
        /\ Cardinality(Below(i)) \in Nat
    BY <1>2
  <2>. HIDE DEF Below
  <2>3. /\ Cardinality(Below(i)) <= Cardinality(Below(j))
        /\ Cardinality(Below(j)) = Cardinality(Below(i)) => Below(j) = Below(i)
    <3>1. Below(i) \in SUBSET Below(j)
      BY <2>1
    <3>. QED BY <3>1, <2>2, FS_Subset
  <2>4. Cardinality(Below(i)) < Cardinality(Below(j))
    BY <2>1, <2>2, <2>3
  <2>. QED BY <2>4
<1>4. r \in [I -> 1 .. n]
  <2>. HIDE DEF Below, n
  <2>. QED BY <1>1, <1>2
<1>. HIDE DEF r, n, Below
<1>5. \A i, j \in I : r[i] = r[j] => i = j
  <2>. SUFFICES ASSUME NEW i \in I, NEW j \in I, r[i] = r[j], i # j
                PROVE  FALSE
    OBVIOUS
  <2>1. i < j \/ j < i
    OBVIOUS
  <2>2. r[i] \in Int /\ r[j] \in Int
    BY <1>1, <1>4
  <2>. QED BY <1>3, <2>1, <2>2
<1>6. r \in Surjection(I, 1 .. n)
  <2>1. r \in Injection(I, 1 .. n)
    BY <1>4, <1>5, Fun_IsInj
  <2>. QED BY <1>1, <2>1, FS_Injection DEF n
<1>7. \A k \in 1 .. n : \E i \in I : r[i] = k
  BY <1>6 DEF Surjection
<1>. DEFINE f == [k \in 1 .. n |-> CHOOSE i \in I : r[i] = k]
<1>8. \A k \in 1 .. n : f[k] \in I /\ r[f[k]] = k
  BY <1>7
<1>9. f \in [1 .. n -> I]
  BY <1>8
<1>. HIDE DEF f
<1>10. \A j, k \in 1 .. n : j < k => f[j] < f[k]
  <2>. SUFFICES ASSUME NEW j \in 1 .. n, NEW k \in 1 .. n, j < k, ~(f[j] < f[k])
                PROVE  FALSE
    OBVIOUS
  <2>1. f[j] \in Int /\ f[k] \in Int /\ r[f[j]] = j /\ r[f[k]] = k
    BY <1>8
  <2>2. f[k] < f[j] \/ f[k] = f[j]
    BY <2>1
  <2>3. f[k] < f[j] => k < j
    BY <1>3, <1>8, <2>1
  <2>. QED BY <1>1, <2>1, <2>2, <2>3
<1>11. \A i \in I : r[i] \in 1 .. n /\ f[r[i]] = i
  BY <1>4, <1>5, <1>8
<1>12. Enumerates(f, n, I)
  BY <1>1, <1>9, <1>10, <1>11 DEF Enumerates
<1>. QED BY <1>12 DEF n

\* What SubSeqAt selects, given an enumeration of the positions.
LEMMA SubSeqAtEnumerated ==
    ASSUME NEW I \in SUBSET Int, NEW f, NEW n, Enumerates(f, n, I), NEW s
    PROVE  SubSeqAt(s, I) = [k \in 1 .. n |-> s[f[k]]]
<1>1. /\ n \in Nat /\ f \in [1 .. n -> I]
      /\ \A i \in I : \E k \in 1 .. n : f[k] = i
  BY DEF Enumerates
<1>2. /\ Cardinality(I) = n
      /\ \A k \in 1 .. n : Cardinality({j \in I : j <= f[k]}) = k
  BY EnumerationCounts
<1>. DEFINE R(i) == Cardinality({j \in I : j <= i})
<1>3. ASSUME NEW k \in 1 .. n
      PROVE  (CHOOSE i \in I : R(i) = k) = f[k]
  <2>1. f[k] \in I /\ R(f[k]) = k
    BY <1>1, <1>2
  <2>2. ASSUME NEW i \in I, R(i) = k
        PROVE  i = f[k]
    <3>1. PICK m \in 1 .. n : f[m] = i
      BY <1>1
    <3>2. R(f[m]) = m
      BY <1>2
    <3>. HIDE DEF R
    <3>. QED BY <2>2, <3>1, <3>2
  <2>. HIDE DEF R
  <2>. QED BY <2>1, <2>2
<1>4. SubSeqAt(s, I) = [k \in 1 .. n |-> s[CHOOSE i \in I : R(i) = k]]
  BY <1>2 DEF SubSeqAt
<1>. HIDE DEF R
<1>. QED BY <1>3, <1>4

\* A sequence that has the selected elements, one by one, is the selection.
LEMMA SubSeqAtIs ==
    ASSUME NEW I \in SUBSET Int, NEW S, NEW t \in Seq(S), NEW f, Enumerates(f, Len(t), I),
           NEW s, \A k \in 1 .. Len(t) : t[k] = s[f[k]]
    PROVE  SubSeqAt(s, I) = t
<1>1. SubSeqAt(s, I) = [k \in 1 .. Len(t) |-> s[f[k]]]
  BY SubSeqAtEnumerated
<1>2. t = [k \in 1 .. Len(t) |-> t[k]]
  OBVIOUS
<1>. QED BY <1>1, <1>2

\* What SubSeqAt selects, without an enumeration at hand.
LEMMA SubSeqAtElements ==
    ASSUME NEW S, NEW s \in Seq(S), NEW I \in SUBSET (1 .. Len(s)), NEW t, t = SubSeqAt(s, I)
    PROVE  /\ t \in Seq(S) /\ Len(t) \in Nat /\ Range(t) = {s[i] : i \in I}
           /\ \E f : Enumerates(f, Len(t), I) /\ \A k \in 1 .. Len(t) : t[k] = s[f[k]]
<1>1. Len(s) \in Nat /\ \A i \in 1 .. Len(s) : s[i] \in S
  BY LenProperties, ElementOfSeq
<1>2. IsFiniteSet(I) /\ I \in SUBSET Int
  <2>1. IsFiniteSet(1 .. Len(s))
    BY <1>1, FS_Interval
  <2>2. IsFiniteSet(I)
    BY <2>1, FS_Subset
  <2>. QED BY <1>1, <2>2
<1>. DEFINE n == Cardinality(I)
<1>3. PICK f : Enumerates(f, n, I)
  BY <1>2, EnumerationExists
<1>. HIDE DEF n
<1>4. t = [k \in 1 .. n |-> s[f[k]]]
  BY <1>2, <1>3, SubSeqAtEnumerated
<1>5. /\ n \in Nat /\ f \in [1 .. n -> I]
      /\ \A i \in I : \E k \in 1 .. n : f[k] = i
  BY <1>3 DEF Enumerates
<1>6. \A k \in 1 .. n : t[k] = s[f[k]] /\ s[f[k]] \in S
  BY <1>1, <1>4, <1>5
<1>7. t \in Seq(S) /\ Len(t) = n
  BY <1>4, <1>5, <1>6
<1>8. Range(t) = {s[i] : i \in I}
  <2>1. Range(t) = {t[k] : k \in 1 .. n}
    BY <1>4 DEF Range
  <2>2. ASSUME NEW i \in I
        PROVE  s[i] \in Range(t)
    <3>1. PICK k \in 1 .. n : f[k] = i
      BY <1>5
    <3>. QED BY <1>6, <2>1, <3>1
  <2>3. ASSUME NEW k \in 1 .. n
        PROVE  f[k] \in I /\ t[k] = s[f[k]]
    BY <1>5, <1>6
  <2>4. Range(t) \subseteq {s[i] : i \in I}
    <3>. SUFFICES ASSUME NEW x \in Range(t)
                  PROVE  \E i \in I : x = s[i]
      OBVIOUS
    <3>1. PICK k \in 1 .. n : x = t[k]
      BY <2>1
    <3>. QED BY <2>3, <3>1
  <2>5. {s[i] : i \in I} \subseteq Range(t)
    BY <2>2
  <2>. QED BY <2>4, <2>5
<1>. QED BY <1>3, <1>5, <1>6, <1>7, <1>8

\* As many elements are selected as positions are named.
LEMMA SubSeqAtCounts ==
    ASSUME NEW S, NEW s \in Seq(S), NEW I \in SUBSET (1 .. Len(s)), NEW t, t = SubSeqAt(s, I)
    PROVE  Range(t) = {s[i] : i \in I} /\ Len(t) = Cardinality(I) /\ IsFiniteSet(I)
<1>1. Range(t) = {s[i] : i \in I}
  BY SubSeqAtElements
<1>2. PICK f : Enumerates(f, Len(t), I)
  BY SubSeqAtElements
<1>3. I \in SUBSET Int
  BY LenProperties
<1>. QED BY <1>1, <1>2, <1>3, EnumerationCounts

\* Only the elements at the selected positions matter.
LEMMA SubSeqAtAgrees ==
    ASSUME NEW I \in SUBSET Int, IsFiniteSet(I), NEW s, NEW u, \A i \in I : s[i] = u[i]
    PROVE  SubSeqAt(s, I) = SubSeqAt(u, I)
<1>. DEFINE n == Cardinality(I)
<1>1. PICK f : Enumerates(f, n, I)
  BY EnumerationExists
<1>. HIDE DEF n
<1>2. /\ SubSeqAt(s, I) = [k \in 1 .. n |-> s[f[k]]]
      /\ SubSeqAt(u, I) = [k \in 1 .. n |-> u[f[k]]]
  BY <1>1, SubSeqAtEnumerated
<1>3. \A k \in 1 .. n : f[k] \in I
  BY <1>1 DEF Enumerates
<1>. QED BY <1>2, <1>3

\* An enumeration goes on with a later position.
LEMMA EnumerationExtended ==
    ASSUME NEW I \in SUBSET Int, NEW f, NEW n, Enumerates(f, n, I),
           NEW m \in Int, \A i \in I : i < m,
           NEW g, g = [k \in 1 .. n + 1 |-> IF k = n + 1 THEN m ELSE f[k]]
    PROVE  Enumerates(g, n + 1, I \cup {m})
<1>1. /\ n \in Nat /\ f \in [1 .. n -> I]
      /\ \A j, k \in 1 .. n : j < k => f[j] < f[k]
      /\ \A i \in I : \E k \in 1 .. n : f[k] = i
  BY DEF Enumerates
<1>2. \A k \in 1 .. n + 1 : k \in 1 .. n \/ k = n + 1
  BY <1>1
<1>3. \A k \in 1 .. n : k \in 1 .. n + 1 /\ k # n + 1
  BY <1>1
<1>4. \A k \in 1 .. n : g[k] = f[k] /\ f[k] \in I /\ f[k] < m
  BY <1>1, <1>3
<1>5. n + 1 \in 1 .. n + 1 /\ n + 1 \in Nat
  BY <1>1
<1>6. g[n + 1] = m
  BY <1>5
<1>7. \A k \in 1 .. n + 1 : g[k] \in I \cup {m}
  BY <1>2, <1>4, <1>6
<1>8. g \in [1 .. n + 1 -> I \cup {m}]
  <2>1. g = [k \in 1 .. n + 1 |-> g[k]]
    OBVIOUS
  <2>. QED BY <1>7, <2>1
<1>9. ASSUME NEW j \in 1 .. n + 1, NEW k \in 1 .. n + 1, j < k
      PROVE  g[j] < g[k]
  <2>1. j \in 1 .. n
    BY <1>1, <1>9
  <2>2. CASE k \in 1 .. n
    BY <1>1, <1>4, <1>9, <2>1, <2>2
  <2>3. CASE k = n + 1
    BY <1>4, <1>6, <2>1, <2>3
  <2>. QED BY <1>2, <2>2, <2>3
<1>10. \A i \in I \cup {m} : \E k \in 1 .. n + 1 : g[k] = i
  <2>1. ASSUME NEW i \in I
        PROVE  \E k \in 1 .. n + 1 : g[k] = i
    <3>1. PICK k \in 1 .. n : f[k] = i
      BY <1>1
    <3>. QED BY <1>3, <1>4, <3>1
  <2>. QED BY <1>5, <1>6, <2>1
<1>. QED BY <1>5, <1>8, <1>9, <1>10 DEF Enumerates

\* The facts below speak of Append through Extends: the provers unfold an Append where
\* they see one, and then do not recognise it in the fact they are given.
Extends(u, s) ==
    Len(u) = Len(s) + 1 /\ \A i \in 1 .. Len(s) : u[i] = s[i]

\* Appending one element extends a sequence by it.
LEMMA AppendExtends ==
    ASSUME NEW S, NEW s \in Seq(S), NEW e \in S
    PROVE  /\ Append(s, e) \in Seq(S) /\ Extends(Append(s, e), s)
           /\ Len(Append(s, e)) = Len(s) + 1 /\ Append(s, e)[Len(s) + 1] = e
BY AppendProperties DEF Extends

\* A sequence extended by one element is that element appended to it.
LEMMA ExtendsAppends ==
    ASSUME NEW S, NEW s \in Seq(S), NEW u \in Seq(S), Extends(u, s)
    PROVE  u = Append(s, u[Len(u)])
<1>1. /\ Len(s) \in Nat /\ Len(u) = Len(s) + 1 /\ \A i \in 1 .. Len(s) : u[i] = s[i]
      /\ u = [i \in 1 .. Len(u) |-> u[i]]
  BY LenProperties DEF Extends
<1>. QED BY <1>1

\* An element that is not selected makes no difference.
LEMMA SubSeqAtSkips ==
    ASSUME NEW S, NEW s \in Seq(S), NEW I \in SUBSET (1 .. Len(s)), NEW u, Extends(u, s)
    PROVE  SubSeqAt(u, I) = SubSeqAt(s, I)
<1>1. Len(s) \in Nat
  BY LenProperties
<1>2. \A i \in I : i \in 1 .. Len(s)
  OBVIOUS
<1>3. IsFiniteSet(I)
  <2>1. IsFiniteSet(1 .. Len(s))
    BY <1>1, FS_Interval
  <2>. QED BY <2>1, FS_Subset
<1>4. \A i \in I : i \in Int /\ u[i] = s[i]
  BY <1>1, <1>2 DEF Extends
<1>5. I \in SUBSET Int
  BY <1>4
<1>. QED BY <1>3, <1>4, <1>5, SubSeqAtAgrees

\* An element that is selected comes last.
LEMMA SubSeqAtTakes ==
    ASSUME NEW S, NEW s \in Seq(S), NEW I \in SUBSET (1 .. Len(s)),
           NEW u \in Seq(S), Extends(u, s), NEW K, \A i : i \in K <=> i \in I \/ i = Len(u)
    PROVE  /\ SubSeqAt(u, K) \in Seq(S) /\ Extends(SubSeqAt(u, K), SubSeqAt(s, I))
           /\ SubSeqAt(u, K)[Len(SubSeqAt(u, K))] = u[Len(u)]
<1>. DEFINE t == SubSeqAt(s, I)
            n == Len(t)
            m == Len(s) + 1
            a == Append(t, u[m])
<1>1. /\ Len(s) \in Nat /\ Len(u) = m /\ m \in 1 .. Len(u) /\ u[m] \in S
      /\ \A i \in 1 .. Len(s) : u[i] = s[i]
  BY LenProperties, ElementOfSeq DEF Extends
<1>2. t \in Seq(S) /\ n \in Nat
  BY SubSeqAtElements
<1>3. PICK f : Enumerates(f, n, I) /\ \A k \in 1 .. n : t[k] = s[f[k]]
  BY SubSeqAtElements
<1>4. /\ I \in SUBSET Int /\ m \in Int /\ \A i \in I : i < m
      /\ \A i \in I : u[i] = s[i]
  <2>1. \A i \in I : i \in 1 .. Len(s)
    OBVIOUS
  <2>2. m \in Int /\ \A i \in I : i \in Int /\ i < m
    BY <1>1, <2>1
  <2>3. \A i \in I : u[i] = s[i]
    BY <1>1, <2>1
  <2>4. I \in SUBSET Int
    BY <2>2
  <2>. QED BY <2>2, <2>3, <2>4
<1>5. a \in Seq(S) /\ Len(a) = n + 1 /\ a[n + 1] = u[m] /\ \A k \in 1 .. n : a[k] = t[k]
  BY <1>1, <1>2, AppendProperties
<1>. HIDE DEF t, n, m, a
<1>. DEFINE g == [k \in 1 .. n + 1 |-> IF k = n + 1 THEN m ELSE f[k]]
<1>6. K = I \cup {m} /\ K \in SUBSET Int
  <2>1. K = I \cup {m}
    BY <1>1
  <2>. QED BY <1>4, <2>1
<1>7. Enumerates(g, n + 1, K)
  <2>. HIDE DEF g
  <2>1. g = [k \in 1 .. n + 1 |-> IF k = n + 1 THEN m ELSE f[k]]
    BY DEF g
  <2>2. Enumerates(g, n + 1, I \cup {m})
    BY <1>3, <1>4, <2>1, EnumerationExtended
  <2>. QED BY <1>6, <2>2
<1>8. \A k \in 1 .. n + 1 : a[k] = u[g[k]]
  <2>1. \A k \in 1 .. n : f[k] \in I
    BY <1>3 DEF Enumerates
  <2>2. \A k \in 1 .. n + 1 : (k \in 1 .. n /\ k # n + 1) \/ k = n + 1
    BY <1>2
  <2>3. ASSUME NEW k \in 1 .. n + 1, k \in 1 .. n, k # n + 1
        PROVE  a[k] = u[g[k]]
    <3>1. g[k] = f[k] /\ f[k] \in I
      BY <2>1, <2>3
    <3>. QED BY <1>3, <1>4, <1>5, <2>3, <3>1
  <2>4. ASSUME NEW k \in 1 .. n + 1, k = n + 1
        PROVE  a[k] = u[g[k]]
    BY <1>1, <1>5, <2>4
  <2>. QED BY <2>2, <2>3, <2>4
<1>. HIDE DEF g
<1>9. /\ a \in Seq(S) /\ Enumerates(g, Len(a), K)
      /\ \A k \in 1 .. Len(a) : a[k] = u[g[k]]
  BY <1>5, <1>7, <1>8
<1>10. SubSeqAt(u, K) = a
  BY <1>6, <1>9, SubSeqAtIs
<1>. QED BY <1>1, <1>5, <1>10 DEF Extends, n, t

\* J holds the positions of I at which s has an element of V.
Picks(J, I, s, V) ==
    J \subseteq I /\ \A i \in I : i \in J <=> s[i] \in V

\* Selecting twice is selecting once.
LEMMA SubSeqAtTwice ==
    ASSUME NEW S, NEW s \in Seq(S), NEW I \in SUBSET (1 .. Len(s)), NEW V,
           NEW J, Picks(J, 1 .. Len(SubSeqAt(s, I)), SubSeqAt(s, I), V), NEW K, Picks(K, I, s, V)
    PROVE  SubSeqAt(SubSeqAt(s, I), J) = SubSeqAt(s, K)
<1>. DEFINE t == SubSeqAt(s, I)
            n == Len(t)
            m == Cardinality(J)
<1>0. /\ J \subseteq 1 .. n /\ \A k \in 1 .. n : k \in J <=> t[k] \in V
      /\ K \subseteq I /\ \A i \in I : i \in K <=> s[i] \in V
  BY DEF Picks
<1>1. Len(s) \in Nat /\ n \in Nat
  BY LenProperties, SubSeqAtElements
<1>2. PICK f : Enumerates(f, n, I) /\ \A k \in 1 .. n : t[k] = s[f[k]]
  BY SubSeqAtElements
<1>. HIDE DEF t, n
<1>3. PICK g : Enumerates(g, m, J)
  <2>1. IsFiniteSet(1 .. n)
    BY <1>1, FS_Interval
  <2>2. J \in SUBSET (1 .. n) /\ J \in SUBSET Int
    BY <1>0, <1>1
  <2>3. IsFiniteSet(J)
    BY <2>1, <2>2, FS_Subset
  <2>. QED BY <2>2, <2>3, EnumerationExists
<1>. HIDE DEF m
<1>4. /\ f \in [1 .. n -> I] /\ \A j, k \in 1 .. n : j < k => f[j] < f[k]
      /\ \A i \in I : \E k \in 1 .. n : f[k] = i
  BY <1>2 DEF Enumerates
<1>5. /\ m \in Nat /\ g \in [1 .. m -> J] /\ \A j, k \in 1 .. m : j < k => g[j] < g[k]
      /\ \A i \in J : \E k \in 1 .. m : g[k] = i
  BY <1>3 DEF Enumerates
<1>. DEFINE h == [k \in 1 .. m |-> f[g[k]]]
<1>6. \A k \in 1 .. m : g[k] \in 1 .. n /\ h[k] = f[g[k]] /\ h[k] \in K /\ t[g[k]] = s[h[k]]
  BY <1>0, <1>2, <1>4, <1>5
<1>7. Enumerates(h, m, K)
  <2>1. h \in [1 .. m -> K]
    <3>1. h = [k \in 1 .. m |-> h[k]]
      OBVIOUS
    <3>. HIDE DEF h
    <3>. QED BY <1>6, <3>1
  <2>. HIDE DEF h
  <2>2. ASSUME NEW i \in K
        PROVE  \E k \in 1 .. m : h[k] = i
    <3>1. PICK j \in 1 .. n : f[j] = i
      BY <1>0, <1>4
    <3>2. j \in J
      BY <1>0, <1>2, <3>1
    <3>3. PICK k \in 1 .. m : g[k] = j
      BY <1>5, <3>2
    <3>. QED BY <1>6, <3>1, <3>3
  <2>3. \A j, k \in 1 .. m : j < k => h[j] < h[k]
    BY <1>4, <1>5, <1>6
  <2>. QED BY <1>5, <2>1, <2>2, <2>3 DEF Enumerates
<1>8. J \in SUBSET Int /\ K \in SUBSET Int
  <2>1. (1 .. n) \subseteq Int /\ I \subseteq Int
    BY <1>1
  <2>. QED BY <1>0, <2>1
<1>. HIDE DEF h
<1>9. /\ SubSeqAt(t, J) = [k \in 1 .. m |-> t[g[k]]]
      /\ SubSeqAt(s, K) = [k \in 1 .. m |-> s[h[k]]]
  <2>1. SubSeqAt(t, J) = [k \in 1 .. m |-> t[g[k]]]
    BY <1>3, <1>8, SubSeqAtEnumerated
  <2>2. SubSeqAt(s, K) = [k \in 1 .. m |-> s[h[k]]]
    BY <1>7, <1>8, SubSeqAtEnumerated
  <2>. QED BY <2>1, <2>2
<1>10. SubSeqAt(t, J) = SubSeqAt(s, K)
  BY <1>6, <1>9
<1>. QED BY <1>10 DEF t
=============================================================================
