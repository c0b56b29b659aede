--------------------------- MODULE BackendsProofs ---------------------------
(***************************************************************************)
(* Proofs about Backends: both stores do what LogStore promises, what is   *)
(* read does not depend on which one it is, and the list of entries has    *)
(* the newest ones that match.                                             *)
(***************************************************************************)
EXTENDS Backends, SequenceFacts

\* Memory has the entries in the order of their writes.
IdInv ==
    /\ \A i \in 1 .. Len(memory) : memory[i].id <= writes
    /\ \A i, j \in 1 .. Len(memory) : i < j => memory[i].id < memory[j].id

\* As long as every time could be expressed, SQLite has the same.
SameInv ==
    exact => rows = memory /\ \A i \in 1 .. Len(memory) : memory[i].ts \in MinNano .. MaxNano

Inv == TypeOK /\ IdInv /\ SameInv

-----------------------------------------------------------------------------
(* What the operators of Backends give.                                    *)

\* Every time becomes one that SQLite can express, and one that it can express stays.
LEMMA UnixNanoFacts ==
    ASSUME NEW t \in Int
    PROVE  /\ UnixNano(t) \in MinNano .. MaxNano
           /\ t \in MinNano .. MaxNano => UnixNano(t) = t
<1>. DEFINE w == MaxNano - MinNano + 1
<1>1. MinNano \in Int /\ MaxNano \in Int /\ w \in Nat \ {0} /\ t - MinNano \in Int
  BY BackendsAssumption
<1>. HIDE DEF w
<1>2. \A a \in Int, b \in Nat \ {0} : a % b \in 0 .. b - 1 /\ (a >= 0 /\ a < b => a % b = a)
  OBVIOUS
<1>3. (t - MinNano) % w \in 0 .. w - 1
  BY <1>1, <1>2
<1>4. UnixNano(t) = MinNano + ((t - MinNano) % w)
  BY DEF UnixNano, w
<1>5. UnixNano(t) \in MinNano .. MaxNano
  <2>. DEFINE r == (t - MinNano) % w
  <2>1. r \in 0 .. w - 1 /\ UnixNano(t) = MinNano + r
    BY <1>3, <1>4
  <2>. HIDE DEF r
  <2>. QED BY <1>1, <2>1 DEF w
<1>6. ASSUME t \in MinNano .. MaxNano
      PROVE  UnixNano(t) = t
  <2>1. t - MinNano >= 0 /\ t - MinNano < w
    BY <1>1, <1>6 DEF w
  <2>2. (t - MinNano) % w = t - MinNano
    BY <1>1, <1>2, <2>1
  <2>. QED BY <1>1, <1>4, <2>2
<1>. QED BY <1>5, <1>6

\* A Clear by times keeps a sequence of the same kind, no longer and in the same order.
LEMMA ClearedFacts ==
    ASSUME NEW S, NEW s \in Seq(S), NEW I \in SUBSET (1 .. Len(s)), NEW t, t = SubSeqAt(s, I)
    PROVE  /\ t \in Seq(S) /\ Len(t) \in Nat /\ Len(t) <= Len(s) /\ Len(s) \in Nat
           /\ Range(t) \subseteq Range(s)
           /\ \E f : /\ \A k \in 1 .. Len(t) : f[k] \in 1 .. Len(s) /\ t[k] = s[f[k]]
                     /\ \A j, k \in 1 .. Len(t) : j < k => f[j] < f[k]
<1>. HIDE DEF SubSeqAt
<1>1. Len(s) \in Nat /\ \A i \in I : i \in 1 .. Len(s)
  BY LenProperties
<1>2. /\ t \in Seq(S) /\ Len(t) \in Nat /\ Range(t) = {s[i] : i \in I}
      /\ \E f : Enumerates(f, Len(t), I) /\ \A k \in 1 .. Len(t) : t[k] = s[f[k]]
  BY SubSeqAtElements
<1>. DEFINE n == Len(t)
<1>. HIDE DEF n
<1>3. PICK f : Enumerates(f, n, I) /\ \A k \in 1 .. n : t[k] = s[f[k]]
  BY <1>2 DEF n
<1>4. /\ \A k \in 1 .. n : f[k] \in I
      /\ \A j, k \in 1 .. n : j < k => f[j] < f[k]
  BY <1>3 DEF Enumerates
<1>5. n <= Len(s)
  <2>1. I \in SUBSET Int
    BY <1>1
  <2>2. Cardinality(I) = n
    BY <1>3, <2>1, EnumerationCounts
  <2>3. IsFiniteSet(1 .. Len(s)) /\ Cardinality(1 .. Len(s)) = Len(s)
    <3>1. /\ IsFiniteSet(1 .. Len(s))
          /\ Cardinality(1 .. Len(s)) = IF 1 > Len(s) THEN 0 ELSE Len(s) - 1 + 1
      BY <1>1, FS_Interval
    <3>. QED BY <1>1, <3>1
  <2>. QED BY <2>2, <2>3, FS_Subset
<1>6. Range(t) \subseteq Range(s)
  <2>1. Range(s) = {s[i] : i \in 1 .. Len(s)}
    BY RangeEquality
  <2>. QED BY <1>1, <1>2, <2>1
<1>. QED BY <1>1, <1>2, <1>3, <1>4, <1>5, <1>6 DEF n

-----------------------------------------------------------------------------
(* The inductive invariant.                                                *)

\* Two empty stores that are the same.
LEMMA Initially == Init => Inv
  BY BackendsAssumption DEF Init, Inv, TypeOK, IdInv, SameInv

\* An entry that Write is called with, as each store keeps it.
LEMMA WriteFacts ==
    ASSUME NEW e \in EntryAt(Times)
    PROVE  /\ e.ts \in Int /\ e.id \in 1 .. MaxWrites
           /\ [e EXCEPT !.ts = UnixNano(@)] \in EntryAt(MinNano .. MaxNano)
           /\ e.ts \in MinNano .. MaxNano => [e EXCEPT !.ts = UnixNano(@)] = e
<1>1. e.ts \in Int /\ e.id \in 1 .. MaxWrites
  BY BackendsAssumption DEF EntryAt
<1>2. UnixNano(e.ts) \in MinNano .. MaxNano
  BY <1>1, UnixNanoFacts
<1>3. [e EXCEPT !.ts = UnixNano(@)] \in EntryAt(MinNano .. MaxNano)
  BY <1>2 DEF EntryAt
<1>4. e.ts \in MinNano .. MaxNano => [e EXCEPT !.ts = UnixNano(@)] = e
  BY <1>1, UnixNanoFacts DEF EntryAt
<1>. QED BY <1>1, <1>3, <1>4

\* A Write gives the next id to both stores; a time that does not fit ends their agreement.
LEMMA WriteStep ==
    ASSUME Inv, NEW e \in EntryAt(Times), writes < MaxWrites, e.id = writes + 1, Write(e)
    PROVE  Inv'
<1>. DEFINE r == [e EXCEPT !.ts = UnixNano(@)]
<1>1. /\ memory \in Seq(EntryAt(Times)) /\ rows \in Seq(EntryAt(MinNano .. MaxNano))
      /\ Len(memory) \in Nat /\ writes \in Nat /\ MaxWrites \in Nat /\ Len(memory) <= writes
      /\ exact \in BOOLEAN
  BY BackendsAssumption DEF Inv, TypeOK
<1>2. /\ e.id \in 1 .. MaxWrites /\ r \in EntryAt(MinNano .. MaxNano)
      /\ e.ts \in MinNano .. MaxNano => r = e
  BY WriteFacts
<1>3. /\ memory' = Append(memory, e) /\ rows' = Append(rows, r) /\ writes' = writes + 1
      /\ exact' = (exact /\ e.ts \in MinNano .. MaxNano)
  BY DEF Write
<1>. HIDE DEF r
<1>4. /\ memory' \in Seq(EntryAt(Times)) /\ Len(memory') = Len(memory) + 1
      /\ memory'[Len(memory) + 1] = e
      /\ \A i \in 1 .. Len(memory) : memory'[i] = memory[i]
  BY <1>1, <1>3, AppendProperties
<1>5. rows' \in Seq(EntryAt(MinNano .. MaxNano))
  BY <1>1, <1>2, <1>3, AppendProperties
<1>6. TypeOK'
  BY <1>1, <1>3, <1>4, <1>5 DEF TypeOK
<1>7. \A i \in 1 .. Len(memory') : i \in 1 .. Len(memory) \/ i = Len(memory) + 1
  BY <1>1, <1>4
<1>8. \A i \in 1 .. Len(memory) : memory[i].id \in Int
  <2>1. \A i \in 1 .. Len(memory) : memory[i] \in EntryAt(Times)
    BY <1>1, ElementOfSeq
  <2>. QED BY <2>1 DEF EntryAt
<1>9. IdInv'
  <2>1. \A i \in 1 .. Len(memory') : memory'[i].id <= writes'
    BY <1>1, <1>3, <1>4, <1>7, <1>8 DEF Inv, IdInv
  <2>2. ASSUME NEW i \in 1 .. Len(memory'), NEW j \in 1 .. Len(memory'), i < j
        PROVE  memory'[i].id < memory'[j].id
    <3>1. i \in 1 .. Len(memory) /\ memory[i].id <= writes
      BY <1>1, <1>4, <2>2 DEF Inv, IdInv
    <3>2. CASE j = Len(memory) + 1
      BY <1>1, <1>4, <1>8, <3>1, <3>2
    <3>3. CASE j \in 1 .. Len(memory)
      BY <1>4, <2>2, <3>1, <3>3 DEF Inv, IdInv
    <3>. QED BY <1>7, <3>2, <3>3
  <2>. QED BY <2>1, <2>2 DEF IdInv
<1>10. SameInv'
  <2>. SUFFICES ASSUME exact'
                PROVE  /\ rows' = memory'
                       /\ \A i \in 1 .. Len(memory') : memory'[i].ts \in MinNano .. MaxNano
    BY DEF SameInv
  <2>1. exact /\ e.ts \in MinNano .. MaxNano
    BY <1>3
  <2>2. rows = memory /\ \A i \in 1 .. Len(memory) : memory[i].ts \in MinNano .. MaxNano
    BY <2>1 DEF Inv, SameInv
  <2>. QED BY <1>2, <1>3, <1>4, <1>7, <2>1, <2>2
<1>. QED BY <1>6, <1>9, <1>10 DEF Inv

\* A Clear selects entries from both stores, the same ones as long as the times fit.
LEMMA ClearStep ==
    ASSUME Inv, NEW before \in CutOffs, Clear(before)
    PROVE  Inv'
<1>. DEFINE I == {i \in DOMAIN memory : memory[i].ts >= before}
            J == {i \in DOMAIN rows : rows[i].ts >= UnixNano(before)}
<1>0. exact' = (exact /\ before \in MinNano .. MaxNano)
  BY DEF Clear
<1>1. /\ memory \in Seq(EntryAt(Times)) /\ rows \in Seq(EntryAt(MinNano .. MaxNano))
      /\ Len(memory) \in Nat /\ writes \in Nat /\ MaxWrites \in Nat /\ Len(memory) <= writes
  BY BackendsAssumption DEF Inv, TypeOK
<1>2. before \in MinNano .. MaxNano => UnixNano(before) = before
  BY BackendsAssumption, UnixNanoFacts
<1>3. memory' = SubSeqAt(memory, I) /\ rows' = SubSeqAt(rows, J) /\ writes' = writes
  BY DEF Clear
<1>4. I \in SUBSET (1 .. Len(memory)) /\ J \in SUBSET (1 .. Len(rows))
  BY <1>1
<1>5. before \in MinNano .. MaxNano /\ rows = memory => J = I
  BY <1>2
<1>. HIDE DEF I, J
<1>6. /\ memory' \in Seq(EntryAt(Times)) /\ Len(memory') \in Nat /\ Len(memory') <= Len(memory)
      /\ \E f : /\ \A k \in 1 .. Len(memory') : f[k] \in 1 .. Len(memory)
                                              /\ memory'[k] = memory[f[k]]
                /\ \A j, k \in 1 .. Len(memory') : j < k => f[j] < f[k]
  BY <1>1, <1>3, <1>4, ClearedFacts
<1>7. rows' \in Seq(EntryAt(MinNano .. MaxNano))
  BY <1>1, <1>3, <1>4, ClearedFacts
<1>8. TypeOK'
  BY <1>0, <1>1, <1>3, <1>6, <1>7 DEF Inv, TypeOK
<1>9. PICK f : /\ \A k \in 1 .. Len(memory') : f[k] \in 1 .. Len(memory)
                                             /\ memory'[k] = memory[f[k]]
               /\ \A j, k \in 1 .. Len(memory') : j < k => f[j] < f[k]
  BY <1>6
<1>10. IdInv'
  BY <1>3, <1>9 DEF Inv, IdInv
<1>11. SameInv'
  BY <1>0, <1>3, <1>5, <1>9 DEF Inv, SameInv
<1>. QED BY <1>8, <1>10, <1>11 DEF Inv

\* The inductive invariant: types, the order of the ids, and that both stores are the same
\* while every time could be expressed.
THEOREM Invariance == Spec => []Inv
<1>1. Inv /\ [Next]_vars => Inv'
  <2>1. ASSUME Inv, UNCHANGED vars PROVE Inv'
    BY <2>1 DEF Inv, TypeOK, IdInv, SameInv, vars
  <2>. QED BY <2>1, WriteStep, ClearStep DEF Next
<1>. QED BY <1>1, Initially, PTL DEF Spec

\* Types, among them that SQLite's times are ones it can express.
THEOREM TypeCorrect == Spec => []TypeOK
<1>1. Inv => TypeOK
  BY DEF Inv
<1>. QED BY <1>1, Invariance, PTL

-----------------------------------------------------------------------------
(* Both stores implement LogStore.                                         *)

\* The operators that the instances have of their own are the same.
LEMMA InstanceOperators ==
    /\ \A s, I : MemoryStore!SubSeqAt(s, I) = SubSeqAt(s, I)
    /\ \A s, I : SQLiteStore!SubSeqAt(s, I) = SubSeqAt(s, I)
    /\ \A s : MemoryStore!Range(s) = Range(s) /\ SQLiteStore!Range(s) = Range(s)
<1>1. \A s, I : MemoryStore!SubSeqAt(s, I) = SubSeqAt(s, I)
  BY Zenon DEF SubSeqAt, MemoryStore!SubSeqAt, Cardinality, MemoryStore!Cardinality
<1>2. \A s, I : SQLiteStore!SubSeqAt(s, I) = SubSeqAt(s, I)
  BY Zenon DEF SubSeqAt, SQLiteStore!SubSeqAt, Cardinality, SQLiteStore!Cardinality
<1>3. \A s : MemoryStore!Range(s) = Range(s) /\ SQLiteStore!Range(s) = Range(s)
  BY Zenon DEF Range, MemoryStore!Range, SQLiteStore!Range
<1>. QED BY <1>1, <1>2, <1>3

\* A Write is LogStore's Write in both stores, in SQLite's if it can express the time.
LEMMA RefinementWrite ==
    ASSUME Inv, NEW e \in EntryAt(Times), Write(e)
    PROVE  MemoryStore!Next /\ (exact' => SQLiteStore!Next)
<1>. DEFINE r == [e EXCEPT !.ts = UnixNano(@)]
<1>1. /\ memory \in Seq(EntryAt(Times)) /\ rows \in Seq(EntryAt(MinNano .. MaxNano))
      /\ r \in EntryAt(MinNano .. MaxNano)
  BY WriteFacts DEF Inv, TypeOK
<1>2. memory' = Append(memory, e) /\ rows' = Append(rows, r)
  BY DEF Write
<1>. HIDE DEF r
<1>3. Range(Append(memory, e)) = Range(memory) \cup {e}
  BY <1>1, RangeAppend
<1>4. Range(Append(rows, r)) = Range(rows) \cup {r}
  BY <1>1, RangeAppend
<1>5. Range(memory') = Range(memory) \cup {e} /\ Range(rows') = Range(rows) \cup {r}
  BY <1>2, <1>3, <1>4, Zenon
<1>6. MemoryStore!Write(e)
  BY <1>2, <1>5 DEF MemoryStore!Write
<1>7. SQLiteStore!Write(r)
  BY <1>2, <1>5 DEF SQLiteStore!Write
<1>8. exact' => r = e
  <2>1. e.ts \in Int /\ (exact' => e.ts \in MinNano .. MaxNano)
    BY BackendsAssumption DEF EntryAt, Write
  <2>2. exact' => UnixNano(e.ts) = e.ts
    BY <2>1, UnixNanoFacts
  <2>. QED BY <2>2 DEF EntryAt, r
<1>. QED BY <1>6, <1>7, <1>8 DEF MemoryStore!Next, SQLiteStore!Next

\* A Clear is LogStore's Clear in both stores, in SQLite's if it can express the cut-off.
LEMMA RefinementClear ==
    ASSUME Inv, NEW before \in CutOffs, Clear(before)
    PROVE  MemoryStore!Next /\ (exact' => SQLiteStore!Next)
<1>. DEFINE I == {i \in DOMAIN memory : memory[i].ts >= before}
            J == {i \in DOMAIN rows : rows[i].ts >= before}
            K == {i \in DOMAIN rows : rows[i].ts >= UnixNano(before)}
<1>1. memory \in Seq(EntryAt(Times)) /\ rows \in Seq(EntryAt(MinNano .. MaxNano))
  BY DEF Inv, TypeOK
<1>2. exact' => UnixNano(before) = before
  BY BackendsAssumption, UnixNanoFacts DEF Clear
<1>3. /\ memory' = SubSeqAt(memory, I) /\ rows' = SubSeqAt(rows, K) /\ (exact' => K = J)
  BY <1>2 DEF Clear
<1>4. I \in SUBSET (1 .. Len(memory)) /\ K \in SUBSET (1 .. Len(rows))
  BY <1>1
<1>5. /\ memory' = MemoryStore!SubSeqAt(memory, I)
      /\ exact' => rows' = SQLiteStore!SubSeqAt(rows, J)
  BY <1>3, InstanceOperators
<1>6. Range(memory') = Range(memory) \cap Range(memory')
  <2>. HIDE DEF I
  <2>1. Range(memory') \subseteq Range(memory)
    BY <1>1, <1>3, <1>4, ClearedFacts
  <2>. QED BY <2>1
<1>7. Range(rows') = Range(rows) \cap Range(rows')
  <2>. HIDE DEF K
  <2>1. Range(rows') \subseteq Range(rows)
    BY <1>1, <1>3, <1>4, ClearedFacts
  <2>. QED BY <2>1
<1>8. MemoryStore!Clear(before)
  BY <1>5, <1>6, InstanceOperators DEF MemoryStore!Clear
<1>9. exact' => SQLiteStore!Clear(before)
  BY <1>5, <1>7, InstanceOperators DEF SQLiteStore!Clear
<1>. QED BY <1>8, <1>9 DEF MemoryStore!Next, SQLiteStore!Next

\* Every call does to the memory store what LogStore allows, whatever the times in it: entries
\* in the order of their writes, until a Clear removes exactly those before its cut-off.  To
\* the SQLite store it does the same until a time is one that SQLite cannot express.
THEOREM Refinement == Spec => StoresImplementLogStore
<1>1. Init => MemoryStore!Init /\ SQLiteStore!Init
  <2>1. Range(<<>>) = {}
    BY DEF Range
  <2>. QED BY <2>1 DEF Init, MemoryStore!Init, SQLiteStore!Init
<1>2. Inv /\ [Next]_vars =>
          /\ [MemoryStore!Next]_(MemoryStore!vars)
          /\ [exact' => SQLiteStore!Next]_(SQLiteStore!vars)
  <2>1. ASSUME UNCHANGED vars
        PROVE  UNCHANGED MemoryStore!vars /\ UNCHANGED SQLiteStore!vars
    BY <2>1 DEF vars, MemoryStore!vars, SQLiteStore!vars
  <2>. QED BY <2>1, RefinementWrite, RefinementClear DEF Next
<1>. QED BY <1>1, <1>2, Invariance, PTL
     DEF Spec, StoresImplementLogStore, MemoryStore!Spec

-----------------------------------------------------------------------------
(* Both stores read the same.                                              *)

\* What a permutation of s gives.
Permutes(t, s, p) ==
    /\ p \in [1 .. Len(s) -> 1 .. Len(s)]
    /\ \A i, j \in 1 .. Len(s) : p[i] = p[j] => i = j
    /\ \A k \in 1 .. Len(s) : \E i \in 1 .. Len(s) : p[i] = k
    /\ Len(t) = Len(s) /\ \A i \in 1 .. Len(s) : t[i] = s[p[i]]

\* Rows ordered by timestamp are a permutation of the rows, with ascending timestamps.
LEMMA OrderByTsFacts ==
    ASSUME NEW S, NEW s \in Seq(S), NEW t \in OrderByTs(s)
    PROVE  /\ t \in Seq(S) /\ \E p : Permutes(t, s, p)
           /\ \A i, j \in 1 .. Len(s) : i < j => t[i].ts <= t[j].ts
<1>1. Len(s) \in Nat /\ DOMAIN s = 1 .. Len(s) /\ \A i \in 1 .. Len(s) : s[i] \in S
  BY LenProperties, ElementOfSeq
<1>2. PICK p \in Bijection(DOMAIN s, DOMAIN s) :
          /\ t = [i \in DOMAIN s |-> s[p[i]]]
          /\ \A i, j \in DOMAIN s : i < j => t[i].ts <= t[j].ts
  BY Zenon DEF OrderByTs, Sorted
<1>3. /\ p \in [1 .. Len(s) -> 1 .. Len(s)]
      /\ \A i, j \in 1 .. Len(s) : p[i] = p[j] => i = j
      /\ \A k \in 1 .. Len(s) : \E i \in 1 .. Len(s) : p[i] = k
  BY <1>1, <1>2 DEF Bijection, Injection, Surjection, IsInjective
<1>4. t = [i \in 1 .. Len(s) |-> s[p[i]]] /\ \A i \in 1 .. Len(s) : s[p[i]] \in S
  BY <1>1, <1>2, <1>3
<1>5. t \in Seq(S) /\ Len(t) = Len(s) /\ \A i \in 1 .. Len(s) : t[i] = s[p[i]]
  BY <1>1, <1>4
<1>. QED BY <1>1, <1>2, <1>3, <1>5 DEF Permutes

\* The elements of a kind are the same, and as many, in whatever order.
LEMMA PermutedSelection ==
    ASSUME NEW S, NEW s \in Seq(S), NEW t \in Seq(S), NEW p, Permutes(t, s, p),
           NEW V, NEW J, Picks(J, 1 .. Len(t), t, V), NEW K, Picks(K, 1 .. Len(s), s, V)
    PROVE  /\ Len(SubSeqAt(t, J)) = Len(SubSeqAt(s, K))
           /\ Range(SubSeqAt(t, J)) = Range(SubSeqAt(s, K))
<1>. DEFINE n == Len(s)
<1>1. /\ n \in Nat /\ Len(t) = n /\ p \in [1 .. n -> 1 .. n]
      /\ \A i, j \in 1 .. n : p[i] = p[j] => i = j
      /\ \A k \in 1 .. n : \E i \in 1 .. n : p[i] = k
      /\ \A i \in 1 .. n : t[i] = s[p[i]]
  BY LenProperties DEF Permutes
<1>2. /\ J \in SUBSET (1 .. Len(t)) /\ K \in SUBSET (1 .. Len(s))
      /\ J \subseteq 1 .. n /\ K \subseteq 1 .. n
      /\ \A i \in 1 .. n : i \in J <=> t[i] \in V
      /\ \A i \in 1 .. n : i \in K <=> s[i] \in V
  BY <1>1 DEF Picks
<1>3. \A i \in 1 .. n : i \in J <=> p[i] \in K
  <2>. HIDE DEF n
  <2>. SUFFICES ASSUME NEW i \in 1 .. n PROVE i \in J <=> p[i] \in K
    OBVIOUS
  <2>1. p[i] \in 1 .. n /\ t[i] = s[p[i]]
    BY <1>1
  <2>2. (i \in J <=> t[i] \in V) /\ (p[i] \in K <=> s[p[i]] \in V)
    BY <1>2, <2>1
  <2>. QED BY <2>1, <2>2
<1>4. /\ Range(SubSeqAt(t, J)) = {t[j] : j \in J} /\ Len(SubSeqAt(t, J)) = Cardinality(J)
      /\ IsFiniteSet(J)
  <2>1. J \in SUBSET (1 .. Len(t))
    BY <1>2
  <2>. QED BY <2>1, SubSeqAtCounts
<1>5. /\ Range(SubSeqAt(s, K)) = {s[k] : k \in K} /\ Len(SubSeqAt(s, K)) = Cardinality(K)
  <2>1. K \in SUBSET (1 .. Len(s))
    BY <1>2
  <2>. QED BY <2>1, SubSeqAtCounts
<1>. HIDE DEF n
<1>6. Cardinality(J) = Cardinality(K)
  <2>. DEFINE q == [j \in J |-> p[j]]
  <2>1. q \in [J -> K] /\ \A j \in J : q[j] = p[j]
    BY <1>2, <1>3
  <2>. HIDE DEF q
  <2>2. \A i, j \in J : q[i] = q[j] => i = j
    BY <1>1, <1>2, <2>1
  <2>3. \A k \in K : \E j \in J : q[j] = k
    <3>. SUFFICES ASSUME NEW k \in K PROVE \E j \in J : q[j] = k
      OBVIOUS
    <3>1. PICK i \in 1 .. n : p[i] = k
      BY <1>1, <1>2
    <3>. QED BY <1>3, <2>1, <3>1
  <2>4. q \in Bijection(J, K)
    BY <2>1, <2>2, <2>3, Fun_IsBij
  <2>5. ExistsBijection(J, K)
    BY <2>4 DEF ExistsBijection
  <2>. QED BY <1>4, <2>5, FS_Bijection
<1>7. {t[j] : j \in J} = {s[k] : k \in K}
  <2>1. ASSUME NEW j \in J
        PROVE  p[j] \in K /\ t[j] = s[p[j]]
    BY <1>1, <1>2, <1>3
  <2>2. ASSUME NEW k \in K
        PROVE  \E j \in J : t[j] = s[k]
    <3>1. PICK i \in 1 .. n : p[i] = k
      BY <1>1, <1>2
    <3>. QED BY <1>1, <1>3, <3>1
  <2>. QED BY <2>1, <2>2
<1>. QED BY <1>4, <1>5, <1>6, <1>7

\* What is in order already is not put in another one.
LEMMA OrderedStays ==
    ASSUME NEW S, NEW s \in Seq(S), NEW t \in Seq(S), NEW p, Permutes(t, s, p),
           \A i \in 1 .. Len(s) : s[i].ts \in Int,
           \A i, j \in 1 .. Len(s) : i < j => t[i].ts <= t[j].ts,
           \A i, j \in 1 .. Len(s) : i < j => s[i].ts < s[j].ts
    PROVE  t = s
<1>. DEFINE n == Len(s)
            I == 1 .. n
            id == [i \in I |-> i]
<1>1. /\ n \in Nat /\ Len(t) = n /\ p \in [I -> I]
      /\ \A i, j \in I : p[i] = p[j] => i = j
      /\ \A k \in I : \E i \in I : p[i] = k
      /\ \A i \in I : t[i] = s[p[i]]
  BY LenProperties DEF Permutes
<1>2. /\ \A i \in I : s[i].ts \in Int
      /\ \A i, j \in I : i < j => t[i].ts <= t[j].ts
      /\ \A i, j \in I : i < j => s[i].ts < s[j].ts
      /\ \A i \in I : i \in Int
  BY <1>1
<1>. HIDE DEF n
<1>3. ASSUME NEW i \in I, NEW j \in I, i < j
      PROVE  p[i] < p[j]
  <2>1. p[i] \in I /\ p[j] \in I /\ p[i] \in Int /\ p[j] \in Int /\ p[i] # p[j]
    BY <1>1, <1>2, <1>3
  <2>2. s[p[i]].ts <= s[p[j]].ts
    <3>1. t[i].ts <= t[j].ts /\ t[i] = s[p[i]] /\ t[j] = s[p[j]]
      BY <1>1, <1>2, <1>3
    <3>. QED BY <3>1
  <2>3. ~(p[j] < p[i])
    BY <1>2, <2>1, <2>2
  <2>. QED BY <2>1, <2>3
<1>4. Enumerates(p, n, I)
  BY <1>1, <1>3 DEF Enumerates
<1>5. Enumerates(id, n, I)
  BY <1>1, <1>2 DEF Enumerates
<1>6. I \in SUBSET Int /\ \A k \in I : id[k] = k
  BY <1>1
<1>. HIDE DEF I, id
<1>7. SubSeqAt(s, I) = [k \in 1 .. n |-> s[p[k]]]
  BY <1>4, <1>6, SubSeqAtEnumerated
<1>8. SubSeqAt(s, I) = [k \in 1 .. n |-> s[id[k]]]
  BY <1>5, <1>6, SubSeqAtEnumerated
<1>9. \A k \in 1 .. n : s[p[k]] = s[k]
  <2>1. \A k \in 1 .. n : s[id[k]] = s[k]
    BY <1>6 DEF I
  <2>. QED BY <1>7, <1>8, <2>1
<1>10. \A k \in 1 .. Len(t) : t[k] = s[k]
  BY <1>1, <1>9 DEF I
<1>. QED BY <1>1, <1>10, SeqEqual DEF n

\* The entries that Read returns.
Passing(minLevel, f) ==
    {e \in EntryAt(Times) : LevelAtLeast(e.level, minLevel) /\ Matches(f, e)}

Positions(s, minLevel, f) ==
    {i \in DOMAIN s : LevelAtLeast(s[i].level, minLevel) /\ Matches(f, s[i])}

\* What Read selects is what is at the positions of the entries that pass its tests.
LEMMA SelectedFacts ==
    ASSUME NEW s \in Seq(EntryAt(Times)), NEW minLevel, NEW f
    PROVE  /\ Selected(s, minLevel, f) = SubSeqAt(s, Positions(s, minLevel, f))
           /\ Picks(Positions(s, minLevel, f), 1 .. Len(s), s, Passing(minLevel, f))
<1>1. DOMAIN s = 1 .. Len(s) /\ \A i \in 1 .. Len(s) : s[i] \in EntryAt(Times)
  BY LenProperties, ElementOfSeq
<1>2. Picks(Positions(s, minLevel, f), 1 .. Len(s), s, Passing(minLevel, f))
  BY <1>1 DEF Picks, Positions, Passing
<1>3. Selected(s, minLevel, f) = SubSeqAt(s, Positions(s, minLevel, f))
  BY DEF Selected, Positions
<1>. QED BY <1>2, <1>3

\* If SQLite can express every time it was given, the two stores return the same entries, and
\* in the same order if they arrived in the order of their timestamps.
THEOREM Agreement == Spec => []ReadsAgree
<1>1. ASSUME Inv PROVE ReadsAgree
  <2>. SUFFICES ASSUME exact, NEW min \in Levels, NEW f \in LogFilter,
                       NEW out \in SQLiteReads(min, f)
                PROVE  /\ Len(out) = Len(MemoryRead(min, f))
                       /\ Range(out) = Range(MemoryRead(min, f))
                       /\ (\A i, j \in DOMAIN memory : i < j => memory[i].ts < memory[j].ts)
                            => out = MemoryRead(min, f)
    BY DEF ReadsAgree
  <2>1. /\ memory \in Seq(EntryAt(Times)) /\ rows = memory /\ DOMAIN memory = 1 .. Len(memory)
        /\ \A i \in 1 .. Len(memory) : memory[i].ts \in Int
    <3>1. memory \in Seq(EntryAt(Times)) /\ rows = memory /\ DOMAIN memory = 1 .. Len(memory)
      BY <1>1 DEF Inv, TypeOK, SameInv
    <3>2. \A i \in 1 .. Len(memory) : memory[i] \in EntryAt(Times)
      BY <3>1, ElementOfSeq
    <3>3. \A e \in EntryAt(Times) : e.ts \in Int
      BY BackendsAssumption DEF EntryAt
    <3>. QED BY <3>1, <3>2, <3>3
  <2>2. PICK t \in OrderByTs(memory) : out = Selected(t, min, f)
    BY <2>1 DEF SQLiteReads
  <2>3. /\ t \in Seq(EntryAt(Times)) /\ \E p : Permutes(t, memory, p)
        /\ \A i, j \in 1 .. Len(memory) : i < j => t[i].ts <= t[j].ts
    BY <2>1, OrderByTsFacts
  <2>4. PICK p : Permutes(t, memory, p)
    BY <2>3
  <2>5. /\ out = SubSeqAt(t, Positions(t, min, f))
        /\ Picks(Positions(t, min, f), 1 .. Len(t), t, Passing(min, f))
    BY <2>2, <2>3, SelectedFacts
  <2>6. /\ MemoryRead(min, f) = SubSeqAt(memory, Positions(memory, min, f))
        /\ Picks(Positions(memory, min, f), 1 .. Len(memory), memory, Passing(min, f))
    BY <2>1, SelectedFacts DEF MemoryRead
  <2>7. /\ Len(SubSeqAt(t, Positions(t, min, f)))
              = Len(SubSeqAt(memory, Positions(memory, min, f)))
        /\ Range(SubSeqAt(t, Positions(t, min, f)))
              = Range(SubSeqAt(memory, Positions(memory, min, f)))
    BY <2>1, <2>3, <2>4, <2>5, <2>6, PermutedSelection
  <2>8. ASSUME \A i, j \in DOMAIN memory : i < j => memory[i].ts < memory[j].ts
        PROVE  out = MemoryRead(min, f)
    <3>1. \A i, j \in 1 .. Len(memory) : i < j => memory[i].ts < memory[j].ts
      BY <2>1, <2>8
    <3>2. t = memory
      BY <2>1, <2>3, <2>4, <3>1, OrderedStays
    <3>. QED BY <2>2, <3>2 DEF MemoryRead
  <2>. QED BY <2>5, <2>6, <2>7, <2>8
<1>. QED BY <1>1, Invariance, PTL

-----------------------------------------------------------------------------
(* The list of entries.                                                    *)

\* The maximum of a set of two numbers.
LEMMA MaxOfTwo ==
    ASSUME NEW a \in Int, NEW b \in Int
    PROVE  Max({a, b}) = IF a >= b THEN a ELSE b
<1>1. ASSUME NEW m \in {a, b}, \A y \in {a, b} : m >= y
      PROVE  m = IF a >= b THEN a ELSE b
  BY <1>1
<1>2. \E m \in {a, b} : \A y \in {a, b} : m >= y
  <2>1. CASE a >= b
    BY <2>1
  <2>2. CASE ~(a >= b)
    BY <2>2
  <2>. QED BY <2>1, <2>2
<1>. QED BY <1>1, <1>2 DEF Max

\* What is left of the end of a selection: the selected elements that fewer than maxEntries
\* other ones follow.
LEMMA RecentSelection ==
    ASSUME NEW S, NEW s \in Seq(S), NEW I \in SUBSET (1 .. Len(s)),
           \A i, j \in 1 .. Len(s) : s[i] = s[j] => i = j,
           NEW i \in 1 .. Len(s)
    PROVE  s[i] \in Range(Recent(SubSeqAt(s, I)))
             <=> i \in I /\ Cardinality({j \in I : j > i}) < maxEntries
<1>. DEFINE t == SubSeqAt(s, I)
            n == Len(t)
<1>1. t \in Seq(S) /\ n \in Nat
  BY SubSeqAtElements
<1>2. PICK f : Enumerates(f, n, I) /\ \A k \in 1 .. n : t[k] = s[f[k]]
  BY SubSeqAtElements
<1>3. I \in SUBSET Int /\ maxEntries \in Nat \ {0} /\ Len(s) \in Nat
  BY LenProperties, BackendsAssumption
<1>. HIDE DEF t, n
<1>. DEFINE a == Max({1, n - maxEntries + 1})
            r == SubSeq(t, a, n)
<1>4. a = IF 1 >= n - maxEntries + 1 THEN 1 ELSE n - maxEntries + 1
  BY <1>1, <1>3, MaxOfTwo
<1>5. a \in Nat \ {0} /\ \A k \in 1 .. n : k >= a <=> n - k < maxEntries
  <2>. HIDE DEF a
  <2>. QED BY <1>1, <1>3, <1>4
<1>. HIDE DEF a
<1>6. Range(r) = {t[k] : k \in a .. n}
  <2>1. \A k \in a .. n : k \in 1 .. n
    BY <1>1, <1>5
  <2>2. \A k \in a .. n : t[k] \in S
    BY <1>1, <2>1, ElementOfSeq DEF n
  <2>3. /\ r \in Seq(S) /\ Len(r) = IF a <= n THEN n - a + 1 ELSE 0
        /\ \A k \in 1 .. n - a + 1 : r[k] = t[a + k - 1]
    BY <1>1, <1>5, <2>2, SubSeqProperties
  <2>. HIDE DEF r
  <2>4. Range(r) = {r[k] : k \in 1 .. Len(r)}
    BY <2>3, RangeEquality
  <2>5. ASSUME NEW k \in 1 .. Len(r)
        PROVE  a + k - 1 \in a .. n /\ r[k] = t[a + k - 1]
    BY <1>1, <1>5, <2>3
  <2>6. ASSUME NEW k \in a .. n
        PROVE  k - a + 1 \in 1 .. Len(r) /\ r[k - a + 1] = t[k]
    <3>1. k - a + 1 \in 1 .. Len(r) /\ k - a + 1 \in 1 .. n - a + 1 /\ a + (k - a + 1) - 1 = k
      BY <1>1, <1>5, <2>3
    <3>. QED BY <2>3, <3>1
  <2>7. Range(r) \subseteq {t[k] : k \in a .. n}
    <3>. SUFFICES ASSUME NEW x \in Range(r) PROVE \E k \in a .. n : x = t[k]
      OBVIOUS
    <3>1. PICK k \in 1 .. Len(r) : x = r[k]
      BY <2>4
    <3>. QED BY <2>5, <3>1
  <2>8. {t[k] : k \in a .. n} \subseteq Range(r)
    <3>. SUFFICES ASSUME NEW k \in a .. n PROVE \E m \in 1 .. Len(r) : t[k] = r[m]
      BY <2>4
    <3>. QED BY <2>6
  <2>. QED BY <2>7, <2>8
<1>. HIDE DEF r
<1>7. /\ f \in [1 .. n -> I]
      /\ \A j, k \in 1 .. n : j < k => f[j] < f[k]
      /\ \A j \in I : \E k \in 1 .. n : f[k] = j
  BY <1>2 DEF Enumerates
<1>8. /\ IsFiniteSet(I) /\ Cardinality(I) = n
      /\ \A k \in 1 .. n : Cardinality({j \in I : j <= f[k]}) = k
  BY <1>2, <1>3, EnumerationCounts
<1>9. ASSUME NEW k \in 1 .. n, f[k] = i
      PROVE  /\ s[i] \in Range(r) <=> k >= a
             /\ Cardinality({j \in I : j > i}) = n - k
  <2>1. \A m \in 1 .. n : t[m] = s[i] <=> m = k
    <3>. SUFFICES ASSUME NEW m \in 1 .. n PROVE t[m] = s[i] <=> m = k
      OBVIOUS
    <3>1. t[m] = s[f[m]] /\ f[m] \in I /\ f[m] \in 1 .. Len(s) /\ f[m] \in Int /\ i \in Int
      <4>1. t[m] = s[f[m]] /\ f[m] \in I
        BY <1>2, <1>7
      <4>2. \A j \in I : j \in 1 .. Len(s) /\ j \in Int
        BY <1>3
      <4>3. i \in Int
        BY <1>3
      <4>4. f[m] \in 1 .. Len(s) /\ f[m] \in Int
        BY <4>1, <4>2
      <4>. QED BY <4>1, <4>3, <4>4
    <3>2. t[m] = s[i] <=> f[m] = i
      BY <3>1
    <3>3. f[m] = f[k] <=> m = k
      <4>1. CASE m < k
        BY <1>7, <1>9, <3>1, <4>1
      <4>2. CASE k < m
        BY <1>7, <1>9, <3>1, <4>2
      <4>3. CASE m = k
        BY <4>3
      <4>. QED BY <1>1, <4>1, <4>2, <4>3
    <3>. QED BY <1>9, <3>2, <3>3
  <2>2. s[i] \in Range(r) <=> k >= a
    <3>1. \A m \in a .. n : m \in 1 .. n
      BY <1>1, <1>5
    <3>2. k \in a .. n <=> k >= a
      BY <1>1, <1>5
    <3>. QED BY <1>6, <2>1, <3>1, <3>2
  <2>3. Cardinality({j \in I : j > i}) = n - k
    <3>. DEFINE B == {j \in I : j <= i}
    <3>1. I \cap B = B /\ {j \in I : j > i} = I \ B
      <4>1. i \in Int /\ \A j \in I : j \in Int
        BY <1>3
      <4>2. \A j \in I : j > i <=> ~(j <= i)
        BY <4>1
      <4>. QED BY <4>2
    <3>2. Cardinality(B) = k
      BY <1>8, <1>9
    <3>. HIDE DEF B
    <3>3. Cardinality(I \ B) = Cardinality(I) - Cardinality(I \cap B)
      BY <1>8, FS_Difference
    <3>. QED BY <1>8, <3>1, <3>2, <3>3
  <2>. QED BY <2>2, <2>3
<1>10. CASE i \in I
  <2>1. PICK k \in 1 .. n : f[k] = i
    BY <1>7, <1>10
  <2>2. /\ s[i] \in Range(r) <=> k >= a
        /\ Cardinality({j \in I : j > i}) = n - k
    BY <1>9, <2>1
  <2>. QED BY <1>5, <1>10, <2>2 DEF Recent, r, a, n, t
<1>11. CASE i \notin I
  <2>1. \A k \in a .. n : k \in 1 .. n
    BY <1>1, <1>5
  <2>2. \A k \in 1 .. n : f[k] \in I /\ f[k] \in 1 .. Len(s) /\ t[k] = s[f[k]]
    BY <1>2, <1>7
  <2>3. \A k \in 1 .. n : t[k] # s[i]
    BY <1>11, <2>2
  <2>4. s[i] \notin Range(r)
    BY <1>6, <2>1, <2>3
  <2>. QED BY <1>11, <2>4 DEF Recent, r, a, n, t
<1>. QED BY <1>10, <1>11

\* GET /entries lists an entry that matches the request if and only if fewer than maxEntries
\* later ones match it: the source is selected before the list is cut.
THEOREM Listing == Spec => []ListsNewestMatching
<1>1. ASSUME Inv PROVE ListsNewestMatching
  <2>. SUFFICES ASSUME NEW min \in Levels, NEW text \in Texts \cup {NoText},
                       NEW source \in Sources \cup {NoSource}
                PROVE  LET f == [Since |-> ZeroTime, Until |-> ZeroTime, Contains |-> text]
                           listed == ListEntries(MemoryRead(min, f), source)
                           Asked(e) == /\ LevelAtLeast(e.level, min) /\ Matches(f, e)
                                       /\ source \in {NoSource, e.source}
                       IN  \A i \in DOMAIN memory :
                             memory[i] \in Range(listed) <=>
                               /\ Asked(memory[i])
                               /\ Cardinality({j \in DOMAIN memory :
                                                 j > i /\ Asked(memory[j])}) < maxEntries
    BY Zenon DEF ListsNewestMatching
  <2>. DEFINE f == [Since |-> ZeroTime, Until |-> ZeroTime, Contains |-> text]
              Asked(e) == /\ LevelAtLeast(e.level, min) /\ Matches(f, e)
                          /\ source \in {NoSource, e.source}
              n == Len(memory)
              P == Positions(memory, min, f)
              kept == SubSeqAt(memory, P)
              V == {e \in EntryAt(Times) : source \in {NoSource, e.source}}
              J == {i \in DOMAIN kept : source \in {NoSource, kept[i].source}}
              K == {i \in 1 .. n : Asked(memory[i])}
  <2>1. /\ memory \in Seq(EntryAt(Times)) /\ DOMAIN memory = 1 .. n
        /\ \A i \in 1 .. n : memory[i] \in EntryAt(Times)
    <3>1. memory \in Seq(EntryAt(Times))
      BY <1>1 DEF Inv, TypeOK
    <3>. QED BY <3>1, ElementOfSeq
  <2>2. \A i, j \in 1 .. n : memory[i] = memory[j] => i = j
    <3>. SUFFICES ASSUME NEW i \in 1 .. n, NEW j \in 1 .. n, memory[i] = memory[j], i # j
                  PROVE  FALSE
      OBVIOUS
    <3>1. memory[i].id = memory[j].id /\ memory[i].id \in Int
      BY <2>1 DEF EntryAt
    <3>2. i < j \/ j < i
      OBVIOUS
    <3>3. memory[i].id < memory[j].id \/ memory[j].id < memory[i].id
      BY <1>1, <3>2 DEF Inv, IdInv
    <3>. QED BY <3>1, <3>3
  <2>3. P \in SUBSET (1 .. n) /\ \A i \in 1 .. n : i \in P <=> LevelAtLeast(memory[i].level, min)
                                                           /\ Matches(f, memory[i])
    BY <2>1 DEF Positions
  <2>4. MemoryRead(min, f) = kept
    BY <2>1, SelectedFacts DEF MemoryRead
  <2>. HIDE DEF f, P
  <2>5. kept \in Seq(EntryAt(Times))
    BY <2>1, <2>3, SubSeqAtElements
  <2>6. Picks(J, 1 .. Len(kept), kept, V)
    <3>. HIDE DEF kept
    <3>1. DOMAIN kept = 1 .. Len(kept) /\ \A i \in 1 .. Len(kept) : kept[i] \in EntryAt(Times)
      BY <2>5, ElementOfSeq
    <3>. QED BY <3>1 DEF Picks
  <2>7. Picks(K, P, memory, V)
    BY <2>1, <2>3 DEF Picks
  <2>8. From(kept, source) = SubSeqAt(kept, J)
    BY DEF From
  <2>9. K \in SUBSET (1 .. n)
    OBVIOUS
  <2>. HIDE DEF J, K, V
  <2>10. SubSeqAt(kept, J) = SubSeqAt(memory, K)
    BY <2>1, <2>3, <2>6, <2>7, SubSeqAtTwice
  <2>11. ListEntries(MemoryRead(min, f), source) = Recent(SubSeqAt(memory, K))
    BY <2>4, <2>8, <2>10 DEF ListEntries
  <2>12. ASSUME NEW i \in 1 .. n
         PROVE  memory[i] \in Range(Recent(SubSeqAt(memory, K)))
                  <=> i \in K /\ Cardinality({j \in K : j > i}) < maxEntries
    BY <2>1, <2>2, <2>9, RecentSelection
  <2>13. ASSUME NEW i \in 1 .. n
         PROVE  /\ i \in K <=> Asked(memory[i])
                /\ {j \in K : j > i} = {j \in DOMAIN memory : j > i /\ Asked(memory[j])}
    BY <2>1 DEF K
  <2>14. ASSUME NEW i \in DOMAIN memory
         PROVE  memory[i] \in Range(ListEntries(MemoryRead(min, f), source)) <=>
                  /\ Asked(memory[i])
                  /\ Cardinality({j \in DOMAIN memory : j > i /\ Asked(memory[j])}) < maxEntries
    <3>1. i \in 1 .. n
      BY <2>1
    <3>. HIDE DEF Asked, n
    <3>. QED BY <2>11, <2>12, <2>13, <3>1
  <2>. QED BY <2>14, Zenon DEF f
<1>. QED BY <1>1, Invariance, PTL
=============================================================================
