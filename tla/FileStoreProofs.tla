-------------------------- MODULE FileStoreProofs ---------------------------
(***************************************************************************)
(* Theorems about FileStore, for any timestamps and any number of writes   *)
(* and torn writes, with crashes and failing Clears wherever they come.    *)
(***************************************************************************)
EXTENDS FileStore, SequenceFacts

Line == Seq(Piece) \ {<<>>}

-----------------------------------------------------------------------------
(* The inductive invariant.                                                *)

\* The next entry is a new one.
IdInv == \A e \in acked \cup Intact : e.id < next

\* If the last line lacks its newline, no entry on it was acknowledged.
LastInv ==
    ~terminated /\ Parses(lines[Len(lines)]) => lines[Len(lines)][1].entry \notin acked

\* What Clear has copied is still what it would copy now.
KeptInv ==
    pc \in {"tmp", "closed"} =>
        kept = SubSeqAt(lines, {i \in 1 .. Len(lines) :
                                    ~(Parses(lines[i]) /\ lines[i][1].entry.ts < before)})

\* A torn write costs an entry once another one is written behind it, or still may.
LossInv ==
    /\ IsFiniteSet(acked)
    /\ Cardinality(acked \ (cleared \cup Intact)) + (IF terminated THEN 0 ELSE 1) <= torn

Inv == TypeOK /\ IdInv /\ LastInv /\ KeptInv /\ LossInv

-----------------------------------------------------------------------------
(* The entries that a sequence of lines holds.                             *)

Good(s)  == {i \in 1 .. Len(s) : Parses(s[i])}
Whole(s) == Firsts(SubSeqAt(s, Good(s)))

\* A line has at least one piece, and the piece an entry.
LEMMA FirstPiece ==
    ASSUME NEW l \in Line
    PROVE  l \in Seq(Piece) /\ Len(l) \in Nat \ {0} /\ l[1] \in Piece /\ l[1].entry \in Entry
<1>1. l \in Seq(Piece) /\ Len(l) \in Nat \ {0}
  BY EmptySeq, LenProperties DEF Line
<1>2. l[1] \in Piece
  BY <1>1, ElementOfSeq
<1>. QED BY <1>1, <1>2 DEF Piece

\* A line of one piece parses unless the piece was cut short.
LEMMA LineOfOne ==
    ASSUME NEW piece \in Piece
    PROVE  <<piece>> \in Line /\ <<piece>>[1] = piece /\ (Parses(<<piece>>) <=> ~piece.cut)
<1>1. <<piece>> \in Seq(Piece) /\ <<piece>> # <<>> /\ Len(<<piece>>) = 1 /\ <<piece>>[1] = piece
  OBVIOUS
<1>. QED BY <1>1 DEF Line, Parses

\* A piece put on a line that has one already: no whole record any more.
LEMMA LineExtended ==
    ASSUME NEW l \in Line, NEW piece \in Piece
    PROVE  Append(l, piece) \in Line /\ ~Parses(Append(l, piece))
<1>1. l \in Seq(Piece) /\ Len(l) \in Nat \ {0}
  BY FirstPiece
<1>2. /\ Append(l, piece) \in Seq(Piece) /\ Append(l, piece) # <<>>
      /\ Len(Append(l, piece)) = Len(l) + 1
  BY <1>1, AppendProperties
<1>3. Len(l) + 1 # 1
  BY <1>1
<1>. QED BY <1>2, <1>3 DEF Line, Parses

\* The entry of each line's first piece, in order.
LEMMA FirstsFacts ==
    ASSUME NEW s \in Seq(Line)
    PROVE  /\ Firsts(s) \in Seq(Entry) /\ Len(Firsts(s)) = Len(s)
           /\ \A i \in 1 .. Len(s) : Firsts(s)[i] = s[i][1].entry
<1>1. Len(s) \in Nat /\ \A i \in 1 .. Len(s) : s[i][1].entry \in Entry
  BY LenProperties, ElementOfSeq, FirstPiece
<1>. QED BY <1>1 DEF Firsts

\* A line appended to the file brings its first entry behind the others.
LEMMA FirstsAppend ==
    ASSUME NEW s \in Seq(Line), NEW l \in Line
    PROVE  Firsts(Append(s, l)) = Append(Firsts(s), l[1].entry)
<1>. DEFINE u == Append(s, l)
            a == Append(Firsts(s), l[1].entry)
<1>1. /\ Len(s) \in Nat /\ u \in Seq(Line) /\ Len(u) = Len(s) + 1 /\ u[Len(s) + 1] = l
      /\ \A i \in 1 .. Len(s) : u[i] = s[i]
  BY LenProperties, AppendProperties
<1>2. /\ a \in Seq(Entry) /\ Len(a) = Len(s) + 1 /\ a[Len(s) + 1] = l[1].entry
      /\ \A i \in 1 .. Len(s) : a[i] = s[i][1].entry
  BY FirstsFacts, FirstPiece, AppendProperties
<1>. HIDE DEF u, a
<1>3. a = [i \in 1 .. Len(s) + 1 |-> a[i]]
  BY <1>2
<1>4. ASSUME NEW i \in 1 .. Len(s) + 1
      PROVE  a[i] = u[i][1].entry
  <2>1. i \in 1 .. Len(s) \/ i = Len(s) + 1
    BY <1>1
  <2>. QED BY <1>1, <1>2, <2>1
<1>5. Firsts(u) = [i \in 1 .. Len(s) + 1 |-> u[i][1].entry]
  BY <1>1 DEF Firsts
<1>. QED BY <1>3, <1>4, <1>5 DEF u, a

\* It makes no difference whether lines are selected first or their entries.
LEMMA FirstsSelected ==
    ASSUME NEW s \in Seq(Line), NEW I \in SUBSET (1 .. Len(s))
    PROVE  SubSeqAt(s, I) \in Seq(Line) /\ Firsts(SubSeqAt(s, I)) = SubSeqAt(Firsts(s), I)
<1>. DEFINE t == SubSeqAt(s, I)
            u == Firsts(s)
            v == Firsts(t)
<1>1. t \in Seq(Line) /\ Len(s) \in Nat
  BY SubSeqAtElements, LenProperties
<1>2. PICK f : Enumerates(f, Len(t), I) /\ \A k \in 1 .. Len(t) : t[k] = s[f[k]]
  BY SubSeqAtElements
<1>3. \A k \in 1 .. Len(t) : f[k] \in 1 .. Len(s)
  BY <1>2 DEF Enumerates
<1>. HIDE DEF t
<1>4. /\ v \in Seq(Entry) /\ Len(v) = Len(t) /\ \A i \in 1 .. Len(t) : v[i] = t[i][1].entry
      /\ \A i \in 1 .. Len(s) : u[i] = s[i][1].entry
  BY <1>1, FirstsFacts
<1>. HIDE DEF u, v
<1>5. Enumerates(f, Len(v), I) /\ \A k \in 1 .. Len(v) : v[k] = u[f[k]]
  BY <1>2, <1>3, <1>4
<1>6. I \in SUBSET Int
  <2>1. (1 .. Len(s)) \subseteq Int
    BY <1>1
  <2>. QED BY <2>1
<1>7. SubSeqAt(u, I) = v
  BY <1>4, <1>5, <1>6, SubSeqAtIs
<1>. QED BY <1>1, <1>7 DEF t, u, v

\* The entries of the intact lines, as a sequence and as a set.
LEMMA WholeFacts ==
    ASSUME NEW s \in Seq(Line)
    PROVE  /\ Good(s) \in SUBSET (1 .. Len(s))
           /\ Whole(s) \in Seq(Entry)
           /\ Range(Whole(s)) = {s[i][1].entry : i \in Good(s)}
<1>. DEFINE t == SubSeqAt(s, Good(s))
<1>1. Good(s) \in SUBSET (1 .. Len(s))
  BY DEF Good
<1>2. t \in Seq(Line) /\ Len(t) \in Nat /\ Range(t) = {s[i] : i \in Good(s)}
  BY <1>1, SubSeqAtElements
<1>. HIDE DEF t
<1>3. /\ Firsts(t) \in Seq(Entry) /\ Len(Firsts(t)) = Len(t)
      /\ \A k \in 1 .. Len(t) : Firsts(t)[k] = t[k][1].entry
  BY <1>2, FirstsFacts
<1>4. /\ Range(t) = {t[k] : k \in 1 .. Len(t)}
      /\ Range(Firsts(t)) = {Firsts(t)[k] : k \in 1 .. Len(t)}
  <2>1. Range(t) = {t[k] : k \in 1 .. Len(t)}
    BY <1>2, RangeEquality
  <2>2. Range(Firsts(t)) = {Firsts(t)[k] : k \in 1 .. Len(Firsts(t))}
    BY <1>3, RangeEquality
  <2>. QED BY <1>3, <2>1, <2>2
<1>5. Range(Firsts(t)) = {l[1].entry : l \in Range(t)}
  BY <1>3, <1>4
<1>6. Range(Firsts(t)) = {s[i][1].entry : i \in Good(s)}
  BY <1>2, <1>5
<1>. QED BY <1>1, <1>3, <1>6 DEF Whole, t

\* A new line counts among the intact ones exactly if it parses.
LEMMA WholeAppend ==
    ASSUME NEW s \in Seq(Line), NEW l \in Line
    PROVE  /\ Parses(l) => Whole(Append(s, l)) = Append(Whole(s), l[1].entry)
           /\ ~Parses(l) => Whole(Append(s, l)) = Whole(s)
<1>. DEFINE u == Append(s, l)
            I == Good(s)
            K == Good(u)
            t == SubSeqAt(s, I)
            v == SubSeqAt(u, K)
<1>1. /\ Len(s) \in Nat /\ u \in Seq(Line) /\ Len(u) = Len(s) + 1 /\ u[Len(u)] = l
      /\ Extends(u, s)
  BY LenProperties, AppendExtends
<1>2. I \in SUBSET (1 .. Len(s))
  BY DEF Good
<1>3. t \in Seq(Line) /\ v \in Seq(Line)
  BY <1>1, WholeFacts, SubSeqAtElements
<1>. HIDE DEF u
<1>4. \A i : i \in K <=> i \in I \/ (i = Len(u) /\ Parses(l))
  <2>1. \A i : i \in 1 .. Len(u) <=> i \in 1 .. Len(s) \/ i = Len(u)
    BY <1>1
  <2>2. \A i \in 1 .. Len(s) : u[i] = s[i]
    BY <1>1 DEF Extends
  <2>3. \A i : i \in K <=> i \in 1 .. Len(u) /\ Parses(u[i])
    BY DEF Good
  <2>4. \A i : i \in I <=> i \in 1 .. Len(s) /\ Parses(s[i])
    BY DEF Good
  <2>. HIDE DEF I, K
  <2>. QED BY <1>1, <2>1, <2>2, <2>3, <2>4
<1>. HIDE DEF I, K
<1>5. ASSUME Parses(l)
      PROVE  Firsts(v) = Append(Firsts(t), l[1].entry)
  <2>1. \A i : i \in K <=> i \in I \/ i = Len(u)
    BY <1>4, <1>5
  <2>2. Extends(v, t) /\ v[Len(v)] = l
    BY <1>1, <1>2, <2>1, SubSeqAtTakes
  <2>. HIDE DEF t, v
  <2>3. v = Append(t, l)
    BY <1>3, <2>2, ExtendsAppends
  <2>. QED BY <1>3, <2>3, FirstsAppend
<1>6. ASSUME ~Parses(l)
      PROVE  v = t
  <2>1. K = I
    BY <1>4, <1>6
  <2>2. SubSeqAt(u, I) = t
    BY <1>1, <1>2, SubSeqAtSkips
  <2>. QED BY <2>1, <2>2
<1>7. Whole(s) = Firsts(t) /\ Whole(u) = Firsts(v)
  BY DEF Whole, t, v, I, K
<1>. QED BY <1>5, <1>6, <1>7 DEF u

\* Clear's copy holds the entries that are not before its cut-off, in their order.
LEMMA WholeCleared ==
    ASSUME NEW s \in Seq(Line), NEW b \in Int, Times \subseteq Int
    PROVE  Whole(SubSeqAt(s, {i \in 1 .. Len(s) : ~(Parses(s[i]) /\ s[i][1].entry.ts < b)}))
               = SubSeqAt(Whole(s), {k \in DOMAIN Whole(s) : Whole(s)[k].ts >= b})
<1>. DEFINE Q == {i \in 1 .. Len(s) : ~(Parses(s[i]) /\ s[i][1].entry.ts < b)}
            G == Good(s)
            V == {l \in Line : Parses(l)}
            W == {l \in Line : l[1].entry.ts >= b}
            t == SubSeqAt(s, Q)
            w == SubSeqAt(s, G)
            K == {i \in G : s[i] \in W}
            J == {k \in 1 .. Len(w) : w[k] \in W}
<1>1. /\ Q \in SUBSET (1 .. Len(s)) /\ G \in SUBSET (1 .. Len(s))
      /\ \A i \in 1 .. Len(s) : s[i] \in Line /\ s[i][1].entry.ts \in Int
  <2>1. \A i \in 1 .. Len(s) : s[i] \in Line /\ s[i][1].entry \in Entry
    BY ElementOfSeq, FirstPiece
  <2>2. \A e \in Entry : e.ts \in Int
    BY DEF Entry
  <2>. QED BY <2>1, <2>2 DEF Good
<1>2. t \in Seq(Line) /\ w \in Seq(Line)
  <2>. HIDE DEF Q, G
  <2>. QED BY <1>1, SubSeqAtElements
<1>3. Picks(K, Q, s, V) /\ Picks(K, G, s, W)
  BY <1>1 DEF Good, Picks
<1>4. Picks(Good(t), 1 .. Len(t), t, V)
  <2>1. \A k \in 1 .. Len(t) : t[k] \in Line
    BY <1>2, ElementOfSeq
  <2>. HIDE DEF t
  <2>. QED BY <2>1 DEF Good, Picks
<1>5. Picks(J, 1 .. Len(w), w, W) /\ J \in SUBSET (1 .. Len(w))
  <2>. HIDE DEF w, W
  <2>. QED BY DEF Picks
<1>. HIDE DEF Q, G, V, W, K, J
<1>6. SubSeqAt(t, Good(t)) = SubSeqAt(s, K)
  BY <1>1, <1>3, <1>4, SubSeqAtTwice
<1>7. SubSeqAt(w, J) = SubSeqAt(s, K)
  BY <1>1, <1>3, <1>5, SubSeqAtTwice
<1>. HIDE DEF t, w
<1>8. Firsts(SubSeqAt(w, J)) = SubSeqAt(Firsts(w), J)
  BY <1>2, <1>5, FirstsSelected
<1>9. J = {k \in DOMAIN Firsts(w) : Firsts(w)[k].ts >= b}
  <2>1. \A k \in 1 .. Len(w) : w[k] \in Line
    BY <1>2, ElementOfSeq
  <2>2. DOMAIN Firsts(w) = 1 .. Len(w) /\ \A k \in 1 .. Len(w) : Firsts(w)[k] = w[k][1].entry
    BY DEF Firsts
  <2>. QED BY <2>1, <2>2 DEF J, W
<1>10. Whole(t) = SubSeqAt(Firsts(w), {k \in DOMAIN Firsts(w) : Firsts(w)[k].ts >= b})
  BY <1>6, <1>7, <1>8, <1>9 DEF Whole
<1>11. Whole(s) = Firsts(w)
  BY DEF Whole, w, G
<1>. QED BY <1>10, <1>11 DEF t, Q

-----------------------------------------------------------------------------
(* What the steps do to the entries stored.                                *)

\* Types of the file's contents, in the form the other lemmas need them.
LEMMA LineFacts ==
    ASSUME TypeOK
    PROVE  /\ lines \in Seq(Line) /\ Len(lines) \in Nat /\ Times \subseteq Int
           /\ \A i \in 1 .. Len(lines) : lines[i] \in Line
           /\ \A e \in Entry : e.id \in Nat /\ e.ts \in Times
<1>1. lines \in Seq(Line)
  BY DEF TypeOK, Line
<1>. QED BY <1>1, LenProperties, ElementOfSeq, FileStoreAssumption DEF Entry

\* The definitions of the model agree with Whole, for any file.
LEMMA IntactWhole ==
    ASSUME NEW s \in Seq(Line), NEW I, I = {i \in DOMAIN s : Parses(s[i])}
    PROVE  /\ Firsts(SubSeqAt(s, I)) = Whole(s) /\ Whole(s) \in Seq(Entry)
           /\ {l[1].entry : l \in Range(SubSeqAt(s, I))} = Range(Whole(s))
           /\ Range(Whole(s)) \subseteq Entry
<1>1. I = Good(s)
  BY LenProperties DEF Good
<1>2. /\ Good(s) \in SUBSET (1 .. Len(s)) /\ Whole(s) \in Seq(Entry)
      /\ Range(Whole(s)) = {s[i][1].entry : i \in Good(s)}
  BY WholeFacts
<1>3. Range(SubSeqAt(s, Good(s))) = {s[i] : i \in Good(s)}
  BY <1>2, SubSeqAtElements
<1>4. {l[1].entry : l \in Range(SubSeqAt(s, Good(s)))} = Range(Whole(s))
  BY <1>2, <1>3
<1>. QED BY <1>1, <1>2, <1>4, RangeOfSeq DEF Whole

\* What is stored now is Whole of the lines.
LEMMA StoredFacts ==
    ASSUME TypeOK
    PROVE  /\ Stored = Whole(lines) /\ Stored \in Seq(Entry)
           /\ Intact = Range(Stored) /\ Intact \subseteq Entry
BY LineFacts, IntactWhole DEF Stored, Intact, IntactLines

\* The same of the next state.
LEMMA StoredFacts2 ==
    ASSUME TypeOK'
    PROVE  /\ Stored' = Whole(lines') /\ Stored' \in Seq(Entry)
           /\ Intact' = Range(Stored') /\ Intact' \subseteq Entry
<1>1. lines' \in Seq(Line)
  BY DEF TypeOK, Line
<1>. QED BY <1>1, IntactWhole DEF Stored, Intact, IntactLines

\* Behind a newline a piece begins a line; otherwise it makes a last line that had been
\* whole unreadable, newline or not.
LEMMA PutStores ==
    ASSUME TypeOK, NEW piece \in Piece, NEW newline \in BOOLEAN, Put(piece, newline)
    PROVE  /\ lines' \in Seq(Line) /\ lines' # <<>> /\ terminated' = newline
           /\ terminated =>
                /\ lines'[Len(lines')][1] = piece /\ (Parses(lines'[Len(lines')]) <=> ~piece.cut)
                /\ piece.cut => Whole(lines') = Whole(lines)
                /\ ~piece.cut => Whole(lines') = Append(Whole(lines), piece.entry)
           /\ ~terminated =>
                /\ ~Parses(lines'[Len(lines')])
                /\ ~Parses(lines[Len(lines)]) => Whole(lines') = Whole(lines)
                /\ Parses(lines[Len(lines)]) =>
                      /\ Whole(lines) = Append(Whole(lines'), lines[Len(lines)][1].entry)
                      /\ Whole(lines') \in Seq(Entry)
<1>. DEFINE last  == lines[Len(lines)]
            last2 == lines'[Len(lines')]
<1>1. lines \in Seq(Line) /\ Len(lines) \in Nat
  BY LineFacts
<1>2. terminated' = newline
  BY DEF Put
<1>3. CASE terminated
  <2>1. lines' = Append(lines, <<piece>>) /\ <<piece>> \in Line
    BY <1>3, LineOfOne DEF Put
  <2>2. lines' \in Seq(Line) /\ lines' # <<>> /\ last2 = <<piece>>
    BY <1>1, <2>1, AppendProperties
  <2>3. last2[1] = piece /\ Parses(last2) <=> ~piece.cut
    BY <2>2, LineOfOne
  <2>4. /\ piece.cut => Whole(lines') = Whole(lines)
        /\ ~piece.cut => Whole(lines') = Append(Whole(lines), piece.entry)
    <3>. DEFINE l == <<piece>>
    <3>1. l \in Line /\ l[1] = piece /\ (Parses(l) <=> ~piece.cut) /\ lines' = Append(lines, l)
      BY <2>1, LineOfOne
    <3>. HIDE DEF l
    <3>2. /\ Parses(l) => Whole(Append(lines, l)) = Append(Whole(lines), l[1].entry)
          /\ ~Parses(l) => Whole(Append(lines, l)) = Whole(lines)
      BY <1>1, <3>1, WholeAppend
    <3>. QED BY <3>1, <3>2
  <2>. QED BY <1>2, <1>3, <2>2, <2>3, <2>4
<1>4. CASE ~terminated
  <2>1. /\ lines # <<>> /\ Len(lines) \in 1 .. Len(lines)
        /\ lines' = [lines EXCEPT ![Len(lines)] = Append(@, piece)]
    BY <1>1, <1>4, EmptySeq DEF TypeOK, Put
  <2>2. PICK front \in Seq(Line), l \in Line : lines = Append(front, l)
    BY <1>1, <2>1, SequenceEmptyOrAppend
  <2>. DEFINE k == Append(l, piece)
  <2>3. k \in Line /\ ~Parses(k)
    BY LineExtended
  <2>4. /\ Len(lines) = Len(front) + 1 /\ last = l /\ Len(front) \in Nat
        /\ \A i \in 1 .. Len(front) : lines[i] = front[i]
    BY <2>2, AppendProperties, LenProperties
  <2>5. lines' = Append(front, k)
    <3>. DEFINE a == Append(front, k)
    <3>1. /\ a \in Seq(Line) /\ Len(a) = Len(lines) /\ a[Len(lines)] = k
          /\ \A i \in 1 .. Len(front) : a[i] = front[i]
      BY <2>3, <2>4, AppendProperties
    <3>. HIDE DEF a
    <3>2. a = [i \in 1 .. Len(lines) |-> a[i]]
      BY <3>1
    <3>3. lines' = [i \in 1 .. Len(lines) |-> lines'[i]]
      BY <1>1, <2>1, LenProperties
    <3>4. /\ lines'[Len(lines)] = k
          /\ \A i \in 1 .. Len(front) : lines'[i] = front[i]
      BY <1>1, <2>1, <2>4, LenProperties
    <3>5. \A i \in 1 .. Len(lines) : i \in 1 .. Len(front) \/ i = Len(lines)
      BY <2>4
    <3>. HIDE DEF k
    <3>6. \A i \in 1 .. Len(lines) : lines'[i] = a[i]
      BY <3>1, <3>4, <3>5
    <3>. QED BY <3>2, <3>3, <3>6 DEF a
  <2>6. lines' \in Seq(Line) /\ lines' # <<>> /\ last2 = k
    BY <2>3, <2>5, AppendProperties
  <2>. HIDE DEF k
  <2>7. Whole(lines') = Whole(front)
    BY <2>3, <2>5, WholeAppend
  <2>8. /\ Parses(l) => Whole(lines) = Append(Whole(front), l[1].entry)
        /\ ~Parses(l) => Whole(lines) = Whole(front)
    BY <2>2, WholeAppend
  <2>9. Whole(front) \in Seq(Entry)
    BY WholeFacts
  <2>. QED BY <1>2, <1>4, <2>3, <2>4, <2>6, <2>7, <2>8, <2>9
<1>. QED BY <1>3, <1>4 DEF TypeOK

-----------------------------------------------------------------------------
(* Types.                                                                  *)

\* An entry that Write may be called with, and the pieces it leaves in the file.
LEMMA FreshFacts ==
    ASSUME TypeOK, next <= MaxEntries, NEW e \in Fresh
    PROVE  /\ e \in Entry /\ e.id = next
           /\ \A size \in {n \in Sizes : n <= e.size}, cut \in BOOLEAN :
                 LET piece == [entry |-> [e EXCEPT !.size = size], cut |-> cut]
                 IN  piece \in Piece /\ piece.entry.id = next /\ piece.cut = cut
           /\ [e EXCEPT !.size = e.size] = e
           /\ [entry |-> e, cut |-> FALSE] \in Piece
<1>1. e \in [id : {next}, ts : Times, size : Sizes] /\ next \in 1 .. MaxEntries
  BY FileStoreAssumption DEF TypeOK, Fresh
<1>2. e \in Entry /\ e.id = next
  BY <1>1, FileStoreAssumption DEF Entry
<1>3. [e EXCEPT !.size = e.size] = e
  BY <1>1
<1>4. ASSUME NEW size \in {n \in Sizes : n <= e.size}
      PROVE  [e EXCEPT !.size = size] \in Entry /\ [e EXCEPT !.size = size].id = next
  BY <1>2 DEF Entry
<1>. QED BY <1>2, <1>3, <1>4 DEF Piece

\* Every step keeps the types.
LEMMA TypeStep == TypeOK /\ [Next]_vars => TypeOK'
<1>. SUFFICES ASSUME TypeOK, [Next]_vars PROVE TypeOK'
  OBVIOUS
<1>1. ASSUME NEW piece \in Piece, NEW newline \in BOOLEAN, Put(piece, newline)
      PROVE  /\ lines' \in Seq(Seq(Piece) \ {<<>>}) /\ terminated' \in BOOLEAN
             /\ lines' # <<>>
  BY <1>1, PutStores DEF Line
<1>2. CASE Open
  BY <1>2 DEF Open, TypeOK, file, clear, past
<1>3. CASE Stop
  BY <1>3 DEF Stop, TypeOK, file, past
<1>4. ASSUME NEW e \in Fresh, WriteOK(e)
      PROVE  TypeOK'
  <2>1. next <= MaxEntries /\ e \in Entry /\ [entry |-> e, cut |-> FALSE] \in Piece
    BY <1>4, FreshFacts DEF WriteOK, CanWrite
  <2>2. Put([entry |-> e, cut |-> FALSE], TRUE)
    BY <1>4 DEF WriteOK, Written
  <2>3. /\ lines' \in Seq(Seq(Piece) \ {<<>>}) /\ terminated' \in BOOLEAN
        /\ lines' # <<>>
    BY <1>1, <2>1, <2>2
  <2>4. next' \in 1 .. MaxEntries + 1
    BY <1>4, <2>1, FileStoreAssumption DEF WriteOK, Written, TypeOK
  <2>. QED BY <1>4, <2>1, <2>3, <2>4 DEF WriteOK, Written, TypeOK, clear
<1>5. ASSUME NEW e \in Fresh, WriteTorn(e)
      PROVE  TypeOK'
  <2>1. next <= MaxEntries
    BY <1>5 DEF WriteTorn, CanWrite
  <2>2. PICK cut \in BOOLEAN, size \in {n \in Sizes : n <= e.size} :
            Put([entry |-> [e EXCEPT !.size = size], cut |-> cut], FALSE)
    BY <1>5 DEF WriteTorn
  <2>3. [entry |-> [e EXCEPT !.size = size], cut |-> cut] \in Piece
    BY <2>1, FreshFacts
  <2>4. /\ lines' \in Seq(Seq(Piece) \ {<<>>}) /\ terminated' \in BOOLEAN
        /\ lines' # <<>>
    BY <1>1, <2>2, <2>3
  <2>5. next' \in 1 .. MaxEntries + 1 /\ torn' \in 0 .. MaxFaults
    <3>1. /\ next' = next + 1 /\ torn' = torn + 1 /\ torn < MaxFaults
          /\ next \in 1 .. MaxEntries + 1 /\ torn \in 0 .. MaxFaults
      BY <1>5 DEF WriteTorn, TypeOK
    <3>. QED BY <2>1, <3>1, FileStoreAssumption
  <2>. QED BY <1>5, <2>4, <2>5 DEF WriteTorn, TypeOK, clear
<1>6. CASE WriteError
  BY <1>6, FileStoreAssumption DEF WriteError, CanWrite, TypeOK, file, clear
<1>7. CASE ClearScan
  <2>. DEFINE Q == {i \in DOMAIN lines : ~Outdated(lines[i])}
  <2>1. Q \in SUBSET (1 .. Len(lines)) /\ lines \in Seq(Line)
    BY LineFacts, LenProperties
  <2>. HIDE DEF Q
  <2>2. kept' = SubSeqAt(lines, Q)
    BY <1>7 DEF ClearScan, Q
  <2>3. kept' \in Seq(Seq(Piece) \ {<<>>})
    BY <2>1, <2>2, SubSeqAtElements DEF Line
  <2>. QED BY <1>7, <2>3 DEF ClearScan, TypeOK, file, past
<1>8. CASE ClearTmpFails
  BY <1>8 DEF ClearTmpFails, TypeOK, file, past
<1>9. CASE ClearClosesOld
  BY <1>9 DEF ClearClosesOld, ClearGoesOn, TypeOK, file, past
<1>10. CASE ClearRenames
  BY <1>10 DEF ClearRenames, TypeOK
<1>11. CASE ClearRenameFails
  BY <1>11 DEF ClearRenameFails, TypeOK, file, past
<1>12. CASE ClearReopens
  BY <1>12 DEF ClearReopens, TypeOK, file, past
<1>13. CASE ClearReopenFails
  BY <1>13 DEF ClearReopenFails, TypeOK, file, past
<1>14. CASE UNCHANGED vars
  BY <1>14 DEF vars, file, clear, past, TypeOK
<1>. QED BY <1>2, <1>3, <1>4, <1>5, <1>6, <1>7, <1>8, <1>9, <1>10, <1>11, <1>12, <1>13,
            <1>14 DEF Next

-----------------------------------------------------------------------------
(* Writes.                                                                 *)

\* What putting a new entry's piece into the file does to the entries that can be read: it
\* may add that entry and it may cost one, but none that was acknowledged.
LEMMA PutKeeps ==
    ASSUME TypeOK, TypeOK', LastInv, NEW piece \in Piece, NEW newline \in BOOLEAN,
           Put(piece, newline)
    PROVE  /\ terminated' = newline
           /\ terminated /\ piece.cut => Intact' = Intact /\ Stored' = Stored
           /\ terminated /\ ~piece.cut =>
                Intact' = Intact \cup {piece.entry} /\ Stored' = Append(Stored, piece.entry)
           /\ ~terminated =>
                /\ Intact' \subseteq Intact /\ acked \cap Intact \subseteq Intact'
                /\ \/ Stored' = Stored
                   \/ \E e \in Entry \ acked : Stored = Append(Stored', e)
           /\ LET last2 == lines'[Len(lines')]
              IN  Parses(last2) => terminated /\ ~piece.cut /\ last2[1] = piece
<1>. DEFINE last  == lines[Len(lines)]
            last2 == lines'[Len(lines')]
<1>1. /\ terminated' = newline
      /\ terminated =>
           /\ last2[1] = piece /\ (Parses(last2) <=> ~piece.cut)
           /\ piece.cut => Whole(lines') = Whole(lines)
           /\ ~piece.cut => Whole(lines') = Append(Whole(lines), piece.entry)
      /\ ~terminated =>
           /\ ~Parses(last2)
           /\ ~Parses(last) => Whole(lines') = Whole(lines)
           /\ Parses(last) => Whole(lines) = Append(Whole(lines'), last[1].entry)
  BY PutStores
<1>2. /\ Stored = Whole(lines) /\ Stored \in Seq(Entry) /\ Intact = Range(Stored)
      /\ Stored' = Whole(lines') /\ Stored' \in Seq(Entry) /\ Intact' = Range(Stored')
      /\ piece.entry \in Entry
  BY StoredFacts, StoredFacts2 DEF Piece
<1>3. ~terminated /\ Parses(last) => last[1].entry \in Entry \ acked
  <2>. SUFFICES ASSUME ~terminated, Parses(last)
                PROVE  last[1].entry \in Entry \ acked
    OBVIOUS
  <2>1. lines # <<>> /\ lines \in Seq(Line) /\ Len(lines) \in Nat
    BY LineFacts DEF TypeOK
  <2>2. Len(lines) \in 1 .. Len(lines)
    BY <2>1, EmptySeq
  <2>3. last \in Line
    BY <2>1, <2>2, ElementOfSeq
  <2>. QED BY <2>3, FirstPiece DEF LastInv
<1>. HIDE DEF last, last2
<1>4. ASSUME terminated
      PROVE  /\ piece.cut => Intact' = Intact /\ Stored' = Stored
             /\ ~piece.cut =>
                  Intact' = Intact \cup {piece.entry} /\ Stored' = Append(Stored, piece.entry)
  <2>1. Range(Append(Stored, piece.entry)) = Range(Stored) \cup {piece.entry}
    BY <1>2, RangeAppend
  <2>. QED BY <1>1, <1>2, <1>4, <2>1
<1>5. ASSUME ~terminated
      PROVE  /\ Intact' \subseteq Intact /\ acked \cap Intact \subseteq Intact'
             /\ \/ Stored' = Stored
                \/ \E e \in Entry \ acked : Stored = Append(Stored', e)
  <2>1. CASE ~Parses(last)
    BY <1>1, <1>2, <1>5, <2>1
  <2>2. CASE Parses(last)
    <3>. DEFINE e == last[1].entry
    <3>1. e \in Entry \ acked /\ Stored = Append(Stored', e)
      BY <1>1, <1>2, <1>3, <1>5, <2>2
    <3>. HIDE DEF e
    <3>2. Range(Append(Stored', e)) = Range(Stored') \cup {e}
      BY <1>2, <3>1, RangeAppend
    <3>3. Intact = Intact' \cup {e}
      BY <1>2, <3>1, <3>2
    <3>. QED BY <3>1, <3>3
  <2>. QED BY <2>1, <2>2
<1>6. Parses(last2) => terminated /\ ~piece.cut /\ last2[1] = piece
  BY <1>1
<1>. QED BY <1>1, <1>4, <1>5, <1>6 DEF last2

-----------------------------------------------------------------------------
(* Each step keeps the invariant.                                          *)

Lost == acked \ (cleared \cup Intact)

\* The lost entries are finitely many, and so are those in any part of them.
LEMMA LostFinite ==
    ASSUME LossInv
    PROVE  /\ IsFiniteSet(Lost) /\ Cardinality(Lost) \in Nat
           /\ \A S : S \subseteq Lost => IsFiniteSet(S) /\ Cardinality(S) \in Nat
                                         /\ Cardinality(S) <= Cardinality(Lost)
<1>1. IsFiniteSet(Lost)
  BY FS_Difference DEF LossInv, Lost
<1>. QED BY <1>1, FS_Subset, FS_CardinalityType

\* The steps that leave the file and what was acknowledged alone.
LEMMA SameFile ==
    ASSUME Inv, TypeOK', UNCHANGED <<lines, terminated, torn, acked, cleared>>, next' \in Nat,
           next <= next',
           pc' \in {"tmp", "closed"} => pc \in {"tmp", "closed"} /\ UNCHANGED <<before, kept>>
    PROVE  Inv'
<1>. USE DEF Inv
<1>1. Intact' = Intact
  BY DEF Intact, IntactLines
<1>2. IdInv'
  <2>1. \A e \in Entry : e.id \in Nat
    BY LineFacts
  <2>2. acked \cup Intact \subseteq Entry /\ next \in Nat
    BY StoredFacts DEF TypeOK
  <2>. QED BY <1>1, <2>1, <2>2 DEF IdInv
<1>3. LastInv'
  BY DEF LastInv
<1>4. KeptInv'
  BY DEF KeptInv
<1>5. LossInv'
  BY <1>1 DEF LossInv
<1>. QED BY <1>2, <1>3, <1>4, <1>5

\* A complete write: what it is glued to, if anything, was not acknowledged.
LEMMA WriteOKStep ==
    ASSUME Inv, TypeOK', NEW e \in Fresh, WriteOK(e)
    PROVE  Inv'
<1>. USE DEF Inv
<1>1. /\ e \in Entry /\ e.id = next /\ [entry |-> e, cut |-> FALSE] \in Piece
      /\ Put([entry |-> e, cut |-> FALSE], TRUE)
      /\ acked' = acked \cup {e} /\ next' = next + 1 /\ cleared' = cleared /\ torn' = torn
      /\ pc' = pc /\ pc = "idle"
  BY FreshFacts DEF WriteOK, CanWrite, Written, clear
<1>2. /\ terminated' = TRUE
      /\ terminated => Intact' = Intact \cup {e}
      /\ ~terminated => Intact' \subseteq Intact /\ acked \cap Intact \subseteq Intact'
  <2>. DEFINE piece == [entry |-> e, cut |-> FALSE]
  <2>1. piece \in Piece /\ piece.entry = e /\ ~piece.cut /\ Put(piece, TRUE)
    BY <1>1
  <2>. HIDE DEF piece
  <2>. QED BY <2>1, PutKeeps
<1>3. IdInv'
  <2>1. \A x \in Entry : x.id \in Nat
    BY LineFacts
  <2>2. acked \cup Intact \subseteq Entry /\ next \in Nat
    BY StoredFacts DEF TypeOK
  <2>3. acked' \cup Intact' \subseteq acked \cup Intact \cup {e}
    BY <1>1, <1>2
  <2>4. \A x \in acked \cup Intact \cup {e} : x.id < next + 1
    BY <1>1, <2>1, <2>2 DEF IdInv
  <2>. QED BY <1>1, <2>3, <2>4 DEF IdInv
<1>4. LastInv' /\ KeptInv'
  BY <1>1, <1>2 DEF LastInv, KeptInv
<1>5. LossInv'
  <2>1. IsFiniteSet(acked')
    BY <1>1, FS_AddElement DEF LossInv
  <2>2. CASE terminated
    <3>1. Lost' \subseteq Lost
      BY <1>1, <1>2, <2>2 DEF Lost
    <3>2. /\ Cardinality(Lost') \in Nat /\ Cardinality(Lost) \in Nat
          /\ Cardinality(Lost') <= Cardinality(Lost)
      BY <3>1, LostFinite
    <3>3. Cardinality(Lost) + 0 <= torn
      BY <2>2 DEF LossInv, Lost
    <3>4. torn \in Nat
      BY DEF TypeOK
    <3>5. Cardinality(Lost') + 0 <= torn
      BY <3>2, <3>3, <3>4
    <3>. QED BY <1>1, <1>2, <2>1, <3>5 DEF LossInv, Lost
  <2>3. CASE ~terminated
    <3>1. Lost' \subseteq Lost \cup {e}
      BY <1>1, <1>2, <2>3 DEF Lost
    <3>2. /\ IsFiniteSet(Lost) /\ Cardinality(Lost) \in Nat /\ torn \in Nat
          /\ Cardinality(Lost) + 1 <= torn
      BY <2>3, LostFinite DEF LossInv, Lost, TypeOK
    <3>3. /\ IsFiniteSet(Lost \cup {e})
          /\ Cardinality(Lost \cup {e}) \in {Cardinality(Lost), Cardinality(Lost) + 1}
      BY <3>2, FS_AddElement
    <3>4. Cardinality(Lost') \in Nat /\ Cardinality(Lost') <= Cardinality(Lost \cup {e})
      BY <3>1, <3>3, FS_Subset, FS_CardinalityType
    <3>5. Cardinality(Lost') + 0 <= torn
      BY <3>2, <3>3, <3>4
    <3>. QED BY <1>1, <1>2, <2>1, <3>5 DEF LossInv, Lost
  <2>. QED BY <2>2, <2>3
<1>. QED BY <1>3, <1>4, <1>5

\* A torn write damages at most the unterminated line it is added to.
LEMMA WriteTornStep ==
    ASSUME Inv, TypeOK', NEW e \in Fresh, WriteTorn(e)
    PROVE  Inv'
<1>. USE DEF Inv
<1>1. /\ next <= MaxEntries /\ next' = next + 1 /\ torn' = torn + 1
      /\ acked' = acked /\ cleared' = cleared /\ pc' = pc /\ pc = "idle"
  BY DEF WriteTorn, CanWrite, clear
<1>2. PICK piece \in Piece : piece.entry.id = next /\ Put(piece, FALSE)
  <2>1. PICK cut \in BOOLEAN, size \in {n \in Sizes : n <= e.size} :
            Put([entry |-> [e EXCEPT !.size = size], cut |-> cut], FALSE)
    BY DEF WriteTorn
  <2>. DEFINE p == [entry |-> [e EXCEPT !.size = size], cut |-> cut]
  <2>2. p \in Piece /\ p.entry.id = next
    BY <1>1, FreshFacts
  <2>. QED BY <2>1, <2>2
<1>3. /\ terminated' = FALSE
      /\ terminated => Intact' \in {Intact, Intact \cup {piece.entry}}
      /\ ~terminated => Intact' \subseteq Intact /\ acked \cap Intact \subseteq Intact'
      /\ Parses(lines'[Len(lines')]) => lines'[Len(lines')][1] = piece
  BY <1>2, PutKeeps
<1>4. /\ \A x \in Entry : x.id \in Nat
      /\ acked \cup Intact \subseteq Entry /\ next \in Nat /\ torn \in Nat
      /\ piece.entry \in Entry
  BY SMTT(30), LineFacts, StoredFacts DEF TypeOK, Piece
<1>5. IdInv'
  <2>1. acked' \cup Intact' \subseteq acked \cup Intact \cup {piece.entry}
    BY <1>1, <1>3
  <2>2. \A x \in acked \cup Intact \cup {piece.entry} : x.id < next + 1
    BY <1>2, <1>4 DEF IdInv
  <2>. QED BY <1>1, <2>1, <2>2 DEF IdInv
<1>6. piece.entry \notin acked
  BY <1>2, <1>4 DEF IdInv
<1>7. LastInv' /\ KeptInv'
  BY <1>1, <1>3, <1>6 DEF LastInv, KeptInv
<1>8. LossInv'
  <2>1. Lost' \subseteq Lost
    BY <1>1, <1>3 DEF Lost
  <2>2. /\ Cardinality(Lost') \in Nat /\ Cardinality(Lost) \in Nat
        /\ Cardinality(Lost') <= Cardinality(Lost)
    BY <2>1, LostFinite
  <2>3. Cardinality(Lost) <= torn
    BY <1>4, <2>2 DEF LossInv, Lost
  <2>4. Cardinality(Lost') + 1 <= torn + 1
    BY <1>4, <2>2, <2>3
  <2>. QED BY <1>1, <1>3, <2>4 DEF LossInv, Lost
<1>. QED BY <1>5, <1>7, <1>8

\* The rename leaves exactly the entries that are not before the cut-off.
LEMMA RenameKeeps ==
    ASSUME Inv, TypeOK', ClearRenames
    PROVE  /\ Stored' = SubSeqAt(Stored, {k \in DOMAIN Stored : Stored[k].ts >= before})
           /\ Intact' = {e \in Intact : e.ts >= before}
<1>. USE DEF Inv
<1>. DEFINE J == {k \in DOMAIN Stored : Stored[k].ts >= before}
<1>1. /\ lines \in Seq(Line) /\ before \in Int /\ Times \subseteq Int
      /\ Stored = Whole(lines) /\ Stored' = Whole(lines') /\ Stored \in Seq(Entry)
      /\ Intact = Range(Stored) /\ Intact' = Range(Stored')
  BY LineFacts, StoredFacts, StoredFacts2 DEF TypeOK
<1>2. lines' = SubSeqAt(lines, {i \in 1 .. Len(lines) :
                                    ~(Parses(lines[i]) /\ lines[i][1].entry.ts < before)})
  BY DEF ClearRenames, KeptInv
<1>3. Stored' = SubSeqAt(Stored, J)
  BY <1>1, <1>2, WholeCleared
<1>4. DOMAIN Stored = 1 .. Len(Stored) /\ J \in SUBSET (1 .. Len(Stored))
  BY <1>1, LenProperties
<1>5. Range(SubSeqAt(Stored, J)) = {Stored[k] : k \in J}
  <2>. HIDE DEF J
  <2>. QED BY <1>1, <1>4, SubSeqAtElements
<1>6. Range(Stored) = {Stored[k] : k \in 1 .. Len(Stored)}
  BY <1>1, RangeEquality
<1>7. {Stored[k] : k \in J} = {e \in Range(Stored) : e.ts >= before}
  BY <1>4, <1>6
<1>. QED BY <1>1, <1>3, <1>5, <1>7

\* The rename replaces the file by what was kept, without the entries before the cut-off.
LEMMA RenameStep ==
    ASSUME Inv, TypeOK', ClearRenames
    PROVE  Inv'
<1>. USE DEF Inv
<1>1. /\ acked' = acked /\ next' = next /\ torn' = torn /\ terminated' = TRUE
      /\ cleared' = cleared \cup {e \in acked \cap Intact : e.ts < before}
      /\ pc' = "renamed"
  BY DEF ClearRenames
<1>2. Intact' = {e \in Intact : e.ts >= before}
  BY RenameKeeps
<1>3. Intact \subseteq Entry /\ (\A e \in Entry : e.ts \in Int) /\ before \in Int /\ torn \in Nat
  BY SMTT(30), StoredFacts, LineFacts DEF TypeOK
<1>4. IdInv' /\ LastInv' /\ KeptInv'
  BY <1>1, <1>2 DEF IdInv, LastInv, KeptInv
<1>5. LossInv'
  <2>1. Lost' \subseteq Lost
    BY <1>1, <1>2, <1>3 DEF Lost
  <2>2. /\ Cardinality(Lost') \in Nat /\ Cardinality(Lost) \in Nat
        /\ Cardinality(Lost') <= Cardinality(Lost)
    BY <2>1, LostFinite
  <2>3. Cardinality(Lost) <= torn
    BY <1>3, <2>2 DEF LossInv, Lost
  <2>4. Cardinality(Lost') + 0 <= torn
    BY <1>3, <2>2, <2>3
  <2>. QED BY <1>1, <2>4 DEF LossInv, Lost
<1>. QED BY <1>4, <1>5

\* Clear's scan keeps what it is asked to keep.
LEMMA ScanStep ==
    ASSUME Inv, TypeOK', ClearScan
    PROVE  Inv'
<1>. USE DEF Inv
<1>1. UNCHANGED <<lines, terminated, torn, acked, cleared, next>>
  BY DEF ClearScan, file, past
<1>2. Intact' = Intact
  BY <1>1 DEF Intact, IntactLines
<1>3. IdInv' /\ LastInv' /\ LossInv'
  BY <1>1, <1>2 DEF IdInv, LastInv, LossInv
<1>4. DOMAIN lines = 1 .. Len(lines)
  BY LineFacts, LenProperties
<1>5. kept' = SubSeqAt(lines, {i \in 1 .. Len(lines) :
                                  ~(Parses(lines[i]) /\ lines[i][1].entry.ts < before')})
  BY <1>4 DEF ClearScan, Outdated
<1>6. KeptInv'
  BY <1>1, <1>5 DEF KeptInv
<1>. QED BY <1>3, <1>6

\* Every step keeps the invariant.
LEMMA InvStep == Inv /\ [Next]_vars => Inv'
<1>. SUFFICES ASSUME Inv, [Next]_vars PROVE Inv'
  OBVIOUS
<1>1. TypeOK' /\ next \in Nat
  BY TypeStep DEF Inv, TypeOK
<1>2. CASE Open
  BY <1>1, <1>2, SameFile DEF Open, file, clear, past
<1>3. CASE Stop
  BY <1>1, <1>3, SameFile DEF Stop, file, past
<1>4. ASSUME NEW e \in Fresh, WriteOK(e) \/ WriteTorn(e)
      PROVE  Inv'
  BY <1>1, <1>4, WriteOKStep, WriteTornStep
<1>5. CASE WriteError
  BY <1>1, <1>5, SameFile DEF WriteError, file, clear
<1>6. CASE ClearTmpFails
  BY <1>1, <1>6, SameFile DEF ClearTmpFails, file, past
<1>7. CASE ClearClosesOld
  BY <1>1, <1>7, SameFile DEF ClearClosesOld, ClearGoesOn, file, past
<1>8. CASE ClearRenameFails
  BY <1>1, <1>8, SameFile DEF ClearRenameFails, file, past
<1>9. CASE ClearReopens
  BY <1>1, <1>9, SameFile DEF ClearReopens, file, past
<1>10. CASE ClearReopenFails
  BY <1>1, <1>10, SameFile DEF ClearReopenFails, file, past
<1>11. CASE UNCHANGED vars
  BY <1>1, <1>11, SameFile DEF vars, file, clear, past
<1>. QED BY <1>1, <1>2, <1>3, <1>4, <1>5, <1>6, <1>7, <1>8, <1>9, <1>10, <1>11, ScanStep,
            RenameStep DEF Next

\* An empty file satisfies the invariant.
LEMMA Initially == Init => Inv
<1>. SUFFICES ASSUME Init PROVE Inv
  OBVIOUS
<1>. USE DEF Init
<1>1. TypeOK
  BY FileStoreAssumption DEF TypeOK
<1>2. Intact = {}
  <2>1. Stored \in Seq(Entry) /\ Intact = Range(Whole(lines)) /\ lines \in Seq(Line)
    BY <1>1, StoredFacts, LineFacts
  <2>2. Good(lines) = {}
    BY DEF Good
  <2>. QED BY <2>1, <2>2, WholeFacts
<1>3. IdInv /\ LastInv /\ KeptInv
  BY <1>2 DEF IdInv, LastInv, KeptInv
<1>4. LossInv
  BY <1>2, FS_EmptySet DEF LossInv
<1>. QED BY <1>1, <1>3, <1>4 DEF Inv

\* The inductive invariant holds in every reachable state.
THEOREM Invariance == Spec => []Inv
BY Initially, InvStep, PTL DEF Spec

-----------------------------------------------------------------------------
(* Theorems.                                                               *)

\* Every variable has its type in every reachable state: s.f is a closed file exactly from
\* Clear's Close to its reopening or, when that fails, to the end of the process.
THEOREM TypeCorrect == Spec => []TypeOK
<1>1. Inv => TypeOK
  BY DEF Inv
<1>. QED BY <1>1, Invariance, PTL

\* However often the process dies, and wherever Clear fails, no more acknowledged entries
\* are without an intact line of their own in the file than writes were torn.  (An intact
\* line may still be out of Read's reach: Read ends at the first line that is too long.)
THEOREM Durability == Spec => []TornCostsAtMostOne
<1>1. ASSUME Inv PROVE TornCostsAtMostOne
  <2>1. Cardinality(Lost) \in Nat /\ torn \in Nat
    BY <1>1, LostFinite DEF Inv, TypeOK
  <2>. QED BY <1>1, <2>1 DEF Inv, LossInv, Lost, TornCostsAtMostOne
<1>. QED BY <1>1, Invariance, PTL

\* Each step of the store, mapped to a step of LogStore or to none.
LEMMA RefinementInit == Init /\ TypeOK => Store!Init
<1>. SUFFICES ASSUME Init, TypeOK PROVE Store!Init
  OBVIOUS
<1>1. /\ Stored = Whole(lines) /\ Stored \in Seq(Entry) /\ lines \in Seq(Line)
      /\ Intact = Range(Stored)
  BY StoredFacts, LineFacts
<1>2. Good(lines) = {}
  BY DEF Init, Good
<1>3. Intact = {}
  BY <1>1, <1>2, WholeFacts
<1>4. Stored = <<>>
  <2>1. SUFFICES ASSUME Stored # <<>> PROVE FALSE
    OBVIOUS
  <2>2. Len(Stored) \in Nat \ {0}
    BY <1>1, <2>1, EmptySeq, LenProperties
  <2>3. Stored[1] \in Range(Stored)
    BY <1>1, <2>2, RangeEquality
  <2>. QED BY <1>1, <1>3, <2>3
<1>. QED BY <1>3, <1>4 DEF Store!Init

\* The operators that the instance has of its own are the same.
LEMMA InstanceSubSeqAt == \A s, I : Store!SubSeqAt(s, I) = SubSeqAt(s, I)
  BY Zenon DEF SubSeqAt, Store!SubSeqAt, Cardinality, Store!Cardinality

\* The instance of LogStore has the same operators on sequences as this module.
LEMMA InstanceSequences ==
    \A s : /\ Store!Front(s) = Front(s) /\ Store!Last(s) = Last(s)
          /\ Store!Range(s) = Range(s)
  BY Zenon DEF Front, Store!Front, Last, Store!Last, Range, Store!Range

\* A write to an unterminated line: stored' is stored, or stored without a last entry that
\* was not acknowledged.
LEMMA SpoilStep ==
    ASSUME TypeOK', acked' \cap Intact' = acked \cap Intact,
           Stored' = Stored \/ \E e \in Entry \ acked : Stored = Append(Stored', e)
    PROVE  Store!Spoil \/ UNCHANGED Store!vars
<1>1. Stored' \in Seq(Entry)
  BY StoredFacts2
<1>2. CASE Stored' = Stored
  BY <1>2 DEF Store!vars
<1>3. ASSUME NEW e \in Entry \ acked, Stored = Append(Stored', e)
      PROVE  Store!Spoil
  <2>1. Front(Append(Stored', e)) = Stored' /\ Last(Append(Stored', e)) = e
    BY <1>1, FrontOfAppend
  <2>2. Append(Stored', e) # <<>>
    BY <1>1, AppendProperties
  <2>. QED BY <1>3, <2>1, <2>2, InstanceSequences DEF Store!Spoil
<1>. QED BY <1>2, <1>3

\* Every step is one of LogStore or leaves its variables as they are.
LEMMA RefinementStep == Inv /\ [Next]_vars => [Store!Next]_(Store!vars)
<1>. SUFFICES ASSUME Inv, [Next]_vars PROVE [Store!Next]_(Store!vars)
  OBVIOUS
<1>0. Inv' /\ TypeOK /\ TypeOK' /\ LastInv
  BY InvStep DEF Inv
<1>1. ASSUME lines' = lines, acked' = acked
      PROVE  UNCHANGED Store!vars
  BY <1>1 DEF Store!vars, Stored, Intact, IntactLines
<1>2. ASSUME NEW e \in Fresh, WriteOK(e)
      PROVE  [Store!Next]_(Store!vars)
  <2>. DEFINE piece == [entry |-> e, cut |-> FALSE]
  <2>1. /\ e \in Entry /\ e.id = next /\ piece \in Piece /\ piece.entry = e /\ ~piece.cut
        /\ Put(piece, TRUE) /\ acked' = acked \cup {e}
    BY <1>0, <1>2, FreshFacts DEF WriteOK, CanWrite, Written
  <2>. HIDE DEF piece
  <2>2. /\ terminated => Intact' = Intact \cup {e} /\ Stored' = Append(Stored, e)
        /\ ~terminated => /\ Intact' \subseteq Intact /\ acked \cap Intact \subseteq Intact'
                          /\ \/ Stored' = Stored
                             \/ \E x \in Entry \ acked : Stored = Append(Stored', x)
    BY <1>0, <2>1, PutKeeps
  <2>3. e \notin Intact
    <3>1. next \in Nat
      BY <1>0 DEF TypeOK
    <3>. QED BY <2>1, <3>1 DEF Inv, IdInv
  <2>4. CASE terminated
    <3>1. acked' \cap Intact' = (acked \cap Intact) \cup {e}
      BY <2>1, <2>2, <2>4
    <3>2. Store!Write(e)
      BY <2>2, <2>4, <3>1 DEF Store!Write
    <3>. QED BY <2>1, <3>2 DEF Store!Next
  <2>5. CASE ~terminated
    <3>1. acked' \cap Intact' = acked \cap Intact
      BY <2>1, <2>2, <2>3, <2>5
    <3>2. Store!Spoil \/ UNCHANGED Store!vars
      BY <1>0, <2>2, <2>5, <3>1, SpoilStep
    <3>. QED BY <3>2 DEF Store!Next
  <2>. QED BY <2>4, <2>5
<1>3. ASSUME NEW e \in Fresh, WriteTorn(e)
      PROVE  [Store!Next]_(Store!vars)
  <2>1. next <= MaxEntries /\ acked' = acked
    BY <1>3 DEF WriteTorn, CanWrite
  <2>2. PICK cut \in BOOLEAN, size \in {n \in Sizes : n <= e.size} :
            Put([entry |-> [e EXCEPT !.size = size], cut |-> cut], FALSE)
    BY <1>3 DEF WriteTorn
  <2>. DEFINE piece == [entry |-> [e EXCEPT !.size = size], cut |-> cut]
  <2>3. piece \in Piece /\ piece.entry \in Entry /\ piece.entry.id = next /\ Put(piece, FALSE)
    BY <1>0, <2>1, <2>2, FreshFacts DEF Piece
  <2>. HIDE DEF piece
  <2>4. /\ terminated /\ piece.cut => Intact' = Intact /\ Stored' = Stored
        /\ terminated /\ ~piece.cut =>
             Intact' = Intact \cup {piece.entry} /\ Stored' = Append(Stored, piece.entry)
        /\ ~terminated => /\ Intact' \subseteq Intact /\ acked \cap Intact \subseteq Intact'
                          /\ \/ Stored' = Stored
                             \/ \E x \in Entry \ acked : Stored = Append(Stored', x)
    BY <1>0, <2>3, PutKeeps
  <2>5. piece.entry \notin acked
    <3>1. next \in Nat
      BY <1>0 DEF TypeOK
    <3>. QED BY <2>3, <3>1 DEF Inv, IdInv
  <2>6. acked' \cap Intact' = acked \cap Intact
    BY <2>1, <2>4, <2>5
  <2>7. CASE terminated /\ ~piece.cut
    <3>1. Store!Write(piece.entry)
      BY <2>4, <2>6, <2>7 DEF Store!Write
    <3>. QED BY <2>3, <3>1 DEF Store!Next
  <2>8. CASE ~(terminated /\ ~piece.cut)
    <3>1. Store!Spoil \/ UNCHANGED Store!vars
      BY <1>0, <2>4, <2>6, <2>8, SpoilStep
    <3>. QED BY <3>1 DEF Store!Next
  <2>. QED BY <2>7, <2>8
<1>4. ASSUME ClearRenames
      PROVE  Store!Clear(before)
  <2>1. /\ Stored' = SubSeqAt(Stored, {k \in DOMAIN Stored : Stored[k].ts >= before})
        /\ Intact' = {e \in Intact : e.ts >= before} /\ acked' = acked
    BY <1>0, <1>4, RenameKeeps DEF ClearRenames
  <2>2. Stored' = Store!SubSeqAt(Stored, {k \in DOMAIN Stored : Stored[k].ts >= before})
    BY <2>1, InstanceSubSeqAt
  <2>3. Intact' = Range(Stored')
    BY <1>0, StoredFacts2
  <2>4. acked' \cap Intact' = (acked \cap Intact) \cap Range(Stored')
    BY <2>1, <2>3
  <2>. QED BY <2>2, <2>4, InstanceSequences DEF Store!Clear
<1>5. before \in Times
  BY <1>0 DEF TypeOK
<1>6. CASE \E e \in Fresh : WriteOK(e) \/ WriteTorn(e)
  BY <1>2, <1>3, <1>6
<1>7. CASE ClearRenames
  BY <1>4, <1>5, <1>7 DEF Store!Next
<1>8. CASE \/ Open \/ Stop \/ WriteError \/ ClearScan \/ ClearTmpFails \/ ClearClosesOld
           \/ ClearRenameFails \/ ClearReopens \/ ClearReopenFails \/ UNCHANGED vars
  <2>1. lines' = lines /\ acked' = acked
    BY <1>8 DEF Open, Stop, WriteError, ClearScan, ClearTmpFails, ClearClosesOld, ClearGoesOn,
                ClearRenameFails, ClearReopens, ClearReopenFails, vars, file, past
  <2>. QED BY <1>1, <2>1
<1>. QED BY <1>6, <1>7, <1>8 DEF Next

\* The file with its torn lines, its crashes and its Clears in several system calls is a
\* LogStore: the intact lines are its entries, those of them that were acknowledged are
\* firm, and a Clear happens at the rename, for exactly the entries before its cut-off.
THEOREM Refinement == Spec => ImplementsLogStore
<1>1. Init => Store!Init
  BY RefinementInit, Initially DEF Inv
<1>2. Inv /\ [Next]_vars => [Store!Next]_(Store!vars)
  BY RefinementStep
<1>. QED BY <1>1, <1>2, Invariance, PTL DEF Spec, ImplementsLogStore, Store!Spec
=============================================================================
