-------------------------- MODULE PullIngestProofs ---------------------------
(***************************************************************************)
(* Theorems about PullIngest, for any number of entries and timestamps,    *)
(* however backfills, tails and dials fail and whenever the caller         *)
(* cancels.                                                                *)
(***************************************************************************)
EXTENDS PullIngest, SequenceFacts

-----------------------------------------------------------------------------
(* The inductive invariant.                                                *)

\* What the remote promises: timestamps do not decrease.
Chronological ==
    \A i, j \in 1 .. Len(remote) : i <= j => remote[i] <= remote[j]

\* The newest entry ingested is where the next backfill starts.
ResumeInv ==
    /\ \A i \in Entries : i > Len(remote) => copies[i] = 0
    /\ Ingested = {} => Resume = 0
    /\ Ingested # {} => \E i \in Ingested :
           (\A j \in Ingested : j <= i) /\ remote[i] = Resume

\* The tail's newest is ahead of lastSeen during a tail, and only then.  What is on the
\* wire has not been ingested, is in order, and with uncovered and garbled makes up all
\* that is missing.
TailInv ==
    /\ pc # "tail" => newest <= lastSeen /\ wire = <<>>
    /\ pc = "tail" =>
        /\ lastSeen <= newest
        /\ \A i \in 1 .. Len(remote) :
               copies[i] = 0 => i \in uncovered \cup garbled \cup Range(wire)
    /\ \A a, b \in 1 .. Len(wire) : a < b => wire[a] < wire[b]
    /\ \A a \in 1 .. Len(wire) : copies[wire[a]] = 0

\* Run has returned only because it was told to.
StopInv == pc = "stopped" => cancelled

Inv ==
    TypeOK /\ Chronological /\ ResumeInv /\ TailInv /\ SkippedOnlyBeforeTail /\ StopInv

\* Later returns the later of two times.
LEMMA LaterFacts ==
    ASSUME NEW t \in Nat, NEW u \in Nat
    PROVE  /\ Later(t, u) \in {t, u} /\ t <= Later(t, u) /\ u <= Later(t, u)
           /\ t <= u => Later(t, u) = u
           /\ u <= t => Later(t, u) = t
BY DEF Later

\* Ingesting counts one more copy of what is ingested, two at most, and of nothing else.
LEMMA IngestFacts ==
    ASSUME NEW es, Ingest(es), copies \in [Entries -> 0 .. 2]
    PROVE  /\ copies' \in [Entries -> 0 .. 2]
           /\ \A i \in Entries : copies'[i] = 0 <=> copies[i] = 0 /\ i \notin es
           /\ \A i \in Entries \ es : copies'[i] = copies[i]
<1>1. ASSUME NEW i \in Entries
      PROVE  /\ copies'[i] \in 0 .. 2
             /\ copies'[i] = 0 <=> copies[i] = 0 /\ i \notin es
             /\ i \notin es => copies'[i] = copies[i]
  BY <1>1 DEF Ingest
<1>2. copies' = [i \in Entries |-> copies'[i]]
  BY DEF Ingest
<1>. QED BY <1>1, <1>2

\* Types of positions in the remote's log and of the times there.
LEMMA IndexFacts ==
    ASSUME TypeOK
    PROVE  /\ Len(remote) \in Nat /\ 1 .. Len(remote) \subseteq Entries
           /\ \A i \in 1 .. Len(remote) : remote[i] \in Times \ {0}
           /\ Times \subseteq Nat /\ Ingested \subseteq Entries
           /\ Resume \in Nat /\ lastSeen <= Resume /\ newest <= Resume
           /\ Resume \in {lastSeen, newest}
<1>1. Len(remote) \in Nat /\ 1 .. Len(remote) \subseteq Entries
  BY PullIngestAssumption, LenProperties DEF TypeOK, Entries
<1>2. \A i \in 1 .. Len(remote) : remote[i] \in Times \ {0}
  BY ElementOfSeq DEF TypeOK
<1>3. Times \subseteq Nat /\ Ingested \subseteq Entries
  BY <1>1 DEF Times, Ingested
<1>4. lastSeen \in Nat /\ newest \in Nat
  BY <1>3 DEF TypeOK
<1>. QED BY <1>1, <1>2, <1>3, <1>4, LaterFacts DEF Resume

-----------------------------------------------------------------------------
(* Each step keeps the invariant.                                          *)

\* Nothing is ingested, and Run starts from zero.
LEMMA Initially == Init => Inv
<1>. SUFFICES ASSUME Init PROVE Inv
  OBVIOUS
<1>. USE DEF Init
<1>1. Len(<<>>) = 0 /\ Len(<<1>>) = 1 /\ <<1>>[1] = 1 /\ 1 \in Times \ {0}
  BY PullIngestAssumption DEF Times
<1>2. remote \in Seq(Times \ {0}) /\ Len(remote) \in {0, 1} /\ Len(remote) <= MaxEntries
  <2>1. CASE remote = <<>>
    BY <1>1, <2>1, PullIngestAssumption
  <2>2. CASE remote = <<1>>
    BY <1>1, <2>2, PullIngestAssumption
  <2>. QED BY <2>1, <2>2
<1>3. wire \in Seq(1 .. Len(remote)) /\ Len(wire) = 0
  BY <1>1
<1>4. backoff \in 1 .. 2 * maxBackoff - 1 /\ 0 \in Times
  BY PullIngestAssumption DEF Times
<1>5. copies \in [Entries -> 0 .. 2]
  OBVIOUS
<1>6. TypeOK
  BY <1>2, <1>3, <1>4, <1>5 DEF TypeOK
<1>7. Ingested = {} /\ Resume = 0
  <2>1. \A i \in 1 .. Len(remote) : i \in Entries
    BY <1>6, IndexFacts
  <2>. QED BY <2>1 DEF Ingested, Resume, Later
<1>8. Chronological
  BY <1>1, <1>2 DEF Chronological
<1>9. ResumeInv /\ StopInv
  BY <1>7 DEF ResumeInv, StopInv
<1>10. TailInv
  BY <1>3 DEF TailInv
<1>11. SkippedOnlyBeforeTail
  <2>1. \A i \in 1 .. Len(remote) : ~(remote[i] < 0)
    BY <1>6, IndexFacts DEF Times
  <2>. QED BY <1>7, <2>1 DEF SkippedOnlyBeforeTail
<1>. QED BY <1>6, <1>8, <1>9, <1>10, <1>11 DEF Inv

\* A new entry is the newest; if a tail is up, it is the last on the wire.
LEMMA RemoteLogsStep ==
    ASSUME Inv, RemoteLogs
    PROVE  Inv'
<1>. USE DEF Inv
<1>. DEFINE L == Len(remote)
<1>1. PICK t \in Times \ {0} :
          (\A i \in 1 .. L : remote[i] <= t) /\ remote' = Append(remote, t)
  BY DEF RemoteLogs
<1>2. /\ L \in Nat /\ L < MaxEntries /\ Len(remote') = L + 1 /\ remote'[L + 1] = t
      /\ \A i \in 1 .. L : remote'[i] = remote[i]
      /\ remote' \in Seq(Times \ {0})
  BY <1>1, IndexFacts, AppendProperties DEF TypeOK, RemoteLogs
<1>3. /\ UNCHANGED <<pc, lastSeen, newest, backoff, cancelled, copies, uncovered, garbled>>
      /\ L + 1 \in Entries /\ copies[L + 1] = 0
  BY <1>2, PullIngestAssumption DEF RemoteLogs, Entries, ResumeInv, missed
<1>4. /\ Resume' = Resume
      /\ Ingested' = Ingested
  BY <1>2, <1>3 DEF Resume, Ingested
<1>5. /\ wire' \in Seq(1 .. Len(remote'))
      /\ pc # "tail" => wire' = wire
      /\ pc = "tail" => /\ Len(wire') = Len(wire) + 1 /\ wire'[Len(wire) + 1] = L + 1
                        /\ \A a \in 1 .. Len(wire) : wire'[a] = wire[a]
                        /\ Range(wire') = Range(wire) \cup {L + 1}
  <2>1. wire \in Seq(1 .. L) /\ wire \in Seq(1 .. L + 1) /\ L + 1 \in 1 .. L + 1
    BY <1>2, SeqMonotonic DEF TypeOK
  <2>2. CASE pc = "tail"
    <3>1. wire' = Append(wire, L + 1)
      BY <2>2 DEF RemoteLogs
    <3>2. Range(wire') = Range(wire) \cup {L + 1}
      BY <2>1, <3>1, RangeAppend
    <3>. QED BY <1>2, <2>1, <2>2, <3>1, <3>2, AppendProperties
  <2>3. CASE pc # "tail"
    BY <1>2, <2>1, <2>3 DEF RemoteLogs
  <2>. QED BY <2>2, <2>3
<1>. HIDE DEF L
<1>6. TypeOK'
  <2>1. Len(remote') <= MaxEntries
    BY <1>2, PullIngestAssumption
  <2>2. uncovered' \subseteq 1 .. Len(remote') /\ garbled' \subseteq 1 .. Len(remote')
    BY <1>2, <1>3 DEF TypeOK, L
  <2>. QED BY <1>2, <1>3, <1>5, <2>1, <2>2 DEF TypeOK
<1>7. Chronological'
  BY <1>1, <1>2, IndexFacts DEF Chronological, L, Times
<1>8. ResumeInv'
  <2>1. \A i \in Ingested : i \in 1 .. L
    BY DEF Ingested, L
  <2>2. \A i \in Entries : i > Len(remote') => copies'[i] = 0
    BY <1>2, <1>3 DEF ResumeInv, L, Entries
  <2>. QED BY <1>2, <1>4, <2>1, <2>2 DEF ResumeInv
<1>9. TailInv'
  <2>1. wire \in Seq(1 .. L) /\ Len(wire) \in Nat
    BY LenProperties DEF TypeOK, L
  <2>2. \A a \in 1 .. Len(wire) : wire[a] \in 1 .. L
    BY <2>1, ElementOfSeq
  <2>3. CASE pc # "tail"
    BY <1>3, <1>5, <2>3 DEF TailInv
  <2>4. CASE pc = "tail"
    <3>1. \A i \in 1 .. Len(remote') :
              copies'[i] = 0 => i \in uncovered' \cup garbled' \cup Range(wire')
      BY <1>2, <1>3, <1>5, <2>4 DEF TailInv, L
    <3>2. \A a, b \in 1 .. Len(wire') : a < b => wire'[a] < wire'[b]
      <4>1. ASSUME NEW a \in 1 .. Len(wire'), NEW b \in 1 .. Len(wire'), a < b
            PROVE  wire'[a] < wire'[b]
        <5>1. a \in 1 .. Len(wire) /\ wire'[a] = wire[a]
          BY <1>5, <2>1, <2>4, <4>1
        <5>2. CASE b \in 1 .. Len(wire)
          BY <1>5, <2>4, <4>1, <5>1, <5>2 DEF TailInv
        <5>3. CASE b = Len(wire) + 1
          BY <1>2, <1>5, <2>2, <2>4, <5>1, <5>3
        <5>. QED BY <1>5, <2>1, <2>4, <5>2, <5>3
      <4>. QED BY <4>1
    <3>3. \A a \in 1 .. Len(wire') : copies'[wire'[a]] = 0
      BY <1>3, <1>5, <2>1, <2>4 DEF TailInv
    <3>. QED BY <1>3, <2>4, <3>1, <3>2, <3>3 DEF TailInv
  <2>. QED BY <2>3, <2>4
<1>10. SkippedOnlyBeforeTail'
  <2>1. Resume <= t
    <3>1. CASE Ingested = {}
      BY <1>1, <3>1 DEF ResumeInv, Times
    <3>2. CASE Ingested # {}
      BY <1>1, <3>2 DEF ResumeInv, Ingested, L
    <3>. QED BY <3>1, <3>2
  <2>2. ASSUME NEW i \in 1 .. Len(remote'), copies'[i] = 0, remote'[i] < Resume'
        PROVE  i \in uncovered' \cup garbled'
    <3>1. i # L + 1
      BY <1>2, <1>4, <2>1, <2>2, IndexFacts DEF Times
    <3>. QED BY <1>2, <1>3, <1>4, <2>2, <3>1 DEF SkippedOnlyBeforeTail, L
  <2>. QED BY <2>2 DEF SkippedOnlyBeforeTail
<1>11. StopInv'
  BY <1>3 DEF StopInv
<1>. QED BY <1>6, <1>7, <1>8, <1>9, <1>10, <1>11

\* What both backfills do: what the response holds is all ingested, and nothing older.
LEMMA BackfillStep ==
    ASSUME Inv, pc \in {"start", "refill"}, ~cancelled, Backfill, pc' = "dial",
           UNCHANGED <<remote, wire, newest, cancelled, uncovered, garbled>>,
           backoff' \in 1 .. 2 * maxBackoff - 1
    PROVE  Inv'
<1>. USE DEF Inv
<1>. DEFINE L == Len(remote)
<1>1. /\ L \in Nat /\ 1 .. L \subseteq Entries /\ lastSeen \in Nat /\ newest \in Nat
      /\ \A i \in 1 .. L : remote[i] \in Times \ {0} /\ remote[i] \in Nat /\ remote[i] # 0
      /\ Resume = lastSeen /\ newest <= lastSeen
  BY IndexFacts, LaterFacts DEF TypeOK, TailInv, Resume, Times
<1>2. Response \subseteq 1 .. L
  BY DEF Response
<1>3. /\ copies' \in [Entries -> 0 .. 2]
      /\ \A i \in Entries : copies'[i] = 0 <=> copies[i] = 0 /\ i \notin Response
  BY IngestFacts DEF Backfill, TypeOK
<1>4. Ingested' = Ingested \cup Response
  <2>1. ASSUME NEW i \in 1 .. L PROVE copies'[i] > 0 <=> copies[i] > 0 \/ i \in Response
    <3>1. i \in Entries /\ copies[i] \in 0 .. 2 /\ copies'[i] \in 0 .. 2
      BY <1>1, <1>3 DEF TypeOK
    <3>. QED BY <1>3, <3>1
  <2>. QED BY <1>2, <2>1 DEF Ingested
<1>5. CASE Response = {}
  <2>1. lastSeen' = lastSeen /\ Ingested' = Ingested
    BY <1>4, <1>5 DEF Backfill
  <2>2. Resume' = Resume
    BY <2>1 DEF Resume
  <2>3. TypeOK'
    BY <1>3, <2>1 DEF TypeOK
  <2>4. \A i \in Entries : copies'[i] = 0 <=> copies[i] = 0
    BY <1>3, <1>5
  <2>5. Chronological' /\ StopInv'
    BY DEF Chronological, StopInv
  <2>6. ResumeInv'
    BY <2>1, <2>2, <2>4 DEF ResumeInv
  <2>7. TailInv' /\ SkippedOnlyBeforeTail'
    BY <1>1, <2>1, <2>2, <2>4, EmptySeq DEF TailInv, SkippedOnlyBeforeTail
  <2>. QED BY <2>3, <2>5, <2>6, <2>7
<1>6. CASE Response # {}
  <2>1. L \in 1 .. L /\ remote # <<>> /\ Last(remote) = remote[L]
    <3>1. \E i \in 1 .. L : TRUE
      BY <1>2, <1>6
    <3>2. L \in 1 .. L
      BY <1>1, <3>1
    <3>. QED BY <3>2, EmptySeq DEF Last
  <2>2. \A i \in 1 .. L : remote[i] <= remote[L]
    BY <1>1, <2>1 DEF Chronological
  <2>3. L \in Response
    BY <1>1, <1>2, <1>6, <2>1, <2>2 DEF Response
  <2>4. lastSeen <= remote[L]
    <3>1. lastSeen = 0 \/ remote[L] >= lastSeen
      BY <2>3 DEF Response
    <3>. QED BY <1>1, <2>1, <3>1
  <2>5. lastSeen' = remote[L]
    BY <1>1, <1>6, <2>1, <2>4, LaterFacts DEF Backfill
  <2>6. Resume' = remote[L] /\ newest' <= lastSeen'
    <3>1. newest <= remote[L]
      BY <1>1, <2>1, <2>4
    <3>. QED BY <1>1, <2>1, <2>5, <3>1, LaterFacts DEF Resume
  <2>7. TypeOK'
    <3>1. lastSeen' \in Times /\ pc' \in {"start", "dial", "tail", "wait", "refill", "stopped"}
      BY <1>1, <2>1, <2>5
    <3>. QED BY <1>3, <3>1 DEF TypeOK
  <2>8. ResumeInv'
    <3>1. L \in Ingested' /\ \A j \in Ingested' : j <= L
      BY <1>1, <1>4, <2>3 DEF Ingested
    <3>2. \A i \in Entries : i > Len(remote') => copies'[i] = 0
      <4>1. ASSUME NEW i \in Entries, i > Len(remote) PROVE copies'[i] = 0
        <5>1. ASSUME i \in 1 .. L PROVE FALSE
          BY <1>1, <4>1, <5>1
        <5>2. i \notin Response
          BY <1>2, <5>1
        <5>. QED BY <1>3, <4>1, <5>2 DEF ResumeInv
      <4>. QED BY <4>1
    <3>. QED BY <2>6, <3>1, <3>2 DEF ResumeInv
  <2>9. TailInv'
    BY <2>6, EmptySeq DEF TailInv
  <2>10. SkippedOnlyBeforeTail'
    <3>1. ASSUME NEW i \in 1 .. L, copies'[i] = 0 PROVE i \in uncovered \cup garbled
      <4>1. copies[i] = 0 /\ i \notin Response
        BY <1>1, <1>3, <3>1
      <4>2. remote[i] < Resume
        BY <1>1, <4>1 DEF Response
      <4>. QED BY <4>1, <4>2 DEF SkippedOnlyBeforeTail
    <3>. QED BY <3>1 DEF SkippedOnlyBeforeTail
  <2>. QED BY <2>7, <2>8, <2>9, <2>10 DEF Chronological, StopInv
<1>. QED BY <1>5, <1>6

\* Run moves on, and neither the entries nor the resume point do.
LEMMA PlaceStep ==
    ASSUME Inv, UNCHANGED <<remote, copies, uncovered, garbled>>,
           lastSeen' \in Times, newest' \in Times, newest' <= lastSeen', Resume' = Resume,
           pc' \in {"start", "dial", "wait", "refill", "stopped"}, wire' = <<>>,
           pc' = "stopped" => cancelled', backoff' \in 1 .. 2 * maxBackoff - 1,
           cancelled' \in BOOLEAN
    PROVE  Inv'
<1>. USE DEF Inv
<1>1. wire' \in Seq(1 .. Len(remote')) /\ Len(wire') = 0
  BY EmptySeq
<1>2. TypeOK'
  BY <1>1 DEF TypeOK
<1>3. Ingested' = Ingested
  BY DEF Ingested
<1>4. Chronological' /\ ResumeInv' /\ SkippedOnlyBeforeTail'
  BY <1>3 DEF Chronological, ResumeInv, SkippedOnlyBeforeTail
<1>5. TailInv' /\ StopInv'
  BY <1>1 DEF TailInv, StopInv
<1>. QED BY <1>2, <1>4, <1>5

\* A tail begins: what is missing now is uncovered, the rest comes over the wire.
LEMMA DialStep ==
    ASSUME Inv, Dial
    PROVE  Inv'
<1>. USE DEF Inv
<1>1. /\ pc = "dial" /\ pc' = "tail" /\ wire' = <<>> /\ newest' = lastSeen /\ lastSeen' = lastSeen
      /\ UNCHANGED <<remote, backoff, cancelled, copies, garbled>>
      /\ uncovered' = uncovered \cup {i \in 1 .. Len(remote) : copies[i] = 0}
  BY DEF Dial, missed
<1>2. /\ lastSeen \in Nat /\ newest \in Nat /\ newest <= lastSeen
      /\ lastSeen' <= newest'
  BY <1>1, IndexFacts DEF TypeOK, TailInv
<1>3. Resume' = Resume
  BY <1>1, <1>2, LaterFacts DEF Resume
<1>4. wire' \in Seq(1 .. Len(remote')) /\ Len(wire') = 0
  BY <1>1, EmptySeq
<1>5. TypeOK'
  BY <1>1, <1>4 DEF TypeOK
<1>6. Ingested' = Ingested
  BY <1>1 DEF Ingested
<1>7. Chronological' /\ ResumeInv' /\ SkippedOnlyBeforeTail' /\ StopInv'
  BY <1>1, <1>3, <1>6 DEF Chronological, ResumeInv, SkippedOnlyBeforeTail, StopInv
<1>8. TailInv'
  BY <1>1, <1>2, <1>4 DEF TailInv
<1>. QED BY <1>5, <1>7, <1>8

\* The oldest entry on the wire is ingested: it is newer than all that were, or the tail
\* has skipped nothing in front of it.
LEMMA TailReadStep ==
    ASSUME Inv, TailRead
    PROVE  Inv'
<1>. USE DEF Inv
<1>. DEFINE L == Len(remote)
            k == Head(wire)
<1>1. /\ pc = "tail" /\ wire # <<>> /\ Ingest({k}) /\ newest' = Later(newest, remote[k])
      /\ wire' = Tail(wire)
      /\ UNCHANGED <<remote, pc, lastSeen, backoff, cancelled, uncovered, garbled>>
  BY DEF TailRead, TailTakes, missed
<1>2. /\ L \in Nat /\ 1 .. L \subseteq Entries /\ lastSeen \in Nat /\ newest \in Nat
      /\ \A i \in 1 .. L : remote[i] \in Times /\ remote[i] \in Nat
      /\ lastSeen <= newest /\ Resume = newest
  BY <1>1, IndexFacts, LaterFacts DEF TypeOK, TailInv, Resume, Times
<1>3. /\ Tail(wire) \in Seq(1 .. L) /\ k \in 1 .. L /\ k = wire[1]
      /\ Range(wire) = {k} \cup Range(Tail(wire))
      /\ Len(wire) \in Nat /\ Len(Tail(wire)) = Len(wire) - 1
      /\ \A a \in 1 .. Len(Tail(wire)) : Tail(wire)[a] = wire[a + 1]
  BY <1>1, RangeHeadTail, HeadTailProperties, LenProperties DEF TypeOK
<1>4. /\ copies' \in [Entries -> 0 .. 2]
      /\ \A i \in Entries : copies'[i] = 0 <=> copies[i] = 0 /\ i # k
  BY <1>1, IngestFacts DEF TypeOK
<1>5. Ingested' = Ingested \cup {k}
  <2>1. ASSUME NEW i \in 1 .. L PROVE copies'[i] > 0 <=> copies[i] > 0 \/ i = k
    <3>1. i \in Entries /\ copies[i] \in 0 .. 2 /\ copies'[i] \in 0 .. 2
      BY <1>2, <1>4 DEF TypeOK
    <3>. QED BY <1>4, <3>1
  <2>. QED BY <1>1, <1>3, <2>1 DEF Ingested
<1>6. /\ newest' \in Times /\ newest' \in Nat /\ Resume' = newest'
      /\ newest <= newest' /\ remote[k] <= newest' /\ newest' \in {newest, remote[k]}
      /\ remote[k] <= newest => newest' = newest
      /\ newest <= remote[k] => newest' = remote[k]
  <2>1. /\ newest' \in {newest, remote[k]} /\ newest <= newest' /\ remote[k] <= newest'
        /\ remote[k] <= newest => newest' = newest
        /\ newest <= remote[k] => newest' = remote[k]
    BY <1>1, <1>2, <1>3, LaterFacts
  <2>2. newest' \in Times /\ newest' \in Nat
    BY <1>2, <1>3, <2>1 DEF TypeOK
  <2>. QED BY <1>1, <1>2, <2>1, <2>2, LaterFacts DEF Resume
<1>. HIDE DEF L, k
<1>7. TypeOK'
  BY <1>1, <1>3, <1>4, <1>6 DEF TypeOK, L
<1>8. ResumeInv'
  <2>1. \A i \in Entries : i > Len(remote') => copies'[i] = 0
    BY <1>1, <1>2, <1>3, <1>4 DEF ResumeInv, L
  <2>2. \E i \in Ingested' : (\A j \in Ingested' : j <= i) /\ remote[i] = newest'
    <3>1. CASE Ingested = {}
      <4>1. newest = 0 /\ Ingested' = {k} /\ k <= k
        BY <1>2, <1>3, <1>5, <3>1 DEF ResumeInv
      <4>. QED BY <1>2, <1>3, <1>6, <4>1
    <3>2. CASE Ingested # {}
      <4>1. PICK m \in Ingested : (\A j \in Ingested : j <= m) /\ remote[m] = newest
        BY <1>2, <3>2 DEF ResumeInv
      <4>2. m \in 1 .. L
        BY DEF Ingested, L
      <4>3. CASE m <= k
        <5>1. remote[m] <= remote[k]
          BY <1>3, <4>2, <4>3 DEF Chronological, L
        <5>2. \A j \in Ingested' : j <= k
          BY <1>3, <1>5, <4>1, <4>2, <4>3 DEF Ingested, L
        <5>. QED BY <1>5, <1>6, <4>1, <5>1, <5>2
      <4>4. CASE k < m
        <5>1. remote[k] <= remote[m]
          BY <1>3, <4>2, <4>4 DEF Chronological, L
        <5>2. \A j \in Ingested' : j <= m
          BY <1>3, <1>5, <4>1, <4>2, <4>4
        <5>. QED BY <1>5, <1>6, <4>1, <5>1, <5>2
      <4>. QED BY <1>3, <4>2, <4>3, <4>4
    <3>. QED BY <3>1, <3>2
  <2>. QED BY <1>1, <1>5, <1>6, <2>1, <2>2 DEF ResumeInv
<1>9. TailInv'
  <2>1. lastSeen' <= newest'
    BY <1>1, <1>2, <1>6
  <2>2. \A i \in 1 .. Len(remote') :
            copies'[i] = 0 => i \in uncovered' \cup garbled' \cup Range(wire')
    <3>1. \A i \in 1 .. L : copies[i] = 0 => i \in uncovered \cup garbled \cup Range(wire)
      BY <1>1 DEF TailInv, L
    <3>. QED BY <1>1, <1>2, <1>3, <1>4, <3>1 DEF L
  <2>3. \A a, b \in 1 .. Len(wire') : a < b => wire'[a] < wire'[b]
    <3>1. ASSUME NEW a \in 1 .. Len(wire'), NEW b \in 1 .. Len(wire'), a < b
          PROVE  wire'[a] < wire'[b]
      <4>1. /\ a + 1 \in 1 .. Len(wire) /\ b + 1 \in 1 .. Len(wire) /\ a + 1 < b + 1
            /\ wire'[a] = wire[a + 1] /\ wire'[b] = wire[b + 1]
        BY <1>1, <1>3, <3>1
      <4>. QED BY <4>1 DEF TailInv
    <3>. QED BY <3>1
  <2>4. ASSUME NEW a \in 1 .. Len(wire') PROVE copies'[wire'[a]] = 0
    <3>1. /\ a + 1 \in 1 .. Len(wire) /\ 1 \in 1 .. Len(wire) /\ 1 < a + 1
          /\ wire'[a] = wire[a + 1]
      BY <1>1, <1>3
    <3>2. k < wire[a + 1] /\ copies[wire[a + 1]] = 0 /\ wire[a + 1] \in 1 .. L
      BY <1>3, <3>1, ElementOfSeq DEF TailInv, TypeOK, L
    <3>. QED BY <1>2, <1>3, <1>4, <3>1, <3>2
  <2>. QED BY <1>1, <2>1, <2>2, <2>3, <2>4 DEF TailInv
<1>10. SkippedOnlyBeforeTail'
  <2>1. ASSUME NEW i \in 1 .. L, copies'[i] = 0, remote[i] < newest'
        PROVE  i \in uncovered \cup garbled
    <3>1. copies[i] = 0 /\ i # k
      BY <1>2, <1>4, <2>1
    <3>2. CASE remote[i] < newest
      BY <1>2, <3>1, <3>2 DEF SkippedOnlyBeforeTail, L
    <3>3. CASE remote[i] < remote[k]
      <4>1. i < k
        BY <1>2, <1>3, <3>3 DEF Chronological, L
      <4>2. i \notin Range(wire)
        <5>1. ASSUME NEW a \in 1 .. Len(wire) PROVE k <= wire[a] /\ wire[a] \in Nat
          <6>1. 1 \in 1 .. Len(wire) /\ wire[a] \in 1 .. L
            BY <1>3, ElementOfSeq DEF TypeOK, L
          <6>. QED BY <1>3, <6>1 DEF TailInv
        <5>2. Range(wire) = {wire[a] : a \in 1 .. Len(wire)}
          BY RangeEquality DEF TypeOK
        <5>. QED BY <1>3, <4>1, <5>1, <5>2
      <4>. QED BY <1>1, <3>1, <4>2 DEF TailInv, L
    <3>. QED BY <1>6, <2>1, <3>2, <3>3
  <2>. QED BY <1>1, <1>6, <2>1 DEF SkippedOnlyBeforeTail, L
<1>. QED BY <1>1, <1>7, <1>8, <1>9, <1>10 DEF Chronological, StopInv

\* A message that does not decode is off the wire, and its entry is garbled: it stays
\* accounted for if it is not ingested.
LEMMA TailSkipsStep ==
    ASSUME Inv, TailSkips
    PROVE  Inv'
<1>. USE DEF Inv
<1>1. /\ pc = "tail" /\ wire # <<>> /\ wire' = Tail(wire)
      /\ garbled' = garbled \cup {Head(wire)}
      /\ UNCHANGED <<remote, pc, lastSeen, newest, backoff, cancelled, copies, uncovered>>
  BY DEF TailSkips
<1>2. /\ Tail(wire) \in Seq(1 .. Len(remote)) /\ Head(wire) \in 1 .. Len(remote)
      /\ Range(wire) = {Head(wire)} \cup Range(Tail(wire))
      /\ Len(wire) \in Nat /\ Len(Tail(wire)) = Len(wire) - 1
      /\ \A a \in 1 .. Len(Tail(wire)) : Tail(wire)[a] = wire[a + 1]
  BY <1>1, RangeHeadTail, HeadTailProperties, LenProperties DEF TypeOK
<1>3. Resume' = Resume /\ Ingested' = Ingested
  BY <1>1 DEF Resume, Ingested
<1>4. TypeOK'
  BY <1>1, <1>2 DEF TypeOK
<1>5. Chronological' /\ ResumeInv' /\ StopInv'
  BY <1>1, <1>3 DEF Chronological, ResumeInv, StopInv
<1>6. SkippedOnlyBeforeTail'
  BY <1>1, <1>3 DEF SkippedOnlyBeforeTail
<1>7. TailInv'
  <2>1. \A i \in 1 .. Len(remote) :
            copies[i] = 0 => i \in uncovered \cup garbled' \cup Range(Tail(wire))
    BY <1>1, <1>2 DEF TailInv
  <2>2. \A a \in 1 .. Len(Tail(wire)) :
            /\ a + 1 \in 1 .. Len(wire) /\ Tail(wire)[a] = wire[a + 1]
            /\ copies[wire[a + 1]] = 0
    BY <1>2 DEF TailInv
  <2>3. \A a, b \in 1 .. Len(Tail(wire)) : a < b => Tail(wire)[a] < Tail(wire)[b]
    <3>1. ASSUME NEW a \in 1 .. Len(Tail(wire)), NEW b \in 1 .. Len(Tail(wire)), a < b
          PROVE  Tail(wire)[a] < Tail(wire)[b]
      <4>1. a + 1 \in 1 .. Len(wire) /\ b + 1 \in 1 .. Len(wire) /\ a + 1 < b + 1
        BY <1>2, <3>1
      <4>. QED BY <2>2, <4>1 DEF TailInv
    <3>. QED BY <3>1
  <2>4. lastSeen <= newest
    BY <1>1 DEF TailInv
  <2>5. \A a \in 1 .. Len(Tail(wire)) : copies[Tail(wire)[a]] = 0
    BY <2>2
  <2>. QED BY <1>1, <2>1, <2>3, <2>4, <2>5 DEF TailInv
<1>. QED BY <1>4, <1>5, <1>6, <1>7

\* Every step keeps the invariant.
LEMMA Inductive == Inv /\ [Next]_vars => Inv'
<1>. SUFFICES ASSUME Inv, [Next]_vars PROVE Inv'
  OBVIOUS
<1>. USE DEF Inv
<1>1. /\ lastSeen \in Nat /\ newest \in Nat /\ backoff \in 1 .. 2 * maxBackoff - 1
      /\ pc # "tail" => newest <= lastSeen /\ wire = <<>>
  BY IndexFacts DEF TypeOK, TailInv
<1>2. CASE Cancel
  <2>1. /\ UNCHANGED <<source, pc, lastSeen, newest, backoff, copies, uncovered, garbled>>
        /\ cancelled' = TRUE
    BY <1>2 DEF Cancel, missed
  <2>2. Resume' = Resume /\ Ingested' = Ingested
    BY <2>1 DEF Resume, Ingested, source
  <2>3. TypeOK' /\ StopInv'
    BY <2>1 DEF TypeOK, StopInv, source
  <2>. QED BY <2>1, <2>2, <2>3
           DEF Chronological, ResumeInv, TailInv, SkippedOnlyBeforeTail, source
<1>3. CASE UNCHANGED vars
  <2>1. UNCHANGED <<remote, wire, pc, lastSeen, newest, backoff, cancelled, copies,
                    uncovered, garbled>>
    BY <1>3 DEF vars, source, missed
  <2>2. Resume' = Resume /\ Ingested' = Ingested
    BY <2>1 DEF Resume, Ingested
  <2>3. TypeOK' /\ StopInv'
    BY <2>1 DEF TypeOK, StopInv
  <2>. QED BY <2>1, <2>2, <2>3 DEF Chronological, ResumeInv, TailInv, SkippedOnlyBeforeTail
<1>4. CASE Start \/ Refill
  <2>1. /\ pc \in {"start", "refill"} /\ pc' = "dial" /\ backoff' \in {1, backoff}
        /\ UNCHANGED <<remote, wire, newest, cancelled, uncovered, garbled>>
        /\ (~cancelled /\ Backfill) \/ UNCHANGED <<lastSeen, copies>>
    BY <1>4 DEF Start, Refill, source, missed
  <2>2. backoff' \in 1 .. 2 * maxBackoff - 1
    BY <1>1, <2>1, PullIngestAssumption
  <2>3. CASE ~cancelled /\ Backfill
    BY <2>1, <2>2, <2>3, BackfillStep
  <2>4. CASE UNCHANGED <<lastSeen, copies>>
    <3>1. Resume' = Resume /\ wire' = <<>> /\ newest' <= lastSeen'
      BY <1>1, <2>1, <2>4 DEF Resume
    <3>. QED BY <2>1, <2>2, <2>4, <3>1, PlaceStep DEF TypeOK
  <2>. QED BY <2>1, <2>3, <2>4
<1>5. CASE StopAtTop \/ DialFails \/ StopInWait \/ WaitOver
  <2>1. /\ pc \in {"dial", "wait"} /\ pc' \in {"stopped", "wait", "refill"}
        /\ pc' = "stopped" => cancelled
        /\ UNCHANGED <<remote, wire, lastSeen, newest, cancelled, copies, uncovered, garbled>>
    BY <1>5 DEF StopAtTop, DialFails, StopInWait, WaitOver, source, missed
  <2>2. backoff' \in 1 .. 2 * maxBackoff - 1
    BY <1>1, <1>5, PullIngestAssumption DEF StopAtTop, DialFails, StopInWait, WaitOver
  <2>3. Resume' = Resume /\ wire' = <<>> /\ newest' <= lastSeen'
    BY <1>1, <2>1 DEF Resume
  <2>. QED BY <2>1, <2>2, <2>3, PlaceStep DEF TypeOK
<1>6. CASE TailCancelled \/ TailDrops
  <2>1. /\ lastSeen' = Later(lastSeen, newest) /\ newest' = newest /\ wire' = <<>>
        /\ pc' = IF cancelled THEN "stopped" ELSE "wait"
        /\ UNCHANGED <<remote, backoff, cancelled, copies, uncovered, garbled>>
    BY <1>6 DEF TailCancelled, TailDrops, TailReturns, missed
  <2>2. lastSeen' \in {lastSeen, newest} /\ newest' <= lastSeen' /\ Resume' = Resume
    BY <1>1, <2>1, LaterFacts DEF Resume
  <2>. QED BY <1>1, <2>1, <2>2, PlaceStep DEF TypeOK
<1>. QED
  BY <1>2, <1>3, <1>4, <1>5, <1>6, RemoteLogsStep, DialStep, TailReadStep, TailSkipsStep
     DEF Next, Run

-----------------------------------------------------------------------------
(* The theorems.                                                           *)

\* Inv holds in every reachable state: the invariant the others follow from.
THEOREM Invariance == SafeSpec => []Inv
<1>. QED BY Initially, Inductive, PTL DEF SafeSpec

\* Run is only ever at one of its places, with times the remote uses and a pause that
\* stays under twice maxBackoff, however many times it is doubled.
THEOREM TypeCorrect == SafeSpec => []TypeOK
<1>1. Inv => TypeOK
  BY DEF Inv
<1>. QED BY <1>1, Invariance, PTL

\* Whatever fails, the point Run goes on from is the timestamp of the newest entry it
\* has handed to the manager: lastSeen and newest lose nothing between backfill and tail.
THEOREM Resumption == SafeSpec => []ResumesAtNewestIngested
<1>1. ASSUME Inv PROVE ResumesAtNewestIngested
  <2>1. CASE Ingested = {}
    BY <1>1, <2>1 DEF Inv, ResumeInv, ResumesAtNewestIngested
  <2>2. CASE Ingested # {}
    <3>. DEFINE top == CHOOSE i \in Ingested : \A j \in Ingested : j <= i
    <3>1. PICK m \in Ingested : (\A j \in Ingested : j <= m) /\ remote[m] = Resume
      BY <1>1, <2>2 DEF Inv, ResumeInv
    <3>2. top \in Ingested /\ \A j \in Ingested : j <= top
      BY <3>1
    <3>3. top = m
      BY <1>1, <3>1, <3>2 DEF Ingested, Inv
    <3>4. Resume = remote[top]
      BY <3>1, <3>3
    <3>. HIDE DEF top
    <3>5. Resume = IF Ingested = {} THEN 0 ELSE remote[top]
      BY <2>2, <3>4
    <3>. QED BY <3>5, Zenon DEF ResumesAtNewestIngested, top
  <2>. QED BY <2>1, <2>2
<1>. QED BY <1>1, Invariance, PTL

\* A tail hands over everything it is sent that decodes, in order: an entry passed over
\* was missing when some tail began, which is the gap between a backfill and the tail
\* after it, or came in a message that did not decode.
THEOREM Skipping == SafeSpec => []SkippedOnlyBeforeTail
<1>1. Inv => SkippedOnlyBeforeTail
  BY DEF Inv
<1>. QED BY <1>1, Invariance, PTL

\* Run does not return unless its context is cancelled, whatever the remote does: the
\* safety half of CancelStops.
THEOREM StopsOnlyWhenTold == SafeSpec => [](pc = "stopped" => cancelled)
<1>1. Inv => (pc = "stopped" => cancelled)
  BY DEF Inv, StopInv
<1>. QED BY <1>1, Invariance, PTL

\* No step ingests again what is older than the last backfill's newest entry.
LEMMA OldEntriesOnce ==
    ASSUME Inv, [Next]_vars, NEW i \in Ingested, remote[i] < lastSeen
    PROVE  copies'[i] = copies[i]
<1>. USE DEF Inv
<1>1. /\ i \in 1 .. Len(remote) /\ i \in Entries /\ copies[i] # 0 /\ lastSeen \in Nat
      /\ remote[i] \in Nat /\ remote[i] # 0 /\ copies \in [Entries -> 0 .. 2]
  <2>1. i \in 1 .. Len(remote) /\ i \in Entries /\ copies \in [Entries -> 0 .. 2]
    BY IndexFacts DEF Ingested, TypeOK
  <2>2. remote[i] \in Times \ {0} /\ lastSeen \in Times
    BY <2>1, IndexFacts DEF TypeOK
  <2>3. copies[i] > 0
    BY DEF Ingested
  <2>. QED BY <2>1, <2>2, <2>3, IndexFacts DEF Times
<1>2. CASE UNCHANGED copies
  BY <1>2
<1>3. CASE Backfill
  <2>1. i \notin Response
    BY <1>1 DEF Response
  <2>. QED BY <1>1, <1>3, <2>1, IngestFacts DEF Backfill
<1>4. CASE TailRead
  <2>1. wire \in Seq(1 .. Len(remote)) /\ wire # <<>> /\ Ingest({Head(wire)})
    BY <1>4 DEF TailRead, TailTakes, TypeOK
  <2>2. Head(wire) = wire[1] /\ 1 \in 1 .. Len(wire)
    BY <2>1, EmptySeq, LenProperties
  <2>3. i # Head(wire)
    BY <1>1, <2>2 DEF TailInv
  <2>. QED BY <1>1, <2>1, <2>3, IngestFacts
<1>5. CASE RemoteLogs \/ Cancel \/ StopAtTop \/ Dial \/ DialFails \/ StopInWait \/ WaitOver
           \/ TailSkips \/ TailCancelled \/ TailDrops \/ UNCHANGED vars
  BY <1>2, <1>5 DEF RemoteLogs, Cancel, StopAtTop, Dial, DialFails, StopInWait, WaitOver,
                    TailSkips, TailCancelled, TailDrops, TailReturns, vars
<1>6. CASE Start \/ Refill
  BY <1>2, <1>3, <1>6 DEF Start, Refill
<1>. QED BY <1>4, <1>5, <1>6 DEF Next, Run

\* No entry that is older than the last backfill's newest is ever ingested again: not by a
\* later backfill, which asks for lastSeen onwards, and not by a tail, which is sent only
\* what is new.
THEOREM BoundaryDuplicates == SafeSpec => DuplicatesOnlyAtBoundary
<1>1. Inv /\ [Next]_vars =>
          [\A i \in Ingested : remote[i] < lastSeen => copies'[i] = copies[i]]_vars
  BY OldEntriesOnce
<1>. QED BY <1>1, Invariance, PTL DEF SafeSpec, DuplicatesOnlyAtBoundary

=============================================================================
