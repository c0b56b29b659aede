--------------------------- MODULE ManagerProofs ----------------------------
(***************************************************************************)
(* Theorems about Manager, for every set of goroutines, every number of    *)
(* calls and handlers, and every capacity of the channel.                  *)
(***************************************************************************)
EXTENDS Manager, SequenceFacts, FiniteSetTheorems

-----------------------------------------------------------------------------
(* Type correctness.                                                       *)

\* The initial state has the types.
LEMMA InitTypeOK == ASSUME Init PROVE TypeOK
<1>. USE DEF Init
<1>1. <<>> \in Seq(Entry) /\ <<>> \in Seq(Ids) /\ Len(<<>>) = 0
  BY EmptySeq
<1>2. 0 \in 0 .. MaxHandlers /\ 0 \in 0 .. MaxWrites
  BY ManagerAssumption
<1>3. made \in [Producers -> 0 .. MaxWrites] /\ call \in [Producers -> {"idle", "rlock", "send"}]
  BY <1>2
<1>4. received \in [Ids -> Seq(Entry)] /\ since \in [Ids -> Int]
  BY <1>1
<1>5. fate \in [Entry -> {"none", "accepted", "dropped", "refused", "lost"}]
  OBVIOUS
<1>6. \A p \in Producers : call[p] # "idle" => made[p] > 0
  OBVIOUS
<1>7. dropPolicy \in DropPolicy /\ queueCap \in QueueSizes /\ dropped \in Nat
  OBVIOUS
<1>8. /\ queue \in Seq(Entry) /\ held \in Seq(Entry) /\ written \in Seq(Entry)
      /\ handlers \in Seq(Ids) /\ todo \in Seq(Ids)
      /\ Len(held) = IF loop \in {"receive", "exited"} THEN 0 ELSE 1
  BY <1>1
<1>9. /\ queueOpen \in BOOLEAN /\ closed \in BOOLEAN /\ writerOpen \in BOOLEAN
      /\ nextHandler \in 0 .. MaxHandlers
      /\ hwriter \in Ids \cup {NoId}
      /\ loop \in {"receive", "write", "rlock", "fanout", "exited"}
      /\ closer \in {"idle", "lock", "wait", "returned"}
  BY <1>2
<1>. HIDE DEF Init
<1>. QED BY <1>3, <1>4, <1>5, <1>6, <1>7, <1>8, <1>9 DEF TypeOK

\* Every enqueue step keeps the types.
LEMMA EnqueueTypeOK ==
    ASSUME TypeOK, NEW p \in Producers, Enqueue(p)
    PROVE  TypeOK'
<1>1. Current(p) \in Entry \/ call[p] = "idle"
  BY ManagerAssumption DEF TypeOK, Current, Entry
<1>2. CASE Refuse(p)
  BY <1>1, <1>2 DEF Refuse, TypeOK, config, channel, registry, callers, writing, closing
<1>3. CASE Admit(p)
  BY <1>1, <1>3 DEF Admit, Enter, TypeOK, config, channel, registry, callers, writing, closing
<1>4. CASE SendBuffered(p)
  BY <1>1, <1>4 DEF SendBuffered, Buffer, TypeOK, config, channel, registry, callers, writing,
            closing
<1>5. CASE SendDirect(p)
  BY <1>1, <1>5 DEF SendDirect, TypeOK, config, channel, registry, callers, writing, closing
<1>6. CASE Drop(p)
  BY <1>1, <1>6 DEF Drop, Discard, TypeOK, config, channel, registry, callers, writing, closing
<1>. QED BY <1>2, <1>3, <1>4, <1>5, <1>6 DEF Enqueue

\* The write loop keeps the types.
LEMMA RunTypeOK ==
    ASSUME TypeOK, RunStep
    PROVE  TypeOK'
<1>1. CASE Receive
  BY <1>1 DEF Receive, TypeOK, config, channel, registry, callers, writing, closing
<1>2. CASE LoopExit
  BY <1>2 DEF LoopExit, ExitOnceClosed, TypeOK, config, channel, registry, callers, writing, closing
<1>3. CASE WriteOK
  BY <1>3 DEF WriteOK, TypeOK, config, channel, registry, callers, writing, closing
<1>4. CASE WriteFail
  <2>. USE <1>4 DEF WriteFail, LoseHeld
  <2>1. held' \in Seq(Entry) /\ Len(held') = 0
    BY EmptySeq
  <2>2. fate' \in [Entry -> {"none", "accepted", "dropped", "refused", "lost"}]
    BY DEF TypeOK
  <2>. QED BY <2>1, <2>2 DEF TypeOK, config, channel, registry, callers, writing, closing
<1>5. CASE FanOutRLock
  BY <1>5 DEF FanOutRLock, TypeOK, config, channel, registry, callers, writing, closing
<1>6. CASE Deliver
  BY <1>6 DEF Deliver, TypeOK, config, channel, registry, callers, writing, closing
<1>7. CASE FanOutDone
  BY <1>7 DEF FanOutDone, TypeOK, config, channel, registry, callers, writing, closing
<1>. QED BY <1>1, <1>2, <1>3, <1>4, <1>5, <1>6, <1>7 DEF RunStep

\* Registering and unregistering keep the types.
LEMMA RegistryTypeOK ==
    ASSUME TypeOK, RegistryStep
    PROVE  TypeOK'
<1>1. CASE RegisterCall
  <2>1. hwriter' \in Ids
    BY <1>1, ManagerAssumption DEF RegisterCall, TypeOK, Ids
  <2>. QED BY <1>1, <2>1 DEF RegisterCall, TypeOK, config, channel, registry, callers, writing,
            closing
<1>2. CASE Register
  <2>1. nextHandler \in Ids /\ nextHandler' \in 0 .. MaxHandlers
    BY <1>2, ManagerAssumption DEF Register, TypeOK, Ids, NoId
  <2>2. handlers' \in Seq(Ids)
    BY <1>2, <2>1, AppendProperties DEF Register, TypeOK
  <2>3. since' \in [Ids -> Int]
    BY <1>2, <2>1 DEF Register, TypeOK
  <2>4. hwriter' \in Ids \cup {NoId}
    BY <1>2 DEF Register
  <2>5. UNCHANGED <<config, channel, callers, writing, closing, written, fate, received>>
    BY <1>2 DEF Register
  <2>. QED BY <2>1, <2>2, <2>3, <2>4, <2>5
           DEF TypeOK, config, channel, callers, writing, closing
<1>3. ASSUME NEW id \in Ids, UnregisterCall(id) PROVE TypeOK'
  BY <1>3 DEF UnregisterCall, TypeOK, config, channel, registry, callers, writing, closing
<1>4. CASE Unregister
  <2>1. handlers' \in Seq(Ids)
    <3>1. PICK i \in 1 .. Len(handlers) : handlers' = RemoveAt(handlers, i)
      BY <1>4 DEF Unregister
    <3>2. handlers \in Seq(Ids)
      BY DEF TypeOK
    <3>. QED BY <3>1, <3>2, RemoveAtSeq
  <2>. QED BY <1>4, <2>1 DEF Unregister, TypeOK, config, channel, registry, callers, writing,
            closing
<1>. QED BY <1>1, <1>2, <1>3, <1>4 DEF RegistryStep

\* Close keeps the types.
LEMMA CloseTypeOK ==
    ASSUME TypeOK, CloseStep
    PROVE  TypeOK'
BY DEF CloseStep, CloseCall, CloseLock, LockedSection, CloseReturn, CloseWriter, TypeOK, config,
       channel, registry,
       callers, writing, closing

\* Every step keeps the types.
LEMMA NextTypeOK == ASSUME TypeOK, [Next]_vars PROVE TypeOK'
<1>1. ASSUME NEW p \in Producers, WriteLog(p) PROVE TypeOK'
  BY <1>1, ManagerAssumption DEF WriteLog, TypeOK, config, channel, registry, callers, writing,
            closing
<1>2. CASE UNCHANGED vars
  BY <1>2 DEF TypeOK, vars, config, channel, registry, callers, writing, closing
<1>. QED BY <1>1, <1>2, EnqueueTypeOK, RunTypeOK, RegistryTypeOK, CloseTypeOK DEF Next, Terminated

\* Every field and every goroutine's place stays within its type.
THEOREM TypeCorrect == SafeSpec => []TypeOK
BY InitTypeOK, NextTypeOK, PTL DEF SafeSpec

-----------------------------------------------------------------------------
(***************************************************************************)
(* The close protocol.  A caller that is past the check of m.closed keeps  *)
(* the closer out until it has returned, so the channel is closed only     *)
(* when nobody can still send; the loop leaves only a closed and empty     *)
(* channel, which nobody fills again; the writer is closed after that.     *)
(***************************************************************************)

CloseInv ==
    /\ closed <=> closer \in {"wait", "returned"}
    /\ queueOpen <=> ~closed
    /\ \A p \in Producers : call[p] = "send" => ~closed
    /\ loop = "exited" => closed /\ queue = <<>>
    /\ closer = "returned" => loop = "exited"
    /\ writerOpen <=> closer # "returned"
    /\ Len(queue) <= queueCap

\* Nobody has called Close yet.
LEMMA InitCloseInv == ASSUME Init PROVE CloseInv
<1>1. Len(queue) = 0 /\ queueCap \in Nat
  BY ManagerAssumption, EmptySeq DEF Init
<1>2. \A p \in Producers : call[p] # "send"
  BY DEF Init
<1>3. /\ closer = "idle" /\ loop = "receive"
      /\ closed = FALSE /\ queueOpen = TRUE /\ writerOpen = TRUE
  BY DEF Init
<1>4. /\ ~closed /\ queueOpen /\ writerOpen
      /\ closer \notin {"wait", "returned"} /\ loop # "exited"
  BY <1>3
<1>5. Len(queue) <= queueCap
  BY <1>1
<1>. QED BY <1>2, <1>4, <1>5 DEF CloseInv

\* A caller gets past its check only while Close has not got the lock.
LEMMA EnqueueCloseInv ==
    ASSUME TypeOK, CloseInv, NEW p \in Producers, Enqueue(p)
    PROVE  CloseInv'
<1>. USE DEF TypeOK, CloseInv, config, channel, registry, callers, writing, closing
<1>1. CASE Refuse(p)
  BY <1>1 DEF Refuse
<1>2. CASE Admit(p)
  BY <1>2 DEF Admit, Enter
<1>3. CASE SendBuffered(p)
  <2>1. Len(queue') = Len(queue) + 1 /\ Len(queue) \in Nat
    BY <1>3, LenProperties, AppendProperties DEF SendBuffered, Buffer
  <2>2. Len(queue') <= queueCap'
    BY <1>3, <2>1, ManagerAssumption DEF SendBuffered, Buffer
  <2>3. ~closed /\ loop # "exited" /\ UNCHANGED <<loop, closed, closer, queueOpen, writerOpen>>
    BY <1>3 DEF SendBuffered, Buffer
  <2>4. \A q \in Producers : call'[q] = "send" => ~closed'
    BY <1>3 DEF SendBuffered, Buffer
  <2>. QED BY <2>2, <2>3, <2>4
<1>4. CASE SendDirect(p)
  BY <1>4 DEF SendDirect
<1>5. CASE Drop(p)
  BY <1>5 DEF Drop, Discard
<1>. QED BY <1>1, <1>2, <1>3, <1>4, <1>5 DEF Enqueue

\* The loop exits only when the queue is closed and empty.
LEMMA RunCloseInv ==
    ASSUME TypeOK, CloseInv, RunStep
    PROVE  CloseInv'
<1>. USE DEF TypeOK, CloseInv, config, channel, registry, callers, writing, closing
<1>1. CASE Receive
  <2>1. Len(queue') <= queueCap'
    BY <1>1, ManagerAssumption, LenProperties, HeadTailProperties DEF Receive
  <2>. QED BY <1>1, <2>1 DEF Receive
<1>2. CASE LoopExit
  BY <1>2 DEF LoopExit, ExitOnceClosed
<1>3. CASE WriteOK
  BY <1>3 DEF WriteOK
<1>4. CASE WriteFail
  BY <1>4 DEF WriteFail, LoseHeld
<1>5. CASE FanOutRLock
  BY <1>5 DEF FanOutRLock
<1>6. CASE Deliver
  BY <1>6 DEF Deliver
<1>7. CASE FanOutDone
  BY <1>7 DEF FanOutDone
<1>. QED BY <1>1, <1>2, <1>3, <1>4, <1>5, <1>6, <1>7 DEF RunStep

\* Every step keeps the close protocol.
LEMMA NextCloseInv == ASSUME TypeOK, CloseInv, [Next]_vars PROVE CloseInv'
<1>1. ASSUME NEW p \in Producers, WriteLog(p) PROVE CloseInv'
  BY <1>1 DEF WriteLog, TypeOK, CloseInv, config, channel, registry, writing, closing
<1>2. CASE RegistryStep
  <2>1. UNCHANGED <<closed, queueOpen, queue, queueCap, call, loop, closer, writerOpen>>
    BY <1>2 DEF RegistryStep, RegisterCall, Register, UnregisterCall, Unregister,
                config, channel, callers, writing, closing
  <2>. QED BY <2>1 DEF CloseInv
<1>3. CASE CloseStep
  <2>. USE DEF TypeOK, CloseInv, config, channel, callers, writing
  <2>1. CASE CloseCall
    BY <2>1 DEF CloseCall
  <2>2. CASE CloseLock
    BY <2>2 DEF CloseLock, LockedSection
  <2>3. CASE CloseReturn
    BY <2>3 DEF CloseReturn, CloseWriter
  <2>. QED BY <1>3, <2>1, <2>2, <2>3 DEF CloseStep
<1>4. CASE UNCHANGED vars
  BY <1>4 DEF CloseInv, vars, config, channel, callers, writing, closing
<1>. QED BY <1>1, <1>2, <1>3, <1>4, EnqueueCloseInv, RunCloseInv DEF Next, Terminated

\* Types and close protocol hold in every reachable state.
LEMMA CloseInvariant == SafeSpec => [](TypeOK /\ CloseInv)
<1>1. Init => TypeOK /\ CloseInv
  BY InitTypeOK, InitCloseInv
<1>2. TypeOK /\ CloseInv /\ [Next]_vars => (TypeOK /\ CloseInv)'
  BY NextTypeOK, NextCloseInv
<1>. QED BY <1>1, <1>2, PTL DEF SafeSpec

\* No goroutine ever sends on the closed channel, however calls and Close interleave.
THEOREM SendSafety == SafeSpec => []NoSendOnClosedQueue
<1>1. CloseInv => NoSendOnClosedQueue
  BY DEF CloseInv, NoSendOnClosedQueue
<1>. QED BY <1>1, CloseInvariant, PTL

\* The writer is closed only when the loop has stopped using it.
THEOREM WriterSafety == SafeSpec => []NoWriteAfterWriterClose
<1>1. CloseInv => NoWriteAfterWriterClose
  BY DEF CloseInv, NoWriteAfterWriterClose
<1>. QED BY <1>1, CloseInvariant, PTL

-----------------------------------------------------------------------------
(***************************************************************************)
(* The log: what is accepted, in which order, and what became of the rest. *)
(* A caller's current entry is not in the log yet and every entry of its   *)
(* later calls has no fate, so appending keeps the order; a lost entry     *)
(* occurs only once, so losing it takes it out of the log for good.        *)
(***************************************************************************)

Fresh ==
    \A p \in Producers :
        /\ \A n \in 1 .. MaxWrites : n > made[p] => fate[<<p, n>>] = "none"
        /\ call[p] # "idle" => fate[Current(p)] = "none"

Accepted == \A e \in Entry : fate[e] = "accepted" <=> e \in Range(Log)

DropCount ==
    /\ dropped = Cardinality({e \in Entry : fate[e] = "dropped"})
    /\ dropPolicy = "Block" => {e \in Entry : fate[e] = "dropped"} = {}

LogInv == Fresh /\ Ordered(Log) /\ Accepted /\ DropCount

\* No entry occurs twice in an ordered log.
LEMMA OrderedInjective ==
    ASSUME NEW s \in Seq(Entry), Ordered(s),
           NEW i \in 1 .. Len(s), NEW j \in 1 .. Len(s), s[i] = s[j]
    PROVE  i = j
<1>1. s[i] \in Entry
  BY ElementOfSeq
<1>2. s[i][2] \in 1 .. MaxWrites
  BY <1>1 DEF Entry
<1>3. Len(s) \in Nat
  BY LenProperties
<1>4. ~(i < j)
  BY <1>2, ManagerAssumption DEF Ordered
<1>5. ~(j < i)
  BY <1>2, ManagerAssumption DEF Ordered
<1>. QED BY <1>3, <1>4, <1>5

\* Appending an entry later than every one of the same goroutine.
LEMMA OrderedAppend ==
    ASSUME NEW s \in Seq(Entry), Ordered(s), NEW e \in Entry,
           \A i \in 1 .. Len(s) : s[i][1] = e[1] => s[i][2] < e[2]
    PROVE  Ordered(Append(s, e))
<1>. DEFINE t == Append(s, e)
<1>1. /\ Len(t) = Len(s) + 1 /\ Len(s) \in Nat
      /\ \A i \in 1 .. Len(s) : t[i] = s[i]
      /\ t[Len(s) + 1] = e
  BY AppendProperties, LenProperties
<1>. HIDE DEF t
<1>2. ASSUME NEW i \in 1 .. Len(t), NEW j \in 1 .. Len(t), i < j, t[i][1] = t[j][1]
      PROVE  t[i][2] < t[j][2]
  <2>1. i \in 1 .. Len(s) /\ t[i] = s[i]
    BY <1>1, <1>2
  <2>2. CASE j \in 1 .. Len(s)
    BY <1>1, <1>2, <2>1, <2>2 DEF Ordered
  <2>3. CASE j = Len(s) + 1
    BY <1>1, <1>2, <2>1, <2>3
  <2>. QED BY <1>1, <2>2, <2>3
<1>3. Ordered(t)
  BY <1>2 DEF Ordered
<1>. QED BY <1>3 DEF t

\* An ordered log stays ordered when one entry is taken out.
LEMMA OrderedWithout ==
    ASSUME NEW s \in Seq(Entry), NEW e \in Entry, NEW u \in Seq(Entry),
           Ordered(s \o (<<e>> \o u))
    PROVE  /\ Ordered(s \o u)
           /\ Range(s \o u) = Range(s \o (<<e>> \o u)) \ {e}
<1>. DEFINE t == s \o (<<e>> \o u)
            r == s \o u
            m(i) == IF i <= Len(s) THEN i ELSE i + 1
<1>1. /\ r \in Seq(Entry) /\ t \in Seq(Entry)
      /\ Len(s) \in Nat /\ Len(r) \in Nat /\ Len(s) <= Len(r)
      /\ Len(t) = Len(r) + 1
      /\ \A i \in 1 .. Len(r) : r[i] = t[m(i)]
      /\ t[Len(s) + 1] = e
  BY SMTT(30), WithoutMiddle
<1>0. Ordered(t)
  OBVIOUS
<1>. HIDE DEF t, r
<1>2. \A i \in 1 .. Len(r) : m(i) \in 1 .. Len(t) /\ m(i) # Len(s) + 1
  BY <1>1
<1>3. Ordered(r)
  <2>1. ASSUME NEW i \in 1 .. Len(r), NEW j \in 1 .. Len(r), i < j, r[i][1] = r[j][1]
        PROVE  r[i][2] < r[j][2]
    <3>1. m(i) < m(j)
      BY <1>1, <2>1
    <3>2. m(i) \in 1 .. Len(t) /\ m(j) \in 1 .. Len(t) /\ r[i] = t[m(i)] /\ r[j] = t[m(j)]
      BY <1>1, <1>2
    <3>. HIDE DEF m
    <3>. QED BY <1>0, <2>1, <3>1, <3>2 DEF Ordered
  <2>. QED BY <2>1 DEF Ordered
<1>4. Range(r) = {r[i] : i \in 1 .. Len(r)} /\ Range(t) = {t[i] : i \in 1 .. Len(t)}
  BY <1>1, RangeEquality
<1>5. ASSUME NEW x \in Range(r) PROVE x \in Range(t) /\ x # e
  <2>1. PICK i \in 1 .. Len(r) : x = t[m(i)]
    BY <1>1, <1>4
  <2>2. m(i) \in 1 .. Len(t) /\ m(i) # Len(s) + 1 /\ Len(s) + 1 \in 1 .. Len(t)
    BY <1>1, <1>2
  <2>. HIDE DEF m
  <2>3. t[m(i)] # t[Len(s) + 1]
    BY <1>0, <1>1, <2>2, OrderedInjective
  <2>. QED BY <1>1, <1>4, <2>1, <2>2, <2>3
<1>6. ASSUME NEW x \in Range(t), x # e PROVE x \in Range(r)
  <2>1. PICK j \in 1 .. Len(t) : x = t[j]
    BY <1>4
  <2>2. PICK i \in 1 .. Len(r) : m(i) = j
    <3>1. CASE j <= Len(s)
      BY <1>1, <3>1
    <3>2. CASE j > Len(s)
      <4>1. j - 1 \in 1 .. Len(r) /\ j - 1 > Len(s)
        BY <1>1, <1>6, <2>1, <3>2
      <4>. QED BY SMTT(30), <1>1, <4>1
    <3>. QED BY <1>1, <3>1, <3>2
  <2>. QED BY <1>1, <1>4, <2>1, <2>2
<1>7. Range(r) = Range(t) \ {e}
  BY <1>5, <1>6
<1>. QED BY <1>3, <1>7 DEF r, t

-----------------------------------------------------------------------------
(* What each step does to the entries accepted and not yet written.        *)

\* While it writes, the loop holds exactly one entry.
LEMMA HeldSingleton ==
    ASSUME TypeOK, loop = "write"
    PROVE  Head(held) \in Entry /\ held = <<Head(held)>>
<1>1. held \in Seq(Entry) /\ Len(held) = 1
  BY DEF TypeOK
<1>2. held[1] \in Entry /\ Head(held) = held[1]
  BY <1>1, ElementOfSeq
<1>3. <<held[1]>> \in Seq(Entry) /\ Len(<<held[1]>>) = 1 /\ <<held[1]>>[1] = held[1]
  BY <1>2
<1>4. held = <<held[1]>>
  BY <1>1, <1>3, SeqEqual
<1>. QED BY <1>2, <1>4

\* A call under way has an entry.
LEMMA CurrentInEntry ==
    ASSUME TypeOK, NEW p \in Producers, call[p] # "idle"
    PROVE  Current(p) \in Entry
<1>1. made[p] \in 0 .. MaxWrites /\ made[p] > 0
  BY DEF TypeOK
<1>2. made[p] \in 1 .. MaxWrites
  BY <1>1, ManagerAssumption
<1>. QED BY <1>2 DEF Current, Entry

\* What is held and queued, and the whole log, are sequences of entries.
LEMMA UnwrittenType ==
    ASSUME TypeOK
    PROVE  Unwritten \in Seq(Entry) /\ Log \in Seq(Entry)
<1>1. Unwritten \in Seq(Entry)
  BY ConcatProperties DEF TypeOK, Unwritten
<1>. QED BY <1>1, ConcatProperties DEF TypeOK, Log

\* A send that succeeds puts the caller's entry behind all the others.
LEMMA SendAppends ==
    ASSUME TypeOK, CloseInv, NEW p \in Producers, SendBuffered(p) \/ SendDirect(p)
    PROVE  /\ Current(p) \in Entry
           /\ Unwritten' = Append(Unwritten, Current(p))
           /\ written' = written
<1>1. Current(p) \in Entry
  <2>1. call[p] # "idle"
    BY DEF SendBuffered, Buffer, SendDirect
  <2>. QED BY <2>1, CurrentInEntry
<1>2. written' = written
  BY DEF SendBuffered, Buffer, SendDirect
<1>3. CASE SendBuffered(p)
  <2>1. queue' = Append(queue, Current(p)) /\ held' = held /\ loop' = loop
    BY <1>3 DEF SendBuffered, Buffer, writing
  <2>2. held \o Append(queue, Current(p)) = Append(held \o queue, Current(p))
    BY SMTT(30), <1>1, ConcatAppend DEF TypeOK
  <2>. QED BY <1>1, <1>2, <2>1, <2>2 DEF Unwritten
<1>4. CASE SendDirect(p)
  <2>1. queue = <<>>
    <3>1. queueCap = 0 /\ queue \in Seq(Entry)
      BY <1>4 DEF SendDirect, TypeOK
    <3>2. Len(queue) \in Nat /\ Len(queue) <= 0
      BY <3>1, LenProperties DEF CloseInv
    <3>. QED BY <3>1, <3>2, EmptySeq
  <2>2. Unwritten = <<>>
    BY <1>4, <2>1 DEF SendDirect, Unwritten
  <2>3. Unwritten' = <<Current(p)>> \o <<>>
    BY <1>4, <2>1 DEF SendDirect, Unwritten, channel
  <2>4. <<Current(p)>> \o <<>> = <<Current(p)>>
    BY <1>1, ConcatEmptySeq
  <2>5. Append(<<>>, Current(p)) = <<Current(p)>>
    BY <1>1
  <2>. QED BY <1>1, <1>2, <2>2, <2>3, <2>4, <2>5
<1>. QED BY <1>3, <1>4

\* A write, successful or not, takes the oldest entry off.
LEMMA WriteTakesHead ==
    ASSUME TypeOK, WriteOK \/ WriteFail
    PROVE  /\ Unwritten # <<>>
           /\ Head(Unwritten) = Head(held)
           /\ Unwritten' = Tail(Unwritten)
           /\ Unwritten = <<Head(held)>> \o Tail(Unwritten)
           /\ WriteOK => written' = Append(written, Head(Unwritten))
           /\ WriteFail => written' = written
<1>1. Head(held) \in Entry /\ held = <<Head(held)>> /\ queue \in Seq(Entry) /\ written \in Seq(Entry)
  BY HeldSingleton DEF WriteOK, WriteFail, LoseHeld, TypeOK
<1>2. Unwritten = <<Head(held)>> \o queue /\ Unwritten' = queue
  <2>1. loop = "write" /\ loop' # "write" /\ queue' = queue
    BY DEF WriteOK, WriteFail, LoseHeld, channel
  <2>2. Unwritten = held \o queue /\ Unwritten' = queue
    BY <2>1 DEF Unwritten
  <2>. QED BY <1>1, <2>2
<1>3. Unwritten # <<>> /\ Head(Unwritten) = Head(held) /\ Tail(Unwritten) = queue
  BY <1>1, <1>2, ConsHeadTail
<1>4. WriteOK => written' = Append(written, Head(held))
  BY <1>1, AppendIsConcat DEF WriteOK
<1>5. WriteFail => written' = written
  BY DEF WriteFail, LoseHeld
<1>. QED BY <1>2, <1>3, <1>4, <1>5

\* Taking an entry off the channel and everything else leave the log alone.
LEMMA ReceiveKeeps ==
    ASSUME TypeOK, Receive
    PROVE  Unwritten' = Unwritten /\ written' = written
<1>1. Unwritten = queue /\ Unwritten' = <<Head(queue)>> \o Tail(queue)
  BY DEF Receive, Unwritten
<1>. QED BY <1>1, HeadTailConcat DEF Receive, TypeOK

Quiet ==
    \/ \E p \in Producers : WriteLog(p) \/ Refuse(p) \/ Admit(p) \/ Drop(p)
    \/ LoopExit \/ FanOutRLock \/ Deliver \/ FanOutDone
    \/ RegistryStep
    \/ CloseStep

\* The remaining steps change neither what is written nor what is to be.
LEMMA QuietKeeps ==
    ASSUME Quiet \/ UNCHANGED vars
    PROVE  Unwritten' = Unwritten /\ written' = written
<1>1. /\ queue' = queue /\ written' = written
      /\ \/ loop' = loop /\ held' = held
         \/ loop # "write" /\ loop' # "write"
  BY DEF Quiet, RegistryStep, CloseStep, WriteLog, Refuse, Admit, Enter, Drop, Discard, LoopExit,
         ExitOnceClosed, FanOutRLock,
         Deliver, FanOutDone, RegisterCall, Register, UnregisterCall, Unregister, CloseCall,
         CloseLock, LockedSection, CloseReturn, CloseWriter, vars, config, channel, registry,
         callers, writing, closing
<1>. QED BY <1>1 DEF Unwritten

-----------------------------------------------------------------------------
(* The Manager implements AsyncLog: every step is one of its steps or a    *)
(* stutter.                                                                *)

\* A caller's step is AsyncLog's Accept or a stutter.
LEMMA EnqueueRefines ==
    ASSUME TypeOK, CloseInv, NEW p \in Producers, Enqueue(p)
    PROVE  [AL!Next]_AL!vars
<1>1. closer' = closer /\ Phase' = Phase
  BY DEF Enqueue, Refuse, Admit, Enter, SendBuffered, Buffer, SendDirect, Drop, Discard, closing,
         Phase
<1>2. CASE SendBuffered(p) \/ SendDirect(p)
  <2>1. Phase = "open"
    <3>1. call[p] = "send"
      BY <1>2 DEF SendBuffered, Buffer, SendDirect
    <3>2. closer \in {"idle", "lock"}
      BY <3>1 DEF CloseInv, TypeOK
    <3>. QED BY <3>2 DEF Phase
  <2>2. /\ Current(p) \in Entry
        /\ Unwritten' = Append(Unwritten, Current(p)) /\ written' = written
    BY <1>2, SendAppends
  <2>3. AL!Accept(Current(p))
    BY <1>1, <2>1, <2>2 DEF AL!Accept
  <2>. QED BY <2>2, <2>3 DEF AL!Next
<1>3. CASE Refuse(p) \/ Admit(p) \/ Drop(p)
  <2>1. Quiet
    BY <1>3 DEF Quiet
  <2>. QED BY <1>1, <2>1, QuietKeeps DEF AL!vars
<1>. QED BY <1>2, <1>3 DEF Enqueue

\* A step of the loop is AsyncLog's Commit, Lose or a stutter.
LEMMA RunRefines ==
    ASSUME TypeOK, RunStep
    PROVE  [AL!Next]_AL!vars
<1>1. closer' = closer /\ Phase' = Phase
  BY DEF RunStep, Receive, LoopExit, ExitOnceClosed, WriteOK, WriteFail, LoseHeld, FanOutRLock,
         Deliver, FanOutDone,
         closing, Phase
<1>2. CASE WriteOK
  BY <1>1, <1>2, WriteTakesHead DEF AL!Commit, AL!Next
<1>3. CASE WriteFail
  BY <1>1, <1>3, WriteTakesHead DEF AL!Lose, AL!Next
<1>4. CASE Receive
  BY <1>1, <1>4, ReceiveKeeps DEF AL!vars
<1>5. CASE LoopExit \/ FanOutRLock \/ Deliver \/ FanOutDone
  <2>1. Quiet
    BY <1>5 DEF Quiet
  <2>. QED BY <1>1, <2>1, QuietKeeps DEF AL!vars
<1>. QED BY <1>2, <1>3, <1>4, <1>5 DEF RunStep

\* A step of Close is AsyncLog's Shut, Finish or a stutter.
LEMMA CloseRefines ==
    ASSUME TypeOK, CloseInv, CloseStep
    PROVE  [AL!Next]_AL!vars
<1>1. Unwritten' = Unwritten /\ written' = written
  BY QuietKeeps DEF Quiet
<1>2. CASE CloseCall
  <2>1. Phase' = Phase
    BY <1>2 DEF CloseCall, Phase
  <2>. QED BY <1>1, <2>1 DEF AL!vars
<1>3. CASE CloseLock
  <2>1. Phase = "open" /\ Phase' = "closing"
    BY <1>3 DEF CloseLock, LockedSection, Phase
  <2>. QED BY <1>1, <2>1 DEF AL!Shut, AL!Next
<1>4. CASE CloseReturn
  <2>1. Phase = "closing" /\ Phase' = "closed"
    BY <1>4 DEF CloseReturn, CloseWriter, Phase
  <2>2. Unwritten = <<>>
    BY <1>4 DEF CloseReturn, CloseWriter, CloseInv, Unwritten
  <2>. QED BY <1>1, <2>1, <2>2 DEF AL!Finish, AL!Next
<1>. QED BY <1>2, <1>3, <1>4 DEF CloseStep

\* Every step is one of AsyncLog or a stutter.
LEMMA NextRefines ==
    ASSUME TypeOK, CloseInv, [Next]_vars
    PROVE  [AL!Next]_AL!vars
<1>1. CASE (\E p \in Producers : WriteLog(p)) \/ RegistryStep \/ UNCHANGED vars
  <2>1. Unwritten' = Unwritten /\ written' = written
    BY <1>1, QuietKeeps DEF Quiet
  <2>2. closer' = closer
    BY <1>1 DEF WriteLog, RegistryStep, RegisterCall, Register, UnregisterCall, Unregister,
                closing, vars
  <2>3. Phase' = Phase
    BY <2>2 DEF Phase
  <2>. QED BY <2>1, <2>3 DEF AL!vars
<1>. QED BY <1>1, EnqueueRefines, RunRefines, CloseRefines DEF Next, Terminated

\* Whatever the goroutines, the channel's capacity and the handlers do, the Manager
\* behaves as one FIFO backlog that is emptied in order before Close returns.
THEOREM Refinement == SafeSpec => AL!SafeSpec
<1>1. Init => AL!Init
  BY DEF Init, AL!Init, Unwritten, Phase
<1>2. TypeOK /\ CloseInv /\ [Next]_vars => [AL!Next]_AL!vars
  BY NextRefines
<1>. QED BY <1>1, <1>2, CloseInvariant, PTL DEF SafeSpec, AL!SafeSpec

-----------------------------------------------------------------------------
(* Order and accounting: LogInv is inductive.                              *)

DroppedSet == {e \in Entry : fate[e] = "dropped"}

\* Finitely many entries are dropped.
LEMMA DroppedFinite == IsFiniteSet(DroppedSet)
<1>1. IsFiniteSet(1 .. MaxWrites)
  BY ManagerAssumption, FS_Interval
<1>2. IsFiniteSet(Entry)
  BY <1>1, ManagerAssumption, FS_Product DEF Entry
<1>. QED BY <1>2, FS_Subset DEF DroppedSet

\* The log is empty and no entry has a fate.
LEMMA InitLogInv == ASSUME Init PROVE LogInv
<1>1. TypeOK
  BY InitTypeOK
<1>2. Log = <<>> \o <<>> /\ Log = <<>>
  BY ConcatEmptySeq, EmptySeq DEF Init, Log, Unwritten
<1>3. Len(Log) = 0 /\ Range(Log) = {}
  <2>1. Log \in Seq(Entry) /\ Len(Log) = 0
    BY <1>2, EmptySeq
  <2>2. Range(Log) = {Log[i] : i \in 1 .. Len(Log)}
    BY <2>1, RangeEquality
  <2>3. 1 .. Len(Log) = {}
    BY <2>1
  <2>. QED BY <2>1, <2>2, <2>3
<1>4. Fresh
  BY DEF Init, Fresh, Entry
<1>5. Ordered(Log)
  BY <1>3 DEF Ordered
<1>6. Accepted
  BY <1>3 DEF Init, Accepted
<1>7. {e \in Entry : fate[e] = "dropped"} = {} /\ dropped = 0
  BY DEF Init
<1>8. DropCount
  BY <1>7, FS_EmptySet DEF DropCount
<1>. QED BY <1>4, <1>5, <1>6, <1>8 DEF LogInv

\* The log and the drops are left alone, fates and calls too.
LEMMA SameLogInv ==
    ASSUME LogInv, UNCHANGED <<Unwritten, written, fate, call, made, dropped, dropPolicy>>
    PROVE  LogInv'
BY DEF LogInv, Fresh, Ordered, Accepted, DropCount, Log, Current

\* A call that begins carries an entry without a fate.
LEMMA WriteLogLogInv ==
    ASSUME TypeOK, LogInv, NEW p \in Producers, WriteLog(p)
    PROVE  LogInv'
<1>1. UNCHANGED <<Unwritten, written, fate, dropped, dropPolicy>>
  BY QuietKeeps DEF Quiet, WriteLog, config, channel
<1>2. Ordered(Log)' /\ Accepted' /\ DropCount'
  BY <1>1 DEF LogInv, Ordered, Accepted, DropCount, Log
<1>3. made[p] \in 0 .. MaxWrites /\ made'[p] = made[p] + 1 /\ made'[p] \in 1 .. MaxWrites
  BY ManagerAssumption DEF WriteLog, TypeOK
<1>4. ASSUME NEW q \in Producers, NEW n \in 1 .. MaxWrites, n > made'[q]
      PROVE  fate'[<<q, n>>] = "none"
  <2>1. n > made[q]
    BY <1>3, <1>4, ManagerAssumption DEF WriteLog, TypeOK
  <2>. QED BY <1>1, <2>1 DEF LogInv, Fresh
<1>5. ASSUME NEW q \in Producers, call'[q] # "idle"
      PROVE  fate'[Current(q)'] = "none"
  <2>1. CASE q = p
    <3>1. Current(q)' = <<p, made'[p]>>
      BY <2>1 DEF Current
    <3>2. made'[p] > made[p]
      BY <1>3, ManagerAssumption
    <3>3. fate[<<p, made'[p]>>] = "none"
      BY <1>3, <3>2 DEF LogInv, Fresh
    <3>. QED BY <1>1, <3>1, <3>3
  <2>2. CASE q # p
    <3>1. made'[q] = made[q] /\ call'[q] = call[q]
      BY <2>2 DEF WriteLog, TypeOK
    <3>. QED BY <1>1, <1>5, <3>1 DEF LogInv, Fresh, Current
  <2>. QED BY <2>1, <2>2
<1>6. Fresh'
  BY <1>4, <1>5 DEF Fresh
<1>. QED BY <1>2, <1>6 DEF LogInv

\* A call that ends settles the fate of its own entry and of no other.
LEMMA SettleFresh ==
    ASSUME TypeOK, Fresh, NEW p \in Producers, NEW f, call[p] # "idle",
           call' = [call EXCEPT ![p] = "idle"], made' = made,
           fate' = [fate EXCEPT ![Current(p)] = f]
    PROVE  Fresh'
<1>1. Current(p) \in Entry
  BY CurrentInEntry
<1>2. ASSUME NEW q \in Producers, NEW n \in 1 .. MaxWrites, n > made'[q]
      PROVE  fate'[<<q, n>>] = "none"
  <2>1. <<q, n>> \in Entry /\ <<q, n>> # Current(p)
    BY SMTT(30), <1>2, ManagerAssumption DEF Entry, Current, TypeOK
  <2>. QED BY <1>2, <2>1 DEF Fresh, TypeOK
<1>3. ASSUME NEW q \in Producers, call'[q] # "idle"
      PROVE  fate'[Current(q)'] = "none"
  <2>1. q # p /\ call[q] # "idle"
    BY <1>3 DEF TypeOK
  <2>2. Current(q)' = Current(q) /\ Current(q) \in Entry /\ Current(q) # Current(p)
    BY <2>1, CurrentInEntry DEF Current
  <2>. QED BY <2>1, <2>2 DEF Fresh, TypeOK
<1>. QED BY <1>2, <1>3 DEF Fresh

\* A send adds the caller's next entry, later than all of its entries in the log.
LEMMA SendLogInv ==
    ASSUME TypeOK, CloseInv, LogInv, NEW p \in Producers, SendBuffered(p) \/ SendDirect(p)
    PROVE  LogInv'
<1>. DEFINE c == Current(p)
<1>1. c \in Entry /\ Log \in Seq(Entry) /\ Log' = Append(Log, c)
  <2>1. c \in Entry /\ Unwritten' = Append(Unwritten, c) /\ written' = written
    BY SendAppends
  <2>2. Unwritten \in Seq(Entry) /\ Log \in Seq(Entry) /\ written \in Seq(Entry)
    BY UnwrittenType DEF TypeOK
  <2>. QED BY <2>1, <2>2, ConcatAppend DEF Log
<1>2. /\ call[p] # "idle" /\ call' = [call EXCEPT ![p] = "idle"]
      /\ made' = made /\ dropped' = dropped /\ dropPolicy' = dropPolicy
      /\ fate' = [fate EXCEPT ![c] = "accepted"]
  BY DEF SendBuffered, Buffer, SendDirect, config, channel
<1>3. fate[c] = "none" /\ fate \in [Entry -> {"none", "accepted", "dropped", "refused", "lost"}]
  BY <1>2 DEF LogInv, Fresh, TypeOK
<1>4. Fresh'
  BY <1>2, SettleFresh DEF LogInv
<1>5. ASSUME NEW i \in 1 .. Len(Log), Log[i][1] = c[1]
      PROVE  Log[i][2] < c[2]
  <2>1. Log[i] \in Entry /\ Log[i] \in Range(Log)
    BY <1>1, ElementOfSeq, RangeEquality
  <2>2. fate[Log[i]] = "accepted"
    BY <2>1 DEF LogInv, Accepted
  <2>3. Log[i] = <<p, Log[i][2]>> /\ Log[i][2] \in 1 .. MaxWrites
    BY <1>5, <2>1 DEF Entry, Current
  <2>4. ~(Log[i][2] > made[p])
    BY <2>2, <2>3 DEF LogInv, Fresh
  <2>5. Log[i][2] # made[p]
    BY <1>3, <2>2, <2>3 DEF Current
  <2>. QED BY <2>3, <2>4, <2>5, ManagerAssumption DEF Current, TypeOK
<1>6. Ordered(Log)'
  <2>1. Ordered(Log)
    BY DEF LogInv
  <2>2. Ordered(Append(Log, c))
    BY <1>1, <1>5, <2>1, OrderedAppend
  <2>. QED BY <1>1, <2>2 DEF Ordered
<1>7. Range(Log') = Range(Log) \cup {c}
  <2>. HIDE DEF c
  <2>1. <<c>> \in Seq(Entry) /\ Range(<<c>>) = {c}
    <3>1. <<c>> \in Seq(Entry) /\ DOMAIN <<c>> = {1} /\ <<c>>[1] = c
      BY <1>1
    <3>. QED BY <3>1 DEF Range
  <2>2. Log' = Log \o <<c>>
    BY <1>1, AppendIsConcat
  <2>3. Range(Log \o <<c>>) = Range(Log) \cup Range(<<c>>)
    BY ZenonT(60), <1>1, <2>1, RangeConcatenation
  <2>. QED BY <2>1, <2>2, <2>3
<1>8. Accepted'
  <2>1. ASSUME NEW e \in Entry PROVE fate'[e] = "accepted" <=> e \in Range(Log')
    <3>1. CASE e = c
      BY <1>2, <1>3, <1>7, <3>1
    <3>2. CASE e # c
      BY <1>2, <1>3, <1>7, <3>2 DEF LogInv, Accepted
    <3>. QED BY <3>1, <3>2
  <2>. QED BY <2>1 DEF Accepted, Range
<1>9. DropCount'
  <2>1. {e \in Entry : fate'[e] = "dropped"} = {e \in Entry : fate[e] = "dropped"}
    BY <1>2, <1>3
  <2>. QED BY <1>2, <2>1 DEF LogInv, DropCount
<1>. QED BY <1>4, <1>6, <1>8, <1>9 DEF LogInv

\* Refusing or dropping: the entry gets its fate and stays out of the log.
LEMMA RejectLogInv ==
    ASSUME TypeOK, LogInv, NEW p \in Producers, Refuse(p) \/ Drop(p)
    PROVE  LogInv'
<1>. DEFINE c == Current(p)
            D == {e \in Entry : fate[e] = "dropped"}
<1>1. Unwritten' = Unwritten /\ written' = written /\ Log' = Log
  BY QuietKeeps DEF Quiet, Log
<1>2. /\ call[p] # "idle" /\ call' = [call EXCEPT ![p] = "idle"]
      /\ made' = made /\ dropPolicy' = dropPolicy
  BY DEF Refuse, Drop, Discard, config
<1>3. /\ c \in Entry /\ fate[c] = "none"
      /\ fate \in [Entry -> {"none", "accepted", "dropped", "refused", "lost"}]
  BY <1>2, CurrentInEntry DEF LogInv, Fresh, TypeOK
<1>4. PICK f \in {"refused", "dropped"} :
          /\ fate' = [fate EXCEPT ![c] = f]
          /\ f = "refused" => dropped' = dropped
          /\ f = "dropped" => dropped' = dropped + 1 /\ dropPolicy = "DropNewest"
  BY DEF Refuse, Drop, Discard, channel
<1>5. Fresh'
  BY <1>2, <1>4, SettleFresh DEF LogInv
<1>6. Ordered(Log)' /\ Accepted'
  <2>1. \A e \in Entry : fate'[e] = "accepted" <=> fate[e] = "accepted"
    BY <1>3, <1>4
  <2>. QED BY <1>1, <2>1 DEF LogInv, Accepted, Ordered
<1>7. DropCount'
  <2>0. dropped = Cardinality(D) /\ (dropPolicy = "Block" => D = {})
    BY DEF LogInv, DropCount
  <2>1. CASE f = "refused"
    <3>1. {e \in Entry : fate'[e] = "dropped"} = D
      BY <1>3, <1>4, <2>1
    <3>. QED BY <1>2, <1>4, <2>0, <2>1, <3>1 DEF DropCount
  <2>2. CASE f = "dropped"
    <3>1. {e \in Entry : fate'[e] = "dropped"} = D \cup {c} /\ c \notin D
      BY <1>3, <1>4, <2>2
    <3>2. IsFiniteSet(D)
      BY DroppedFinite DEF DroppedSet
    <3>. HIDE DEF D, c
    <3>3. Cardinality(D \cup {c}) = Cardinality(D) + 1
      BY <3>1, <3>2, FS_AddElement
    <3>. QED BY <1>2, <1>4, <2>0, <2>2, <3>1, <3>3 DEF DropCount
  <2>. QED BY <1>4, <2>1, <2>2
<1>. QED BY <1>5, <1>6, <1>7 DEF LogInv

\* A write moves the held entry to the store.
LEMMA WriteOKLogInv ==
    ASSUME TypeOK, LogInv, WriteOK
    PROVE  LogInv'
<1>1. Unwritten \in Seq(Entry) /\ written \in Seq(Entry) /\ Unwritten # <<>>
  BY UnwrittenType, WriteTakesHead DEF TypeOK
<1>. DEFINE h == Head(Unwritten)
            t == Tail(Unwritten)
<1>2. h \in Entry /\ t \in Seq(Entry) /\ <<h>> \in Seq(Entry)
  BY <1>1, HeadTailProperties
<1>3. Unwritten = <<h>> \o t /\ Unwritten' = t /\ written' = Append(written, h)
  BY WriteTakesHead
<1>. HIDE DEF h, t
<1>4. Log' = (written \o <<h>>) \o t
  BY <1>1, <1>2, <1>3, AppendIsConcat DEF Log
<1>5. (written \o <<h>>) \o t = written \o (<<h>> \o t)
  BY <1>1, <1>2, ConcatAssociative
<1>6. Log' = Log
  BY <1>3, <1>4, <1>5 DEF Log
<1>7. UNCHANGED <<fate, call, made, dropped, dropPolicy>>
  BY DEF WriteOK, config, channel, callers
<1>. QED BY <1>6, <1>7 DEF LogInv, Fresh, Ordered, Accepted, DropCount, Current

\* A failed write takes the held entry out of the log.
LEMMA WriteFailLogInv ==
    ASSUME TypeOK, LogInv, WriteFail
    PROVE  LogInv'
<1>1. Unwritten \in Seq(Entry) /\ written \in Seq(Entry) /\ Unwritten # <<>>
  BY UnwrittenType, WriteTakesHead DEF TypeOK
<1>. DEFINE h == Head(Unwritten)
            t == Tail(Unwritten)
<1>2. h \in Entry /\ t \in Seq(Entry)
  BY <1>1, HeadTailProperties
<1>3. Unwritten = <<h>> \o t /\ Unwritten' = t /\ written' = written
  BY WriteTakesHead
<1>4. /\ fate' = [fate EXCEPT ![h] = "lost"]
      /\ UNCHANGED <<call, made, dropped, dropPolicy>>
  BY WriteTakesHead DEF WriteFail, LoseHeld, config, channel, callers
<1>. HIDE DEF h, t
<1>5. Log = written \o (<<h>> \o t) /\ Log' = written \o t
  BY <1>3 DEF Log
<1>6. Ordered(written \o (<<h>> \o t))
  BY <1>5 DEF LogInv
<1>7. Ordered(written \o t) /\ Range(written \o t) = Range(written \o (<<h>> \o t)) \ {h}
  BY <1>1, <1>2, <1>6, OrderedWithout
<1>8. Ordered(Log)'
  BY <1>5, <1>7 DEF Ordered
<1>9. Range(Log') = Range(Log) \ {h}
  BY <1>5, <1>7
<1>10. fate \in [Entry -> {"none", "accepted", "dropped", "refused", "lost"}]
  BY DEF TypeOK
<1>11. Accepted'
  <2>1. ASSUME NEW e \in Entry PROVE fate'[e] = "accepted" <=> e \in Range(Log')
    <3>1. CASE e = h
      BY <1>4, <1>9, <1>10, <3>1
    <3>2. CASE e # h
      BY <1>4, <1>9, <1>10, <3>2 DEF LogInv, Accepted
    <3>. QED BY <3>1, <3>2
  <2>. QED BY <2>1 DEF Accepted, Range
<1>12. fate[h] = "accepted"
  <2>1. <<h>> \o t \in Seq(Entry) /\ Range(<<h>> \o t) \subseteq Range(Log)
    <3>1. <<h>> \o t \in Seq(Entry)
      BY <1>1, <1>3
    <3>2. Range(written \o (<<h>> \o t)) = Range(written) \cup Range(<<h>> \o t)
      <4>. DEFINE v == <<h>> \o t
      <4>1. v \in Seq(Entry) /\ written \in Seq(Entry)
        BY <1>1, <3>1
      <4>. HIDE DEF v
      <4>2. Range(written \o v) = Range(written) \cup Range(v)
        BY <4>1, RangeConcatenation
      <4>. QED BY <4>2 DEF v
    <3>. QED BY <1>5, <3>1, <3>2, Zenon
  <2>2. h \in Range(<<h>> \o t)
    <3>1. <<h>> \o t # <<>> /\ Head(<<h>> \o t) = h
      BY <1>2, ConsHeadTail
    <3>2. Len(<<h>> \o t) \in Nat \ {0}
      BY <2>1, <3>1, EmptySeq
    <3>3. (<<h>> \o t)[1] = h /\ 1 \in 1 .. Len(<<h>> \o t)
      BY <2>1, <3>1, <3>2
    <3>. QED BY <2>1, <3>3, RangeEquality
  <2>. QED BY <1>2, <2>1, <2>2 DEF LogInv, Accepted
<1>13. Fresh'
  <2>1. \A e \in Entry : fate[e] = "none" => fate'[e] = "none"
    BY <1>4, <1>10, <1>12
  <2>2. ASSUME NEW q \in Producers, NEW n \in 1 .. MaxWrites, n > made'[q]
        PROVE  fate'[<<q, n>>] = "none"
    BY <1>4, <2>1, <2>2 DEF LogInv, Fresh, Entry
  <2>3. ASSUME NEW q \in Producers, call'[q] # "idle"
        PROVE  fate'[Current(q)'] = "none"
    <3>1. Current(q)' = Current(q) /\ Current(q) \in Entry /\ call[q] # "idle"
      BY <1>4, <2>3, CurrentInEntry DEF Current
    <3>. QED BY <2>1, <3>1 DEF LogInv, Fresh
  <2>. QED BY <2>2, <2>3 DEF Fresh
<1>14. DropCount'
  <2>1. {e \in Entry : fate'[e] = "dropped"} = {e \in Entry : fate[e] = "dropped"}
    BY <1>4, <1>10, <1>12
  <2>. QED BY <1>4, <2>1 DEF LogInv, DropCount
<1>. QED BY <1>8, <1>11, <1>13, <1>14 DEF LogInv

\* A call that passes the check is about an entry that is not in the log.
LEMMA AdmitLogInv ==
    ASSUME TypeOK, LogInv, NEW p \in Producers, Admit(p)
    PROVE  LogInv'
<1>1. UNCHANGED <<Unwritten, written>>
  BY QuietKeeps DEF Quiet
<1>2. /\ call[p] = "rlock" /\ call' = [call EXCEPT ![p] = "send"]
      /\ UNCHANGED <<made, fate, dropped, dropPolicy>>
  BY DEF Admit, Enter, config, channel
<1>3. \A q \in Producers : call'[q] # "idle" => call[q] # "idle"
  BY <1>2 DEF TypeOK
<1>. QED BY <1>1, <1>2, <1>3 DEF LogInv, Fresh, Ordered, Accepted, DropCount, Log, Current

\* Every step keeps the log invariant.
LEMMA NextLogInv == ASSUME TypeOK, CloseInv, LogInv, [Next]_vars PROVE LogInv'
<1>1. ASSUME NEW p \in Producers, WriteLog(p) \/ Enqueue(p) PROVE LogInv'
  BY <1>1, WriteLogLogInv, SendLogInv, RejectLogInv, AdmitLogInv DEF Enqueue
<1>2. CASE LoopExit \/ FanOutRLock \/ Deliver \/ FanOutDone \/ RegistryStep \/ CloseStep
  <2>1. UNCHANGED <<Unwritten, written>>
    BY <1>2, QuietKeeps DEF Quiet
  <2>2. UNCHANGED <<fate, call, made, dropped, dropPolicy>>
    BY <1>2 DEF LoopExit, ExitOnceClosed, FanOutRLock, Deliver, FanOutDone, RegistryStep,
            RegisterCall, Register,
          UnregisterCall, Unregister, CloseStep, CloseCall, CloseLock, LockedSection, CloseReturn,
          CloseWriter,
          config, channel, callers
  <2>. QED BY <2>1, <2>2, SameLogInv
<1>3. CASE Receive
  <2>1. UNCHANGED <<Unwritten, written>>
    BY <1>3, ReceiveKeeps
  <2>2. UNCHANGED <<fate, call, made, dropped, dropPolicy>>
    BY <1>3 DEF Receive, config, callers
  <2>. QED BY <2>1, <2>2, SameLogInv
<1>4. CASE UNCHANGED vars
  <2>1. UNCHANGED <<Unwritten, written>>
    BY <1>4, QuietKeeps
  <2>2. UNCHANGED <<fate, call, made, dropped, dropPolicy>>
    BY <1>4 DEF vars, config, channel, callers
  <2>. QED BY <2>1, <2>2, SameLogInv
<1>. QED BY <1>1, <1>2, <1>3, <1>4, WriteOKLogInv, WriteFailLogInv DEF Next, RunStep, Terminated

\* Types, close protocol and log invariant hold in every reachable state.
LEMMA LogInvariant == SafeSpec => [](TypeOK /\ CloseInv /\ LogInv)
<1>1. Init => TypeOK /\ CloseInv /\ LogInv
  BY InitTypeOK, InitCloseInv, InitLogInv
<1>2. TypeOK /\ CloseInv /\ LogInv /\ [Next]_vars => (TypeOK /\ CloseInv /\ LogInv)'
  BY NextTypeOK, NextCloseInv, NextLogInv
<1>. QED BY <1>1, <1>2, PTL DEF SafeSpec

\* Entries of one goroutine reach the writer in the order of its calls, none twice.
THEOREM OrderSafety == SafeSpec => []OrderedLog
<1>1. LogInv => OrderedLog
  BY DEF LogInv, OrderedLog
<1>. QED BY <1>1, LogInvariant, PTL

\* An accepted entry is written or on its way, and Dropped() counts exactly the rest.
THEOREM Accounting == SafeSpec => []EveryEntryAccounted
<1>1. ASSUME TypeOK, LogInv PROVE EveryEntryAccounted
  <2>1. Range(Log) \subseteq Entry
    BY <1>1, UnwrittenType, RangeOfSeq
  <2>2. {e \in Entry : fate[e] = "accepted"} = Range(Log)
    BY <1>1, <2>1 DEF LogInv, Accepted
  <2>3. dropped = Cardinality({e \in Entry : fate[e] = "dropped"})
    BY <1>1 DEF LogInv, DropCount
  <2>4. dropPolicy = "Block" => dropped = 0
    BY <1>1, FS_EmptySet DEF LogInv, DropCount
  <2>. QED BY <2>2, <2>3, <2>4 DEF EveryEntryAccounted
<1>. QED BY <1>1, LogInvariant, PTL

\* When Close has returned, everything accepted and not lost is in the store.
THEOREM CloseDrains == SafeSpec => []DrainedOnClose
<1>1. ASSUME TypeOK, CloseInv, LogInv PROVE DrainedOnClose
  <2>1. SUFFICES ASSUME closer = "returned"
                 PROVE  Unwritten = <<>> /\ \A e \in Entry : fate[e] = "accepted" => e \in Range(written)
    BY DEF DrainedOnClose
  <2>2. Unwritten = <<>>
    BY <1>1, <2>1 DEF CloseInv, Unwritten
  <2>3. Log = written
    BY <1>1, <2>2, ConcatEmptySeq DEF Log, TypeOK
  <2>. QED BY <1>1, <2>2, <2>3 DEF LogInv, Accepted
<1>. QED BY <1>1, LogInvariant, PTL

-----------------------------------------------------------------------------
(* The fan-out works through a snapshot of handlers.  It holds handlersMu  *)
(* all the while, so the snapshot never names a handler already removed.   *)

FanOutInv ==
    /\ loop # "fanout" => todo = <<>>
    /\ \A i \in 1 .. Len(todo) : todo[i] \in Range(handlers)

\* Every step keeps what is to be called registered.
LEMMA NextFanOutInv == ASSUME TypeOK, FanOutInv, [Next]_vars PROVE FanOutInv'
<1>1. CASE FanOutRLock
  <2>1. todo' = handlers /\ handlers' = handlers /\ loop' = "fanout" /\ handlers \in Seq(Ids)
    BY <1>1 DEF FanOutRLock, registry, TypeOK
  <2>2. \A i \in 1 .. Len(handlers) : handlers[i] \in Range(handlers)
    BY <2>1, RangeEquality
  <2>. QED BY <2>1, <2>2 DEF FanOutInv
<1>2. CASE Deliver
  <2>1. /\ todo \in Seq(Ids) /\ todo # <<>> /\ todo' = Tail(todo)
        /\ handlers' = handlers /\ loop' = "fanout"
    BY <1>2 DEF Deliver, registry, TypeOK
  <2>2. /\ Len(todo) \in Nat \ {0} /\ Len(todo') = Len(todo) - 1
        /\ \A i \in 1 .. Len(todo') : todo'[i] = todo[i + 1]
    BY <2>1, EmptySeq, HeadTailProperties
  <2>3. \A i \in 1 .. Len(todo') : todo'[i] \in Range(handlers')
    BY <2>1, <2>2 DEF FanOutInv
  <2>. QED BY <2>1, <2>3 DEF FanOutInv
<1>3. CASE Register \/ Unregister
  <2>1. todo' = todo /\ loop' = loop /\ loop # "fanout"
    BY <1>3 DEF Register, Unregister, writing
  <2>2. todo' = <<>> /\ Len(todo') = 0
    BY <2>1, EmptySeq DEF FanOutInv
  <2>. QED BY <2>1, <2>2 DEF FanOutInv
<1>4. CASE Receive \/ LoopExit \/ WriteOK \/ WriteFail \/ FanOutDone
  <2>1. todo' = todo /\ handlers' = handlers /\ loop' # "fanout"
    BY <1>4 DEF Receive, LoopExit, ExitOnceClosed, WriteOK, WriteFail, LoseHeld, FanOutDone,
            writing, registry
  <2>2. todo = <<>>
    BY <1>4 DEF Receive, LoopExit, ExitOnceClosed, WriteOK, WriteFail, LoseHeld, FanOutDone,
            FanOutInv
  <2>. QED BY <2>1, <2>2 DEF FanOutInv
<1>5. ASSUME NEW p \in Producers, WriteLog(p) \/ Enqueue(p) PROVE FanOutInv'
  <2>1. todo' = todo /\ handlers' = handlers
    BY <1>5 DEF WriteLog, Enqueue, Refuse, Admit, Enter, SendBuffered, Buffer, SendDirect, Drop,
            Discard, writing, registry
  <2>2. loop' = loop \/ (loop # "fanout" /\ loop' # "fanout")
    BY <1>5 DEF WriteLog, Enqueue, Refuse, Admit, Enter, SendBuffered, Buffer, SendDirect, Drop,
            Discard, writing
  <2>. QED BY <2>1, <2>2 DEF FanOutInv
<1>6. CASE RegisterCall \/ (\E id \in Ids : UnregisterCall(id)) \/ CloseStep \/ UNCHANGED vars
  <2>1. todo' = todo /\ handlers' = handlers /\ loop' = loop
    BY <1>6 DEF RegisterCall, UnregisterCall, CloseStep, CloseCall, CloseLock, LockedSection,
            CloseReturn, CloseWriter,
                writing, registry, vars
  <2>. QED BY <2>1 DEF FanOutInv
<1>. QED BY <1>1, <1>2, <1>3, <1>4, <1>5, <1>6 DEF Next, RunStep, RegistryStep, Terminated

\* Only a registered handler's record of calls grows.
LEMMA DeliverOnlyToRegistered ==
    ASSUME TypeOK, FanOutInv, [Next]_vars, NEW id \in Ids, id \notin Range(handlers)
    PROVE  received'[id] = received[id]
<1>1. CASE Deliver
  <2>1. /\ todo \in Seq(Ids) /\ todo # <<>> /\ received \in [Ids -> Seq(Entry)]
        /\ received' = [received EXCEPT ![Head(todo)] = @ \o held]
    BY <1>1 DEF Deliver, TypeOK
  <2>2. Len(todo) \in Nat \ {0} /\ Head(todo) = todo[1]
    BY <2>1, EmptySeq
  <2>3. Head(todo) \in Range(handlers)
    BY <2>2 DEF FanOutInv
  <2>. QED BY <2>1, <2>3
<1>2. CASE ~Deliver
  <2>1. received' = received
    BY <1>2 DEF Next, RunStep, RegistryStep, CloseStep, Enqueue, WriteLog, Refuse, Admit, Enter,
            SendBuffered, Buffer,
         SendDirect, Drop, Discard, Receive, LoopExit, ExitOnceClosed, WriteOK, WriteFail,
         LoseHeld, FanOutRLock, FanOutDone,
         RegisterCall, Register, UnregisterCall, Unregister, CloseCall, CloseLock, LockedSection,
         CloseReturn, CloseWriter,
         Terminated, vars
  <2>. QED BY <2>1
<1>. QED BY <1>1, <1>2

\* A handler whose unregister has returned is never called again.
THEOREM UnregisterSilences == SafeSpec => SilentOnceUnregistered
<1>1. Init => TypeOK /\ FanOutInv
  <2>1. Init => FanOutInv
    BY EmptySeq DEF Init, FanOutInv
  <2>. QED BY <2>1, InitTypeOK
<1>2. TypeOK /\ FanOutInv /\ [Next]_vars => (TypeOK /\ FanOutInv)'
  BY NextTypeOK, NextFanOutInv
<1>3. TypeOK /\ FanOutInv /\ [Next]_vars
        => [\A id \in Ids : id < nextHandler /\ id \notin Range(handlers)
                               => received'[id] = received[id]]_vars
  BY DeliverOnlyToRegistered
<1>. QED BY <1>1, <1>2, <1>3, PTL DEF SafeSpec, SilentOnceUnregistered

-----------------------------------------------------------------------------
(***************************************************************************)
(* What a handler has been called with.  The loop holds the last written   *)
(* entry from its Write to the end of the fan-out, and until it has the    *)
(* read lock nobody has been called with it; a handler is on the list of   *)
(* those still to be called at most once.                                  *)
(***************************************************************************)

Distinct(s) == \A i, j \in 1 .. Len(s) : s[i] = s[j] => i = j

RosterInv ==
    /\ Distinct(handlers) /\ Distinct(todo)
    /\ \A id \in Range(handlers) : id < nextHandler
    /\ \A id \in Ids : id >= nextHandler => received[id] = <<>>

HeldInv ==
    loop \in {"rlock", "fanout"} => Len(written) > 0 /\ held = <<written[Len(written)]>>

CaughtUp(id) ==
    /\ since[id] \in 0 .. Len(written) - Behind(id)
    /\ received[id] = SubSeq(written, since[id] + 1, Len(written) - Behind(id))

GapInv == RosterInv /\ HeldInv /\ \A id \in Range(handlers) : CaughtUp(id)

\* The elements of a sequence.
LEMMA RangeFacts ==
    ASSUME NEW S, NEW s \in Seq(S)
    PROVE  /\ Len(s) \in Nat
           /\ Range(s) = {s[i] : i \in 1 .. Len(s)} /\ Range(s) \subseteq S
           /\ s = <<>> => Range(s) = {}
<1>1. Range(s) = {s[i] : i \in 1 .. Len(s)} /\ Len(s) \in Nat /\ \A i \in 1 .. Len(s) : s[i] \in S
  BY RangeEquality, LenProperties, ElementOfSeq
<1>2. s = <<>> => 1 .. Len(s) = {}
  BY <1>1, EmptySeq
<1>. QED BY <1>1, <1>2

\* Types of the registry, and that a handler is behind by one entry at most.
LEMMA HandlerIds ==
    ASSUME TypeOK
    PROVE  /\ Range(handlers) \subseteq Ids /\ Range(todo) \subseteq Ids
           /\ Len(written) \in Nat /\ Ids \subseteq Nat
           /\ \A id \in Ids : Behind(id) \in {0, 1}
<1>1. Len(written) \in Nat /\ Ids \subseteq Nat
  BY ManagerAssumption, LenProperties DEF TypeOK, Ids
<1>. QED BY <1>1, RangeFacts DEF TypeOK, Behind

\* Most steps leave the handlers, and how far each one is, alone.
LEMMA SameGapInv ==
    ASSUME TypeOK, GapInv, UNCHANGED <<registry, todo, written, received>>,
           \A id \in Range(handlers) : Behind(id)' = Behind(id),
           loop' \in {"rlock", "fanout"} => loop \in {"rlock", "fanout"} /\ held' = held
    PROVE  GapInv'
<1>1. RosterInv'
  BY DEF GapInv, RosterInv, registry, Distinct
<1>2. HeldInv'
  BY DEF GapInv, HeldInv
<1>3. ASSUME NEW id \in Range(handlers) PROVE CaughtUp(id)'
  BY <1>3 DEF GapInv, CaughtUp, registry
<1>. QED BY <1>1, <1>2, <1>3 DEF GapInv, registry

\* The entry is written: every handler is one behind.
LEMMA WriteOKGap ==
    ASSUME TypeOK, GapInv, FanOutInv, WriteOK
    PROVE  GapInv'
<1>. DEFINE e == Head(held)
<1>1. /\ e \in Entry /\ held = <<e>> /\ written \in Seq(Entry) /\ written' = written \o <<e>>
      /\ loop = "write" /\ loop' = "rlock" /\ held' = held
      /\ UNCHANGED <<registry, todo, received>> /\ Len(written) \in Nat
  BY HeldSingleton, HandlerIds DEF WriteOK, TypeOK
<1>. HIDE DEF e
<1>2. /\ written' = Append(written, e) /\ Len(written') = Len(written) + 1
      /\ written'[Len(written')] = e
  BY <1>1, AppendIsConcat, AppendProperties
<1>3. RosterInv' /\ HeldInv'
  BY <1>1, <1>2 DEF GapInv, RosterInv, HeldInv, registry, Distinct
<1>4. ASSUME NEW id \in Range(handlers) PROVE CaughtUp(id)'
  <2>1. Behind(id) = 0 /\ Behind(id)' = 1
    BY <1>1 DEF Behind
  <2>2. since[id] \in 0 .. Len(written) /\ received[id] = SubSeq(written, since[id] + 1, Len(written))
    BY <1>1, <2>1 DEF GapInv, CaughtUp
  <2>3. SubSeq(written', since[id] + 1, Len(written)) = SubSeq(written, since[id] + 1, Len(written))
    <3>1. since[id] + 1 \in 1 .. Len(written) + 1 /\ Len(written) \in 0 .. Len(written)
      BY <1>1, <2>2
    <3>2. SubSeq(Append(written, e), since[id] + 1, Len(written))
             = SubSeq(written, since[id] + 1, Len(written))
      BY <1>1, <3>1, SubSeqGrows
    <3>. QED BY <1>2, <3>2
  <2>4. Len(written') - Behind(id)' = Len(written) /\ since' = since /\ received' = received
    BY <1>1, <1>2, <2>1 DEF registry
  <2>. QED BY <2>2, <2>3, <2>4 DEF CaughtUp
<1>. QED BY <1>1, <1>3, <1>4 DEF GapInv, registry

\* The first on the list is called, and behind no longer; nobody else changes.
LEMMA DeliverGap ==
    ASSUME TypeOK, GapInv, FanOutInv, Deliver
    PROVE  GapInv'
<1>. DEFINE w == Len(written)
<1>0. PICK d \in Range(handlers) : d = Head(todo)
  <2>1. todo \in Seq(Ids) /\ todo # <<>>
    BY DEF Deliver, TypeOK
  <2>2. Head(todo) = todo[1] /\ 1 \in 1 .. Len(todo)
    BY <2>1, EmptySeq, LenProperties
  <2>. QED BY <2>2 DEF FanOutInv
<1>1. /\ loop = "fanout" /\ loop' = "fanout" /\ todo # <<>> /\ todo' = Tail(todo)
      /\ UNCHANGED <<registry, held, written>>
      /\ received' = [received EXCEPT ![d] = received[d] \o held]
      /\ todo \in Seq(Ids) /\ received \in [Ids -> Seq(Entry)] /\ written \in Seq(Entry)
  BY <1>0 DEF Deliver, TypeOK
<1>2. /\ d = todo[1] /\ 1 \in 1 .. Len(todo) /\ d \in Range(handlers) /\ d \in Ids
      /\ Len(todo) \in Nat /\ Len(todo') = Len(todo) - 1
      /\ \A i \in 1 .. Len(todo') : todo'[i] = todo[i + 1]
      /\ todo' \in Seq(Ids) /\ Range(todo) = {d} \cup Range(todo')
  BY <1>0, <1>1, EmptySeq, LenProperties, HeadTailProperties, RangeHeadTail, HandlerIds
<1>3. d \notin Range(todo') /\ Distinct(todo')
  <2>1. ASSUME NEW i \in 1 .. Len(todo') PROVE i + 1 \in 1 .. Len(todo) /\ todo'[i] = todo[i + 1]
    BY <1>2
  <2>2. Range(todo') = {todo'[i] : i \in 1 .. Len(todo')}
    BY <1>2, RangeFacts
  <2>3. d \notin Range(todo')
    <3>1. ASSUME NEW i \in 1 .. Len(todo') PROVE todo'[i] # todo[1]
      BY <1>2, <2>1 DEF GapInv, RosterInv, Distinct
    <3>. QED BY <1>2, <2>2, <3>1
  <2>4. ASSUME NEW i \in 1 .. Len(todo'), NEW j \in 1 .. Len(todo'), todo'[i] = todo'[j]
        PROVE  i = j
    <3>1. i + 1 = j + 1
      BY <2>1, <2>4 DEF GapInv, RosterInv, Distinct
    <3>. QED BY <1>2, <3>1
  <2>. QED BY <2>3, <2>4 DEF Distinct
<1>4. w \in Nat \ {0} /\ held = <<written[w]>> /\ written[w] \in Entry
  BY <1>1, HandlerIds, ElementOfSeq DEF GapInv, HeldInv
<1>5. CaughtUp(d)'
  <2>1. Behind(d) = 1 /\ Behind(d)' = 0
    BY <1>1, <1>2, <1>3 DEF Behind
  <2>2. since[d] \in 0 .. w - 1 /\ received[d] = SubSeq(written, since[d] + 1, w - 1)
    BY <1>2, <2>1 DEF GapInv, CaughtUp
  <2>3. received'[d] = Append(received[d], written[w])
    <3>1. received'[d] = received[d] \o <<written[w]>> /\ received[d] \in Seq(Entry)
      BY <1>1, <1>2, <1>4
    <3>. QED BY <1>4, <3>1, AppendIsConcat
  <2>4. SubSeq(written, since[d] + 1, w) = Append(SubSeq(written, since[d] + 1, w - 1), written[w])
    <3>1. since[d] + 1 \in 1 .. w /\ w \in since[d] + 1 .. w
      BY <1>4, <2>2
    <3>. QED BY <1>1, <1>4, <3>1, SubSeqLast
  <2>5. w - 0 = w /\ since[d] \in 0 .. w
    BY <1>4, <2>2
  <2>. QED BY <1>1, <2>1, <2>2, <2>3, <2>4, <2>5 DEF CaughtUp, registry
<1>6. ASSUME NEW id \in Range(handlers), id # d PROVE CaughtUp(id)'
  <2>1. Behind(id)' = Behind(id)
    BY <1>1, <1>2, <1>6 DEF Behind
  <2>2. received'[id] = received[id]
    BY <1>1, <1>6, HandlerIds
  <2>. QED BY <1>1, <2>1, <2>2 DEF GapInv, CaughtUp, registry
<1>7. RosterInv'
  <2>1. ASSUME NEW id \in Ids, id >= nextHandler PROVE received'[id] = <<>>
    <3>1. id # d
      <4>1. d < nextHandler
        BY DEF GapInv, RosterInv
      <4>2. d \in Nat /\ id \in Nat /\ nextHandler \in Nat
        BY SMTT(30), <1>2, HandlerIds DEF TypeOK
      <4>. QED BY <2>1, <4>1, <4>2
    <3>. QED BY <1>1, <2>1, <3>1 DEF GapInv, RosterInv
  <2>. QED BY <1>1, <1>3, <2>1 DEF GapInv, RosterInv, registry, Distinct
<1>8. HeldInv'
  BY <1>1 DEF GapInv, HeldInv
<1>. QED BY <1>1, <1>5, <1>6, <1>7, <1>8 DEF GapInv, registry

\* A new handler has missed nothing: it starts behind the entries it will not be called with.
LEMMA RegisterGap ==
    ASSUME TypeOK, GapInv, FanOutInv, Register
    PROVE  GapInv'
<1>0. PICK h \in Ids : h = nextHandler
  <2>1. hwriter = nextHandler /\ nextHandler # NoId /\ hwriter \in Ids \cup {NoId}
    BY ManagerAssumption DEF Register, TypeOK, NoId
  <2>. QED BY <2>1
<1>. DEFINE start == IF loop = "rlock" THEN Len(written) - 1 ELSE Len(written)
<1>1. /\ loop # "fanout" /\ handlers' = Append(handlers, h) /\ h \in Ids /\ nextHandler' = h + 1
      /\ since' = [since EXCEPT ![h] = start] /\ since \in [Ids -> Int]
      /\ UNCHANGED <<loop, held, todo, written, received>>
      /\ handlers \in Seq(Ids) /\ h \in Nat /\ written \in Seq(Entry) /\ Len(written) \in Nat
  BY <1>0, HandlerIds DEF Register, writing, TypeOK
<1>2. /\ Range(handlers') = Range(handlers) \cup {h} /\ handlers' \in Seq(Ids)
      /\ Len(handlers') = Len(handlers) + 1 /\ Len(handlers) \in Nat
      /\ \A i \in 1 .. Len(handlers) : handlers'[i] = handlers[i]
      /\ handlers'[Len(handlers) + 1] = h
  BY <1>1, RangeAppend, AppendProperties, LenProperties
<1>3. todo = <<>>
  BY <1>1 DEF FanOutInv
<1>4. \A id \in Range(handlers) : id < h /\ id \in Nat
  BY <1>0, HandlerIds DEF GapInv, RosterInv
<1>5. RosterInv'
  <2>1. ASSUME NEW i \in 1 .. Len(handlers'), NEW j \in 1 .. Len(handlers'),
               handlers'[i] = handlers'[j]
        PROVE  i = j
    <3>1. \A k \in 1 .. Len(handlers) : handlers'[k] # h
      <4>1. \A k \in 1 .. Len(handlers) : handlers[k] \in Range(handlers)
        BY <1>1, RangeFacts
      <4>. QED BY <1>1, <1>2, <1>4, <4>1
    <3>2. CASE i \in 1 .. Len(handlers) /\ j \in 1 .. Len(handlers)
      BY <1>2, <2>1, <3>2 DEF GapInv, RosterInv, Distinct
    <3>. QED BY <1>2, <2>1, <3>1, <3>2
  <2>2. Distinct(handlers)' /\ Distinct(todo)'
    BY <1>1, <2>1 DEF GapInv, RosterInv, Distinct
  <2>3. \A id \in Range(handlers') : id < nextHandler'
    BY <1>1, <1>2, <1>4
  <2>4. \A id \in Ids : id >= nextHandler' => received'[id] = <<>>
    BY <1>0, <1>1, HandlerIds DEF GapInv, RosterInv
  <2>. QED BY <2>2, <2>3, <2>4 DEF RosterInv
<1>6. HeldInv'
  BY <1>1 DEF GapInv, HeldInv
<1>7. ASSUME NEW id \in Range(handlers) PROVE CaughtUp(id)'
  <2>1. since'[id] = since[id] /\ Behind(id)' = Behind(id)
    BY <1>1, <1>4, HandlerIds DEF Behind
  <2>. QED BY <1>1, <2>1 DEF GapInv, CaughtUp
<1>8. CaughtUp(h)'
  <2>1. since'[h] = start /\ received'[h] = <<>>
    BY <1>0, <1>1 DEF GapInv, RosterInv
  <2>2. start \in 0 .. Len(written) /\ start = Len(written) - Behind(h)'
    <3>1. CASE loop = "rlock"
      BY <1>1, <3>1 DEF Behind, GapInv, HeldInv
    <3>2. CASE loop # "rlock"
      BY <1>1, <3>2 DEF Behind
    <3>. QED BY <3>1, <3>2
  <2>3. SubSeq(written, start + 1, start) = <<>>
    BY <1>1, <2>2, SubSeqEmpty
  <2>4. start \in 0 .. start
    BY <2>2
  <2>. HIDE DEF start
  <2>. QED BY <1>1, <2>1, <2>2, <2>3, <2>4 DEF CaughtUp
<1>. QED BY <1>2, <1>5, <1>6, <1>7, <1>8 DEF GapInv

\* Removing a handler from the slice leaves the others' calls as they were.
LEMMA UnregisterGap ==
    ASSUME TypeOK, GapInv, FanOutInv, Unregister
    PROVE  GapInv'
<1>1. /\ loop # "fanout"
      /\ UNCHANGED <<nextHandler, since, loop, held, todo, written, received>>
      /\ handlers \in Seq(Ids) /\ Len(handlers) \in Nat
  BY LenProperties DEF Unregister, writing, TypeOK
<1>2. PICK i \in 1 .. Len(handlers) : handlers' = RemoveAt(handlers, i)
  BY DEF Unregister
<1>3. /\ handlers' \in Seq(Ids) /\ Len(handlers') = Len(handlers) - 1
      /\ \A j \in 1 .. Len(handlers') : handlers'[j] = handlers[IF j < i THEN j ELSE j + 1]
  BY <1>1, <1>2, RemoveAtElements
<1>4. Range(handlers') \subseteq Range(handlers) /\ Distinct(handlers')
  <2>. DEFINE from(j) == IF j < i THEN j ELSE j + 1
  <2>1. \A j \in 1 .. Len(handlers') : from(j) \in 1 .. Len(handlers) /\ handlers'[j] = handlers[from(j)]
    BY <1>1, <1>3
  <2>2. \A j, k \in 1 .. Len(handlers') : from(j) = from(k) => j = k
    BY <1>1, <1>3
  <2>. HIDE DEF from
  <2>3. Distinct(handlers')
    BY <2>1, <2>2 DEF GapInv, RosterInv, Distinct
  <2>. QED BY SMTT(30), <1>1, <1>3, <2>1, <2>3, RangeFacts
<1>5. RosterInv'
  BY <1>1, <1>4 DEF GapInv, RosterInv, Distinct
<1>6. HeldInv'
  BY <1>1 DEF GapInv, HeldInv
<1>7. ASSUME NEW id \in Range(handlers) PROVE CaughtUp(id)'
  BY <1>1 DEF GapInv, CaughtUp, Behind
<1>. QED BY <1>4, <1>5, <1>6, <1>7 DEF GapInv

\* A fan-out begins with every registered handler still to be called.
LEMMA FanOutGap ==
    ASSUME TypeOK, GapInv, FanOutInv, FanOutRLock
    PROVE  GapInv'
<1>1. /\ loop = "rlock" /\ loop' = "fanout" /\ todo' = handlers
      /\ UNCHANGED <<registry, held, written, received>>
  BY DEF FanOutRLock
<1>2. \A id \in Range(handlers) : Behind(id)' = Behind(id)
  BY <1>1 DEF Behind
<1>3. RosterInv' /\ HeldInv'
  BY <1>1 DEF GapInv, RosterInv, HeldInv, registry, Distinct
<1>4. ASSUME NEW id \in Range(handlers) PROVE CaughtUp(id)'
  BY <1>1, <1>2 DEF GapInv, CaughtUp, registry
<1>. QED BY <1>1, <1>3, <1>4 DEF GapInv, registry

\* Every step keeps the gap invariant.
LEMMA NextGapInv == ASSUME TypeOK, GapInv, FanOutInv, [Next]_vars PROVE GapInv'
<1>. DEFINE Away == {"receive", "write", "exited"}
<1>1. ASSUME NEW p \in Producers, WriteLog(p) \/ Enqueue(p) PROVE GapInv'
  <2>1. /\ UNCHANGED <<registry, todo, written, received>>
        /\ (loop' = loop /\ held' = held) \/ (loop \in Away /\ loop' \in Away)
    BY <1>1 DEF WriteLog, Enqueue, Refuse, Admit, Enter, SendBuffered, Buffer, SendDirect, Drop,
                Discard, writing
  <2>2. \A id \in Range(handlers) : Behind(id)' = Behind(id)
    BY <2>1 DEF Behind
  <2>. QED BY <2>1, <2>2, SameGapInv
<1>2. CASE Receive \/ LoopExit \/ WriteFail
  <2>1. UNCHANGED <<registry, todo, written, received>> /\ loop \in Away /\ loop' \in Away
    BY <1>2 DEF Receive, LoopExit, ExitOnceClosed, WriteFail, LoseHeld
  <2>2. \A id \in Range(handlers) : Behind(id)' = Behind(id)
    BY <2>1 DEF Behind
  <2>. QED BY <2>1, <2>2, SameGapInv
<1>3. CASE FanOutDone
  <2>1. /\ UNCHANGED <<registry, todo, written, received>> /\ loop = "fanout" /\ loop' = "receive"
        /\ todo = <<>> /\ todo \in Seq(Ids)
    BY <1>3 DEF FanOutDone, TypeOK
  <2>2. \A id \in Range(handlers) : Behind(id)' = Behind(id)
    BY <2>1, RangeFacts DEF Behind
  <2>. QED BY <2>1, <2>2, SameGapInv
<1>4. CASE RegisterCall \/ (\E id \in Ids : UnregisterCall(id)) \/ CloseStep \/ UNCHANGED vars
  <2>1. UNCHANGED <<handlers, nextHandler, since, loop, held, todo, written, received>>
    BY <1>4 DEF RegisterCall, UnregisterCall, CloseStep, CloseCall, CloseLock, LockedSection,
                CloseReturn, CloseWriter, writing, registry, vars
  <2>2. \A id : Behind(id)' = Behind(id)
    BY <2>1 DEF Behind
  <2>3. RosterInv' /\ HeldInv'
    BY <2>1 DEF GapInv, RosterInv, HeldInv, Distinct
  <2>4. ASSUME NEW id \in Range(handlers) PROVE CaughtUp(id)'
    BY <2>1, <2>2 DEF GapInv, CaughtUp
  <2>. QED BY <2>1, <2>3, <2>4 DEF GapInv
<1>. QED
  BY <1>1, <1>2, <1>3, <1>4, WriteOKGap, DeliverGap, RegisterGap, UnregisterGap, FanOutGap
  DEF Next, RunStep, RegistryStep, Terminated

\* No handler is registered and nothing is written.
LEMMA InitGapInv == Init => FanOutInv /\ GapInv
<1>. SUFFICES ASSUME Init PROVE FanOutInv /\ GapInv
  OBVIOUS
<1>. USE DEF Init
<1>1. Len(<<>>) = 0 /\ Range(<<>>) = {}
  BY EmptySeq DEF Range
<1>. QED BY <1>1 DEF FanOutInv, GapInv, RosterInv, HeldInv, Distinct

\* A registered handler has been called with exactly the entries written since it was
\* registered, in order and once each, but for the one being handed round: for any number
\* of handlers that come and go, before and after it, while entries keep flowing.
THEOREM NoGaps == SafeSpec => []NoGapForHandlers
<1>1. TypeOK /\ FanOutInv /\ GapInv /\ [Next]_vars => (FanOutInv /\ GapInv)'
  BY NextFanOutInv, NextGapInv
<1>2. GapInv => NoGapForHandlers
  BY DEF GapInv, CaughtUp, NoGapForHandlers
<1>. QED BY <1>1, <1>2, InitGapInv, TypeCorrect, PTL DEF SafeSpec

=============================================================================
