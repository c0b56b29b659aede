--------------------------- MODULE LiveTailProofs ---------------------------
(***************************************************************************)
(* Proofs about LiveTail: what a WebSocket client is sent is in order,     *)
(* with at most one entry twice, and complete from its registration on.    *)
(***************************************************************************)
EXTENDS LiveTail, SequenceFacts

\* The ids of a sequence rise strictly from its a-th element to its b-th.
Rising(u, a, b) == \A i, j \in a .. b : i < j => u[i].id < u[j].id

Before == {"accept", "read", "backlog"}
After  == {"live", "leaving"}

\* The id of an entry is its place in the store, and the entry under way is the last.
StoreInv ==
    /\ \A i \in 1 .. Len(store) : store[i].id = i
    /\ loop # "write" => Len(store) # 0 /\ pending[1] = store[Len(store)]

\* The last entry that the handler of c, if there is one, has been called for.
CalledFor(c) == IF loop = "fanout" /\ c \notin todo THEN Len(store) ELSE FannedOut

\* The first m entries come from the backlog and end at snap; the others come from the
\* handler and start behind since, which is at most one entry before snap.
Split(c, u, m) ==
    /\ Rising(u, 1, m) /\ Rising(u, m + 1, Len(u))
    /\ \A i \in 1 .. m : u[i].id <= snap[c]
    /\ \A i \in m + 1 .. Len(u) : u[i].id > since[c] /\ u[i].id <= CalledFor(c)
    /\ m < Len(u) => snap[c] <= since[c] + 1

PhaseInv(c) ==
    /\ registered[c] <=> at[c] \in After
    /\ at[c] \in Before => live[c] = <<>>
    /\ at[c] \in {"accept", "read"} => sent[c] = <<>> /\ backlog[c] = <<>>
    /\ snap[c] <= Len(store)
    /\ at[c] \in After => snap[c] <= since[c] + 1 /\ since[c] <= FannedOut

BacklogInv(c) ==
    at[c] = "backlog" =>
        /\ Rising(sent[c] \o backlog[c], 1, Len(sent[c] \o backlog[c]))
        /\ \A i \in 1 .. Len(sent[c] \o backlog[c]) : (sent[c] \o backlog[c])[i].id <= snap[c]

SplitInv(c) == \E m \in 0 .. Len(sent[c] \o live[c]) : Split(c, sent[c] \o live[c], m)

OrderInv == \A c \in Clients : PhaseInv(c) /\ BacklogInv(c) /\ SplitInv(c)

\* Each entry that the handler has been called for and lets through is accounted for.
Accounted(c) ==
    registered[c] =>
        Passing(c, since[c] + 1, CalledFor(c))
            \subseteq Range(sent[c]) \cup Range(live[c]) \cup lost[c]

CompleteInv == \A c \in Clients : Accounted(c)

Inv == TypeOK /\ StoreInv /\ OrderInv

-----------------------------------------------------------------------------
(* What the operators of LiveTail give.                                    *)

\* The entries of a client's backlog are entries of the store that pass its filter, in
\* their order there.
LEMMA BacklogFacts ==
    ASSUME NEW s \in Seq(Entry), \A i \in 1 .. Len(s) : s[i].id = i,
           NEW I \in SUBSET (1 .. Len(s)), NEW b, b = MostRecent(SubSeqAt(s, I))
    PROVE  /\ b \in Seq(Entry) /\ Rising(b, 1, Len(b))
           /\ \A k \in 1 .. Len(b) : b[k].id \in I /\ b[k] = s[b[k].id]
<1>. DEFINE t == SubSeqAt(s, I)
<1>1. t \in Seq(Entry) /\ Len(t) \in Nat
  BY SubSeqAtElements
<1>2. PICK f : Enumerates(f, Len(t), I) /\ \A k \in 1 .. Len(t) : t[k] = s[f[k]]
  BY SubSeqAtElements
<1>. HIDE DEF t
<1>3. /\ \A j, k \in 1 .. Len(t) : j < k => f[j] < f[k]
      /\ \A k \in 1 .. Len(t) : f[k] \in I /\ f[k] \in 1 .. Len(s)
  BY <1>2 DEF Enumerates
<1>4. \A k \in 1 .. Len(t) : t[k].id = f[k] /\ t[k] = s[t[k].id] /\ t[k].id \in I
  BY <1>2, <1>3
<1>5. maxEntries \in Nat \ {0}
  BY LiveTailAssumption
<1>6. b = MostRecent(t)
  BY DEF t
<1>7. CASE Len(t) <= maxEntries
  <2>1. b = t
    BY <1>1, <1>5, <1>6, <1>7 DEF MostRecent
  <2>. QED BY <1>1, <1>3, <1>4, <2>1 DEF Rising
<1>8. CASE Len(t) > maxEntries
  <2>. DEFINE m == Len(t) - maxEntries + 1
  <2>0. m \in Nat \ {0} /\ m \in 1 .. Len(t)
    BY <1>1, <1>5, <1>8
  <2>1. b = SubSeq(t, m, Len(t)) /\ m \in Nat \ {0} /\ m \in 1 .. Len(t)
    <3>1. b = IF Len(t) > maxEntries THEN SubSeq(t, m, Len(t)) ELSE t
      BY <1>6 DEF MostRecent
    <3>. QED BY <1>8, <2>0, <3>1
  <2>. HIDE DEF m
  <2>2. \A i \in m .. Len(t) : t[i] \in Entry
    <3>1. \A i \in m .. Len(t) : i \in 1 .. Len(t)
      BY <1>1, <2>1
    <3>. QED BY <1>1, <3>1, ElementOfSeq
  <2>3. /\ b \in Seq(Entry) /\ Len(b) = Len(t) - m + 1
        /\ \A i \in 1 .. Len(t) - m + 1 : b[i] = t[m + i - 1]
    BY <1>1, <2>1, <2>2, SubSeqProperties
  <2>4. \A i \in 1 .. Len(b) : m + i - 1 \in 1 .. Len(t) /\ b[i] = t[m + i - 1]
    BY <1>1, <2>1, <2>3
  <2>5. \A i, j \in 1 .. Len(b) : i < j => m + i - 1 < m + j - 1
    BY <1>1, <2>1, <2>3
  <2>6. Rising(b, 1, Len(b))
    <3>. SUFFICES ASSUME NEW i \in 1 .. Len(b), NEW j \in 1 .. Len(b), i < j
                  PROVE  b[i].id < b[j].id
      BY DEF Rising
    <3>1. f[m + i - 1] < f[m + j - 1]
      BY <1>3, <2>4, <2>5
    <3>. QED BY <1>4, <2>4, <3>1
  <2>. QED BY <1>4, <2>3, <2>4, <2>6
<1>. QED BY <1>1, <1>5, <1>7, <1>8

\* Sending the head of what is to be sent leaves the whole the same.
LEMMA SentHead ==
    ASSUME NEW s \in Seq(Entry), NEW u \in Seq(Entry), u # <<>>
    PROVE  /\ SubSeq(u, 1, 1) = <<Head(u)>> /\ s \o <<Head(u)>> = Append(s, Head(u))
           /\ Append(s, Head(u)) \in Seq(Entry) /\ Tail(u) \in Seq(Entry) /\ Head(u) \in Entry
           /\ Append(s, Head(u)) \o Tail(u) = s \o u
           /\ Range(Append(s, Head(u))) \cup Range(Tail(u)) = Range(s) \cup Range(u)
           /\ Len(Tail(u)) = Len(u) - 1
           /\ Len(Append(s, Head(u))) <= Len(s \o u)
<1>1. /\ Tail(u) \in Seq(Entry) /\ Head(u) \in Entry /\ Len(Tail(u)) = Len(u) - 1
      /\ Range(u) = {Head(u)} \cup Range(Tail(u))
  BY RangeHeadTail
<1>2. SubSeq(u, 1, 1) = <<Head(u)>>
  <2>1. Len(u) \in Nat \ {0} /\ Head(u) = u[1]
    BY EmptySeq, HeadTailProperties
  <2>2. /\ SubSeq(u, 1, 1) \in Seq(Entry) /\ Len(SubSeq(u, 1, 1)) = 1
        /\ SubSeq(u, 1, 1)[1] = u[1]
    <3>1. \A i \in 1 .. 1 : u[i] \in Entry
      BY <1>1, <2>1
    <3>2. /\ SubSeq(u, 1, 1) \in Seq(Entry)
          /\ Len(SubSeq(u, 1, 1)) = IF 1 <= 1 THEN 1 - 1 + 1 ELSE 0
          /\ \A i \in 1 .. 1 - 1 + 1 : SubSeq(u, 1, 1)[i] = u[1 + i - 1]
      BY <3>1, SubSeqProperties
    <3>. QED BY <3>2
  <2>3. /\ <<Head(u)>> \in Seq(Entry) /\ Len(<<Head(u)>>) = 1
        /\ <<Head(u)>>[1] = Head(u)
    BY <1>1
  <2>4. \A i \in 1 .. Len(SubSeq(u, 1, 1)) : SubSeq(u, 1, 1)[i] = <<Head(u)>>[i]
    BY <2>1, <2>2, <2>3
  <2>. QED BY <2>2, <2>3, <2>4, SeqEqual
<1>3. s \o <<Head(u)>> = Append(s, Head(u)) /\ Append(s, Head(u)) \in Seq(Entry)
  BY <1>1, AppendIsConcat, AppendProperties
<1>4. Append(s, Head(u)) \o Tail(u) = s \o u
  <2>1. u = <<Head(u)>> \o Tail(u)
    BY HeadTailConcat
  <2>2. <<Head(u)>> \in Seq(Entry)
    BY <1>1
  <2>3. (s \o <<Head(u)>>) \o Tail(u) = s \o (<<Head(u)>> \o Tail(u))
    BY <1>1, <2>2, ConcatAssociative
  <2>. QED BY <1>3, <2>1, <2>3
<1>5. Range(Append(s, Head(u))) = Range(s) \cup {Head(u)}
  BY <1>1, RangeAppend
<1>6. Len(Append(s, Head(u))) <= Len(s \o u)
  <2>1. Len(s) \in Nat /\ Len(u) \in Nat \ {0}
    BY EmptySeq
  <2>. QED BY <1>1, <2>1, ConcatProperties, AppendProperties
<1>. QED BY <1>1, <1>2, <1>3, <1>4, <1>5, <1>6

-----------------------------------------------------------------------------
(* Types.                                                                  *)

\* The initial state has the types.
LEMMA TypeInit == Init => TypeOK
  BY LiveTailAssumption DEF Init, TypeOK

\* The write loop keeps the types.
LEMMA TypeLoop == TypeOK /\ (Write \/ FanOut \/ FanOutDone) => TypeOK'
<1>. SUFFICES ASSUME TypeOK, Write \/ FanOut \/ FanOutDone PROVE TypeOK'
  OBVIOUS
<1>. USE LiveTailAssumption
<1>1. CASE Write
  <2>1. PICK e \in [id : {Len(store) + 1}, level : EntryLevels] :
            store' = Append(store, e) /\ pending' = <<e>>
    BY <1>1 DEF Write
  <2>2. /\ store \in Seq(Entry) /\ Len(store) \in Nat /\ Len(store) < MaxEntries
        /\ e \in Entry
    BY <1>1 DEF TypeOK, Write, Entry
  <2>3. store' \in Seq(Entry) /\ Len(store') <= MaxEntries
    BY <2>1, <2>2, AppendProperties
  <2>4. pending' \in Seq(Entry) /\ Len(pending') = 1
    BY <2>1, <2>2
  <2>. QED BY <1>1, <2>3, <2>4 DEF TypeOK, Write
<1>2. CASE FanOut
  BY <1>2 DEF TypeOK, FanOut
<1>3. CASE FanOutDone
  BY <1>3 DEF TypeOK, FanOutDone
<1>. QED BY <1>1, <1>2, <1>3

\* A handler's callback keeps them, and the channel within its capacity.
LEMMA TypeHandle == ASSUME NEW c \in Clients PROVE TypeOK /\ Handle(c) => TypeOK'
<1>. SUFFICES ASSUME TypeOK, Handle(c) PROVE TypeOK'
  OBVIOUS
<1>1. /\ live[c] \in Seq(Entry) /\ pending \in Seq(Entry) /\ Len(pending) = 1
      /\ Len(live[c]) \in Nat
  BY DEF TypeOK, Handle, Offer
<1>2. pending[1] \in Entry /\ LiveCap \in Nat
  BY <1>1, ElementOfSeq, LiveTailAssumption
<1>3. live[c] \o pending \in Seq(Entry) /\ Len(live[c] \o pending) = Len(live[c]) + 1
  <2>1. ASSUME NEW u \in Seq(Entry), NEW v \in Seq(Entry)
        PROVE  u \o v \in Seq(Entry) /\ Len(u \o v) = Len(u) + Len(v)
    BY ConcatProperties
  <2>2. /\ live[c] \o pending \in Seq(Entry)
        /\ Len(live[c] \o pending) = Len(live[c]) + Len(pending)
    BY <1>1, <2>1
  <2>. QED BY <1>1, <2>2
<1>4. /\ live' \in [Clients -> Seq(Entry)] /\ lost' \in [Clients -> SUBSET Entry]
      /\ \A d \in Clients : Len(live'[d]) <= LiveCap
  BY <1>1, <1>2, <1>3 DEF TypeOK, Handle, Offer, HasRoom
<1>. QED BY <1>4 DEF TypeOK, Handle, Offer

\* A client's goroutine keeps the types.
LEMMA TypeServe == ASSUME NEW c \in Clients PROVE TypeOK /\ StoreInv /\ Serve(c) => TypeOK'
<1>. SUFFICES ASSUME TypeOK, StoreInv, Serve(c) PROVE TypeOK'
  OBVIOUS
<1>0. /\ sent[c] \in Seq(Entry) /\ backlog[c] \in Seq(Entry) /\ live[c] \in Seq(Entry)
      /\ Len(store) \in 0 .. MaxEntries /\ Len(live[c]) <= LiveCap
      /\ LiveCap \in Nat /\ Len(live[c]) \in Nat /\ MaxEntries \in Nat
  BY LiveTailAssumption DEF TypeOK
<1>1. CASE Accept(c) \/ AcceptFails(c)
  BY <1>1 DEF TypeOK, Accept, Upgrade, AcceptFails, Goto, loopVars
<1>7. CASE ReadLogsFails(c)
  BY <1>0, <1>7 DEF TypeOK, ReadLogsFails, Goto, loopVars
<1>8. CASE Leave(c)
  <2>1. at' \in [Clients -> {"accept", "read", "backlog", "register", "live", "leaving", "gone"}]
    BY <1>8 DEF TypeOK, Leave, LeaveFor, Goto
  <2>. QED BY <1>8, <2>1 DEF TypeOK, Leave, LeaveFor, loopVars
<1>2. CASE ReadLogs(c)
  <2>. DEFINE I == {i \in DOMAIN store : InBacklog(c, store[i])}
  <2>1. store \in Seq(Entry) /\ I \in SUBSET (1 .. Len(store))
    BY DEF TypeOK
  <2>. HIDE DEF I
  <2>2. SubSeqAt(store, I) \in Seq(Entry) /\ Len(SubSeqAt(store, I)) \in Nat
    BY <2>1, SubSeqAtElements
  <2>3. MostRecent(SubSeqAt(store, I)) \in Seq(Entry)
    <3>. DEFINE t == SubSeqAt(store, I)
    <3>. HIDE DEF t
    <3>1. t \in Seq(Entry) /\ Len(t) \in Nat
      BY <2>2 DEF t
    <3>2. \A i \in 1 .. Len(t) : t[i] \in Entry
      BY <3>1, ElementOfSeq
    <3>3. maxEntries \in Nat \ {0}
      BY LiveTailAssumption
    <3>4. MostRecent(t) \in Seq(Entry)
      BY <3>1, <3>2, <3>3, SubSeqProperties DEF MostRecent
    <3>. QED BY <3>4 DEF t
  <2>4. backlog' = [backlog EXCEPT ![c] = MostRecent(SubSeqAt(store, I))]
    BY <1>2 DEF ReadLogs, I
  <2>5. backlog' \in [Clients -> Seq(Entry)]
    BY <2>3, <2>4 DEF TypeOK
  <2>. QED BY <1>0, <1>2, <2>5 DEF TypeOK, ReadLogs, Goto, loopVars
<1>3. CASE SendBacklog(c)
  <2>1. Append(sent[c], Head(backlog[c])) \in Seq(Entry) /\ Tail(backlog[c]) \in Seq(Entry)
    BY <1>0, <1>3, SentHead DEF SendBacklog
  <2>. QED BY <1>0, <1>3, <2>1 DEF TypeOK, SendBacklog, loopVars
<1>4. CASE Register(c)
  <2>1. FannedOut \in 0 .. MaxEntries
    <3>1. /\ Len(store) \in Nat
          /\ loop = "write" => Len(pending) = 0
          /\ loop # "write" => Len(pending) = 1 /\ Len(store) # 0
      BY DEF TypeOK, StoreInv
    <3>2. Len(pending) = 0 \/ (Len(pending) = 1 /\ Len(store) >= 1)
      BY <3>1
    <3>3. ASSUME NEW n \in 0 .. MaxEntries, NEW p, p = 0 \/ (p = 1 /\ n >= 1)
          PROVE  n - p \in 0 .. MaxEntries
      BY <1>0, <3>3
    <3>. QED BY <1>0, <3>2, <3>3 DEF FannedOut
  <2>. QED BY <1>0, <1>4, <2>1 DEF TypeOK, Register, Goto, loopVars
<1>5. CASE Forward(c)
  <2>1. /\ sent[c] \o SubSeq(live[c], 1, 1) \in Seq(Entry) /\ Tail(live[c]) \in Seq(Entry)
        /\ Len(Tail(live[c])) = Len(live[c]) - 1
    BY <1>0, <1>5, SentHead DEF Forward, TakeLive
  <2>. QED BY SMTT(30), <1>0, <1>5, <2>1 DEF TypeOK, Forward, TakeLive, loopVars
<1>6. CASE Unregister(c)
  BY <1>0, <1>6 DEF TypeOK, Unregister, Goto, loopVars
<1>. QED BY <1>1, <1>2, <1>3, <1>4, <1>5, <1>6, <1>7, <1>8 DEF Serve

\* Every step keeps the types.
LEMMA TypeStep == TypeOK /\ StoreInv /\ [Next]_vars => TypeOK'
<1>. SUFFICES ASSUME TypeOK, StoreInv, [Next]_vars PROVE TypeOK'
  OBVIOUS
<1>1. ASSUME NEW c \in Clients, Disconnect(c) PROVE TypeOK'
  BY <1>1 DEF TypeOK, Disconnect, loopVars
<1>2. CASE UNCHANGED vars
  BY <1>2 DEF TypeOK, vars, loopVars
<1>. QED BY <1>1, <1>2, TypeLoop, TypeHandle, TypeServe DEF Next, Loop

\* Every step keeps ids and places in the store together.
LEMMA StoreStep == TypeOK /\ StoreInv /\ [Next]_vars => StoreInv'
<1>. SUFFICES ASSUME TypeOK, StoreInv, [Next]_vars PROVE StoreInv'
  OBVIOUS
<1>1. CASE Write
  <2>1. PICK e \in [id : {Len(store) + 1}, level : EntryLevels] :
            store' = Append(store, e) /\ pending' = <<e>>
    BY <1>1 DEF Write
  <2>2. store \in Seq(Entry) /\ Len(store) \in Nat /\ e \in Entry /\ e.id = Len(store) + 1
    BY <1>1, LiveTailAssumption DEF TypeOK, Write, Entry
  <2>3. /\ Len(store') = Len(store) + 1 /\ store'[Len(store) + 1] = e
        /\ \A i \in 1 .. Len(store) : store'[i] = store[i]
    BY <2>1, <2>2, AppendProperties
  <2>4. pending'[1] = e
    BY <2>1
  <2>5. \A i \in 1 .. Len(store') : i \in 1 .. Len(store) \/ i = Len(store) + 1
    BY <2>2, <2>3
  <2>. QED BY <2>2, <2>3, <2>4, <2>5 DEF StoreInv
<1>2. CASE FanOut
  BY <1>2 DEF StoreInv, FanOut
<1>3. CASE FanOutDone
  BY <1>3 DEF StoreInv, FanOutDone
<1>4. CASE \E c \in Clients : Handle(c) \/ Serve(c) \/ Disconnect(c)
  BY <1>4 DEF StoreInv, Handle, Offer, Disconnect, Serve, Accept, Upgrade, AcceptFails, ReadLogs,
              ReadLogsFails, SendBacklog, Register, Forward, TakeLive, Leave, LeaveFor, Unregister,
              loopVars
<1>5. CASE UNCHANGED vars
  BY <1>5 DEF StoreInv, vars, loopVars
<1>. QED BY <1>1, <1>2, <1>3, <1>4, <1>5 DEF Next, Loop

-----------------------------------------------------------------------------
(* Order.                                                                  *)

\* How far the fan-out has come.
LEMMA Counters ==
    ASSUME TypeOK, StoreInv
    PROVE  /\ FannedOut \in Nat /\ FannedOut = IF loop = "write" THEN Len(store) ELSE Len(store) - 1
           /\ Len(store) \in Nat
           /\ \A c \in Clients : /\ CalledFor(c) \in Nat /\ FannedOut <= CalledFor(c)
                                /\ CalledFor(c) <= Len(store)
<1>1. /\ Len(store) \in Nat
      /\ loop = "write" => Len(pending) = 0
      /\ loop # "write" => Len(pending) = 1 /\ Len(store) # 0
  BY DEF TypeOK, StoreInv
<1>2. FannedOut \in Nat /\ FannedOut = IF loop = "write" THEN Len(store) ELSE Len(store) - 1
  <2>1. CASE loop = "write"
    <3>1. FannedOut = Len(store)
      BY <1>1, <2>1 DEF FannedOut
    <3>. QED BY <1>1, <2>1, <3>1
  <2>2. CASE loop # "write"
    <3>1. FannedOut = Len(store) - 1
      BY <1>1, <2>2 DEF FannedOut
    <3>. QED BY <1>1, <2>2, <3>1
  <2>. QED BY <2>1, <2>2
<1>. QED BY <1>1, <1>2 DEF CalledFor

\* How far the fan-out is, for all clients and for each one, in the next state.
LEMMA Counters2 ==
    ASSUME TypeOK', StoreInv'
    PROVE  /\ FannedOut' \in Nat
           /\ FannedOut' = IF loop' = "write" THEN Len(store') ELSE Len(store') - 1
           /\ Len(store') \in Nat
           /\ \A c \in Clients : /\ CalledFor(c)' \in Nat /\ FannedOut' <= CalledFor(c)'
                                /\ CalledFor(c)' <= Len(store')
<1>1. /\ Len(store') \in Nat
      /\ loop' = "write" => Len(pending') = 0
      /\ loop' # "write" => Len(pending') = 1 /\ Len(store') # 0
  BY DEF TypeOK, StoreInv
<1>2. /\ FannedOut' \in Nat
      /\ FannedOut' = IF loop' = "write" THEN Len(store') ELSE Len(store') - 1
  <2>1. CASE loop' = "write"
    <3>1. FannedOut' = Len(store')
      BY <1>1, <2>1 DEF FannedOut
    <3>. QED BY <1>1, <2>1, <3>1
  <2>2. CASE loop' # "write"
    <3>1. FannedOut' = Len(store') - 1
      BY <1>1, <2>2 DEF FannedOut
    <3>. QED BY <1>1, <2>2, <3>1
  <2>. QED BY <2>1, <2>2
<1>. QED BY <1>1, <1>2 DEF CalledFor

\* A step of the loop or of another client, as one client sees it.
Elsewhere(c) ==
    /\ query'[c] = query[c] /\ at'[c] = at[c] /\ backlog'[c] = backlog[c]
    /\ registered'[c] = registered[c] /\ live'[c] = live[c] /\ sent'[c] = sent[c]
    /\ snap'[c] = snap[c] /\ since'[c] = since[c] /\ lost'[c] = lost[c]

\* The loop's own steps leave what a client has been called for as it is.
LEMMA LoopElsewhere ==
    ASSUME TypeOK, StoreInv, TypeOK', StoreInv', Write \/ FanOut \/ FanOutDone, NEW c \in Clients
    PROVE  /\ Elsewhere(c) /\ FannedOut <= FannedOut' /\ CalledFor(c) <= CalledFor(c)'
           /\ registered[c] => CalledFor(c)' = CalledFor(c)
<1>1. Elsewhere(c)
  BY DEF Elsewhere, Write, FanOut, FanOutDone
<1>2. CASE Write
  <2>1. PICK e \in [id : {Len(store) + 1}, level : EntryLevels] : store' = Append(store, e)
    BY <1>2 DEF Write
  <2>2. Len(store') = Len(store) + 1
    BY <2>1 DEF TypeOK
  <2>3. loop = "write" /\ loop' = "rlock"
    BY <1>2 DEF Write
  <2>. QED BY <1>1, <2>2, <2>3, Counters, Counters2 DEF CalledFor
<1>3. CASE FanOut
  <2>1. store' = store /\ loop = "rlock" /\ loop' = "fanout" /\ (c \in todo' <=> registered[c])
    BY <1>3 DEF FanOut
  <2>. QED BY <1>1, <2>1, Counters, Counters2 DEF CalledFor
<1>4. CASE FanOutDone
  <2>1. store' = store /\ loop = "fanout" /\ loop' = "write" /\ c \notin todo
    BY <1>4 DEF FanOutDone
  <2>. QED BY <1>1, <2>1, Counters, Counters2 DEF CalledFor
<1>. QED BY <1>2, <1>3, <1>4

\* One client's steps leave the others alone.
LEMMA ClientElsewhere ==
    ASSUME TypeOK, NEW d \in Clients, Handle(d) \/ Serve(d) \/ Disconnect(d),
           NEW c \in Clients, c # d
    PROVE  /\ Elsewhere(c) /\ store' = store /\ FannedOut' = FannedOut
           /\ CalledFor(c)' = CalledFor(c)
<1>1. store' = store /\ loop' = loop /\ pending' = pending /\ (c \in todo' <=> c \in todo)
  BY DEF Handle, Offer, Disconnect, Serve, Accept, Upgrade, AcceptFails, ReadLogs,
              ReadLogsFails, SendBacklog, Register, Forward, TakeLive, Leave, LeaveFor, Unregister,
              loopVars
<1>2. Elsewhere(c)
  <2>1. CASE Handle(d)
    BY <2>1 DEF TypeOK, Elsewhere, Handle, Offer
  <2>2. CASE Disconnect(d)
    BY <2>2 DEF TypeOK, Elsewhere, Disconnect
  <2>3. CASE Accept(d) \/ AcceptFails(d) \/ ReadLogs(d) \/ ReadLogsFails(d)
    BY <2>3 DEF TypeOK, Elsewhere, Accept, Upgrade, AcceptFails, ReadLogs, ReadLogsFails, Goto
  <2>4. CASE SendBacklog(d) \/ Register(d) \/ Forward(d) \/ Leave(d) \/ Unregister(d)
    BY <2>4 DEF TypeOK, Elsewhere, SendBacklog, Register, Forward, TakeLive, Leave, LeaveFor,
                Unregister, Goto
  <2>. QED BY <2>1, <2>2, <2>3, <2>4 DEF Serve
<1>. QED BY <1>1, <1>2 DEF FannedOut, CalledFor

\* A client whose own variables do not change keeps its part of the order invariant.
LEMMA OrderElsewhere ==
    ASSUME TypeOK, StoreInv, TypeOK', StoreInv', NEW c \in Clients, Elsewhere(c),
           FannedOut <= FannedOut', CalledFor(c) <= CalledFor(c)',
           Len(store) <= Len(store'), PhaseInv(c), BacklogInv(c), SplitInv(c)
    PROVE  PhaseInv(c)' /\ BacklogInv(c)' /\ SplitInv(c)'
<1>1. /\ FannedOut \in Nat /\ FannedOut' \in Nat /\ CalledFor(c) \in Nat /\ CalledFor(c)' \in Nat
      /\ Len(store) \in Nat /\ Len(store') \in Nat
      /\ snap[c] \in Nat /\ since[c] \in Nat
  <2>1. snap[c] \in Nat /\ since[c] \in Nat
    BY LiveTailAssumption DEF TypeOK
  <2>. QED BY <2>1, Counters, Counters2
<1>2. PhaseInv(c)'
  BY <1>1 DEF PhaseInv, Elsewhere
<1>3. BacklogInv(c)'
  BY DEF BacklogInv, Elsewhere
<1>4. SplitInv(c)'
  <2>. DEFINE u == sent[c] \o live[c]
  <2>1. PICK m \in 0 .. Len(u) : Split(c, u, m)
    BY DEF SplitInv
  <2>2. u \in Seq(Entry) /\ u' = u
    BY ConcatProperties DEF TypeOK, Elsewhere
  <2>3. \A i \in m + 1 .. Len(u) : u[i].id \in Nat
    <3>. HIDE DEF u
    <3>1. \A i \in m + 1 .. Len(u) : i \in 1 .. Len(u)
      BY <2>1
    <3>2. \A i \in m + 1 .. Len(u) : u[i] \in Entry
      BY <2>2, <3>1, ElementOfSeq
    <3>. QED BY <3>2 DEF Entry
  <2>. HIDE DEF u
  <2>4. Split(c, u, m)'
    BY <1>1, <2>1, <2>2, <2>3 DEF Split, Elsewhere
  <2>. QED BY <2>1, <2>2, <2>4 DEF SplitInv, u
<1>. QED BY <1>2, <1>3, <1>4

\* The entry under way comes after all that the handler has put on the channel before.
LEMMA HandleOrder ==
    ASSUME TypeOK, StoreInv, TypeOK', NEW c \in Clients, Handle(c),
           PhaseInv(c), BacklogInv(c), SplitInv(c)
    PROVE  PhaseInv(c)' /\ BacklogInv(c)' /\ SplitInv(c)'
<1>. DEFINE u == sent[c] \o live[c]
            e == pending[1]
<1>1. /\ c \in todo /\ loop = "fanout" /\ registered[c] /\ at[c] \in After
      /\ snap[c] <= since[c] + 1 /\ since[c] <= FannedOut
  BY DEF Handle, Offer, TypeOK, PhaseInv
<1>2. /\ store' = store /\ loop' = loop /\ pending' = pending /\ c \notin todo'
      /\ at' = at /\ registered' = registered /\ sent' = sent /\ backlog' = backlog
      /\ snap' = snap /\ since' = since
  BY DEF Handle, Offer
<1>3. /\ FannedOut \in Nat /\ Len(store) \in Nat /\ Len(store) = FannedOut + 1
      /\ CalledFor(c) = FannedOut
  <2>1. CalledFor(c) = FannedOut
    BY <1>1 DEF CalledFor
  <2>. QED BY <1>1, <2>1, Counters
<1>4. FannedOut' = FannedOut /\ CalledFor(c)' = Len(store)
  BY <1>1, <1>2 DEF FannedOut, CalledFor
<1>5. e \in Entry /\ e.id = FannedOut + 1
  <2>1. pending \in Seq(Entry) /\ Len(pending) = 1
    BY <1>1 DEF TypeOK
  <2>2. e \in Entry
    BY <2>1, ElementOfSeq
  <2>3. e = store[Len(store)] /\ Len(store) \in 1 .. Len(store)
    BY <1>1, <1>3 DEF StoreInv
  <2>. QED BY <1>3, <2>2, <2>3 DEF StoreInv
<1>6. snap[c] \in Nat /\ since[c] \in Nat /\ u \in Seq(Entry) /\ Len(u) \in Nat
  <2>1. sent[c] \in Seq(Entry) /\ live[c] \in Seq(Entry) /\ snap[c] \in Nat /\ since[c] \in Nat
    BY LiveTailAssumption DEF TypeOK
  <2>2. u \in Seq(Entry)
    BY <2>1, ConcatProperties
  <2>. QED BY <2>1, <2>2, LenProperties
<1>7. u' = u \/ u' = Append(u, e)
  <2>1. live'[c] = live[c] \/ live'[c] = live[c] \o pending
    BY DEF Handle, Offer, TypeOK
  <2>2. pending = <<e>> /\ live[c] \in Seq(Entry) /\ sent[c] \in Seq(Entry)
    <3>1. pending \in Seq(Entry) /\ Len(pending) = 1
      BY <1>1 DEF TypeOK
    <3>2. <<e>> \in Seq(Entry) /\ Len(<<e>>) = 1 /\ <<e>>[1] = e
      BY <1>5
    <3>3. pending = <<e>>
      BY <3>1, <3>2, SeqEqual
    <3>. QED BY <3>3 DEF TypeOK
  <2>3. live[c] \o <<e>> = Append(live[c], e)
    BY <1>5, <2>2, AppendIsConcat
  <2>4. sent[c] \o Append(live[c], e) = Append(sent[c] \o live[c], e)
    <3>1. ASSUME NEW s \in Seq(Entry), NEW v \in Seq(Entry), NEW x \in Entry
          PROVE  s \o Append(v, x) = Append(s \o v, x)
      BY ConcatAppend
    <3>. HIDE DEF e
    <3>. QED BY <1>5, <2>2, <3>1
  <2>. QED BY <1>2, <2>1, <2>2, <2>3, <2>4
<1>8. PICK m \in 0 .. Len(u) : Split(c, u, m)
  BY DEF SplitInv
<1>. HIDE DEF u, e
<1>9. \A i \in 1 .. Len(u) : u[i].id \in Nat
  <2>1. \A i \in 1 .. Len(u) : u[i] \in Entry
    BY <1>6, ElementOfSeq
  <2>. QED BY <2>1 DEF Entry
<1>10. Split(c, u, m)' /\ m \in 0 .. Len(u')
  <2>1. CASE u' = u
    <3>1. Split(c, u, m)'
      BY <1>2, <1>3, <1>4, <1>6, <1>8, <1>9, <2>1 DEF Split
    <3>. QED BY <2>1, <3>1
  <2>2. CASE u' = Append(u, e)
    <3>. DEFINE v == u'
    <3>1. /\ Len(v) = Len(u) + 1 /\ v[Len(u) + 1] = e
          /\ \A i \in 1 .. Len(u) : v[i] = u[i]
      BY <1>5, <1>6, <2>2, AppendProperties
    <3>. HIDE DEF v
    <3>2. \A i \in 1 .. m : i \in 1 .. Len(u)
      BY <1>6
    <3>3. \A i \in m + 1 .. Len(v) :
             i = Len(u) + 1 \/ (i \in 1 .. Len(u) /\ i \in m + 1 .. Len(u))
      BY <1>6, <3>1
    <3>4. Rising(v, 1, m) /\ \A i \in 1 .. m : v[i].id <= snap[c]
      BY <1>8, <3>1, <3>2 DEF Split, Rising
    <3>5. \A i \in m + 1 .. Len(u) : u[i].id > since[c] /\ u[i].id <= FannedOut
      BY <1>3, <1>8 DEF Split
    <3>6. Rising(v, m + 1, Len(v))
      <4>. SUFFICES ASSUME NEW i \in m + 1 .. Len(v), NEW j \in m + 1 .. Len(v), i < j
                    PROVE  v[i].id < v[j].id
        BY DEF Rising
      <4>1. i \in 1 .. Len(u) /\ i \in m + 1 .. Len(u)
        BY <1>6, <3>1
      <4>2. CASE j = Len(u) + 1
        BY <1>3, <1>5, <1>9, <3>1, <3>5, <4>1, <4>2
      <4>3. CASE j # Len(u) + 1
        <5>1. j \in 1 .. Len(u) /\ j \in m + 1 .. Len(u)
          BY <3>3, <4>3
        <5>. QED BY <1>8, <3>1, <4>1, <5>1 DEF Split, Rising
      <4>. QED BY <4>2, <4>3
    <3>7. ASSUME NEW i \in m + 1 .. Len(v)
          PROVE  v[i].id > since[c] /\ v[i].id <= Len(store)
      <4>1. CASE i = Len(u) + 1
        BY <1>1, <1>3, <1>5, <1>6, <3>1, <4>1
      <4>2. CASE i # Len(u) + 1
        BY SMTT(30), <1>3, <1>9, <3>1, <3>3, <3>5, <4>2
      <4>. QED BY <4>1, <4>2
    <3>8. Split(c, u, m)'
      BY <1>1, <1>2, <1>4, <3>4, <3>6, <3>7 DEF Split, v
    <3>. QED BY <1>6, <3>1, <3>8 DEF v
  <2>. QED BY <1>7, <2>1, <2>2
<1>11. SplitInv(c)'
  BY <1>10 DEF SplitInv, u
<1>12. PhaseInv(c)'
  <2>1. at[c] \notin Before
    BY <1>1 DEF After, Before
  <2>2. at[c] \notin {"accept", "read"}
    BY <1>1 DEF After
  <2>. QED BY <1>1, <1>2, <1>4, <2>1, <2>2 DEF PhaseInv
<1>13. BacklogInv(c)'
  BY <1>1, <1>2 DEF BacklogInv, After
<1>. QED BY <1>11, <1>12, <1>13

\* A backlog on its way: the part that has been sent is in order, whatever the rest.
LEMMA BacklogSplits ==
    ASSUME NEW s \in Seq(Entry), NEW b \in Seq(Entry), NEW n,
           Rising(s \o b, 1, Len(s \o b)), \A i \in 1 .. Len(s \o b) : (s \o b)[i].id <= n
    PROVE  Rising(s, 1, Len(s)) /\ \A i \in 1 .. Len(s) : s[i].id <= n
<1>. DEFINE u == s \o b
<1>1. /\ Len(s) \in Nat /\ Len(b) \in Nat /\ Len(u) = Len(s) + Len(b)
      /\ \A i \in 1 .. Len(s) + Len(b) : u[i] = IF i <= Len(s) THEN s[i] ELSE b[i - Len(s)]
  BY LenProperties, ConcatProperties
<1>2. Rising(u, 1, Len(u)) /\ \A i \in 1 .. Len(u) : u[i].id <= n
  OBVIOUS
<1>. HIDE DEF u
<1>3. \A i \in 1 .. Len(s) : i \in 1 .. Len(u) /\ u[i] = s[i]
  BY <1>1
<1>. QED BY <1>2, <1>3 DEF Rising

\* What has been sent of a backlog is a first part without a second one.
LEMMA SplitBacklog ==
    ASSUME TypeOK, NEW c \in Clients, at[c] = "backlog", BacklogInv(c), PhaseInv(c)
    PROVE  /\ sent[c] \o live[c] = sent[c] /\ sent[c] \in Seq(Entry) /\ Len(sent[c]) \in Nat
           /\ Rising(sent[c], 1, Len(sent[c]))
           /\ \A i \in 1 .. Len(sent[c]) : sent[c][i].id <= snap[c]
<1>1. sent[c] \in Seq(Entry) /\ backlog[c] \in Seq(Entry) /\ live[c] = <<>>
  BY DEF TypeOK, PhaseInv, Before
<1>2. sent[c] \o live[c] = sent[c]
  BY <1>1, ConcatEmptySeq
<1>3. /\ Rising(sent[c], 1, Len(sent[c]))
      /\ \A i \in 1 .. Len(sent[c]) : sent[c][i].id <= snap[c]
  BY <1>1, BacklogSplits DEF BacklogInv
<1>. QED BY <1>1, <1>2, <1>3, LenProperties

\* A client's goroutine keeps its part of the order invariant.
LEMMA ServeOrder ==
    ASSUME TypeOK, StoreInv, TypeOK', NEW c \in Clients, Serve(c),
           PhaseInv(c), BacklogInv(c), SplitInv(c)
    PROVE  PhaseInv(c)' /\ BacklogInv(c)' /\ SplitInv(c)'
<1>1. /\ store' = store /\ loop' = loop /\ pending' = pending /\ todo' = todo
      /\ query' = query /\ lost' = lost
  BY DEF Serve, Accept, Upgrade, AcceptFails, ReadLogs, ReadLogsFails, SendBacklog, Register,
         Forward, TakeLive, Leave, LeaveFor, Unregister, loopVars
<1>2. FannedOut' = FannedOut /\ CalledFor(c)' = CalledFor(c)
  BY <1>1 DEF FannedOut, CalledFor
<1>3. /\ sent[c] \in Seq(Entry) /\ backlog[c] \in Seq(Entry) /\ live[c] \in Seq(Entry)
      /\ Len(store) \in Nat /\ FannedOut \in Nat
      /\ snap[c] \in Nat /\ since[c] \in Nat
  <2>1. snap[c] \in Nat /\ since[c] \in Nat
    BY LiveTailAssumption DEF TypeOK
  <2>2. Len(store) \in Nat /\ FannedOut \in Nat
    BY Counters
  <2>. QED BY <2>1, <2>2 DEF TypeOK
<1>4. ASSUME sent'[c] \o live'[c] = sent[c] \o live[c], snap' = snap, since' = since
      PROVE  SplitInv(c)'
  <2>. DEFINE u == sent[c] \o live[c]
  <2>1. PICK m \in 0 .. Len(u) : Split(c, u, m)
    BY DEF SplitInv
  <2>2. u' = u
    BY <1>4
  <2>. HIDE DEF u
  <2>3. Split(c, u, m)'
    BY <1>2, <1>4, <2>1, <2>2 DEF Split
  <2>. QED BY <2>1, <2>2, <2>3 DEF SplitInv, u
<1>5. ASSUME sent'[c] \o live'[c] = sent'[c], Len(sent'[c]) \in Nat,
             Rising(sent'[c], 1, Len(sent'[c])),
             \A i \in 1 .. Len(sent'[c]) : sent'[c][i].id <= snap'[c]
      PROVE  SplitInv(c)'
  <2>. DEFINE u == sent[c] \o live[c]
  <2>1. u' = sent'[c] /\ Len(u') \in 0 .. Len(u')
    BY <1>5
  <2>2. /\ Rising(u', 1, Len(u')) /\ \A i \in 1 .. Len(u') : u'[i].id <= snap'[c]
        /\ Len(u') \in Nat
    BY <1>5, <2>1
  <2>. HIDE DEF u
  <2>3. Rising(u', Len(u') + 1, Len(u')) /\ (Len(u') + 1) .. Len(u') = {}
    BY <2>2 DEF Rising
  <2>4. Split(c, u, Len(u))'
    BY <2>2, <2>3 DEF Split
  <2>. QED BY <2>1, <2>4 DEF SplitInv, u
<1>6. CASE Accept(c) \/ AcceptFails(c)
  <2>1. /\ at[c] = "accept" /\ at'[c] \in {"read", "gone"} /\ registered'[c] = registered[c]
        /\ UNCHANGED <<backlog, live, sent, snap, since>>
    BY <1>6 DEF Accept, AcceptFails, Upgrade, Goto, TypeOK
  <2>2. PhaseInv(c)' /\ BacklogInv(c)'
    BY <1>1, <2>1 DEF PhaseInv, BacklogInv, Before, After
  <2>. QED BY <1>4, <2>1, <2>2
<1>7. CASE ReadLogs(c) \/ ReadLogsFails(c)
  <2>. DEFINE I == {i \in DOMAIN store : InBacklog(c, store[i])}
              b == MostRecent(SubSeqAt(store, I))
  <2>1. /\ at[c] = "read" /\ at'[c] = "backlog" /\ snap'[c] = Len(store)
        /\ UNCHANGED <<registered, live, sent, since>> /\ backlog'[c] \in {<<>>, b}
        /\ backlog[c] = <<>> /\ sent[c] = <<>> /\ live[c] = <<>> /\ ~registered[c]
    <3>1. backlog'[c] \in {backlog[c], b} /\ at[c] = "read"
      BY <1>7 DEF ReadLogs, ReadLogsFails, TypeOK
    <3>2. backlog[c] = <<>> /\ sent[c] = <<>> /\ live[c] = <<>> /\ ~registered[c]
      BY <3>1 DEF PhaseInv, Before, After
    <3>3. at'[c] = "backlog" /\ snap'[c] = Len(store) /\ UNCHANGED <<registered, live, sent, since>>
      BY <1>7 DEF ReadLogs, ReadLogsFails, TypeOK, Goto
    <3>. QED BY <3>1, <3>2, <3>3
  <2>2. /\ backlog'[c] \in Seq(Entry) /\ Rising(backlog'[c], 1, Len(backlog'[c]))
        /\ \A i \in 1 .. Len(backlog'[c]) : backlog'[c][i].id <= Len(store)
    <3>1. /\ store \in Seq(Entry) /\ \A i \in 1 .. Len(store) : store[i].id = i
          /\ I \in SUBSET (1 .. Len(store))
      <4>1. store \in Seq(Entry) /\ \A i \in 1 .. Len(store) : store[i].id = i
        BY DEF TypeOK, StoreInv
      <4>2. DOMAIN store = 1 .. Len(store)
        BY <4>1
      <4>. QED BY <4>1, <4>2
    <3>. HIDE DEF I
    <3>2. /\ b \in Seq(Entry) /\ Rising(b, 1, Len(b))
          /\ \A k \in 1 .. Len(b) : b[k].id \in I /\ b[k] = store[b[k].id]
      BY <3>1, BacklogFacts
    <3>. HIDE DEF b
    <3>3. \A k \in 1 .. Len(b) : b[k].id <= Len(store)
      <4>1. \A i \in I : i <= Len(store)
        BY <1>3, <3>1
      <4>. QED BY <3>2, <4>1
    <3>4. CASE backlog'[c] = b
      BY <3>2, <3>3, <3>4
    <3>5. CASE backlog'[c] = <<>>
      BY <3>5 DEF Rising
    <3>. QED BY <2>1, <3>4, <3>5
  <2>. HIDE DEF b
  <2>3. sent'[c] \o backlog'[c] = backlog'[c] /\ sent'[c] \o live'[c] = <<>>
    BY <2>1, <2>2, ConcatEmptySeq
  <2>4. BacklogInv(c)'
    BY <2>1, <2>2, <2>3 DEF BacklogInv
  <2>5. PhaseInv(c)'
    BY <1>1, <1>3, <2>1 DEF PhaseInv, Before, After
  <2>6. SplitInv(c)'
    <3>1. sent'[c] = <<>> /\ Len(sent'[c]) = 0
      BY <2>1
    <3>2. Rising(sent'[c], 1, Len(sent'[c]))
      BY <3>1 DEF Rising
    <3>. QED BY <1>5, <2>3, <3>1, <3>2
  <2>. QED BY <2>4, <2>5, <2>6
<1>8. CASE SendBacklog(c)
  <2>1. /\ at[c] = "backlog" /\ at'[c] = at[c] /\ backlog[c] # <<>>
        /\ sent'[c] = Append(sent[c], Head(backlog[c])) /\ backlog'[c] = Tail(backlog[c])
        /\ UNCHANGED <<registered, live, snap, since>>
    BY <1>8 DEF SendBacklog, TypeOK
  <2>2. sent'[c] \o backlog'[c] = sent[c] \o backlog[c]
    <3>1. Append(sent[c], Head(backlog[c])) \o Tail(backlog[c]) = sent[c] \o backlog[c]
      BY <1>3, <2>1, SentHead, Zenon
    <3>. QED BY <2>1, <3>1, Zenon
  <2>3. PhaseInv(c)'
    BY <1>1, <1>2, <2>1 DEF PhaseInv, Before, After
  <2>4. BacklogInv(c)'
    BY <2>1, <2>2 DEF BacklogInv
  <2>5. at'[c] = "backlog" /\ TypeOK'
    BY <2>1
  <2>6. /\ sent'[c] \in Seq(Entry) /\ backlog'[c] \in Seq(Entry) /\ Len(sent'[c]) \in Nat
    BY DEF TypeOK
  <2>7. /\ Rising(sent'[c], 1, Len(sent'[c]))
        /\ \A i \in 1 .. Len(sent'[c]) : sent'[c][i].id <= snap'[c]
    BY <2>4, <2>5, <2>6, BacklogSplits DEF BacklogInv
  <2>8. sent'[c] \o live'[c] = sent'[c]
    <3>1. live'[c] = <<>>
      BY <2>1 DEF PhaseInv, Before
    <3>. QED BY <2>6, <3>1, ConcatEmptySeq
  <2>. QED BY <1>5, <2>3, <2>4, <2>6, <2>7, <2>8
<1>9. CASE Register(c)
  <2>1. /\ at[c] = "backlog" /\ at'[c] = "live" /\ registered'[c] /\ since'[c] = FannedOut
        /\ loop # "fanout" /\ UNCHANGED <<backlog, live, sent, snap>>
    BY <1>9 DEF Register, Goto, TypeOK
  <2>2. Len(store) <= FannedOut + 1 /\ snap[c] <= Len(store)
    BY <1>3, Counters DEF PhaseInv
  <2>3. PhaseInv(c)'
    BY <1>1, <1>2, <1>3, <2>1, <2>2 DEF PhaseInv, Before, After
  <2>4. BacklogInv(c)'
    BY <2>1 DEF BacklogInv
  <2>5. SplitInv(c)'
    BY <1>5, <2>1, SplitBacklog
  <2>. QED BY <2>3, <2>4, <2>5
<1>10. CASE Forward(c)
  <2>1. /\ at[c] = "live" /\ live[c] # <<>> /\ sent'[c] = sent[c] \o SubSeq(live[c], 1, 1)
        /\ live'[c] = Tail(live[c]) /\ UNCHANGED <<at, backlog, registered, snap, since>>
    BY <1>10 DEF Forward, TakeLive, TypeOK
  <2>2. sent'[c] \o live'[c] = sent[c] \o live[c]
    <3>1. /\ SubSeq(live[c], 1, 1) = <<Head(live[c])>>
          /\ sent[c] \o <<Head(live[c])>> = Append(sent[c], Head(live[c]))
          /\ Append(sent[c], Head(live[c])) \o Tail(live[c]) = sent[c] \o live[c]
      BY <1>3, <2>1, SentHead, Zenon
    <3>. QED BY <2>1, <3>1, Zenon
  <2>3. PhaseInv(c)' /\ BacklogInv(c)'
    BY <1>1, <1>2, <2>1 DEF PhaseInv, BacklogInv, Before, After
  <2>. QED BY <1>4, <2>1, <2>2, <2>3
<1>11. CASE Leave(c)
  <2>1. /\ \/ at[c] = "backlog" /\ at'[c] = "gone"
           \/ at[c] = "live" /\ at'[c] = "leaving"
        /\ UNCHANGED <<backlog, registered, live, sent, snap, since>>
    BY <1>11 DEF Leave, LeaveFor, Goto, TypeOK
  <2>2. PhaseInv(c)' /\ BacklogInv(c)'
    BY <1>1, <1>2, <2>1 DEF PhaseInv, BacklogInv, Before, After
  <2>. QED BY <1>4, <2>1, <2>2
<1>12. CASE Unregister(c)
  <2>1. /\ at[c] = "leaving" /\ at'[c] = "gone" /\ registered'[c] = FALSE
        /\ UNCHANGED <<backlog, live, sent, snap, since>>
    BY <1>12 DEF Unregister, Goto, TypeOK
  <2>2. PhaseInv(c)' /\ BacklogInv(c)'
    BY <1>1, <1>2, <2>1 DEF PhaseInv, BacklogInv, Before, After
  <2>. QED BY <1>4, <2>1, <2>2
<1>. QED BY <1>6, <1>7, <1>8, <1>9, <1>10, <1>11, <1>12 DEF Serve

\* Every step keeps the order invariant.
LEMMA OrderStep == Inv /\ TypeOK' /\ StoreInv' /\ [Next]_vars => OrderInv'
<1>. SUFFICES ASSUME Inv, TypeOK', StoreInv', [Next]_vars, NEW c \in Clients
              PROVE  (PhaseInv(c) /\ BacklogInv(c) /\ SplitInv(c))'
  BY DEF OrderInv
<1>1. /\ TypeOK /\ StoreInv /\ PhaseInv(c) /\ BacklogInv(c) /\ SplitInv(c)
      /\ Len(store) \in Nat /\ Len(store') \in Nat /\ FannedOut \in Nat /\ CalledFor(c) \in Nat
  BY Counters, Counters2 DEF Inv, OrderInv
<1>2. CASE Write \/ FanOut \/ FanOutDone
  <2>1. Len(store) <= Len(store')
    <3>1. store' = store \/ \E e : store' = Append(store, e)
      BY <1>2 DEF Write, FanOut, FanOutDone
    <3>. QED BY SMTT(40), <1>1, <3>1 DEF TypeOK
  <2>. QED BY <1>1, <1>2, <2>1, LoopElsewhere, OrderElsewhere
<1>3. ASSUME NEW d \in Clients, Handle(d) \/ Serve(d) \/ Disconnect(d), d # c
      PROVE  (PhaseInv(c) /\ BacklogInv(c) /\ SplitInv(c))'
  <2>1. /\ Elsewhere(c) /\ store' = store /\ FannedOut' = FannedOut
        /\ CalledFor(c)' = CalledFor(c)
    BY <1>1, <1>3, ClientElsewhere
  <2>2. Len(store) <= Len(store') /\ FannedOut <= FannedOut' /\ CalledFor(c) <= CalledFor(c)'
    BY <1>1, <2>1
  <2>. QED BY <1>1, <2>1, <2>2, OrderElsewhere
<1>4. ASSUME Disconnect(c) \/ UNCHANGED vars
      PROVE  (PhaseInv(c) /\ BacklogInv(c) /\ SplitInv(c))'
  <2>1. Elsewhere(c) /\ UNCHANGED loopVars
    BY <1>4 DEF Elsewhere, Disconnect, vars, loopVars
  <2>2. store' = store /\ FannedOut' = FannedOut /\ CalledFor(c)' = CalledFor(c)
    BY <2>1 DEF loopVars, FannedOut, CalledFor
  <2>3. Len(store) <= Len(store') /\ FannedOut <= FannedOut' /\ CalledFor(c) <= CalledFor(c)'
    BY <1>1, <2>2
  <2>. QED BY <1>1, <2>1, <2>3, OrderElsewhere
<1>5. ASSUME Handle(c) \/ Serve(c)
      PROVE  (PhaseInv(c) /\ BacklogInv(c) /\ SplitInv(c))'
  BY <1>1, <1>5, HandleOrder, ServeOrder
<1>. QED BY <1>2, <1>3, <1>4, <1>5 DEF Next, Loop

\* No client is connected and the store is empty.
LEMMA Initially == Init => Inv
<1>. SUFFICES ASSUME Init PROVE Inv
  OBVIOUS
<1>1. TypeOK
  BY TypeInit
<1>2. StoreInv
  BY DEF Init, StoreInv
<1>3. ASSUME NEW c \in Clients
      PROVE  PhaseInv(c) /\ BacklogInv(c) /\ SplitInv(c)
  <2>1. /\ at[c] = "accept" /\ ~registered[c] /\ live[c] = <<>> /\ sent[c] = <<>>
        /\ backlog[c] = <<>> /\ snap[c] = 0 /\ Len(store) = 0
    BY <1>3 DEF Init
  <2>2. PhaseInv(c) /\ BacklogInv(c)
    BY <2>1 DEF PhaseInv, BacklogInv, Before, After
  <2>3. sent[c] \o live[c] = <<>>
    BY <2>1
  <2>4. Split(c, <<>>, 0) /\ 0 \in 0 .. Len(<<>>)
    BY DEF Split, Rising
  <2>. QED BY <2>2, <2>3, <2>4 DEF SplitInv
<1>. QED BY <1>1, <1>2, <1>3 DEF Inv, OrderInv

\* The inductive invariant: types, the store's order, each client's phases and the two
\* parts of what it is sent.
THEOREM Invariance == SafeSpec => []Inv
<1>1. Init => Inv
  BY Initially
<1>2. Inv /\ [Next]_vars => Inv'
  BY TypeStep, StoreStep, OrderStep DEF Inv
<1>. QED BY <1>1, <1>2, PTL DEF SafeSpec

\* Types, among them that no channel ever holds more than its capacity.
THEOREM TypeCorrect == SafeSpec => []TypeOK
<1>1. Inv => TypeOK
  BY DEF Inv
<1>. QED BY <1>1, Invariance, PTL

\* Two parts that rise strictly, the second of which begins no earlier than where the first
\* ends, are in order, and only where they meet can an id come twice.
LEMMA SplitOrdered ==
    ASSUME TypeOK, NEW c \in Clients, NEW u \in Seq(Entry), NEW m \in 0 .. Len(u), Split(c, u, m)
    PROVE  /\ \A i, j \in 1 .. Len(u) : i < j => u[i].id <= u[j].id
           /\ Cardinality({i \in 2 .. Len(u) : u[i - 1].id = u[i].id}) <= 1
<1>1. Len(u) \in Nat /\ snap[c] \in Nat /\ since[c] \in Nat /\ m \in Nat
  <2>1. snap[c] \in Nat /\ since[c] \in Nat
    BY LiveTailAssumption DEF TypeOK
  <2>. QED BY <2>1, LenProperties
<1>2. \A i \in 1 .. Len(u) : u[i].id \in Nat
  <2>1. \A i \in 1 .. Len(u) : u[i] \in Entry
    BY <1>1, ElementOfSeq
  <2>. QED BY <2>1 DEF Entry
<1>3. ASSUME NEW i \in 1 .. Len(u), NEW j \in 1 .. Len(u), i < j
      PROVE  /\ u[i].id <= u[j].id
             /\ (i # m \/ j # m + 1) => u[i].id < u[j].id \/ (i <= m /\ j > m)
  <2>1. CASE j <= m
    <3>1. i \in 1 .. m /\ j \in 1 .. m
      BY <1>1, <1>3, <2>1
    <3>. QED BY <1>1, <1>2, <1>3, <3>1 DEF Split, Rising
  <2>2. CASE i > m
    <3>1. i \in m + 1 .. Len(u) /\ j \in m + 1 .. Len(u)
      BY <1>1, <1>3, <2>2
    <3>. QED BY <1>1, <1>2, <1>3, <3>1 DEF Split, Rising
  <2>3. CASE i <= m /\ j > m
    <3>1. i \in 1 .. m /\ j \in m + 1 .. Len(u) /\ m < Len(u)
      BY <1>1, <1>3, <2>3
    <3>2. u[i].id <= snap[c] /\ snap[c] <= since[c] + 1 /\ u[j].id > since[c]
      BY <1>1, <3>1 DEF Split
    <3>. QED BY <1>1, <1>2, <2>3, <3>2
  <2>. QED BY <1>1, <2>1, <2>2, <2>3
<1>4. {i \in 2 .. Len(u) : u[i - 1].id = u[i].id} \subseteq {m + 1}
  <2>. SUFFICES ASSUME NEW i \in 2 .. Len(u), u[i - 1].id = u[i].id
                PROVE  i = m + 1
    OBVIOUS
  <2>1. i - 1 \in 1 .. Len(u) /\ i \in 1 .. Len(u) /\ i - 1 < i
    BY <1>1
  <2>2. u[i - 1].id \in Nat /\ u[i].id \in Nat /\ ~(u[i - 1].id < u[i].id)
    BY <1>2, <2>1
  <2>3. (i - 1 = m /\ i = m + 1) \/ (i - 1 <= m /\ i > m)
    BY <1>3, <2>1, <2>2
  <2>. QED BY <1>1, <2>3
<1>5. Cardinality({i \in 2 .. Len(u) : u[i - 1].id = u[i].id}) <= 1
  <2>. DEFINE R == {i \in 2 .. Len(u) : u[i - 1].id = u[i].id}
  <2>1. R \in SUBSET {m + 1}
    BY <1>4
  <2>. HIDE DEF R
  <2>2. IsFiniteSet({m + 1}) /\ Cardinality({m + 1}) = 1
    BY FS_Singleton
  <2>3. Cardinality(R) <= 1
    BY <2>1, <2>2, FS_Subset
  <2>. QED BY <2>3 DEF R
<1>. QED BY <1>3, <1>5

\* A client sees entries in the order they were written, at most one of them twice, in
\* every interleaving of the write loop with its backlog and its registration.
THEOREM Order == SafeSpec => []OrderedAtMostOneRepeat
<1>1. ASSUME Inv PROVE OrderedAtMostOneRepeat
  <2>1. ASSUME NEW c \in Clients
        PROVE  sent[c] \o live[c] \in Seq(Entry) /\ SplitInv(c) /\ TypeOK
    <3>1. sent[c] \in Seq(Entry) /\ live[c] \in Seq(Entry)
      BY <1>1 DEF Inv, TypeOK
    <3>. QED BY <1>1, <3>1, ConcatProperties DEF Inv, OrderInv
  <2>. QED BY <2>1, SplitOrdered DEF SplitInv, OrderedAtMostOneRepeat
<1>. QED BY <1>1, Invariance, PTL

-----------------------------------------------------------------------------
(* Completeness.                                                           *)

\* Where a client is concerned by no step, neither is what it should have.
LEMMA CompleteElsewhere ==
    ASSUME TypeOK, TypeOK', StoreInv, StoreInv', NEW c \in Clients, Elsewhere(c),
           registered[c] => CalledFor(c)' = CalledFor(c),
           \A i \in 1 .. Len(store') : i <= Len(store) => store'[i] = store[i],
           CompleteInv
    PROVE  Accounted(c)'
<1>1. \A e : InLive(c, e)' <=> InLive(c, e)
  BY DEF InLive, Elsewhere
<1>2. ASSUME registered'[c], NEW e \in Passing(c, since[c] + 1, CalledFor(c))'
      PROVE  e \in Passing(c, since[c] + 1, CalledFor(c))
  <2>1. /\ e \in Range(store') /\ e.id \in since[c] + 1 .. CalledFor(c) /\ InLive(c, e)
        /\ registered[c]
    BY <1>1, <1>2 DEF Passing, Elsewhere
  <2>2. PICK i \in 1 .. Len(store') : e = store'[i]
    <3>1. store' \in Seq(Entry)
      BY DEF TypeOK
    <3>. QED BY <2>1, <3>1, RangeEquality
  <2>3. e.id = i
    BY <2>2 DEF StoreInv
  <2>4. i \in 1 .. Len(store) /\ e = store[i]
    <3>1. CalledFor(c) <= Len(store) /\ CalledFor(c) \in Nat /\ Len(store) \in Nat
      BY Counters
    <3>2. i <= Len(store)
      BY <2>1, <2>3, <3>1
    <3>. QED BY <2>2, <3>1, <3>2
  <2>5. e \in Range(store)
    <3>1. store \in Seq(Entry)
      BY DEF TypeOK
    <3>. QED BY <2>4, <3>1, RangeEquality
  <2>. QED BY <2>1, <2>5 DEF Passing
<1>. QED BY <1>2 DEF CompleteInv, Accounted, Elsewhere

\* A callback accounts for the entry it is called with.
LEMMA CompleteHandle ==
    ASSUME Inv, CompleteInv, NEW c \in Clients, Handle(c)
    PROVE  Accounted(c)'
<1>. DEFINE x == pending[1]
<1>1. /\ TypeOK /\ StoreInv /\ c \in todo /\ loop = "fanout" /\ registered[c]
      /\ Len(pending) = 1 /\ pending \in Seq(Entry) /\ live[c] \in Seq(Entry)
  BY DEF Inv, Handle, Offer, TypeOK
<1>2. /\ store' = store /\ loop' = loop /\ pending' = pending /\ c \notin todo'
      /\ query' = query /\ registered' = registered /\ sent' = sent /\ since' = since
  BY DEF Handle, Offer
<1>3. /\ FannedOut \in Nat /\ Len(store) = FannedOut + 1 /\ CalledFor(c) = FannedOut
      /\ CalledFor(c)' = Len(store) /\ x = store[Len(store)]
  <2>1. CalledFor(c) = FannedOut /\ CalledFor(c)' = Len(store)
    BY <1>1, <1>2 DEF CalledFor
  <2>2. FannedOut \in Nat /\ Len(store) = FannedOut + 1
    BY <1>1, Counters
  <2>. QED BY <1>1, <2>1, <2>2 DEF StoreInv
<1>4. \A e : InLive(c, e)' <=> InLive(c, e)
  BY <1>2 DEF InLive
<1>5. /\ live'[c] = live[c] \/ live'[c] = live[c] \o pending
      /\ lost[c] \subseteq lost'[c]
      /\ InLive(c, x) => x \in lost'[c] \/ live'[c] = live[c] \o pending
  BY <1>1 DEF Handle, Offer, TypeOK
<1>6. Range(live[c] \o pending) = Range(live[c]) \cup {x}
  <2>1. Range(live[c] \o pending) = Range(live[c]) \cup Range(pending)
    BY <1>1, RangeConcatenation
  <2>2. Range(pending) = {x}
    <3>1. Range(pending) = {pending[i] : i \in 1 .. Len(pending)}
      BY <1>1, RangeEquality
    <3>2. 1 .. Len(pending) = {1}
      BY <1>1
    <3>. QED BY <3>1, <3>2
  <2>. QED BY <2>1, <2>2
<1>. HIDE DEF x
<1>7. ASSUME NEW e \in Passing(c, since[c] + 1, CalledFor(c))'
      PROVE  e \in Range(sent'[c]) \cup Range(live'[c]) \cup lost'[c]
  <2>1. /\ e \in Range(store) /\ e.id \in since[c] + 1 .. FannedOut + 1 /\ InLive(c, e)
    BY <1>2, <1>3, <1>4, <1>7 DEF Passing
  <2>2. CASE e.id = FannedOut + 1
    <3>1. e = x
      <4>1. PICK i \in 1 .. Len(store) : e = store[i]
        BY <1>1, <2>1, RangeEquality DEF TypeOK
      <4>2. i = Len(store)
        BY <1>1, <1>3, <2>2, <4>1 DEF StoreInv
      <4>. QED BY <1>3, <4>1, <4>2
    <3>. QED BY <1>5, <1>6, <2>1, <3>1
  <2>3. CASE e.id # FannedOut + 1
    <3>1. e.id \in since[c] + 1 .. FannedOut
      <4>1. since[c] \in Nat
        BY <1>1, LiveTailAssumption DEF TypeOK
      <4>. QED BY <1>3, <2>1, <2>3, <4>1
    <3>2. e \in Range(sent[c]) \cup Range(live[c]) \cup lost[c]
      BY <1>1, <1>3, <2>1, <3>1 DEF Passing, CompleteInv, Accounted
    <3>. QED BY <1>2, <1>5, <1>6, <3>2
  <2>. QED BY <2>2, <2>3
<1>. QED BY <1>7 DEF Accounted

\* A client's goroutine moves entries along and loses none of them.
LEMMA CompleteServe ==
    ASSUME Inv, CompleteInv, NEW c \in Clients, Serve(c)
    PROVE  Accounted(c)'
<1>1. /\ store' = store /\ loop' = loop /\ pending' = pending /\ todo' = todo
      /\ query' = query /\ lost' = lost
  BY DEF Serve, Accept, Upgrade, AcceptFails, ReadLogs, ReadLogsFails, SendBacklog, Register,
         Forward, TakeLive, Leave, LeaveFor, Unregister, loopVars
<1>2. /\ CalledFor(c)' = CalledFor(c)
      /\ \A a, b : Passing(c, a, b)' = Passing(c, a', b')
  BY <1>1 DEF FannedOut, CalledFor, InLive, Passing
<1>3. /\ TypeOK /\ StoreInv /\ PhaseInv(c)
      /\ sent[c] \in Seq(Entry) /\ backlog[c] \in Seq(Entry) /\ live[c] \in Seq(Entry)
  BY DEF Inv, TypeOK, OrderInv
<1>4. ASSUME Range(sent'[c]) \cup Range(live'[c]) = Range(sent[c]) \cup Range(live[c]),
             since'[c] = since[c], registered'[c] => registered[c]
      PROVE  Accounted(c)'
  BY <1>1, <1>2, <1>4 DEF CompleteInv, Accounted, Passing
<1>5. CASE Accept(c) \/ AcceptFails(c) \/ Leave(c) \/ Unregister(c) \/ ReadLogs(c)
           \/ ReadLogsFails(c)
  <2>1. UNCHANGED <<live, sent, since>> /\ (registered'[c] => registered[c])
    BY <1>3, <1>5 DEF Accept, AcceptFails, Upgrade, Leave, LeaveFor, Unregister, ReadLogs,
                      ReadLogsFails, TypeOK
  <2>. QED BY <1>4, <2>1
<1>6. CASE SendBacklog(c)
  <2>1. ~registered'[c]
    BY <1>3, <1>6 DEF SendBacklog, TypeOK, PhaseInv, After
  <2>. QED BY <2>1 DEF Accounted
<1>7. CASE Register(c)
  <2>1. since'[c] = FannedOut /\ loop # "fanout"
    BY <1>3, <1>7 DEF Register, TypeOK
  <2>2. FannedOut \in Nat /\ CalledFor(c)' = FannedOut
    BY <1>2, <1>3, <2>1, Counters DEF CalledFor
  <2>3. Passing(c, since[c] + 1, CalledFor(c))' = {}
    <3>1. FannedOut + 1 .. FannedOut = {}
      BY <2>2
    <3>. QED BY <2>1, <2>2, <3>1 DEF Passing
  <2>. QED BY <2>3 DEF Accounted
<1>8. CASE Forward(c)
  <2>1. /\ live[c] # <<>> /\ sent'[c] = sent[c] \o SubSeq(live[c], 1, 1)
        /\ live'[c] = Tail(live[c]) /\ UNCHANGED <<registered, since>>
    BY <1>3, <1>8 DEF Forward, TakeLive, TypeOK
  <2>2. /\ SubSeq(live[c], 1, 1) = <<Head(live[c])>>
        /\ sent[c] \o <<Head(live[c])>> = Append(sent[c], Head(live[c]))
        /\ Range(Append(sent[c], Head(live[c]))) \cup Range(Tail(live[c]))
              = Range(sent[c]) \cup Range(live[c])
    BY <1>3, <2>1, SentHead, Zenon
  <2>3. Range(sent'[c]) \cup Range(live'[c]) = Range(sent[c]) \cup Range(live[c])
    BY <2>1, <2>2, Zenon
  <2>. QED BY <1>4, <2>1, <2>3
<1>. QED BY <1>5, <1>6, <1>7, <1>8 DEF Serve

\* Every step keeps the completeness invariant.
LEMMA CompleteStep == Inv /\ Inv' /\ CompleteInv /\ [Next]_vars => CompleteInv'
<1>. SUFFICES ASSUME Inv, Inv', CompleteInv, [Next]_vars, NEW c \in Clients
              PROVE  Accounted(c)'
  BY DEF CompleteInv
<1>1. TypeOK /\ TypeOK' /\ StoreInv /\ StoreInv' /\ Len(store) \in Nat
  BY Counters DEF Inv
<1>2. CASE Write \/ FanOut \/ FanOutDone
  <2>1. \A i \in 1 .. Len(store') : i <= Len(store) => store'[i] = store[i]
    <3>1. CASE Write
      <4>1. PICK e \in [id : {Len(store) + 1}, level : EntryLevels] : store' = Append(store, e)
        BY <3>1 DEF Write
      <4>2. store \in Seq(Entry) /\ e \in Entry
        BY <3>1, <1>1, LiveTailAssumption DEF TypeOK, Write, Entry
      <4>. QED BY <1>1, <4>1, <4>2, AppendProperties
    <3>2. CASE FanOut \/ FanOutDone
      BY <3>2 DEF FanOut, FanOutDone
    <3>. QED BY <1>2, <3>1, <3>2
  <2>. QED BY <1>1, <1>2, <2>1, LoopElsewhere, CompleteElsewhere
<1>3. ASSUME NEW d \in Clients, Handle(d) \/ Serve(d) \/ Disconnect(d), d # c
      PROVE  Elsewhere(c) /\ store' = store /\ CalledFor(c)' = CalledFor(c)
  BY <1>1, <1>3, ClientElsewhere
<1>4. ASSUME Disconnect(c) \/ UNCHANGED vars
      PROVE  Elsewhere(c) /\ store' = store /\ CalledFor(c)' = CalledFor(c)
  <2>1. Elsewhere(c) /\ UNCHANGED loopVars
    BY <1>4 DEF Elsewhere, Disconnect, vars, loopVars
  <2>. QED BY <2>1 DEF loopVars, FannedOut, CalledFor
<1>5. CASE Elsewhere(c) /\ store' = store /\ CalledFor(c)' = CalledFor(c)
  BY <1>1, <1>5, CompleteElsewhere
<1>6. CASE Handle(c)
  BY <1>6, CompleteHandle
<1>7. CASE Serve(c)
  BY <1>7, CompleteServe
<1>. QED BY <1>2, <1>3, <1>4, <1>5, <1>6, <1>7 DEF Next, Loop

\* Whatever the clients ask for: each entry fanned out since a client registered that its
\* handler lets through is sent, on its channel or dropped at a full one.
THEOREM Complete == SafeSpec => []CompleteSinceRegistration
<1>1. Init => CompleteInv
  BY DEF Init, CompleteInv, Accounted
<1>2. Inv /\ Inv' /\ CompleteInv /\ [Next]_vars => CompleteInv'
  BY CompleteStep
<1>3. Inv /\ CompleteInv => CompleteSinceRegistration
  <2>. SUFFICES ASSUME Inv, CompleteInv, NEW c \in Clients, registered[c]
                PROVE  Passing(c, since[c] + 1, FannedOut)
                           \subseteq Range(sent[c]) \cup Range(live[c]) \cup lost[c]
    BY DEF CompleteSinceRegistration
  <2>1. /\ FannedOut \in Nat /\ CalledFor(c) \in Nat /\ FannedOut <= CalledFor(c)
        /\ since[c] \in Nat
    BY SMTT(60), Counters, LiveTailAssumption DEF Inv, TypeOK
  <2>2. Passing(c, since[c] + 1, FannedOut) \subseteq Passing(c, since[c] + 1, CalledFor(c))
    <3>1. \A i \in since[c] + 1 .. FannedOut : i \in since[c] + 1 .. CalledFor(c)
      BY <2>1
    <3>. QED BY <3>1 DEF Passing
  <2>. QED BY <2>2 DEF CompleteInv, Accounted
<1>. QED BY <1>1, <1>2, <1>3, Invariance, PTL DEF SafeSpec
=============================================================================
