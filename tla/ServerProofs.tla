---------------------------- MODULE ServerProofs -----------------------------
(***************************************************************************)
(* Theorems about Server, for any number of clients and connections, any   *)
(* mix of protocols, any number of starts of the process and any capacity  *)
(* of the queue.                                                           *)
(***************************************************************************)
EXTENDS Server, SequenceFacts

-----------------------------------------------------------------------------

Stored == Range(committed \o backlog)

\* What the steps of the Manager do to the set of entries it holds.
LEMMA StoredSteps ==
    ASSUME TypeOK
    PROVE  /\ \A m \in Message : Log!Accept(m) => Stored' = Stored \cup {m}
           /\ Log!Commit => Stored' = Stored
           /\ Log!Lose => Stored \subseteq Stored' \cup {Head(backlog)}
           /\ committed' = committed /\ backlog' = <<>> =>
                 Stored \subseteq Stored' \cup Range(backlog)
<1>. committed \in Seq(Message) /\ backlog \in Seq(Message)
  BY DEF TypeOK, Log!TypeOK
<1>1. Stored = Range(committed) \cup Range(backlog)
  BY RangeConcatenation DEF Stored
<1>2. ASSUME committed' \in Seq(Message), backlog' \in Seq(Message)
      PROVE  Stored' = Range(committed') \cup Range(backlog')
  BY <1>2, RangeConcatenation DEF Stored
<1>3. ASSUME NEW m \in Message, Log!Accept(m) PROVE Stored' = Stored \cup {m}
  <2>1. committed' = committed /\ backlog' = Append(backlog, m)
    BY <1>3 DEF Log!Accept
  <2>2. backlog' \in Seq(Message) /\ Range(backlog') = Range(backlog) \cup {m}
    BY <2>1, RangeAppend, AppendProperties
  <2>. QED BY <1>1, <1>2, <2>1, <2>2
<1>4. ASSUME Log!Commit PROVE Stored' = Stored
  <2>1. /\ backlog # <<>> /\ backlog' = Tail(backlog)
        /\ committed' = Append(committed, Head(backlog))
    BY <1>4 DEF Log!Commit
  <2>2. /\ backlog' \in Seq(Message) /\ Head(backlog) \in Message
        /\ Range(backlog) = {Head(backlog)} \cup Range(backlog')
    BY <2>1, RangeHeadTail
  <2>3. committed' \in Seq(Message) /\ Range(committed') = Range(committed) \cup {Head(backlog)}
    BY <2>1, <2>2, RangeAppend, AppendProperties
  <2>. QED BY <1>1, <1>2, <2>2, <2>3
<1>5. ASSUME Log!Lose PROVE Stored \subseteq Stored' \cup {Head(backlog)}
  <2>1. backlog # <<>> /\ backlog' = Tail(backlog) /\ committed' = committed
    BY <1>5 DEF Log!Lose
  <2>2. /\ backlog' \in Seq(Message)
        /\ Range(backlog) = {Head(backlog)} \cup Range(backlog')
    BY <2>1, RangeHeadTail
  <2>. QED BY <1>1, <1>2, <2>1, <2>2
<1>6. ASSUME committed' = committed, backlog' = <<>>
      PROVE  Stored \subseteq Stored' \cup Range(backlog)
  BY <1>1, <1>2, <1>6, EmptySeq
<1>. QED BY <1>3, <1>4, <1>5, <1>6

-----------------------------------------------------------------------------
(* The inductive invariant.                                                *)

\* The Manager is closed only by main's last call, which main reaches when Shutdown has
\* returned, without an error or with one.
MainInv ==
    /\ main # "down" => boots \in 1 .. MaxBoots
    /\ phase # "open" => main \in {"down", "closing"}
    /\ phase = "closed" => backlog = <<>>
    /\ main = "reporting" => timedOut
    /\ main = "closing" => NoneTracked \/ timedOut

\* A client that waits for answers has one connection for each entry it tries to push.
ClientInv ==
    \A c \in Clients :
        /\ linked[c] => dials[c] # 0
        /\ Protocol[c] # "ws" =>
              dials[c] = n[c] \/ (linked[c] /\ dials[c] = n[c] + 1)

\* What may arrive on a connection.
Own(x) == {m \in Message : m[1] = x /\ (Protocol[x[1]] # "ws" => m[2] = x[2])}

InboxInv == \A x \in Conn : inbox[x] \in Seq(Own(x))

\* What the Manager holds or was seen to lose.
Kept == Stored \cup casualties

\* An answer that says "accepted" is about an entry that is kept.
AnswerInv ==
    /\ acked \subseteq Answered(Kept)
    /\ \A x \in Conn : at[x] = "ok" => <<x, x[2]>> \in Answered(Kept)

Inv == TypeOK /\ MainInv /\ ClientInv /\ InboxInv /\ AnswerInv

-----------------------------------------------------------------------------
(* Connections and messages, and the entries that are kept.                *)

\* The parts of connections and messages.
LEMMA ConnFacts ==
    /\ \A x \in Conn : x[1] \in Clients /\ x[2] \in 1 .. MaxTries /\ x = <<x[1], x[2]>>
    /\ \A x \in Conn, k \in 1 .. MaxTries : <<x, k>> \in Message
    /\ \A b \in 1 .. MaxBoots, k \in {1, 2} : <<<<"main", b>>, k>> \in Message
    /\ \A c \in Clients, k \in 1 .. MaxTries : <<c, k>> \in Conn
BY DEF Conn, Message

\* A client goes no further than its plan.
LEMMA PlanFacts ==
    ASSUME TypeOK, NEW c \in Clients, NEW made \in Nat, MayTry(c, made)
    PROVE  n[c] + 1 \in 1 .. MaxTries /\ made + 1 \in 1 .. MaxTries
<1>1. PICK p \in Plans : n[c] < p[c] /\ made < p[c]
  BY DEF MayTry
<1>2. p[c] \in 0 .. MaxTries /\ MaxTries \in Nat /\ n[c] \in Nat
  BY <1>1, ServerAssumption DEF TypeOK
<1>. QED BY <1>1, <1>2

\* What a client is about to send has a number within the bounds.
LEMMA CanSendFacts ==
    ASSUME TypeOK, ClientInv, NEW c \in Clients, CanSend(c)
    PROVE  /\ Link(c) \in Conn /\ n[c] \in Nat /\ n[c] + 1 \in 1 .. MaxTries
           /\ Protocol[c] # "ws" => n[c] + 1 = dials[c]
<1>1. /\ n[c] \in 0 .. MaxTries /\ dials[c] \in 0 .. MaxTries /\ MaxTries \in Nat
      /\ dials[c] # 0
  BY ServerAssumption DEF TypeOK, ClientInv, CanSend
<1>2. Link(c) \in Conn
  BY <1>1 DEF Link, Conn
<1>3. CASE Protocol[c] = "ws"
  BY <1>1, <1>2, <1>3, PlanFacts DEF CanSend
<1>4. CASE Protocol[c] # "ws"
  BY <1>1, <1>2, <1>4 DEF CanSend, ClientInv
<1>. QED BY <1>3, <1>4

\* What Answered keeps of a set grows with the set and distributes over unions.
LEMMA AnsweredFacts ==
    /\ \A S, T : S \subseteq T => Answered(S) \subseteq Answered(T)
    /\ \A S, T, U : S \subseteq T \cup U => Answered(S) \subseteq Answered(T) \cup Answered(U)
    /\ \A S, T : Answered(S \cup Answered(T)) = Answered(S) \cup Answered(T)
    /\ \A S, T : Answered(S \cup T) = Answered(S) \cup Answered(T)
BY DEF Answered

\* No step of any part takes an entry that is answered out of what is kept.
LEMMA KeptGrows ==
    ASSUME TypeOK, MainInv, InboxInv, [Next]_vars
    PROVE  Answered(Kept) \subseteq Answered(Kept')
<1>. DEFINE Frame == UNCHANGED <<backlog, committed, casualties>>
<1>1. CASE Frame
  BY <1>1 DEF Kept, Stored
<1>2. ASSUME NEW m \in Message, Log!Accept(m), UNCHANGED casualties
      PROVE  Answered(Kept) \subseteq Answered(Kept')
  <2>1. Kept \subseteq Kept'
    BY <1>2, StoredSteps DEF Kept
  <2>. QED BY <2>1, AnsweredFacts
<1>3. CASE \E x \in Conn : Accepted(x)
  <2>1. PICK x \in Conn : Accepted(x)
    BY <1>3
  <2>2. Head(inbox[x]) \in Message
    <3>1. inbox[x] \in Seq(Message) /\ inbox[x] # <<>>
      BY <2>1 DEF Accepted, Deals, TypeOK
    <3>. QED BY <3>1, RangeHeadTail
  <2>. QED BY <1>2, <2>1, <2>2 DEF Accepted, Deals, past
<1>4. CASE SayListening \/ SayTimedOut
  <2>1. main # "down"
    BY <1>4 DEF SayListening, SayTimedOut
  <2>2. boots \in 1 .. MaxBoots
    BY <2>1 DEF MainInv
  <2>3. \A which \in {1, 2} : <<<<"main", boots>>, which>> \in Message
    BY <2>2, ConnFacts
  <2>. QED BY <1>2, <1>4, <2>3 DEF SayListening, SayTimedOut, Say, past
<1>5. CASE Commit
  <2>1. Kept' = Kept
    BY <1>5, StoredSteps DEF Commit, past, Kept
  <2>. QED BY <2>1
<1>6. CASE Lose
  <2>1. /\ Stored \subseteq Stored' \cup {Head(backlog)}
        /\ casualties' = casualties \cup Answered({Head(backlog)})
    BY <1>6, StoredSteps DEF Lose
  <2>2. Answered(Kept) = Answered(Stored) \cup Answered(casualties)
    BY AnsweredFacts DEF Kept
  <2>3. Answered(Kept') = Answered(Stored') \cup Answered(casualties')
    BY AnsweredFacts DEF Kept
  <2>4. Answered(Stored) \subseteq Answered(Stored') \cup Answered({Head(backlog)})
    BY <2>1, AnsweredFacts
  <2>5. Answered(casualties') = Answered(casualties) \cup Answered({Head(backlog)})
    BY <2>1, AnsweredFacts
  <2>. QED BY <2>2, <2>3, <2>4, <2>5
<1>7. CASE Exit \/ Kill
  <2>1. committed' = committed /\ backlog' = <<>>
    BY <1>7 DEF Exit, Kill, ProcessEnds
  <2>2. Answered(Stored) \subseteq Answered(Stored') \cup Answered(Range(backlog))
    BY <2>1, StoredSteps, AnsweredFacts
  <2>3. Answered(casualties') = Answered(casualties) \cup Answered(Range(backlog))
    <3>1. CASE Exit
      <4>1. backlog = <<>> /\ casualties' = casualties
        BY <3>1 DEF Exit, MainInv
      <4>2. Range(backlog) = {}
        BY <4>1 DEF Range
      <4>. QED BY <4>1, <4>2 DEF Answered
    <3>2. CASE Kill
      BY <3>2, AnsweredFacts DEF Kill
    <3>. QED BY <1>7, <3>1, <3>2
  <2>4. Answered(Kept) = Answered(Stored) \cup Answered(casualties)
    BY AnsweredFacts DEF Kept
  <2>5. Answered(Kept') = Answered(Stored') \cup Answered(casualties')
    BY AnsweredFacts DEF Kept
  <2>. QED BY <2>2, <2>3, <2>4, <2>5
<1>8. ASSUME NEW c \in Clients, Client(c) PROVE Frame
  BY <1>8 DEF Client, Dial, DialFails, Send, SendFails, SendFailsTo, Answer, log, past
<1>9. ASSUME NEW x \in Conn, DecodeFails(x) \/ Refused(x) \/ ReadFails(x) PROVE Frame
  BY <1>9 DEF DecodeFails, Refused, RefusedWith, ReadFails, Deals, log, past
<1>10. ASSUME Boot \/ Signal \/ ShutdownReturns \/ ShutdownTimesOut \/ Close PROVE Frame
  BY <1>10 DEF Boot, Signal, ShutdownReturns, ShutdownTimesOut, Close, MainGoes,
               Log!Shut, Log!Finish, log, past
<1>11. CASE UNCHANGED vars
  BY <1>1, <1>11 DEF vars, log, past
<1>. QED
  BY <1>1, <1>3, <1>4, <1>5, <1>6, <1>7, <1>8, <1>9, <1>10, <1>11 DEF Next, Handler, WindDown

-----------------------------------------------------------------------------
(* The parts of the invariant, one at a time.                              *)

\* Every step keeps what is known of the clients' attempts.
LEMMA ClientStep ==
    ASSUME TypeOK, ClientInv, [Next]_vars
    PROVE  ClientInv'
<1>. DEFINE Fits(c) ==
        /\ linked[c] => dials[c] # 0
        /\ Protocol[c] # "ws" => dials[c] = n[c] \/ (linked[c] /\ dials[c] = n[c] + 1)
<1>. linked \in [Clients -> BOOLEAN] /\ n \in [Clients -> Nat] /\ dials \in [Clients -> Nat]
  BY ServerAssumption DEF TypeOK
<1>1. ASSUME NEW c \in Clients, Client(c) PROVE \A d \in Clients : Fits(d)'
  <2>1. Fits(c) /\ \A d \in Clients \ {c} : Fits(d)
    BY DEF ClientInv
  <2>2. CASE Dial(c)
    BY <2>1, <2>2 DEF Dial
  <2>3. CASE DialFails(c)
    BY <2>1, <2>3 DEF DialFails
  <2>4. CASE Send(c)
    BY <2>1, <2>4 DEF Send, CanSend
  <2>5. CASE SendFails(c)
    BY <2>1, <2>5 DEF SendFails, SendFailsTo, CanSend
  <2>6. CASE Answer(c)
    BY <2>1, <2>6 DEF Answer
  <2>. QED BY <1>1, <2>2, <2>3, <2>4, <2>5, <2>6 DEF Client
<1>2. CASE UNCHANGED <<n, dials, linked>>
  BY <1>2 DEF ClientInv
<1>3. ASSUME NEW x \in Conn, Handler(x) PROVE UNCHANGED <<n, dials, linked>>
  BY <1>3 DEF Handler, DecodeFails, Accepted, Refused, RefusedWith, ReadFails, Deals, clients
<1>4. ASSUME Commit \/ Lose \/ Boot \/ SayListening \/ Signal \/ WindDown \/ Kill \/ UNCHANGED vars
      PROVE  UNCHANGED <<n, dials, linked>>
  BY <1>4 DEF Commit, Lose, Boot, SayListening, Signal, WindDown, Kill, ShutdownReturns,
              ShutdownTimesOut, SayTimedOut, Say, Close, Exit, ProcessEnds, MainGoes, vars,
              clients
<1>. QED BY <1>1, <1>2, <1>3, <1>4 DEF Next, ClientInv

\* Every step keeps each connection's messages its own client's.
LEMMA InboxStep ==
    ASSUME TypeOK, ClientInv, InboxInv, [Next]_vars
    PROVE  InboxInv'
<1>. inbox \in [Conn -> Seq(Message)]
  BY DEF TypeOK
<1>1. ASSUME NEW c \in Clients, CanSend(c), Arrives(c) PROVE InboxInv'
  <2>1. /\ Link(c) \in Conn /\ n[c] + 1 \in 1 .. MaxTries
        /\ Protocol[c] # "ws" => n[c] + 1 = dials[c]
    BY <1>1, CanSendFacts
  <2>2. Entry(c) \in Own(Link(c))
    BY <2>1, ConnFacts DEF Own, Entry, Link
  <2>. QED BY <1>1, <2>1, <2>2 DEF Arrives, InboxInv
<1>2. ASSUME NEW x \in Conn, inbox[x] # <<>>, inbox' = [inbox EXCEPT ![x] = Tail(@)]
      PROVE  InboxInv'
  <2>1. Tail(inbox[x]) \in Seq(Own(x))
    BY <1>2, RangeHeadTail DEF InboxInv
  <2>. QED BY <1>2, <2>1 DEF InboxInv
<1>3. ASSUME NEW x \in Conn, inbox' = [inbox EXCEPT ![x] = <<>>]
      PROVE  InboxInv'
  BY <1>3 DEF InboxInv
<1>4. ASSUME inbox' = [x \in Conn |-> <<>>] PROVE InboxInv'
  BY <1>4 DEF InboxInv
<1>5. CASE UNCHANGED inbox
  BY <1>5 DEF InboxInv
<1>6. ASSUME NEW c \in Clients, Client(c) PROVE InboxInv'
  BY <1>1, <1>5, <1>6 DEF Client, Dial, DialFails, Send, SendFails, SendFailsTo, Answer
<1>7. ASSUME NEW x \in Conn, Handler(x) PROVE InboxInv'
  BY <1>2, <1>3, <1>7 DEF Handler, DecodeFails, Accepted, Refused, RefusedWith, ReadFails, Deals
<1>8. CASE Exit \/ Kill
  BY <1>4, <1>8 DEF Exit, Kill, ProcessEnds
<1>9. CASE Commit \/ Lose \/ Boot \/ SayListening \/ Signal \/ ShutdownReturns \/ ShutdownTimesOut
           \/ SayTimedOut \/ Close \/ UNCHANGED vars
  BY <1>5, <1>9 DEF Commit, Lose, Boot, SayListening, Signal, ShutdownReturns,
                    ShutdownTimesOut, SayTimedOut, Say, Close, MainGoes, vars
<1>. QED BY <1>6, <1>7, <1>8, <1>9 DEF Next, WindDown

\* Every step keeps main's place and the phase of the Manager together.
LEMMA MainStep ==
    ASSUME TypeOK, MainInv, [Next]_vars
    PROVE  MainInv'
<1>. phase \in {"open", "closing", "closed"} /\ boots \in 0 .. MaxBoots
  BY DEF TypeOK, Log!TypeOK
<1>1. ASSUME UNCHANGED <<main, boots, timedOut, phase>>, phase = "closed" => backlog' = <<>>,
             main = "closing" => (NoneTracked => NoneTracked')
      PROVE  MainInv'
  BY <1>1 DEF MainInv
<1>2. ASSUME NEW x \in Conn, NEW place, at' = [at EXCEPT ![x] = place],
             at[x] = "running" \/ place # "running"
      PROVE  NoneTracked => NoneTracked'
  BY <1>2 DEF NoneTracked, Tracked, TypeOK
<1>3. ASSUME NEW c \in Clients, Client(c) PROVE MainInv'
  <2>1. UNCHANGED <<main, boots, timedOut, phase, backlog>>
    BY <1>3 DEF Client, Dial, DialFails, Send, SendFails, SendFailsTo, Answer, process, log
  <2>2. main = "closing" => (NoneTracked => NoneTracked')
    <3>1. CASE Dial(c)
      <4>1. ASSUME main = "closing" PROVE Protocol[c] # "rest"
        BY <3>1, <4>1 DEF Dial, Reachable, TypeOK
      <4>2. at' = [at EXCEPT ![Link(c)'] = "running"] /\ Link(c)'[1] = c
        BY <3>1 DEF Dial, Goto, Link
      <4>3. ASSUME main = "closing", NEW x \in Conn, ~Tracked(x) PROVE ~Tracked(x)'
        BY <4>1, <4>2, <4>3 DEF Tracked, TypeOK
      <4>. QED BY <4>3 DEF NoneTracked
    <3>2. CASE Answer(c)
      <4>1. Link(c) \in Conn \/ at' = at
        BY <3>2 DEF Answer, Goto, TypeOK
      <4>. QED BY <3>2, <4>1, <1>2 DEF Answer, Goto, NoneTracked, Tracked
    <3>3. CASE DialFails(c) \/ Send(c) \/ SendFails(c)
      BY <3>3 DEF DialFails, Send, SendFails, SendFailsTo, NoneTracked, Tracked
    <3>. QED BY <1>3, <3>1, <3>2, <3>3 DEF Client
  <2>. QED BY <1>1, <2>1, <2>2 DEF MainInv
<1>4. ASSUME NEW x \in Conn, Handler(x) PROVE MainInv'
  <2>1. UNCHANGED <<main, boots, timedOut, phase>> /\ (phase = "closed" => backlog' = backlog)
    BY <1>4 DEF Handler, DecodeFails, Accepted, Refused, RefusedWith, ReadFails, Deals, process,
                log, Log!Accept
  <2>2. at[x] = "running" /\ \E place : at' = [at EXCEPT ![x] = place]
    BY <1>4 DEF Handler, DecodeFails, Accepted, Refused, RefusedWith, ReadFails, Deals, Goto
  <2>. QED BY <1>1, <1>2, <2>1, <2>2 DEF MainInv
<1>5. CASE Commit \/ Lose
  <2>1. UNCHANGED <<main, boots, timedOut, phase, at>> /\ backlog # <<>>
    BY <1>5 DEF Commit, Lose, Log!Commit, Log!Lose, process
  <2>. QED BY <1>1, <2>1 DEF MainInv, NoneTracked, Tracked
<1>6. CASE Boot
  BY <1>6, ServerAssumption DEF Boot, MainInv
<1>7. CASE SayListening \/ SayTimedOut
  BY <1>7 DEF SayListening, SayTimedOut, Say, Log!Accept, MainInv
<1>8. CASE Signal \/ ShutdownReturns \/ ShutdownTimesOut
  BY <1>8 DEF Signal, ShutdownReturns, ShutdownTimesOut, MainGoes, MainInv, log, NoneTracked,
            Tracked
<1>9. CASE Close
  BY <1>9 DEF Close, Log!Shut, Log!Finish, MainInv, process, NoneTracked, Tracked
<1>10. CASE Exit \/ Kill
  BY <1>10 DEF Exit, Kill, ProcessEnds, MainInv
<1>11. CASE UNCHANGED vars
  BY <1>11, <1>1 DEF vars, process, log, MainInv, NoneTracked, Tracked
<1>. QED
  BY <1>3, <1>4, <1>5, <1>6, <1>7, <1>8, <1>9, <1>10, <1>11 DEF Next, WindDown

\* Every step keeps each answer under way about an entry that is kept.
LEMMA AnswerStep ==
    ASSUME Inv, [Next]_vars
    PROVE  AnswerInv'
<1>. DEFINE Ok(x) == at[x] = "ok" => <<x, x[2]>> \in Answered(Kept)
<1>. /\ TypeOK /\ Answered(Kept) \subseteq Answered(Kept')
     /\ acked \subseteq Answered(Kept) /\ \A x \in Conn : Ok(x)
  BY KeptGrows DEF Inv, AnswerInv
<1>1. ASSUME UNCHANGED acked, \A x \in Conn : at'[x] = "ok" => at[x] = "ok"
      PROVE  AnswerInv'
  BY <1>1 DEF AnswerInv
<1>2. ASSUME NEW c \in Clients, Client(c) PROVE AnswerInv'
  <2>1. CASE Dial(c)
    BY <1>1, <2>1 DEF Dial, Goto, TypeOK, past
  <2>2. CASE DialFails(c) \/ Send(c) \/ SendFails(c)
    BY <1>1, <2>2 DEF DialFails, Send, SendFails, SendFailsTo, past
  <2>3. CASE Answer(c)
    <3>1. \A x \in Conn : at'[x] = "ok" => at[x] = "ok"
      BY <2>3 DEF Answer, Goto, TypeOK
    <3>2. CASE UNCHANGED acked
      BY <1>1, <3>1, <3>2
    <3>3. CASE at[Link(c)] = "ok" /\ acked' = acked \cup {<<Link(c), n[c]>>}
      <4>1. Link(c) \in Conn /\ Link(c)[2] = n[c]
        BY <2>3, ServerAssumption DEF Answer, Link, Conn, TypeOK, ClientInv, Inv
      <4>2. <<Link(c), n[c]>> \in Answered(Kept)
        BY <3>3, <4>1
      <4>. QED BY <3>1, <3>3, <4>2 DEF AnswerInv
    <3>. QED BY <2>3, <3>2, <3>3 DEF Answer
  <2>. QED BY <1>2, <2>1, <2>2, <2>3 DEF Client
<1>3. ASSUME NEW x \in Conn, DecodeFails(x) \/ Refused(x) \/ ReadFails(x) PROVE AnswerInv'
  <2>1. UNCHANGED acked /\ \E place \in {"running", "gone"} : at' = [at EXCEPT ![x] = place]
    BY <1>3 DEF DecodeFails, Refused, RefusedWith, ReadFails, Deals, Goto, past
  <2>. QED BY <1>1, <2>1 DEF TypeOK
<1>4. ASSUME NEW x \in Conn, Accepted(x) PROVE AnswerInv'
  <2>. DEFINE m == Head(inbox[x])
  <2>1. m \in Own(x)
    BY <1>4, RangeHeadTail DEF Accepted, Deals, Inv, InboxInv
  <2>2. m \in Kept'
    BY <1>4, <2>1, StoredSteps DEF Accepted, Own, Kept
  <2>3. Protocol[x[1]] # "ws" => <<x, x[2]>> \in Answered(Kept')
    <3>1. ASSUME Protocol[x[1]] # "ws" PROVE m = <<x, x[2]>>
      BY <2>1, <3>1 DEF Own, Message
    <3>. QED BY <2>2, <3>1 DEF Answered
  <2>4. UNCHANGED acked
    BY <1>4 DEF Accepted, Deals, past
  <2>5. CASE Protocol[x[1]] = "ws"
    <3>1. at' = [at EXCEPT ![x] = "running"]
      BY <1>4, <2>5 DEF Accepted, Deals, Goto
    <3>. QED BY <1>1, <2>4, <3>1 DEF TypeOK
  <2>6. CASE Protocol[x[1]] # "ws"
    <3>1. \A y \in Conn \ {x} : at'[y] = at[y]
      BY <1>4 DEF Accepted, Deals, Goto, TypeOK
    <3>2. \A y \in Conn : at'[y] = "ok" => <<y, y[2]>> \in Answered(Kept')
      BY <2>3, <2>6, <3>1
    <3>. QED BY <2>4, <3>2 DEF AnswerInv
  <2>. QED BY <2>5, <2>6
<1>5. CASE Exit \/ Kill
  BY <1>1, <1>5 DEF Exit, Kill, ProcessEnds
<1>6. CASE Commit \/ Lose \/ Boot \/ SayListening \/ Signal \/ ShutdownReturns \/ ShutdownTimesOut
           \/ SayTimedOut \/ Close \/ UNCHANGED vars
  BY <1>1, <1>6 DEF Commit, Lose, Boot, SayListening, Signal, ShutdownReturns,
                    ShutdownTimesOut, SayTimedOut, Say, Close, MainGoes, vars, past
<1>. QED BY <1>2, <1>3, <1>4, <1>5, <1>6 DEF Next, Handler, WindDown

\* Every step keeps the Manager's types, and no more than one entry above the capacity of its
\* queue accepted and not written.
LEMMA LogStep ==
    ASSUME TypeOK, MainInv, InboxInv, [Next]_vars
    PROVE  /\ Log!TypeOK' /\ Len(backlog') <= QueueCap + 1
           /\ backlog = <<>> /\ main = "down" => backlog' = <<>>
<1>. DEFINE Goal == /\ Log!TypeOK' /\ Len(backlog') <= QueueCap + 1
                    /\ backlog = <<>> /\ main = "down" => backlog' = <<>>
<1>. /\ backlog \in Seq(Message) /\ committed \in Seq(Message)
     /\ phase \in {"open", "closing", "closed"} /\ Len(backlog) <= QueueCap + 1
  BY DEF TypeOK, Log!TypeOK
<1>1. ASSUME NEW m \in Message, Log!Accept(m), Room, main # "down" PROVE Goal
  <2>1. Len(backlog') = Len(backlog) + 1 /\ backlog' \in Seq(Message) /\ Len(backlog) \in Nat
    BY <1>1, AppendProperties, LenProperties DEF Log!Accept
  <2>2. Len(backlog') <= QueueCap + 1
    BY <2>1, <1>1, ServerAssumption DEF Room
  <2>. QED BY <1>1, <2>1, <2>2 DEF Log!Accept, Log!TypeOK
<1>2. CASE Commit \/ Lose
  <2>1. backlog # <<>> /\ backlog' = Tail(backlog) /\ phase' = phase
    BY <1>2 DEF Commit, Lose, Log!Commit, Log!Lose
  <2>2. backlog' \in Seq(Message) /\ Len(backlog') <= QueueCap + 1 /\ Head(backlog) \in Message
    BY <2>1, RangeHeadTail, ServerAssumption, LenProperties
  <2>3. committed' \in Seq(Message)
    <3>1. committed' = committed \/ committed' = Append(committed, Head(backlog))
      BY <1>2 DEF Commit, Lose, Log!Commit, Log!Lose
    <3>2. Append(committed, Head(backlog)) \in Seq(Message)
      BY <2>2, AppendProperties
    <3>. QED BY <3>1, <3>2
  <2>. QED BY <2>1, <2>2, <2>3 DEF Log!TypeOK
<1>3. CASE Exit \/ Kill
  <2>1. backlog' = <<>> /\ committed' = committed /\ phase' = "closed"
    BY <1>3 DEF Exit, Kill, ProcessEnds
  <2>2. <<>> \in Seq(Message) /\ Len(<<>>) = 0
    OBVIOUS
  <2>. QED BY <2>1, <2>2, ServerAssumption DEF Log!TypeOK
<1>4. CASE Boot \/ Close
  BY <1>4 DEF Boot, Close, Log!Shut, Log!Finish, Log!TypeOK
<1>5. CASE UNCHANGED log
  BY <1>5 DEF log, Log!TypeOK
<1>6. CASE SayListening \/ SayTimedOut
  <2>1. main # "down"
    BY <1>6 DEF SayListening, SayTimedOut
  <2>2. \A which \in {1, 2} : <<<<"main", boots>>, which>> \in Message
    BY <2>1, ConnFacts DEF MainInv
  <2>. QED BY <1>1, <1>6, <2>1, <2>2 DEF SayListening, SayTimedOut, Say
<1>7. ASSUME NEW x \in Conn, Accepted(x) PROVE Goal
  <2>1. Head(inbox[x]) \in Own(x)
    BY <1>7, RangeHeadTail DEF Accepted, Deals, InboxInv
  <2>2. main # "down"
    BY <1>7 DEF Accepted, Deals, TypeOK
  <2>. QED BY <1>1, <1>7, <2>1, <2>2 DEF Accepted, Own
<1>8. ASSUME NEW x \in Conn, DecodeFails(x) \/ Refused(x) \/ ReadFails(x) PROVE UNCHANGED log
  BY <1>8 DEF DecodeFails, Refused, RefusedWith, ReadFails
<1>9. ASSUME NEW c \in Clients, Client(c) PROVE UNCHANGED log
  BY <1>9 DEF Client, Dial, DialFails, Send, SendFails, SendFailsTo, Answer
<1>10. ASSUME Signal \/ ShutdownReturns \/ ShutdownTimesOut \/ UNCHANGED vars PROVE UNCHANGED log
  BY <1>10 DEF Signal, ShutdownReturns, ShutdownTimesOut, MainGoes, vars
<1>. QED BY <1>2, <1>3, <1>4, <1>5, <1>6, <1>7, <1>8, <1>9, <1>10 DEF Next, Handler, WindDown

\* Every step keeps the types.
LEMMA TypeStep ==
    ASSUME Inv, [Next]_vars
    PROVE  TypeOK'
<1>. DEFINE Process == /\ main \in {"down", "starting", "serving", "shutdown", "reporting",
                                   "closing"}
                       /\ boots \in 0 .. MaxBoots
                       /\ timedOut \in BOOLEAN
            Ends    == /\ at \in [Conn -> {"none", "running", "ok", "gone"}]
                       /\ inbox \in [Conn -> Seq(Message)]
            Peers   == /\ n \in [Clients -> 0 .. MaxTries]
                       /\ dials \in [Clients -> 0 .. MaxTries]
                       /\ linked \in [Clients -> BOOLEAN] /\ h2 \in [Clients -> BOOLEAN]
            Lasting == \A c \in Clients : h2[c] => main # "down" /\ Protocol[c] = "grpc"
            Record  == acked \subseteq Message /\ casualties \subseteq Message
            Idle    == main = "down" => \A x \in Conn : at[x] # "running"
<1>. /\ TypeOK /\ MainInv /\ ClientInv /\ InboxInv /\ AnswerInv
     /\ backlog \in Seq(Message) /\ committed \in Seq(Message)
     /\ Process /\ Ends /\ Peers /\ Lasting /\ Record /\ Idle
  BY DEF Inv, TypeOK, Log!TypeOK
<1>1. /\ Log!TypeOK' /\ Len(backlog') <= QueueCap + 1
      /\ backlog = <<>> /\ main = "down" => backlog' = <<>>
  BY LogStep
<1>2. InboxInv' /\ AnswerInv'
  BY InboxStep, AnswerStep
<1>3. Stored' \subseteq Message
  <2>1. committed' \in Seq(Message) /\ backlog' \in Seq(Message)
    BY <1>1 DEF Log!TypeOK
  <2>2. Stored' = Range(committed') \cup Range(backlog')
    BY <2>1, RangeConcatenation DEF Stored
  <2>3. \A s \in Seq(Message) : Range(s) \subseteq Message
    BY DEF Range
  <2>. QED BY <2>1, <2>2, <2>3
<1>4. Process'
  <2>1. ASSUME NEW c \in Clients, Client(c) PROVE UNCHANGED process
    BY <2>1 DEF Client, Dial, DialFails, Send, SendFails, SendFailsTo, Answer
  <2>2. ASSUME NEW x \in Conn, Handler(x) PROVE UNCHANGED process
    BY <2>2 DEF Handler, DecodeFails, Accepted, Refused, RefusedWith, ReadFails, Deals
  <2>3. CASE Commit \/ Lose \/ Close
    BY <2>3 DEF Commit, Lose, Close, process
  <2>4. CASE UNCHANGED process
    BY <2>4 DEF process
  <2>5. CASE Boot
    <3>1. boots < MaxBoots /\ boots' = boots + 1 /\ main' = "starting" /\ timedOut' = FALSE
      BY <2>5 DEF Boot
    <3>2. boots' \in 0 .. MaxBoots
      BY <3>1, ServerAssumption
    <3>. QED BY <3>1, <3>2
  <2>6. CASE SayListening \/ SayTimedOut \/ Signal \/ ShutdownReturns \/ ShutdownTimesOut
             \/ Exit \/ Kill
    BY <2>6 DEF SayListening, SayTimedOut, Say, Signal, ShutdownReturns, ShutdownTimesOut,
                MainGoes, Exit, Kill, ProcessEnds
  <2>7. CASE UNCHANGED vars
    BY <2>4, <2>7 DEF vars
  <2>. QED BY <2>1, <2>2, <2>3, <2>4, <2>5, <2>6, <2>7 DEF Next, WindDown
<1>5. Ends'
  <2>1. ASSUME NEW c \in Clients, Client(c) PROVE at' \in [Conn -> {"none", "running", "ok", "gone"}]
    BY <2>1 DEF Client, Dial, DialFails, Send, SendFails, SendFailsTo, Answer, Goto
  <2>2. ASSUME NEW x \in Conn, Handler(x) PROVE at' \in [Conn -> {"none", "running", "ok", "gone"}]
    BY <2>2 DEF Handler, DecodeFails, Accepted, Refused, RefusedWith, ReadFails, Deals, Goto
  <2>3. ASSUME Exit \/ Kill PROVE at' \in [Conn -> {"none", "running", "ok", "gone"}]
    <3>1. at' = [x \in Conn |-> IF at[x] = "running" THEN "gone" ELSE at[x]]
      BY <2>3 DEF Exit, Kill, ProcessEnds
    <3>2. \A x \in Conn : at'[x] \in {"none", "running", "ok", "gone"}
      BY <3>1
    <3>3. at' = [x \in Conn |-> at'[x]]
      BY <3>1
    <3>. QED BY <3>2, <3>3
  <2>4. ASSUME Commit \/ Lose \/ Boot \/ SayListening \/ Signal \/ ShutdownReturns
               \/ ShutdownTimesOut \/ SayTimedOut \/ Close \/ UNCHANGED vars
        PROVE  at' \in [Conn -> {"none", "running", "ok", "gone"}]
    BY <2>4 DEF Commit, Lose, Boot, SayListening, Signal, ShutdownReturns, ShutdownTimesOut,
                SayTimedOut, Say, Close, MainGoes, vars
  <2>5. at' \in [Conn -> {"none", "running", "ok", "gone"}]
    BY <2>1, <2>2, <2>3, <2>4 DEF Next, WindDown
  <2>6. inbox' = [x \in Conn |-> inbox'[x]]
    <3>1. ASSUME NEW c \in Clients, Client(c) PROVE inbox' = [x \in Conn |-> inbox'[x]]
      BY <3>1 DEF Client, Dial, DialFails, Send, SendFails, SendFailsTo, Arrives, Answer
    <3>2. ASSUME NEW x \in Conn, Handler(x) PROVE inbox' = [y \in Conn |-> inbox'[y]]
      BY <3>2 DEF Handler, DecodeFails, Accepted, Refused, RefusedWith, ReadFails, Deals
    <3>3. CASE Exit \/ Kill
      BY <3>3 DEF Exit, Kill, ProcessEnds
    <3>4. CASE Commit \/ Lose \/ Boot \/ SayListening \/ Signal \/ ShutdownReturns
               \/ ShutdownTimesOut \/ SayTimedOut \/ Close \/ UNCHANGED vars
      BY <3>4 DEF Commit, Lose, Boot, SayListening, Signal, ShutdownReturns, ShutdownTimesOut,
                  SayTimedOut, Say, Close, MainGoes, vars
    <3>. QED BY <3>1, <3>2, <3>3, <3>4 DEF Next, WindDown
  <2>7. \A x \in Conn : inbox'[x] \in Seq(Message)
    <3>1. ASSUME NEW x \in Conn PROVE inbox'[x] \in Seq(Message)
      <4>1. inbox'[x] \in Seq(Own(x)) /\ Own(x) \subseteq Message
        BY <1>2 DEF InboxInv, Own
      <4>. QED BY <4>1
    <3>. QED BY <3>1
  <2>. QED BY <2>5, <2>6, <2>7
<1>6. Peers'
  <2>1. ASSUME NEW c \in Clients, Client(c) PROVE Peers'
    <3>1. /\ n[c] \in 0 .. MaxTries /\ dials[c] \in 0 .. MaxTries /\ dials[c] \in Nat
          /\ MayTry(c, dials[c]) => dials[c] + 1 \in 0 .. MaxTries /\ n[c] + 1 \in 0 .. MaxTries
      BY ServerAssumption, PlanFacts
    <3>2. CASE Dial(c)
      <4>1. dials[c] + 1 \in 0 .. MaxTries
        BY <3>1, <3>2 DEF Dial
      <4>. QED BY <3>2, <4>1 DEF Dial
    <3>3. CASE DialFails(c)
      <4>1. dials[c] + 1 \in 0 .. MaxTries /\ n[c] + 1 \in 0 .. MaxTries
        BY <3>1, <3>3 DEF DialFails
      <4>. QED BY <3>3, <4>1 DEF DialFails
    <3>4. CanSend(c) => n[c] + 1 \in 0 .. MaxTries
      BY CanSendFacts, ServerAssumption
    <3>5. CASE Send(c) \/ SendFails(c)
      <4>1. /\ CanSend(c) /\ n' = [n EXCEPT ![c] = n[c] + 1] /\ dials' = dials /\ h2' = h2
            /\ linked' \in {linked, [linked EXCEPT ![c] = FALSE]}
        BY <3>5 DEF Send, SendFails, SendFailsTo
      <4>2. n[c] + 1 \in 0 .. MaxTries
        BY <3>4, <4>1
      <4>3. n' \in [Clients -> 0 .. MaxTries] /\ linked' \in [Clients -> BOOLEAN]
        BY <4>1, <4>2
      <4>. QED BY <4>1, <4>3
    <3>6. CASE Answer(c)
      BY <3>6 DEF Answer
    <3>. QED BY <2>1, <3>2, <3>3, <3>5, <3>6 DEF Client
  <2>2. CASE UNCHANGED <<n, dials, linked>> /\ (h2' = h2 \/ h2' = [c \in Clients |-> FALSE])
    BY <2>2
  <2>3. ASSUME NEW x \in Conn, Handler(x) PROVE UNCHANGED clients
    BY <2>3 DEF Handler, DecodeFails, Accepted, Refused, RefusedWith, ReadFails, Deals
  <2>4. ASSUME Commit \/ Lose \/ Boot \/ SayListening \/ Signal \/ WindDown \/ Kill \/ UNCHANGED vars
        PROVE  UNCHANGED <<n, dials, linked>> /\ (h2' = h2 \/ h2' = [c \in Clients |-> FALSE])
    BY <2>4 DEF Commit, Lose, Boot, SayListening, Signal, WindDown, Kill, ShutdownReturns,
                ShutdownTimesOut, SayTimedOut, Say, Close, Exit, ProcessEnds, MainGoes, vars,
                clients
  <2>. QED BY <2>1, <2>2, <2>3, <2>4 DEF Next, clients
<1>7. casualties' \subseteq Message
  <2>1. \A S : S \subseteq Message => Answered(S) \subseteq Message
    BY DEF Answered
  <2>2. CASE Lose
    <3>1. Head(backlog) \in Message
      BY <2>2, RangeHeadTail DEF Lose, Log!Lose
    <3>. QED BY <2>1, <2>2, <3>1 DEF Lose
  <2>3. CASE Kill
    <3>1. Range(backlog) \subseteq Message
      BY DEF Range
    <3>. QED BY <2>1, <2>3, <3>1 DEF Kill
  <2>4. ASSUME NEW c \in Clients, Client(c) PROVE UNCHANGED casualties
    BY <2>4 DEF Client, Dial, DialFails, Send, SendFails, SendFailsTo, Answer, past
  <2>5. ASSUME NEW x \in Conn, Handler(x) PROVE UNCHANGED casualties
    BY <2>5 DEF Handler, DecodeFails, Accepted, Refused, RefusedWith, ReadFails, Deals, past
  <2>6. CASE Commit \/ Boot \/ SayListening \/ Signal \/ WindDown \/ UNCHANGED vars
    BY <2>6 DEF Commit, Boot, SayListening, Signal, WindDown, ShutdownReturns, ShutdownTimesOut,
                SayTimedOut, Say, Close, Exit, MainGoes, vars, past
  <2>. QED BY <2>2, <2>3, <2>4, <2>5, <2>6 DEF Next
<1>8. acked' \subseteq Message
  BY <1>2, <1>3, <1>7 DEF AnswerInv, Answered, Kept
<1>9. main' = "down" => backlog' = <<>> /\ \A x \in Conn : at'[x] # "running"
  <2>1. CASE Exit \/ Kill
    BY <2>1 DEF Exit, Kill, ProcessEnds
  <2>2. CASE ~(Exit \/ Kill) /\ main' = "down"
    <3>1. ASSUME NEW c \in Clients, Client(c)
          PROVE  main = "down" /\ \A x \in Conn : at'[x] = "running" => at[x] = "running"
      <4>1. main = "down"
        BY <2>2, <3>1 DEF Client, Dial, DialFails, Send, SendFails, SendFailsTo, Answer, process
      <4>2. ~Dial(c)
        BY <4>1 DEF Dial, Reachable
      <4>3. UNCHANGED at \/ at' = [at EXCEPT ![Link(c)] = "gone"]
        BY <3>1, <4>1, <4>2 DEF Client, Dial, DialFails, Send, SendFails, SendFailsTo, Answer, Goto
      <4>. QED BY <4>1, <4>3
    <3>2. ASSUME NEW x \in Conn, Handler(x) PROVE FALSE
      <4>1. main = "down" /\ at[x] = "running"
        BY <2>2, <3>2 DEF Handler, DecodeFails, Accepted, Refused, RefusedWith, ReadFails, Deals,
                          process
      <4>. QED BY <4>1
    <3>3. ASSUME Commit \/ Lose \/ Boot \/ SayListening \/ Signal \/ ShutdownReturns
                 \/ ShutdownTimesOut \/ SayTimedOut \/ Close \/ UNCHANGED vars
          PROVE  main = "down" /\ UNCHANGED at
      BY <2>2, <3>3 DEF Commit, Lose, Boot, SayListening, Signal, ShutdownReturns,
                        ShutdownTimesOut, SayTimedOut, Say, Close, MainGoes, vars, process
    <3>4. main = "down" /\ \A x \in Conn : at'[x] = "running" => at[x] = "running"
      BY <2>2, <3>1, <3>2, <3>3 DEF Next, WindDown
    <3>. QED BY <1>1, <3>4 DEF TypeOK
  <2>. QED BY <2>1, <2>2
<1>10. Lasting'
  <2>1. CASE Exit \/ Kill
    BY <2>1 DEF Exit, Kill, ProcessEnds
  <2>2. CASE UNCHANGED h2 /\ (main' = "down" => main = "down")
    BY <2>2
  <2>3. ASSUME NEW c \in Clients, Client(c) PROVE Lasting'
    <3>1. CASE Dial(c)
      <4>1. /\ main # "down" /\ main' = main
            /\ h2' = [h2 EXCEPT ![c] = Protocol[c] = "grpc"]
        BY <3>1 DEF Dial, Reachable, process
      <4>. QED BY <4>1
    <3>2. CASE DialFails(c) \/ Send(c) \/ SendFails(c) \/ Answer(c)
      BY <2>2, <3>2 DEF DialFails, Send, SendFails, SendFailsTo, Answer, process
    <3>. QED BY <2>3, <3>1, <3>2 DEF Client
  <2>4. ASSUME NEW x \in Conn, Handler(x) PROVE Lasting'
    BY <2>2, <2>4 DEF Handler, DecodeFails, Accepted, Refused, RefusedWith, ReadFails, Deals,
                      process, clients
  <2>5. CASE Commit \/ Lose \/ Boot \/ SayListening \/ Signal \/ ShutdownReturns
             \/ ShutdownTimesOut \/ SayTimedOut \/ Close \/ UNCHANGED vars
    BY <2>2, <2>5 DEF Commit, Lose, Boot, SayListening, Signal, ShutdownReturns,
                      ShutdownTimesOut, SayTimedOut, Say, Close, MainGoes, vars, process, clients
  <2>. QED BY <2>1, <2>3, <2>4, <2>5 DEF Next, WindDown
<1>. QED BY <1>1, <1>4, <1>5, <1>6, <1>7, <1>8, <1>9, <1>10 DEF TypeOK

\* A server that has not been started.
LEMMA Initially == Init => Inv
<1>. SUFFICES ASSUME Init PROVE Inv
  OBVIOUS
<1>. USE ServerAssumption DEF Init, Log!Init
<1>1. TypeOK
  <2>1. Len(<<>>) = 0 /\ <<>> \in Seq(Message)
    OBVIOUS
  <2>2. Log!TypeOK /\ Len(backlog) <= QueueCap + 1
    BY <2>1 DEF Log!TypeOK
  <2>3. /\ inbox \in [Conn -> Seq(Message)]
        /\ at \in [Conn -> {"none", "running", "ok", "gone"}]
        /\ n \in [Clients -> 0 .. MaxTries] /\ dials \in [Clients -> 0 .. MaxTries]
        /\ linked \in [Clients -> BOOLEAN] /\ h2 \in [Clients -> BOOLEAN]
        /\ \A c \in Clients : ~h2[c]
    BY <2>1
  <2>4. main = "down" /\ boots \in 0 .. MaxBoots
    OBVIOUS
  <2>5. timedOut \in BOOLEAN
    OBVIOUS
  <2>6. acked \subseteq Message /\ casualties \subseteq Message
    OBVIOUS
  <2>7. backlog = <<>> /\ \A x \in Conn : at[x] # "running"
    OBVIOUS
  <2>. QED BY <2>2, <2>3, <2>4, <2>5, <2>6, <2>7 DEF TypeOK
<1>2. MainInv /\ ClientInv /\ InboxInv /\ AnswerInv
  BY DEF MainInv, ClientInv, InboxInv, AnswerInv
<1>. QED BY <1>1, <1>2 DEF Inv

\* Every step keeps the invariant.
LEMMA Inductive == Inv /\ [Next]_vars => Inv'
<1>. SUFFICES ASSUME Inv, [Next]_vars PROVE Inv'
  OBVIOUS
<1>. QED BY TypeStep, MainStep, ClientStep, InboxStep, AnswerStep DEF Inv

-----------------------------------------------------------------------------
(* The theorems.                                                           *)

\* Inv holds in every reachable state: the invariant the others follow from.
THEOREM Invariance == Spec => []Inv
<1>. QED BY Initially, Inductive, PTL DEF Spec

\* The process, the Manager, the connections and the clients are only ever in the states
\* that are modelled, however often the process is killed and started again; at most one
\* entry more than the queue holds, the one in the write loop's hands, is yet to be written.
THEOREM TypeCorrect == Spec => []TypeOK
<1>1. Inv => TypeOK
  BY DEF Inv
<1>. QED BY <1>1, Invariance, PTL

\* main closes the Manager only after the last POST /ingest handler has returned or
\* Shutdown has given up, so that no request of a patient client meets ErrClosed.
THEOREM NotRefused == Spec => []TrackedNotRefused
<1>1. Inv => TrackedNotRefused
  BY DEF Inv, MainInv, TypeOK, TrackedNotRefused, NoneTracked, Tracked
<1>. QED BY <1>1, Invariance, PTL

\* An answer "accepted" is kept: for any number of clients, of handlers that Shutdown does
\* not wait for, and of orderly stops, the entry was written or is queued, unless the
\* process was killed with it in the queue or its own write failed.
THEOREM Accountable == Spec => []AckedIsStored
<1>1. Inv => AckedIsStored
  BY DEF Inv, AnswerInv, AckedIsStored, Answered, Kept, Stored
<1>. QED BY <1>1, Invariance, PTL

-----------------------------------------------------------------------------
(***************************************************************************)
(* Order and uniqueness.  The attempts of one client have different        *)
(* numbers wherever they are, stored or unread on any of its connections,  *)
(* and on one connection they are stored and then unread in their order.   *)
(* A new attempt has a number that is nowhere yet.                         *)
(***************************************************************************)

Held == committed \o backlog

\* k may come behind m in the store: it is another attempt of the client, and a later one
\* if it came on the same connection.
Follows(m, k) ==
    m[1] \in Conn /\ k[1] \in Conn /\ m[1][1] = k[1][1] =>
        m[2] # k[2] /\ (m[1] = k[1] => m[2] < k[2])

Pairwise(s) == \A i, j \in 1 .. Len(s) : i < j => Follows(s[i], s[j])

\* m is an attempt that its client has made.
Attempted(m) == m[1] \in Conn => m[2] <= n[m[1][1]]

StreamInv ==
    /\ Pairwise(Held)
    /\ \A m \in Stored : Attempted(m)
    /\ \A x \in Conn : \A a \in 1 .. Len(inbox[x]) :
          /\ inbox[x][a][2] <= n[x[1]]
          /\ \A m \in Stored : Follows(m, inbox[x][a])
          /\ \A b \in 1 .. Len(inbox[x]) : a < b => inbox[x][a][2] < inbox[x][b][2]
          /\ \A y \in Conn \ {x} : \A b \in 1 .. Len(inbox[y]) : Follows(inbox[x][a], inbox[y][b])

\* An entry that follows all the others can be appended.
LEMMA PairwiseAppend ==
    ASSUME NEW S, NEW s \in Seq(S), NEW e \in S, Pairwise(s),
           \A m \in Range(s) : Follows(m, e)
    PROVE  Pairwise(Append(s, e))
<1>. DEFINE t == Append(s, e)
<1>1. /\ Len(t) = Len(s) + 1 /\ Len(s) \in Nat
      /\ \A i \in 1 .. Len(s) : t[i] = s[i]
      /\ t[Len(s) + 1] = e
  BY AppendProperties, LenProperties
<1>2. \A i \in 1 .. Len(s) : s[i] \in Range(s)
  BY RangeEquality
<1>. HIDE DEF t
<1>3. ASSUME NEW i \in 1 .. Len(t), NEW j \in 1 .. Len(t), i < j
      PROVE  Follows(t[i], t[j])
  <2>1. i \in 1 .. Len(s)
    BY <1>1, <1>3
  <2>2. CASE j \in 1 .. Len(s)
    BY <1>1, <1>3, <2>1, <2>2 DEF Pairwise
  <2>3. CASE j = Len(s) + 1
    BY <1>1, <1>2, <2>1, <2>3
  <2>. QED BY <1>1, <2>2, <2>3
<1>4. Pairwise(t)
  BY <1>3 DEF Pairwise
<1>. QED BY <1>4 DEF t

\* Taking an entry out of the log leaves the others in order.
LEMMA PairwiseWithout ==
    ASSUME NEW S, NEW s \in Seq(S), NEW e \in S, NEW u \in Seq(S),
           Pairwise(s \o (<<e>> \o u))
    PROVE  Pairwise(s \o u)
<1>. DEFINE t == s \o (<<e>> \o u)
            r == s \o u
            at_(i) == IF i <= Len(s) THEN i ELSE i + 1
<1>1. /\ Len(s) \in Nat /\ Len(r) \in Nat /\ Len(s) <= Len(r) /\ Len(t) = Len(r) + 1
      /\ \A i \in 1 .. Len(r) : r[i] = t[at_(i)]
  BY WithoutMiddle
<1>2. Pairwise(t)
  OBVIOUS
<1>. HIDE DEF t, r
<1>3. ASSUME NEW i \in 1 .. Len(r), NEW j \in 1 .. Len(r), i < j
      PROVE  Follows(r[i], r[j])
  <2>1. at_(i) < at_(j) /\ at_(i) \in 1 .. Len(t) /\ at_(j) \in 1 .. Len(t)
    BY <1>1, <1>3
  <2>2. r[i] = t[at_(i)] /\ r[j] = t[at_(j)]
    BY <1>1
  <2>. HIDE DEF at_
  <2>. QED BY <1>2, <2>1, <2>2 DEF Pairwise
<1>4. Pairwise(r)
  BY <1>3 DEF Pairwise
<1>. QED BY <1>4 DEF r

\* So does cutting the log off.
LEMMA PairwisePrefix ==
    ASSUME NEW S, NEW s \in Seq(S), NEW u \in Seq(S), Pairwise(s \o u)
    PROVE  Pairwise(s)
<1>1. /\ Len(s) \in Nat /\ Len(u) \in Nat /\ Len(s \o u) = Len(s) + Len(u)
      /\ \A i \in 1 .. Len(s) : (s \o u)[i] = s[i]
  BY ConcatProperties, LenProperties
<1>2. 1 .. Len(s) \subseteq 1 .. Len(s \o u)
  BY <1>1
<1>. QED BY <1>1, <1>2 DEF Pairwise

\* Order in the next state is order of the next state's log.
LEMMA PairwiseIs ==
    ASSUME NEW s, Pairwise(s), Held' = s
    PROVE  Pairwise(Held)'
BY DEF Pairwise, Follows

\* The log as one sequence: it grows at its end and loses entries in the middle or
\* everything that is not committed.
LEMMA HeldSteps ==
    ASSUME TypeOK
    PROVE  /\ Held \in Seq(Message) /\ Stored = Range(Held)
           /\ \A m \in Message : Log!Accept(m) => Held' = Append(Held, m)
           /\ Log!Commit => Held' = Held
           /\ Log!Lose => \E s, u \in Seq(Message), e \in Message :
                 Held = s \o (<<e>> \o u) /\ Held' = s \o u
           /\ committed' = committed /\ backlog' = <<>> => Held' = committed
<1>. committed \in Seq(Message) /\ backlog \in Seq(Message)
  BY DEF TypeOK, Log!TypeOK
<1>1. Held \in Seq(Message) /\ Stored = Range(Held)
  BY ConcatProperties DEF Held, Stored
<1>2. ASSUME NEW m \in Message, Log!Accept(m) PROVE Held' = Append(Held, m)
  BY <1>2, ConcatAppend DEF Log!Accept, Held
<1>3. ASSUME backlog # <<>>
      PROVE  /\ Head(backlog) \in Message /\ Tail(backlog) \in Seq(Message)
             /\ backlog = <<Head(backlog)>> \o Tail(backlog)
  BY <1>3, RangeHeadTail, HeadTailConcat
<1>4. ASSUME Log!Commit PROVE Held' = Held
  <2>. DEFINE e == Head(backlog)
              u == Tail(backlog)
  <2>1. /\ e \in Message /\ u \in Seq(Message) /\ backlog = <<e>> \o u
        /\ backlog' = u /\ committed' = Append(committed, e)
    BY <1>3, <1>4 DEF Log!Commit
  <2>. HIDE DEF e, u
  <2>2. <<e>> \in Seq(Message) /\ Append(committed, e) = committed \o <<e>>
    BY <2>1, AppendIsConcat
  <2>3. (committed \o <<e>>) \o u = committed \o (<<e>> \o u)
    BY <2>1, <2>2, ConcatAssociative
  <2>. QED BY <2>1, <2>2, <2>3 DEF Held
<1>5. ASSUME Log!Lose
      PROVE  \E s, u \in Seq(Message), e \in Message :
                 Held = s \o (<<e>> \o u) /\ Held' = s \o u
  <2>1. /\ Held = committed \o (<<Head(backlog)>> \o Tail(backlog))
        /\ Held' = committed \o Tail(backlog)
    BY <1>3, <1>5 DEF Log!Lose, Held
  <2>. QED BY <1>3, <1>5, <2>1 DEF Log!Lose
<1>6. ASSUME committed' = committed, backlog' = <<>> PROVE Held' = committed
  BY <1>6, ConcatEmptySeq DEF Held
<1>. QED BY <1>1, <1>2, <1>4, <1>5, <1>6

\* The parts of a message, and that main's are none of a connection's.
LEMMA MessageFacts ==
    /\ \A m \in Message : m[2] \in Nat
    /\ \A x \in Conn : \A m \in Own(x) : m[1] = x /\ m \in Message
    /\ \A b, k : <<<<"main", b>>, k>>[1] \notin Conn
BY ServerAssumption DEF Message, Conn, Own

\* Types of the messages on a connection.
LEMMA InboxFacts ==
    ASSUME TypeOK, InboxInv
    PROVE  \A x \in Conn :
              /\ inbox[x] \in Seq(Message) /\ Len(inbox[x]) \in Nat
              /\ \A a \in 1 .. Len(inbox[x]) :
                    /\ inbox[x][a] \in Message /\ inbox[x][a][1] = x
                    /\ inbox[x][a][2] \in Nat
<1>. TAKE x \in Conn
<1>1. inbox[x] \in Seq(Own(x)) /\ inbox[x] \in Seq(Message)
  BY DEF InboxInv, TypeOK
<1>. QED BY <1>1, ElementOfSeq, LenProperties, MessageFacts

\* What is left of an inbox: a suffix of what it was.
Shrinks(x) ==
    \E d \in Nat : \A a \in 1 .. Len(inbox'[x]) :
        a + d \in 1 .. Len(inbox[x]) /\ inbox'[x][a] = inbox[x][a + d]

\* A connection whose handler reads, or that breaks, carries only what it carried.
LEMMA ShrinkingInbox ==
    ASSUME TypeOK, NEW x \in Conn,
           \/ inbox'[x] = inbox[x]
           \/ inbox'[x] = <<>>
           \/ inbox[x] # <<>> /\ inbox'[x] = Tail(inbox[x])
    PROVE  Shrinks(x)
<1>1. inbox[x] \in Seq(Message) /\ Len(inbox[x]) \in Nat
  BY LenProperties DEF TypeOK
<1>2. CASE inbox'[x] = inbox[x]
  <2>1. \A a \in 1 .. Len(inbox'[x]) : a + 0 \in 1 .. Len(inbox[x]) /\ inbox'[x][a] = inbox[x][a + 0]
    BY <1>1, <1>2
  <2>. QED BY <2>1 DEF Shrinks
<1>3. CASE inbox'[x] = <<>>
  <2>1. 1 .. Len(inbox'[x]) = {}
    BY <1>3
  <2>. QED BY <2>1 DEF Shrinks
<1>4. CASE inbox[x] # <<>> /\ inbox'[x] = Tail(inbox[x])
  <2>1. /\ Len(inbox'[x]) = Len(inbox[x]) - 1
        /\ \A a \in 1 .. Len(inbox'[x]) : inbox'[x][a] = inbox[x][a + 1]
    BY <1>1, <1>4, HeadTailProperties
  <2>2. \A a \in 1 .. Len(inbox'[x]) : a + 1 \in 1 .. Len(inbox[x]) /\ inbox'[x][a] = inbox[x][a + 1]
    BY <1>1, <2>1
  <2>. QED BY <2>2 DEF Shrinks
<1>. QED BY <1>2, <1>3, <1>4

\* A step that sends nothing: the inboxes get shorter, and what is newly stored, if
\* anything, may come before all that is unread.
LEMMA NothingSent ==
    ASSUME TypeOK, InboxInv, StreamInv, Pairwise(Held)', TypeOK', InboxInv',
           \A c \in Clients : n[c] <= n'[c],
           \A x \in Conn : Shrinks(x),
           \A m \in Stored' \ Stored :
              /\ Attempted(m)
              /\ \A x \in Conn : \A a \in 1 .. Len(inbox'[x]) : Follows(m, inbox'[x][a])
    PROVE  StreamInv'
<1>0. Stored \subseteq Message /\ Stored' \subseteq Message
  <2>1. Held \in Seq(Message) /\ Held' \in Seq(Message)
    BY ConcatProperties DEF TypeOK, Log!TypeOK, Held
  <2>2. \A s \in Seq(Message) : Range(s) \subseteq Message
    BY DEF Range
  <2>. QED BY <2>1, <2>2 DEF Stored, Held
<1>1. \A c \in Clients : n[c] \in Nat /\ n'[c] \in Nat
  BY ServerAssumption DEF TypeOK
<1>2. ASSUME NEW m \in Stored' PROVE Attempted(m)'
  <2>1. Attempted(m)
    BY DEF StreamInv
  <2>2. m[1] \in Conn => m[1][1] \in Clients
    BY ConnFacts
  <2>3. m[2] \in Nat
    BY <1>0, MessageFacts
  <2>. QED BY <1>1, <2>1, <2>2, <2>3 DEF Attempted
<1>3. ASSUME NEW x \in Conn, NEW a \in 1 .. Len(inbox'[x])
      PROVE  /\ inbox'[x][a][2] <= n'[x[1]]
             /\ \A m \in Stored' : Follows(m, inbox'[x][a])
             /\ \A b \in 1 .. Len(inbox'[x]) : a < b => inbox'[x][a][2] < inbox'[x][b][2]
             /\ \A y \in Conn \ {x} : \A b \in 1 .. Len(inbox'[y]) :
                   Follows(inbox'[x][a], inbox'[y][b])
  <2>1. PICK d \in Nat : \A i \in 1 .. Len(inbox'[x]) :
            i + d \in 1 .. Len(inbox[x]) /\ inbox'[x][i] = inbox[x][i + d]
    BY DEF Shrinks
  <2>2. /\ a + d \in 1 .. Len(inbox[x]) /\ inbox'[x][a] = inbox[x][a + d]
        /\ inbox'[x][a][2] \in Nat
    BY <2>1, InboxFacts
  <2>3. inbox'[x][a][2] <= n'[x[1]]
    <3>1. inbox[x][a + d][2] <= n[x[1]] /\ x[1] \in Clients
      BY <2>2, ConnFacts DEF StreamInv
    <3>. QED BY <1>1, <2>2, <3>1
  <2>4. \A m \in Stored' : Follows(m, inbox'[x][a])
    BY <2>2 DEF StreamInv
  <2>5. ASSUME NEW b \in 1 .. Len(inbox'[x]), a < b
        PROVE  inbox'[x][a][2] < inbox'[x][b][2]
    <3>1. b + d \in 1 .. Len(inbox[x]) /\ inbox'[x][b] = inbox[x][b + d] /\ a + d < b + d
      BY <2>1, <2>5
    <3>. QED BY <2>2, <3>1 DEF StreamInv
  <2>6. ASSUME NEW y \in Conn \ {x}, NEW b \in 1 .. Len(inbox'[y])
        PROVE  Follows(inbox'[x][a], inbox'[y][b])
    <3>1. PICK e \in Nat : \A i \in 1 .. Len(inbox'[y]) :
              i + e \in 1 .. Len(inbox[y]) /\ inbox'[y][i] = inbox[y][i + e]
      BY DEF Shrinks
    <3>. QED BY SMTT(30), <2>2, <3>1 DEF StreamInv
  <2>. QED BY <2>3, <2>4, <2>5, <2>6
<1>. QED BY <1>2, <1>3 DEF StreamInv

\* A client's next attempt reaches the end of its connection's inbox.
LEMMA ArrivesStream ==
    ASSUME Inv, InboxInv', StreamInv, NEW c \in Clients, CanSend(c), Arrives(c),
           n' = [n EXCEPT ![c] = n[c] + 1], UNCHANGED log
    PROVE  StreamInv'
<1>. DEFINE l == Link(c)
            k == n[c] + 1
<1>1. /\ l \in Conn /\ l[1] = c /\ n[c] \in Nat /\ k \in 1 .. MaxTries
      /\ Entry(c) = <<l, k>> /\ Entry(c) \in Message
      /\ \A x \in Conn : x[1] \in Clients /\ n[x[1]] \in Nat
  <2>1. l \in Conn /\ k \in 1 .. MaxTries /\ n[c] \in Nat
    <3>1. TypeOK /\ ClientInv
      BY DEF Inv
    <3>. QED BY <3>1, CanSendFacts DEF l, k
  <2>2. \A x \in Conn : x[1] \in Clients /\ n[x[1]] \in Nat
    BY ConnFacts, ServerAssumption DEF Inv, TypeOK
  <2>. QED BY <2>1, <2>2, ConnFacts DEF Link, Entry
<1>2. /\ \A x \in Conn \ {l} : inbox'[x] = inbox[x]
      /\ Len(inbox'[l]) = Len(inbox[l]) + 1 /\ Len(inbox[l]) \in Nat
      /\ inbox'[l][Len(inbox[l]) + 1] = <<l, k>>
      /\ \A a \in 1 .. Len(inbox[l]) : inbox'[l][a] = inbox[l][a]
  <2>1. inbox[l] \in Seq(Message) /\ inbox' = [inbox EXCEPT ![l] = Append(@, Entry(c))]
    BY <1>1 DEF Arrives, Inv, TypeOK
  <2>2. inbox'[l] = Append(inbox[l], <<l, k>>) /\ \A x \in Conn \ {l} : inbox'[x] = inbox[x]
    BY <1>1, <2>1 DEF Inv, TypeOK
  <2>. HIDE DEF l, k
  <2>. QED BY <1>1, <2>1, <2>2, AppendProperties, LenProperties
<1>3. /\ n'[c] = k /\ \A d \in Clients \ {c} : n'[d] = n[d]
      /\ \A d \in Clients : n[d] \in Nat /\ n[d] <= n'[d]
  BY ServerAssumption DEF Inv, TypeOK
<1>. HIDE DEF l, k
<1>4. Held' = Held /\ Stored' = Stored /\ Stored \subseteq Message
  <2>1. Held' = Held /\ Stored' = Stored
    BY DEF log, Held, Stored
  <2>. QED BY <2>1, HeldSteps, RangeEquality, ElementOfSeq DEF Inv
<1>5. ASSUME NEW m \in Message, m[1] \in Conn, m[1][1] = c, Attempted(m)
      PROVE  m[2] \in Nat /\ m[2] < k
  BY <1>1, <1>5, MessageFacts DEF Attempted, k
<1>6. ASSUME NEW m \in Stored PROVE Attempted(m)' /\ Follows(m, <<l, k>>)
  <2>1. Attempted(m) /\ m \in Message /\ m[2] \in Nat /\ (m[1] \in Conn => m[1][1] \in Clients)
    BY <1>4, MessageFacts, ConnFacts DEF StreamInv
  <2>2. Attempted(m)'
    BY <1>3, <2>1 DEF Attempted
  <2>. QED BY <1>1, <1>5, <2>1, <2>2 DEF Follows
<1>7. ASSUME NEW x \in Conn, NEW a \in 1 .. Len(inbox[x])
      PROVE  /\ inbox[x][a][2] <= n'[x[1]]
             /\ x = l => inbox[x][a][2] < k
             /\ x # l => Follows(inbox[x][a], <<l, k>>) /\ Follows(<<l, k>>, inbox[x][a])
  <2>1. /\ inbox[x][a] \in Message /\ inbox[x][a][1] = x /\ inbox[x][a][2] \in Nat
        /\ inbox[x][a][2] <= n[x[1]]
    BY InboxFacts DEF Inv, StreamInv
  <2>2. inbox[x][a][2] <= n'[x[1]]
    BY <1>1, <1>3, <2>1
  <2>3. x[1] = c => inbox[x][a][2] < k
    BY <1>5, <2>1 DEF Attempted
  <2>4. ASSUME x # l PROVE Follows(inbox[x][a], <<l, k>>) /\ Follows(<<l, k>>, inbox[x][a])
    BY <1>1, <2>1, <2>3, <2>4 DEF Follows
  <2>. QED BY <1>1, <2>2, <2>3, <2>4
<1>8. ASSUME NEW x \in Conn, NEW a \in 1 .. Len(inbox'[x])
      PROVE  /\ inbox'[x][a][2] <= n'[x[1]]
             /\ \A m \in Stored' : Follows(m, inbox'[x][a])
             /\ \A b \in 1 .. Len(inbox'[x]) : a < b => inbox'[x][a][2] < inbox'[x][b][2]
             /\ \A y \in Conn \ {x} : \A b \in 1 .. Len(inbox'[y]) :
                   Follows(inbox'[x][a], inbox'[y][b])
  <2>1. CASE x = l
    <3>1. CASE a = Len(inbox[l]) + 1
      <4>1. inbox'[x][a] = <<l, k>>
        BY <1>2, <2>1, <3>1
      <4>2. \A b \in 1 .. Len(inbox'[x]) : ~(a < b)
        BY <1>2, <2>1, <3>1
      <4>3. k <= n'[x[1]]
        BY <1>1, <1>3, <2>1
      <4>. QED BY <1>2, <1>4, <1>6, <1>7, <2>1, <4>1, <4>2, <4>3
    <3>2. CASE a \in 1 .. Len(inbox[l])
      <4>1. inbox'[x][a] = inbox[x][a]
        BY <1>2, <2>1, <3>2
      <4>2. \A m \in Stored' : Follows(m, inbox'[x][a])
        BY <1>4, <2>1, <3>2, <4>1 DEF StreamInv
      <4>3. ASSUME NEW b \in 1 .. Len(inbox'[x]), a < b
            PROVE  inbox'[x][a][2] < inbox'[x][b][2]
        <5>1. CASE b = Len(inbox[l]) + 1
          BY <1>2, <1>7, <2>1, <3>2, <4>1, <5>1
        <5>2. CASE b \in 1 .. Len(inbox[l])
          BY <1>2, <2>1, <3>2, <4>1, <4>3, <5>2 DEF StreamInv
        <5>. QED BY <1>2, <2>1, <5>1, <5>2
      <4>4. \A y \in Conn \ {x} : \A b \in 1 .. Len(inbox'[y]) :
                Follows(inbox'[x][a], inbox'[y][b])
        BY <1>2, <2>1, <3>2, <4>1 DEF StreamInv
      <4>. QED BY <1>7, <2>1, <3>2, <4>1, <4>2, <4>3, <4>4
    <3>. QED BY <1>2, <2>1, <3>1, <3>2
  <2>2. CASE x # l
    <3>1. inbox'[x] = inbox[x] /\ a \in 1 .. Len(inbox[x])
      BY <1>2, <2>2
    <3>2. ASSUME NEW y \in Conn \ {x}, NEW b \in 1 .. Len(inbox'[y])
          PROVE  Follows(inbox'[x][a], inbox'[y][b])
      <4>1. CASE y = l /\ b = Len(inbox[l]) + 1
        BY <1>2, <1>7, <2>2, <3>1, <4>1
      <4>2. CASE ~(y = l /\ b = Len(inbox[l]) + 1)
        <5>1. b \in 1 .. Len(inbox[y]) /\ inbox'[y][b] = inbox[y][b]
          BY SMTT(30), <1>2, <4>2
        <5>. QED BY <3>1, <5>1 DEF StreamInv
      <4>. QED BY <4>1, <4>2
    <3>. QED BY <1>4, <1>7, <3>1, <3>2 DEF StreamInv
  <2>. QED BY <2>1, <2>2
<1>9. Pairwise(Held)'
  BY <1>4 DEF StreamInv, Pairwise, Follows
<1>. QED BY <1>4, <1>6, <1>8, <1>9 DEF StreamInv

\* WriteEntry takes the oldest unread message: it is later than what is stored and, on its
\* connection, earlier than what remains.
LEMMA AcceptedStream ==
    ASSUME Inv, Inv', StreamInv, NEW x \in Conn, Accepted(x)
    PROVE  StreamInv'
<1>. DEFINE h == Head(inbox[x])
<1>1. /\ TypeOK /\ TypeOK' /\ InboxInv /\ InboxInv'
      /\ inbox[x] # <<>> /\ inbox' = [inbox EXCEPT ![x] = Tail(inbox[x])]
      /\ Log!Accept(h) /\ n' = n
  BY DEF Inv, Accepted, Deals, clients
<1>2. /\ inbox[x] \in Seq(Message) /\ 1 \in 1 .. Len(inbox[x]) /\ h = inbox[x][1]
      /\ Len(inbox[x]) \in Nat
      /\ h \in Message /\ h[1] = x /\ h[2] \in Nat /\ h[2] <= n[x[1]]
  <2>1. inbox[x] \in Seq(Message) /\ 1 \in 1 .. Len(inbox[x]) /\ h = inbox[x][1]
        /\ Len(inbox[x]) \in Nat
    BY <1>1, EmptySeq, LenProperties DEF TypeOK
  <2>. QED BY <1>1, <2>1, InboxFacts DEF StreamInv
<1>3. Held' = Append(Held, h) /\ Stored' = Stored \cup {h}
  BY <1>1, <1>2, HeldSteps, StoredSteps
<1>4. Pairwise(Held)'
  <2>1. \A m \in Range(Held) : Follows(m, h)
    BY <1>1, <1>2, HeldSteps DEF StreamInv
  <2>2. Pairwise(Append(Held, h))
    BY <1>1, <1>2, <2>1, HeldSteps, PairwiseAppend DEF StreamInv
  <2>. QED BY <1>3, <2>2 DEF Pairwise, Follows
<1>5. \A y \in Conn : Shrinks(y)
  <2>1. \A y \in Conn \ {x} : inbox'[y] = inbox[y]
    BY <1>1 DEF TypeOK
  <2>2. inbox'[x] = Tail(inbox[x])
    BY <1>1 DEF TypeOK
  <2>. QED BY <1>1, <2>1, <2>2, ShrinkingInbox
<1>. HIDE DEF h
<1>6. ASSUME NEW y \in Conn, NEW a \in 1 .. Len(inbox'[y])
      PROVE  Follows(h, inbox'[y][a])
  <2>1. CASE y = x
    <3>1. /\ inbox'[x] = Tail(inbox[x]) /\ Len(inbox'[x]) = Len(inbox[x]) - 1
          /\ \A i \in 1 .. Len(inbox'[x]) : inbox'[x][i] = inbox[x][i + 1]
      BY <1>1, <1>2, HeadTailProperties DEF TypeOK
    <3>2. a + 1 \in 1 .. Len(inbox[x]) /\ 1 < a + 1 /\ inbox'[y][a] = inbox[x][a + 1]
      BY <1>2, <2>1, <3>1
    <3>3. h[2] < inbox'[y][a][2] /\ inbox'[y][a][2] \in Nat
      BY <1>1, <1>2, <3>2, InboxFacts DEF StreamInv
    <3>. QED BY <1>2, <3>3 DEF Follows
  <2>2. CASE y # x
    <3>1. inbox'[y] = inbox[y]
      BY <1>1, <2>2 DEF TypeOK
    <3>. QED BY <1>2, <2>2, <3>1 DEF StreamInv
  <2>. QED BY <2>1, <2>2
<1>7. Attempted(h)
  BY <1>2 DEF Attempted
<1>8. \A c \in Clients : n[c] <= n'[c]
  BY <1>1, ServerAssumption DEF TypeOK
<1>. QED BY <1>1, <1>3, <1>4, <1>5, <1>6, <1>7, <1>8, NothingSent

\* main's own messages come from no connection.
LEMMA SayStream ==
    ASSUME Inv, Inv', StreamInv, NEW which \in {1, 2}, NEW place, Say(which, place),
           main # "down"
    PROVE  StreamInv'
<1>. DEFINE h == <<<<"main", boots>>, which>>
<1>1. /\ TypeOK /\ TypeOK' /\ InboxInv /\ InboxInv' /\ Log!Accept(h)
      /\ inbox' = inbox /\ n' = n /\ h \in Message /\ h[1] \notin Conn
  <2>1. h \in Message
    BY ConnFacts DEF Inv, MainInv
  <2>. QED BY <2>1, MessageFacts DEF Inv, Say, clients
<1>. HIDE DEF h
<1>2. Held' = Append(Held, h) /\ Stored' = Stored \cup {h}
  BY <1>1, HeldSteps, StoredSteps
<1>3. Attempted(h) /\ \A m : Follows(h, m) /\ Follows(m, h)
  BY <1>1 DEF Attempted, Follows
<1>4. Pairwise(Held)'
  <2>1. Pairwise(Append(Held, h))
    BY <1>1, <1>3, HeldSteps, PairwiseAppend DEF StreamInv
  <2>. QED BY <1>2, <2>1 DEF Pairwise, Follows
<1>5. \A y \in Conn : Shrinks(y)
  BY <1>1, ShrinkingInbox
<1>6. \A c \in Clients : n[c] <= n'[c]
  BY <1>1, ServerAssumption DEF TypeOK
<1>. QED BY <1>1, <1>2, <1>3, <1>4, <1>5, <1>6, NothingSent

\* Entries that the write loop loses, and those that a kill takes, leave no trace.
LEMMA LossKeepsOrder ==
    ASSUME TypeOK, Pairwise(Held), Log!Lose \/ (committed' = committed /\ backlog' = <<>>)
    PROVE  Pairwise(Held)' /\ Stored' \subseteq Stored
<1>. /\ committed \in Seq(Message) /\ backlog \in Seq(Message)
     /\ Stored = Range(committed) \cup Range(backlog)
  BY RangeConcatenation DEF TypeOK, Log!TypeOK, Stored
<1>1. CASE Log!Lose
  <2>1. PICK s \in Seq(Message), u \in Seq(Message), e \in Message :
            Held = s \o (<<e>> \o u) /\ Held' = s \o u
    BY <1>1, HeldSteps
  <2>2. Pairwise(s \o u)
    BY <2>1, PairwiseWithout
  <2>3. Stored' \subseteq Stored
    <3>1. /\ Range(backlog) = {Head(backlog)} \cup Range(backlog')
          /\ committed' = committed /\ backlog' \in Seq(Message)
      BY <1>1, RangeHeadTail DEF Log!Lose
    <3>2. Stored' = Range(committed') \cup Range(backlog')
      BY <3>1, RangeConcatenation DEF Stored
    <3>. QED BY <3>1, <3>2
  <2>4. Pairwise(Held)'
    BY <2>1, <2>2, PairwiseIs
  <2>. QED BY <2>3, <2>4
<1>2. CASE committed' = committed /\ backlog' = <<>>
  <2>1. Held' = committed
    BY <1>2, HeldSteps
  <2>2. Pairwise(committed)
    BY PairwisePrefix DEF Held
  <2>3. Stored' \subseteq Stored
    BY <1>2, ConcatEmptySeq DEF Stored
  <2>. QED BY <2>1, <2>2, <2>3 DEF Pairwise, Follows
<1>. QED BY <1>1, <1>2

\* Every step keeps the streams' order.
LEMMA StreamStep ==
    ASSUME Inv, Inv', StreamInv, [Next]_vars
    PROVE  StreamInv'
<1>. /\ TypeOK /\ TypeOK' /\ InboxInv /\ InboxInv' /\ n \in [Clients -> Nat]
     /\ inbox \in [Conn -> Seq(Message)]
  BY ServerAssumption DEF Inv, TypeOK
<1>1. ASSUME Pairwise(Held)', Stored' \subseteq Stored,
             n' = n \/ \E c \in Clients : n' = [n EXCEPT ![c] = n[c] + 1],
             \/ inbox' = inbox
             \/ inbox' = [x \in Conn |-> <<>>]
             \/ \E x \in Conn : inbox' = [inbox EXCEPT ![x] = <<>>]
             \/ \E x \in Conn : inbox[x] # <<>> /\ inbox' = [inbox EXCEPT ![x] = Tail(@)]
      PROVE  StreamInv'
  <2>1. \A c \in Clients : n[c] <= n'[c]
    BY <1>1
  <2>2. \A x \in Conn : Shrinks(x)
    BY <1>1, ShrinkingInbox
  <2>. QED BY <1>1, <2>1, <2>2, NothingSent
<1>2. ASSUME UNCHANGED log PROVE Pairwise(Held)' /\ Stored' \subseteq Stored
  BY <1>2 DEF StreamInv, Held, Stored, log, Pairwise, Follows
<1>3. ASSUME NEW c \in Clients, Client(c) PROVE StreamInv'
  <2>1. CASE Send(c) \/ SendFails(c)
    <3>1. CanSend(c) /\ n' = [n EXCEPT ![c] = n[c] + 1] /\ UNCHANGED log
          /\ (Arrives(c) \/ UNCHANGED inbox)
      BY <2>1 DEF Send, SendFails, SendFailsTo
    <3>. QED BY <1>1, <1>2, <3>1, ArrivesStream
  <2>2. CASE Dial(c) \/ DialFails(c) \/ Answer(c)
    BY <1>1, <1>2, <2>2 DEF Dial, DialFails, Answer
  <2>. QED BY <1>3, <2>1, <2>2 DEF Client
<1>4. ASSUME NEW x \in Conn, DecodeFails(x) \/ Refused(x) \/ ReadFails(x) PROVE StreamInv'
  BY <1>1, <1>2, <1>4 DEF DecodeFails, Refused, RefusedWith, ReadFails, Deals, clients
<1>5. CASE Commit
  <2>1. Held' = Held /\ n' = n /\ inbox' = inbox
    BY <1>5, HeldSteps DEF Commit, clients
  <2>2. Stored' = Stored
    BY <2>1 DEF Stored, Held
  <2>3. Pairwise(Held)'
    BY <2>1 DEF StreamInv, Pairwise, Follows
  <2>. QED BY <1>1, <2>1, <2>2, <2>3
<1>6. CASE Lose \/ Exit \/ Kill
  <2>1. Pairwise(Held)' /\ Stored' \subseteq Stored
    BY <1>6, LossKeepsOrder DEF Lose, Exit, Kill, ProcessEnds, StreamInv
  <2>. QED BY <1>1, <1>6, <2>1 DEF Lose, Exit, Kill, ProcessEnds, clients
<1>7. CASE SayListening \/ SayTimedOut
  BY <1>7, SayStream DEF SayListening, SayTimedOut
<1>8. CASE Boot \/ Signal \/ ShutdownReturns \/ ShutdownTimesOut \/ Close \/ UNCHANGED vars
  <2>1. UNCHANGED <<committed, backlog, n, inbox>>
    BY <1>8 DEF Boot, Signal, ShutdownReturns, ShutdownTimesOut, Close, MainGoes, vars, log,
                clients, Log!Shut, Log!Finish
  <2>2. Pairwise(Held)' /\ Stored' \subseteq Stored
    BY <2>1 DEF StreamInv, Held, Stored, Pairwise, Follows
  <2>. QED BY <1>1, <2>1, <2>2
<1>. QED
  BY <1>3, <1>4, <1>5, <1>6, <1>7, <1>8, AcceptedStream DEF Next, Handler, WindDown

\* Nothing is stored, queued or under way.
LEMMA InitStream == Init => StreamInv
<1>. SUFFICES ASSUME Init PROVE StreamInv
  OBVIOUS
<1>1. committed = <<>> /\ backlog = <<>> /\ \A x \in Conn : inbox[x] = <<>>
  BY DEF Init, Log!Init
<1>2. Held = <<>>
  BY <1>1, EmptySeq DEF Held
<1>3. Stored = {} /\ Len(Held) = 0
  <2>1. TypeOK
    BY Initially DEF Inv
  <2>2. Stored = Range(committed) \cup Range(backlog)
    BY <2>1, RangeConcatenation DEF Stored, TypeOK, Log!TypeOK
  <2>. QED BY <1>1, <1>2, <2>2, EmptySeq DEF Range
<1>. QED BY <1>1, <1>3 DEF StreamInv, Pairwise

\* No entry is stored twice, and what one WebSocket connection carries is stored in the
\* order in which it was sent: over any number of connections and lives of the process, of
\* kills, failed writes, and attempts whose outcome their client never learnt.
THEOREM Streams == Spec => []StreamIntact
<1>1. Inv /\ StreamInv /\ Inv' /\ [Next]_vars => StreamInv'
  BY StreamStep
<1>2. StreamInv => StreamIntact
  BY DEF StreamInv, StreamIntact, Pairwise, Follows, Held
<1>. QED BY <1>1, <1>2, InitStream, Invariance, PTL DEF Spec

=============================================================================
