------------------------------- MODULE Server -------------------------------
(***************************************************************************)
(* The server process (cmd/server/main.go), its three push handlers        *)
(* (ingest_handlers.go) and clients that push entries, as the demo clients *)
(* do: what becomes of an entry when connections break, and when the       *)
(* process is told to stop, is killed, or is started again.                *)
(*                                                                         *)
(* main waits in srv.Shutdown for the running POST /ingest handlers, ten   *)
(* seconds at most, and then closes the Manager.  Shutdown knows nothing   *)
(* of hijacked connections: the WebSockets, and those the h2c handler      *)
(* serves gRPC on.  Their handlers run until the process is gone, like the *)
(* ingestion goroutines of pull sources, which are the same in this        *)
(* respect.  The Manager is the AsyncLog it implements.                    *)
(***************************************************************************)
EXTENDS Integers, SequencesExt

CONSTANTS
    Clients,
    Protocol,       \* of each client: "rest", "grpc" or "ws"
    Plans,          \* bound: how many entries each client tries to push; any one of these
    MaxTries,       \* bound: the most any of them does
    MaxBoots,       \* bound: starts of the process
    QueueCap        \* cap(m.queue), 1024 in the code; main keeps the policy Block

ASSUME ServerAssumption ==
    /\ "main" \notin Clients
    /\ Protocol \in [Clients -> {"rest", "grpc", "ws"}]
    /\ MaxTries \in Nat /\ Plans \subseteq [Clients -> 0 .. MaxTries]
    /\ MaxBoots \in Nat /\ QueueCap \in Nat

VARIABLES
    main,           \* where main is; "down" when there is no process
    boots,          \* starts of the process so far
    timedOut,       \* whether this process's Shutdown returned an error
    backlog,        \* AsyncLog: the Manager of the running process
    committed,      \*   (the store outlives the process)
    phase,
    at,             \* the handler of each connection
    inbox,          \* messages that have arrived on it and were not dealt with
    n,              \* how many entries each client has tried to push
    dials,          \* connections each client has made
    linked,         \* whether it is using the last of them
    h2,             \* whether a gRPC client has an HTTP/2 connection to this process
    acked,          \* messages whose client was told that they are accepted
    casualties      \* history: of these, or about to be, but lost by a failed write or a kill

process == <<main, boots, timedOut>>
log     == <<backlog, committed, phase>>
clients == <<n, dials, linked, h2>>
past    == <<acked, casualties>>
vars    == <<process, log, at, inbox, clients, past>>

\* A connection is a client and a number: a client makes a new one only after a failed
\* attempt, or for each attempt.  For REST it is a request, for gRPC a stream of h2.  A
\* message is a connection and the number of the attempt.
Conn    == Clients \X (1 .. MaxTries)
Message == (Conn \X (1 .. MaxTries)) \cup (({"main"} \X (1 .. MaxBoots)) \X {1, 2})

Log == INSTANCE AsyncLog WITH Entry <- Message

\* The connection a client uses, and the message it is about to send on it.
Link(c)  == <<c, dials[c]>>
Entry(c) == <<Link(c), n[c] + 1>>

\* The messages that are answered: a WebSocket client is never told.
Answered(ms) == {m \in ms : m[1] \in Conn /\ Protocol[m[1][1]] # "ws"}

\* POST /ingest: an ordinary HTTP/1.1 request, the only kind Shutdown waits for.
Tracked(x)  == Protocol[x[1]] = "rest" /\ at[x] = "running"
NoneTracked == \A x \in Conn : ~Tracked(x)

RoomForAll == TRUE

\* A send to m.queue does not block.  The backlog is what is in the queue and what the
\* write loop has received from it and not yet written: with Len(backlog) = QueueCap either
\* a slot of the queue is free, or the loop is about to receive and so to free one.
Room == Len(backlog) <= QueueCap

Goto(x, place) == at' = [at EXCEPT ![x] = place]

TypeOK ==
    /\ main \in {"down", "starting", "serving", "shutdown", "reporting", "closing"}
    /\ boots \in 0 .. MaxBoots
    /\ timedOut \in BOOLEAN
    /\ Log!TypeOK /\ Len(backlog) <= QueueCap + 1
    /\ at \in [Conn -> {"none", "running", "ok", "gone"}]
    /\ inbox \in [Conn -> Seq(Message)]
    /\ n \in [Clients -> 0 .. MaxTries]
    /\ dials \in [Clients -> 0 .. MaxTries]
    /\ linked \in [Clients -> BOOLEAN]
    /\ h2 \in [Clients -> BOOLEAN]
    /\ acked \subseteq Message
    /\ casualties \subseteq Message
    /\ \A c \in Clients : h2[c] => main # "down" /\ Protocol[c] = "grpc"
    /\ main = "down" => backlog = <<>> /\ \A x \in Conn : at[x] # "running"

Init ==
    /\ main = "down" /\ boots = 0 /\ timedOut = FALSE
    /\ Log!Init
    /\ at = [x \in Conn |-> "none"]
    /\ inbox = [x \in Conn |-> <<>>]
    /\ n = [c \in Clients |-> 0]
    /\ dials = [c \in Clients |-> 0]
    /\ linked = [c \in Clients |-> FALSE]
    /\ h2 = [c \in Clients |-> FALSE]
    /\ acked = {} /\ casualties = {}

-----------------------------------------------------------------------------
(* The clients.  An attempt that fails is logged and not repeated; only    *)
(* the WebSocket client dials again before the next one, until it gets     *)
(* through (its pauses are left out).                                      *)

\* The bound on what clients do.
MayTry(c, made) ==
    \E p \in Plans :
        /\ \A d \in Clients : n[d] <= p[d] /\ dials[d] <= p[d]
        /\ n[c] < p[c] /\ made < p[c]

\* The listener is open until Shutdown.  A gRPC call needs no new connection: Shutdown does
\* not touch its client's, so calls can begin for as long as the process lives.
Reachable(c) == main \in {"starting", "serving"} \/ h2[c]

Dial(c) ==
    /\ Reachable(c)
    /\ ~linked[c]
    /\ MayTry(c, dials[c])
    /\ dials' = [dials EXCEPT ![c] = @ + 1]
    /\ linked' = [linked EXCEPT ![c] = TRUE]
    /\ h2' = [h2 EXCEPT ![c] = Protocol[c] = "grpc"]
    /\ Goto(Link(c)', "running")
    /\ UNCHANGED <<process, log, inbox, n, past>>

\* Possible at any time, also because h2's connection turns out to be broken.
DialFails(c) ==
    /\ ~linked[c]
    /\ MayTry(c, dials[c])
    /\ Protocol[c] # "ws"
    /\ n' = [n EXCEPT ![c] = @ + 1]
    /\ dials' = [dials EXCEPT ![c] = @ + 1]
    /\ UNCHANGED <<process, log, at, inbox, linked, h2, past>>

\* A REST or gRPC client sends one entry per request and waits for the answer.
CanSend(c) ==
    /\ linked[c]
    /\ IF Protocol[c] = "ws" THEN MayTry(c, n[c]) ELSE n[c] < dials[c]

\* The client's next entry reaches the server's end of the connection.
Arrives(c) ==
    /\ at[Link(c)] = "running"
    /\ inbox' = [inbox EXCEPT ![Link(c)] = Append(@, Entry(c))]

\* A WebSocket write succeeds even if the other end is gone and the client not aware of it.
Send(c) ==
    /\ CanSend(c)
    /\ \/ Arrives(c)
       \/ Protocol[c] = "ws" /\ at[Link(c)] = "gone" /\ UNCHANGED inbox
    /\ n' = [n EXCEPT ![c] = @ + 1]
    /\ UNCHANGED <<process, log, at, dials, linked, h2, past>>

\* The client sees an error, whether or not the entry got through, and hangs up.
SendFailsTo(c, next) ==
    /\ CanSend(c)
    /\ Arrives(c) \/ UNCHANGED inbox
    /\ n' = [n EXCEPT ![c] = next]
    /\ linked' = [linked EXCEPT ![c] = FALSE]
    /\ UNCHANGED <<process, log, at, dials, h2, past>>

SendAgain(c) == SendFailsTo(c, n[c])

SendFails(c) == SendFailsTo(c, n[c] + 1)

\* The answer to a REST or gRPC request arrives, or the connection breaks first.
Answer(c) ==
    /\ linked[c]
    /\ Protocol[c] # "ws" /\ n[c] = dials[c]
    /\ \/ UNCHANGED acked
       \/ at[Link(c)] = "ok" /\ acked' = acked \cup {<<Link(c), n[c]>>}
    /\ linked' = [linked EXCEPT ![c] = FALSE]
    /\ Goto(Link(c), IF at[Link(c)] = "ok" THEN "gone" ELSE at[Link(c)])
    /\ UNCHANGED <<process, log, inbox, n, dials, h2, casualties>>

Client(c) == Dial(c) \/ DialFails(c) \/ Send(c) \/ SendFails(c) \/ Answer(c)

-----------------------------------------------------------------------------
(* The handlers: handleIngestREST, IngestService.Ingest, handleIngestWS.   *)

\* The handler is done with the first message in its inbox.  A WebSocket's reads on; the
\* others return, with an answer for the client if that has not hung up.
Deals(x, result) ==
    /\ at[x] = "running"
    /\ inbox[x] # <<>>
    /\ inbox' = [inbox EXCEPT ![x] = Tail(@)]
    /\ Goto(x, IF Protocol[x[1]] = "ws" THEN "running"
               ELSE IF linked[x[1]] /\ x = Link(x[1]) THEN result ELSE "gone")
    /\ UNCHANGED <<process, clients, past>>

\* A message that does not decode is answered with an error, or dropped.
DecodeFails(x) == Deals(x, "gone") /\ UNCHANGED log

\* WriteEntry returns nil; until there is room in the queue it does not return.
Accepted(x) == Deals(x, "ok") /\ Room /\ Log!Accept(Head(inbox[x]))

\* WriteEntry returns ErrClosed: status 500, CodeInternal, or nobody is told.
RefusedWith(x, result) == phase # "open" /\ Deals(x, result) /\ UNCHANGED log

RefusedUnnoticed(x) == RefusedWith(x, "ok")

Refused(x) == RefusedWith(x, "gone")

\* The connection is closed or broken: what has not been read is lost.
ReadFails(x) ==
    /\ at[x] = "running"
    /\ inbox' = [inbox EXCEPT ![x] = <<>>]
    /\ Goto(x, "gone")
    /\ UNCHANGED <<process, log, clients, past>>

Handler(x) == DecodeFails(x) \/ Accepted(x) \/ Refused(x) \/ ReadFails(x)

-----------------------------------------------------------------------------
(* The Manager's write loop.                                               *)

Commit == Log!Commit /\ UNCHANGED <<process, at, inbox, clients, past>>

Lose ==
    /\ Log!Lose
    /\ casualties' = casualties \cup Answered({Head(backlog)})
    /\ UNCHANGED <<process, at, inbox, clients, acked>>

-----------------------------------------------------------------------------
(* main.                                                                   *)

\* Open, NewManager and the registry, up to the start of ListenAndServe's goroutine.
Boot ==
    /\ main = "down"
    /\ boots < MaxBoots
    /\ main' = "starting"
    /\ boots' = boots + 1
    /\ timedOut' = FALSE
    /\ phase' = "open"
    /\ UNCHANGED <<backlog, committed, at, inbox, clients, past>>

\* A call of manager.WriteLog by main itself, on the way to place.
Say(which, place) ==
    /\ Room
    /\ Log!Accept(<<<<"main", boots>>, which>>)
    /\ main' = place
    /\ UNCHANGED <<boots, timedOut, at, inbox, clients, past>>

SayListening == main = "starting" /\ Say(1, "serving")

MainGoes(from, to) ==
    /\ main = from
    /\ main' = to
    /\ UNCHANGED <<boots, log, at, inbox, clients, past>>

SignalSkipsShutdown == MainGoes("serving", "closing") /\ UNCHANGED timedOut

Signal == MainGoes("serving", "shutdown") /\ UNCHANGED timedOut

ShutdownReturns == NoneTracked /\ MainGoes("shutdown", "closing") /\ UNCHANGED timedOut

NoTimeout == FALSE /\ UNCHANGED vars

ShutdownTimesOut == ~NoneTracked /\ MainGoes("shutdown", "reporting") /\ timedOut' = TRUE

SayTimedOut == main = "reporting" /\ Say(2, "closing")

\* The deferred manager.Close().
Close ==
    /\ main = "closing"
    /\ Log!Shut \/ Log!Finish
    /\ UNCHANGED <<process, at, inbox, clients, past>>

\* Whatever is still running ends with the process.
ProcessEnds ==
    /\ main' = "down"
    /\ phase' = "closed"
    /\ backlog' = <<>>
    /\ at' = [x \in Conn |-> IF at[x] = "running" THEN "gone" ELSE at[x]]
    /\ inbox' = [x \in Conn |-> <<>>]
    /\ h2' = [c \in Clients |-> FALSE]
    /\ UNCHANGED <<boots, timedOut, committed, n, dials, linked, acked>>

Exit ==
    /\ main = "closing"
    /\ phase = "closed"
    /\ ProcessEnds
    /\ UNCHANGED casualties

\* A kill, a SIGTERM before NotifyContext, a log.Fatalf: no deferred call runs.
Kill ==
    /\ main # "down"
    /\ ProcessEnds
    /\ casualties' = casualties \cup Answered(Range(backlog))

\* The rest of main once it has been told to stop.
WindDown == ShutdownReturns \/ ShutdownTimesOut \/ SayTimedOut \/ Close \/ Exit

Next ==
    \/ \E c \in Clients : Client(c)
    \/ \E x \in Conn : Handler(x)
    \/ Commit \/ Lose
    \/ Boot \/ SayListening \/ Signal \/ WindDown \/ Kill

(***************************************************************************)
(* main goes on, with the ten seconds over if nothing else, and so does    *)
(* the write loop.  Clients, handlers and networks owe nobody anything.    *)
(***************************************************************************)
Spec == Init /\ [][Next]_vars /\ WF_vars(WindDown) /\ WF_vars(Commit \/ Lose)

-----------------------------------------------------------------------------

\* An entry whose client was told that it is accepted has been given to the store by a Write
\* that returned nil, or is on its way there, across every orderly stop: only a killed
\* process or its own failed write loses it.  (What a store makes of a Write is FileStore's.)
AckedIsStored == acked \subseteq Range(committed \o backlog) \cup casualties

\* No entry is stored twice, whatever its client made of an error, and the entries of one
\* WebSocket connection are stored in the order in which they were sent.
StreamIntact ==
    LET s == committed \o backlog
    IN  \A i, j \in 1 .. Len(s) :
            i < j /\ {s[i][1], s[j][1]} \subseteq Conn /\ s[i][1][1] = s[j][1][1] =>
                /\ s[i][2] # s[j][2]
                /\ s[i][1] = s[j][1] => s[i][2] < s[j][2]

\* The Manager is not closed under a POST /ingest that the server has begun to handle, and
\* so does not refuse it, unless Shutdown gave up waiting for it (main.go:94).
TrackedNotRefused == \A x \in Conn : Tracked(x) /\ phase # "open" => timedOut

\* Once told to stop the process ends, though clients stall in the middle of a request,
\* streams go on and the queue is full.
ShutdownEnds == main = "shutdown" ~> main = "down"
=============================================================================
