------------------------------ MODULE LiveTail ------------------------------
(***************************************************************************)
(* The live tail, handleWatchEntries (cmd/server/handlers.go), beside the  *)
(* manager's write loop.  For each WebSocket client one goroutine reads    *)
(* the stored entries (ReadLogs), sends them, registers a handler that     *)
(* puts new entries on a channel of 64, and then forwards that channel.    *)
(* The loop writes an entry, takes handlersMu's read lock and calls the    *)
(* handlers one by one; what one does cannot be seen by another, so their  *)
(* order is left open.  RegisterLogHandler and unregister wait until the   *)
(* loop has let go of the lock.                                            *)
(***************************************************************************)
EXTENDS Levels, Sequences, FiniteSets, SequencesExt, Subsequences

CONSTANTS
    Clients,        \* WebSocket clients
    EntryLevels,    \* levels entries may carry, WriteEntry's unnormalised ones included
    Queries,        \* what the clients may ask for: the level parameter of each
    MaxEntries,     \* bound: entries written while the model runs
    maxEntries,     \* handlers.go:42, the cap on the backlog
    LiveCap         \* capacity of a client's channel, 64 in the code

ASSUME LiveTailAssumption ==
    /\ EntryLevels \subseteq Level /\ Queries \subseteq [Clients -> Level]
    /\ MaxEntries \in Nat /\ maxEntries \in Nat \ {0} /\ LiveCap \in Nat

VARIABLES
    store,          \* the entries the backend holds, oldest first
    loop,           \* the write loop: "write", "rlock" or "fanout"
    pending,        \* the entry written but not yet fanned out, <<>> for none
    todo,           \* the clients whose handlers are still to be called for it
    query,          \* each client's level parameter
    at,             \* each client's handler goroutine
    online,         \* whether the client is there
    backlog,        \* what is left of its backlog to send
    registered,     \* whether its LogHandler is registered
    live,           \* its channel
    sent,           \* what has been sent to it, in order
    snap,           \* history: number of entries stored when the backlog was read
    since,          \* history: number of entries fanned out before its registration
    lost            \* history: entries its full channel dropped

loopVars == <<store, loop, pending, todo>>
vars == <<loopVars, query, at, online, backlog, registered, live, sent, snap, since, lost>>

\* contains and source_id are left out: both filters below treat them alike.
Entry == [id : 1 .. MaxEntries, level : EntryLevels]

\* What ReadLogs returns: it parses the level once more (manager.go:160).
InBacklog(c, e) == LevelAtLeast(e.level, parseLevel(ToUpper(query[c])))

\* The live filter takes the upper-cased parameter as it is.
InLive(c, e) == LevelAtLeast(e.level, ToUpper(query[c]))

\* entries[len(entries)-maxEntries:]
MostRecent(s) == IF Len(s) > maxEntries THEN SubSeq(s, Len(s) - maxEntries + 1, Len(s)) ELSE s

FannedOut == Len(store) - Len(pending)

TypeOK ==
    /\ store \in Seq(Entry) /\ Len(store) <= MaxEntries
    /\ loop \in {"write", "rlock", "fanout"}
    /\ pending \in Seq(Entry) /\ Len(pending) = IF loop = "write" THEN 0 ELSE 1
    /\ todo \subseteq {c \in Clients : registered[c] /\ loop = "fanout"}
    /\ query \in Queries
    /\ at \in [Clients -> {"accept", "read", "backlog", "register", "live", "leaving", "gone"}]
    /\ online \in [Clients -> BOOLEAN]
    /\ backlog \in [Clients -> Seq(Entry)]
    /\ registered \in [Clients -> BOOLEAN]
    /\ live \in [Clients -> Seq(Entry)]
    /\ \A c \in Clients : Len(live[c]) <= LiveCap
    /\ sent \in [Clients -> Seq(Entry)]
    /\ snap \in [Clients -> 0 .. MaxEntries]
    /\ since \in [Clients -> 0 .. MaxEntries]
    /\ lost \in [Clients -> SUBSET Entry]

Init ==
    /\ store = <<>>
    /\ loop = "write"
    /\ pending = <<>>
    /\ todo = {}
    /\ query \in Queries
    /\ at = [c \in Clients |-> "accept"]
    /\ online = [c \in Clients |-> TRUE]
    /\ backlog = [c \in Clients |-> <<>>]
    /\ registered = [c \in Clients |-> FALSE]
    /\ live = [c \in Clients |-> <<>>]
    /\ sent = [c \in Clients |-> <<>>]
    /\ snap = [c \in Clients |-> 0]
    /\ since = [c \in Clients |-> 0]
    /\ lost = [c \in Clients |-> {}]

-----------------------------------------------------------------------------
(* The manager's write loop.                                               *)

Write ==
    /\ loop = "write"
    /\ Len(store) < MaxEntries
    /\ \E e \in [id : {Len(store) + 1}, level : EntryLevels] :
          /\ store' = Append(store, e)
          /\ pending' = <<e>>
    /\ loop' = "rlock"
    /\ UNCHANGED <<todo, query, at, online, backlog, registered, live, sent, snap, since, lost>>

FanOut ==
    /\ loop = "rlock"
    /\ todo' = {c \in Clients : registered[c]}
    /\ loop' = "fanout"
    /\ UNCHANGED <<store, pending, query, at, online, backlog, registered, live, sent, snap,
                   since, lost>>

HasRoom(c) == Len(live[c]) < LiveCap

\* The handler filters the entry; one that passes goes on the channel if there is room.
Offer(c, room) ==
    LET passes == InLive(c, pending[1])
    IN  /\ c \in todo
        /\ live' = IF passes /\ room THEN [live EXCEPT ![c] = @ \o pending] ELSE live
        /\ lost' = IF passes /\ ~room THEN [lost EXCEPT ![c] = @ \cup {pending[1]}] ELSE lost
        /\ todo' = todo \ {c}
        /\ UNCHANGED <<store, loop, pending, query, at, online, backlog, registered, sent, snap,
                       since>>

HandleUncapped(c) == Offer(c, TRUE)

HandleBlocking(c) == c \in todo /\ (HasRoom(c) \/ ~InLive(c, pending[1])) /\ Offer(c, TRUE)

\* Otherwise it is dropped: the handler never waits.
Handle(c) == Offer(c, HasRoom(c))

FanOutDone ==
    /\ loop = "fanout"
    /\ todo = {}
    /\ pending' = <<>>
    /\ loop' = "write"
    /\ UNCHANGED <<store, todo, query, at, online, backlog, registered, live, sent, snap, since,
                   lost>>

Loop == FanOut \/ (\E c \in Clients : Handle(c)) \/ FanOutDone

-----------------------------------------------------------------------------
(* handleWatchEntries.                                                     *)

Goto(c, place) == at' = [at EXCEPT ![c] = place]

Upgrade(c) ==
    /\ at[c] = "accept"
    /\ Goto(c, "read")
    /\ UNCHANGED <<loopVars, query, online, backlog, live, sent, snap, since, lost>>

AcceptRegisters(c) == Upgrade(c) /\ registered' = [registered EXCEPT ![c] = TRUE]

Accept(c) == Upgrade(c) /\ UNCHANGED registered

\* The upgrade fails: no WebSocket handshake.
AcceptFails(c) ==
    /\ at[c] = "accept"
    /\ Goto(c, "gone")
    /\ UNCHANGED <<loopVars, query, online, backlog, registered, live, sent, snap, since, lost>>

ReadLogs(c) ==
    /\ at[c] = "read"
    /\ backlog' = [backlog EXCEPT ![c] =
                      MostRecent(SubSeqAt(store, {i \in DOMAIN store : InBacklog(c, store[i])}))]
    /\ snap' = [snap EXCEPT ![c] = Len(store)]
    /\ Goto(c, "backlog")
    /\ UNCHANGED <<loopVars, query, online, registered, live, sent, since, lost>>

\* The error is swallowed and the client starts without a backlog.
ReadLogsFails(c) ==
    /\ at[c] = "read"
    /\ snap' = [snap EXCEPT ![c] = Len(store)]
    /\ Goto(c, "backlog")
    /\ UNCHANGED <<loopVars, query, online, backlog, registered, live, sent, since, lost>>

SendBacklog(c) ==
    /\ at[c] = "backlog"
    /\ backlog[c] # <<>>
    /\ online[c]
    /\ sent' = [sent EXCEPT ![c] = Append(@, Head(backlog[c]))]
    /\ backlog' = [backlog EXCEPT ![c] = Tail(@)]
    /\ UNCHANGED <<loopVars, query, at, online, registered, live, snap, since, lost>>

Register(c) ==
    /\ at[c] = "backlog"
    /\ backlog[c] = <<>>
    /\ loop # "fanout"
    /\ registered' = [registered EXCEPT ![c] = TRUE]
    /\ since' = [since EXCEPT ![c] = FannedOut]
    /\ Goto(c, "live")
    /\ UNCHANGED <<loopVars, query, online, backlog, live, sent, snap, lost>>

\* The channel's oldest entry is taken off, and out has been sent.
TakeLive(c, out) ==
    /\ at[c] = "live"
    /\ live[c] # <<>>
    /\ sent' = [sent EXCEPT ![c] = @ \o out]
    /\ live' = [live EXCEPT ![c] = Tail(@)]
    /\ UNCHANGED <<loopVars, query, at, online, backlog, registered, snap, since, lost>>

ForwardGoesOn(c) == TakeLive(c, IF online[c] THEN SubSeq(live[c], 1, 1) ELSE <<>>)

Forward(c) == online[c] /\ TakeLive(c, SubSeq(live[c], 1, 1))

LeaveFor(c, place) ==
    /\ \/ at[c] = "backlog" /\ backlog[c] # <<>> /\ Goto(c, "gone")
       \/ at[c] = "live" /\ (~online[c] \/ live[c] # <<>>) /\ Goto(c, place)
    /\ UNCHANGED <<loopVars, query, online, backlog, registered, live, sent, snap, since, lost>>

LeaveRegistered(c) == LeaveFor(c, "gone")

\* A send fails: the client is gone, or five seconds went by.  Or ctx is done.
Leave(c) == LeaveFor(c, "leaving")

\* The deferred unregister.
Unregister(c) ==
    /\ at[c] = "leaving"
    /\ loop # "fanout"
    /\ registered' = [registered EXCEPT ![c] = FALSE]
    /\ Goto(c, "gone")
    /\ UNCHANGED <<loopVars, query, online, backlog, live, sent, snap, since, lost>>

Serve(c) ==
    \/ Accept(c) \/ AcceptFails(c) \/ ReadLogs(c) \/ ReadLogsFails(c) \/ SendBacklog(c)
    \/ Register(c) \/ Forward(c) \/ Leave(c) \/ Unregister(c)

\* The client closes the connection or drops out of reach.
Disconnect(c) ==
    /\ online[c]
    /\ online' = [online EXCEPT ![c] = FALSE]
    /\ UNCHANGED <<loopVars, query, at, backlog, registered, live, sent, snap, since, lost>>

Next ==
    \/ Write \/ Loop
    \/ \E c \in Clients : Serve(c) \/ Disconnect(c)

SafeSpec == Init /\ [][Next]_vars

(***************************************************************************)
(* The write loop runs on, and so does each handler goroutine: a send ends *)
(* within its five seconds, one way or the other, and handlersMu lets a    *)
(* waiting Lock in once a fan-out is over.  No client has to leave, and    *)
(* nobody has to write.                                                    *)
(***************************************************************************)
Spec == SafeSpec /\ WF_vars(Loop) /\ \A c \in Clients : WF_vars(Serve(c))

-----------------------------------------------------------------------------

\* What the live handler lets through of entries first .. last.
Passing(c, first, last) ==
    {e \in Range(store) : e.id \in first .. last /\ InLive(c, e)}

\* From its registration on a connected client loses nothing in silence: each entry fanned
\* out since then that its handler lets through has been sent, is on its channel, or was
\* dropped because the channel was full (handlers.go:123-155).
CompleteSinceRegistration ==
    \A c \in Clients : registered[c] =>
        Passing(c, since[c] + 1, FannedOut)
            \subseteq Range(sent[c]) \cup Range(live[c]) \cup lost[c]

\* A client sees entries in the order they were written; the one entry that may come
\* twice is the one being fanned out as the backlog is read and the handler registered.
OrderedAtMostOneRepeat ==
    \A c \in Clients :
        LET seen == sent[c] \o live[c]
        IN  /\ \A i, j \in 1 .. Len(seen) : i < j => seen[i].id <= seen[j].id
            /\ Cardinality({i \in 2 .. Len(seen) : seen[i - 1].id = seen[i].id}) <= 1

\* The write loop gets through every fan-out whatever the clients do, one that is stuck
\* and one that waits to unregister included (handlers.go:136, "must not block the
\* shared write loop").
LoopNeverStuck == loop = "rlock" ~> loop = "write"

\* A client that has gone is noticed, even one that nothing is sent to, and its handler
\* goes with it (manager.go:175-178: "must call it on disconnect, or the handler ... leaks").
DepartureNoticed ==
    \A c \in Clients : ~online[c] ~> at[c] = "gone" /\ ~registered[c]

\* A connected client is sent every entry written since its backlog was read, unless
\* its channel was full (handlers.go:79, "pushes every new entry as it's written").
NoEntryMissed ==
    \A c \in Clients : registered[c] =>
        Passing(c, snap[c] + 1, FannedOut)
            \subseteq Range(sent[c]) \cup Range(live[c]) \cup lost[c]
=============================================================================
