# logGO in TLA+

This directory holds a TLA+ model of logGO: an asynchronous logging library
(`manager.go`, `backends/`), and the server built on it (`cmd/server`), which
collects entries pulled from other services (`internal/ingest`,
`internal/sources`) or pushed by them, and shows them live in a browser. The
modules are checked with TLC on small instances, and every safety property of
theirs, refinements included, is proved with TLAPS for all values of the
constants; liveness is left to TLC. `PROJECT.json` lists the runs, the code lines
behind every definition, the hazards and the theorems.

    tlc -workers 2 -config manager_safety.cfg MCManager.tla
    tlapm ManagerProofs.tla   # and FileStoreProofs, BackendsProofs, LiveTailProofs,
                              # PullIngestProofs, RegistryProofs, ServerProofs, SequenceFacts

## The system

    push handlers --\                                          /--> file store
    ingest.Run -------> Manager: queue --> write loop (run) --<
    main -----------/                          |                \--> handlers --> live-tail clients
        ^                                      |
        |  start / cancel                      '-- ReadLogs, ClearLogs go straight to the store
    sources.Registry <--> sources.json

| Component | State it keeps | Operations | What makes it correct |
|---|---|---|---|
| Manager (`manager.go`) | channel, `closed`, handlers, drop counter, two RWMutexes, one write loop | WriteLog, WriteEntry, RegisterLogHandler, unregister, Close, Dropped, ReadLogs, ClearLogs | no send on a closed channel; FIFO; every entry accounted for; Close drains; handlers see each entry once and none after unregister; calls return |
| Levels and filter (`entry.go`, `filter.go`) | none | parseLevel, LevelAtLeast, Matches | one meaning of a level everywhere |
| File backend (`backends/file`) | the open file, its lock, the file | Open, Write, Read, Clear, Close | acknowledged entries stay readable, through crashes and Clear |
| Memory, SQLite backends | a slice; a table | the same | the same; and that it does not matter which one a program uses |
| Live tail (`handlers.go`) | per client: connection, channel of 64, handler | handleWatchEntries | nothing missed, in order, no leak, never holds up the loop |
| Pull ingestion (`internal/ingest`) | lastSeen, backoff | Run (backfill, tail) | no gap, few duplicates, ends on cancel only |
| Source registry (`internal/sources`) | sources in memory, their goroutines, sources.json | Add, AddPush, Remove, load, save | what was added survives restarts, what was removed does not, no orphan goroutine |
| Entry listing (`handlers.go`) | none | handleListEntries | the newest entries that match, and all of those |
| Push handlers (`ingest_handlers.go`) | where each connection's handler is | REST, WebSocket, gRPC | one WriteEntry per message; an answer means what it says |
| Server process (`main.go`) | where main is; all of the above | boot, signal, Shutdown, Close, exit, kill | no request cut off by the shutdown; it ends |
| Demo clients | number of the entry, connection | push, reconnect | no entry sent twice |
| Web page (`internal/webui`) | socket, entries shown | connect, reconnect | shows the selected stream and its state |

How they interact: every producer goroutine calls `Manager.enqueue`, which
shares a channel with the write loop under `stateMu`; the write loop calls the
store and then, under `handlersMu`, the callbacks of the live-tail clients,
which share a channel each with their WebSocket goroutine; the registry starts
and cancels one `ingest.Run` per pull source, which calls `WriteEntry`. The
hard behaviours are the two lock protocols (close against blocked senders,
registration against a running fan-out), the hand-over from a snapshot to a live
stream (twice: live tail and pull ingestion), files that are rewritten
while the process may die (twice: log file and sources.json), and a shutdown
that waits for some of the goroutines that write and not for others.
`PROJECT.json` "hazards" has each of them at its line.

## Modules

| Module | Models | Correspondence |
|---|---|---|
| `AsyncLog` | what the Manager promises | an abstract FIFO log: Accept, Commit or Lose, Shut, Finish |
| `Manager` | `manager.go` | variables are the fields of `Manager` plus the place of each goroutine. One action per step between two points where another goroutine can be seen: lock, channel operation, call of the writer or a handler. `Admit` .. `Drop` are `enqueue`, `Receive` .. `FanOutDone` are `run`, `CloseCall` .. `CloseReturn` are `Close` |
| `Subsequences` | the loop that appends what it selects to a new slice | `SubSeqAt(s, I)`: the elements of `s` at the positions in `I`, in their order. The modules below select with it and not with `SelectSeq`, of which, defined by recursion, nothing can be proved; `MCBackends` has TLC compare the two |
| `ManagerProofs` | theorems about `Manager` | see below |
| `SequenceFacts` | lemmas about sequences and `SubSeqAt` | cited by the modules of theorems |
| `LogStore` | what a backend promises (`writer.go`, `clearer.go`) | a sequence of entries: Write appends, Clear removes what is before its cut-off, and the last entry may be spoilt until its Write has returned nil |
| `FileStore` | `backends/file/file.go` | the file is a sequence of lines, a line a sequence of pieces of JSON (more than one after a torn write), each with a size, so that a line may be too long for the scanner. Write and Read are one step; Clear is one step per system call, each of which may fail or be the last before a crash. `Store` maps it to `LogStore`: the intact lines are its entries |
| `FileStoreProofs` | theorems about `FileStore` | see below |
| `Backends` | `backends/memory`, `backends/sqlite`, `LogFilter.Matches`, `handleListEntries` | both stores beside each other, given the same calls; reads are operators on their contents. SQLite's times are w-bit integers, `UnixNano` wraps |
| `BackendsProofs` | theorems about `Backends` | see below |
| `Levels` | `entry.go` | levels as Go strings told apart by letters, case and surrounding blanks |
| `LiveTail` | `handleWatchEntries` and the loop's side of it | each client's goroutine by its place in the handler, its backlog, channel and what it was sent; Register and Unregister wait for the fan-out to end, as `handlersMu` makes them |
| `LiveTailProofs` | theorems about `LiveTail` | see below |
| `PullIngest` | `internal/ingest/ingest.go` | Run by its place, lastSeen, backoff; the remote is external: backfill's comment says what GET /logs returns, and that its timestamps do not decrease is assumed |
| `PullIngestProofs` | theorems about `PullIngest` | see below |
| `SourceRegistry` | `internal/sources/registry.go`, `registerConfiguredSource` | byID, the running goroutines, the three stages of a Remove, and sources.json, which a save truncates before it writes |
| `RegistryProofs` | theorems about `SourceRegistry` | see below |
| `Server` | `main.go`, `ingest_handlers.go`, the demo clients | main by its place, the Manager as an `AsyncLog`, each connection's handler and the messages that have arrived on it, each client's attempts. It composes the Manager (through what `Manager` is shown to implement) with its callers and with main's order of shutdown, over several lives of the process |
| `ServerProofs` | theorems about `Server` | see below |
| `MCManager`, `MCFileStore`, `MCLiveTail`, `MCServer`, `MCBackends` | | values of the constants for TLC |

Abstractions. Entries are identified by the caller and the number of its call
(Manager), by a number and the attributes the code looks at (the others);
messages, fields, JSON, HTTP statuses and URL building are left out. The two
RWMutexes are modelled by what Go documents: a waiting writer keeps new readers
out and gets the lock when the readers inside have left. In `FileStore` data
that a write put into the file survives the death of the process (the operating
system does not crash). In `SourceRegistry` a user does not type the configured
URL into the form a second time. In `LiveTail` the source and text filters,
which both paths treat alike, are left out. The level filter is there twice, as
in the code, and so is a client that asks for a word that is no level: for such a
string `ReadLogs` filters at INFO (`manager.go:160`) and the live filter lets
everything pass (`handlers.go:87,124`), although `handlers.go:79-82` speaks of one
filter for both. No property asks them to agree; completeness is stated for the
live filter. In `PullIngest` any message on a tail may fail to decode. In `Server` a request is in its handler from its
connection on, which makes Shutdown wait for more; messages are never
duplicated by the network, as TCP sees to it; Commit and Lose are the write
loop's, and the wait for room in the queue is the Manager's send: the queue's
capacity and one more entry, the one in the loop's hands, can be accepted and not
yet written. "Stored" in its properties means that Write returned nil; what a
store makes of that is `FileStore`'s subject (and finding 1 shows that it may be
unreadable). A gRPC client dials once and makes its calls on that connection for
as long as the process lives, Shutdown or not (`Reachable`).

Definitions that no action uses but that stand right before one, such as
`CloseLockUnguarded` before `CloseLock`, are mutants: the same operation with a
plausible bug. Substituted for the original, each makes the property it is
paired with in `PROJECT.json` fail, which shows that the property depends on
that line of the code.

## Runs

| Run | Bounds | Question and answer |
|---|---|---|
| `manager_safety` | 2 callers with 2 writes each, 2 handlers, queue capacity 0 or 2, both policies, callers symmetric (about 600 000 states) | all safety properties hold |
| `manager_live` | the same with 1 handler, capacity 0 or 1, no symmetry, a loop that may stop for good | as long as the loop goes on: implements `AsyncLog` with its liveness; Close, writes and registrations return. In any case DropNewest callers return |
| `filestore` | 4 writes, 2 torn, 2 timestamps, records of size 1 and 3, lines of at most 2 readable (about 190 000 states) | implements `LogStore`; at most one acknowledged entry damaged per torn write |
| `filestore_torn` | 3 writes, 1 torn | violation: an acknowledged entry is unreadable |
| `livetail` | 2 clients, one asking for `warn` and one for a word that is no level, 2 entries, backlog cap 1, channel of 1 | complete and in order from the registration on, a client that has gone is noticed and its handler with it, the loop never stuck |
| `livetail_gap` | 1 client, 3 entries | violation: an entry between backlog and registration is never sent |
| `pullingest` | 4 remote entries, 3 timestamps, any message garbled (about 790 000 states) | resumes at the newest ingested entry, duplicates only at the boundary, a tail skips only what does not decode, stops exactly when cancelled |
| `pullingest_gap` | 3 remote entries | violation: entries between backfill and tail are skipped for good |
| `registry` | 2 sources ever created, the configured URL set | additions survive restarts, removals are final, no orphan goroutine, Remove returns |
| `registry_crash` | 1 source | violation: a save cut short leaves a sources.json that stops the next boot |
| `server` | a REST client with 1 entry and a WebSocket client with 2 entries and up to 2 connections, or a gRPC client with 2 entries; 2 lives of the process, queue capacity 1 (about 640 000 states) | an entry answered "accepted" is kept but for kills and failed writes; nothing stored twice, a connection's entries in order; the Manager is not closed under a request Shutdown waits for; the process ends when told to |
| `backends` | 3 writes, 4 timestamps and 2 cut-offs, one of each outside of an int64 of 3 bits, 2 levels, messages and sources, a list of 2 (about 120 000 states) | memory implements `LogStore`, SQLite as long as every time fits; same entries read from both for as long, in the same order if they arrived in order; the list has the newest matching entries |

Why the bounds are enough to be interesting: with two callers, capacity 2 and
four entries one entry is in the writer while the queue is full, a third caller
step blocks or drops, and Close waits behind it; capacity 0 takes the direct
hand-over. Two handlers are needed for one to be removed while the other is
being called. Two torn writes with four entries allow a torn line to be extended
by a torn record; two small records on one line are read over, three are too long,
as one big record is. A channel of 1 and a backlog cap of 1 are both exceeded by two
entries. Three timestamps for four entries give entries that share the boundary
timestamp and entries on either side of it. Two sources allow a Remove and an
Add at the same time, and a configured source that is removed and comes back.
The server's queue of 1 is full when one entry is in it and another in the loop's
hands, so a third, a handler's or main's own WriteLog, blocks; two entries on a WebSocket are enough for the first to fail and
be overtaken by one sent on a second connection while the first connection's
handler still has it to read; two lives are needed for an entry acknowledged in
one to be missed in the next. A gRPC client's second call can begin while main is
in Shutdown or Close, or in the process's second life. The plans (`MCPlans`) bound
what clients do: either the REST and the WebSocket client push, or the gRPC client
does; the proofs are about any clients and plans. The early cut-off of `backends`
wraps to one in the middle of the entries. Three entries are
more than a list of two, with one between two others that does not match.
`CHECK_DEADLOCK FALSE` stands in the runs of systems that may stop: clients that
are gone, a cancelled Run, a boot that fails, a server that is not started
again, a program that writes no more. `Manager` and `FileStore` are
checked for deadlock (`Terminated` marks the Manager's one intended end).

Fairness. Goroutines that can go on do (weak fairness of each caller, of the
loop, of Close). Nobody is obliged to call anything. Fairness of the Manager's
loop contains the assumption that Write and Handle return, which their contracts
ask for (`handler.go:5-7`): `StalledSpec` does without, and the properties that
need it say so (`LoopRuns => ...`). In `Server` main goes on (`WindDown`: one
goroutine, its Shutdown is over after ten seconds at the latest) and so does the
write loop; clients, handlers and the network owe nobody anything. main's
WriteLog competes with handlers for room in the queue; Go's channels serve
blocked senders in order, and the bounded number of entries stands for that. A live-tail send ends
within its timeout of five seconds (`handlers.go:162`), so each client's
goroutine is fair. All blocking calls of `ingest.Run` take its context, so Run is
fair; what the remote or the network does is not. Steps of Remove after the lock
are fair, and so is the end of a save, by success or by failure; that a
cancelled ingestion goroutine returns (`RunExits`) is what `PullIngest` shows
under the assumption that WriteEntry returns, and that is what `Manager` shows
as long as the writer does.

## Findings

1. `file.go:63`: a torn write is never repaired, so the next acknowledged entry
   is glued to it and lost to Read (`filestore_torn`).
2. `handlers.go:101-123`: the live tail registers its handler after it has read
   and sent the backlog; what is written in between is not sent (`livetail_gap`).
3. `ingest.go:53-69`: backfill first, tail second, and the tail moves the resume
   point past whatever fell between them (`pullingest_gap`).
4. `registry.go:133`: sources.json is overwritten in place; a crash in between
   loses it and keeps the server from starting (`registry_crash`).

Other disagreements between texts and code, which no run is about: `?level=` with
a word that is no level (see Abstractions); `clearer.go:8-9` promises to remove
exactly what is before the cut-off, for any time, and SQLite's Clear
(`sqlite.go:93`) does so only for times an int64 of nanoseconds can express, which
`StoresImplementLogStore` has as its condition; the repository's README says that
WriteLog never blocks on I/O, and under the policy Block it waits for the store
once the queue is full; `ingest.go:106` says that the boundary entry may be ingested
once more, which is true of each reconnect.

## Proofs

`ManagerProofs` proves, for any finite set of callers and any bounds and queue
sizes (`ManagerAssumption` is all that is assumed), of every behaviour of
`SafeSpec`, and so of `Spec` and `StalledSpec`:

| Theorem | Property |
|---|---|
| `TypeCorrect` | `TypeOK` |
| `SendSafety`, `WriterSafety` | `NoSendOnClosedQueue`, `NoWriteAfterWriterClose` |
| `OrderSafety`, `Accounting` | `OrderedLog`, `EveryEntryAccounted` |
| `CloseDrains` | `DrainedOnClose` |
| `UnregisterSilences` | `SilentOnceUnregistered` |
| `NoGaps` | `NoGapForHandlers` |
| `Refinement` | `AL!SafeSpec`: each step is a step of `AsyncLog` or a stutter |

The argument. None of the properties is inductive alone. `CloseInv` ties the
place of the closer to `closed`, `queueOpen`, the writer and the loop: a caller
past its check implies that Close has not got the lock, and an exited loop
implies a closed and empty queue that nobody can fill again; from it follow send
and writer safety. `LogInv` relates the log (written, held, queued) to the calls:
the entry a caller is about to send is fresh and later than all of its entries in
the log, the log is ordered, the accepted entries are exactly those in it, and
the drop counter is the cardinality of the dropped ones. The ordering is stable
because every step appends one fresh entry, takes one out, or moves one along;
these are the lemmas on sequences at the head of that part, and the same step
facts give the refinement. `FanOutInv` says that what the loop has still to call
is registered while it holds the read lock; with it an unregistered handler's
`received` cannot change. `GapInv` adds that the slice of handlers names nobody
twice, that the entry being handed round is the last one written, and that each
handler has been called with a segment of the log that ends there, or one entry
before if its turn is still to come: unregistering shifts the slice, which leaves
the segments of the others as they were.

`RegistryProofs` does the same for `SourceRegistry` (any number of sources, with
or without a configured URL): `TypeCorrect`, `Orphans` (`NoOrphan`),
`Durability` (`AddSurvivesRestart`), `Removal` (`RemovedStaysGone`) and
`OneRegistration` (`OneConfiguredSource`). Its invariant speaks of the memory
and the file alike, because a restart turns one into the other: neither holds an
identifier not yet given out (so a rolled-back one is never met again), neither
lacks a source that was added and that nobody tried to remove, neither has one
whose Remove could save, and neither has the configured URL twice.

`ServerProofs` is about any number of clients, each with any of the three
protocols, any plans and number of lives of the process, and any queue capacity: `TypeCorrect`, `NotRefused` (`TrackedNotRefused`) and `Accountable`
(`AckedIsStored`). `MainInv` ties main's place to the phase of the Manager and
to the handlers Shutdown waits for: between Shutdown's return and the exit no
new ones appear, because nobody can connect any more. `AnswerInv` says that an
answer on its way is about an entry that is kept; it rests on `InboxInv` (a
connection carries only its own client's messages, and one that is answered only
one of them) and on `ClientInv` (the attempt a client is at). `KeptGrows` is the
step that matters: no action takes an answered entry out of the store, the queue
and the known casualties together.

`Streams` (`StreamIntact`) follows each message of a connection from the client to
the store. `StreamInv` orders the store, the queue and what is unread on the
connections together: every message comes after what the same connection has in
the store, none is there twice, and what is stored or unread is an attempt its
client has already made, so that a new attempt comes after all of them. A handler
that reads moves a message from the head of one to the end of the other.

`FileStoreProofs`, for any timestamps and any number of writes and torn writes:
`TypeCorrect`, `Durability` (`TornCostsAtMostOne`) and `Refinement`
(`ImplementsLogStore`). `Durability` is about the file and not about Read, which may
not get to an intact line behind one that is too long. `LossInv` counts: acknowledged
entries without an intact line, plus one if the last line lacks its newline, are at most the torn writes. The
extra one is what makes it inductive, for a torn write costs nothing until the next
write is glued to it. `LastInv` says that whatever stands on such a line was not
acknowledged, so the entry the next write spoils is none that anyone relies on;
`KeptInv` that what Clear copied is, until its rename, still what it would copy.
With them each step is one of `LogStore` or a stutter: writes happen at the write,
Clear at the rename.

`BackendsProofs`, for any entries, times and cut-offs and any width of SQLite's
integers: `TypeCorrect`, `Refinement` (`StoresImplementLogStore`: memory without
a condition, SQLite while all times given to it fit), `Agreement` (`ReadsAgree`) and `Listing` (`ListsNewestMatching`). Ids
ascend in memory, and as long as every time could be expressed the table has the
same rows (`SameInv`). Agreement then is about what ORDER BY may do with them: a
permutation selects the same entries, and it is the identity if the rows arrived
in order of time, no two at the same (the order of equal times is SQLite's
choice). For the list, an entry is among the last `maxEntries` of a selection
exactly if fewer than that many selected ones follow it.

`LiveTailProofs`, for any number of clients, entries and any capacities:
`TypeCorrect`, `Order` (`OrderedAtMostOneRepeat`) and `Complete`
(`CompleteSinceRegistration`). `SplitInv` says that what a client was sent and has on its
channel falls into two rising parts: one from the backlog, with ids up to the
snapshot, and one from the handler, with ids after the registration; the two
overlap in one entry at most, the one that was in the store and not yet fanned out
when the handler was registered. `CompleteInv` accounts for each entry since the
registration that the live filter lets through; its step is the callback, which
sends or drops. Nothing is assumed of the levels that clients ask for.

`PullIngestProofs`, for any log of the remote: `TypeCorrect`, `Resumption`
(`ResumesAtNewestIngested`), `Skipping` (`SkippedOnlyBeforeTail`),
`BoundaryDuplicates` (`DuplicatesOnlyAtBoundary`) and `StopsOnlyWhenTold`, the safety
half of `CancelStops`. It rests on one assumption about the remote, that its log
is in order of time (`Chronological`, which the model's remote keeps); the newest
ingested entry then has the resume point as its timestamp (`ResumeInv`), and a
tail has on the wire, in order and not yet ingested, all that is missing but what
the gap before it has swallowed and what did not decode (`TailInv`).

The lemmas in `SequenceFacts` say what `SubSeqAt` returns: its elements, its
length, their order, and how it goes with an appended element and with a second
selection. They rest on a numbering of the positions, the k-th being the one with
k positions up to it, which is proved to exist and to rise.

Only model-checked: liveness, which needs fairness and `ENABLED` and is beyond the
prover (`CloseReturns`, `CallsReturn`, `DropNewestNeverBlocks`, `LoopNeverStuck`,
`DepartureNoticed`, `CancelStops`, `RemoveEnds`, `ShutdownEnds`, and the fairness
in `ImplementsAsyncLog`, whose safety part is `Refinement`). That `SubSeqAt`
is `SelectSeq` is checked on bounded inputs, as what a recursive definition
computes for every input cannot be proved here.

## Not modelled

- The web page (`internal/webui`). It shows what the server sends; nothing relies
  on its state. What its reconnecting socket does depends on the order in which
  a browser delivers the events of a closed socket and its successor, of which
  the repository says nothing.
- Generated code and configuration parsing, which have no behaviour to check.
- Failing writes of the SQLite store and the loss of precision in JSON values:
  `LogWriter` promises nothing about either.
- ingest.Run's pauses. `ingest.go:92` sets the backoff back after every backfill,
  failed or not; the model does the same, but no property is about pauses.

## What could follow

1. Pull sources as clients of `Server`, to follow a remote's entry from its log
   through a restart of the server, whose ingestion begins at zero again.
2. `Server` as an implementation of an abstract push service, whose answer is a
   promise that only kills and failed writes may break.
