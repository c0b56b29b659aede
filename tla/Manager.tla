------------------------------ MODULE Manager -------------------------------
(***************************************************************************)
(* logGO.Manager (manager.go): goroutines that call WriteLog or WriteEntry *)
(* enqueue entries on a channel under stateMu's read lock; the one write   *)
(* loop (run) takes them off, hands each to the LogWriter and then to      *)
(* every registered handler under handlersMu's read lock; Close takes      *)
(* stateMu's write lock, closes the channel, waits for the loop to drain   *)
(* it and closes the writer.                                               *)
(*                                                                         *)
(* One action is one step between two points where another goroutine can   *)
(* be seen: taking a lock, a channel operation, a call of the writer or of *)
(* a handler.  A critical section that touches only what its write lock    *)
(* guards is one step.  A sync.RWMutex admits no new reader while a writer *)
(* waits for the lock, and that writer waits for the readers inside.       *)
(***************************************************************************)
EXTENDS Integers, FiniteSets, SequencesExt

CONSTANTS
    Producers,      \* the goroutines that call WriteLog or WriteEntry
    MaxWrites,      \* bound: calls each of them makes
    MaxHandlers,    \* bound: calls of RegisterLogHandler
    QueueSizes      \* the values WithQueueSize may give the channel's capacity

ASSUME ManagerAssumption ==
    /\ IsFiniteSet(Producers)
    /\ MaxWrites \in Nat
    /\ MaxHandlers \in Nat
    /\ QueueSizes \subseteq Nat /\ QueueSizes # {}

VARIABLES
    \* Manager's fields (manager.go:46-68)
    dropPolicy,     \* "Block" or "DropNewest"
    queueCap,       \* cap(m.queue)
    queue,          \* the channel's buffer, oldest first
    queueOpen,      \* FALSE once close(m.queue) has run
    dropped,        \* the counter behind Dropped()
    closed,         \* m.closed
    handlers,       \* ids of the registered handlers, in order of registration
    nextHandler,    \* the id the next registration gets
    \* where the goroutines are
    call,           \* each producer's call of enqueue
    made,           \* how many calls each producer has made
    loop,           \* the write loop
    held,           \* the entry the loop is working on, <<>> for none
    todo,           \* handlers the loop has still to call for it
    closer,         \* the goroutine that calls Close
    hwriter,        \* the id handlersMu.Lock is being taken for, or NoId
    writerOpen,     \* FALSE once writer.Close() has run
    \* what the outside has seen
    written,        \* entries writer.Write returned nil for, oldest first
    fate,           \* what became of each entry
    received,       \* the entries each handler was called with, in order
    since           \* history: how much of written predates each registration

config   == <<dropPolicy, queueCap>>
channel  == <<queue, queueOpen, dropped, closed>>
registry == <<handlers, nextHandler, hwriter, since>>
callers  == <<call, made>>
writing  == <<loop, held, todo>>
closing  == <<closer, writerOpen>>
vars     == <<config, channel, registry, callers, writing, closing,
              written, fate, received>>

DropPolicy == {"Block", "DropNewest"}
Entry      == Producers \X (1 .. MaxWrites)
Ids        == 0 .. MaxHandlers - 1
NoId       == -1

\* The entry producer p's current or latest call carries: every call a fresh one.
Current(p) == <<p, made[p]>>

\* Accepted but not yet through writer.Write, oldest first.
Unwritten == IF loop = "write" THEN held \o queue ELSE queue

\* All that was or will be handed to the writer and not lost, in that order.
Log == written \o Unwritten

\* Entries of one goroutine are in the order of its calls, none twice.
Ordered(s) ==
    \A i, j \in 1 .. Len(s) : i < j /\ s[i][1] = s[j][1] => s[i][2] < s[j][2]

\* How many of the last written entries handler id has not been called with yet.
Behind(id) ==
    IF loop = "rlock" \/ (loop = "fanout" /\ id \in Range(todo)) THEN 1 ELSE 0

TypeOK ==
    /\ dropPolicy \in DropPolicy
    /\ queueCap \in QueueSizes
    /\ queue \in Seq(Entry)
    /\ queueOpen \in BOOLEAN
    /\ dropped \in Nat
    /\ closed \in BOOLEAN
    /\ handlers \in Seq(Ids)
    /\ nextHandler \in 0 .. MaxHandlers
    /\ call \in [Producers -> {"idle", "rlock", "send"}]
    /\ made \in [Producers -> 0 .. MaxWrites]
    /\ \A p \in Producers : call[p] # "idle" => made[p] > 0
    /\ loop \in {"receive", "write", "rlock", "fanout", "exited"}
    /\ held \in Seq(Entry)
    /\ Len(held) = IF loop \in {"receive", "exited"} THEN 0 ELSE 1
    /\ todo \in Seq(Ids)
    /\ closer \in {"idle", "lock", "wait", "returned"}
    /\ hwriter \in Ids \cup {NoId}
    /\ writerOpen \in BOOLEAN
    /\ written \in Seq(Entry)
    /\ fate \in [Entry -> {"none", "accepted", "dropped", "refused", "lost"}]
    /\ received \in [Ids -> Seq(Entry)]
    /\ since \in [Ids -> Int]

-----------------------------------------------------------------------------
(* NewManager: the options choose the policy and the channel's capacity.   *)

Init ==
    /\ dropPolicy \in DropPolicy
    /\ queueCap \in QueueSizes
    /\ queue = <<>>
    /\ queueOpen = TRUE
    /\ dropped = 0
    /\ closed = FALSE
    /\ handlers = <<>>
    /\ nextHandler = 0
    /\ call = [p \in Producers |-> "idle"]
    /\ made = [p \in Producers |-> 0]
    /\ loop = "receive"
    /\ held = <<>>
    /\ todo = <<>>
    /\ closer = "idle"
    /\ hwriter = NoId
    /\ writerOpen = TRUE
    /\ written = <<>>
    /\ fate = [e \in Entry |-> "none"]
    /\ received = [id \in Ids |-> <<>>]
    /\ since = [id \in Ids |-> 0]

-----------------------------------------------------------------------------
(* WriteLog, WriteEntry and enqueue.                                       *)

\* The caller has built its entry and is about to take stateMu's read lock.
WriteLog(p) ==
    /\ call[p] = "idle"
    /\ made[p] < MaxWrites
    /\ made' = [made EXCEPT ![p] = @ + 1]
    /\ call' = [call EXCEPT ![p] = "rlock"]
    /\ UNCHANGED <<config, channel, registry, writing, closing, written, fate, received>>

\* No reader enters while Close waits for the lock; m.closed gives ErrClosed.
Refuse(p) ==
    /\ call[p] = "rlock"
    /\ closer # "lock"
    /\ closed
    /\ call' = [call EXCEPT ![p] = "idle"]
    /\ fate' = [fate EXCEPT ![Current(p)] = "refused"]
    /\ UNCHANGED <<config, channel, registry, made, writing, closing, written, received>>

Enter(p) ==
    /\ call[p] = "rlock"
    /\ closer # "lock"
    /\ call' = [call EXCEPT ![p] = "send"]
    /\ UNCHANGED <<config, channel, registry, made, writing, closing, written, fate, received>>

\* The read lock is held from here until the call returns.
Admit(p) == ~closed /\ Enter(p)

\* The call returns, the entry accepted and the buffer changed to q.
Buffer(p, q) ==
    /\ call[p] = "send"
    /\ queue' = q
    /\ call' = [call EXCEPT ![p] = "idle"]
    /\ fate' = [fate EXCEPT ![Current(p)] = "accepted"]
    /\ UNCHANGED <<config, queueOpen, dropped, closed, registry, made, writing, closing,
                   written, received>>

SendInFront(p) == Len(queue) < queueCap /\ Buffer(p, <<Current(p)>> \o queue)

SendOverOldest(p) ==
    /\ queueCap > 0
    /\ Buffer(p, Append(IF Len(queue) < queueCap THEN queue ELSE Tail(queue), Current(p)))

\* m.queue <- e with room in the buffer; the read lock is released on return.
SendBuffered(p) == Len(queue) < queueCap /\ Buffer(p, Append(queue, Current(p)))

\* m.queue <- e on an unbuffered channel: straight into the waiting loop's hands.
SendDirect(p) ==
    /\ call[p] = "send"
    /\ queueCap = 0
    /\ loop = "receive"
    /\ held' = <<Current(p)>>
    /\ loop' = "write"
    /\ call' = [call EXCEPT ![p] = "idle"]
    /\ fate' = [fate EXCEPT ![Current(p)] = "accepted"]
    /\ UNCHANGED <<config, channel, registry, made, todo, closing, written, received>>

Discard(p, count) ==
    /\ call[p] = "send"
    /\ dropPolicy = "DropNewest"
    /\ dropped' = count
    /\ call' = [call EXCEPT ![p] = "idle"]
    /\ fate' = [fate EXCEPT ![Current(p)] = "dropped"]
    /\ UNCHANGED <<config, queue, queueOpen, closed, registry, made, writing, closing,
                   written, received>>

DropAboveCapacity(p) == Len(queue) > queueCap /\ Discard(p, dropped + 1)

DropCountsDown(p) == Len(queue) >= queueCap /\ Discard(p, dropped - 1)

\* The select's default case under DropNewest.  On an unbuffered channel it may be
\* taken even as the loop comes back to receive: the loop need not be parked yet.
Drop(p) == Len(queue) >= queueCap /\ Discard(p, dropped + 1)

Enqueue(p) == Refuse(p) \/ Admit(p) \/ SendBuffered(p) \/ SendDirect(p) \/ Drop(p)

-----------------------------------------------------------------------------
(* run, the write loop.                                                    *)

Receive ==
    /\ loop = "receive"
    /\ queue # <<>>
    /\ held' = <<Head(queue)>>
    /\ queue' = Tail(queue)
    /\ loop' = "write"
    /\ UNCHANGED <<config, queueOpen, dropped, closed, registry, callers, todo, closing,
                   written, fate, received>>

ExitOnceClosed ==
    /\ loop = "receive"
    /\ ~queueOpen
    /\ loop' = "exited"
    /\ UNCHANGED <<config, channel, registry, callers, held, todo, closing, written, fate,
                   received>>

\* range ends once the channel is closed and empty; wg.Done follows.
LoopExit == queue = <<>> /\ ExitOnceClosed

WriteOK ==
    /\ loop = "write"
    /\ written' = written \o held
    /\ loop' = "rlock"
    /\ UNCHANGED <<config, channel, registry, callers, held, todo, closing, fate, received>>

LoseHeld(next) ==
    /\ loop = "write"
    /\ fate' = [fate EXCEPT ![Head(held)] = "lost"]
    /\ held' = <<>>
    /\ loop' = next
    /\ UNCHANGED <<config, channel, registry, callers, todo, closing, written, received>>

WriteFailEndsLoop == LoseHeld("exited")

\* writer.Write returned an error: the entry is lost and no handler sees it.
WriteFail == LoseHeld("receive")

\* handlersMu.RLock: not while a registration or a removal waits for the lock.
FanOutRLock ==
    /\ loop = "rlock"
    /\ hwriter = NoId
    /\ todo' = handlers
    /\ loop' = "fanout"
    /\ UNCHANGED <<config, channel, registry, callers, held, closing, written, fate, received>>

Deliver ==
    /\ loop = "fanout"
    /\ todo # <<>>
    /\ received' = [received EXCEPT ![Head(todo)] = @ \o held]
    /\ todo' = Tail(todo)
    /\ UNCHANGED <<config, channel, registry, callers, loop, held, closing, written, fate>>

FanOutDone ==
    /\ loop = "fanout"
    /\ todo = <<>>
    /\ held' = <<>>
    /\ loop' = "receive"
    /\ UNCHANGED <<config, channel, registry, callers, todo, closing, written, fate, received>>

RunStep == Receive \/ LoopExit \/ WriteOK \/ WriteFail \/ FanOutRLock \/ Deliver \/ FanOutDone

-----------------------------------------------------------------------------
(* RegisterLogHandler and the unregister function it returns.  hwriter is  *)
(* the one goroutine in handlersMu.Lock(): from the call on it keeps the   *)
(* loop's next RLock out, and it gets the lock once the loop is outside.   *)

RegisterCall ==
    /\ hwriter = NoId
    /\ nextHandler < MaxHandlers
    /\ hwriter' = nextHandler
    /\ UNCHANGED <<config, channel, handlers, nextHandler, since, callers, writing, closing,
                   written, fate, received>>

Register ==
    /\ hwriter = nextHandler
    /\ loop # "fanout"
    /\ handlers' = Append(handlers, nextHandler)
    /\ nextHandler' = nextHandler + 1
    /\ hwriter' = NoId
    /\ since' = [since EXCEPT ![nextHandler] =
                    IF loop = "rlock" THEN Len(written) - 1 ELSE Len(written)]
    /\ UNCHANGED <<config, channel, callers, writing, closing, written, fate, received>>

UnregisterCall(id) ==
    /\ hwriter = NoId
    /\ id \in Range(handlers)
    /\ hwriter' = id
    /\ UNCHANGED <<config, channel, handlers, nextHandler, since, callers, writing, closing,
                   written, fate, received>>

UnregisterInPlace ==
    /\ \E i \in 1 .. Len(handlers) :
          handlers[i] = hwriter /\ handlers' = RemoveAt(handlers, i)
    /\ hwriter' = NoId
    /\ todo' = IF todo = <<>> THEN todo
               ELSE Append(IF hwriter \in Range(todo) THEN SelectSeq(todo, LAMBDA id : id # hwriter)
                           ELSE Tail(todo), Last(todo))
    /\ UNCHANGED <<config, channel, nextHandler, since, callers, loop, held, closing, written,
                   fate, received>>

Unregister ==
    /\ loop # "fanout"
    /\ \E i \in 1 .. Len(handlers) :
          handlers[i] = hwriter /\ handlers' = RemoveAt(handlers, i)
    /\ hwriter' = NoId
    /\ UNCHANGED <<config, channel, nextHandler, since, callers, writing, closing, written,
                   fate, received>>

RegistryStep ==
    RegisterCall \/ Register \/ (\E id \in Ids : UnregisterCall(id)) \/ Unregister

-----------------------------------------------------------------------------
(* Close, called once.                                                     *)

\* stateMu.Lock(): from here on no caller gets past its RLock.
CloseCall ==
    /\ closer = "idle"
    /\ closer' = "lock"
    /\ UNCHANGED <<config, channel, registry, callers, writing, writerOpen, written, fate,
                   received>>

\* The section under the lock sets m.closed and closes the channel.
LockedSection(open) ==
    /\ closer = "lock"
    /\ closed' = TRUE
    /\ queueOpen' = open
    /\ closer' = "wait"
    /\ UNCHANGED <<config, queue, dropped, registry, callers, writing, writerOpen, written,
                   fate, received>>

CloseLockUnguarded == LockedSection(FALSE)

CloseLockKeepsQueueOpen == (\A p \in Producers : call[p] # "send") /\ LockedSection(TRUE)

\* The lock is granted once every caller inside has returned.
CloseLock == (\A p \in Producers : call[p] # "send") /\ LockedSection(FALSE)

CloseWriter ==
    /\ closer = "wait"
    /\ writerOpen' = FALSE
    /\ closer' = "returned"
    /\ UNCHANGED <<config, channel, registry, callers, writing, written, fate, received>>

\* wg.Wait() returns, then writer.Close() runs.
CloseReturn == loop = "exited" /\ CloseWriter

CloseStep == CloseCall \/ CloseLock \/ CloseReturn

-----------------------------------------------------------------------------

\* Close has returned and nobody is inside a call: the only state with nothing to do.
Terminated ==
    /\ closer = "returned"
    /\ \A p \in Producers : call[p] = "idle" /\ made[p] = MaxWrites
    /\ hwriter = NoId
    /\ nextHandler = MaxHandlers
    /\ handlers = <<>>
    /\ UNCHANGED vars

Next ==
    \/ \E p \in Producers : WriteLog(p) \/ Enqueue(p)
    \/ RunStep
    \/ RegistryStep
    \/ CloseStep
    \/ Terminated

SafeSpec == Init /\ [][Next]_vars

(***************************************************************************)
(* Go's scheduler runs every goroutine that can go on, and sync.RWMutex    *)
(* starves neither side.  Nobody has to call WriteLog, Close or            *)
(* RegisterLogHandler.  StalledSpec asks nothing of the write loop, which  *)
(* may stop for good in a Write or a Handle that does not return; LoopRuns *)
(* says that it does not, as their contracts ask, nor what waits for it.   *)
(***************************************************************************)
StalledSpec ==
    /\ SafeSpec
    /\ \A p \in Producers : WF_vars(Enqueue(p))
    /\ WF_vars(CloseLock)

LoopRuns ==
    /\ WF_vars(RunStep)
    /\ WF_vars(CloseReturn)
    /\ WF_vars(Register \/ Unregister)

-----------------------------------------------------------------------------
(* Safety.                                                                 *)

\* A goroutine that is about to send on the channel finds it open: a send on a
\* closed channel panics.  manager.go:55-60 claims this of the stateMu protocol.
NoSendOnClosedQueue ==
    \A p \in Producers : call[p] = "send" => queueOpen /\ ~closed

\* The writer is never used after it was closed, whatever was still queued or
\* held when Close was called (Close waits for the loop first, manager.go:212).
NoWriteAfterWriterClose == loop \in {"write", "rlock", "fanout"} => writerOpen

\* No entry vanishes and none is conjured up: a call that returned nil without
\* dropping has its entry written or still on its way, and only those are; the
\* counter is exactly the number of entries dropped, none of them under Block.
EveryEntryAccounted ==
    /\ {e \in Entry : fate[e] = "accepted"} = Range(Log)
    /\ dropped = Cardinality({e \in Entry : fate[e] = "dropped"})
    /\ dropPolicy = "Block" => dropped = 0

\* Entries of one goroutine are written once each and in the order of its calls,
\* whatever the buffer, the drops and the failed writes in between.
OrderedLog == Ordered(Log)

\* When Close returns, every entry accepted before it is in the store, unless its
\* own write failed: the queue is drained and nothing is in flight
\* (manager.go:202, "waits for the queue to drain").
DrainedOnClose ==
    closer = "returned" =>
        /\ Unwritten = <<>>
        /\ \A e \in Entry : fate[e] = "accepted" => e \in Range(written)

\* A registered handler has been called with every entry written since its
\* registration, in order, once each, but for the one being fanned out: other
\* handlers coming and going cost it nothing.
NoGapForHandlers ==
    \A id \in Range(handlers) :
        received[id] = SubSeq(written, since[id] + 1, Len(written) - Behind(id))

\* Once unregister has returned, the handler is not called any more, not even by
\* a fan-out that had begun before (manager.go:175, "must call it on disconnect").
SilentOnceUnregistered ==
    [][\A id \in Ids : id < nextHandler /\ id \notin Range(handlers)
                          => received'[id] = received[id]]_vars

-----------------------------------------------------------------------------
(* The abstraction.                                                        *)

Phase == CASE closer \in {"idle", "lock"} -> "open"
           [] closer = "wait"             -> "closing"
           [] closer = "returned"         -> "closed"

AL == INSTANCE AsyncLog WITH backlog <- Unwritten, committed <- written, phase <- Phase

\* The Manager implements AsyncLog: one FIFO backlog, nothing accepted once the queue
\* is closed, and, if the loop runs, every entry gets through the writer and a close
\* finishes when the backlog is empty.
ImplementsAsyncLog == AL!SafeSpec /\ (LoopRuns => AL!Fairness)

-----------------------------------------------------------------------------
(* Liveness.                                                               *)

\* Close returns, however many callers are inside and however full the queue is.
CloseReturns == LoopRuns => (closer = "lock" ~> closer = "returned")

\* Every WriteLog returns as long as the writer does, under Block too, even if Close is
\* waiting for the lock at the same time; so do RegisterLogHandler and unregister while
\* entries keep flowing.
CallsReturn ==
    LoopRuns => /\ \A p \in Producers : call[p] # "idle" ~> call[p] = "idle"
                /\ \A id \in Ids : hwriter = id ~> hwriter = NoId

\* Under DropNewest no caller waits for the writer, even when the writer has
\* stopped for good and Close is in progress (manager.go:23, "instead of blocking").
DropNewestNeverBlocks ==
    \A p \in Producers :
        dropPolicy = "DropNewest" /\ call[p] # "idle" ~> call[p] = "idle"
=============================================================================
