----------------------------- MODULE PullIngest -----------------------------
(***************************************************************************)
(* internal/ingest.Run: one pull source.  It asks the remote for its       *)
(* history (GET /logs), follows its live tail (/ws/logs) until that drops, *)
(* waits, asks for what it missed since the newest entry it ingested, and  *)
(* so on until its context is cancelled.                                   *)
(*                                                                         *)
(* The remote is not part of this repository.  backfill's comment says     *)
(* that GET /logs returns what is not older than since.  Assumed here:     *)
(* timestamps do not decrease, and the tail sends, in order, each entry    *)
(* logged while the connection is up; a message may arrive that does not   *)
(* decode.  What was sent and not read is lost when the connection drops.  *)
(***************************************************************************)
EXTENDS Integers, FiniteSets, SequencesExt

CONSTANTS
    MaxEntries,     \* bound: entries the remote logs
    MaxTime,        \* bound: timestamps are 1 .. MaxTime, 0 is the zero time
    maxBackoff      \* ingest.go:60, in seconds

ASSUME PullIngestAssumption ==
    MaxEntries \in Nat \ {0} /\ MaxTime \in Nat \ {0} /\ maxBackoff \in Nat \ {0}

VARIABLES
    remote,         \* the timestamps of the remote's entries, oldest first
    wire,           \* entries sent on the tail's connection, not read yet
    pc,             \* Run's place
    lastSeen,       \* where the next backfill starts
    newest,         \* tail's own newest timestamp
    backoff,        \* the next pause, in seconds
    cancelled,      \* ctx
    copies,         \* times each entry was handed to the manager; 2 is "twice or more"
    uncovered,      \* history: entries not yet ingested when a tail began
    garbled         \* history: entries whose message on a tail did not decode

source == <<remote, wire>>
missed == <<uncovered, garbled>>
vars   == <<source, pc, lastSeen, newest, backoff, cancelled, copies, missed>>

Entries  == 1 .. MaxEntries
Times    == 0 .. MaxTime
Later(t, u) == IF u > t THEN u ELSE t

\* ingest(): one more copy of each of these entries for the manager.
Ingest(es) ==
    copies' = [i \in Entries |-> IF i \in es /\ copies[i] < 2 THEN copies[i] + 1 ELSE copies[i]]

TypeOK ==
    /\ remote \in Seq(Times \ {0}) /\ Len(remote) <= MaxEntries
    /\ wire \in Seq(1 .. Len(remote))
    /\ pc \in {"start", "dial", "tail", "wait", "refill", "stopped"}
    /\ lastSeen \in Times /\ newest \in Times
    /\ backoff \in 1 .. 2 * maxBackoff - 1
    /\ cancelled \in BOOLEAN
    /\ copies \in [Entries -> 0 .. 2]
    /\ uncovered \subseteq 1 .. Len(remote) /\ garbled \subseteq 1 .. Len(remote)

Init ==
    /\ remote \in {<<>>, <<1>>}
    /\ wire = <<>>
    /\ pc = "start"
    /\ lastSeen = 0
    /\ newest = 0
    /\ backoff = 1
    /\ cancelled = FALSE
    /\ copies = [i \in Entries |-> 0]
    /\ uncovered = {} /\ garbled = {}

-----------------------------------------------------------------------------
(* The remote and the caller of cancel.                                    *)

RemoteLogs ==
    /\ Len(remote) < MaxEntries
    /\ \E t \in Times \ {0} :
          /\ \A i \in 1 .. Len(remote) : remote[i] <= t
          /\ remote' = Append(remote, t)
    /\ wire' = IF pc = "tail" THEN Append(wire, Len(remote) + 1) ELSE wire
    /\ UNCHANGED <<pc, lastSeen, newest, backoff, cancelled, copies, missed>>

Cancel ==
    /\ ~cancelled
    /\ cancelled' = TRUE
    /\ UNCHANGED <<source, pc, lastSeen, newest, backoff, copies, missed>>

-----------------------------------------------------------------------------
(* backfill.  No error: everything the response holds is ingested and the  *)
(* newest timestamp returned.  An error: nothing is.                       *)

Response == {i \in 1 .. Len(remote) : lastSeen = 0 \/ remote[i] >= lastSeen}

BackfillAll ==
    /\ Ingest(1 .. Len(remote))
    /\ lastSeen' = IF remote = <<>> THEN lastSeen ELSE Later(lastSeen, Last(remote))

BackfillPastNewest ==
    /\ Ingest(Response)
    /\ lastSeen' = IF Response = {} THEN lastSeen ELSE Last(remote) + 1

Backfill ==
    /\ Ingest(Response)
    /\ lastSeen' = IF Response = {} THEN lastSeen ELSE Later(lastSeen, Last(remote))

\* Run's first lines: an error of the initial backfill is logged, no more.
Start ==
    /\ pc = "start"
    /\ \/ ~cancelled /\ Backfill
       \/ UNCHANGED <<lastSeen, copies>>
    /\ pc' = "dial"
    /\ UNCHANGED <<source, newest, backoff, cancelled, missed>>

\* The top of the loop: ctx.Err().
StopAtTop ==
    /\ pc = "dial"
    /\ cancelled
    /\ pc' = "stopped"
    /\ UNCHANGED <<source, lastSeen, newest, backoff, cancelled, copies, missed>>

Dial ==
    /\ pc = "dial"
    /\ ~cancelled
    /\ pc' = "tail"
    /\ wire' = <<>>
    /\ newest' = lastSeen
    /\ uncovered' = uncovered \cup {i \in 1 .. Len(remote) : copies[i] = 0}
    /\ UNCHANGED <<remote, lastSeen, backoff, cancelled, copies, garbled>>

DialFails ==
    /\ pc = "dial"
    /\ pc' = IF cancelled THEN "stopped" ELSE "wait"
    /\ UNCHANGED <<source, lastSeen, newest, backoff, cancelled, copies, missed>>

\* Entry i is ingested, and what comes before rest is not on the wire any more.
TailTakes(i, rest) ==
    /\ Ingest({i})
    /\ newest' = Later(newest, remote[i])
    /\ wire' = rest
    /\ UNCHANGED <<remote, pc, lastSeen, backoff, cancelled, missed>>

TailReadsLatest == pc = "tail" /\ wire # <<>> /\ TailTakes(Last(wire), <<>>)

TailRead == pc = "tail" /\ wire # <<>> /\ TailTakes(Head(wire), Tail(wire))

\* A message that does not decode is skipped, and the connection kept.
TailSkips ==
    /\ pc = "tail" /\ wire # <<>>
    /\ wire' = Tail(wire)
    /\ garbled' = garbled \cup {Head(wire)}
    /\ UNCHANGED <<remote, pc, lastSeen, newest, backoff, cancelled, copies, uncovered>>

\* tail returns newest and its error; Run moves lastSeen on and checks ctx once more.
TailReturns ==
    /\ lastSeen' = Later(lastSeen, newest)
    /\ wire' = <<>>
    /\ pc' = IF cancelled THEN "stopped" ELSE "wait"
    /\ UNCHANGED <<remote, newest, backoff, cancelled, copies, missed>>

TailDrops == pc = "tail" /\ TailReturns

TailMissesCancel == pc = "tail" /\ cancelled /\ wire # <<>> /\ TailReturns

TailCancelled == pc = "tail" /\ cancelled /\ TailReturns

StopInWait ==
    /\ pc = "wait"
    /\ cancelled
    /\ pc' = "stopped"
    /\ UNCHANGED <<source, lastSeen, newest, backoff, cancelled, copies, missed>>

WaitOver ==
    /\ pc = "wait"
    /\ backoff' = IF backoff < maxBackoff THEN 2 * backoff ELSE backoff
    /\ pc' = "refill"
    /\ UNCHANGED <<source, lastSeen, newest, cancelled, copies, missed>>

\* The second backfill of the loop; whatever becomes of it, backoff is set back.
Refill ==
    /\ pc = "refill"
    /\ \/ ~cancelled /\ Backfill
       \/ UNCHANGED <<lastSeen, copies>>
    /\ backoff' = 1
    /\ pc' = "dial"
    /\ UNCHANGED <<source, newest, cancelled, missed>>

\* What Run does by itself.  TailDrops is the network's doing.
Run ==
    \/ Start \/ StopAtTop \/ Dial \/ DialFails \/ TailRead \/ TailSkips
    \/ TailCancelled \/ StopInWait \/ WaitOver \/ Refill

Next == RemoteLogs \/ Cancel \/ Run \/ TailDrops

SafeSpec == Init /\ [][Next]_vars

\* Every blocking call of Run takes ctx, and pauses end: Run always moves on.  The
\* remote need not log anything and connections need not drop or succeed.
Spec == SafeSpec /\ WF_vars(Run)

-----------------------------------------------------------------------------

Ingested == {i \in 1 .. Len(remote) : copies[i] > 0}
Resume   == Later(lastSeen, newest)

\* The next backfill starts at the newest entry actually ingested, neither later nor
\* earlier, however tails and backfills failed in between (ingest.go:50-51).
ResumesAtNewestIngested ==
    Resume = IF Ingested = {} THEN 0 ELSE remote[CHOOSE i \in Ingested : \A j \in Ingested : j <= i]

\* An entry older than the point of the last backfill is never ingested a second
\* time: duplicates come only from the boundary (ingest.go:103-107).
DuplicatesOnlyAtBoundary ==
    [][\A i \in Ingested : remote[i] < lastSeen => copies'[i] = copies[i]]_vars

\* A tail passes over nothing that decodes (ingest.go:168-179): an entry older than the
\* newest ingested one that was itself not ingested had been missing before that tail
\* began, or came in a message the tail could not decode.
SkippedOnlyBeforeTail ==
    \A i \in 1 .. Len(remote) :
        copies[i] = 0 /\ remote[i] < Resume => i \in uncovered \cup garbled

\* Run returns exactly if it was told to: no failing remote makes it give up, and once
\* cancelled it ends, wherever it was (registry.go's stop relies on it).
CancelStops == [](pc = "stopped" => cancelled) /\ (cancelled ~> pc = "stopped")

\* No entry of the remote that decodes is passed over: what is older than the resume
\* point, and so will never be asked for again, has been ingested (ingest.go:87, "Fill
\* whatever gap opened up while disconnected before resuming the live tail").
NoGap ==
    \A i \in 1 .. Len(remote) : remote[i] < Resume => copies[i] > 0 \/ i \in garbled
=============================================================================
