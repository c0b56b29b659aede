--------------------------- MODULE SourceRegistry ---------------------------
(***************************************************************************)
(* internal/sources.Registry and its boot in cmd/server/main.go: the       *)
(* sources in memory, the ingestion goroutines of the pull sources, and    *)
(* sources.json, which os.WriteFile truncates and then fills.  The process *)
(* may end at any point, by a crash or because main returns, which cancels *)
(* nothing; everything but the file goes with it.                          *)
(*                                                                         *)
(* Add, AddPush and Remove hold r.mu from their first change of byID until *)
(* save has returned.  The ingestion goroutines do not take it.            *)
(***************************************************************************)
EXTENDS Integers, FiniteSets

CONSTANTS
    MaxSources,     \* bound: sources ever created
    Configured      \* whether CONTOGETHER_URL and its key are set

ASSUME SourceRegistryAssumption == MaxSources \in Nat /\ Configured \in BOOLEAN

VARIABLES
    up,             \* "down", "boot" (registry loaded, HTTP not served yet), "serving"
    file,           \* sources.json
    byID,           \* the registered sources
    running,        \* sources whose ingest.Run has not returned
    cancelled,      \* sources whose context was cancelled
    saving,         \* the operation that holds r.mu, and its source
    toCancel,       \* Remove calls past r.mu, before cancel()
    toWait,         \* Remove calls waiting for done
    nextID,         \* randomID never repeats itself
    added,          \* history: sources whose Add returned without error
    removing,       \* history: sources a Remove found
    saved,          \* sources whose Remove could save
    removed,        \* history: sources whose Remove returned nil
    gone            \* sources whose Remove returned in this process

memory  == <<byID, running, cancelled>>
calls   == <<saving, toCancel, toWait, saved, gone>>
history == <<nextID, added, removing, removed>>
vars    == <<up, file, memory, calls, history>>

\* configured: its base URL is the configured one (a push source has none).
Source == [id : 1 .. MaxSources, kind : {"pull", "push"}, configured : BOOLEAN]
Nobody == [op |-> "none"]

Pull(ss) == {s \in ss : s.kind = "pull"}

TypeOK ==
    /\ up \in {"down", "boot", "serving"}
    /\ file.state \in {"missing", "ok", "garbage"} /\ file.sources \subseteq Source
    /\ byID \subseteq Source
    /\ running \subseteq Pull(Source)
    /\ cancelled \subseteq Pull(Source)
    /\ saving = Nobody \/ saving \in [op : {"add", "remove"}, source : Source]
    /\ toCancel \subseteq Source /\ toWait \subseteq Source
    /\ nextID \in 1 .. MaxSources + 1
    /\ added \subseteq Source /\ removing \subseteq Source
    /\ saved \subseteq removing /\ removed \subseteq removing /\ gone \subseteq removing
    /\ up = "down" => saving = Nobody /\ byID \cup running \cup toCancel \cup toWait = {}

Init ==
    /\ up = "down"
    /\ file = [state |-> "missing", sources |-> {}]
    /\ byID = {} /\ running = {} /\ cancelled = {}
    /\ saving = Nobody /\ toCancel = {} /\ toWait = {} /\ saved = {} /\ gone = {}
    /\ nextID = 1 /\ added = {} /\ removing = {} /\ removed = {}

-----------------------------------------------------------------------------
(* The process.                                                            *)

\* loadSources and start.  A file that does not parse ends in log.Fatalf instead.
Boot ==
    /\ up = "down"
    /\ file.state # "garbage"
    /\ up' = "boot"
    /\ byID' = file.sources
    /\ running' = Pull(file.sources)
    /\ UNCHANGED <<file, cancelled, calls, history>>

End ==
    /\ up # "down"
    /\ up' = "down"
    /\ byID' = {} /\ running' = {} /\ cancelled' = {}
    /\ saving' = Nobody /\ toCancel' = {} /\ toWait' = {} /\ saved' = {} /\ gone' = {}
    /\ UNCHANGED <<file, history>>

-----------------------------------------------------------------------------
(* Add, AddPush and Remove, up to save.                                    *)

\* start(s): byID, and the ingestion goroutines ss.
Starting(s, ss) ==
    /\ saving = Nobody
    /\ nextID <= MaxSources
    /\ byID' = byID \cup {s}
    /\ running' = running \cup ss
    /\ saving' = [op |-> "add", source |-> s]
    /\ nextID' = nextID + 1
    /\ UNCHANGED <<file, cancelled, toCancel, toWait, saved, gone, added, removing, removed>>

StartAddingAlwaysRuns(s) == Starting(s, {s})

\* A push source has nothing to run.
StartAdding(s) == Starting(s, Pull({s}))

\* POST /sources.  The user does not enter the configured URL a second time.
Add ==
    /\ up = "serving"
    /\ \E kind \in {"pull", "push"} :
          StartAdding([id |-> nextID, kind |-> kind, configured |-> FALSE])
    /\ UNCHANGED up

ConfigureIf(needed) ==
    /\ up = "boot"
    /\ IF needed
       THEN StartAdding([id |-> nextID, kind |-> "pull", configured |-> TRUE])
       ELSE UNCHANGED <<file, memory, calls, history>>
    /\ up' = "serving"

ConfigureAlways == ConfigureIf(Configured)

\* registerConfiguredSource, then the server starts to listen.  Its save need not end
\* before the first request: a request waits for r.mu all the same.
Configure == ConfigureIf(Configured /\ \A s \in byID : ~s.configured)

\* Of an ID that is not in byID (ErrNotFound) it changes nothing.
Remove(s) ==
    /\ up = "serving"
    /\ saving = Nobody
    /\ s \in byID
    /\ byID' = byID \ {s}
    /\ saving' = [op |-> "remove", source |-> s]
    /\ removing' = removing \cup {s}
    /\ UNCHANGED <<up, file, running, cancelled, toCancel, toWait, saved, gone, nextID, added,
                   removed>>

-----------------------------------------------------------------------------
(* save, under r.mu: os.WriteFile truncates, writes, closes.               *)

Garbage == [state |-> "garbage", sources |-> {}]
Holding(ss) == [state |-> "ok", sources |-> ss]

SaveTruncates ==
    /\ saving # Nobody
    /\ file # Garbage
    /\ file' = Garbage
    /\ UNCHANGED <<up, memory, calls, history>>

\* save returns nil, having written ss: Add returns the source, Remove goes on to cancel().
SaveReturns(ss) ==
    /\ saving # Nobody
    /\ file = Garbage
    /\ file' = Holding(ss)
    /\ saving' = Nobody
    /\ IF saving.op = "add"
       THEN /\ added' = added \cup {saving.source}
            /\ UNCHANGED <<toCancel, saved>>
       ELSE /\ toCancel' = toCancel \cup {saving.source}
            /\ saved' = saved \cup {saving.source}
            /\ UNCHANGED added
    /\ UNCHANGED <<up, memory, toWait, gone, nextID, removing, removed>>

SaveBeforeStart == saving # Nobody /\ SaveReturns(byID \ {saving.source})
SaveBeforeDelete == saving # Nobody /\ SaveReturns(byID \cup {saving.source})
SaveSucceeds == SaveReturns(byID)

\* save returns an error: the file was not opened, not written in full, or written in full
\* and not closed.  A failed add is rolled back without waiting; Remove goes on.
SaveFailsTo(stops) ==
    /\ saving # Nobody
    /\ file' \in {file, Garbage, Holding(byID)}
    /\ saving' = Nobody
    /\ IF saving.op = "add"
       THEN /\ byID' = byID \ {saving.source}
            /\ cancelled' = cancelled \cup stops
            /\ UNCHANGED toCancel
       ELSE /\ toCancel' = toCancel \cup {saving.source}
            /\ UNCHANGED <<byID, cancelled>>
    /\ UNCHANGED <<up, running, toWait, saved, gone, history>>

SaveFailsUncancelled == SaveFailsTo({})
SaveFails == saving # Nobody /\ SaveFailsTo(Pull({saving.source}))

-----------------------------------------------------------------------------
(* The rest of Remove, and the ingestion goroutines.                       *)

RemoveGoesOn(s, stops) ==
    /\ s \in toCancel
    /\ cancelled' = cancelled \cup stops
    /\ toCancel' = toCancel \ {s}
    /\ toWait' = toWait \cup {s}
    /\ UNCHANGED <<up, file, byID, running, saving, saved, gone, history>>

RemoveForgetsCancel(s) == RemoveGoesOn(s, {})

RemoveCancels(s) == RemoveGoesOn(s, Pull({s}))

\* ingest.Run returns (PullIngest!CancelStops) and done is closed.
RunExits(s) ==
    /\ s \in running \cap cancelled
    /\ running' = running \ {s}
    /\ UNCHANGED <<up, file, byID, cancelled, calls, history>>

\* <-rs.done; for a push source done was closed from the start.
RemoveReturns(s) ==
    /\ s \in toWait
    /\ s \notin running
    /\ toWait' = toWait \ {s}
    /\ gone' = gone \cup {s}
    /\ removed' = removed \cup ({s} \cap saved)
    /\ UNCHANGED <<up, file, memory, saving, toCancel, saved, nextID, added, removing>>

-----------------------------------------------------------------------------
Next ==
    \/ Boot \/ End \/ Add \/ Configure
    \/ \E s \in byID : Remove(s)
    \/ SaveTruncates \/ SaveSucceeds \/ SaveFails
    \/ \E s \in toCancel : RemoveCancels(s)
    \/ \E s \in running : RunExits(s)
    \/ \E s \in toWait : RemoveReturns(s)

\* Nobody has to call the API or to restart the process, and saves need not succeed.
Fairness ==
    /\ WF_vars(SaveSucceeds \/ SaveFails)
    /\ WF_vars(SaveTruncates)
    /\ \A s \in Source : WF_vars(RemoveCancels(s)) /\ WF_vars(RunExits(s))
                         /\ WF_vars(RemoveReturns(s))

Spec == Init /\ [][Next]_vars /\ Fairness

-----------------------------------------------------------------------------
(* Properties.                                                             *)

\* Whenever the registry is not in the middle of a call, every source whose Add returned
\* without error and that nobody tried to remove is registered, restarts in between or not.
AddSurvivesRestart ==
    up # "down" /\ saving = Nobody => added \ removing \subseteq byID

\* A source whose Remove returned nil is never registered again, by any restart.
RemovedStaysGone == removed \cap byID = {}

\* An ingestion goroutine belongs to a registered source, or somebody stops it: the failed
\* Add that started it did, or the Remove that found its source is about to; and once that
\* Remove has returned, with an error or without, nothing is ingested from its source.
NoOrphan ==
    /\ running \subseteq byID \cup cancelled \cup toCancel
                         \cup {s \in running : saving = [op |-> "remove", source |-> s]}
    /\ gone \cap running = {}

\* "restarting doesn't pile up duplicate registrations of the same instance" (main.go:106):
\* no sequence of restarts, failed saves and removals registers the configured URL twice.
OneConfiguredSource == Cardinality({s \in byID : s.configured}) <= 1

\* A Remove that found its source returns, unless the process ends first.
RemoveEnds ==
    \A s \in Source :
        (saving = [op |-> "remove", source |-> s] \/ s \in toCancel \cup toWait)
        ~> (s \in gone \/ up = "down")

\* NewRegistry "loads any previously-saved sources" (registry.go:88): a process that
\* starts finds a list it can load.
SavedSourcesLoad == up = "down" => file # Garbage
=============================================================================
