------------------------------ MODULE Backends ------------------------------
(***************************************************************************)
(* The memory and the SQLite store (backends/memory, backends/sqlite)      *)
(* given the same calls, what LogReader.Read makes of their contents       *)
(* (filter.go) and what GET /entries makes of that (handlers.go).          *)
(*                                                                         *)
(* Each call is one step: memory has its mutex, SQLite one connection.     *)
(* A time.Time is an integer, and SQLite keeps an int64 of nanoseconds,    *)
(* which holds the years 1678 to 2262.  A text either is the one looked    *)
(* for or not.  Writes that fail are left out (those of an entry that JSON *)
(* cannot express, and of a full disk), and so is the damage JSON does to  *)
(* the values of fields.                                                   *)
(***************************************************************************)
EXTENDS Levels, SequencesExt, FiniteSetsExt, Subsequences

CONSTANTS
    Times,              \* of entries, and the bounds of a filter
    ZeroTime,           \* time.Time{}, the year 1: in a filter it stands for no bound
    MinNano, MaxNano,   \* the times an int64 of nanoseconds can express
    CutOffs,            \* the arguments of Clear
    Levels,             \* of entries, and the least one asked for
    Texts, NoText,      \* messages; the empty string
    Sources, NoSource,  \* source_id fields; the empty string
    maxEntries,         \* 500 in the code
    MaxWrites           \* bound: calls of Write

ASSUME BackendsAssumption ==
    /\ ZeroTime \in Times /\ Times \subseteq Int
    /\ MinNano \in Int /\ MaxNano \in Int /\ MinNano < MaxNano
    /\ CutOffs \subseteq Int
    /\ Levels \subseteq Level
    /\ NoText \notin Texts /\ NoSource \notin Sources
    /\ maxEntries \in Nat \ {0} /\ MaxWrites \in Nat

VARIABLES
    memory,             \* memory: s.entries
    rows,               \* SQLite: the table log_entries in the order of its ids
    writes,             \* calls of Write so far
    exact               \* history: were all times given so far between MinNano and MaxNano

vars == <<memory, rows, writes, exact>>

EntryAt(times) ==
    [id : 1 .. MaxWrites, ts : times, level : Levels, message : Texts, source : Sources]

TypeOK ==
    /\ memory \in Seq(EntryAt(Times))
    /\ rows \in Seq(EntryAt(MinNano .. MaxNano))
    /\ Len(memory) <= writes
    /\ writes \in 0 .. MaxWrites
    /\ exact \in BOOLEAN

Init == memory = <<>> /\ rows = <<>> /\ writes = 0 /\ exact = TRUE

-----------------------------------------------------------------------------

NoWrap(t) == t

\* Time.UnixNano: two's complement, without a warning for a time it cannot express.
UnixNano(t) == MinNano + ((t - MinNano) % (MaxNano - MinNano + 1))

Write(e) ==
    /\ memory' = Append(memory, e)
    /\ rows' = Append(rows, [e EXCEPT !.ts = UnixNano(@)])
    /\ writes' = writes + 1
    /\ exact' = (exact /\ e.ts \in MinNano .. MaxNano)

ClearUpTo(before) ==
    /\ memory' = SubSeqAt(memory, {i \in DOMAIN memory : memory[i].ts > before})
    /\ rows' = SubSeqAt(rows, {i \in DOMAIN rows : rows[i].ts > UnixNano(before)})
    /\ exact' = (exact /\ before \in MinNano .. MaxNano)
    /\ UNCHANGED writes

Clear(before) ==
    /\ memory' = SubSeqAt(memory, {i \in DOMAIN memory : memory[i].ts >= before})
    /\ rows' = SubSeqAt(rows, {i \in DOMAIN rows : rows[i].ts >= UnixNano(before)})
    /\ exact' = (exact /\ before \in MinNano .. MaxNano)
    /\ UNCHANGED writes

Next ==
    \/ \E e \in EntryAt(Times) : writes < MaxWrites /\ e.id = writes + 1 /\ Write(e)
    \/ \E before \in CutOffs : Clear(before)

Spec == Init /\ [][Next]_vars

-----------------------------------------------------------------------------
(* Reading.                                                                *)

LogFilter == [Since : Times, Until : Times, Contains : Texts \cup {NoText}]

Matches(f, e) ==
    /\ f.Since # ZeroTime => e.ts >= f.Since
    /\ f.Until # ZeroTime => e.ts <= f.Until
    /\ f.Contains # NoText => e.message = f.Contains

Selected(entries, minLevel, f) ==
    SubSeqAt(entries, {i \in DOMAIN entries :
                          LevelAtLeast(entries[i].level, minLevel) /\ Matches(f, entries[i])})

MemoryRead(minLevel, f) == Selected(memory, minLevel, f)

\* The results of SELECT ... ORDER BY ts: rows with the same ts come in any order.
Sorted(s, Precedes(_, _)) ==
    {t \in {[i \in DOMAIN s |-> s[p[i]]] : p \in Bijection(DOMAIN s, DOMAIN s)} :
        \A i, j \in DOMAIN s : i < j => Precedes(t[i].ts, t[j].ts)}

OrderByTsDesc(s) == Sorted(s, LAMBDA x, y : x >= y)

OrderByTs(s) == Sorted(s, LAMBDA x, y : x <= y)

SQLiteReads(minLevel, f) == {Selected(t, minLevel, f) : t \in OrderByTs(rows)}

\* GET /entries, from the result of Read on: the last maxEntries of the source asked for.
Recent(entries) == SubSeq(entries, Max({1, Len(entries) - maxEntries + 1}), Len(entries))

From(entries, source) ==
    SubSeqAt(entries, {i \in DOMAIN entries : source \in {NoSource, entries[i].source}})

CutThenFilter(entries, source) == From(Recent(entries), source)

ListEntries(entries, source) == Recent(From(entries, source))

-----------------------------------------------------------------------------

MemoryStore == INSTANCE LogStore
    WITH stored <- memory, firm <- Range(memory), Entry <- EntryAt(Times)

SQLiteStore == INSTANCE LogStore
    WITH stored <- rows, firm <- Range(rows), Entry <- EntryAt(Times)

\* The memory store is a LogStore: it has the entries in the order of their writes, until a
\* Clear removes exactly those before its cut-off, whatever their times are (clearer.go:8).
\* The SQLite store is one for as long as all times given to it, a Clear's cut-off too, are
\* ones it can express; another one wraps (sqlite.go:93) and may remove the wrong entries.
StoresImplementLogStore ==
    /\ MemoryStore!Spec
    /\ SQLiteStore!Init /\ [][exact' => SQLiteStore!Next]_(SQLiteStore!vars)

\* If SQLite can express every time of an entry and every cut-off, a program sees the same
\* entries whichever store it was given, for every level and filter; and in the same order
\* if they arrived in the order of their timestamps.
ReadsAgree ==
    exact =>
        \A min \in Levels : \A f \in LogFilter : \A out \in SQLiteReads(min, f) :
            LET kept == MemoryRead(min, f)
            IN  /\ Len(out) = Len(kept) /\ Range(out) = Range(kept)
                /\ (\A i, j \in DOMAIN memory : i < j => memory[i].ts < memory[j].ts)
                     => out = kept

\* GET /entries lists an entry that matches the request if and only if fewer than maxEntries
\* later ones match it, however many later ones do not.
ListsNewestMatching ==
    \A min \in Levels : \A text \in Texts \cup {NoText} : \A source \in Sources \cup {NoSource} :
        LET f      == [Since |-> ZeroTime, Until |-> ZeroTime, Contains |-> text]
            listed == ListEntries(MemoryRead(min, f), source)
            Asked(e) == /\ LevelAtLeast(e.level, min) /\ Matches(f, e)
                        /\ source \in {NoSource, e.source}
        IN  \A i \in DOMAIN memory :
                memory[i] \in Range(listed) <=>
                    /\ Asked(memory[i])
                    /\ Cardinality({j \in DOMAIN memory : j > i /\ Asked(memory[j])}) < maxEntries
=============================================================================
