----------------------------- MODULE FileStore ------------------------------
(***************************************************************************)
(* backends/file.Store: a JSON-lines file opened with O_APPEND, its mutex  *)
(* s.mu, and the process around it, which may be killed at any point and   *)
(* opens the file again when it is started.  What a write has put into the *)
(* file stays there when the process dies; the file itself is not lost.    *)
(*                                                                         *)
(* Write and Read hold s.mu for one system call or one scan and are single *)
(* steps.  Clear holds it over a series of system calls, each of which may *)
(* fail or be the last one before a crash, and is one step per call.       *)
(*                                                                         *)
(* A line is the sequence of pieces of JSON between two newlines: one      *)
(* whole record when all went well, more when a record was written behind  *)
(* a line that a torn write had left without its newline.                  *)
(***************************************************************************)
EXTENDS Integers, FiniteSets, SequencesExt, Subsequences

CONSTANTS
    Times,          \* timestamps of entries, and Clear's cut-offs
    Sizes,          \* how long a record is, or what a short write leaves of it, in some unit
    MaxLine,        \* the longest line that fits the scanner's buffer: 1 MiB, in that unit
    MaxEntries,     \* bound: calls of Write
    MaxFaults       \* bound: torn writes

ASSUME FileStoreAssumption ==
    /\ Times \subseteq Nat /\ Times # {}
    /\ Sizes \subseteq Nat \ {0} /\ Sizes # {}
    /\ MaxLine \in Nat
    /\ MaxEntries \in Nat
    /\ MaxFaults \in Nat

VARIABLES
    lines,          \* the file at s.path, line by line
    terminated,     \* whether the file is empty or ends with a newline
    handle,         \* s.f: "open", "dead" (closed by a Clear), or "down": no process
    pc,             \* Clear's place: "idle", "tmp", "closed", "renamed"
    before,         \* Clear's argument
    kept,           \* the lines Clear has copied to the temporary file
    next,           \* id of the next entry
    torn,           \* writes that left an unterminated line
    acked,          \* entries for which Write returned nil
    cleared         \* history: entries removed by a Clear

file  == <<lines, terminated>>
clear == <<pc, before, kept>>
past  == <<next, torn, acked, cleared>>
vars  == <<file, handle, clear, past>>

Entry == [id : 1 .. MaxEntries, ts : Times, size : Sizes]
Piece == [entry : Entry, cut : BOOLEAN]

\* Each call of Write carries a new entry: any timestamp, pushed ones need not ascend.
Fresh == [id : {next}, ts : Times, size : Sizes]

\* json.Unmarshal accepts one whole record and nothing else.
Parses(line) == Len(line) = 1 /\ ~line[1].cut

\* bufio.Scanner gives up at a line that does not fit its buffer, be it one long record
\* or several that torn writes have left behind one another.
TooLong(line) == FoldLeft(LAMBDA sum, piece : sum + piece.entry.size, 0, line) > MaxLine

\* What a Read with the lowest level and the zero filter finds: the intact lines in
\* front of the first one that is too long, and an error if there is such a line.
IntactLines  == SubSeqAt(lines, {i \in DOMAIN lines : Parses(lines[i])})
Firsts(s)    == [i \in 1 .. Len(s) |-> s[i][1].entry]
Stored       == Firsts(IntactLines)
Intact       == {line[1].entry : line \in Range(IntactLines)}
FirstTooLong == SelectInSeq(lines, TooLong)
ReadFails    == handle # "open" \/ FirstTooLong # 0
ReadOut      == LET n == IF FirstTooLong = 0 THEN Len(lines) ELSE FirstTooLong - 1
                IN  IF handle = "open" THEN SubSeqAt(lines, {i \in 1 .. n : Parses(lines[i])})
                                       ELSE <<>>

\* The file after a write appended piece, with its newline or without.
Put(piece, newline) ==
    /\ lines' = IF terminated THEN Append(lines, <<piece>>)
                ELSE [lines EXCEPT ![Len(lines)] = Append(@, piece)]
    /\ terminated' = newline

TypeOK ==
    /\ lines \in Seq(Seq(Piece) \ {<<>>})
    /\ terminated \in BOOLEAN
    /\ lines = <<>> => terminated
    /\ handle \in {"open", "dead", "down"}
    /\ pc \in {"idle", "tmp", "closed", "renamed"}
    /\ pc = "tmp" => handle = "open"
    /\ pc \in {"closed", "renamed"} => handle = "dead"
    /\ before \in Times
    /\ kept \in Seq(Seq(Piece) \ {<<>>})
    /\ next \in 1 .. MaxEntries + 1
    /\ torn \in 0 .. MaxFaults
    /\ acked \subseteq Entry
    /\ cleared \subseteq acked

Init ==
    /\ lines = <<>>
    /\ terminated = TRUE
    /\ handle = "down"
    /\ pc = "idle"
    /\ before \in Times
    /\ kept = <<>>
    /\ next = 1
    /\ torn = 0
    /\ acked = {}
    /\ cleared = {}

-----------------------------------------------------------------------------

\* The file is opened as it is: a torn last line is left torn.
Open ==
    /\ handle = "down"
    /\ handle' = "open"
    /\ UNCHANGED <<file, clear, past>>

\* Close, or the death of the process wherever Clear is: the file is the same.
Stop ==
    /\ handle # "down"
    /\ handle' = "down"
    /\ pc' = "idle"
    /\ kept' = <<>>
    /\ UNCHANGED <<file, before, past>>

\* s.mu is free and the caller has another entry to write.
CanWrite == handle # "down" /\ pc = "idle" /\ next <= MaxEntries

\* The record is in the file and Write returns nil.
Written(e, newline) ==
    /\ handle = "open" /\ next <= MaxEntries
    /\ Put([entry |-> e, cut |-> FALSE], newline)
    /\ acked' = acked \cup {e}
    /\ next' = next + 1
    /\ UNCHANGED <<handle, clear, torn, cleared>>

WriteWithoutNewline(e) == CanWrite /\ Written(e, FALSE)

WriteWithoutMutex(e) == Written(e, TRUE)

WriteOK(e) == CanWrite /\ Written(e, TRUE)

\* A short write: part of the record, or all of it but the newline, is in the file.
\* Write returns the error; with Stop next, it is a process killed while writing.
WriteTorn(e) ==
    /\ CanWrite
    /\ handle = "open"
    /\ torn < MaxFaults
    /\ \E cut \in BOOLEAN, size \in {n \in Sizes : n <= e.size} :
          /\ ~cut => size = e.size
          /\ Put([entry |-> [e EXCEPT !.size = size], cut |-> cut], FALSE)
    /\ torn' = torn + 1
    /\ next' = next + 1
    /\ UNCHANGED <<handle, clear, acked, cleared>>

\* Encoding fails, or the file takes nothing, or a Clear has left s.f closed.
WriteError ==
    /\ CanWrite
    /\ next' = next + 1
    /\ UNCHANGED <<file, handle, clear, torn, acked, cleared>>

-----------------------------------------------------------------------------
(* Clear(before), which holds s.mu while pc is not "idle".                 *)

Outdated(line) == Parses(line) /\ line[1].entry.ts < before'

\* Scan the file; a line that is too long makes Clear return its error instead.
\* Lines that do not parse are kept as they are.
ClearScan ==
    /\ handle = "open"
    /\ pc = "idle"
    /\ FirstTooLong = 0
    /\ before' \in Times
    /\ kept' = SubSeqAt(lines, {i \in DOMAIN lines : ~Outdated(lines[i])})
    /\ pc' = "tmp"
    /\ UNCHANGED <<file, handle, past>>

\* CreateTemp, a write to it or its Close failed: nothing has happened to s.path.
ClearTmpFails ==
    /\ pc = "tmp"
    /\ pc' = "idle"
    /\ kept' = <<>>
    /\ UNCHANGED <<file, handle, before, past>>

ClearGoesOn ==
    /\ pc = "tmp"
    /\ pc' = "closed"
    /\ UNCHANGED <<file, before, kept, past>>

ClearKeepsOldOpen == ClearGoesOn /\ UNCHANGED handle

\* s.f.Close(): from here to the reopening s.f is a closed file.
ClearClosesOld == ClearGoesOn /\ handle' = "dead"

\* Every kept line was copied with a newline, the last one too.
ClearRenames ==
    /\ pc = "closed"
    /\ lines' = kept
    /\ terminated' = TRUE
    /\ cleared' = cleared \cup {e \in acked \cap Intact : e.ts < before}
    /\ kept' = <<>>
    /\ pc' = "renamed"
    /\ UNCHANGED <<handle, before, next, torn, acked>>

\* The Close or the Rename failed: Clear returns, s.f stays closed.
ClearRenameFails ==
    /\ pc = "closed"
    /\ kept' = <<>>
    /\ pc' = "idle"
    /\ UNCHANGED <<file, handle, before, past>>

ClearReopens ==
    /\ pc = "renamed"
    /\ handle' = "open"
    /\ pc' = "idle"
    /\ UNCHANGED <<file, before, kept, past>>

ClearReopenFails ==
    /\ pc = "renamed"
    /\ pc' = "idle"
    /\ UNCHANGED <<file, handle, before, kept, past>>

Next ==
    \/ Open
    \/ Stop
    \/ \E e \in Fresh : WriteOK(e) \/ WriteTorn(e)
    \/ WriteError
    \/ ClearScan \/ ClearTmpFails \/ ClearClosesOld
    \/ ClearRenames \/ ClearRenameFails
    \/ ClearReopens \/ ClearReopenFails

Spec == Init /\ [][Next]_vars

-----------------------------------------------------------------------------

\* A torn write damages at most one entry that was acknowledged (the next one to be
\* written); nothing else, no crash and no failed Clear, takes the line of an acknowledged
\* entry out of the file or spoils it.
TornCostsAtMostOne == Cardinality(acked \ (cleared \cup Intact)) <= torn

\* The file is a LogStore: its intact lines are the entries in the order of their writes;
\* torn writes, crashes and Clears that fail half-way spare every acknowledged one; the
\* rename replaces the file by exactly its entries not before the cut-off, those at it
\* included (clearer.go:9-10), so none written since the scan is overwritten.
Store ==
    INSTANCE LogStore WITH
        CutOffs <- Times,
        stored  <- Stored,
        firm    <- acked \cap Intact
ImplementsLogStore == Store!Spec

\* An entry whose Write returned nil and that no Clear removed is returned by a Read
\* that matches it (reader.go:3, file.go:88 "skip a malformed/partial line").
WrittenIsRead ==
    handle = "open" => acked \ cleared \subseteq {line[1].entry : line \in Range(ReadOut)}
=============================================================================
