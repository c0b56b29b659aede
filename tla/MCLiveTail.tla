---------------------------- MODULE MCLiveTail ------------------------------
(* Instances of LiveTail for TLC. *)
EXTENDS LiveTail

CONSTANTS c1, c2        \* model values: the clients

MCOneClient  == {c1}
MCTwoClients == {c1, c2}

\* A level below and one above the threshold.
MCEntryLevels == {DebugLevel, ErrorLevel}
MCOneLevel    == {InfoLevel}

\* ?level=warn from one client; from the other a word that names no level: ReadLogs takes
\* that for INFO, and the live handler lets everything through.
Lower(name) == [name |-> name, upper |-> FALSE, padded |-> FALSE]
MCQueries   == {[c \in {c1, c2} |-> Lower(IF c = c1 THEN "WARN" ELSE "VERBOSE")]}
MCInfoQuery == {[c \in {c1} |-> InfoLevel]}
=============================================================================
