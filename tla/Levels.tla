------------------------------- MODULE Levels -------------------------------
(***************************************************************************)
(* Levels and the filter (entry.go, filter.go).  A level is a Go string,   *)
(* here told apart by what the code looks at: its letters (read without    *)
(* case), whether they are upper case, whether blanks surround them.       *)
(***************************************************************************)
EXTENDS Integers

Names == {"DEBUG", "INFO", "WARN", "ERROR", "VERBOSE"}     \* VERBOSE: any other word

Level == [name : Names, upper : BOOLEAN, padded : BOOLEAN]

Canonical(name) == [name |-> name, upper |-> TRUE, padded |-> FALSE]
DebugLevel == Canonical("DEBUG")
InfoLevel  == Canonical("INFO")
WarnLevel  == Canonical("WARN")
ErrorLevel == Canonical("ERROR")

ToUpper(s)   == [s EXCEPT !.upper = TRUE]
TrimSpace(s) == [s EXCEPT !.padded = FALSE]

levelRank ==
    [l \in {DebugLevel, InfoLevel, WarnLevel, ErrorLevel} |->
        CASE l = DebugLevel -> 0 [] l = InfoLevel -> 1 [] l = WarnLevel -> 2 [] l = ErrorLevel -> 3]

\* A Go map gives 0 for a key it does not hold.
Rank(l) == IF l \in DOMAIN levelRank THEN levelRank[l] ELSE 0

parseLevel(s) ==
    LET l == ToUpper(TrimSpace(s))
    IN  IF l \in DOMAIN levelRank THEN l ELSE InfoLevel

LevelAtLeast(l, min) == Rank(l) >= Rank(min)
=============================================================================
