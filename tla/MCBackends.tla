----------------------------- MODULE MCBackends -----------------------------
(* Instances of Backends for TLC: an int64 of three bits, which can express neither the *)
(* year 1 nor the earlier cut-off.                                                      *)
EXTENDS Backends

CONSTANTS m1, m2, s1, s2    \* model values: messages, sources

MCZeroTime == -7
MCTimes    == {MCZeroTime, 0, 1, 2}
MCMinNano  == -4
MCCutOffs  == {-6, 1}
MCLevels   == {DebugLevel, WarnLevel}

\* Picking by position is SelectSeq, for the sequences that occur in this instance and more.
MCSequences == UNION {[1 .. n -> 1 .. 3] : n \in 0 .. 4}
ASSUME SubSeqAtSelects ==
    \A s \in MCSequences : \A V \in SUBSET (1 .. 3) :
        SubSeqAt(s, {i \in DOMAIN s : s[i] \in V}) = SelectSeq(s, LAMBDA x : x \in V)
=============================================================================
