------------------------------ MODULE LogStore ------------------------------
(***************************************************************************)
(* What a storage backend promises the Manager (writer.go, reader.go,      *)
(* clearer.go): it keeps the entries in the order in which they were       *)
(* written, until a Clear removes those before its cut-off, and only those *)
(* with a timestamp before it.  An entry whose Write failed may be there   *)
(* all the same, and may go again for as long as it is the last one.       *)
(* FileStore, and the two stores of Backends, are shown to implement this. *)
(***************************************************************************)
EXTENDS Integers, SequencesExt, Subsequences

CONSTANTS
    Entry,          \* records with a timestamp ts
    CutOffs         \* the arguments of Clear

VARIABLES
    stored,         \* the entries in the store, in the order of their writes
    firm            \* those of them whose Write returned nil

vars == <<stored, firm>>

Init ==
    /\ stored = <<>>
    /\ firm = {}

Write(e) ==
    /\ stored' = Append(stored, e)
    /\ firm' \in {firm, firm \cup {e}}

Spoil ==
    /\ stored # <<>>
    /\ Last(stored) \notin firm
    /\ stored' = Front(stored)
    /\ UNCHANGED firm

Clear(before) ==
    /\ stored' = SubSeqAt(stored, {i \in DOMAIN stored : stored[i].ts >= before})
    /\ firm' = firm \cap Range(stored')

Next ==
    \/ \E e \in Entry : Write(e)
    \/ Spoil
    \/ \E before \in CutOffs : Clear(before)

Spec == Init /\ [][Next]_vars
=============================================================================
