------------------------------ MODULE AsyncLog ------------------------------
(***************************************************************************)
(* What logGO.Manager promises its callers, with the channel, the locks    *)
(* and the handlers left out: an accepted entry waits in one FIFO backlog; *)
(* the writer takes the entries off its head one at a time and either      *)
(* commits or loses each; closing accepts nothing more, and is over only   *)
(* when the backlog is empty.  Manager.tla is shown to implement this.     *)
(***************************************************************************)
EXTENDS Sequences

CONSTANT Entry          \* the log entries callers may hand over

VARIABLES backlog,      \* accepted, not yet through the writer, oldest first
          committed,    \* what the writer has stored, oldest first
          phase         \* "open", then "closing", then "closed"

vars == <<backlog, committed, phase>>

TypeOK ==
    /\ backlog \in Seq(Entry)
    /\ committed \in Seq(Entry)
    /\ phase \in {"open", "closing", "closed"}

Init ==
    /\ backlog = <<>>
    /\ committed = <<>>
    /\ phase = "open"

Accept(e) ==
    /\ phase = "open"
    /\ backlog' = Append(backlog, e)
    /\ UNCHANGED <<committed, phase>>

Commit ==
    /\ backlog # <<>>
    /\ backlog' = Tail(backlog)
    /\ committed' = Append(committed, Head(backlog))
    /\ UNCHANGED phase

Lose ==
    /\ backlog # <<>>
    /\ backlog' = Tail(backlog)
    /\ UNCHANGED <<committed, phase>>

Shut ==
    /\ phase = "open"
    /\ phase' = "closing"
    /\ UNCHANGED <<backlog, committed>>

Finish ==
    /\ phase = "closing"
    /\ backlog = <<>>
    /\ phase' = "closed"
    /\ UNCHANGED <<backlog, committed>>

Next ==
    \/ \E e \in Entry : Accept(e)
    \/ Commit
    \/ Lose
    \/ Shut
    \/ Finish

SafeSpec == Init /\ [][Next]_vars

(***************************************************************************)
(* The writer keeps working through the backlog and a close that was       *)
(* begun is finished; nobody has to write or to close.                     *)
(***************************************************************************)
Fairness == WF_vars(Commit \/ Lose) /\ WF_vars(Finish)

Spec == SafeSpec /\ Fairness
=============================================================================
