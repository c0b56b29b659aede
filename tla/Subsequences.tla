---------------------------- MODULE Subsequences ----------------------------
(***************************************************************************)
(* SelectSeq by position: what a Go loop that appends the elements it      *)
(* wants to a new slice does.  The elements are counted instead of visited *)
(* one after the other, because no fact about SelectSeq, which is defined  *)
(* by recursion, is within reach of the provers.                           *)
(***************************************************************************)
EXTENDS Integers, FiniteSets, Sequences

\* The elements of s at the positions in I, in their order.
SubSeqAt(s, I) ==
    LET Rank(i) == Cardinality({j \in I : j <= i})
    IN  [k \in 1 .. Cardinality(I) |-> s[CHOOSE i \in I : Rank(i) = k]]
=============================================================================
