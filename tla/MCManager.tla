----------------------------- MODULE MCManager -----------------------------
(* Instances of Manager for TLC. *)
EXTENDS Manager

CONSTANTS p1, p2        \* model values: the calling goroutines

MCProducers  == {p1, p2}
MCSizes      == {0, 1}
MCLargeSizes == {0, 2}

\* The producers are interchangeable.  Only for the safety runs.
MCSymmetry == Permutations(MCProducers)
=============================================================================
