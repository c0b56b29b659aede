---------------------------- MODULE MCFileStore ----------------------------
(* Instances of FileStore for TLC. *)
EXTENDS FileStore

MCTimes    == {1, 2}
MCOneSize  == {1}
MCTwoSizes == {1, 3}
=============================================================================
