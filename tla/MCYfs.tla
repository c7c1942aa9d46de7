------------------------------- MODULE MCYfs -------------------------------
(***************************************************************************)
(* Small file systems for TLC.                                             *)
(***************************************************************************)
EXTENDS Yfs, TLC

\* Names of different lengths, one of a single byte.
MCNames == {[tag |-> "a", len |-> 1], [tag |-> "b", len |-> 2], [tag |-> "c", len |-> 9]}
MCFewNames == {[tag |-> "a", len |-> 1], [tag |-> "b", len |-> 9]}
MCInums == {2, 3}

Symmetry == Permutations(Procs)
=============================================================================
