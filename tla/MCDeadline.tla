----------------------------- MODULE MCDeadline -----------------------------
(***************************************************************************)
(* Small instances of Deadline for TLC: a second has 4 milliseconds of 3   *)
(* nanoseconds each.  to_min is a second, as it is in rpc.cc.              *)
(***************************************************************************)
EXTENDS Deadline

\* Whole seconds, like to_max, and others, as in rpctest.cc.
Timeouts == {0, 1, 3, 4, 5, 10, 12, 14, 16}
=============================================================================
