---------------------------- MODULE MCConnection ----------------------------
(***************************************************************************)
(* Small instances of Connection for TLC.                                  *)
(***************************************************************************)
EXTENDS Connection, TLC

\* Two PDUs to read, the first one of a header and two more units.
MCStream == <<1, 1, 1, 2, 2>>

\* One PDU, for liveness.
MCShort == <<1, 1>>

Symmetry == Permutations(Senders)
=============================================================================
