---------------------------- MODULE MCServerLife ----------------------------
(***************************************************************************)
(* A small instance of ServerLife for TLC: a client with a nonce that      *)
(* connects again, and one without.                                        *)
(***************************************************************************)
EXTENDS ServerLife, TLC

MCNonce == (1 :> 7) @@ (2 :> 7) @@ (3 :> 0)

Symmetry == Permutations(Workers)
=============================================================================
