----------------------------- MODULE MCThrPool -----------------------------
EXTENDS ThrPool, TLC

Symmetry == Permutations(Workers) \cup Permutations(Callers)
=============================================================================
