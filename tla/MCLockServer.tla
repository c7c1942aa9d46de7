---------------------------- MODULE MCLockServer ----------------------------
EXTENDS LockServer, TLC

Symmetry == Permutations(Threads) \cup Permutations(Workers)
=============================================================================
