---------------------------- MODULE MCSRWLock ----------------------------
EXTENDS SRWLock, TLC

Sym == Permutations(Thread)
=============================================================================
