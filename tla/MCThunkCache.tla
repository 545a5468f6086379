---------------------------- MODULE MCThunkCache ----------------------------
EXTENDS ThunkCache, TLC

\* Two functions of a DLL that has to be loaded, one of a DLL that is always there.
CONSTANTS f, g, k, lib, kernel
OwnModule == [a \in {f, g, k} |-> IF a = k THEN kernel ELSE lib]

Symmetry == Permutations(Thread) \cup Permutations({f, g})
=============================================================================
