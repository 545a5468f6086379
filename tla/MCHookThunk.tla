---------------------------- MODULE MCHookThunk ----------------------------
EXTENDS HookThunk, TLC

Sym == Permutations(Thread) \cup Permutations(Image) \cup Permutations(Buffer)
=============================================================================
