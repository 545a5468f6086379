-------------------------- MODULE MCThreadpoolWork --------------------------
EXTENDS ThreadpoolWork, TLC

Symmetry == Permutations(Client) \cup Permutations(Worker)
=============================================================================
