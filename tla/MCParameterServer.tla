------------------------- MODULE MCParameterServer -------------------------
EXTENDS ParameterServer, TLC

\* Sound for the invariants only.
Symmetry == Permutations(Threads) \cup Permutations(Workers) \cup Permutations(Gradients)
=============================================================================
