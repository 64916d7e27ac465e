--------------------------- MODULE MCCheckpointing ---------------------------
EXTENDS Checkpointing, TLC

Symmetry == Permutations(Threads)
=============================================================================
