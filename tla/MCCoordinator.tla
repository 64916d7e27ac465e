---------------------------- MODULE MCCoordinator ----------------------------
EXTENDS Coordinator, TLC

Symmetry == Permutations(Workers)
=============================================================================
