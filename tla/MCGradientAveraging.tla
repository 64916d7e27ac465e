------------------------- MODULE MCGradientAveraging -------------------------
EXTENDS GradientAveraging, TLC

MCDummy == <<[name |-> "weight", shape |-> 2]>>
MCLayouts == {<<[name |-> "bias", shape |-> 1], [name |-> "weight", shape |-> 2]>>}
Symmetry == Permutations(Workers)
=============================================================================
