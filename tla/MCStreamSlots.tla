--------------------------- MODULE MCStreamSlots ---------------------------
EXTENDS StreamSlots, TLC

Symmetry == Permutations(Streams)
=============================================================================
