---------------------------- MODULE MCSharedPtr ----------------------------
EXTENDS SharedPtr, TLC

Symmetry == Permutations(Owners) \cup Permutations(Observers) \cup Permutations(Wrappers)
=============================================================================
