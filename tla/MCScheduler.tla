---------------------------- MODULE MCScheduler ----------------------------
EXTENDS SchedulerRefinement

Symmetry == Permutations(Workers) \cup Permutations(Callbacks)
=============================================================================
