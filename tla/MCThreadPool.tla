---------------------------- MODULE MCThreadPool ----------------------------
EXTENDS ThreadPool, TLC

CONSTANTS k1, k2, k3, k4, k5

\* With two spawners and k5 both workers can be inside addTask() on a full queue.
NextTask(k) == IF k = k1 THEN k3 ELSE k4

Symmetry == Permutations(Workers) \cup Permutations(Producers)
=============================================================================
