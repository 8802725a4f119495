----------------------------- MODULE MCLogging -----------------------------
EXTENDS Logging, TLC

CONSTANTS t1, t2, root, log1, log2, out0, out1, out2, file

MCOutOf == root :> out0 @@ log1 :> out1 @@ log2 :> out2
MCAppenderLevel == out0 :> 2 @@ out1 :> 1 @@ out2 :> 1 @@ file :> 1
MCLists == {<<file, out0>>}
Symmetry == Permutations(Threads)
=============================================================================
