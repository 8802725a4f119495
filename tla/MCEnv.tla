------------------------------- MODULE MCEnv -------------------------------
EXTENDS Env

Words == ({"-"} \X (Keys \cup {Help})) \cup ({Empty} \X Values)

MCCommandLines == UNION {[1..n -> Words] : n \in 0..4}

Symmetry == Permutations(Threads) \cup Permutations(Keys)
=============================================================================
