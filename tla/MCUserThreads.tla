--------------------------- MODULE MCUserThreads ---------------------------
EXTENDS UserThreads, TLC

WorkerSymmetry == Permutations(Workers \ Callers)
=============================================================================
