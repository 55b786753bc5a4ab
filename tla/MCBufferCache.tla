--------------------------- MODULE MCBufferCache ---------------------------
\* Small instances of BufferCache for TLC.
EXTENDS BufferCache, TLC

BufSymmetry == Permutations(Bufs) \cup Permutations(Procs) \cup Permutations(Vals \ {Zero})

=============================================================================
