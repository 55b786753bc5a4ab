------------------------------ MODULE MCPipes ------------------------------
\* Small instances of Pipes for TLC.
EXTENDS Pipes, TLC

ProcSymmetry == Permutations(Procs)
ByteSymmetry == Permutations(Procs) \cup Permutations(Bytes)

=============================================================================
