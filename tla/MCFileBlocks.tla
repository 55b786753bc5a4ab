---------------------------- MODULE MCFileBlocks ----------------------------
(* FileBlocks for TLC: what programs write, and symmetry. *)
EXTENDS FileBlocks, TLC

CONSTANTS x, y

MCWrites == {<<x>>, <<y, x, x, y>>}

Symmetry == Permutations(Procs) \cup Permutations(Inodes) \cup Permutations(Files)

=============================================================================
