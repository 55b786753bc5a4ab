----------------------------- MODULE MCProcTable -----------------------------
(* Instances of ProcTable for TLC. *)
EXTENDS ProcTable, TLC

\* Page directories are interchangeable: nothing orders them.
PageDirSymmetry == Permutations(PageDirs)

=============================================================================
