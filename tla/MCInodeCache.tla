--------------------------- MODULE MCInodeCache ---------------------------
\* Small instances of InodeCache for TLC: two names in the root, one of which
\* may be a directory with one name, and ".." from the working directory.
EXTENDS InodeCache, TLC

CONSTANTS a, b

MCNames == {a, b}
Abs(s) == [abs |-> TRUE, elems |-> s]
Up == [abs |-> FALSE, elems |-> <<"..">>]
Slash == Abs(<<>>)
A == Abs(<<a>>)
B == Abs(<<b>>)
AB == Abs(<<a, b>>)

On(c, paths) == [op : {c}, path : paths, new : {None}]
LinkOf(old, new) == [op |-> "link", path |-> old, new |-> new]

MCRequests ==
    On("open", {AB, Up}) \cup On("create", {B, AB}) \cup On("mkdir", {A, AB})
    \cup On("unlink", {A, B, AB}) \cup On("chdir", {AB, Up, Slash})
    \cup {LinkOf(AB, B), LinkOf(B, AB)}
FlatRequests ==
    On("create", {A, B}) \cup On("unlink", {A, B}) \cup {LinkOf(A, B), LinkOf(B, A)}

Symmetry == Permutations(Procs) \cup Permutations(Inums \ {Root})

=============================================================================
