----------------------------- MODULE ByteFiles -----------------------------
(***************************************************************************)
(* What files promise to programs: each is a sequence of bytes, whatever   *)
(* blocks hold it.  An open file is at a position of one; a write() puts   *)
(* its bytes there, piece by piece, each piece at once and after the ones  *)
(* before, wherever the position is by then, and no other file changes.  A *)
(* read() moves the position.  A power failure closes all files and        *)
(* changes no contents.  A file without a name is gone once it is closed.  *)
(* FileBlocks implements this.                                             *)
(***************************************************************************)
EXTENDS Naturals, Sequences

CONSTANTS Writers, Handles, Names, Longest, Nowhere

VARIABLES
    bytes,      \* the contents of each file
    linked,     \* the files that have a name
    at, pos,    \* the file each handle is open on, and its position there
    handle,     \* the handle of each writer
    todo        \* what it has still to write

FilesVars == <<bytes, linked, at, pos, handle, todo>>

FilesInit ==
    /\ bytes = [i \in Names |-> <<>>]
    /\ linked = {}
    /\ at = [h \in Handles |-> Nowhere]
    /\ pos = [h \in Handles |-> 0]
    /\ handle = [w \in Writers |-> Nowhere]
    /\ todo = [w \in Writers |-> <<>>]

\* s with the bytes t from position k on.
Over(s, k, t) ==
    [j \in 1 .. (IF k + Len(t) > Len(s) THEN k + Len(t) ELSE Len(s)) |->
        IF j > k /\ j <= k + Len(t) THEN t[j - k] ELSE s[j]]

Opened(w, h, i) ==
    /\ \A v \in Writers : handle[v] # h
    /\ handle' = [handle EXCEPT ![w] = h]
    /\ at' = [at EXCEPT ![h] = i]
    /\ pos' = [pos EXCEPT ![h] = 0]
    /\ UNCHANGED <<bytes, todo>>

Open(w, h, i) == i \in linked /\ Opened(w, h, i) /\ UNCHANGED linked

Create(w, h, i) ==
    /\ i \notin linked /\ bytes[i] = <<>>
    /\ linked' = linked \cup {i}
    /\ Opened(w, h, i)

Share(w, v) ==
    /\ handle[w] # Nowhere /\ handle[v] = Nowhere
    /\ handle' = [handle EXCEPT ![v] = handle[w]]
    /\ UNCHANGED <<bytes, linked, at, pos, todo>>

\* The last writer that closes a handle ends it.
Close(w) ==
    /\ handle[w] # Nowhere /\ todo[w] = <<>>
    /\ handle' = [handle EXCEPT ![w] = Nowhere]
    /\ LET last == \A v \in Writers \ {w} : handle[v] # handle[w]
       IN  at' = [at EXCEPT ![handle[w]] = IF last THEN Nowhere ELSE @]
    /\ UNCHANGED <<bytes, linked, pos, todo>>

Ask(w) ==
    /\ todo[w] = <<>> /\ handle[w] # Nowhere /\ todo'[w] # <<>>
    /\ todo' = [todo EXCEPT ![w] = todo'[w]]
    /\ UNCHANGED <<bytes, linked, at, pos, handle>>

\* The next n bytes of what w has to write.
Write(w, n) ==
    LET h == handle[w]
    IN  /\ todo[w] # <<>> /\ n <= Len(todo[w])
        /\ bytes' = [bytes EXCEPT ![at[h]] = Over(@, pos[h], SubSeq(todo[w], 1, n))]
        /\ pos' = [pos EXCEPT ![h] = @ + n]
        /\ todo' = [todo EXCEPT ![w] = SubSeq(@, n + 1, Len(@))]
        /\ UNCHANGED <<linked, at, handle>>

\* write() gives up: the file would get too long.
Fail(w) ==
    /\ todo[w] # <<>> /\ pos[handle[w]] + Len(todo[w]) > Longest
    /\ todo' = [todo EXCEPT ![w] = <<>>]
    /\ UNCHANGED <<bytes, linked, at, pos, handle>>

Read(w) ==
    /\ handle[w] # Nowhere
    /\ pos' = [pos EXCEPT ![handle[w]] = pos'[handle[w]]]
    /\ pos'[handle[w]] \in pos[handle[w]] .. Len(bytes[at[handle[w]]])
    /\ UNCHANGED <<bytes, linked, at, handle, todo>>

Unlink(i) ==
    /\ i \in linked
    /\ linked' = linked \ {i}
    /\ UNCHANGED <<bytes, at, pos, handle, todo>>

Vanish(i) ==
    /\ i \notin linked /\ \A h \in Handles : at[h] # i
    /\ bytes' = [bytes EXCEPT ![i] = <<>>]
    /\ UNCHANGED <<linked, at, pos, handle, todo>>

LosePower ==
    /\ at' = [h \in Handles |-> Nowhere]
    /\ pos' = [h \in Handles |-> 0]
    /\ handle' = [w \in Writers |-> Nowhere]
    /\ todo' = [w \in Writers |-> <<>>]
    /\ UNCHANGED <<bytes, linked>>

FilesNext ==
    \/ \E w \in Writers :
        \/ \E h \in Handles, i \in Names : Open(w, h, i) \/ Create(w, h, i)
        \/ \E v \in Writers : Share(w, v)
        \/ Close(w) \/ Ask(w) \/ Fail(w) \/ Read(w)
        \/ \E n \in 1 .. Longest : Write(w, n)
    \/ \E i \in Names : Unlink(i) \/ Vanish(i)
    \/ LosePower

FilesSpec == FilesInit /\ [][FilesNext]_FilesVars

=============================================================================
