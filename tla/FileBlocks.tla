----------------------------- MODULE FileBlocks -----------------------------
(***************************************************************************)
(* The contents of files (practice5/kernel/fs.c: balloc, bfree, bmap,      *)
(* itrunc, readi, writei, iput; file.c: fileread, filewrite, fileclose):   *)
(* which disk blocks hold which bytes of which file, while processes that  *)
(* share inodes and open files read, write and drop them.                  *)
(*                                                                         *)
(* A step is what happens under the lock of one buffer.  Transactions are  *)
(* those of the redo log (module RedoLog): a power failure leaves the disk *)
(* as it was when last no call was inside one, so Crash happens at such    *)
(* points, and what it undoes has not happened yet.  The waits of          *)
(* begin_op() are in RedoLog, names and directories in InodeCache.         *)
(***************************************************************************)
EXTENDS Integers, Sequences, FiniteSets

CONSTANTS
    Procs,
    Inodes,
    Files,          \* entries of the file table
    NBLOCKS,        \* data blocks of the disk
    BPB,            \* data blocks whose bits are in one block of the bitmap
    BSIZE,          \* bytes, and block addresses, in a block
    NDIRECT,        \* addresses of blocks in an inode
    MAXOPBLOCKS,    \* blocks a call may log
    Vals,           \* bytes other than 0
    Stale,          \* whatever words a block has that is not in use
    Writes,         \* bound: what programs write in one call
    Reads,          \* bound: how many bytes they read in one call
    MaxCalls,       \* bound: calls and power failures in a behaviour
    None

ASSUME SizesAssumption ==
    /\ NBLOCKS \in Nat \ {0} /\ BPB \in Nat \ {0} /\ BSIZE \in Nat \ {0}
    /\ NDIRECT \in Nat \ {0} /\ MAXOPBLOCKS \in Nat
ASSUME FiniteAssumption == IsFiniteSet(Procs) /\ IsFiniteSet(Inodes) /\ IsFiniteSet(Files)
ASSUME WritesAssumption == Writes \subseteq Seq(Vals) \ {<<>>} /\ Reads \subseteq Nat
ASSUME CallsAssumption == MaxCalls \in Nat

Blocks == 1 .. NBLOCKS
ASSUME NoneAssumption ==
    /\ None \notin Inodes \cup Files \cup Procs
    /\ Vals \cap ((0 .. NBLOCKS) \cup {Stale}) = {}
    /\ Stale \notin 0 .. NBLOCKS

MAXFILE == NDIRECT + BSIZE          \* NINDIRECT addresses fill a block

VARIABLES
    used,       \* the bitmap: blocks in use
    data,       \* the words of each block: bytes or addresses
    disk,       \* the inodes on disk
    mem,        \* the inodes in the cache, the same while they are unlocked
    ref,        \* references to each inode in the cache
    fd,         \* the open file of each process
    file,       \* inode and offset of each open file
    call,       \* what each process is at
    panicked,   \* why the kernel panicked, or "no"
    calls       \* how many calls there were, for the bound

vars == <<used, data, disk, mem, ref, fd, file, call, panicked, calls>>

-----------------------------------------------------------------------------
Words == 0 .. BSIZE - 1
Zeroed == [w \in Words |-> 0]
Unused == [w \in Words |-> Stale]
FreeInode == [type |-> "free", nlink |-> 0, size |-> 0,
              addrs |-> [k \in 0 .. NDIRECT |-> 0]]

\* A process in user code.  In filewrite(): todo is what is left of the call, src
\* what is left of the chunk writei() is at, off where it goes, k the block of the
\* bitmap that balloc() looks at, new the block it has marked and not yet cleared.
\* In iput(): k is the loop counter of itrunc().  ip is the inode both are at.
\* History, no part of the code: the blocks logged since begin_op(), and the
\* contents of ip before the chunk.
Idle == [pc |-> "user", todo |-> <<>>, src |-> <<>>, off |-> 0, new |-> 0,
         ip |-> None, k |-> 0, logged |-> {}, before |-> <<>>]

Init ==
    /\ used = {}
    /\ data = [b \in Blocks |-> Unused]
    /\ disk = [i \in Inodes |-> FreeInode]
    /\ mem = [i \in Inodes |-> FreeInode]
    /\ ref = [i \in Inodes |-> 0]
    /\ fd = [p \in Procs |-> None]
    /\ file = [f \in Files |-> [ip |-> None, off |-> 0]]
    /\ call = [p \in Procs |-> Idle]
    /\ panicked = "no"
    /\ calls = 0

-----------------------------------------------------------------------------
(* Parts of actions *)

At(p, c) == call[p].pc = c
InOp(p) == call[p].pc \in {"write", "zero", "put", "trunc", "drop"}
Ip(p) == call[p].ip
Off(p) == file[fd[p]].off

Locked(i) == \E p \in Procs : Ip(p) = i /\ call[p].pc \in {"write", "zero", "trunc"}

\* Blocks as the log counts them; a block of the bitmap has the bits of BPB blocks.
BBLOCK(b) == <<"bitmap", (b - 1) \div BPB>>
IBLOCK(i) == <<"inode", i>>
DBLOCK(b) == <<"data", b>>
LastBBLOCK == (NBLOCKS - 1) \div BPB

\* What a call reserves is enough to write the bytes of one block, and to unlink a file
\* that has blocks all over the bitmap.
ASSUME ReservationAssumption == MAXOPBLOCKS >= 6 /\ MAXOPBLOCKS >= LastBBLOCK + 3

Min2(a, b) == IF a < b THEN a ELSE b
First(s, n) == SubSeq(s, 1, Min2(n, Len(s)))
Rest(s, n) == SubSeq(s, n + 1, Len(s))

\* Block bn of inode ip as bmap() finds it, 0 where there is none yet.
Indirect(ip) == ip.addrs[NDIRECT]
BlockAt(ip, bn) ==
    IF bn < NDIRECT THEN ip.addrs[bn]
    ELSE IF Indirect(ip) = 0 THEN 0
    ELSE data[Indirect(ip)][bn - NDIRECT]

Contents(ip) ==
    [j \in 1 .. ip.size |-> data[BlockAt(ip, (j - 1) \div BSIZE)][(j - 1) % BSIZE]]

\* An inode that is not in the cache is read by ilock().
Cached(i) == IF ref[i] = 0 THEN disk[i] ELSE mem[i]

Panic(what) == panicked' = what

-----------------------------------------------------------------------------
(* Files are opened, shared and closed *)

\* open(), as soon as its inode is counted: filealloc() gives p the entry f.
OpenFile(p, f, i) ==
    /\ \A q \in Procs : fd[q] # f
    /\ fd' = [fd EXCEPT ![p] = f]
    /\ file' = [file EXCEPT ![f] = [ip |-> i, off |-> 0]]
    /\ ref' = [ref EXCEPT ![i] = @ + 1]

Open(p, f, i) ==
    /\ At(p, "user") /\ fd[p] = None
    /\ disk[i].nlink > 0
    /\ OpenFile(p, f, i)
    /\ mem' = [mem EXCEPT ![i] = Cached(i)]
    /\ UNCHANGED <<used, data, disk, call, panicked>>

\* open() with O_CREATE: ialloc() takes an inode that is free on disk.
Create(p, f, i) ==
    /\ At(p, "user") /\ fd[p] = None
    /\ disk[i].type = "free"
    /\ OpenFile(p, f, i)
    /\ disk' = [disk EXCEPT ![i] = [FreeInode EXCEPT !.type = "file", !.nlink = 1]]
    /\ mem' = [mem EXCEPT ![i] = disk'[i]]
    /\ UNCHANGED <<used, data, call, panicked>>

\* fork(): filedup().
Fork(p, q) ==
    /\ At(p, "user") /\ fd[p] # None
    /\ At(q, "user") /\ fd[q] = None
    /\ fd' = [fd EXCEPT ![q] = fd[p]]
    /\ UNCHANGED <<used, data, disk, mem, ref, file, call, panicked>>

\* fileclose(): the last reference to the open file ends in begin_op() and iput().
Close(p) ==
    LET f == fd[p]
        last == \A q \in Procs \ {p} : fd[q] # f
    IN  /\ At(p, "user") /\ f # None
        /\ fd' = [fd EXCEPT ![p] = None]
        /\ file' = [file EXCEPT ![f] = [@ EXCEPT !.ip = IF last THEN None ELSE file[f].ip]]
        /\ call' = [call EXCEPT ![p] = IF last
                        THEN [Idle EXCEPT !.pc = "put", !.ip = file[f].ip] ELSE @]
        /\ UNCHANGED <<used, data, disk, mem, ref, panicked>>

\* unlink() of the name of i, up to its last iunlockput().
Unlink(p, i) ==
    /\ At(p, "user")
    /\ disk[i].nlink > 0 /\ ~Locked(i)
    /\ mem' = [mem EXCEPT ![i] = [Cached(i) EXCEPT !.nlink = 0]]
    /\ disk' = [disk EXCEPT ![i] = mem'[i]]
    /\ ref' = [ref EXCEPT ![i] = @ + 1]
    /\ call' = [call EXCEPT ![p] = [Idle EXCEPT !.pc = "put", !.ip = i,
                                       !.logged = {<<"directory">>, IBLOCK(i)}]]
    /\ UNCHANGED <<used, data, fd, file, panicked>>

-----------------------------------------------------------------------------
(* filewrite() and writei() *)

Write(p, s) ==
    /\ At(p, "user") /\ fd[p] # None
    /\ call' = [call EXCEPT ![p] = [Idle EXCEPT !.pc = "begin", !.todo = s]]
    /\ UNCHANGED <<used, data, disk, mem, ref, fd, file, panicked>>

\* Mutant: the bitmap blocks of the data blocks are forgotten.
ChunkWithoutBitmap == (MAXOPBLOCKS - 1 - 1 - 2) * BSIZE

\* A few blocks at a time: max in filewrite().
Chunk == ((MAXOPBLOCKS - 1 - 1 - 2) \div 2) * BSIZE

\* Mutant: where the chunk goes is read before ilock().
IlockOfOldOffset(p) ==
    LET i == file[fd[p]].ip
        n == Len(First(call[p].todo, Chunk))
    IN  /\ At(p, "begin") /\ ~Locked(i)
        /\ call[p].off + n <= MAXFILE * BSIZE
        /\ call' = [call EXCEPT ![p] =
                [@ EXCEPT !.pc = "write", !.ip = i, !.src = First(call[p].todo, Chunk),
                          !.before = Contents(mem[i])]]
        /\ UNCHANGED <<used, data, disk, mem, ref, fd, file, panicked>>

\* begin_op(), ilock() and the checks of writei(): a chunk that does not fit ends
\* the call.
Ilock(p) ==
    LET i == file[fd[p]].ip
        src == First(call[p].todo, Chunk)
    IN  /\ At(p, "begin") /\ ~Locked(i)
        /\ call' = [call EXCEPT ![p] =
                IF Off(p) > mem[i].size \/ Off(p) + Len(src) > MAXFILE * BSIZE
                THEN Idle
                ELSE [@ EXCEPT !.pc = "write", !.ip = i, !.off = Off(p), !.src = src,
                               !.before = Contents(mem[i])]]
        /\ UNCHANGED <<used, data, disk, mem, ref, fd, file, panicked>>

\* The place in inode i that bmap() of block bn finds empty: the address of the
\* block itself, or that of the indirect block.
Lacks(p) ==
    LET i == Ip(p)
        bn == call[p].off \div BSIZE
    IN  At(p, "write") /\ call[p].src # <<>> /\ BlockAt(mem[i], bn) = 0

\* balloc() looks at block k of the bitmap and marks the first free block there, or
\* goes on to the next one.
Balloc(p) ==
    LET k == call[p].k
        free == {b \in Blocks \ used : BBLOCK(b) = <<"bitmap", k>>}
        b == CHOOSE x \in free : \A y \in free : x <= y
    IN  /\ Lacks(p)
        /\ \/ /\ free # {}
              /\ used' = used \cup {b}
              /\ call' = [call EXCEPT ![p] =
                        [@ EXCEPT !.pc = "zero", !.new = b, !.k = 0,
                                  !.logged = call[p].logged \cup {BBLOCK(b)}]]
              /\ UNCHANGED panicked
           \/ /\ free = {} /\ k < LastBBLOCK
              /\ call' = [call EXCEPT ![p] = [@ EXCEPT !.k = k + 1]]
              /\ UNCHANGED <<used, panicked>>
           \/ /\ free = {} /\ k = LastBBLOCK
              /\ Panic("balloc: out of blocks")
              /\ UNCHANGED <<used, call>>
        /\ UNCHANGED <<data, disk, mem, ref, fd, file>>

\* bzero(), and bmap() puts the block where it was missing.
Bzero(p) ==
    LET i == Ip(p)
        b == call[p].new
        bn == call[p].off \div BSIZE
        here == IF bn < NDIRECT THEN bn ELSE NDIRECT
        entry == bn >= NDIRECT /\ Indirect(mem[i]) # 0
    IN  /\ At(p, "zero")
        /\ IF entry
           THEN /\ data' = [data EXCEPT ![b] = Zeroed, ![Indirect(mem[i])] =
                                            [@ EXCEPT ![bn - NDIRECT] = b]]
                /\ UNCHANGED mem
           ELSE /\ data' = [data EXCEPT ![b] = Zeroed]
                /\ mem' = [mem EXCEPT ![i] =
                                [@ EXCEPT !.addrs = [mem[i].addrs EXCEPT ![here] = b]]]
        /\ call' = [call EXCEPT ![p] = [@ EXCEPT !.pc = "write", !.new = 0,
                        !.logged = call[p].logged \cup {DBLOCK(b)}
                            \cup (IF entry THEN {DBLOCK(Indirect(mem[i]))} ELSE {})]]
        /\ UNCHANGED <<used, disk, ref, fd, file, panicked>>

\* One turn of the loop of writei(): the bytes that go to one block.  After the last
\* one, a file that grew gets its size, and iupdate().
WriteBlock(p) ==
    LET c == call[p]
        i == Ip(p)
        o == c.off % BSIZE
        m == Min2(Len(c.src), BSIZE - o)
        grew == m = Len(c.src) /\ c.off + m > mem[i].size
        b == BlockAt(mem[i], c.off \div BSIZE)
    IN  /\ At(p, "write") /\ c.src # <<>> /\ ~Lacks(p)
        /\ data' = [data EXCEPT ![b] =
                [w \in Words |-> IF w \in o .. o + m - 1 THEN c.src[w - o + 1] ELSE @[w]]]
        /\ mem' = IF grew THEN [mem EXCEPT ![i] = [@ EXCEPT !.size = c.off + m]] ELSE mem
        /\ disk' = IF grew THEN [disk EXCEPT ![i] = mem'[i]] ELSE disk
        /\ call' = [call EXCEPT ![p] = [@ EXCEPT !.src = Rest(c.src, m), !.off = c.off + m,
                        !.logged = c.logged \cup {DBLOCK(b)}
                            \cup (IF grew THEN {IBLOCK(i)} ELSE {})]]
        /\ UNCHANGED <<used, ref, fd, file, panicked>>

\* The offset of the open file, iunlock() and end_op(), and the next turn of the
\* loop of filewrite().
ChunkDone(p) ==
    LET left == Rest(call[p].todo, call[p].off - Off(p))
    IN  /\ At(p, "write") /\ call[p].src = <<>>
        /\ file' = [file EXCEPT ![fd[p]] = [@ EXCEPT !.off = call[p].off]]
        /\ call' = [call EXCEPT ![p] = IF left = <<>> THEN Idle
                        ELSE [Idle EXCEPT !.pc = "begin", !.todo = left]]
        /\ UNCHANGED <<used, data, disk, mem, ref, fd, panicked>>

\* fileread(): readi() of at most n bytes, under the lock of the inode.
Read(p, n) ==
    LET i == file[fd[p]].ip
    IN  /\ At(p, "user") /\ fd[p] # None /\ ~Locked(i)
        /\ Off(p) <= mem[i].size
        /\ file' = [file EXCEPT ![fd[p]] = [@ EXCEPT !.off = Min2(Off(p) + n, mem[i].size)]]
        /\ UNCHANGED <<used, data, disk, mem, ref, fd, call, panicked>>

-----------------------------------------------------------------------------
(* iput() and itrunc() *)

\* Under the lock of the inode: is this the last reference to a file without links?
Unwanted(i) == mem[i].nlink = 0 /\ ref[i] = 1

\* What itrunc() frees will be logged with the inode, by iupdate().
Iput(p) ==
    /\ At(p, "put") /\ ~Locked(Ip(p))
    /\ call' = [call EXCEPT ![p] = IF Unwanted(Ip(p))
            THEN [@ EXCEPT !.pc = "trunc", !.logged = call[p].logged \cup {IBLOCK(Ip(p))}]
            ELSE [@ EXCEPT !.pc = "drop"]]
    /\ UNCHANGED <<used, data, disk, mem, ref, fd, file, panicked>>

\* The reference goes in a critical section of its own; end_op().
Drop(p) ==
    /\ At(p, "drop")
    /\ ref' = [ref EXCEPT ![Ip(p)] = @ - 1]
    /\ call' = [call EXCEPT ![p] = Idle]
    /\ UNCHANGED <<used, data, disk, mem, fd, file, panicked>>

\* Mutant: the indirect block is freed before the blocks in it.
DoomedIndirectFirst(p, k) ==
    IF k < NDIRECT THEN mem[Ip(p)].addrs[k]
    ELSE IF k = NDIRECT THEN Indirect(mem[Ip(p)]) ELSE BlockAt(mem[Ip(p)], k - 1)

\* What itrunc() frees in turn: the direct blocks, the blocks in the indirect
\* block, the indirect block.
Doomed(p, k) == IF k = MAXFILE THEN Indirect(mem[Ip(p)]) ELSE BlockAt(mem[Ip(p)], k)

ToFree(p) == {k \in call[p].k .. MAXFILE : Doomed(p, k) # 0}

\* The next bfree() of itrunc().
Bfree(p) ==
    /\ At(p, "trunc")
    /\ \E k \in ToFree(p) :
        LET b == Doomed(p, k)
        IN  /\ \A j \in ToFree(p) : k <= j
            /\ IF b \notin used
               THEN Panic("freeing free block") /\ UNCHANGED <<used, data, call>>
               ELSE /\ used' = used \ {b}
                    /\ data' = [data EXCEPT ![b] = Unused]
                    /\ call' = [call EXCEPT ![p] =
                            [@ EXCEPT !.k = k + 1, !.logged = call[p].logged \cup {BBLOCK(b)}]]
                    /\ UNCHANGED panicked
    /\ UNCHANGED <<disk, mem, ref, fd, file>>

\* The end of itrunc(), and iput() marks the inode free on disk and unlocks it.
FreeTheInode(p) ==
    /\ At(p, "trunc") /\ ToFree(p) = {}
    /\ disk' = [disk EXCEPT ![Ip(p)] = FreeInode]
    /\ mem' = [mem EXCEPT ![Ip(p)] = FreeInode]
    /\ call' = [call EXCEPT ![p] = [@ EXCEPT !.pc = "drop"]]
    /\ UNCHANGED <<used, data, ref, fd, file, panicked>>

\* The power fails: the disk is what the last commit wrote, memory is new.
Crash ==
    /\ \A p \in Procs : ~InOp(p)
    /\ mem' = disk
    /\ ref' = [i \in Inodes |-> 0]
    /\ fd' = [p \in Procs |-> None]
    /\ file' = [f \in Files |-> [ip |-> None, off |-> 0]]
    /\ call' = [p \in Procs |-> Idle]
    /\ UNCHANGED <<used, data, disk, panicked>>

-----------------------------------------------------------------------------
\* Programs make a call, or a call goes on.
Call(p) ==
    \/ \E f \in Files, i \in Inodes : Open(p, f, i) \/ Create(p, f, i)
    \/ \E q \in Procs : Fork(p, q)
    \/ Close(p) \/ \E i \in Inodes : Unlink(p, i)
    \/ \E s \in Writes : Write(p, s)
    \/ \E n \in Reads : Read(p, n)

Step(p) ==
    \/ Ilock(p) \/ Balloc(p) \/ Bzero(p) \/ WriteBlock(p) \/ ChunkDone(p)
    \/ Iput(p) \/ Bfree(p) \/ FreeTheInode(p) \/ Drop(p)

Next ==
    /\ panicked = "no"
    /\ \/ /\ calls < MaxCalls /\ calls' = calls + 1
          /\ Crash \/ \E p \in Procs : Call(p)
       \/ UNCHANGED calls /\ \E p \in Procs : Step(p)

Spec == Init /\ [][Next]_vars

-----------------------------------------------------------------------------
(* Properties *)

\* The values the variables take.
TypeOK ==
    LET Inode == [type : {"free", "file"}, nlink : {0, 1}, size : 0 .. MAXFILE * BSIZE,
                  addrs : [0 .. NDIRECT -> 0 .. NBLOCKS]]
    IN  /\ used \subseteq Blocks
        /\ data \in [Blocks -> [Words -> Vals \cup (0 .. NBLOCKS) \cup {Stale}]]
        /\ disk \in [Inodes -> Inode] /\ mem \in [Inodes -> Inode]
        /\ ref \in [Inodes -> Nat]
        /\ fd \in [Procs -> Files \cup {None}]
        /\ file \in [Files -> [ip : Inodes \cup {None}, off : 0 .. MAXFILE * BSIZE]]
        /\ \A p \in Procs :
            /\ call[p].new \in 0 .. NBLOCKS
            /\ call[p].k \in 0 .. IF At(p, "write") THEN LastBBLOCK ELSE MAXFILE + 1

\* What counts of inode i, and the blocks it has: those of its bytes by number, its
\* indirect block last.  itrunc() has given back the first of them.
Inode(i) == IF Locked(i) THEN mem[i] ELSE disk[i]
Freed(i) == IF \E p \in Procs : At(p, "trunc") /\ Ip(p) = i
            THEN call[CHOOSE p \in Procs : At(p, "trunc") /\ Ip(p) = i].k ELSE 0
Place(i, k) == IF k = MAXFILE THEN Indirect(Inode(i)) ELSE BlockAt(Inode(i), k)

\* No block is in two places of files, and the bitmap says of exactly the blocks in
\* files, and those that balloc() has just taken, that they are used: also on the
\* disk that a power failure leaves, and while one process frees blocks that
\* another one takes.
BlocksExact ==
    LET places == {x \in Inodes \X (0 .. MAXFILE) : x[2] >= Freed(x[1]) /\ Place(x[1], x[2]) # 0}
        held == {Place(x[1], x[2]) : x \in places}
        taken == {p \in Procs : At(p, "zero")}
        new == {call[p].new : p \in taken}
    IN  /\ used = held \cup new
        /\ Cardinality(used) = Cardinality(places) + Cardinality(taken)

\* The cache of inodes is write-through: nothing of an unlocked inode is only in
\* memory, where a power failure or the recycling of its entry would lose it.
NothingOnlyInMemory ==
    \A i \in Inodes : ref[i] > 0 /\ ~Locked(i) => mem[i] = disk[i]

\* Files have no holes, and no offset is beyond the end.
NoHoles ==
    /\ \A i \in Inodes : \A k \in 0 .. MAXFILE - 1 :
            Freed(i) = 0 => (k * BSIZE < Inode(i).size => BlockAt(Inode(i), k) # 0)
    /\ \A f \in Files : file[f].ip # None => file[f].off <= Inode(file[f].ip).size

\* The bookkeeping of blocks holds whatever else goes on.
Consistent ==
    /\ TypeOK
    /\ BlocksExact
    /\ NothingOnlyInMemory
    /\ NoHoles
    /\ panicked # "freeing free block"

\* No call logs more blocks than begin_op() reserved for it: filewrite() cuts its
\* bytes into chunks small enough, wherever they begin in a block, whatever must be
\* allocated, and in whichever blocks of the bitmap.
WithinReservation ==
    \A p \in Procs : Cardinality(call[p].logged) <= MAXOPBLOCKS

-----------------------------------------------------------------------------
\* A chunk counts when its process unlocks the inode, and a file that iput() found
\* unused is gone.
Bytes(i) ==
    IF \E p \in Procs : Ip(p) = i /\ call[p].pc \in {"write", "zero"}
    THEN call[CHOOSE p \in Procs : Ip(p) = i /\ call[p].pc \in {"write", "zero"}].before
    ELSE IF Locked(i) THEN <<>> ELSE Contents(disk[i])

Bytewise == INSTANCE ByteFiles WITH
    Writers <- Procs, Handles <- Files, Names <- Inodes, Nowhere <- None,
    Longest <- MAXFILE * BSIZE,
    bytes <- [i \in Inodes |-> Bytes(i)],
    linked <- {i \in Inodes : disk[i].nlink > 0},
    at <- [f \in Files |-> file[f].ip], pos <- [f \in Files |-> file[f].off],
    handle <- fd, todo <- [p \in Procs |-> call[p].todo]

\* Blocks, the bitmap and the indirect block implement files: what one process
\* writes is what is read, no other file changes, chunks of processes that share an
\* open file go one after the other, and a power failure takes no chunk apart.
ImplementsFiles == Bytewise!FilesSpec

=============================================================================
