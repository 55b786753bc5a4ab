---------------------------- MODULE BufferCache ----------------------------
(***************************************************************************)
(* The buffer cache (practice5/kernel/bio.c), the sleep lock of each       *)
(* buffer (sleeplock.c), the queue of the IDE driver and its interrupt     *)
(* (ide.c), at the granularity of the critical sections of bcache.lock, of *)
(* the spin lock inside a sleep lock, and of idelock.  RedoLog uses it as  *)
(* a map of cached blocks; here is what that map is made of.               *)
(*                                                                         *)
(* A process holds the buffers of its stack.  Blocks are numbered in the   *)
(* order in which the file system takes two at a time: a log block before  *)
(* its home in commit(), an indirect block before the bitmap and the new   *)
(* block that bmap() fetches under it.  Which of the free buffers bget()       *)
(* recycles is left open; the code takes the least recently used.          *)
(***************************************************************************)
EXTENDS Integers, Sequences, FiniteSets

CONSTANTS
    Procs, Bufs, Vals,
    NBLOCKS,        \* blocks of the disk
    Zero,           \* the contents mkfs gives a block
    MaxHeld,        \* buffers a process holds at a time
    None

Blocks == 1 .. NBLOCKS

ASSUME SizeAssumption == {NBLOCKS, MaxHeld} \subseteq Nat \ {0}
ASSUME ZeroAssumption == Zero \in Vals
ASSUME ProcsAssumption == IsFiniteSet(Procs)
ASSUME NoneAssumption == None \notin Procs \cup Vals \cup Blocks

VARIABLES
    blk,            \* buf.blockno
    refcnt,
    valid, dirty,   \* B_VALID and B_DIRTY in buf.flags
    data,
    owner,          \* who holds the sleep lock of the buffer
    disk,
    idequeue,       \* the head is the request the disk works on
    pc, stack,      \* of each process: where it is, the buffers it has taken
    panicked

bufvars == <<blk, refcnt, valid, dirty, data, owner>>
vars == <<bufvars, disk, idequeue, pc, stack, panicked>>

-----------------------------------------------------------------------------
Goto(p, c) == pc' = [pc EXCEPT ![p] = c]
Elems(s) == {s[i] : i \in 1 .. Len(s)}

Holding(p, c, b) ==     \* p is at c, busy with buffer b
    pc[p] = c /\ stack[p] # <<>> /\ b = stack[p][Len(stack[p])]

Init ==
    /\ blk = [b \in Bufs |-> None]      \* device 0, which nobody reads
    /\ refcnt = [b \in Bufs |-> 0]
    /\ valid = [b \in Bufs |-> FALSE]
    /\ dirty = [b \in Bufs |-> FALSE]
    /\ data = [b \in Bufs |-> Zero]
    /\ owner = [b \in Bufs |-> None]
    /\ disk = [k \in Blocks |-> Zero]
    /\ idequeue = <<>>
    /\ pc = [p \in Procs |-> "idle"]
    /\ stack = [p \in Procs |-> <<>>]
    /\ panicked = FALSE

-----------------------------------------------------------------------------
(* bread *)

\* Mutant: buffers are taken in any order.
MayReadAny(p, k) ==
    \/ pc[p] = "idle"
    \/ /\ Len(stack[p]) < MaxHeld
       /\ \E b \in Bufs : Holding(p, "use", b) /\ blk[b] # k

\* The blocks p may ask for: any, or one above the block it holds.
MayRead(p, k) ==
    \/ pc[p] = "idle"
    \/ /\ Len(stack[p]) < MaxHeld
       /\ \E b \in Bufs : Holding(p, "use", b) /\ blk[b] < k

Push(p, b) ==
    /\ stack' = [stack EXCEPT ![p] = Append(@, b)]
    /\ Goto(p, "lock")

\* bget() under bcache.lock: the block is cached ...
Hit(p, k, b) ==
    /\ MayRead(p, k)
    /\ blk[b] = k
    /\ refcnt' = [refcnt EXCEPT ![b] = @ + 1]
    /\ Push(p, b)
    /\ UNCHANGED <<blk, valid, dirty, data, owner, disk, idequeue, panicked>>

FreeIfUnused(b) == refcnt[b] = 0        \* mutant: B_DIRTY does not pin

Free(b) == refcnt[b] = 0 /\ ~dirty[b]

\* Mutant: bget() recycles a buffer without looking for the block under the same lock.
RecycleUnchecked(p, k, b) ==
    /\ MayRead(p, k)
    /\ Free(b)
    /\ blk' = [blk EXCEPT ![b] = k]
    /\ refcnt' = [refcnt EXCEPT ![b] = 1]
    /\ valid' = [valid EXCEPT ![b] = FALSE]
    /\ Push(p, b)
    /\ UNCHANGED <<dirty, data, owner, disk, idequeue, panicked>>

\* ... or it takes the place of one that nobody uses and the log does not pin
Recycle(p, k, b) ==
    /\ MayRead(p, k)
    /\ k \notin {blk[c] : c \in Bufs}
    /\ Free(b)
    /\ blk' = [blk EXCEPT ![b] = k]
    /\ refcnt' = [refcnt EXCEPT ![b] = 1]
    /\ valid' = [valid EXCEPT ![b] = FALSE]
    /\ dirty' = [dirty EXCEPT ![b] = FALSE]
    /\ Push(p, b)
    /\ UNCHANGED <<data, owner, disk, idequeue, panicked>>

\* ... or there is none.
NoBuffers(p, k) ==
    /\ MayRead(p, k)
    /\ k \notin {blk[c] : c \in Bufs}
    /\ \A b \in Bufs : ~Free(b)
    /\ panicked' = TRUE
    /\ UNCHANGED <<bufvars, disk, idequeue, pc, stack>>

\* acquiresleep() of the buffer: take the lock, or sleep until it is released.
AcquireSleep(p, b) ==
    /\ Holding(p, "lock", b)
    /\ IF owner[b] = None
       THEN owner' = [owner EXCEPT ![b] = p] /\ Goto(p, "locked")
       ELSE Goto(p, "locksleep") /\ UNCHANGED owner
    /\ UNCHANGED <<blk, refcnt, valid, dirty, data, disk, idequeue, stack,
                   panicked>>

\* bread() returns a buffer that is valid ...
Cached(p, b) ==
    /\ Holding(p, "locked", b) /\ valid[b]
    /\ Goto(p, "use")
    /\ UNCHANGED <<bufvars, disk, idequeue, stack, panicked>>

\* ... and gives one that is not to iderw(), which queues it and sleeps.
Read(p, b) ==
    /\ Holding(p, "locked", b) /\ ~valid[b]
    /\ idequeue' = Append(idequeue, b)
    /\ Goto(p, "idesleep")
    /\ UNCHANGED <<bufvars, disk, stack, panicked>>

-----------------------------------------------------------------------------
(* The disk *)

\* ideintr(): the request at the head of the queue is done.  The contents of a
\* write were handed over by idestart(); nobody changed them since.
Interrupt ==
    /\ idequeue # <<>>
    /\ LET b == Head(idequeue) IN
        /\ IF dirty[b]
           THEN disk' = [disk EXCEPT ![blk[b]] = data[b]] /\ UNCHANGED data
           ELSE data' = [data EXCEPT ![b] = disk[blk[b]]] /\ UNCHANGED disk
        /\ valid' = [valid EXCEPT ![b] = TRUE]
        /\ dirty' = [dirty EXCEPT ![b] = FALSE]
        /\ pc' = [p \in Procs |-> IF Holding(p, "idesleep", b) THEN "idewait"
                                                               ELSE pc[p]]
    /\ idequeue' = Tail(idequeue)
    /\ UNCHANGED <<blk, refcnt, owner, stack, panicked>>

\* iderw() looks at the flags after sleep(): return, or sleep again.
Waited(p, b) ==
    /\ Holding(p, "idewait", b)
    /\ Goto(p, IF valid[b] /\ ~dirty[b] THEN "use" ELSE "idesleep")
    /\ UNCHANGED <<bufvars, disk, idequeue, stack, panicked>>

\* kill() wakes a process that sleeps here; neither loop looks at killed.
Kill(p) ==
    /\ pc[p] \in {"locksleep", "idesleep"}
    /\ Goto(p, IF pc[p] = "locksleep" THEN "lock" ELSE "idewait")
    /\ UNCHANGED <<bufvars, disk, idequeue, stack, panicked>>

-----------------------------------------------------------------------------
(* What the holder of a buffer does *)

\* The file system changes the contents; log_write() or bwrite() follows.
Modify(p, b) ==
    /\ Holding(p, "use", b)
    /\ \E v \in Vals : data' = [data EXCEPT ![b] = v]
    /\ Goto(p, "modified")
    /\ UNCHANGED <<blk, refcnt, valid, dirty, owner, disk, idequeue, stack,
                   panicked>>

\* log_write() pins the buffer in the cache.
LogWrite(p, b) ==
    /\ Holding(p, "modified", b)
    /\ dirty' = [dirty EXCEPT ![b] = TRUE]
    /\ Goto(p, "use")
    /\ UNCHANGED <<blk, refcnt, valid, data, owner, disk, idequeue, stack,
                   panicked>>

\* bwrite(), of a buffer just modified or of one that the log pinned.
Bwrite(p, b) ==
    /\ Holding(p, "modified", b) \/ (Holding(p, "use", b) /\ dirty[b])
    /\ dirty' = [dirty EXCEPT ![b] = TRUE]
    /\ idequeue' = Append(idequeue, b)
    /\ Goto(p, "idesleep")
    /\ UNCHANGED <<blk, refcnt, valid, data, owner, disk, stack, panicked>>

\* Mutant: releasesleep() wakes nobody.
ReleaseSleepSilently(p, b) ==
    /\ Holding(p, "use", b)
    /\ owner' = [owner EXCEPT ![b] = None]
    /\ Goto(p, "release")
    /\ UNCHANGED <<blk, refcnt, valid, dirty, data, disk, idequeue, stack,
                   panicked>>

\* brelse(): releasesleep() ...
ReleaseSleep(p, b) ==
    /\ Holding(p, "use", b)
    /\ owner' = [owner EXCEPT ![b] = None]
    /\ pc' = [q \in Procs |-> IF q = p THEN "release"
                              ELSE IF Holding(q, "locksleep", b) THEN "lock"
                              ELSE pc[q]]
    /\ UNCHANGED <<blk, refcnt, valid, dirty, data, disk, idequeue, stack,
                   panicked>>

\* ... and then, under bcache.lock, one reference less.
Release(p, b) ==
    /\ Holding(p, "release", b)
    /\ refcnt' = [refcnt EXCEPT ![b] = @ - 1]
    /\ stack' = [stack EXCEPT ![p] = SubSeq(@, 1, Len(@) - 1)]
    /\ Goto(p, IF Len(stack[p]) = 1 THEN "idle" ELSE "use")
    /\ UNCHANGED <<blk, valid, dirty, data, owner, disk, idequeue, panicked>>

-----------------------------------------------------------------------------
\* Steps of a process that has begun a bread(), bwrite() or brelse().
Continue(p) ==
    \E b \in Bufs :
        \/ AcquireSleep(p, b) \/ Cached(p, b) \/ Read(p, b) \/ Waited(p, b)
        \/ LogWrite(p, b) \/ Bwrite(p, b)
        \/ ReleaseSleep(p, b) \/ Release(p, b)

Step(p) ==
    \/ \E k \in Blocks :
        NoBuffers(p, k) \/ \E b \in Bufs : Hit(p, k, b) \/ Recycle(p, k, b)
    \/ \E b \in Bufs : Modify(p, b)
    \/ Continue(p)
    \/ Kill(p)

Next == ~panicked /\ (Interrupt \/ \E p \in Procs : Step(p))

Spec == Init /\ [][Next]_vars

-----------------------------------------------------------------------------
(* Properties *)

PCs == {"idle", "lock", "locksleep", "locked", "idesleep", "idewait", "use",
        "modified", "release"}

\* The values the variables take.
TypeOK ==
    /\ blk \in [Bufs -> Blocks \cup {None}]
    /\ refcnt \in [Bufs -> Nat]
    /\ valid \in [Bufs -> BOOLEAN] /\ dirty \in [Bufs -> BOOLEAN]
    /\ data \in [Bufs -> Vals]
    /\ owner \in [Bufs -> Procs \cup {None}]
    /\ disk \in [Blocks -> Vals]
    /\ idequeue \in Seq(Bufs)
    /\ pc \in [Procs -> PCs]
    /\ stack \in [Procs -> Seq(Bufs)]
    /\ panicked \in BOOLEAN

\* A block has one buffer, whoever asks for it at the same time.
OneBuffer == \A b, c \in Bufs : blk[b] = blk[c] /\ blk[b] # None => b = c

\* A reference is counted for each process that has asked for the buffer and
\* not let go of it: a buffer in use is never recycled, an unused one is not
\* kept for ever.
RefsExact ==
    \A b \in Bufs : refcnt[b] = Cardinality({p \in Procs : b \in Elems(stack[p])})

\* The driver's queue holds the buffers that processes wait for, each once, in
\* whatever order requests, interrupts and kills come.
QueueExact ==
    /\ Cardinality(Elems(idequeue)) = Len(idequeue)
    /\ \A b \in Elems(idequeue) :
        \E p \in Procs : owner[b] = p /\ (Holding(p, "idesleep", b)
                                          \/ Holding(p, "idewait", b))

\* No wakeup is lost: who sleeps for a buffer's lock sleeps while somebody else
\* holds it, and who sleeps for the disk has a request in the queue.
NoLostWakeup ==
    \A p \in Procs, b \in Bufs :
        /\ Holding(p, "locksleep", b) => owner[b] \notin {None, p}
        /\ Holding(p, "idesleep", b) => b \in Elems(idequeue)

\* A valid buffer that is not pinned and that nobody is changing is what is on
\* disk, so recycling it loses nothing.
CleanIsOnDisk ==
    \A b \in Bufs :
        (/\ valid[b] /\ ~dirty[b]
         /\ \A p \in Procs : ~Holding(p, "modified", b))
            => data[b] = disk[blk[b]]

\* The cache and the driver's queue are well formed whatever order calls, interrupts
\* and kills come in: a block has one buffer, which is counted, recycled only when
\* nobody uses it and it is on disk, and queued only while somebody waits for it.
Consistent == TypeOK /\ OneBuffer /\ RefsExact /\ CleanIsOnDisk /\ QueueExact

\* Somebody can move, unless all are idle: waiting for each other's buffers
\* in a circle does not happen.
NotAllAsleep ==
    (\E p \in Procs : pc[p] \in {"locksleep", "idesleep"}) =>
        \/ idequeue # <<>>
        \/ \E p \in Procs : pc[p] \notin {"idle", "locksleep", "idesleep"}

-----------------------------------------------------------------------------
\* A block as the file system sees it: its contents ...
Value ==
    [k \in Blocks |->
        IF \E b \in Bufs : blk[b] = k /\ valid[b]
        THEN data[CHOOSE b \in Bufs : blk[b] = k /\ valid[b]]
        ELSE disk[k]]

\* ... and who has it locked.
Holder ==
    [k \in Blocks |->
        IF \E b \in Bufs : blk[b] = k
        THEN owner[CHOOSE b \in Bufs : blk[b] = k]
        ELSE None]

\* The cache implements blocks with one value and one holder each: a block that
\* is evicted and read again, or written and waited for, keeps its value.
Block == INSTANCE LockedBlocks WITH
    Holders <- Procs, Addresses <- Blocks, Contents <- Vals, Fresh <- Zero,
    Nobody <- None, value <- Value, holder <- Holder

ImplementsBlocks == Block!BlocksSpec

=============================================================================
