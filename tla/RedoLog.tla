------------------------------ MODULE RedoLog ------------------------------
(***************************************************************************)
(* The redo log of the file system (practice5/kernel/log.c, the same file  *)
(* in all five practices) with what it needs of the buffer cache (bio.c):  *)
(* the cached copy of a block and the B_DIRTY flag that pins it.  A write  *)
(* to disk is one step per block, in the order of the code, and the power  *)
(* may fail between any two steps, also during recovery.                   *)
(*                                                                         *)
(* Ops are processes, each running one file system call after another.  A  *)
(* call is begin_op(), writes of at most OPBLOCKS distinct blocks, each a   *)
(* change of the buffer followed by log_write() and brelse(), end_op().    *)
(* begin_op() reserves MAXOPBLOCKS blocks, 10; the largest call of the     *)
(* kernel, a filewrite(), logs 8 (4 of data, 2 of bitmap, an inode and an  *)
(* indirect block).                                                        *)
(***************************************************************************)
EXTENDS Integers, Sequences, FiniteSets

CONSTANTS
    Ops, Blocks, Vals,
    Zero,           \* the contents mkfs gives a block
    MAXOPBLOCKS, LOGSIZE,
    OPBLOCKS,       \* the most distinct blocks a call logs
    NLOG,           \* sb.nlog: blocks of the log on disk, the header included
    MayCrash,       \* TRUE: the power may fail
    None

ASSUME ZeroAssumption == Zero \in Vals
ASSUME LogAssumption == {MAXOPBLOCKS, OPBLOCKS, LOGSIZE, NLOG} \subseteq Nat \ {0}
ASSUME NothingAssumption == None \notin Vals \cup Blocks
ASSUME CrashAssumption == MayCrash \in BOOLEAN
ASSUME OpsAssumption == IsFiniteSet(Ops)

\* What makes the log large enough: calls log less than they reserve, so two calls
\* that share a transaction (and it ends with the last one) leave a margin, which
\* must make up for the header, the block of the log that LOGSIZE does not count.
ASSUME ReservationAssumption ==
    /\ OPBLOCKS < MAXOPBLOCKS /\ MAXOPBLOCKS <= LOGSIZE
    /\ OPBLOCKS < NLOG - 1
    /\ LOGSIZE - 2 * (MAXOPBLOCKS - OPBLOCKS) < NLOG - 1

VARIABLES
    home,           \* disk: the blocks at their home locations
    dlog,           \* disk: the log blocks after the header
    dhead,          \* disk: block numbers in the header block
    cache,          \* memory: contents of the cached blocks, else None
    pinned,         \* memory: blocks whose buffer is B_DIRTY
    lh,             \* memory: log.lh
    outstanding, committing,
    phase, tail,    \* where commit() or recover_from_log() is
    pc, wrote, buf, \* of each op: where it is, blocks it logged, buffer it holds
    panicked

disk == <<home, dlog, dhead>>
memory == <<cache, pinned, lh, outstanding, committing>>
vars == <<disk, memory, phase, tail, pc, wrote, buf, panicked>>

-----------------------------------------------------------------------------
Rng(s) == {s[i] : i \in 1 .. Len(s)}

\* The contents a process reads: the buffer if there is one, else the disk.
Cached(b) == IF cache[b] = None THEN home[b] ELSE cache[b]

\* Nothing runs before recovery is over.
Recovering == phase # "none" /\ ~committing

Wake(p) == [o \in Ops |-> IF p[o] = "asleep" THEN "begin" ELSE p[o]]

Init ==     \* a disk made by mkfs, at power on
    /\ home = [b \in Blocks |-> Zero]
    /\ dlog = [i \in 1 .. LOGSIZE |-> Zero]
    /\ dhead = <<>>
    /\ cache = [b \in Blocks |-> None]
    /\ pinned = {}
    /\ lh = <<>>
    /\ outstanding = 0 /\ committing = FALSE
    /\ phase = "boot" /\ tail = 0
    /\ pc = [o \in Ops |-> "out"]
    /\ wrote = [o \in Ops |-> {}]
    /\ buf = [o \in Ops |-> None]
    /\ panicked = FALSE

-----------------------------------------------------------------------------
(* File system calls *)

\* begin_op(), at its call or when its sleep was ended: under log.lock either
\* joins the transaction or, if it is full, sleeps.
BeginOpUnless(o, full) ==
    /\ ~Recovering
    /\ pc[o] \in {"out", "begin"}
    /\ pc' = [pc EXCEPT ![o] = IF full THEN "asleep" ELSE "in"]
    /\ outstanding' = IF full THEN outstanding ELSE outstanding + 1
    /\ wrote' = [wrote EXCEPT ![o] = IF full THEN @ ELSE {}]
    /\ UNCHANGED <<disk, cache, pinned, lh, committing, phase, tail, buf,
                   panicked>>

\* Mutant: it forgets what is logged already.
BeginOpForgetsLogged(o) ==
    BeginOpUnless(o, committing \/ (outstanding + 1) * MAXOPBLOCKS > LOGSIZE)

BeginOp(o) ==
    BeginOpUnless(o, committing \/ Len(lh) + (outstanding + 1) * MAXOPBLOCKS > LOGSIZE)

\* bread() of a block, and a change of its data under the buffer's sleeplock.
Modify(o, b) ==
    /\ pc[o] = "in"
    /\ \A r \in Ops : buf[r] # b
    /\ Cardinality(wrote[o] \cup {b}) <= OPBLOCKS
    /\ \E v \in Vals : cache' = [cache EXCEPT ![b] = v]
    /\ buf' = [buf EXCEPT ![o] = b]
    /\ pc' = [pc EXCEPT ![o] = "modified"]
    /\ UNCHANGED <<disk, pinned, lh, outstanding, committing, phase, tail,
                   wrote, panicked>>

\* log_write() looks at the length of the log before it takes log.lock ...
LogCheck(o) ==
    /\ pc[o] = "modified"
    /\ IF Len(lh) >= LOGSIZE \/ Len(lh) >= NLOG - 1 \/ outstanding < 1
       THEN panicked' = TRUE /\ UNCHANGED pc
       ELSE pc' = [pc EXCEPT ![o] = "checked"] /\ UNCHANGED panicked
    /\ UNCHANGED <<disk, memory, phase, tail, wrote, buf>>

\* ... and appends the block unless it is there, pins it, and brelse() follows.
LogAppend(o) ==
    /\ pc[o] = "checked"
    /\ lh' = IF buf[o] \in Rng(lh) THEN lh ELSE Append(lh, buf[o])
    /\ pinned' = pinned \cup {buf[o]}
    /\ wrote' = [wrote EXCEPT ![o] = @ \cup {buf[o]}]
    /\ buf' = [buf EXCEPT ![o] = None]
    /\ pc' = [pc EXCEPT ![o] = "in"]
    /\ UNCHANGED <<disk, cache, outstanding, committing, phase, tail, panicked>>

\* end_op() under log.lock: the last one out commits.
EndOp(o) ==
    /\ pc[o] = "in"
    /\ outstanding' = outstanding - 1
    /\ panicked' = committing
    /\ IF outstanding = 1
       THEN /\ committing' = TRUE
            /\ phase' = IF lh = <<>> THEN "none" ELSE "log"
            /\ tail' = 0
            /\ pc' = [pc EXCEPT ![o] = "commit"]
       ELSE /\ pc' = [Wake(pc) EXCEPT ![o] = "out"]
            /\ UNCHANGED <<committing, phase, tail>>
    /\ UNCHANGED <<disk, cache, pinned, lh, wrote, buf>>

\* Mutant: no wakeup().
FinishCommitSilently(o) ==
    /\ pc[o] = "commit" /\ phase = "none"
    /\ committing' = FALSE
    /\ pc' = [pc EXCEPT ![o] = "out"]
    /\ UNCHANGED <<disk, cache, pinned, lh, outstanding, phase, tail, wrote,
                   buf, panicked>>

\* end_op() takes log.lock again after commit().
FinishCommit(o) ==
    /\ pc[o] = "commit" /\ phase = "none"
    /\ committing' = FALSE
    /\ pc' = [Wake(pc) EXCEPT ![o] = "out"]
    /\ UNCHANGED <<disk, cache, pinned, lh, outstanding, phase, tail, wrote,
                   buf, panicked>>

-----------------------------------------------------------------------------
(* commit() and recover_from_log(): one block at a time *)

\* Mutant: commit() installs the blocks without writing the header.
WriteLogThenInstall ==
    /\ phase = "log"
    /\ IF tail < Len(lh)
       THEN /\ dlog' = [dlog EXCEPT ![tail + 1] = Cached(lh[tail + 1])]
            /\ tail' = tail + 1
            /\ UNCHANGED phase
       ELSE /\ phase' = "install" /\ tail' = 0
            /\ UNCHANGED dlog
    /\ UNCHANGED <<home, dhead, memory, pc, wrote, buf, panicked>>

\* write_log(): the cached copy of one logged block to its place in the log.
WriteLog ==
    /\ phase = "log"
    /\ IF tail < Len(lh)
       THEN /\ dlog' = [dlog EXCEPT ![tail + 1] = Cached(lh[tail + 1])]
            /\ tail' = tail + 1
            /\ UNCHANGED phase
       ELSE /\ phase' = "head"
            /\ UNCHANGED <<dlog, tail>>
    /\ UNCHANGED <<home, dhead, memory, pc, wrote, buf, panicked>>

\* write_head() with the transaction: the point of commit.
WriteHead ==
    /\ phase = "head"
    /\ dhead' = lh
    /\ phase' = "install" /\ tail' = 0
    /\ UNCHANGED <<home, dlog, memory, pc, wrote, buf, panicked>>

\* install_trans(): one log block to the buffer of its home location, and that
\* buffer to disk, which clears B_DIRTY.
Install ==
    /\ phase = "install"
    /\ IF tail < Len(lh)
       THEN LET b == lh[tail + 1] IN
            /\ home' = [home EXCEPT ![b] = dlog[tail + 1]]
            /\ cache' = [cache EXCEPT ![b] = dlog[tail + 1]]
            /\ pinned' = pinned \ {b}
            /\ tail' = tail + 1
            /\ UNCHANGED phase
       ELSE /\ phase' = "clear"
            /\ UNCHANGED <<home, cache, pinned, tail>>
    /\ UNCHANGED <<dlog, dhead, lh, outstanding, committing, pc, wrote, buf,
                   panicked>>

\* log.lh.n = 0 and write_head() again: the log is empty.
ClearLog ==
    /\ phase = "clear"
    /\ lh' = <<>> /\ dhead' = <<>>
    /\ phase' = "none"
    /\ UNCHANGED <<home, dlog, cache, pinned, outstanding, committing, tail, pc,
                   wrote, buf, panicked>>

\* initlog() at boot: read_head(), then install_trans() of what it found.
ReadHead ==
    /\ phase = "boot"
    /\ lh' = dhead
    /\ phase' = "install" /\ tail' = 0
    /\ UNCHANGED <<disk, cache, pinned, outstanding, committing, pc, wrote, buf,
                   panicked>>

-----------------------------------------------------------------------------
(* The buffer cache and the power *)

\* bget() recycles the buffer of a block that nobody holds and nothing pins.
Evict(b) ==
    /\ cache[b] # None /\ b \notin pinned
    /\ \A o \in Ops : buf[o] # b
    /\ cache' = [cache EXCEPT ![b] = None]
    /\ UNCHANGED <<disk, pinned, lh, outstanding, committing, phase, tail, pc,
                   wrote, buf, panicked>>

\* bread() by a process that only reads.
Load(b) ==
    /\ ~Recovering /\ cache[b] = None
    /\ cache' = [cache EXCEPT ![b] = home[b]]
    /\ UNCHANGED <<disk, pinned, lh, outstanding, committing, phase, tail, pc,
                   wrote, buf, panicked>>

\* Everything but the disk is lost; the machine boots.
Crash ==
    /\ MayCrash
    /\ cache' = [b \in Blocks |-> None]
    /\ pinned' = {}
    /\ lh' = <<>>
    /\ outstanding' = 0 /\ committing' = FALSE
    /\ phase' = "boot" /\ tail' = 0
    /\ pc' = [o \in Ops |-> "out"]
    /\ wrote' = [o \in Ops |-> {}]
    /\ buf' = [o \in Ops |-> None]
    /\ panicked' = FALSE
    /\ UNCHANGED disk

-----------------------------------------------------------------------------
Op(o) ==
    \/ \E b \in Blocks : Modify(o, b)
    \/ LogCheck(o) \/ LogAppend(o)
    \/ EndOp(o) \/ FinishCommit(o)

Commit == WriteLog \/ WriteHead \/ Install \/ ClearLog \/ ReadHead

Next ==
    \/ /\ ~panicked
       /\ \/ \E o \in Ops : BeginOp(o) \/ Op(o)
          \/ Commit
          \/ \E b \in Blocks : Load(b) \/ Evict(b)
    \/ Crash

Spec == Init /\ [][Next]_vars

\* The disk answers every request, a call that has begun ends, and a process
\* that was woken runs.  Nobody is obliged to begin a call.
Fairness ==
    /\ WF_vars(Commit)
    /\ \A o \in Ops :
        /\ WF_vars(BeginOp(o) /\ pc[o] = "begin")
        /\ WF_vars(LogCheck(o) \/ LogAppend(o) \/ FinishCommit(o))
        /\ SF_vars(EndOp(o))

LiveSpec == Spec /\ Fairness

-----------------------------------------------------------------------------
(* Properties *)

Phases == {"none", "boot", "log", "head", "install", "clear"}
OpPCs == {"out", "begin", "asleep", "in", "modified", "checked", "commit"}

\* The values the variables take.
TypeOK ==
    /\ home \in [Blocks -> Vals]
    /\ dlog \in [1 .. LOGSIZE -> Vals]
    /\ dhead \in Seq(Blocks) /\ lh \in Seq(Blocks)
    /\ cache \in [Blocks -> Vals \cup {None}]
    /\ pinned \subseteq Blocks
    /\ outstanding \in 0 .. Cardinality(Ops)
    /\ committing \in BOOLEAN
    /\ phase \in Phases
    /\ tail \in 0 .. LOGSIZE
    /\ pc \in [Ops -> OpPCs]
    /\ wrote \in [Ops -> SUBSET Blocks]
    /\ buf \in [Ops -> Blocks \cup {None}]
    /\ panicked \in BOOLEAN

\* The reservations of begin_op() are enough for what calls log: the log does
\* not outgrow its place on disk and log_write() does not panic, however many
\* calls share the transaction and although it reads the length unlocked.
LogNeverFull ==
    /\ ~panicked
    /\ Len(lh) <= LOGSIZE /\ Len(lh) <= NLOG - 1

\* A block that the running transaction logged stays in memory until commit()
\* has written it home: the only copy of its new contents is never evicted.
LoggedIsPinned ==
    \A i \in 1 .. Len(lh) :
        phase \in {"none", "log", "head"} \/ (committing /\ i > tail)
            => lh[i] \in pinned /\ cache[lh[i]] # None

\* A block that is neither logged nor being modified is as it is on disk, so
\* that a second bread() after an eviction reads what the first one did.
CleanIsOnDisk ==
    \A b \in Blocks :
        (~Recovering /\ b \notin pinned /\ \A o \in Ops : buf[o] # b)
            => cache[b] \in {None, home[b]}

\* One transaction commits at a time, and no call is inside it while it does.
CommitIsAlone ==
    committing =>
        /\ outstanding = 0
        /\ Cardinality({o \in Ops : pc[o] = "commit"}) = 1

\* The log is well formed, never outgrows its place, and is committed by one process
\* at a time, with no call inside; nothing that is only in memory is evicted, and what
\* may be evicted is on disk.
Consistent ==
    /\ TypeOK /\ LogNeverFull /\ CommitIsAlone
    /\ LoggedIsPinned /\ CleanIsOnDisk

-----------------------------------------------------------------------------
\* The disk as recovery would leave it.
Recovered(b) ==
    IF b \in Rng(dhead) THEN dlog[CHOOSE i \in 1 .. Len(dhead) : dhead[i] = b]
                        ELSE home[b]

Store == INSTANCE DurableStore WITH
    Callers <- Ops, Addresses <- Blocks, Contents <- Vals, Fresh <- Zero,
    durable <- [b \in Blocks |-> Recovered(b)],
    current <- [b \in Blocks |-> IF Recovering THEN Recovered(b)
                                              ELSE Cached(b)],
    open <- {o \in Ops : pc[o] \in {"in", "modified", "checked"}}

\* The log implements the durable store: at whatever step of a call, a commit
\* or a recovery the power fails, what the next boot reads is the effect of
\* whole calls, and of all that were committed.
ImplementsStore == Store!StoreSpec

\* A commit that began ends, and so begin_op() does not wait for it for ever; and a
\* call that sleeps for log space is woken (not: gets the space, which others may
\* take first), by the end of a call or of a commit.
LogServes ==
    /\ committing ~> ~committing
    /\ \A o \in Ops : pc[o] = "asleep" ~> pc[o] # "asleep"

=============================================================================
