# xv6-practice: a verification of the kernel's concurrent core

This directory holds TLA+ models of the kernel of this repository and of the
parts that its five practices add to it, TLC configurations that check them on
small instances, and proofs that TLAPS checks for every instance. The kernel of
`practice5/` is the most complete; the five practices share `log.c`, `bio.c`,
`ide.c`, `pipe.c`, `file.c`, `fs.c`, `sleeplock.c`, `spinlock.c` and `kalloc.c`
line by line, so what is said about those files of `practice5` holds for all of
them. What only one practice has is modelled from that practice: the clock
(`practice2`), the schedulers (`practice3`), `mmap` and `mprotect` (`practice4`),
threads (`practice5`). `PROJECT.json` maps every definition to the lines it models.

## The system

xv6 is a small multiprocessor Unix. Each processor runs `scheduler()`, user
processes enter the kernel by traps, and devices interrupt.

| Component | State | Operations | Interacts with | What makes it correct |
|---|---|---|---|---|
| process table (`proc.c`) | `ptable`: state, parent, pid, pgdir, killed, chan, ustack of each slot | fork, clone, exit, wait, join, kill, sleep, wakeup, sched, scheduler, growproc | everything sleeps and wakes through it | no slot or address space lost or shared, no zombie without a parent that can collect it, no lost wakeup or kill |
| redo log (`log.c`) | header in memory and on disk, log blocks, `outstanding`, `committing` | begin_op, log_write, end_op, commit, recovery | file system calls above, buffer cache below | calls are atomic across power failures; the log never overflows; commits end |
| buffer cache (`bio.c`), sleep locks, IDE driver (`ide.c`) | buffers with a reference count, flags and a lock; the request queue | bread, bwrite, brelse; iderw, ideintr | disk below, log and file system above | one buffer per block, one holder, nothing evicted that is not on disk, no lost interrupt |
| files and their blocks (`fs.c`, `file.c`) | bitmap, addresses in inodes and indirect blocks, offsets of open files | balloc, bfree, bmap, readi, writei, itrunc, filewrite | log, inode cache | no block in two files, none lost; bytes are where they were written; a call fits its reservation |
| inodes, directories, paths (`fs.c`, `sysfile.c`) | inode cache, disk inodes, entries | namex, iget, ilock, iput, open, mkdir, link, unlink, chdir | log, buffers | references and links agree, a file is freed once, after its last use |
| pipes (`pipe.c`) and files (`file.c`) | ring buffer, open flags; reference counts; descriptors | read, write, close, dup, fork, clone, exit | process table | FIFO, end of file, freed exactly once, no lost wakeup |
| virtual memory (`vm.c`, `growproc`, `exec.c`), mmap, mprotect, page faults (`practice4`) | page directories, sizes, free pages, the TLB | copyuvm, allocuvm, sbrk, mmap, munmap, mprotect, munprotect, fork, exec | process table | sizes say what is mapped, failures are undone, no page is lost, no stale translation |
| schedulers and time slices (`practice3`) | tickets, time slice, runtime, `randstate` | rr, lottery and hybrid scheduler, setpriority, schedlatency, clock | process table | a process runs on one CPU; each gets its share (round robin: sometime; lottery: over a period of its generator, while the same processes are ready); tickets stay in range |
| clock (`practice2`) | real-time clock, `xtime`, `ticks`, sleepers | cmostime, time, stime, sleep, timer interrupt, ps | process table | the time is one that the clock showed; sleeps last and end |
| thread library (`thread.c`, `ulock.c`, `umalloc.c`) | table of thread stacks, a spin lock, the heap, a size that threads share | thread_create, thread_join, malloc, free, sbrk, clone, join, fork | clone, join | a stack is one thread's; each is freed once; the size is the same for all |
| init | the pid of the shell | the loop of main() | fork, wait | restarts the shell and reaps orphans |
| shell and other programs, console, keyboard, serial line, boot, interrupt controllers, mkfs | | | | |

The hard behaviours are interleavings of processors and interrupts at lock
boundaries, sleep and wakeup, what is done without a lock (half of
`allocproc()`, the filling of a new slot, the first part of `exit()`, the length
check of `log_write()`, the copying of fork()), failures in the middle of a
call, power failures, numbers that wrap, and threads, which this repository
added to code written for processes. `PROJECT.json` lists them under `hazards`,
each at its line.

## Modules

| Module | Models |
|---|---|
| `ProcTree` | abstract: a tree of processes; spawn, exit, collect |
| `ProcTable`, `MCProcTable` | `proc.c`, one action per critical section of `ptable.lock` or per stretch of code without it |
| `DurableStore` | abstract: blocks that survive power failures; calls that are atomic |
| `RedoLog`, `MCRedoLog` | `log.c`, and of the buffer cache what the log relies on |
| `LockedBlocks` | abstract: blocks with one value and one holder |
| `BufferCache`, `MCBufferCache` | `bio.c`, `sleeplock.c` and the queue of `ide.c` |
| `ByteFiles` | abstract: files are sequences of bytes with a position for each open file |
| `FileBlocks`, `MCFileBlocks` | the blocks of files in `fs.c` and the loops over them in `file.c` |
| `InodeCache`, `MCInodeCache` | the inode cache, directories and paths of `fs.c`, and the calls of `sysfile.c` that change names |
| `BoundedFifo` | abstract: a bounded FIFO queue |
| `Pipes`, `MCPipes` | `pipe.c`, and `file.c` with the descriptors as far as pipes go |
| `AddressSpaces`, `MCAddressSpaces` | `practice4`: sbrk, mmap, mprotect, fork, exec, page faults, TLB |
| `Schedulers`, `MCSchedulers` | `practice3`: the three schedulers and the time slices |
| `Clock`, `MCClock` | `practice2`: the real-time clock, dates, ticks and sleep |
| `UserThreads`, `MCUserThreads` | `practice5/user`: the thread library over an address space that threads share |
| `ProcTableProofs` | proofs about `ProcTable` |
| `RedoLogProofs` | proofs about `RedoLog` |
| `BufferCacheProofs` | proofs about `BufferCache` |
| `PipesProofs` | proofs about `Pipes` |
| `ThreadsAndTimeProofs` | proofs about `UserThreads`, `Schedulers` and `Clock` |
| `AddressSpacesProofs` | proofs about `AddressSpaces` |
| `InodeCacheProofs` | proofs about `InodeCache` |
| `FileBlocksProofs` | proofs about `FileBlocks` |

The modules are stacked. `FileBlocks` takes from the log that transactions are
atomic, which is what `RedoLog` is shown to give (`DurableStore`); `RedoLog`
takes from the buffer cache a map of blocks in which one process at a time
changes a block, which is what `BufferCache` is shown to give (`LockedBlocks`);
`InodeCache` takes the atomicity of calls on disk, too. `UserThreads` uses clone
and join as `ProcTable` has them.

**ProcTable.** A slot is its index. `state`, `parent`, `pgdir`, `ustack` (as
"is a thread"), `killed`, `chan` are fields of `struct proc`; `named` says that
`pid` is not 0; `pc` is where the process is; `np` is the local variable of
fork() and clone(); `vm` is the set of page directories that are allocated;
`sh` is init's memory of the shell's pid. The critical sections are `Alloc`
(allocproc up to its release of the lock), `ForkPublish`, `CloneFill`, `Kill`,
`ExitZombie`, `Wait`, `Join` (a scan with its three outcomes: reap, -1, sleep),
`Yield`, `Dispatch`, `IoSleep`, `IoWakeup`. Between them and without the lock:
`ForkNoMemory`, `ForkCopy`, `CloneNoMemory`, `Exec`, `BeginExit`. A process that
slept in wait() or join() wakes up holding the lock, so its next scan is the
same step as its dispatch (`Scans`). Panics are recorded in `panicked` and stop
the machine. Calls that wait for something else (pipes, console, sleep) are one
loop, `IoCall` to `IoReturn`, with the gap between the check of `killed` and
`sleep()`. The constant `Calls` says which system calls programs make and
`JoinFirst` restricts them to programs that join their threads before they call
exec; they may exit and be killed with threads.

**RedoLog.** `home`, `dlog`, `dhead` are the disk, which survives `Crash`; all
else is memory. Each block written is one step. `Recovering` keeps file system
calls out until recovery is over. A block is modified, then logged, while its
sleep lock is held (`buf`). `ReservationAssumption` says what sizes make the log
large enough, see the proofs.

**BufferCache.** Each process has a stack of at most two buffers and a `pc`
inside bread(), bwrite() or brelse(). The interrupt is an action of the disk.
kill() wakes sleepers here, which makes the loops around sleep() necessary.

**FileBlocks.** `used` is the bitmap, `data` the words of each block (bytes, or
addresses in an indirect block; `Stale` for whatever a block has that is not in
use), `disk` and `mem` the inodes on disk and in the cache. A step is what happens
under the lock of one buffer: `Balloc` looks at one block of the bitmap, `Bzero`
clears the new block and enters it, `WriteBlock` is a turn of the loop of
writei(), `Bfree` one of itrunc(). A chunk of filewrite() is a transaction, from
`Ilock` to `ChunkDone`; `Crash` happens between transactions, for one under way is
undone (`RedoLog`). iput() is `Iput` (and what itrunc() does) and `Drop`, two
critical sections. `logged` and `before` are history variables.

**InodeCache.** `type`, `nlink`, `ents` (the entries of directories) and `up` (their
".."; "." is the directory itself) are the
disk; the cache is write-through, so a valid entry of it says the same and only
`ref` and `valid` are kept beside. `owner` is the holder of `inode.lock` while it
is held across steps; a step that takes and releases a lock, with what it does
in between, is one action that waits until the lock is free. `call` is what a
process is at: which call, the rest of the path, which may begin at the root or at the
working directory `cwd` (`Start`) and go through "." and "..", the inode that namex() is at
(`cur`), the other inode of the call (`ip`), and the inodes it has yet to put.
iput() is two steps, `PutCheck` under the lock of the inode and `PutDrop` under
`icache.lock`, because others come in between. A turn of the loop of namex() is
`Walk`; create() is `Create`, `Exists` or `Make` and `Made`; link() is `Link`,
`LinkNew`, `LinkBad`; unlink() is `Unlink`, `Erase`, `Erased`; `Release` is the
failure path that the last two share. `NoElement` is namex() of "/" or of an empty path,
`Chdir` is chdir(). Three history variables name what the code gets wrong. `strayed`:
an entry was made in a directory that had been removed since nameiparent() returned
it. `lost`: the directories, removed but in use, whose ".." leads to an inode that was
freed (`Free`) since. `adrift`: a path has gone through such a "..".

**Pipes.** One pipe, two struct files. Descriptors are named by the end they
lead to. `cutShort` is a history variable, no part of the code: it marks the one
case in which readers sleep on a pipe that has bytes, see below; so is `leaked`,
which marks that a thread exited with files open. `MaxRef` bounds the references
that such exits leak.

**AddressSpaces.** The unit is the page. `pages` is what each user page of each
process is mapped as, `sz` its size, `free` the number of pages on kalloc()'s
list, `tlb` one entry that the CPU holds for the process. Every kalloc() and kfree()
counts, on its own, in `free`. The first process starts as initcode, with its page at
0 (`"boot"`), and gets its program from exec(). A system call is one step, as a process
has one thread in `practice4`; a call that runs out of memory half way undoes what it
did (`Undone`, and the second disjuncts of `Fork` and `Exec`). `FindRange` is the search of mmap() as a
recursive function, with sums of addresses that wrap.

**Schedulers.** `proc` is the table with its `sched_data`, `running` and `slice` say
what each CPU runs and for how long, `cursor` where the loop of rr_scheduler() goes
on: that loop holds the lock over a whole scan, so a process that gives up the CPU
is followed at once by the next in the table (`RunNext`). The policy, a compile-time
choice, is chosen in Init. rand() is kept to its lowest `BITS` bits, which are a
generator of their own; it is evaluated by its definition.

**Clock.** `rtc` is the hardware's clock, which moves on while cmostime() reads it
register by register (`t1`, `t2`) and whose registers hold old or new values while
it is updated. `ticks` wraps. A step of sys_sleep() is what it does between two
sleeps; `counting` is a `++xtime` under way, since stime() takes no lock. Dates are
converted by the loops of the code (`rtcdate_to_epoch`, `epoch_to_datetime`) and
compared with the arithmetic of the 400-year cycle (`Date`).

**UserThreads.** `th` is the kernel's part of each thread, `mapped` the units of the
shared address space, `thread_stacks` the table of the library, `lib` where a
thread is in it with its local variables. Each access to the table is a step.
`mishaps` is a history variable: it notes what nothing prevents and what therefore
excuses the properties (two threads in the table at once, an address space that
grows during a fork(), no memory, a full table).

## What the runs check

| Run | Instance | Shows |
|---|---|---|
| `table` | 4 slots, 2 CPUs, every call but kill and I/O, any allocation may fail, programs that may exit with threads but join them before they exec | the inductive invariant `Consistent`; whoever waits has somebody to wait for (`WaiterHasChild`); address spaces are exact (`VmExact`) and no thread that init did not get runs on freed memory (`ThreadVmLive`); the table implements `ProcTree` |
| `live` | 3 slots, 2 CPUs, fairness, threads, pipes, kills | who waits or joins returns when there is something to collect; the killed exit, but for two ways to sleep through the kill |
| `log` | 2 calls, 3 blocks, 2 contents, power failures, fairness | the log is well formed, commits are alone, nothing that is only in memory is evicted, log_write() does not panic (`Consistent`); it implements `DurableStore`; commits end and sleepers are woken (`LogServes`) |
| `cache` | 3 processes, 2 buffers, 3 blocks, 2 contents | the cache implements `LockedBlocks`; counts and queue are exact (`Consistent`); no lost wakeup; no circle of waiters |
| `blocks` | 2 processes, 2 inodes, 2 open files, 5 blocks of 2 words, power failures | blocks are in one place and the bitmap says so (`Consistent`); calls stay within what begin_op() reserves; the whole implements `ByteFiles` |
| `inode` | 2 processes, 3 inodes, 2 names, paths of 0 to 2 elements from the root and ".." from a working directory, every call | references are exact; links are, but for entries in removed directories; nothing is freed while an entry or a process leads to it, and the panics of ilock() and unlink() do not happen, until a path has gone through the ".." of a removed directory whose parent was freed |
| `pipes` | 3 processes or threads, ring of 2 bytes, counters of 2 bits, kills | the pipe implements `BoundedFifo`; ends are closed and freed exactly; no lost wakeup; a sleeping reader has a writer |
| `mmap` | 2 processes, 5 pages of which the first is initcode's, 5 physical pages, addresses that wrap at 8 | no page above the size; no page lost but initcode's; mmap() takes the first range that fits; the TLB is exact where the code flushes |
| `schedulers` | 3 slots; round robin and lottery on 2 CPUs, hybrid on 1; fairness | a process runs once and keeps legal tickets; the lottery is fair over a period of rand(); round robin serves everybody |
| `clock` | 2 processes, ticks of 2 bits, 3 ticks in a second, fairness | the time at boot is one that the clock showed, dates are right; sleeps last long enough and end |
| `userthreads` | 4 threads of which 2 use the library, table of 2, 3 units of memory | all threads agree on the size; a forked child has its pages; a stack is one thread's; nobody frees address 0 |

One run shows where the code differs from what the repository says of it:

| Run | Statement | What the code does |
|---|---|---|
| `inodelock` | concurrent link, unlink and create do not deadlock (the test of `usertests.c:856`) | create() and unlink() lock the parent again, in iput(), while they hold the inode below it |

Other differences need no run, since one look at the code, or at one step of a
model, shows them, or the history variables of the properties name them:

- Threads (`practice5`). wait() frees the page directory of an exited process under
  its threads (`clonetest2.c:7` expects them killed and reaped); `ThreadVmLive` holds
  for all threads but those (`Forsaken`). exit() marks the threads killed without waking
  them: one that sleeps on a pipe, or in join(), sleeps on (`KilledUnheard`).
  The exit of a thread leaves its files open (`README.md:65` says they are closed),
  and a reader may wait for an end of file for ever. clone() without a free slot or a
  kernel stack goes through a null pointer into a panic. fork() while another thread
  grows the address space makes a child with a size beyond its pages, and while
  another holds `malloc_lock` a child in which it is held for ever.
- Thread library. After a failed malloc(), a full table or two threads in the table at
  once, thread_join() or thread_create() calls free(0) with `malloc_lock` in its
  hand; the page fault kills the thread and everybody else spins. Entries of orphans,
  which init reaps, are never removed from the table.
- Inodes. Two concurrent iput()s of the last two references each see the other's,
  and neither frees the inode. A file without links that is open when the power
  fails stays on disk for ever (the restart after `Crash` in `FileBlocks`).
  A removed directory that is somebody's working directory keeps its "..", which does
  not count as a link for it, so the parent can be removed and freed: after mkdir a,
  mkdir a/b, chdir a/b, unlink ../../a/b, unlink /a, an open("..") makes the kernel panic
  with "ilock: no type" (`fs.c:309`). The run `inode` reaches that state; `NothingDangles`,
  `NoInconsistency` and `LinksExact` name it `adrift` and say that nothing else leads
  there. And link("f", "..") or link("f", ".") finds the name: dirlink() puts the inode
  it found while the parent is locked (`fs.c:557`), and for "." these are the same inode,
  so the process waits for itself (`LinkNew`, then `PutCheck`).
- Addresses (`practice4`). inituvm() maps initcode's page at 0 and freevm() frees from
  `USERBASE` on (`vm.c:192`, `vm.c:292`), so that page is lost; `FramesExact` counts it.
  A page fault inside a system call kills the process, but trap() returns to the
  instruction that faulted, again and again (`trap.c:110-132`, the state `"stuck"`). munmap() compares the end of its range with the address of
  the page directory where it means the size, so the size never shrinks.
  munmap(), munprotect() and an sbrk() that gives back everything do not flush the
  TLB; `testmprotect.c:40` relies on the second, the `stale` mark of `TlbExact` names
  them. A hint near 2^32 makes the end of the range wrap: mmap() returns success
  with nothing mapped. `user_mem_writable()` counts pages without the offset in the
  first one.
- Clock (`practice2`). A stime() between the halves of `++xtime` is lost. ticks wraps
  at 2^32, which 100 does not divide, so a second is short then. ps prints garbage
  for times before 1970.
- Pipes. A killed writer that fills a pipe returns before it wakes the readers
  (`cutShort`). kill() between the check of `killed` and sleep() is lost until somebody
  uses the pipe (`KilledUnheard`).
- Process table. wait() takes the first zombie in table order, so a shell in slot 1 that
  exits as fast as init restarts it keeps the zombies of higher slots uncollected.

Bounds. In `table`, init, the shell, one process and a sibling, or a thread beside a
child; two CPUs are enough for every pair of steps to interleave, since a step holds
the lock it needs. Two calls of three blocks are enough for a power failure to split
a transaction, for a commit to mix two calls and for a log of three blocks of room
(`NLOG` = 4 with the header) to be the reason why somebody waits; a reservation is 2
blocks and a call logs one at a time, the same order as 10, 8 and 29 in the code. In
`blocks` the chunk of filewrite() is one block and the worst case of a call is tight:
2 data blocks (the bytes may straddle), the indirect block, the inode, 2 bitmap
blocks, of `MAXOPBLOCKS` = 6 (in the code a chunk is 3 blocks, and at most 8 of 10 are
logged); a file has one direct block, so a second write goes through the indirect
one; 8 calls and failures are enough for two processes to open, write twice, unlink
and close. Two buffers for three blocks force evictions. A ring of two bytes with
counters modulo 4 wraps every second turn; the code's 512 and 2^32 satisfy the same
assumption, the counter's range is a multiple of the ring. Two processes are enough
for the races between two calls; three inodes are the root, a directory and a file,
or two files, and few enough that an inode is freed and allocated again under
another name. In `InodeCache` a process has one open file; the calls and paths are those
of `MCRequests`, which make a directory and one below it, go there and come back through
".."; no call begins once `strayed` is set (link counts could then grow for ever) or
`adrift` (the kernel works on a freed inode then; calls under way go on); and NINODE is as large as
the number of inodes, so that the panic of iget() for want of an entry is in the
model but not in the runs. In `mmap` there are fewer physical than virtual pages, so
every call can fail half way, ranges have one or two pages, and hints are all
addresses. Three slots, tickets 1 and 2 and a slice of 1 or 2 ticks let the hybrid
scheduler reward and punish; rand() has 3 bits, and the lottery's fairness is over
its period. `clock` starts two seconds before the end of 28 February 2024, of 28 February
2023 and of 31 December 2036, and stime() sets 0 or the last seconds of 29 February
2000 and of 31 October 2014; ticks has 2 bits and a second 3
ticks, which does not divide 4 as 100 does not divide 2^32; `Tick` is bounded so that
no process is kept off the CPUs for as long as ticks takes to wrap. In `userthreads`
the third worker does not call the library itself, so that there is always somebody
who exits, is killed or is an orphan beside the two that race.

Deadlock is not checked by TLC: a machine that panicked stops, and so does one
whose programs all wait for input, have exited, or wait for each other's inodes.
`NotAllAsleep`, `NoLostWakeup`, `WaiterHasChild` and the liveness properties say instead
that nobody waits for what will not come.

Fairness. In `live` (where the programs clone, join, sleep, kill and exit, and init forks and
waits; program forks are in `table`): strong for `Dispatch` of a process, because the round robin
scan comes by every slot; strong for the kernel steps of a process, which it
takes whenever it runs and can be preempted between; weak for `Yield`, the clock.
User programs are not fair, except that init goes on to its next call. In
`log`: weak for the disk and for steps that wait for nothing, strong for
end_op(); nothing says that a program begins a call. In `schedulers`: weak for
the choice of a process, the tick and the yield on each CPU; that is all, and enough
for `RrServes`. In `clock`: strong for the timer and for a woken process, which get
tickslock in the end although others take it in between; weak for steps that hold
it. kill() and stime() are not fair.

What was learnt on the way, and is in the properties: a sleeper in begin_op() is woken but may be overtaken for ever; link counts
are exact except where an entry was made in a removed directory; the hybrid
scheduler looks at a process's runtime only when it draws it, so tickets are kept
for up to a slice longer; the type invariants of `Pipes`, `InodeCache`, `UserThreads` and
`AddressSpaces` are in the modules but in no run of their own (those of `Pipes` and
`UserThreads` are part of what is proved).

## What is proved

For every value of the constants, under the named assumptions of each module (sizes
are positive, there are finitely many processes, `None` is none of the other values,
and `ReservationAssumption`, see below):

| Theorem | Says |
|---|---|
| `ProcTableProofs`: `TypeCorrect` | `TypeOK` always holds |
| `Consistency` | the inductive invariant `Consistent` always holds |
| `SlotsAreOwned` | `EmbryoOwned`: a slot taken by allocproc() is in the hands of exactly one fork() or clone() |
| `NoOrphan` | `ParentCanWait`: every process, thread and zombie but init has a parent that is alive |
| `WakeupsAreNotLost` | `NoLostWakeup`: nobody sleeps in wait() or join() beside a zombie it could collect |
| `KillReachesWaiters` | `KilledWaiterIsAwake`: only a thread that exit() orphaned may sleep there with its killed flag set |
| `Refinement` | the table implements the abstract tree of processes (`ImplementsTree`) |
| `FreeSlotsAreBlank` | `FreeIsBlank`: a free slot has nothing left of the process that had it before |
| `WaitersHaveChildren` | `WaiterHasChild`: nobody sleeps in wait() or join() for a child that is gone (programs with `JoinFirst`) |
| `AddressSpacesAreExact` | `VmExact`: no address space is shared, leaked or freed twice (programs with `JoinFirst`) |
| `ThreadsAreSafe` | `ThreadVmLive`: a thread that init did not get runs in the address space of a process that is alive (programs with `JoinFirst`) |
| `RedoLogProofs`: `Consistency` | `Consistent`: what is only in memory is pinned, commits are alone, log_write() does not panic |
| `Refinement` | the log implements a store with atomic calls (`ImplementsStore`) |
| `BufferCacheProofs`: `Consistency` | `Consistent`: one buffer per block, exact counts, clean is on disk, the queue is exact |
| `Wakeups` | `NoLostWakeup`: of sleepers on a buffer's lock or on the disk |
| `NoCircle` | `NotAllAsleep`: processes do not wait in a circle for each other's buffers |
| `Refinement` | the cache implements blocks with one value and one holder (`ImplementsBlocks`) |
| `PipesProofs`: `EndsAreExact` | `EndsExact`: an end is open exactly as long as a descriptor leads to it or it is being closed |
| `Wakeups` | `NoLostWakeup` of readers and writers |
| `ReadersEnd` | `ReaderHasWriter`: who reads and sleeps can still be woken, unless a thread exited with files open |
| `Refinement` | the ring implements a bounded queue (`ImplementsFifo`) |
| `ThreadsAndTimeProofs`: `Sizes` | `SizesAgree`: all threads agree on the size of their address space, and it is mapped |
| `Forks` | `ForkedWhole`: a forked process has all its pages, unless another thread called sbrk() meanwhile |
| `Stacks` | `StackIsOwn`: a stack has one owner until the join, as long as one thread at a time is in the table |
| `Frees` | `NoNullFree`: as long as nothing runs out besides, every join finds the stack it frees |
| `SchedulersConsistent` | `SchedConsistent`: a process runs on one CPU, tickets stay legal, penalties come in time |
| `FairShares` | `FairShare`: in a period of rand() each ready process wins as often as its tickets say |
| `SleepsExact` | `ClockConsistent`: a sleep lasts its ticks, and no longer, when ticks wraps too |
| `AddressSpacesProofs`: `Consistency` | the inductive invariant `Consistent` of sizes, pages, free pages and the TLB |
| `SizesCover`, `FramesAreExact`, `TlbIsExact` | `PagesBelowSize`, `FramesExact`, `TlbExact` |
| `SearchIsFirstFit` | `FirstFit`: the search of mmap() is first fit, on every page table that programs can make |
| `InodeCacheProofs`: `ReferencesAreExact` | `RefsExact`, until `adrift`: the cache counts exactly the references that processes hold |
| `LinkCountsAreExact` | `LinksExact`: link counts are exact whenever no call is under way, but for the two exceptions it names |
| `NoInodeDangles` | `NothingDangles`: no entry and no reference leads to an inode that was freed, until a path goes through the ".." of a removed directory whose parent was freed |
| `FilesAreConsistent` | `NoInconsistency`: only after such a path does ilock() find an inode without a type or unlink() one without links |
| `FileBlocksProofs`: `Consistency` | `Consistent`: every block in use has one place, no holes, the inode cache is write-through, bfree() does not panic |
| `Reservation` | `WithinReservation`: no call logs more blocks than begin_op() reserved |
| `Refinement` | `ImplementsFiles`: blocks, bitmap and chunks implement files that are sequences of bytes (`ByteFiles`) |

**ProcTable.** None of the last four invariants is inductive by itself. A child is
born with a live parent (`ParentCanWait`) because the process that publishes it runs,
and because the EMBRYO is not somebody else's as well (`EmbryoOwned`) and its parent
field, which fork() wrote before it took the lock, still says so (`MakerIsParent`:
exit() of another process changes the parents of its own children only). The children
of an exiting process go to init, which is alive and never exits (`InitIsRoot`). A
zombie's parent is not asleep in wait() (`NoLostWakeup`), because exit() wakes whoever
sleeps on the address of the parent, and that is where the parent sleeps
(`WaiterSleepsOnItself`); a zombie that changes hands goes to init, which exit() wakes
for it. `Consistent` is the conjunction of all these. `MakingStep` shows that every
step preserves the two conjuncts about slots under construction, action by action.
For the others most steps are alike: they change no parent, no zombie and no sleeper
(`Undisturbed`), which `MostStepsAreUndisturbed` shows of each; the last step of
fork() and clone(), exit(), a reap and the sleep of a scan have a lemma each. For the
refinement, the step that publishes a slot is the abstract Spawn, `ExitZombie` is Exit,
the reap of a scan is Collect, and all else is a stutter; no assumption about programs
is needed.

Three theorems hold for programs that join their threads before they exec
(`JoinFirst`), as those of the run `table` do; they may exit with threads, and be
killed. exec() by a process with threads, or by a thread, frees the page directory of
the others. For `WaiterHasChild` and `VmExact` this guard and two facts are enough: a slot
under construction has no thread's mark but from clone() (`BeingMade`) and a free one
none at all (`FreeIsBlank`). `ThreadVmLive` is about threads of threads too. When their
process exits, exit() gives threads to init, and wait() then frees what they run on:
`Forsaken` is the largest set of threads whose parents are in it or are init, and the
property is about every other thread. Its invariant is `ThreadKin`: the parent of a
thread is init or has the same page directory. The threads with the page directory of
q are therefore a set whose parents are in it, are init, or are a process that is alive
and owns that page directory; if there is none of the third kind, q is forsaken.

The run `table` checks the same invariant at 4 slots. A smaller one is not enough: an
earlier form of `KilledWaiterIsAwake`, without its exception for threads, holds at 3
slots and fails at 4, where a thread has room for a child to wait for.

**RedoLog.** The inductive invariant `Inv` has a part for each thing that could be
wrong: the calls (`CallsInv`: who is inside, that a buffer has one holder, that what a
call wrote is in the log), the phases of commit() and of recovery (`PhaseInv`), room
(`RoomInv`), the only copies of blocks (`PinInv`) and what commit() has copied so far
(`CopyInv`). The heart is `RoomInv`: the log holds what was written plus what the calls
inside may still write (`Reserved`, a pair for each block), and that is at most
`Longest`. begin_op() reserves `MAXOPBLOCKS` for each call but a call logs `OPBLOCKS` at
most, so two calls that share a transaction leave twice the difference unused; that
margin must pay for the header, a block that `LOGSIZE` counts and the log does not
have. This is `ReservationAssumption`; with 10, 8 and 30 blocks the code satisfies it,
and `LogFits` and `NoPanic` show that log_write() never finds the log full. For the
refinement, the write of the header is the abstract Persist, a power failure is
LosePower, a change of a block is Put, and everything else, the copies into the log and
home again included, is a stutter.

**BufferCache.** Each process takes buffers in the order of their blocks (`StackInv`),
so none twice (`StackIsDistinct`); it holds the locks of those it took, but for the last
one before acquiresleep() and after releasesleep() (`OwnerInv`). From this follow that
only one process at a time waits for the disk with a buffer (`OneHolder`), that a buffer
in nobody's stack may be recycled (`FreeIsUnused`), and that requests and waiters match
(`QueueInv`), which needs to know that a process that woke up looks at flags that an
interrupt has set (`ValidInv`). That `kill()` may wake a sleeper at any time is covered:
it goes back to sleep, and its request is still queued. `NoCircle` needs no invariant
more: of all sleepers take the one whose block is last; who holds its buffer sleeps for
a later one, or not at all. For the refinement, `Recycle` is the interesting stutter:
the buffer's old block had the same contents on disk (`CleanIsOnDisk`) and no holder.

**Pipes.** A file counts its descriptors, and those that threads left behind (`RefInv`);
one process closes an end, and only when no descriptor is left (`ClosingInv`); so an end
is open as long as its file is counted or being closed (`OpenInv`), and a free slot has
no descriptors to close twice (`LifeInv`). For the wakeups it matters that pipewrite()
sleeps in a full pipe only: `FilledIs` shows that what it stores before it sleeps leaves
no room, in the arithmetic of counters that wrap, and `WantInv` that a writer always has
a byte to write. For the refinement, the queue is what lies between the counters, from
the place of nread on. `PlaceStays` is why a counter that wrapped leads to the same
place: the size of the pipe divides the counter's range, as 512 divides 2^32.
`PlacesDiffer` says that numbers closer than the size have places of their own, so a
write, which goes to the places after the last byte and never to more than `Room` of
them, overwrites nothing (`StoreFifo`), and a read leaves the rest in order
(`TakeFifo`). That no more than `PIPESIZE` bytes are inside (`RingInv`) goes with it.

**UserThreads.** A unit of memory has one owner (`OwnerInv`): malloc()'s free list, the
buffer of a thread that is on its way from malloc() to clone() or from the table to
free() (`Held`), a thread that was not joined, or an entry of the table whose thread
was joined but not yet looked up (`ToFind`). The actions pass units between these
(`OwnersMoved`, `OwnersCloned`, `OwnersFreed`) or keep them (`OwnersKept`). A join hands
on what the table says, so the table must say the truth (`TableInv`), but for the one
entry that a creator is writing. Nothing but luck keeps two threads from writing at
once: `mishaps` records when they did, and then `TableInv`, `OwnerInv` and `FoundInv` are
not claimed. What a thread in the library knows (`LibInv`) and the sizes (`SizeInv`)
hold even then. `FoundInv` needs the table on top: the entry of a thread is there, or
its creator is about to write it, and it is not joined by anybody else.

**Schedulers and Clock.** These two are proved about in `ThreadsAndTimeProofs` as well.
They share no state with the thread library or with each other, and the prefixes of
their names (`SchedSpec`, `ClockSpec`) let one module extend all three. What the proofs
assume of the constants are the `ASSUME`s of the two modules.

The inductive invariant of the schedulers (`SchedInv`) adds to `RunsOnce` and the legal
tickets (`SoundInv`) what the clock is going to do: the run time of a process and what
is left of its slice stay below the limit together (`SliceInv`), so a penalty that waits
for the end of the slice comes in time; and that an embryo is in the hands of one fork()
(`EmbryoInv`), or two would make the same slot RUNNABLE, the second while it runs. Most
steps take the process off its CPU first and then choose: `Left` describes the table in
between, `Dispatched` and `GoneIdle` say of any choice that the invariant holds again.

`FairShares` has two halves. rand() visits all numbers: without the modulus, 2^k steps
of the generator multiply by one more than a multiple of 4 * 2^k and add an odd multiple
of 2^k (`LeapsExist`, doubling k by k), because the multiplier leaves 1 when divided by
4 and the increment is odd; so m times 2^k steps lead to the same number modulo 2^(k+1)
only if m is even (`ManyLeaps`), and to the same number modulo 2^k only after a multiple
of 2^k steps (`ComesBack`). In a period no number comes twice (`OutputsDiffer`), so each
comes once (`OutputsCover`). And the loop over the table picks slot i exactly when the
remainder of the number lies between the tickets of the slots before i and those with
i's (`WinnerIs`, `WinnerRange`); of the numbers below a modulus, as many have such a
remainder as the interval is long times the quotient, or the quotient and one more
(`Remainders`, by injections from and into a product of intervals).

For the sleeps, `SleepInv` says that the number of ticks that have passed, counted by
nobody in the code, is the difference that sys_sleep() computes of two counters that
wrap; `OneTickMore` is the arithmetic.

**AddressSpaces.** `Consistent` is inductive: the free pages and the mapped ones add up
(`FramesExact`), pages are below the size (`PagesBelowSize`) and above `USERBASE` but
for initcode's (`LowPages`), and what the CPU remembers is what the page table says but
for what is marked stale (`TlbExact`, `TlbLoaded`). The work is in `FramesExact`. The
actions count calls, one page for every kalloc() and kfree() the code makes, and what
is mapped is a sum over all processes: `MappedChanges` shows that a new page table of
one process changes it by the difference, and then each action has to show that its
calls come to that difference. For an allocation that is so because its range was not
mapped before (`MoreMapped`, from `PagesBelowSize` for sbrk() and from the search for
mmap()), for the failure paths because deallocuvm() finds just the pages that were
mapped so far (`UndoneIs`), for wait() and exec() because nothing is mapped below
`USERBASE`, where freevm() does not look (`AllFreed`); initcode is the exception, and
its page the one that is lost (`OldIsFreed`). `FirstFit` is about an
algorithm: that the range the loop of sys_mmap() comes to is free and the first is
shown for an explicit description of the starts the loop goes through, and that no
other function satisfies the loop's equations follows from the greatest start at which
two would differ.

**InodeCache.** The inductive invariant `Inv` says where each process is in its call:
what it holds there (`CallInv`), which lock (`LockInv`), and what it may rely on while
others run. References are exact (`RefsExact`) since a step of a process changes its
own and the count alike (`CountChange`, `RefsChange`). Link counts are at least the
number of entries, always, and equal to it until an entry was made in a removed
directory; a link() or an unlink() under way accounts for the difference (`Pending`).
So an inode without links has no entry, and iput() frees one only when it has the last
reference (`LastReference`): it does not dangle (`UseInv` and the third line of
`DiskInv`). The delicate points are those where a process acts on what it saw under a
lock it gave back: link() raised the count of a file before it looks for the new name,
so nobody frees it; the inode that create() makes is in nobody's hands until it has a
name (`NewInv`); unlink() holds the lock of the directory from the search to the erasure
(`OldInv`). What a step of one process leaves to the others is shown once
(`OthersKeep`), for steps that change no more of the disk than the lock allows
(`Modest`) and for the search in a directory (`Finds`). ".." is a reference without a
count: it says where the name of a directory is as long as the directory has one
(`UpInv`), and that, or `lost`, is what a path through ".." relies on (`Leads`,
`EntryIs`). Once a path has gone through the ".." of a lost directory the code works on
a freed inode and nothing is claimed any more, so what is inductive is `Safe`, `Inv`
or `adrift`; that one exception is enough is what the proof shows. The invariant does not
say that ialloc() and iget() find room: those panics the code has.

**FileBlocks.** In the inductive invariant `Inv` a block is at a number in an inode, the
one in memory while it is locked and the one on disk otherwise, and what itrunc() has
freed does not count (`Blk`). `BlockInv` says that no two numbers have the same block,
that the bitmap has exactly these blocks and those between balloc() and bmap(), and that
an indirect block contains addresses; `Consistent` counts them. An inode is locked by
one process (`LockInv`), and its references are the open files and the calls about to let
it go (`RefInv`), so iput() truncates an inode that nobody else has, and that is on disk
what it is in memory (`TruncInv`). A write leaves the inode in memory ahead of the disk
only while the file is going to grow, and then iupdate() comes at its end (`WriteInv`).
`Whole` puts together, for a step that touches one inode, what the other processes and
inodes keep; each action then has a lemma. `Reservation` needs a potential: the blocks a
chunk has logged, two for each block of bytes it has not come to, what is left to do for
this one and for the indirect block, and the inode are together within `MAXOPBLOCKS`
(`LogInv`). That the sum fits when the chunk begins is what the division by two in
filewrite() is for: `ChunkFits` needs 6 blocks at least. An unlink() may free blocks all
over the bitmap: `ReservationAssumption` of this module says that the blocks of the
bitmap, a directory and an inode fit; in the code they are 2, 1 and 1 of the 10 reserved (FSSIZE is 5000
and a block of bitmap is for 4096).

`Refinement` shows that `FileBlocks` implements `ByteFiles`. The bytes of a file
(`Bytes`) are those on disk while nobody has it locked, and those from before the chunk
while a chunk is being written, so it appears whole when its process unlocks the inode.
On top of `Inv` that needs `Chunks`: what a chunk has done so far, read through the
inode in memory, is the file from before with the bytes so far over it, and the bytes
still to come are the next ones of the call. Each action has a lemma that it keeps
`Chunks` and maps to a step of `ByteFiles` or to none: the end of a chunk is Write(n),
writei() that refuses is Fail, iput() of a file without links is Vanish, and balloc(),
bzero(), a block of a chunk and bfree() are stutters. `OthersFiles` says once that a
step under the lock of one inode leaves the bytes of the other files and the chunks of
the other processes as they were.

What stays with TLC: liveness under fairness (`WaiterReturns`,
`KilledExits`, `LogServes`, `RrServes`, `SleeperReturns`), which the provers cannot do,
and `DateExact` of `Clock`. That property compares the loops of the code over years and
months with the divisions of the 400-year cycle, and of the boot we only claim it for
the seconds that a run lets pass while the registers are read (`MaxSeconds`); TLC checks
it where the loops and the registers turn over, at the ends of days, months and years.

## What is not modelled

Contents of memory and of directory blocks as bytes, page tables as data, the
arguments of system calls, device files, and what fork() and exit() do to the working
directory (a reference more or less, as chdir() takes and puts). The spin lock is assumed: its critical sections are the atomic steps of
the models, with interrupts off. Left out for good: the boot code, interrupt
controllers, keyboard tables, system calls that only copy a table or a variable
(getpid, procinfo, procstat, pageinfo, trace). The shell and the utilities are clients
of the kernel, and the tests as well: the models let programs make any calls in any
order, which covers what these do. Most of the repository's lines are those, five
times over (the practices are copies of one another), so the share of its lines that
is mapped stays small although the kernel's concurrent core is covered. `main`'s
sbrk(-n) is not in `UserThreads`, nor are ranges of munmap() beyond KERNBASE in
`AddressSpaces`.

## Plan

What would come next, in this order: the composition of `BufferCache` and `RedoLog` in
one module (now each relies on the abstract specification of the other); a model of the
spin lock with its interrupt nesting, and of the console's input line; a proof that
cmostime() never puts two times together, apart from the calendar.
