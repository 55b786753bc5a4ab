----------------------------- MODULE ProcTable -----------------------------
(***************************************************************************)
(* The process table of the final kernel (practice5/kernel/proc.c): the    *)
(* life of a process or thread from allocproc() to the wait() or join()    *)
(* that frees its slot, at the granularity of the critical sections of     *)
(* ptable.lock.  What the code does outside the lock (the failure path of  *)
(* allocproc(), the filling of an EMBRYO by fork(), exit() before it takes *)
(* the lock) is an action of its own, so other CPUs and the timer          *)
(* interleave with it.                                                     *)
(*                                                                         *)
(* A slot is identified by its index in ptable.proc.  The value of a pid   *)
(* is abstracted to whether it is nonzero; pids are unique while nonzero.  *)
(***************************************************************************)
EXTENDS Integers, FiniteSets

CONSTANTS
    NPROC,          \* slots of the table
    NCPU,           \* processors
    PageDirs,       \* page directories kalloc() can hand out
    Calls,          \* system calls the user programs make (init aside)
    JoinFirst,      \* TRUE: programs join their threads before they exec
    MayRunOut,      \* TRUE: any kernel memory allocation may fail
    None

AllCalls == {"fork", "clone", "wait", "join", "exec", "kill", "io", "exit"}

ASSUME SizeAssumption == NPROC \in Nat \ {0} /\ NCPU \in Nat \ {0}
ASSUME PageDirsAssumption == PageDirs # {}
ASSUME CallsAssumption == Calls \subseteq AllCalls
ASSUME FlagsAssumption == JoinFirst \in BOOLEAN /\ MayRunOut \in BOOLEAN

Procs == 0 .. NPROC - 1
initproc == 0          \* userinit() runs first, on an empty table

IoChan == NPROC        \* a sleep channel that is not a process

ASSUME NoneAssumption == None \notin PageDirs \cup Procs \cup {IoChan}

VARIABLES
    state,      \* proc.state
    parent,     \* proc.parent
    pgdir,      \* proc.pgdir; stale in a slot that is not in use
    ustack,     \* proc.ustack # 0: the slot holds a thread
    killed,     \* proc.killed
    named,      \* proc.pid # 0
    chan,       \* proc.chan
    pc,         \* where the process is: user code, or which kernel code
    np,         \* the local np of fork() and clone()
    vm,         \* page directories allocated and not freed
    sh,         \* the local pid of init's main(), as a slot
    panicked    \* why the kernel panicked, or "no"

vars == <<state, parent, pgdir, ustack, killed, named, chan, pc, np, vm, sh,
          panicked>>

-----------------------------------------------------------------------------
States == {"UNUSED", "EMBRYO", "SLEEPING", "RUNNABLE", "RUNNING", "ZOMBIE"}
PCs == {"user", "sys", "fork", "publish", "clone", "wait", "join", "io",
        "iosleep", "iolate", "exit"}

Alive(p) == state[p] \in {"SLEEPING", "RUNNABLE", "RUNNING"}
Running(p, c) == state[p] = "RUNNING" /\ pc[p] = c
CpuFree == Cardinality({p \in Procs : state[p] = "RUNNING"}) < NCPU
IsFirst(q, S) == q \in S /\ \A r \in S : q <= r    \* in table order
Goto(p, c) == pc' = [pc EXCEPT ![p] = c]
Children(p) == {q \in Procs : parent[q] = p}
Threads(p) == {q \in Children(p) : ustack[q]}

\* wakeup1(): state st after waking every process that sleeps on a channel of C.
Woken(st, C) ==
    [q \in Procs |-> IF st[q] = "SLEEPING" /\ chan[q] \in C
                     THEN "RUNNABLE" ELSE st[q]]

\* init makes the calls of its main() only; other programs any call of Calls.
MayCall(p, c) ==
    IF p = initproc THEN c = (IF sh = None THEN "fork" ELSE "wait")
                    ELSE c \in Calls

-----------------------------------------------------------------------------
\* The table when userinit() returns: init is the only process.
Init ==
    /\ state = [p \in Procs |-> IF p = initproc THEN "RUNNABLE" ELSE "UNUSED"]
    /\ parent = [p \in Procs |-> None]
    /\ \E d \in PageDirs :
        /\ pgdir = [p \in Procs |-> IF p = initproc THEN d ELSE None]
        /\ vm = {d}
    /\ ustack = [p \in Procs |-> FALSE]
    /\ killed = [p \in Procs |-> FALSE]
    /\ named = [p \in Procs |-> p = initproc]
    /\ chan = [p \in Procs |-> None]
    /\ pc = [p \in Procs |-> "user"]
    /\ np = [p \in Procs |-> None]
    /\ sh = None
    /\ panicked = "no"

-----------------------------------------------------------------------------
(* Scheduling *)

\* The scheduler of an idle CPU switches to p, which is in user code, in
\* preempted kernel code, or in a sleep on a lock other than ptable.lock.  A
\* process that slept in wait() or join() resumes with Resumed below.
Dispatch(p) ==
    /\ state[p] = "RUNNABLE" /\ CpuFree
    /\ pc[p] \notin {"wait", "join"}
    /\ state' = [state EXCEPT ![p] = "RUNNING"]
    /\ chan' = [chan EXCEPT ![p] = None]
    /\ UNCHANGED <<parent, pgdir, ustack, killed, named, pc, np, vm, sh,
                   panicked>>

\* A clock tick makes p give up its CPU, unless the trap finds it killed and in
\* user code, or interrupts are off.
Yield(p) ==
    /\ state[p] = "RUNNING"
    /\ pc[p] = "user" => ~killed[p]
    /\ pc[p] # "iosleep"
    /\ state' = [state EXCEPT ![p] = "RUNNABLE"]
    /\ UNCHANGED <<parent, pgdir, ustack, killed, named, chan, pc, np, vm, sh,
                   panicked>>

-----------------------------------------------------------------------------
(* System call entry, and calls that leave the table alone *)

\* trap() lets a process that is not killed into syscall().
Enter(p) ==
    /\ Running(p, "user") /\ ~killed[p]
    /\ Goto(p, "sys")
    /\ UNCHANGED <<state, parent, pgdir, ustack, killed, named, chan, np, vm,
                   sh, panicked>>

\* A call that changes nothing here: getpid(), a failed exec(), kill() of a
\* pid nobody has, clone() with a stack that is not page aligned.
OtherCall(p) ==
    /\ Running(p, "sys") /\ p # initproc
    /\ Goto(p, "user")
    /\ UNCHANGED <<state, parent, pgdir, ustack, killed, named, chan, np, vm,
                   sh, panicked>>

-----------------------------------------------------------------------------
(* Creation *)

Unused == {q \in Procs : state[q] = "UNUSED"}

\* allocproc() takes slot q for p's call c.
Take(p, c, q) ==
    /\ state' = [state EXCEPT ![q] = "EMBRYO"]
    /\ named' = [named EXCEPT ![q] = TRUE]
    /\ np' = [np EXCEPT ![p] = q]
    /\ Goto(p, c)
    /\ UNCHANGED <<parent, pgdir, ustack, killed, chan, vm, sh, panicked>>

\* allocproc() under ptable.lock: the first UNUSED slot becomes EMBRYO.
Alloc(p, c) ==
    /\ Running(p, "sys") /\ MayCall(p, c)
    /\ \E q \in Unused : IsFirst(q, Unused) /\ Take(p, c, q)

\* fork() returns -1; init's main() answers that with exit(), a panic.
ForkReturnsError(p) ==
    /\ Goto(p, "user")
    /\ panicked' = IF p = initproc THEN "init exiting" ELSE panicked

\* fork() with no UNUSED slot.
ForkNoSlot(p) ==
    /\ Running(p, "sys") /\ MayCall(p, "fork")
    /\ Unused = {}
    /\ ForkReturnsError(p)
    /\ UNCHANGED <<state, parent, pgdir, ustack, killed, named, chan, np, vm,
                   sh>>

\* fork() finds no memory, for the kernel stack (in allocproc()) or for the
\* copy of the address space: without the lock, the slot goes back to UNUSED,
\* its pid and its killed flag as they are.
ForkNoMemory(p) ==
    /\ Running(p, "fork")
    /\ MayRunOut \/ vm = PageDirs
    /\ state' = [state EXCEPT ![np[p]] = "UNUSED"]
    /\ np' = [np EXCEPT ![p] = None]
    /\ ForkReturnsError(p)
    /\ UNCHANGED <<parent, pgdir, ustack, killed, named, chan, vm, sh>>

\* Mutant: fork() leaves the parent that the slot had before.
ForkCopyNoParent(p) ==
    /\ Running(p, "fork")
    /\ \E d \in PageDirs \ vm :
        /\ pgdir' = [pgdir EXCEPT ![np[p]] = d]
        /\ vm' = vm \cup {d}
    /\ Goto(p, "publish")
    /\ UNCHANGED <<state, parent, ustack, killed, named, chan, np, sh, panicked>>

\* fork() fills the EMBRYO, without the lock.
ForkCopy(p) ==
    /\ Running(p, "fork")
    /\ \E d \in PageDirs \ vm :
        /\ pgdir' = [pgdir EXCEPT ![np[p]] = d]
        /\ vm' = vm \cup {d}
    /\ parent' = [parent EXCEPT ![np[p]] = p]
    /\ Goto(p, "publish")
    /\ UNCHANGED <<state, ustack, killed, named, chan, np, sh, panicked>>

\* fork() publishes the child under ptable.lock and returns its pid.
ForkPublish(p) ==
    /\ Running(p, "publish")
    /\ state' = [state EXCEPT ![np[p]] = "RUNNABLE"]
    /\ pc' = [pc EXCEPT ![p] = "user", ![np[p]] = "user"]
    /\ np' = [np EXCEPT ![p] = None]
    /\ sh' = IF p = initproc THEN np[p] ELSE sh
    /\ UNCHANGED <<parent, pgdir, ustack, killed, named, chan, vm, panicked>>

\* clone() when allocproc() returns 0 at its scan: the error path reads
\* np->kstack through the null pointer and hands what it finds to kfree().
CloneNoSlot(p) ==
    /\ Running(p, "sys") /\ MayCall(p, "clone")
    /\ Unused = {}
    /\ panicked' = "clone"
    /\ UNCHANGED <<state, parent, pgdir, ustack, killed, named, chan, pc, np,
                   vm, sh>>

\* clone() when allocproc() finds no kernel stack: the same path, with the
\* slot UNUSED again.
CloneNoMemory(p) ==
    /\ Running(p, "clone") /\ MayRunOut
    /\ state' = [state EXCEPT ![np[p]] = "UNUSED"]
    /\ panicked' = "clone"
    /\ UNCHANGED <<parent, pgdir, ustack, killed, named, chan, pc, np, vm, sh>>

\* The rest of clone(), under ptable.lock: the thread shares p's pgdir.
CloneFill(p) ==
    /\ Running(p, "clone")
    /\ pgdir' = [pgdir EXCEPT ![np[p]] = pgdir[p]]
    /\ parent' = [parent EXCEPT ![np[p]] = p]
    /\ ustack' = [ustack EXCEPT ![np[p]] = TRUE]
    /\ state' = [state EXCEPT ![np[p]] = "RUNNABLE"]
    /\ pc' = [pc EXCEPT ![p] = "user", ![np[p]] = "user"]
    /\ np' = [np EXCEPT ![p] = None]
    /\ UNCHANGED <<killed, named, chan, vm, sh, panicked>>

-----------------------------------------------------------------------------
(* exec, kill, and sleeping on anything that is not a child *)

\* Mutant: exec() does not free the old page directory.
ExecKeepsOld(p) ==
    /\ Running(p, "sys") /\ MayCall(p, "exec")
    /\ \E d \in PageDirs \ vm :
        /\ pgdir' = [pgdir EXCEPT ![p] = d]
        /\ vm' = vm \cup {d}
    /\ Goto(p, "user")
    /\ UNCHANGED <<state, parent, ustack, killed, named, chan, np, sh,
                   panicked>>

\* exec() commits to a new page directory and frees the old one.
Exec(p) ==
    /\ Running(p, "sys") /\ MayCall(p, "exec")
    /\ JoinFirst => Threads(p) = {} /\ ~ustack[p]
    /\ \E d \in PageDirs \ vm :
        /\ pgdir' = [pgdir EXCEPT ![p] = d]
        /\ vm' = (vm \cup {d}) \ {pgdir[p]}
    /\ Goto(p, "user")
    /\ UNCHANGED <<state, parent, ustack, killed, named, chan, np, sh,
                   panicked>>

\* kill(pid): the first slot whose pid is equal.  pid 0 is the pid of every
\* slot that was reaped or never used.
KillTargets ==
    LET nameless == {q \in Procs : ~named[q]}
    IN  {q \in Procs : named[q] \/ IsFirst(q, nameless)}

\* Mutant: kill() does not wake its target.
KillWithoutWakeup(p) ==
    /\ Running(p, "sys") /\ MayCall(p, "kill")
    /\ \E q \in KillTargets : killed' = [killed EXCEPT ![q] = TRUE]
    /\ Goto(p, "user")
    /\ UNCHANGED <<state, parent, pgdir, ustack, named, chan, np, vm, sh,
                   panicked>>

Kill(p) ==
    /\ Running(p, "sys") /\ MayCall(p, "kill")
    /\ \E q \in KillTargets :
        /\ killed' = [killed EXCEPT ![q] = TRUE]
        /\ state' = [state EXCEPT ![q] = IF @ = "SLEEPING" THEN "RUNNABLE"
                                                            ELSE @]
    /\ Goto(p, "user")
    /\ UNCHANGED <<parent, pgdir, ustack, named, chan, np, vm, sh, panicked>>

\* A call that waits for a device or another process (piperead(), pipewrite(),
\* consoleread(), sys_sleep()): a loop, under a lock of its own, that returns
\* when it finds the data or finds killed set, and else sleeps.  Between that
\* check and sleep() it does not hold ptable.lock, but it cannot be preempted.
\* "iolate" is the loop of a process that was killed in that gap.
IoCall(p) ==
    /\ Running(p, "sys") /\ MayCall(p, "io")
    /\ Goto(p, "io")
    /\ UNCHANGED <<state, parent, pgdir, ustack, killed, named, chan, np, vm,
                   sh, panicked>>

IoCheck(p) ==
    /\ Running(p, "io") /\ ~killed[p]
    /\ Goto(p, "iosleep")
    /\ UNCHANGED <<state, parent, pgdir, ustack, killed, named, chan, np, vm,
                   sh, panicked>>

IoSleep(p) ==
    /\ Running(p, "iosleep")
    /\ state' = [state EXCEPT ![p] = "SLEEPING"]
    /\ chan' = [chan EXCEPT ![p] = IoChan]
    /\ Goto(p, IF killed[p] THEN "iolate" ELSE "io")
    /\ UNCHANGED <<parent, pgdir, ustack, killed, named, np, vm, sh, panicked>>

IoReturn(p) ==
    /\ Running(p, "io") \/ Running(p, "iolate")
    /\ Goto(p, "user")
    /\ UNCHANGED <<state, parent, pgdir, ustack, killed, named, chan, np, vm,
                   sh, panicked>>

\* An interrupt or another process calls wakeup() on that channel.
IoWakeup ==
    /\ \E q \in Procs : state[q] = "SLEEPING" /\ chan[q] = IoChan
    /\ state' = Woken(state, {IoChan})
    /\ UNCHANGED <<parent, pgdir, ustack, killed, named, chan, pc, np, vm, sh,
                   panicked>>

-----------------------------------------------------------------------------
(* exit, wait and join *)

\* exit() up to acquire(&ptable.lock).
BeginExit(p) ==
    IF p = initproc
    THEN panicked' = "init exiting" /\ UNCHANGED pc
    ELSE Goto(p, "exit") /\ UNCHANGED panicked

\* The process calls exit(), or it misbehaves and the trap makes it exit.
ExitCall(p) ==
    /\ Running(p, "sys") /\ MayCall(p, "exit")
    /\ BeginExit(p)
    /\ UNCHANGED <<state, parent, pgdir, ustack, killed, named, chan, np, vm,
                   sh>>

\* trap() finds a killed process on its way to user code.
ExitKilled(p) ==
    /\ Running(p, "user") /\ killed[p]
    /\ BeginExit(p)
    /\ UNCHANGED <<state, parent, pgdir, ustack, killed, named, chan, np, vm,
                   sh>>

\* Mutant: exit() does not give its children to init.
ExitKeepsChildren(p) ==
    /\ Running(p, "exit")
    /\ state' = [Woken(state, {parent[p]}) EXCEPT ![p] = "ZOMBIE"]
    /\ killed' = [q \in Procs |-> killed[q] \/ q \in Threads(p)]
    /\ UNCHANGED <<parent, pgdir, ustack, named, chan, pc, np, vm, sh, panicked>>

\* Mutant: exit() becomes a ZOMBIE without waking its parent.
ExitWakesNobody(p) ==
    /\ Running(p, "exit")
    /\ state' = [state EXCEPT ![p] = "ZOMBIE"]
    /\ killed' = [q \in Procs |-> killed[q] \/ q \in Threads(p)]
    /\ parent' = [q \in Procs |-> IF q \in Children(p) THEN initproc
                                                       ELSE parent[q]]
    /\ UNCHANGED <<pgdir, ustack, named, chan, pc, np, vm, sh, panicked>>

\* exit() under ptable.lock: wake the parent, kill the threads, give the
\* children to init, become a ZOMBIE.
ExitZombie(p) ==
    LET orphans == Children(p)
        woken == {parent[p]} \cup
                 (IF \E q \in orphans : state[q] = "ZOMBIE" THEN {initproc}
                                                            ELSE {})
    IN  /\ Running(p, "exit")
        /\ state' = [Woken(state, woken) EXCEPT ![p] = "ZOMBIE"]
        /\ killed' = [q \in Procs |-> killed[q] \/ q \in Threads(p)]
        /\ parent' = [q \in Procs |-> IF q \in orphans THEN initproc
                                                       ELSE parent[q]]
        /\ UNCHANGED <<pgdir, ustack, named, chan, pc, np, vm, sh, panicked>>

\* Mutant: join() takes everybody's threads.
JoinableOfAnyone(p) == {q \in Procs \ {p} : ustack[q] /\ pgdir[q] = pgdir[p]}

\* The children wait() does not skip, and those join() does not skip.
Waitable(p) == {q \in Children(p) : ~ustack[q] \/ p = initproc}
Joinable(p) == {q \in Threads(p) : pgdir[q] = pgdir[p]}

\* p scans the table, holding ptable.lock: either it makes the call c, or it is
\* dispatched where it slept in c, on a lock the scheduler still holds.
Scans(p, c) ==
    \/ Running(p, "sys") /\ MayCall(p, c)
    \/ state[p] = "RUNNABLE" /\ pc[p] = c /\ CpuFree

\* The scan finds the ZOMBIE q first, frees its slot, and returns its pid.
Reap(p, q) ==
    /\ state' = [state EXCEPT ![p] = "RUNNING", ![q] = "UNUSED"]
    /\ ustack' = [ustack EXCEPT ![q] = FALSE]
    /\ named' = [named EXCEPT ![q] = FALSE]
    /\ parent' = [parent EXCEPT ![q] = None]
    /\ killed' = [killed EXCEPT ![q] = FALSE]
    /\ chan' = [chan EXCEPT ![p] = None]
    /\ Goto(p, "user")
    /\ UNCHANGED <<pgdir, np, panicked>>

\* The scan returns -1: nothing to wait for, or p is killed.
ScanFails(p, S) ==
    /\ S = {} \/ killed[p]
    /\ state' = [state EXCEPT ![p] = "RUNNING"]
    /\ chan' = [chan EXCEPT ![p] = None]
    /\ Goto(p, "user")
    /\ sh' = IF p = initproc THEN None ELSE sh
    /\ UNCHANGED <<parent, pgdir, ustack, killed, named, np, vm, panicked>>

\* sleep(curproc, &ptable.lock)
ScanSleeps(p, c, S) ==
    /\ S # {} /\ ~killed[p]
    /\ state' = [state EXCEPT ![p] = "SLEEPING"]
    /\ chan' = [chan EXCEPT ![p] = p]
    /\ Goto(p, c)
    /\ UNCHANGED <<parent, pgdir, ustack, killed, named, np, vm, sh, panicked>>

Zombies(S) == {q \in S : state[q] = "ZOMBIE"}

Wait(p) ==
    /\ Scans(p, "wait")
    /\ \/ \E q \in Procs :
            /\ IsFirst(q, Zombies(Waitable(p)))
            /\ Reap(p, q)
            /\ vm' = IF ustack[q] THEN vm ELSE vm \ {pgdir[q]}
            /\ sh' = IF p = initproc /\ q = sh THEN None ELSE sh
       \/ /\ Zombies(Waitable(p)) = {}
          /\ ScanFails(p, Waitable(p)) \/ ScanSleeps(p, "wait", Waitable(p))

\* Mutant: join() frees the page directory as wait() does.
JoinFreesVm(p) ==
    /\ Scans(p, "join")
    /\ \/ \E q \in Procs :
            /\ IsFirst(q, Zombies(Joinable(p)))
            /\ Reap(p, q)
            /\ vm' = vm \ {pgdir[q]} /\ UNCHANGED sh
       \/ /\ Zombies(Joinable(p)) = {}
          /\ ScanFails(p, Joinable(p)) \/ ScanSleeps(p, "join", Joinable(p))

Join(p) ==
    /\ Scans(p, "join")
    /\ \/ \E q \in Procs :
            /\ IsFirst(q, Zombies(Joinable(p)))
            /\ Reap(p, q)
            /\ UNCHANGED <<vm, sh>>
       \/ /\ Zombies(Joinable(p)) = {}
          /\ ScanFails(p, Joinable(p)) \/ ScanSleeps(p, "join", Joinable(p))

-----------------------------------------------------------------------------
\* Steps p takes in the kernel without returning to user code.
KernelStep(p) ==
    \/ OtherCall(p)
    \/ Alloc(p, "fork") \/ ForkNoSlot(p) \/ ForkNoMemory(p)
    \/ ForkCopy(p) \/ ForkPublish(p)
    \/ Alloc(p, "clone") \/ CloneNoSlot(p) \/ CloneNoMemory(p) \/ CloneFill(p)
    \/ Exec(p) \/ Kill(p)
    \/ IoCall(p) \/ IoCheck(p) \/ IoSleep(p) \/ IoReturn(p)
    \/ ExitCall(p) \/ ExitKilled(p) \/ ExitZombie(p)
    \/ Wait(p) \/ Join(p)

Step(p) == Dispatch(p) \/ Yield(p) \/ Enter(p) \/ KernelStep(p)

Next == panicked = "no" /\ (IoWakeup \/ \E p \in Procs : Step(p))

Spec == Init /\ [][Next]_vars

\* The round robin scan reaches every RUNNABLE process again and again, a
\* process gets on with its system call whenever it runs, and the timer
\* interrupts user code.  User programs are not fair: they may compute for
\* ever; but init's main() goes on to its next call.
Fairness ==
    /\ \A p \in Procs : /\ SF_vars(Dispatch(p) /\ panicked = "no")
                        /\ SF_vars(KernelStep(p) /\ panicked = "no")
                        /\ WF_vars(Yield(p) /\ panicked = "no")
    /\ SF_vars(Enter(initproc) /\ panicked = "no")

LiveSpec == Spec /\ Fairness

-----------------------------------------------------------------------------
(* Properties *)

\* The values the fields of a slot take.
TypeOK ==
    /\ state \in [Procs -> States]
    /\ parent \in [Procs -> Procs \cup {None}]
    /\ pgdir \in [Procs -> PageDirs \cup {None}]
    /\ ustack \in [Procs -> BOOLEAN]
    /\ killed \in [Procs -> BOOLEAN]
    /\ named \in [Procs -> BOOLEAN]
    /\ chan \in [Procs -> Procs \cup {None, IoChan}]
    /\ pc \in [Procs -> PCs]
    /\ np \in [Procs -> Procs \cup {None}]
    /\ vm \subseteq PageDirs
    /\ sh \in Procs \cup {None}
    /\ panicked \in {"no", "init exiting", "clone"}

\* Nobody loses a slot: every EMBRYO is the np of exactly one process, which is
\* in fork() or clone() with it and will publish it or give it back, although
\* allocproc() drops ptable.lock half way and others scan the table meanwhile.
Building(p) == pc[p] \in {"fork", "publish", "clone"} /\ Alive(p)

EmbryoOwned ==
    panicked = "no" =>
        /\ \A p \in Procs : Building(p) =>
                np[p] \in Procs /\ state[np[p]] = "EMBRYO"
        /\ \A q \in Procs : state[q] = "EMBRYO" =>
                \E p \in Procs : Building(p) /\ np[p] = q
        /\ \A p, r \in Procs :
                Building(p) /\ Building(r) /\ np[p] = np[r] => p = r

\* Nobody is orphaned: however exit(), fork(), clone() and the waits of
\* several processes interleave, the parent of every process, thread or zombie
\* other than init is a process that can still wait for it (exit() hands its
\* children to init under the same lock that makes it a ZOMBIE).
ParentCanWait ==
    \A q \in Procs \ {initproc} :
        Alive(q) \/ state[q] = "ZOMBIE" =>
            /\ parent[q] \in Procs \ {q}
            /\ Alive(parent[q])

\* No wakeup is lost: a process asleep in wait() or join() has no zombie it
\* could collect, whether the child exits before, during or after the scan,
\* or is inherited as a zombie from a process that exits.
NoLostWakeup ==
    \A p \in Procs :
        state[p] = "SLEEPING" =>
            /\ pc[p] = "wait" => Zombies(Waitable(p)) = {}
            /\ pc[p] = "join" => Zombies(Joinable(p)) = {}

\* A process asleep in wait() or join() sleeps for somebody: it has a child
\* whose exit will wake it.
WaiterHasChild ==
    \A p \in Procs :
        state[p] = "SLEEPING" =>
            /\ pc[p] = "wait" => Waitable(p) # {}
            /\ pc[p] = "join" => Joinable(p) # {}

\* A kill is not lost on a waiter: kill() and the check of killed in wait()
\* and join() hold the same lock, so no killed process sleeps there.  Only a
\* thread that exit() marked when its process died, and gave to init, may.
KilledWaiterIsAwake ==
    \A p \in Procs :
        killed[p] /\ state[p] = "SLEEPING" /\ pc[p] \in {"wait", "join"} =>
            ustack[p] /\ parent[p] = initproc

\* Three facts the inductive invariant needs: init never dies and has no parent;
\* a child about to be published is its maker's child; a process asleep in
\* wait() or join() sleeps on itself.
InitIsRoot ==
    Alive(initproc) /\ parent[initproc] = None /\ pc[initproc] # "exit"

MakerIsParent ==
    \A p \in Procs : Building(p) /\ pc[p] = "publish" => parent[np[p]] = p

WaiterSleepsOnItself ==
    \A p \in Procs :
        state[p] = "SLEEPING" /\ pc[p] \in {"wait", "join"} => chan[p] = p

\* The inductive invariant: what the steps of all processes preserve together,
\* for every program, disciplined or not.
Consistent ==
    /\ TypeOK
    /\ EmbryoOwned
    /\ InitIsRoot
    /\ MakerIsParent
    /\ ParentCanWait
    /\ WaiterSleepsOnItself
    /\ NoLostWakeup
    /\ KilledWaiterIsAwake

\* The processes that own an address space: those that are not threads, and
\* the EMBRYO that fork() has copied into.
Owners ==
    {q \in Procs : (Alive(q) \/ state[q] = "ZOMBIE") /\ ~ustack[q]}
        \cup {np[p] : p \in {r \in Procs : pc[r] = "publish"}}

\* Address spaces are neither shared by two processes, nor freed while in use,
\* nor leaked, across fork(), exec(), wait() and their failures.
VmExact ==
    /\ vm = {pgdir[q] : q \in Owners}
    /\ \A q, r \in Owners : q # r => pgdir[q] # pgdir[r]

\* The threads that init got when the process or thread that made them exited, and
\* the threads below those: wait() may free what they run on.
Forsaken ==
    UNION {S \in SUBSET {q \in Procs : ustack[q]} :
                \A q \in S : parent[q] \in S \cup {initproc}}

\* Any other thread, and every process, runs on a page directory that is not
\* freed, and that belongs to a process that is alive: however fork(), clone(),
\* exec(), kills, exits with or without threads, wait() and join() interleave.
ThreadVmLive ==
    \A q \in Procs : Alive(q) /\ q \notin Forsaken =>
        /\ pgdir[q] \in vm
        /\ \E o \in Owners : Alive(o) /\ pgdir[o] = pgdir[q]

\* What the proofs of the last three need besides.  A slot that is free, or being
\* filled, carries nothing of the process before; only its maker makes it a child.
BeingMade(q) == \E p \in Procs : pc[p] = "publish" /\ np[p] = q

FreeIsBlank ==
    /\ \A q \in Procs : state[q] \in {"UNUSED", "EMBRYO"} =>
            ~ustack[q] /\ (parent[q] = None \/ BeingMade(q))
    /\ \A p \in Procs : pc[p] \in {"fork", "publish", "clone"} => Alive(p)

\* A thread has the address space of its parent, which is the process or thread that
\* made it or else init, and init is no thread.
ThreadKin ==
    /\ ~ustack[initproc]
    /\ \A q \in Procs : ustack[q] =>
            parent[q] = initproc \/ pgdir[q] = pgdir[parent[q]]

-----------------------------------------------------------------------------
\* The table as a tree of processes: a slot under construction is still free.
Life(q) ==
    CASE state[q] \in {"UNUSED", "EMBRYO"} -> "free"
      [] state[q] = "ZOMBIE" -> "dead"
      [] OTHER -> "alive"

Tree == INSTANCE ProcTree WITH
    Nodes <- Procs, Root <- initproc, Nobody <- None,
    life <- [q \in Procs |-> Life(q)],
    above <- [q \in Procs |-> IF Life(q) = "free" THEN None ELSE parent[q]]

\* The table implements the tree: every child is collected at most once, nothing
\* dead comes back, and the children of an exiting parent move below init in the
\* same step, at any interleaving.
ImplementsTree == Tree!TreeSpec

\* A process in wait() returns once one of its children is a zombie, and one in
\* join() once one of its threads is, whoever else exits or is killed meanwhile.
WaiterReturns ==
    \A p \in Procs :
        (\/ pc[p] = "wait" /\ Zombies(Waitable(p)) # {}
         \/ pc[p] = "join" /\ Zombies(Joinable(p)) # {})
            ~> (pc[p] = "user" \/ panicked # "no")

\* Asleep, and not to be woken by the kill: killed between the check of killed and
\* sleep(), or a thread that exit() marked, without a wakeup, as it gave it to init.
KilledUnheard(p) ==
    state[p] = "SLEEPING" /\ (pc[p] = "iolate" \/ (ustack[p] /\ parent[p] = initproc))

\* A killed process exits, whether it was killed as it ran, as it was being built
\* or in its sleep, and by kill() or with its process, unless it sleeps through the
\* kill in one of those two ways; and from there, as soon as somebody wakes it.
KilledExits ==
    \A p \in Procs :
        (killed[p] /\ Alive(p)) ~> (~Alive(p) \/ KilledUnheard(p) \/ panicked # "no")

=============================================================================
