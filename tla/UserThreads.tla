---------------------------- MODULE UserThreads ----------------------------
(***************************************************************************)
(* The thread library of practice5 (user/thread.c, ulock.c) on the heap    *)
(* (umalloc.c) of an address space that threads share, and the system      *)
(* calls that change this address space: sbrk(), clone() and fork().       *)
(*                                                                         *)
(* A step of the library is an access to memory that the threads share: a  *)
(* scan of the table of stacks, a write to one field of an entry.  What    *)
(* happens under malloc_lock is one step after the step that takes the     *)
(* lock; sbrk() and clone() run under ptable.lock and are one step, but    *)
(* fork() copies the pages first and reads the size once more afterwards.  *)
(*                                                                         *)
(* The unit of memory is what malloc() takes for one stack.  The process   *)
(* itself does not exit, nor does any thread call exec(); that, and slots  *)
(* of the process table, are in ProcTable.                                 *)
(***************************************************************************)
EXTENDS Naturals, FiniteSets, FiniteSetsExt

CONSTANTS Workers,        \* threads that can be created; a pid is used once
          Main,           \* the process
          Init_,          \* the parent of orphans
          TableSize,      \* entries of thread_stacks (NPROC)
          MaxUnits,       \* bound on the size of the address space
          MayRunOut,      \* memory may run out before the bound
          Callers,        \* threads that call the library, sbrk() and fork(); the
                          \* others only run and exit
          None

ASSUME ThreadAssumption == /\ Main \notin Workers /\ Init_ \notin Workers \cup {Main}
                           /\ None \notin Workers \cup {Main, Init_} \cup Nat
                           /\ None \notin [units : SUBSET Nat, sz : Nat \cup {None}]
ASSUME CallerAssumption == Callers \subseteq Workers \cup {Main}
ASSUME SizeAssumption == /\ TableSize \in Nat \ {0} /\ MaxUnits \in Nat
                         /\ MayRunOut \in BOOLEAN

Threads == Workers \cup {Main}
Entries == 1 .. TableSize

VARIABLES th,             \* the kernel's part of a thread: state, parent, killed, ustack, sz
          mapped,         \* units that the shared page directory maps
          child,          \* the process that fork() made last: its size and its units
          malloc_lock,    \* who has taken it
          heap,           \* units on malloc()'s free list
          thread_stacks,
          lib,            \* where a thread is in the library, and its local variables
          mishaps         \* history: what went wrong that nothing prevents

kernel == <<th, mapped, child>>
vars == <<th, mapped, child, malloc_lock, heap, thread_stacks, lib, mishaps>>

Free == [pid |-> None, stack |-> None]
AtUser == [at |-> "user", buf |-> None, kid |-> None, slot |-> None]
Unborn == [state |-> "unborn", parent |-> None, killed |-> FALSE, ustack |-> None, sz |-> 0]

Alive == {t \in Threads : th[t].state = "live"}
Children(t) == {u \in Workers : th[u].parent = t}
At(t, here) == t \in Alive /\ lib[t].at = here
Calling(t) == t \in Callers /\ At(t, "user")
Goto(t, there) == lib' = [lib EXCEPT ![t].at = there]
Return(t) == lib' = [lib EXCEPT ![t] = AtUser]

(***************************************************************************)
(* The kernel                                                              *)
(***************************************************************************)
\* growproc() gives every thread of the address space the new size.
Resized(n) == [t \in Threads |-> IF th[t].state = "unborn" THEN th[t]
                                 ELSE [th[t] EXCEPT !.sz = n]]

\* Mutant: only the caller learns the new size.
GrowAlone(t) == /\ th[t].sz < MaxUnits
                /\ mapped' = mapped \cup {th[t].sz + 1}
                /\ th' = [th EXCEPT ![t].sz = @ + 1]

GrowBy1(t) == /\ th[t].sz < MaxUnits
              /\ mapped' = mapped \cup {th[t].sz + 1}
              /\ th' = Resized(th[t].sz + 1)

OutOfMemory(t) == MayRunOut \/ th[t].sz = MaxUnits

\* sbrk(n) from the program itself, past malloc().
Sbrk(t) ==
    /\ Calling(t)
    /\ GrowBy1(t)
    /\ UNCHANGED <<child, malloc_lock, heap, thread_stacks, lib>>
    /\ mishaps' = mishaps \cup {"fork" : u \in {v \in Alive : lib[v].at = "fork"}}

\* Mutant: the loop of copyuvm() ends one page early.
ForkCopyShort(t) ==
    /\ Calling(t) /\ child = None
    /\ child' = [units |-> {n \in mapped : n < th[t].sz}, sz |-> None]
    /\ Goto(t, "fork")
    /\ UNCHANGED <<th, mapped, malloc_lock, heap, thread_stacks, mishaps>>

\* fork(): copyuvm(curproc->sz), without a lock; then np->sz = curproc->sz.
ForkCopy(t) ==
    /\ Calling(t) /\ child = None
    /\ child' = [units |-> mapped \cap 1 .. th[t].sz, sz |-> None]
    /\ Goto(t, "fork")
    /\ UNCHANGED <<th, mapped, malloc_lock, heap, thread_stacks, mishaps>>

ForkSize(t) ==
    /\ At(t, "fork")
    /\ child' = [child EXCEPT !.sz = th[t].sz]
    /\ Return(t)
    /\ UNCHANGED <<th, mapped, malloc_lock, heap, thread_stacks, mishaps>>

\* The child goes its own way.
ChildGone ==
    /\ child # None /\ child.sz # None
    /\ child' = None
    /\ UNCHANGED <<th, mapped, malloc_lock, heap, thread_stacks, lib, mishaps>>

\* exit() of a thread: its own threads are marked and handed to init.
Exited(t) ==
    [u \in Threads |-> IF u = t THEN [th[t] EXCEPT !.state = "zombie"]
                       ELSE IF u \in Children(t)
                            THEN [th[u] EXCEPT !.parent = Init_, !.killed = TRUE]
                       ELSE th[u]]

Exit(t) ==
    /\ t # Main /\ At(t, "user")
    /\ th' = Exited(t)
    /\ UNCHANGED <<mapped, child, malloc_lock, heap, thread_stacks, lib, mishaps>>

\* Somebody kills one thread.  (One that only runs and exits may as well exit.)
Kill(t) ==
    /\ t \in (Alive \cap Callers) \ {Main} /\ ~th[t].killed
    /\ th' = [th EXCEPT ![t].killed = TRUE]
    /\ UNCHANGED <<mapped, child, malloc_lock, heap, thread_stacks, lib, mishaps>>

\* It dies on the next interrupt in user code, malloc_lock in hand or not.
Die(t) ==
    /\ t \in Alive /\ th[t].killed /\ lib[t].at \notin {"join", "fork"}
    /\ th' = Exited(t)
    /\ Return(t)
    /\ UNCHANGED <<mapped, child, malloc_lock, heap, thread_stacks, mishaps>>

\* init collects orphans.
InitReaps(t) ==
    /\ th[t].state = "zombie" /\ th[t].parent = Init_
    /\ th' = [th EXCEPT ![t] = [@ EXCEPT !.state = "reaped", !.ustack = None, !.parent = None]]
    /\ UNCHANGED <<mapped, child, malloc_lock, heap, thread_stacks, lib, mishaps>>

(***************************************************************************)
(* lock_acquire(), and the calls under the lock                            *)
(***************************************************************************)
Acquire(t, from, to) ==
    /\ At(t, from) /\ malloc_lock = None
    /\ malloc_lock' = t
    /\ Goto(t, to)
    /\ UNCHANGED <<th, mapped, child, heap, thread_stacks, mishaps>>

\* malloc() finds a unit, or gets one from sbrk(), or none.
Malloc(t) ==
    /\ At(t, "malloc")
    /\ malloc_lock' = None
    /\ \/ \E b \in heap :
            /\ lib' = [lib EXCEPT ![t] = [@ EXCEPT !.at = "clone", !.buf = b]]
            /\ heap' = heap \ {b}
            /\ UNCHANGED <<th, mapped, mishaps>>
       \/ /\ heap = {}
          /\ GrowBy1(t)
          /\ lib' = [lib EXCEPT ![t] = [@ EXCEPT !.at = "clone", !.buf = th[t].sz + 1]]
          /\ mishaps' = mishaps \cup {"fork" : u \in {v \in Alive : lib[v].at = "fork"}}
          /\ UNCHANGED heap
       \/ /\ heap = {} /\ OutOfMemory(t)
          /\ Goto(t, "clone")
          /\ mishaps' = mishaps \cup {"memory"}
          /\ UNCHANGED <<th, mapped, heap>>
    /\ UNCHANGED <<child, thread_stacks>>

\* free() of the buffer; free(0) reads below address 0, the trap marks the
\* thread killed, and it dies there with the lock.
FreeBuf(t, from) ==
    /\ At(t, from)
    /\ \/ /\ lib[t].buf # None
          /\ heap' = heap \cup {lib[t].buf}
          /\ malloc_lock' = None
          /\ Return(t)
          /\ UNCHANGED th
       \/ /\ lib[t].buf = None
          /\ th' = [th EXCEPT ![t].killed = TRUE]
          /\ Goto(t, "faulted")
          /\ UNCHANGED <<heap, malloc_lock>>
    /\ UNCHANGED <<mapped, child, thread_stacks, mishaps>>

(***************************************************************************)
(* thread_create()                                                         *)
(***************************************************************************)
Create(t) ==
    /\ Calling(t)
    /\ Goto(t, "create")
    /\ UNCHANGED <<kernel, malloc_lock, heap, thread_stacks, mishaps>>

\* clone(): the size is read under ptable.lock.
Clone(t) ==
    /\ At(t, "clone") /\ lib[t].buf # None
    /\ \E u \in {v \in Workers : th[v].state = "unborn"} :
         /\ th' = [th EXCEPT ![u] = [state |-> "live", parent |-> t, killed |-> FALSE,
                                     ustack |-> lib[t].buf, sz |-> th[t].sz]]
         /\ lib' = [lib EXCEPT ![t] = [@ EXCEPT !.at = "find", !.kid = u]]
    /\ UNCHANGED <<mapped, child, malloc_lock, heap, thread_stacks, mishaps>>

\* It refuses the stack 0 that malloc() returned.
CloneRefused(t) ==
    /\ At(t, "clone") /\ lib[t].buf = None
    /\ Goto(t, "undo")
    /\ UNCHANGED <<kernel, malloc_lock, heap, thread_stacks, mishaps>>

Writing == {t \in Alive : lib[t].at \in {"setpid", "setstack", "clearpid", "clearstack"}}
Clash(t) == {"table" : u \in Writing \ {t}}

\* add_thread_stack_info()
Find(t) ==
    /\ At(t, "find")
    /\ LET unused == {i \in Entries : thread_stacks[i].pid = None}
       IN  \/ /\ unused # {}
              /\ lib' = [lib EXCEPT ![t] = [@ EXCEPT !.at = "setpid", !.slot = Min(unused)]]
              /\ mishaps' = mishaps \cup Clash(t)
           \/ /\ unused = {}
              /\ Return(t)
              /\ mishaps' = mishaps \cup {"full"}
    /\ UNCHANGED <<kernel, malloc_lock, heap, thread_stacks>>

SetPid(t) ==
    /\ At(t, "setpid")
    /\ thread_stacks' = [thread_stacks EXCEPT ![lib[t].slot].pid = lib[t].kid]
    /\ Goto(t, "setstack")
    /\ UNCHANGED <<kernel, malloc_lock, heap, mishaps>>

SetStack(t) ==
    /\ At(t, "setstack")
    /\ thread_stacks' = [thread_stacks EXCEPT ![lib[t].slot].stack = lib[t].buf]
    /\ Return(t)
    /\ UNCHANGED <<kernel, malloc_lock, heap, mishaps>>

(***************************************************************************)
(* thread_join()                                                           *)
(***************************************************************************)
Join(t) ==
    /\ Calling(t)
    /\ Goto(t, "join")
    /\ UNCHANGED <<kernel, malloc_lock, heap, thread_stacks, mishaps>>

Joined(t) ==
    /\ At(t, "join")
    /\ \E u \in Children(t) :
         /\ th[u].state = "zombie"
         /\ th' = [th EXCEPT ![u] = [@ EXCEPT !.state = "reaped", !.ustack = None, !.parent = None]]
         /\ lib' = [lib EXCEPT ![t] = [@ EXCEPT !.at = "extract", !.kid = u]]
    /\ UNCHANGED <<mapped, child, malloc_lock, heap, thread_stacks, mishaps>>

NothingToJoin(t) ==
    /\ At(t, "join")
    /\ \A u \in Children(t) : th[u].state # "zombie"
    /\ Children(t) = {} \/ th[t].killed
    /\ Return(t)
    /\ UNCHANGED <<kernel, malloc_lock, heap, thread_stacks, mishaps>>

\* extract_thread_stack_info(), which found the entries mine.
ExtractIn(t, mine) ==
    /\ At(t, "extract")
    /\ \/ /\ mine # {}
          /\ lib' = [lib EXCEPT ![t] = [@ EXCEPT !.at = "clearpid", !.slot = Min(mine),
                                                 !.buf = thread_stacks[Min(mine)].stack]]
          /\ mishaps' = mishaps \cup Clash(t)
       \/ /\ mine = {}
          /\ lib' = [lib EXCEPT ![t] = [AtUser EXCEPT !.at = "giveback"]]
          /\ UNCHANGED mishaps
    /\ UNCHANGED <<kernel, malloc_lock, heap, thread_stacks>>

\* Mutants: the entry of any thread will do; the last entry is not looked at.
ExtractAny(t) == ExtractIn(t, {i \in Entries : thread_stacks[i].pid # None})
ExtractNotLast(t) ==
    ExtractIn(t, {i \in Entries \ {TableSize} : thread_stacks[i].pid = lib[t].kid})

Extract(t) == ExtractIn(t, {i \in Entries : thread_stacks[i].pid = lib[t].kid})

ClearPid(t) ==
    /\ At(t, "clearpid")
    /\ thread_stacks' = [thread_stacks EXCEPT ![lib[t].slot].pid = None]
    /\ Goto(t, "clearstack")
    /\ UNCHANGED <<kernel, malloc_lock, heap, mishaps>>

ClearStack(t) ==
    /\ At(t, "clearstack")
    /\ thread_stacks' = [thread_stacks EXCEPT ![lib[t].slot].stack = None]
    /\ lib' = [lib EXCEPT ![t] = [AtUser EXCEPT !.at = "giveback", !.buf = lib[t].buf]]
    /\ UNCHANGED <<kernel, malloc_lock, heap, mishaps>>

(***************************************************************************)
(* The specification                                                       *)
(***************************************************************************)
Init ==
    /\ th = [t \in Threads |-> IF t = Main THEN [Unborn EXCEPT !.state = "live"] ELSE Unborn]
    /\ mapped = {} /\ child = None
    /\ malloc_lock = None /\ heap = {}
    /\ thread_stacks = [i \in Entries |-> Free]
    /\ lib = [t \in Threads |-> AtUser]
    /\ mishaps = {}

ThreadCreate(t) ==
    \/ Create(t) \/ Acquire(t, "create", "malloc") \/ Malloc(t) \/ Clone(t)
    \/ CloneRefused(t) \/ Acquire(t, "undo", "undone") \/ FreeBuf(t, "undone")
    \/ Find(t) \/ SetPid(t) \/ SetStack(t)

ThreadJoin(t) ==
    \/ Join(t) \/ Joined(t) \/ NothingToJoin(t)
    \/ Extract(t) \/ ClearPid(t) \/ ClearStack(t)
    \/ Acquire(t, "giveback", "free") \/ FreeBuf(t, "free")

Next == \/ \E t \in Threads : \/ ThreadCreate(t) \/ ThreadJoin(t)
                              \/ Sbrk(t) \/ ForkCopy(t) \/ ForkSize(t)
                              \/ Exit(t) \/ Kill(t) \/ Die(t) \/ InitReaps(t)
        \/ ChildGone

Spec == Init /\ [][Next]_vars

(***************************************************************************)
(* Properties                                                              *)
(***************************************************************************)
Units == 1 .. MaxUnits

TypeOK ==
    /\ th \in [Threads -> [state : {"unborn", "live", "zombie", "reaped"},
                           parent : Threads \cup {Init_, None}, killed : BOOLEAN,
                           ustack : Units \cup {None}, sz : 0 .. MaxUnits]]
    /\ mapped \subseteq Units /\ heap \subseteq Units
    /\ child \in {None} \cup [units : SUBSET Units, sz : 0 .. MaxUnits \cup {None}]
    /\ malloc_lock \in Threads \cup {None}
    /\ thread_stacks \in [Entries -> [pid : Workers \cup {None}, stack : Units \cup {None}]]
    /\ mishaps \subseteq {"fork", "memory", "table", "full"}

\* All threads of the address space agree on its size, and every page below it
\* is mapped, whoever calls sbrk() and clone() in whatever order: sbrk() of one
\* thread can neither be lost nor map a page twice.
SizesAgree == \A t \in Alive : mapped = 1 .. th[t].sz

\* A forked process has a page for every address below its size, unless another
\* thread grew the address space while fork() copied it.
ForkedWhole ==
    /\ child # None
    /\ child.sz # None
    /\ "fork" \notin mishaps
    => child.units = 1 .. child.sz

\* As long as no two threads were in the table of stacks at once, nobody's stack
\* is free or given to somebody else, from clone() until the join.
StackIsOwn ==
    "table" \notin mishaps =>
      \A t \in {u \in Workers : th[u].state \in {"live", "zombie"}} :
        /\ th[t].ustack \notin heap
        /\ \A u \in Workers \ {t} : th[u].ustack # th[t].ustack
        /\ \A u \in Alive : lib[u].buf = th[t].ustack => lib[u].kid = t

\* A thread frees address 0 (and dies with malloc_lock in its hand) only when
\* malloc() failed, the table was full, or two threads were in it at once:
\* thread_join() finds the entry of every thread it joins.
NoNullFree ==
    mishaps \cap {"memory", "table", "full"} = {} =>
      \A t \in Alive : lib[t].at # "faulted"
=============================================================================
