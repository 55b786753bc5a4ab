-------------------------- MODULE ThreadsAndTimeProofs --------------------------
(***************************************************************************)
(* Proofs about the parts that practices added to the kernel and that keep *)
(* to themselves: the thread library (UserThreads), the schedulers         *)
(* (Schedulers) and the clock (Clock).  They share nothing, the prefixes   *)
(* Sched and Clock keep their specifications apart, and one module extends *)
(* them all.  The constants are any that the modules assume: so many       *)
(* threads, processes, CPUs, tickets or bits of a counter.                 *)
(***************************************************************************)
EXTENDS UserThreads, Schedulers, Clock, FiniteSetTheorems, WellFoundedInduction, TLAPS

-----------------------------------------------------------------------------
(* The thread library *)

Pcs == {"user", "fork", "create", "malloc", "clone", "undo", "undone", "find", "setpid",
        "setstack", "join", "extract", "clearpid", "clearstack", "giveback", "free",
        "faulted"}

\* Where buf is the only way to a unit, and where it is the stack of a new thread.
Holding == {"clone", "clearpid", "clearstack", "giveback", "free"}
Adding == {"find", "setpid", "setstack"}

\* The threads that have a stack, and those whose join is on its way to it.
Stacked == {u \in Workers : th[u].state \in {"live", "zombie"}}

LibType ==
    lib \in [Threads -> [at : Pcs, buf : Units \cup {None}, kid : Workers \cup {None},
                         slot : Entries \cup {None}]]

\* Every thread has the size of the address space, the dead ones too.
SizeInv == \A t \in Threads : th[t].state # "unborn" => mapped = 1 .. th[t].sz

\* Who is not there has no stack.
BareInv == \A t \in Threads : th[t].state \in {"unborn", "reaped"} => th[t].ustack = None

ForkInv ==
    /\ \A t \in Alive : lib[t].at = "fork" => child # None /\ child.sz = None
    /\ \A t, u \in Alive : lib[t].at = "fork" /\ lib[u].at = "fork" => t = u
    /\ child # None /\ child.sz = None =>
         /\ \E t \in Alive : lib[t].at = "fork"
         /\ "fork" \notin mishaps => child.units = mapped
    /\ ForkedWhole

\* What a thread in the library knows, and what it is about to do.
LibInv ==
    /\ \A t \in Threads \ Alive : lib[t].at = "user"
    /\ \A t \in Threads : lib[t].at \notin Holding \cup Adding => lib[t].buf = None
    /\ \A t \in Threads : lib[t].at \in Adding =>
         /\ lib[t].kid \in Stacked /\ th[lib[t].kid].parent = t
         /\ lib[t].buf = th[lib[t].kid].ustack
    /\ \A t \in Threads : lib[t].at \in {"extract", "clearpid"} =>
         lib[t].kid \in Workers /\ th[lib[t].kid].state = "reaped"
    /\ \A t, u \in Threads :
         /\ lib[t].at \in {"extract", "clearpid"} /\ lib[u].at \in {"extract", "clearpid"}
         /\ lib[t].kid = lib[u].kid
         => t = u
    /\ \A t \in Threads : lib[t].at \in {"setpid", "setstack", "clearpid", "clearstack"} =>
         lib[t].slot \in Entries

\* A thread that was not joined has a stack and a parent other than itself; only who was
\* born is in the table, and the entry of a new thread is not there twice.
StackInv ==
    /\ \A u \in Stacked : th[u].ustack \in Units /\ th[u].parent # u
    /\ \A i \in Entries : thread_stacks[i].pid # None => th[thread_stacks[i].pid].state # "unborn"
    /\ \A t \in Threads : lib[t].at \in {"find", "setpid"} =>
         \A i \in Entries : thread_stacks[i].pid # lib[t].kid

\* The table, as long as one thread at a time was in it.
TableInv ==
    /\ \A t, u \in Writing : t = u
    /\ \A t \in Writing : LET e == thread_stacks[lib[t].slot]
                          IN  /\ lib[t].at \in {"setpid", "clearstack"} => e.pid = None
                              /\ lib[t].at \in {"setstack", "clearpid"} => e.pid = lib[t].kid
    /\ \A u \in Stacked, i \in Entries :
         /\ thread_stacks[i].pid = u /\ th[u].parent \in Threads
         /\ ~(lib[th[u].parent].at = "setstack" /\ lib[th[u].parent].slot = i)
         => thread_stacks[i].stack = th[u].ustack

\* The units that the join of t will find.
ToFind(t) == {thread_stacks[i].stack : i \in {j \in Entries : /\ lib[t].at = "extract"
                                                             /\ thread_stacks[j].pid = lib[t].kid}}
Held(t) == {lib[t].buf : x \in {y \in {lib[t].at} : y \in Holding}} \ {None}

\* A unit has one owner.
OwnerInv ==
    /\ \A u, v \in Stacked : th[u].ustack = th[v].ustack => u = v
    /\ \A u \in Stacked : /\ th[u].ustack \in mapped \ heap
                          /\ \A t \in Threads : th[u].ustack \notin ToFind(t) \cup Held(t)
    /\ \A t \in Threads : ToFind(t) \cup Held(t) \subseteq mapped \ heap
    /\ \A t, u \in Threads : /\ Held(t) \cap ToFind(u) = {}
                             /\ t # u => Held(t) \cap Held(u) = {} /\ ToFind(t) \cap ToFind(u) = {}
    /\ heap \subseteq mapped

\* Nobody frees address 0 as long as memory and the table suffice and
\* one thread at a time is in it.
FoundInv ==
    /\ \A t \in Threads : lib[t].at \notin {"undo", "undone", "faulted"}
    /\ \A t \in Threads : lib[t].at \in Holding => lib[t].buf # None
    /\ \A t \in Threads : lib[t].at = "extract" =>
         \E i \in Entries : thread_stacks[i].pid = lib[t].kid
    /\ \A u \in Stacked : th[u].parent \in Threads =>
         \/ lib[th[u].parent].at \in {"find", "setpid"} /\ lib[th[u].parent].kid = u
         \/ \E i \in Entries : thread_stacks[i].pid = u

Inv ==
    /\ TypeOK /\ LibType /\ SizeInv /\ BareInv /\ ForkInv /\ LibInv /\ StackInv
    /\ "table" \notin mishaps => TableInv /\ OwnerInv
    /\ mishaps \cap {"memory", "table", "full"} = {} => FoundInv

-----------------------------------------------------------------------------
\* What the assumptions say of names that are compared.
LEMMA Names ==
  /\ Workers \subseteq Threads /\ Main \in Threads /\ None \notin Threads
  /\ Init_ \notin Threads /\ None # Init_ /\ None \notin Nat
  /\ Units \subseteq Nat /\ None \notin Units /\ Entries \subseteq Nat /\ None \notin Entries
  /\ None \notin Workers /\ MaxUnits \in Nat
  BY ThreadAssumption, SizeAssumption DEF Threads, Units, Entries

LEMMA MinIs ==
  ASSUME NEW S \in SUBSET Entries, S # {}
  PROVE  Min(S) \in S
  <1>1. S \in SUBSET Nat
    BY Names
  <1>2. IsWellFoundedOn({ss \in Nat \X Nat : ss[1] < ss[2]}, Nat)
    BY NatLessThanWellFounded, Zenon DEF OpToRel
  <1>3. PICK n \in S : \A m \in S : ~(<<m, n>> \in {ss \in Nat \X Nat : ss[1] < ss[2]})
    BY <1>1, <1>2, WFMin
  <1>4. ASSUME NEW m \in S
        PROVE  n <= m
    <2>1. m \in Nat /\ n \in Nat
      BY <1>1
    <2>2. ~(m < n)
      <3> SUFFICES ASSUME m < n PROVE FALSE
        OBVIOUS
      <3>1. <<m, n>> \in Nat \X Nat /\ <<m, n>>[1] < <<m, n>>[2]
        BY <2>1
      <3>2. <<m, n>> \in {ss \in Nat \X Nat : ss[1] < ss[2]}
        BY <3>1
      <3> QED BY <1>3, <3>2
    <2> QED BY <2>1, <2>2
  <1> QED BY <1>4 DEF Min

ThType == [state : {"unborn", "live", "zombie", "reaped"},
           parent : Threads \cup {Init_, None}, killed : BOOLEAN,
           ustack : Units \cup {None}, sz : 0 .. MaxUnits]

\* sbrk() changes the sizes only.
LEMMA GrowIs ==
  ASSUME TypeOK, SizeInv, NEW t \in Alive, GrowBy1(t)
  PROVE  /\ th' \in [Threads -> ThType]
         /\ \A u \in Threads : /\ th'[u].state = th[u].state /\ th'[u].parent = th[u].parent
                               /\ th'[u].ustack = th[u].ustack
                               /\ th[u].state # "unborn" => th'[u].sz = th[t].sz + 1
         /\ th[t].sz + 1 \in Units \ mapped /\ th[t].sz \in Nat
         /\ mapped' = mapped \cup {th[t].sz + 1} /\ mapped' = 1 .. th[t].sz + 1
  <1>1. th \in [Threads -> ThType] /\ t \in Threads /\ th[t].state = "live"
    BY DEF TypeOK, ThType, Alive
  <1>2. th[t].sz \in 0 .. MaxUnits /\ th[t].sz < MaxUnits /\ MaxUnits \in Nat
    BY <1>1, Names DEF ThType, GrowBy1
  <1>3. mapped = 1 .. th[t].sz /\ mapped' = mapped \cup {th[t].sz + 1}
    BY <1>1 DEF SizeInv, GrowBy1
  <1>4. th' = [u \in Threads |-> IF th[u].state = "unborn" THEN th[u]
                                 ELSE [th[u] EXCEPT !.sz = th[t].sz + 1]]
    BY DEF GrowBy1, Resized
  <1>5. \A u \in Threads : /\ th'[u] \in ThType
                           /\ th'[u].state = th[u].state /\ th'[u].parent = th[u].parent
                           /\ th'[u].ustack = th[u].ustack
                           /\ th[u].state # "unborn" => th'[u].sz = th[t].sz + 1
    BY <1>1, <1>2, <1>4 DEF ThType
  <1>6. th' \in [Threads -> ThType]
    BY <1>4, <1>5
  <1>7. th[t].sz + 1 \in Units \ mapped /\ th[t].sz \in Nat /\ mapped' = 1 .. th[t].sz + 1
    BY <1>2, <1>3 DEF Units
  <1> QED BY <1>3, <1>5, <1>6, <1>7

\* exit() makes a zombie, and orphans of its threads.
LEMMA ExitedIs ==
  ASSUME TypeOK, NEW t \in Threads, th' = Exited(t)
  PROVE  /\ th' \in [Threads -> ThType]
         /\ \A u \in Threads :
              /\ th'[u].state = IF u = t THEN "zombie" ELSE th[u].state
              /\ th'[u].parent = IF u # t /\ u \in Workers /\ th[u].parent = t THEN Init_
                                 ELSE th[u].parent
              /\ th'[u].ustack = th[u].ustack /\ th'[u].sz = th[u].sz
  <1>1. th \in [Threads -> ThType]
    BY DEF TypeOK, ThType
  <1>2. th' = [u \in Threads |-> IF u = t THEN [th[t] EXCEPT !.state = "zombie"]
                       ELSE IF u \in Workers /\ th[u].parent = t
                            THEN [th[u] EXCEPT !.parent = Init_, !.killed = TRUE]
                       ELSE th[u]]
    BY DEF Exited, Children
  <1>3. ASSUME NEW u \in Threads
        PROVE
          /\ th'[u] \in ThType
          /\ th'[u].state = IF u = t THEN "zombie" ELSE th[u].state
          /\ th'[u].parent = IF u # t /\ u \in Workers /\ th[u].parent = t THEN Init_
                                 ELSE th[u].parent
          /\ th'[u].ustack = th[u].ustack /\ th'[u].sz = th[u].sz
    <2>1. th'[u] = IF u = t THEN [th[t] EXCEPT !.state = "zombie"]
                   ELSE IF u \in Workers /\ th[u].parent = t
                   THEN [th[u] EXCEPT !.parent = Init_, !.killed = TRUE]
                   ELSE th[u]
      BY <1>2
    <2>2. th[u] \in ThType
      BY <1>1
    <2>3. CASE u = t
      BY <2>1, <2>2, <2>3 DEF ThType
    <2>4. CASE u # t /\ u \in Workers /\ th[u].parent = t
      <3>1. th'[u] = [th[u] EXCEPT !.parent = Init_, !.killed = TRUE]
        BY <2>1, <2>4
      <3> QED BY <2>2, <2>4, <3>1 DEF ThType
    <2>5. CASE u # t /\ ~(u \in Workers /\ th[u].parent = t)
      BY <2>1, <2>2, <2>5
    <2> QED BY <2>3, <2>4, <2>5
  <1> QED BY <1>2, <1>3

\* kill(), and the trap of a thread that frees address 0.
LEMMA KilledIs ==
  ASSUME TypeOK, NEW t \in Threads, th' = [th EXCEPT ![t].killed = TRUE]
  PROVE  /\ th' \in [Threads -> ThType]
         /\ \A u \in Threads : /\ th'[u].state = th[u].state /\ th'[u].parent = th[u].parent
                               /\ th'[u].ustack = th[u].ustack /\ th'[u].sz = th[u].sz
  <1>1. th \in [Threads -> ThType]
    BY DEF TypeOK, ThType
  <1> QED BY <1>1 DEF ThType

\* join() and init's wait() clear a slot.
LEMMA ReapedIs ==
  ASSUME TypeOK, NEW t \in Threads,
         th' = [th EXCEPT ![t] = [@ EXCEPT !.state = "reaped", !.ustack = None, !.parent = None]]
  PROVE  /\ th' \in [Threads -> ThType]
         /\ \A u \in Threads :
              /\ th'[u].state = IF u = t THEN "reaped" ELSE th[u].state
              /\ th'[u].parent = IF u = t THEN None ELSE th[u].parent
              /\ th'[u].ustack = IF u = t THEN None ELSE th[u].ustack
              /\ th'[u].sz = th[u].sz
  <1>1. th \in [Threads -> ThType]
    BY DEF TypeOK, ThType
  <1> QED BY <1>1 DEF ThType

LEMMA InitReaped ==
  ASSUME TypeOK, NEW t \in Threads, InitReaps(t)
  PROVE  /\ th' \in [Threads -> ThType]
         /\ \A u \in Threads :
              /\ th'[u].state = IF u = t THEN "reaped" ELSE th[u].state
              /\ th'[u].parent = IF u = t THEN None ELSE th[u].parent
              /\ th'[u].ustack = IF u = t THEN None ELSE th[u].ustack
              /\ th'[u].sz = th[u].sz
  <1>1. th' = [th EXCEPT ![t] = [@ EXCEPT !.state = "reaped", !.ustack = None, !.parent = None]]
    BY DEF InitReaps
  <1> QED BY <1>1, ReapedIs

\* clone() fills one.
LEMMA BornIs ==
  ASSUME TypeOK, NEW t \in Threads, NEW u \in Workers, lib[t].buf \in Units,
         th' = [th EXCEPT ![u] = [state |-> "live", parent |-> t, killed |-> FALSE,
                                  ustack |-> lib[t].buf, sz |-> th[t].sz]]
  PROVE  /\ th' \in [Threads -> ThType]
         /\ \A v \in Threads :
              /\ th'[v].state = IF v = u THEN "live" ELSE th[v].state
              /\ th'[v].parent = IF v = u THEN t ELSE th[v].parent
              /\ th'[v].ustack = IF v = u THEN lib[t].buf ELSE th[v].ustack
              /\ th'[v].sz = IF v = u THEN th[t].sz ELSE th[v].sz
  <1>1. th \in [Threads -> ThType] /\ u \in Threads
    BY Names DEF TypeOK, ThType
  <1>2. [state |-> "live", parent |-> t, killed |-> FALSE,
         ustack |-> lib[t].buf, sz |-> th[t].sz] \in ThType
    BY <1>1 DEF ThType
  <1> QED BY <1>1, <1>2

-----------------------------------------------------------------------------
\* Where a thread is in the library, as pointwise facts.
LEMMA GotoIs ==
  ASSUME LibType, NEW t \in Threads, NEW c \in Pcs, Goto(t, c)
  PROVE  /\ LibType'
         /\ \A u \in Threads : /\ lib'[u].at = IF u = t THEN c ELSE lib[u].at
                               /\ lib'[u].buf = lib[u].buf /\ lib'[u].kid = lib[u].kid
                               /\ lib'[u].slot = lib[u].slot
  <1>1. lib' = [lib EXCEPT ![t].at = c]
    BY DEF Goto
  <1> QED BY <1>1 DEF LibType

LEMMA ReturnIs ==
  ASSUME LibType, NEW t \in Threads, Return(t)
  PROVE  /\ LibType'
         /\ lib'[t].at = "user" /\ lib'[t].buf = None
         /\ \A u \in Threads \ {t} : lib'[u] = lib[u]
  <1>1. lib' = [lib EXCEPT ![t] = AtUser] /\ AtUser.at = "user" /\ AtUser.buf = None
    BY DEF Return, AtUser
  <1>2. AtUser \in [at : Pcs, buf : Units \cup {None}, kid : Workers \cup {None},
                    slot : Entries \cup {None}]
    BY DEF AtUser, Pcs
  <1> QED BY <1>1, <1>2 DEF LibType

\* The steps of the library, by what they change.
LEMMA StepsAre ==
  ASSUME [Next]_vars
  PROVE  \/ \E t \in Threads :
              \/ Create(t) \/ Join(t) \/ CloneRefused(t) \/ NothingToJoin(t)
              \/ Acquire(t, "create", "malloc") \/ Acquire(t, "undo", "undone")
              \/ Acquire(t, "giveback", "free")
              \/ Malloc(t) \/ Clone(t) \/ FreeBuf(t, "undone") \/ FreeBuf(t, "free")
              \/ Find(t) \/ SetPid(t) \/ SetStack(t)
              \/ Joined(t) \/ Extract(t) \/ ClearPid(t) \/ ClearStack(t)
              \/ Sbrk(t) \/ ForkCopy(t) \/ ForkSize(t)
              \/ Exit(t) \/ Kill(t) \/ Die(t) \/ InitReaps(t)
         \/ ChildGone
         \/ UNCHANGED vars
  BY DEF Next, ThreadCreate, ThreadJoin

LEMMA TypeIs ==
  ASSUME TypeOK
  PROVE  th \in [Threads -> ThType]
  BY DEF TypeOK, ThType

LEMMA TypeStep ==
  ASSUME TypeOK, LibType, SizeInv, ForkInv, LibInv, [Next]_vars
  PROVE  TypeOK' /\ LibType'
  <1> USE Names, TypeIs
  <1>1. ASSUME NEW t \in Threads, Create(t) \/ Join(t) \/ CloneRefused(t)
        PROVE  TypeOK' /\ LibType'
    <2>1. LibType'
      BY <1>1, GotoIs DEF Create, Join, CloneRefused, Pcs
    <2> QED BY <1>1, <2>1 DEF Create, Join, CloneRefused, TypeOK, kernel
  <1>2. ASSUME NEW t \in Threads, NothingToJoin(t)
        PROVE  TypeOK' /\ LibType'
    BY <1>2, ReturnIs DEF NothingToJoin, TypeOK, kernel
  <1>3. ASSUME NEW t \in Threads, NEW c \in Pcs, NEW d \in Pcs, Acquire(t, c, d)
        PROVE  TypeOK' /\ LibType'
    <2>1. LibType'
      BY <1>3, GotoIs DEF Acquire
    <2> QED BY <1>3, <2>1 DEF Acquire, TypeOK
  <1>4. ASSUME NEW t \in Threads, Malloc(t)
        PROVE  TypeOK' /\ LibType'
    <2>1. CASE \E b \in heap : /\ lib' = [lib EXCEPT ![t] = [@ EXCEPT !.at = "clone", !.buf = b]]
                               /\ heap' = heap \ {b}
                               /\ UNCHANGED <<th, mapped, mishaps>>
      <3>1. PICK b \in Units : lib' = [lib EXCEPT ![t] = [@ EXCEPT !.at = "clone", !.buf = b]]
        BY <2>1 DEF TypeOK
      <3>2. LibType'
        BY <3>1 DEF LibType, Pcs
      <3> QED BY <1>4, <2>1, <3>2 DEF Malloc, TypeOK
    <2>2. CASE /\ GrowBy1(t)
               /\ lib' = [lib EXCEPT ![t] = [@ EXCEPT !.at = "clone", !.buf = th[t].sz + 1]]
               /\ mishaps' = mishaps \cup {"fork" : u \in {v \in Alive : lib[v].at = "fork"}}
               /\ UNCHANGED heap
      <3>0. t \in Alive
        BY <1>4 DEF Malloc, At
      <3>1. th' \in [Threads -> ThType] /\ th[t].sz + 1 \in Units /\ mapped' = mapped \cup {th[t].sz + 1}
        BY <2>2, <3>0, GrowIs
      <3>2. LibType'
        <4>1. "clone" \in Pcs /\ th[t].sz + 1 \in Units
          BY <3>1 DEF Pcs
        <4> QED BY <2>2, <4>1 DEF LibType
      <3> QED BY <1>4, <2>2, <3>1, <3>2 DEF Malloc, TypeOK, ThType
    <2>3. CASE /\ Goto(t, "clone") /\ mishaps' = mishaps \cup {"memory"}
               /\ UNCHANGED <<th, mapped, heap>>
      BY <1>4, <2>3, GotoIs DEF Malloc, TypeOK, Pcs
    <2> QED BY <1>4, <2>1, <2>2, <2>3 DEF Malloc
  <1>5. ASSUME NEW t \in Threads, Clone(t)
        PROVE  TypeOK' /\ LibType'
    <2>1. PICK u \in Workers :
             /\ th' = [th EXCEPT ![u] = [state |-> "live", parent |-> t, killed |-> FALSE,
                                         ustack |-> lib[t].buf, sz |-> th[t].sz]]
             /\ lib' = [lib EXCEPT ![t] = [@ EXCEPT !.at = "find", !.kid = u]]
      BY <1>5 DEF Clone
    <2>2. lib[t].buf \in Units
      BY <1>5 DEF Clone, LibType
    <2>3. th' \in [Threads -> ThType]
      BY <2>1, <2>2, BornIs
    <2>4. LibType'
      <3>1. "find" \in Pcs
        BY DEF Pcs
      <3> QED BY <2>1, <3>1 DEF LibType
    <2> QED BY <1>5, <2>3, <2>4 DEF Clone, TypeOK, ThType
  <1>6. ASSUME NEW t \in Threads, NEW c \in Pcs, FreeBuf(t, c)
        PROVE  TypeOK' /\ LibType'
    <2>1. CASE /\ lib[t].buf # None /\ heap' = heap \cup {lib[t].buf} /\ malloc_lock' = None
               /\ Return(t) /\ UNCHANGED th
      <3>1. lib[t].buf \in Units
        BY <2>1 DEF LibType
      <3> QED BY <1>6, <2>1, <3>1, ReturnIs DEF FreeBuf, TypeOK
    <2>2. CASE /\ th' = [th EXCEPT ![t].killed = TRUE] /\ Goto(t, "faulted")
               /\ UNCHANGED <<heap, malloc_lock>>
      <3>1. th' \in [Threads -> ThType]
        BY <2>2, KilledIs
      <3> QED BY <1>6, <2>2, <3>1, GotoIs DEF FreeBuf, TypeOK, ThType, Pcs
    <2> QED BY <1>6, <2>1, <2>2 DEF FreeBuf
  <1>7. ASSUME NEW t \in Threads, Find(t)
        PROVE  TypeOK' /\ LibType'
    <2>1. CASE {i \in Entries : thread_stacks[i].pid = None} # {}
      <3> DEFINE s == Min({i \in Entries : thread_stacks[i].pid = None})
      <3>1. s \in Entries
        BY <2>1, MinIs
      <3>2. lib' = [lib EXCEPT ![t] = [@ EXCEPT !.at = "setpid", !.slot = s]]
        BY <1>7, <2>1 DEF Find
      <3>3. LibType'
        BY <3>1, <3>2 DEF LibType, Pcs
      <3>4. mishaps' \subseteq mishaps \cup {"table", "full"}
        BY <1>7 DEF Find, Clash
      <3> QED BY <1>7, <3>3, <3>4 DEF Find, TypeOK, kernel
    <2>2. CASE {i \in Entries : thread_stacks[i].pid = None} = {}
      BY <1>7, <2>2, ReturnIs DEF Find, TypeOK, kernel
    <2> QED BY <2>1, <2>2
  <1>8. ASSUME NEW t \in Threads, SetPid(t)
        PROVE  TypeOK' /\ LibType'
    <2>1. LibType' /\ lib[t].kid \in Workers \cup {None} /\ lib[t].slot \in Entries
      BY <1>8, GotoIs DEF SetPid, Pcs, LibType, LibInv, At
    <2>2. thread_stacks' = [thread_stacks EXCEPT ![lib[t].slot].pid = lib[t].kid]
      BY <1>8 DEF SetPid
    <2>3. thread_stacks' \in [Entries -> [pid : Workers \cup {None}, stack : Units \cup {None}]]
      BY <2>1, <2>2 DEF TypeOK
    <2> QED BY <1>8, <2>1, <2>3 DEF SetPid, TypeOK, kernel
  <1>9. ASSUME NEW t \in Threads, SetStack(t)
        PROVE  TypeOK' /\ LibType'
    <2>1. LibType' /\ lib[t].buf \in Units \cup {None} /\ lib[t].slot \in Entries
      BY <1>9, ReturnIs DEF SetStack, LibType, LibInv, At
    <2>2. thread_stacks' = [thread_stacks EXCEPT ![lib[t].slot].stack = lib[t].buf]
      BY <1>9 DEF SetStack
    <2>3. thread_stacks' \in [Entries -> [pid : Workers \cup {None}, stack : Units \cup {None}]]
      BY <2>1, <2>2 DEF TypeOK
    <2> QED BY <1>9, <2>1, <2>3 DEF SetStack, TypeOK, kernel
  <1>10. ASSUME NEW t \in Threads, Joined(t)
         PROVE  TypeOK' /\ LibType'
    <2>1. PICK u \in Workers :
            /\ th' = [th EXCEPT ![u] = [@ EXCEPT !.state = "reaped", !.ustack = None, !.parent = None]]
            /\ lib' = [lib EXCEPT ![t] = [@ EXCEPT !.at = "extract", !.kid = u]]
      BY <1>10 DEF Joined, Children
    <2>2. th' \in [Threads -> ThType]
      BY <2>1, ReapedIs
    <2>3. LibType'
      BY <2>1 DEF LibType, Pcs
    <2> QED BY <1>10, <2>2, <2>3 DEF Joined, TypeOK, ThType
  <1>11. ASSUME NEW t \in Threads, Extract(t)
         PROVE  TypeOK' /\ LibType'
    <2> DEFINE mine == {i \in Entries : thread_stacks[i].pid = lib[t].kid}
    <2>1. CASE mine # {}
      <3>1. Min(mine) \in Entries
        BY <2>1, MinIs
      <3>2. thread_stacks[Min(mine)].stack \in Units \cup {None}
        BY <3>1 DEF TypeOK
      <3>3. lib' = [lib EXCEPT ![t] = [@ EXCEPT !.at = "clearpid", !.slot = Min(mine),
                                                !.buf = thread_stacks[Min(mine)].stack]]
        BY <1>11, <2>1 DEF Extract, ExtractIn
      <3> HIDE DEF mine
      <3>4. LibType'
        <4>1. "clearpid" \in Pcs
          BY DEF Pcs
        <4> QED BY <3>1, <3>2, <3>3, <4>1 DEF LibType
      <3>5. mishaps' \subseteq mishaps \cup {"table"}
        BY <1>11 DEF Extract, ExtractIn, Clash
      <3> QED BY <1>11, <3>4, <3>5 DEF Extract, ExtractIn, TypeOK, kernel
    <2>2. CASE mine = {}
      <3>1. lib' = [lib EXCEPT ![t] = [AtUser EXCEPT !.at = "giveback"]] /\ mishaps' = mishaps
        BY <1>11, <2>2 DEF Extract, ExtractIn
      <3>2. LibType'
        BY <3>1 DEF LibType, AtUser, Pcs
      <3> QED BY <1>11, <3>1, <3>2 DEF Extract, ExtractIn, TypeOK, kernel
    <2> QED BY <2>1, <2>2
  <1>12. ASSUME NEW t \in Threads, ClearPid(t)
         PROVE  TypeOK' /\ LibType'
    <2>1. LibType' /\ lib[t].slot \in Entries
      BY <1>12, GotoIs DEF ClearPid, Pcs, LibInv, At
    <2>2. thread_stacks' = [thread_stacks EXCEPT ![lib[t].slot].pid = None]
      BY <1>12 DEF ClearPid
    <2>3. thread_stacks' \in [Entries -> [pid : Workers \cup {None}, stack : Units \cup {None}]]
      BY <2>1, <2>2 DEF TypeOK
    <2> QED BY <1>12, <2>1, <2>3 DEF ClearPid, TypeOK, kernel
  <1>13. ASSUME NEW t \in Threads, ClearStack(t)
         PROVE  TypeOK' /\ LibType'
    <2>1. lib' = [lib EXCEPT ![t] = [AtUser EXCEPT !.at = "giveback", !.buf = lib[t].buf]]
      BY <1>13 DEF ClearStack
    <2>0. lib[t].slot \in Entries /\ lib[t].buf \in Units \cup {None}
      BY <1>13 DEF ClearStack, LibInv, At, LibType
    <2>2. LibType'
      BY <2>0, <2>1 DEF Pcs, LibType, AtUser
    <2>3. thread_stacks' = [thread_stacks EXCEPT ![lib[t].slot].stack = None]
      BY <1>13 DEF ClearStack
    <2>4. thread_stacks' \in [Entries -> [pid : Workers \cup {None}, stack : Units \cup {None}]]
      BY <2>0, <2>3 DEF TypeOK
    <2> QED BY <1>13, <2>2, <2>4 DEF ClearStack, TypeOK, kernel
  <1>14. ASSUME NEW t \in Threads, Sbrk(t)
         PROVE  TypeOK' /\ LibType'
    <2>1. t \in Alive /\ GrowBy1(t)
      BY <1>14 DEF Sbrk, Calling, At
    <2>2. th' \in [Threads -> ThType] /\ th[t].sz + 1 \in Units /\ mapped' = mapped \cup {th[t].sz + 1}
      BY <2>1, GrowIs
    <2> QED BY <1>14, <2>2 DEF Sbrk, TypeOK, ThType, LibType
  <1>15. ASSUME NEW t \in Threads, ForkCopy(t)
         PROVE  TypeOK' /\ LibType'
    BY <1>15, GotoIs DEF ForkCopy, TypeOK, Pcs, Units
  <1>16. ASSUME NEW t \in Threads, ForkSize(t)
         PROVE  TypeOK' /\ LibType'
    <2>1. child' = [child EXCEPT !.sz = th[t].sz] /\ th[t].sz \in 0 .. MaxUnits /\ LibType'
      BY <1>16, ReturnIs DEF ForkSize, ThType
    <2>2. child \in [units : SUBSET Units, sz : 0 .. MaxUnits \cup {None}]
      BY <1>16 DEF ForkSize, At, ForkInv, TypeOK
    <2>3. child' \in [units : SUBSET Units, sz : 0 .. MaxUnits \cup {None}]
      BY <2>1, <2>2
    <2> QED BY <1>16, <2>1, <2>3 DEF ForkSize, TypeOK
  <1>17. ASSUME NEW t \in Threads, Exit(t)
         PROVE  TypeOK' /\ LibType'
    <2>1. th' \in [Threads -> ThType]
      BY <1>17, ExitedIs DEF Exit
    <2> QED BY <1>17, <2>1 DEF Exit, TypeOK, ThType, LibType
  <1>18. ASSUME NEW t \in Threads, Kill(t)
         PROVE  TypeOK' /\ LibType'
    <2>1. th' \in [Threads -> ThType]
      BY <1>18, KilledIs DEF Kill
    <2> QED BY <1>18, <2>1 DEF Kill, TypeOK, ThType, LibType
  <1>19. ASSUME NEW t \in Threads, Die(t)
         PROVE  TypeOK' /\ LibType'
    <2>1. th' \in [Threads -> ThType]
      BY <1>19, ExitedIs DEF Die
    <2> QED BY <1>19, <2>1, ReturnIs DEF Die, TypeOK, ThType
  <1>20. ASSUME NEW t \in Threads, InitReaps(t)
         PROVE  TypeOK' /\ LibType'
    <2>1. th' \in [Threads -> ThType]
      BY <1>20, InitReaped
    <2> QED BY <1>20, <2>1 DEF InitReaps, TypeOK, ThType, LibType
  <1>21. CASE ChildGone
    BY <1>21 DEF ChildGone, TypeOK, LibType
  <1>22. CASE UNCHANGED vars
    BY <1>22 DEF vars, TypeOK, LibType
  <1> QED
    BY <1>1, <1>2, <1>3, <1>4, <1>5, <1>6, <1>7, <1>8, <1>9, <1>10, <1>11, <1>12, <1>13,
       <1>14, <1>15, <1>16, <1>17, <1>18, <1>19, <1>20, <1>21, <1>22, StepsAre DEF Pcs

-----------------------------------------------------------------------------
\* The steps that change several variables, as pointwise facts.
LEMMA MallocIs ==
  ASSUME TypeOK, LibType, NEW t \in Threads, Malloc(t)
  PROVE  /\ t \in Alive /\ lib[t].at = "malloc" /\ lib'[t].at = "clone"
         /\ \A u \in Threads \ {t} : lib'[u] = lib[u]
         /\ child' = child /\ thread_stacks' = thread_stacks
         /\ \/ \E b \in heap : /\ lib'[t].buf = b /\ heap' = heap \ {b}
                               /\ UNCHANGED <<th, mapped, mishaps>>
            \/ /\ GrowBy1(t) /\ lib'[t].buf = th[t].sz + 1 /\ heap' = heap
               /\ mishaps' = mishaps \cup {"fork" : u \in {v \in Alive : lib[v].at = "fork"}}
            \/ /\ lib'[t].buf = lib[t].buf /\ UNCHANGED <<th, mapped, heap>>
               /\ mishaps' = mishaps \cup {"memory"}
  <1>1. t \in Alive /\ lib[t].at = "malloc" /\ child' = child /\ thread_stacks' = thread_stacks
    BY DEF Malloc, At
  <1>2. CASE \E b \in heap : /\ lib' = [lib EXCEPT ![t] = [@ EXCEPT !.at = "clone", !.buf = b]]
                             /\ heap' = heap \ {b}
                             /\ UNCHANGED <<th, mapped, mishaps>>
    <2>1. PICK b \in heap : /\ lib' = [lib EXCEPT ![t] = [@ EXCEPT !.at = "clone", !.buf = b]]
                            /\ heap' = heap \ {b}
                            /\ UNCHANGED <<th, mapped, mishaps>>
      BY <1>2
    <2>2. lib'[t].at = "clone" /\ lib'[t].buf = b /\ \A u \in Threads \ {t} : lib'[u] = lib[u]
      BY <2>1 DEF LibType
    <2> QED BY <1>1, <2>1, <2>2
  <1>3. CASE /\ GrowBy1(t) /\ UNCHANGED heap
             /\ lib' = [lib EXCEPT ![t] = [@ EXCEPT !.at = "clone", !.buf = th[t].sz + 1]]
             /\ mishaps' = mishaps \cup {"fork" : u \in {v \in Alive : lib[v].at = "fork"}}
    <2>1. /\ lib'[t].at = "clone" /\ lib'[t].buf = th[t].sz + 1
          /\ \A u \in Threads \ {t} : lib'[u] = lib[u]
      BY <1>3 DEF LibType
    <2> QED BY <1>1, <1>3, <2>1
  <1>4. CASE /\ Goto(t, "clone") /\ mishaps' = mishaps \cup {"memory"}
             /\ UNCHANGED <<th, mapped, heap>>
    <2>1. /\ lib'[t].at = "clone" /\ lib'[t].buf = lib[t].buf
          /\ \A u \in Threads \ {t} : lib'[u] = lib[u]
      BY <1>4 DEF LibType, Goto
    <2> QED BY <1>1, <1>4, <2>1
  <1> QED BY <1>2, <1>3, <1>4 DEF Malloc

LEMMA CloneIs ==
  ASSUME TypeOK, LibType, NEW t \in Threads, Clone(t)
  PROVE  /\ t \in Alive /\ lib[t].at = "clone" /\ lib[t].buf \in Units
         /\ UNCHANGED <<mapped, child, malloc_lock, heap, thread_stacks, mishaps>>
         /\ \E u \in Workers :
              /\ th[u].state = "unborn" /\ u # t
              /\ lib'[t].at = "find" /\ lib'[t].kid = u /\ lib'[t].buf = lib[t].buf
              /\ \A v \in Threads \ {t} : lib'[v] = lib[v]
              /\ th'[u].state = "live" /\ th'[u].parent = t
              /\ th'[u].ustack = lib[t].buf /\ th'[u].sz = th[t].sz
              /\ \A v \in Threads \ {u} : th'[v] = th[v]
  <1>1. t \in Alive /\ lib[t].at = "clone" /\ lib[t].buf \in Units /\ th[t].state = "live"
    BY DEF Clone, At, LibType, Alive
  <1>2. PICK u \in Workers :
          /\ th' = [th EXCEPT ![u] = [state |-> "live", parent |-> t, killed |-> FALSE,
                                      ustack |-> lib[t].buf, sz |-> th[t].sz]]
          /\ th[u].state = "unborn"
          /\ lib' = [lib EXCEPT ![t] = [@ EXCEPT !.at = "find", !.kid = u]]
    BY DEF Clone
  <1>3. /\ lib'[t].at = "find" /\ lib'[t].kid = u /\ lib'[t].buf = lib[t].buf
        /\ \A v \in Threads \ {t} : lib'[v] = lib[v]
    BY <1>2 DEF LibType
  <1>4. /\ th'[u].state = "live" /\ th'[u].parent = t
        /\ th'[u].ustack = lib[t].buf /\ th'[u].sz = th[t].sz
        /\ \A v \in Threads \ {u} : th'[v] = th[v]
    BY <1>2, TypeIs, Names
  <1> QED BY <1>1, <1>2, <1>3, <1>4 DEF Clone

LEMMA FindIs ==
  ASSUME TypeOK, LibType, NEW t \in Threads, Find(t)
  PROVE  /\ t \in Alive /\ lib[t].at = "find"
         /\ UNCHANGED <<th, mapped, child, heap, thread_stacks>>
         /\ \A u \in Threads \ {t} : lib'[u] = lib[u]
         /\ \/ \E s \in Entries :
                 /\ thread_stacks[s].pid = None /\ mishaps' = mishaps \cup Clash(t)
                 /\ lib'[t].at = "setpid" /\ lib'[t].slot = s
                 /\ lib'[t].buf = lib[t].buf /\ lib'[t].kid = lib[t].kid
            \/ /\ mishaps' = mishaps \cup {"full"}
               /\ lib'[t].at = "user" /\ lib'[t].buf = None
  <1> DEFINE unused == {i \in Entries : thread_stacks[i].pid = None}
  <1>1. t \in Alive /\ lib[t].at = "find" /\ UNCHANGED <<th, mapped, child, heap, thread_stacks>>
    BY DEF Find, At, kernel
  <1>2. CASE unused # {}
    <2>1. Min(unused) \in unused
      BY <1>2, MinIs
    <2>2. /\ lib' = [lib EXCEPT ![t] = [@ EXCEPT !.at = "setpid", !.slot = Min(unused)]]
          /\ mishaps' = mishaps \cup Clash(t)
      BY <1>2 DEF Find
    <2> DEFINE s == Min(unused)
    <2>3. s \in Entries /\ thread_stacks[s].pid = None
      BY <2>1
    <2>4. lib' = [lib EXCEPT ![t] = [@ EXCEPT !.at = "setpid", !.slot = s]]
      BY <2>2
    <2> HIDE DEF s
    <2>5. /\ lib'[t].at = "setpid" /\ lib'[t].slot = s /\ lib'[t].buf = lib[t].buf
          /\ lib'[t].kid = lib[t].kid /\ \A u \in Threads \ {t} : lib'[u] = lib[u]
      BY <2>4 DEF LibType
    <2> QED BY <1>1, <2>2, <2>3, <2>5
  <1>3. CASE unused = {}
    <2>1. Return(t) /\ mishaps' = mishaps \cup {"full"}
      BY <1>3 DEF Find
    <2> QED BY <1>1, <2>1, ReturnIs
  <1> QED BY <1>2, <1>3

LEMMA ExtractIs ==
  ASSUME TypeOK, LibType, NEW t \in Threads, Extract(t)
  PROVE  /\ t \in Alive /\ lib[t].at = "extract"
         /\ UNCHANGED <<th, mapped, child, heap, thread_stacks>>
         /\ \A u \in Threads \ {t} : lib'[u] = lib[u]
         /\ \/ \E s \in Entries :
                 /\ thread_stacks[s].pid = lib[t].kid /\ mishaps' = mishaps \cup Clash(t)
                 /\ lib'[t].at = "clearpid" /\ lib'[t].slot = s
                 /\ lib'[t].buf = thread_stacks[s].stack /\ lib'[t].kid = lib[t].kid
            \/ /\ \A s \in Entries : thread_stacks[s].pid # lib[t].kid
               /\ mishaps' = mishaps /\ lib'[t].at = "giveback" /\ lib'[t].buf = None
  <1> DEFINE mine == {i \in Entries : thread_stacks[i].pid = lib[t].kid}
  <1>1. t \in Alive /\ lib[t].at = "extract" /\ UNCHANGED <<th, mapped, child, heap, thread_stacks>>
    BY DEF Extract, ExtractIn, At, kernel
  <1>2. CASE mine # {}
    <2>1. Min(mine) \in mine
      BY <1>2, MinIs
    <2>2. /\ lib' = [lib EXCEPT ![t] = [@ EXCEPT !.at = "clearpid", !.slot = Min(mine),
                                                !.buf = thread_stacks[Min(mine)].stack]]
          /\ mishaps' = mishaps \cup Clash(t)
      BY <1>2 DEF Extract, ExtractIn
    <2> DEFINE s == Min(mine)
    <2>3. s \in Entries /\ thread_stacks[s].pid = lib[t].kid
      BY <2>1
    <2>4. lib' = [lib EXCEPT ![t] = [@ EXCEPT !.at = "clearpid", !.slot = s,
                                              !.buf = thread_stacks[s].stack]]
      BY <2>2
    <2> HIDE DEF s
    <2>5. /\ lib'[t].at = "clearpid" /\ lib'[t].slot = s /\ lib'[t].buf = thread_stacks[s].stack
          /\ lib'[t].kid = lib[t].kid /\ \A u \in Threads \ {t} : lib'[u] = lib[u]
      BY <2>4 DEF LibType
    <2> QED BY <1>1, <2>2, <2>3, <2>5
  <1>3. CASE mine = {}
    <2>1. lib' = [lib EXCEPT ![t] = [AtUser EXCEPT !.at = "giveback"]] /\ mishaps' = mishaps
      BY <1>3 DEF Extract, ExtractIn
    <2>2. /\ lib'[t].at = "giveback" /\ lib'[t].buf = None
          /\ \A u \in Threads \ {t} : lib'[u] = lib[u]
      BY <2>1 DEF LibType, AtUser
    <2>3. \A s \in Entries : thread_stacks[s].pid # lib[t].kid
      BY <1>3
    <2> QED BY <1>1, <2>1, <2>2, <2>3
  <1> QED BY <1>2, <1>3

LEMMA JoinedIs ==
  ASSUME TypeOK, LibType, NEW t \in Threads, Joined(t)
  PROVE  /\ t \in Alive /\ lib[t].at = "join"
         /\ UNCHANGED <<mapped, child, heap, thread_stacks, mishaps>>
         /\ \E u \in Workers :
              /\ th[u].state = "zombie" /\ th[u].parent = t
              /\ th'[u].state = "reaped" /\ th'[u].parent = None /\ th'[u].ustack = None
              /\ \A v \in Threads \ {u} : th'[v] = th[v]
              /\ lib'[t].at = "extract" /\ lib'[t].kid = u /\ lib'[t].buf = lib[t].buf
              /\ \A v \in Threads \ {t} : lib'[v] = lib[v]
  <1>1. PICK u \in Workers :
          /\ th[u].state = "zombie" /\ th[u].parent = t
          /\ th' = [th EXCEPT ![u] = [@ EXCEPT !.state = "reaped", !.ustack = None, !.parent = None]]
          /\ lib' = [lib EXCEPT ![t] = [@ EXCEPT !.at = "extract", !.kid = u]]
    BY DEF Joined, Children
  <1>2. /\ th'[u].state = "reaped" /\ th'[u].parent = None /\ th'[u].ustack = None
        /\ \A v \in Threads \ {u} : th'[v] = th[v]
    BY <1>1, TypeIs, Names DEF ThType
  <1>3. /\ lib'[t].at = "extract" /\ lib'[t].kid = u /\ lib'[t].buf = lib[t].buf
        /\ \A v \in Threads \ {t} : lib'[v] = lib[v]
    BY <1>1 DEF LibType
  <1> QED BY <1>1, <1>2, <1>3 DEF Joined, At

LEMMA ClearStackIs ==
  ASSUME TypeOK, LibType, NEW t \in Threads, ClearStack(t)
  PROVE  /\ t \in Alive /\ lib[t].at = "clearstack"
         /\ UNCHANGED <<th, mapped, child, heap, mishaps>>
         /\ thread_stacks' = [thread_stacks EXCEPT ![lib[t].slot].stack = None]
         /\ lib'[t].at = "giveback" /\ lib'[t].buf = lib[t].buf
         /\ \A v \in Threads \ {t} : lib'[v] = lib[v]
  <1>1. lib' = [lib EXCEPT ![t] = [AtUser EXCEPT !.at = "giveback", !.buf = lib[t].buf]]
    BY DEF ClearStack
  <1>2. /\ lib'[t].at = "giveback" /\ lib'[t].buf = lib[t].buf
        /\ \A v \in Threads \ {t} : lib'[v] = lib[v]
    BY <1>1 DEF LibType, AtUser
  <1> QED BY <1>2 DEF ClearStack, At, kernel

-----------------------------------------------------------------------------
\* The steps again, by what they do to threads and to the address space.
LEMMA ThreadStepsAre ==
  ASSUME [Next]_vars
  PROVE  \/ UNCHANGED <<th, mapped>>
         \/ \E t \in Alive : /\ GrowBy1(t) /\ child' = child
                             /\ mishaps' = mishaps \cup {"fork" : u \in {v \in Alive : lib[v].at = "fork"}}
         \/ \E t \in Threads : th' = Exited(t) /\ UNCHANGED mapped /\ t \in Alive
         \/ \E t \in Threads : th' = [th EXCEPT ![t].killed = TRUE] /\ UNCHANGED mapped
         \/ \E t \in Threads :
              /\ th' = [th EXCEPT ![t] = [@ EXCEPT !.state = "reaped", !.ustack = None, !.parent = None]]
              /\ th[t].state = "zombie" /\ UNCHANGED mapped
         \/ \E t \in Alive : Clone(t)
  <1>1. ASSUME NEW t \in Threads, \/ Create(t) \/ Join(t) \/ CloneRefused(t) \/ NothingToJoin(t)
                                  \/ Find(t) \/ SetPid(t) \/ SetStack(t) \/ Extract(t)
                                  \/ ClearPid(t) \/ ClearStack(t) \/ ForkCopy(t) \/ ForkSize(t)
                                  \/ Acquire(t, "create", "malloc") \/ Acquire(t, "undo", "undone")
                                  \/ Acquire(t, "giveback", "free")
        PROVE  UNCHANGED <<th, mapped>>
    BY <1>1 DEF Create, Join, CloneRefused, NothingToJoin, Find, SetPid, SetStack, Extract,
                ExtractIn, ClearPid, ClearStack, ForkCopy, ForkSize, Acquire, kernel
  <1>2. ASSUME NEW t \in Threads, Malloc(t)
        PROVE  \/ UNCHANGED <<th, mapped>>
               \/ /\ GrowBy1(t) /\ child' = child /\ t \in Alive
                  /\ mishaps' = mishaps \cup {"fork" : u \in {v \in Alive : lib[v].at = "fork"}}
    BY <1>2 DEF Malloc, At
  <1>3. ASSUME NEW t \in Threads, Sbrk(t)
        PROVE  /\ GrowBy1(t) /\ child' = child /\ t \in Alive
               /\ mishaps' = mishaps \cup {"fork" : u \in {v \in Alive : lib[v].at = "fork"}}
    BY <1>3 DEF Sbrk, Calling, At
  <1>4. ASSUME NEW t \in Threads, Exit(t) \/ Die(t)
        PROVE  th' = Exited(t) /\ UNCHANGED mapped /\ t \in Alive
    BY <1>4 DEF Exit, Die, At
  <1>5. ASSUME NEW t \in Threads, Kill(t) \/ FreeBuf(t, "undone") \/ FreeBuf(t, "free")
        PROVE  UNCHANGED mapped /\ (th' = th \/ th' = [th EXCEPT ![t].killed = TRUE])
    BY <1>5 DEF Kill, FreeBuf
  <1>6. ASSUME NEW t \in Threads, Joined(t)
        PROVE  \E u \in Workers :
              /\ th' = [th EXCEPT ![u] = [@ EXCEPT !.state = "reaped", !.ustack = None, !.parent = None]]
              /\ th[u].state = "zombie" /\ UNCHANGED mapped
    BY <1>6 DEF Joined, Children
  <1>7. ASSUME NEW t \in Threads, InitReaps(t)
        PROVE  /\ th' = [th EXCEPT ![t] = [@ EXCEPT !.state = "reaped", !.ustack = None, !.parent = None]]
               /\ th[t].state = "zombie" /\ UNCHANGED mapped
    BY <1>7 DEF InitReaps
  <1>8. ASSUME NEW t \in Threads, Clone(t)
        PROVE  t \in Alive
    BY <1>8 DEF Clone, At
  <1>9. ASSUME ChildGone \/ UNCHANGED vars
        PROVE  UNCHANGED <<th, mapped>>
    BY <1>9 DEF ChildGone, vars
  <1> USE Names
  <1> QED
    BY <1>1, <1>2, <1>3, <1>4, <1>5, <1>6, <1>7, <1>8, <1>9, StepsAre

\* sbrk() tells every thread; who is born learns the size from its parent.
LEMMA SizeStep ==
  ASSUME TypeOK, LibType, SizeInv, [Next]_vars
  PROVE  SizeInv'
  <1> USE Names
  <1>1. ASSUME UNCHANGED <<th, mapped>>
        PROVE  SizeInv'
    BY <1>1 DEF SizeInv
  <1>2. ASSUME NEW t \in Alive, GrowBy1(t)
        PROVE  SizeInv'
    BY <1>2, GrowIs DEF SizeInv
  <1>3. ASSUME NEW t \in Alive, th' = Exited(t), UNCHANGED mapped
        PROVE  SizeInv'
    BY <1>3, ExitedIs DEF SizeInv, Alive
  <1>4. ASSUME NEW t \in Threads, th' = [th EXCEPT ![t].killed = TRUE], UNCHANGED mapped
        PROVE  SizeInv'
    BY <1>4, KilledIs DEF SizeInv
  <1>5. ASSUME NEW t \in Threads, th[t].state = "zombie", UNCHANGED mapped,
               th' = [th EXCEPT ![t] = [@ EXCEPT !.state = "reaped", !.ustack = None, !.parent = None]]
        PROVE  SizeInv'
    BY <1>5, ReapedIs DEF SizeInv
  <1>6. ASSUME NEW t \in Alive, Clone(t)
        PROVE  SizeInv'
    <2>1. t \in Threads /\ th[t].state = "live"
      BY DEF Alive
    <2>2. PICK u \in Workers : /\ th'[u].sz = th[t].sz
                               /\ \A v \in Threads \ {u} : th'[v] = th[v]
      BY <1>6, <2>1, CloneIs
    <2>3. mapped' = mapped
      BY <1>6 DEF Clone
    <2> QED BY <2>1, <2>2, <2>3 DEF SizeInv
  <1> QED BY <1>1, <1>2, <1>3, <1>4, <1>5, <1>6, ThreadStepsAre DEF Alive

\* join() and init's wait() take the stack from a thread, clone() gives it one.
LEMMA BareStep ==
  ASSUME TypeOK, LibType, SizeInv, BareInv, [Next]_vars
  PROVE  BareInv'
  <1> USE Names
  <1>1. ASSUME UNCHANGED <<th, mapped>>
        PROVE  BareInv'
    BY <1>1 DEF BareInv
  <1>2. ASSUME NEW t \in Alive, GrowBy1(t)
        PROVE  BareInv'
    BY <1>2, GrowIs DEF BareInv
  <1>3. ASSUME NEW t \in Alive, th' = Exited(t)
        PROVE  BareInv'
    BY <1>3, ExitedIs DEF BareInv, Alive
  <1>4. ASSUME NEW t \in Threads, th' = [th EXCEPT ![t].killed = TRUE]
        PROVE  BareInv'
    BY <1>4, KilledIs DEF BareInv
  <1>5. ASSUME NEW t \in Threads,
               th' = [th EXCEPT ![t] = [@ EXCEPT !.state = "reaped", !.ustack = None, !.parent = None]]
        PROVE  BareInv'
    <2>1. \A u \in Threads : /\ th'[u].state = IF u = t THEN "reaped" ELSE th[u].state
                             /\ th'[u].ustack = IF u = t THEN None ELSE th[u].ustack
      BY <1>5, ReapedIs
    <2> QED BY <2>1 DEF BareInv
  <1>6. ASSUME NEW t \in Alive, Clone(t)
        PROVE  BareInv'
    <2>1. t \in Threads
      BY DEF Alive
    <2>2. PICK u \in Workers : /\ th'[u].state = "live"
                               /\ \A v \in Threads \ {u} : th'[v] = th[v]
      BY <1>6, <2>1, CloneIs
    <2> QED BY <2>2 DEF BareInv
  <1> QED BY <1>1, <1>2, <1>3, <1>4, <1>5, <1>6, ThreadStepsAre DEF Alive

\* fork() copies what it later says there is, unless the address space grows.
LEMMA ForkStep ==
  ASSUME TypeOK, LibType, SizeInv, ForkInv, LibInv, [Next]_vars
  PROVE  ForkInv'
  <1> USE Names
  <1>a. /\ \A t \in Threads : lib[t].at = "fork" => t \in Alive
        /\ \A t \in Alive : t \in Threads /\ th[t].state = "live"
    BY DEF LibInv, Alive
  \* A step that is not fork's own and does not change the address space.
  <1>b. ASSUME child' = child, mapped' = mapped, mishaps \subseteq mishaps',
               \A t \in Threads : /\ lib'[t].at = "fork" <=> lib[t].at = "fork"
                                  /\ lib[t].at = "fork" => th'[t].state = "live"
                                  /\ th[t].state # "live" /\ th'[t].state = "live" =>
                                       lib'[t].at # "fork"
        PROVE  ForkInv'
    BY <1>a, <1>b DEF ForkInv, ForkedWhole, Alive
  <1>1. ASSUME NEW t \in Threads, ForkCopy(t)
        PROVE  ForkInv'
    <2>1. /\ t \in Alive /\ th' = th /\ mapped' = mapped /\ mishaps' = mishaps /\ child = None
          /\ child' = [units |-> mapped \cap 1 .. th[t].sz, sz |-> None]
      BY <1>1 DEF ForkCopy, Calling, At
    <2>2. \A u \in Threads : lib'[u].at = IF u = t THEN "fork" ELSE lib[u].at
      BY <1>1, GotoIs DEF ForkCopy, Pcs
    <2>3. child' # None /\ child'.sz = None /\ child'.units = mapped
      <3>1. mapped = 1 .. th[t].sz /\ th[t].sz \in Nat
        BY <1>a, <2>1, TypeIs DEF SizeInv, ThType
      <3>2. [units |-> mapped \cap 1 .. th[t].sz, sz |-> None]
             \in [units : SUBSET Nat, sz : Nat \cup {None}]
        BY <3>1
      <3> QED BY <2>1, <3>1, <3>2, ThreadAssumption
    <2>4. \A u \in Alive : lib[u].at # "fork"
      BY <2>1 DEF ForkInv
    <2> QED BY <1>a, <2>1, <2>2, <2>3, <2>4 DEF ForkInv, ForkedWhole, Alive
  <1>2. ASSUME NEW t \in Threads, ForkSize(t)
        PROVE  ForkInv'
    <2>1. /\ t \in Alive /\ lib[t].at = "fork" /\ th' = th /\ mapped' = mapped /\ mishaps' = mishaps
          /\ child' = [child EXCEPT !.sz = th[t].sz]
      BY <1>2 DEF ForkSize, At
    <2>2. /\ lib'[t].at = "user"
          /\ \A u \in Threads \ {t} : lib'[u] = lib[u]
      BY <1>2, ReturnIs DEF ForkSize
    <2>3. child \in [units : SUBSET Units, sz : 0 .. MaxUnits \cup {None}]
      BY <2>1 DEF ForkInv, TypeOK
    <2>4. mapped = 1 .. th[t].sz /\ th[t].sz \in Nat
      BY <1>a, <2>1, TypeIs DEF SizeInv, ThType
    <2>5. child'.sz = th[t].sz /\ child'.units = child.units /\ child'.sz # None
      BY <2>1, <2>3, <2>4
    <2>6. \A u \in Alive' : lib'[u].at # "fork"
      BY <1>a, <2>1, <2>2 DEF ForkInv, Alive
    <2>7. "fork" \notin mishaps => child.units = mapped
      BY <2>1 DEF ForkInv
    <2> QED BY <2>1, <2>4, <2>5, <2>6, <2>7 DEF ForkInv, ForkedWhole
  <1>3. CASE ChildGone
    BY <1>3 DEF ChildGone, ForkInv, ForkedWhole, Alive
  <1>4. ASSUME NEW t \in Alive, GrowBy1(t), child' = child, Sbrk(t) \/ Malloc(t),
               mishaps' = mishaps \cup {"fork" : u \in {v \in Alive : lib[v].at = "fork"}}
        PROVE  ForkInv'
    <2>1. \A u \in Threads : th'[u].state = th[u].state
      BY <1>4, GrowIs
    <2>2. \A u \in Threads : lib'[u].at = "fork" <=> lib[u].at = "fork"
      BY <1>4, <1>a, MallocIs DEF Sbrk
    <2>3. child # None /\ child.sz = None => "fork" \in mishaps'
      BY <1>4 DEF ForkInv
    <2> QED BY <1>4, <1>a, <2>1, <2>2, <2>3 DEF ForkInv, ForkedWhole, Alive
  <1>5. ASSUME NEW t \in Threads, \/ Create(t) \/ Join(t) \/ CloneRefused(t)
                                  \/ SetPid(t) \/ ClearPid(t)
                                  \/ Acquire(t, "create", "malloc")
                                  \/ Acquire(t, "undo", "undone")
                                  \/ Acquire(t, "giveback", "free")
        PROVE  ForkInv'
    <2>1. \A u \in Threads : lib'[u].at = "fork" <=> lib[u].at = "fork"
      BY <1>5, GotoIs DEF Create, Join, CloneRefused, SetPid, ClearPid, Acquire, Calling, At, Pcs
    <2>2. th' = th /\ child' = child /\ mapped' = mapped /\ mishaps' = mishaps
      BY <1>5 DEF Create, Join, CloneRefused, SetPid, ClearPid, Acquire, kernel
    <2> QED BY <1>a, <1>b, <2>1, <2>2 DEF Alive
  <1>6. ASSUME NEW t \in Threads, NothingToJoin(t) \/ SetStack(t)
        PROVE  ForkInv'
    <2>1. \A u \in Threads : lib'[u].at = "fork" <=> lib[u].at = "fork"
      BY <1>6, ReturnIs DEF NothingToJoin, SetStack, At
    <2>2. th' = th /\ child' = child /\ mapped' = mapped /\ mishaps' = mishaps
      BY <1>6 DEF NothingToJoin, SetStack, kernel
    <2> QED BY <1>a, <1>b, <2>1, <2>2 DEF Alive
  <1>7. ASSUME NEW t \in Threads, Malloc(t), UNCHANGED <<th, mapped>>
        PROVE  ForkInv'
    <2>1. \A u \in Threads : lib'[u].at = "fork" <=> lib[u].at = "fork"
      BY <1>7, MallocIs
    <2>2. child' = child /\ mishaps \subseteq mishaps'
      BY <1>7 DEF Malloc
    <2> QED BY <1>7, <1>a, <1>b, <2>1, <2>2 DEF Alive
  <1>8. ASSUME NEW t \in Threads, FreeBuf(t, "undone") \/ FreeBuf(t, "free")
        PROVE  ForkInv'
    <2>1. \A u \in Threads : lib'[u].at = "fork" <=> lib[u].at = "fork"
      BY <1>8, GotoIs, ReturnIs DEF FreeBuf, At, Pcs
    <2>2. child' = child /\ mapped' = mapped /\ mishaps' = mishaps
      BY <1>8 DEF FreeBuf
    <2>3. \A u \in Threads : th'[u].state = th[u].state
      BY <1>8, KilledIs DEF FreeBuf
    <2> QED BY <1>a, <1>b, <2>1, <2>2, <2>3 DEF Alive
  <1>9. ASSUME NEW t \in Threads, Find(t)
        PROVE  ForkInv'
    <2>1. \A u \in Threads : lib'[u].at = "fork" <=> lib[u].at = "fork"
      BY <1>9, FindIs
    <2>2. th' = th /\ child' = child /\ mapped' = mapped /\ mishaps \subseteq mishaps'
      BY <1>9 DEF Find, kernel
    <2> QED BY <1>a, <1>b, <2>1, <2>2 DEF Alive
  <1>10. ASSUME NEW t \in Threads, Extract(t)
         PROVE  ForkInv'
    <2>1. \A u \in Threads : lib'[u].at = "fork" <=> lib[u].at = "fork"
      BY <1>10, ExtractIs
    <2>2. th' = th /\ child' = child /\ mapped' = mapped /\ mishaps \subseteq mishaps'
      BY <1>10 DEF Extract, ExtractIn, kernel
    <2> QED BY <1>a, <1>b, <2>1, <2>2 DEF Alive
  <1>11. ASSUME NEW t \in Threads, ClearStack(t)
         PROVE  ForkInv'
    <2>1. \A u \in Threads : lib'[u].at = "fork" <=> lib[u].at = "fork"
      BY <1>11 DEF ClearStack, At, LibType, AtUser
    <2>2. th' = th /\ child' = child /\ mapped' = mapped /\ mishaps' = mishaps
      BY <1>11 DEF ClearStack, kernel
    <2> QED BY <1>a, <1>b, <2>1, <2>2 DEF Alive
  <1>12. ASSUME NEW t \in Threads, Exit(t) \/ Die(t)
         PROVE  ForkInv'
    <2>1. lib[t].at # "fork" /\ \A u \in Threads : lib'[u].at = "fork" <=> lib[u].at = "fork"
      BY <1>12, ReturnIs DEF Exit, Die, At
    <2>2. child' = child /\ mapped' = mapped /\ mishaps' = mishaps
      BY <1>12 DEF Exit, Die
    <2>3. \A u \in Threads : th'[u].state = IF u = t THEN "zombie" ELSE th[u].state
      BY <1>12, ExitedIs DEF Exit, Die
    <2> QED BY <1>a, <1>b, <2>1, <2>2, <2>3 DEF Alive
  <1>13. ASSUME NEW t \in Threads, Kill(t)
         PROVE  ForkInv'
    <2>1. \A u \in Threads : th'[u].state = th[u].state
      BY <1>13, KilledIs DEF Kill
    <2> QED BY <1>13, <1>a, <1>b, <2>1 DEF Kill, Alive
  <1>14. ASSUME NEW t \in Threads, InitReaps(t)
         PROVE  ForkInv'
    <2>1. \A u \in Threads : th'[u].state = IF u = t THEN "reaped" ELSE th[u].state
      BY <1>14, InitReaped
    <2> QED BY <1>14, <1>a, <1>b, <2>1 DEF InitReaps, Alive
  <1>15. ASSUME NEW t \in Threads, Joined(t)
         PROVE  ForkInv'
    <2>1. PICK u \in Workers :
            /\ th' = [th EXCEPT ![u] = [@ EXCEPT !.state = "reaped", !.ustack = None, !.parent = None]]
            /\ th[u].state = "zombie"
      BY <1>15 DEF Joined, Children
    <2>2. \A v \in Threads : th'[v].state = IF v = u THEN "reaped" ELSE th[v].state
      BY <2>1, ReapedIs
    <2>3. \A v \in Threads : lib'[v].at = "fork" <=> lib[v].at = "fork"
      BY <1>15 DEF Joined, At, LibType
    <2>4. child' = child /\ mapped' = mapped /\ mishaps' = mishaps
      BY <1>15 DEF Joined
    <2> QED BY <1>a, <1>b, <2>1, <2>2, <2>3, <2>4 DEF Alive
  <1>16. ASSUME NEW t \in Threads, Clone(t)
         PROVE  ForkInv'
    <2>1. PICK u \in Workers :
            /\ th' = [th EXCEPT ![u] = [state |-> "live", parent |-> t, killed |-> FALSE,
                                        ustack |-> lib[t].buf, sz |-> th[t].sz]]
            /\ th[u].state = "unborn"
            /\ lib' = [lib EXCEPT ![t] = [@ EXCEPT !.at = "find", !.kid = u]]
      BY <1>16 DEF Clone
    <2>2. lib[t].buf \in Units /\ lib[t].at = "clone"
      BY <1>16 DEF Clone, LibType, At
    <2>3. \A v \in Threads : th'[v].state = IF v = u THEN "live" ELSE th[v].state
      <3>1. th' = [th EXCEPT ![u] = [state |-> "live", parent |-> t, killed |-> FALSE,
                                     ustack |-> lib[t].buf, sz |-> th[t].sz]]
        BY <2>1
      <3>2. \A v \in Threads :
              /\ th'[v].state = IF v = u THEN "live" ELSE th[v].state
              /\ th'[v].parent = IF v = u THEN t ELSE th[v].parent
              /\ th'[v].ustack = IF v = u THEN lib[t].buf ELSE th[v].ustack
              /\ th'[v].sz = IF v = u THEN th[t].sz ELSE th[v].sz
        BY <2>2, <3>1, BornIs
      <3> QED BY <3>2
    <2>4. \A v \in Threads : lib'[v].at = "fork" <=> lib[v].at = "fork"
      BY <2>1, <2>2 DEF LibType
    <2>5. child' = child /\ mapped' = mapped /\ mishaps' = mishaps
      BY <1>16 DEF Clone
    <2> QED BY <1>a, <1>b, <2>1, <2>3, <2>4, <2>5 DEF Alive
  <1>17. CASE UNCHANGED vars
    BY <1>17 DEF vars, ForkInv, ForkedWhole, Alive
  <1>18. ASSUME NEW t \in Threads, Sbrk(t) \/ Malloc(t)
         PROVE  \/ UNCHANGED <<th, mapped>> /\ Malloc(t)
                \/ /\ t \in Alive /\ GrowBy1(t) /\ child' = child
                   /\ mishaps' = mishaps \cup {"fork" : u \in {v \in Alive : lib[v].at = "fork"}}
    BY <1>18 DEF Sbrk, Malloc, Calling, At
  <1> QED
    BY <1>1, <1>2, <1>3, <1>4, <1>5, <1>6, <1>7, <1>8, <1>9, <1>10, <1>11, <1>12, <1>13,
       <1>14, <1>15, <1>16, <1>17, <1>18, StepsAre

-----------------------------------------------------------------------------
\* No thread is born, dies or changes its parent.
SameThreads ==
    \A u \in Threads : /\ th'[u].state = th[u].state /\ th'[u].parent = th[u].parent
                       /\ th'[u].ustack = th[u].ustack
SamePids == \A i \in Entries : thread_stacks'[i].pid = thread_stacks[i].pid

\* u goes where it needs to know nothing of the table.
Leaves(u) ==
    /\ u \in Alive
    /\ lib'[u].at \notin Adding \cup {"extract", "clearpid", "clearstack"}
    /\ lib'[u].at \in Holding \/ lib'[u].buf = None

LEMMA LibStill ==
  ASSUME TypeOK, LibInv, StackInv, SameThreads, SamePids,
         \A u \in Threads : lib'[u] = lib[u] \/ Leaves(u)
  PROVE  LibInv' /\ StackInv'
  <1>1. Alive' = Alive /\ Stacked' = Stacked
    BY Names DEF SameThreads, Alive, Stacked
  <1>2. \A u \in Threads : lib[u].kid \in Stacked => lib[u].kid \in Threads
    BY Names DEF Stacked
  <1>3. /\ \A t \in Threads \ Alive' : lib'[t].at = "user"
        /\ \A t \in Threads : lib'[t].at \notin Holding \cup Adding => lib'[t].buf = None
        /\ \A t \in Threads : lib'[t].at \in {"setpid", "setstack", "clearpid", "clearstack"} =>
              lib'[t].slot \in Entries
    BY <1>1 DEF LibInv, Leaves, Adding
  <1>4. \A t \in Threads : lib'[t].at \in Adding =>
         /\ lib'[t].kid \in Stacked' /\ th'[lib'[t].kid].parent = t
         /\ lib'[t].buf = th'[lib'[t].kid].ustack
    BY <1>1, <1>2 DEF LibInv, Leaves, SameThreads
  <1>5. \A t \in Threads : lib'[t].at \in {"extract", "clearpid"} =>
          lib'[t].kid \in Workers /\ th'[lib'[t].kid].state = "reaped"
    BY Names DEF LibInv, Leaves, SameThreads
  <1>6. \A t, u \in Threads :
         /\ lib'[t].at \in {"extract", "clearpid"} /\ lib'[u].at \in {"extract", "clearpid"}
         /\ lib'[t].kid = lib'[u].kid
         => t = u
    BY DEF LibInv, Leaves
  <1>7. LibInv'
    BY <1>3, <1>4, <1>5, <1>6 DEF LibInv
  <1>8. StackInv'
    <2>1. \A u \in Stacked' : th'[u].ustack \in Units /\ th'[u].parent # u
      BY <1>1, Names DEF StackInv, SameThreads, Stacked
    <2>2. \A i \in Entries : thread_stacks'[i].pid # None => th'[thread_stacks'[i].pid].state # "unborn"
      <3> SUFFICES ASSUME NEW i \in Entries, thread_stacks'[i].pid # None
                   PROVE  th'[thread_stacks'[i].pid].state # "unborn"
        OBVIOUS
      <3>1. thread_stacks[i].pid \in Threads /\ thread_stacks'[i].pid = thread_stacks[i].pid
        BY Names DEF SamePids, TypeOK
      <3> QED BY <3>1 DEF StackInv, SameThreads
    <2>3. \A t \in Threads : lib'[t].at \in {"find", "setpid"} =>
            \A i \in Entries : thread_stacks'[i].pid # lib'[t].kid
      BY DEF StackInv, SamePids, Leaves, Adding
    <2> QED BY <2>1, <2>2, <2>3 DEF StackInv
  <1> QED BY <1>7, <1>8

\* The steps that LibStill is about.
LEMMA StillAre ==
  ASSUME TypeOK, LibType, SizeInv, LibInv, NEW t \in Threads,
         \/ Create(t) \/ Join(t) \/ CloneRefused(t) \/ NothingToJoin(t)
         \/ Acquire(t, "create", "malloc") \/ Acquire(t, "undo", "undone")
         \/ Acquire(t, "giveback", "free") \/ Malloc(t)
         \/ FreeBuf(t, "undone") \/ FreeBuf(t, "free") \/ SetStack(t) \/ ClearStack(t)
         \/ ForkCopy(t) \/ ForkSize(t) \/ Sbrk(t) \/ Kill(t)
  PROVE  SameThreads /\ SamePids /\ \A u \in Threads : lib'[u] = lib[u] \/ Leaves(u)
  <1>1. ASSUME \/ Create(t) \/ Join(t) \/ CloneRefused(t) \/ ForkCopy(t)
               \/ Acquire(t, "create", "malloc") \/ Acquire(t, "undo", "undone")
               \/ Acquire(t, "giveback", "free")
        PROVE  SameThreads /\ SamePids /\ \A u \in Threads : lib'[u] = lib[u] \/ Leaves(u)
    <2>1. UNCHANGED <<th, thread_stacks>> /\ t \in Alive
      BY <1>1 DEF Create, Join, CloneRefused, ForkCopy, Acquire, Calling, At, kernel
    <2>2. \E c \in Pcs : /\ Goto(t, c) /\ c \notin Adding \cup {"extract", "clearpid", "clearstack"}
                         /\ c \in Holding \/ lib[t].buf = None
      BY <1>1 DEF Create, Join, CloneRefused, ForkCopy, Acquire, Calling, At, Pcs, Adding, Holding, LibInv
    <2>3. PICK c \in Pcs : /\ Goto(t, c) /\ c \notin Adding \cup {"extract", "clearpid", "clearstack"}
                           /\ c \in Holding \/ lib[t].buf = None
      BY <2>2
    <2>4. lib'[t].at = c /\ lib'[t].buf = lib[t].buf /\ \A u \in Threads \ {t} : lib'[u] = lib[u]
      BY <2>3 DEF Goto, LibType
    <2> QED BY <2>1, <2>3, <2>4 DEF SameThreads, SamePids, Leaves
  <1>2. ASSUME NothingToJoin(t) \/ ForkSize(t)
        PROVE  SameThreads /\ SamePids /\ \A u \in Threads : lib'[u] = lib[u] \/ Leaves(u)
    <2>1. UNCHANGED <<th, thread_stacks>> /\ t \in Alive /\ Return(t)
      BY <1>2 DEF NothingToJoin, ForkSize, At, kernel
    <2> QED BY <2>1, ReturnIs DEF SameThreads, SamePids, Leaves, Adding, Holding
  <1>3. ASSUME SetStack(t)
        PROVE  SameThreads /\ SamePids /\ \A u \in Threads : lib'[u] = lib[u] \/ Leaves(u)
    <2>1. /\ UNCHANGED th /\ t \in Alive /\ Return(t)
          /\ thread_stacks' = [thread_stacks EXCEPT ![lib[t].slot].stack = lib[t].buf]
      BY <1>3 DEF SetStack, At, kernel
    <2>2. SamePids
      <3>1. lib[t].slot \in Entries
        BY <1>3 DEF SetStack, At, LibInv
      <3>2. thread_stacks \in [Entries -> [pid : Workers \cup {None}, stack : Units \cup {None}]]
        BY DEF TypeOK
      <3> QED BY <2>1, <3>1, <3>2 DEF SamePids
    <2> QED BY <2>1, <2>2, ReturnIs DEF SameThreads, Leaves, Adding, Holding
  <1>4. ASSUME ClearStack(t)
        PROVE  SameThreads /\ SamePids /\ \A u \in Threads : lib'[u] = lib[u] \/ Leaves(u)
    <2>1. SamePids
      <3>1. lib[t].slot \in Entries /\ thread_stacks' = [thread_stacks EXCEPT ![lib[t].slot].stack = None]
        BY <1>4, ClearStackIs DEF LibInv
      <3>2. thread_stacks \in [Entries -> [pid : Workers \cup {None}, stack : Units \cup {None}]]
        BY DEF TypeOK
      <3> QED BY <3>1, <3>2 DEF SamePids
    <2> QED BY <1>4, <2>1, ClearStackIs DEF SameThreads, Leaves, Adding, Holding
  <1>5. ASSUME Malloc(t)
        PROVE  SameThreads /\ SamePids /\ \A u \in Threads : lib'[u] = lib[u] \/ Leaves(u)
    <2>1. SameThreads
      <3>1. CASE th' = th
        BY <3>1 DEF SameThreads
      <3>2. CASE GrowBy1(t)
        BY <1>5, <3>2, MallocIs, GrowIs DEF SameThreads
      <3> QED BY <1>5, <3>1, <3>2, MallocIs
    <2>2. SamePids
      BY <1>5, MallocIs DEF SamePids
    <2> QED BY <1>5, <2>1, <2>2, MallocIs DEF Leaves, Adding, Holding
  <1>6. ASSUME FreeBuf(t, "undone") \/ FreeBuf(t, "free")
        PROVE  SameThreads /\ SamePids /\ \A u \in Threads : lib'[u] = lib[u] \/ Leaves(u)
    <2>1. t \in Alive /\ UNCHANGED thread_stacks
      BY <1>6 DEF FreeBuf, At
    <2>2. CASE Return(t) /\ UNCHANGED th
      BY <2>1, <2>2, ReturnIs DEF SameThreads, SamePids, Leaves, Adding, Holding
    <2>3. CASE /\ lib[t].buf = None /\ th' = [th EXCEPT ![t].killed = TRUE]
               /\ Goto(t, "faulted")
      <3>1. SameThreads
        BY <2>3, KilledIs DEF SameThreads
      <3>2. /\ lib'[t].at = "faulted" /\ lib'[t].buf = None
            /\ \A u \in Threads \ {t} : lib'[u] = lib[u]
        BY <2>3 DEF Goto, LibType
      <3> QED BY <2>1, <3>1, <3>2 DEF SamePids, Leaves, Adding
    <2> QED BY <1>6, <2>2, <2>3 DEF FreeBuf
  <1>7. ASSUME Sbrk(t)
        PROVE  SameThreads /\ SamePids /\ \A u \in Threads : lib'[u] = lib[u] \/ Leaves(u)
    <2>1. GrowBy1(t) /\ t \in Alive
      BY <1>7 DEF Sbrk, Calling, At
    <2> QED BY <1>7, <2>1, GrowIs DEF Sbrk, SameThreads, SamePids
  <1>8. ASSUME Kill(t)
        PROVE  SameThreads /\ SamePids /\ \A u \in Threads : lib'[u] = lib[u] \/ Leaves(u)
    BY <1>8, KilledIs DEF Kill, SameThreads, SamePids
  <1> QED BY <1>1, <1>2, <1>3, <1>4, <1>5, <1>6, <1>7, <1>8

\* What a thread in the library knows stays true while others run.
LEMMA LibStep ==
  ASSUME TypeOK, LibType, SizeInv, LibInv, StackInv, [Next]_vars
  PROVE  LibInv' /\ StackInv'
  <1> USE Names
  <1>a. /\ \A t \in Alive : t \in Threads /\ th[t].state = "live"
        /\ \A u \in Stacked : u \in Threads /\ u \in Workers /\ th[u].state \in {"live", "zombie"}
        /\ \A i \in Entries : thread_stacks[i].pid \in Workers \cup {None}
    BY DEF Alive, Stacked, TypeOK
  <1>1. ASSUME NEW t \in Threads,
               \/ Create(t) \/ Join(t) \/ CloneRefused(t) \/ NothingToJoin(t)
               \/ Acquire(t, "create", "malloc") \/ Acquire(t, "undo", "undone")
               \/ Acquire(t, "giveback", "free") \/ Malloc(t)
               \/ FreeBuf(t, "undone") \/ FreeBuf(t, "free") \/ SetStack(t) \/ ClearStack(t)
               \/ ForkCopy(t) \/ ForkSize(t) \/ Sbrk(t) \/ Kill(t)
        PROVE  LibInv' /\ StackInv'
    BY <1>1, StillAre, LibStill
  <1>2. ASSUME NEW t \in Threads, Clone(t)
        PROVE  LibInv' /\ StackInv'
    <2>1. /\ t \in Alive /\ lib[t].at = "clone" /\ lib[t].buf \in Units
          /\ thread_stacks' = thread_stacks
      BY <1>2, CloneIs
    <2>2. PICK u \in Workers :
              /\ th[u].state = "unborn" /\ u # t
              /\ lib'[t].at = "find" /\ lib'[t].kid = u /\ lib'[t].buf = lib[t].buf
              /\ \A v \in Threads \ {t} : lib'[v] = lib[v]
              /\ th'[u].state = "live" /\ th'[u].parent = t
              /\ th'[u].ustack = lib[t].buf
              /\ \A v \in Threads \ {u} : th'[v] = th[v]
      BY <1>2, CloneIs
    <2>3. Alive' = Alive \cup {u} /\ Stacked' = Stacked \cup {u} /\ u \notin Stacked /\ u \in Threads
      BY <2>2 DEF Alive, Stacked
    <2>4. \A v \in Threads : lib[v].at \in Adding => lib[v].kid # u
      BY <2>3 DEF LibInv
    <2>5. \A v \in Threads : lib[v].at \in {"extract", "clearpid"} => lib[v].kid # u
      BY <2>2 DEF LibInv
    <2>6. LibInv'
      BY <1>a, <2>1, <2>2, <2>3, <2>4, <2>5 DEF LibInv, Adding, Holding
    <2>7. StackInv'
      <3>1. \A i \in Entries : thread_stacks[i].pid # u
        BY <2>2 DEF StackInv
      <3> QED BY <1>a, <2>1, <2>2, <2>3, <3>1 DEF StackInv
    <2> QED BY <2>6, <2>7
  <1>3. ASSUME NEW t \in Threads, Find(t)
        PROVE  LibInv' /\ StackInv'
    <2>1. /\ t \in Alive /\ lib[t].at = "find" /\ UNCHANGED <<th, thread_stacks>>
          /\ \A u \in Threads \ {t} : lib'[u] = lib[u]
      BY <1>3, FindIs
    <2>2. CASE lib'[t].at = "user" /\ lib'[t].buf = None
      <3>1. SameThreads /\ SamePids /\ \A u \in Threads : lib'[u] = lib[u] \/ Leaves(u)
        BY <2>1, <2>2 DEF SameThreads, SamePids, Leaves, Adding
      <3> QED BY <3>1, LibStill
    <2>3. CASE \E s \in Entries : /\ lib'[t].at = "setpid" /\ lib'[t].slot = s
                                  /\ lib'[t].buf = lib[t].buf /\ lib'[t].kid = lib[t].kid
      <3>1. Alive' = Alive /\ Stacked' = Stacked
        BY <2>1 DEF Alive, Stacked
      <3>2. LibInv'
        BY <2>1, <2>3, <3>1 DEF LibInv, Adding, Holding
      <3>3. StackInv'
        BY <2>1, <2>3, <3>1 DEF StackInv
      <3> QED BY <3>2, <3>3
    <2> QED BY <1>3, <2>2, <2>3, FindIs
  <1>4. ASSUME NEW t \in Threads, SetPid(t)
        PROVE  LibInv' /\ StackInv'
    <2>1. /\ t \in Alive /\ lib[t].at = "setpid" /\ th' = th /\ lib[t].slot \in Entries
          /\ thread_stacks' = [thread_stacks EXCEPT ![lib[t].slot].pid = lib[t].kid]
      BY <1>4 DEF SetPid, At, kernel, LibInv
    <2>2. \A u \in Threads : /\ lib'[u].at = IF u = t THEN "setstack" ELSE lib[u].at
                             /\ lib'[u].buf = lib[u].buf /\ lib'[u].kid = lib[u].kid
                             /\ lib'[u].slot = lib[u].slot
      BY <1>4, GotoIs DEF SetPid, Pcs
    <2>3. Alive' = Alive /\ Stacked' = Stacked
      BY <2>1 DEF Alive, Stacked
    <2>4. LibInv'
      BY <2>1, <2>2, <2>3 DEF LibInv, Adding, Holding
    <2>5. \A i \in Entries : thread_stacks'[i].pid = IF i = lib[t].slot THEN lib[t].kid
                                                     ELSE thread_stacks[i].pid
      BY <2>1 DEF TypeOK
    <2>6. lib[t].kid \in Stacked /\ th[lib[t].kid].parent = t
      BY <2>1 DEF LibInv, Adding
    <2>7. \A u \in Threads \ {t} : lib[u].at \in {"find", "setpid"} => lib[u].kid # lib[t].kid
      BY <2>6 DEF LibInv, Adding
    <2>8. StackInv'
      BY <1>a, <2>1, <2>2, <2>3, <2>5, <2>6, <2>7 DEF StackInv
    <2> QED BY <2>4, <2>8
  <1>5. ASSUME NEW t \in Threads, Joined(t)
        PROVE  LibInv' /\ StackInv'
    <2>1. t \in Alive /\ lib[t].at = "join" /\ thread_stacks' = thread_stacks
      BY <1>5, JoinedIs
    <2>2. PICK u \in Workers :
              /\ th[u].state = "zombie" /\ th[u].parent = t
              /\ th'[u].state = "reaped"
              /\ \A v \in Threads \ {u} : th'[v] = th[v]
              /\ lib'[t].at = "extract" /\ lib'[t].kid = u /\ lib'[t].buf = lib[t].buf
              /\ \A v \in Threads \ {t} : lib'[v] = lib[v]
      BY <1>5, JoinedIs
    <2>3. Alive' = Alive /\ Stacked' = Stacked \ {u} /\ u \in Threads
      BY <2>2 DEF Alive, Stacked
    <2>4. \A v \in Threads : lib[v].at \in Adding => lib[v].kid # u
      BY <2>1, <2>2 DEF LibInv, Adding
    <2>5. \A v \in Threads : lib[v].at \in {"extract", "clearpid"} => lib[v].kid # u
      BY <2>2 DEF LibInv
    <2>6. lib[t].buf = None
      BY <2>1 DEF LibInv, Holding, Adding
    <2>7. LibInv'
      <3>1. /\ \A v \in Threads \ Alive' : lib'[v].at = "user"
            /\ \A v \in Threads : lib'[v].at \notin Holding \cup Adding => lib'[v].buf = None
            /\ \A v \in Threads : lib'[v].at \in {"setpid", "setstack", "clearpid", "clearstack"} =>
                 lib'[v].slot \in Entries
        BY <2>1, <2>2, <2>3, <2>6 DEF LibInv
      <3>2. \A v \in Threads : lib'[v].at \in Adding =>
             /\ lib'[v].kid \in Stacked' /\ th'[lib'[v].kid].parent = v
             /\ lib'[v].buf = th'[lib'[v].kid].ustack
        BY <1>a, <2>2, <2>3, <2>4 DEF LibInv, Adding
      <3>3. \A v \in Threads : lib'[v].at \in {"extract", "clearpid"} =>
             lib'[v].kid \in Workers /\ th'[lib'[v].kid].state = "reaped"
        BY <2>2, <2>5 DEF LibInv
      <3>4. \A v, w \in Threads :
             /\ lib'[v].at \in {"extract", "clearpid"} /\ lib'[w].at \in {"extract", "clearpid"}
             /\ lib'[v].kid = lib'[w].kid
             => v = w
        BY <2>2, <2>5 DEF LibInv
      <3> QED BY <3>1, <3>2, <3>3, <3>4 DEF LibInv
    <2>8. StackInv'
      BY <1>a, <2>1, <2>2, <2>3 DEF StackInv
    <2> QED BY <2>7, <2>8
  <1>6. ASSUME NEW t \in Threads, Extract(t)
        PROVE  LibInv' /\ StackInv'
    <2>1. /\ t \in Alive /\ lib[t].at = "extract" /\ UNCHANGED <<th, thread_stacks>>
          /\ \A u \in Threads \ {t} : lib'[u] = lib[u]
      BY <1>6, ExtractIs
    <2>2. CASE lib'[t].at = "giveback" /\ lib'[t].buf = None
      <3>1. SameThreads /\ SamePids /\ \A u \in Threads : lib'[u] = lib[u] \/ Leaves(u)
        BY <2>1, <2>2 DEF SameThreads, SamePids, Leaves, Adding
      <3> QED BY <3>1, LibStill
    <2>3. CASE \E s \in Entries : /\ lib'[t].at = "clearpid" /\ lib'[t].slot = s
                                  /\ lib'[t].kid = lib[t].kid
      <3>1. Alive' = Alive /\ Stacked' = Stacked
        BY <2>1 DEF Alive, Stacked
      <3>2. LibInv'
        BY <2>1, <2>3, <3>1 DEF LibInv, Adding, Holding
      <3>3. StackInv'
        BY <2>1, <2>3, <3>1 DEF StackInv
      <3> QED BY <3>2, <3>3
    <2> QED BY <1>6, <2>2, <2>3, ExtractIs
  <1>7. ASSUME NEW t \in Threads, ClearPid(t)
        PROVE  LibInv' /\ StackInv'
    <2>1. /\ t \in Alive /\ lib[t].at = "clearpid" /\ th' = th /\ lib[t].slot \in Entries
          /\ thread_stacks' = [thread_stacks EXCEPT ![lib[t].slot].pid = None]
      BY <1>7 DEF ClearPid, At, kernel, LibInv
    <2>2. \A u \in Threads : /\ lib'[u].at = IF u = t THEN "clearstack" ELSE lib[u].at
                             /\ lib'[u].buf = lib[u].buf /\ lib'[u].kid = lib[u].kid
                             /\ lib'[u].slot = lib[u].slot
      BY <1>7, GotoIs DEF ClearPid, Pcs
    <2>3. Alive' = Alive /\ Stacked' = Stacked
      BY <2>1 DEF Alive, Stacked
    <2>4. LibInv'
      BY <2>1, <2>2, <2>3 DEF LibInv, Adding, Holding
    <2>5. \A i \in Entries : thread_stacks'[i].pid = IF i = lib[t].slot THEN None
                                                     ELSE thread_stacks[i].pid
      BY <2>1 DEF TypeOK
    <2>6. \A u \in Threads : lib[u].at \in {"find", "setpid"} => lib[u].kid # None
      BY <1>a DEF LibInv, Adding
    <2>7. StackInv'
      BY <1>a, <2>1, <2>2, <2>3, <2>5, <2>6 DEF StackInv
    <2> QED BY <2>4, <2>7
  <1>8. ASSUME NEW t \in Threads, Exit(t) \/ Die(t)
        PROVE  LibInv' /\ StackInv'
    <2>1. t \in Alive /\ thread_stacks' = thread_stacks
      BY <1>8 DEF Exit, Die, At
    <2>2. \A u \in Threads :
              /\ th'[u].state = IF u = t THEN "zombie" ELSE th[u].state
              /\ th'[u].parent = IF u # t /\ u \in Workers /\ th[u].parent = t THEN Init_
                                 ELSE th[u].parent
              /\ th'[u].ustack = th[u].ustack
      BY <1>8, ExitedIs DEF Exit, Die
    <2>3. /\ lib'[t].at = "user" /\ lib'[t].buf = None
          /\ \A u \in Threads \ {t} : lib'[u] = lib[u]
      BY <1>8, ReturnIs DEF Exit, Die, At, LibInv, Adding, Holding
    <2>4. Alive' = Alive \ {t} /\ Stacked' = Stacked
      BY <1>a, <2>1, <2>2 DEF Alive, Stacked
    <2>5. LibInv'
      <3>1. /\ \A v \in Threads \ Alive' : lib'[v].at = "user"
            /\ \A v \in Threads : lib'[v].at \notin Holding \cup Adding => lib'[v].buf = None
            /\ \A v \in Threads : lib'[v].at \in {"setpid", "setstack", "clearpid", "clearstack"} =>
                 lib'[v].slot \in Entries
        BY <2>1, <2>3, <2>4 DEF LibInv
      <3>2. \A v \in Threads : lib'[v].at \in Adding =>
             /\ lib'[v].kid \in Stacked' /\ th'[lib'[v].kid].parent = v
             /\ lib'[v].buf = th'[lib'[v].kid].ustack
        BY <1>a, <2>2, <2>3, <2>4 DEF LibInv, Adding
      <3>3. \A v \in Threads : lib'[v].at \in {"extract", "clearpid"} =>
             lib'[v].kid \in Workers /\ th'[lib'[v].kid].state = "reaped"
        BY <1>a, <2>1, <2>2, <2>3 DEF LibInv
      <3>4. \A v, w \in Threads :
             /\ lib'[v].at \in {"extract", "clearpid"} /\ lib'[w].at \in {"extract", "clearpid"}
             /\ lib'[v].kid = lib'[w].kid
             => v = w
        BY <2>3 DEF LibInv
      <3> QED BY <3>1, <3>2, <3>3, <3>4 DEF LibInv
    <2>6. StackInv'
      BY <1>a, <2>1, <2>2, <2>3, <2>4 DEF StackInv
    <2> QED BY <2>5, <2>6
  <1>9. ASSUME NEW t \in Threads, InitReaps(t)
        PROVE  LibInv' /\ StackInv'
    <2>1. th[t].state = "zombie" /\ th[t].parent = Init_ /\ UNCHANGED <<lib, thread_stacks>>
      BY <1>9 DEF InitReaps
    <2>2. \A u \in Threads :
              /\ th'[u].state = IF u = t THEN "reaped" ELSE th[u].state
              /\ th'[u].parent = IF u = t THEN None ELSE th[u].parent
              /\ th'[u].ustack = IF u = t THEN None ELSE th[u].ustack
      BY <1>9, InitReaped
    <2>3. Alive' = Alive /\ Stacked' = Stacked \ {t}
      BY <1>a, <2>1, <2>2 DEF Alive, Stacked
    <2>4. \A v \in Threads : lib[v].at \in Adding => lib[v].kid # t
      BY <2>1 DEF LibInv, Adding
    <2>5. LibInv'
      BY <1>a, <2>1, <2>2, <2>3, <2>4 DEF LibInv
    <2>6. StackInv'
      BY <1>a, <2>1, <2>2, <2>3 DEF StackInv
    <2> QED BY <2>5, <2>6
  <1>10. CASE ChildGone \/ UNCHANGED vars
    <2>1. UNCHANGED <<th, lib, thread_stacks>>
      BY <1>10 DEF ChildGone, vars
    <2> QED BY <2>1, LibStill DEF SameThreads, SamePids
  <1> QED
    BY <1>1, <1>2, <1>3, <1>4, <1>5, <1>6, <1>7, <1>8, <1>9, <1>10, StepsAre

-----------------------------------------------------------------------------
\* The units that a thread holds and finds, without comprehensions.
LEMMA HeldIs ==
  ASSUME NEW t \in Threads, NEW b
  PROVE  /\ b \in Held(t) <=> lib[t].at \in Holding /\ lib[t].buf = b /\ b # None
         /\ b \in ToFind(t) <=> /\ lib[t].at = "extract"
                                /\ \E i \in Entries : /\ thread_stacks[i].pid = lib[t].kid
                                                      /\ thread_stacks[i].stack = b
  BY DEF Held, ToFind

\* A step that leaves the table alone.
LEMMA TableKept ==
  ASSUME TypeOK, LibInv, TableInv, SameThreads, thread_stacks' = thread_stacks,
         \A u \in Threads : \/ lib'[u] = lib[u]
                            \/ /\ Leaves(u)
                               /\ lib[u].at \notin {"setpid", "setstack", "clearpid", "clearstack"}
  PROVE  TableInv'
  <1> USE Names
  <1>1. Alive' = Alive /\ Stacked' = Stacked
    BY DEF SameThreads, Alive, Stacked
  <1>2. \A u \in Stacked : u \in Threads /\ u \in Workers
    BY DEF Stacked
  <1>3. Writing' = Writing /\ \A u \in Writing : lib'[u] = lib[u] /\ u \in Threads
    BY <1>1 DEF Writing, Leaves, Adding, Alive
  <1>4. \A t, u \in Writing' : t = u
    BY <1>3 DEF TableInv
  <1>5. \A t \in Writing' :
          /\ lib'[t].at \in {"setpid", "clearstack"} => thread_stacks'[lib'[t].slot].pid = None
          /\ lib'[t].at \in {"setstack", "clearpid"} => thread_stacks'[lib'[t].slot].pid = lib'[t].kid
    BY <1>3 DEF TableInv
  <1>6. ASSUME NEW u \in Stacked', NEW i \in Entries,
               thread_stacks'[i].pid = u, th'[u].parent \in Threads,
               ~(lib'[th'[u].parent].at = "setstack" /\ lib'[th'[u].parent].slot = i)
        PROVE  thread_stacks'[i].stack = th'[u].ustack
    <2>1. u \in Stacked /\ th'[u].parent = th[u].parent /\ th'[u].ustack = th[u].ustack
      BY <1>1, <1>2 DEF SameThreads
    <2>2. ~(lib[th[u].parent].at = "setstack" /\ lib[th[u].parent].slot = i)
      BY <1>6, <2>1
    <2>3. thread_stacks[i].stack = th[u].ustack
      BY <1>6, <2>1, <2>2 DEF TableInv
    <2> QED BY <2>1, <2>3
  <1> QED BY <1>4, <1>5, <1>6 DEF TableInv

\* A step after which nobody owns a unit that he did not own before.
LEMMA OwnersKept ==
  ASSUME OwnerInv, Stacked' \subseteq Stacked, \A u \in Stacked' : th'[u].ustack = th[u].ustack,
         heap' = heap, mapped \subseteq mapped',
         \A t \in Threads : Held(t)' \subseteq Held(t) /\ ToFind(t)' \subseteq ToFind(t)
  PROVE  OwnerInv'
  BY DEF OwnerInv

\* A step that moves no unit and leaves the table alone.
LEMMA TableStill ==
  ASSUME TypeOK, LibInv, TableInv, OwnerInv, SameThreads, thread_stacks' = thread_stacks,
         heap' = heap, mapped \subseteq mapped',
         \A u \in Threads : \/ lib'[u] = lib[u]
                            \/ /\ Leaves(u) /\ Held(u)' = Held(u)
                               /\ lib[u].at \notin {"extract", "setpid", "setstack", "clearpid",
                                                    "clearstack"}
  PROVE  TableInv' /\ OwnerInv'
  <1> USE Names
  <1>1. Stacked' = Stacked /\ \A u \in Stacked : th'[u].ustack = th[u].ustack
    BY DEF SameThreads, Stacked
  <1>2. TableInv'
    BY TableKept
  <1>4. ASSUME NEW t \in Threads
        PROVE  Held(t)' = Held(t) /\ ToFind(t)' = ToFind(t)
    <2>1. CASE lib'[t] = lib[t]
      BY <2>1 DEF Held, ToFind
    <2>2. CASE lib'[t] # lib[t]
      <3>1. lib'[t].at # "extract" /\ lib[t].at # "extract" /\ Held(t)' = Held(t)
        BY <2>2 DEF Leaves
      <3> QED BY <3>1 DEF ToFind
    <2> QED BY <2>1, <2>2
  <1> QED BY <1>1, <1>2, <1>4, OwnersKept

\* The steps that TableStill is about.
LEMMA TableStillAre ==
  ASSUME TypeOK, LibType, SizeInv, LibInv, StackInv, NEW t \in Threads,
         \/ Create(t) \/ Join(t) \/ CloneRefused(t) \/ NothingToJoin(t)
         \/ Acquire(t, "create", "malloc") \/ Acquire(t, "undo", "undone")
         \/ Acquire(t, "giveback", "free")
         \/ Malloc(t) /\ lib'[t].buf = lib[t].buf /\ UNCHANGED <<th, mapped, heap>>
         \/ (FreeBuf(t, "undone") \/ FreeBuf(t, "free")) /\ lib[t].buf = None
         \/ ForkCopy(t) \/ ForkSize(t) \/ Sbrk(t) \/ Kill(t),
         TableInv, OwnerInv
  PROVE  TableInv' /\ OwnerInv'
  <1> USE Names
  <1>1. ASSUME \/ Create(t) \/ Join(t) \/ CloneRefused(t) \/ ForkCopy(t)
               \/ Acquire(t, "create", "malloc") \/ Acquire(t, "undo", "undone")
               \/ Acquire(t, "giveback", "free")
        PROVE  TableInv' /\ OwnerInv'
    <2>1. UNCHANGED <<th, mapped, thread_stacks, heap>> /\ t \in Alive
      BY <1>1 DEF Create, Join, CloneRefused, ForkCopy, Acquire, Calling, At, kernel
    <2>2. \E c \in Pcs : /\ Goto(t, c) /\ c \notin Adding \cup {"extract", "clearpid", "clearstack"}
                         /\ \/ c \notin Holding /\ lib[t].buf = None
                            \/ c \in Holding /\ lib[t].at \in Holding
                         /\ lib[t].at \notin {"extract", "setpid", "setstack", "clearpid", "clearstack"}
      BY <1>1 DEF Create, Join, CloneRefused, ForkCopy, Acquire, Calling, At, Pcs, Adding, Holding, LibInv
    <2>3. PICK c \in Pcs : /\ Goto(t, c) /\ c \notin Adding \cup {"extract", "clearpid", "clearstack"}
                           /\ \/ c \notin Holding /\ lib[t].buf = None
                              \/ c \in Holding /\ lib[t].at \in Holding
                           /\ lib[t].at \notin {"extract", "setpid", "setstack", "clearpid", "clearstack"}
      BY <2>2
    <2>4. lib'[t].at = c /\ lib'[t].buf = lib[t].buf /\ \A u \in Threads \ {t} : lib'[u] = lib[u]
      BY <2>3 DEF Goto, LibType
    <2>5. Held(t)' = Held(t)
      <3>1. CASE lib[t].buf = None
        <4>1. Held(t) = {} /\ Held(t)' = {}
          BY <2>4, <3>1 DEF Held
        <4> QED BY <4>1
      <3>2. CASE c \in Holding /\ lib[t].at \in Holding
        <4>1. \A b : b \in Held(t) <=> lib[t].buf = b /\ b # None
          BY <3>2, HeldIs
        <4>2. \A b : b \in Held(t)' <=> lib[t].buf = b /\ b # None
          BY <2>4, <3>2 DEF Held
        <4> QED BY <4>1, <4>2
      <3> QED BY <2>3, <3>1, <3>2
    <2> QED BY <2>1, <2>3, <2>4, <2>5, TableStill DEF SameThreads, Leaves
  <1>2. ASSUME NothingToJoin(t) \/ ForkSize(t)
        PROVE  TableInv' /\ OwnerInv'
    <2>1. /\ UNCHANGED <<th, mapped, thread_stacks, heap>> /\ t \in Alive /\ Return(t)
          /\ lib[t].at \in {"join", "fork"}
      BY <1>2 DEF NothingToJoin, ForkSize, At, kernel
    <2>2. Held(t)' = Held(t) /\ lib'[t].at = "user" /\ lib'[t].buf = None
          /\ \A u \in Threads \ {t} : lib'[u] = lib[u]
      BY <2>1, ReturnIs DEF Held, Holding
    <2> QED BY <2>1, <2>2, TableStill DEF SameThreads, Leaves, Adding
  <1>3. ASSUME Malloc(t), lib'[t].buf = lib[t].buf, UNCHANGED <<th, mapped, heap>>
        PROVE  TableInv' /\ OwnerInv'
    <2>1. lib[t].buf = None /\ lib[t].at = "malloc" /\ t \in Alive
      BY <1>3, MallocIs DEF LibInv, Holding, Adding
    <2>2. Held(t)' = Held(t)
      BY <1>3, <2>1 DEF Held, Holding
    <2> QED BY <1>3, <2>1, <2>2, MallocIs, TableStill DEF SameThreads, Leaves, Adding
  <1>4. ASSUME FreeBuf(t, "undone") \/ FreeBuf(t, "free"), lib[t].buf = None
        PROVE  TableInv' /\ OwnerInv'
    <2>1. /\ t \in Alive /\ UNCHANGED <<mapped, thread_stacks, heap>>
          /\ th' = [th EXCEPT ![t].killed = TRUE] /\ Goto(t, "faulted")
          /\ lib[t].at \in {"undone", "free"}
      BY <1>4 DEF FreeBuf, At
    <2>2. /\ lib'[t].at = "faulted" /\ lib'[t].buf = None
          /\ \A u \in Threads \ {t} : lib'[u] = lib[u]
      BY <1>4, <2>1 DEF Goto, LibType
    <2>3. Held(t)' = Held(t)
      BY <1>4, <2>1, <2>2 DEF Held
    <2>4. SameThreads
      BY <2>1, KilledIs DEF SameThreads
    <2> QED BY <2>1, <2>2, <2>3, <2>4, TableStill DEF Leaves, Adding
  <1>5. ASSUME Sbrk(t)
        PROVE  TableInv' /\ OwnerInv'
    <2>1. GrowBy1(t) /\ t \in Alive /\ UNCHANGED <<heap, thread_stacks, lib>>
      BY <1>5 DEF Sbrk, Calling, At
    <2>2. SameThreads /\ mapped \subseteq mapped'
      BY <2>1, GrowIs DEF SameThreads
    <2> QED BY <2>1, <2>2, TableStill
  <1>6. ASSUME Kill(t)
        PROVE  TableInv' /\ OwnerInv'
    <2>1. SameThreads /\ UNCHANGED <<heap, thread_stacks, lib, mapped>>
      BY <1>6, KilledIs DEF Kill, SameThreads
    <2> QED BY <2>1, TableStill
  <1> QED BY <1>1, <1>2, <1>3, <1>4, <1>5, <1>6

\* One thread at a time in the table keeps it exact.
LEMMA TableStep ==
  ASSUME TypeOK, LibType, SizeInv, LibInv, StackInv, TableInv, OwnerInv, [Next]_vars,
         "table" \notin mishaps'
  PROVE  TableInv'
  <1> USE Names
  <1>a. /\ \A t \in Alive : t \in Threads /\ th[t].state = "live"
        /\ \A u \in Stacked : u \in Threads /\ u \in Workers /\ th[u].state \in {"live", "zombie"}
        /\ \A i \in Entries : thread_stacks[i].pid \in Workers \cup {None}
    BY DEF Alive, Stacked, TypeOK
  <1>b. \A i \in Entries, u \in Stacked :
            /\ thread_stacks[i].pid = u /\ th[u].parent \in Threads
            /\ ~(lib[th[u].parent].at = "setstack" /\ lib[th[u].parent].slot = i)
            => thread_stacks[i].stack = th[u].ustack
    BY DEF TableInv
  <1>c. thread_stacks \in [Entries -> [pid : Workers \cup {None}, stack : Units \cup {None}]]
    BY DEF TypeOK
  <1>1. ASSUME NEW t \in Threads,
               \/ Create(t) \/ Join(t) \/ CloneRefused(t) \/ NothingToJoin(t)
               \/ Acquire(t, "create", "malloc") \/ Acquire(t, "undo", "undone")
               \/ Acquire(t, "giveback", "free")
               \/ ForkCopy(t) \/ ForkSize(t) \/ Sbrk(t) \/ Kill(t)
        PROVE  TableInv'
    BY <1>1, TableStillAre
  <1>2. ASSUME NEW t \in Threads, Malloc(t) \/ FreeBuf(t, "undone") \/ FreeBuf(t, "free")
        PROVE  TableInv'
    <2>1. SameThreads /\ \A u \in Threads : lib'[u] = lib[u] \/ Leaves(u)
      BY <1>2, StillAre
    <2>2. /\ thread_stacks' = thread_stacks
          /\ \A u \in Threads : lib'[u] = lib[u] \/ lib[u].at \in {"malloc", "undone", "free"}
      <3>1. CASE Malloc(t)
        BY <3>1, MallocIs
      <3>2. CASE FreeBuf(t, "undone") \/ FreeBuf(t, "free")
        BY <3>2, ReturnIs DEF FreeBuf, At, Goto, LibType
      <3> QED BY <1>2, <3>1, <3>2
    <2> QED BY <2>1, <2>2, TableKept
  <1>3. ASSUME NEW t \in Threads, Clone(t)
        PROVE  TableInv'
    <2>1. lib[t].at = "clone" /\ thread_stacks' = thread_stacks /\ t \in Alive
      BY <1>3, CloneIs
    <2>2. PICK u \in Workers :
              /\ th[u].state = "unborn" /\ u # t
              /\ lib'[t].at = "find"
              /\ \A v \in Threads \ {t} : lib'[v] = lib[v]
              /\ th'[u].state = "live"
              /\ \A v \in Threads \ {u} : th'[v] = th[v]
      BY <1>3, CloneIs
    <2>3. Alive' = Alive \cup {u} /\ Stacked' = Stacked \cup {u} /\ u \in Threads /\ u \notin Alive
      BY <2>2 DEF Alive, Stacked
    <2>4. lib'[u].at = "user"
      BY <2>2, <2>3 DEF LibInv
    <2>5. Writing' = Writing /\ t \notin Writing
      BY <1>a, <2>1, <2>2, <2>3, <2>4 DEF Writing
    <2>6. \A i \in Entries : thread_stacks[i].pid # u
      BY <2>2 DEF StackInv
    <2>7. \A w \in Writing : lib'[w] = lib[w]
      BY <1>a, <2>2, <2>5 DEF Writing
    <2>8. ASSUME NEW v \in Stacked', NEW i \in Entries,
                 thread_stacks'[i].pid = v, th'[v].parent \in Threads,
                 ~(lib'[th'[v].parent].at = "setstack" /\ lib'[th'[v].parent].slot = i)
          PROVE  thread_stacks'[i].stack = th'[v].ustack
      <3>1. v \in Stacked /\ th'[v] = th[v]
        BY <1>a, <2>1, <2>2, <2>3, <2>6, <2>8
      <3>2. ~(lib[th[v].parent].at = "setstack" /\ lib[th[v].parent].slot = i)
        BY <2>1, <2>2, <2>8, <3>1
      <3> QED BY <1>b, <2>1, <2>8, <3>1, <3>2
    <2> QED BY <2>1, <2>5, <2>7, <2>8 DEF TableInv
  <1>4. ASSUME NEW t \in Threads, Find(t)
        PROVE  TableInv'
    <2>1. /\ t \in Alive /\ lib[t].at = "find" /\ UNCHANGED <<th, thread_stacks>>
          /\ \A u \in Threads \ {t} : lib'[u] = lib[u]
      BY <1>4, FindIs
    <2>2. CASE lib'[t].at = "user" /\ lib'[t].buf = None
      BY <2>1, <2>2, TableKept DEF SameThreads, Leaves, Adding
    <2>3. ASSUME NEW s \in Entries, thread_stacks[s].pid = None, mishaps' = mishaps \cup Clash(t),
                 lib'[t].at = "setpid", lib'[t].slot = s
          PROVE  TableInv'
      <3>1. Writing \ {t} = {}
        BY <2>3 DEF Clash
      <3>2. Alive' = Alive /\ Stacked' = Stacked
        BY <2>1 DEF Alive, Stacked
      <3>3. Writing' = {t}
        BY <2>1, <2>3, <3>1, <3>2, <1>a DEF Writing
      <3>4. ASSUME NEW v \in Stacked', NEW i \in Entries,
                   thread_stacks'[i].pid = v, th'[v].parent \in Threads,
                   ~(lib'[th'[v].parent].at = "setstack" /\ lib'[th'[v].parent].slot = i)
            PROVE  thread_stacks'[i].stack = th'[v].ustack
        <4>1. ~(lib[th[v].parent].at = "setstack" /\ lib[th[v].parent].slot = i)
          BY <2>1, <3>4
        <4> QED BY <1>b, <2>1, <3>2, <3>4, <4>1
      <3> QED BY <2>1, <2>3, <3>3, <3>4 DEF TableInv
    <2> QED BY <1>4, <2>2, <2>3, FindIs
  <1>5. ASSUME NEW t \in Threads, SetPid(t)
        PROVE  TableInv'
    <2>1. /\ t \in Alive /\ lib[t].at = "setpid" /\ th' = th /\ lib[t].slot \in Entries
          /\ thread_stacks' = [thread_stacks EXCEPT ![lib[t].slot].pid = lib[t].kid]
      BY <1>5 DEF SetPid, At, kernel, LibInv
    <2>2. \A u \in Threads : /\ lib'[u].at = IF u = t THEN "setstack" ELSE lib[u].at
                             /\ lib'[u].buf = lib[u].buf /\ lib'[u].kid = lib[u].kid
                             /\ lib'[u].slot = lib[u].slot
      BY <1>5, GotoIs DEF SetPid, Pcs
    <2>3. Alive' = Alive /\ Stacked' = Stacked
      BY <2>1 DEF Alive, Stacked
    <2>4. Writing' = {t}
      <3>1. Writing = {t}
        BY <2>1 DEF TableInv, Writing
      <3> QED BY <1>a, <2>1, <2>2, <2>3, <3>1 DEF Writing
    <2>5. \A i \in Entries : /\ thread_stacks'[i].pid = IF i = lib[t].slot THEN lib[t].kid
                                                        ELSE thread_stacks[i].pid
                             /\ thread_stacks'[i].stack = thread_stacks[i].stack
      BY <1>c, <2>1
    <2>6. th[lib[t].kid].parent = t
      BY <2>1 DEF LibInv, Adding
    <2>7. ASSUME NEW v \in Stacked', NEW i \in Entries,
                 thread_stacks'[i].pid = v, th'[v].parent \in Threads,
                 ~(lib'[th'[v].parent].at = "setstack" /\ lib'[th'[v].parent].slot = i)
          PROVE  thread_stacks'[i].stack = th'[v].ustack
      <3>1. ~(lib[th[v].parent].at = "setstack" /\ lib[th[v].parent].slot = i)
        BY <2>1, <2>2, <2>7
      <3>2. i # lib[t].slot
        BY <2>1, <2>2, <2>5, <2>6, <2>7
      <3> QED BY <1>b, <2>1, <2>3, <2>5, <2>7, <3>1, <3>2
    <2> QED BY <2>1, <2>2, <2>4, <2>5, <2>7 DEF TableInv
  <1>6. ASSUME NEW t \in Threads, SetStack(t)
        PROVE  TableInv'
    <2>1. /\ t \in Alive /\ lib[t].at = "setstack" /\ th' = th /\ lib[t].slot \in Entries
          /\ thread_stacks' = [thread_stacks EXCEPT ![lib[t].slot].stack = lib[t].buf]
      BY <1>6 DEF SetStack, At, kernel, LibInv
    <2>2. lib'[t].at = "user" /\ \A u \in Threads \ {t} : lib'[u] = lib[u]
      BY <1>6, ReturnIs DEF SetStack
    <2>3. Alive' = Alive /\ Stacked' = Stacked
      BY <2>1 DEF Alive, Stacked
    <2>4. Writing' = {} /\ t \in Writing
      <3>1. Writing = {t}
        BY <2>1 DEF TableInv, Writing
      <3> QED BY <1>a, <2>1, <2>2, <2>3, <3>1 DEF Writing
    <2>5. \A i \in Entries : /\ thread_stacks'[i].pid = thread_stacks[i].pid
                             /\ thread_stacks'[i].stack = IF i = lib[t].slot THEN lib[t].buf
                                                          ELSE thread_stacks[i].stack
      BY <1>c, <2>1
    <2>6. lib[t].buf = th[lib[t].kid].ustack /\ thread_stacks[lib[t].slot].pid = lib[t].kid
      BY <2>1, <2>4 DEF LibInv, Adding, TableInv
    <2>7. ASSUME NEW v \in Stacked', NEW i \in Entries,
                 thread_stacks'[i].pid = v, th'[v].parent \in Threads,
                 ~(lib'[th'[v].parent].at = "setstack" /\ lib'[th'[v].parent].slot = i)
          PROVE  thread_stacks'[i].stack = th'[v].ustack
      <3>1. CASE i = lib[t].slot
        BY <2>1, <2>5, <2>6, <2>7, <3>1
      <3>2. CASE i # lib[t].slot
        <4>1. ~(lib[th[v].parent].at = "setstack" /\ lib[th[v].parent].slot = i)
          BY <2>1, <2>2, <2>7, <3>2
        <4> QED BY <1>b, <2>1, <2>3, <2>5, <2>7, <3>2, <4>1
      <3> QED BY <3>1, <3>2
    <2> QED BY <2>4, <2>7 DEF TableInv
  <1>7. ASSUME NEW t \in Threads, Joined(t)
        PROVE  TableInv'
    <2>1. t \in Alive /\ lib[t].at = "join" /\ thread_stacks' = thread_stacks
      BY <1>7, JoinedIs
    <2>2. PICK u \in Workers :
              /\ th[u].state = "zombie" /\ th'[u].state = "reaped"
              /\ \A v \in Threads \ {u} : th'[v] = th[v]
              /\ lib'[t].at = "extract"
              /\ \A v \in Threads \ {t} : lib'[v] = lib[v]
      BY <1>7, JoinedIs
    <2>3. Alive' = Alive /\ Stacked' = Stacked \ {u}
      BY <2>2 DEF Alive, Stacked
    <2>4. Writing' = Writing /\ \A w \in Writing : lib'[w] = lib[w]
      BY <1>a, <2>1, <2>2, <2>3 DEF Writing
    <2>5. ASSUME NEW v \in Stacked', NEW i \in Entries,
                 thread_stacks'[i].pid = v, th'[v].parent \in Threads,
                 ~(lib'[th'[v].parent].at = "setstack" /\ lib'[th'[v].parent].slot = i)
          PROVE  thread_stacks'[i].stack = th'[v].ustack
      <3>1. v \in Stacked /\ th'[v] = th[v]
        BY <1>a, <2>2, <2>3
      <3>2. ~(lib[th[v].parent].at = "setstack" /\ lib[th[v].parent].slot = i)
        BY <2>1, <2>2, <2>5, <3>1
      <3> QED BY <1>b, <2>1, <2>5, <3>1, <3>2
    <2> QED BY <2>1, <2>4, <2>5 DEF TableInv
  <1>8. ASSUME NEW t \in Threads, Extract(t)
        PROVE  TableInv'
    <2>1. /\ t \in Alive /\ lib[t].at = "extract" /\ UNCHANGED <<th, thread_stacks>>
          /\ \A u \in Threads \ {t} : lib'[u] = lib[u]
      BY <1>8, ExtractIs
    <2>2. CASE lib'[t].at = "giveback" /\ lib'[t].buf = None
      BY <2>1, <2>2, TableKept DEF SameThreads, Leaves, Adding
    <2>3. ASSUME NEW s \in Entries, thread_stacks[s].pid = lib[t].kid,
                 mishaps' = mishaps \cup Clash(t), lib'[t].kid = lib[t].kid,
                 lib'[t].at = "clearpid", lib'[t].slot = s
          PROVE  TableInv'
      <3>1. Writing \ {t} = {}
        BY <2>3 DEF Clash
      <3>2. Alive' = Alive /\ Stacked' = Stacked
        BY <2>1 DEF Alive, Stacked
      <3>3. Writing' = {t}
        BY <2>1, <2>3, <3>1, <3>2, <1>a DEF Writing
      <3>4. ASSUME NEW v \in Stacked', NEW i \in Entries,
                   thread_stacks'[i].pid = v, th'[v].parent \in Threads,
                   ~(lib'[th'[v].parent].at = "setstack" /\ lib'[th'[v].parent].slot = i)
            PROVE  thread_stacks'[i].stack = th'[v].ustack
        <4>1. ~(lib[th[v].parent].at = "setstack" /\ lib[th[v].parent].slot = i)
          BY <2>1, <3>4
        <4> QED BY <1>b, <2>1, <3>2, <3>4, <4>1
      <3> QED BY <2>1, <2>3, <3>3, <3>4 DEF TableInv
    <2> QED BY <1>8, <2>2, <2>3, ExtractIs
  <1>9. ASSUME NEW t \in Threads, ClearPid(t)
        PROVE  TableInv'
    <2>1. /\ t \in Alive /\ lib[t].at = "clearpid" /\ th' = th /\ lib[t].slot \in Entries
          /\ thread_stacks' = [thread_stacks EXCEPT ![lib[t].slot].pid = None]
      BY <1>9 DEF ClearPid, At, kernel, LibInv
    <2>2. \A u \in Threads : /\ lib'[u].at = IF u = t THEN "clearstack" ELSE lib[u].at
                             /\ lib'[u].slot = lib[u].slot
      BY <1>9, GotoIs DEF ClearPid, Pcs
    <2>3. Alive' = Alive /\ Stacked' = Stacked
      BY <2>1 DEF Alive, Stacked
    <2>4. Writing' = {t}
      <3>1. Writing = {t}
        BY <2>1 DEF TableInv, Writing
      <3> QED BY <1>a, <2>1, <2>2, <2>3, <3>1 DEF Writing
    <2>5. \A i \in Entries : /\ thread_stacks'[i].pid = IF i = lib[t].slot THEN None
                                                        ELSE thread_stacks[i].pid
                             /\ thread_stacks'[i].stack = thread_stacks[i].stack
      BY <1>c, <2>1
    <2>6. ASSUME NEW v \in Stacked', NEW i \in Entries,
                 thread_stacks'[i].pid = v, th'[v].parent \in Threads,
                 ~(lib'[th'[v].parent].at = "setstack" /\ lib'[th'[v].parent].slot = i)
          PROVE  thread_stacks'[i].stack = th'[v].ustack
      <3>1. ~(lib[th[v].parent].at = "setstack" /\ lib[th[v].parent].slot = i)
        BY <2>1, <2>2, <2>6
      <3>2. i # lib[t].slot
        BY <1>a, <2>3, <2>5, <2>6
      <3> QED BY <1>b, <2>1, <2>3, <2>5, <2>6, <3>1, <3>2
    <2> QED BY <2>1, <2>2, <2>4, <2>5, <2>6 DEF TableInv
  <1>10. ASSUME NEW t \in Threads, ClearStack(t)
        PROVE  TableInv'
    <2>1. /\ t \in Alive /\ lib[t].at = "clearstack" /\ th' = th /\ lib[t].slot \in Entries
          /\ thread_stacks' = [thread_stacks EXCEPT ![lib[t].slot].stack = None]
          /\ lib'[t].at = "giveback" /\ \A u \in Threads \ {t} : lib'[u] = lib[u]
      BY <1>10, ClearStackIs DEF LibInv
    <2>2. Alive' = Alive /\ Stacked' = Stacked
      BY <2>1 DEF Alive, Stacked
    <2>3. Writing' = {} /\ t \in Writing
      <3>1. Writing = {t}
        BY <2>1 DEF TableInv, Writing
      <3> QED BY <1>a, <2>1, <2>2, <3>1 DEF Writing
    <2>4. \A i \in Entries : /\ thread_stacks'[i].pid = thread_stacks[i].pid
                             /\ i # lib[t].slot => thread_stacks'[i].stack = thread_stacks[i].stack
      BY <1>c, <2>1
    <2>5. thread_stacks[lib[t].slot].pid = None
      BY <2>1, <2>3 DEF TableInv
    <2>6. ASSUME NEW v \in Stacked', NEW i \in Entries,
                 thread_stacks'[i].pid = v, th'[v].parent \in Threads,
                 ~(lib'[th'[v].parent].at = "setstack" /\ lib'[th'[v].parent].slot = i)
          PROVE  thread_stacks'[i].stack = th'[v].ustack
      <3>1. ~(lib[th[v].parent].at = "setstack" /\ lib[th[v].parent].slot = i)
        BY <2>1, <2>6
      <3>2. i # lib[t].slot
        BY <1>a, <2>2, <2>4, <2>5, <2>6
      <3> QED BY <1>b, <2>1, <2>2, <2>4, <2>6, <3>1, <3>2
    <2> QED BY <2>3, <2>6 DEF TableInv
  <1>11. ASSUME NEW t \in Threads, Exit(t) \/ Die(t)
         PROVE  TableInv'
    <2>1. t \in Alive /\ thread_stacks' = thread_stacks
      BY <1>11 DEF Exit, Die, At
    <2>2. \A u \in Threads :
              /\ th'[u].state = IF u = t THEN "zombie" ELSE th[u].state
              /\ th'[u].parent = IF u # t /\ u \in Workers /\ th[u].parent = t THEN Init_
                                 ELSE th[u].parent
              /\ th'[u].ustack = th[u].ustack
      BY <1>11, ExitedIs DEF Exit, Die
    <2>3. /\ lib'[t].at = "user"
          /\ \A u \in Threads \ {t} : lib'[u] = lib[u]
      BY <1>11, ReturnIs DEF Exit, Die, At
    <2>4. Alive' = Alive \ {t} /\ Stacked' = Stacked
      BY <1>a, <2>1, <2>2 DEF Alive, Stacked
    <2>5. Writing' = Writing \ {t} /\ \A w \in Writing' : lib'[w] = lib[w]
      BY <1>a, <2>3, <2>4 DEF Writing
    <2>6. ASSUME NEW v \in Stacked', NEW i \in Entries,
                 thread_stacks'[i].pid = v, th'[v].parent \in Threads,
                 ~(lib'[th'[v].parent].at = "setstack" /\ lib'[th'[v].parent].slot = i)
          PROVE  thread_stacks'[i].stack = th'[v].ustack
      <3>1. th'[v].parent = th[v].parent /\ th[v].parent # t
        BY <1>a, <2>2, <2>4, <2>6 DEF StackInv
      <3>2. ~(lib[th[v].parent].at = "setstack" /\ lib[th[v].parent].slot = i)
        BY <2>3, <2>6, <3>1
      <3> QED BY <1>a, <1>b, <2>1, <2>2, <2>4, <2>6, <3>1, <3>2
    <2> QED BY <2>1, <2>5, <2>6 DEF TableInv
  <1>12. ASSUME NEW t \in Threads, InitReaps(t)
         PROVE  TableInv'
    <2>1. th[t].state = "zombie" /\ UNCHANGED <<lib, thread_stacks>>
      BY <1>12 DEF InitReaps
    <2>2. \A u \in Threads \ {t} :
              /\ th'[u].state = th[u].state /\ th'[u].parent = th[u].parent
              /\ th'[u].ustack = th[u].ustack
      BY <1>12, InitReaped
    <2>6. \A u \in Threads : th'[u].state = IF u = t THEN "reaped" ELSE th[u].state
      BY <1>12, InitReaped
    <2>3. Alive' = Alive /\ Stacked' = Stacked \ {t}
      BY <2>1, <2>6 DEF Alive, Stacked
    <2>4. Writing' = Writing
      BY <2>1, <2>3 DEF Writing
    <2>5. \A v \in Stacked' : v \in Stacked /\ th'[v].parent = th[v].parent /\ th'[v].ustack = th[v].ustack
      BY <1>a, <2>2, <2>3
    <2> QED BY <2>1, <2>4, <2>5 DEF TableInv
  <1>13. CASE ChildGone \/ UNCHANGED vars
    <2>1. UNCHANGED <<th, lib, thread_stacks>>
      BY <1>13 DEF ChildGone, vars
    <2> QED BY <2>1, TableKept DEF SameThreads
  <1> QED
    BY <1>1, <1>2, <1>3, <1>4, <1>5, <1>6, <1>7, <1>8, <1>9, <1>10, <1>11, <1>12, <1>13, StepsAre

\* What a step does not touch it does not move.
LEMMA OwnsNothing ==
  \A v \in Threads : /\ lib[v].at \notin Holding => Held(v) = {}
                     /\ lib[v].at # "extract" => ToFind(v) = {}
  BY DEF Held, ToFind

\* A unit b comes to t, and everybody else owns what he did or less.
LEMMA OwnersMoved ==
  ASSUME OwnerInv, NEW t \in Threads, NEW b, b \in mapped' \ heap',
         Stacked' \subseteq Stacked,
         \A u \in Stacked' : th'[u].ustack = th[u].ustack /\ th[u].ustack # b,
         heap' \subseteq heap, mapped \subseteq mapped',
         \A v \in Threads \ {t} : /\ Held(v)' \subseteq Held(v) /\ b \notin Held(v)
                                  /\ ToFind(v)' \subseteq ToFind(v) /\ b \notin ToFind(v),
         \/ Held(t)' \subseteq {b} /\ ToFind(t)' = {}
         \/ Held(t)' = {} /\ ToFind(t)' \subseteq {b}
  PROVE  OwnerInv'
  <1>1. /\ \A u, v \in Stacked' : th'[u].ustack = th'[v].ustack => u = v
        /\ heap' \subseteq mapped'
    BY DEF OwnerInv
  <1>2. \A u \in Stacked' : /\ th'[u].ustack \in mapped' \ heap'
                            /\ \A v \in Threads : th'[u].ustack \notin ToFind(v)' \cup Held(v)'
    BY DEF OwnerInv
  <1>3. \A v \in Threads : ToFind(v)' \cup Held(v)' \subseteq mapped' \ heap'
    BY DEF OwnerInv
  <1>4. \A v, w \in Threads :
          /\ Held(v)' \cap ToFind(w)' = {}
          /\ v # w => Held(v)' \cap Held(w)' = {} /\ ToFind(v)' \cap ToFind(w)' = {}
    BY DEF OwnerInv
  <1> QED BY <1>1, <1>2, <1>3, <1>4 DEF OwnerInv

\* clone() gives the unit that its caller holds to a new thread.
LEMMA OwnersCloned ==
  ASSUME TypeOK, LibType, LibInv, OwnerInv, NEW t \in Threads, Clone(t)
  PROVE  OwnerInv'
  <1> USE Names
  <1>1. /\ lib[t].at = "clone" /\ lib[t].buf \in Units
        /\ UNCHANGED <<mapped, heap, thread_stacks>>
    BY CloneIs
  <1>2. PICK u \in Workers :
          /\ th[u].state = "unborn"
          /\ lib'[t].at = "find"
          /\ \A v \in Threads \ {t} : lib'[v] = lib[v]
          /\ th'[u].state = "live" /\ th'[u].ustack = lib[t].buf
          /\ \A v \in Threads \ {u} : th'[v] = th[v]
    BY CloneIs
  <1>3. /\ Stacked' = Stacked \cup {u} /\ u \notin Stacked
        /\ \A v \in Stacked : th'[v] = th[v]
    BY <1>2 DEF Stacked
  <1>4. \A v \in Threads \ {t} : Held(v)' = Held(v) /\ ToFind(v)' = ToFind(v)
    BY <1>1, <1>2 DEF Held, ToFind
  <1>5. Held(t)' = {} /\ ToFind(t)' = {}
    BY <1>2 DEF Held, ToFind, Holding
  <1> DEFINE b == lib[t].buf
  <1>6. b \in Held(t)
    BY <1>1, HeldIs DEF Holding
  <1>7. /\ b \in mapped \ heap /\ \A v \in Stacked : th[v].ustack # b
        /\ \A v \in Threads \ {t} : b \notin Held(v) /\ b \notin ToFind(v)
    BY <1>6 DEF OwnerInv
  <1> HIDE DEF b
  <1>8. th'[u].ustack = b
    BY <1>2 DEF b
  <1>9. \A v \in Stacked' : th'[v].ustack = IF v = u THEN b ELSE th[v].ustack
    BY <1>3, <1>8
  <1>10. /\ \A v, w \in Stacked' : th'[v].ustack = th'[w].ustack => v = w
         /\ heap' \subseteq mapped'
    BY <1>1, <1>3, <1>7, <1>9 DEF OwnerInv
  <1>11. \A x \in Stacked' : /\ th'[x].ustack \in mapped' \ heap'
                             /\ \A v \in Threads : th'[x].ustack \notin ToFind(v)' \cup Held(v)'
    BY <1>1, <1>3, <1>4, <1>5, <1>7, <1>9 DEF OwnerInv
  <1>12. \A v \in Threads : ToFind(v)' \cup Held(v)' \subseteq mapped' \ heap'
    BY <1>1, <1>4, <1>5 DEF OwnerInv
  <1>13. \A v, w \in Threads :
          /\ Held(v)' \cap ToFind(w)' = {}
          /\ v # w => Held(v)' \cap Held(w)' = {} /\ ToFind(v)' \cap ToFind(w)' = {}
    BY <1>4, <1>5 DEF OwnerInv
  <1> QED BY <1>10, <1>11, <1>12, <1>13 DEF OwnerInv

\* free() puts the unit that its caller holds on the free list.
LEMMA OwnersFreed ==
  ASSUME TypeOK, LibType, LibInv, OwnerInv, NEW t \in Threads,
         FreeBuf(t, "undone") \/ FreeBuf(t, "free"), lib[t].buf # None
  PROVE  OwnerInv'
  <1> USE Names
  <1> DEFINE b == lib[t].buf
  <1>1. /\ UNCHANGED <<th, mapped, thread_stacks>> /\ heap' = heap \cup {b} /\ Return(t)
        /\ lib[t].at \in {"undone", "free"}
    BY DEF FreeBuf, At
  <1>2. lib[t].at = "free"
    BY <1>1 DEF LibInv, Holding, Adding
  <1>3. b \in Held(t)
    BY <1>2, HeldIs DEF Holding
  <1>4. /\ b \in mapped \ heap /\ \A v \in Stacked : th[v].ustack # b
        /\ \A v \in Threads \ {t} : b \notin Held(v) /\ b \notin ToFind(v)
    BY <1>3 DEF OwnerInv
  <1>5. Stacked' = Stacked
    BY <1>1 DEF Stacked
  <1>6. lib'[t].at = "user" /\ \A u \in Threads \ {t} : lib'[u] = lib[u]
    BY <1>1, ReturnIs
  <1>7. \A v \in Threads \ {t} : Held(v)' = Held(v) /\ ToFind(v)' = ToFind(v)
    BY <1>1, <1>6 DEF Held, ToFind
  <1>8. Held(t)' = {} /\ ToFind(t)' = {}
    BY <1>6 DEF Held, ToFind, Holding
  <1> HIDE DEF b
  <1>9. \A x \in Stacked' : /\ th'[x].ustack \in mapped' \ heap'
                            /\ \A v \in Threads : th'[x].ustack \notin ToFind(v)' \cup Held(v)'
    BY <1>1, <1>4, <1>5, <1>7, <1>8 DEF OwnerInv
  <1>10. \A v \in Threads : ToFind(v)' \cup Held(v)' \subseteq mapped' \ heap'
    BY <1>1, <1>4, <1>7, <1>8 DEF OwnerInv
  <1>11. /\ \A u, v \in Stacked' : th'[u].ustack = th'[v].ustack => u = v
         /\ heap' \subseteq mapped'
    BY <1>1, <1>4, <1>5 DEF OwnerInv
  <1>12. \A v, w \in Threads :
          /\ Held(v)' \cap ToFind(w)' = {}
          /\ v # w => Held(v)' \cap Held(w)' = {} /\ ToFind(v)' \cap ToFind(w)' = {}
    BY <1>7, <1>8 DEF OwnerInv
  <1> QED BY <1>9, <1>10, <1>11, <1>12 DEF OwnerInv

\* A unit has one owner as long as one thread at a time is in the table.
LEMMA OwnerStep ==
  ASSUME TypeOK, LibType, SizeInv, LibInv, StackInv, TableInv, OwnerInv, [Next]_vars,
         "table" \notin mishaps'
  PROVE  OwnerInv'
  <1> USE Names
  <1>a. /\ \A t \in Alive : t \in Threads /\ th[t].state = "live"
        /\ \A u \in Stacked : u \in Threads /\ u \in Workers /\ th[u].state \in {"live", "zombie"}
        /\ \A i \in Entries : thread_stacks[i].pid \in Workers \cup {None}
    BY DEF Alive, Stacked, TypeOK
  <1>c. thread_stacks \in [Entries -> [pid : Workers \cup {None}, stack : Units \cup {None}]]
    BY DEF TypeOK
  <1>1. ASSUME NEW t \in Threads,
               \/ Create(t) \/ Join(t) \/ CloneRefused(t) \/ NothingToJoin(t)
               \/ Acquire(t, "create", "malloc") \/ Acquire(t, "undo", "undone")
               \/ Acquire(t, "giveback", "free")
               \/ ForkCopy(t) \/ ForkSize(t) \/ Sbrk(t) \/ Kill(t)
        PROVE  OwnerInv'
    BY <1>1, TableStillAre
  <1>2. ASSUME NEW t \in Threads, Malloc(t)
        PROVE  OwnerInv'
    <2>1. /\ lib[t].at = "malloc" /\ lib'[t].at = "clone" /\ thread_stacks' = thread_stacks
          /\ \A u \in Threads \ {t} : lib'[u] = lib[u]
      BY <1>2, MallocIs
    <2>2. \A v \in Threads \ {t} : Held(v)' = Held(v) /\ ToFind(v)' = ToFind(v)
      BY <2>1 DEF Held, ToFind
    <2>3. ToFind(t)' = {} /\ Held(t)' \subseteq {lib'[t].buf}
      BY <2>1 DEF Held, ToFind
    <2>4. CASE \E b \in heap : /\ lib'[t].buf = b /\ heap' = heap \ {b}
                               /\ UNCHANGED <<th, mapped>>
      <3>1. PICK b \in heap : /\ lib'[t].buf = b /\ heap' = heap \ {b}
                              /\ UNCHANGED <<th, mapped>>
        BY <2>4
      <3>2. Stacked' = Stacked
        BY <3>1 DEF Stacked
      <3>3. /\ b \in mapped /\ \A u \in Stacked : th[u].ustack # b
            /\ \A v \in Threads : b \notin Held(v) /\ b \notin ToFind(v)
        BY <3>1 DEF OwnerInv
      <3> QED BY <2>2, <2>3, <3>1, <3>2, <3>3, OwnersMoved
    <2>5. CASE GrowBy1(t) /\ lib'[t].buf = th[t].sz + 1 /\ heap' = heap
      <3> DEFINE b == th[t].sz + 1
      <3>1. t \in Alive
        BY <1>2, MallocIs
      <3>2. /\ SameThreads /\ b \notin mapped /\ b \in mapped' /\ mapped \subseteq mapped'
        BY <2>5, <3>1, GrowIs DEF SameThreads
      <3>3. Stacked' = Stacked /\ \A u \in Stacked : th'[u].ustack = th[u].ustack
        BY <3>2 DEF Stacked, SameThreads
      <3>4. lib'[t].buf = b
        BY <2>5
      <3> HIDE DEF b
      <3>5. /\ b \notin heap /\ \A u \in Stacked : th[u].ustack # b
            /\ \A v \in Threads : b \notin Held(v) /\ b \notin ToFind(v)
        BY <3>2 DEF OwnerInv
      <3> QED BY <2>2, <2>3, <2>5, <3>2, <3>3, <3>4, <3>5, OwnersMoved
    <2>6. CASE lib'[t].buf = lib[t].buf /\ UNCHANGED <<th, mapped, heap>>
      BY <1>2, <2>6, TableStillAre
    <2> QED BY <1>2, <2>4, <2>5, <2>6, MallocIs
  <1>3. ASSUME NEW t \in Threads, FreeBuf(t, "undone") \/ FreeBuf(t, "free")
        PROVE  OwnerInv'
    BY <1>3, TableStillAre, OwnersFreed
  <1>4. ASSUME NEW t \in Threads, Clone(t)
        PROVE  OwnerInv'
    BY <1>4, OwnersCloned
  <1>5. ASSUME NEW t \in Threads, Find(t)
        PROVE  OwnerInv'
    <2>1. /\ UNCHANGED <<th, mapped, heap, thread_stacks>>
          /\ \A u \in Threads \ {t} : lib'[u] = lib[u]
          /\ lib'[t].at \in {"setpid", "user"}
      BY <1>5, FindIs
    <2>2. \A v \in Threads \ {t} : Held(v)' = Held(v) /\ ToFind(v)' = ToFind(v)
      BY <2>1 DEF Held, ToFind
    <2>3. ToFind(t)' = {} /\ Held(t)' = {}
      BY <2>1 DEF Held, ToFind, Holding
    <2>4. Stacked' = Stacked
      BY <2>1 DEF Stacked
    <2> QED BY <2>1, <2>2, <2>3, <2>4, OwnersKept
  <1>6. ASSUME NEW t \in Threads, SetPid(t)
        PROVE  OwnerInv'
    <2>1. /\ lib[t].at = "setpid" /\ UNCHANGED <<th, heap, mapped>> /\ lib[t].slot \in Entries
          /\ thread_stacks' = [thread_stacks EXCEPT ![lib[t].slot].pid = lib[t].kid]
      BY <1>6 DEF SetPid, At, kernel, LibInv
    <2>2. \A u \in Threads : /\ lib'[u].at = IF u = t THEN "setstack" ELSE lib[u].at
                             /\ lib'[u].buf = lib[u].buf /\ lib'[u].kid = lib[u].kid
      BY <1>6, GotoIs DEF SetPid, Pcs
    <2>3. \A i \in Entries : /\ thread_stacks'[i].pid = IF i = lib[t].slot THEN lib[t].kid
                                                        ELSE thread_stacks[i].pid
                             /\ thread_stacks'[i].stack = thread_stacks[i].stack
      BY <1>c, <2>1
    <2>4. \A v \in Threads : lib[v].at = "extract" => lib[v].kid # lib[t].kid
      BY <1>a, <2>1 DEF LibInv, Adding
    <2>5. \A v \in Threads : Held(v)' \subseteq Held(v) /\ ToFind(v)' \subseteq ToFind(v)
      BY <2>2, <2>3, <2>4 DEF Held, ToFind, Holding
    <2>6. Stacked' = Stacked
      BY <2>1 DEF Stacked
    <2> QED BY <2>1, <2>5, <2>6, OwnersKept
  <1>7. ASSUME NEW t \in Threads, SetStack(t)
        PROVE  OwnerInv'
    <2>1. /\ t \in Alive /\ lib[t].at = "setstack" /\ UNCHANGED <<th, heap, mapped>>
          /\ lib[t].slot \in Entries
          /\ thread_stacks' = [thread_stacks EXCEPT ![lib[t].slot].stack = lib[t].buf]
      BY <1>7 DEF SetStack, At, kernel, LibInv
    <2>2. lib'[t].at = "user" /\ \A u \in Threads \ {t} : lib'[u] = lib[u]
      BY <1>7, ReturnIs DEF SetStack
    <2>3. \A i \in Entries : /\ thread_stacks'[i].pid = thread_stacks[i].pid
                             /\ i # lib[t].slot => thread_stacks'[i].stack = thread_stacks[i].stack
      BY <1>c, <2>1
    <2>4. thread_stacks[lib[t].slot].pid = lib[t].kid /\ lib[t].kid \in Stacked
      <3>1. t \in Writing
        BY <2>1 DEF Writing
      <3> QED BY <2>1, <3>1 DEF TableInv, LibInv, Adding
    <2>5. \A v \in Threads : lib[v].at = "extract" => lib[v].kid # lib[t].kid
      BY <1>a, <2>4 DEF LibInv
    <2>6. \A v \in Threads \ {t} : Held(v)' = Held(v)
      BY <2>2 DEF Held
    <2>7. \A v \in Threads \ {t} : ToFind(v)' \subseteq ToFind(v)
      BY <2>2, <2>3, <2>4, <2>5 DEF ToFind
    <2>8. ToFind(t)' = {} /\ Held(t)' = {}
      BY <2>2 DEF Held, ToFind, Holding
    <2>9. Stacked' = Stacked
      BY <2>1 DEF Stacked
    <2> QED BY <2>1, <2>6, <2>7, <2>8, <2>9, OwnersKept
  <1>8. ASSUME NEW t \in Threads, Joined(t)
        PROVE  OwnerInv'
    <2>1. lib[t].at = "join" /\ UNCHANGED <<mapped, heap, thread_stacks>>
      BY <1>8, JoinedIs
    <2>2. PICK u \in Workers :
              /\ th[u].state = "zombie" /\ th[u].parent = t /\ th'[u].state = "reaped"
              /\ \A v \in Threads \ {u} : th'[v] = th[v]
              /\ lib'[t].at = "extract" /\ lib'[t].kid = u
              /\ \A v \in Threads \ {t} : lib'[v] = lib[v]
      BY <1>8, JoinedIs
    <2>3. Stacked' = Stacked \ {u} /\ u \in Stacked
      BY <2>2 DEF Stacked
    <2> DEFINE b == th[u].ustack
    <2>4. \A i \in Entries : thread_stacks[i].pid = u => thread_stacks[i].stack = b
      BY <2>1, <2>2, <2>3 DEF TableInv
    <2>5. \A v \in Threads \ {t} : Held(v)' = Held(v) /\ ToFind(v)' = ToFind(v)
      BY <2>1, <2>2 DEF Held, ToFind
    <2>6. Held(t)' = {} /\ ToFind(t)' \subseteq {b}
      BY <2>1, <2>2, <2>4 DEF Held, ToFind, Holding
    <2>7. /\ b \in mapped \ heap
          /\ \A v \in Stacked \ {u} : th[v].ustack # b
          /\ \A v \in Threads : b \notin Held(v) /\ b \notin ToFind(v)
      BY <2>3 DEF OwnerInv
    <2> HIDE DEF b
    <2>8. \A v \in Stacked' : th'[v].ustack = th[v].ustack /\ th[v].ustack # b
      BY <1>a, <2>2, <2>3, <2>7
    <2> QED BY <2>1, <2>3, <2>5, <2>6, <2>7, <2>8, OwnersMoved
  <1>9. ASSUME NEW t \in Threads, Extract(t)
        PROVE  OwnerInv'
    <2>1. /\ lib[t].at = "extract" /\ UNCHANGED <<th, mapped, heap, thread_stacks>>
          /\ \A u \in Threads \ {t} : lib'[u] = lib[u]
      BY <1>9, ExtractIs
    <2>2. Stacked' = Stacked
      BY <2>1 DEF Stacked
    <2>3. \A v \in Threads \ {t} : Held(v)' = Held(v) /\ ToFind(v)' = ToFind(v)
      BY <2>1 DEF Held, ToFind
    <2>4. CASE lib'[t].at = "giveback" /\ lib'[t].buf = None
      <3>1. ToFind(t)' = {} /\ Held(t)' = {}
        BY <2>4 DEF Held, ToFind
      <3> QED BY <2>1, <2>2, <2>3, <3>1, OwnersKept
    <2>5. ASSUME NEW s \in Entries, thread_stacks[s].pid = lib[t].kid,
                 lib'[t].at = "clearpid", lib'[t].buf = thread_stacks[s].stack
          PROVE  OwnerInv'
      <3> DEFINE b == thread_stacks[s].stack
      <3>1. b \in ToFind(t)
        BY <2>1, <2>5, HeldIs
      <3>2. ToFind(t)' = {} /\ Held(t)' \subseteq {b}
        BY <2>5 DEF Held, ToFind
      <3>3. /\ b \in mapped \ heap
            /\ \A u \in Stacked : th[u].ustack # b
            /\ \A v \in Threads \ {t} : b \notin Held(v) /\ b \notin ToFind(v)
        BY <3>1 DEF OwnerInv
      <3> HIDE DEF b
      <3> QED BY <2>1, <2>2, <2>3, <3>2, <3>3, OwnersMoved
    <2> QED BY <1>9, <2>4, <2>5, ExtractIs
  <1>10. ASSUME NEW t \in Threads, ClearPid(t)
         PROVE  OwnerInv'
    <2>1. /\ lib[t].at = "clearpid" /\ UNCHANGED <<th, heap, mapped>> /\ lib[t].slot \in Entries
          /\ thread_stacks' = [thread_stacks EXCEPT ![lib[t].slot].pid = None]
      BY <1>10 DEF ClearPid, At, kernel, LibInv
    <2>2. \A u \in Threads : /\ lib'[u].at = IF u = t THEN "clearstack" ELSE lib[u].at
                             /\ lib'[u].buf = lib[u].buf /\ lib'[u].kid = lib[u].kid
      BY <1>10, GotoIs DEF ClearPid, Pcs
    <2>3. \A i \in Entries : /\ thread_stacks'[i].pid = IF i = lib[t].slot THEN None
                                                        ELSE thread_stacks[i].pid
                             /\ thread_stacks'[i].stack = thread_stacks[i].stack
      BY <1>c, <2>1
    <2>4. \A v \in Threads : lib[v].at = "extract" => lib[v].kid # None
      BY DEF LibInv
    <2>5. \A v \in Threads : Held(v)' \subseteq Held(v)
      BY <2>1, <2>2 DEF Held, Holding
    <2>7. \A v \in Threads : ToFind(v)' \subseteq ToFind(v)
      BY <2>1, <2>2, <2>3, <2>4 DEF ToFind
    <2>6. Stacked' = Stacked
      BY <2>1 DEF Stacked
    <2> QED BY <2>1, <2>5, <2>6, <2>7, OwnersKept
  <1>11. ASSUME NEW t \in Threads, ClearStack(t)
         PROVE  OwnerInv'
    <2>1. /\ t \in Alive /\ lib[t].at = "clearstack" /\ UNCHANGED <<th, mapped, heap>>
          /\ lib[t].slot \in Entries
          /\ thread_stacks' = [thread_stacks EXCEPT ![lib[t].slot].stack = None]
          /\ lib'[t].at = "giveback" /\ lib'[t].buf = lib[t].buf
          /\ \A u \in Threads \ {t} : lib'[u] = lib[u]
      BY <1>11, ClearStackIs DEF LibInv
    <2>2. \A i \in Entries : /\ thread_stacks'[i].pid = thread_stacks[i].pid
                             /\ i # lib[t].slot => thread_stacks'[i].stack = thread_stacks[i].stack
      BY <1>c, <2>1
    <2>3. thread_stacks[lib[t].slot].pid = None
      <3>1. t \in Writing
        BY <2>1 DEF Writing
      <3> QED BY <2>1, <3>1 DEF TableInv
    <2>4. \A v \in Threads : lib[v].at = "extract" => lib[v].kid # None
      BY DEF LibInv
    <2>5. \A v \in Threads \ {t} : Held(v)' = Held(v)
      BY <2>1 DEF Held
    <2>6. \A v \in Threads \ {t} : ToFind(v)' \subseteq ToFind(v)
      BY <2>1, <2>2, <2>3, <2>4 DEF ToFind
    <2>7. ToFind(t)' = {} /\ Held(t)' \subseteq Held(t)
      BY <2>1 DEF Held, ToFind, Holding
    <2>8. Stacked' = Stacked
      BY <2>1 DEF Stacked
    <2> QED BY <2>1, <2>5, <2>6, <2>7, <2>8, OwnersKept
  <1>12. ASSUME NEW t \in Threads, Exit(t) \/ Die(t)
         PROVE  OwnerInv'
    <2>1. t \in Alive /\ UNCHANGED <<thread_stacks, heap, mapped>>
      BY <1>12 DEF Exit, Die, At
    <2>2. \A u \in Threads : /\ th'[u].state = IF u = t THEN "zombie" ELSE th[u].state
                             /\ th'[u].ustack = th[u].ustack
      BY <1>12, ExitedIs DEF Exit, Die
    <2>3. /\ lib'[t].at = "user"
          /\ \A u \in Threads \ {t} : lib'[u] = lib[u]
      BY <1>12, ReturnIs DEF Exit, Die, At
    <2>4. Stacked' = Stacked
      BY <1>a, <2>1, <2>2 DEF Stacked
    <2>5. \A v \in Threads \ {t} : Held(v)' = Held(v) /\ ToFind(v)' = ToFind(v)
      BY <2>1, <2>3 DEF Held, ToFind
    <2>6. Held(t)' = {} /\ ToFind(t)' = {}
      BY <2>3 DEF Held, ToFind, Holding
    <2> QED BY <1>a, <2>1, <2>2, <2>4, <2>5, <2>6, OwnersKept
  <1>13. ASSUME NEW t \in Threads, InitReaps(t)
         PROVE  OwnerInv'
    <2>1. UNCHANGED <<lib, thread_stacks, heap, mapped>>
      BY <1>13 DEF InitReaps
    <2>2. \A u \in Threads : th'[u].state = IF u = t THEN "reaped" ELSE th[u].state
      BY <1>13, InitReaped
    <2>3. \A u \in Threads \ {t} : th'[u].ustack = th[u].ustack
      BY <1>13, InitReaped
    <2>4. Stacked' \subseteq Stacked \ {t}
      BY <2>2 DEF Stacked
    <2>5. \A v \in Threads : Held(v)' = Held(v) /\ ToFind(v)' = ToFind(v)
      BY <2>1 DEF Held, ToFind
    <2> QED BY <1>a, <2>1, <2>3, <2>4, <2>5, OwnersKept
  <1>14. CASE ChildGone \/ UNCHANGED vars
    <2>1. UNCHANGED <<th, lib, thread_stacks, heap, mapped>>
      BY <1>14 DEF ChildGone, vars
    <2>2. \A v \in Threads : Held(v)' = Held(v) /\ ToFind(v)' = ToFind(v)
      BY <2>1 DEF Held, ToFind
    <2>3. Stacked' = Stacked
      BY <2>1 DEF Stacked
    <2> QED BY <2>1, <2>2, <2>3, OwnersKept
  <1> QED
    BY <1>1, <1>2, <1>3, <1>4, <1>5, <1>6, <1>7, <1>8, <1>9, <1>10, <1>11, <1>12, <1>13,
       <1>14, StepsAre

-----------------------------------------------------------------------------
\* A step that takes no thread and no entry away, and after which who holds a
\* buffer has one.
LEMMA FoundStill ==
  ASSUME TypeOK, FoundInv, SameThreads, SamePids,
         \A u \in Threads :
           \/ lib'[u] = lib[u]
           \/ /\ lib[u].at \notin {"find", "setpid"}
              /\ lib'[u].at \notin {"undo", "undone", "faulted", "extract"}
              /\ lib'[u].at \in Holding => lib'[u].buf # None
  PROVE  FoundInv'
  <1>1. Stacked' = Stacked /\ \A u \in Stacked : u \in Threads
    BY Names DEF SameThreads, Stacked
  <1>2. /\ \A t \in Threads : lib'[t].at \notin {"undo", "undone", "faulted"}
        /\ \A t \in Threads : lib'[t].at \in Holding => lib'[t].buf # None
    BY DEF FoundInv
  <1>3. \A t \in Threads : lib'[t].at = "extract" =>
          \E i \in Entries : thread_stacks'[i].pid = lib'[t].kid
    BY DEF FoundInv, SamePids
  <1>4. ASSUME NEW u \in Stacked', th'[u].parent \in Threads
        PROVE  \/ lib'[th'[u].parent].at \in {"find", "setpid"} /\ lib'[th'[u].parent].kid = u
               \/ \E i \in Entries : thread_stacks'[i].pid = u
    <2>1. u \in Stacked /\ th'[u].parent = th[u].parent
      BY <1>1, <1>4 DEF SameThreads
    <2>2. CASE lib[th[u].parent].at \in {"find", "setpid"} /\ lib[th[u].parent].kid = u
      BY <1>4, <2>1, <2>2
    <2>3. CASE \E i \in Entries : thread_stacks[i].pid = u
      BY <2>3 DEF SamePids
    <2> QED BY <1>4, <2>1, <2>2, <2>3 DEF FoundInv
  <1> QED BY <1>2, <1>3, <1>4 DEF FoundInv

\* What went wrong is not forgotten.
LEMMA MishapsStay ==
  ASSUME TypeOK, LibType, [Next]_vars
  PROVE  mishaps \subseteq mishaps'
  <1>1. ASSUME NEW t \in Threads,
               \/ Create(t) \/ Join(t) \/ CloneRefused(t) \/ NothingToJoin(t)
               \/ Acquire(t, "create", "malloc") \/ Acquire(t, "undo", "undone")
               \/ Acquire(t, "giveback", "free") \/ Clone(t)
               \/ FreeBuf(t, "undone") \/ FreeBuf(t, "free") \/ SetPid(t) \/ SetStack(t)
               \/ Joined(t) \/ ClearPid(t) \/ ClearStack(t)
               \/ ForkCopy(t) \/ ForkSize(t) \/ Exit(t) \/ Kill(t) \/ Die(t) \/ InitReaps(t)
        PROVE  mishaps' = mishaps
    BY <1>1 DEF Create, Join, CloneRefused, NothingToJoin, Acquire, Clone, FreeBuf, SetPid,
                SetStack, Joined, ClearPid, ClearStack, ForkCopy, ForkSize, Exit, Kill, Die,
                InitReaps
  <1>2. ASSUME NEW t \in Threads, Malloc(t) \/ Sbrk(t)
        PROVE  mishaps \subseteq mishaps'
    BY <1>2 DEF Malloc, Sbrk
  <1>3. ASSUME NEW t \in Threads, Find(t) \/ Extract(t)
        PROVE  mishaps \subseteq mishaps'
    BY <1>3 DEF Find, Extract, ExtractIn
  <1>4. ASSUME ChildGone \/ UNCHANGED vars
        PROVE  mishaps' = mishaps
    BY <1>4 DEF ChildGone, vars
  <1> QED BY <1>1, <1>2, <1>3, <1>4, StepsAre

\* The join of a thread finds its entry.
LEMMA FoundStep ==
  ASSUME TypeOK, LibType, SizeInv, LibInv, StackInv, TableInv, OwnerInv, FoundInv, [Next]_vars,
         mishaps' \cap {"memory", "table", "full"} = {}
  PROVE  FoundInv'
  <1> USE Names
  <1>a. /\ \A t \in Alive : t \in Threads /\ th[t].state = "live"
        /\ \A u \in Stacked : u \in Threads /\ u \in Workers /\ th[u].state \in {"live", "zombie"}
        /\ \A i \in Entries : thread_stacks[i].pid \in Workers \cup {None}
    BY DEF Alive, Stacked, TypeOK
  <1>b. /\ \A t \in Threads : lib[t].at \notin {"undo", "undone", "faulted"}
        /\ \A t \in Threads : lib[t].at \in Holding => lib[t].buf # None
        /\ \A t \in Threads : lib[t].at = "extract" =>
             \E i \in Entries : thread_stacks[i].pid = lib[t].kid
        /\ \A u \in Stacked : th[u].parent \in Threads =>
             \/ lib[th[u].parent].at \in {"find", "setpid"} /\ lib[th[u].parent].kid = u
             \/ \E i \in Entries : thread_stacks[i].pid = u
    BY DEF FoundInv
  <1>c. thread_stacks \in [Entries -> [pid : Workers \cup {None}, stack : Units \cup {None}]]
    BY DEF TypeOK
  <1>1. ASSUME NEW t \in Threads,
               \/ Create(t) \/ Join(t) \/ CloneRefused(t) \/ ForkCopy(t)
               \/ Acquire(t, "create", "malloc") \/ Acquire(t, "undo", "undone")
               \/ Acquire(t, "giveback", "free")
        PROVE  FoundInv'
    <2>1. SameThreads /\ SamePids
      BY <1>1, StillAre
    <2>2. t \in Alive /\ ~CloneRefused(t) /\ ~Acquire(t, "undo", "undone")
      BY <1>1, <1>b DEF Create, Join, CloneRefused, ForkCopy, Acquire, Calling, At, Holding
    <2>3. \E c \in Pcs : /\ Goto(t, c) /\ c \notin {"undo", "undone", "faulted", "extract"}
                         /\ c \in Holding => lib[t].buf # None
                         /\ lib[t].at \notin {"find", "setpid"}
      BY <1>1, <1>b, <2>2 DEF Create, Join, ForkCopy, Acquire, Calling, At, Pcs, Holding
    <2>4. PICK c \in Pcs : /\ Goto(t, c) /\ c \notin {"undo", "undone", "faulted", "extract"}
                           /\ c \in Holding => lib[t].buf # None
                           /\ lib[t].at \notin {"find", "setpid"}
      BY <2>3
    <2>5. lib'[t].at = c /\ lib'[t].buf = lib[t].buf /\ \A u \in Threads \ {t} : lib'[u] = lib[u]
      BY <2>4 DEF Goto, LibType
    <2> QED BY <2>1, <2>4, <2>5, FoundStill
  <1>2. ASSUME NEW t \in Threads, NothingToJoin(t) \/ ForkSize(t) \/ SetStack(t)
        PROVE  FoundInv'
    <2>1. SameThreads /\ SamePids
      BY <1>2, StillAre
    <2>2. Return(t) /\ lib[t].at \notin {"find", "setpid"}
      BY <1>2 DEF NothingToJoin, ForkSize, SetStack, At
    <2>3. lib'[t].at = "user" /\ \A u \in Threads \ {t} : lib'[u] = lib[u]
      BY <2>2, ReturnIs
    <2> QED BY <2>1, <2>2, <2>3, FoundStill DEF Holding
  <1>3. ASSUME NEW t \in Threads, ClearStack(t)
        PROVE  FoundInv'
    <2>1. SameThreads /\ SamePids
      BY <1>3, StillAre
    <2>2. /\ lib[t].at = "clearstack" /\ lib'[t].at = "giveback" /\ lib'[t].buf = lib[t].buf
          /\ \A v \in Threads \ {t} : lib'[v] = lib[v]
      BY <1>3, ClearStackIs
    <2>3. lib'[t].buf # None
      BY <1>b, <2>2 DEF Holding
    <2> QED BY <2>1, <2>2, <2>3, FoundStill
  <1>4. ASSUME NEW t \in Threads, Malloc(t)
        PROVE  FoundInv'
    <2>1. SameThreads /\ SamePids
      BY <1>4, StillAre
    <2>2. /\ t \in Alive /\ lib[t].at = "malloc" /\ lib'[t].at = "clone"
          /\ \A u \in Threads \ {t} : lib'[u] = lib[u]
      BY <1>4, MallocIs
    <2>3. lib'[t].buf \in Units
      <3>1. CASE lib'[t].buf \in heap
        BY <3>1 DEF TypeOK
      <3>2. CASE GrowBy1(t) /\ lib'[t].buf = th[t].sz + 1
        BY <2>2, <3>2, GrowIs
      <3>3. mishaps' # mishaps \cup {"memory"}
        OBVIOUS
      <3> QED BY <1>4, <3>1, <3>2, <3>3, MallocIs
    <2> QED BY <2>1, <2>2, <2>3, FoundStill
  <1>5. ASSUME NEW t \in Threads, FreeBuf(t, "undone") \/ FreeBuf(t, "free")
        PROVE  FoundInv'
    <2>1. SameThreads /\ SamePids
      BY <1>5, StillAre
    <2>2. lib[t].at = "free"
      BY <1>5, <1>b DEF FreeBuf, At
    <2>3. Return(t)
      BY <1>5, <1>b, <2>2 DEF FreeBuf, At, Holding
    <2>4. lib'[t].at = "user" /\ \A u \in Threads \ {t} : lib'[u] = lib[u]
      BY <2>3, ReturnIs
    <2> QED BY <2>1, <2>2, <2>4, FoundStill DEF Holding
  <1>6. ASSUME NEW t \in Threads, Sbrk(t) \/ Kill(t)
        PROVE  FoundInv'
    <2>1. SameThreads /\ SamePids
      BY <1>6, StillAre
    <2>2. lib' = lib
      BY <1>6 DEF Sbrk, Kill
    <2> QED BY <2>1, <2>2, FoundStill
  <1>7. ASSUME NEW t \in Threads, Clone(t)
        PROVE  FoundInv'
    <2>1. lib[t].at = "clone" /\ thread_stacks' = thread_stacks
      BY <1>7, CloneIs
    <2>2. PICK u \in Workers :
              /\ th[u].state = "unborn"
              /\ lib'[t].at = "find" /\ lib'[t].kid = u
              /\ \A v \in Threads \ {t} : lib'[v] = lib[v]
              /\ th'[u].state = "live" /\ th'[u].parent = t
              /\ \A v \in Threads \ {u} : th'[v] = th[v]
      BY <1>7, CloneIs
    <2>3. Stacked' = Stacked \cup {u} /\ \A v \in Stacked : th'[v] = th[v]
      BY <2>2 DEF Stacked
    <2>4. ASSUME NEW v \in Stacked', th'[v].parent \in Threads
          PROVE  \/ lib'[th'[v].parent].at \in {"find", "setpid"} /\ lib'[th'[v].parent].kid = v
                 \/ \E i \in Entries : thread_stacks'[i].pid = v
      <3>1. CASE v = u
        BY <2>2, <3>1
      <3>2. CASE v \in Stacked
        <4>1. th'[v] = th[v]
          BY <2>3, <3>2
        <4>2. CASE \E i \in Entries : thread_stacks[i].pid = v
          BY <2>1, <4>2
        <4>3. CASE lib[th[v].parent].at \in {"find", "setpid"} /\ lib[th[v].parent].kid = v
          BY <2>1, <2>2, <2>4, <4>1, <4>3
        <4> QED BY <1>b, <2>4, <3>2, <4>1, <4>2, <4>3
      <3> QED BY <2>3, <3>1, <3>2
    <2>5. /\ \A v \in Threads : lib'[v].at \notin {"undo", "undone", "faulted"}
          /\ \A v \in Threads : lib'[v].at \in Holding => lib'[v].buf # None
          /\ \A v \in Threads : lib'[v].at = "extract" =>
               \E i \in Entries : thread_stacks'[i].pid = lib'[v].kid
      BY <1>b, <2>1, <2>2 DEF Holding
    <2> QED BY <2>4, <2>5 DEF FoundInv
  <1>8. ASSUME NEW t \in Threads, Find(t)
        PROVE  FoundInv'
    <2>1. /\ lib[t].at = "find" /\ UNCHANGED <<th, thread_stacks>>
          /\ \A u \in Threads \ {t} : lib'[u] = lib[u]
      BY <1>8, FindIs
    <2>2. mishaps' # mishaps \cup {"full"}
      OBVIOUS
    <2>3. lib'[t].at = "setpid" /\ lib'[t].kid = lib[t].kid
      BY <1>8, <2>2, FindIs
    <2>4. Stacked' = Stacked
      BY <2>1 DEF Stacked
    <2> QED BY <1>b, <2>1, <2>3, <2>4 DEF FoundInv, Holding
  <1>9. ASSUME NEW t \in Threads, SetPid(t)
        PROVE  FoundInv'
    <2>1. /\ t \in Alive /\ lib[t].at = "setpid" /\ th' = th /\ lib[t].slot \in Entries
          /\ thread_stacks' = [thread_stacks EXCEPT ![lib[t].slot].pid = lib[t].kid]
      BY <1>9 DEF SetPid, At, kernel, LibInv
    <2>2. \A u \in Threads : /\ lib'[u].at = IF u = t THEN "setstack" ELSE lib[u].at
                             /\ lib'[u].buf = lib[u].buf /\ lib'[u].kid = lib[u].kid
      BY <1>9, GotoIs DEF SetPid, Pcs
    <2>3. \A i \in Entries : thread_stacks'[i].pid = IF i = lib[t].slot THEN lib[t].kid
                                                     ELSE thread_stacks[i].pid
      BY <1>c, <2>1
    <2>4. thread_stacks[lib[t].slot].pid = None
      <3>1. t \in Writing
        BY <2>1 DEF Writing
      <3> QED BY <2>1, <3>1 DEF TableInv
    <2>5. \A u \in Workers : (\E i \in Entries : thread_stacks[i].pid = u) =>
                             \E i \in Entries : thread_stacks'[i].pid = u
      BY <2>3, <2>4
    <2>6. Stacked' = Stacked
      BY <2>1 DEF Stacked
    <2>7. ASSUME NEW v \in Stacked', th'[v].parent \in Threads
          PROVE  \/ lib'[th'[v].parent].at \in {"find", "setpid"} /\ lib'[th'[v].parent].kid = v
                 \/ \E i \in Entries : thread_stacks'[i].pid = v
      <3>1. CASE \E i \in Entries : thread_stacks[i].pid = v
        BY <1>a, <2>5, <2>6, <3>1
      <3>2. CASE lib[th[v].parent].at \in {"find", "setpid"} /\ lib[th[v].parent].kid = v
        <4>1. CASE th[v].parent = t
          BY <2>1, <2>3, <3>2, <4>1
        <4>2. CASE th[v].parent # t
          BY <2>1, <2>2, <2>7, <3>2, <4>2
        <4> QED BY <4>1, <4>2
      <3> QED BY <1>b, <2>1, <2>6, <2>7, <3>1, <3>2
    <2>8. /\ \A v \in Threads : lib'[v].at \notin {"undo", "undone", "faulted"}
          /\ \A v \in Threads : lib'[v].at \in Holding => lib'[v].buf # None
      BY <1>b, <2>2 DEF Holding
    <2>9. \A v \in Threads : lib'[v].at = "extract" =>
               \E i \in Entries : thread_stacks'[i].pid = lib'[v].kid
      BY <1>b, <2>2, <2>5 DEF LibInv
    <2> QED BY <2>7, <2>8, <2>9 DEF FoundInv
  <1>10. ASSUME NEW t \in Threads, Joined(t)
         PROVE  FoundInv'
    <2>1. lib[t].at = "join" /\ thread_stacks' = thread_stacks
      BY <1>10, JoinedIs
    <2>2. PICK u \in Workers :
              /\ th[u].state = "zombie" /\ th[u].parent = t /\ th'[u].state = "reaped"
              /\ \A v \in Threads \ {u} : th'[v] = th[v]
              /\ lib'[t].at = "extract" /\ lib'[t].kid = u
              /\ \A v \in Threads \ {t} : lib'[v] = lib[v]
      BY <1>10, JoinedIs
    <2>3. /\ Stacked' = Stacked \ {u} /\ u \in Stacked
          /\ \A v \in Stacked' : th'[v] = th[v] /\ v \in Stacked
      BY <2>2 DEF Stacked
    <2>4. \E i \in Entries : thread_stacks[i].pid = u
      BY <1>b, <2>1, <2>2, <2>3
    <2>5. ASSUME NEW v \in Stacked', th'[v].parent \in Threads
          PROVE  \/ lib'[th'[v].parent].at \in {"find", "setpid"} /\ lib'[th'[v].parent].kid = v
                 \/ \E i \in Entries : thread_stacks'[i].pid = v
      <3>1. v \in Stacked /\ th'[v] = th[v]
        BY <2>3
      <3>2. CASE \E i \in Entries : thread_stacks[i].pid = v
        BY <2>1, <3>2
      <3>3. CASE lib[th[v].parent].at \in {"find", "setpid"} /\ lib[th[v].parent].kid = v
        BY <2>1, <2>2, <2>5, <3>1, <3>3
      <3> QED BY <1>b, <2>5, <3>1, <3>2, <3>3
    <2>6. /\ \A v \in Threads : lib'[v].at \notin {"undo", "undone", "faulted"}
          /\ \A v \in Threads : lib'[v].at \in Holding => lib'[v].buf # None
      BY <1>b, <2>2 DEF Holding
    <2>7. \A v \in Threads : lib'[v].at = "extract" =>
               \E i \in Entries : thread_stacks'[i].pid = lib'[v].kid
      BY <1>b, <2>1, <2>2, <2>4
    <2> QED BY <2>5, <2>6, <2>7 DEF FoundInv
  <1>11. ASSUME NEW t \in Threads, Extract(t)
         PROVE  FoundInv'
    <2>1. /\ lib[t].at = "extract" /\ UNCHANGED <<th, thread_stacks>>
          /\ \A u \in Threads \ {t} : lib'[u] = lib[u]
      BY <1>11, ExtractIs
    <2>2. PICK s \in Entries :
            /\ thread_stacks[s].pid = lib[t].kid
            /\ lib'[t].at = "clearpid" /\ lib'[t].buf = thread_stacks[s].stack
      BY <1>11, <1>b, <2>1, ExtractIs
    <2>3. thread_stacks[s].stack \in ToFind(t)
      BY <2>1, <2>2, HeldIs
    <2>4. lib'[t].buf # None
      BY <2>2, <2>3 DEF OwnerInv, TypeOK
    <2> QED BY <2>1, <2>2, <2>4, FoundStill DEF SameThreads, SamePids
  <1>12. ASSUME NEW t \in Threads, ClearPid(t)
         PROVE  FoundInv'
    <2>1. /\ t \in Alive /\ lib[t].at = "clearpid" /\ th' = th /\ lib[t].slot \in Entries
          /\ thread_stacks' = [thread_stacks EXCEPT ![lib[t].slot].pid = None]
      BY <1>12 DEF ClearPid, At, kernel, LibInv
    <2>2. \A u \in Threads : /\ lib'[u].at = IF u = t THEN "clearstack" ELSE lib[u].at
                             /\ lib'[u].buf = lib[u].buf /\ lib'[u].kid = lib[u].kid
      BY <1>12, GotoIs DEF ClearPid, Pcs
    <2>3. \A i \in Entries : thread_stacks'[i].pid = IF i = lib[t].slot THEN None
                                                     ELSE thread_stacks[i].pid
      BY <1>c, <2>1
    <2>4. thread_stacks[lib[t].slot].pid = lib[t].kid
      <3>1. t \in Writing
        BY <2>1 DEF Writing
      <3> QED BY <2>1, <3>1 DEF TableInv
    <2>5. \A u \in Workers : u # lib[t].kid /\ (\E i \in Entries : thread_stacks[i].pid = u) =>
                             \E i \in Entries : thread_stacks'[i].pid = u
      BY <2>3, <2>4
    <2>6. Stacked' = Stacked /\ lib[t].kid \notin Stacked
      BY <2>1 DEF Stacked, LibInv
    <2>7. ASSUME NEW v \in Stacked', th'[v].parent \in Threads
          PROVE  \/ lib'[th'[v].parent].at \in {"find", "setpid"} /\ lib'[th'[v].parent].kid = v
                 \/ \E i \in Entries : thread_stacks'[i].pid = v
      <3>1. CASE \E i \in Entries : thread_stacks[i].pid = v
        BY <1>a, <2>5, <2>6, <3>1
      <3>2. CASE lib[th[v].parent].at \in {"find", "setpid"} /\ lib[th[v].parent].kid = v
        BY <2>1, <2>2, <2>7, <3>2
      <3> QED BY <1>b, <2>1, <2>6, <2>7, <3>1, <3>2
    <2>8. /\ \A v \in Threads : lib'[v].at \notin {"undo", "undone", "faulted"}
          /\ \A v \in Threads : lib'[v].at \in Holding => lib'[v].buf # None
      BY <1>b, <2>1, <2>2 DEF Holding
    <2>9. \A v \in Threads : lib'[v].at = "extract" =>
               \E i \in Entries : thread_stacks'[i].pid = lib'[v].kid
      <3> SUFFICES ASSUME NEW v \in Threads, lib'[v].at = "extract"
                   PROVE  \E i \in Entries : thread_stacks'[i].pid = lib'[v].kid
        OBVIOUS
      <3>1. v # t /\ lib[v].at = "extract" /\ lib'[v].kid = lib[v].kid
        BY <2>2
      <3>2. lib[v].kid # lib[t].kid /\ lib[v].kid \in Workers
        BY <2>1, <3>1 DEF LibInv
      <3> QED BY <1>b, <2>5, <3>1, <3>2
    <2> QED BY <2>7, <2>8, <2>9 DEF FoundInv
  <1>13. ASSUME NEW t \in Threads, Exit(t) \/ Die(t)
         PROVE  FoundInv'
    <2>1. t \in Alive /\ thread_stacks' = thread_stacks
      BY <1>13 DEF Exit, Die, At
    <2>2. \A u \in Threads :
              /\ th'[u].state = IF u = t THEN "zombie" ELSE th[u].state
              /\ th'[u].parent = IF u # t /\ u \in Workers /\ th[u].parent = t THEN Init_
                                 ELSE th[u].parent
      BY <1>13, ExitedIs DEF Exit, Die
    <2>3. /\ lib'[t].at = "user"
          /\ \A u \in Threads \ {t} : lib'[u] = lib[u]
      BY <1>13, ReturnIs DEF Exit, Die, At
    <2>4. Stacked' = Stacked
      BY <1>a, <2>1, <2>2 DEF Stacked
    <2>5. ASSUME NEW v \in Stacked', th'[v].parent \in Threads
          PROVE  \/ lib'[th'[v].parent].at \in {"find", "setpid"} /\ lib'[th'[v].parent].kid = v
                 \/ \E i \in Entries : thread_stacks'[i].pid = v
      <3>1. v \in Stacked /\ th'[v].parent = th[v].parent /\ th[v].parent # t
        BY <1>a, <2>2, <2>4, <2>5 DEF StackInv
      <3>2. CASE \E i \in Entries : thread_stacks[i].pid = v
        BY <2>1, <3>2
      <3>3. CASE lib[th[v].parent].at \in {"find", "setpid"} /\ lib[th[v].parent].kid = v
        BY <2>3, <2>5, <3>1, <3>3
      <3> QED BY <1>b, <2>5, <3>1, <3>2, <3>3
    <2>6. /\ \A v \in Threads : lib'[v].at \notin {"undo", "undone", "faulted"}
          /\ \A v \in Threads : lib'[v].at \in Holding => lib'[v].buf # None
          /\ \A v \in Threads : lib'[v].at = "extract" =>
               \E i \in Entries : thread_stacks'[i].pid = lib'[v].kid
      BY <1>b, <2>1, <2>3 DEF Holding
    <2> QED BY <2>5, <2>6 DEF FoundInv
  <1>14. ASSUME NEW t \in Threads, InitReaps(t)
         PROVE  FoundInv'
    <2>1. UNCHANGED <<lib, thread_stacks>>
      BY <1>14 DEF InitReaps
    <2>2. \A u \in Threads : th'[u].state = IF u = t THEN "reaped" ELSE th[u].state
      BY <1>14, InitReaped
    <2>3. \A u \in Threads \ {t} : th'[u].parent = th[u].parent
      BY <1>14, InitReaped
    <2>4. Stacked' \subseteq Stacked \ {t}
      BY <2>2 DEF Stacked
    <2> QED BY <1>a, <1>b, <2>1, <2>3, <2>4 DEF FoundInv
  <1>15. CASE ChildGone \/ UNCHANGED vars
    <2>1. UNCHANGED <<th, lib, thread_stacks>>
      BY <1>15 DEF ChildGone, vars
    <2> QED BY <2>1, FoundStill DEF SameThreads, SamePids
  <1> QED
    BY <1>1, <1>2, <1>3, <1>4, <1>5, <1>6, <1>7, <1>8, <1>9, <1>10, <1>11, <1>12, <1>13,
       <1>14, <1>15, StepsAre

-----------------------------------------------------------------------------
LEMMA InvInit == Init => Inv
  <1> USE Names
  <1> SUFFICES ASSUME Init PROVE Inv
    OBVIOUS
  <1>1. /\ \A t \in Threads : /\ th[t] \in ThType /\ th[t].sz = 0 /\ th[t].parent = None
                              /\ th[t].state = IF t = Main THEN "live" ELSE "unborn"
                              /\ th[t].ustack = None
        /\ th \in [Threads -> ThType]
    <2>1. Unborn \in ThType /\ [Unborn EXCEPT !.state = "live"] \in ThType
      <3>1. 0 \in 0 .. MaxUnits
        OBVIOUS
      <3> QED BY <3>1 DEF ThType, Unborn
    <2>2. /\ Unborn.ustack = None /\ [Unborn EXCEPT !.state = "live"].ustack = None
          /\ Unborn.sz = 0 /\ Unborn.state = "unborn" /\ Unborn.parent = None
          /\ [Unborn EXCEPT !.state = "live"].state = "live"
          /\ [Unborn EXCEPT !.state = "live"].sz = 0
          /\ [Unborn EXCEPT !.state = "live"].parent = None
      BY DEF Unborn
    <2> QED BY <2>1, <2>2 DEF Init
  <1>2. \A t \in Threads : lib[t] = AtUser /\ lib[t].at = "user" /\ lib[t].buf = None
    BY DEF Init, AtUser
  <1>3. \A i \in Entries : thread_stacks[i].pid = None /\ thread_stacks[i].stack = None
    BY DEF Init, Free
  <1>4. Alive = {Main} /\ Stacked = {}
    BY <1>1, ThreadAssumption DEF Alive, Stacked
  <1>5. TypeOK
    <2>1. thread_stacks \in [Entries -> [pid : Workers \cup {None}, stack : Units \cup {None}]]
      BY DEF Init, Free
    <2> QED BY <1>1, <2>1 DEF TypeOK, ThType, Init
  <1>6. LibType
    BY DEF LibType, Init, AtUser, Pcs
  <1>7. SizeInv
    BY <1>1 DEF SizeInv, Init
  <1>14. BareInv
    BY <1>1 DEF BareInv, Init
  <1>8. ForkInv
    BY <1>2, <1>4 DEF ForkInv, ForkedWhole, Init
  <1>9. LibInv
    BY <1>2 DEF LibInv, Adding
  <1>10. StackInv
    BY <1>2, <1>3, <1>4 DEF StackInv
  <1>11. TableInv
    BY <1>2, <1>4 DEF TableInv, Writing
  <1>12. OwnerInv
    <2>1. \A t \in Threads : Held(t) = {} /\ ToFind(t) = {}
      BY <1>2, OwnsNothing DEF Holding
    <2> QED BY <1>4, <2>1 DEF OwnerInv, Init
  <1>13. FoundInv
    BY <1>2, <1>4 DEF FoundInv, Holding
  <1> QED BY <1>5, <1>6, <1>7, <1>8, <1>9, <1>10, <1>11, <1>12, <1>13, <1>14 DEF Inv

LEMMA InvAlways == Spec => []Inv
  <1>1. Inv /\ [Next]_vars => Inv'
    <2> SUFFICES ASSUME Inv, [Next]_vars PROVE Inv'
      OBVIOUS
    <2>1. TypeOK' /\ LibType'
      BY TypeStep DEF Inv
    <2>2. SizeInv'
      BY SizeStep DEF Inv
    <2>3. ForkInv' /\ BareInv'
      BY ForkStep, BareStep DEF Inv
    <2>4. LibInv' /\ StackInv'
      BY LibStep DEF Inv
    <2>5. mishaps \subseteq mishaps'
      BY MishapsStay DEF Inv
    <2>6. "table" \notin mishaps' => TableInv' /\ OwnerInv'
      BY <2>5, TableStep, OwnerStep DEF Inv
    <2>7. mishaps' \cap {"memory", "table", "full"} = {} => FoundInv'
      <3> SUFFICES ASSUME mishaps' \cap {"memory", "table", "full"} = {} PROVE FoundInv'
        OBVIOUS
      <3>1. mishaps \cap {"memory", "table", "full"} = {} /\ "table" \notin mishaps
        BY <2>5
      <3> QED BY <3>1, FoundStep DEF Inv
    <2> QED BY <2>1, <2>2, <2>3, <2>4, <2>6, <2>7 DEF Inv
  <1> QED BY <1>1, InvInit, PTL DEF Spec

\* In every behaviour all threads agree on the size of their address space, and
\* every page below it is mapped (growproc() and clone() under ptable.lock).
THEOREM Sizes == Spec => []SizesAgree
  <1>1. Inv => SizesAgree
    BY Names DEF Inv, SizeInv, SizesAgree, Alive
  <1> QED BY <1>1, InvAlways, PTL

\* A forked process has every page below its size, unless another thread called
\* sbrk() while fork() copied the pages (fork(), copyuvm()).
THEOREM Forks == Spec => []ForkedWhole
  <1>1. Inv => ForkedWhole
    BY DEF Inv, ForkInv
  <1> QED BY <1>1, InvAlways, PTL

\* As long as one thread at a time is in the table, a stack is neither freed nor
\* given away while its thread lives (thread_create(), thread_join(), malloc()).
THEOREM Stacks == Spec => []StackIsOwn
  <1>1. Inv => StackIsOwn
    <2> SUFFICES ASSUME Inv, "table" \notin mishaps,
                        NEW t \in {u \in Workers : th[u].state \in {"live", "zombie"}}
                 PROVE  /\ th[t].ustack \notin heap
                        /\ \A u \in Workers \ {t} : th[u].ustack # th[t].ustack
                        /\ \A u \in Alive : lib[u].buf = th[t].ustack => lib[u].kid = t
      BY DEF StackIsOwn
    <2>0. /\ OwnerInv /\ LibInv /\ StackInv /\ BareInv /\ TypeOK /\ t \in Stacked
      BY DEF Inv, Stacked
    <2>1. th[t].ustack \notin heap
      BY <2>0 DEF OwnerInv
    <2>2. th[t].ustack # None
      BY <2>0, Names DEF StackInv
    <2>3. ASSUME NEW u \in Workers \ {t}
          PROVE  th[u].ustack # th[t].ustack
      <3>1. CASE u \in Stacked
        BY <2>0, <3>1 DEF OwnerInv
      <3>2. CASE u \notin Stacked
        <4>1. th[u].state \in {"unborn", "reaped"}
          BY <2>0, <3>2, TypeIs, Names DEF ThType, Stacked
        <4> QED BY <2>0, <2>2, <4>1, Names DEF BareInv
      <3> QED BY <3>1, <3>2
    <2>4. ASSUME NEW u \in Alive, lib[u].buf = th[t].ustack
          PROVE  lib[u].kid = t
      <3>1. u \in Threads
        BY DEF Alive
      <3>2. lib[u].at \notin Holding
        <4> SUFFICES ASSUME lib[u].at \in Holding PROVE FALSE
          OBVIOUS
        <4>1. th[t].ustack \in Held(u)
          BY <2>2, <2>4, <3>1, HeldIs
        <4> QED BY <2>0, <3>1, <4>1 DEF OwnerInv
      <3>3. lib[u].at \in Adding
        BY <2>0, <2>2, <2>4, <3>1, <3>2 DEF LibInv
      <3>4. lib[u].kid \in Stacked /\ th[lib[u].kid].ustack = th[t].ustack
        BY <2>0, <2>4, <3>1, <3>3 DEF LibInv
      <3> QED BY <2>0, <3>4 DEF OwnerInv
    <2> QED BY <2>1, <2>3, <2>4
  <1> QED BY <1>1, InvAlways, PTL

\* As long as memory and the table suffice and one thread at a time is in it,
\* nobody frees address 0 and dies with malloc_lock (thread_join(), free()).
THEOREM Frees == Spec => []NoNullFree
  <1>1. Inv => NoNullFree
    BY DEF Inv, FoundInv, NoNullFree, Alive
  <1> QED BY <1>1, InvAlways, PTL

\* In every behaviour every variable has its type (UserThreads).
THEOREM TypeCorrect == Spec => []TypeOK
  <1>1. Inv => TypeOK
    BY DEF Inv
  <1> QED BY <1>1, InvAlways, PTL

-----------------------------------------------------------------------------
(* The kernel's schedulers (Schedulers) *)

-----------------------------------------------------------------------------
(* Induction and recursion over the natural numbers *)

LEMMA MinOfNats ==
  ASSUME NEW S \in SUBSET Nat, S # {}
  PROVE  \E n \in S : \A m \in S : n <= m
  <1>1. IsWellFoundedOn({ss \in Nat \X Nat : ss[1] < ss[2]}, Nat)
    BY NatLessThanWellFounded, Zenon DEF OpToRel
  <1>2. PICK n \in S : \A m \in S : ~(<<m, n>> \in {ss \in Nat \X Nat : ss[1] < ss[2]})
    BY <1>1, WFMin
  <1>3. ASSUME NEW m \in S PROVE n <= m
    <2>1. ~(m < n)
      <3> SUFFICES ASSUME m < n PROVE FALSE
        OBVIOUS
      <3>1. <<m, n>> \in Nat \X Nat /\ <<m, n>>[1] < <<m, n>>[2]
        OBVIOUS
      <3>2. <<m, n>> \in {ss \in Nat \X Nat : ss[1] < ss[2]}
        BY <3>1
      <3> QED BY <1>2, <3>2
    <2> QED BY <2>1
  <1> QED BY <1>3

\* A set that holds 0, and n + 1 whenever it holds n, holds every number.
LEMMA Induction ==
  ASSUME NEW S, 0 \in S, \A n \in Nat : n \in S => n + 1 \in S
  PROVE  \A n \in Nat : n \in S
  <1> SUFFICES ASSUME Nat \ S # {} PROVE FALSE
    OBVIOUS
  <1>1. PICK n \in Nat \ S : \A m \in Nat \ S : n <= m
    BY MinOfNats
  <1>2. n # 0 /\ n - 1 \in Nat
    BY <1>1
  <1>3. n - 1 \in S
    BY <1>1, <1>2
  <1>4. (n - 1) + 1 \in S
    BY <1>2, <1>3
  <1> QED BY <1>1, <1>4

\* The functions that compute each value from the one before, by g; there is one.
Computes(S, s, g) ==
    {f \in [Nat -> S] : f[0] = s /\ \A n \in Nat : f[n + 1] = g[n + 1][f[n]]}

LEMMA Recursion ==
  ASSUME NEW S, NEW s \in S, NEW g \in [Nat -> [S -> S]]
  PROVE  Computes(S, s, g) # {}
  <1> DEFINE Upto(m) == {f \in [0 .. m -> S] :
                           f[0] = s /\ \A n \in Nat : n + 1 <= m => f[n + 1] = g[n + 1][f[n]]}
             Some == {m \in Nat : Upto(m) # {}}
             Same == {n \in Nat : \A m, j \in Nat : n <= m /\ n <= j =>
                                    \A f \in Upto(m), h \in Upto(j) : f[n] = h[n]}
             F == [n \in Nat |-> (CHOOSE e \in Upto(n) : TRUE)[n]]
  <1>1. \A m \in Nat : m \in Some
    <2>1. 0 \in Some
      <3>1. [n \in 0 .. 0 |-> s] \in Upto(0)
        OBVIOUS
      <3> QED BY <3>1
    <2>2. ASSUME NEW m \in Nat, m \in Some PROVE m + 1 \in Some
      <3>1. PICK f \in Upto(m) : TRUE
        BY <2>2
      <3> DEFINE h == [n \in 0 .. m + 1 |-> IF n <= m THEN f[n] ELSE g[m + 1][f[m]]]
      <3>2. g[m + 1][f[m]] \in S
        BY <3>1
      <3>3. h \in [0 .. m + 1 -> S] /\ h[0] = s
        BY <3>1, <3>2
      <3>4. ASSUME NEW n \in Nat, n + 1 <= m + 1 PROVE h[n + 1] = g[n + 1][h[n]]
        <4>1. CASE n + 1 <= m
          <5>1. h[n + 1] = f[n + 1] /\ h[n] = f[n]
            BY <4>1
          <5> QED BY <3>1, <4>1, <5>1
        <4>2. CASE n = m
          <5>1. h[n + 1] = g[m + 1][f[m]] /\ h[n] = f[n]
            BY <4>2
          <5> QED BY <4>2, <5>1
        <4> QED BY <3>4, <4>1, <4>2
      <3>5. h \in Upto(m + 1)
        BY <3>3, <3>4
      <3> HIDE DEF Upto, h
      <3> QED BY <3>5
    <2> HIDE DEF Some
    <2> QED BY <2>1, <2>2, Induction
  <1>2. \A n \in Nat : n \in Same
    <2>1. 0 \in Same
      OBVIOUS
    <2>2. ASSUME NEW n \in Nat, n \in Same PROVE n + 1 \in Same
      <3> SUFFICES ASSUME NEW m \in Nat, NEW j \in Nat, n + 1 <= m, n + 1 <= j,
                          NEW f \in Upto(m), NEW h \in Upto(j)
                   PROVE  f[n + 1] = h[n + 1]
        <4> HIDE DEF Upto
        <4> QED OBVIOUS
      <3>1. f[n] = h[n]
        <4>1. n <= m /\ n <= j
          OBVIOUS
        <4> HIDE DEF Upto
        <4> QED BY <2>2, <4>1
      <3>2. f[n + 1] = g[n + 1][f[n]] /\ h[n + 1] = g[n + 1][h[n]]
        OBVIOUS
      <3> QED BY <3>1, <3>2
    <2> HIDE DEF Same
    <2> QED BY <2>1, <2>2, Induction
  <1>3. ASSUME NEW n \in Nat
        PROVE  \E f \in Upto(n + 1) : f[n + 1] = F[n + 1] /\ f[n] = F[n]
    <2> DEFINE f == CHOOSE e \in Upto(n + 1) : TRUE
               h == CHOOSE e \in Upto(n) : TRUE
    <2>1. f \in Upto(n + 1) /\ h \in Upto(n)
      <3>1. n + 1 \in Some /\ n \in Some
        <4> HIDE DEF Some
        <4> QED BY <1>1
      <3> HIDE DEF Upto
      <3> QED BY <3>1
    <2>2. F[n + 1] = f[n + 1] /\ F[n] = h[n]
      OBVIOUS
    <2>3. f[n] = h[n]
      <3>1. n \in Same
        <4> HIDE DEF Same
        <4> QED BY <1>2
      <3> HIDE DEF f, h, Upto
      <3> QED BY <2>1, <3>1
    <2> HIDE DEF f, h, F, Upto
    <2> QED BY <2>1, <2>2, <2>3
  <1>4. F \in [Nat -> S] /\ F[0] = s
    <2>1. ASSUME NEW n \in Nat PROVE F[n] \in S /\ (n = 0 => F[n] = s)
      <3> DEFINE h == CHOOSE e \in Upto(n) : TRUE
      <3>1. h \in Upto(n)
        <4>1. Upto(n) # {}
          BY <1>1
        <4> HIDE DEF Upto
        <4> QED BY <4>1
      <3>2. F[n] = h[n]
        OBVIOUS
      <3> HIDE DEF h, F
      <3> QED BY <3>1, <3>2
    <2> QED BY <2>1
  <1>5. ASSUME NEW n \in Nat PROVE F[n + 1] = g[n + 1][F[n]]
    <2>1. PICK f \in Upto(n + 1) : f[n + 1] = F[n + 1] /\ f[n] = F[n]
      BY <1>3
    <2> HIDE DEF F
    <2> QED BY <2>1
  <1>6. F \in Computes(S, s, g)
    <2> HIDE DEF F
    <2> QED BY <1>4, <1>5 DEF Computes
  <1> QED BY <1>6

-----------------------------------------------------------------------------
\* Power2 is what its definition says.
LEMMA PowerIs ==
  /\ Power2 \in [Nat -> Nat \ {0}]
  /\ Power2[0] = 1
  /\ \A n \in Nat : Power2[n + 1] = 2 * Power2[n]
  <1> DEFINE P == Power2
             S == Nat \ {0}
             g == [n \in Nat |-> [x \in S |-> 2 * x]]
  <1>1. P = [n \in Nat |-> IF n = 0 THEN 1 ELSE 2 * P[n - 1]]
    <2>1. g \in [Nat -> [S -> S]]
      OBVIOUS
    <2>2. PICK f \in [Nat -> S] : f[0] = 1 /\ \A n \in Nat : f[n + 1] = g[n + 1][f[n]]
      <3>1. Computes(S, 1, g) # {}
        <4>1. 1 \in S
          OBVIOUS
        <4> HIDE DEF g, S
        <4> QED BY <2>1, <4>1, Recursion
      <3> HIDE DEF g, S
      <3> QED BY <3>1 DEF Computes
    <2>3. ASSUME NEW n \in Nat PROVE f[n] = IF n = 0 THEN 1 ELSE 2 * f[n - 1]
      <3>1. CASE n = 0
        BY <2>2, <3>1
      <3>2. CASE n # 0
        <4>1. n - 1 \in Nat /\ (n - 1) + 1 = n
          BY <3>2
        <4>2. f[n] = g[n][f[n - 1]]
          BY <2>2, <4>1
        <4> QED BY <3>2, <4>1, <4>2
      <3> QED BY <3>1, <3>2
    <2>4. f = [n \in Nat |-> IF n = 0 THEN 1 ELSE 2 * f[n - 1]]
      BY <2>3
    <2>5. \E p : p = [n \in Nat |-> IF n = 0 THEN 1 ELSE 2 * p[n - 1]]
      BY <2>4
    <2> QED BY <2>5 DEF Power2
  <1> HIDE DEF P
  <1>2. P[0] = 1 /\ \A n \in Nat : P[n + 1] = 2 * P[n]
    BY <1>1
  <1>3. \A n \in Nat : P[n] \in S
    <2> DEFINE T == {n \in Nat : P[n] \in S}
    <2>1. 0 \in T /\ \A n \in Nat : n \in T => n + 1 \in T
      BY <1>2
    <2>2. \A n \in Nat : n \in T
      <3> HIDE DEF T
      <3> QED BY <2>1, Induction
    <2> QED BY <2>2
  <1>4. P \in [Nat -> S]
    BY <1>1, <1>3
  <1> QED BY <1>2, <1>4 DEF P

LEMMA PeriodIs ==
  /\ Period \in Nat \ {0}
  /\ \A x \in Nat : rand(x) \in 0 .. Period - 1
  <1>1. Period \in Nat \ {0}
    BY PowerIs, TableAssumption DEF Period
  <1>2. ASSUME NEW x \in Nat PROVE rand(x) \in 0 .. Period - 1
    <2>1. x * 1664525 + 1013904223 \in Nat
      OBVIOUS
    <2> QED BY <1>1, <2>1 DEF rand
  <1> QED BY <1>1, <1>2

\* The least of a set of slots, and the choice between two numbers.
LEMMA MinSlot ==
  ASSUME NEW S \in SUBSET Nat, S # {}
  PROVE  Min(S) \in S /\ \A m \in S : Min(S) <= m
  BY MinOfNats DEF Min

LEMMA MaxOfTwo ==
  ASSUME NEW a \in Int, NEW b \in Int
  PROVE  Max({a, b}) \in {a, b} /\ Max({a, b}) >= a /\ Max({a, b}) >= b
  <1>1. \E x \in {a, b} : \A y \in {a, b} : x >= y
    <2>1. CASE a >= b
      BY <2>1
    <2>2. CASE ~(a >= b)
      BY <2>2
    <2> QED BY <2>1, <2>2
  <1> QED BY <1>1 DEF Max

-----------------------------------------------------------------------------
(* The inductive invariant of the schedulers *)

SlotRecords == [state : States,
                sched : [tickets : Nat, rt : Nat, new : BOOLEAN]]

\* What holds of every slot, in use or not: legal tickets, and a run time that
\* is counted only under the hybrid scheduler, from the first dispatch on.
Sound(p) ==
    /\ p.sched.tickets \in MIN_TICKETS .. MAX_TICKETS
    /\ p.sched.rt < MAX_TS + MAX_LATENCY
    /\ p.sched.new \/ policy # "hybrid" => p.sched.rt = 0
    /\ p.state = "RUNNING" => ~p.sched.new

SoundInv == \A i \in Slots : Sound(proc[i])

\* The run time and what is left of the slice stay within the limit together.
SliceInv ==
    \A c \in Cpus : running[c] # NoProc =>
        proc[running[c]].sched.rt + slice[c] < MAX_TS + MAX_LATENCY

\* An embryo belongs to one fork().
EmbryoInv ==
    /\ \A i \in Slots : forking[i] # NoProc => proc[forking[i]].state = "EMBRYO"
    /\ \A i, j \in Slots : forking[i] # NoProc /\ forking[i] = forking[j] => i = j

SchedInv == SchedTypeOK /\ RunsOnce /\ SoundInv /\ SliceInv /\ EmbryoInv

\* The table as the process leaves it that ran on c: as if c had none.
Left(c, tab) ==
    /\ tab \in [Slots -> SlotRecords]
    /\ \A i \in Slots :
         /\ tab[i].state = "RUNNING" <=> \E d \in Cpus \ {c} : running[d] = i
         /\ Sound(tab[i])
         /\ forking[i] # NoProc => tab[forking[i]].state = "EMBRYO"
    /\ \A d \in Cpus \ {c} : running[d] # NoProc => tab[running[d]] = proc[running[d]]

LEMMA SchedNumbers ==
  /\ MIN_TICKETS \in Nat \ {0} /\ MAX_TICKETS \in Nat /\ MIN_TICKETS <= MAX_TICKETS
  /\ PENALTY \in Nat /\ MAX_TS \in Nat \ {0} /\ MAX_LATENCY \in Nat \ {0}
  /\ NPROC \in Nat \ {0} /\ NoProc \notin Slots /\ BITS \in Nat
  /\ Slots = 1 .. NPROC
  BY TicketAssumption, SliceAssumption, TableAssumption DEF Slots

\* A CPU without a process leaves the table as it is.
LEMMA NothingLeft ==
  ASSUME SchedInv, NEW c \in Cpus, running[c] = NoProc
  PROVE  Left(c, proc)
  <1>1. NoProc \notin Slots
    BY SchedNumbers
  <1> QED BY <1>1 DEF SchedInv, SchedTypeOK, RunsOnce, SoundInv, EmbryoInv, Left, SlotRecords

LEMMA ProcessLeaves ==
  ASSUME SchedInv, NEW c \in Cpus, running[c] # NoProc,
         NEW state \in States \ {"RUNNING"}
  PROVE  Left(c, [proc EXCEPT ![running[c]].state = state])
  <1> DEFINE r == running[c]
             tab == [proc EXCEPT ![r].state = state]
  <1>0. r \in Slots /\ proc[r].state = "RUNNING" /\ proc \in [Slots -> SlotRecords]
    BY DEF SchedInv, SchedTypeOK, RunsOnce, SlotRecords
  <1>1. tab \in [Slots -> SlotRecords]
    BY <1>0 DEF SlotRecords
  <1>2. /\ tab[r].state = state /\ tab[r].sched = proc[r].sched
        /\ \A i \in Slots \ {r} : tab[i] = proc[i]
    BY <1>0 DEF SlotRecords
  <1> HIDE DEF tab
  <1>3. \A d \in Cpus \ {c} : running[d] # r
    BY <1>0 DEF SchedInv, RunsOnce
  <1>4. ASSUME NEW i \in Slots
        PROVE  tab[i].state = "RUNNING" <=> \E d \in Cpus \ {c} : running[d] = i
    <2>1. CASE i = r
      BY <1>2, <1>3, <2>1
    <2>2. CASE i # r
      BY <1>2, <2>2 DEF SchedInv, RunsOnce
    <2> QED BY <2>1, <2>2
  <1>5. ASSUME NEW i \in Slots PROVE Sound(tab[i])
    <2>1. Sound(proc[i])
      BY DEF SchedInv, SoundInv
    <2>2. CASE i = r
      BY <1>2, <2>1, <2>2 DEF Sound
    <2>3. CASE i # r
      BY <1>2, <2>1, <2>3
    <2> QED BY <2>2, <2>3
  <1>6. ASSUME NEW i \in Slots, forking[i] # NoProc
        PROVE  tab[forking[i]].state = "EMBRYO"
    <2>1. proc[forking[i]].state = "EMBRYO" /\ forking[i] \in Slots
      BY <1>6 DEF SchedInv, EmbryoInv, SchedTypeOK
    <2> QED BY <1>0, <1>2, <2>1
  <1>7. ASSUME NEW d \in Cpus \ {c}, running[d] # NoProc
        PROVE  tab[running[d]] = proc[running[d]]
    <2>1. running[d] \in Slots
      BY <1>7 DEF SchedInv, SchedTypeOK
    <2> QED BY <1>2, <1>3, <2>1
  <1> QED BY <1>1, <1>4, <1>5, <1>6, <1>7 DEF Left, tab

\* What a scheduler hands a CPU to, and what it leaves to the others.
SchedRest ==
    /\ policy' = policy /\ cpus' = cpus /\ forking' = forking
    /\ schedLatency' = schedLatency

LEMMA Dispatched ==
  ASSUME SchedInv, NEW c \in Cpus, NEW tab, Left(c, tab),
         NEW i \in Slots, tab[i].state = "RUNNABLE",
         NEW p \in SlotRecords, p.state = "RUNNING", Sound(p), p.sched.rt < MAX_TS,
         Dispatch(c, tab, i, p), SchedRest,
         cursor' \in [Cpus -> 1 .. NPROC + 1], randstate' \in 0 .. Period - 1
  PROVE  SchedInv'
  <1>0. /\ tab \in [Slots -> SlotRecords] /\ running \in [Cpus -> Slots \cup {NoProc}]
        /\ slice \in [Cpus -> 0 .. MAX_LATENCY] /\ schedLatency \in 1 .. MAX_LATENCY
        /\ forking \in [Slots -> Slots \cup {NoProc}]
    BY DEF SchedInv, SchedTypeOK, Left
  <1>1. /\ proc'[i] = p /\ \A j \in Slots \ {i} : proc'[j] = tab[j]
        /\ proc' \in [Slots -> SlotRecords]
    BY <1>0 DEF Dispatch
  <1>2. /\ running'[c] = i /\ \A d \in Cpus \ {c} : running'[d] = running[d]
        /\ running' \in [Cpus -> Slots \cup {NoProc}]
    BY <1>0 DEF Dispatch
  <1>3. /\ slice'[c] = schedLatency /\ \A d \in Cpus \ {c} : slice'[d] = slice[d]
        /\ slice' \in [Cpus -> 0 .. MAX_LATENCY]
    BY <1>0, SchedNumbers DEF Dispatch
  <1>4. SchedTypeOK'
    BY <1>1, <1>2, <1>3 DEF SchedInv, SchedTypeOK, SchedRest, SlotRecords, Slots, States,
       Period
  <1>5. \A d \in Cpus \ {c} : running[d] # i
    BY DEF Left
  <1>6. RunsOnce'
    <2>1. ASSUME NEW j \in Slots
          PROVE  proc'[j].state = "RUNNING" <=> \E d \in Cpus : running'[d] = j
      <3>1. CASE j = i
        BY <1>1, <1>2, <3>1
      <3>2. CASE j # i
        BY <1>1, <1>2, <3>2 DEF Left
      <3> QED BY <3>1, <3>2
    <2>2. ASSUME NEW j \in Slots, NEW d \in Cpus, NEW e \in Cpus,
                 running'[d] = j, running'[e] = j
          PROVE  d = e
      <3>1. CASE d # c /\ e # c
        BY <1>2, <2>2, <3>1 DEF SchedInv, RunsOnce
      <3>2. CASE d = c \/ e = c
        BY <1>2, <1>5, <2>2, <3>2
      <3> QED BY <3>1, <3>2
    <2> QED BY <2>1, <2>2 DEF RunsOnce, Slots
  <1>7. SoundInv'
    <2>1. ASSUME NEW j \in Slots PROVE Sound(proc[j])'
      <3>1. Sound(p) /\ Sound(tab[j])
        BY DEF Left
      <3>2. proc'[j] = p \/ proc'[j] = tab[j]
        BY <1>1
      <3> QED BY <3>1, <3>2 DEF Sound, SchedRest
    <2> QED BY <2>1 DEF SoundInv, Slots
  <1>8. SliceInv'
    <2> SUFFICES ASSUME NEW d \in Cpus, running'[d] # NoProc
                 PROVE  proc'[running'[d]].sched.rt + slice'[d] < MAX_TS + MAX_LATENCY
      BY DEF SliceInv
    <2>1. CASE d = c
      <3>1. p.sched.rt \in Nat /\ p.sched.rt < MAX_TS
        BY DEF SlotRecords
      <3>2. schedLatency \in Nat /\ schedLatency <= MAX_LATENCY
            /\ MAX_LATENCY \in Nat /\ MAX_TS \in Nat
        BY <1>0, SchedNumbers
      <3>3. p.sched.rt + schedLatency < MAX_TS + MAX_LATENCY
        BY <3>1, <3>2
      <3>4. proc'[running'[d]] = p /\ slice'[d] = schedLatency
        BY <1>1, <1>2, <1>3, <2>1
      <3> QED BY <3>3, <3>4
    <2>2. CASE d # c
      <3>1. running'[d] = running[d] /\ running[d] \in Slots \ {i}
        BY <1>0, <1>2, <1>5, <2>2
      <3>2. proc'[running[d]] = proc[running[d]]
        BY <1>1, <2>2, <3>1 DEF Left
      <3>3. slice'[d] = slice[d]
        BY <1>3, <2>2
      <3>4. proc[running[d]].sched.rt + slice[d] < MAX_TS + MAX_LATENCY
        BY <3>1 DEF SchedInv, SliceInv
      <3> QED BY <3>1, <3>2, <3>3, <3>4
    <2> QED BY <2>1, <2>2
  <1>9. EmbryoInv'
    <2>1. ASSUME NEW j \in Slots, forking[j] # NoProc
          PROVE  proc'[forking[j]].state = "EMBRYO"
      <3>1. forking[j] \in Slots /\ tab[forking[j]].state = "EMBRYO"
        BY <1>0, <2>1 DEF Left
      <3> QED BY <1>1, <3>1
    <2> QED BY <2>1 DEF SchedInv, EmbryoInv, SchedRest, Slots
  <1> QED BY <1>4, <1>6, <1>7, <1>8, <1>9 DEF SchedInv

LEMMA GoneIdle ==
  ASSUME SchedInv, NEW c \in Cpus, NEW tab, Left(c, tab),
         Idle(c, tab), SchedRest,
         cursor' \in [Cpus -> 1 .. NPROC + 1], randstate' \in 0 .. Period - 1
  PROVE  SchedInv'
  <1>0. /\ tab \in [Slots -> SlotRecords] /\ running \in [Cpus -> Slots \cup {NoProc}]
        /\ slice \in [Cpus -> 0 .. MAX_LATENCY] /\ NoProc \notin Slots
    BY SchedNumbers DEF SchedInv, SchedTypeOK, Left
  <1>1. proc' = tab
    BY DEF Idle
  <1>2. /\ running'[c] = NoProc /\ \A d \in Cpus \ {c} : running'[d] = running[d]
        /\ running' \in [Cpus -> Slots \cup {NoProc}]
    BY <1>0 DEF Idle
  <1>3. /\ \A d \in Cpus \ {c} : slice'[d] = slice[d]
        /\ slice' \in [Cpus -> 0 .. MAX_LATENCY]
    BY <1>0, SchedNumbers DEF Idle
  <1>4. SchedTypeOK'
    BY <1>0, <1>1, <1>2, <1>3 DEF SchedInv, SchedTypeOK, SchedRest, SlotRecords, Slots,
       States, Period
  <1>6. RunsOnce'
    <2>1. ASSUME NEW j \in Slots
          PROVE  proc'[j].state = "RUNNING" <=> \E d \in Cpus : running'[d] = j
      <3>1. \A d \in Cpus : running'[d] = j <=> d # c /\ running[d] = j
        BY <1>0, <1>2
      <3> QED BY <1>1, <3>1 DEF Left
    <2>2. ASSUME NEW j \in Slots, NEW d \in Cpus, NEW e \in Cpus,
                 running'[d] = j, running'[e] = j
          PROVE  d = e
      <3>1. d # c /\ e # c
        BY <1>0, <1>2, <2>2
      <3> QED BY <1>2, <2>2, <3>1 DEF SchedInv, RunsOnce
    <2> QED BY <2>1, <2>2 DEF RunsOnce, Slots
  <1>7. SoundInv'
    <2>1. ASSUME NEW j \in Slots PROVE Sound(proc[j])'
      <3>1. Sound(tab[j])
        BY DEF Left
      <3> QED BY <1>1, <3>1 DEF Sound, SchedRest
    <2> QED BY <2>1 DEF SoundInv, Slots
  <1>8. SliceInv'
    <2> SUFFICES ASSUME NEW d \in Cpus, running'[d] # NoProc
                 PROVE  proc'[running'[d]].sched.rt + slice'[d] < MAX_TS + MAX_LATENCY
      BY DEF SliceInv
    <2>1. d # c
      BY <1>2
    <2>2. running'[d] = running[d] /\ slice'[d] = slice[d]
      BY <1>2, <1>3, <2>1
    <2>3. proc'[running[d]] = proc[running[d]]
      BY <1>1, <2>1, <2>2 DEF Left
    <2>4. proc[running[d]].sched.rt + slice[d] < MAX_TS + MAX_LATENCY
      BY <2>2 DEF SchedInv, SliceInv
    <2> QED BY <2>2, <2>3, <2>4
  <1>9. EmbryoInv'
    BY <1>1 DEF SchedInv, EmbryoInv, SchedRest, Left, Slots
  <1> QED BY <1>4, <1>6, <1>7, <1>8, <1>9 DEF SchedInv

-----------------------------------------------------------------------------
(* The draw *)

\* TicketsUpTo is the sum that its definition says.
LEMMA TicketsAre ==
  ASSUME SchedTypeOK
  PROVE  /\ TicketsUpTo \in [0 .. NPROC -> Nat]
         /\ TicketsUpTo[0] = 0
         /\ \A i \in Slots :
              TicketsUpTo[i] = TicketsUpTo[i - 1]
                + IF i \in Ready(proc) THEN proc[i].sched.tickets ELSE 0
  <1> DEFINE T == TicketsUpTo
             Adds(i) == IF i \in Ready(proc) THEN proc[i].sched.tickets ELSE 0
             g == [n \in Nat |-> [x \in Nat |-> IF n \in Slots THEN x + Adds(n) ELSE x]]
  <1>0. NPROC \in Nat /\ Slots = 1 .. NPROC
    BY SchedNumbers
  <1>1. \A i \in Slots : Adds(i) \in Nat
    BY DEF SchedTypeOK
  <1> HIDE DEF Adds
  <1>2. T = [i \in 0 .. NPROC |-> IF i = 0 THEN 0 ELSE T[i - 1] + Adds(i)]
    <2>1. g \in [Nat -> [Nat -> Nat]]
      BY <1>1
    <2>2. PICK f \in [Nat -> Nat] : f[0] = 0 /\ \A n \in Nat : f[n + 1] = g[n + 1][f[n]]
      <3>1. Computes(Nat, 0, g) # {}
        <4> HIDE DEF g
        <4> QED BY <2>1, Recursion
      <3> HIDE DEF g
      <3> QED BY <3>1 DEF Computes
    <2> DEFINE h == [i \in 0 .. NPROC |-> f[i]]
    <2>3. ASSUME NEW i \in 0 .. NPROC PROVE h[i] = IF i = 0 THEN 0 ELSE h[i - 1] + Adds(i)
      <3>1. CASE i = 0
        BY <2>2, <3>1
      <3>2. CASE i # 0
        <4>1. i \in Slots /\ i \in Nat /\ i - 1 \in 0 .. NPROC /\ i - 1 \in Nat
          BY <1>0, <3>2
        <4>2. f[(i - 1) + 1] = g[(i - 1) + 1][f[i - 1]]
          <5> HIDE DEF g
          <5> QED BY <2>2, <4>1
        <4>3. (i - 1) + 1 = i /\ f[i - 1] \in Nat
          BY <4>1
        <4>4. f[i] = g[i][f[i - 1]]
          <5> HIDE DEF g
          <5> QED BY <4>2, <4>3
        <4>5. f[i] = f[i - 1] + Adds(i)
          BY <4>1, <4>3, <4>4
        <4> QED BY <3>2, <4>1, <4>5
      <3> QED BY <3>1, <3>2
    <2>4. h = [i \in 0 .. NPROC |-> IF i = 0 THEN 0 ELSE h[i - 1] + Adds(i)]
      <3> HIDE DEF h
      <3>1. h \in [0 .. NPROC -> Nat]
        BY <2>2 DEF h
      <3> QED BY <2>3, <3>1
    <2>5. \E u : u = [i \in 0 .. NPROC |-> IF i = 0 THEN 0 ELSE u[i - 1] + Adds(i)]
      <3> HIDE DEF h
      <3> QED BY <2>4
    <2>6. T = CHOOSE u : u = [i \in 0 .. NPROC |-> IF i = 0 THEN 0 ELSE u[i - 1] + Adds(i)]
      BY DEF TicketsUpTo, Adds
    <2> HIDE DEF T
    <2> QED BY <2>5, <2>6
  <1> HIDE DEF T
  <1>3. T[0] = 0 /\ \A i \in Slots : T[i] = T[i - 1] + Adds(i)
    BY <1>0, <1>2
  <1>4. \A n \in Nat : n \in 0 .. NPROC => T[n] \in Nat
    <2> DEFINE S == {n \in Nat : n \in 0 .. NPROC => T[n] \in Nat}
    <2>1. 0 \in S
      BY <1>3
    <2>2. ASSUME NEW n \in Nat, n \in S PROVE n + 1 \in S
      <3> SUFFICES ASSUME n + 1 \in 0 .. NPROC PROVE T[n + 1] \in Nat
        OBVIOUS
      <3>1. n + 1 \in Slots /\ n \in 0 .. NPROC /\ (n + 1) - 1 = n
        BY <1>0
      <3>2. T[n + 1] = T[n] + Adds(n + 1) /\ T[n] \in Nat /\ Adds(n + 1) \in Nat
        BY <1>1, <1>3, <2>2, <3>1
      <3> QED BY <3>2
    <2> HIDE DEF S
    <2>3. \A n \in Nat : n \in S
      BY <2>1, <2>2, Induction
    <2> QED BY <2>3 DEF S
  <1>5. T \in [0 .. NPROC -> Nat]
    BY <1>0, <1>2, <1>4
  <1> QED BY <1>3, <1>5 DEF T, Adds

\* The sums grow, and the last is the number of tickets.
LEMMA TicketsGrow ==
  ASSUME SchedTypeOK, NEW i \in 0 .. NPROC, NEW j \in i .. NPROC
  PROVE  TicketsUpTo[i] <= TicketsUpTo[j]
  <1> DEFINE T == TicketsUpTo
             S == {n \in Nat : i + n <= NPROC => T[i] <= T[i + n]}
  <1>0. NPROC \in Nat /\ Slots = 1 .. NPROC
    BY SchedNumbers
  <1>1. T \in [0 .. NPROC -> Nat]
    BY TicketsAre
  <1>2. \A k \in 1 .. NPROC : T[k - 1] <= T[k]
    <2> SUFFICES ASSUME NEW k \in 1 .. NPROC PROVE T[k - 1] <= T[k]
      OBVIOUS
    <2>1. k - 1 \in 0 .. NPROC /\ k \in 0 .. NPROC
      BY <1>0
    <2>2. T[k - 1] \in Nat /\ T[k] \in Nat
      BY <1>1, <2>1
    <2>3. k \in Ready(proc) => proc[k].sched.tickets \in Nat
      BY <1>0 DEF SchedTypeOK
    <2>4. T[k] = T[k - 1] + IF k \in Ready(proc) THEN proc[k].sched.tickets ELSE 0
      BY <1>0, TicketsAre
    <2> HIDE DEF T
    <2> QED BY <2>2, <2>3, <2>4
  <1> HIDE DEF T
  <1>3. 0 \in S
    BY <1>0, <1>1
  <1>4. ASSUME NEW n \in Nat, n \in S PROVE n + 1 \in S
    <2> SUFFICES ASSUME i + (n + 1) <= NPROC PROVE T[i] <= T[i + (n + 1)]
      OBVIOUS
    <2>1. /\ i + n \in 0 .. NPROC /\ i + (n + 1) \in 1 .. NPROC /\ (i + (n + 1)) - 1 = i + n
          /\ i + (n + 1) \in 0 .. NPROC
      BY <1>0
    <2>2. T[i] <= T[i + n] /\ T[i + n] <= T[i + (n + 1)]
      BY <1>2, <1>4, <2>1
    <2>3. T[i] \in Nat /\ T[i + n] \in Nat /\ T[i + (n + 1)] \in Nat
      BY <1>1, <2>1
    <2> QED BY <2>2, <2>3
  <1>5. \A n \in Nat : n \in S
    <2> HIDE DEF S
    <2> QED BY <1>3, <1>4, Induction
  <1>6. j - i \in Nat /\ i + (j - i) = j /\ j <= NPROC
    BY <1>0
  <1>7. j - i \in S
    <2> HIDE DEF S
    <2> QED BY <1>5, <1>6
  <1> QED BY <1>6, <1>7 DEF T

\* The slot i wins with the numbers from the tickets before it up to its own.
LEMMA WinnerIs ==
  ASSUME SchedInv, NEW i \in Ready(proc), NEW r \in Nat,
         TicketsUpTo[i - 1] <= r % TotalTickets,
         r % TotalTickets < TicketsUpTo[i]
  PROVE  Winner(r) = i
  <1> DEFINE T == TicketsUpTo
             x == r % TotalTickets
             W == {k \in Ready(proc) : T[k] > x}
  <1>0. NPROC \in Nat /\ Slots = 1 .. NPROC /\ i \in Slots /\ SchedTypeOK
        /\ Ready(proc) \subseteq Slots
    BY SchedNumbers DEF SchedInv, Ready
  <1>1. T \in [0 .. NPROC -> Nat]
    BY <1>0, TicketsAre
  <1>2. T[i] > 0 /\ T[NPROC] >= T[i] /\ T[i] \in Nat /\ T[NPROC] \in Nat /\ T[i - 1] \in Nat
    <2>1. i \in 0 .. NPROC /\ NPROC \in i .. NPROC /\ i - 1 \in 0 .. NPROC
      BY <1>0
    <2>2. T[i] = T[i - 1] + proc[i].sched.tickets
      BY <1>0, TicketsAre
    <2>3. proc[i].sched.tickets \in Nat \ {0}
      BY <1>0, SchedNumbers DEF SchedInv, SoundInv, Sound
    <2>4. T[NPROC] >= T[i]
      BY <1>0, <2>1, TicketsGrow
    <2>5. T[i - 1] \in Nat /\ T[i] \in Nat /\ T[NPROC] \in Nat
      BY <1>0, <1>1, <2>1
    <2> HIDE DEF T
    <2> QED BY <2>2, <2>3, <2>4, <2>5
  <1>3. x \in Nat
    BY <1>2 DEF TotalTickets
  <1>4. i \in W
    BY <1>2, <1>3
  <1>5. ASSUME NEW k \in W PROVE i <= k
    <2> SUFFICES ASSUME k < i PROVE FALSE
      BY <1>0
    <2>1. k \in Slots /\ k \in 0 .. NPROC /\ i - 1 \in k .. NPROC
      BY <1>0
    <2>2. T[k] <= T[i - 1]
      BY <1>0, <2>1, TicketsGrow
    <2>3. T[k] \in Nat /\ T[k] > x /\ T[i - 1] <= x
      BY <1>1, <2>1
    <2> HIDE DEF T, x
    <2> QED BY <1>2, <1>3, <2>2, <2>3
  <1>6. W \in SUBSET Nat
    BY <1>0
  <1> HIDE DEF W
  <1>7. Min(W) \in W /\ Min(W) <= i /\ i <= Min(W)
    BY <1>4, <1>5, <1>6, MinSlot
  <1>8. Min(W) = i
    <2>1. Min(W) \in Nat
      BY <1>6, <1>7
    <2>2. i \in Nat
      BY <1>0
    <2> QED BY <1>7, <2>1, <2>2
  <1> QED BY <1>8 DEF W, Winner

\* Every number has a winner: the first of the ready whose tickets reach beyond it.
LEMMA WinnerReady ==
  ASSUME SchedInv, Ready(proc) # {}, NEW r \in Nat
  PROVE  /\ Winner(r) \in Ready(proc)
         /\ TotalTickets \in Nat \ {0}
         /\ r % TotalTickets < TicketsUpTo[Winner(r)]
         /\ \A k \in Ready(proc) :
              r % TotalTickets < TicketsUpTo[k] => Winner(r) <= k
  <1> DEFINE T == TicketsUpTo
             x == r % TotalTickets
             W == {k \in Ready(proc) : T[k] > x}
  <1>0. NPROC \in Nat \ {0} /\ Slots = 1 .. NPROC /\ SchedTypeOK
        /\ Ready(proc) \subseteq Slots
    BY SchedNumbers DEF SchedInv, Ready
  <1>1. T \in [0 .. NPROC -> Nat]
    BY <1>0, TicketsAre
  <1>2. PICK top \in Ready(proc) : \A k \in Ready(proc) : k <= top
    <2> DEFINE D == {NPROC - k : k \in Ready(proc)}
    <2>1. D \in SUBSET Nat /\ D # {}
      BY <1>0
    <2>2. PICK d \in D : \A e \in D : d <= e
      <3> HIDE DEF D
      <3> QED BY <2>1, MinOfNats
    <2>3. PICK top \in Ready(proc) : d = NPROC - top
      OBVIOUS
    <2>4. ASSUME NEW k \in Ready(proc) PROVE k <= top
      <3>1. NPROC - top <= NPROC - k
        BY <2>2, <2>3
      <3>2. k \in Nat /\ top \in Nat
        BY <1>0
      <3> QED BY <1>0, <3>1, <3>2
    <2> QED BY <2>4
  <1>3. T[top] > 0 /\ T[top] \in Nat
    <2>1. top \in 0 .. NPROC /\ top - 1 \in 0 .. NPROC
      BY <1>0
    <2>2. T[top] = T[top - 1] + proc[top].sched.tickets
      BY <1>0, TicketsAre
    <2>3. proc[top].sched.tickets \in Nat \ {0}
      BY <1>0, SchedNumbers DEF SchedInv, SoundInv, Sound
    <2>4. T[top - 1] \in Nat /\ T[top] \in Nat
      BY <1>0, <1>1, <2>1
    <2> HIDE DEF T
    <2> QED BY <2>2, <2>3, <2>4
  <1>4. T[NPROC] = T[top]
    <2> DEFINE S == {n \in Nat : top + n <= NPROC => T[top + n] = T[top]}
    <2>1. 0 \in S
      BY <1>0
    <2>2. ASSUME NEW n \in Nat, n \in S PROVE n + 1 \in S
      <3> SUFFICES ASSUME top + (n + 1) <= NPROC PROVE T[top + (n + 1)] = T[top]
        OBVIOUS
      <3>1. /\ top + (n + 1) \in Slots /\ (top + (n + 1)) - 1 = top + n
            /\ top + n <= NPROC /\ top + n \in 0 .. NPROC
        BY <1>0
      <3>2. top + (n + 1) \notin Ready(proc)
        BY <1>0, <1>2
      <3>3. T[top + (n + 1)] = T[top + n] + 0
        BY <1>0, <3>1, <3>2, TicketsAre
      <3>4. T[top + n] = T[top] /\ T[top] \in Nat
        BY <1>3, <2>2, <3>1
      <3> HIDE DEF T
      <3> QED BY <3>3, <3>4
    <2>3. \A n \in Nat : n \in S
      <3> HIDE DEF S
      <3> QED BY <2>1, <2>2, Induction
    <2>4. NPROC - top \in Nat /\ top + (NPROC - top) = NPROC
      BY <1>0
    <2>5. NPROC - top \in S
      <3> HIDE DEF S
      <3> QED BY <2>3, <2>4
    <2> QED BY <1>0, <2>4, <2>5
  <1>5. T[NPROC] \in Nat \ {0}
    BY <1>3, <1>4
  <1>6. x < T[top] /\ x \in Nat
    <2>1. x = r % T[NPROC]
      BY DEF TotalTickets
    <2> HIDE DEF T, x
    <2> QED BY <1>4, <1>5, <2>1
  <1>7. W \in SUBSET Nat /\ W # {}
    <2>1. top \in W
      BY <1>3, <1>6
    <2> QED BY <1>0, <2>1
  <1>8. Min(W) \in W /\ \A k \in W : Min(W) <= k
    <2> HIDE DEF W
    <2> QED BY <1>7, MinSlot
  <1>9. Winner(r) = Min(W)
    BY DEF Winner
  <1>10. Winner(r) \in W /\ \A k \in W : Winner(r) <= k
    <2> HIDE DEF W
    <2> QED BY <1>8, <1>9
  <1>11. Winner(r) \in Ready(proc) /\ T[Winner(r)] > x
    BY <1>10
  <1>12. ASSUME NEW k \in Ready(proc), x < T[k] PROVE Winner(r) <= k
    <2>1. k \in W
      <3>1. T[k] \in Nat
        BY <1>0, <1>1
      <3> HIDE DEF T, x
      <3> QED BY <1>6, <1>12, <3>1
    <2> HIDE DEF W
    <2> QED BY <1>10, <2>1
  <1>13. Winner(r) \in 0 .. NPROC
    BY <1>0, <1>11
  <1>14. T[Winner(r)] \in Nat
    BY <1>1, <1>13
  <1>15. x < T[Winner(r)]
    <2> HIDE DEF T, x
    <2> QED BY <1>6, <1>11, <1>14
  <1> QED BY <1>5, <1>11, <1>12, <1>15 DEF TotalTickets

\* Where the winning numbers of a process lie.
LEMMA WinnerRange ==
  ASSUME SchedInv, NEW r \in Nat, NEW i \in Ready(proc), Winner(r) = i
  PROVE  /\ TicketsUpTo[i - 1] <= r % TotalTickets
         /\ r % TotalTickets < TicketsUpTo[i]
  <1> DEFINE T == TicketsUpTo
             x == r % TotalTickets
  <1>0. NPROC \in Nat /\ Slots = 1 .. NPROC /\ i \in Slots /\ SchedTypeOK
        /\ Ready(proc) \subseteq Slots
    BY SchedNumbers DEF SchedInv, Ready
  <1>1. T \in [0 .. NPROC -> Nat] /\ T[0] = 0
    BY <1>0, TicketsAre
  <1>2. x < T[i] /\ TotalTickets \in Nat \ {0}
    BY WinnerReady
  <1>3. \A k \in Ready(proc) : x < T[k] => i <= k
    BY WinnerReady
  <1>4. x \in Nat
    BY <1>2
  <1> HIDE DEF T, x
  <1>5. T[i - 1] <= x
    <2> SUFFICES ASSUME x < T[i - 1] PROVE FALSE
      <3>1. i - 1 \in 0 .. NPROC
        BY <1>0
      <3>2. T[i - 1] \in Nat
        BY <1>1, <3>1
      <3> QED BY <1>4, <3>2
    <2> DEFINE E == {k \in 0 .. i - 1 : x < T[k]}
    <2>1. E \in SUBSET Nat /\ i - 1 \in E
      BY <1>0
    <2>2. PICK k \in E : \A m \in E : k <= m
      <3> HIDE DEF E
      <3> QED BY <2>1, MinOfNats
    <2>3. k # 0
      BY <1>1, <1>4
    <2>4. k \in Slots /\ k < i /\ k - 1 \in 0 .. i - 1 /\ k - 1 \in 0 .. NPROC
      BY <1>0, <2>3
    <2>5. ~(x < T[k - 1])
      <3>1. k - 1 \notin E
        <4>1. ~(k <= k - 1)
          BY <2>4, <1>0
        <4> HIDE DEF E
        <4> QED BY <2>2, <4>1
      <3> QED BY <2>4, <3>1
    <2>6. T[k] = T[k - 1] + IF k \in Ready(proc) THEN proc[k].sched.tickets ELSE 0
      BY <1>0, <2>4, TicketsAre DEF T
    <2>7. k \in Ready(proc)
      <3> SUFFICES ASSUME k \notin Ready(proc) PROVE FALSE
        OBVIOUS
      <3>1. T[k - 1] \in Nat
        BY <1>1, <2>4
      <3>2. T[k] = T[k - 1] + 0
        BY <2>6
      <3> QED BY <2>5, <3>1, <3>2
    <2>8. i <= k
      BY <1>3, <2>7
    <2> QED BY <1>0, <2>4, <2>8
  <1> QED BY <1>2, <1>5 DEF T, x

-----------------------------------------------------------------------------
(* The steps of the schedulers *)

\* What the three ways to dispatch a process make of its slot.
LEMMA ChosenIs ==
  ASSUME NEW p \in SlotRecords, Sound(p)
  PROVE  /\ Chosen(p) \in SlotRecords /\ Chosen(p).state = "RUNNING"
         /\ Chosen(p).sched.rt = p.sched.rt /\ Sound(Chosen(p))
         /\ Chosen(p).sched.tickets = p.sched.tickets
  <1>1. /\ Chosen(p) \in SlotRecords /\ Chosen(p).state = "RUNNING"
        /\ Chosen(p).sched.rt = p.sched.rt /\ Chosen(p).sched.new = FALSE
        /\ Chosen(p).sched.tickets = p.sched.tickets
    BY DEF Chosen, SlotRecords, States
  <1>2. Sound(Chosen(p))
    <2> HIDE DEF SlotRecords
    <2> QED BY <1>1 DEF Sound
  <1> QED BY <1>1, <1>2

LEMMA WelcomedIs ==
  ASSUME NEW p \in SlotRecords, Sound(p), p.sched.new
  PROVE  /\ Welcomed(p) \in SlotRecords /\ Welcomed(p).state = "RUNNING"
         /\ Welcomed(p).sched.rt = 0 /\ Sound(Welcomed(p))
  <1>0. MAX_TICKETS \in Nat /\ MIN_TICKETS \in Nat /\ MIN_TICKETS <= MAX_TICKETS
        /\ MAX_TS + MAX_LATENCY > 0
    BY SchedNumbers
  <1>1. p.sched.rt = 0
    BY DEF Sound
  <1>2. /\ Welcomed(p) \in SlotRecords /\ Welcomed(p).state = "RUNNING"
        /\ Welcomed(p).sched.rt = p.sched.rt /\ Welcomed(p).sched.new = FALSE
        /\ Welcomed(p).sched.tickets = MAX_TICKETS
    BY <1>0 DEF Welcomed, Chosen, SlotRecords, States
  <1> QED BY <1>0, <1>1, <1>2 DEF Sound

LEMMA PenalisedIs ==
  ASSUME NEW p \in SlotRecords, Sound(p), policy = "hybrid"
  PROVE  /\ Penalised(p) \in SlotRecords /\ Penalised(p).state = "RUNNING"
         /\ Penalised(p).sched.rt < MAX_TS /\ Sound(Penalised(p))
  <1>0. /\ MAX_TICKETS \in Nat /\ MIN_TICKETS \in Nat /\ MIN_TICKETS <= MAX_TICKETS
        /\ MAX_TS + MAX_LATENCY > 0 /\ MAX_TS \in Nat \ {0} /\ PENALTY \in Nat
    BY SchedNumbers
  <1>1. p.sched.rt \in Nat /\ p.sched.tickets \in MIN_TICKETS .. MAX_TICKETS
    BY DEF Sound, SlotRecords
  <1>2. CASE p.sched.rt < MAX_TS
    BY <1>2, ChosenIs DEF Penalised
  <1>3. CASE ~(p.sched.rt < MAX_TS)
    <2> DEFINE t == Max({p.sched.tickets - PENALTY, MIN_TICKETS})
               q == Penalised(p)
    <2>1. t \in MIN_TICKETS .. MAX_TICKETS
      <3>1. p.sched.tickets - PENALTY \in Int /\ MIN_TICKETS \in Int
            /\ p.sched.tickets - PENALTY <= MAX_TICKETS
        BY <1>0, <1>1
      <3>2. t \in {p.sched.tickets - PENALTY, MIN_TICKETS} /\ t >= MIN_TICKETS
        BY <3>1, MaxOfTwo
      <3> HIDE DEF t
      <3> QED BY <1>0, <3>1, <3>2
    <2>2. q = [Chosen(p) EXCEPT !.sched.tickets = t, !.sched.rt = 0]
      <3>1. Chosen(p).sched.tickets = p.sched.tickets
        BY ChosenIs
      <3> QED BY <1>3, <3>1 DEF Penalised
    <2>3. t \in Nat
      BY <1>0, <2>1
    <2> HIDE DEF t, q
    <2>4. /\ q \in SlotRecords /\ q.state = "RUNNING" /\ q.sched.rt = 0
          /\ q.sched.tickets = t /\ q.sched.new = FALSE
      BY <2>2, <2>3 DEF Chosen, SlotRecords, States
    <2> QED BY <1>0, <2>1, <2>4 DEF Sound, q
  <1> QED BY <1>2, <1>3

\* rr_scheduler() goes on with the table that the process left on c.
LEMMA NextRuns ==
  ASSUME SchedInv, NEW c \in Cpus, NEW tab, Left(c, tab), policy = "rr",
         RunNext(c, tab), SchedRest, randstate' = randstate
  PROVE  SchedInv'
  <1> DEFINE ahead == {i \in Ready(tab) : i >= cursor[c]}
             first == Min(ahead)
  <1>0. /\ cursor \in [Cpus -> 1 .. NPROC + 1] /\ randstate' \in 0 .. Period - 1
        /\ Slots = 1 .. NPROC /\ NPROC \in Nat
    BY SchedNumbers DEF SchedInv, SchedTypeOK
  <1>1. CASE ahead = {}
    <2>1. Idle(c, tab) /\ cursor' = [cursor EXCEPT ![c] = 1]
      BY <1>1 DEF RunNext
    <2>2. cursor' \in [Cpus -> 1 .. NPROC + 1]
      BY <1>0, <2>1
    <2> QED BY <1>0, <2>1, <2>2, GoneIdle
  <1>2. CASE ahead # {}
    <2>1. /\ Dispatch(c, tab, first, Chosen(tab[first]))
          /\ cursor' = [cursor EXCEPT ![c] = first + 1]
      BY <1>2 DEF RunNext
    <2>2. first \in Slots /\ tab[first].state = "RUNNABLE"
      <3>1. ahead \in SUBSET Nat
        BY <1>0 DEF Ready
      <3>2. first \in ahead
        <4> HIDE DEF ahead
        <4> QED BY <1>2, <3>1, MinSlot
      <3> HIDE DEF first
      <3> QED BY <3>2 DEF Ready
    <2> HIDE DEF first
    <2>3. cursor' \in [Cpus -> 1 .. NPROC + 1]
      BY <1>0, <2>1, <2>2
    <2>4. tab[first] \in SlotRecords /\ Sound(tab[first])
      BY <2>2 DEF Left
    <2>5. tab[first].sched.rt = 0
      BY <2>4 DEF Sound
    <2>6. /\ Chosen(tab[first]) \in SlotRecords /\ Chosen(tab[first]).state = "RUNNING"
          /\ Chosen(tab[first]).sched.rt < MAX_TS /\ Sound(Chosen(tab[first]))
      BY <2>4, <2>5, ChosenIs, SchedNumbers
    <2> QED BY <1>0, <2>1, <2>2, <2>3, <2>6, Dispatched
  <1> QED BY <1>1, <1>2

LEMMA GivesUp ==
  ASSUME SchedInv, NEW c \in Cpus, NEW tab, Left(c, tab),
         Sched(c, tab), SchedRest, randstate' = randstate
  PROVE  SchedInv'
  <1>1. CASE policy = "rr"
    BY <1>1, NextRuns DEF Sched
  <1>2. CASE policy # "rr"
    <2>1. Idle(c, tab) /\ cursor' = cursor
      BY <1>2 DEF Sched
    <2>2. cursor' \in [Cpus -> 1 .. NPROC + 1] /\ randstate' \in 0 .. Period - 1
      BY <2>1 DEF SchedInv, SchedTypeOK
    <2> QED BY <2>1, <2>2, GoneIdle
  <1> QED BY <1>1, <1>2

\* A process that is ready, in the table as it is.
LEMMA ReadySlot ==
  ASSUME SchedInv, NEW i \in Ready(proc)
  PROVE  i \in Slots /\ proc[i] \in SlotRecords /\ Sound(proc[i]) /\ proc[i].state = "RUNNABLE"
  BY DEF SchedInv, SchedTypeOK, SoundInv, SlotRecords, Ready

LEMMA SchedulerStep ==
  ASSUME SchedInv, NEW c \in Cpus, Scheduler(c)
  PROVE  SchedInv'
  <1>0. /\ cursor \in [Cpus -> 1 .. NPROC + 1] /\ randstate \in 0 .. Period - 1
        /\ Slots = 1 .. NPROC /\ NPROC \in Nat /\ MAX_TS \in Nat \ {0}
        /\ Period \in Nat \ {0}
    BY SchedNumbers, PeriodIs DEF SchedInv, SchedTypeOK
  <1>1. running[c] = NoProc /\ Left(c, proc)
    <2>1. running[c] = NoProc
      BY DEF Scheduler, RoundRobin, Lottery, HybridFirst, HybridDraw
    <2> QED BY <2>1, NothingLeft
  <1>2. CASE RoundRobin(c)
    <2>1. policy = "rr" /\ RunNext(c, proc) /\ SchedRest /\ randstate' = randstate
      BY <1>2 DEF RoundRobin, SchedRest
    <2> QED BY <1>1, <2>1, NextRuns
  <1> DEFINE i == Winner(randstate')
  <1>3. ASSUME randstate' = rand(randstate), Ready(proc) # {}
        PROVE  randstate' \in 0 .. Period - 1 /\ i \in Ready(proc)
    <2>1. randstate \in Nat
      BY <1>0
    <2>2. rand(randstate) \in 0 .. Period - 1
      BY <2>1, PeriodIs
    <2>3. randstate' \in Nat
      BY <1>0, <1>3, <2>2
    <2> QED BY <1>3, <2>2, <2>3, WinnerReady
  <1>4. CASE Lottery(c)
    <2>1. /\ randstate' = rand(randstate) /\ Ready(proc) # {}
          /\ policy # "hybrid" /\ cursor' = cursor /\ SchedRest
          /\ Dispatch(c, proc, i, Chosen(proc[i]))
      BY <1>4 DEF Lottery, SchedRest
    <2>2. randstate' \in 0 .. Period - 1 /\ i \in Ready(proc)
      BY <1>3, <2>1
    <2> HIDE DEF i
    <2>3. i \in Slots /\ proc[i] \in SlotRecords /\ Sound(proc[i]) /\ proc[i].state = "RUNNABLE"
      BY <2>2, ReadySlot
    <2>4. proc[i].sched.rt = 0
      BY <2>1, <2>3 DEF Sound
    <2>5. /\ Chosen(proc[i]) \in SlotRecords /\ Chosen(proc[i]).state = "RUNNING"
          /\ Chosen(proc[i]).sched.rt < MAX_TS /\ Sound(Chosen(proc[i]))
      BY <1>0, <2>3, <2>4, ChosenIs
    <2> QED BY <1>0, <1>1, <2>1, <2>2, <2>3, <2>5, Dispatched
  <1>5. CASE HybridFirst(c)
    <2> DEFINE n == Min(Newcomers)
    <2>1. /\ Newcomers # {} /\ cursor' = cursor /\ SchedRest /\ randstate' = randstate
          /\ Dispatch(c, proc, n, Welcomed(proc[n]))
      BY <1>5 DEF HybridFirst, SchedRest
    <2>2. n \in Newcomers
      <3>1. Newcomers \in SUBSET Nat
        BY <1>0 DEF Newcomers, Ready
      <3> QED BY <2>1, <3>1, MinSlot
    <2>3. n \in Ready(proc) /\ proc[n].sched.new
      <3> HIDE DEF n
      <3> QED BY <2>2 DEF Newcomers
    <2> HIDE DEF n
    <2>4. n \in Slots /\ proc[n] \in SlotRecords /\ Sound(proc[n]) /\ proc[n].state = "RUNNABLE"
      BY <2>3, ReadySlot
    <2>5. /\ Welcomed(proc[n]) \in SlotRecords /\ Welcomed(proc[n]).state = "RUNNING"
          /\ Welcomed(proc[n]).sched.rt < MAX_TS /\ Sound(Welcomed(proc[n]))
      BY <1>0, <2>3, <2>4, WelcomedIs
    <2> QED BY <1>0, <1>1, <2>1, <2>4, <2>5, Dispatched
  <1>6. CASE HybridDraw(c)
    <2>1. /\ randstate' = rand(randstate) /\ Ready(proc) # {}
          /\ policy = "hybrid" /\ cursor' = cursor /\ SchedRest
          /\ Dispatch(c, proc, i, Penalised(proc[i]))
      BY <1>6 DEF HybridDraw, SchedRest
    <2>2. randstate' \in 0 .. Period - 1 /\ i \in Ready(proc)
      BY <1>3, <2>1
    <2> HIDE DEF i
    <2>3. i \in Slots /\ proc[i] \in SlotRecords /\ Sound(proc[i]) /\ proc[i].state = "RUNNABLE"
      BY <2>2, ReadySlot
    <2>4. /\ Penalised(proc[i]) \in SlotRecords /\ Penalised(proc[i]).state = "RUNNING"
          /\ Penalised(proc[i]).sched.rt < MAX_TS /\ Sound(Penalised(proc[i]))
      BY <2>1, <2>3, PenalisedIs
    <2> QED BY <1>0, <1>1, <2>1, <2>2, <2>3, <2>4, Dispatched
  <1> QED BY <1>2, <1>4, <1>5, <1>6 DEF Scheduler

-----------------------------------------------------------------------------
(* The clock and the system calls *)

\* A step that changes one slot, whose process does not get or lose a CPU.
LEMMA SlotChanges ==
  ASSUME SchedInv, NEW i \in Slots, NEW p \in SlotRecords,
         proc' = [proc EXCEPT ![i] = p], Sound(p),
         p.state = "RUNNING" <=> proc[i].state = "RUNNING",
         running' = running, slice' \in [Cpus -> 0 .. MAX_LATENCY],
         \A d \in Cpus : IF running[d] = i THEN p.sched.rt + slice'[d] < MAX_TS + MAX_LATENCY
                                           ELSE slice'[d] = slice[d],
         policy' = policy, cpus' = cpus, schedLatency' = schedLatency, cursor' = cursor,
         randstate' = randstate,
         forking' \in [Slots -> Slots \cup {NoProc}], EmbryoInv'
  PROVE  SchedInv'
  <1>1. /\ proc'[i] = p /\ \A j \in Slots \ {i} : proc'[j] = proc[j]
        /\ proc' \in [Slots -> SlotRecords]
    BY DEF SchedInv, SchedTypeOK, SlotRecords
  <1>2. SchedTypeOK'
    BY <1>1 DEF SchedInv, SchedTypeOK, SlotRecords, Slots, States, Period
  <1>3. RunsOnce'
    <2>1. ASSUME NEW j \in Slots
          PROVE  proc'[j].state = "RUNNING" <=> proc[j].state = "RUNNING"
      BY <1>1
    <2> QED BY <2>1 DEF SchedInv, RunsOnce, Slots
  <1>4. SoundInv'
    <2>1. ASSUME NEW j \in Slots PROVE Sound(proc[j])'
      <3>1. Sound(proc[j])
        BY DEF SchedInv, SoundInv
      <3>2. proc'[j] = p \/ proc'[j] = proc[j]
        BY <1>1
      <3> QED BY <3>1, <3>2 DEF Sound
    <2> QED BY <2>1 DEF SoundInv, Slots
  <1>5. SliceInv'
    <2> SUFFICES ASSUME NEW d \in Cpus, running[d] # NoProc
                 PROVE  proc'[running[d]].sched.rt + slice'[d] < MAX_TS + MAX_LATENCY
      BY DEF SliceInv
    <2>1. running[d] \in Slots
      BY DEF SchedInv, SchedTypeOK
    <2>2. CASE running[d] = i
      BY <1>1, <2>2
    <2>3. CASE running[d] # i
      <3>1. proc'[running[d]] = proc[running[d]] /\ slice'[d] = slice[d]
        BY <1>1, <2>1, <2>3
      <3> QED BY <3>1 DEF SchedInv, SliceInv
    <2> QED BY <2>2, <2>3
  <1> QED BY <1>2, <1>3, <1>4, <1>5 DEF SchedInv

\* The embryos stay those of their fork() when another slot changes.
LEMMA EmbryosStay ==
  ASSUME SchedInv, NEW i \in Slots, NEW p \in SlotRecords,
         proc' = [proc EXCEPT ![i] = p], forking' = forking,
         proc[i].state # "EMBRYO" \/ p.state = proc[i].state
  PROVE  EmbryoInv' /\ forking' \in [Slots -> Slots \cup {NoProc}]
  <1>0. /\ proc \in [Slots -> SlotRecords]
        /\ forking \in [Slots -> Slots \cup {NoProc}]
    BY DEF SchedInv, SchedTypeOK, SlotRecords
  <1>1. ASSUME NEW j \in Slots, forking[j] # NoProc
        PROVE  proc'[forking[j]].state = "EMBRYO"
    <2>1. forking[j] \in Slots /\ proc[forking[j]].state = "EMBRYO"
      BY <1>0, <1>1 DEF SchedInv, EmbryoInv
    <2>2. CASE forking[j] = i
      BY <1>0, <2>1, <2>2
    <2>3. CASE forking[j] # i
      BY <1>0, <2>1, <2>3
    <2> QED BY <2>2, <2>3
  <1> QED BY <1>0, <1>1 DEF SchedInv, EmbryoInv, Slots

\* The slot of a process that runs.
LEMMA RunnerIs ==
  ASSUME SchedInv, NEW c \in Cpus, running[c] # NoProc
  PROVE  /\ running[c] \in Slots /\ proc[running[c]] \in SlotRecords
         /\ proc[running[c]].state = "RUNNING" /\ Sound(proc[running[c]])
         /\ slice[c] \in 0 .. MAX_LATENCY
         /\ proc[running[c]].sched.rt + slice[c] < MAX_TS + MAX_LATENCY
         /\ \A d \in Cpus \ {c} : running[d] # running[c]
  BY DEF SchedInv, SchedTypeOK, RunsOnce, SoundInv, SliceInv, SlotRecords

LEMMA TickStep ==
  ASSUME SchedInv, NEW c \in Cpus, Tick(c)
  PROVE  SchedInv'
  <1> DEFINE r == running[c]
             p == [proc[r] EXCEPT !.sched.rt = IF policy = "hybrid" THEN @ + 1 ELSE @]
  <1>0. /\ r # NoProc /\ slice[c] > 0
        /\ proc \in [Slots -> SlotRecords] /\ slice \in [Cpus -> 0 .. MAX_LATENCY]
        /\ MAX_LATENCY \in Nat /\ MAX_TS \in Nat
    BY SchedNumbers DEF SchedInv, SchedTypeOK, SlotRecords, Tick
  <1>1. /\ r \in Slots /\ proc[r] \in SlotRecords
        /\ proc[r].state = "RUNNING" /\ Sound(proc[r]) /\ slice[c] \in 0 .. MAX_LATENCY
        /\ proc[r].sched.rt + slice[c] < MAX_TS + MAX_LATENCY
        /\ \A d \in Cpus \ {c} : running[d] # r
    BY <1>0, RunnerIs
  <1> HIDE DEF r
  <1>2. /\ p \in SlotRecords /\ p.state = "RUNNING" /\ p.sched.tickets = proc[r].sched.tickets
        /\ p.sched.new = proc[r].sched.new
        /\ p.sched.rt = IF policy = "hybrid" THEN proc[r].sched.rt + 1 ELSE proc[r].sched.rt
        /\ proc[r].sched.rt \in Nat
    BY <1>1 DEF SlotRecords
  <1>3. proc' = [proc EXCEPT ![r] = p] /\ slice' = [slice EXCEPT ![c] = @ - 1]
        /\ forking' = forking /\ running' = running
        /\ policy' = policy /\ cpus' = cpus /\ schedLatency' = schedLatency /\ cursor' = cursor
        /\ randstate' = randstate
    BY <1>0, <1>1 DEF Tick, r
  <1> HIDE DEF p
  <1>4. slice'[c] = slice[c] - 1 /\ slice' \in [Cpus -> 0 .. MAX_LATENCY]
        /\ \A d \in Cpus \ {c} : slice'[d] = slice[d]
    BY <1>0, <1>1, <1>3
  <1>5. p.sched.rt + slice'[c] < MAX_TS + MAX_LATENCY
    BY <1>0, <1>1, <1>2, <1>4
  <1>6. Sound(p)
    BY <1>0, <1>1, <1>2, <1>4, <1>5 DEF Sound
  <1>7. EmbryoInv' /\ forking' \in [Slots -> Slots \cup {NoProc}]
    BY <1>1, <1>2, <1>3, EmbryosStay
  <1>8. \A d \in Cpus : IF running[d] = r THEN p.sched.rt + slice'[d] < MAX_TS + MAX_LATENCY
                                          ELSE slice'[d] = slice[d]
    BY <1>1, <1>4, <1>5 DEF r
  <1> QED BY <1>1, <1>2, <1>3, <1>4, <1>6, <1>7, <1>8, SlotChanges

LEMMA YieldStep ==
  ASSUME SchedInv, NEW c \in Cpus, Yield(c)
  PROVE  SchedInv'
  <1>1. running[c] # NoProc /\ SchedRest /\ randstate' = randstate
        /\ Sched(c, [proc EXCEPT ![running[c]].state = "RUNNABLE"])
    BY DEF Yield, SchedRest
  <1>2. Left(c, [proc EXCEPT ![running[c]].state = "RUNNABLE"])
    BY <1>1, ProcessLeaves DEF States
  <1> QED BY <1>1, <1>2, GivesUp

LEMMA LeaveStep ==
  ASSUME SchedInv, NEW c \in Cpus, exit(c) \/ sleep(c)
  PROVE  SchedInv'
  <1>1. PICK state \in {"ZOMBIE", "SLEEPING"} :
          /\ running[c] # NoProc /\ SchedRest /\ randstate' = randstate
          /\ Sched(c, [proc EXCEPT ![running[c]].state = state])
    BY DEF exit, sleep, Leave, InCall, SchedRest
  <1>2. Left(c, [proc EXCEPT ![running[c]].state = state])
    BY <1>1, ProcessLeaves DEF States
  <1> QED BY <1>1, <1>2, GivesUp

\* Only the state of a slot that has no CPU changes.
LEMMA StateStep ==
  ASSUME SchedInv, NEW i \in Slots, NEW state \in States \ {"RUNNING"},
         proc[i].state \in States \ {"RUNNING"},
         proc' = [proc EXCEPT ![i].state = state],
         running' = running, slice' = slice, policy' = policy, cpus' = cpus,
         schedLatency' = schedLatency, cursor' = cursor, randstate' = randstate,
         \/ forking' = forking /\ proc[i].state # "EMBRYO"
         \/ forking' \in [Slots -> Slots \cup {NoProc}] /\ EmbryoInv'
  PROVE  SchedInv'
  <1> DEFINE p == [proc[i] EXCEPT !.state = state]
  <1>0. /\ proc \in [Slots -> SlotRecords] /\ slice \in [Cpus -> 0 .. MAX_LATENCY]
        /\ Sound(proc[i]) /\ \A d \in Cpus : running[d] # i
    BY DEF SchedInv, SchedTypeOK, SlotRecords, SoundInv, RunsOnce
  <1>1. /\ p \in SlotRecords /\ p.state = state /\ p.sched = proc[i].sched
        /\ proc' = [proc EXCEPT ![i] = p]
    BY <1>0 DEF SlotRecords
  <1> HIDE DEF p
  <1>2. Sound(p)
    BY <1>0, <1>1 DEF Sound
  <1>3. EmbryoInv' /\ forking' \in [Slots -> Slots \cup {NoProc}]
    <2>1. CASE forking' = forking /\ proc[i].state # "EMBRYO"
      BY <1>1, <2>1, EmbryosStay
    <2> QED BY <2>1
  <1> QED BY <1>0, <1>1, <1>2, <1>3, SlotChanges

LEMMA AllocStep ==
  ASSUME SchedInv, NEW c \in Cpus, allocproc(c)
  PROVE  SchedInv'
  <1> DEFINE u == Min(Unused)
             p == [state |-> "EMBRYO", sched |-> init_sched_data]
             r == running[c]
  <1>0. /\ proc \in [Slots -> SlotRecords] /\ slice \in [Cpus -> 0 .. MAX_LATENCY]
        /\ forking \in [Slots -> Slots \cup {NoProc}]
        /\ Slots = 1 .. NPROC /\ NPROC \in Nat /\ NoProc \notin Slots
        /\ MIN_TICKETS \in Nat /\ MAX_TICKETS \in Nat /\ MIN_TICKETS <= MAX_TICKETS
        /\ MAX_TS \in Nat \ {0} /\ MAX_LATENCY \in Nat \ {0}
    BY SchedNumbers DEF SchedInv, SchedTypeOK, SlotRecords
  <1>1. /\ r # NoProc /\ forking[r] = NoProc /\ Unused # {}
        /\ proc' = [proc EXCEPT ![u] = p] /\ forking' = [forking EXCEPT ![r] = u]
        /\ running' = running /\ slice' = slice /\ policy' = policy /\ cpus' = cpus
        /\ schedLatency' = schedLatency /\ cursor' = cursor /\ randstate' = randstate
    BY DEF allocproc, InCall
  <1>2. u \in Slots /\ proc[u].state = "UNUSED"
    <2>1. Unused \in SUBSET Nat
      BY <1>0 DEF Unused
    <2>2. u \in Unused
      BY <1>1, <2>1, MinSlot
    <2> HIDE DEF u
    <2> QED BY <2>2 DEF Unused
  <1> HIDE DEF u
  <1>3. r \in Slots
    BY <1>1, RunnerIs
  <1>4. /\ p \in SlotRecords /\ p.state = "EMBRYO" /\ p.sched.tickets = MIN_TICKETS
        /\ p.sched.rt = 0
    BY <1>0 DEF SlotRecords, States, init_sched_data
  <1>5. Sound(p)
    BY <1>0, <1>4 DEF Sound
  <1>6. \A d \in Cpus : running[d] # u
    BY <1>2 DEF SchedInv, RunsOnce
  <1> HIDE DEF p, r
  <1>7. forking' \in [Slots -> Slots \cup {NoProc}]
    BY <1>0, <1>1, <1>2, <1>3
  <1>8. EmbryoInv'
    <2>1. \A j \in Slots : forking[j] # NoProc => forking[j] \in Slots
                                   /\ proc[forking[j]].state = "EMBRYO" /\ forking[j] # u
      BY <1>0, <1>2 DEF SchedInv, EmbryoInv
    <2>2. forking'[r] = u /\ \A j \in Slots \ {r} : forking'[j] = forking[j]
      BY <1>0, <1>1, <1>3
    <2>3. proc'[u] = p /\ \A j \in Slots \ {u} : proc'[j] = proc[j]
      BY <1>0, <1>1, <1>2
    <2>4. ASSUME NEW j \in Slots, forking'[j] # NoProc
          PROVE  proc'[forking'[j]].state = "EMBRYO"
      BY <1>4, <2>1, <2>2, <2>3, <2>4
    <2>5. ASSUME NEW j \in Slots, NEW k \in Slots,
                 forking'[j] # NoProc, forking'[j] = forking'[k]
          PROVE  j = k
      <3>1. CASE j # r /\ k # r
        BY <2>2, <2>5, <3>1 DEF SchedInv, EmbryoInv
      <3>2. CASE j = r \/ k = r
        BY <2>1, <2>2, <2>5, <3>2
      <3> QED BY <3>1, <3>2
    <2> QED BY <2>4, <2>5 DEF EmbryoInv, Slots
  <1> QED BY <1>0, <1>1, <1>2, <1>4, <1>5, <1>6, <1>7, <1>8, SlotChanges

LEMMA EndForkStep ==
  ASSUME SchedInv, NEW c \in Cpus, NEW state \in {"RUNNABLE", "UNUSED"},
         EndFork(c, state)
  PROVE  SchedInv'
  <1> DEFINE r == running[c]
             e == forking[r]
  <1>0. /\ proc \in [Slots -> SlotRecords]
        /\ forking \in [Slots -> Slots \cup {NoProc}]
        /\ NoProc \notin Slots
    BY SchedNumbers DEF SchedInv, SchedTypeOK, SlotRecords
  <1>1. /\ r # NoProc /\ e # NoProc
        /\ proc' = [proc EXCEPT ![e].state = state] /\ forking' = [forking EXCEPT ![r] = NoProc]
        /\ running' = running /\ slice' = slice /\ policy' = policy /\ cpus' = cpus
        /\ schedLatency' = schedLatency /\ cursor' = cursor /\ randstate' = randstate
    BY DEF EndFork, InCall
  <1>2. r \in Slots
    BY <1>1, RunnerIs
  <1>3. e \in Slots /\ proc[e].state = "EMBRYO"
    BY <1>0, <1>1, <1>2 DEF SchedInv, EmbryoInv
  <1> HIDE DEF r
  <1>4. forking' \in [Slots -> Slots \cup {NoProc}]
    BY <1>0, <1>1, <1>2
  <1>5. EmbryoInv'
    <2>1. forking'[r] = NoProc /\ \A j \in Slots \ {r} : forking'[j] = forking[j]
      BY <1>0, <1>1, <1>2
    <2>2. ASSUME NEW j \in Slots, forking'[j] # NoProc
          PROVE  j # r /\ forking'[j] = forking[j] /\ forking[j] \in Slots
                 /\ proc[forking[j]].state = "EMBRYO" /\ forking[j] # e
      BY <1>0, <1>1, <1>2, <2>1, <2>2 DEF SchedInv, EmbryoInv
    <2>3. \A j \in Slots \ {e} : proc'[j] = proc[j]
      BY <1>0, <1>1, <1>3
    <2> HIDE DEF e
    <2>4. ASSUME NEW j \in Slots, NEW k \in Slots,
                 forking'[j] # NoProc, forking'[j] = forking'[k]
          PROVE  j = k
      <3>1. forking'[j] = forking[j] /\ forking'[k] = forking[k]
        BY <2>2, <2>4
      <3> QED BY <2>4, <3>1 DEF SchedInv, EmbryoInv
    <2> QED BY <2>2, <2>3, <2>4 DEF EmbryoInv, Slots
  <1> HIDE DEF e
  <1>6. state \in States \ {"RUNNING"} /\ proc[e].state \in States \ {"RUNNING"}
    BY <1>3 DEF States
  <1> QED BY <1>1, <1>3, <1>4, <1>5, <1>6, StateStep

LEMMA WaitStep ==
  ASSUME SchedInv, NEW c \in Cpus, NEW i \in Slots, wait(c, i)
  PROVE  SchedInv'
  <1>1. proc[i].state = "ZOMBIE" /\ "UNUSED" \in States \ {"RUNNING"}
        /\ proc[i].state \in States \ {"RUNNING"}
    BY DEF wait, States
  <1> QED BY <1>1, StateStep DEF wait

LEMMA WakeupStep ==
  ASSUME SchedInv, NEW i \in Slots, wakeup(i)
  PROVE  SchedInv'
  <1>1. proc[i].state = "SLEEPING" /\ "RUNNABLE" \in States \ {"RUNNING"}
        /\ proc[i].state \in States \ {"RUNNING"}
    BY DEF wakeup, States
  <1> QED BY <1>1, StateStep DEF wakeup

LEMMA PriorityStep ==
  ASSUME SchedInv, NEW c \in Cpus, NEW i \in Slots, NEW n \in Nat,
         set_priority(c, i, n)
  PROVE  SchedInv'
  <1> DEFINE p == [proc[i] EXCEPT !.sched.tickets = n]
  <1>0. /\ proc \in [Slots -> SlotRecords] /\ slice \in [Cpus -> 0 .. MAX_LATENCY]
        /\ Sound(proc[i])
    BY DEF SchedInv, SchedTypeOK, SlotRecords, SoundInv
  <1>1. /\ n >= MIN_TICKETS /\ n <= MAX_TICKETS /\ proc' = [proc EXCEPT ![i].sched.tickets = n]
        /\ running' = running /\ slice' = slice /\ policy' = policy /\ cpus' = cpus
        /\ schedLatency' = schedLatency /\ cursor' = cursor /\ randstate' = randstate
        /\ forking' = forking
    BY DEF set_priority
  <1>2. /\ p \in SlotRecords /\ p.state = proc[i].state /\ p.sched.tickets = n
        /\ p.sched.rt = proc[i].sched.rt /\ p.sched.new = proc[i].sched.new
        /\ proc' = [proc EXCEPT ![i] = p]
    BY <1>0, <1>1 DEF SlotRecords
  <1> HIDE DEF p
  <1>3. Sound(p)
    <2>1. n \in MIN_TICKETS .. MAX_TICKETS
      BY <1>1, SchedNumbers
    <2> QED BY <1>0, <1>2, <2>1 DEF Sound
  <1>4. EmbryoInv' /\ forking' \in [Slots -> Slots \cup {NoProc}]
    BY <1>1, <1>2, EmbryosStay
  <1>5. \A d \in Cpus : IF running[d] = i THEN p.sched.rt + slice'[d] < MAX_TS + MAX_LATENCY
                                          ELSE slice'[d] = slice[d]
    <2>1. ASSUME NEW d \in Cpus, running[d] = i
          PROVE  proc[i].sched.rt + slice[d] < MAX_TS + MAX_LATENCY
      BY <2>1, RunnerIs, SchedNumbers
    <2> QED BY <1>1, <1>2, <2>1
  <1> QED BY <1>0, <1>1, <1>2, <1>3, <1>4, <1>5, SlotChanges

LEMMA LatencyStep ==
  ASSUME SchedInv, NEW c \in Cpus, NEW n \in Nat, set_schedlatency(c, n)
  PROVE  SchedInv'
  <1>1. /\ schedLatency' \in 1 .. MAX_LATENCY /\ proc' = proc
        /\ running' = running /\ slice' = slice /\ policy' = policy /\ cpus' = cpus
        /\ cursor' = cursor /\ randstate' = randstate /\ forking' = forking
    BY SchedNumbers DEF set_schedlatency
  <1>2. SchedTypeOK' /\ RunsOnce'
    BY <1>1 DEF SchedInv, SchedTypeOK, RunsOnce, Slots, States, Period
  <1>3. SoundInv'
    <2>1. ASSUME NEW j \in Slots PROVE Sound(proc[j])'
      <3>1. Sound(proc[j])
        BY DEF SchedInv, SoundInv
      <3> QED BY <1>1, <3>1 DEF Sound
    <2> QED BY <2>1 DEF SoundInv, Slots
  <1>4. SliceInv' /\ EmbryoInv'
    BY <1>1 DEF SchedInv, SliceInv, EmbryoInv, Slots
  <1> QED BY <1>2, <1>3, <1>4 DEF SchedInv

LEMMA SchedStutter ==
  ASSUME SchedInv, UNCHANGED schedVars
  PROVE  SchedInv'
  <1>1. /\ schedLatency' = schedLatency /\ proc' = proc
        /\ running' = running /\ slice' = slice /\ policy' = policy /\ cpus' = cpus
        /\ cursor' = cursor /\ randstate' = randstate /\ forking' = forking
    BY DEF schedVars
  <1>2. SchedTypeOK' /\ RunsOnce'
    BY <1>1 DEF SchedInv, SchedTypeOK, RunsOnce, Slots, States, Period
  <1>3. SoundInv'
    <2>1. ASSUME NEW j \in Slots PROVE Sound(proc[j])'
      <3>1. Sound(proc[j])
        BY DEF SchedInv, SoundInv
      <3> QED BY <1>1, <3>1 DEF Sound
    <2> QED BY <2>1 DEF SoundInv, Slots
  <1>4. SliceInv' /\ EmbryoInv'
    BY <1>1 DEF SchedInv, SliceInv, EmbryoInv, Slots
  <1> QED BY <1>2, <1>3, <1>4 DEF SchedInv

LEMMA SchedStep ==
  ASSUME SchedInv, [SchedNext]_schedVars
  PROVE  SchedInv'
  <1>0. cpus \subseteq Cpus
    BY DEF SchedInv, SchedTypeOK
  <1>1. Asked \subseteq Nat
    <2>1. Max({MAX_TICKETS, MAX_LATENCY}) \in Nat
      <3>1. /\ MAX_TICKETS \in Nat /\ MAX_LATENCY \in Nat
            /\ MAX_TICKETS \in Int /\ MAX_LATENCY \in Int
        BY SchedNumbers
      <3>2. Max({MAX_TICKETS, MAX_LATENCY}) \in {MAX_TICKETS, MAX_LATENCY}
        BY <3>1, MaxOfTwo
      <3> QED BY <3>1, <3>2
    <2> QED BY <2>1 DEF Asked
  <1>2. ASSUME NEW c \in cpus, Scheduler(c) PROVE SchedInv'
    BY <1>0, <1>2, SchedulerStep
  <1>3. ASSUME NEW c \in cpus, Tick(c) PROVE SchedInv'
    BY <1>0, <1>3, TickStep
  <1>4. ASSUME NEW c \in cpus, Yield(c) PROVE SchedInv'
    BY <1>0, <1>4, YieldStep
  <1>5. ASSUME NEW c \in cpus, SystemCall(c) PROVE SchedInv'
    <2>0. c \in Cpus
      BY <1>0
    <2>1. CASE allocproc(c)
      BY <2>0, <2>1, AllocStep
    <2>2. CASE EndFork(c, "RUNNABLE") \/ EndFork(c, "UNUSED")
      BY <2>0, <2>2, EndForkStep
    <2>3. CASE exit(c) \/ sleep(c)
      BY <2>0, <2>3, LeaveStep
    <2>4. CASE \E i \in Slots : wait(c, i)
      BY <2>0, <2>4, WaitStep
    <2>5. CASE \E i \in Slots, n \in Asked : set_priority(c, i, n)
      BY <1>1, <2>0, <2>5, PriorityStep
    <2>6. CASE \E n \in Asked : set_schedlatency(c, n)
      BY <1>1, <2>0, <2>6, LatencyStep
    <2> QED BY <1>5, <2>1, <2>2, <2>3, <2>4, <2>5, <2>6 DEF SystemCall
  <1>6. ASSUME NEW i \in Slots, wakeup(i) PROVE SchedInv'
    BY <1>6, WakeupStep
  <1>7. CASE UNCHANGED schedVars
    BY <1>7, SchedStutter
  <1> QED BY <1>2, <1>3, <1>4, <1>5, <1>6, <1>7 DEF SchedNext

LEMMA SchedStarts ==
  ASSUME SchedInit
  PROVE  SchedInv
  <1>0. /\ Slots = 1 .. NPROC /\ NPROC \in Nat /\ NoProc \notin Slots
        /\ MIN_TICKETS \in Nat /\ MAX_TICKETS \in Nat /\ MIN_TICKETS <= MAX_TICKETS
        /\ MAX_TS \in Nat \ {0} /\ MAX_LATENCY \in Nat \ {0} /\ Period \in Nat \ {0}
    BY SchedNumbers, PeriodIs
  <1>1. /\ policy \in {"rr", "lottery", "hybrid"} /\ cpus \subseteq Cpus
    BY MachineAssumption DEF SchedInit
  <1>2. schedLatency \in 1 .. MAX_LATENCY
    <2>1. {2, MAX_LATENCY} \in SUBSET Nat
      BY <1>0
    <2>2. Min({2, MAX_LATENCY}) \in {2, MAX_LATENCY}
          /\ Min({2, MAX_LATENCY}) <= MAX_LATENCY
      BY <2>1, MinSlot
    <2> QED BY <1>0, <2>2 DEF SchedInit
  <1>3. \A i \in Slots : /\ proc[i] \in SlotRecords /\ proc[i].state # "RUNNING"
                               /\ proc[i].sched.tickets = MIN_TICKETS /\ proc[i].sched.rt = 0
    BY <1>0 DEF SchedInit, SlotRecords, States, init_sched_data
  <1>4. /\ proc \in [Slots -> SlotRecords]
        /\ running = [c \in Cpus |-> NoProc] /\ slice = [c \in Cpus |-> 0]
        /\ cursor = [c \in Cpus |-> 1] /\ forking = [i \in Slots |-> NoProc]
        /\ randstate = 1 % Period
    BY <1>3 DEF SchedInit
  <1>5. SchedTypeOK
    BY <1>0, <1>1, <1>2, <1>4 DEF SchedTypeOK, SlotRecords
  <1>6. SoundInv
    BY <1>0, <1>3 DEF SoundInv, Sound
  <1>7. RunsOnce
    BY <1>0, <1>3, <1>4 DEF RunsOnce
  <1>8. SliceInv /\ EmbryoInv
    BY <1>4 DEF SliceInv, EmbryoInv
  <1> QED BY <1>5, <1>6, <1>7, <1>8 DEF SchedInv

LEMMA SchedAlways == SchedSpec => []SchedInv
  <1>1. SchedInit => SchedInv
    BY SchedStarts
  <1>2. SchedInv /\ [SchedNext]_schedVars => SchedInv'
    BY SchedStep
  <1> QED BY <1>1, <1>2, PTL DEF SchedSpec

\* No two CPUs run one process and no process is lost between them, every process in use
\* holds a legal number of tickets, and the hybrid scheduler's penalty is never put off by
\* more than a slice: whatever the processes ask for, and for every size of table, number
\* of CPUs and limit (rr_scheduler(), lottery_scheduler(), hybrid_scheduler(), trap()).
THEOREM SchedulersConsistent == SchedSpec => []SchedConsistent
  <1>1. SchedInv => SchedConsistent
    <2> SUFFICES ASSUME SchedInv PROVE SchedConsistent
      OBVIOUS
    <2>1. TicketsLegal /\ PenaltyInTime
      BY DEF SchedInv, SoundInv, Sound, TicketsLegal, PenaltyInTime
    <2> QED BY <2>1 DEF SchedInv, SchedConsistent
  <1> QED BY <1>1, SchedAlways, PTL

-----------------------------------------------------------------------------
(* A full period of rand() *)

\* Outputs are what their definition says.
LEMMA OutputsAre ==
  ASSUME SchedTypeOK
  PROVE  /\ Outputs \in [0 .. Period -> 0 .. Period - 1]
         /\ Outputs[0] = randstate
         /\ \A n \in Nat : n + 1 <= Period =>
              Outputs[n + 1] = rand(Outputs[n])
  <1> DEFINE M == Period
             O == Outputs
             F(x) == rand(x)
             g == [n \in Nat |-> [x \in Nat |-> F(x)]]
  <1>0. M \in Nat \ {0} /\ randstate \in 0 .. M - 1
    BY PeriodIs DEF SchedTypeOK
  <1>1. \A x \in Nat : F(x) \in 0 .. M - 1
    BY PeriodIs
  <1> HIDE DEF M, F
  <1>2. O = [n \in 0 .. M |-> IF n = 0 THEN randstate ELSE F(O[n - 1])]
    <2>1. g \in [Nat -> [Nat -> Nat]]
      BY <1>0, <1>1
    <2>2. PICK f \in [Nat -> Nat] : f[0] = randstate /\ \A n \in Nat : f[n + 1] = g[n + 1][f[n]]
      <3>1. Computes(Nat, randstate, g) # {}
        <4>1. randstate \in Nat
          BY <1>0
        <4> HIDE DEF g
        <4> QED BY <2>1, <4>1, Recursion
      <3> HIDE DEF g
      <3> QED BY <3>1 DEF Computes
    <2> DEFINE h == [n \in 0 .. M |-> f[n]]
    <2>3. ASSUME NEW n \in 0 .. M PROVE h[n] = IF n = 0 THEN randstate ELSE F(h[n - 1])
      <3>1. CASE n = 0
        BY <2>2, <3>1
      <3>2. CASE n # 0
        <4>1. n \in Nat /\ n - 1 \in 0 .. M /\ n - 1 \in Nat /\ (n - 1) + 1 = n
          BY <1>0, <3>2
        <4>2. f[(n - 1) + 1] = g[(n - 1) + 1][f[n - 1]] /\ f[n - 1] \in Nat
          <5> HIDE DEF g
          <5> QED BY <2>2, <4>1
        <4>3. f[n] = g[n][f[n - 1]]
          <5> HIDE DEF g
          <5> QED BY <4>1, <4>2
        <4>4. f[n] = F(f[n - 1])
          BY <4>1, <4>2, <4>3
        <4> QED BY <3>2, <4>1, <4>4
      <3> QED BY <3>1, <3>2
    <2>4. h = [n \in 0 .. M |-> IF n = 0 THEN randstate ELSE F(h[n - 1])]
      <3>1. h \in [0 .. M -> Nat]
        BY <1>0, <2>2
      <3> HIDE DEF h
      <3> QED BY <2>3, <3>1
    <2>5. \E u : u = [n \in 0 .. M |-> IF n = 0 THEN randstate ELSE F(u[n - 1])]
      <3> HIDE DEF h
      <3> QED BY <2>4
    <2>6. O = CHOOSE u : u = [n \in 0 .. M |-> IF n = 0 THEN randstate ELSE F(u[n - 1])]
      BY DEF Outputs, M, F
    <2> HIDE DEF O
    <2> QED BY <2>5, <2>6
  <1> HIDE DEF O
  <1>3. O[0] = randstate
    BY <1>0, <1>2
  <1>4. ASSUME NEW n \in Nat, n + 1 <= M PROVE O[n + 1] = F(O[n])
    <2>1. n + 1 \in 0 .. M /\ n + 1 # 0 /\ (n + 1) - 1 = n
      BY <1>0, <1>4
    <2>2. O[n + 1] = F(O[(n + 1) - 1])
      BY <1>2, <2>1
    <2> QED BY <2>1, <2>2
  <1>5. \A n \in Nat : n <= M => O[n] \in 0 .. M - 1
    <2> DEFINE S == {n \in Nat : n <= M => O[n] \in 0 .. M - 1}
    <2>1. 0 \in S
      BY <1>0, <1>3
    <2>2. ASSUME NEW n \in Nat, n \in S PROVE n + 1 \in S
      <3> SUFFICES ASSUME n + 1 <= M PROVE O[n + 1] \in 0 .. M - 1
        OBVIOUS
      <3>1. n <= M
        BY <1>0
      <3>2. O[n] \in Nat
        BY <1>0, <2>2, <3>1
      <3> QED BY <1>1, <1>4, <3>2
    <2> HIDE DEF S
    <2>3. \A n \in Nat : n \in S
      BY <2>1, <2>2, Induction
    <2> QED BY <2>3 DEF S
  <1>6. O \in [0 .. M -> 0 .. M - 1]
    <2>1. \A n \in 0 .. M : O[n] \in 0 .. M - 1
      BY <1>0, <1>5
    <2> QED BY <1>2, <2>1
  <1> QED BY <1>3, <1>4, <1>6 DEF O, M, F

\* A generator that goes on without the modulus.
Generates(X) ==
    X \in [Nat -> Nat] /\ \A n \in Nat : X[n + 1] = X[n] * 1664525 + 1013904223

LEMMA UnboundedIs ==
  ASSUME randstate \in Nat
  PROVE  \E X : Generates(X) /\ X[0] = randstate
  <1> DEFINE g == [n \in Nat |-> [x \in Nat |-> x * 1664525 + 1013904223]]
  <1>1. g \in [Nat -> [Nat -> Nat]]
    OBVIOUS
  <1>2. Computes(Nat, randstate, g) # {}
    <2> HIDE DEF g
    <2> QED BY <1>1, Recursion
  <1>3. PICK X \in [Nat -> Nat] : X[0] = randstate /\ \A n \in Nat : X[n + 1] = g[n + 1][X[n]]
    <2> HIDE DEF g
    <2> QED BY <1>2 DEF Computes
  <1>4. ASSUME NEW n \in Nat PROVE X[n + 1] = X[n] * 1664525 + 1013904223
    <2>1. X[n] \in Nat /\ n + 1 \in Nat
      OBVIOUS
    <2>2. g[n + 1][X[n]] = X[n] * 1664525 + 1013904223
      BY <2>1
    <2> HIDE DEF g
    <2> QED BY <1>3, <2>2
  <1>5. Generates(X)
    BY <1>4 DEF Generates
  <1> QED BY <1>3, <1>5

\* What 2^k steps do to it: multiply by one more than a multiple of 4 * 2^k, and add
\* an odd multiple of 2^k.
Leaps(X, q, u, v) ==
    \A n \in Nat : X[n + q] = X[n] + 4 * (q * (u * X[n])) + q * (1 + 2 * v)

LEMMA LeapTwice ==
  ASSUME NEW x \in Nat, NEW y \in Nat, NEW z \in Nat, NEW q \in Nat, NEW u \in Nat, NEW v \in Nat,
         y = x + 4 * (q * (u * x)) + q * (1 + 2 * v),
         z = y + 4 * (q * (u * y)) + q * (1 + 2 * v)
  PROVE  z = x + 4 * ((2 * q) * ((u + 2 * (q * (u * u))) * x))
               + (2 * q) * (1 + 2 * (v + q * u + 2 * (v * (q * u))))
  OBVIOUS

LEMMA LeapsExist ==
  ASSUME NEW X, Generates(X), NEW k \in Nat
  PROVE  \E u, v \in Nat : Leaps(X, Power2[k], u, v)
  <1> DEFINE P == Power2
             S == {n \in Nat : \E u, v \in Nat : Leaps(X, P[n], u, v)}
  <1>0. P \in [Nat -> Nat \ {0}] /\ P[0] = 1 /\ \A n \in Nat : P[n + 1] = 2 * P[n]
    BY PowerIs
  <1> HIDE DEF P
  <1>1. 0 \in S
    <2>1. ASSUME NEW n \in Nat
          PROVE  X[n + 1] = X[n] + 4 * (1 * (416131 * X[n])) + 1 * (1 + 2 * 506952111)
      <3>1. X[n] \in Nat /\ X[n + 1] = X[n] * 1664525 + 1013904223
        BY DEF Generates
      <3> QED BY <3>1
    <2>2. Leaps(X, P[0], 416131, 506952111)
      BY <1>0, <2>1 DEF Leaps
    <2>3. 416131 \in Nat /\ 506952111 \in Nat
      OBVIOUS
    <2> QED BY <2>2, <2>3
  <1>2. ASSUME NEW n \in Nat, n \in S PROVE n + 1 \in S
    <2> DEFINE q == P[n]
    <2>1. PICK u \in Nat, v \in Nat : Leaps(X, q, u, v)
      BY <1>2
    <2> DEFINE uu == u + 2 * (q * (u * u))
               vv == v + q * u + 2 * (v * (q * u))
    <2>2. q \in Nat /\ P[n + 1] = 2 * q
      BY <1>0
    <2> HIDE DEF q
    <2>3. uu \in Nat /\ vv \in Nat
      BY <2>2
    <2>4. ASSUME NEW m \in Nat
          PROVE  X[m + 2 * q] = X[m] + 4 * ((2 * q) * (uu * X[m])) + (2 * q) * (1 + 2 * vv)
      <3>1. m + q \in Nat /\ m + 2 * q = (m + q) + q /\ m + 2 * q \in Nat
        BY <2>2
      <3>2. X[m] \in Nat /\ X[m + q] \in Nat /\ X[m + 2 * q] \in Nat
        BY <3>1 DEF Generates
      <3>3. X[m + q] = X[m] + 4 * (q * (u * X[m])) + q * (1 + 2 * v)
        BY <2>1 DEF Leaps
      <3>4. X[(m + q) + q] = X[m + q] + 4 * (q * (u * X[m + q])) + q * (1 + 2 * v)
        BY <2>1, <3>1 DEF Leaps
      <3>5. X[m + 2 * q] = X[m + q] + 4 * (q * (u * X[m + q])) + q * (1 + 2 * v)
        BY <3>1, <3>4
      <3> DEFINE x == X[m]
                 y == X[m + q]
                 z == X[m + 2 * q]
      <3>6. x \in Nat /\ y \in Nat /\ z \in Nat
            /\ y = x + 4 * (q * (u * x)) + q * (1 + 2 * v)
            /\ z = y + 4 * (q * (u * y)) + q * (1 + 2 * v)
        BY <3>2, <3>3, <3>5
      <3> HIDE DEF x, y, z
      <3>7. z = x + 4 * ((2 * q) * (uu * x)) + (2 * q) * (1 + 2 * vv)
        BY <2>2, <3>6, LeapTwice
      <3> QED BY <3>7 DEF x, z
    <2> HIDE DEF uu, vv
    <2>5. Leaps(X, P[n + 1], uu, vv)
      BY <2>2, <2>4 DEF Leaps
    <2> QED BY <2>3, <2>5
  <1>3. \A n \in Nat : n \in S
    <2> HIDE DEF S
    <2> QED BY <1>1, <1>2, Induction
  <1> QED BY <1>3 DEF P

\* From n, q * m steps lead q * m further, but for an even multiple of q.
Way(X, q, n, m) == \E w \in Nat : X[n + q * m] = X[n] + q * m + 2 * (q * w)

\* m leaps of 2^k are a way of 2^k times m, to the next power of two.
LEMMA ManyLeaps ==
  ASSUME NEW X, Generates(X), NEW q \in Nat, NEW u \in Nat, NEW v \in Nat, Leaps(X, q, u, v),
         NEW n \in Nat, NEW m \in Nat
  PROVE  Way(X, q, n, m)
  <1> DEFINE S == {j \in Nat : \E w \in Nat : X[n + q * j] = X[n] + q * j + 2 * (q * w)}
  <1>1. 0 \in S
    <2>1. X[n] \in Nat /\ q * 0 = 0 /\ n + 0 = n
      BY DEF Generates
    <2>2. X[n + q * 0] = X[n] + q * 0 + 2 * (q * 0)
      BY <2>1
    <2> QED BY <2>2
  <1>2. ASSUME NEW j \in Nat, j \in S PROVE j + 1 \in S
    <2>1. PICK w \in Nat : X[n + q * j] = X[n] + q * j + 2 * (q * w)
      BY <1>2
    <2> DEFINE y == X[n + q * j]
               ww == w + 2 * (u * y) + v
    <2>2. q * j \in Nat /\ n + q * j \in Nat /\ n + q * (j + 1) = (n + q * j) + q
      OBVIOUS
    <2>3. y \in Nat /\ X[n] \in Nat
      BY <2>2 DEF Generates
    <2>4. X[n + q * (j + 1)] = y + 4 * (q * (u * y)) + q * (1 + 2 * v)
      BY <2>2 DEF Leaps
    <2>5. y = X[n] + q * j + 2 * (q * w)
      BY <2>1
    <2> HIDE DEF y
    <2>6. ww \in Nat
      BY <2>3
    <2>7. y + 4 * (q * (u * y)) + q * (1 + 2 * v) = X[n] + q * (j + 1) + 2 * (q * ww)
      <3>1. 2 * (q * ww) = 2 * (q * w) + 4 * (q * (u * y)) + 2 * (q * v)
        BY <2>3
      <3>2. q * (j + 1) = q * j + q /\ q * (1 + 2 * v) = q + 2 * (q * v)
        OBVIOUS
      <3>3. q * w \in Nat /\ q * (u * y) \in Nat /\ q * v \in Nat /\ q * j \in Nat
        BY <2>3
      <3> HIDE DEF ww
      <3> QED BY <2>3, <2>5, <3>1, <3>2, <3>3
    <2> HIDE DEF ww
    <2>8. X[n + q * (j + 1)] = X[n] + q * (j + 1) + 2 * (q * ww)
      BY <2>4, <2>7
    <2>9. \E e \in Nat : X[n + q * (j + 1)] = X[n] + q * (j + 1) + 2 * (q * e)
      <3> DEFINE lhs == X[n + q * (j + 1)]
                 rhs == X[n] + q * (j + 1)
      <3>1. lhs = rhs + 2 * (q * ww)
        BY <2>8
      <3> HIDE DEF lhs, rhs
      <3>2. \E e \in Nat : lhs = rhs + 2 * (q * e)
        BY <2>6, <3>1
      <3> QED BY <3>2 DEF lhs, rhs
    <2>10. j + 1 \in Nat
      OBVIOUS
    <2> QED BY <2>9, <2>10
  <1>3. \A j \in Nat : j \in S
    <2> HIDE DEF S
    <2> QED BY <1>1, <1>2, Induction
  <1> QED BY <1>3 DEF Way

\* The same number modulo 2^k comes only after a multiple of 2^k steps.
LEMMA ComesBack ==
  ASSUME NEW X, Generates(X), NEW k \in Nat, NEW n \in Nat, NEW d \in Nat, NEW z \in Int,
         X[n + d] = X[n] + Power2[k] * z
  PROVE  \E m \in Nat : d = Power2[k] * m
  <1> DEFINE P == Power2
             S == {j \in Nat : \A i, e \in Nat : \A y \in Int :
                                 X[i + e] = X[i] + P[j] * y => \E m \in Nat : e = P[j] * m}
  <1>0. P \in [Nat -> Nat \ {0}] /\ P[0] = 1 /\ \A j \in Nat : P[j + 1] = 2 * P[j]
    BY PowerIs
  <1>x. \A j \in Nat : \E u, v \in Nat : Leaps(X, P[j], u, v)
    BY LeapsExist
  <1> HIDE DEF P
  <1>1. 0 \in S
    BY <1>0
  <1>2. ASSUME NEW j \in Nat, j \in S PROVE j + 1 \in S
    <2> SUFFICES ASSUME NEW i \in Nat, NEW e \in Nat, NEW y \in Int,
                        X[i + e] = X[i] + P[j + 1] * y
                 PROVE  \E m \in Nat : e = P[j + 1] * m
      OBVIOUS
    <2>0. PICK q \in Nat : q # 0 /\ P[j] = q /\ P[j + 1] = 2 * q
      BY <1>0
    <2>1. PICK u \in Nat, v \in Nat : Leaps(X, q, u, v)
      <3>1. \E u, v \in Nat : Leaps(X, P[j], u, v)
        BY <1>x
      <3> QED BY <2>0, <3>1
    <2>2. X[i + e] = X[i] + q * (2 * y)
      <3>1. (2 * q) * y = q * (2 * y)
        BY <2>0
      <3> QED BY <2>0, <3>1
    <2>3. PICK m \in Nat : e = q * m
      <3>1. 2 * y \in Int
        OBVIOUS
      <3> QED BY <1>2, <2>0, <2>2, <3>1
    <2>4. PICK w \in Nat : X[i + q * m] = X[i] + q * m + 2 * (q * w)
      <3>1. Way(X, q, i, m)
        BY <2>1, ManyLeaps
      <3> QED BY <3>1 DEF Way
    <2>5. q * m + 2 * (q * w) = q * (2 * y)
      <3>1. X[i] \in Nat /\ q * m \in Nat /\ q * w \in Nat /\ q * (2 * y) \in Int
        BY <2>0 DEF Generates
      <3> QED BY <2>2, <2>3, <2>4, <3>1
    <2>6. m = 2 * (y - w)
      <3>1. q * (m + 2 * w) = q * (2 * y)
        BY <2>0, <2>5
      <3>2. m + 2 * w = 2 * y
        BY <2>0, <3>1
      <3> QED BY <3>2
    <2>7. y - w \in Nat
      BY <2>6
    <2>8. e = (2 * q) * (y - w)
      BY <2>0, <2>3, <2>6, <2>7
    <2> QED BY <2>0, <2>7, <2>8
  <1>3. \A j \in Nat : j \in S
    <2> HIDE DEF S
    <2> QED BY <1>1, <1>2, Induction
  <1>4. k \in S
    <2> HIDE DEF S
    <2> QED BY <1>3
  <1> QED BY <1>4 DEF P

\* What rand() returns is a generator's value without the multiples of the modulus.
LEMMA OutputsFollow ==
  ASSUME SchedTypeOK, NEW X, Generates(X), X[0] = randstate
  PROVE  \A n \in Nat : n <= Period =>
           \E q \in Nat : X[n] = Outputs[n] + Period * q
  <1> DEFINE M == Period
             O == Outputs
             S == {n \in Nat : n <= M => \E q \in Nat : X[n] = O[n] + M * q}
  <1> HIDE DEF M, O
  <1>0. M \in Nat \ {0} /\ O \in [0 .. M -> 0 .. M - 1] /\ O[0] = X[0]
    BY PeriodIs, OutputsAre DEF M, O
  <1>4. ASSUME NEW n \in Nat, n + 1 <= M
        PROVE  O[n + 1] = (O[n] * 1664525 + 1013904223) % M
    <2>1. O[n + 1] = rand(O[n])
      BY <1>4, OutputsAre DEF M, O
    <2> QED BY <2>1, SMT DEF rand, M
  <1>1. 0 \in S
    <2>1. M * 0 = 0 /\ O[0] \in Nat /\ O[0] + 0 = O[0]
      BY <1>0
    <2>2. X[0] = O[0] + M * 0
      BY <1>0, <2>1
    <2>3. \E q \in Nat : X[0] = O[0] + M * q
      BY <2>2
    <2> QED BY <2>3
  <1>2. ASSUME NEW n \in Nat, n \in S PROVE n + 1 \in S
    <2> SUFFICES ASSUME n + 1 <= M PROVE \E q \in Nat : X[n + 1] = O[n + 1] + M * q
      OBVIOUS
    <2>1. n <= M /\ n \in 0 .. M /\ n + 1 \in 0 .. M
      BY <1>0
    <2>2. PICK q \in Nat : X[n] = O[n] + M * q
      BY <1>2, <2>1
    <2> DEFINE o == O[n]
               y == o * 1664525 + 1013904223
               d == y \div M
               e == q * 1664525
    <2>3. o \in Nat /\ X[n] = o + M * q
      BY <1>0, <2>1, <2>2
    <2>4. X[n + 1] = X[n] * 1664525 + 1013904223 /\ O[n + 1] = y % M
      <3>1. X[n + 1] = X[n] * 1664525 + 1013904223
        <4> HIDE DEF S
        <4>1. \A k \in Nat : X[k + 1] = X[k] * 1664525 + 1013904223
          BY DEF Generates
        <4> QED BY <4>1
      <3>2. O[n + 1] = y % M
        BY <1>4
      <3> QED BY <3>1, <3>2
    <2> HIDE DEF o
    <2>5. y \in Nat /\ e \in Nat
      BY <2>3
    <2>6. X[n + 1] = y + M * e
      BY <1>0, <2>3, <2>4
    <2> HIDE DEF y, e
    <2>7. d \in Nat /\ y = M * d + (y % M) /\ y % M \in Nat
      <3>1. M \in Nat \ {0} /\ y \in Nat
        BY <1>0, <2>5
      <3> HIDE DEF S
      <3> QED BY <3>1
    <2> HIDE DEF d
    <2>8. X[n + 1] = O[n + 1] + M * (d + e) /\ d + e \in Nat
      <3>1. M * (d + e) = M * d + M * e /\ M * d \in Nat /\ M * e \in Nat
        BY <1>0, <2>5, <2>7
      <3> QED BY <2>4, <2>5, <2>6, <2>7, <3>1
    <2> QED BY <2>8
  <1>3. \A n \in Nat : n \in S
    <2> HIDE DEF S
    <2> QED BY <1>1, <1>2, Induction
  <1> QED BY <1>3 DEF M, O

\* Within a period no number comes twice.
LEMMA OutputsDiffer ==
  ASSUME SchedTypeOK,
         NEW i \in 1 .. Period, NEW j \in 1 .. Period, i < j
  PROVE  Outputs[i] # Outputs[j]
  <1> SUFFICES ASSUME Outputs[i] = Outputs[j] PROVE FALSE
    OBVIOUS
  <1> DEFINE M == Period
             O == Outputs
  <1>0. /\ M \in Nat \ {0} /\ O \in [0 .. M -> 0 .. M - 1]
        /\ randstate \in Nat /\ BITS \in Nat /\ M = Power2[BITS]
    <2>1. M \in Nat \ {0} /\ O \in [0 .. M -> 0 .. M - 1]
      BY PeriodIs, OutputsAre
    <2>2. randstate \in Nat /\ BITS \in Nat
      BY PeriodIs, TableAssumption DEF SchedTypeOK
    <2>3. M = Power2[BITS]
      BY DEF Period
    <2> HIDE DEF M, O
    <2> QED BY <2>1, <2>2, <2>3
  <1>1. PICK X : Generates(X) /\ X[0] = randstate
    BY <1>0, UnboundedIs
  <1>2. Generates(X)
    BY <1>1
  <1>3. \A n \in Nat : n <= M => \E q \in Nat : X[n] = O[n] + M * q
    BY <1>1, <1>2, OutputsFollow
  <1>e. O[i] = O[j] /\ i \in 1 .. M /\ j \in 1 .. M
    OBVIOUS
  <1> HIDE DEF M, O
  <1>4. i \in Nat /\ j \in Nat /\ i <= M /\ j <= M /\ i \in 0 .. M
        /\ j - i \in Nat /\ j = i + (j - i) /\ j - i > 0 /\ j - i < M
    BY <1>0, <1>e
  <1>5. PICK a \in Nat : X[i] = O[i] + M * a
    BY <1>3, <1>4
  <1>6. PICK b \in Nat : X[j] = O[j] + M * b
    BY <1>3, <1>4
  <1>7. O[i] \in Nat
    BY <1>0, <1>4
  <1>8. X[j] = X[i] + M * (b - a) /\ b - a \in Int
    <2>1. M * (b - a) = M * b - M * a /\ M * a \in Nat /\ M * b \in Nat
      BY <1>0
    <2> QED BY <1>e, <1>5, <1>6, <1>7, <2>1
  <1> DEFINE d == j - i
             z == b - a
  <1>9. X[i + d] = X[i] + Power2[BITS] * z /\ d \in Nat /\ z \in Int
    BY <1>0, <1>4, <1>8
  <1>10. d > 0 /\ d < M
    BY <1>4
  <1> HIDE DEF d, z
  <1>11. \E m \in Nat : d = Power2[BITS] * m
    BY <1>0, <1>2, <1>4, <1>9, ComesBack
  <1>12. PICK m \in Nat : d = M * m
    BY <1>0, <1>11
  <1>13. m # 0 => M * m >= M
    BY <1>0
  <1>14. m = 0 => M * m = 0
    BY <1>0
  <1>15. d \in Nat /\ M \in Nat
    BY <1>0, <1>9
  <1>16. d = 0 \/ d >= M
    BY <1>12, <1>13, <1>14
  <1> QED BY <1>10, <1>15, <1>16

\* Within a period every number comes.
LEMMA OutputsCover ==
  ASSUME SchedTypeOK
  PROVE  [n \in 1 .. Period |-> Outputs[n]]
           \in Bijection(1 .. Period, 0 .. Period - 1)
  <1> DEFINE M == Period
             O == Outputs
             f == [n \in 1 .. M |-> O[n]]
  <1>0. M \in Nat \ {0} /\ O \in [0 .. M -> 0 .. M - 1]
    BY PeriodIs, OutputsAre
  <1>1. \A i, j \in 1 .. M : i < j => O[i] # O[j]
    BY OutputsDiffer
  <1> HIDE DEF M, O
  <1>2. \A i, j \in 1 .. M : O[i] = O[j] => i = j
    <2> SUFFICES ASSUME NEW i \in 1 .. M, NEW j \in 1 .. M, O[i] = O[j] PROVE i = j
      OBVIOUS
    <2>1. ~(i < j) /\ ~(j < i)
      BY <1>1
    <2> QED BY <2>1, <1>0
  <1>3. f \in [1 .. M -> 0 .. M - 1]
    BY <1>0
  <1>4. f \in Injection(1 .. M, 0 .. M - 1)
    BY <1>2, <1>3 DEF Injection, IsInjective
  <1>5. /\ IsFiniteSet(1 .. M) /\ IsFiniteSet(0 .. M - 1)
        /\ Cardinality(1 .. M) = M /\ Cardinality(0 .. M - 1) = M
    <2>1. 0 \in Int /\ 1 \in Int /\ M \in Int /\ M - 1 \in Int /\ ~(1 > M) /\ ~(0 > M - 1)
          /\ M - 1 + 1 = M /\ M - 1 - 0 + 1 = M
      BY <1>0
    <2> QED BY <2>1, FS_Interval
  <1> HIDE DEF f
  <1>6. f \in Surjection(1 .. M, 0 .. M - 1)
    BY <1>4, <1>5, FS_Injection
  <1>7. f \in Bijection(1 .. M, 0 .. M - 1)
    BY <1>4, <1>6 DEF Bijection
  <1> QED BY <1>7 DEF f, M, O

-----------------------------------------------------------------------------
(* The share of a process *)

\* How many numbers below M leave a remainder in lo .. hi - 1.
LEMMA Remainders ==
  ASSUME NEW M \in Nat, NEW K \in Nat \ {0}, NEW lo \in Nat, NEW hi \in Nat,
         lo <= hi, hi <= K
  PROVE  LET W == {r \in 0 .. M - 1 : lo <= r % K /\ r % K < hi}
         IN  /\ Cardinality(W) >= (M \div K) * (hi - lo)
             /\ Cardinality(W) <= (M \div K + 1) * (hi - lo)
  <1> DEFINE W == {r \in 0 .. M - 1 : lo <= r % K /\ r % K < hi}
             q == M \div K
             R == lo .. hi - 1
             fewer == (0 .. q - 1) \X R
             more == (0 .. q) \X R
  <1>0. q \in Nat /\ M % K \in 0 .. K - 1 /\ M = K * q + (M % K)
    OBVIOUS
  <1>1. /\ IsFiniteSet(W) /\ Cardinality(W) \in Nat
    <2>1. IsFiniteSet(0 .. M - 1)
      BY FS_Interval
    <2>2. W \in SUBSET (0 .. M - 1)
      OBVIOUS
    <2> HIDE DEF W
    <2> QED BY <2>1, <2>2, FS_Subset, FS_CardinalityType
  <1>2. \A r \in Nat : /\ r \div K \in Nat /\ r % K \in 0 .. K - 1
                       /\ r = K * (r \div K) + (r % K)
    OBVIOUS
  <1>3. \A a \in Nat, b \in 0 .. K - 1 : (K * a + b) % K = b /\ (K * a + b) \div K = a
    OBVIOUS
  <1>m. \A x, y \in Nat : x <= y => K * x <= K * y
    OBVIOUS
  <1>4. /\ IsFiniteSet(R) /\ Cardinality(R) = hi - lo
        /\ IsFiniteSet(0 .. q - 1) /\ Cardinality(0 .. q - 1) = q
        /\ IsFiniteSet(0 .. q) /\ Cardinality(0 .. q) = q + 1
    <2> HIDE DEF q
    <2>1. /\ IsFiniteSet(R)
          /\ Cardinality(R) = IF lo > hi - 1 THEN 0 ELSE (hi - 1) - lo + 1
      BY FS_Interval
    <2>0. q \in Int /\ q - 1 \in Int /\ 0 \in Int
      BY <1>0
    <2>2. /\ IsFiniteSet(0 .. q - 1)
          /\ Cardinality(0 .. q - 1) = IF 0 > q - 1 THEN 0 ELSE (q - 1) - 0 + 1
      BY <2>0, FS_Interval
    <2>3. IsFiniteSet(0 .. q) /\ Cardinality(0 .. q) = IF 0 > q THEN 0 ELSE q - 0 + 1
      BY <2>0, FS_Interval
    <2> HIDE DEF R
    <2> QED BY <1>0, <2>1, <2>2, <2>3
  <1>5. /\ IsFiniteSet(fewer) /\ Cardinality(fewer) = q * (hi - lo)
        /\ IsFiniteSet(more) /\ Cardinality(more) = (q + 1) * (hi - lo)
    <2> HIDE DEF q, R
    <2>1. IsFiniteSet(fewer) /\ Cardinality(fewer) = Cardinality(0 .. q - 1) * Cardinality(R)
      BY <1>4, FS_Product
    <2>2. IsFiniteSet(more) /\ Cardinality(more) = Cardinality(0 .. q) * Cardinality(R)
      BY <1>4, FS_Product
    <2> HIDE DEF fewer, more
    <2> QED BY <1>4, <2>1, <2>2
  <1>6. Cardinality(fewer) <= Cardinality(W)
    <2> DEFINE f == [p \in fewer |-> K * p[1] + p[2]]
    <2> HIDE DEF q
    <2>1. ASSUME NEW p \in fewer
          PROVE  /\ p[1] \in Nat /\ p[1] <= q - 1 /\ p[2] \in lo .. hi - 1
                 /\ p[2] \in 0 .. K - 1 /\ p = <<p[1], p[2]>>
      BY <1>0
    <2>2. ASSUME NEW a \in Nat, a <= q - 1, NEW b \in lo .. hi - 1
          PROVE  K * a + b \in W
      <3>1. (K * a + b) % K = b /\ K * a + b \in Nat
        <4>1. b \in 0 .. K - 1
          OBVIOUS
        <4> QED BY <1>3, <4>1
      <3>2. K * a + b < M
        <4>1. K * a <= K * (q - 1)
          <5>1. q - 1 \in Nat
            BY <1>0, <2>2
          <5> HIDE DEF W, fewer
          <5> QED BY <1>m, <2>2, <5>1
        <4>2. K * (q - 1) = K * q - K /\ K * q \in Nat /\ K * a \in Nat
          BY <1>0
        <4> QED BY <1>0, <4>1, <4>2
      <3> QED BY <3>1, <3>2
    <2>3. f \in [fewer -> W]
      <3>1. ASSUME NEW p \in fewer PROVE K * p[1] + p[2] \in W
        <4> HIDE DEF fewer, W
        <4> QED BY <2>1, <2>2
      <3> HIDE DEF fewer, W
      <3> QED BY <3>1
    <2>4. ASSUME NEW p \in fewer, NEW r \in fewer, f[p] = f[r] PROVE p = r
      <3>1. /\ p[1] \in Nat /\ p[2] \in 0 .. K - 1 /\ p = <<p[1], p[2]>>
            /\ r[1] \in Nat /\ r[2] \in 0 .. K - 1 /\ r = <<r[1], r[2]>>
        <4> HIDE DEF fewer
        <4> QED BY <2>1
      <3>2. K * p[1] + p[2] = K * r[1] + r[2]
        BY <2>4
      <3>3. p[1] = r[1] /\ p[2] = r[2]
        BY <1>3, <3>1, <3>2
      <3> QED BY <3>1, <3>3
    <2> HIDE DEF f, fewer, W
    <2>5. f \in Injection(fewer, W)
      BY <2>3, <2>4 DEF Injection, IsInjective
    <2> QED BY <1>1, <2>5, FS_Injection
  <1>7. Cardinality(W) <= Cardinality(more)
    <2> DEFINE f == [r \in W |-> <<r \div K, r % K>>]
    <2> HIDE DEF q
    <2>1. ASSUME NEW r \in W
          PROVE  r \in Nat /\ <<r \div K, r % K>> \in more
      <3>1. r \in Nat /\ r < M /\ lo <= r % K /\ r % K < hi
        OBVIOUS
      <3> HIDE DEF W
      <3> DEFINE a == r \div K
                 b == r % K
      <3>2. a \in Nat /\ b \in 0 .. K - 1 /\ r = K * a + b
        BY <1>2, <3>1
      <3>3. lo <= b /\ b < hi
        BY <3>1
      <3> HIDE DEF a, b
      <3>4. a <= q
        <4> SUFFICES ASSUME a >= q + 1 PROVE FALSE
          BY <1>0, <3>2
        <4>1. K * a >= K * (q + 1)
          <5>1. q + 1 \in Nat
            BY <1>0
          <5> QED BY <1>m, <3>2, <5>1
        <4>2. K * (q + 1) = K * q + K /\ K * q \in Nat /\ K * a \in Nat
          BY <1>0, <3>2
        <4> QED BY <1>0, <3>1, <3>2, <4>1, <4>2
      <3>5. b \in R /\ a \in 0 .. q
        BY <1>0, <3>2, <3>3, <3>4
      <3> QED BY <3>1, <3>5 DEF a, b
    <2>2. f \in [W -> more]
      <3> HIDE DEF W, more
      <3> QED BY <2>1
    <2>3. ASSUME NEW r \in W, NEW s \in W, f[r] = f[s] PROVE r = s
      <3> HIDE DEF W
      <3>1. r \div K = s \div K /\ r % K = s % K
        BY <2>3
      <3>2. r \in Nat /\ s \in Nat
        BY <2>1
      <3>3. r = K * (r \div K) + (r % K) /\ s = K * (s \div K) + (s % K)
        BY <1>2, <3>2
      <3> QED BY <3>1, <3>3
    <2> HIDE DEF f, more, W
    <2>4. f \in Injection(W, more)
      BY <2>2, <2>3 DEF Injection, IsInjective
    <2> QED BY <1>5, <2>4, FS_Injection
  <1> HIDE DEF q, fewer, more, W
  <1>8. Cardinality(W) >= q * (hi - lo) /\ Cardinality(W) <= (q + 1) * (hi - lo)
    <2>1. q * (hi - lo) \in Int /\ (q + 1) * (hi - lo) \in Int
      BY <1>0
    <2> QED BY <1>1, <1>5, <1>6, <1>7, <2>1
  <1> QED BY <1>8 DEF W, q

\* In a period a process wins as often as there are numbers that it wins with.
LEMMA WinsAre ==
  ASSUME SchedInv, NEW i \in Ready(proc)
  PROVE  Cardinality({n \in 1 .. Period : Winner(Outputs[n]) = i})
         = Cardinality({r \in 0 .. Period - 1 :
                          /\ TicketsUpTo[i - 1] <= r % TotalTickets
                          /\ r % TotalTickets < TicketsUpTo[i]})
  <1> DEFINE M == Period
             O == Outputs
             wins == {n \in 1 .. M : Winner(O[n]) = i}
             In(r) == /\ TicketsUpTo[i - 1] <= r % TotalTickets
                      /\ r % TotalTickets < TicketsUpTo[i]
             W == {r \in 0 .. M - 1 : In(r)}
             f == [n \in 1 .. M |-> O[n]]
             g == [n \in wins |-> O[n]]
  <1>0. M \in Nat \ {0} /\ O \in [0 .. M -> 0 .. M - 1]
    BY PeriodIs, OutputsAre DEF SchedInv
  <1>1. f \in Bijection(1 .. M, 0 .. M - 1)
    BY OutputsCover DEF SchedInv
  <1>2. \A r \in Nat : In(r) <=> Winner(r) = i
    <2> SUFFICES ASSUME NEW r \in Nat PROVE In(r) <=> Winner(r) = i
      OBVIOUS
    <2>1. In(r) => Winner(r) = i
      BY WinnerIs
    <2>2. Winner(r) = i => In(r)
      BY WinnerRange
    <2> QED BY <2>1, <2>2
  <1> HIDE DEF M, O, In
  <1>3. /\ \A n \in 1 .. M : O[n] \in 0 .. M - 1
        /\ \A n, m \in 1 .. M : O[n] = O[m] => n = m
        /\ \A r \in 0 .. M - 1 : \E n \in 1 .. M : O[n] = r
    <2>1. \A n \in 1 .. M : f[n] = O[n] /\ f[n] \in 0 .. M - 1
      BY <1>0
    <2>2. /\ DOMAIN f = 1 .. M
          /\ \A n, m \in DOMAIN f : f[n] = f[m] => n = m
      <3>1. DOMAIN f = 1 .. M
        OBVIOUS
      <3> HIDE DEF f
      <3> QED BY <1>1, <3>1 DEF Bijection, Injection, IsInjective
    <2>3. \A r \in 0 .. M - 1 : \E n \in 1 .. M : f[n] = r
      <3> HIDE DEF f
      <3> QED BY <1>1 DEF Bijection, Surjection
    <2> HIDE DEF f
    <2> QED BY <2>1, <2>2, <2>3
  <1>4. \A r \in 0 .. M - 1 : In(r) <=> Winner(r) = i
    BY <1>0, <1>2
  <1>5. g \in [wins -> W]
    <2>1. ASSUME NEW n \in wins PROVE O[n] \in W
      <3>1. n \in 1 .. M /\ Winner(O[n]) = i
        OBVIOUS
      <3>2. O[n] \in 0 .. M - 1
        BY <1>3, <3>1
      <3> QED BY <1>4, <3>1, <3>2
    <2> HIDE DEF wins, W
    <2> QED BY <2>1
  <1>6. g \in Injection(wins, W)
    <2>1. \A n, m \in wins : g[n] = g[m] => n = m
      BY <1>3
    <2> HIDE DEF g, wins, W
    <2> QED BY <1>5, <2>1 DEF Injection, IsInjective
  <1>7. g \in Surjection(wins, W)
    <2>1. ASSUME NEW r \in W PROVE \E n \in wins : g[n] = r
      <3>1. PICK n \in 1 .. M : O[n] = r
        BY <1>3
      <3>2. Winner(O[n]) = i
        BY <1>4, <3>1
      <3>3. n \in wins
        BY <3>2
      <3>4. g[n] = r
        <4> HIDE DEF wins
        <4> QED BY <3>1, <3>3
      <3> HIDE DEF g, wins
      <3> QED BY <3>3, <3>4
    <2> HIDE DEF g, wins, W
    <2> QED BY <1>5, <2>1 DEF Surjection
  <1>8. IsFiniteSet(wins)
    <2>1. 1 \in Int /\ M \in Int
      BY <1>0
    <2>2. IsFiniteSet(1 .. M)
      BY <2>1, FS_Interval
    <2>3. wins \in SUBSET (1 .. M)
      OBVIOUS
    <2> HIDE DEF wins
    <2> QED BY <2>2, <2>3, FS_Subset
  <1> HIDE DEF g, wins, W
  <1>9. ExistsBijection(wins, W)
    BY <1>6, <1>7 DEF Bijection, ExistsBijection
  <1>10. Cardinality(W) = Cardinality(wins)
    BY <1>8, <1>9, FS_Bijection
  <1> QED BY <1>10 DEF wins, W, In, M, O

\* The lottery is fair: were the processes that are ready now to compete for a full
\* period of rand(), each would win as often as its tickets say, to the remainder of the
\* division; so nobody starves, whatever the state of rand().  The generator visits every
\* state (its multiplier leaves 1 modulo 4 and its increment is odd), and the loop over the
\* table gives each process as many remainders as it has tickets (rand(), the loops of
\* lottery_scheduler() and hybrid_scheduler()).  For every modulus 2^BITS, the 2^32 of the
\* kernel included.
THEOREM FairShares == SchedSpec => []FairShare
  <1>1. SchedInv => FairShare
    <2> SUFFICES ASSUME SchedInv PROVE FairShare
      OBVIOUS
    <2> DEFINE Wins(k) == Cardinality({n \in 1 .. Period : Winner(Outputs[n]) = k})
               whole == Period \div TotalTickets
               Fair(k) == /\ Wins(k) >= whole * proc[k].sched.tickets
                          /\ Wins(k) <= (whole + 1) * proc[k].sched.tickets
    <2>f. (\A k \in Ready(proc) : Fair(k)) => FairShare
      BY DEF FairShare
    <2> HIDE DEF Fair
    <2> SUFFICES ASSUME NEW i \in Ready(proc) PROVE Fair(i)
      BY <2>f
    <2> DEFINE M == Period
               K == TotalTickets
               lo == TicketsUpTo[i - 1]
               hi == TicketsUpTo[i]
               tickets == proc[i].sched.tickets
               wins == Cardinality({n \in 1 .. M : Winner(Outputs[n]) = i})
               W == {r \in 0 .. M - 1 : lo <= r % K /\ r % K < hi}
    <2>0. NPROC \in Nat /\ Slots = 1 .. NPROC /\ i \in Slots /\ SchedTypeOK
      BY SchedNumbers DEF SchedInv, Ready
    <2>1. wins = Cardinality(W)
      BY WinsAre
    <2>2. M \in Nat
      BY PeriodIs
    <2>3. K \in Nat \ {0}
      BY WinnerReady
    <2>4. lo \in Nat /\ hi \in Nat /\ tickets \in Nat /\ hi = lo + tickets /\ hi <= K
      <3>1. i \in 0 .. NPROC /\ i - 1 \in 0 .. NPROC /\ NPROC \in i .. NPROC
        BY <2>0
      <3>2. lo \in Nat /\ hi \in Nat
        BY <2>0, <3>1, TicketsAre
      <3>3. hi = lo + tickets
        BY <2>0, TicketsAre
      <3>4. tickets \in Nat
        BY <2>0, SchedNumbers DEF SchedInv, SoundInv, Sound
      <3>5. hi <= K
        BY <2>0, <3>1, TicketsGrow DEF TotalTickets
      <3> HIDE DEF lo, hi, tickets, K
      <3> QED BY <3>2, <3>3, <3>4, <3>5
    <2> HIDE DEF M, K, lo, hi, tickets
    <2>5. hi - lo = tickets /\ lo <= hi
      BY <2>4
    <2>6. /\ Cardinality(W) >= (M \div K) * (hi - lo)
          /\ Cardinality(W) <= (M \div K + 1) * (hi - lo)
      BY <2>2, <2>3, <2>4, <2>5, Remainders
    <2> HIDE DEF W, wins
    <2>7. /\ wins >= (M \div K) * tickets
          /\ wins <= (M \div K + 1) * tickets
      BY <2>1, <2>5, <2>6
    <2> QED BY <2>7 DEF wins, M, K, tickets, Fair
  <1> QED BY <1>1, SchedAlways, PTL

-----------------------------------------------------------------------------
(* The clock and the sleeps of practice2 (Clock) *)

\* A process that sleeps knows how long it did, in a counter that wraps: whoever is
\* on its way to sleep again has not slept long enough, whoever is back has.
SleepInv ==
    \A p \in Procs :
      call[p].at # "user" => call[p].passed = (ticks - call[p].ticks0) % Width

ClockInv == ClockTypeOK /\ SleepExact /\ SleepInv

CallRecords == [at : {"user", "sleeping", "asleep", "woken"},
                n : 0 .. Width - 1, ticks0 : 0 .. Width - 1, passed : 0 .. Width - 1,
                result : {"none", "slept", "killed"}, killed : BOOLEAN]

\* One process's part of the invariant.
CallSound(c, now) ==
    /\ c \in CallRecords
    /\ c.at # "user" => c.passed = (now - c.ticks0) % Width
    /\ c.at \in {"sleeping", "asleep"} => c.passed < c.n
    /\ c.at = "user" /\ c.result = "slept" => c.passed >= c.n

LEMMA WidthIs ==
  Width \in Nat \ {0} /\ HZ \in Nat \ {0}
  <1>1. TICK_BITS \in Nat /\ HZ \in Nat \ {0} /\ HZ <= 2 ^ TICK_BITS
    BY TimesAssumption
  <1>2. 2 ^ TICK_BITS \in Int
    BY <1>1
  <1> QED BY <1>1, <1>2 DEF Width

\* A difference that wraps.
LEMMA WrapsOnce ==
  ASSUME NEW W \in Nat \ {0}, NEW x \in Int, x >= -W, x < W + W
  PROVE  x % W = IF x < 0 THEN x + W ELSE IF x < W THEN x ELSE x - W
  OBVIOUS

\* One tick more has passed, as long as not all of them have.
LEMMA OneTickMore ==
  ASSUME NEW W \in Nat \ {0}, NEW now \in 0 .. W - 1, NEW since \in 0 .. W - 1,
         (now - since) % W < W - 1
  PROVE  (((now + 1) % W) - since) % W = ((now - since) % W) + 1
  <1>0. \A x \in Int : x >= -W /\ x < W + W =>
            x % W = IF x < 0 THEN x + W ELSE IF x < W THEN x ELSE x - W
    BY WrapsOnce
  <1>1. (now - since) % W = IF now < since THEN now - since + W ELSE now - since
    <2>1. now - since \in Int /\ now - since >= -W /\ now - since < W + W
      OBVIOUS
    <2> QED BY <1>0, <2>1
  <1>2. (now + 1) % W = IF now + 1 < W THEN now + 1 ELSE 0
    <2>1. now + 1 \in Int /\ now + 1 >= -W /\ now + 1 < W + W /\ now + 1 >= 0
      OBVIOUS
    <2>2. now + 1 >= W => now + 1 - W = 0
      OBVIOUS
    <2> QED BY SMTT(30), <1>0, <2>1, <2>2
  <1>3. CASE now + 1 < W
    <2> DEFINE x == now + 1 - since
    <2>1. x \in Int /\ x >= -W /\ x < W + W
      BY <1>3
    <2>2. x % W = IF x < 0 THEN x + W ELSE IF x < W THEN x ELSE x - W
      <3> HIDE DEF x
      <3> QED BY <1>0, <2>1
    <2> QED BY <1>1, <1>2, <1>3, <2>2
  <1>4. CASE ~(now + 1 < W)
    <2>1. 0 - since \in Int /\ 0 - since >= -W /\ 0 - since < W + W
      OBVIOUS
    <2>2. (0 - since) % W = IF 0 - since < 0 THEN 0 - since + W
                            ELSE IF 0 - since < W THEN 0 - since ELSE 0 - since - W
      BY <1>0, <2>1
    <2> QED BY <1>1, <1>2, <1>4, <2>2
  <1> QED BY <1>3, <1>4

LEMMA ClockInvIs ==
  ClockInv <=> /\ at \in {"first", "check", "second", "compare", "up"}
               /\ ticks \in 0 .. Width - 1 /\ counting.on \in BOOLEAN
               /\ call \in [Procs -> CallRecords]
               /\ \A p \in Procs : CallSound(call[p], ticks)
  BY DEF ClockInv, ClockTypeOK, SleepExact, SleepInv, CallRecords, CallSound

\* The same a step later.
LEMMA ClockInvNext ==
  ASSUME /\ at' \in {"first", "check", "second", "compare", "up"}
         /\ ticks' \in 0 .. Width - 1 /\ counting.on' \in BOOLEAN
         /\ call' \in [Procs -> CallRecords]
         /\ \A p \in Procs : CallSound(call'[p], ticks')
  PROVE  ClockInv'
  BY DEF ClockInv, ClockTypeOK, SleepExact, SleepInv, CallRecords, CallSound, Width

\* A step of one process's call.
LEMMA CallChanges ==
  ASSUME ClockInv, NEW p \in Procs, NEW c, CallSound(c, ticks),
         call' = [call EXCEPT ![p] = c],
         at' = at, ticks' = ticks, counting' = counting
  PROVE  ClockInv'
  <1>1. /\ call \in [Procs -> CallRecords] /\ \A q \in Procs : CallSound(call[q], ticks)
        /\ at' \in {"first", "check", "second", "compare", "up"}
        /\ ticks' \in 0 .. Width - 1 /\ counting.on' \in BOOLEAN
    BY ClockInvIs
  <1>2. c \in CallRecords
    BY DEF CallSound
  <1>3. call' \in [Procs -> CallRecords] /\ \A q \in Procs : call'[q] = IF q = p THEN c ELSE call[q]
    BY <1>1, <1>2
  <1>4. \A q \in Procs : CallSound(call'[q], ticks')
    BY <1>1, <1>3
  <1> QED BY <1>1, <1>3, <1>4, ClockInvNext

\* The loop of sys_sleep(), from where it knows how many ticks have passed.
LEMMA LoopStep ==
  ASSUME ClockInv, NEW p \in Procs, NEW c \in CallRecords,
         c.passed = (ticks - c.ticks0) % Width,
         Loop(p, c), at' = at, ticks' = ticks, counting' = counting
  PROVE  ClockInv'
  <1> DEFINE W == Width
             d == IF Over(c) THEN [c EXCEPT !.at = "user", !.ticks0 = 0, !.result = "slept"]
                  ELSE IF c.killed THEN [Awake EXCEPT !.result = "killed", !.killed = TRUE]
                  ELSE [c EXCEPT !.at = "sleeping"]
  <1>0. W \in Nat \ {0} /\ 0 \in 0 .. W - 1
    BY WidthIs
  <1>1. call' = [call EXCEPT ![p] = d]
    BY DEF Loop
  <1>2. CASE Over(c)
    <2>1. d = [c EXCEPT !.at = "user", !.ticks0 = 0, !.result = "slept"]
      BY <1>2
    <2>2. d \in CallRecords /\ d.at = "user" /\ d.passed = c.passed /\ d.n = c.n
      BY <1>0, <2>1 DEF CallRecords
    <2>3. c.passed >= c.n
      BY <1>2 DEF Over
    <2> HIDE DEF d
    <2>4. CallSound(d, ticks)
      BY <2>2, <2>3 DEF CallSound
    <2> QED BY <1>1, <2>4, CallChanges
  <1>3. CASE ~Over(c) /\ c.killed
    <2>1. d = [Awake EXCEPT !.result = "killed", !.killed = TRUE]
      BY <1>3
    <2>2. d \in CallRecords /\ d.at = "user" /\ d.result = "killed"
      BY <1>0, <2>1 DEF CallRecords, Awake
    <2> HIDE DEF d
    <2>3. CallSound(d, ticks)
      BY <2>2 DEF CallSound
    <2> QED BY <1>1, <2>3, CallChanges
  <1>4. CASE ~Over(c) /\ ~c.killed
    <2>1. d = [c EXCEPT !.at = "sleeping"]
      BY <1>4
    <2>2. d \in CallRecords /\ d.at = "sleeping" /\ d.passed = c.passed /\ d.n = c.n
          /\ d.ticks0 = c.ticks0
      BY <2>1 DEF CallRecords
    <2>3. ~(c.passed >= c.n)
      BY <1>4 DEF Over
    <2>4. c.passed \in Nat /\ c.n \in Nat
      BY <1>0 DEF CallRecords
    <2>5. c.passed < c.n
      BY <2>3, <2>4
    <2> HIDE DEF d
    <2>6. CallSound(d, ticks)
      BY <2>2, <2>5 DEF CallSound
    <2> QED BY <1>1, <2>6, CallChanges
  <1> QED BY <1>2, <1>3, <1>4

LEMMA SleepStep ==
  ASSUME ClockInv, NEW p \in Procs, sys_sleep(p)
  PROVE  ClockInv'
  <1>0. /\ call \in [Procs -> CallRecords] /\ CallSound(call[p], ticks)
        /\ ticks \in 0 .. Width - 1 /\ Width \in Nat \ {0}
    BY ClockInvIs, WidthIs
  <1>1. ASSUME NEW n \in 0 .. Width - 1, Sleep(p, n) PROVE ClockInv'
    <2> DEFINE c == [Awake EXCEPT !.n = n, !.ticks0 = ticks]
    <2>1. c \in CallRecords /\ c.passed = 0 /\ c.ticks0 = ticks
      <3>1. 0 \in 0 .. Width - 1
        BY <1>0
      <3> QED BY <1>0, <3>1 DEF CallRecords, Awake
    <2>2. (ticks - ticks) % Width = 0
      <3>1. ticks - ticks = 0
        BY <1>0
      <3> QED BY <1>0, <3>1
    <2>3. Loop(p, c) /\ at' = at /\ ticks' = ticks /\ counting' = counting
      BY <1>1 DEF Sleep
    <2> HIDE DEF c
    <2> QED BY <2>1, <2>2, <2>3, LoopStep
  <1>2. CASE FallAsleep(p)
    <2> DEFINE c == [call[p] EXCEPT !.at = "asleep"]
    <2>1. call[p].at = "sleeping" /\ call' = [call EXCEPT ![p] = c]
          /\ at' = at /\ ticks' = ticks /\ counting' = counting
      BY <1>0, <1>2 DEF FallAsleep
    <2>2. c \in CallRecords /\ c.at = "asleep" /\ c.passed = call[p].passed /\ c.n = call[p].n
          /\ c.ticks0 = call[p].ticks0
      BY <1>0 DEF CallRecords
    <2> HIDE DEF c
    <2>3. CallSound(c, ticks)
      BY <1>0, <2>1, <2>2 DEF CallSound
    <2> QED BY <2>1, <2>3, CallChanges
  <1>3. CASE WakesUp(p)
    <2>1. call[p].at = "woken" /\ Loop(p, call[p])
          /\ at' = at /\ ticks' = ticks /\ counting' = counting
      BY <1>3 DEF WakesUp
    <2>2. call[p] \in CallRecords /\ call[p].passed = (ticks - call[p].ticks0) % Width
      BY <1>0, <2>1 DEF CallSound
    <2> QED BY <2>1, <2>2, LoopStep
  <1> QED BY <1>1, <1>2, <1>3 DEF sys_sleep

LEMMA KillStep ==
  ASSUME ClockInv, NEW p \in Procs, kill(p)
  PROVE  ClockInv'
  <1> DEFINE c == [call[p] EXCEPT !.killed = TRUE, !.at = IF @ = "asleep" THEN "woken" ELSE @]
  <1>0. call \in [Procs -> CallRecords] /\ CallSound(call[p], ticks)
    BY ClockInvIs
  <1>1. call' = [call EXCEPT ![p] = c] /\ at' = at /\ ticks' = ticks /\ counting' = counting
    BY <1>0 DEF kill
  <1>2. /\ c \in CallRecords /\ c.at = IF call[p].at = "asleep" THEN "woken" ELSE call[p].at
        /\ c.passed = call[p].passed /\ c.n = call[p].n /\ c.ticks0 = call[p].ticks0
        /\ c.result = call[p].result
    BY <1>0 DEF CallRecords
  <1> HIDE DEF c
  <1>3. CallSound(c, ticks)
    BY <1>0, <1>2 DEF CallSound
  <1> QED BY <1>1, <1>3, CallChanges

LEMMA IdleSound ==
  ASSUME NEW now
  PROVE  CallSound(Awake, now)
  <1>1. 0 \in 0 .. Width - 1
    BY WidthIs
  <1> QED BY <1>1 DEF CallSound, CallRecords, Awake

LEMMA ExitStep ==
  ASSUME ClockInv, NEW p \in Procs, Exits(p)
  PROVE  ClockInv'
  <1>1. call' = [call EXCEPT ![p] = Awake] /\ at' = at /\ ticks' = ticks /\ counting' = counting
    BY DEF Exits
  <1>2. CallSound(Awake, ticks)
    BY IdleSound
  <1> QED BY <1>1, <1>2, CallChanges

\* The tick that wakes everybody: who sleeps has slept one more.
LEMMA ClockTickStep ==
  ASSUME ClockInv, TimerTick
  PROVE  ClockInv'
  <1> DEFINE W == Width
  <1>0. /\ call \in [Procs -> CallRecords] /\ \A p \in Procs : CallSound(call[p], ticks)
        /\ ticks \in 0 .. W - 1 /\ W \in Nat \ {0}
        /\ at \in {"first", "check", "second", "compare", "up"}
    BY ClockInvIs, WidthIs
  <1>1. /\ \A p \in Procs : call[p].at = "user" \/ call[p].passed < W - 1
        /\ ticks' = (ticks + 1) % W /\ counting.on' \in BOOLEAN /\ at' = at
        /\ call' = [p \in Procs |->
                      IF call[p].at = "user" THEN call[p]
                      ELSE [call[p] EXCEPT !.passed = @ + 1, !.at = "woken"]]
    BY DEF TimerTick, TickWaking
  <1>2. ticks' \in 0 .. W - 1
    <2>1. ticks + 1 \in Int
      BY <1>0
    <2>2. (ticks + 1) % W \in 0 .. W - 1
      <3> HIDE DEF W
      <3> QED BY <1>0, <2>1
    <2> QED BY <1>1, <2>2
  <1>3. ASSUME NEW p \in Procs PROVE CallSound(call'[p], ticks')
    <2> DEFINE c == call[p]
               d == call'[p]
    <2>1. CASE c.at = "user"
      <3>1. d = c
        BY <1>1, <2>1
      <3> QED BY <1>0, <2>1, <3>1 DEF CallSound
    <2>2. CASE c.at # "user"
      <3>1. d = [c EXCEPT !.passed = @ + 1, !.at = "woken"]
        BY <1>1, <2>2
      <3>2. /\ c \in CallRecords /\ c.passed = (ticks - c.ticks0) % W /\ c.passed < W - 1
            /\ c.passed \in 0 .. W - 1 /\ c.ticks0 \in 0 .. W - 1
        BY <1>0, <1>1, <2>2 DEF CallSound, CallRecords
      <3>3. c.passed + 1 \in 0 .. W - 1
        BY <1>0, <3>2
      <3>4. d \in CallRecords /\ d.at = "woken" /\ d.passed = c.passed + 1 /\ d.ticks0 = c.ticks0
        BY <3>1, <3>2, <3>3 DEF CallRecords
      <3> HIDE DEF W, c, d
      <3>5. (((ticks + 1) % W) - c.ticks0) % W = ((ticks - c.ticks0) % W) + 1
        BY <1>0, <3>2, OneTickMore
      <3>6. d.passed = (ticks' - d.ticks0) % W
        BY <1>1, <3>2, <3>4, <3>5
      <3> QED BY <3>4, <3>6 DEF CallSound, d, W
    <2> QED BY <2>1, <2>2
  <1>4. call' \in [Procs -> CallRecords]
    <2>1. \A p \in Procs : call'[p] \in CallRecords
      BY <1>3 DEF CallSound
    <2> QED BY <1>1, <2>1
  <1> QED BY <1>0, <1>1, <1>2, <1>3, <1>4, ClockInvNext

\* What does not concern the sleeps.
LEMMA CallsStay ==
  ASSUME ClockInv, call' = call, ticks' = ticks, counting.on' \in BOOLEAN,
         at' \in {"first", "check", "second", "compare", "up"}
  PROVE  ClockInv'
  BY ClockInvIs, ClockInvNext

LEMMA ClockStep ==
  ASSUME ClockInv, [ClockNext]_clockVars
  PROVE  ClockInv'
  <1>0. /\ at \in {"first", "check", "second", "compare", "up"} /\ counting.on \in BOOLEAN
    BY ClockInvIs
  <1>1. CASE RtcBegin \/ RtcEnd
    BY <1>0, <1>1, CallsStay DEF RtcBegin, RtcEnd
  <1>2. CASE cmostime
    <2>1. call' = call /\ ticks' = ticks /\ counting' = counting
          /\ at' \in {"first", "check", "second", "compare", "up"}
      BY <1>0, <1>2 DEF cmostime, ReadFirst, CheckUpdate, ReadSecond, Compare,
                        BootWith
    <2> QED BY <1>0, <2>1, CallsStay
  <1>3. ASSUME NEW p \in Procs, sys_sleep(p) PROVE ClockInv'
    BY <1>3, SleepStep
  <1>4. ASSUME NEW p \in Procs, kill(p) PROVE ClockInv'
    BY <1>4, KillStep
  <1>5. ASSUME NEW p \in Procs, Exits(p) PROVE ClockInv'
    BY <1>5, ExitStep
  <1>6. CASE TimerTick
    BY <1>6, ClockTickStep
  <1>7. CASE TickStores
    <2>1. call' = call /\ ticks' = ticks /\ at' = at /\ counting.on' \in BOOLEAN
      BY <1>7 DEF TickStores, NotCounting
    <2> QED BY <1>0, <2>1, CallsStay
  <1>8. CASE Stime
    <2>1. call' = call /\ ticks' = ticks /\ at' = at /\ counting' = counting
      BY <1>8 DEF Stime
    <2> QED BY <1>0, <2>1, CallsStay
  <1>9. CASE UNCHANGED clockVars
    <2>1. call' = call /\ ticks' = ticks /\ at' = at /\ counting' = counting
      BY <1>9 DEF clockVars
    <2> QED BY <1>0, <2>1, CallsStay
  <1> QED BY <1>1, <1>2, <1>3, <1>4, <1>5, <1>6, <1>7, <1>8, <1>9 DEF ClockNext

LEMMA ClockStarts ==
  ASSUME ClockInit
  PROVE  ClockInv
  <1>1. /\ call = [p \in Procs |-> Awake] /\ ticks = 0 /\ at = "first" /\ counting.on \in BOOLEAN
    BY DEF ClockInit, NotCounting
  <1>2. Width \in Nat \ {0}
    BY WidthIs
  <1>3. CallSound(Awake, 0)
    BY IdleSound
  <1>4. call \in [Procs -> CallRecords] /\ \A p \in Procs : CallSound(call[p], ticks)
    BY <1>1, <1>3 DEF CallSound
  <1> QED BY <1>1, <1>2, <1>4, ClockInvIs

\* Whoever sleeps still has ticks to sleep and whoever is back has slept for all of them,
\* though the ticks wrap, kill() comes without the lock and the process may be slow to run:
\* for every number of processes, width of the counter and length of the sleep (sys_sleep()).
THEOREM SleepsExact == ClockSpec => []ClockConsistent
  <1>1. ClockInit => ClockInv
    BY ClockStarts
  <1>2. ClockInv /\ [ClockNext]_clockVars => ClockInv'
    BY ClockStep
  <1>3. ClockInv => ClockConsistent
    BY DEF ClockInv, ClockConsistent
  <1> QED BY <1>1, <1>2, <1>3, PTL DEF ClockSpec
=============================================================================
