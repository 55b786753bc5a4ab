------------------------- MODULE BufferCacheProofs -------------------------
(***************************************************************************)
(* Proofs about BufferCache, for every number of processes, buffers,       *)
(* blocks and contents, and however many buffers a process may hold.       *)
(***************************************************************************)
EXTENDS BufferCache, FunctionTheorems, FiniteSetTheorems, SequenceTheorems,
        WellFoundedInduction, TLAPS

\* The processes that have asked for b and not let go of it.
Users(b) == {p \in Procs : b \in Elems(stack[p])}

\* Where a process holds the lock of the buffer it asked for last; it holds those of
\* the buffers before.
HoldingPCs == {"locked", "idesleep", "idewait", "use", "modified"}
Holds(p, i) == i < Len(stack[p]) \/ pc[p] \in HoldingPCs
Held(p) == {stack[p][i] : i \in {j \in 1 .. Len(stack[p]) : Holds(p, j)}}

\* A process takes buffers in the order of their blocks, so none twice.
StackInv ==
    \A p \in Procs :
        /\ pc[p] = "idle" <=> Len(stack[p]) = 0
        /\ \A i \in 1 .. Len(stack[p]) : blk[stack[p][i]] \in Blocks
        /\ \A i, j \in 1 .. Len(stack[p]) : i < j => blk[stack[p][i]] < blk[stack[p][j]]

OwnerInv == \A p \in Procs, b \in Bufs : owner[b] = p <=> b \in Held(p)

\* What is known of the contents of a buffer.
ValidInv ==
    /\ \A b \in Bufs : (valid[b] => blk[b] \in Blocks) /\ (dirty[b] => valid[b])
    /\ \A p \in Procs : \A i \in 1 .. Len(stack[p]) :
        i < Len(stack[p]) \/ pc[p] \in {"use", "modified"} => valid[stack[p][i]]

\* A request in the queue is for its owner, who waits; when it is done he can tell.
QueueInv ==
    /\ \A i, j \in 1 .. Len(idequeue) : idequeue[i] = idequeue[j] => i = j
    /\ \A b \in Elems(idequeue) :
        /\ ~valid[b] \/ dirty[b]
        /\ \E p \in Procs : Holding(p, "idesleep", b) \/ Holding(p, "idewait", b)
    /\ \A p \in Procs, b \in Bufs :
        /\ Holding(p, "idesleep", b) => b \in Elems(idequeue)
        /\ Holding(p, "idewait", b) /\ b \notin Elems(idequeue) => valid[b] /\ ~dirty[b]

LockInv ==
    \A p \in Procs, b \in Bufs :
        Holding(p, "locksleep", b) => owner[b] \notin {None, p}

Inv == /\ TypeOK /\ RefsExact /\ OneBuffer /\ StackInv /\ OwnerInv /\ ValidInv
       /\ CleanIsOnDisk /\ QueueInv /\ LockInv


-----------------------------------------------------------------------------
LEMMA AppendElems ==
  ASSUME NEW S, NEW s \in Seq(S), NEW x \in S
  PROVE  /\ Append(s, x) \in Seq(S) /\ Len(Append(s, x)) = Len(s) + 1
         /\ \A i \in 1 .. Len(s) : Append(s, x)[i] = s[i]
         /\ Append(s, x)[Len(s) + 1] = x
         /\ Elems(Append(s, x)) = Elems(s) \cup {x}
  BY DEF Elems

LEMMA FrontElems ==
  ASSUME NEW S, NEW s \in Seq(S), Len(s) > 0,
         \A i \in 1 .. Len(s) - 1 : s[i] # s[Len(s)]
  PROVE  LET f == SubSeq(s, 1, Len(s) - 1)
         IN  /\ f \in Seq(S) /\ Len(f) = Len(s) - 1
             /\ \A i \in 1 .. Len(f) : f[i] = s[i]
             /\ Elems(f) = Elems(s) \ {s[Len(s)]}
  <1> DEFINE f == SubSeq(s, 1, Len(s) - 1)
  <1>1. f \in Seq(S) /\ Len(f) = Len(s) - 1 /\ \A i \in 1 .. Len(f) : f[i] = s[i]
    <2>1. Len(s) \in Nat /\ \A i \in 1 .. Len(s) - 1 : s[i] \in S
      OBVIOUS
    <2> DEFINE n == Len(s) - 1
    <2>2. n \in Int /\ n \in Nat /\ \A i \in 1 .. n : s[i] \in S
      BY <2>1
    <2> HIDE DEF n
    <2>3. /\ SubSeq(s, 1, n) \in Seq(S)
          /\ Len(SubSeq(s, 1, n)) = IF 1 <= n THEN n - 1 + 1 ELSE 0
          /\ \A i \in 1 .. n - 1 + 1 : SubSeq(s, 1, n)[i] = s[1 + i - 1]
      BY <2>2, SubSeqProperties
    <2>4. Len(SubSeq(s, 1, n)) = n /\ \A i \in 1 .. n : SubSeq(s, 1, n)[i] = s[i]
      BY <2>2, <2>3
    <2> QED BY <2>3, <2>4 DEF n
  <1> HIDE DEF f
  <1>2. Len(s) \in Nat /\ \A i \in 1 .. Len(s) : i \in 1 .. Len(f) \/ i = Len(s)
    BY <1>1
  <1>3. Elems(f) = Elems(s) \ {s[Len(s)]}
    BY <1>1, <1>2 DEF Elems
  <1> QED BY <1>1, <1>3 DEF f

\* A process never asks for a buffer it has.
LEMMA StackIsDistinct ==
  ASSUME TypeOK, StackInv, NEW p \in Procs,
         NEW i \in 1 .. Len(stack[p]), NEW j \in 1 .. Len(stack[p]), i # j
  PROVE  stack[p][i] # stack[p][j]
  <1>1. Len(stack[p]) \in Nat
    BY DEF TypeOK
  <1>2. blk[stack[p][i]] \in Nat /\ blk[stack[p][j]] \in Nat
    BY SizeAssumption DEF StackInv, Blocks
  <1>3. CASE i < j
    BY <1>2, <1>3 DEF StackInv
  <1>4. CASE j < i
    BY <1>2, <1>4 DEF StackInv
  <1> QED BY <1>1, <1>3, <1>4

\* Nor does it have the buffer of the block it asks for.
LEMMA AskedIsNew ==
  ASSUME TypeOK, StackInv, NEW p \in Procs, NEW k \in Blocks, MayRead(p, k),
         NEW i \in 1 .. Len(stack[p])
  PROVE  blk[stack[p][i]] < k /\ blk[stack[p][i]] # k
  <1>0. Len(stack[p]) \in Nat /\ Len(stack[p]) > 0 /\ NBLOCKS \in Nat
    BY SizeAssumption DEF TypeOK
  <1>1. blk[stack[p][i]] \in Nat /\ blk[stack[p][Len(stack[p])]] \in Nat /\ k \in Nat
    BY <1>0 DEF StackInv, Blocks
  <1>2. blk[stack[p][Len(stack[p])]] < k
    BY <1>0 DEF MayRead, Holding, StackInv
  <1>3. i < Len(stack[p]) => blk[stack[p][i]] < blk[stack[p][Len(stack[p])]]
    BY <1>0 DEF StackInv
  <1>4. i = Len(stack[p]) \/ i < Len(stack[p])
    BY <1>0
  <1> QED BY <1>1, <1>2, <1>3, <1>4

LEMMA UsersFinite ==
  ASSUME NEW b
  PROVE  IsFiniteSet(Users(b)) /\ Cardinality(Users(b)) \in Nat
  <1>1. Users(b) \in SUBSET Procs
    BY DEF Users
  <1> QED BY <1>1, ProcsAssumption, FS_Subset, FS_CardinalityType

\* Nobody has a buffer that bget() may recycle.
LEMMA FreeIsUnused ==
  ASSUME Inv, NEW b \in Bufs, Free(b)
  PROVE  \A p \in Procs : b \notin Elems(stack[p])
  <1>1. Cardinality(Users(b)) = 0
    BY DEF Free, Inv, RefsExact, Users
  <1>2. Users(b) = {}
    BY <1>1, UsersFinite, FS_EmptySet
  <1> QED BY <1>2 DEF Users

\* References are counted.
LEMMA RefsStep ==
  ASSUME Inv, [Next]_vars
  PROVE  RefsExact'
  <1>0. TypeOK /\ StackInv /\ RefsExact
    BY DEF Inv
  <1> SUFFICES \A b \in Bufs : refcnt'[b] = Cardinality(Users(b)')
    BY DEF RefsExact, Users
  <1>a. \A b \in Bufs : refcnt[b] = Cardinality(Users(b))
    BY <1>0 DEF RefsExact, Users
  <1>1. ASSUME refcnt' = refcnt, stack' = stack
        PROVE  \A b \in Bufs : refcnt'[b] = Cardinality(Users(b)')
    <2>1. \A b \in Bufs : Users(b)' = Users(b)
      BY <1>1 DEF Users
    <2> QED BY <2>1, <1>1, <1>a
  <1>2. ASSUME NEW p \in Procs, NEW k \in Blocks, NEW b \in Bufs,
               stack' = [stack EXCEPT ![p] = Append(@, b)],
               p \notin Users(b), refcnt' = [refcnt EXCEPT ![b] = Cardinality(Users(b)) + 1]
        PROVE  \A c \in Bufs : refcnt'[c] = Cardinality(Users(c)')
    <2>1. stack[p] \in Seq(Bufs) /\ Elems(stack'[p]) = Elems(stack[p]) \cup {b}
      BY <1>0, <1>2, AppendElems DEF TypeOK
    <2>2. Users(b)' = Users(b) \cup {p}
      BY <1>0, <1>2, <2>1 DEF Users, TypeOK
    <2>3. \A c \in Bufs \ {b} : Users(c)' = Users(c)
      BY <1>0, <1>2, <2>1 DEF Users, TypeOK
    <2>4. Cardinality(Users(b) \cup {p}) = Cardinality(Users(b)) + 1
      BY <1>2, UsersFinite, FS_AddElement
    <2> QED BY <1>0, <1>2, <1>a, <2>2, <2>3, <2>4 DEF TypeOK
  <1>3. ASSUME NEW p \in Procs, NEW k \in Blocks, NEW b \in Bufs, Hit(p, k, b)
        PROVE  \A c \in Bufs : refcnt'[c] = Cardinality(Users(c)')
    <2>1. p \notin Users(b)
      BY <1>0, <1>3, AskedIsNew DEF Hit, Users, Elems
    <2> QED BY <1>2, <1>3, <1>a, <2>1 DEF Hit, Push
  <1>4. ASSUME NEW p \in Procs, NEW k \in Blocks, NEW b \in Bufs, Recycle(p, k, b)
        PROVE  \A c \in Bufs : refcnt'[c] = Cardinality(Users(c)')
    <2>1. p \notin Users(b) /\ refcnt[b] = 0
      BY <1>4, FreeIsUnused DEF Recycle, Users, Free
    <2>2. refcnt' = [refcnt EXCEPT ![b] = Cardinality(Users(b)) + 1]
      <3>1. Cardinality(Users(b)) + 1 = 1
        BY <1>a, <2>1
      <3> HIDE DEF Users
      <3> QED BY <1>4, <3>1 DEF Recycle
    <2> QED BY <1>2, <1>4, <2>1, <2>2 DEF Recycle, Push
  <1>5. ASSUME NEW p \in Procs, NEW b \in Bufs, Release(p, b)
        PROVE  \A c \in Bufs : refcnt'[c] = Cardinality(Users(c)')
    <2>1. stack[p] \in Seq(Bufs) /\ Len(stack[p]) > 0 /\ b = stack[p][Len(stack[p])]
      BY <1>0, <1>5 DEF Release, Holding, TypeOK
    <2>2. \A i \in 1 .. Len(stack[p]) - 1 : stack[p][i] # stack[p][Len(stack[p])]
      BY <1>0, <2>1, StackIsDistinct
    <2>3. Elems(stack'[p]) = Elems(stack[p]) \ {b} /\ b \in Elems(stack[p])
      <3>1. stack'[p] = SubSeq(stack[p], 1, Len(stack[p]) - 1)
        BY <1>0, <1>5 DEF Release, TypeOK
      <3>2. b \in Elems(stack[p])
        BY <2>1 DEF Elems
      <3> QED BY <2>1, <2>2, <3>1, <3>2, FrontElems
    <2>4. Users(b)' = Users(b) \ {p} /\ p \in Users(b)
      BY <1>0, <1>5, <2>3 DEF Release, Users, TypeOK
    <2>5. \A c \in Bufs \ {b} : Users(c)' = Users(c)
      BY <1>0, <1>5, <2>3 DEF Release, Users, TypeOK
    <2>6. Cardinality(Users(b) \ {p}) = Cardinality(Users(b)) - 1
      BY <2>4, UsersFinite, FS_RemoveElement
    <2> QED BY <1>0, <1>5, <1>a, <2>4, <2>5, <2>6 DEF TypeOK, Release
  <1>6. ASSUME NEW p \in Procs, NEW b \in Bufs,
               \/ AcquireSleep(p, b) \/ Cached(p, b) \/ Read(p, b) \/ Waited(p, b)
               \/ LogWrite(p, b) \/ Bwrite(p, b) \/ ReleaseSleep(p, b) \/ Modify(p, b)
        PROVE  refcnt' = refcnt /\ stack' = stack
    BY <1>6 DEF AcquireSleep, Cached, Read, Waited, LogWrite, Bwrite, ReleaseSleep, Modify,
                bufvars
  <1>7. ASSUME \/ Interrupt \/ UNCHANGED vars
               \/ \E p \in Procs : Kill(p) \/ \E k \in Blocks : NoBuffers(p, k)
        PROVE  refcnt' = refcnt /\ stack' = stack
    BY <1>7 DEF Interrupt, Kill, NoBuffers, bufvars, vars
  <1> QED BY <1>1, <1>3, <1>4, <1>5, <1>6, <1>7 DEF Next, Step, Continue


\* A step that takes no buffer and lets go of none.
Stays ==
    \/ Interrupt
    \/ \E p \in Procs :
        \/ Kill(p) \/ \E k \in Blocks : NoBuffers(p, k)
        \/ \E b \in Bufs :
            \/ AcquireSleep(p, b) \/ Cached(p, b) \/ Read(p, b) \/ Waited(p, b)
            \/ LogWrite(p, b) \/ Bwrite(p, b) \/ ReleaseSleep(p, b) \/ Modify(p, b)

LEMMA StepsAre ==
  ASSUME [Next]_vars
  PROVE  \/ \E p \in Procs, k \in Blocks, b \in Bufs : Hit(p, k, b) \/ Recycle(p, k, b)
         \/ \E p \in Procs, b \in Bufs : Release(p, b)
         \/ Stays
         \/ UNCHANGED vars
  BY DEF Next, Step, Continue, Stays

LEMMA StackStays ==
  ASSUME Stays \/ UNCHANGED vars
  PROVE  stack' = stack /\ blk' = blk
  BY DEF Stays, vars, bufvars, Interrupt, Kill, NoBuffers, AcquireSleep, Cached, Read, Waited,
         LogWrite, Bwrite, ReleaseSleep, Modify

\* Where a step that takes no buffer and lets go of none takes the processes.
LEMMA StayPc ==
  ASSUME TypeOK, Stays, NEW q \in Procs
  PROVE  \/ pc'[q] = pc[q]
         \/ pc[q] \in {"lock", "locked", "locksleep"} /\ pc'[q] \in PCs \ {"idle", "release"}
         \/ pc[q] \in {"idesleep", "idewait", "use", "modified"} /\ pc'[q] \in PCs \ {"idle"}
  <1>1. CASE Interrupt
    BY <1>1 DEF Interrupt, Holding, PCs
  <1>2. ASSUME NEW p \in Procs, NEW k \in Blocks, NoBuffers(p, k)
        PROVE  pc'[q] = pc[q]
    BY <1>2 DEF NoBuffers
  <1>3. ASSUME NEW p \in Procs, NEW b \in Bufs, ReleaseSleep(p, b)
        PROVE  \/ pc'[q] = pc[q]
               \/ pc[q] = "locksleep" /\ pc'[q] = "lock"
               \/ pc[q] = "use" /\ pc'[q] = "release"
    BY <1>3 DEF ReleaseSleep, Holding
  <1>4. ASSUME NEW p \in Procs, Kill(p)
        PROVE  \/ pc'[q] = pc[q]
               \/ pc[q] = "locksleep" /\ pc'[q] = "lock"
               \/ pc[q] = "idesleep" /\ pc'[q] = "idewait"
    BY <1>4 DEF Kill, Goto, TypeOK
  <1>5. ASSUME NEW p \in Procs, NEW b \in Bufs,
               AcquireSleep(p, b) \/ Cached(p, b) \/ Read(p, b)
        PROVE  \/ pc'[q] = pc[q]
               \/ pc[q] = "lock" /\ pc'[q] \in {"locked", "locksleep"}
               \/ pc[q] = "locked" /\ pc'[q] \in {"use", "idesleep"}
    BY <1>5 DEF AcquireSleep, Cached, Read, Goto, Holding, TypeOK
  <1>6. ASSUME NEW p \in Procs, NEW b \in Bufs,
               Waited(p, b) \/ Modify(p, b) \/ LogWrite(p, b) \/ Bwrite(p, b)
        PROVE  \/ pc'[q] = pc[q]
               \/ pc[q] = "idewait" /\ pc'[q] \in {"use", "idesleep"}
               \/ pc[q] = "use" /\ pc'[q] \in {"modified", "idesleep"}
               \/ pc[q] = "modified" /\ pc'[q] \in {"use", "idesleep"}
    BY <1>6 DEF Waited, Modify, LogWrite, Bwrite, Goto, Holding, TypeOK
  <1> QED BY <1>1, <1>2, <1>3, <1>4, <1>5, <1>6 DEF Stays, PCs

LEMMA TypeStep ==
  ASSUME Inv, [Next]_vars
  PROVE  TypeOK'
  <1>0. TypeOK /\ StackInv /\ OwnerInv /\ QueueInv
    BY DEF Inv
  <1>d. \A p \in Procs : \A i \in 1 .. Len(stack[p]) - 1 : stack[p][i] # stack[p][Len(stack[p])]
    <2> SUFFICES ASSUME NEW p \in Procs, NEW i \in 1 .. Len(stack[p]) - 1
                 PROVE  stack[p][i] # stack[p][Len(stack[p])]
      OBVIOUS
    <2>1. Len(stack[p]) \in Nat
      BY <1>0 DEF TypeOK
    <2>2. i \in 1 .. Len(stack[p]) /\ Len(stack[p]) \in 1 .. Len(stack[p]) /\ i # Len(stack[p])
      BY <2>1
    <2> QED BY <1>0, <2>2, StackIsDistinct
  <1> USE DEF TypeOK, PCs
  <1>1. refcnt' \in [Bufs -> Nat]
    <2>1. \A b \in Bufs : refcnt'[b] = Cardinality(Users(b)')
      BY RefsStep DEF RefsExact, Users
    <2>2. \A b \in Bufs : Cardinality(Users(b)') \in Nat
      <3> SUFFICES ASSUME NEW b \in Bufs PROVE Cardinality(Users(b)') \in Nat
        OBVIOUS
      <3>1. Users(b)' \in SUBSET Procs
        BY DEF Users
      <3> QED BY <3>1, ProcsAssumption, FS_Subset, FS_CardinalityType
    <2>3. DOMAIN refcnt' = Bufs /\ refcnt' = [b \in Bufs |-> refcnt'[b]]
      BY <1>0, StepsAre
      DEF Hit, Recycle, Release, Stays, vars, bufvars, Interrupt, Kill, NoBuffers,
          AcquireSleep, Cached, Read, Waited, LogWrite, Bwrite, ReleaseSleep, Modify
    <2> QED BY <2>1, <2>2, <2>3
  <1>2. /\ blk' \in [Bufs -> Blocks \cup {None}] /\ owner' \in [Bufs -> Procs \cup {None}]
    <2>1. blk' = blk \/ \E k \in Blocks, b \in Bufs : blk' = [blk EXCEPT ![b] = k]
      BY StepsAre, StackStays DEF Hit, Recycle, Release
    <2>2. \/ owner' = owner
          \/ \E p \in Procs, b \in Bufs : owner' = [owner EXCEPT ![b] = p]
          \/ \E b \in Bufs : owner' = [owner EXCEPT ![b] = None]
      BY StepsAre
      DEF Hit, Recycle, Release, Stays, vars, bufvars, Interrupt, Kill, NoBuffers,
          AcquireSleep, Cached, Read, Waited, LogWrite, Bwrite, ReleaseSleep, Modify
    <2>3. blk' \in [Bufs -> Blocks \cup {None}]
      BY <1>0, <2>1
    <2>4. owner' \in [Bufs -> Procs \cup {None}]
      BY <1>0, <2>2
    <2> QED BY <2>3, <2>4
  <1>3. valid' \in [Bufs -> BOOLEAN] /\ dirty' \in [Bufs -> BOOLEAN]
    BY <1>0, StepsAre
    DEF Hit, Recycle, Release, Stays, vars, bufvars, Interrupt, Kill, NoBuffers,
        AcquireSleep, Cached, Read, Waited, LogWrite, Bwrite, ReleaseSleep, Modify
  <1>4. pc' \in [Procs -> PCs]
    BY <1>0, StepsAre
    DEF Hit, Recycle, Release, Push, Goto, Stays, vars, bufvars, Interrupt, Kill, NoBuffers,
        AcquireSleep, Cached, Read, Waited, LogWrite, Bwrite, ReleaseSleep, Modify
  <1>5. stack' \in [Procs -> Seq(Bufs)]
    <2>1. ASSUME NEW p \in Procs, NEW k \in Blocks, NEW b \in Bufs,
                 Hit(p, k, b) \/ Recycle(p, k, b)
          PROVE  stack' \in [Procs -> Seq(Bufs)]
      <3>1. stack' = [stack EXCEPT ![p] = Append(stack[p], b)]
        BY <2>1 DEF Hit, Recycle, Push
      <3>2. Append(stack[p], b) \in Seq(Bufs)
        BY <1>0, AppendElems
      <3> QED BY <1>0, <3>1, <3>2
    <2>2. ASSUME NEW p \in Procs, NEW b \in Bufs, Release(p, b)
          PROVE  stack' \in [Procs -> Seq(Bufs)]
      <3>1. stack[p] \in Seq(Bufs) /\ Len(stack[p]) > 0
        BY <1>0, <2>2 DEF Release, Holding
      <3>3. SubSeq(stack[p], 1, Len(stack[p]) - 1) \in Seq(Bufs)
        BY <1>d, <3>1, FrontElems
      <3> QED BY <1>0, <2>2, <3>3 DEF Release
    <2> QED BY <1>0, <2>1, <2>2, StepsAre, StackStays
  <1>6. idequeue' \in Seq(Bufs)
    <2>1. ASSUME NEW b \in Bufs PROVE Append(idequeue, b) \in Seq(Bufs)
      BY <1>0, AppendElems
    <2>2. idequeue # <<>> => Tail(idequeue) \in Seq(Bufs)
      BY <1>0, HeadTailProperties
    <2> QED BY <1>0, <2>1, <2>2, StepsAre
      DEF Hit, Recycle, Release, Stays, vars, bufvars, Interrupt, Kill, NoBuffers,
          AcquireSleep, Cached, Read, Waited, LogWrite, Bwrite, ReleaseSleep, Modify
  <1>7. data' \in [Bufs -> Vals] /\ disk' \in [Blocks -> Vals]
    <2>1. CASE Interrupt
      <3>1. Head(idequeue) \in Bufs /\ Head(idequeue) \in Elems(idequeue)
        BY <1>0, <2>1, HeadTailProperties DEF Interrupt, Elems
      <3>2. PICK p \in Procs : \/ Holding(p, "idesleep", Head(idequeue))
                               \/ Holding(p, "idewait", Head(idequeue))
        BY <1>0, <3>1 DEF QueueInv
      <3>3. Len(stack[p]) > 0 /\ Len(stack[p]) \in Nat
            /\ Head(idequeue) = stack[p][Len(stack[p])]
        BY <1>0, <3>2 DEF Holding
      <3>4. blk[Head(idequeue)] \in Blocks
        BY <1>0, <3>3 DEF StackInv
      <3> QED BY <1>0, <2>1, <3>1, <3>4 DEF Interrupt
    <2>2. CASE ~Interrupt
      BY <1>0, <2>2, StepsAre
      DEF Hit, Recycle, Release, Stays, vars, bufvars, Kill, NoBuffers,
          AcquireSleep, Cached, Read, Waited, LogWrite, Bwrite, ReleaseSleep, Modify
    <2> QED BY <2>1, <2>2
  <1>8. panicked' \in BOOLEAN
    <2>1. panicked' = panicked \/ panicked' = TRUE
      BY StepsAre
      DEF Hit, Recycle, Release, Stays, vars, bufvars, Interrupt, Kill, NoBuffers,
          AcquireSleep, Cached, Read, Waited, LogWrite, Bwrite, ReleaseSleep, Modify
    <2>2. panicked \in BOOLEAN
      BY <1>0
    <2> QED BY <2>1, <2>2, Zenon
  <1> QED BY <1>1, <1>2, <1>3, <1>4, <1>5, <1>6, <1>7, <1>8


\* bget() finds or makes a buffer: what it does to the stacks and to the blocks.
LEMMA PushIs ==
  ASSUME Inv, NEW p \in Procs, NEW k \in Blocks, NEW b \in Bufs, Hit(p, k, b) \/ Recycle(p, k, b)
  PROVE  /\ Len(stack[p]) \in Nat /\ Len(stack'[p]) = Len(stack[p]) + 1
         /\ \A i \in 1 .. Len(stack[p]) : stack'[p][i] = stack[p][i] /\ stack[p][i] # b
         /\ stack'[p][Len(stack[p]) + 1] = b
         /\ pc[p] \in {"idle", "use"} /\ pc'[p] = "lock"
         /\ \A q \in Procs \ {p} : stack'[q] = stack[q] /\ pc'[q] = pc[q]
         /\ \A i \in 1 .. Len(stack[p]) : blk[stack[p][i]] < k
         /\ blk' = [blk EXCEPT ![b] = k]
         /\ \A q \in Procs : \A i \in 1 .. Len(stack[q]) : blk'[stack[q][i]] = blk[stack[q][i]]
  <1>0. TypeOK /\ StackInv
    BY DEF Inv
  <1>1. MayRead(p, k)
    BY DEF Hit, Recycle
  <1>2. \A i \in 1 .. Len(stack[p]) : blk[stack[p][i]] < k /\ blk[stack[p][i]] # k
    BY <1>0, <1>1, AskedIsNew
  <1>3. stack' = [stack EXCEPT ![p] = Append(stack[p], b)] /\ pc' = [pc EXCEPT ![p] = "lock"]
    BY DEF Hit, Recycle, Push, Goto
  <1>4. Free(b) => \A q \in Procs : \A i \in 1 .. Len(stack[q]) : stack[q][i] # b
    BY FreeIsUnused DEF Elems
  <1>5. blk' = [blk EXCEPT ![b] = k] /\ (blk[b] = k \/ Free(b))
    BY <1>0 DEF Hit, Recycle, TypeOK
  <1>6. \A q \in Procs : \A i \in 1 .. Len(stack[q]) :
            stack[q][i] \in Bufs /\ blk'[stack[q][i]] = blk[stack[q][i]]
    BY <1>0, <1>4, <1>5 DEF TypeOK
  <1>7. \A i \in 1 .. Len(stack[p]) : stack[p][i] # b
    BY <1>2, <1>4, <1>5
  <1>8. pc[p] \in {"idle", "use"}
    BY <1>1 DEF MayRead, Holding
  <1>9. stack[p] \in Seq(Bufs) /\ stack'[p] = Append(stack[p], b) /\ pc'[p] = "lock"
        /\ \A q \in Procs \ {p} : stack'[q] = stack[q] /\ pc'[q] = pc[q]
    BY <1>0, <1>3 DEF TypeOK
  <1>10. /\ Len(stack[p]) \in Nat /\ Len(stack'[p]) = Len(stack[p]) + 1
         /\ \A i \in 1 .. Len(stack[p]) : stack'[p][i] = stack[p][i]
         /\ stack'[p][Len(stack[p]) + 1] = b
    BY <1>9, AppendElems
  <1> QED BY <1>2, <1>5, <1>6, <1>7, <1>8, <1>9, <1>10

\* brelse() lets go of the last buffer.
LEMMA PopIs ==
  ASSUME Inv, NEW p \in Procs, NEW b \in Bufs, Release(p, b)
  PROVE  /\ Len(stack[p]) \in Nat \ {0} /\ Len(stack'[p]) = Len(stack[p]) - 1
         /\ b = stack[p][Len(stack[p])]
         /\ \A i \in 1 .. Len(stack[p]) - 1 : stack'[p][i] = stack[p][i]
         /\ pc[p] = "release"
         /\ pc'[p] = IF Len(stack[p]) = 1 THEN "idle" ELSE "use"
         /\ \A q \in Procs \ {p} : stack'[q] = stack[q] /\ pc'[q] = pc[q]
  <1>0. TypeOK /\ StackInv
    BY DEF Inv
  <1>1. stack[p] \in Seq(Bufs) /\ Len(stack[p]) \in Nat \ {0} /\ b = stack[p][Len(stack[p])]
    BY <1>0 DEF Release, Holding, TypeOK
  <1>2. \A i \in 1 .. Len(stack[p]) - 1 : stack[p][i] # stack[p][Len(stack[p])]
    BY <1>0, <1>1, StackIsDistinct
  <1>3. /\ stack'[p] = SubSeq(stack[p], 1, Len(stack[p]) - 1) /\ pc[p] = "release"
        /\ pc'[p] = IF Len(stack[p]) = 1 THEN "idle" ELSE "use"
        /\ \A q \in Procs \ {p} : stack'[q] = stack[q] /\ pc'[q] = pc[q]
    BY <1>0 DEF Release, Holding, Goto, TypeOK
  <1>4. Len(stack'[p]) = Len(stack[p]) - 1
        /\ \A i \in 1 .. Len(stack[p]) - 1 : stack'[p][i] = stack[p][i]
    BY <1>1, <1>2, <1>3, FrontElems
  <1> QED BY <1>1, <1>3, <1>4

\* Processes go on in the order of blocks.
LEMMA StackStep ==
  ASSUME Inv, [Next]_vars
  PROVE  StackInv'
  <1>0. TypeOK /\ StackInv /\ NBLOCKS \in Nat
    BY SizeAssumption DEF Inv
  <1>l. \A p \in Procs : Len(stack[p]) \in Nat
    BY <1>0 DEF TypeOK
  <1>1. ASSUME NEW p \in Procs, NEW k \in Blocks, NEW b \in Bufs, Hit(p, k, b) \/ Recycle(p, k, b)
        PROVE  StackInv'
    <2> SUFFICES ASSUME NEW q \in Procs
                 PROVE  /\ pc'[q] = "idle" <=> Len(stack'[q]) = 0
                        /\ \A i \in 1 .. Len(stack'[q]) : blk'[stack'[q][i]] \in Blocks
                        /\ \A i, j \in 1 .. Len(stack'[q]) :
                            i < j => blk'[stack'[q][i]] < blk'[stack'[q][j]]
      BY DEF StackInv
    <2>1. CASE q # p
      BY <1>0, <1>1, <2>1, PushIs DEF StackInv
    <2>2. CASE q = p
      <3>1. \A i \in 1 .. Len(stack'[p]) : i \in 1 .. Len(stack[p]) \/ i = Len(stack[p]) + 1
        BY <1>1, PushIs
      <3>2. blk'[b] = k /\ blk'[stack'[p][Len(stack[p]) + 1]] = k
        BY <1>0, <1>1, PushIs DEF TypeOK
      <3>3. \A i \in 1 .. Len(stack[p]) : blk'[stack'[p][i]] = blk[stack[p][i]]
                                          /\ blk[stack[p][i]] \in Blocks /\ blk[stack[p][i]] < k
        BY <1>0, <1>1, PushIs DEF StackInv
      <3>4. \A i \in 1 .. Len(stack'[p]) : blk'[stack'[p][i]] \in Blocks
        BY <3>1, <3>2, <3>3
      <3>5. \A i, j \in 1 .. Len(stack'[p]) : i < j => blk'[stack'[p][i]] < blk'[stack'[p][j]]
        BY <1>0, <1>l, <3>1, <3>2, <3>3 DEF StackInv
      <3>6. pc'[p] # "idle" /\ Len(stack'[p]) # 0
        BY <1>1, PushIs
      <3> QED BY <2>2, <3>4, <3>5, <3>6
    <2> QED BY <2>1, <2>2
  <1>2. ASSUME NEW p \in Procs, NEW b \in Bufs, Release(p, b)
        PROVE  StackInv'
    <2> SUFFICES ASSUME NEW q \in Procs
                 PROVE  /\ pc'[q] = "idle" <=> Len(stack'[q]) = 0
                        /\ \A i \in 1 .. Len(stack'[q]) : blk'[stack'[q][i]] \in Blocks
                        /\ \A i, j \in 1 .. Len(stack'[q]) :
                            i < j => blk'[stack'[q][i]] < blk'[stack'[q][j]]
      BY DEF StackInv
    <2>1. blk' = blk
      BY <1>2 DEF Release
    <2>2. CASE q # p
      BY <1>0, <1>2, <2>1, <2>2, PopIs DEF StackInv
    <2>3. CASE q = p
      <3>1. \A i \in 1 .. Len(stack'[p]) : i \in 1 .. Len(stack[p])
                                           /\ stack'[p][i] = stack[p][i]
        BY <1>2, PopIs
      <3>2. pc'[p] = "idle" <=> Len(stack'[p]) = 0
        <4>1. /\ Len(stack[p]) \in Nat /\ Len(stack[p]) # 0
              /\ Len(stack'[p]) = Len(stack[p]) - 1
              /\ pc'[p] = IF Len(stack[p]) = 1 THEN "idle" ELSE "use"
          BY <1>2, PopIs
        <4> QED BY <4>1
      <3> QED BY <1>0, <2>1, <2>3, <3>1, <3>2 DEF StackInv
    <2> QED BY <2>2, <2>3
  <1>3. ASSUME Stays \/ UNCHANGED vars
        PROVE  StackInv'
    <2>1. \A p \in Procs : pc'[p] = "idle" <=> pc[p] = "idle"
      BY <1>0, <1>3, StayPc DEF vars
    <2> QED BY <1>0, <1>3, <2>1, StackStays DEF StackInv
  <1> QED BY <1>1, <1>2, <1>3, StepsAre

LEMMA OneBufferStep ==
  ASSUME Inv, [Next]_vars
  PROVE  OneBuffer'
  <1>0. TypeOK /\ OneBuffer
    BY DEF Inv
  <1>1. ASSUME NEW p \in Procs, NEW k \in Blocks, NEW b \in Bufs, Hit(p, k, b) \/ Recycle(p, k, b)
        PROVE  OneBuffer'
    <2>1. CASE Hit(p, k, b)
      BY <1>0, <2>1 DEF Hit, OneBuffer
    <2>2. CASE Recycle(p, k, b)
      <3>1. \A c \in Bufs : blk[c] # k /\ blk'[c] = IF c = b THEN k ELSE blk[c]
        BY <1>0, <2>2 DEF Recycle, TypeOK
      <3> QED BY <1>0, <3>1 DEF OneBuffer
    <2> QED BY <1>1, <2>1, <2>2
  <1>2. blk' = blk => OneBuffer'
    BY <1>0 DEF OneBuffer
  <1> QED BY <1>1, <1>2, StepsAre, StackStays DEF Release


\* Whose locks a process holds depends only on where it is.
LEMMA HeldSame ==
  ASSUME NEW p, stack'[p] = stack[p], pc'[p] \in HoldingPCs <=> pc[p] \in HoldingPCs
  PROVE  Held(p)' = Held(p)
  <1>1. \A i : Holds(p, i)' <=> Holds(p, i)
    BY DEF Holds
  <1> QED BY <1>1 DEF Held

\* The lock of a buffer belongs to who has got past acquiresleep().
LEMMA OwnerStep ==
  ASSUME Inv, [Next]_vars
  PROVE  OwnerInv'
  <1>0. TypeOK /\ StackInv /\ OwnerInv
    BY DEF Inv
  <1>l. \A p \in Procs : Len(stack[p]) \in Nat
    BY <1>0 DEF TypeOK
  <1>s. ASSUME owner' = owner, \A p \in Procs : Held(p)' = Held(p)
        PROVE  OwnerInv'
    BY <1>0, <1>s DEF OwnerInv
  <1>1. ASSUME NEW p \in Procs, NEW k \in Blocks, NEW b \in Bufs, Hit(p, k, b) \/ Recycle(p, k, b)
        PROVE  OwnerInv'
    <2>1. owner' = owner
      BY <1>1 DEF Hit, Recycle
    <2>2. \A q \in Procs \ {p} : Held(q)' = Held(q)
      BY <1>1, PushIs, HeldSame
    <2>3. \A i \in 1 .. Len(stack[p]) : Holds(p, i)
      BY <1>0, <1>l, <1>1, PushIs DEF Holds, HoldingPCs, StackInv
    <2>4. \A i \in 1 .. Len(stack'[p]) : Holds(p, i)' <=> i \in 1 .. Len(stack[p])
      BY <1>1, PushIs DEF Holds, HoldingPCs
    <2>5. /\ \A i \in 1 .. Len(stack[p]) : stack'[p][i] = stack[p][i]
          /\ Len(stack'[p]) = Len(stack[p]) + 1
      BY <1>1, PushIs
    <2>6. Held(p)' = Held(p)
      BY <1>l, <2>3, <2>4, <2>5 DEF Held
    <2> QED BY <1>s, <2>1, <2>2, <2>6
  <1>2. ASSUME NEW p \in Procs, NEW b \in Bufs, Release(p, b)
        PROVE  OwnerInv'
    <2>1. owner' = owner
      BY <1>2 DEF Release
    <2>2. \A q \in Procs \ {p} : Held(q)' = Held(q)
      BY <1>2, PopIs, HeldSame
    <2>3. \A i \in 1 .. Len(stack[p]) : Holds(p, i) <=> i \in 1 .. Len(stack[p]) - 1
      BY <1>l, <1>2, PopIs DEF Holds, HoldingPCs
    <2>4. \A i \in 1 .. Len(stack'[p]) : Holds(p, i)'
      BY <1>l, <1>2, PopIs DEF Holds, HoldingPCs
    <2>5. /\ \A i \in 1 .. Len(stack[p]) - 1 : stack'[p][i] = stack[p][i]
          /\ Len(stack'[p]) = Len(stack[p]) - 1
      BY <1>2, PopIs
    <2>6. Held(p)' = Held(p)
      <3>1. 1 .. Len(stack'[p]) = 1 .. Len(stack[p]) - 1
        BY <2>5
      <3>2. {i \in 1 .. Len(stack[p]) : Holds(p, i)} = 1 .. Len(stack[p]) - 1
        BY <1>l, <2>3
      <3>3. {i \in 1 .. Len(stack'[p]) : Holds(p, i)'} = 1 .. Len(stack[p]) - 1
        BY <2>4, <3>1
      <3> QED BY <2>5, <3>2, <3>3 DEF Held
    <2> QED BY <1>s, <2>1, <2>2, <2>6
  <1>3. ASSUME NEW p \in Procs, NEW b \in Bufs, AcquireSleep(p, b), owner[b] = None
        PROVE  OwnerInv'
    <2>1. /\ owner' = [owner EXCEPT ![b] = p] /\ stack' = stack
          /\ pc[p] = "lock" /\ pc' = [pc EXCEPT ![p] = "locked"]
          /\ Len(stack[p]) \in Nat \ {0} /\ b = stack[p][Len(stack[p])]
      BY <1>0, <1>l, <1>3 DEF AcquireSleep, Holding, Goto, TypeOK
    <2>2. \A q \in Procs \ {p} : Held(q)' = Held(q)
      BY <1>0, <2>1, HeldSame DEF TypeOK
    <2>3. \A i \in 1 .. Len(stack[p]) : Holds(p, i)' /\ (Holds(p, i) <=> i # Len(stack[p]))
      BY <1>0, <2>1 DEF Holds, HoldingPCs, TypeOK
    <2>4. Held(p)' = Held(p) \cup {b}
      BY <2>1, <2>3 DEF Held
    <2>5. \A q \in Procs : b \notin Held(q)
      BY <1>0, <1>3, NoneAssumption DEF OwnerInv
    <2> QED BY <1>0, <2>1, <2>2, <2>4, <2>5 DEF OwnerInv, TypeOK
  <1>4. ASSUME NEW p \in Procs, NEW b \in Bufs, ReleaseSleep(p, b)
        PROVE  OwnerInv'
    <2>1. /\ owner' = [owner EXCEPT ![b] = None] /\ stack' = stack
          /\ pc[p] = "use" /\ pc'[p] = "release"
          /\ Len(stack[p]) \in Nat \ {0} /\ b = stack[p][Len(stack[p])]
      BY <1>0, <1>l, <1>4 DEF ReleaseSleep, Holding, TypeOK
    <2>2. \A q \in Procs \ {p} : Held(q)' = Held(q)
      <3> SUFFICES ASSUME NEW q \in Procs \ {p} PROVE Held(q)' = Held(q)
        OBVIOUS
      <3>1. pc'[q] = pc[q] \/ (pc[q] = "locksleep" /\ pc'[q] = "lock")
        BY <1>4 DEF ReleaseSleep, Holding
      <3>2. pc'[q] \in HoldingPCs <=> pc[q] \in HoldingPCs
        BY <3>1 DEF HoldingPCs
      <3> QED BY <2>1, <3>2, HeldSame
    <2>3. \A i \in 1 .. Len(stack[p]) : Holds(p, i) /\ (Holds(p, i)' <=> i # Len(stack[p]))
      BY <2>1 DEF Holds, HoldingPCs
    <2>4. \A i \in 1 .. Len(stack[p]) : i # Len(stack[p]) => stack[p][i] # b
      BY <1>0, <2>1, StackIsDistinct
    <2>5. Held(p)' = Held(p) \ {b} /\ b \in Held(p)
      BY <2>1, <2>3, <2>4 DEF Held
    <2>6. owner[b] = p
      BY <1>0, <2>5 DEF OwnerInv
    <2> QED BY <1>0, <2>1, <2>2, <2>5, <2>6, NoneAssumption DEF OwnerInv, TypeOK
  <1>5. ASSUME Stays, \A p \in Procs, b \in Bufs :
                        ~ReleaseSleep(p, b) /\ (AcquireSleep(p, b) => owner[b] # None)
        PROVE  OwnerInv'
    <2>1. owner' = owner /\ stack' = stack
      BY <1>5, StackStays
      DEF Stays, bufvars, Interrupt, Kill, NoBuffers, AcquireSleep, Cached, Read, Waited,
          LogWrite, Bwrite, Modify
    <2>2. \A q \in Procs : pc'[q] \in HoldingPCs <=> pc[q] \in HoldingPCs
      <3> SUFFICES ASSUME NEW q \in Procs PROVE pc'[q] \in HoldingPCs <=> pc[q] \in HoldingPCs
        OBVIOUS
      <3>1. CASE Interrupt
        BY <3>1 DEF Interrupt, Holding, HoldingPCs
      <3>2. ASSUME NEW p \in Procs, Kill(p) \/ \E k \in Blocks : NoBuffers(p, k)
            PROVE  pc'[q] \in HoldingPCs <=> pc[q] \in HoldingPCs
        BY <1>0, <3>2 DEF Kill, NoBuffers, Goto, HoldingPCs, TypeOK
      <3>3. ASSUME NEW p \in Procs, NEW b \in Bufs,
                   AcquireSleep(p, b) \/ Cached(p, b) \/ Read(p, b) \/ Waited(p, b)
            PROVE  pc'[q] \in HoldingPCs <=> pc[q] \in HoldingPCs
        BY <1>0, <1>5, <3>3 DEF AcquireSleep, Cached, Read, Waited, Goto, Holding, HoldingPCs,
                                TypeOK
      <3>4. ASSUME NEW p \in Procs, NEW b \in Bufs,
                   LogWrite(p, b) \/ Bwrite(p, b) \/ Modify(p, b)
            PROVE  pc'[q] \in HoldingPCs <=> pc[q] \in HoldingPCs
        BY <1>0, <3>4 DEF LogWrite, Bwrite, Modify, Goto, Holding, HoldingPCs, TypeOK
      <3> QED BY <1>5, <3>1, <3>2, <3>3, <3>4 DEF Stays
    <2> QED BY <1>s, <2>1, <2>2, HeldSame
  <1>6. UNCHANGED vars => OwnerInv'
    BY <1>s, HeldSame DEF vars, bufvars
  <1> QED BY <1>1, <1>2, <1>3, <1>4, <1>5, <1>6, StepsAre


\* The buffer that p is busy with.
LEMMA HoldingIs ==
  ASSUME Inv, NEW p \in Procs, NEW c, NEW b, Holding(p, c, b)
  PROVE  /\ pc[p] = c /\ b \in Bufs /\ blk[b] \in Blocks
         /\ Len(stack[p]) \in 1 .. Len(stack[p]) /\ b = stack[p][Len(stack[p])]
         /\ c \in HoldingPCs => owner[b] = p
         /\ c \in {"use", "modified"} => valid[b]
  <1>0. TypeOK /\ StackInv /\ OwnerInv /\ ValidInv
    BY DEF Inv
  <1>1. pc[p] = c /\ Len(stack[p]) \in 1 .. Len(stack[p]) /\ b = stack[p][Len(stack[p])]
    BY <1>0 DEF Holding, TypeOK
  <1>2. b \in Bufs /\ blk[b] \in Blocks
    BY <1>0, <1>1 DEF StackInv, TypeOK
  <1>3. c \in HoldingPCs => b \in Held(p)
    BY <1>1 DEF Held, Holds
  <1> QED BY <1>0, <1>1, <1>2, <1>3 DEF OwnerInv, ValidInv

\* Only one process at a time is past acquiresleep() of a buffer.
LEMMA OneHolder ==
  ASSUME Inv, NEW p \in Procs, NEW q \in Procs, NEW c \in HoldingPCs, NEW d \in HoldingPCs,
         NEW b, Holding(p, c, b), Holding(q, d, b)
  PROVE  p = q /\ c = d
  BY HoldingIs

\* The head of the queue is a buffer that somebody waits for.
LEMMA HeadIs ==
  ASSUME Inv, Interrupt
  PROVE  /\ Head(idequeue) \in Elems(idequeue) /\ Head(idequeue) \in Bufs
         /\ blk[Head(idequeue)] \in Blocks
  <1>0. TypeOK /\ QueueInv
    BY DEF Inv
  <1>1. Head(idequeue) \in Bufs /\ Head(idequeue) \in Elems(idequeue)
    BY <1>0, HeadTailProperties DEF Interrupt, Elems, TypeOK
  <1>2. PICK p \in Procs : \/ Holding(p, "idesleep", Head(idequeue))
                           \/ Holding(p, "idewait", Head(idequeue))
    BY <1>0, <1>1 DEF QueueInv
  <1> QED BY <1>1, <1>2, HoldingIs

\* A buffer in use has contents; one that is not valid is neither dirty nor in use.
LEMMA ValidStep ==
  ASSUME Inv, [Next]_vars
  PROVE  ValidInv'
  <1>0. TypeOK /\ StackInv /\ ValidInv
    BY DEF Inv
  <1>l. \A p \in Procs : Len(stack[p]) \in Nat
    BY <1>0 DEF TypeOK
  <1> DEFINE Used(p, i) == i < Len(stack[p]) \/ pc[p] \in {"use", "modified"}
  <1>1. ASSUME NEW p \in Procs, NEW k \in Blocks, NEW b \in Bufs, Hit(p, k, b) \/ Recycle(p, k, b)
        PROVE  ValidInv'
    <2>1. \A c \in Bufs : (valid'[c] => blk'[c] \in Blocks) /\ (dirty'[c] => valid'[c])
      <3>1. CASE Hit(p, k, b)
        BY <1>0, <3>1 DEF Hit, ValidInv
      <3>2. CASE Recycle(p, k, b)
        BY <1>0, <3>2 DEF Recycle, ValidInv, TypeOK
      <3> QED BY <1>1, <3>1, <3>2
    <2>2. \A q \in Procs : \A i \in 1 .. Len(stack[q]) : valid'[stack[q][i]] = valid[stack[q][i]]
      <3>1. CASE Hit(p, k, b)
        BY <3>1 DEF Hit
      <3>2. CASE Recycle(p, k, b)
        <4>1. \A q \in Procs : \A i \in 1 .. Len(stack[q]) :
                stack[q][i] # b /\ stack[q][i] \in Bufs
          BY <1>0, <3>2, FreeIsUnused DEF Recycle, Elems, TypeOK
        <4> QED BY <1>0, <3>2, <4>1 DEF Recycle, TypeOK
      <3> QED BY <1>1, <3>1, <3>2
    <2> SUFFICES ASSUME NEW q \in Procs, NEW i \in 1 .. Len(stack'[q]), Used(q, i)'
                 PROVE  valid'[stack'[q][i]]
      BY <2>1 DEF ValidInv
    <2>3. CASE q # p
      BY <1>0, <1>1, <2>2, <2>3, PushIs DEF ValidInv
    <2>4. CASE q = p
      <3>1. i \in 1 .. Len(stack[p]) /\ stack'[p][i] = stack[p][i] /\ pc[p] = "use"
        BY <1>0, <1>1, <2>4, PushIs DEF StackInv
      <3> QED BY <1>0, <2>2, <2>4, <3>1 DEF ValidInv
    <2> QED BY <2>3, <2>4
  <1>2. ASSUME NEW p \in Procs, NEW b \in Bufs, Release(p, b)
        PROVE  ValidInv'
    <2>1. valid' = valid /\ dirty' = dirty /\ blk' = blk
      BY <1>2 DEF Release
    <2> SUFFICES ASSUME NEW q \in Procs, NEW i \in 1 .. Len(stack'[q]), Used(q, i)'
                 PROVE  valid'[stack'[q][i]]
      BY <1>0, <2>1 DEF ValidInv
    <2>2. CASE q # p
      BY <1>0, <1>2, <2>1, <2>2, PopIs DEF ValidInv
    <2>3. CASE q = p
      <3>1. i \in 1 .. Len(stack[p]) /\ i < Len(stack[p]) /\ stack'[p][i] = stack[p][i]
        BY <1>2, <2>3, PopIs
      <3> QED BY <1>0, <2>1, <2>3, <3>1 DEF ValidInv
    <2> QED BY <2>2, <2>3
  <1>3. ASSUME stack' = stack, blk' = blk,
               \A b \in Bufs : valid[b] => valid'[b],
               \A b \in Bufs : valid'[b] => blk[b] \in Blocks,
               \A b \in Bufs : dirty'[b] => valid'[b],
               \A p \in Procs : pc'[p] \in {"use", "modified"} =>
                 pc[p] \in {"use", "modified"} \/ valid'[stack[p][Len(stack[p])]]
        PROVE  ValidInv'
    <2> SUFFICES ASSUME NEW q \in Procs, NEW i \in 1 .. Len(stack[q]), Used(q, i)'
                 PROVE  valid'[stack[q][i]]
      BY <1>3 DEF ValidInv
    <2>1. stack[q][i] \in Bufs /\ (i < Len(stack[q]) \/ i = Len(stack[q]))
      BY <1>0, <1>l DEF TypeOK
    <2>2. Used(q, i) => valid[stack[q][i]]
      BY <1>0 DEF ValidInv
    <2> QED BY <1>3, <2>1, <2>2
  <1>4. CASE Interrupt
    <2>1. \A p \in Procs : pc'[p] \in {"use", "modified"} => pc[p] \in {"use", "modified"}
      BY <1>4 DEF Interrupt
    <2>2. /\ stack' = stack /\ blk' = blk
          /\ valid' = [valid EXCEPT ![Head(idequeue)] = TRUE]
          /\ dirty' = [dirty EXCEPT ![Head(idequeue)] = FALSE]
      BY <1>4 DEF Interrupt
    <2>3. \A b \in Bufs : (valid[b] => valid'[b]) /\ (valid'[b] => blk[b] \in Blocks)
                          /\ (dirty'[b] => valid'[b])
      BY <1>0, <1>4, <2>2, HeadIs DEF ValidInv, TypeOK
    <2> QED BY <1>3, <2>1, <2>2, <2>3
  <1>5. ASSUME NEW p \in Procs, NEW b \in Bufs, LogWrite(p, b) \/ Bwrite(p, b)
        PROVE  ValidInv'
    <2>1. stack' = stack /\ blk' = blk /\ valid' = valid /\ dirty' = [dirty EXCEPT ![b] = TRUE]
      BY <1>5 DEF LogWrite, Bwrite
    <2>2. valid[b] /\ pc[p] \in {"use", "modified"}
      BY <1>5, HoldingIs DEF LogWrite, Bwrite
    <2>3. \A q \in Procs : pc'[q] \in {"use", "modified"} => pc[q] \in {"use", "modified"}
      BY <1>0, <1>5, <2>2 DEF LogWrite, Bwrite, Goto, TypeOK
    <2>4. \A c \in Bufs : (valid'[c] => blk[c] \in Blocks) /\ (dirty'[c] => valid'[c])
      BY <1>0, <2>1, <2>2 DEF ValidInv, TypeOK
    <2> QED BY <1>3, <2>1, <2>3, <2>4
  <1>6. ASSUME NEW p \in Procs,
               \/ Kill(p) \/ \E k \in Blocks : NoBuffers(p, k)
               \/ \E b \in Bufs : \/ AcquireSleep(p, b) \/ Cached(p, b) \/ Read(p, b)
                                  \/ Waited(p, b) \/ ReleaseSleep(p, b) \/ Modify(p, b)
        PROVE  ValidInv'
    <2>1. stack' = stack /\ blk' = blk /\ valid' = valid /\ dirty' = dirty
      BY <1>6 DEF Kill, NoBuffers, AcquireSleep, Cached, Read, Waited, ReleaseSleep, Modify,
                  bufvars
    <2>2. \A q \in Procs : pc'[q] \in {"use", "modified"} =>
            pc[q] \in {"use", "modified"} \/ valid[stack[q][Len(stack[q])]]
      BY <1>0, <1>6 DEF Kill, NoBuffers, AcquireSleep, Cached, Read, Waited, ReleaseSleep, Modify,
                        Goto, Holding, TypeOK
    <2> QED BY <1>0, <1>3, <2>1, <2>2 DEF ValidInv
  <1>7. UNCHANGED vars => ValidInv'
    BY <1>0 DEF vars, bufvars, ValidInv
  <1> QED BY <1>1, <1>2, <1>4, <1>5, <1>6, <1>7, StepsAre DEF Stays


\* What is cached and not pinned is on disk.
LEMMA CleanStep ==
  ASSUME Inv, [Next]_vars
  PROVE  CleanIsOnDisk'
  <1>0. TypeOK /\ OneBuffer /\ ValidInv /\ CleanIsOnDisk
    BY DEF Inv
  <1> DEFINE Changing(b) == \E p \in Procs : Holding(p, "modified", b)
  <1>a. ASSUME NEW b \in Bufs,
               blk'[b] = blk[b], valid'[b] => valid[b], ~dirty'[b] => ~dirty[b],
               data'[b] = data[b], valid[b] => disk'[blk[b]] = disk[blk[b]],
               Changing(b) => Changing(b)' \/ dirty'[b]
        PROVE  valid'[b] /\ ~dirty'[b] /\ ~Changing(b)' => data'[b] = disk'[blk'[b]]
    BY <1>0, <1>a DEF CleanIsOnDisk
  <1> SUFFICES ASSUME NEW c \in Bufs, valid'[c], ~dirty'[c], ~Changing(c)'
               PROVE  data'[c] = disk'[blk'[c]]
    BY DEF CleanIsOnDisk
  <1>1. ASSUME NEW p \in Procs, NEW k \in Blocks, NEW b \in Bufs, Hit(p, k, b) \/ Recycle(p, k, b)
        PROVE  data'[c] = disk'[blk'[c]]
    <2>1. \A q \in Procs : Holding(q, "modified", c) => Holding(q, "modified", c)'
      BY <1>1, PushIs DEF Holding
    <2>2. /\ data' = data /\ disk' = disk
          /\ blk'[c] = blk[c] /\ valid'[c] = valid[c] /\ dirty'[c] = dirty[c]
      BY <1>0, <1>1 DEF Hit, Recycle, TypeOK
    <2> QED BY <1>a, <2>1, <2>2
  <1>2. ASSUME NEW p \in Procs, NEW b \in Bufs, Release(p, b)
        PROVE  data'[c] = disk'[blk'[c]]
    <2>1. \A q \in Procs : Holding(q, "modified", c) => Holding(q, "modified", c)'
      BY <1>2, PopIs DEF Holding
    <2> QED BY <1>2, <1>a, <2>1 DEF Release
  <1>3. CASE Interrupt
    <2> DEFINE b == Head(idequeue)
    <2>1. b \in Bufs /\ blk[b] \in Blocks
      BY <1>3, HeadIs
    <2>2. \A q \in Procs : Holding(q, "modified", c) => Holding(q, "modified", c)'
      BY <1>3 DEF Interrupt, Holding
    <2>3. CASE c = b
      <3>1. CASE dirty[b]
        BY <1>0, <1>3, <2>1, <2>3, <3>1 DEF Interrupt, TypeOK
      <3>2. CASE ~dirty[b]
        BY <1>0, <1>3, <2>1, <2>3, <3>2 DEF Interrupt, TypeOK
      <3> QED BY <3>1, <3>2
    <2>4. CASE c # b
      <3>1. /\ blk' = blk /\ valid'[c] = valid[c] /\ dirty'[c] = dirty[c] /\ data'[c] = data[c]
            /\ disk' = disk \/ disk' = [disk EXCEPT ![blk[b]] = data[b]]
        BY <1>0, <1>3, <2>1, <2>4 DEF Interrupt, TypeOK
      <3>2. blk[c] \in Blocks /\ blk[c] # blk[b]
        BY <1>0, <2>1, <2>4, <3>1, NoneAssumption DEF ValidInv, OneBuffer
      <3>3. disk'[blk[c]] = disk[blk[c]]
        BY <1>0, <3>1, <3>2 DEF TypeOK
      <3> QED BY <1>a, <2>2, <3>1, <3>3
    <2> QED BY <2>3, <2>4
  <1>4. ASSUME NEW p \in Procs, NEW b \in Bufs, Modify(p, b)
        PROVE  data'[c] = disk'[blk'[c]]
    <2>1. Holding(p, "modified", b)'
      BY <1>0, <1>4 DEF Modify, Goto, Holding, TypeOK
    <2>2. c # b
      BY <2>1
    <2>3. \A q \in Procs : Holding(q, "modified", c) => Holding(q, "modified", c)'
      BY <1>0, <1>4 DEF Modify, Goto, Holding, TypeOK
    <2>4. data'[c] = data[c] /\ UNCHANGED <<blk, valid, dirty, disk>>
      BY <1>0, <1>4, <2>2 DEF Modify, TypeOK
    <2> QED BY <1>a, <2>3, <2>4
  <1>5. ASSUME NEW p \in Procs, NEW b \in Bufs, LogWrite(p, b) \/ Bwrite(p, b)
        PROVE  data'[c] = disk'[blk'[c]]
    <2>1. dirty' = [dirty EXCEPT ![b] = TRUE] /\ UNCHANGED <<blk, valid, data, disk>>
      BY <1>5 DEF LogWrite, Bwrite
    <2>2. c # b
      BY <1>0, <2>1 DEF TypeOK
    <2>3. \A q \in Procs : Holding(q, "modified", c) => Holding(q, "modified", c)'
      BY <1>0, <1>5, <2>2 DEF LogWrite, Bwrite, Goto, Holding, TypeOK
    <2>4. dirty'[c] = dirty[c]
      BY <1>0, <2>1, <2>2 DEF TypeOK
    <2> QED BY <1>a, <2>1, <2>3, <2>4
  <1>6. ASSUME NEW p \in Procs,
               \/ Kill(p) \/ \E k \in Blocks : NoBuffers(p, k)
               \/ \E b \in Bufs : \/ AcquireSleep(p, b) \/ Cached(p, b) \/ Read(p, b)
                                  \/ Waited(p, b) \/ ReleaseSleep(p, b)
        PROVE  data'[c] = disk'[blk'[c]]
    <2>1. UNCHANGED <<blk, valid, dirty, data, disk>>
      BY <1>6 DEF Kill, NoBuffers, AcquireSleep, Cached, Read, Waited, ReleaseSleep, bufvars
    <2>2. \A q \in Procs : Holding(q, "modified", c) => Holding(q, "modified", c)'
      BY <1>0, <1>6 DEF Kill, NoBuffers, AcquireSleep, Cached, Read, Waited, ReleaseSleep,
                        Goto, Holding, TypeOK
    <2> QED BY <1>a, <2>1, <2>2
  <1>7. UNCHANGED vars => data'[c] = disk'[blk'[c]]
    BY <1>0 DEF vars, bufvars, CleanIsOnDisk, Holding
  <1> QED BY <1>1, <1>2, <1>3, <1>4, <1>5, <1>6, <1>7, StepsAre DEF Stays

\* Who sleeps for a lock sleeps while another holds it.
LEMMA LockStep ==
  ASSUME Inv, [Next]_vars
  PROVE  LockInv'
  <1>0. TypeOK /\ StackInv /\ OwnerInv /\ LockInv
    BY DEF Inv
  <1> SUFFICES ASSUME NEW q \in Procs, NEW c \in Bufs, Holding(q, "locksleep", c)'
               PROVE  owner'[c] \notin {None, q}
    BY DEF LockInv
  <1>a. ASSUME Holding(q, "locksleep", c), owner'[c] = owner[c]
        PROVE  owner'[c] \notin {None, q}
    BY <1>0, <1>a DEF LockInv
  <1>1. ASSUME NEW p \in Procs, NEW k \in Blocks, NEW b \in Bufs, Hit(p, k, b) \/ Recycle(p, k, b)
        PROVE  owner'[c] \notin {None, q}
    <2>1. Holding(q, "locksleep", c)
      BY <1>1, PushIs DEF Holding
    <2> QED BY <1>1, <1>a, <2>1 DEF Hit, Recycle
  <1>2. ASSUME NEW p \in Procs, NEW b \in Bufs, Release(p, b)
        PROVE  owner'[c] \notin {None, q}
    <2>1. Holding(q, "locksleep", c)
      BY <1>2, PopIs DEF Holding
    <2> QED BY <1>2, <1>a, <2>1 DEF Release
  <1>3. ASSUME NEW p \in Procs, NEW b \in Bufs, AcquireSleep(p, b), owner[b] = None
        PROVE  owner'[c] \notin {None, q}
    <2>1. /\ owner' = [owner EXCEPT ![b] = p] /\ stack' = stack
          /\ pc' = [pc EXCEPT ![p] = "locked"]
      BY <1>3 DEF AcquireSleep, Goto
    <2>2. Holding(q, "locksleep", c)
      BY <1>0, <2>1 DEF Holding, TypeOK
    <2>3. b # c
      BY <1>0, <1>3, <2>2 DEF LockInv
    <2> QED BY <1>0, <1>a, <2>1, <2>2, <2>3 DEF TypeOK
  <1>4. ASSUME NEW p \in Procs, NEW b \in Bufs, AcquireSleep(p, b), owner[b] # None
        PROVE  owner'[c] \notin {None, q}
    <2>1. /\ owner' = owner /\ stack' = stack /\ pc[p] = "lock"
          /\ pc' = [pc EXCEPT ![p] = "locksleep"]
          /\ Len(stack[p]) \in Nat \ {0} /\ b = stack[p][Len(stack[p])]
      BY <1>0, <1>4 DEF AcquireSleep, Holding, Goto, TypeOK
    <2>2. CASE q # p
      <3>1. Holding(q, "locksleep", c)
        BY <1>0, <2>1, <2>2 DEF Holding, TypeOK
      <3> QED BY <1>a, <2>1, <3>1
    <2>3. CASE q = p
      <3>1. c = b
        BY <2>1, <2>3 DEF Holding
      <3>2. \A i \in 1 .. Len(stack[p]) : Holds(p, i) => i # Len(stack[p])
        BY <2>1 DEF Holds, HoldingPCs
      <3>3. b \notin Held(p)
        BY <1>0, <2>1, <3>2, StackIsDistinct DEF Held
      <3> QED BY <1>0, <1>4, <2>1, <2>3, <3>1, <3>3 DEF OwnerInv
    <2> QED BY <2>2, <2>3
  <1>5. ASSUME NEW p \in Procs, NEW b \in Bufs, ReleaseSleep(p, b)
        PROVE  owner'[c] \notin {None, q}
    <2>1. /\ owner' = [owner EXCEPT ![b] = None] /\ stack' = stack
          /\ Holding(q, "locksleep", c) /\ ~Holding(q, "locksleep", b)
      BY <1>5 DEF ReleaseSleep, Holding
    <2>2. c # b
      BY <2>1
    <2> QED BY <1>0, <1>a, <2>1, <2>2 DEF TypeOK
  <1>6. ASSUME NEW p \in Procs,
               \/ Kill(p) \/ \E k \in Blocks : NoBuffers(p, k)
               \/ \E b \in Bufs : \/ Cached(p, b) \/ Read(p, b) \/ Waited(p, b)
                                  \/ Modify(p, b) \/ LogWrite(p, b) \/ Bwrite(p, b)
        PROVE  owner'[c] \notin {None, q}
    <2>1. owner' = owner
      BY <1>6 DEF Kill, NoBuffers, Cached, Read, Waited, Modify, LogWrite, Bwrite, bufvars
    <2>2. Holding(q, "locksleep", c)
      BY <1>0, <1>6 DEF Kill, NoBuffers, Cached, Read, Waited, Modify, LogWrite, Bwrite,
                        Goto, Holding, TypeOK
    <2> QED BY <1>a, <2>1, <2>2
  <1>7. CASE Interrupt
    <2>1. owner' = owner /\ Holding(q, "locksleep", c)
      BY <1>7 DEF Interrupt, Holding
    <2> QED BY <1>a, <2>1
  <1>8. UNCHANGED vars => owner'[c] \notin {None, q}
    BY <1>a DEF vars, bufvars, Holding
  <1> QED BY <1>1, <1>2, <1>3, <1>4, <1>5, <1>6, <1>7, <1>8, StepsAre DEF Stays


\* A process between iderw() and the end of its wait.
Waits(p, b) == Holding(p, "idesleep", b) \/ Holding(p, "idewait", b)

\* A queued buffer has exactly one process that waits for it.
LEMMA QueuedIs ==
  ASSUME Inv, NEW p \in Procs, NEW c \in {"locked", "use", "modified"}, NEW b, Holding(p, c, b)
  PROVE  b \notin Elems(idequeue) /\ \A q \in Procs : ~Waits(q, b)
  <1>1. \A q \in Procs : ~Waits(q, b)
    BY OneHolder DEF Waits, HoldingPCs
  <1> QED BY <1>1 DEF Inv, QueueInv, Waits

\* Requests and waiters match.
LEMMA QueueStep ==
  ASSUME Inv, [Next]_vars
  PROVE  QueueInv'
  <1>0. TypeOK /\ StackInv /\ QueueInv
    BY DEF Inv
  <1>q. /\ \A i, j \in 1 .. Len(idequeue) : idequeue[i] = idequeue[j] => i = j
        /\ \A b \in Elems(idequeue) : b \in Bufs /\ (~valid[b] \/ dirty[b])
                                      /\ \E p \in Procs : Waits(p, b)
        /\ \A p \in Procs, b \in Bufs :
            /\ Holding(p, "idesleep", b) => b \in Elems(idequeue)
            /\ Holding(p, "idewait", b) /\ b \notin Elems(idequeue) => valid[b] /\ ~dirty[b]
    <2>1. \A b \in Elems(idequeue) : b \in Bufs
      BY <1>0 DEF TypeOK, Elems
    <2> QED BY <1>0, <2>1 DEF QueueInv, Waits
  <1>s. ASSUME idequeue' = idequeue,
               \A p \in Procs, b \in Bufs :
                 /\ Holding(p, "idesleep", b)' <=> Holding(p, "idesleep", b)
                 /\ Holding(p, "idewait", b)' <=> Holding(p, "idewait", b)
                 /\ Waits(p, b) => valid'[b] = valid[b] /\ dirty'[b] = dirty[b]
        PROVE  QueueInv'
    <2>1. Elems(idequeue)' = Elems(idequeue)
      BY <1>s DEF Elems
    <2>2. \A b \in Elems(idequeue) :
            (~valid'[b] \/ dirty'[b]) /\ \E p \in Procs : Waits(p, b)'
      BY <1>q, <1>s DEF Waits
    <2>3. \A p \in Procs, b \in Bufs :
            /\ Holding(p, "idesleep", b)' => b \in Elems(idequeue)
            /\ Holding(p, "idewait", b)' /\ b \notin Elems(idequeue) => valid'[b] /\ ~dirty'[b]
      BY <1>q, <1>s DEF Waits
    <2> QED BY <1>q, <1>s, <2>1, <2>2, <2>3 DEF QueueInv, Waits
  <1>m. ASSUME NEW p \in Procs, NEW b \in Bufs, Waits(p, b),
               UNCHANGED <<idequeue, valid, dirty, stack>>,
               NEW d \in {"idesleep", "idewait", "use"}, pc' = [pc EXCEPT ![p] = d],
               b \in Elems(idequeue) <=> d # "use"
        PROVE  QueueInv'
    <2>1. Elems(idequeue)' = Elems(idequeue)
      BY <1>m DEF Elems
    <2>2. \A q \in Procs, c \in Bufs : Waits(q, c) /\ (q # p \/ d # "use") => Waits(q, c)'
      BY <1>0, <1>m DEF Waits, Holding, TypeOK
    <2>3. \A c \in Elems(idequeue) : \E q \in Procs : Waits(q, c)'
      <3> SUFFICES ASSUME NEW c \in Elems(idequeue) PROVE \E q \in Procs : Waits(q, c)'
        OBVIOUS
      <3>1. PICK q \in Procs : c \in Bufs /\ Waits(q, c)
        BY <1>q
      <3>2. q = p => c = b
        BY <1>m, <3>1 DEF Waits, Holding
      <3> QED BY <1>m, <2>2, <3>1, <3>2
    <2>4. \A q \in Procs, c \in Bufs :
            /\ Holding(q, "idesleep", c)' => c \in Elems(idequeue)
            /\ Holding(q, "idewait", c)' /\ c \notin Elems(idequeue) => valid[c] /\ ~dirty[c]
      <3> SUFFICES ASSUME NEW q \in Procs, NEW c \in Bufs
                   PROVE  /\ Holding(q, "idesleep", c)' => c \in Elems(idequeue)
                          /\ Holding(q, "idewait", c)' /\ c \notin Elems(idequeue)
                                => valid[c] /\ ~dirty[c]
        OBVIOUS
      <3>1. CASE q # p
        BY <1>0, <1>m, <1>q, <3>1 DEF Holding, TypeOK
      <3>2. CASE q = p
        <4>1. pc'[p] = d /\ (\A e : Holding(p, e, c)' => c = b)
          BY <1>0, <1>m DEF Waits, Holding, TypeOK
        <4> QED BY <1>m, <3>2, <4>1 DEF Holding
      <3> QED BY <3>1, <3>2
    <2> QED BY <1>q, <1>m, <2>1, <2>3, <2>4 DEF QueueInv, Waits
  <1>1. ASSUME NEW p \in Procs, NEW k \in Blocks, NEW b \in Bufs, Hit(p, k, b) \/ Recycle(p, k, b)
        PROVE  QueueInv'
    <2>1. idequeue' = idequeue
      BY <1>1 DEF Hit, Recycle
    <2>2. \A q \in Procs, c \in Bufs :
            /\ Holding(q, "idesleep", c)' <=> Holding(q, "idesleep", c)
            /\ Holding(q, "idewait", c)' <=> Holding(q, "idewait", c)
      BY <1>1, PushIs DEF Holding
    <2>3. \A q \in Procs, c \in Bufs : Waits(q, c) => valid'[c] = valid[c] /\ dirty'[c] = dirty[c]
      <3>1. CASE Hit(p, k, b)
        BY <3>1 DEF Hit
      <3>2. CASE Recycle(p, k, b)
        <4>1. \A q \in Procs, c \in Bufs : Waits(q, c) => c \in Elems(stack[q])
          BY HoldingIs DEF Waits, Elems
        <4>2. \A q \in Procs : b \notin Elems(stack[q])
          BY <3>2, FreeIsUnused DEF Recycle
        <4> QED BY <1>0, <3>2, <4>1, <4>2 DEF Recycle, TypeOK
      <3> QED BY <1>1, <3>1, <3>2
    <2> QED BY <1>s, <2>1, <2>2, <2>3
  <1>2. ASSUME NEW p \in Procs, NEW b \in Bufs, Release(p, b)
        PROVE  QueueInv'
    <2>1. \A q \in Procs, c \in Bufs :
            /\ Holding(q, "idesleep", c)' <=> Holding(q, "idesleep", c)
            /\ Holding(q, "idewait", c)' <=> Holding(q, "idewait", c)
      BY <1>2, PopIs DEF Holding
    <2> QED BY <1>s, <1>2, <2>1 DEF Release
  <1>3. ASSUME NEW p \in Procs, NEW b \in Bufs,
               \/ AcquireSleep(p, b) \/ Cached(p, b) \/ Modify(p, b) \/ LogWrite(p, b)
               \/ ReleaseSleep(p, b)
        PROVE  QueueInv'
    <2>1. idequeue' = idequeue /\ stack' = stack
      BY <1>3 DEF AcquireSleep, Cached, Modify, LogWrite, ReleaseSleep, bufvars
    <2>2. \A q \in Procs : /\ pc'[q] = "idesleep" <=> pc[q] = "idesleep"
                           /\ pc'[q] = "idewait" <=> pc[q] = "idewait"
      BY <1>0, <1>3 DEF AcquireSleep, Cached, Modify, LogWrite, ReleaseSleep, Goto, Holding,
                        TypeOK
    <2>3. \A q \in Procs, c \in Bufs : Waits(q, c) => valid'[c] = valid[c] /\ dirty'[c] = dirty[c]
      <3>1. CASE LogWrite(p, b)
        <4>1. \A q \in Procs : ~Waits(q, b)
          BY <3>1, QueuedIs DEF LogWrite
        <4> QED BY <1>0, <3>1, <4>1 DEF LogWrite, TypeOK
      <3>2. CASE ~LogWrite(p, b)
        BY <1>3, <3>2 DEF AcquireSleep, Cached, Modify, ReleaseSleep, bufvars
      <3> QED BY <3>1, <3>2
    <2> QED BY <1>s, <2>1, <2>2, <2>3 DEF Holding
  <1>4. ASSUME NEW p \in Procs, NEW b \in Bufs, Read(p, b) \/ Bwrite(p, b)
        PROVE  QueueInv'
    <2>1. /\ idequeue' = Append(idequeue, b) /\ stack' = stack /\ valid' = valid
          /\ pc' = [pc EXCEPT ![p] = "idesleep"]
          /\ Holding(p, "locked", b) \/ Holding(p, "use", b) \/ Holding(p, "modified", b)
      BY <1>4 DEF Read, Bwrite, Goto, bufvars
    <2>2. ~valid'[b] \/ dirty'[b]
      BY <1>0, <1>4 DEF Read, Bwrite, TypeOK, bufvars
    <2>3. \A c \in Bufs \ {b} : dirty'[c] = dirty[c]
      BY <1>0, <1>4 DEF Read, Bwrite, TypeOK, bufvars
    <2>4. b \notin Elems(idequeue) /\ \A q \in Procs : ~Waits(q, b)
      BY <2>1, QueuedIs
    <2>5. /\ Len(idequeue') = Len(idequeue) + 1 /\ Len(idequeue) \in Nat
          /\ \A i \in 1 .. Len(idequeue) : idequeue'[i] = idequeue[i]
          /\ idequeue'[Len(idequeue) + 1] = b
          /\ Elems(idequeue') = Elems(idequeue) \cup {b}
      BY <1>0, <2>1, AppendElems DEF TypeOK
    <2>6. \A i, j \in 1 .. Len(idequeue') : idequeue'[i] = idequeue'[j] => i = j
      <3>1. \A i \in 1 .. Len(idequeue') : i \in 1 .. Len(idequeue) \/ i = Len(idequeue) + 1
        BY <2>5
      <3>2. \A i \in 1 .. Len(idequeue) : idequeue'[i] # b
        BY <2>4, <2>5 DEF Elems
      <3> QED BY <1>q, <2>5, <3>1, <3>2
    <2>7. Holding(p, "idesleep", b)'
      BY <1>0, <2>1 DEF Holding, TypeOK
    <2>8. \A q \in Procs, c \in Bufs : Waits(q, c) => Waits(q, c)'
      BY <1>0, <2>1 DEF Waits, Holding, TypeOK
    <2>9. \A c \in Elems(idequeue') :
            (~valid'[c] \/ dirty'[c]) /\ \E q \in Procs : Waits(q, c)'
      BY <1>q, <2>1, <2>2, <2>3, <2>5, <2>7, <2>8 DEF Waits
    <2>10. \A q \in Procs, c \in Bufs :
            /\ Holding(q, "idesleep", c)' => c = b \/ Holding(q, "idesleep", c)
            /\ Holding(q, "idewait", c)' => c # b /\ Holding(q, "idewait", c)
      <3> SUFFICES ASSUME NEW q \in Procs, NEW c \in Bufs
                   PROVE  /\ Holding(q, "idesleep", c)' => c = b \/ Holding(q, "idesleep", c)
                          /\ Holding(q, "idewait", c)' => c # b /\ Holding(q, "idewait", c)
        OBVIOUS
      <3>1. CASE q = p
        BY <1>0, <2>1, <3>1 DEF Holding, TypeOK
      <3>2. CASE q # p
        BY <1>0, <2>1, <2>4, <3>2 DEF Waits, Holding, TypeOK
      <3> QED BY <3>1, <3>2
    <2>11. \A q \in Procs, c \in Bufs :
            /\ Holding(q, "idesleep", c)' => c \in Elems(idequeue')
            /\ Holding(q, "idewait", c)' /\ c \notin Elems(idequeue') => valid'[c] /\ ~dirty'[c]
      BY <1>q, <2>1, <2>3, <2>5, <2>10
    <2> QED BY <2>6, <2>9, <2>11 DEF QueueInv, Waits, Elems
  <1>5. ASSUME NEW p \in Procs, NEW b \in Bufs, Waited(p, b)
        PROVE  QueueInv'
    <2>1. Waits(p, b) /\ (b \in Elems(idequeue) <=> ~(valid[b] /\ ~dirty[b]))
      BY <1>q, <1>5 DEF Waited, Waits
    <2> QED BY <1>m, <1>5, <2>1 DEF Waited, Goto, bufvars
  <1>6. ASSUME NEW p \in Procs, Kill(p)
        PROVE  QueueInv'
    <2>1. CASE pc[p] = "locksleep"
      <3>1. \A q \in Procs, c \in Bufs :
            /\ Holding(q, "idesleep", c)' <=> Holding(q, "idesleep", c)
            /\ Holding(q, "idewait", c)' <=> Holding(q, "idewait", c)
        BY <1>0, <1>6, <2>1 DEF Kill, Goto, Holding, TypeOK
      <3> QED BY <1>s, <1>6, <3>1 DEF Kill, bufvars
    <2>2. CASE pc[p] = "idesleep"
      <3>1. Len(stack[p]) \in Nat /\ Len(stack[p]) # 0 /\ stack[p] \in Seq(Bufs)
        BY <1>0, <2>2 DEF StackInv, TypeOK
      <3>2. PICK b \in Bufs : Holding(p, "idesleep", b)
        BY <2>2, <3>1 DEF Holding
      <3>3. b \in Elems(idequeue)
        BY <1>q, <3>2
      <3> QED BY <1>m, <1>6, <2>2, <3>2, <3>3 DEF Kill, Goto, Waits, bufvars
    <2> QED BY <1>6, <2>1, <2>2 DEF Kill
  <1>7. CASE Interrupt
    <2> DEFINE b == Head(idequeue)
    <2>1. b \in Bufs /\ b \in Elems(idequeue)
      BY <1>7, HeadIs
    <2>2. /\ Len(idequeue') = Len(idequeue) - 1 /\ Len(idequeue) \in Nat \ {0}
          /\ \A i \in 1 .. Len(idequeue') : idequeue'[i] = idequeue[i + 1]
          /\ b = idequeue[1]
      BY <1>0, <1>7, HeadTailProperties DEF Interrupt, TypeOK
    <2>3. \A i, j \in 1 .. Len(idequeue') : idequeue'[i] = idequeue'[j] => i = j
      BY <1>q, <2>2
    <2>4. Elems(idequeue') = Elems(idequeue) \ {b}
      <3>1. \A i \in 1 .. Len(idequeue') : i + 1 \in 1 .. Len(idequeue) /\ i + 1 # 1
        BY <2>2
      <3>2. \A i \in 1 .. Len(idequeue) : i = 1 \/ i - 1 \in 1 .. Len(idequeue')
        BY <2>2
      <3>3. \A i \in 1 .. Len(idequeue) : i # 1 => idequeue[i] # b /\ i - 1 + 1 = i
        BY <1>q, <2>2
      <3>4. ASSUME NEW c \in Elems(idequeue) \ {b} PROVE c \in Elems(idequeue')
        <4>1. PICK i \in 1 .. Len(idequeue) : c = idequeue[i]
          BY DEF Elems
        <4>2. i - 1 \in 1 .. Len(idequeue') /\ c = idequeue'[i - 1]
          BY <2>2, <3>2, <3>3, <3>4, <4>1
        <4> QED BY <4>2 DEF Elems
      <3>5. ASSUME NEW c \in Elems(idequeue') PROVE c \in Elems(idequeue) \ {b}
        <4>1. PICK i \in 1 .. Len(idequeue') : c = idequeue[i + 1]
          BY <2>2 DEF Elems
        <4> QED BY <3>1, <3>3, <4>1 DEF Elems
      <3> QED BY <3>4, <3>5
    <2>5. \A c \in Bufs : /\ c = b => valid'[c] /\ ~dirty'[c]
                          /\ c # b => valid'[c] = valid[c] /\ dirty'[c] = dirty[c]
      BY <1>0, <1>7, <2>1 DEF Interrupt, TypeOK
    <2>6. \A q \in Procs, c \in Bufs :
            /\ Waits(q, c) => Waits(q, c)'
            /\ Holding(q, "idesleep", c)' => c # b /\ Holding(q, "idesleep", c)
            /\ Holding(q, "idewait", c)' /\ c # b => Holding(q, "idewait", c)
      <3>1. stack' = stack
            /\ pc' = [p \in Procs |-> IF Holding(p, "idesleep", b) THEN "idewait" ELSE pc[p]]
        BY <1>7 DEF Interrupt
      <3> HIDE DEF b
      <3> QED BY <3>1 DEF Waits, Holding
    <2>7. \A c \in Elems(idequeue') :
            (~valid'[c] \/ dirty'[c]) /\ \E q \in Procs : Waits(q, c)'
      BY <1>q, <2>4, <2>5, <2>6
    <2>8. \A q \in Procs, c \in Bufs :
            /\ Holding(q, "idesleep", c)' => c \in Elems(idequeue')
            /\ Holding(q, "idewait", c)' /\ c \notin Elems(idequeue') => valid'[c] /\ ~dirty'[c]
      BY <1>q, <2>4, <2>5, <2>6
    <2> QED BY <2>3, <2>7, <2>8 DEF QueueInv, Waits, Elems
  <1>8. ASSUME UNCHANGED vars \/ \E p \in Procs, k \in Blocks : NoBuffers(p, k)
        PROVE  QueueInv'
    BY <1>s, <1>8 DEF vars, bufvars, NoBuffers, Holding
  <1> QED BY <1>1, <1>2, <1>3, <1>4, <1>5, <1>6, <1>7, <1>8, StepsAre DEF Stays


-----------------------------------------------------------------------------
LEMMA InvInit ==
  ASSUME Init
  PROVE  Inv
  <1>1. Zero \in Vals /\ None \notin Blocks /\ None \notin Procs
    BY ZeroAssumption, NoneAssumption
  <1>2. \A p \in Procs : stack[p] = <<>> /\ Len(stack[p]) = 0 /\ pc[p] = "idle"
    BY DEF Init
  <1>3. idequeue = <<>> /\ Len(idequeue) = 0 /\ Elems(idequeue) = {}
    BY DEF Init, Elems
  <1>4. \A p \in Procs : \A c, b : ~Holding(p, c, b)
    BY <1>2 DEF Holding
  <1>5. TypeOK
    <2>1. <<>> \in Seq(Bufs)
      OBVIOUS
    <2>2. /\ blk \in [Bufs -> Blocks \cup {None}] /\ refcnt \in [Bufs -> Nat]
          /\ valid \in [Bufs -> BOOLEAN] /\ dirty \in [Bufs -> BOOLEAN]
          /\ data \in [Bufs -> Vals] /\ owner \in [Bufs -> Procs \cup {None}]
          /\ disk \in [Blocks -> Vals]
      BY <1>1 DEF Init
    <2>3. pc \in [Procs -> PCs] /\ stack \in [Procs -> Seq(Bufs)] /\ idequeue \in Seq(Bufs)
      BY <2>1 DEF Init, PCs
    <2>4. panicked \in BOOLEAN
      BY Zenon DEF Init
    <2> QED BY <2>2, <2>3, <2>4 DEF TypeOK
  <1>6. RefsExact
    <2>1. \A b \in Bufs : {p \in Procs : b \in Elems(stack[p])} = {}
      BY <1>2 DEF Elems
    <2> QED BY <2>1, FS_EmptySet DEF RefsExact, Init
  <1>7. OneBuffer
    BY DEF Init, OneBuffer
  <1>8. StackInv
    BY <1>2 DEF StackInv
  <1>9. OwnerInv
    <2>1. \A p \in Procs : Held(p) = {}
      BY <1>2 DEF Held
    <2> QED BY <1>1, <2>1 DEF OwnerInv, Init
  <1>10. ValidInv /\ CleanIsOnDisk
    BY <1>2 DEF ValidInv, CleanIsOnDisk, Init
  <1>11. QueueInv /\ LockInv
    BY <1>3, <1>4 DEF QueueInv, LockInv
  <1> QED BY <1>5, <1>6, <1>7, <1>8, <1>9, <1>10, <1>11 DEF Inv

LEMMA InvStep ==
  ASSUME Inv, [Next]_vars
  PROVE  Inv'
  <1>1. TypeOK' /\ RefsExact' /\ OneBuffer'
    BY TypeStep, RefsStep, OneBufferStep
  <1>2. StackInv' /\ OwnerInv' /\ ValidInv'
    BY StackStep, OwnerStep, ValidStep
  <1>3. CleanIsOnDisk' /\ QueueInv' /\ LockInv'
    BY CleanStep, QueueStep, LockStep
  <1> QED BY <1>1, <1>2, <1>3 DEF Inv

LEMMA InvAlways == Spec => []Inv
  <1>1. Init => Inv
    BY InvInit
  <1>2. Inv /\ [Next]_vars => Inv'
    BY InvStep
  <1> QED BY <1>1, <1>2, PTL DEF Spec

\* No element of the queue is there twice, so it has as many as it is long.
LEMMA QueueIsExact ==
  ASSUME Inv
  PROVE  QueueExact
  <1>0. TypeOK /\ QueueInv /\ OwnerInv
    BY DEF Inv
  <1>1. Cardinality(Elems(idequeue)) = Len(idequeue)
    <2> DEFINE n == Len(idequeue)
               f == [i \in 1 .. n |-> idequeue[i]]
    <2>1. n \in Nat
      BY <1>0 DEF TypeOK
    <2>2. f \in Bijection(1 .. n, Elems(idequeue))
      <3>1. f \in [1 .. n -> Elems(idequeue)]
        BY DEF Elems
      <3>2. \A i, j \in 1 .. n : f[i] = f[j] => i = j
        BY <1>0 DEF QueueInv
      <3>3. \A b \in Elems(idequeue) : \E i \in 1 .. n : f[i] = b
        BY DEF Elems
      <3> HIDE DEF f
      <3> QED BY <3>1, <3>2, <3>3, Fun_IsBij
    <2>3. IsFiniteSet(1 .. n) /\ Cardinality(1 .. n) = n
      <3> HIDE DEF n
      <3>1. IsFiniteSet(1 .. n)
            /\ Cardinality(1 .. n) = IF 1 > n THEN 0 ELSE n - 1 + 1
        BY <2>1, FS_Interval
      <3> QED BY <2>1, <3>1
    <2>4. Cardinality(Elems(idequeue)) = Cardinality(1 .. n)
      BY <2>2, <2>3, FS_Bijection DEF ExistsBijection
    <2> QED BY <2>3, <2>4
  <1>2. \A b \in Elems(idequeue) :
            \E p \in Procs : owner[b] = p /\ (Holding(p, "idesleep", b)
                                              \/ Holding(p, "idewait", b))
    BY <1>0, HoldingIs DEF QueueInv, HoldingPCs
  <1> QED BY <1>1, <1>2 DEF QueueExact

\* In every behaviour each block has one buffer, references are exactly those that
\* processes have, what is clean is on disk, and the driver's queue holds just the
\* buffers waited for, each once (bget(), brelse(), iderw() and ideintr()).
THEOREM Consistency == Spec => []Consistent
  <1>1. Inv => Consistent
    BY QueueIsExact DEF Inv, Consistent
  <1> QED BY <1>1, InvAlways, PTL

\* In every behaviour, whoever sleeps in acquiresleep() sleeps while another has the
\* buffer, and whoever sleeps in iderw() has a request in the queue.
THEOREM Wakeups == Spec => []NoLostWakeup
  <1>1. Inv => NoLostWakeup
    BY DEF Inv, LockInv, QueueInv, NoLostWakeup
  <1> QED BY <1>1, InvAlways, PTL

\* The block of the buffer that a process asked for last.
TopBlock(p) == blk[stack[p][Len(stack[p])]]
Sleepers == {p \in Procs : pc[p] = "locksleep"}

\* A process in a set has the last of the blocks that processes there asked for.
LEMMA LastBlock ==
  ASSUME TypeOK, StackInv, NEW S \in SUBSET Procs, S # {}, \A p \in S : pc[p] # "idle"
  PROVE  \E p \in S : \A q \in S : TopBlock(q) <= TopBlock(p)
  <1> DEFINE Left == {NBLOCKS - TopBlock(p) : p \in S}
  <1>1. \A p \in S : TopBlock(p) \in 1 .. NBLOCKS /\ NBLOCKS \in Nat
    <2>1. SUFFICES ASSUME NEW p \in S
                   PROVE  TopBlock(p) \in 1 .. NBLOCKS /\ NBLOCKS \in Nat
      OBVIOUS
    <2>2. Len(stack[p]) \in Nat /\ Len(stack[p]) # 0
      BY DEF TypeOK, StackInv
    <2>3. Len(stack[p]) \in 1 .. Len(stack[p])
      BY <2>2
    <2> QED BY <2>3, SizeAssumption DEF StackInv, TopBlock, Blocks
  <1>2. Left \subseteq Nat /\ Left # {}
    BY <1>1
  <1>3. IsWellFoundedOn({ss \in Nat \X Nat : ss[1] < ss[2]}, Nat)
    BY NatLessThanWellFounded, Zenon DEF OpToRel
  <1>4. PICK x \in Left : \A y \in Left : ~ (<<y, x>> \in {ss \in Nat \X Nat : ss[1] < ss[2]})
    BY <1>2, <1>3, WFMin
  <1>5. \A y \in Left : ~ (y < x)
    BY <1>2, <1>4
  <1>6. PICK p \in S : x = NBLOCKS - TopBlock(p)
    OBVIOUS
  <1>7. \A q \in S : ~ (NBLOCKS - TopBlock(q) < NBLOCKS - TopBlock(p))
    BY <1>5, <1>6
  <1> QED BY <1>1, <1>7

\* In every behaviour, somebody can move unless all are idle: of the processes that
\* sleep in acquiresleep(), the one that asked for the last block waits for a process
\* that sleeps there for a later one, or does not sleep there.
THEOREM NoCircle == Spec => []NotAllAsleep
  <1>1. ASSUME Inv, NEW r \in Procs, pc[r] \in {"locksleep", "idesleep"},
               idequeue = <<>>, \A q \in Procs : pc[q] \in {"idle", "locksleep", "idesleep"}
        PROVE  FALSE
    <2>0. TypeOK /\ StackInv /\ OwnerInv /\ QueueInv /\ LockInv
      BY <1>1 DEF Inv
    <2>1. \A q \in Procs : pc[q] # "idle" => 
            Len(stack[q]) \in 1 .. Len(stack[q]) /\ stack[q] # <<>>
            /\ stack[q][Len(stack[q])] \in Bufs
      BY <2>0 DEF TypeOK, StackInv
    <2>2. \A q \in Procs : pc[q] # "idesleep"
      <3>1. SUFFICES ASSUME NEW q \in Procs, pc[q] = "idesleep" PROVE FALSE
        OBVIOUS
      <3>2. Holding(q, "idesleep", stack[q][Len(stack[q])])
        BY <2>1, <3>1 DEF Holding
      <3>3. stack[q][Len(stack[q])] \in Elems(idequeue)
        BY <2>0, <2>1, <3>1, <3>2 DEF QueueInv
      <3> QED BY <1>1, <3>3 DEF Elems
    <2>3. Sleepers # {} /\ Sleepers \in SUBSET Procs /\ \A q \in Sleepers : pc[q] # "idle"
      BY <1>1, <2>2 DEF Sleepers
    <2>4. PICK p \in Sleepers : \A q \in Sleepers : TopBlock(q) <= TopBlock(p)
      BY <2>0, <2>3, LastBlock
    <2> DEFINE b == stack[p][Len(stack[p])]
    <2>5. p \in Procs /\ b \in Bufs /\ Holding(p, "locksleep", b)
      BY <2>1, <2>4 DEF Sleepers, Holding
    <2>6. PICK q \in Procs : owner[b] = q /\ q # p
      BY <2>0, <2>5 DEF LockInv, TypeOK
    <2>7. b \in Held(q)
      BY <2>0, <2>5, <2>6 DEF OwnerInv
    <2>8. PICK i \in 1 .. Len(stack[q]) : stack[q][i] = b /\ Holds(q, i)
      BY <2>7 DEF Held
    <2>9. pc[q] \in {"idle", "locksleep"}
      BY <1>1, <2>2
    <2>10. i < Len(stack[q])
      BY <2>8, <2>9 DEF Holds, HoldingPCs
    <2>11. Len(stack[q]) \in Nat /\ pc[q] = "locksleep"
      BY <2>0, <2>8, <2>9, <2>10 DEF TypeOK, StackInv
    <2>12. Len(stack[q]) \in 1 .. Len(stack[q])
      BY <2>11, <2>10
    <2>13. blk[b] < TopBlock(q) /\ blk[b] \in Nat /\ TopBlock(q) \in Nat
      BY <2>0, <2>8, <2>10, <2>12, SizeAssumption DEF StackInv, TopBlock, Blocks
    <2>14. TopBlock(q) <= TopBlock(p) /\ TopBlock(p) = blk[b]
      BY <2>4, <2>11 DEF Sleepers, TopBlock
    <2> HIDE DEF b
    <2> QED BY <2>13, <2>14
  <1>2. Inv => NotAllAsleep
    BY <1>1 DEF NotAllAsleep
  <1> QED BY <1>2, InvAlways, PTL


-----------------------------------------------------------------------------
(* The cache implements blocks with one value and one holder each. *)

\* What the refinement mapping comes to when a block has one buffer at most.
ValueMeans ==
    \A k \in Blocks :
        /\ \A b \in Bufs : blk[b] = k /\ valid[b] => Value[k] = data[b]
        /\ (\A b \in Bufs : blk[b] = k => ~valid[b]) => Value[k] = disk[k]

HolderMeans ==
    \A k \in Blocks :
        /\ \A b \in Bufs : blk[b] = k => Holder[k] = owner[b]
        /\ (\A b \in Bufs : blk[b] # k) => Holder[k] = None

LEMMA ValueIs == OneBuffer => ValueMeans
  <1> SUFFICES ASSUME OneBuffer, NEW k \in Blocks
               PROVE  /\ \A b \in Bufs : blk[b] = k /\ valid[b] => Value[k] = data[b]
                      /\ (\A b \in Bufs : blk[b] = k => ~valid[b]) => Value[k] = disk[k]
    BY DEF ValueMeans
  <1>1. ASSUME NEW b \in Bufs, blk[b] = k, valid[b]
        PROVE  Value[k] = data[b]
    <2>1. \A c \in Bufs : blk[c] = k /\ valid[c] <=> c = b
      BY <1>1, NoneAssumption DEF OneBuffer
    <2>2. (CHOOSE c \in Bufs : blk[c] = k /\ valid[c]) = b
      BY <2>1
    <2> QED BY <1>1, <2>2 DEF Value
  <1>2. (\A b \in Bufs : blk[b] = k => ~valid[b]) => Value[k] = disk[k]
    BY DEF Value
  <1> QED BY <1>1, <1>2

LEMMA HolderIs == OneBuffer => HolderMeans
  <1> SUFFICES ASSUME OneBuffer, NEW k \in Blocks
               PROVE  /\ \A b \in Bufs : blk[b] = k => Holder[k] = owner[b]
                      /\ (\A b \in Bufs : blk[b] # k) => Holder[k] = None
    BY DEF HolderMeans
  <1>1. ASSUME NEW b \in Bufs, blk[b] = k
        PROVE  Holder[k] = owner[b]
    <2>1. \A c \in Bufs : blk[c] = k <=> c = b
      BY <1>1, NoneAssumption DEF OneBuffer
    <2>2. (CHOOSE c \in Bufs : blk[c] = k) = b
      BY <2>1
    <2> QED BY <1>1, <2>2 DEF Holder
  <1>2. (\A b \in Bufs : blk[b] # k) => Holder[k] = None
    BY DEF Holder
  <1> QED BY <1>1, <1>2

LEMMA MappingIs ==
  ASSUME Inv, [Next]_vars
  PROVE  ValueMeans /\ HolderMeans /\ ValueMeans' /\ HolderMeans'
  <1>1. OneBuffer /\ OneBuffer'
    BY OneBufferStep DEF Inv
  <1>2. ValueMeans /\ ValueMeans'
    BY <1>1, ValueIs, PTL
  <1>3. HolderMeans /\ HolderMeans'
    BY <1>1, HolderIs, PTL
  <1> QED BY <1>2, <1>3


LEMMA BlockInitially == Init => Block!BlocksInit
  <1> SUFFICES ASSUME Init PROVE Block!BlocksInit
    OBVIOUS
  <1>1. \A k \in Blocks, b \in Bufs : blk[b] # k
    BY NoneAssumption DEF Init
  <1>2. Value = [k \in Blocks |-> Zero] /\ Holder = [k \in Blocks |-> None]
    BY <1>1 DEF Value, Holder, Init
  <1> QED BY <1>2 DEF Block!BlocksInit

\* Every step takes the lock of a block, gives it back, changes the block its
\* process has locked, or changes nothing that the file system sees.
LEMMA BlockStep ==
  ASSUME Inv, [Next]_vars
  PROVE  Block!BlocksNext \/ UNCHANGED <<Value, Holder>>
  <1>0. TypeOK /\ OneBuffer /\ ValidInv /\ OwnerInv /\ CleanIsOnDisk /\ QueueInv /\ Inv'
    BY InvStep DEF Inv
  <1>m. ValueMeans /\ HolderMeans /\ ValueMeans' /\ HolderMeans'
    BY MappingIs
  <1>f. /\ Value = [k \in Blocks |-> Value[k]] /\ Value' = [k \in Blocks |-> Value'[k]]
        /\ Holder = [k \in Blocks |-> Holder[k]] /\ Holder' = [k \in Blocks |-> Holder'[k]]
    BY DEF Value, Holder
  <1>v. ASSUME NEW k \in Blocks,
               \A b \in Bufs : /\ blk'[b] = k <=> blk[b] = k
                               /\ blk[b] = k => /\ valid'[b] <=> valid[b]
                                                /\ valid[b] => data'[b] = data[b],
               (\A b \in Bufs : blk[b] = k => ~valid[b]) => disk'[k] = disk[k]
        PROVE  Value'[k] = Value[k]
    BY <1>m, <1>v DEF ValueMeans
  <1>h. ASSUME NEW k \in Blocks,
               \A b \in Bufs : /\ blk'[b] = k <=> blk[b] = k
                               /\ blk[b] = k => owner'[b] = owner[b]
        PROVE  Holder'[k] = Holder[k]
    BY <1>m, <1>h DEF HolderMeans
  <1>s. ASSUME UNCHANGED <<blk, valid, data, disk>> PROVE Value' = Value
    BY <1>f, <1>s, <1>v
  <1>t. ASSUME UNCHANGED <<blk, owner>> PROVE Holder' = Holder
    BY <1>f, <1>t, <1>h
  <1>1. ASSUME NEW p \in Procs, NEW k \in Blocks, NEW b \in Bufs, Hit(p, k, b)
        PROVE  UNCHANGED <<Value, Holder>>
    BY <1>1, <1>s, <1>t DEF Hit
  <1>2. ASSUME NEW p \in Procs, NEW k \in Blocks, NEW b \in Bufs, Recycle(p, k, b)
        PROVE  UNCHANGED <<Value, Holder>>
    <2>1. /\ blk' = [blk EXCEPT ![b] = k] /\ valid' = [valid EXCEPT ![b] = FALSE]
          /\ UNCHANGED <<data, disk, owner>>
          /\ \A c \in Bufs : blk[c] # k
          /\ ~dirty[b] /\ \A q \in Procs : b \notin Elems(stack[q])
      BY <1>2, FreeIsUnused DEF Recycle, Free
    <2>2. owner[b] = None
      <3>1. \A q \in Procs : b \notin Held(q)
        BY <2>1 DEF Held, Elems
      <3> QED BY <1>0, <3>1 DEF OwnerInv, TypeOK
    <2>3. valid[b] => data[b] = disk[blk[b]]
      <3>1. \A q \in Procs : ~Holding(q, "modified", b)
        BY <2>1, HoldingIs DEF Elems
      <3> QED BY <1>0, <2>1, <3>1 DEF CleanIsOnDisk
    <2>4. \A c \in Bufs : /\ blk'[c] = IF c = b THEN k ELSE blk[c]
                          /\ valid'[c] = IF c = b THEN FALSE ELSE valid[c]
      BY <1>0, <2>1 DEF TypeOK
    <2>5. \A j \in Blocks : Value'[j] = Value[j]
      <3> SUFFICES ASSUME NEW j \in Blocks PROVE Value'[j] = Value[j]
        OBVIOUS
      <3>1. CASE j = k
        <4>1. Value[j] = disk[j]
          BY <1>m, <2>1, <3>1 DEF ValueMeans
        <4>2. \A c \in Bufs : blk'[c] = j => ~valid'[c]
          BY <1>0, <2>1, <3>1 DEF TypeOK
        <4>3. Value'[j] = disk'[j]
          BY <1>m, <4>2 DEF ValueMeans
        <4> QED BY <2>1, <4>1, <4>3
      <3>2. CASE j # k /\ blk[b] = j
        <4>1. \A c \in Bufs : blk'[c] # j
          BY <1>0, <2>4, <3>2, NoneAssumption DEF OneBuffer
        <4>2. Value'[j] = disk[j]
          BY <1>m, <2>1, <4>1 DEF ValueMeans
        <4>3. Value[j] = disk[j]
          BY <1>m, <1>0, <2>3, <3>2, NoneAssumption DEF ValueMeans, OneBuffer
        <4> QED BY <4>2, <4>3
      <3>3. CASE j # k /\ blk[b] # j
        BY <1>v, <2>1, <2>4, <3>3
      <3> QED BY <3>1, <3>2, <3>3
    <2>6. \A j \in Blocks : Holder'[j] = Holder[j]
      <3> SUFFICES ASSUME NEW j \in Blocks PROVE Holder'[j] = Holder[j]
        OBVIOUS
      <3>1. CASE j = k
        BY <1>m, <2>1, <2>2, <2>4, <3>1 DEF HolderMeans
      <3>2. CASE j # k /\ blk[b] = j
        <4>1. \A c \in Bufs : blk'[c] # j
          BY <1>0, <2>4, <3>2, NoneAssumption DEF OneBuffer
        <4> QED BY <1>m, <2>2, <3>2, <4>1 DEF HolderMeans
      <3>3. CASE j # k /\ blk[b] # j
        BY <1>h, <2>1, <2>4, <3>3
      <3> QED BY <3>1, <3>2, <3>3
    <2> QED BY <1>f, <2>5, <2>6
  <1>3. ASSUME NEW p \in Procs, NEW b \in Bufs, AcquireSleep(p, b)
        PROVE  Block!BlocksNext \/ UNCHANGED <<Value, Holder>>
    <2>1. Value' = Value /\ blk' = blk
      BY <1>3, <1>s DEF AcquireSleep
    <2>2. CASE owner[b] = None
      <3>1. blk[b] \in Blocks /\ owner' = [owner EXCEPT ![b] = p]
        BY <1>3, <2>2, HoldingIs DEF AcquireSleep
      <3>2. \A k \in Blocks : Holder'[k] = IF k = blk[b] THEN p ELSE Holder[k]
        <4> SUFFICES ASSUME NEW k \in Blocks
                     PROVE  Holder'[k] = IF k = blk[b] THEN p ELSE Holder[k]
          OBVIOUS
        <4>1. CASE k = blk[b]
          BY <1>0, <1>m, <2>1, <3>1, <4>1 DEF HolderMeans, TypeOK
        <4>2. CASE k # blk[b]
          BY <1>0, <1>h, <2>1, <3>1, <4>2 DEF TypeOK
        <4> QED BY <4>1, <4>2
      <3>3. Holder' = [Holder EXCEPT ![blk[b]] = p] /\ Holder[blk[b]] = None
        BY <1>f, <1>m, <2>2, <3>1, <3>2 DEF HolderMeans
      <3>4. Block!Hold(p, blk[b])
        BY <2>1, <3>3 DEF Block!Hold
      <3> QED BY <3>1, <3>4 DEF Block!BlocksNext
    <2>3. CASE owner[b] # None
      BY <1>3, <1>t, <2>1, <2>3 DEF AcquireSleep
    <2> QED BY <2>2, <2>3
  <1>4. ASSUME NEW p \in Procs, NEW b \in Bufs, ReleaseSleep(p, b)
        PROVE  Block!BlocksNext
    <2>1. Value' = Value /\ blk' = blk
      BY <1>4, <1>s DEF ReleaseSleep
    <2>2. blk[b] \in Blocks /\ owner[b] = p /\ owner' = [owner EXCEPT ![b] = None]
      BY <1>4, HoldingIs DEF ReleaseSleep, HoldingPCs
    <2>3. \A k \in Blocks : Holder'[k] = IF k = blk[b] THEN None ELSE Holder[k]
      <3> SUFFICES ASSUME NEW k \in Blocks
                   PROVE  Holder'[k] = IF k = blk[b] THEN None ELSE Holder[k]
        OBVIOUS
      <3>1. CASE k = blk[b]
        BY <1>0, <1>m, <2>1, <2>2, <3>1 DEF HolderMeans, TypeOK
      <3>2. CASE k # blk[b]
        BY <1>0, <1>h, <2>1, <2>2, <3>2 DEF TypeOK
      <3> QED BY <3>1, <3>2
    <2>4. Holder' = [Holder EXCEPT ![blk[b]] = None] /\ Holder[blk[b]] = p
      BY <1>f, <1>m, <2>2, <2>3 DEF HolderMeans
    <2>5. Block!LetGo(p, blk[b])
      BY <2>1, <2>4 DEF Block!LetGo
    <2> QED BY <2>2, <2>5 DEF Block!BlocksNext
  <1>5. ASSUME NEW p \in Procs, NEW b \in Bufs, Modify(p, b)
        PROVE  Block!BlocksNext
    <2>1. Holder' = Holder /\ UNCHANGED <<blk, valid, disk>>
      BY <1>5, <1>t DEF Modify
    <2>2. PICK v \in Vals : data' = [data EXCEPT ![b] = v]
      BY <1>5 DEF Modify
    <2>3. blk[b] \in Blocks /\ owner[b] = p /\ valid[b]
      BY <1>5, HoldingIs DEF Modify, HoldingPCs
    <2>4. \A k \in Blocks : Value'[k] = IF k = blk[b] THEN v ELSE Value[k]
      <3> SUFFICES ASSUME NEW k \in Blocks
                   PROVE  Value'[k] = IF k = blk[b] THEN v ELSE Value[k]
        OBVIOUS
      <3>1. CASE k = blk[b]
        BY <1>0, <1>m, <2>1, <2>2, <2>3, <3>1 DEF ValueMeans, TypeOK
      <3>2. CASE k # blk[b]
        BY <1>0, <1>v, <2>1, <2>2, <3>2 DEF TypeOK
      <3> QED BY <3>1, <3>2
    <2>5. Value' = [Value EXCEPT ![blk[b]] = v] /\ Holder[blk[b]] = p
      BY <1>f, <1>m, <2>3, <2>4 DEF HolderMeans
    <2>6. Block!Change(p, blk[b], v)
      BY <2>1, <2>5 DEF Block!Change
    <2> QED BY <2>3, <2>6 DEF Block!BlocksNext
  <1>6. CASE Interrupt
    <2> DEFINE b == Head(idequeue)
    <2>1. b \in Bufs /\ blk[b] \in Blocks /\ (~valid[b] \/ dirty[b])
      BY <1>0, <1>6, HeadIs DEF QueueInv
    <2>2. Holder' = Holder /\ blk' = blk /\ valid' = [valid EXCEPT ![b] = TRUE]
      BY <1>6, <1>t DEF Interrupt
    <2>3. \A c \in Bufs : blk[c] = blk[b] => c = b
      BY <1>0, <2>1, NoneAssumption DEF OneBuffer
    <2>4. CASE dirty[b]
      <3>1. valid[b] /\ data' = data /\ disk' = [disk EXCEPT ![blk[b]] = data[b]]
        BY <1>0, <1>6, <2>1, <2>4 DEF Interrupt, ValidInv
      <3>2. \A k \in Blocks : Value'[k] = Value[k]
        BY <1>0, <1>v, <2>1, <2>2, <3>1 DEF TypeOK
      <3> QED BY <1>f, <2>2, <3>2
    <2>5. CASE ~dirty[b]
      <3>1. ~valid[b] /\ disk' = disk /\ data' = [data EXCEPT ![b] = disk[blk[b]]]
        BY <1>6, <2>1, <2>5 DEF Interrupt
      <3>2. \A k \in Blocks : Value'[k] = Value[k]
        <4> SUFFICES ASSUME NEW k \in Blocks PROVE Value'[k] = Value[k]
          OBVIOUS
        <4>1. CASE k = blk[b]
          <5>1. Value[k] = disk[k]
            BY <1>m, <2>3, <3>1, <4>1 DEF ValueMeans
          <5>2. valid'[b] /\ data'[b] = disk[k] /\ blk'[b] = k
            BY <1>0, <2>1, <2>2, <3>1, <4>1 DEF TypeOK
          <5> QED BY <1>m, <2>1, <5>1, <5>2 DEF ValueMeans
        <4>2. CASE k # blk[b]
          BY <1>0, <1>v, <2>1, <2>2, <3>1, <4>2 DEF TypeOK
        <4> QED BY <4>1, <4>2
      <3> QED BY <1>f, <2>2, <3>2
    <2> QED BY <2>4, <2>5
  <1>7. ASSUME UNCHANGED <<blk, valid, data, disk, owner>>
        PROVE  UNCHANGED <<Value, Holder>>
    BY <1>7, <1>s, <1>t
  <1>8. ASSUME NEW p \in Procs,
               \/ Kill(p) \/ \E k \in Blocks : NoBuffers(p, k)
               \/ \E b \in Bufs : \/ Cached(p, b) \/ Read(p, b) \/ Waited(p, b)
                                  \/ LogWrite(p, b) \/ Bwrite(p, b) \/ Release(p, b)
        PROVE  UNCHANGED <<blk, valid, data, disk, owner>>
    BY <1>8 DEF Kill, NoBuffers, Cached, Read, Waited, LogWrite, Bwrite, Release, bufvars
  <1>9. UNCHANGED vars => UNCHANGED <<blk, valid, data, disk, owner>>
    BY DEF vars, bufvars
  <1> QED
    BY <1>1, <1>2, <1>3, <1>4, <1>5, <1>6, <1>7, <1>8, <1>9, StepsAre DEF Stays

\* The cache implements blocks with one value and one holder each, whatever the number
\* of buffers: evicting a block, reading it again, and the disk's delays are invisible.
THEOREM Refinement == Spec => ImplementsBlocks
  <1>1. Inv /\ [Next]_vars => [Block!BlocksNext]_<<Value, Holder>>
    BY BlockStep
  <1>2. [Block!BlocksNext]_<<Value, Holder>> => [Block!BlocksNext]_(Block!BlockVars)
    BY DEF Block!BlockVars
  <1> QED
    BY <1>1, <1>2, BlockInitially, InvAlways, PTL
    DEF Spec, ImplementsBlocks, Block!BlocksSpec

=============================================================================
