-------------------------- MODULE ProcTableProofs --------------------------
(***************************************************************************)
(* Proofs about ProcTable, for every number of slots and processors, every *)
(* set of page directories and every kind of program.                      *)
(***************************************************************************)
EXTENDS ProcTable, TLAPS

LEMMA InitprocIsProc == initproc \in Procs
  BY SizeAssumption DEF initproc, Procs

LEMMA TypeInit == Init => TypeOK
  BY InitprocIsProc DEF Init, TypeOK, States, PCs, initproc

\* The table's fields keep their types in every step.
LEMMA TypeStep == TypeOK /\ [Next]_vars => TypeOK'
  <1> SUFFICES ASSUME TypeOK, [Next]_vars PROVE TypeOK'
    OBVIOUS
  <1> USE DEF TypeOK, States, PCs
  <1>1. ASSUME NEW p \in Procs, Dispatch(p) \/ Yield(p) \/ Enter(p) PROVE TypeOK'
    BY <1>1 DEF Dispatch, Yield, Enter, Running, Goto
  <1>2. ASSUME NEW p \in Procs, NEW c \in {"fork", "clone"}, Alloc(p, c)
        PROVE  TypeOK'
    <2>1. PICK q \in Procs : Take(p, c, q)
      BY <1>2 DEF Alloc, Unused
    <2> QED BY <2>1 DEF Take, Goto
  <1>3. ASSUME NEW p \in Procs,
               ForkNoSlot(p) \/ ForkNoMemory(p) \/ ForkCopy(p) \/ ForkPublish(p)
        PROVE  TypeOK'
    <2>1. CASE ForkNoSlot(p)
      BY <2>1 DEF ForkNoSlot, ForkReturnsError, Goto
    <2>2. CASE ForkNoMemory(p)
      BY <2>2 DEF ForkNoMemory, ForkReturnsError, Goto
    <2>3. CASE ForkCopy(p)
      BY <2>3 DEF ForkCopy, Goto
    <2>4. CASE ForkPublish(p)
      BY <2>4 DEF ForkPublish
    <2> QED BY <1>3, <2>1, <2>2, <2>3, <2>4
  <1>4. ASSUME NEW p \in Procs,
               CloneNoSlot(p) \/ CloneNoMemory(p) \/ CloneFill(p)
        PROVE  TypeOK'
    <2>1. CASE CloneNoSlot(p)
      BY <2>1 DEF CloneNoSlot
    <2>2. CASE CloneNoMemory(p)
      BY <2>2 DEF CloneNoMemory
    <2>3. CASE CloneFill(p)
      BY <2>3 DEF CloneFill
    <2> QED BY <1>4, <2>1, <2>2, <2>3
  <1>5. ASSUME NEW p \in Procs, OtherCall(p) \/ Exec(p) \/ Kill(p) PROVE TypeOK'
    <2>1. CASE OtherCall(p)
      BY <2>1 DEF OtherCall, Goto
    <2>2. CASE Exec(p)
      BY <2>2 DEF Exec, Goto
    <2>3. CASE Kill(p)
      BY <2>3 DEF Kill, KillTargets, Goto
    <2> QED BY <1>5, <2>1, <2>2, <2>3
  <1>6. ASSUME NEW p \in Procs,
               IoCall(p) \/ IoCheck(p) \/ IoSleep(p) \/ IoReturn(p)
        PROVE  TypeOK'
    BY <1>6 DEF IoCall, IoCheck, IoSleep, IoReturn, Goto
  <1>7. ASSUME NEW p \in Procs, ExitCall(p) \/ ExitKilled(p) PROVE TypeOK'
    BY <1>7 DEF ExitCall, ExitKilled, BeginExit, Goto
  <1>8. ASSUME NEW p \in Procs, ExitZombie(p) PROVE TypeOK'
    BY <1>8, InitprocIsProc DEF ExitZombie, Woken
  <1>9. ASSUME NEW p \in Procs, Wait(p) \/ Join(p) PROVE TypeOK'
    <2>1. ASSUME NEW q \in Procs, Reap(p, q),
                 vm' \subseteq vm, sh' \in {sh, None}
          PROVE  TypeOK'
      BY <2>1 DEF Reap, Goto
    <2>2. ASSUME NEW S, ScanFails(p, S) PROVE TypeOK'
      BY <2>2 DEF ScanFails, Goto
    <2>3. ASSUME NEW S, NEW c \in {"wait", "join"}, ScanSleeps(p, c, S)
          PROVE  TypeOK'
      BY <2>3 DEF ScanSleeps, Goto
    <2>4. CASE Wait(p)
      <3>1. CASE \E q \in Procs :
                   /\ Reap(p, q)
                   /\ vm' = IF ustack[q] THEN vm ELSE vm \ {pgdir[q]}
                   /\ sh' = IF p = initproc /\ q = sh THEN None ELSE sh
        BY <3>1, <2>1
      <3> QED BY <2>4, <3>1, <2>2, <2>3 DEF Wait
    <2>5. CASE Join(p)
      <3>1. CASE \E q \in Procs : Reap(p, q) /\ UNCHANGED <<vm, sh>>
        BY <3>1, <2>1
      <3> QED BY <2>5, <3>1, <2>2, <2>3 DEF Join
    <2> QED BY <1>9, <2>4, <2>5
  <1>10. CASE IoWakeup
    BY <1>10 DEF IoWakeup, Woken
  <1>11. CASE UNCHANGED vars
    BY <1>11 DEF vars
  <1> QED
    BY <1>1, <1>2, <1>3, <1>4, <1>5, <1>6, <1>7, <1>8, <1>9, <1>10, <1>11
    DEF Next, Step, KernelStep

\* The values of the fields: whatever the programs do, no step of the process
\* table puts anything else there.
THEOREM TypeCorrect == Spec => []TypeOK
  BY TypeInit, TypeStep, PTL DEF Spec

-----------------------------------------------------------------------------
(* The inductive invariant, one lemma for each of its conjuncts. *)

LEMMA InvInit == Init => Consistent
  <1> SUFFICES ASSUME Init PROVE Consistent
    OBVIOUS
  <1>1. TypeOK
    BY TypeInit
  <1>2. \A p \in Procs : pc[p] = "user" /\ state[p] \in {"RUNNABLE", "UNUSED"}
    BY DEF Init
  <1>3. \A p \in Procs : Alive(p) => p = initproc
    BY DEF Init, Alive
  <1>4. InitIsRoot
    BY InitprocIsProc DEF Init, InitIsRoot, Alive
  <1> QED
    BY <1>1, <1>2, <1>3, <1>4
    DEF Consistent, EmbryoOwned, Building, MakerIsParent, ParentCanWait,
        WaiterSleepsOnItself, NoLostWakeup, KilledWaiterIsAwake

\* A process in fork() or clone() has an EMBRYO of its own.
LEMMA MakerOwnsEmbryo ==
  ASSUME Consistent, panicked = "no", NEW p \in Procs, state[p] = "RUNNING",
         pc[p] \in {"fork", "publish", "clone"}
  PROVE  /\ Building(p)
         /\ np[p] \in Procs
         /\ state[np[p]] = "EMBRYO"
         /\ np[p] # p /\ np[p] # initproc
         /\ ~Building(np[p])
         /\ \A r \in Procs : Building(r) /\ np[r] = np[p] => r = p
  <1>1. Building(p)
    BY DEF Building, Alive
  <1>2. np[p] \in Procs /\ state[np[p]] = "EMBRYO"
    BY <1>1 DEF Consistent, EmbryoOwned
  <1>3. \A r \in Procs : Building(r) /\ np[r] = np[p] => r = p
    BY <1>1 DEF Consistent, EmbryoOwned
  <1> QED
    BY <1>1, <1>2, <1>3 DEF Consistent, InitIsRoot, Building, Alive

\* Steps that neither begin nor end the making of a process.
LEMMA NoMaking ==
  ASSUME EmbryoOwned, MakerIsParent, panicked = "no",
         \A p \in Procs : Building(p)' <=> Building(p),
         \A p \in Procs : Building(p) => np'[p] = np[p] /\ pc'[p] = pc[p],
         \A q \in Procs : state'[q] = "EMBRYO" <=> state[q] = "EMBRYO",
         \A p \in Procs : Building(p) /\ pc[p] = "publish"
                            => parent'[np[p]] = parent[np[p]]
  PROVE  EmbryoOwned' /\ MakerIsParent'
  BY DEF EmbryoOwned, MakerIsParent

LEMMA MakingStep ==
  ASSUME Consistent, Next
  PROVE  EmbryoOwned' /\ MakerIsParent'
  <1> USE DEF TypeOK, States, PCs
  <1>0. TypeOK /\ EmbryoOwned /\ MakerIsParent /\ InitIsRoot /\ panicked = "no"
    BY DEF Consistent, Next
  <1>1. ASSUME NEW p \in Procs, Dispatch(p) \/ Yield(p) \/ Enter(p) \/ OtherCall(p)
        PROVE  EmbryoOwned' /\ MakerIsParent'
    BY <1>0, <1>1, NoMaking
    DEF Dispatch, Yield, Enter, OtherCall, Running, Goto, Building, Alive
  <1>2. ASSUME NEW p \in Procs, Exec(p) \/ Kill(p) \/ ExitCall(p) \/ ExitKilled(p)
        PROVE  EmbryoOwned' /\ MakerIsParent'
    <2>1. /\ Running(p, "user") \/ Running(p, "sys")
          /\ pc'[p] \in {"user", "sys", "exit"}
          /\ \A r \in Procs \ {p} : pc'[r] = pc[r]
          /\ np' = np /\ parent' = parent
      BY <1>0, <1>2
      DEF Exec, Kill, ExitCall, ExitKilled, BeginExit, Running, Goto
    <2>2. \A q \in Procs : state'[q] = state[q]
                             \/ (state[q] = "SLEEPING" /\ state'[q] = "RUNNABLE")
      <3>1. CASE Kill(p)
        <4>1. PICK q \in Procs :
                state' = [state EXCEPT ![q] = IF @ = "SLEEPING" THEN "RUNNABLE"
                                                                ELSE @]
          BY <3>1 DEF Kill, KillTargets
        <4> QED BY <1>0, <4>1
      <3>2. CASE ~Kill(p)
        <4>1. state' = state
          BY <1>2, <3>2 DEF Exec, ExitCall, ExitKilled
        <4> QED BY <1>0, <4>1
      <3> QED BY <3>1, <3>2
    <2>3. ~Building(p)
      BY <2>1 DEF Running, Building
    <2>4. \A r \in Procs : Building(r)' <=> Building(r)
      BY <2>1, <2>2, <2>3 DEF Building, Alive
    <2>5. \A q \in Procs : state'[q] = "EMBRYO" <=> state[q] = "EMBRYO"
      BY <2>2
    <2> QED BY <1>0, <2>1, <2>3, <2>4, <2>5, NoMaking
  <1>3. ASSUME NEW p \in Procs, IoCall(p) \/ IoCheck(p) \/ IoSleep(p) \/ IoReturn(p)
        PROVE  EmbryoOwned' /\ MakerIsParent'
    BY <1>0, <1>3, NoMaking
    DEF IoCall, IoCheck, IoSleep, IoReturn, Running, Goto, Building, Alive
  <1>4. CASE IoWakeup
    BY <1>0, <1>4, NoMaking DEF IoWakeup, Woken, Building, Alive
  <1>5. ASSUME NEW p \in Procs, NEW c \in {"fork", "clone"}, Alloc(p, c)
        PROVE  EmbryoOwned' /\ MakerIsParent'
    <2>1. PICK q \in Procs : state[q] = "UNUSED" /\ Take(p, c, q)
      BY <1>5 DEF Alloc, Unused, IsFirst
    <2>2. state[p] = "RUNNING" /\ pc[p] = "sys"
      BY <1>5 DEF Alloc, Running
    <2>3. \A r \in Procs : Building(r)' <=> Building(r) \/ r = p
      BY <1>0, <2>1, <2>2 DEF Take, Goto, Building, Alive
    <2>4. /\ np'[p] = q
          /\ \A r \in Procs \ {p} : np'[r] = np[r] /\ pc'[r] = pc[r]
      BY <1>0, <2>1 DEF Take, Goto
    <2>5. \A r \in Procs : state'[r] = "EMBRYO" <=> state[r] = "EMBRYO" \/ r = q
      BY <1>0, <2>1 DEF Take
    <2>6. ~Building(p) /\ pc'[p] # "publish" /\ parent' = parent /\ panicked' = "no"
      BY <1>0, <2>1, <2>2 DEF Take, Goto, Building
    <2>7. \A r \in Procs : Building(r) => np[r] \in Procs /\ np[r] # q
      BY <1>0, <2>1 DEF EmbryoOwned
    <2> QED
      BY <1>0, <2>3, <2>4, <2>5, <2>6, <2>7 DEF EmbryoOwned, MakerIsParent
  <1>6. ASSUME NEW p \in Procs, ForkNoSlot(p) PROVE EmbryoOwned' /\ MakerIsParent'
    <2>1. ~Building(p)
      BY <1>6 DEF ForkNoSlot, Running, Building
    <2>2. /\ pc' = [pc EXCEPT ![p] = "user"]
          /\ state' = state /\ np' = np /\ parent' = parent
      BY <1>6 DEF ForkNoSlot, ForkReturnsError, Goto
    <2>3. \A r \in Procs : Building(r)' <=> Building(r)
      BY <1>0, <2>1, <2>2 DEF Building, Alive
    <2> QED BY <1>0, <2>1, <2>2, <2>3, NoMaking
  <1>7. ASSUME NEW p \in Procs, CloneNoSlot(p) PROVE EmbryoOwned' /\ MakerIsParent'
    BY <1>0, <1>7, NoMaking DEF CloneNoSlot, Building, Alive
  <1>8. ASSUME NEW p \in Procs, ForkNoMemory(p) \/ ForkPublish(p) \/ CloneFill(p)
        PROVE  EmbryoOwned' /\ MakerIsParent'
    <2>1. state[p] = "RUNNING" /\ pc[p] \in {"fork", "publish", "clone"}
      BY <1>8 DEF ForkNoMemory, ForkPublish, CloneFill, Running
    <2>2. /\ Building(p) /\ np[p] \in Procs /\ state[np[p]] = "EMBRYO"
          /\ np[p] # p /\ ~Building(np[p])
          /\ \A r \in Procs : Building(r) /\ np[r] = np[p] => r = p
      BY <1>0, <2>1, MakerOwnsEmbryo
    <2>3. /\ pc'[p] = "user"
          /\ \A r \in Procs \ {p, np[p]} : pc'[r] = pc[r] /\ state'[r] = state[r]
          /\ state'[p] = "RUNNING"
          /\ \/ state'[np[p]] = "UNUSED"
             \/ state'[np[p]] = "RUNNABLE" /\ pc'[np[p]] = "user"
          /\ \A r \in Procs \ {p} : np'[r] = np[r]
          /\ \A r \in Procs \ {np[p]} : parent'[r] = parent[r]
      BY <1>0, <1>8, <2>1, <2>2
      DEF ForkNoMemory, ForkReturnsError, ForkPublish, CloneFill, Goto
    <2>4. \A r \in Procs : Building(r)' <=> Building(r) /\ r # p
      BY <2>2, <2>3 DEF Building, Alive
    <2>5. \A r \in Procs : state'[r] = "EMBRYO" <=> state[r] = "EMBRYO" /\ r # np[p]
      BY <2>1, <2>2, <2>3
    <2>6. \A r \in Procs : Building(r)' => r # p /\ r # np[p]
      BY <2>2, <2>4
    <2>7. EmbryoOwned'
      <3>1. \A r \in Procs : Building(r)' => np'[r] \in Procs /\ state'[np'[r]] = "EMBRYO"
        BY <1>0, <2>2, <2>3, <2>4, <2>5 DEF EmbryoOwned
      <3>2. ASSUME NEW q \in Procs, state'[q] = "EMBRYO"
            PROVE  \E r \in Procs : Building(r)' /\ np'[r] = q
        <4>1. PICK r \in Procs : Building(r) /\ np[r] = q
          BY <1>0, <2>5, <3>2 DEF EmbryoOwned
        <4>2. r # p
          BY <2>5, <3>2, <4>1
        <4> QED BY <2>3, <2>4, <4>1, <4>2
      <3>3. \A r, s \in Procs : Building(r)' /\ Building(s)' /\ np'[r] = np'[s] => r = s
        BY <1>0, <2>3, <2>4 DEF EmbryoOwned
      <3> QED BY <3>1, <3>2, <3>3 DEF EmbryoOwned
    <2>8. MakerIsParent'
      <3>1. \A r \in Procs : Building(r) /\ r # p => np[r] # np[p]
        BY <2>2
      <3>2. \A r \in Procs : Building(r) => np[r] \in Procs
        BY <1>0 DEF EmbryoOwned
      <3> QED BY <1>0, <2>3, <2>4, <2>6, <3>1, <3>2 DEF MakerIsParent
    <2> QED BY <2>7, <2>8
  <1>9. ASSUME NEW p \in Procs, ForkCopy(p) PROVE EmbryoOwned' /\ MakerIsParent'
    <2>1. state[p] = "RUNNING" /\ pc[p] = "fork"
      BY <1>9 DEF ForkCopy, Running
    <2>2. /\ Building(p) /\ np[p] \in Procs
          /\ \A r \in Procs : Building(r) /\ np[r] = np[p] => r = p
      BY <1>0, <2>1, MakerOwnsEmbryo
    <2>3. /\ \A r \in Procs : Building(r)' <=> Building(r)
          /\ np' = np /\ state' = state /\ panicked' = panicked
          /\ parent'[np[p]] = p
          /\ \A r \in Procs \ {np[p]} : parent'[r] = parent[r]
          /\ \A r \in Procs \ {p} : pc'[r] = pc[r]
      BY <1>0, <1>9, <2>1, <2>2 DEF ForkCopy, Goto, Building, Alive
    <2>4. EmbryoOwned'
      BY <1>0, <2>3 DEF EmbryoOwned
    <2>5. \A r \in Procs : Building(r) => np[r] \in Procs
      BY <1>0 DEF EmbryoOwned
    <2> QED BY <1>0, <2>2, <2>3, <2>4, <2>5 DEF MakerIsParent
  <1>10. ASSUME NEW p \in Procs, CloneNoMemory(p) PROVE EmbryoOwned' /\ MakerIsParent'
    <2>1. state[p] = "RUNNING" /\ pc[p] = "clone"
      BY <1>10 DEF CloneNoMemory, Running
    <2>2. np[p] \in Procs /\ np[p] # p /\ state[np[p]] = "EMBRYO"
      BY <1>0, <2>1, MakerOwnsEmbryo
    <2>3. \A r \in Procs : Building(r)' <=> Building(r)
      BY <1>0, <1>10, <2>2 DEF CloneNoMemory, Building, Alive
    <2> QED BY <1>0, <1>10, <2>3 DEF CloneNoMemory, EmbryoOwned, MakerIsParent
  <1>11. ASSUME NEW p \in Procs, ExitZombie(p) PROVE EmbryoOwned' /\ MakerIsParent'
    <2>1. pc[p] = "exit" /\ ~Building(p)
      BY <1>11 DEF ExitZombie, Running, Building
    <2>2. \A r \in Procs : Building(r)' <=> Building(r)
      BY <1>0, <1>11, <2>1 DEF ExitZombie, Woken, Building, Alive
    <2>3. \A q \in Procs : state'[q] = "EMBRYO" <=> state[q] = "EMBRYO"
      BY <1>0, <1>11 DEF ExitZombie, Woken, Running
    <2>4. ASSUME NEW r \in Procs, Building(r), pc[r] = "publish"
          PROVE  parent'[np[r]] = parent[np[r]]
      <3>1. np[r] \in Procs /\ parent[np[r]] = r /\ r # p
        BY <1>0, <2>1, <2>4 DEF EmbryoOwned, MakerIsParent
      <3>2. np[r] \notin Children(p)
        BY <3>1 DEF Children
      <3> QED BY <1>11, <3>1, <3>2 DEF ExitZombie
    <2> QED BY <1>0, <1>11, <2>2, <2>3, <2>4, NoMaking DEF ExitZombie
  <1>12. ASSUME NEW p \in Procs, Wait(p) \/ Join(p) PROVE EmbryoOwned' /\ MakerIsParent'
    <2>0. /\ state[p] \in {"RUNNING", "RUNNABLE"} /\ pc[p] \in {"sys", "wait", "join"}
          /\ ~Building(p)
      BY <1>12 DEF Wait, Join, Scans, Running, Building
    <2>1. ASSUME NEW q \in Procs, state[q] = "ZOMBIE", Reap(p, q)
          PROVE  EmbryoOwned' /\ MakerIsParent'
      <3>1. \A r \in Procs : Building(r)' <=> Building(r)
        BY <1>0, <2>0, <2>1 DEF Reap, Goto, Building, Alive
      <3>2. \A r \in Procs : state'[r] = "EMBRYO" <=> state[r] = "EMBRYO"
        BY <1>0, <2>0, <2>1 DEF Reap
      <3>3. \A r \in Procs : Building(r) => np[r] # q
        BY <1>0, <2>1 DEF EmbryoOwned
      <3>4. \A r \in Procs : Building(r) => np'[r] = np[r] /\ pc'[r] = pc[r]
                                         /\ parent'[np[r]] = parent[np[r]]
        BY <1>0, <2>0, <2>1, <3>3 DEF Reap, Goto, EmbryoOwned
      <3> QED BY <1>0, <3>1, <3>2, <3>4, NoMaking
    <2>2. ASSUME NEW S, ScanFails(p, S) PROVE EmbryoOwned' /\ MakerIsParent'
      BY <1>0, <2>0, <2>2, NoMaking DEF ScanFails, Goto, Building, Alive
    <2>3. ASSUME NEW S, NEW c \in {"wait", "join"}, ScanSleeps(p, c, S)
          PROVE  EmbryoOwned' /\ MakerIsParent'
      BY <1>0, <2>0, <2>3, NoMaking DEF ScanSleeps, Goto, Building, Alive
    <2> QED
      BY <1>12, <2>1, <2>2, <2>3 DEF Wait, Join, IsFirst, Zombies
  <1> QED
    BY <1>1, <1>2, <1>3, <1>4, <1>5, <1>6, <1>7, <1>8, <1>9, <1>10, <1>11, <1>12
    DEF Next, Step, KernelStep

-----------------------------------------------------------------------------
(* Most steps disturb nobody's family: no process or zombie appears or      *)
(* vanishes or changes parents, and nobody goes to sleep in wait() or join().*)

Idle == {"UNUSED", "EMBRYO"}
Lively == {"SLEEPING", "RUNNABLE", "RUNNING"}

Undisturbed ==
  /\ \A q \in Procs :
        \/ state'[q] = state[q]
        \/ {state[q], state'[q]} \subseteq Lively
        \/ {state[q], state'[q]} \subseteq Idle
  /\ \A q \in Procs : state[q] \notin Idle =>
        parent'[q] = parent[q] /\ ustack'[q] = ustack[q]
  /\ \A q \in Procs : state[q] = "ZOMBIE" => pgdir'[q] = pgdir[q]
  /\ \A q \in Procs : state'[q] = "SLEEPING" /\ pc'[q] \in {"wait", "join"} =>
        /\ state[q] = "SLEEPING" /\ pc'[q] = pc[q]
        /\ pgdir'[q] = pgdir[q] /\ chan'[q] = chan[q]
        /\ killed'[q] = killed[q]
  /\ pc'[initproc] # "exit"

\* Such steps preserve the rest of the invariant.
LEMMA UndisturbedStep ==
  ASSUME Consistent, Undisturbed
  PROVE  /\ InitIsRoot' /\ ParentCanWait' /\ WaiterSleepsOnItself'
         /\ NoLostWakeup' /\ KilledWaiterIsAwake'
  <1>1. \A q \in Procs : Alive(q)' <=> Alive(q)
    BY DEF Undisturbed, Alive, Idle, Lively
  <1>2. \A q \in Procs : state'[q] = "ZOMBIE" <=> state[q] = "ZOMBIE"
    BY DEF Undisturbed, Alive, Idle, Lively
  <1>3. \A q \in Procs : Alive(q) \/ state[q] = "ZOMBIE" =>
            parent'[q] = parent[q] /\ ustack'[q] = ustack[q]
    BY DEF Undisturbed, Alive, Idle
  <1>4. InitIsRoot'
    BY <1>1, <1>3, InitprocIsProc DEF Consistent, InitIsRoot, Undisturbed
  <1>5. ParentCanWait'
    BY <1>1, <1>2, <1>3 DEF Consistent, ParentCanWait
  <1>6. WaiterSleepsOnItself'
    BY DEF Consistent, WaiterSleepsOnItself, Undisturbed
  <1>7. NoLostWakeup'
    <2>1. SUFFICES ASSUME NEW p \in Procs, state'[p] = "SLEEPING",
                          pc'[p] \in {"wait", "join"}
                   PROVE  /\ pc'[p] = "wait" => Zombies(Waitable(p))' = {}
                          /\ pc'[p] = "join" => Zombies(Joinable(p))' = {}
      BY DEF NoLostWakeup
    <2>2. /\ state[p] = "SLEEPING" /\ pc'[p] = pc[p]
          /\ pgdir'[p] = pgdir[p]
      BY <2>1 DEF Undisturbed
    <2>3. /\ Zombies(Waitable(p))' \subseteq Zombies(Waitable(p))
          /\ Zombies(Joinable(p))' \subseteq Zombies(Joinable(p))
      BY <1>2, <1>3, <2>2
      DEF Zombies, Waitable, Joinable, Threads, Children, Undisturbed
    <2> QED BY <2>2, <2>3 DEF Consistent, NoLostWakeup
  <1>8. KilledWaiterIsAwake'
    BY <1>3 DEF Consistent, KilledWaiterIsAwake, Undisturbed, Alive
  <1> QED BY <1>4, <1>5, <1>6, <1>7, <1>8

\* A step that is neither the last of a fork() or clone(), nor an exit(), a reap
\* or a sleep in wait() or join(), is such a step.
LEMMA MostStepsAreUndisturbed ==
  ASSUME Consistent, panicked = "no", NEW p \in Procs,
         \/ Dispatch(p) \/ Yield(p) \/ Enter(p) \/ OtherCall(p)
         \/ Alloc(p, "fork") \/ Alloc(p, "clone")
         \/ ForkNoSlot(p) \/ ForkNoMemory(p) \/ ForkCopy(p)
         \/ CloneNoSlot(p) \/ CloneNoMemory(p)
         \/ Exec(p) \/ Kill(p) \/ ExitCall(p) \/ ExitKilled(p)
         \/ IoCall(p) \/ IoCheck(p) \/ IoSleep(p) \/ IoReturn(p) \/ IoWakeup
         \/ \E S \in SUBSET Procs :
                state[p] \in {"RUNNING", "RUNNABLE"} /\ ScanFails(p, S)
  PROVE  Undisturbed
  <1> USE DEF TypeOK, States, PCs, Undisturbed, Idle, Lively
  <1>0. TypeOK /\ pc[initproc] # "exit" /\ initproc \in Procs
    BY InitprocIsProc DEF Consistent, InitIsRoot
  <1>1. CASE Dispatch(p) \/ Yield(p) \/ Enter(p) \/ OtherCall(p)
    BY <1>0, <1>1 DEF Dispatch, Yield, Enter, OtherCall, Running, Goto
  <1>2. ASSUME NEW c \in {"fork", "clone"}, Alloc(p, c) PROVE Undisturbed
    <2>1. PICK q \in Procs : state[q] = "UNUSED" /\ Take(p, c, q)
      BY <1>2 DEF Alloc, Unused, IsFirst
    <2>2. state[p] = "RUNNING"
      BY <1>2 DEF Alloc, Running
    <2> QED BY <1>0, <2>1, <2>2 DEF Take, Goto
  <1>3. CASE ForkNoSlot(p)
    BY <1>0, <1>3 DEF ForkNoSlot, ForkReturnsError, Running, Goto
  <1>4. ASSUME ForkNoMemory(p) \/ ForkCopy(p) \/ CloneNoMemory(p)
        PROVE  Undisturbed
    <2>1. state[p] = "RUNNING" /\ pc[p] \in {"fork", "clone"}
      BY <1>4 DEF ForkNoMemory, ForkCopy, CloneNoMemory, Running
    <2>2. np[p] \in Procs /\ state[np[p]] = "EMBRYO"
      BY <2>1, MakerOwnsEmbryo
    <2>3. CASE ForkNoMemory(p)
      BY <1>0, <2>1, <2>2, <2>3 DEF ForkNoMemory, ForkReturnsError, Goto
    <2>4. CASE ForkCopy(p)
      BY <1>0, <2>1, <2>2, <2>4 DEF ForkCopy, Goto
    <2>5. CASE CloneNoMemory(p)
      BY <1>0, <2>1, <2>2, <2>5 DEF CloneNoMemory, Goto
    <2> QED BY <1>4, <2>3, <2>4, <2>5
  <1>5. CASE CloneNoSlot(p)
    BY <1>0, <1>5 DEF CloneNoSlot
  <1>6. CASE Exec(p)
    BY <1>0, <1>6 DEF Exec, Running, Goto
  <1>7. CASE Kill(p)
    <2>1. PICK q \in Procs :
            /\ killed' = [killed EXCEPT ![q] = TRUE]
            /\ state' = [state EXCEPT ![q] = IF @ = "SLEEPING" THEN "RUNNABLE"
                                                               ELSE @]
      BY <1>7 DEF Kill, KillTargets
    <2>2. /\ state[p] = "RUNNING" /\ pc' = [pc EXCEPT ![p] = "user"]
          /\ parent' = parent /\ ustack' = ustack
          /\ pgdir' = pgdir /\ chan' = chan
      BY <1>7 DEF Kill, Running, Goto
    <2> QED BY <1>0, <2>1, <2>2
  <1>8. CASE ExitCall(p) \/ ExitKilled(p)
    BY <1>0, <1>8 DEF ExitCall, ExitKilled, BeginExit, Running, Goto
  <1>9. CASE IoCall(p) \/ IoCheck(p) \/ IoSleep(p) \/ IoReturn(p)
    BY <1>0, <1>9 DEF IoCall, IoCheck, IoSleep, IoReturn, Running, Goto
  <1>10. CASE IoWakeup
    BY <1>0, <1>10 DEF IoWakeup, Woken
  <1>11. ASSUME NEW S \in SUBSET Procs, ScanFails(p, S),
                state[p] \in {"RUNNING", "RUNNABLE"}
         PROVE  Undisturbed
    BY <1>0, <1>11 DEF ScanFails, Goto
  <1> QED
    BY <1>1, <1>2, <1>3, <1>4, <1>5, <1>6, <1>7, <1>8, <1>9, <1>10, <1>11

\* fork() or clone() makes its EMBRYO RUNNABLE: the new process has a parent
\* that runs.
LEMMA PublishStep ==
  ASSUME Consistent, panicked = "no", NEW p \in Procs,
         ForkPublish(p) \/ CloneFill(p)
  PROVE  /\ InitIsRoot' /\ ParentCanWait' /\ WaiterSleepsOnItself'
         /\ NoLostWakeup' /\ KilledWaiterIsAwake'
  <1> DEFINE n == np[p]
  <1>0. TypeOK
    BY DEF Consistent
  <1>1. state[p] = "RUNNING" /\ pc[p] \in {"publish", "clone"}
    BY DEF ForkPublish, CloneFill, Running
  <1>2. Building(p) /\ n \in Procs /\ state[n] = "EMBRYO" /\ n # p /\ n # initproc
    BY <1>1, MakerOwnsEmbryo
  <1>3. /\ parent'[n] = p
        /\ state' = [state EXCEPT ![n] = "RUNNABLE"]
        /\ pc' = [pc EXCEPT ![p] = "user", ![n] = "user"]
        /\ chan' = chan
        /\ \A q \in Procs \ {n} :
              /\ parent'[q] = parent[q] /\ ustack'[q] = ustack[q]
              /\ pgdir'[q] = pgdir[q]
    <2>1. CASE ForkPublish(p)
      <3>1. parent[n] = p
        BY <1>2, <2>1 DEF ForkPublish, Running, Consistent, MakerIsParent
      <3> QED BY <1>0, <1>2, <2>1, <3>1 DEF ForkPublish
    <2>2. CASE CloneFill(p)
      BY <1>0, <1>2, <2>2 DEF CloneFill, TypeOK
    <2> QED BY <2>1, <2>2
  <1>4. \A q \in Procs \ {n} : state'[q] = state[q] /\ (Alive(q)' <=> Alive(q))
    BY <1>0, <1>2, <1>3 DEF Alive, TypeOK
  <1>5. state'[n] = "RUNNABLE"
    BY <1>0, <1>2, <1>3 DEF TypeOK
  <1>6. \A q \in Procs \ {n, p} : pc'[q] = pc[q]
    BY <1>0, <1>3 DEF TypeOK
  <1>7. InitIsRoot'
    BY <1>0, <1>2, <1>3, <1>4, InitprocIsProc
    DEF Consistent, InitIsRoot, TypeOK, PCs
  <1>8. ParentCanWait'
    BY <1>1, <1>2, <1>3, <1>4, <1>5 DEF Consistent, ParentCanWait, Alive
  <1>9. WaiterSleepsOnItself'
    BY <1>1, <1>3, <1>4, <1>5, <1>6 DEF Consistent, WaiterSleepsOnItself
  <1>10. NoLostWakeup'
    <2>1. SUFFICES ASSUME NEW q \in Procs, state'[q] = "SLEEPING",
                          pc'[q] \in {"wait", "join"}
                   PROVE  /\ pc'[q] = "wait" => Zombies(Waitable(q))' = {}
                          /\ pc'[q] = "join" => Zombies(Joinable(q))' = {}
      BY DEF NoLostWakeup
    <2>2. q # p /\ q # n /\ state[q] = "SLEEPING" /\ pc'[q] = pc[q]
      BY <1>1, <1>2, <1>4, <1>5, <1>6, <2>1
    <2>3. /\ Zombies(Waitable(q))' \subseteq Zombies(Waitable(q))
          /\ Zombies(Joinable(q))' \subseteq Zombies(Joinable(q))
      BY <1>3, <1>4, <1>5, <2>2 DEF Zombies, Waitable, Joinable, Threads, Children
    <2> QED BY <2>2, <2>3 DEF Consistent, NoLostWakeup
  <1>11. KilledWaiterIsAwake'
    <2>1. killed' = killed
      BY DEF ForkPublish, CloneFill
    <2> QED BY <1>1, <1>3, <1>4, <1>5, <1>6, <2>1 DEF Consistent, KilledWaiterIsAwake
  <1> QED BY <1>7, <1>8, <1>9, <1>10, <1>11

\* exit(): the children go to init, which is awake if one of them is a zombie,
\* and so is the parent.
LEMMA ExitStep ==
  ASSUME Consistent, NEW p \in Procs, ExitZombie(p)
  PROVE  /\ InitIsRoot' /\ ParentCanWait' /\ WaiterSleepsOnItself'
         /\ NoLostWakeup' /\ KilledWaiterIsAwake'
  <1> DEFINE woken == {parent[p]} \cup
                 (IF \E q \in Children(p) : state[q] = "ZOMBIE" THEN {initproc}
                                                                ELSE {})
  <1>0. TypeOK /\ InitIsRoot /\ ParentCanWait /\ initproc \in Procs
    BY InitprocIsProc DEF Consistent
  <1>1. state[p] = "RUNNING" /\ pc[p] = "exit" /\ p # initproc
    BY <1>0 DEF ExitZombie, Running, InitIsRoot
  <1>2. parent[p] \in Procs \ {p} /\ None \notin Procs
    BY <1>0, <1>1, NoneAssumption DEF ParentCanWait, Alive
  <1>3. /\ pc' = pc /\ chan' = chan /\ ustack' = ustack /\ pgdir' = pgdir
        /\ \A q \in Procs :
              parent'[q] = IF parent[q] = p THEN initproc ELSE parent[q]
        /\ state' = [Woken(state, woken) EXCEPT ![p] = "ZOMBIE"]
    BY DEF ExitZombie, Children
  <1>4. /\ state'[p] = "ZOMBIE"
        /\ \A q \in Procs \ {p} :
              state'[q] = IF state[q] = "SLEEPING" /\ chan[q] \in woken
                          THEN "RUNNABLE" ELSE state[q]
    BY <1>3 DEF Woken
  <1>5. \A q \in Procs \ {p} : Alive(q)' <=> Alive(q)
    BY <1>4 DEF Alive
  <1>6. InitIsRoot'
    BY <1>0, <1>1, <1>2, <1>3, <1>5 DEF InitIsRoot
  <1>7. ParentCanWait'
    <2>1. ASSUME NEW q \in Procs \ {initproc}, Alive(q)' \/ state'[q] = "ZOMBIE"
          PROVE  Alive(q) \/ state[q] = "ZOMBIE"
      BY <1>1, <1>4, <1>5, <2>1 DEF Alive
    <2>2. Alive(initproc)'
      BY <1>0, <1>1, <1>5 DEF InitIsRoot
    <2> QED BY <1>0, <1>1, <1>3, <1>5, <2>1, <2>2 DEF ParentCanWait
  <1>8. WaiterSleepsOnItself'
    BY <1>3, <1>4 DEF Consistent, WaiterSleepsOnItself
  <1>9. NoLostWakeup'
    <2>1. SUFFICES ASSUME NEW q \in Procs, state'[q] = "SLEEPING",
                          pc'[q] \in {"wait", "join"}
                   PROVE  /\ pc'[q] = "wait" => Zombies(Waitable(q))' = {}
                          /\ pc'[q] = "join" => Zombies(Joinable(q))' = {}
      BY DEF NoLostWakeup
    <2>2. q # p /\ state[q] = "SLEEPING" /\ pc[q] = pc'[q] /\ q \notin woken
      BY <1>3, <1>4, <2>1 DEF Consistent, WaiterSleepsOnItself
    <2>3. ASSUME NEW z \in Procs, state'[z] = "ZOMBIE", parent'[z] = q
          PROVE  state[z] = "ZOMBIE" /\ parent[z] = q
      BY <1>2, <1>3, <1>4, <2>2, <2>3 DEF Children
    <2>4. /\ Zombies(Waitable(q))' \subseteq Zombies(Waitable(q))
          /\ Zombies(Joinable(q))' \subseteq Zombies(Joinable(q))
      BY <1>3, <2>3 DEF Zombies, Waitable, Joinable, Threads, Children
    <2> QED BY <2>2, <2>4 DEF Consistent, NoLostWakeup
  <1>10. KilledWaiterIsAwake'
    <2>1. \A q \in Procs : killed'[q] <=> killed[q] \/ (ustack[q] /\ parent[q] = p)
      BY DEF ExitZombie, Threads, Children
    <2>2. \A q \in Procs : state'[q] = "SLEEPING" => state[q] = "SLEEPING"
      BY <1>4
    <2> QED BY <1>3, <2>1, <2>2 DEF Consistent, KilledWaiterIsAwake
  <1> QED BY <1>6, <1>7, <1>8, <1>9, <1>10

\* wait() and join() free the slot of a child that is dead.
LEMMA ReapStep ==
  ASSUME Consistent, NEW p \in Procs, NEW q \in Procs,
         state[p] \in {"RUNNING", "RUNNABLE"}, state[q] = "ZOMBIE", Reap(p, q)
  PROVE  /\ InitIsRoot' /\ ParentCanWait' /\ WaiterSleepsOnItself'
         /\ NoLostWakeup' /\ KilledWaiterIsAwake'
  <1>0. TypeOK /\ InitIsRoot /\ ParentCanWait /\ initproc \in Procs
    BY InitprocIsProc DEF Consistent
  <1>1. q # p /\ q # initproc
    BY <1>0 DEF InitIsRoot, Alive
  <1>2. /\ state'[p] = "RUNNING" /\ state'[q] = "UNUSED" /\ pc'[p] = "user"
        /\ pgdir' = pgdir
        /\ \A r \in Procs \ {p} : chan'[r] = chan[r] /\ pc'[r] = pc[r]
        /\ \A r \in Procs \ {p, q} : state'[r] = state[r]
        /\ \A r \in Procs \ {q} : parent'[r] = parent[r] /\ ustack'[r] = ustack[r]
    BY <1>0, <1>1 DEF Reap, Goto, TypeOK
  <1>3. \A r \in Procs : Alive(r)' <=> Alive(r)
    BY <1>1, <1>2 DEF Alive
  <1>4. InitIsRoot'
    BY <1>0, <1>1, <1>2, <1>3 DEF InitIsRoot
  <1>5. ParentCanWait'
    BY <1>0, <1>2, <1>3 DEF ParentCanWait, Alive
  <1>6. WaiterSleepsOnItself'
    BY <1>2 DEF Consistent, WaiterSleepsOnItself
  <1>7. NoLostWakeup'
    <2>1. SUFFICES ASSUME NEW r \in Procs, state'[r] = "SLEEPING",
                          pc'[r] \in {"wait", "join"}
                   PROVE  /\ pc'[r] = "wait" => Zombies(Waitable(r))' = {}
                          /\ pc'[r] = "join" => Zombies(Joinable(r))' = {}
      BY DEF NoLostWakeup
    <2>2. r # p /\ r # q /\ state[r] = "SLEEPING" /\ pc'[r] = pc[r]
      BY <1>2, <2>1
    <2>3. /\ Zombies(Waitable(r))' \subseteq Zombies(Waitable(r))
          /\ Zombies(Joinable(r))' \subseteq Zombies(Joinable(r))
      BY <1>2, <2>2 DEF Zombies, Waitable, Joinable, Threads, Children
    <2> QED BY <2>2, <2>3 DEF Consistent, NoLostWakeup
  <1>8. KilledWaiterIsAwake'
    <2>1. \A r \in Procs \ {q} : killed'[r] = killed[r]
      BY <1>0 DEF Reap, TypeOK
    <2> QED BY <1>2, <2>1 DEF Consistent, KilledWaiterIsAwake
  <1> QED BY <1>4, <1>5, <1>6, <1>7, <1>8

\* A process goes to sleep in wait() or join() only after a scan that found
\* nobody to collect, and it holds ptable.lock from the scan to the sleep.
LEMMA ScanSleepsStep ==
  ASSUME Consistent, NEW p \in Procs, state[p] \in {"RUNNING", "RUNNABLE"},
         \/ /\ ScanSleeps(p, "wait", Waitable(p))
            /\ Zombies(Waitable(p)) = {}
         \/ /\ ScanSleeps(p, "join", Joinable(p))
            /\ Zombies(Joinable(p)) = {}
  PROVE  /\ InitIsRoot' /\ ParentCanWait' /\ WaiterSleepsOnItself'
         /\ NoLostWakeup' /\ KilledWaiterIsAwake'
  <1>0. TypeOK /\ InitIsRoot /\ ParentCanWait /\ initproc \in Procs
    BY InitprocIsProc DEF Consistent
  <1>1. /\ state'[p] = "SLEEPING" /\ chan'[p] = p
        /\ parent' = parent /\ ustack' = ustack /\ pgdir' = pgdir
        /\ \A r \in Procs \ {p} :
              state'[r] = state[r] /\ pc'[r] = pc[r] /\ chan'[r] = chan[r]
        /\ \/ pc'[p] = "wait" /\ Zombies(Waitable(p)) = {}
           \/ pc'[p] = "join" /\ Zombies(Joinable(p)) = {}
    BY <1>0 DEF ScanSleeps, Goto, TypeOK
  <1>2. \A r \in Procs : Alive(r)' <=> Alive(r)
    BY <1>1 DEF Alive
  <1>3. \A r \in Procs : state'[r] = "ZOMBIE" <=> state[r] = "ZOMBIE"
    BY <1>1
  <1>4. InitIsRoot'
    BY <1>0, <1>1, <1>2 DEF InitIsRoot
  <1>5. ParentCanWait'
    BY <1>0, <1>1, <1>2, <1>3 DEF ParentCanWait
  <1>6. WaiterSleepsOnItself'
    BY <1>1 DEF Consistent, WaiterSleepsOnItself
  <1>7. NoLostWakeup'
    <2>1. \A r \in Procs : /\ Zombies(Waitable(r))' = Zombies(Waitable(r))
                           /\ Zombies(Joinable(r))' = Zombies(Joinable(r))
      BY <1>1, <1>3 DEF Zombies, Waitable, Joinable, Threads, Children
    <2> QED BY <1>1, <2>1 DEF Consistent, NoLostWakeup
  <1>8. KilledWaiterIsAwake'
    <2>1. killed' = killed /\ ~killed[p]
      BY DEF ScanSleeps
    <2> QED BY <1>1, <2>1 DEF Consistent, KilledWaiterIsAwake
  <1> QED BY <1>4, <1>5, <1>6, <1>7, <1>8

LEMMA FamilyStep ==
  ASSUME Consistent, Next
  PROVE  /\ InitIsRoot' /\ ParentCanWait' /\ WaiterSleepsOnItself'
         /\ NoLostWakeup' /\ KilledWaiterIsAwake'
  <1> DEFINE Goal == InitIsRoot' /\ ParentCanWait' /\ WaiterSleepsOnItself'
                     /\ NoLostWakeup' /\ KilledWaiterIsAwake'
  <1>0. panicked = "no"
    BY DEF Next
  <1>1. CASE Undisturbed
    BY <1>1, UndisturbedStep
  <1>2. ASSUME NEW p \in Procs, Wait(p) \/ Join(p) PROVE Goal
    <2>1. state[p] \in {"RUNNING", "RUNNABLE"}
      BY <1>2 DEF Wait, Join, Scans, Running
    <2>3. CASE \E q \in Procs : state[q] = "ZOMBIE" /\ Reap(p, q)
      BY <2>1, <2>3, ReapStep
    <2>4. CASE \E S \in SUBSET Procs : ScanFails(p, S)
      BY <1>0, <2>1, <2>4, MostStepsAreUndisturbed, UndisturbedStep
    <2>5. CASE \/ /\ ScanSleeps(p, "wait", Waitable(p))
                  /\ Zombies(Waitable(p)) = {}
               \/ /\ ScanSleeps(p, "join", Joinable(p))
                  /\ Zombies(Joinable(p)) = {}
      BY <2>1, <2>5, ScanSleepsStep
    <2>6. Waitable(p) \in SUBSET Procs /\ Joinable(p) \in SUBSET Procs
      BY DEF Waitable, Joinable, Threads, Children
    <2> QED
      BY <1>2, <2>3, <2>4, <2>5, <2>6 DEF Wait, Join, IsFirst, Zombies
  <1>3. ASSUME NEW p \in Procs, ForkPublish(p) \/ CloneFill(p) PROVE Goal
    BY <1>0, <1>3, PublishStep
  <1>4. ASSUME NEW p \in Procs, ExitZombie(p) PROVE Goal
    BY <1>4, ExitStep
  <1> QED
    BY <1>0, <1>1, <1>2, <1>3, <1>4, InitprocIsProc, MostStepsAreUndisturbed
    DEF Next, Step, KernelStep

LEMMA InvStep == Consistent /\ [Next]_vars => Consistent'
  <1> SUFFICES ASSUME Consistent, [Next]_vars PROVE Consistent'
    OBVIOUS
  <1>1. TypeOK'
    BY TypeStep DEF Consistent
  <1>2. CASE Next
    BY <1>1, <1>2, MakingStep, FamilyStep DEF Consistent
  <1>3. CASE UNCHANGED vars
    <2> USE <1>3 DEF vars, Building, Alive
    <2>1. EmbryoOwned' <=> EmbryoOwned
      BY DEF EmbryoOwned
    <2>2. MakerIsParent' <=> MakerIsParent
      BY DEF MakerIsParent
    <2>3. (InitIsRoot' <=> InitIsRoot) /\ (ParentCanWait' <=> ParentCanWait)
      BY DEF InitIsRoot, ParentCanWait
    <2>4. WaiterSleepsOnItself' <=> WaiterSleepsOnItself
      BY DEF WaiterSleepsOnItself
    <2>5. NoLostWakeup' <=> NoLostWakeup
      BY DEF NoLostWakeup, Zombies, Waitable, Joinable, Threads, Children
    <2>6. KilledWaiterIsAwake' <=> KilledWaiterIsAwake
      BY DEF KilledWaiterIsAwake
    <2> QED BY <1>1, <2>1, <2>2, <2>3, <2>4, <2>5, <2>6 DEF Consistent
  <1> QED BY <1>2, <1>3

\* The inductive invariant holds in every state, for every size of the table and
\* every mix of system calls, of programs that join their threads or do not.
THEOREM Consistency == Spec => []Consistent
  BY InvInit, InvStep, PTL DEF Spec

\* Every slot that allocproc() takes stays in the hands of exactly one fork() or
\* clone() until it is published or given back.
THEOREM SlotsAreOwned == Spec => []EmbryoOwned
  <1>1. Consistent => EmbryoOwned
    BY DEF Consistent
  <1> QED BY <1>1, Consistency, PTL

\* Every process and zombie other than init has a parent that is alive and can
\* wait for it: exit() leaves no orphan.
THEOREM NoOrphan == Spec => []ParentCanWait
  <1>1. Consistent => ParentCanWait
    BY DEF Consistent
  <1> QED BY <1>1, Consistency, PTL

\* The sleep of wait() and join() and the wakeups of exit() never miss each
\* other.
THEOREM WakeupsAreNotLost == Spec => []NoLostWakeup
  <1>1. Consistent => NoLostWakeup
    BY DEF Consistent
  <1> QED BY <1>1, Consistency, PTL

\* kill() never leaves a process asleep in wait() or join(); only a thread that
\* the exit of its process marked may sleep there killed.
THEOREM KillReachesWaiters == Spec => []KilledWaiterIsAwake
  <1>1. Consistent => KilledWaiterIsAwake
    BY DEF Consistent
  <1> QED BY <1>1, Consistency, PTL

-----------------------------------------------------------------------------
(* Address spaces.  What the proofs need besides Consistent is that a slot   *)
(* that is free, or being filled, carries nothing of the process before.     *)

LEMMA BlankInit == Init => FreeIsBlank
  BY DEF Init, FreeIsBlank

\* A step that neither frees a slot nor takes a child for a slot that is free.
LEMMA StaysBlank ==
  ASSUME FreeIsBlank,
         \A q \in Procs : state'[q] \in Idle =>
            state[q] \in Idle /\ ustack'[q] = ustack[q] /\ parent'[q] = parent[q],
         \A p \in Procs : Alive(p) => Alive(p)',
         \A p \in Procs : pc'[p] \in {"fork", "publish", "clone"} =>
            Alive(p) /\ pc[p] \in {"sys", "fork", "publish", "clone"},
         \A p \in Procs : pc[p] = "publish" =>
            pc'[p] = "publish" /\ np'[p] = np[p]
  PROVE  FreeIsBlank'
  BY DEF FreeIsBlank, BeingMade, Idle

\* The slot in the hands of a fork() or clone() that has not got as far as the
\* copy is nobody's child.
LEMMA FreshIsOrphan ==
  ASSUME Consistent, FreeIsBlank, panicked = "no", NEW p \in Procs,
         state[p] = "RUNNING", pc[p] \in {"fork", "clone"}
  PROVE  parent[np[p]] = None /\ ~ustack[np[p]] /\ ~BeingMade(np[p])
  <1>1. /\ np[p] \in Procs /\ state[np[p]] = "EMBRYO"
        /\ \A r \in Procs : Building(r) /\ np[r] = np[p] => r = p
    BY MakerOwnsEmbryo
  <1>2. \A r \in Procs : pc[r] = "publish" => Building(r)
    BY DEF FreeIsBlank, Building
  <1>3. ~BeingMade(np[p])
    BY <1>1, <1>2 DEF BeingMade
  <1> QED BY <1>1, <1>3 DEF FreeIsBlank

LEMMA BlankStep == Consistent /\ FreeIsBlank /\ [Next]_vars => FreeIsBlank'
  <1> SUFFICES ASSUME Consistent, FreeIsBlank, [Next]_vars PROVE FreeIsBlank'
    OBVIOUS
  <1> USE DEF Idle
  <1>0. TypeOK
    BY DEF Consistent
  <1>1. CASE UNCHANGED vars
    BY <1>1 DEF vars, FreeIsBlank, BeingMade, Alive
  <1>2. CASE Next
    <2>0. panicked = "no"
      BY <1>2 DEF Next
    <2>1. ASSUME NEW p \in Procs,
                 \/ Dispatch(p) \/ Yield(p) \/ Enter(p) \/ OtherCall(p)
                 \/ IoCall(p) \/ IoCheck(p) \/ IoSleep(p) \/ IoReturn(p)
          PROVE  FreeIsBlank'
      BY <1>0, <2>1, StaysBlank
      DEF Dispatch, Yield, Enter, OtherCall, IoCall, IoCheck, IoSleep, IoReturn,
          Running, Goto, Alive, TypeOK, FreeIsBlank
    <2>2. ASSUME NEW p \in Procs,
                 \/ ForkNoSlot(p) \/ CloneNoSlot(p) \/ Exec(p)
                 \/ ExitCall(p) \/ ExitKilled(p)
          PROVE  FreeIsBlank'
      <3>1. /\ \A r \in Procs :
                  \/ pc'[r] = pc[r]
                  \/ pc[r] \in {"user", "sys"} /\ pc'[r] \in {"user", "exit"}
            /\ state' = state /\ ustack' = ustack /\ parent' = parent /\ np' = np
        BY <1>0, <2>2
        DEF ForkNoSlot, ForkReturnsError, CloneNoSlot, Exec, ExitCall, ExitKilled,
            BeginExit, Running, Goto, TypeOK
      <3>2. \A r \in Procs : Alive(r) => Alive(r)'
        BY <3>1 DEF Alive
      <3>3. \A r \in Procs : pc'[r] \in {"fork", "publish", "clone"} =>
                Alive(r) /\ pc'[r] = pc[r]
        BY <3>1 DEF FreeIsBlank
      <3>4. \A r \in Procs : pc[r] = "publish" => pc'[r] = "publish"
        BY <3>1
      <3> QED BY <3>1, <3>2, <3>3, <3>4, StaysBlank
    <2>3. ASSUME NEW p \in Procs, Kill(p) PROVE FreeIsBlank'
      <3>1. PICK q \in Procs :
              state' = [state EXCEPT ![q] = IF @ = "SLEEPING" THEN "RUNNABLE" ELSE @]
        BY <2>3 DEF Kill, KillTargets
      <3>2. pc[p] = "sys" /\ pc' = [pc EXCEPT ![p] = "user"]
            /\ ustack' = ustack /\ parent' = parent /\ np' = np
        BY <2>3 DEF Kill, Running, Goto
      <3>3. \A r \in Procs : \/ state'[r] = state[r]
                             \/ state[r] = "SLEEPING" /\ state'[r] = "RUNNABLE"
        BY <1>0, <3>1 DEF TypeOK
      <3>4. \A r \in Procs : \/ pc'[r] = pc[r]
                             \/ pc[r] = "sys" /\ pc'[r] = "user"
        BY <1>0, <3>2 DEF TypeOK
      <3>5. \A r \in Procs : Alive(r) => Alive(r)'
        BY <3>3 DEF Alive
      <3>6. \A r \in Procs : pc'[r] \in {"fork", "publish", "clone"} =>
                Alive(r) /\ pc'[r] = pc[r]
        BY <3>4 DEF FreeIsBlank
      <3> QED BY <3>2, <3>3, <3>4, <3>5, <3>6, StaysBlank
    <2>4. CASE IoWakeup
      BY <1>0, <2>4, StaysBlank DEF IoWakeup, Woken, Alive, TypeOK, FreeIsBlank
    <2>5. ASSUME NEW p \in Procs, NEW c \in {"fork", "clone"}, Alloc(p, c)
          PROVE  FreeIsBlank'
      <3>1. PICK q \in Procs : state[q] = "UNUSED" /\ Take(p, c, q)
        BY <2>5 DEF Alloc, Unused, IsFirst
      <3>2. state[p] = "RUNNING" /\ pc[p] = "sys"
        BY <2>5 DEF Alloc, Running
      <3> QED BY <1>0, <3>1, <3>2 DEF Take, Goto, Alive, TypeOK, FreeIsBlank, BeingMade
    <2>6. ASSUME NEW p \in Procs, ForkNoMemory(p) \/ CloneNoMemory(p)
          PROVE  FreeIsBlank'
      <3>1. state[p] = "RUNNING" /\ pc[p] \in {"fork", "clone"}
        BY <2>6 DEF ForkNoMemory, CloneNoMemory, Running
      <3>2. np[p] \in Procs /\ state[np[p]] = "EMBRYO" /\ np[p] # p
        BY <2>0, <3>1, MakerOwnsEmbryo
      <3>3. /\ state' = [state EXCEPT ![np[p]] = "UNUSED"]
            /\ ustack' = ustack /\ parent' = parent
            /\ \A r \in Procs \ {p} : pc'[r] = pc[r] /\ np'[r] = np[r]
            /\ pc'[p] \in {"user", "clone"}
        <4>1. CASE ForkNoMemory(p)
          BY <1>0, <4>1 DEF ForkNoMemory, ForkReturnsError, Goto, TypeOK
        <4>2. CASE CloneNoMemory(p)
          BY <4>2 DEF CloneNoMemory, Running
        <4> QED BY <2>6, <4>1, <4>2
      <3>4. /\ state'[np[p]] = "UNUSED"
            /\ \A r \in Procs \ {np[p]} : state'[r] = state[r]
        BY <1>0, <3>2, <3>3 DEF TypeOK
      <3>5. \A r \in Procs : r # np[p] => (Alive(r) <=> Alive(r)')
        BY <3>4 DEF Alive
      <3>6. pc[np[p]] \notin {"fork", "publish", "clone"}
        BY <3>2 DEF FreeIsBlank, Alive
      <3>7. \A q \in Procs : BeingMade(q) => BeingMade(q)'
        BY <3>1, <3>3 DEF BeingMade
      <3>8. \A q \in Procs : state'[q] \in Idle => state[q] \in Idle
        BY <3>2, <3>4
      <3>9. \A r \in Procs : pc'[r] \in {"fork", "publish", "clone"} => Alive(r)'
        BY <3>1, <3>2, <3>3, <3>5, <3>6 DEF FreeIsBlank
      <3> QED BY <3>3, <3>7, <3>8, <3>9 DEF FreeIsBlank
    <2>7. ASSUME NEW p \in Procs, ForkCopy(p) PROVE FreeIsBlank'
      <3>1. state[p] = "RUNNING" /\ pc[p] = "fork"
        BY <2>7 DEF ForkCopy, Running
      <3>2. /\ state' = state /\ ustack' = ustack /\ np' = np
            /\ \A r \in Procs \ {np[p]} : parent'[r] = parent[r]
            /\ \A r \in Procs \ {p} : pc'[r] = pc[r]
            /\ pc'[p] = "publish"
        BY <1>0, <2>7 DEF ForkCopy, Goto, TypeOK
      <3>3. \A q \in Procs : BeingMade(q) => BeingMade(q)'
        BY <3>1, <3>2 DEF BeingMade
      <3>4. BeingMade(np[p])'
        BY <3>2 DEF BeingMade
      <3> QED BY <3>1, <3>2, <3>3, <3>4 DEF FreeIsBlank, Alive
    <2>8. ASSUME NEW p \in Procs, ForkPublish(p) \/ CloneFill(p) PROVE FreeIsBlank'
      <3>1. state[p] = "RUNNING" /\ pc[p] \in {"publish", "clone"}
        BY <2>8 DEF ForkPublish, CloneFill, Running
      <3>2. np[p] \in Procs /\ state[np[p]] = "EMBRYO" /\ np[p] # p
        BY <2>0, <3>1, MakerOwnsEmbryo
      <3>3. /\ state' = [state EXCEPT ![np[p]] = "RUNNABLE"]
            /\ pc' = [pc EXCEPT ![p] = "user", ![np[p]] = "user"]
            /\ \A r \in Procs \ {np[p]} : ustack'[r] = ustack[r] /\ parent'[r] = parent[r]
            /\ \A r \in Procs \ {p} : np'[r] = np[r]
        BY <1>0, <2>8 DEF ForkPublish, CloneFill, TypeOK
      <3>4. ~(pc[np[p]] \in {"fork", "publish", "clone"})
        BY <3>2 DEF FreeIsBlank, Alive
      <3>5. ASSUME NEW q \in Procs, state'[q] \in Idle
            PROVE  ~ustack'[q] /\ (parent'[q] = None \/ BeingMade(q)')
        <4>1. q # np[p] /\ state[q] \in Idle
          BY <1>0, <3>2, <3>3, <3>5 DEF TypeOK
        <4>2. ASSUME BeingMade(q) PROVE BeingMade(q)'
          <5>1. PICK m \in Procs : pc[m] = "publish" /\ np[m] = q
            BY <4>2 DEF BeingMade
          <5>2. m # p /\ m # np[p]
            BY <3>4, <4>1, <5>1
          <5> QED BY <1>0, <3>3, <5>1, <5>2 DEF BeingMade, TypeOK
        <4> QED BY <3>3, <4>1, <4>2 DEF FreeIsBlank
      <3>6. \A r \in Procs : Alive(r) => Alive(r)'
        BY <1>0, <3>3 DEF Alive, TypeOK
      <3> QED BY <1>0, <3>2, <3>3, <3>5, <3>6 DEF FreeIsBlank, TypeOK
    <2>9. ASSUME NEW p \in Procs, ExitZombie(p) PROVE FreeIsBlank'
      <3>1. /\ state[p] = "RUNNING" /\ pc[p] = "exit"
            /\ pc' = pc /\ ustack' = ustack /\ np' = np
            /\ \A q \in Procs : parent'[q] = IF parent[q] = p THEN initproc ELSE parent[q]
            /\ state'[p] = "ZOMBIE"
            /\ \A q \in Procs \ {p} :
                  \/ state'[q] = state[q]
                  \/ state[q] = "SLEEPING" /\ state'[q] = "RUNNABLE"
        BY <1>0, <2>9 DEF ExitZombie, Running, Woken, Children, TypeOK
      <3>2. ASSUME NEW q \in Procs, state[q] \in Idle PROVE parent[q] # p
        <4>1. CASE parent[q] = None
          BY <4>1, NoneAssumption
        <4>2. CASE BeingMade(q)
          <5>1. PICK m \in Procs : pc[m] = "publish" /\ np[m] = q
            BY <4>2 DEF BeingMade
          <5>2. Building(m)
            BY <5>1 DEF FreeIsBlank, Building
          <5> QED BY <3>1, <5>1, <5>2 DEF Consistent, MakerIsParent
        <4> QED BY <3>2, <4>1, <4>2 DEF FreeIsBlank
      <3> QED BY <3>1, <3>2 DEF FreeIsBlank, BeingMade, Alive
    <2>10. ASSUME NEW p \in Procs, Wait(p) \/ Join(p) PROVE FreeIsBlank'
      <3>1. state[p] \in {"RUNNING", "RUNNABLE"} /\ pc[p] \in {"sys", "wait", "join"}
        BY <2>10 DEF Wait, Join, Scans, Running
      <3>2. ASSUME NEW q \in Procs, state[q] = "ZOMBIE", Reap(p, q)
            PROVE  FreeIsBlank'
        <4>1. /\ state'[p] = "RUNNING" /\ state'[q] = "UNUSED" /\ pc'[p] = "user"
              /\ \A r \in Procs \ {p, q} : state'[r] = state[r]
              /\ \A r \in Procs \ {p} : pc'[r] = pc[r]
              /\ \A r \in Procs \ {q} : parent'[r] = parent[r] /\ ustack'[r] = ustack[r]
              /\ parent'[q] = None /\ ~ustack'[q] /\ np' = np
          BY <1>0, <3>1, <3>2 DEF Reap, Goto, TypeOK
        <4> QED BY <3>1, <3>2, <4>1 DEF FreeIsBlank, BeingMade, Alive
      <3>3. ASSUME NEW S, ScanFails(p, S) PROVE FreeIsBlank'
        BY <1>0, <3>1, <3>3 DEF ScanFails, Goto, Alive, TypeOK, FreeIsBlank, BeingMade
      <3>4. ASSUME NEW S, NEW c \in {"wait", "join"}, ScanSleeps(p, c, S)
            PROVE  FreeIsBlank'
        BY <1>0, <3>1, <3>4 DEF ScanSleeps, Goto, Alive, TypeOK, FreeIsBlank, BeingMade
      <3> QED BY <2>10, <3>2, <3>3, <3>4 DEF Wait, Join, IsFirst, Zombies
    <2> QED
      BY <1>2, <2>1, <2>2, <2>3, <2>4, <2>5, <2>6, <2>7, <2>8, <2>9, <2>10
      DEF Next, Step, KernelStep
  <1> QED BY <1>1, <1>2

\* A slot that is free has no stack, no thread's mark and no parent left from
\* the process that had it before, in every state.
THEOREM FreeSlotsAreBlank == Spec => [](Consistent /\ FreeIsBlank)
  BY InvInit, InvStep, BlankInit, BlankStep, PTL DEF Spec

-----------------------------------------------------------------------------
(* Programs that join their threads before they exit or exec.               *)

\* Only the maker of a child that is not yet published has a child in a free slot.
LEMMA ChildIsNotIdle ==
  ASSUME Consistent, FreeIsBlank, panicked = "no",
         NEW q \in Procs, NEW p \in Procs, parent[q] = p, pc[p] # "publish"
  PROVE  state[q] \notin Idle
  <1>1. SUFFICES ASSUME state[q] \in Idle PROVE FALSE
    OBVIOUS
  <1>2. PICK m \in Procs : pc[m] = "publish" /\ np[m] = q
    BY <1>1, NoneAssumption DEF FreeIsBlank, BeingMade, Idle
  <1>3. Building(m)
    BY <1>2 DEF FreeIsBlank, Building
  <1> QED BY <1>2, <1>3 DEF Consistent, MakerIsParent

\* A thread keeps its address space: only fork() and clone() give one to a slot,
\* an EMBRYO, and exec() to a process that is no thread.
LEMMA ThreadKeepsPgdir ==
  ASSUME JoinFirst, Consistent, Next, NEW q \in Procs, state[q] \notin Idle, ustack[q]
  PROVE  pgdir'[q] = pgdir[q]
  <1>0. TypeOK /\ panicked = "no"
    BY DEF Consistent, Next
  <1>1. ASSUME NEW p \in Procs, ForkCopy(p) \/ CloneFill(p) PROVE pgdir'[q] = pgdir[q]
    <2>1. state[p] = "RUNNING" /\ pc[p] \in {"fork", "clone"}
      BY <1>1 DEF ForkCopy, CloneFill, Running
    <2>2. state[np[p]] = "EMBRYO"
      BY <1>0, <2>1, MakerOwnsEmbryo
    <2> QED BY <1>0, <1>1, <2>2 DEF ForkCopy, CloneFill, Idle, TypeOK
  <1>2. ASSUME NEW p \in Procs, Exec(p) PROVE pgdir'[q] = pgdir[q]
    BY <1>0, <1>2 DEF Exec, TypeOK
  <1>3. ASSUME NEW p \in Procs, Wait(p) \/ Join(p) PROVE pgdir' = pgdir
    BY <1>3 DEF Wait, Join, Reap, ScanFails, ScanSleeps
  <1>4. CASE IoWakeup
    BY <1>4 DEF IoWakeup
  <1>5. ASSUME NEW p \in Procs, Step(p), ~ForkCopy(p), ~CloneFill(p), ~Exec(p)
        PROVE  pgdir' = pgdir
    BY <1>3, <1>5
    DEF Step, KernelStep, Dispatch, Yield, Enter, OtherCall, Alloc, Take, ForkNoSlot,
        ForkNoMemory, ForkPublish, CloneNoSlot, CloneNoMemory, Kill, IoCall, IoCheck,
        IoSleep, IoReturn, ExitCall, ExitKilled, ExitZombie
  <1> QED BY <1>1, <1>2, <1>4, <1>5 DEF Next

\* A step that puts nobody to sleep in wait() or join() and takes no child from
\* one who sleeps there.
LEMMA SleepersKeepChildren ==
  ASSUME WaiterHasChild,
         \A p \in Procs : state'[p] = "SLEEPING" /\ pc'[p] \in {"wait", "join"} =>
            state[p] = "SLEEPING" /\ pc'[p] = pc[p] /\ pgdir'[p] = pgdir[p],
         \A p, q \in Procs :
            state[p] = "SLEEPING" /\ pc[p] \in {"wait", "join"} /\ parent[q] = p =>
                /\ parent'[q] = p /\ ustack'[q] = ustack[q]
                /\ ustack[q] => pgdir'[q] = pgdir[q]
  PROVE  WaiterHasChild'
  <1>1. SUFFICES ASSUME NEW p \in Procs, state'[p] = "SLEEPING",
                        pc'[p] \in {"wait", "join"}
                 PROVE  /\ pc'[p] = "wait" => Waitable(p)' # {}
                        /\ pc'[p] = "join" => Joinable(p)' # {}
    BY DEF WaiterHasChild
  <1>2. state[p] = "SLEEPING" /\ pc'[p] = pc[p] /\ pgdir'[p] = pgdir[p]
    BY <1>1
  <1>3. Waitable(p) \subseteq Waitable(p)' /\ Joinable(p) \subseteq Joinable(p)'
    BY <1>1, <1>2 DEF Waitable, Joinable, Threads, Children
  <1> QED BY <1>1, <1>2, <1>3 DEF WaiterHasChild

LEMMA WaiterStep ==
  ASSUME JoinFirst, Consistent, FreeIsBlank, WaiterHasChild, [Next]_vars
  PROVE  WaiterHasChild'
  <1>0. TypeOK
    BY DEF Consistent
  <1>1. CASE UNCHANGED vars
    BY <1>1 DEF vars, WaiterHasChild, Waitable, Joinable, Threads, Children
  <1>2. CASE Next
    <2>0. panicked = "no"
      BY <1>2 DEF Next
    <2>1. \A p, q \in Procs :
            state[p] = "SLEEPING" /\ pc[p] \in {"wait", "join"} /\ parent[q] = p =>
                state[q] \notin Idle /\ (ustack[q] => pgdir'[q] = pgdir[q])
      BY <1>2, <2>0, ChildIsNotIdle, ThreadKeepsPgdir
    <2>2. CASE Undisturbed
      BY <2>1, <2>2, SleepersKeepChildren DEF Undisturbed
    <2>3. ASSUME NEW p \in Procs, ForkPublish(p) \/ CloneFill(p) PROVE WaiterHasChild'
      <3>1. state[p] = "RUNNING" /\ pc[p] \in {"publish", "clone"}
        BY <2>3 DEF ForkPublish, CloneFill, Running
      <3>2. np[p] \in Procs /\ state[np[p]] = "EMBRYO" /\ np[p] # p
        BY <2>0, <3>1, MakerOwnsEmbryo
      <3>3. /\ state' = [state EXCEPT ![np[p]] = "RUNNABLE"]
            /\ pc' = [pc EXCEPT ![p] = "user", ![np[p]] = "user"]
            /\ \A r \in Procs \ {np[p]} : /\ ustack'[r] = ustack[r]
                                          /\ parent'[r] = parent[r]
                                          /\ pgdir'[r] = pgdir[r]
        BY <1>0, <2>3 DEF ForkPublish, CloneFill, TypeOK
      <3>4. \A r \in Procs : state'[r] = "SLEEPING" /\ pc'[r] \in {"wait", "join"} =>
                /\ state[r] = "SLEEPING" /\ pc'[r] = pc[r] /\ pgdir'[r] = pgdir[r]
        BY <1>0, <3>2, <3>3 DEF TypeOK
      <3> QED BY <2>1, <3>2, <3>3, <3>4, SleepersKeepChildren DEF Idle
    <2>4. ASSUME NEW p \in Procs, ExitZombie(p) PROVE WaiterHasChild'
      <3>1. /\ state[p] = "RUNNING"
            /\ pc' = pc /\ ustack' = ustack /\ pgdir' = pgdir
            /\ \A q \in Procs : parent'[q] = IF parent[q] = p THEN initproc ELSE parent[q]
            /\ \A q \in Procs : state'[q] = "SLEEPING" => state[q] = "SLEEPING"
        BY <1>0, <2>4 DEF ExitZombie, Running, Woken, Children, TypeOK
      <3> QED BY <3>1, SleepersKeepChildren
    <2>5. ASSUME NEW p \in Procs, Wait(p) \/ Join(p) PROVE WaiterHasChild'
      <3>1. state[p] \in {"RUNNING", "RUNNABLE"}
        BY <2>5 DEF Wait, Join, Scans, Running
      <3>2. ASSUME NEW q \in Procs, state[q] = "ZOMBIE", parent[q] = p, Reap(p, q)
            PROVE  WaiterHasChild'
        <4>1. /\ pgdir' = pgdir
              /\ \A r \in Procs : state'[r] = "SLEEPING" =>
                    state[r] = "SLEEPING" /\ pc'[r] = pc[r]
              /\ \A r \in Procs \ {q} : parent'[r] = parent[r] /\ ustack'[r] = ustack[r]
          BY <1>0, <3>1, <3>2 DEF Reap, Goto, TypeOK
        <4> QED BY <3>1, <3>2, <4>1, SleepersKeepChildren
      <3>3. ASSUME NEW S, ScanFails(p, S) PROVE WaiterHasChild'
        BY <1>0, <3>1, <3>3, SleepersKeepChildren DEF ScanFails, Goto, TypeOK
      <3>4. ASSUME \/ ScanSleeps(p, "wait", Waitable(p))
                   \/ ScanSleeps(p, "join", Joinable(p))
            PROVE  WaiterHasChild'
        <4>1. /\ parent' = parent /\ ustack' = ustack /\ pgdir' = pgdir
              /\ \A r \in Procs \ {p} : state'[r] = state[r] /\ pc'[r] = pc[r]
              /\ \/ pc'[p] = "wait" /\ Waitable(p) # {}
                 \/ pc'[p] = "join" /\ Joinable(p) # {}
          BY <1>0, <3>4 DEF ScanSleeps, Goto, TypeOK
        <4>2. \A r \in Procs : Waitable(r)' = Waitable(r) /\ Joinable(r)' = Joinable(r)
          BY <4>1 DEF Waitable, Joinable, Threads, Children
        <4> QED BY <4>1, <4>2 DEF WaiterHasChild
      <3>5. \A q \in Procs :
               IsFirst(q, Zombies(Waitable(p))) \/ IsFirst(q, Zombies(Joinable(p)))
                   => state[q] = "ZOMBIE" /\ parent[q] = p
        BY DEF IsFirst, Zombies, Waitable, Joinable, Threads, Children
      <3>6. CASE Wait(p)
        BY <3>6, <3>2, <3>3, <3>4, <3>5 DEF Wait
      <3>7. CASE Join(p)
        BY <3>7, <3>2, <3>3, <3>4, <3>5 DEF Join
      <3> QED BY <2>5, <3>6, <3>7
    <2> QED
      BY <1>2, <2>0, <2>2, <2>3, <2>4, <2>5, InitprocIsProc, MostStepsAreUndisturbed
      DEF Next, Step, KernelStep
  <1> QED BY <1>1, <1>2

\* Nobody sleeps in wait() or join() for a child that is gone: only the sleeper
\* itself collects its children, exit() gives children away only to take its own
\* leave, and a thread that join() waits for keeps the address space they share,
\* as long as threads do not exec.
THEOREM WaitersHaveChildren ==
  ASSUME JoinFirst
  PROVE  Spec => []WaiterHasChild
  <1>1. Init => WaiterHasChild
    BY DEF Init, WaiterHasChild
  <1>2. Consistent /\ FreeIsBlank /\ WaiterHasChild /\ [Next]_vars => WaiterHasChild'
    BY WaiterStep
  <1> QED BY <1>1, <1>2, FreeSlotsAreBlank, PTL DEF Spec

\* A process is an owner while it is no free slot and no thread; so is a child
\* that fork() has given a copy.
LEMMA OwnersAre ==
  ASSUME TypeOK
  PROVE  Owners = {q \in Procs : state[q] \notin Idle /\ ~ustack[q]}
                    \cup {np[p] : p \in {r \in Procs : pc[r] = "publish"}}
  BY DEF Owners, Alive, Idle, TypeOK, States

\* A step that leaves the owners and what they own as they are.
LEMMA VmUntouched ==
  ASSUME VmExact, Owners' = Owners, \A q \in Owners : pgdir'[q] = pgdir[q], vm' = vm
  PROVE  VmExact'
  BY DEF VmExact

\* Of the steps that disturb nobody's family, only the copy of a fork() makes an
\* owner.
LEMMA SameOwners ==
  ASSUME TypeOK, TypeOK', Undisturbed,
         \A p \in Procs : /\ pc'[p] = "publish" <=> pc[p] = "publish"
                          /\ pc[p] = "publish" => np'[p] = np[p]
  PROVE  Owners' = Owners
  <1>1. \A q \in Procs : state'[q] \in Idle <=> state[q] \in Idle
    BY DEF Undisturbed, Idle, Lively
  <1>2. \A q \in Procs : state[q] \notin Idle => ustack'[q] = ustack[q]
    BY DEF Undisturbed
  <1>3. /\ Owners  = {q \in Procs : state[q] \notin Idle /\ ~ustack[q]}
                        \cup {np[p] : p \in {r \in Procs : pc[r] = "publish"}}
        /\ Owners' = {q \in Procs : state'[q] \notin Idle /\ ~ustack'[q]}
                        \cup {np'[p] : p \in {r \in Procs : pc'[r] = "publish"}}
    BY DEF Owners, Alive, Idle, TypeOK, States
  <1> QED BY <1>1, <1>2, <1>3

LEMMA VmForkCopy ==
  ASSUME Consistent, FreeIsBlank, VmExact, panicked = "no",
         NEW p \in Procs, ForkCopy(p)
  PROVE  VmExact'
  <1> DEFINE n == np[p]
  <1>0. TypeOK
    BY DEF Consistent
  <1>1. state[p] = "RUNNING" /\ pc[p] = "fork"
    BY DEF ForkCopy, Running
  <1>2. n \in Procs /\ state[n] = "EMBRYO"
    BY <1>1, MakerOwnsEmbryo
  <1>3. ~BeingMade(n)
    BY <1>1, FreshIsOrphan
  <1>4. n \notin Owners
    BY <1>0, <1>2, <1>3 DEF Owners, Alive, BeingMade
  <1>5. PICK d \in PageDirs \ vm : pgdir' = [pgdir EXCEPT ![n] = d] /\ vm' = vm \cup {d}
    BY DEF ForkCopy
  <1>6. /\ state' = state /\ ustack' = ustack /\ np' = np
        /\ pc' = [pc EXCEPT ![p] = "publish"]
    BY DEF ForkCopy, Goto
  <1>7. {r \in Procs : pc'[r] = "publish"} = {r \in Procs : pc[r] = "publish"} \cup {p}
    BY <1>0, <1>6 DEF TypeOK
  <1>8. Owners' = Owners \cup {n}
    BY <1>6, <1>7 DEF Owners, Alive
  <1>9. Owners \subseteq Procs
    BY <1>0 DEF Owners, TypeOK, FreeIsBlank, Consistent, EmbryoOwned, Building
  <1>10. pgdir'[n] = d /\ \A q \in Owners : pgdir'[q] = pgdir[q]
    BY <1>0, <1>2, <1>4, <1>5, <1>9 DEF TypeOK
  <1> QED BY <1>4, <1>5, <1>8, <1>10 DEF VmExact

LEMMA VmExec ==
  ASSUME JoinFirst, Consistent, FreeIsBlank, VmExact, panicked = "no",
         NEW p \in Procs, Exec(p)
  PROVE  VmExact'
  <1>0. TypeOK
    BY DEF Consistent
  <1>1. state[p] = "RUNNING" /\ pc[p] = "sys" /\ ~ustack[p]
    BY DEF Exec, Running
  <1>2. PICK d \in PageDirs \ vm :
          pgdir' = [pgdir EXCEPT ![p] = d] /\ vm' = (vm \cup {d}) \ {pgdir[p]}
    BY DEF Exec
  <1>3. /\ state' = state /\ ustack' = ustack /\ np' = np
        /\ pc' = [pc EXCEPT ![p] = "user"]
    BY DEF Exec, Goto
  <1>4. Owners' = Owners
    <2>1. {r \in Procs : pc'[r] = "publish"} = {r \in Procs : pc[r] = "publish"}
      BY <1>0, <1>1, <1>3 DEF TypeOK
    <2> QED BY <1>3, <2>1 DEF Owners, Alive
  <1>5. p \in Owners
    BY <1>1 DEF Owners, Alive
  <1>6. pgdir'[p] = d /\ \A q \in Owners \ {p} : pgdir'[q] = pgdir[q]
    <2>1. Owners \subseteq Procs
      BY <1>0 DEF Owners, TypeOK, FreeIsBlank, Consistent, EmbryoOwned, Building
    <2> QED BY <1>0, <1>2, <2>1 DEF TypeOK
  <1>7. pgdir[p] \in vm /\ d \notin vm
    BY <1>2, <1>5 DEF VmExact
  <1>8. vm' = {pgdir'[q] : q \in Owners'}
    <2>1. ASSUME NEW e \in vm' PROVE \E q \in Owners : pgdir'[q] = e
      BY <1>2, <1>5, <1>6, <2>1 DEF VmExact
    <2>2. ASSUME NEW q \in Owners PROVE pgdir'[q] \in vm'
      BY <1>2, <1>5, <1>6, <1>7, <2>2 DEF VmExact
    <2> QED BY <1>4, <2>1, <2>2
  <1>9. \A q, r \in Owners : q # r => pgdir'[q] # pgdir'[r]
    BY <1>2, <1>6 DEF VmExact
  <1> QED BY <1>4, <1>8, <1>9 DEF VmExact

\* The last step of fork() makes the owner under construction an owner of its own
\* right; that of clone() makes a thread, which owns nothing.
LEMMA VmPublish ==
  ASSUME Consistent, FreeIsBlank, VmExact, panicked = "no",
         NEW p \in Procs, ForkPublish(p) \/ CloneFill(p)
  PROVE  VmExact'
  <1> DEFINE n == np[p]
  <1>0. TypeOK
    BY DEF Consistent
  <1>1. state[p] = "RUNNING" /\ pc[p] \in {"publish", "clone"}
    BY DEF ForkPublish, CloneFill, Running
  <1>2. /\ n \in Procs /\ state[n] = "EMBRYO" /\ n # p
        /\ \A r \in Procs : Building(r) /\ np[r] = n => r = p
    BY <1>1, MakerOwnsEmbryo
  <1>3. /\ state' = [state EXCEPT ![n] = "RUNNABLE"]
        /\ pc' = [pc EXCEPT ![p] = "user", ![n] = "user"]
        /\ np' = [np EXCEPT ![p] = None]
        /\ vm' = vm
        /\ \A q \in Procs \ {n} : ustack'[q] = ustack[q] /\ pgdir'[q] = pgdir[q]
    BY <1>0, <1>2 DEF ForkPublish, CloneFill, TypeOK
  <1>4. ~ustack[n] /\ pc[n] \notin {"fork", "publish", "clone"}
    BY <1>2 DEF FreeIsBlank, Alive
  <1>5. ASSUME NEW r \in Procs \ {p}, pc[r] = "publish"
        PROVE  np[r] # n
    BY <1>2, <1>5 DEF FreeIsBlank, Building
  <1>6. /\ \A r \in Procs : pc'[r] = "publish" <=> pc[r] = "publish" /\ r # p
        /\ \A r \in Procs \ {p} : np'[r] = np[r]
    BY <1>0, <1>1, <1>3, <1>4 DEF TypeOK
  <1>7. /\ state'[n] = "RUNNABLE"
        /\ \A q \in Procs \ {n} : state'[q] = state[q]
    BY <1>0, <1>2, <1>3 DEF TypeOK
  <1>8. CASE ForkPublish(p)
    <2>1. pc[p] = "publish" /\ ustack' = ustack /\ pgdir' = pgdir
      BY <1>8 DEF ForkPublish, Running
    <2>2. n \in Owners /\ n \in Owners'
      BY <1>2, <1>4, <1>7, <2>1 DEF Owners, Alive
    <2>3. Owners' \ {n} = Owners \ {n}
      BY <1>5, <1>6, <1>7, <2>1 DEF Owners, Alive
    <2>4. Owners' = Owners
      BY <2>2, <2>3
    <2> QED BY <1>3, <2>1, <2>4, VmUntouched
  <1>9. CASE CloneFill(p)
    <2>1. pc[p] = "clone" /\ ustack'[n]
      BY <1>0, <1>2, <1>9 DEF CloneFill, Running, TypeOK
    <2>2. n \notin Owners /\ n \notin Owners'
      BY <1>2, <1>5, <1>6, <2>1 DEF Owners, Alive
    <2>3. Owners' \ {n} = Owners \ {n}
      <3>1. {np'[r] : r \in {r \in Procs : pc'[r] = "publish"}}
              = {np[r] : r \in {r \in Procs : pc[r] = "publish"}}
        BY <1>6, <2>1
      <3>2. \A q \in Procs \ {n} : /\ Alive(q)' <=> Alive(q)
                                   /\ state'[q] = state[q]
                                   /\ ustack'[q] = ustack[q]
        BY <1>3, <1>7 DEF Alive
      <3> QED BY <3>1, <3>2 DEF Owners
    <2>4. Owners' = Owners
      BY <2>2, <2>3
    <2>5. Owners \subseteq Procs
      BY <1>0 DEF Owners, TypeOK, FreeIsBlank, Consistent, EmbryoOwned, Building
    <2> QED BY <1>3, <2>2, <2>4, <2>5, VmUntouched
  <1> QED BY <1>8, <1>9

\* wait() frees the address space of the process it collects, join() and init's
\* wait() free none of the thread they collect.
LEMMA VmReap ==
  ASSUME Consistent, FreeIsBlank, VmExact, panicked = "no",
         NEW p \in Procs, NEW q \in Procs, state[p] \in {"RUNNING", "RUNNABLE"},
         pc[p] # "publish", state[q] = "ZOMBIE", Reap(p, q),
         vm' = IF ustack[q] THEN vm ELSE vm \ {pgdir[q]}
  PROVE  VmExact'
  <1>0. TypeOK
    BY DEF Consistent
  <1>1. /\ state'[q] = "UNUSED" /\ state'[p] = "RUNNING"
        /\ \A r \in Procs \ {p, q} : state'[r] = state[r]
        /\ \A r \in Procs \ {q} : ustack'[r] = ustack[r]
        /\ pgdir' = pgdir /\ np' = np /\ pc' = [pc EXCEPT ![p] = "user"]
    BY <1>0 DEF Reap, Goto, TypeOK
  <1>2. {r \in Procs : pc'[r] = "publish"} = {r \in Procs : pc[r] = "publish"}
    BY <1>0, <1>1 DEF TypeOK
  <1>3. \A r \in Procs : pc[r] = "publish" => np[r] \in Procs /\ state[np[r]] = "EMBRYO"
    BY DEF FreeIsBlank, Consistent, EmbryoOwned, Building
  <1>4. q \notin Owners'
    BY <1>1, <1>2, <1>3 DEF Owners, Alive
  <1>5. Owners' \ {q} = Owners \ {q}
    BY <1>1, <1>2 DEF Owners, Alive
  <1>6. q \in Owners <=> ~ustack[q]
    BY <1>3 DEF Owners, Alive
  <1>7. CASE ustack[q]
    <2>1. Owners' = Owners
      BY <1>4, <1>5, <1>6, <1>7
    <2> QED BY <1>1, <1>7, <2>1, VmUntouched
  <1>8. CASE ~ustack[q]
    <2>1. Owners' = Owners \ {q} /\ q \in Owners
      BY <1>4, <1>5, <1>6, <1>8
    <2> QED BY <1>1, <1>8, <2>1 DEF VmExact
  <1> QED BY <1>7, <1>8

LEMMA VmStep ==
  ASSUME JoinFirst, Consistent, FreeIsBlank, VmExact, [Next]_vars
  PROVE  VmExact'
  <1>0. TypeOK /\ TypeOK'
    BY TypeStep DEF Consistent
  <1>1. CASE UNCHANGED vars
    BY <1>1 DEF vars, VmExact, Owners, Alive
  <1>2. CASE Next
    <2>0. panicked = "no"
      BY <1>2 DEF Next
    <2>1. ASSUME Undisturbed, vm' = vm, pgdir' = pgdir,
                 \A r \in Procs : /\ pc'[r] = "publish" <=> pc[r] = "publish"
                                  /\ pc[r] = "publish" => np'[r] = np[r]
          PROVE  VmExact'
      BY <1>0, <2>1, SameOwners, VmUntouched
    <2>2. ASSUME NEW p \in Procs, ForkCopy(p) \/ Exec(p) PROVE VmExact'
      BY <2>0, <2>2, VmForkCopy, VmExec
    <2>3. ASSUME NEW p \in Procs, ForkPublish(p) \/ CloneFill(p) PROVE VmExact'
      BY <2>0, <2>3, VmPublish
    <2>4. ASSUME NEW p \in Procs,
                 \/ Dispatch(p) \/ Yield(p) \/ Enter(p) \/ OtherCall(p)
                 \/ IoCall(p) \/ IoCheck(p) \/ IoSleep(p) \/ IoReturn(p)
                 \/ ExitCall(p) \/ ExitKilled(p) \/ Kill(p)
          PROVE  VmExact'
      <3>1. Undisturbed
        BY <2>0, <2>4, MostStepsAreUndisturbed
      <3>2. /\ vm' = vm /\ pgdir' = pgdir /\ np' = np
            /\ \/ pc' = pc
               \/ /\ pc[p] # "publish"
                  /\ \E c \in {"user", "sys", "io", "iosleep", "iolate", "exit"} :
                        pc' = [pc EXCEPT ![p] = c]
        BY <2>4
        DEF Dispatch, Yield, Enter, OtherCall, IoCall, IoCheck, IoSleep, IoReturn,
            ExitCall, ExitKilled, Kill, BeginExit, Running, Goto
      <3> QED BY <1>0, <2>1, <3>1, <3>2 DEF TypeOK
    <2>5. CASE IoWakeup
      BY <2>0, <2>1, <2>5, InitprocIsProc, MostStepsAreUndisturbed DEF IoWakeup
    <2>6. ASSUME NEW p \in Procs,
                 \/ Alloc(p, "fork") \/ Alloc(p, "clone")
                 \/ ForkNoSlot(p) \/ ForkNoMemory(p)
                 \/ CloneNoSlot(p) \/ CloneNoMemory(p)
          PROVE  VmExact'
      <3>1. Undisturbed
        BY <2>0, <2>6, MostStepsAreUndisturbed
      <3>2. /\ vm' = vm /\ pgdir' = pgdir
            /\ \A r \in Procs \ {p} : pc'[r] = pc[r] /\ np'[r] = np[r]
            /\ pc[p] # "publish" /\ pc'[p] # "publish"
        BY <1>0, <2>6
        DEF Alloc, Take, ForkNoSlot, ForkNoMemory, ForkReturnsError, CloneNoSlot,
            CloneNoMemory, Running, Goto, TypeOK
      <3> QED BY <2>1, <3>1, <3>2
    <2>7. ASSUME NEW p \in Procs, ExitZombie(p) PROVE VmExact'
      <3>1. /\ pc' = pc /\ ustack' = ustack /\ pgdir' = pgdir /\ vm' = vm /\ np' = np
            /\ state[p] = "RUNNING" /\ state'[p] = "ZOMBIE"
            /\ \A q \in Procs \ {p} :
                  \/ state'[q] = state[q]
                  \/ state[q] = "SLEEPING" /\ state'[q] = "RUNNABLE"
        BY <1>0, <2>7 DEF ExitZombie, Running, Woken, TypeOK
      <3>2. Owners' = Owners
        BY <3>1 DEF Owners, Alive
      <3> QED BY <3>1, <3>2, VmUntouched
    <2>8. ASSUME NEW p \in Procs, Wait(p) \/ Join(p) PROVE VmExact'
      <3>1. state[p] \in {"RUNNING", "RUNNABLE"} /\ pc[p] \in {"sys", "wait", "join"}
        BY <2>8 DEF Wait, Join, Scans, Running
      <3>2. ASSUME NEW q \in Procs, state[q] = "ZOMBIE", Reap(p, q),
                   vm' = IF ustack[q] THEN vm ELSE vm \ {pgdir[q]}
            PROVE  VmExact'
        BY <2>0, <3>1, <3>2, VmReap
      <3>3. ASSUME NEW S, NEW c, ScanFails(p, S) \/ ScanSleeps(p, c, S),
                   c \in {"wait", "join"}
            PROVE  VmExact'
        <4>1. /\ \A q \in Procs \ {p} : state'[q] = state[q] /\ pc'[q] = pc[q]
              /\ state'[p] \in {"RUNNING", "SLEEPING"}
              /\ pc'[p] \in {"user", "wait", "join"}
              /\ ustack' = ustack /\ pgdir' = pgdir /\ np' = np /\ vm' = vm
          BY <1>0, <3>3 DEF ScanFails, ScanSleeps, Goto, TypeOK
        <4>2. {r \in Procs : pc'[r] = "publish"} = {r \in Procs : pc[r] = "publish"}
          BY <3>1, <4>1
        <4>3. Owners' = Owners
          BY <3>1, <4>1, <4>2 DEF Owners, Alive
        <4> QED BY <4>1, <4>3, VmUntouched
      <3>4. CASE Wait(p)
        BY <3>4, <3>2, <3>3 DEF Wait, IsFirst, Zombies
      <3>5. CASE Join(p)
        BY <3>5, <3>2, <3>3 DEF Join, IsFirst, Zombies, Joinable, Threads
      <3> QED BY <2>8, <3>4, <3>5
    <2> QED
      BY <1>2, <2>2, <2>3, <2>4, <2>5, <2>6, <2>7, <2>8 DEF Next, Step, KernelStep
  <1> QED BY <1>1, <1>2

\* Address spaces are neither shared, nor leaked, nor freed twice, for any number
\* of processes and page directories, whichever allocations fail, as long as no
\* thread calls exec(), which would free the address space of its process.
THEOREM AddressSpacesAreExact ==
  ASSUME JoinFirst
  PROVE  Spec => []VmExact
  <1>1. Init => VmExact
    <2>1. SUFFICES ASSUME Init PROVE VmExact
      OBVIOUS
    <2>2. Owners = {initproc}
      BY <2>1, InitprocIsProc DEF Init, Owners, Alive
    <2> QED BY <2>1, <2>2, InitprocIsProc DEF Init, VmExact
  <1>2. Consistent /\ FreeIsBlank /\ VmExact /\ [Next]_vars => VmExact'
    BY VmStep
  <1> QED BY <1>1, <1>2, FreeSlotsAreBlank, PTL DEF Spec

-----------------------------------------------------------------------------
(* Threads.  Only fork() and clone() give a slot a page directory, and exec(),   *)
(* which a process with threads does not call; exit() moves threads below init. *)

\* A step that makes no thread, takes none from its parent except for init, and
\* leaves the page directories of threads and their parents alone.
LEMMA KinKept ==
  ASSUME ThreadKin,
         \A q \in Procs : ustack'[q] => /\ ustack[q] /\ pgdir'[q] = pgdir[q]
                                        /\ parent'[q] \in {parent[q], initproc},
         \A q \in Procs : ustack[q] => pgdir'[parent[q]] = pgdir[parent[q]]
  PROVE  ThreadKin'
  BY InitprocIsProc DEF ThreadKin, initproc

\* A thread is in use, and its parent is alive.
LEMMA KinOfThread ==
  ASSUME Consistent, FreeIsBlank, ThreadKin, NEW q \in Procs, ustack[q]
  PROVE  /\ state[q] \notin Idle /\ q # initproc
         /\ parent[q] \in Procs /\ Alive(parent[q])
  <1>1. state[q] \notin {"UNUSED", "EMBRYO"} /\ q # initproc
    BY DEF FreeIsBlank, ThreadKin
  <1>2. Alive(q) \/ state[q] = "ZOMBIE"
    BY <1>1 DEF Consistent, TypeOK, States, Alive
  <1> QED BY <1>1, <1>2 DEF Consistent, ParentCanWait, Idle

LEMMA KinClone ==
  ASSUME Consistent, FreeIsBlank, ThreadKin, panicked = "no",
         NEW p \in Procs, CloneFill(p)
  PROVE  ThreadKin'
  <1> DEFINE n == np[p]
  <1>0. TypeOK /\ Alive(initproc)
    BY DEF Consistent, InitIsRoot
  <1>1. state[p] = "RUNNING" /\ pc[p] = "clone"
    BY DEF CloneFill, Running
  <1>2. n \in Procs /\ state[n] = "EMBRYO" /\ n # p /\ n # initproc
    BY <1>0, <1>1, MakerOwnsEmbryo DEF Alive
  <1>3. /\ parent'[n] = p /\ pgdir'[n] = pgdir[p]
        /\ \A q \in Procs \ {n} : /\ ustack'[q] = ustack[q] /\ parent'[q] = parent[q]
                                  /\ pgdir'[q] = pgdir[q]
    BY <1>0, <1>2 DEF CloneFill, TypeOK
  <1>4. \A q \in Procs : ustack[q] => parent[q] # n /\ parent[q] \in Procs
    BY <1>2, KinOfThread DEF Alive
  <1>5. ASSUME NEW q \in Procs, ustack'[q]
        PROVE  parent'[q] = initproc \/ pgdir'[q] = pgdir'[parent'[q]]
    <2>1. CASE q = n
      BY <1>2, <1>3, <2>1
    <2>2. CASE q # n
      BY <1>3, <1>4, <1>5, <2>2 DEF ThreadKin
    <2> QED BY <2>1, <2>2
  <1>6. ~ustack'[initproc]
    BY <1>2, <1>3, InitprocIsProc DEF ThreadKin
  <1> QED BY <1>5, <1>6 DEF ThreadKin, initproc

LEMMA KinStep ==
  ASSUME JoinFirst, Consistent, FreeIsBlank, ThreadKin, [Next]_vars
  PROVE  ThreadKin'
  <1>0. TypeOK
    BY DEF Consistent
  <1>1. CASE UNCHANGED vars
    BY <1>1, KinKept DEF vars
  <1>2. CASE Next
    <2>0. panicked = "no"
      BY <1>2 DEF Next
    <2>1. \A q \in Procs : ustack[q] =>
            /\ state[parent[q]] \in {"SLEEPING", "RUNNABLE", "RUNNING"}
            /\ state[q] \notin Idle /\ parent[q] \in Procs
      BY KinOfThread DEF Alive
    <2>2. ASSUME NEW p \in Procs,
                 \/ Dispatch(p) \/ Yield(p) \/ Enter(p) \/ OtherCall(p)
                 \/ Alloc(p, "fork") \/ Alloc(p, "clone") \/ ForkNoSlot(p)
                 \/ ForkNoMemory(p) \/ ForkPublish(p) \/ CloneNoSlot(p)
                 \/ CloneNoMemory(p) \/ Kill(p) \/ IoCall(p) \/ IoCheck(p)
                 \/ IoSleep(p) \/ IoReturn(p) \/ ExitCall(p) \/ ExitKilled(p)
          PROVE  ThreadKin'
      <3>1. UNCHANGED <<ustack, parent, pgdir>>
        BY <2>2
        DEF Dispatch, Yield, Enter, OtherCall, Alloc, Take, ForkNoSlot, ForkNoMemory,
            ForkPublish, CloneNoSlot, CloneNoMemory, Kill, IoCall, IoCheck, IoSleep,
            IoReturn, ExitCall, ExitKilled
      <3> QED BY <3>1, KinKept
    <2>3. CASE IoWakeup
      BY <2>3, KinKept DEF IoWakeup
    <2>4. ASSUME NEW p \in Procs, ForkCopy(p) PROVE ThreadKin'
      <3>1. np[p] \in Procs /\ state[np[p]] = "EMBRYO"
        BY <2>0, <2>4, MakerOwnsEmbryo DEF ForkCopy, Running
      <3>2. \A q \in Procs : ustack[q] => q # np[p] /\ parent[q] # np[p]
        BY <2>1, <3>1 DEF Idle
      <3>3. /\ ustack' = ustack
            /\ \A q \in Procs \ {np[p]} : parent'[q] = parent[q] /\ pgdir'[q] = pgdir[q]
        BY <1>0, <2>4 DEF ForkCopy, TypeOK
      <3> QED BY <2>1, <3>2, <3>3, KinKept
    <2>5. ASSUME NEW p \in Procs, CloneFill(p) PROVE ThreadKin'
      BY <2>0, <2>5, KinClone
    <2>6. ASSUME NEW p \in Procs, Exec(p) PROVE ThreadKin'
      <3>1. /\ Threads(p) = {} /\ ~ustack[p]
            /\ ustack' = ustack /\ parent' = parent
            /\ \A q \in Procs \ {p} : pgdir'[q] = pgdir[q]
        BY <1>0, <2>6 DEF Exec, TypeOK
      <3>2. \A q \in Procs : ustack[q] => q # p /\ parent[q] # p
        BY <3>1 DEF Threads, Children
      <3> QED BY <2>1, <3>1, <3>2, KinKept
    <2>7. ASSUME NEW p \in Procs, ExitZombie(p) PROVE ThreadKin'
      <3>1. /\ ustack' = ustack /\ pgdir' = pgdir
            /\ \A q \in Procs : parent'[q] \in {parent[q], initproc}
        BY <2>7 DEF ExitZombie
      <3> QED BY <3>1, KinKept
    <2>8. ASSUME NEW p \in Procs, Wait(p) \/ Join(p) PROVE ThreadKin'
      <3>1. ASSUME NEW q \in Procs, Reap(p, q) PROVE ThreadKin'
        <4>1. /\ ~ustack'[q] /\ pgdir' = pgdir
              /\ \A r \in Procs \ {q} : parent'[r] = parent[r] /\ ustack'[r] = ustack[r]
          BY <1>0, <3>1 DEF Reap, TypeOK
        <4> QED BY <4>1, KinKept
      <3>2. ASSUME NEW S, NEW c \in {"wait", "join"},
                   ScanFails(p, S) \/ ScanSleeps(p, c, S)
            PROVE  ThreadKin'
        <4>1. UNCHANGED <<ustack, parent, pgdir>>
          BY <3>2 DEF ScanFails, ScanSleeps
        <4> QED BY <4>1, KinKept
      <3> QED BY <2>8, <3>1, <3>2 DEF Wait, Join
    <2> QED
      BY <1>2, <2>2, <2>3, <2>4, <2>5, <2>6, <2>7, <2>8 DEF Next, Step, KernelStep
  <1> QED BY <1>1, <1>2

\* The threads with the page directory of q, when q is not forsaken, have one among
\* them whose parent is neither one of them nor init: a process that is alive and
\* owns that page directory.
LEMMA KinOwnPgdir ==
  ASSUME Consistent, FreeIsBlank, VmExact, ThreadKin,
         NEW q \in Procs, Alive(q), q \notin Forsaken
  PROVE  pgdir[q] \in vm /\ \E o \in Owners : Alive(o) /\ pgdir[o] = pgdir[q]
  <1>1. CASE ~ustack[q]
    BY <1>1 DEF VmExact, Owners
  <1>2. CASE ustack[q]
    <2> DEFINE S == {t \in Procs : ustack[t] /\ pgdir[t] = pgdir[q]}
    <2>1. PICK t \in S : parent[t] \notin S \cup {initproc}
      <3>1. q \in S /\ S \in SUBSET {t \in Procs : ustack[t]}
        BY <1>2
      <3> HIDE DEF S
      <3>2. ~(\A t \in S : parent[t] \in S \cup {initproc})
        BY <3>1 DEF Forsaken
      <3> QED BY <3>2
    <2>2. /\ parent[t] \in Procs /\ Alive(parent[t])
          /\ pgdir[parent[t]] = pgdir[q]
      BY <2>1, KinOfThread DEF ThreadKin
    <2>3. ~ustack[parent[t]]
      BY <2>1, <2>2
    <2> QED BY <2>2, <2>3 DEF VmExact, Owners
  <1> QED BY <1>1, <1>2

\* However deep the threads of threads go, whoever is killed and whoever exits first:
\* a thread that init did not get, by itself or with the thread it hangs below, runs
\* in the address space of a process that is alive, provided that no process calls
\* exec() while it has threads or is one.
THEOREM ThreadsAreSafe ==
  ASSUME JoinFirst
  PROVE  Spec => []ThreadVmLive
  <1>1. Init => ThreadKin
    BY InitprocIsProc DEF Init, ThreadKin
  <1>2. Consistent /\ FreeIsBlank /\ ThreadKin /\ [Next]_vars => ThreadKin'
    BY KinStep
  <1>3. Consistent /\ FreeIsBlank /\ VmExact /\ ThreadKin => ThreadVmLive
    BY KinOwnPgdir DEF ThreadVmLive
  <1> QED BY <1>1, <1>2, <1>3, AddressSpacesAreExact, FreeSlotsAreBlank, PTL DEF Spec

-----------------------------------------------------------------------------
(* The table implements the tree. *)

\* The mapping of ImplementsTree, and its steps with the mapping written out.
life == [q \in Procs |-> Life(q)]
above == [q \in Procs |-> IF Life(q) = "free" THEN None ELSE parent[q]]

\* What Life says of a slot.
LEMMA LifeOfState ==
  ASSUME TypeOK, NEW q \in Procs
  PROVE  /\ Life(q) = "free" <=> state[q] \in Idle
         /\ Life(q) = "dead" <=> state[q] = "ZOMBIE"
         /\ Life(q) = "alive" <=> Alive(q)
         /\ Life(q) \in {"free", "alive", "dead"}
  BY DEF Life, Alive, Idle, TypeOK, States

\* A step after which every slot lives as before below the same parent is a
\* stutter of the tree.
LEMMA TreeStutter ==
  ASSUME Consistent, Undisturbed, TypeOK'
  PROVE  life' = life /\ above' = above
  <1>1. ASSUME NEW q \in Procs PROVE Life(q)' = Life(q)
    <2>1. state[q] \in States /\ state'[q] \in States
      BY DEF Consistent, TypeOK
    <2> QED BY <2>1 DEF Undisturbed, Life, Idle, Lively, States
  <1>2. ASSUME NEW q \in Procs, Life(q) # "free" PROVE parent'[q] = parent[q]
    BY <1>2, LifeOfState DEF Undisturbed, Consistent
  <1> QED BY <1>1, <1>2 DEF life, above

\* The steps of the tree.
LEMMA TreeSpawn ==
  ASSUME Consistent, panicked = "no", NEW p \in Procs,
         ForkPublish(p) \/ CloneFill(p)
  PROVE  \E n \in Procs : Tree!Spawn(p, n)
  <1>0. TypeOK
    BY DEF Consistent
  <1>1. state[p] = "RUNNING" /\ pc[p] \in {"publish", "clone"}
    BY DEF ForkPublish, CloneFill, Running
  <1>2. PICK n \in Procs : n = np[p] /\ state[n] = "EMBRYO" /\ n # p
    BY <1>1, MakerOwnsEmbryo
  <1>3. /\ parent'[n] = p
        /\ state' = [state EXCEPT ![n] = "RUNNABLE"]
        /\ \A q \in Procs \ {n} : parent'[q] = parent[q]
    <2>1. CASE ForkPublish(p)
      <3>1. parent[n] = p
        BY <1>1, <1>2, <2>1 DEF ForkPublish, Running, Building, Alive, Consistent, MakerIsParent
      <3> QED BY <1>2, <2>1, <3>1 DEF ForkPublish
    <2>2. CASE CloneFill(p)
      BY <1>0, <1>2, <2>2 DEF CloneFill, TypeOK
    <2> QED BY <2>1, <2>2
  <1>4. state'[n] = "RUNNABLE" /\ \A q \in Procs \ {n} : state'[q] = state[q]
    BY <1>0, <1>2, <1>3 DEF TypeOK
  <1>5. Life(n) = "free" /\ Life(n)' = "alive" /\ Life(p) = "alive"
    BY <1>1, <1>2, <1>4 DEF Life
  <1>6. \A q \in Procs \ {n} : Life(q)' = Life(q)
    BY <1>4 DEF Life
  <1>7. life' = [life EXCEPT ![n] = "alive"] /\ above' = [above EXCEPT ![n] = p]
    BY <1>2, <1>3, <1>5, <1>6 DEF life, above
  <1> QED BY <1>2, <1>5, <1>7 DEF Tree!Spawn, life, above

LEMMA TreeExit ==
  ASSUME Consistent, NEW p \in Procs, ExitZombie(p)
  PROVE  Tree!Exit(p)
  <1> DEFINE woken == {parent[p]} \cup
                 (IF \E q \in Children(p) : state[q] = "ZOMBIE" THEN {initproc}
                                                                ELSE {})
  <1>0. TypeOK /\ InitIsRoot /\ None \notin Procs
    BY NoneAssumption DEF Consistent
  <1>1. state[p] = "RUNNING" /\ p # initproc
    BY <1>0 DEF ExitZombie, Running, InitIsRoot
  <1>2. /\ \A q \in Procs :
              parent'[q] = IF parent[q] = p THEN initproc ELSE parent[q]
        /\ state' = [Woken(state, woken) EXCEPT ![p] = "ZOMBIE"]
    BY DEF ExitZombie, Children
  <1>3. /\ state'[p] = "ZOMBIE"
        /\ \A q \in Procs \ {p} :
              \/ state'[q] = state[q]
              \/ state[q] = "SLEEPING" /\ state'[q] = "RUNNABLE"
    BY <1>2 DEF Woken
  <1>4. Life(p) = "alive" /\ Life(p)' = "dead"
    BY <1>1, <1>3 DEF Life
  <1>5. \A q \in Procs \ {p} : Life(q)' = Life(q)
    BY <1>3 DEF Life
  <1>6. life' = [life EXCEPT ![p] = "dead"]
    BY <1>4, <1>5 DEF life
  <1>7. above' = [q \in Procs |-> IF above[q] = p THEN initproc ELSE above[q]]
    BY <1>0, <1>2, <1>4, <1>5 DEF above
  <1> QED BY <1>1, <1>4, <1>6, <1>7 DEF Tree!Exit, life, above

LEMMA TreeCollect ==
  ASSUME Consistent, NEW p \in Procs, NEW q \in Procs,
         state[p] \in {"RUNNING", "RUNNABLE"}, state[q] = "ZOMBIE",
         parent[q] = p, Reap(p, q)
  PROVE  Tree!Collect(p, q)
  <1>1. /\ state'[p] = "RUNNING" /\ state'[q] = "UNUSED"
        /\ \A r \in Procs \ {p, q} : state'[r] = state[r]
        /\ \A r \in Procs \ {q} : parent'[r] = parent[r]
    BY DEF Reap, Consistent, TypeOK
  <1>2. /\ Life(p) = "alive" /\ Life(q) = "dead" /\ Life(q)' = "free"
        /\ \A r \in Procs \ {q} : Life(r)' = Life(r)
    BY <1>1 DEF Life
  <1>3. life' = [life EXCEPT ![q] = "free"] /\ above' = [above EXCEPT ![q] = None]
    BY <1>1, <1>2 DEF life, above
  <1> QED BY <1>2, <1>3 DEF Tree!Collect, life, above

\* A process goes to sleep in a wait or comes back from it: a stutter.
LEMMA TreeScan ==
  ASSUME Consistent, NEW p \in Procs, state[p] \in {"RUNNING", "RUNNABLE"},
         state' \in {[state EXCEPT ![p] = "SLEEPING"], [state EXCEPT ![p] = "RUNNING"]},
         parent' = parent
  PROVE  life' = life /\ above' = above
  <1>1. ASSUME NEW q \in Procs PROVE Life(q)' = Life(q)
    BY DEF Consistent, TypeOK, Life
  <1> QED BY <1>1 DEF life, above

LEMMA TreeStep ==
  ASSUME Consistent, TypeOK', [Next]_vars
  PROVE  [Tree!TreeNext]_<<life, above>>
  <1> DEFINE Stutter == life' = life /\ above' = above
             Goal == Stutter \/ Tree!TreeNext
  <1>1. CASE UNCHANGED vars
    <2>1. \A q \in Procs : Life(q)' = Life(q)
      BY <1>1 DEF vars, Life
    <2> QED BY <1>1, <2>1 DEF vars, life, above
  <1>2. CASE Next
    <2>0. panicked = "no"
      BY <1>2 DEF Next
    <2>1. CASE Undisturbed
      BY <2>1, TreeStutter
    <2>2. ASSUME NEW p \in Procs, ForkPublish(p) \/ CloneFill(p) PROVE Goal
      BY <2>0, <2>2, TreeSpawn DEF Tree!TreeNext
    <2>3. ASSUME NEW p \in Procs, ExitZombie(p) PROVE Goal
      BY <2>3, TreeExit DEF Tree!TreeNext
    <2>4. ASSUME NEW p \in Procs, Wait(p) \/ Join(p) PROVE Goal
      <3>1. state[p] \in {"RUNNING", "RUNNABLE"}
        BY <2>4 DEF Wait, Join, Scans, Running
      <3>2. ASSUME NEW q \in Procs, state[q] = "ZOMBIE", parent[q] = p, Reap(p, q)
            PROVE  Goal
        BY <3>1, <3>2, TreeCollect DEF Tree!TreeNext
      <3>3. ASSUME NEW S, ScanFails(p, S) PROVE Goal
        BY <3>1, <3>3, TreeScan DEF ScanFails
      <3>4. ASSUME NEW S, NEW c, ScanSleeps(p, c, S) PROVE Goal
        BY <3>1, <3>4, TreeScan DEF ScanSleeps
      <3>5. CASE Wait(p)
        BY <3>5, <3>2, <3>3, <3>4 DEF Wait, IsFirst, Zombies, Waitable, Children
      <3>6. CASE Join(p)
        BY <3>6, <3>2, <3>3, <3>4
        DEF Join, IsFirst, Zombies, Joinable, Threads, Children
      <3> QED BY <2>4, <3>5, <3>6
    <2> QED
      BY <1>2, <2>0, <2>1, <2>2, <2>3, <2>4, InitprocIsProc, MostStepsAreUndisturbed
      DEF Next, Step, KernelStep
  <1> QED BY <1>1, <1>2

LEMMA TreeInitially == Init => Tree!TreeInit
  <1> SUFFICES ASSUME Init PROVE Tree!TreeInit
    OBVIOUS
  <1>1. \A q \in Procs : Life(q) = IF q = initproc THEN "alive" ELSE "free"
    BY DEF Init, Life
  <1>2. \A q \in Procs : parent[q] = None
    BY DEF Init
  <1> QED BY <1>1, <1>2 DEF Tree!TreeInit

\* Whatever the programs, the scheduling and the failures of allocations: what
\* the kernel does to the table is, step by step, what happens in the tree.
THEOREM Refinement == Spec => ImplementsTree
  <1>1. TypeOK' /\ Consistent /\ [Next]_vars => [Tree!TreeNext]_<<life, above>>
    BY TreeStep
  <1>2. Consistent => TypeOK
    BY DEF Consistent
  <1>3. [Tree!TreeNext]_<<life, above>> => [Tree!TreeNext]_(Tree!TreeVars)
    BY DEF life, above, Tree!TreeVars
  <1> QED
    BY <1>1, <1>2, <1>3, TreeInitially, Consistency, PTL
    DEF Spec, ImplementsTree, Tree!TreeSpec

=============================================================================
