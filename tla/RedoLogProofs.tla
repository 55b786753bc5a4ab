--------------------------- MODULE RedoLogProofs ---------------------------
(***************************************************************************)
(* Proofs about RedoLog, for every number of calls, blocks and contents    *)
(* and every size of the log that its assumptions allow.                   *)
(***************************************************************************)
EXTENDS RedoLog, FiniteSetTheorems, TLAPS

\* The calls that are inside the transaction, and who commits it.
Open == {o \in Ops : pc[o] \in {"in", "modified", "checked"}}
Committers == {o \in Ops : pc[o] = "commit"}

\* What the calls inside may still log: a pair for each block.
Reserved == {x \in Open \X (1 .. OPBLOCKS) : x[2] > Cardinality(wrote[x[1]])}

\* The longest the log can get.
Longest == IF OPBLOCKS > LOGSIZE - 2 * (MAXOPBLOCKS - OPBLOCKS) THEN OPBLOCKS
           ELSE LOGSIZE - 2 * (MAXOPBLOCKS - OPBLOCKS)

Distinct(s) == \A i, j \in 1 .. Len(s) : s[i] = s[j] => i = j

\* A call has the buffer of one block while it changes it, the blocks it wrote are in
\* the log, and they are as many as it may write.
CallsInv ==
    /\ outstanding = Cardinality(Open)
    /\ \A o \in Ops : pc[o] \in {"modified", "checked"} <=> buf[o] # None
    /\ \A o, r \in Ops : buf[o] # None /\ buf[o] = buf[r] => o = r
    /\ \A o \in Ops : buf[o] # None => cache[buf[o]] # None
    /\ \A o \in Open :
        /\ wrote[o] \subseteq Rng(lh) /\ IsFiniteSet(wrote[o])
        /\ Cardinality(wrote[o]) <= OPBLOCKS
        /\ buf[o] # None => Cardinality(wrote[o] \cup {buf[o]}) <= OPBLOCKS

\* Where the log is, and what is known of it there.
PhaseInv ==
    /\ committing => Open = {} /\ phase # "boot" /\ \E o \in Ops : Committers = {o}
    /\ ~committing => Committers = {}
    /\ phase \in {"log", "head"} => committing
    /\ Recovering => pinned = {} /\ \A o \in Ops : pc[o] = "out"
    /\ phase = "none" /\ Open = {} => lh = <<>>
    /\ dhead # <<>> => phase \in {"boot", "install", "clear"}
    /\ phase \in {"install", "clear"} => dhead = lh
    /\ phase \in {"log", "install"} => tail <= Len(lh)
    /\ phase = "clear" => tail = Len(lh)

\* The log holds what was written and what was reserved.
RoomInv ==
    /\ Distinct(lh) /\ Distinct(dhead)
    /\ Len(lh) + Cardinality(Reserved) <= Longest
    /\ Len(dhead) <= Longest

\* The only copy of a block is pinned or is held.
PinInv ==
    /\ pinned \subseteq Rng(lh)
    /\ phase = "install" => \A i \in 1 .. tail : lh[i] \notin pinned
    /\ phase = "clear" => pinned = {}
    /\ LoggedIsPinned
    /\ \A b \in Blocks : b \notin pinned /\ (\A o \in Ops : buf[o] # b)
                            => cache[b] \in {None, home[b]}

\* What commit() has copied.
CopyInv ==
    /\ phase = "log" => \A i \in 1 .. tail : dlog[i] = Cached(lh[i])
    /\ phase = "head" => \A i \in 1 .. Len(lh) : dlog[i] = Cached(lh[i])
    /\ phase \in {"install", "clear"} => \A i \in 1 .. tail : home[lh[i]] = dlog[i]
    /\ phase \in {"install", "clear"} /\ committing
        => \A i \in 1 .. Len(lh) : dlog[i] = Cached(lh[i])

Inv == TypeOK /\ ~panicked /\ CallsInv /\ PhaseInv /\ RoomInv /\ PinInv /\ CopyInv

-----------------------------------------------------------------------------
LEMMA FiniteCalls ==
  /\ IsFiniteSet(Open) /\ Cardinality(Open) \in Nat
  /\ Cardinality(Open) <= Cardinality(Ops) /\ Cardinality(Ops) \in Nat
  <1>1. Open \in SUBSET Ops
    BY DEF Open
  <1> QED BY <1>1, OpsAssumption, FS_Subset, FS_CardinalityType

\* A process enters or leaves the transaction.
LEMMA EnterLeave ==
  ASSUME NEW o \in Ops
  PROVE  /\ o \notin Open => Cardinality(Open \cup {o}) = Cardinality(Open) + 1
         /\ o \in Open => Cardinality(Open \ {o}) = Cardinality(Open) - 1
  BY FiniteCalls, FS_AddElement, FS_RemoveElement

LEMMA CountStep ==
  ASSUME Inv, [Next]_vars
  PROVE  outstanding' = Cardinality(Open)'
  <1> USE DEF Inv, TypeOK, OpPCs
  <1>1. ASSUME Open' = Open, outstanding' = outstanding PROVE outstanding' = Cardinality(Open)'
    BY <1>1 DEF CallsInv
  <1>2. ASSUME NEW o \in Ops, BeginOp(o) PROVE outstanding' = Cardinality(Open)'
    <2>1. CASE pc'[o] = "in"
      <3>1. Open' = Open \cup {o} /\ o \notin Open /\ outstanding' = outstanding + 1
        BY <1>2, <2>1 DEF BeginOp, BeginOpUnless, Open
      <3> QED BY <3>1, EnterLeave DEF CallsInv
    <2>2. CASE pc'[o] # "in"
      <3>1. Open' = Open /\ outstanding' = outstanding
        BY <1>2, <2>2 DEF BeginOp, BeginOpUnless, Open
      <3> QED BY <3>1, <1>1
    <2> QED BY <2>1, <2>2
  <1>3. ASSUME NEW o \in Ops, EndOp(o) PROVE outstanding' = Cardinality(Open)'
    <2>1. Open' = Open \ {o} /\ o \in Open /\ outstanding' = outstanding - 1
      BY <1>3 DEF EndOp, Open, Wake
    <2> QED BY <2>1, EnterLeave DEF CallsInv
  <1>4. ASSUME NEW o \in Ops,
               (\E b \in Blocks : Modify(o, b)) \/ LogCheck(o) \/ LogAppend(o) \/ FinishCommit(o)
        PROVE  Open' = Open /\ outstanding' = outstanding
    BY <1>4 DEF Modify, LogCheck, LogAppend, FinishCommit, Open, Wake, memory
  <1>5. ASSUME Commit \/ (\E b \in Blocks : Load(b) \/ Evict(b)) \/ UNCHANGED vars
        PROVE  Open' = Open /\ outstanding' = outstanding
    BY <1>5 DEF Commit, WriteLog, WriteHead, Install, ClearLog, ReadHead, Load, Evict,
                Open, memory, vars
  <1>6. CASE Crash
    <2>1. Open' = {} /\ outstanding' = 0
      BY <1>6 DEF Crash, Open
    <2> QED BY <2>1, FS_EmptySet
  <1> QED
    BY <1>1, <1>2, <1>3, <1>4, <1>5, <1>6 DEF Next, Op

LEMMA LongestIsShort ==
  /\ Longest \in Nat /\ Longest < LOGSIZE /\ Longest < NLOG - 1
  /\ OPBLOCKS <= Longest /\ LOGSIZE - 2 * (MAXOPBLOCKS - OPBLOCKS) <= Longest
  BY LogAssumption, ReservationAssumption DEF Longest

LEMMA PairsFinite ==
  ASSUME NEW S \in SUBSET Ops, NEW w
  PROVE  LET R == {x \in S \X (1 .. OPBLOCKS) : x[2] > Cardinality(w[x[1]])}
         IN  /\ IsFiniteSet(R) /\ Cardinality(R) \in Nat
             /\ Cardinality(R) <= Cardinality(S) * OPBLOCKS
  <1> DEFINE R == {x \in S \X (1 .. OPBLOCKS) : x[2] > Cardinality(w[x[1]])}
  <1>0. IsFiniteSet(S)
    BY OpsAssumption, FS_Subset
  <1>1. IsFiniteSet(1 .. OPBLOCKS) /\ Cardinality(1 .. OPBLOCKS) = OPBLOCKS
    BY LogAssumption, FS_Interval
  <1>2. /\ IsFiniteSet(S \X (1 .. OPBLOCKS))
        /\ Cardinality(S \X (1 .. OPBLOCKS)) = Cardinality(S) * OPBLOCKS
    BY <1>0, <1>1, FS_Product
  <1>3. R \in SUBSET (S \X (1 .. OPBLOCKS))
    OBVIOUS
  <1> QED BY <1>2, <1>3, FS_Subset, FS_CardinalityType

LEMMA ReservedFinite ==
  /\ IsFiniteSet(Reserved) /\ Cardinality(Reserved) \in Nat
  /\ Cardinality(Reserved) <= Cardinality(Open) * OPBLOCKS
  <1>1. Open \in SUBSET Ops
    BY DEF Open
  <1> QED BY <1>1, PairsFinite DEF Reserved

LEMMA LogFits ==
  ASSUME Inv
  PROVE  Len(lh) \in Nat /\ Len(lh) <= Longest /\ Len(lh) < LOGSIZE /\ Len(lh) < NLOG - 1
  <1>1. Len(lh) \in Nat
    BY DEF Inv, TypeOK
  <1>2. Len(lh) + Cardinality(Reserved) <= Longest
    BY DEF Inv, RoomInv
  <1>3. LOGSIZE \in Nat /\ NLOG \in Nat
    BY LogAssumption
  <1> QED BY <1>1, <1>2, <1>3, LongestIsShort, ReservedFinite

LEMMA EmptyIsSeq == \A S : <<>> \in Seq(S) /\ Len(<<>>) = 0
  OBVIOUS

LEMMA TypeStep ==
  ASSUME Inv, [Next]_vars
  PROVE  TypeOK'
  <1> USE DEF TypeOK, OpPCs, Phases
  <1>0. TypeOK /\ Len(lh) < LOGSIZE /\ Len(lh) \in Nat /\ LOGSIZE \in Nat
    BY LogFits, LogAssumption DEF Inv
  <1>a. \A i \in 1 .. Len(lh) : lh[i] \in Blocks /\ Cached(lh[i]) \in Vals
    BY <1>0 DEF Cached
  <1>1. outstanding' \in 0 .. Cardinality(Ops)
    <2>1. Open' \in SUBSET Ops
      BY DEF Open
    <2>2. /\ Cardinality(Open') \in Nat /\ Cardinality(Ops) \in Nat
          /\ Cardinality(Open') <= Cardinality(Ops)
      BY <2>1, OpsAssumption, FS_Subset, FS_CardinalityType
    <2>3. outstanding' = Cardinality(Open')
      BY CountStep
    <2> QED BY <2>2, <2>3
  <1>2. ASSUME NEW o \in Ops, BeginOp(o) PROVE TypeOK'
    BY <1>0, <1>1, <1>2 DEF BeginOp, BeginOpUnless, disk
  <1>3. ASSUME NEW o \in Ops, NEW b \in Blocks, Modify(o, b) PROVE TypeOK'
    BY <1>0, <1>1, <1>3 DEF Modify, disk
  <1>4. ASSUME NEW o \in Ops, LogCheck(o) PROVE TypeOK'
    BY <1>0, <1>1, <1>4 DEF LogCheck, disk, memory
  <1>5. ASSUME NEW o \in Ops, LogAppend(o) PROVE TypeOK'
    <2>1. buf[o] \in Blocks
      BY <1>0, <1>5 DEF LogAppend, Inv, CallsInv
    <2> QED BY <1>0, <1>1, <1>5, <2>1 DEF LogAppend, disk
  <1>b. Wake(pc) \in [Ops -> OpPCs]
    BY <1>0 DEF Wake
  <1>6. ASSUME NEW o \in Ops, EndOp(o) PROVE TypeOK'
    <2>1. pc' \in [Ops -> OpPCs]
      BY <1>0, <1>b, <1>6 DEF EndOp
    <2>2. phase' \in Phases
      BY <1>0, <1>6 DEF EndOp
    <2>3. tail' \in 0 .. LOGSIZE
      BY <1>0, <1>6 DEF EndOp
    <2>4. committing' \in BOOLEAN
      BY <1>0, <1>6, Zenon DEF EndOp
    <2>5. panicked' \in BOOLEAN
      BY <1>0, <1>6, Zenon DEF EndOp
    <2> QED BY <1>0, <1>1, <1>6, <2>1, <2>2, <2>3, <2>4, <2>5 DEF EndOp, disk
  <1>7. ASSUME NEW o \in Ops, FinishCommit(o) PROVE TypeOK'
    BY <1>0, <1>1, <1>b, <1>7 DEF FinishCommit, disk
  <1>8. CASE WriteLog
    BY <1>0, <1>1, <1>a, <1>8 DEF WriteLog, memory
  <1>9. CASE WriteHead \/ ClearLog \/ ReadHead
    <2>1. CASE WriteHead
      BY <1>0, <1>1, <2>1 DEF WriteHead, memory
    <2>2. CASE ClearLog
      BY <1>0, <1>1, <2>2, EmptyIsSeq DEF ClearLog
    <2>3. CASE ReadHead
      BY <1>0, <1>1, <2>3 DEF ReadHead, disk
    <2> QED BY <1>9, <2>1, <2>2, <2>3
  <1>10. CASE Install
    <2>1. CASE tail < Len(lh)
      <3>1. tail + 1 \in 1 .. Len(lh) /\ tail + 1 \in 1 .. LOGSIZE
        BY <1>0, <2>1
      <3>2. lh[tail + 1] \in Blocks /\ dlog[tail + 1] \in Vals
        BY <1>0, <3>1
      <3>3. home' \in [Blocks -> Vals] /\ cache' \in [Blocks -> Vals \cup {None}]
        BY <1>0, <1>10, <2>1, <3>2 DEF Install
      <3>4. pinned' \subseteq Blocks /\ tail' \in 0 .. LOGSIZE /\ phase' = phase
        BY <1>0, <1>10, <2>1, <3>1 DEF Install
      <3> QED BY <1>0, <1>1, <1>10, <3>3, <3>4 DEF Install
    <2>2. CASE ~(tail < Len(lh))
      BY <1>0, <1>1, <1>10, <2>2 DEF Install
    <2> QED BY <2>1, <2>2
  <1>11. ASSUME NEW b \in Blocks, Load(b) \/ Evict(b) PROVE TypeOK'
    BY <1>0, <1>1, <1>11 DEF Load, Evict, disk
  <1>12. CASE Crash
    <2>1. lh' \in Seq(Blocks) /\ tail' \in 0 .. LOGSIZE
      BY <1>0, <1>12, EmptyIsSeq DEF Crash
    <2>2. home' = home /\ dlog' = dlog /\ dhead' = dhead
      BY <1>12 DEF Crash, disk
    <2> QED BY <1>0, <1>1, <1>12, <2>1, <2>2 DEF Crash
  <1>13. CASE UNCHANGED vars
    BY <1>0, <1>1, <1>13 DEF vars, disk, memory
  <1> QED
    BY <1>2, <1>3, <1>4, <1>5, <1>6, <1>7, <1>8, <1>9, <1>10, <1>11, <1>12, <1>13
    DEF Next, Op, Commit

LEMMA RngOfAppend ==
  ASSUME NEW S, NEW s \in Seq(S), NEW x
  PROVE  /\ Rng(s) \subseteq Rng(Append(s, x)) /\ x \in Rng(Append(s, x))
         /\ Rng(Append(s, x)) \subseteq Rng(s) \cup {x}
  BY DEF Rng

\* Outside a transaction and during a commit or a recovery nobody has a buffer.
LEMMA NobodyInside ==
  ASSUME Inv, phase # "none"
  PROVE  Open = {} /\ \A o \in Ops : buf[o] = None
  <1>1. Open = {}
    BY DEF Inv, PhaseInv, Recovering, Open
  <1> QED BY <1>1 DEF Inv, CallsInv, Open

LEMMA CallsStep ==
  ASSUME Inv, [Next]_vars
  PROVE  CallsInv'
  <1>0. TypeOK /\ CallsInv
    BY DEF Inv
  <1>a. TypeOK' /\ outstanding' = Cardinality(Open)'
    BY TypeStep, CountStep
  <1> USE DEF TypeOK, OpPCs
  <1>b. ASSUME pc' = pc, buf' = buf, wrote' = wrote, Rng(lh) \subseteq Rng(lh)' \/ Open = {},
               \A o \in Ops : buf[o] # None => cache'[buf[o]] # None
        PROVE  CallsInv'
    <2>1. Open' = Open
      BY <1>b DEF Open
    <2> QED BY <1>0, <1>a, <1>b, <2>1 DEF CallsInv
  <1>1. ASSUME NEW o \in Ops, BeginOp(o) PROVE CallsInv'
    <2>1. buf' = buf /\ cache' = cache /\ lh' = lh
      BY <1>1 DEF BeginOp, BeginOpUnless
    <2>2. \A r \in Ops : pc'[r] \in {"modified", "checked"} <=> pc[r] \in {"modified", "checked"}
      BY <1>0, <1>1 DEF BeginOp, BeginOpUnless
    <2>3. ASSUME NEW r \in Open'
          PROVE  /\ wrote'[r] \subseteq Rng(lh') /\ IsFiniteSet(wrote'[r])
                 /\ Cardinality(wrote'[r]) <= OPBLOCKS
                 /\ buf'[r] # None => Cardinality(wrote'[r] \cup {buf'[r]}) <= OPBLOCKS
      <3>1. CASE r = o
        <4>1. wrote'[o] = {} /\ buf[o] = None
          BY <1>0, <1>1, <2>3, <3>1 DEF BeginOp, BeginOpUnless, Open, CallsInv
        <4> QED BY <3>1, <4>1, <2>1, FS_EmptySet, LogAssumption
      <3>2. CASE r # o
        <4>1. r \in Open /\ wrote'[r] = wrote[r]
          BY <1>0, <1>1, <2>3, <3>2 DEF BeginOp, BeginOpUnless, Open
        <4> QED BY <1>0, <2>1, <4>1 DEF CallsInv
      <3> QED BY <3>1, <3>2
    <2> QED BY <1>0, <1>a, <2>1, <2>2, <2>3 DEF CallsInv
  <1>2. ASSUME NEW o \in Ops, NEW b \in Blocks, Modify(o, b) PROVE CallsInv'
    <2>1. /\ Open' = Open /\ o \in Open /\ wrote' = wrote /\ lh' = lh
          /\ pc' = [pc EXCEPT ![o] = "modified"] /\ buf' = [buf EXCEPT ![o] = b]
          /\ \A r \in Ops : buf[r] # b
          /\ Cardinality(wrote[o] \cup {b}) <= OPBLOCKS
          /\ cache'[b] # None /\ b # None
          /\ \A c \in Blocks \ {b} : cache'[c] = cache[c]
      BY <1>0, <1>2, NothingAssumption DEF Modify, Open
    <2>2. \A r \in Ops : pc'[r] \in {"modified", "checked"} <=> buf'[r] # None
      BY <1>0, <2>1 DEF CallsInv
    <2>3. \A r, s \in Ops : buf'[r] # None /\ buf'[r] = buf'[s] => r = s
      BY <1>0, <2>1 DEF CallsInv
    <2>4. \A r \in Ops : buf'[r] # None => cache'[buf'[r]] # None
      BY <1>0, <2>1 DEF CallsInv
    <2>5. \A r \in Open : buf'[r] # None => Cardinality(wrote[r] \cup {buf'[r]}) <= OPBLOCKS
      BY <1>0, <2>1 DEF CallsInv, Open
    <2> QED BY <1>0, <1>a, <2>1, <2>2, <2>3, <2>4, <2>5 DEF CallsInv
  <1>3. ASSUME NEW o \in Ops, LogCheck(o) PROVE CallsInv'
    <2>1. /\ buf' = buf /\ wrote' = wrote /\ lh' = lh /\ cache' = cache /\ Open' = Open
          /\ \A r \in Ops : pc'[r] \in {"modified", "checked"} <=> pc[r] \in {"modified", "checked"}
      BY <1>0, <1>3 DEF LogCheck, memory, Open
    <2> QED BY <1>0, <1>a, <2>1 DEF CallsInv
  <1>4. ASSUME NEW o \in Ops, LogAppend(o) PROVE CallsInv'
    <2>1. /\ Open' = Open /\ o \in Open /\ cache' = cache /\ buf[o] \in Blocks
          /\ pc' = [pc EXCEPT ![o] = "in"] /\ buf' = [buf EXCEPT ![o] = None]
          /\ wrote' = [wrote EXCEPT ![o] = @ \cup {buf[o]}]
      BY <1>0, <1>4 DEF LogAppend, Open, CallsInv
    <2>2. Rng(lh) \subseteq Rng(lh') /\ buf[o] \in Rng(lh')
      BY <1>0, <1>4, RngOfAppend DEF LogAppend
    <2>3. IsFiniteSet(wrote[o] \cup {buf[o]}) /\ Cardinality(wrote[o] \cup {buf[o]}) <= OPBLOCKS
      BY <1>0, <2>1, NothingAssumption, FS_AddElement DEF CallsInv
    <2>4. \A r \in Ops : pc'[r] \in {"modified", "checked"} <=> buf'[r] # None
      BY <1>0, <2>1 DEF CallsInv
    <2>5. \A r, s \in Ops : buf'[r] # None /\ buf'[r] = buf'[s] => r = s
      BY <1>0, <2>1 DEF CallsInv
    <2>6. \A r \in Ops : buf'[r] # None => cache'[buf'[r]] # None
      BY <1>0, <2>1 DEF CallsInv
    <2>7. ASSUME NEW r \in Open'
          PROVE  /\ wrote'[r] \subseteq Rng(lh') /\ IsFiniteSet(wrote'[r])
                 /\ Cardinality(wrote'[r]) <= OPBLOCKS
                 /\ buf'[r] # None => Cardinality(wrote'[r] \cup {buf'[r]}) <= OPBLOCKS
      <3>1. CASE r = o
        BY <1>0, <2>1, <2>2, <2>3, <3>1 DEF CallsInv
      <3>2. CASE r # o
        <4>1. r \in Open /\ wrote'[r] = wrote[r] /\ buf'[r] = buf[r]
          BY <1>0, <2>1, <2>7, <3>2 DEF Open
        <4> QED BY <1>0, <2>2, <4>1 DEF CallsInv
      <3> QED BY <3>1, <3>2
    <2> QED BY <1>a, <2>4, <2>5, <2>6, <2>7 DEF CallsInv
  <1>5. ASSUME NEW o \in Ops, EndOp(o) \/ FinishCommit(o) PROVE CallsInv'
    <2>1. /\ buf' = buf /\ wrote' = wrote /\ lh' = lh /\ cache' = cache
          /\ Open' \subseteq Open
          /\ \A r \in Ops : pc'[r] \in {"modified", "checked"} <=> pc[r] \in {"modified", "checked"}
      BY <1>0, <1>5 DEF EndOp, FinishCommit, Wake, Open
    <2>2. \A r \in Open' : r \in Open
      BY <2>1
    <2> QED BY <1>0, <1>a, <2>1, <2>2 DEF CallsInv
  <1>6. CASE Commit
    <2>1. Open = {} /\ \A o \in Ops : buf[o] = None
      BY <1>6, NobodyInside DEF Commit, WriteLog, WriteHead, Install, ClearLog, ReadHead
    <2>2. pc' = pc /\ buf' = buf /\ wrote' = wrote
      BY <1>6 DEF Commit, WriteLog, WriteHead, Install, ClearLog, ReadHead
    <2> QED BY <1>b, <2>1, <2>2
  <1>7. ASSUME NEW b \in Blocks, Load(b) \/ Evict(b) PROVE CallsInv'
    <2>1. pc' = pc /\ buf' = buf /\ wrote' = wrote /\ lh' = lh
      BY <1>7 DEF Load, Evict
    <2>2. \A o \in Ops : buf[o] # None => cache'[buf[o]] # None
      BY <1>0, <1>7, NothingAssumption DEF Load, Evict, CallsInv
    <2> QED BY <1>b, <2>1, <2>2
  <1>8. CASE Crash
    <2>1. /\ Open' = {} /\ \A o \in Ops : buf'[o] = None /\ pc'[o] = "out"
      BY <1>8 DEF Crash, Open
    <2> QED BY <1>a, <2>1 DEF CallsInv
  <1>9. CASE UNCHANGED vars
    <2>1. pc' = pc /\ buf' = buf /\ wrote' = wrote /\ lh' = lh /\ cache' = cache
      BY <1>9 DEF vars, memory
    <2> QED BY <1>0, <1>b, <2>1 DEF CallsInv
  <1> QED
    BY <1>1, <1>2, <1>3, <1>4, <1>5, <1>6, <1>7, <1>8, <1>9 DEF Next, Op

\* While a call is inside, nothing is written to the log.
LEMMA InsideIsQuiet ==
  ASSUME Inv, Open # {}
  PROVE  phase = "none" /\ ~committing /\ ~Recovering /\ dhead = <<>> /\ Committers = {}
  BY NobodyInside DEF Inv, PhaseInv, Recovering

LEMMA PhaseStep ==
  ASSUME Inv, [Next]_vars
  PROVE  PhaseInv'
  <1>0. TypeOK /\ PhaseInv /\ Len(lh) \in Nat
    BY LogFits DEF Inv
  <1> USE DEF TypeOK, OpPCs, Phases
  <1>b. ASSUME Open' = Open, Committers' = Committers, committing' = committing,
               phase' = phase, tail' = tail, lh' = lh, dhead' = dhead, pinned' = pinned,
               (\A o \in Ops : pc'[o] = pc[o]) \/ ~Recovering
        PROVE  PhaseInv'
    BY <1>0, <1>b DEF PhaseInv, Recovering
  <1>1. ASSUME NEW o \in Ops, BeginOp(o) PROVE PhaseInv'
    <2>1. /\ phase' = phase /\ tail' = tail /\ lh' = lh /\ dhead' = dhead /\ pinned' = pinned
          /\ committing' = committing /\ ~Recovering /\ Committers' = Committers
      BY <1>0, <1>1 DEF BeginOp, BeginOpUnless, disk, Committers
    <2>2. CASE pc'[o] = "in"
      <3>1. ~committing /\ Open' # {}
        BY <1>0, <1>1, <2>2 DEF BeginOp, BeginOpUnless, Open
      <3> QED BY <1>0, <2>1, <3>1 DEF PhaseInv, Recovering
    <2>3. CASE pc'[o] # "in"
      <3>1. Open' = Open
        BY <1>0, <1>1, <2>3 DEF BeginOp, BeginOpUnless, Open
      <3> QED BY <1>b, <2>1, <3>1
    <2> QED BY <2>2, <2>3
  <1>2. ASSUME NEW o \in Ops, (\E b \in Blocks : Modify(o, b)) \/ LogCheck(o)
        PROVE  PhaseInv'
    <2>1. /\ phase' = phase /\ tail' = tail /\ lh' = lh /\ dhead' = dhead /\ pinned' = pinned
          /\ committing' = committing /\ Committers' = Committers /\ Open' = Open /\ o \in Open
      BY <1>0, <1>2 DEF Modify, LogCheck, Open, Committers, disk, memory
    <2> QED BY <1>b, <2>1, InsideIsQuiet
  <1>3. ASSUME NEW o \in Ops, LogAppend(o) PROVE PhaseInv'
    <2>1. /\ phase' = phase /\ tail' = tail /\ dhead' = dhead
          /\ committing' = committing /\ Committers' = Committers /\ Open' = Open /\ o \in Open
      BY <1>0, <1>3 DEF LogAppend, Open, Committers, disk
    <2> QED BY <1>0, <2>1, InsideIsQuiet DEF PhaseInv, Recovering
  <1>4. ASSUME NEW o \in Ops, EndOp(o) PROVE PhaseInv'
    <2>1. /\ o \in Open /\ Open' = Open \ {o} /\ lh' = lh /\ dhead' = dhead /\ pinned' = pinned
      BY <1>0, <1>4 DEF EndOp, Wake, Open, disk
    <2>2. phase = "none" /\ ~committing /\ dhead = <<>> /\ Committers = {}
      BY <2>1, InsideIsQuiet
    <2>3. CASE outstanding = 1
      <3>1. Cardinality(Open) = 1
        BY <2>3 DEF Inv, CallsInv
      <3>2. Open = {o}
        <4>1. PICK x : Open = {x}
          BY <3>1, FiniteCalls, FS_Singleton
        <4> QED BY <2>1, <4>1
      <3>3. Open' = {}
        BY <2>1, <3>2
      <3>4. committing' = TRUE /\ tail' = 0 /\ pc' = [pc EXCEPT ![o] = "commit"]
        BY <1>4, <2>3 DEF EndOp
      <3>5. phase' = IF lh = <<>> THEN "none" ELSE "log"
        BY <1>4, <2>3 DEF EndOp
      <3>6. Committers' = {o}
        BY <1>0, <2>2, <3>4 DEF Committers
      <3> QED BY <1>0, <2>1, <2>2, <3>3, <3>4, <3>5, <3>6 DEF PhaseInv, Recovering
    <2>4. CASE outstanding # 1
      <3>1. Cardinality(Open') # 0
        BY <2>1, <2>4, EnterLeave, FiniteCalls DEF Inv, CallsInv
      <3>2. Open' # {}
        BY <3>1, FS_EmptySet
      <3>3. committing' = committing /\ phase' = phase /\ tail' = tail /\ pc' = [Wake(pc) EXCEPT ![o] = "out"]
        BY <1>4, <2>4 DEF EndOp
      <3>4. Committers' = {}
        BY <1>0, <2>2, <3>3 DEF Committers, Wake
      <3> QED BY <1>0, <2>1, <2>2, <3>2, <3>3, <3>4 DEF PhaseInv, Recovering
    <2> QED BY <2>3, <2>4
  <1>5. ASSUME NEW o \in Ops, FinishCommit(o) PROVE PhaseInv'
    <2>1. /\ phase = "none" /\ phase' = "none" /\ tail' = tail /\ lh' = lh /\ dhead' = dhead
          /\ committing' = FALSE /\ pc' = [Wake(pc) EXCEPT ![o] = "out"] /\ o \in Committers
      BY <1>5 DEF FinishCommit, disk, Committers
    <2>2. committing /\ Open = {} /\ Committers = {o}
      BY <1>0, <2>1 DEF PhaseInv
    <2>3. Committers' = {} /\ Open' = {}
      BY <1>0, <2>1, <2>2 DEF Committers, Open, Wake
    <2> QED BY <1>0, <2>1, <2>2, <2>3 DEF PhaseInv, Recovering
  <1>6. CASE WriteLog
    <2>1. /\ Open' = Open /\ Committers' = Committers /\ lh' = lh /\ dhead' = dhead
          /\ committing' = committing /\ pinned' = pinned /\ pc' = pc
          /\ phase = "log" /\ \/ tail < Len(lh) /\ tail' = tail + 1 /\ phase' = "log"
                              \/ phase' = "head"
      BY <1>6 DEF WriteLog, memory, Open, Committers
    <2> QED BY <1>0, <2>1 DEF PhaseInv, Recovering
  <1>7. CASE WriteHead
    <2>1. /\ Open' = Open /\ Committers' = Committers /\ lh' = lh /\ dhead' = lh
          /\ committing' = committing /\ pinned' = pinned /\ pc' = pc
          /\ phase = "head" /\ tail' = 0 /\ phase' = "install"
      BY <1>7 DEF WriteHead, memory, Open, Committers
    <2> QED BY <1>0, <2>1 DEF PhaseInv, Recovering
  <1>8. CASE Install
    <2>1. /\ Open' = Open /\ Committers' = Committers /\ lh' = lh /\ dhead' = dhead
          /\ committing' = committing /\ pinned' \subseteq pinned /\ pc' = pc
          /\ phase = "install" /\ \/ tail < Len(lh) /\ tail' = tail + 1 /\ phase' = "install"
                                  \/ ~(tail < Len(lh)) /\ tail' = tail /\ phase' = "clear"
      BY <1>8 DEF Install, Open, Committers
    <2>2. tail <= Len(lh) /\ dhead = lh
      BY <1>0, <2>1 DEF PhaseInv
    <2> QED BY <1>0, <2>1, <2>2 DEF PhaseInv, Recovering
  <1>9. CASE ClearLog
    <2>1. /\ Open' = Open /\ Committers' = Committers /\ lh' = <<>> /\ dhead' = <<>>
          /\ committing' = committing /\ pinned' = pinned /\ pc' = pc
          /\ phase = "clear" /\ phase' = "none"
      BY <1>9 DEF ClearLog, Open, Committers
    <2> QED BY <1>0, <2>1 DEF PhaseInv, Recovering
  <1>10. CASE ReadHead
    <2>1. /\ Open' = Open /\ Committers' = Committers /\ lh' = dhead /\ dhead' = dhead
          /\ committing' = committing /\ pinned' = pinned /\ pc' = pc
          /\ phase = "boot" /\ phase' = "install" /\ tail' = 0
      BY <1>10 DEF ReadHead, Open, Committers, disk
    <2>2. Len(lh)' \in Nat
      BY <1>0, <2>1
    <2> QED BY <1>0, <2>1, <2>2 DEF PhaseInv, Recovering
  <1>11. ASSUME NEW b \in Blocks, Load(b) \/ Evict(b) PROVE PhaseInv'
    <2>1. /\ Open' = Open /\ Committers' = Committers /\ lh' = lh /\ dhead' = dhead
          /\ committing' = committing /\ pinned' = pinned /\ pc' = pc
          /\ phase' = phase /\ tail' = tail
      BY <1>11 DEF Load, Evict, Open, Committers, disk
    <2> QED BY <1>b, <2>1
  <1>12. CASE Crash
    <2>1. /\ Open' = {} /\ Committers' = {} /\ dhead' = dhead /\ committing' = FALSE
          /\ pinned' = {} /\ phase' = "boot" /\ \A o \in Ops : pc'[o] = "out"
      BY <1>12 DEF Crash, Open, Committers, disk
    <2> QED BY <2>1 DEF PhaseInv, Recovering
  <1>13. CASE UNCHANGED vars
    <2>1. /\ Open' = Open /\ Committers' = Committers /\ lh' = lh /\ dhead' = dhead
          /\ committing' = committing /\ pinned' = pinned /\ pc' = pc
          /\ phase' = phase /\ tail' = tail
      BY <1>13 DEF vars, Open, Committers, disk, memory
    <2> QED BY <1>b, <2>1
  <1> QED
    BY <1>1, <1>2, <1>3, <1>4, <1>5, <1>6, <1>7, <1>8, <1>9, <1>10, <1>11, <1>12, <1>13
    DEF Next, Op, Commit

-----------------------------------------------------------------------------
(* The log has room. *)

\* A process that joins the transaction finds the room that it reserves.
LEMMA RoomToJoin ==
  ASSUME NEW n \in Nat, NEW k \in Nat, n = 0 => k = 0,
         k + (n + 1) * MAXOPBLOCKS <= LOGSIZE
  PROVE  k + (n + 1) * OPBLOCKS <= Longest
  <1>1. MAXOPBLOCKS \in Nat /\ OPBLOCKS \in Nat /\ LOGSIZE \in Nat
    BY LogAssumption
  <1> DEFINE gap == MAXOPBLOCKS - OPBLOCKS
  <1>2. gap \in Nat /\ MAXOPBLOCKS = OPBLOCKS + gap
    BY <1>1, ReservationAssumption
  <1>3. CASE n = 0
    BY <1>1, <1>3, LongestIsShort
  <1>4. CASE n # 0
    <2>1. (n + 1) * MAXOPBLOCKS = (n + 1) * OPBLOCKS + (n + 1) * gap
      BY <1>1, <1>2
    <2>2. (n + 1) * gap = 2 * gap + (n - 1) * gap /\ (n - 1) * gap \in Nat
      BY <1>2, <1>4
    <2>3. (n + 1) * OPBLOCKS \in Nat
      BY <1>1
    <2>4. k + (n + 1) * OPBLOCKS <= LOGSIZE - 2 * gap
      BY <1>1, <1>2, <2>1, <2>2, <2>3
    <2> QED BY <1>1, <1>2, <2>3, <2>4, LongestIsShort
  <1> QED BY <1>3, <1>4

LEMMA AppendIsDistinct ==
  ASSUME NEW S, NEW s \in Seq(S), NEW x, Distinct(s), x \notin Rng(s)
  PROVE  Distinct(Append(s, x)) /\ Len(Append(s, x)) = Len(s) + 1
  BY DEF Distinct, Rng

LEMMA RoomStep ==
  ASSUME Inv, [Next]_vars
  PROVE  RoomInv'
  <1>0. /\ TypeOK /\ RoomInv /\ CallsInv /\ PhaseInv
        /\ Len(lh) \in Nat /\ Len(lh) <= Longest /\ Longest \in Nat
        /\ Cardinality(Reserved) \in Nat /\ IsFiniteSet(Reserved)
    BY LogFits, LongestIsShort, ReservedFinite DEF Inv
  <1>z. Cardinality({}) = 0 /\ Len(<<>>) = 0 /\ Distinct(<<>>)
    BY FS_EmptySet DEF Distinct
  <1> USE DEF TypeOK, OpPCs
  <1>a. ASSUME Reserved' \subseteq Reserved
        PROVE  Cardinality(Reserved') \in Nat /\ Cardinality(Reserved') <= Cardinality(Reserved)
    BY <1>0, <1>a, FS_Subset, FS_CardinalityType
  <1>b. ASSUME Open' \subseteq Open, wrote' = wrote, lh' = lh, dhead' \in {dhead, lh}
        PROVE  RoomInv'
    <2>1. Reserved' \subseteq Reserved
      BY <1>b DEF Reserved
    <2>2. Distinct(lh') /\ Distinct(dhead')
      BY <1>0, <1>b DEF RoomInv
    <2>3. Len(dhead') <= Longest /\ Len(lh') + Cardinality(Reserved') <= Longest
      BY <1>0, <1>a, <1>b, <2>1 DEF RoomInv
    <2> QED BY <2>2, <2>3 DEF RoomInv
  <1>c. ASSUME Open' = {}, lh' \in {<<>>, dhead}, dhead' \in {<<>>, dhead}
        PROVE  RoomInv'
    <2>1. Reserved' = {}
      BY <1>c DEF Reserved
    <2>2. Distinct(lh') /\ Distinct(dhead')
      BY <1>0, <1>z, <1>c DEF RoomInv
    <2>3. Len(dhead) \in Nat /\ Len(dhead) <= Longest
      BY <1>0 DEF RoomInv
    <2>4. Len(dhead') <= Longest /\ Len(lh') \in Nat /\ Len(lh') <= Longest
      BY <1>0, <1>z, <1>c, <2>3
    <2>5. Len(lh') + Cardinality(Reserved') <= Longest
      BY <1>z, <2>1, <2>4
    <2> QED BY <2>2, <2>4, <2>5 DEF RoomInv
  <1>1. ASSUME NEW o \in Ops, BeginOp(o) PROVE RoomInv'
    <2>1. lh' = lh /\ dhead' = dhead /\ ~Recovering
      BY <1>1 DEF BeginOp, BeginOpUnless, disk
    <2>2. CASE pc'[o] = "in"
      <3>2. outstanding \in Nat
        BY <1>0, FiniteCalls DEF CallsInv
      <3>1. /\ ~committing /\ Len(lh) + (outstanding + 1) * MAXOPBLOCKS <= LOGSIZE
            /\ outstanding' = outstanding + 1
        <4> DEFINE full == committing \/ Len(lh) + (outstanding + 1) * MAXOPBLOCKS > LOGSIZE
        <4>1. /\ pc' = [pc EXCEPT ![o] = IF full THEN "asleep" ELSE "in"]
              /\ outstanding' = IF full THEN outstanding ELSE outstanding + 1
          BY <1>1 DEF BeginOp, BeginOpUnless
        <4>2. ~full
          <5> HIDE DEF full
          <5> QED BY <1>0, <2>2, <4>1
        <4>3. LOGSIZE \in Nat /\ (outstanding + 1) * MAXOPBLOCKS \in Nat
          BY <3>2, LogAssumption
        <4> QED BY <1>0, <4>1, <4>2, <4>3
      <3>3. outstanding = 0 => Len(lh) = 0
        <4>1. outstanding = 0 => Open = {}
          BY <1>0, FiniteCalls, FS_EmptySet DEF CallsInv
        <4> QED BY <1>0, <1>z, <2>1, <3>1, <4>1 DEF PhaseInv, Recovering
      <3>4. Len(lh) + (outstanding + 1) * OPBLOCKS <= Longest
        BY <1>0, <3>1, <3>2, <3>3, RoomToJoin
      <3>5. Cardinality(Reserved)' \in Nat /\ Cardinality(Reserved)' <= Cardinality(Open)' * OPBLOCKS
        <4>1. Open' \in SUBSET Ops
          BY DEF Open
        <4> QED BY <4>1, PairsFinite DEF Reserved
      <3>6. Cardinality(Open)' = outstanding + 1
        BY <3>1, CountStep
      <3>7. (outstanding + 1) * OPBLOCKS \in Nat
        BY <3>2, LogAssumption
      <3>8. Cardinality(Reserved)' <= (outstanding + 1) * OPBLOCKS
        BY <3>5, <3>6
      <3>9. Len(lh) + Cardinality(Reserved)' <= Longest
        BY <1>0, <3>4, <3>5, <3>7, <3>8
      <3> QED BY <1>0, <2>1, <3>9 DEF RoomInv
    <2>3. CASE pc'[o] # "in"
      <3>1. Open' = Open /\ wrote' = wrote
        BY <1>0, <1>1, <2>3 DEF BeginOp, BeginOpUnless, Open
      <3> QED BY <1>b, <2>1, <3>1
    <2> QED BY <2>2, <2>3
  <1>2. ASSUME NEW o \in Ops,
               (\E b \in Blocks : Modify(o, b)) \/ LogCheck(o) \/ EndOp(o) \/ FinishCommit(o)
        PROVE  RoomInv'
    <2>1. Open' \subseteq Open /\ wrote' = wrote /\ lh' = lh /\ dhead' = dhead
      BY <1>0, <1>2 DEF Modify, LogCheck, EndOp, FinishCommit, Wake, Open, disk, memory
    <2> QED BY <1>b, <2>1
  <1>3. ASSUME NEW o \in Ops, LogAppend(o) PROVE RoomInv'
    <2> DEFINE n == Cardinality(wrote[o])
               w == wrote[o] \cup {buf[o]}
    <2>1. /\ Open' = Open /\ o \in Open /\ dhead' = dhead
          /\ wrote' = [wrote EXCEPT ![o] = w]
      BY <1>0, <1>3 DEF LogAppend, Open, disk
    <2>2. /\ IsFiniteSet(wrote[o]) /\ n \in Nat
          /\ Cardinality(w) = IF buf[o] \in wrote[o] THEN n ELSE n + 1
          /\ wrote[o] \subseteq Rng(lh)
      BY <1>0, <2>1, FS_AddElement, FS_CardinalityType DEF CallsInv
    <2>3. Cardinality(w) <= OPBLOCKS
      BY <1>0, <1>3, <2>1 DEF LogAppend, CallsInv
    <2>4. Reserved' \subseteq Reserved
      BY <1>0, <2>1, <2>2 DEF Reserved
    <2>5. CASE buf[o] \in Rng(lh)
      <3>1. lh' = lh
        BY <1>3, <2>5 DEF LogAppend
      <3> QED BY <1>0, <1>a, <2>1, <2>4, <3>1 DEF RoomInv
    <2>6. CASE buf[o] \notin Rng(lh)
      <3>1. lh' = Append(lh, buf[o])
        BY <1>3, <2>6 DEF LogAppend
      <3>2. Distinct(lh') /\ Len(lh') = Len(lh) + 1
        BY <1>0, <2>6, <3>1, AppendIsDistinct DEF RoomInv
      <3>3. Cardinality(w) = n + 1 /\ n + 1 <= OPBLOCKS
        BY <2>2, <2>3, <2>6
      <3>4. <<o, n + 1>> \in Reserved /\ <<o, n + 1>> \notin Reserved'
        <4>1. n + 1 \in 1 .. OPBLOCKS
          BY <2>2, <3>3, LogAssumption
        <4>2. <<o, n + 1>> \in Reserved
          BY <2>1, <2>2, <4>1 DEF Reserved
        <4>3. wrote'[o] = w
          BY <1>0, <2>1
        <4>4. \A x \in Reserved' : x[2] > Cardinality(wrote'[x[1]])
          BY DEF Reserved
        <4>5. ~(n + 1 > Cardinality(wrote'[o]))
          BY <2>2, <3>3, <4>3
        <4> QED BY <4>2, <4>4, <4>5
      <3>5. Reserved' \in SUBSET (Reserved \ {<<o, n + 1>>})
        BY <2>4, <3>4
      <3>6. /\ IsFiniteSet(Reserved \ {<<o, n + 1>>})
            /\ Cardinality(Reserved \ {<<o, n + 1>>}) = Cardinality(Reserved) - 1
        <4> DEFINE e == <<o, n + 1>>
        <4>1. e \in Reserved /\ IsFiniteSet(Reserved)
          BY <1>0, <3>4
        <4> HIDE DEF e
        <4>2. /\ IsFiniteSet(Reserved \ {e})
              /\ Cardinality(Reserved \ {e}) = Cardinality(Reserved) - 1
          BY <4>1, FS_RemoveElement
        <4> QED BY <4>2 DEF e
      <3>7. Cardinality(Reserved') <= Cardinality(Reserved) - 1 /\ Cardinality(Reserved') \in Nat
        BY <3>5, <3>6, FS_Subset, FS_CardinalityType
      <3>8. Len(lh') + Cardinality(Reserved') <= Longest
        BY <1>0, <3>2, <3>7 DEF RoomInv
      <3> QED BY <1>0, <2>1, <3>2, <3>8 DEF RoomInv
    <2> QED BY <2>5, <2>6
  <1>4. CASE WriteLog \/ WriteHead \/ Install
    <2>1. Open' = Open /\ wrote' = wrote /\ lh' = lh /\ dhead' \in {dhead, lh}
      BY <1>4 DEF WriteLog, WriteHead, Install, Open, memory
    <2> QED BY <1>b, <2>1
  <1>5. CASE ClearLog \/ ReadHead
    <2>1. Open = {}
      BY <1>5, NobodyInside DEF ClearLog, ReadHead
    <2>2. Open' = Open /\ lh' \in {<<>>, dhead} /\ dhead' \in {<<>>, dhead}
      BY <1>5 DEF ClearLog, ReadHead, Open, disk
    <2> QED BY <1>c, <2>1, <2>2
  <1>6. CASE (\E b \in Blocks : Load(b) \/ Evict(b)) \/ UNCHANGED vars
    <2>1. Open' = Open /\ wrote' = wrote /\ lh' = lh /\ dhead' = dhead
      BY <1>6 DEF Load, Evict, vars, disk, memory, Open
    <2> QED BY <1>b, <2>1
  <1>7. CASE Crash
    <2>1. Open' = {} /\ lh' = <<>> /\ dhead' = dhead
      BY <1>7 DEF Crash, Open, disk
    <2> QED BY <1>c, <2>1
  <1> QED
    BY <1>1, <1>2, <1>3, <1>4, <1>5, <1>6, <1>7 DEF Next, Op, Commit

\* log_write() never finds the log full, and end_op() nobody committing.
LEMMA NoPanic ==
  ASSUME Inv, [Next]_vars
  PROVE  ~panicked'
  <1>0. ~panicked /\ Len(lh) \in Nat /\ Len(lh) < LOGSIZE /\ Len(lh) < NLOG - 1
    BY LogFits DEF Inv
  <1>1. ASSUME NEW o \in Ops, LogCheck(o) PROVE ~panicked'
    <2>1. o \in Open
      BY <1>1 DEF LogCheck, Open
    <2>2. outstanding >= 1 /\ outstanding \in Nat
      BY <2>1, FiniteCalls, FS_EmptySet DEF Inv, CallsInv
    <2>3. LOGSIZE \in Nat /\ NLOG \in Nat
      BY LogAssumption
    <2> QED BY <1>0, <1>1, <2>2, <2>3 DEF LogCheck
  <1>2. ASSUME NEW o \in Ops, EndOp(o) PROVE ~panicked'
    <2>1. o \in Open
      BY <1>2 DEF EndOp, Open
    <2> QED BY <1>2, <2>1, InsideIsQuiet DEF EndOp
  <1>3. panicked' = panicked \/ panicked' = FALSE \/ \E o \in Ops : LogCheck(o) \/ EndOp(o)
    BY DEF Next, Op, Commit, BeginOp, BeginOpUnless, Modify, LogAppend, FinishCommit, WriteLog,
           WriteHead, Install, ClearLog, ReadHead, Load, Evict, Crash, vars
  <1> QED BY <1>0, <1>1, <1>2, <1>3

-----------------------------------------------------------------------------
(* Memory and disk. *)

LEMMA PinStep ==
  ASSUME Inv, [Next]_vars
  PROVE  PinInv'
  <1>0. /\ TypeOK /\ PinInv /\ RoomInv /\ CallsInv /\ PhaseInv
        /\ Len(lh) \in Nat /\ Len(lh) < LOGSIZE /\ LOGSIZE \in Nat
    BY LogFits, LogAssumption DEF Inv
  <1> USE DEF TypeOK, OpPCs, Phases
  <1>a. ASSUME home' = home, cache' = cache, pinned' = pinned, lh' = lh, buf' = buf,
               \/ phase' = phase /\ tail' = tail /\ committing' = committing
               \/ phase \in {"none", "log", "head"} /\ phase' \in {"none", "log", "head"}
        PROVE  PinInv'
    BY <1>0, <1>a DEF PinInv, LoggedIsPinned
  <1>1. ASSUME NEW o \in Ops,
               BeginOp(o) \/ LogCheck(o) \/ EndOp(o) \/ FinishCommit(o)
        PROVE  PinInv'
    <2>1. home' = home /\ cache' = cache /\ pinned' = pinned /\ lh' = lh /\ buf' = buf
      BY <1>1 DEF BeginOp, BeginOpUnless, LogCheck, EndOp, FinishCommit, disk, memory
    <2>2. CASE BeginOp(o) \/ LogCheck(o)
      BY <1>a, <2>1, <2>2 DEF BeginOp, BeginOpUnless, LogCheck, memory
    <2>3. CASE EndOp(o)
      <3>1. phase = "none"
        BY <2>3, InsideIsQuiet DEF EndOp, Open
      <3>2. phase' \in {"none", "log"}
        BY <2>3, <3>1 DEF EndOp
      <3> QED BY <1>a, <2>1, <3>1, <3>2
    <2>4. CASE FinishCommit(o)
      BY <1>a, <2>1, <2>4 DEF FinishCommit
    <2> QED BY <1>1, <2>2, <2>3, <2>4
  <1>2. ASSUME NEW o \in Ops, NEW b \in Blocks, Modify(o, b) PROVE PinInv'
    <2>1. /\ home' = home /\ pinned' = pinned /\ lh' = lh /\ phase' = phase /\ tail' = tail
          /\ cache'[b] \in Vals /\ \A c \in Blocks \ {b} : cache'[c] = cache[c]
          /\ buf'[o] = b /\ \A r \in Ops \ {o} : buf'[r] = buf[r]
          /\ o \in Open
      BY <1>0, <1>2 DEF Modify, Open, disk
    <2>2. phase = "none" /\ buf[o] = None
      BY <1>0, <1>2, <2>1, InsideIsQuiet DEF Modify, CallsInv
    <2>3. LoggedIsPinned'
      BY <1>0, <2>1, <2>2, NothingAssumption DEF PinInv, LoggedIsPinned
    <2>4. ASSUME NEW c \in Blocks, c \notin pinned, \A r \in Ops : buf'[r] # c
          PROVE  cache'[c] \in {None, home[c]}
      BY <1>0, <2>1, <2>2, <2>4, NothingAssumption DEF PinInv
    <2> QED BY <1>0, <2>1, <2>2, <2>3, <2>4 DEF PinInv
  <1>3. ASSUME NEW o \in Ops, LogAppend(o) PROVE PinInv'
    <2>1. /\ home' = home /\ cache' = cache /\ phase' = phase /\ tail' = tail
          /\ pinned' = pinned \cup {buf[o]} /\ buf' = [buf EXCEPT ![o] = None]
          /\ o \in Open /\ buf[o] \in Blocks /\ cache[buf[o]] # None
      BY <1>0, <1>3 DEF LogAppend, Open, CallsInv, disk
    <2>2. phase = "none"
      BY <2>1, InsideIsQuiet
    <2>3. Rng(lh) \subseteq Rng(lh') /\ buf[o] \in Rng(lh') /\ Rng(lh') \subseteq Rng(lh) \cup {buf[o]}
      BY <1>0, <1>3, RngOfAppend DEF LogAppend
    <2>4. LoggedIsPinned'
      <3>1. \A c \in Rng(lh) : c \in pinned /\ cache[c] # None
        BY <1>0, <2>2 DEF PinInv, LoggedIsPinned, Rng
      <3>2. \A c \in Rng(lh') : c \in pinned' /\ cache'[c] # None
        BY <2>1, <2>3, <3>1
      <3> QED BY <3>2 DEF LoggedIsPinned, Rng
    <2>5. ASSUME NEW c \in Blocks, c \notin pinned', \A r \in Ops : buf'[r] # c
          PROVE  cache'[c] \in {None, home'[c]}
      <3>1. \A r \in Ops : buf[r] # c
        BY <1>0, <2>1, <2>5
      <3> QED BY <1>0, <2>1, <2>5, <3>1 DEF PinInv
    <2> QED BY <1>0, <2>1, <2>2, <2>3, <2>4, <2>5 DEF PinInv
  <1>4. CASE WriteLog
    BY <1>a, <1>4 DEF WriteLog, memory
  <1>5. CASE WriteHead
    <2>1. /\ home' = home /\ cache' = cache /\ pinned' = pinned /\ lh' = lh /\ buf' = buf
          /\ phase = "head" /\ phase' = "install" /\ tail' = 0
      BY <1>5 DEF WriteHead, memory
    <2> QED BY <1>0, <2>1 DEF PinInv, LoggedIsPinned
  <1>6. CASE Install
    <2>0. phase = "install" /\ lh' = lh /\ buf' = buf /\ committing' = committing
      BY <1>6 DEF Install
    <2>1. CASE tail < Len(lh)
      <3> DEFINE b == lh[tail + 1]
      <3>1. tail + 1 \in 1 .. Len(lh) /\ b \in Blocks /\ dlog[tail + 1] \in Vals
        BY <1>0, <2>1
      <3>2. /\ home' = [home EXCEPT ![b] = dlog[tail + 1]]
            /\ cache' = [cache EXCEPT ![b] = dlog[tail + 1]]
            /\ pinned' = pinned \ {b} /\ tail' = tail + 1 /\ phase' = phase
        BY <1>6, <2>1 DEF Install
      <3>3. \A i \in 1 .. Len(lh) : lh[i] \in Blocks /\ (lh[i] = b => i = tail + 1)
        BY <1>0, <3>1 DEF RoomInv, Distinct
      <3> HIDE DEF b
      <3>4. \A i \in 1 .. tail' : lh[i] \notin pinned'
        <4>1. ASSUME NEW i \in 1 .. tail' PROVE lh[i] \notin pinned'
          <5>1. i \in 1 .. tail \/ i = tail + 1
            BY <1>0, <3>2
          <5>2. CASE i \in 1 .. tail
            BY <1>0, <2>0, <3>2, <5>2 DEF PinInv
          <5>3. CASE i = tail + 1
            BY <3>2, <5>3 DEF b
          <5> QED BY <5>1, <5>2, <5>3
        <4> QED BY <4>1
      <3>5. LoggedIsPinned'
        BY <1>0, <2>0, <3>1, <3>2, <3>3, NothingAssumption DEF PinInv, LoggedIsPinned
      <3>6. \A c \in Blocks : c \notin pinned' /\ (\A o \in Ops : buf'[o] # c)
                                => cache'[c] \in {None, home'[c]}
        BY <1>0, <2>0, <3>1, <3>2 DEF PinInv
      <3>7. pinned' \subseteq Rng(lh')
        BY <1>0, <2>0, <3>2 DEF PinInv
      <3> QED BY <2>0, <3>2, <3>4, <3>5, <3>6, <3>7 DEF PinInv
    <2>2. CASE ~(tail < Len(lh))
      <3>1. home' = home /\ cache' = cache /\ pinned' = pinned /\ tail' = tail /\ phase' = "clear"
        BY <1>6, <2>2 DEF Install
      <3>2. tail = Len(lh)
        BY <1>0, <2>0, <2>2 DEF PhaseInv
      <3>3. pinned = {}
        BY <1>0, <2>0, <3>2 DEF PinInv, Rng
      <3> QED BY <1>0, <2>0, <3>1, <3>2, <3>3 DEF PinInv, LoggedIsPinned
    <2> QED BY <2>1, <2>2
  <1>7. CASE ClearLog
    <2>1. /\ home' = home /\ cache' = cache /\ pinned' = pinned /\ lh' = <<>> /\ buf' = buf
          /\ phase = "clear" /\ phase' = "none"
      BY <1>7 DEF ClearLog
    <2> QED BY <1>0, <2>1, EmptyIsSeq DEF PinInv, LoggedIsPinned
  <1>8. CASE ReadHead
    <2>1. /\ home' = home /\ cache' = cache /\ pinned' = pinned /\ buf' = buf
          /\ phase = "boot" /\ phase' = "install" /\ tail' = 0 /\ committing' = committing
      BY <1>8 DEF ReadHead, disk
    <2>2. ~committing /\ pinned = {}
      BY <1>0, <2>1 DEF PhaseInv, Recovering
    <2> QED BY <1>0, <2>1, <2>2 DEF PinInv, LoggedIsPinned
  <1>9. ASSUME NEW b \in Blocks, Load(b) PROVE PinInv'
    <2>1. /\ home' = home /\ pinned' = pinned /\ lh' = lh /\ buf' = buf
          /\ phase' = phase /\ tail' = tail /\ committing' = committing
          /\ cache' = [cache EXCEPT ![b] = home[b]]
      BY <1>9 DEF Load, disk
    <2> QED BY <1>0, <2>1, NothingAssumption DEF PinInv, LoggedIsPinned
  <1>10. ASSUME NEW b \in Blocks, Evict(b) PROVE PinInv'
    <2>1. /\ home' = home /\ pinned' = pinned /\ lh' = lh /\ buf' = buf
          /\ phase' = phase /\ tail' = tail /\ committing' = committing
          /\ cache' = [cache EXCEPT ![b] = None] /\ b \notin pinned
      BY <1>10 DEF Evict, disk
    <2> QED BY <1>0, <2>1 DEF PinInv, LoggedIsPinned
  <1>11. CASE Crash
    <2>1. /\ pinned' = {} /\ lh' = <<>> /\ phase' = "boot"
          /\ \A b \in Blocks : cache'[b] = None
      BY <1>11 DEF Crash
    <2> QED BY <2>1, EmptyIsSeq DEF PinInv, LoggedIsPinned
  <1>12. CASE UNCHANGED vars
    BY <1>a, <1>12 DEF vars, disk, memory
  <1> QED
    BY <1>1, <1>2, <1>3, <1>4, <1>5, <1>6, <1>7, <1>8, <1>9, <1>10, <1>11, <1>12
    DEF Next, Op, Commit

\* Reading and recycling of buffers does not change what is read.
LEMMA SameContents ==
  ASSUME Inv, NEW b \in Blocks, Load(b) \/ Evict(b), NEW c \in Blocks
  PROVE  Cached(c)' = Cached(c)
  <1>0. TypeOK /\ PinInv
    BY DEF Inv
  <1>1. CASE Load(b)
    BY <1>0, <1>1, NothingAssumption DEF Load, Cached, TypeOK, disk
  <1>2. CASE Evict(b)
    BY <1>0, <1>2, NothingAssumption DEF Evict, Cached, PinInv, TypeOK, disk
  <1> QED BY <1>1, <1>2

LEMMA CopyStep ==
  ASSUME Inv, [Next]_vars
  PROVE  CopyInv'
  <1>0. /\ TypeOK /\ PinInv /\ RoomInv /\ CallsInv /\ PhaseInv /\ CopyInv
        /\ Len(lh) \in Nat /\ Len(lh) < LOGSIZE /\ LOGSIZE \in Nat
    BY LogFits, LogAssumption DEF Inv
  <1> USE DEF TypeOK, OpPCs, Phases
  <1>a. ASSUME phase' = "none" PROVE CopyInv'
    BY <1>a DEF CopyInv
  <1>b. ASSUME \A i \in 1 .. Len(lh) : Cached(lh[i])' = Cached(lh[i]),
               home' = home, dlog' = dlog, lh' = lh, tail' = tail, phase' = phase,
               committing' = committing
        PROVE  CopyInv'
    <2>1. phase = "log" => tail <= Len(lh)
      BY <1>0 DEF PhaseInv
    <2>2. ASSUME phase = "log", NEW i \in 1 .. tail
          PROVE  i \in 1 .. Len(lh) /\ dlog[i] = Cached(lh[i])
      BY <1>0, <2>1, <2>2 DEF CopyInv
    <2> QED BY <1>0, <1>b, <2>2 DEF CopyInv
  <1>1. ASSUME NEW o \in Ops, BeginOp(o) \/ Op(o) PROVE CopyInv'
    <2>1. CASE BeginOp(o)
      BY <1>b, <2>1 DEF BeginOp, BeginOpUnless, Cached, disk
    <2>2. CASE Op(o) /\ ~EndOp(o)
      <3>1. phase = "none"
        BY <2>2, InsideIsQuiet DEF Op, Modify, LogCheck, LogAppend, FinishCommit, Open
      <3>2. phase' = phase
        BY <2>2 DEF Op, Modify, LogCheck, LogAppend, FinishCommit
      <3> QED BY <1>a, <3>1, <3>2
    <2>3. CASE EndOp(o)
      <3>1. phase = "none"
        BY <2>3, InsideIsQuiet DEF EndOp, Open
      <3>2. phase' = "none" \/ (phase' = "log" /\ tail' = 0)
        BY <2>3, <3>1 DEF EndOp
      <3> QED BY <3>2 DEF CopyInv
    <2> QED BY <1>1, <2>1, <2>2, <2>3
  <1>2. CASE WriteLog
    <2>0. home' = home /\ cache' = cache /\ lh' = lh /\ phase = "log" /\ tail <= Len(lh)
      BY <1>0, <1>2 DEF WriteLog, memory, PhaseInv
    <2>a. \A i \in 1 .. Len(lh) : Cached(lh[i])' = Cached(lh[i])
      BY <2>0 DEF Cached
    <2>1. CASE tail < Len(lh)
      <3>1. /\ dlog' = [dlog EXCEPT ![tail + 1] = Cached(lh[tail + 1])]
            /\ tail' = tail + 1 /\ phase' = "log"
        BY <1>2, <2>0, <2>1 DEF WriteLog
      <3>2. ASSUME NEW i \in 1 .. tail'
            PROVE  dlog'[i] = Cached(lh[i])'
        <4>1. i \in 1 .. Len(lh) /\ i \in 1 .. LOGSIZE
          BY <1>0, <2>1, <3>1
        <4>2. CASE i = tail + 1
          BY <1>0, <2>a, <3>1, <4>1, <4>2
        <4>3. CASE i # tail + 1
          <5>1. i \in 1 .. tail
            BY <1>0, <3>1, <4>3
          <5> QED BY <1>0, <2>0, <2>a, <3>1, <4>1, <4>3, <5>1 DEF CopyInv
        <4> QED BY <4>2, <4>3
      <3> QED BY <2>0, <3>1, <3>2 DEF CopyInv
    <2>2. CASE ~(tail < Len(lh))
      <3>1. dlog' = dlog /\ phase' = "head" /\ tail = Len(lh)
        BY <1>0, <1>2, <2>0, <2>2 DEF WriteLog
      <3> QED BY <1>0, <2>0, <2>a, <3>1 DEF CopyInv
    <2> QED BY <2>1, <2>2
  <1>3. CASE WriteHead
    <2>1. /\ home' = home /\ cache' = cache /\ lh' = lh /\ dlog' = dlog
          /\ phase = "head" /\ phase' = "install" /\ tail' = 0
      BY <1>3 DEF WriteHead, memory
    <2>2. \A i \in 1 .. Len(lh) : Cached(lh[i])' = Cached(lh[i])
      BY <2>1 DEF Cached
    <2> QED BY <1>0, <2>1, <2>2 DEF CopyInv
  <1>4. CASE Install
    <2>0. phase = "install" /\ lh' = lh /\ dlog' = dlog /\ committing' = committing /\ tail <= Len(lh)
      BY <1>0, <1>4 DEF Install, PhaseInv
    <2>1. CASE tail < Len(lh)
      <3> DEFINE b == lh[tail + 1]
      <3>1. tail + 1 \in 1 .. Len(lh) /\ b \in Blocks /\ dlog[tail + 1] \in Vals
        BY <1>0, <2>1
      <3>2. /\ home' = [home EXCEPT ![b] = dlog[tail + 1]]
            /\ cache' = [cache EXCEPT ![b] = dlog[tail + 1]]
            /\ tail' = tail + 1 /\ phase' = phase
        BY <1>4, <2>1 DEF Install
      <3>3. \A i \in 1 .. Len(lh) : lh[i] \in Blocks /\ (lh[i] = b <=> i = tail + 1)
        BY <1>0, <3>1 DEF RoomInv, Distinct
      <3> HIDE DEF b
      <3>4. ASSUME NEW i \in 1 .. tail' PROVE home'[lh[i]] = dlog[i]
        <4>1. i \in 1 .. Len(lh)
          BY <1>0, <3>1, <3>2
        <4>2. CASE i = tail + 1
          BY <1>0, <3>1, <3>2, <3>3, <4>1, <4>2
        <4>3. CASE i # tail + 1
          <5>1. i \in 1 .. tail
            BY <1>0, <3>2, <4>3
          <5> QED BY <1>0, <2>0, <3>2, <3>3, <4>1, <4>3, <5>1 DEF CopyInv
        <4> QED BY <4>2, <4>3
      <3>5. ASSUME committing, NEW i \in 1 .. Len(lh) PROVE dlog[i] = Cached(lh[i])'
        <4>1. dlog[i] = Cached(lh[i])
          BY <1>0, <2>0, <3>5 DEF CopyInv
        <4>2. CASE i = tail + 1
          BY <1>0, <2>0, <3>1, <3>2, <3>3, <4>2, NothingAssumption DEF Cached
        <4>3. CASE i # tail + 1
          BY <1>0, <2>0, <3>2, <3>3, <4>1, <4>3 DEF Cached
        <4> QED BY <4>2, <4>3
      <3> QED BY <2>0, <3>2, <3>4, <3>5 DEF CopyInv
    <2>2. CASE ~(tail < Len(lh))
      <3>1. home' = home /\ cache' = cache /\ tail' = tail /\ phase' = "clear"
        BY <1>4, <2>2 DEF Install
      <3>2. \A i \in 1 .. Len(lh) : Cached(lh[i])' = Cached(lh[i])
        BY <2>0, <3>1 DEF Cached
      <3> QED BY <1>0, <2>0, <3>1, <3>2 DEF CopyInv
    <2> QED BY <2>1, <2>2
  <1>5. CASE ClearLog
    BY <1>a, <1>5 DEF ClearLog
  <1>6. CASE ReadHead
    <2>1. phase = "boot" /\ phase' = "install" /\ tail' = 0 /\ committing' = committing
      BY <1>6 DEF ReadHead
    <2>2. ~committing
      BY <1>0, <2>1 DEF PhaseInv
    <2> QED BY <2>1, <2>2 DEF CopyInv
  <1>7. ASSUME NEW b \in Blocks, Load(b) \/ Evict(b) PROVE CopyInv'
    <2>1. /\ home' = home /\ dlog' = dlog /\ lh' = lh /\ tail' = tail /\ phase' = phase
          /\ committing' = committing
      BY <1>7 DEF Load, Evict, disk
    <2>2. \A i \in 1 .. Len(lh) : lh[i] \in Blocks
      BY <1>0
    <2>3. \A i \in 1 .. Len(lh) : Cached(lh[i])' = Cached(lh[i])
      BY <1>7, <2>1, <2>2, SameContents DEF Cached
    <2> QED BY <1>b, <2>1, <2>3
  <1>8. CASE Crash
    BY <1>8 DEF Crash, CopyInv
  <1>9. CASE UNCHANGED vars
    BY <1>b, <1>9 DEF vars, disk, memory, Cached
  <1> QED
    BY <1>1, <1>2, <1>3, <1>4, <1>5, <1>6, <1>7, <1>8, <1>9 DEF Next, Commit


-----------------------------------------------------------------------------
LEMMA InvInit == Init => Inv
  <1> SUFFICES ASSUME Init PROVE Inv
    OBVIOUS
  <1>0. Cardinality({}) = 0 /\ IsFiniteSet({}) /\ Len(<<>>) = 0
    BY FS_EmptySet
  <1>a. Open = {} /\ Committers = {} /\ Reserved = {}
    BY DEF Init, Open, Committers, Reserved
  <1>1. TypeOK
    <2>1. /\ lh \in Seq(Blocks) /\ dhead \in Seq(Blocks)
          /\ cache \in [Blocks -> Vals \cup {None}] /\ buf \in [Ops -> Blocks \cup {None}]
          /\ pc \in [Ops -> OpPCs] /\ wrote \in [Ops -> SUBSET Blocks] /\ pinned \subseteq Blocks
      BY EmptyIsSeq DEF Init, OpPCs
    <2>2. home \in [Blocks -> Vals] /\ dlog \in [1 .. LOGSIZE -> Vals]
      BY ZeroAssumption DEF Init
    <2>3. outstanding \in 0 .. Cardinality(Ops) /\ tail \in 0 .. LOGSIZE /\ phase \in Phases
      BY LogAssumption, FiniteCalls DEF Init, Phases
    <2>4. committing \in BOOLEAN /\ panicked \in BOOLEAN
      BY Zenon DEF Init
    <2> QED BY <2>1, <2>2, <2>3, <2>4 DEF TypeOK
  <1>2. CallsInv
    BY <1>0, <1>a DEF Init, CallsInv
  <1>3. PhaseInv
    BY <1>a DEF Init, PhaseInv, Recovering
  <1>4. RoomInv
    BY <1>0, <1>a, LongestIsShort DEF Init, RoomInv, Distinct
  <1>5. PinInv
    BY <1>0 DEF Init, PinInv, LoggedIsPinned, Rng
  <1>6. CopyInv
    BY DEF Init, CopyInv
  <1> QED BY <1>1, <1>2, <1>3, <1>4, <1>5, <1>6 DEF Inv, Init

LEMMA InvStep ==
  ASSUME Inv, [Next]_vars
  PROVE  Inv'
  BY TypeStep, CallsStep, PhaseStep, RoomStep, NoPanic, PinStep, CopyStep DEF Inv

LEMMA InvIsConsistent ==
  ASSUME Inv
  PROVE  Consistent
  <1>0. TypeOK /\ CallsInv /\ PhaseInv /\ PinInv
    BY DEF Inv
  <1>1. LogNeverFull
    BY LogFits, LogAssumption DEF LogNeverFull, Inv
  <1>2. CommitIsAlone
    <2> SUFFICES ASSUME committing
                 PROVE  outstanding = 0 /\ Cardinality(Committers) = 1
      BY DEF CommitIsAlone, Committers
    <2>1. PICK o \in Ops : Committers = {o}
      BY <1>0 DEF PhaseInv
    <2>2. Open = {}
      BY <1>0 DEF PhaseInv
    <2> QED BY <1>0, <2>1, <2>2, FS_Singleton, FS_EmptySet DEF CallsInv
  <1>3. CleanIsOnDisk
    BY <1>0 DEF PinInv, CleanIsOnDisk
  <1> QED BY <1>0, <1>1, <1>2, <1>3 DEF Consistent, PinInv

LEMMA Invariance == Spec => []Inv
  BY InvInit, InvStep, PTL DEF Spec

\* At whatever step of a call, a commit or a recovery the power fails, and however many
\* calls run: the log stays well formed and within its place (log_write() does not
\* panic), a commit is by one process with no call inside, a block whose only new copy
\* is in memory is not evicted, and what may be evicted is on disk.
THEOREM Consistency == Spec => []Consistent
  BY Invariance, InvIsConsistent, PTL


-----------------------------------------------------------------------------
(* The refinement: what recovery would leave, what a call reads, who is inside *)

Durable == [b \in Blocks |-> Recovered(b)]
Current == [b \in Blocks |-> IF Recovering THEN Recovered(b) ELSE Cached(b)]

LEMMA RecoveredIs ==
  /\ \A b \in Blocks : b \notin Rng(dhead) => Recovered(b) = home[b]
  /\ Distinct(dhead) => \A i \in 1 .. Len(dhead) : Recovered(dhead[i]) = dlog[i]
  BY DEF Recovered, Rng, Distinct

LEMMA StoreInitially == Init => Store!StoreInit
  <1> SUFFICES ASSUME Init PROVE Store!StoreInit
    OBVIOUS
  <1>1. Open = {} /\ Recovering /\ \A b \in Blocks : Recovered(b) = Zero
    BY DEF Init, Open, Recovering, Recovered, Rng
  <1> QED BY <1>1 DEF Store!StoreInit, Open

\* A step that changes neither the disk nor what a call reads.
LEMMA SameView ==
  ASSUME UNCHANGED disk, Recovering' = Recovering,
         \A b \in Blocks : Cached(b)' = Cached(b)
  PROVE  UNCHANGED <<Durable, Current>>
  BY DEF disk, Durable, Current, Recovered

LEMMA StoreStep ==
  ASSUME Inv, [Next]_vars
  PROVE  [Store!StoreNext]_<<Durable, Current, Open>>
  <1>0. /\ TypeOK /\ PinInv /\ RoomInv /\ CallsInv /\ PhaseInv /\ CopyInv
        /\ Len(lh) \in Nat
    BY LogFits DEF Inv
  <1>a. Open \in SUBSET Ops
    BY DEF Open
  <1> USE DEF TypeOK, OpPCs, Phases
  <1>1. ASSUME NEW o \in Ops, BeginOp(o)
        PROVE  [Store!StoreNext]_<<Durable, Current, Open>>
    <2>1. UNCHANGED <<Durable, Current>>
      BY <1>1, SameView DEF BeginOp, BeginOpUnless, disk, Recovering, Cached
    <2>2. Open' = Open \/ (o \notin Open /\ Open' = Open \cup {o})
      BY <1>0, <1>1 DEF BeginOp, BeginOpUnless, Open
    <2> QED BY <2>1, <2>2 DEF Store!StoreNext, Store!Begin, Durable, Current, Open
  <1>2. ASSUME NEW o \in Ops, NEW b \in Blocks, Modify(o, b)
        PROVE  [Store!StoreNext]_<<Durable, Current, Open>>
    <2>1. PICK v \in Vals : cache' = [cache EXCEPT ![b] = v]
      BY <1>2 DEF Modify
    <2>2. o \in Open /\ Open' = Open
      BY <1>0, <1>2 DEF Modify, Open
    <2>3. ~Recovering /\ ~Recovering' /\ UNCHANGED disk
      BY <1>2, <2>2, InsideIsQuiet DEF Modify, Recovering
    <2>4. Durable' = Durable
      BY <2>3 DEF Durable, Recovered, disk
    <2>5. Current' = [Current EXCEPT ![b] = v]
      BY <1>0, <2>1, <2>3, NothingAssumption DEF Current, Cached, disk
    <2>6. Store!Put(o, b, v)
      BY <2>2, <2>4, <2>5 DEF Store!Put, Durable, Current, Open
    <2> QED BY <2>6 DEF Store!StoreNext
  <1>3. ASSUME NEW o \in Ops, LogCheck(o) \/ LogAppend(o) \/ FinishCommit(o)
        PROVE  UNCHANGED <<Durable, Current, Open>>
    <2>1. Open' = Open
      BY <1>0, <1>3 DEF LogCheck, LogAppend, FinishCommit, Wake, Open
    <2>2. UNCHANGED disk /\ cache' = cache
      BY <1>3 DEF LogCheck, LogAppend, FinishCommit, memory, disk
    <2>3. Recovering' = Recovering
      BY <1>3 DEF LogCheck, LogAppend, FinishCommit, memory, Recovering
    <2> QED BY <2>1, <2>2, <2>3, SameView DEF Cached, disk
  <1>4. ASSUME NEW o \in Ops, EndOp(o)
        PROVE  [Store!StoreNext]_<<Durable, Current, Open>>
    <2>1. o \in Open /\ Open' = Open \ {o}
      BY <1>0, <1>4 DEF EndOp, Wake, Open
    <2>2. Recovering' = Recovering
      BY <1>4, <2>1, InsideIsQuiet DEF EndOp, Recovering
    <2>3. UNCHANGED <<Durable, Current>>
      BY <1>4, <2>2, SameView DEF EndOp, disk, Cached
    <2>4. Store!End(o)
      BY <2>1, <2>3 DEF Store!End, Durable, Current, Open
    <2> QED BY <2>4 DEF Store!StoreNext
  <1>5. CASE WriteLog
    <2>1. dhead = <<>> /\ dhead' = <<>> /\ home' = home /\ cache' = cache
      BY <1>0, <1>5 DEF WriteLog, memory, PhaseInv
    <2>2. ~Recovering /\ ~Recovering' /\ Open' = Open
      BY <1>0, <1>5 DEF WriteLog, memory, PhaseInv, Recovering, Open
    <2>3. UNCHANGED <<Durable, Current>>
      BY <2>1, <2>2 DEF Durable, Current, Recovered, Rng, Cached
    <2> QED BY <2>2, <2>3
  <1>6. CASE WriteHead
    <2>1. /\ committing /\ ~Recovering /\ ~Recovering' /\ Open = {} /\ Open' = Open
          /\ \A o \in Ops : buf[o] = None
      BY <1>0, <1>6, NobodyInside DEF WriteHead, memory, PhaseInv, Recovering, Open
    <2>2. home' = home /\ dlog' = dlog /\ cache' = cache /\ dhead' = lh /\ phase = "head"
      BY <1>6 DEF WriteHead, memory
    <2>3. Current' = Current
      BY <2>1, <2>2 DEF Current, Cached
    <2>4. ASSUME NEW b \in Blocks PROVE Recovered(b)' = Cached(b)
      <3>1. CASE b \in Rng(lh)
        <4>1. PICK i \in 1 .. Len(lh) : lh[i] = b
          BY <3>1 DEF Rng
        <4>2. Recovered(b)' = dlog[i]
          BY <1>0, <2>2, <4>1 DEF Recovered, RoomInv, Distinct, Rng
        <4> QED BY <1>0, <2>2, <4>1, <4>2 DEF CopyInv
      <3>2. CASE b \notin Rng(lh)
        <4>1. Recovered(b)' = home[b]
          BY <2>2, <3>2 DEF Recovered
        <4>2. cache[b] \in {None, home[b]}
          BY <1>0, <2>1, <3>2, NothingAssumption DEF PinInv
        <4> QED BY <4>1, <4>2 DEF Cached
      <3> QED BY <3>1, <3>2
    <2>5. Durable' = Current
      BY <2>1, <2>4 DEF Durable, Current
    <2>6. Store!Persist
      BY <2>1, <2>3, <2>5 DEF Store!Persist, Durable, Current, Open
    <2> QED BY <2>6 DEF Store!StoreNext
  <1>7. CASE Install
    <2>1. /\ dhead = lh /\ dhead' = lh /\ dlog' = dlog /\ tail \in Nat /\ phase = "install"
          /\ Recovering' = Recovering /\ Open' = Open
      BY <1>0, <1>7 DEF Install, PhaseInv, Recovering, Open
    <2>2. CASE ~(tail < Len(lh))
      <3>1. home' = home /\ cache' = cache
        BY <1>7, <2>2 DEF Install
      <3> QED BY <2>1, <3>1 DEF Durable, Current, Recovered, Cached
    <2>3. CASE tail < Len(lh)
      <3> DEFINE i == tail + 1
      <3>z. LOGSIZE \in Nat /\ Len(lh) < LOGSIZE
        BY LogFits, LogAssumption
      <3>0. i \in 1 .. Len(lh) /\ i \in 1 .. LOGSIZE
        BY <1>0, <2>1, <2>3, <3>z
      <3>d. lh[i] \in Blocks /\ dlog[i] \in Vals
        BY <1>0, <3>0
      <3>1. /\ home' = [home EXCEPT ![lh[i]] = dlog[i]]
            /\ cache' = [cache EXCEPT ![lh[i]] = dlog[i]]
        BY <1>7, <2>3 DEF Install
      <3>2. \A b \in Blocks : Recovered(b)' = Recovered(b)
        BY <1>0, <2>1, <3>0, <3>d, <3>1 DEF Recovered, Rng
      <3>3. committing => \A b \in Blocks : Cached(b)' = Cached(b)
        BY <1>0, <2>1, <3>0, <3>d, <3>1, NothingAssumption DEF CopyInv, Cached
      <3>4. Recovering \/ committing
        BY <2>1 DEF Recovering
      <3> QED BY <2>1, <3>2, <3>3, <3>4 DEF Durable, Current
    <2> QED BY <2>2, <2>3
  <1>8. CASE ClearLog
    <2>1. /\ dhead = lh /\ dhead' = <<>> /\ home' = home /\ cache' = cache /\ phase = "clear"
          /\ tail = Len(lh) /\ pinned = {} /\ ~Recovering' /\ Open' = Open
          /\ \A o \in Ops : buf[o] = None
      BY <1>0, <1>8, NobodyInside DEF ClearLog, PhaseInv, PinInv, Recovering, Open
    <2>2. \A b \in Blocks : Recovered(b)' = home[b] /\ Recovered(b) = home[b]
      <3>1. \A i \in 1 .. Len(dhead) : Recovered(dhead[i]) = home[dhead[i]]
        BY <1>0, <2>1, RecoveredIs DEF CopyInv, RoomInv
      <3>2. \A b \in Rng(dhead) : Recovered(b) = home[b]
        BY <3>1 DEF Rng
      <3>3. \A b \in Blocks : Recovered(b)' = home[b]
        BY <2>1, EmptyIsSeq DEF Recovered, Rng
      <3> QED BY <3>2, <3>3, RecoveredIs
    <2>3. Recovering => \A b \in Blocks : Cached(b)' = home[b]
      BY <1>0, <2>1, NothingAssumption DEF PinInv, Cached
    <2>4. \A b \in Blocks : Cached(b)' = Cached(b)
      BY <2>1 DEF Cached
    <2> QED BY <2>1, <2>2, <2>3, <2>4 DEF Durable, Current
  <1>9. CASE ReadHead
    <2>1. Recovering /\ Recovering' /\ UNCHANGED disk /\ Open' = Open
      BY <1>0, <1>9 DEF ReadHead, PhaseInv, Recovering, Open
    <2> QED BY <2>1 DEF Durable, Current, Recovered, disk
  <1>10. ASSUME NEW b \in Blocks, Load(b) \/ Evict(b)
         PROVE  UNCHANGED <<Durable, Current, Open>>
    <2>1. Recovering' = Recovering /\ UNCHANGED disk /\ Open' = Open
      BY <1>10 DEF Load, Evict, disk, Recovering, Open
    <2>2. \A c \in Blocks : Cached(c)' = Cached(c)
      BY <1>10, SameContents
    <2> QED BY <2>1, <2>2, SameView
  <1>11. CASE Crash
    <2>1. Recovering' /\ UNCHANGED disk /\ Open' = {}
      BY <1>11 DEF Crash, Recovering, Open
    <2>2. Durable' = Durable /\ Current' = Durable
      BY <2>1 DEF Durable, Current, Recovered, disk
    <2>3. Store!LosePower
      BY <2>1, <2>2 DEF Store!LosePower, Durable, Current, Open
    <2> QED BY <2>3 DEF Store!StoreNext
  <1>12. CASE UNCHANGED vars
    BY <1>12, SameView DEF vars, memory, disk, Open, Recovering, Cached
  <1> QED
    BY <1>1, <1>2, <1>3, <1>4, <1>5, <1>6, <1>7, <1>8, <1>9, <1>10, <1>11, <1>12
    DEF Next, Op, Commit

\* The log implements the durable store, whatever the sizes and however many the calls:
\* the only step at which the disk, as a reboot would find it, changes is the write of
\* the header, and it then holds the effects of whole calls, and of all that ended.
THEOREM Refinement == Spec => ImplementsStore
  <1>1. Inv /\ [Next]_vars => [Store!StoreNext]_<<Durable, Current, Open>>
    BY StoreStep
  <1>2. [Store!StoreNext]_<<Durable, Current, Open>> => [Store!StoreNext]_(Store!StoreVars)
    BY DEF Durable, Current, Open, Store!StoreVars
  <1> QED
    BY <1>1, <1>2, StoreInitially, Invariance, PTL
    DEF Spec, ImplementsStore, Store!StoreSpec

=============================================================================
