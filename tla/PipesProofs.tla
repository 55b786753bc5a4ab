---------------------------- MODULE PipesProofs ----------------------------
(***************************************************************************)
(* Proofs about Pipes, for every number of processes and threads, every    *)
(* size of the pipe and width of its counters, and every size of call.     *)
(***************************************************************************)
EXTENDS Pipes, FiniteSetTheorems, TLAPS

Modulus == 2 ^ BITS

\* The processes whose descriptors lead to e.
Holders(e) == {p \in Procs : e \in fds[p]}

\* A file counts its descriptors, and those that threads left behind.
RefInv ==
    \A e \in Ends :
        /\ Cardinality(Holders(e)) <= ref[e]
        /\ ~leaked => ref[e] = Cardinality(Holders(e))

\* One process closes an end, when no descriptor is left.
ClosingInv ==
    /\ \A p \in Procs :
        closing[p] # None => ref[closing[p]] = 0 /\ pc[p] \in {"close", "exit"}
    /\ \A p, q \in Procs : closing[p] # None /\ closing[p] = closing[q] => p = q

\* A free slot has no descriptors but those that a thread left.
LifeInv ==
    \A p \in Procs :
        /\ pc[p] # "user" => life[p] = "live"
        /\ ~leaked /\ life[p] = "free" => fds[p] = {}

\* An end stays open until its last close has got to it.
OpenInv ==
    /\ \A e \in Ends : open[e] <=> ref[e] > 0 \/ \E p \in Procs : closing[p] = e
    /\ freed <=> \A e \in Ends : ~open[e]

\* Who writes has something to write.
WantInv == \A p \in Procs : pc[p] \in {"write", "wsleep"} => want[p] > 0

Inv == TypeOK /\ RefInv /\ ClosingInv /\ LifeInv /\ OpenInv /\ WantInv /\ NoLostWakeup

-----------------------------------------------------------------------------
LEMMA Sizes ==
  /\ Modulus \in Nat \ {0} /\ PIPESIZE \in Nat \ {0} /\ PIPESIZE < Modulus
  /\ Reads \subseteq Nat \ {0} /\ Writes \subseteq Nat \ {0}
  <1>1. BITS \in Nat /\ PIPESIZE \in Nat /\ PIPESIZE < 2 ^ BITS
    BY PipeAssumption
  <1>2. 2 ^ BITS \in Nat \ {0}
    BY <1>1
  <1>3. PIPESIZE \in Nat \ {0} /\ Reads \subseteq Nat \ {0} /\ Writes \subseteq Nat \ {0}
    BY PipeAssumption
  <1> QED BY <1>1, <1>2, <1>3 DEF Modulus

\* The counters stay in their range.
LEMMA WrapRange ==
  ASSUME NEW n \in Int
  PROVE  Wrap(n) \in 0 .. Modulus - 1
  BY Sizes DEF Wrap, Modulus

LEMMA RoomIs ==
  ASSUME TypeOK
  PROVE  Used \in 0 .. Modulus - 1 /\ Room \in Int /\ Room = PIPESIZE - Used
  <1>1. nread \in Int /\ nwrite \in Int
    BY Sizes DEF TypeOK, Modulus
  <1>2. Used \in 0 .. Modulus - 1
    BY <1>1, WrapRange DEF Used
  <1> QED BY <1>2, Sizes DEF Room

\* What is stored leaves the ring a ring.
LEMMA StoreIs ==
  ASSUME TypeOK, NEW n \in Int, Store(n)
  PROVE  /\ nread' = nread /\ nwrite' \in 0 .. Modulus - 1 /\ nwrite' = (nwrite + n) % Modulus
         /\ data' \in [0 .. PIPESIZE - 1 -> Bytes]
  <1>1. nwrite \in Int /\ data \in [0 .. PIPESIZE - 1 -> Bytes]
    BY Sizes DEF TypeOK, Modulus
  <1>2. nwrite' = Wrap(nwrite + n) /\ nread' = nread
    BY DEF Store
  <1>3. PICK s \in [1 .. n -> Bytes] :
            data' = [i \in DOMAIN data |->
                        IF \E j \in 1 .. n : i = Wrap(nwrite + j - 1) % PIPESIZE
                        THEN s[CHOOSE j \in 1 .. n : i = Wrap(nwrite + j - 1) % PIPESIZE]
                        ELSE data[i]]
    BY DEF Store
  <1>4. ASSUME NEW i, \E j \in 1 .. n : i = Wrap(nwrite + j - 1) % PIPESIZE
        PROVE  s[CHOOSE j \in 1 .. n : i = Wrap(nwrite + j - 1) % PIPESIZE] \in Bytes
    <2>1. (CHOOSE j \in 1 .. n : i = Wrap(nwrite + j - 1) % PIPESIZE) \in 1 .. n
      BY <1>4
    <2> QED BY <2>1
  <1>5. \A i \in 0 .. PIPESIZE - 1 :
          (IF \E j \in 1 .. n : i = Wrap(nwrite + j - 1) % PIPESIZE
           THEN s[CHOOSE j \in 1 .. n : i = Wrap(nwrite + j - 1) % PIPESIZE]
           ELSE data[i]) \in Bytes
    BY <1>1, <1>4
  <1>6. data' \in [0 .. PIPESIZE - 1 -> Bytes]
    BY <1>1, <1>3, <1>5
  <1>7. Wrap(nwrite + n) = (nwrite + n) % Modulus
    BY DEF Wrap, Modulus
  <1> QED BY <1>1, <1>2, <1>6, <1>7, WrapRange

LEMMA HoldersFinite ==
  ASSUME NEW S \in SUBSET Procs
  PROVE  IsFiniteSet(S) /\ Cardinality(S) \in Nat
  BY ProcsAssumption, FS_Subset, FS_CardinalityType

-----------------------------------------------------------------------------
\* A step that makes, closes and frees nothing.
Quiet ==
    \E p \in Procs :
        \/ Exit(p) \/ Kill(p) \/ Call(p, "read", "r", Reads) \/ Call(p, "write", "w", Writes)
        \/ ReadEmpty(p) \/ ReadCopy(p) \/ WriteAll(p) \/ WriteFull(p) \/ WriteFails(p)

LEMMA StepsAre ==
  ASSUME [Next]_vars
  PROVE  \/ \E p, q \in Procs : \E b \in BOOLEAN : Copy(p, q, b)
         \/ \E p \in Procs, e \in Ends : Close(p, e) \/ ExitClose(p, e) \/ PipeClose(p, e)
         \/ \E p \in Procs : ExitZombie(p)
         \/ Quiet
         \/ UNCHANGED vars
  BY DEF Next, KernelStep, UserStep, Fork, Clone, Quiet

PCs == {"user", "read", "rsleep", "write", "wsleep", "close", "exit"}

\* Where a wakeup takes the processes.
LEMMA WakeupIs ==
  ASSUME TypeOK, NEW p \in Procs, NEW c \in PCs, NEW from, NEW to \in PCs, Wakeup(p, c, from, to)
  PROVE  /\ pc' \in [Procs -> PCs] /\ pc'[p] = c
         /\ \A q \in Procs \ {p} : pc'[q] = IF pc[q] = from THEN to ELSE pc[q]
  BY DEF Wakeup, TypeOK, PCs

LEMMA QuietPc ==
  ASSUME TypeOK, Quiet
  PROVE  /\ pc' \in [Procs -> PCs]
         /\ \A q \in Procs :
              /\ pc[q] \in {"close", "exit"} => pc'[q] = pc[q]
              /\ pc'[q] # "user" => pc[q] # "user" \/ life[q] = "live"
         /\ UNCHANGED <<life, thread, fds, closing, ref, open, freed, leaked>>
  <1>1. ASSUME NEW p \in Procs, NEW c \in PCs, pc[p] \notin {"close", "exit"}, life[p] = "live",
               pc' = [pc EXCEPT ![p] = c]
        PROVE  /\ pc' \in [Procs -> PCs]
               /\ \A q \in Procs :
                    /\ pc[q] \in {"close", "exit"} => pc'[q] = pc[q]
                    /\ pc'[q] # "user" => pc[q] # "user" \/ life[q] = "live"
    BY <1>1 DEF TypeOK, PCs
  <1>2. ASSUME NEW p \in Procs, NEW c \in PCs, pc[p] \in {"read", "write"},
               NEW from \in {"rsleep", "wsleep"}, NEW to \in PCs, Wakeup(p, c, from, to)
        PROVE  /\ pc' \in [Procs -> PCs]
               /\ \A q \in Procs :
                    /\ pc[q] \in {"close", "exit"} => pc'[q] = pc[q]
                    /\ pc'[q] # "user" => pc[q] # "user" \/ life[q] = "live"
    BY <1>2, WakeupIs DEF PCs
  <1>3. ASSUME NEW p \in Procs, \/ Exit(p) \/ Call(p, "read", "r", Reads)
                                \/ Call(p, "write", "w", Writes)
        PROVE  /\ pc' \in [Procs -> PCs]
               /\ \A q \in Procs :
                    /\ pc[q] \in {"close", "exit"} => pc'[q] = pc[q]
                    /\ pc'[q] # "user" => pc[q] # "user" \/ life[q] = "live"
    BY <1>1, <1>3 DEF Exit, Call, InUser, Goto, PCs
  <1>4. ASSUME NEW p \in Procs, Kill(p)
        PROVE  /\ pc' \in [Procs -> PCs]
               /\ \A q \in Procs :
                    /\ pc[q] \in {"close", "exit"} => pc'[q] = pc[q]
                    /\ pc'[q] # "user" => pc[q] # "user" \/ life[q] = "live"
    BY <1>4 DEF Kill, TypeOK, PCs
  <1>5. ASSUME NEW p \in Procs, ReadEmpty(p)
        PROVE  /\ pc' \in [Procs -> PCs]
               /\ \A q \in Procs :
                    /\ pc[q] \in {"close", "exit"} => pc'[q] = pc[q]
                    /\ pc'[q] # "user" => pc[q] # "user" \/ life[q] = "live"
    BY <1>5 DEF ReadEmpty, Goto, TypeOK, PCs
  <1>6. ASSUME NEW p \in Procs, ReadCopy(p) \/ WriteAll(p) \/ WriteFull(p)
        PROVE  /\ pc' \in [Procs -> PCs]
               /\ \A q \in Procs :
                    /\ pc[q] \in {"close", "exit"} => pc'[q] = pc[q]
                    /\ pc'[q] # "user" => pc[q] # "user" \/ life[q] = "live"
    <2>1. CASE ReadCopy(p)
      BY <1>2, <2>1 DEF ReadCopy, WakeWriters, PCs
    <2>2. CASE WriteAll(p)
      BY <1>2, <2>2 DEF WriteAll, WakeReaders, PCs
    <2>3. CASE WriteFull(p)
      BY <1>2, <2>3 DEF WriteFull, WakeReaders, PCs
    <2> QED BY <1>6, <2>1, <2>2, <2>3
  <1>7. ASSUME NEW p \in Procs, WriteFails(p)
        PROVE  /\ pc' \in [Procs -> PCs]
               /\ \A q \in Procs :
                    /\ pc[q] \in {"close", "exit"} => pc'[q] = pc[q]
                    /\ pc'[q] # "user" => pc[q] # "user" \/ life[q] = "live"
    BY <1>7 DEF WriteFails, Goto, TypeOK, PCs
  <1>8. UNCHANGED <<life, thread, fds, closing, ref, open, freed, leaked>>
    BY DEF Quiet, Exit, Kill, Call, ReadEmpty, ReadCopy, WriteAll, WriteFull, WriteFails
  <1> QED BY <1>3, <1>4, <1>5, <1>6, <1>7, <1>8 DEF Quiet

LEMMA TypeStep ==
  ASSUME Inv, [Next]_vars
  PROVE  TypeOK'
  <1>0. TypeOK /\ RefInv /\ ClosingInv /\ WantInv
    BY DEF Inv
  <1>1. life' \in [Procs -> {"free", "live"}] /\ fds' \in [Procs -> SUBSET Ends]
    <2>1. \A p, q \in Procs : \A b \in BOOLEAN :
            Copy(p, q, b) => life' \in [Procs -> {"free", "live"}] /\ fds' \in [Procs -> SUBSET Ends]
      BY <1>0 DEF Copy, TypeOK
    <2>2. ASSUME NEW p \in Procs, NEW e \in Ends,
                 Close(p, e) \/ ExitClose(p, e) \/ PipeClose(p, e)
          PROVE  life' \in [Procs -> {"free", "live"}] /\ fds' \in [Procs -> SUBSET Ends]
      <3>1. life' = life /\ (fds' = fds \/ fds' = [fds EXCEPT ![p] = fds[p] \ {e}])
        BY <2>2 DEF Close, ExitClose, Drop, PipeClose
      <3>2. fds[p] \ {e} \in SUBSET Ends
        BY <1>0 DEF TypeOK
      <3> QED BY <1>0, <3>1, <3>2 DEF TypeOK
    <2>3. \A p \in Procs :
            ExitZombie(p) => life' \in [Procs -> {"free", "live"}] /\ fds' \in [Procs -> SUBSET Ends]
      BY <1>0 DEF ExitZombie, Collected, TypeOK
    <2> QED BY <1>0, <2>1, <2>2, <2>3, StepsAre, QuietPc DEF TypeOK, vars, procs
  <1>2. thread' \in [Procs -> BOOLEAN] /\ killed' \in [Procs -> BOOLEAN]
    <2>1. thread' = thread \/ \E p \in Procs, b \in BOOLEAN : thread' = [thread EXCEPT ![p] = b]
      BY StepsAre, QuietPc, <1>0
      DEF Copy, Close, ExitClose, Drop, PipeClose, ExitZombie, Collected, vars, procs
    <2>2. killed' = killed \/ \E p \in Procs, b \in BOOLEAN : killed' = [killed EXCEPT ![p] = b]
      BY StepsAre
      DEF Copy, Close, ExitClose, Drop, PipeClose, ExitZombie, Collected, Quiet, Exit, Kill, Call,
          ReadEmpty, ReadCopy, WriteAll, WriteFull, WriteFails, vars, procs
    <2>3. thread' \in [Procs -> BOOLEAN]
      BY <1>0, <2>1 DEF TypeOK
    <2>4. killed' \in [Procs -> BOOLEAN]
      BY <1>0, <2>2 DEF TypeOK
    <2> QED BY <2>3, <2>4
  <1>3. pc' \in [Procs -> PCs]
    <2>1. \A p, q \in Procs : \A b \in BOOLEAN : Copy(p, q, b) => pc' \in [Procs -> PCs]
      BY <1>0 DEF Copy, Goto, TypeOK, PCs
    <2>2. \A p \in Procs, e \in Ends :
            Close(p, e) \/ ExitClose(p, e) => pc' \in [Procs -> PCs]
      BY <1>0 DEF Close, ExitClose, Goto, TypeOK, PCs
    <2>3. ASSUME NEW p \in Procs, NEW e \in Ends, PipeClose(p, e)
          PROVE  pc' \in [Procs -> PCs]
      <3>1. \E c \in PCs : WakeReaders(p, c) \/ WakeWriters(p, c)
        BY <1>0, <2>3 DEF PipeClose, TypeOK, PCs
      <3> QED BY <1>0, <3>1, WakeupIs DEF WakeReaders, WakeWriters, PCs
    <2>4. \A p \in Procs : ExitZombie(p) => pc' \in [Procs -> PCs]
      BY <1>0 DEF ExitZombie, Collected, Goto, TypeOK, PCs
    <2> QED BY <1>0, <2>1, <2>2, <2>3, <2>4, StepsAre, QuietPc DEF TypeOK, PCs, vars, procs
  <1>4. want' \in [Procs -> Nat]
    <2>1. ASSUME NEW p \in Procs, WriteFull(p)
          PROVE  want' \in [Procs -> Nat]
      <3>1. want[p] \in Nat /\ Room \in Int /\ want[p] > Room /\ want[p] - Room \in Nat
        BY <1>0, <2>1, RoomIs DEF WriteFull, TypeOK
      <3> QED BY <1>0, <2>1, <3>1 DEF WriteFull, TypeOK
    <2>2. ASSUME NEW p \in Procs, NEW c, NEW e, NEW sizes \in SUBSET Nat, Call(p, c, e, sizes)
          PROVE  want' \in [Procs -> Nat]
      BY <1>0, <2>2 DEF Call, TypeOK
    <2>3. Reads \in SUBSET Nat /\ Writes \in SUBSET Nat
      BY Sizes
    <2>4. want' = want \/ (\E p \in Procs : want' = [want EXCEPT ![p] = 0])
          \/ want' \in [Procs -> Nat]
      BY <2>1, <2>2, <2>3, StepsAre
      DEF Copy, Close, ExitClose, Drop, PipeClose, ExitZombie, Collected, Quiet, Exit, Kill, Leave,
          ReadEmpty, ReadCopy, WriteAll, WriteFails, vars, procs
    <2> QED BY <1>0, <2>4 DEF TypeOK
  <1>5. closing' \in [Procs -> Ends \cup {None}]
    <2>1. \/ closing' = closing
          \/ \E p \in Procs, c \in Ends \cup {None} : closing' = [closing EXCEPT ![p] = c]
      BY <1>0, StepsAre, QuietPc
      DEF Copy, Close, ExitClose, Drop, PipeClose, ExitZombie, Collected, vars, procs
    <2> QED BY <1>0, <2>1 DEF TypeOK
  <1>6. ref' \in [Ends -> Nat]
    <2>1. ASSUME NEW p \in Procs, NEW e \in Ends, e \in fds[p], Drop(p, e)
          PROVE  ref' \in [Ends -> Nat]
      <3>1. Holders(e) \in SUBSET Procs /\ Holders(e) # {} /\ ref[e] \in Nat
        BY <1>0, <2>1 DEF Holders, TypeOK
      <3>2. Cardinality(Holders(e)) # 0
        BY <3>1, HoldersFinite, FS_EmptySet
      <3>3. ref[e] - 1 \in Nat
        BY <1>0, <3>1, <3>2, HoldersFinite DEF RefInv
      <3> QED BY <1>0, <2>1, <3>3 DEF Drop, TypeOK
    <2>2. \A p, q \in Procs : \A b \in BOOLEAN : Copy(p, q, b) => ref' \in [Ends -> Nat]
      BY <1>0 DEF Copy, TypeOK
    <2>3. ASSUME NEW p \in Procs, NEW e \in Ends, Close(p, e) \/ ExitClose(p, e) \/ PipeClose(p, e)
          PROVE  ref' \in [Ends -> Nat]
      <3>1. ref' = ref \/ (e \in fds[p] /\ Drop(p, e))
        BY <2>3 DEF Close, ExitClose, PipeClose
      <3> QED BY <1>0, <2>1, <3>1 DEF TypeOK
    <2>4. ASSUME UNCHANGED ref PROVE ref' \in [Ends -> Nat]
      BY <1>0, <2>4 DEF TypeOK
    <2>5. (\A p \in Procs : ExitZombie(p) => UNCHANGED ref) /\ (UNCHANGED vars => UNCHANGED ref)
      BY DEF ExitZombie, Collected, vars
    <2>6. Quiet => UNCHANGED ref
      BY <1>0, QuietPc
    <2> QED BY <2>2, <2>3, <2>4, <2>5, <2>6, StepsAre
  <1>7. {nread', nwrite'} \subseteq 0 .. Modulus - 1 /\ data' \in [0 .. PIPESIZE - 1 -> Bytes]
    <2>0. {nread, nwrite} \subseteq 0 .. Modulus - 1 /\ data \in [0 .. PIPESIZE - 1 -> Bytes]
      BY <1>0 DEF TypeOK, Modulus
    <2>1. ASSUME NEW p \in Procs, ReadCopy(p)
          PROVE  nread' \in 0 .. Modulus - 1 /\ nwrite' = nwrite /\ data' = data
      <3>1. nread + Lesser(want[p], Used) \in Int
        BY <1>0, <2>0, RoomIs, Sizes DEF TypeOK, Lesser
      <3> QED BY <2>1, <3>1, WrapRange DEF ReadCopy
    <2>2. ASSUME NEW p \in Procs, WriteAll(p) \/ WriteFull(p) \/ WriteFails(p)
          PROVE  /\ nread' = nread /\ nwrite' \in 0 .. Modulus - 1
                 /\ data' \in [0 .. PIPESIZE - 1 -> Bytes]
      <3>1. want[p] \in Int /\ Room \in Int
        BY <1>0, RoomIs DEF TypeOK
      <3> QED BY <1>0, <2>2, <3>1, StoreIs DEF WriteAll, WriteFull, WriteFails
    <2>3. \/ UNCHANGED ring
          \/ \E p \in Procs : ReadCopy(p) \/ WriteAll(p) \/ WriteFull(p) \/ WriteFails(p)
      BY StepsAre
      DEF Copy, Close, ExitClose, Drop, PipeClose, ExitZombie, Collected, Quiet, Exit, Kill, Call,
          ReadEmpty, vars
    <2> QED BY <2>0, <2>1, <2>2, <2>3 DEF ring
  <1>8. open' \in [Ends -> BOOLEAN]
    BY <1>0, StepsAre, QuietPc
    DEF Copy, Close, ExitClose, Drop, PipeClose, ExitZombie, Collected, TypeOK, vars
  <1>9. freed' \in BOOLEAN
    <2>1. freed' = freed \/ freed' = TRUE \/ freed' = FALSE
      BY StepsAre, QuietPc
      DEF Copy, Close, ExitClose, Drop, PipeClose, ExitZombie, Collected, vars
    <2>2. freed \in BOOLEAN
      BY <1>0 DEF TypeOK
    <2> QED BY <2>1, <2>2, Zenon
  <1>10. cutShort' \in BOOLEAN
    <2>1. cutShort' = cutShort \/ cutShort' = TRUE \/ cutShort' = FALSE
      BY StepsAre
      DEF Copy, Close, ExitClose, Drop, PipeClose, ExitZombie, Collected, Quiet, Exit, Kill, Call,
          ReadEmpty, ReadCopy, WriteAll, WriteFull, WriteFails, vars
    <2>2. cutShort \in BOOLEAN
      BY <1>0 DEF TypeOK
    <2> QED BY <2>1, <2>2, Zenon
  <1>11. leaked' \in BOOLEAN
    <2>1. leaked' = leaked \/ leaked' = TRUE \/ leaked' = FALSE
      BY StepsAre, QuietPc
      DEF Copy, Close, ExitClose, Drop, PipeClose, ExitZombie, vars
    <2>2. leaked \in BOOLEAN
      BY <1>0 DEF TypeOK
    <2> QED BY <2>1, <2>2, Zenon
  <1> QED BY <1>1, <1>2, <1>3, <1>4, <1>5, <1>6, <1>7, <1>8, <1>9, <1>10, <1>11
      DEF TypeOK, PCs, Modulus


\* fileclose() drops one of the descriptors that are counted.
LEMMA DropIs ==
  ASSUME Inv, NEW p \in Procs, NEW e \in Ends, e \in fds[p], Drop(p, e), closing[p] = None
  PROVE  /\ RefInv' /\ OpenInv'
         /\ \A q \in Procs : closing'[q] # None => ref'[closing'[q]] = 0
         /\ \A q, r \in Procs : closing'[q] # None /\ closing'[q] = closing'[r] => q = r
         /\ closing'[p] # None <=> ref[e] = 1
         /\ \A q \in Procs \ {p} : closing'[q] = closing[q]
         /\ \A q \in Procs : fds[q] = {} => fds'[q] = {}
  <1>0. TypeOK /\ RefInv /\ ClosingInv /\ OpenInv
    BY DEF Inv
  <1>1. /\ fds' = [fds EXCEPT ![p] = @ \ {e}] /\ ref' = [ref EXCEPT ![e] = @ - 1]
        /\ closing' = [closing EXCEPT ![p] = IF ref[e] = 1 THEN e ELSE None]
        /\ UNCHANGED <<open, freed, leaked>>
    BY DEF Drop
  <1>2. Holders(e)' = Holders(e) \ {p} /\ p \in Holders(e)
    BY <1>0, <1>1 DEF Holders, TypeOK
  <1>3. \A d \in Ends \ {e} : Holders(d)' = Holders(d)
    BY <1>0, <1>1 DEF Holders, TypeOK
  <1>4. /\ Cardinality(Holders(e)) \in Nat /\ IsFiniteSet(Holders(e))
        /\ Cardinality(Holders(e) \ {p}) = Cardinality(Holders(e)) - 1
    <2>1. Holders(e) \in SUBSET Procs
      BY DEF Holders
    <2> QED BY <1>2, <2>1, HoldersFinite, FS_RemoveElement
  <1>5. ref[e] \in Nat /\ ref[e] >= 1
    <2>1. Cardinality(Holders(e)) # 0
      BY <1>2, <1>4, FS_EmptySet
    <2> QED BY <1>0, <1>4, <2>1 DEF RefInv, TypeOK
  <1>6. RefInv'
    <2>1. \A d \in Ends : /\ Cardinality(Holders(d)') <= ref'[d]
                          /\ ~leaked => ref'[d] = Cardinality(Holders(d)')
      <3> SUFFICES ASSUME NEW d \in Ends
                   PROVE  /\ Cardinality(Holders(d)') <= ref'[d]
                          /\ ~leaked => ref'[d] = Cardinality(Holders(d)')
        OBVIOUS
      <3>1. CASE d = e
        <4>1. ref'[e] = ref[e] - 1 /\ Cardinality(Holders(e)') = Cardinality(Holders(e)) - 1
          BY <1>0, <1>1, <1>2, <1>4 DEF TypeOK
        <4>2. /\ Cardinality(Holders(e)) <= ref[e]
              /\ ~leaked => ref[e] = Cardinality(Holders(e))
          BY <1>0 DEF RefInv
        <4>3. /\ Cardinality(Holders(e)') <= ref'[e]
              /\ ~leaked => ref'[e] = Cardinality(Holders(e)')
          BY <1>4, <1>5, <4>1, <4>2
        <4> QED BY <3>1, <4>3
      <3>2. CASE d # e
        BY <1>0, <1>1, <1>3, <3>2 DEF RefInv, TypeOK
      <3> QED BY <3>1, <3>2
    <2> QED BY <1>1, <2>1 DEF RefInv
  <1>7. \A q \in Procs : closing[q] # e
    BY <1>0, <1>5, NoneAssumption DEF ClosingInv
  <1>8. \A q \in Procs : closing'[q] # None => ref'[closing'[q]] = 0
    <2> SUFFICES ASSUME NEW q \in Procs, closing'[q] # None PROVE ref'[closing'[q]] = 0
      OBVIOUS
    <2>1. CASE q = p
      BY <1>0, <1>1, <1>5, <2>1 DEF TypeOK
    <2>2. CASE q # p
      BY <1>0, <1>1, <1>7, <2>2 DEF ClosingInv, TypeOK
    <2> QED BY <2>1, <2>2
  <1>9. \A q, r \in Procs : closing'[q] # None /\ closing'[q] = closing'[r] => q = r
    BY <1>0, <1>1, <1>7 DEF ClosingInv, TypeOK
  <1>10. /\ closing'[p] # None <=> ref[e] = 1
         /\ \A q \in Procs \ {p} : closing'[q] = closing[q]
         /\ \A q \in Procs : fds[q] = {} => fds'[q] = {}
    BY <1>0, <1>1, NoneAssumption DEF TypeOK
  <1>11. OpenInv'
    <2>1. \A d \in Ends : open[d] <=> ref'[d] > 0 \/ \E q \in Procs : closing'[q] = d
      <3> SUFFICES ASSUME NEW d \in Ends
                   PROVE  open[d] <=> ref'[d] > 0 \/ \E q \in Procs : closing'[q] = d
        OBVIOUS
      <3>1. CASE d = e
        <4>1. open[e]
          BY <1>0, <1>5 DEF OpenInv
        <4>2. ref'[e] > 0 \/ closing'[p] = e
          BY <1>0, <1>1, <1>5 DEF TypeOK
        <4> QED BY <3>1, <4>1, <4>2
      <3>2. CASE d # e
        <4>1. ref'[d] = ref[d]
          BY <1>0, <1>1, <3>2 DEF TypeOK
        <4>2. \A q \in Procs : closing'[q] = d <=> closing[q] = d
          BY <1>0, <1>1, <3>2, NoneAssumption DEF TypeOK
        <4> QED BY <1>0, <4>1, <4>2 DEF OpenInv
      <3> QED BY <3>1, <3>2
    <2> QED BY <1>0, <1>1, <2>1 DEF OpenInv
  <1> QED BY <1>6, <1>8, <1>9, <1>10, <1>11

\* Descriptors, references, ends and the pipe agree.
CountInv == RefInv /\ ClosingInv /\ LifeInv /\ OpenInv

LEMMA CountStep ==
  ASSUME Inv, [Next]_vars
  PROVE  CountInv'
  <1>0. TypeOK /\ RefInv /\ ClosingInv /\ LifeInv /\ OpenInv
    BY DEF Inv
  <1>1. ASSUME NEW p \in Procs, NEW q \in Procs, NEW b \in BOOLEAN, Copy(p, q, b)
        PROVE  CountInv'
    <2>1. /\ life[p] = "live" /\ life[q] = "free"
          /\ life' = [life EXCEPT ![q] = "live"]
          /\ fds' = [fds EXCEPT ![q] = @ \cup fds[p]]
          /\ ref' = [e \in Ends |-> IF e \in fds[p] THEN ref[e] + 1 ELSE ref[e]]
          /\ pc' = [pc EXCEPT ![q] = "user"]
          /\ UNCHANGED <<closing, open, freed, leaked>>
      BY <1>1 DEF Copy, InUser, Goto
    <2>2. pc[q] = "user" /\ closing[q] = None
      BY <1>0, <2>1 DEF LifeInv, ClosingInv
    <2>3. \A e \in Ends : Holders(e) \in SUBSET Procs /\ Cardinality(Holders(e)) \in Nat
                          /\ IsFiniteSet(Holders(e)) /\ ref[e] \in Nat
      BY <1>0, HoldersFinite DEF Holders, TypeOK
    <2>4. ASSUME NEW e \in Ends
          PROVE  /\ Cardinality(Holders(e)') <= ref'[e]
                 /\ ~leaked => ref'[e] = Cardinality(Holders(e)')
      <3>1. CASE e \notin fds[p]
        <4>1. Holders(e)' = Holders(e) /\ ref'[e] = ref[e]
          BY <1>0, <2>1, <3>1 DEF Holders, TypeOK
        <4> QED BY <1>0, <4>1 DEF RefInv
      <3>2. CASE e \in fds[p]
        <4>1. Holders(e)' = Holders(e) \cup {q} /\ ref'[e] = ref[e] + 1
          BY <1>0, <2>1, <3>2 DEF Holders, TypeOK
        <4>2. Cardinality(Holders(e) \cup {q})
                = IF q \in Holders(e) THEN Cardinality(Holders(e)) ELSE Cardinality(Holders(e)) + 1
          BY <2>3, FS_AddElement
        <4>3. ~leaked => q \notin Holders(e)
          BY <1>0, <2>1 DEF LifeInv, Holders
        <4> QED BY <1>0, <2>3, <4>1, <4>2, <4>3 DEF RefInv
      <3> QED BY <3>1, <3>2
    <2>5. RefInv'
      BY <2>1, <2>4 DEF RefInv
    <2>6. \A e \in Ends : ref'[e] = 0 <=> ref[e] = 0
      <3> SUFFICES ASSUME NEW e \in Ends PROVE ref'[e] = 0 <=> ref[e] = 0
        OBVIOUS
      <3>1. CASE e \notin fds[p]
        BY <2>1, <3>1
      <3>2. CASE e \in fds[p]
        <4>1. Cardinality(Holders(e)) # 0
          BY <2>3, <3>2, FS_EmptySet DEF Holders
        <4> QED BY <1>0, <2>1, <2>3, <3>2, <4>1 DEF RefInv
      <3> QED BY <3>1, <3>2
    <2>7. ClosingInv'
      BY <1>0, <2>1, <2>2, <2>6 DEF ClosingInv, TypeOK
    <2>8. LifeInv'
      BY <1>0, <2>1, <2>2 DEF LifeInv, TypeOK
    <2>9. OpenInv'
      <3>1. \A e \in Ends : ref'[e] > 0 <=> ref[e] > 0
        BY <2>1, <2>3, <2>6
      <3> QED BY <1>0, <2>1, <3>1 DEF OpenInv
    <2> QED BY <2>5, <2>7, <2>8, <2>9 DEF CountInv
  <1>2. ASSUME NEW p \in Procs, NEW e \in Ends, Close(p, e)
        PROVE  CountInv'
    <2>1. closing[p] = None
      BY <1>0, <1>2 DEF Close, InUser, ClosingInv
    <2>2. RefInv' /\ OpenInv'
      BY <1>2, <2>1, DropIs DEF Close
    <2>3. life' = life /\ leaked' = leaked /\ life[p] = "live"
          /\ pc' = [pc EXCEPT ![p] = IF ref[e] = 1 THEN "close" ELSE "user"]
      BY <1>2 DEF Close, Drop, InUser, Goto
    <2>4. ClosingInv'
      <3>1. \A q \in Procs : closing'[q] # None => pc'[q] \in {"close", "exit"}
        <4> SUFFICES ASSUME NEW q \in Procs, closing'[q] # None
                     PROVE  pc'[q] \in {"close", "exit"}
          OBVIOUS
        <4>1. CASE q = p
          BY <1>0, <1>2, <2>1, <2>3, <4>1, DropIs DEF Close, TypeOK
        <4>2. CASE q # p
          BY <1>0, <1>2, <2>1, <2>3, <4>2, DropIs DEF Close, TypeOK, ClosingInv
        <4> QED BY <4>1, <4>2
      <3> QED BY <1>2, <2>1, <3>1, DropIs DEF Close, ClosingInv
    <2>5. LifeInv'
      BY <1>0, <1>2, <2>1, <2>3, DropIs DEF Close, LifeInv, TypeOK
    <2> QED BY <2>2, <2>4, <2>5 DEF CountInv
  <1>3. ASSUME NEW p \in Procs, NEW e \in Ends, ExitClose(p, e)
        PROVE  CountInv'
    <2>1. closing[p] = None /\ pc' = pc /\ life' = life /\ leaked' = leaked /\ pc[p] = "exit"
      BY <1>3 DEF ExitClose, Drop
    <2>2. RefInv' /\ OpenInv'
      BY <1>3, <2>1, DropIs DEF ExitClose
    <2>3. ClosingInv'
      <3>1. \A q \in Procs : closing'[q] # None => pc'[q] \in {"close", "exit"}
        BY <1>0, <1>3, <2>1, DropIs DEF ExitClose, ClosingInv
      <3> QED BY <1>3, <2>1, <3>1, DropIs DEF ExitClose, ClosingInv
    <2>4. LifeInv'
      BY <1>0, <1>3, <2>1, DropIs DEF ExitClose, LifeInv
    <2> QED BY <2>2, <2>3, <2>4 DEF CountInv
  <1>4. ASSUME NEW p \in Procs, NEW e \in Ends, PipeClose(p, e)
        PROVE  CountInv'
    <2>1. /\ closing[p] = e /\ open' = [open EXCEPT ![e] = FALSE]
          /\ freed' = \A d \in Ends \ {e} : ~open[d]
          /\ closing' = [closing EXCEPT ![p] = None]
          /\ UNCHANGED <<life, fds, ref, leaked>>
      BY <1>4 DEF PipeClose
    <2>2. e # None /\ ref[e] = 0
      BY <1>0, <2>1, NoneAssumption DEF ClosingInv
    <2>3. \A q \in Procs \ {p} : closing[q] # e /\ (pc[q] \in {"close", "exit"} => pc'[q] = pc[q])
                                 /\ (pc'[q] # "user" => pc[q] # "user")
      <3>1. \A q \in Procs \ {p} : closing[q] # e
        BY <1>0, <2>1, <2>2 DEF ClosingInv
      <3>2. \A q \in Procs \ {p} : (pc[q] \in {"close", "exit"} => pc'[q] = pc[q])
                                   /\ (pc'[q] # "user" => pc[q] # "user")
        BY <1>4 DEF PipeClose, WakeReaders, WakeWriters, Wakeup
      <3> QED BY <3>1, <3>2
    <2>4. \A q \in Procs : closing'[q] = IF q = p THEN None ELSE closing[q]
      BY <1>0, <2>1 DEF TypeOK
    <2>5. RefInv'
      BY <1>0, <2>1 DEF RefInv, Holders
    <2>6. ClosingInv'
      BY <1>0, <2>1, <2>3, <2>4 DEF ClosingInv
    <2>7. LifeInv'
      <3>1. life[p] = "live"
        BY <1>0, <2>1, <2>2 DEF ClosingInv, LifeInv
      <3> QED BY <1>0, <2>1, <2>3, <3>1 DEF LifeInv
    <2>8. OpenInv'
      <3>1. \A d \in Ends : open'[d] <=> ref'[d] > 0 \/ \E q \in Procs : closing'[q] = d
        <4> SUFFICES ASSUME NEW d \in Ends
                     PROVE  open'[d] <=> ref'[d] > 0 \/ \E q \in Procs : closing'[q] = d
          OBVIOUS
        <4>1. CASE d = e
          BY <1>0, <2>1, <2>2, <2>3, <2>4, <4>1 DEF TypeOK
        <4>2. CASE d # e
          BY <1>0, <2>1, <2>2, <2>4, <4>2, NoneAssumption DEF OpenInv, TypeOK
        <4> QED BY <4>1, <4>2
      <3>2. freed' <=> \A d \in Ends : ~open'[d]
        BY <1>0, <2>1 DEF TypeOK
      <3> QED BY <3>1, <3>2 DEF OpenInv
    <2> QED BY <2>5, <2>6, <2>7, <2>8 DEF CountInv
  <1>5. ASSUME NEW p \in Procs, ExitZombie(p)
        PROVE  CountInv'
    <2>1. /\ closing[p] = None /\ life' = [life EXCEPT ![p] = "free"]
          /\ pc' = [pc EXCEPT ![p] = "user"] /\ leaked' = (leaked \/ fds[p] # {})
          /\ UNCHANGED <<fds, closing, ref, open, freed>>
      BY <1>5 DEF ExitZombie, Collected, Goto
    <2>2. RefInv'
      BY <1>0, <2>1 DEF RefInv, Holders
    <2>3. ClosingInv'
      BY <1>0, <2>1 DEF ClosingInv, TypeOK
    <2>4. LifeInv'
      BY <1>0, <2>1 DEF LifeInv, TypeOK
    <2>5. OpenInv'
      BY <1>0, <2>1 DEF OpenInv
    <2> QED BY <2>2, <2>3, <2>4, <2>5 DEF CountInv
  <1>6. CASE Quiet
    <2>1. RefInv' /\ OpenInv'
      BY <1>0, <1>6, QuietPc DEF RefInv, Holders, OpenInv
    <2>2. ClosingInv'
      BY <1>0, <1>6, QuietPc DEF ClosingInv
    <2>3. LifeInv'
      BY <1>0, <1>6, QuietPc DEF LifeInv
    <2> QED BY <2>1, <2>2, <2>3 DEF CountInv
  <1>7. CASE UNCHANGED vars
    BY <1>0, <1>7 DEF CountInv, RefInv, Holders, OpenInv, ClosingInv, LifeInv, vars, procs
  <1> QED BY <1>1, <1>2, <1>3, <1>4, <1>5, <1>6, <1>7, StepsAre


-----------------------------------------------------------------------------
\* A call that writes has bytes to write.
LEMMA WantStep ==
  ASSUME Inv, [Next]_vars
  PROVE  WantInv'
  <1>0. TypeOK /\ WantInv
    BY DEF Inv
  <1>a. ASSUME want' = want, \A q \in Procs : pc'[q] \in {"write", "wsleep"}
                                                => pc[q] \in {"write", "wsleep"}
        PROVE  WantInv'
    BY <1>0, <1>a DEF WantInv
  <1>b. ASSUME NEW p \in Procs, NEW c \in PCs,
               pc'[p] = c, want' = [want EXCEPT ![p] = want'[p]],
               c \in {"write", "wsleep"} => want'[p] > 0,
               \A q \in Procs \ {p} : pc'[q] \in {"write", "wsleep"}
                                        => pc[q] \in {"write", "wsleep"}
        PROVE  WantInv'
    BY <1>0, <1>b DEF WantInv, TypeOK
  <1>1. ASSUME NEW p \in Procs, NEW q \in Procs, NEW b \in BOOLEAN, Copy(p, q, b)
        PROVE  WantInv'
    BY <1>0, <1>1, <1>a DEF Copy, Goto, TypeOK
  <1>2. ASSUME NEW p \in Procs, NEW e \in Ends, Close(p, e) \/ ExitClose(p, e)
        PROVE  WantInv'
    BY <1>0, <1>2, <1>a DEF Close, ExitClose, Drop, Goto, TypeOK
  <1>3. ASSUME NEW p \in Procs, NEW e \in Ends, PipeClose(p, e)
        PROVE  WantInv'
    <2>1. want' = want /\ (pc[p] # "close" => pc'[p] = pc[p]) /\ (pc[p] = "close" => pc'[p] = "user")
      BY <1>0, <1>3 DEF PipeClose, WakeReaders, WakeWriters, Wakeup
    <2>2. \A q \in Procs \ {p} : pc'[q] \in {pc[q], "read"} \/ (pc[q] = "wsleep" /\ pc'[q] = "write")
      BY <1>0, <1>3 DEF PipeClose, WakeReaders, WakeWriters, Wakeup
    <2> QED BY <1>a, <2>1, <2>2
  <1>4. ASSUME NEW p \in Procs, ExitZombie(p) \/ Exit(p)
        PROVE  WantInv'
    BY <1>0, <1>4, <1>a DEF ExitZombie, Collected, Exit, Goto, TypeOK
  <1>5. ASSUME NEW p \in Procs, Kill(p)
        PROVE  WantInv'
    BY <1>0, <1>5, <1>a DEF Kill, TypeOK
  <1>6. ASSUME NEW p \in Procs, Call(p, "read", "r", Reads)
        PROVE  WantInv'
    <2>1. PICK n \in Reads : want' = [want EXCEPT ![p] = n]
      BY <1>6 DEF Call
    <2> QED BY <1>0, <1>6, <1>b, <2>1 DEF Call, Goto, PCs, TypeOK
  <1>7. ASSUME NEW p \in Procs, Call(p, "write", "w", Writes)
        PROVE  WantInv'
    <2>1. PICK n \in Writes : want' = [want EXCEPT ![p] = n]
      BY <1>7 DEF Call
    <2>2. n > 0
      BY Sizes
    <2> QED BY <1>0, <1>7, <1>b, <2>1, <2>2 DEF Call, Goto, PCs, TypeOK
  <1>8. ASSUME NEW p \in Procs, ReadEmpty(p)
        PROVE  WantInv'
    BY <1>0, <1>8 DEF ReadEmpty, Goto, Leave, WantInv, TypeOK
  <1>9. ASSUME NEW p \in Procs, ReadCopy(p) \/ WriteAll(p)
        PROVE  WantInv'
    BY <1>0, <1>9 DEF ReadCopy, WriteAll, WakeReaders, WakeWriters, Wakeup, Leave, WantInv, TypeOK
  <1>10. ASSUME NEW p \in Procs, WriteFull(p)
         PROVE  WantInv'
    <2>1. want[p] \in Int /\ Room \in Int /\ want[p] - Room > 0
      BY <1>0, <1>10, RoomIs DEF WriteFull, TypeOK
    <2> QED BY <1>0, <1>10, <2>1 DEF WriteFull, WakeReaders, Wakeup, WantInv, TypeOK
  <1>11. ASSUME NEW p \in Procs, WriteFails(p)
         PROVE  WantInv'
    BY <1>0, <1>11 DEF WriteFails, Goto, Leave, WantInv, TypeOK
  <1>12. CASE UNCHANGED vars
    BY <1>12, <1>a DEF vars, procs
  <1> QED
    BY <1>1, <1>2, <1>3, <1>4, <1>5, <1>6, <1>7, <1>8, <1>9, <1>10, <1>11, <1>12, StepsAre
    DEF Quiet

\* Storing all that fits fills the pipe.
LEMMA FilledIs ==
  ASSUME TypeOK, Store(Room)
  PROVE  Room' = 0
  <1>1. nread \in 0 .. Modulus - 1 /\ nwrite \in 0 .. Modulus - 1
    BY DEF TypeOK, Modulus
  <1>2. Room = PIPESIZE - ((nwrite - nread) % Modulus) /\ Room \in Int
    BY RoomIs DEF Room, Used, Wrap, Modulus
  <1>3. nread' = nread /\ nwrite' = (nwrite + Room) % Modulus
    BY <1>2, StoreIs
  <1>4. ASSUME NEW M \in Nat \ {0}, NEW a \in 0 .. M - 1, NEW b \in 0 .. M - 1,
               NEW n \in Nat, n < M
        PROVE  (((a + (n - ((a - b) % M))) % M) - b) % M = n
    BY <1>4
  <1>5. (nwrite' - nread') % Modulus = PIPESIZE
    BY <1>1, <1>2, <1>3, <1>4, Sizes
  <1> QED BY <1>5, Sizes DEF Room, Used, Wrap, Modulus

\* Whoever changes what a sleeper waits for wakes him.
LEMMA WakeStep ==
  ASSUME Inv, [Next]_vars
  PROVE  NoLostWakeup'
  <1>0. TypeOK /\ WantInv /\ NoLostWakeup
    BY DEF Inv
  <1>r. Used \in Int /\ Room \in Int /\ Room = PIPESIZE - Used /\ PIPESIZE > 0
    BY <1>0, RoomIs, Sizes
  <1>a. ASSUME UNCHANGED <<ring, open, cutShort>>,
               \A q \in Procs : /\ pc'[q] = "rsleep" => pc[q] = "rsleep"
                                /\ pc'[q] = "wsleep" => pc[q] = "wsleep"
        PROVE  NoLostWakeup'
    BY <1>0, <1>a DEF NoLostWakeup, Used, Room, ring
  <1>1. ASSUME NEW p \in Procs, NEW q \in Procs, NEW b \in BOOLEAN, Copy(p, q, b)
        PROVE  NoLostWakeup'
    BY <1>0, <1>1, <1>a DEF Copy, Goto, TypeOK
  <1>2. ASSUME NEW p \in Procs, NEW e \in Ends, Close(p, e) \/ ExitClose(p, e)
        PROVE  NoLostWakeup'
    BY <1>0, <1>2, <1>a DEF Close, ExitClose, Drop, Goto, TypeOK
  <1>3. ASSUME NEW p \in Procs, NEW e \in Ends, PipeClose(p, e)
        PROVE  NoLostWakeup'
    <2>0. UNCHANGED ring /\ open' = [open EXCEPT ![e] = FALSE] /\ cutShort' = (cutShort /\ e # "w")
          /\ pc[p] \in {"close", "exit"}
      BY <1>3, NoneAssumption DEF PipeClose, Inv, ClosingInv
    <2>1. CASE e = "w"
      <3>1. \A q \in Procs : /\ pc'[q] # "rsleep"
                             /\ pc'[q] = "wsleep" => pc[q] = "wsleep"
        BY <1>3, <2>0, <2>1 DEF PipeClose, WakeReaders, Wakeup
      <3>2. open'["r"] = open["r"]
        BY <1>0, <2>0, <2>1 DEF TypeOK, Ends
      <3> QED BY <1>0, <2>0, <3>1, <3>2 DEF NoLostWakeup, Used, Room, ring
    <2>2. CASE e = "r"
      <3>1. \A q \in Procs : /\ pc'[q] # "wsleep"
                             /\ pc'[q] = "rsleep" => pc[q] = "rsleep"
        BY <1>3, <2>0, <2>2 DEF PipeClose, WakeWriters, Wakeup
      <3>2. open'["w"] = open["w"] /\ (cutShort => cutShort')
        BY <1>0, <2>0, <2>2 DEF TypeOK, Ends
      <3> QED BY <1>0, <2>0, <3>1, <3>2 DEF NoLostWakeup, Used, ring
    <2> QED BY <2>1, <2>2 DEF Ends
  <1>4. ASSUME NEW p \in Procs, ExitZombie(p) \/ Exit(p)
        PROVE  NoLostWakeup'
    BY <1>0, <1>4, <1>a DEF ExitZombie, Collected, Exit, Goto, TypeOK
  <1>5. ASSUME NEW p \in Procs, Kill(p)
        PROVE  NoLostWakeup'
    BY <1>0, <1>5, <1>a DEF Kill, TypeOK
  <1>6. ASSUME NEW p \in Procs, Call(p, "read", "r", Reads) \/ Call(p, "write", "w", Writes)
        PROVE  NoLostWakeup'
    BY <1>0, <1>6, <1>a DEF Call, Goto, TypeOK
  <1>7. ASSUME NEW p \in Procs, ReadEmpty(p)
        PROVE  NoLostWakeup'
    <2>1. UNCHANGED <<ring, open, cutShort>> /\ Used = 0 /\ open["w"]
      BY <1>7 DEF ReadEmpty
    <2>2. \A q \in Procs : /\ pc'[q] = "rsleep" => q = p \/ pc[q] = "rsleep"
                           /\ pc'[q] = "wsleep" => pc[q] = "wsleep"
      BY <1>0, <1>7 DEF ReadEmpty, Goto, TypeOK
    <2> QED BY <1>0, <2>1, <2>2 DEF NoLostWakeup, Used, Room, ring
  <1>8. ASSUME NEW p \in Procs, ReadCopy(p)
        PROVE  NoLostWakeup'
    <2>1. open' = open /\ cutShort' = cutShort /\ (Used > 0 \/ ~open["w"])
      BY <1>8 DEF ReadCopy
    <2>2. \A q \in Procs : pc'[q] # "wsleep" /\ (pc'[q] = "rsleep" => pc[q] = "rsleep")
      BY <1>8 DEF ReadCopy, WakeWriters, Wakeup
    <2>3. \A q \in Procs : pc[q] = "rsleep" => cutShort /\ open["w"]
      BY <1>0, <1>r, <2>1 DEF NoLostWakeup
    <2> QED BY <2>1, <2>2, <2>3 DEF NoLostWakeup
  <1>9. ASSUME NEW p \in Procs, WriteAll(p)
        PROVE  NoLostWakeup'
    <2>1. want[p] > 0 /\ want[p] <= Room /\ want[p] \in Int
      BY <1>0, <1>9 DEF WriteAll, WantInv, TypeOK
    <2>2. \A q \in Procs : pc[q] # "wsleep"
      BY <1>0, <1>r, <2>1 DEF NoLostWakeup
    <2>3. \A q \in Procs : pc'[q] \notin {"rsleep", "wsleep"}
      BY <1>9, <2>2 DEF WriteAll, WakeReaders, Wakeup
    <2> QED BY <2>3 DEF NoLostWakeup
  <1>10. ASSUME NEW p \in Procs, WriteFull(p)
         PROVE  NoLostWakeup'
    <2>1. open' = open /\ open["r"] /\ Room' = 0
      BY <1>0, <1>10, FilledIs DEF WriteFull
    <2>2. \A q \in Procs : pc'[q] # "rsleep" /\ (pc'[q] = "wsleep" => q = p \/ pc[q] = "wsleep")
      BY <1>10 DEF WriteFull, WakeReaders, Wakeup
    <2> QED BY <1>0, <2>1, <2>2 DEF NoLostWakeup
  <1>11. ASSUME NEW p \in Procs, WriteFails(p)
         PROVE  NoLostWakeup'
    <2>1. open' = open /\ cutShort' = (cutShort \/ Room > 0) /\ Room' = 0
      BY <1>0, <1>11, FilledIs DEF WriteFails
    <2>2. \A q \in Procs : /\ pc'[q] = "rsleep" => pc[q] = "rsleep"
                           /\ pc'[q] = "wsleep" => pc[q] = "wsleep"
      BY <1>0, <1>11 DEF WriteFails, Goto, TypeOK
    <2>3. \A q \in Procs : pc[q] = "rsleep" => cutShort' /\ open'["w"]
      <3>1. \A q \in Procs : pc[q] = "rsleep" => (Used = 0 \/ cutShort) /\ open["w"]
        BY <1>0 DEF NoLostWakeup
      <3>2. Used = 0 => Room > 0
        BY Sizes DEF Room
      <3>3. (Room > 0 => cutShort') /\ (cutShort => cutShort')
        BY <2>1
      <3> QED BY <2>1, <3>1, <3>2, <3>3
    <2> QED BY <1>0, <2>1, <2>2, <2>3 DEF NoLostWakeup
  <1>12. CASE UNCHANGED vars
    BY <1>12, <1>a DEF vars, procs
  <1> QED
    BY <1>1, <1>2, <1>3, <1>4, <1>5, <1>6, <1>7, <1>8, <1>9, <1>10, <1>11, <1>12, StepsAre
    DEF Quiet


-----------------------------------------------------------------------------
LEMMA InvInit ==
  ASSUME Init
  PROVE  Inv
  <1>1. PICK p \in Procs : /\ life = [q \in Procs |-> IF q = p THEN "live" ELSE "free"]
                           /\ fds = [q \in Procs |-> IF q = p THEN Ends ELSE {}]
    BY DEF Init
  <1>2. TypeOK
    <2>1. /\ life \in [Procs -> {"free", "live"}] /\ fds \in [Procs -> SUBSET Ends]
          /\ thread \in [Procs -> BOOLEAN] /\ killed \in [Procs -> BOOLEAN]
          /\ pc \in [Procs -> PCs] /\ want \in [Procs -> Nat]
          /\ closing \in [Procs -> Ends \cup {None}] /\ ref \in [Ends -> Nat]
          /\ open \in [Ends -> BOOLEAN] /\ data \in [0 .. PIPESIZE - 1 -> Bytes]
      BY <1>1 DEF Init, PCs
    <2>2. {nread, nwrite} \subseteq 0 .. Modulus - 1
      BY Sizes DEF Init
    <2>3. {freed, cutShort, leaked} \subseteq BOOLEAN
      BY Zenon DEF Init
    <2> QED BY <2>1, <2>2, <2>3 DEF TypeOK, PCs, Modulus
  <1>3. RefInv
    <2>1. \A e \in Ends : Holders(e) = {p}
      BY <1>1 DEF Holders
    <2>2. Cardinality({p}) = 1
      BY FS_Singleton
    <2>3. \A e \in Ends : ref[e] = 1 /\ Cardinality(Holders(e)) = 1
      BY <2>1, <2>2 DEF Init
    <2> QED BY <2>3 DEF RefInv
  <1>4. ClosingInv /\ LifeInv /\ OpenInv
    <2>1. \A q \in Procs : closing[q] = None /\ pc[q] = "user"
      BY DEF Init
    <2>2. \A q \in Procs : life[q] = "free" => fds[q] = {}
      BY <1>1
    <2>3. \A e \in Ends : ref[e] = 1 /\ open[e]
      BY DEF Init
    <2>4. ~freed /\ "r" \in Ends
      BY DEF Init, Ends
    <2>5. ClosingInv
      BY <2>1 DEF ClosingInv
    <2>6. LifeInv
      BY <2>1, <2>2 DEF LifeInv
    <2>7. OpenInv
      BY <2>3, <2>4 DEF OpenInv
    <2> QED BY <2>5, <2>6, <2>7
  <1>5. WantInv /\ NoLostWakeup
    BY DEF WantInv, NoLostWakeup, Init
  <1> QED BY <1>2, <1>3, <1>4, <1>5 DEF Inv

LEMMA InvAlways == Spec => []Inv
  <1>1. Init => Inv
    BY InvInit
  <1>2. Inv /\ [Next]_vars => Inv'
    BY TypeStep, CountStep, WantStep, WakeStep DEF Inv, CountInv
  <1> QED BY <1>1, <1>2, PTL DEF Spec

\* In every behaviour an end is open exactly as long as a descriptor leads to it or it
\* is being closed (or a thread exited with it), and the pipe is freed when both are
\* closed (filedup(), fileclose() and pipeclose()).
THEOREM EndsAreExact == Spec => []EndsExact
  <1>1. Inv => EndsExact
    <2> SUFFICES ASSUME Inv PROVE EndsExact
      OBVIOUS
    <2>0. TypeOK /\ RefInv /\ OpenInv
      BY DEF Inv
    <2>1. ASSUME NEW e \in Ends
          PROVE  /\ (\E p \in Procs : e \in fds[p] \/ closing[p] = e) => open[e]
                 /\ open[e] => leaked \/ \E p \in Procs : e \in fds[p] \/ closing[p] = e
      <3>1. Holders(e) \in SUBSET Procs /\ ref[e] \in Nat
        BY <2>0 DEF Holders, TypeOK
      <3>2. Cardinality(Holders(e)) \in Nat
            /\ (Cardinality(Holders(e)) = 0 <=> Holders(e) = {})
        BY <3>1, HoldersFinite, FS_EmptySet
      <3>3. Holders(e) # {} => ref[e] > 0
        BY <2>0, <3>1, <3>2 DEF RefInv
      <3>4. ref[e] > 0 /\ ~leaked => Holders(e) # {}
        BY <2>0, <3>1, <3>2 DEF RefInv
      <3> QED BY <2>0, <3>3, <3>4 DEF OpenInv, Holders
    <2> QED BY <2>0, <2>1 DEF EndsExact, OpenInv
  <1> QED BY <1>1, InvAlways, PTL

\* In every behaviour nobody sleeps on a pipe that has what he waits for, but readers
\* that a killed writer did not wake (piperead(), pipewrite() and pipeclose()).
THEOREM Wakeups == Spec => []NoLostWakeup
  <1>1. Inv => NoLostWakeup
    BY DEF Inv
  <1> QED BY <1>1, InvAlways, PTL

\* In every behaviour in which no thread exits with files open, a reader sleeps only
\* while a live process can still write, or is about to close the write end.
THEOREM ReadersEnd == Spec => []ReaderHasWriter
  <1>1. Inv => ReaderHasWriter
    <2> SUFFICES ASSUME Inv, ~leaked, NEW p \in Procs, pc[p] = "rsleep"
                 PROVE  \E q \in Procs : life[q] = "live" /\ ("w" \in fds[q] \/ closing[q] = "w")
      BY DEF ReaderHasWriter, EndOfFile
    <2>0. TypeOK /\ RefInv /\ OpenInv /\ LifeInv /\ ClosingInv /\ open["w"] /\ "w" \in Ends
      BY DEF Inv, NoLostWakeup, Ends
    <2>1. CASE ref["w"] > 0
      <3>1. Holders("w") \in SUBSET Procs
        BY DEF Holders
      <3>2. Cardinality(Holders("w")) # 0
        BY <2>0, <2>1 DEF RefInv
      <3>3. Holders("w") # {}
        BY <3>2, FS_EmptySet
      <3>4. PICK q \in Procs : "w" \in fds[q]
        BY <3>3 DEF Holders
      <3> QED BY <2>0, <3>4 DEF LifeInv, TypeOK
    <2>2. CASE \E q \in Procs : closing[q] = "w"
      <3>1. PICK q \in Procs : closing[q] = "w"
        BY <2>2
      <3>2. pc[q] \in {"close", "exit"}
        BY <2>0, <3>1, NoneAssumption DEF ClosingInv
      <3> QED BY <2>0, <3>1, <3>2 DEF LifeInv
    <2> QED BY <2>0, <2>1, <2>2 DEF OpenInv
  <1> QED BY <1>1, InvAlways, PTL

-----------------------------------------------------------------------------
(* The ring *)

\* An index of the counters that has wrapped leads to the same place in the ring as one
\* that has not, for the size of the pipe divides the range of the counters.
LEMMA Turns ==
  ASSUME NEW x \in Int
  PROVE  /\ x % PIPESIZE \in 0 .. PIPESIZE - 1 /\ x \div PIPESIZE \in Int
         /\ x = (x \div PIPESIZE) * PIPESIZE + (x % PIPESIZE)
  <1>1. x \div PIPESIZE \in Int /\ x % PIPESIZE \in 0 .. PIPESIZE - 1
    BY Sizes
  <1>2. x = PIPESIZE * (x \div PIPESIZE) + (x % PIPESIZE)
    BY Sizes
  <1>3. PIPESIZE * (x \div PIPESIZE) = (x \div PIPESIZE) * PIPESIZE
    BY <1>1, Sizes
  <1> QED BY <1>1, <1>2, <1>3

LEMMA TurnsDiffer ==
  ASSUME NEW a \in Int, NEW b \in Int, a # b
  PROVE  a * PIPESIZE - b * PIPESIZE >= PIPESIZE \/ b * PIPESIZE - a * PIPESIZE >= PIPESIZE
  <1>1. PIPESIZE \in Nat \ {0}
    BY Sizes
  <1>2. ASSUME NEW x \in Int, NEW y \in Int, x >= y + 1
        PROVE  x * PIPESIZE - y * PIPESIZE >= PIPESIZE
    BY <1>1, <1>2
  <1>3. a >= b + 1 \/ b >= a + 1
    OBVIOUS
  <1> QED BY <1>2, <1>3

\* Numbers that are closer than the size of the pipe have places of their own.
LEMMA PlacesDiffer ==
  ASSUME NEW x \in Int, NEW y \in Int, x < y, y - x < PIPESIZE
  PROVE  x % PIPESIZE # y % PIPESIZE
  <1> SUFFICES ASSUME x % PIPESIZE = y % PIPESIZE PROVE FALSE
    OBVIOUS
  <1> DEFINE a == x \div PIPESIZE
             b == y \div PIPESIZE
             r == x % PIPESIZE
  <1>1. /\ a \in Int /\ b \in Int /\ r \in 0 .. PIPESIZE - 1
        /\ x = a * PIPESIZE + r /\ y = b * PIPESIZE + r
    BY Turns
  <1>2. a * PIPESIZE \in Int /\ b * PIPESIZE \in Int /\ PIPESIZE \in Nat
    BY <1>1, Sizes
  <1> HIDE DEF a, b, r
  <1>3. a # b
    BY <1>1, <1>2
  <1>4. a * PIPESIZE - b * PIPESIZE >= PIPESIZE \/ b * PIPESIZE - a * PIPESIZE >= PIPESIZE
    BY <1>1, <1>3, TurnsDiffer
  <1> QED BY <1>1, <1>2, <1>4

LEMMA PlaceStays ==
  ASSUME NEW x \in Int
  PROVE  (x + Modulus) % PIPESIZE = x % PIPESIZE
  <1> DEFINE a == x \div PIPESIZE
             b == (x + Modulus) \div PIPESIZE
             k == Modulus \div PIPESIZE
             r == x % PIPESIZE
             s == (x + Modulus) % PIPESIZE
  <1>1. Modulus \in Int /\ Modulus % PIPESIZE = 0
    BY Sizes, PipeAssumption DEF Modulus
  <1>2. k \in Int /\ Modulus = k * PIPESIZE + 0
    BY <1>1, Turns
  <1>3. a \in Int /\ r \in 0 .. PIPESIZE - 1 /\ x = a * PIPESIZE + r
    BY Turns
  <1>4. b \in Int /\ s \in 0 .. PIPESIZE - 1 /\ x + Modulus = b * PIPESIZE + s
    BY <1>1, Turns
  <1> HIDE DEF a, b, k, r, s
  <1>5. (a + k) * PIPESIZE = a * PIPESIZE + k * PIPESIZE
    BY <1>2, <1>3, Sizes
  <1>6. /\ a * PIPESIZE \in Int /\ b * PIPESIZE \in Int /\ k * PIPESIZE \in Int
        /\ PIPESIZE \in Nat /\ a + k \in Int
    BY <1>2, <1>3, <1>4, Sizes
  <1>7. b = a + k
    <2>1. CASE b # a + k
      <3>1. \/ b * PIPESIZE - (a + k) * PIPESIZE >= PIPESIZE
            \/ (a + k) * PIPESIZE - b * PIPESIZE >= PIPESIZE
        BY <1>4, <1>6, <2>1, TurnsDiffer
      <3> QED BY <1>1, <1>2, <1>3, <1>4, <1>5, <1>6, <3>1
    <2> QED BY <2>1
  <1>8. s = r
    BY <1>1, <1>2, <1>3, <1>4, <1>5, <1>6, <1>7
  <1> QED BY <1>8 DEF r, s

\* A counter that went at most once around.
LEMMA WrapIs ==
  ASSUME NEW x \in Int, x >= -Modulus, x < Modulus + Modulus
  PROVE  /\ Wrap(x) = IF x < 0 THEN x + Modulus ELSE IF x < Modulus THEN x ELSE x - Modulus
         /\ Wrap(x) % PIPESIZE = x % PIPESIZE
  <1>1. Modulus \in Nat \ {0}
    BY Sizes
  <1>2. ASSUME NEW M \in Nat \ {0}, NEW y \in Int, y >= -M, y < M + M
        PROVE  y % M = IF y < 0 THEN y + M ELSE IF y < M THEN y ELSE y - M
    BY <1>2
  <1>3. Wrap(x) = IF x < 0 THEN x + Modulus ELSE IF x < Modulus THEN x ELSE x - Modulus
    BY <1>1, <1>2 DEF Wrap, Modulus
  <1>4. (x + Modulus) % PIPESIZE = x % PIPESIZE
    BY PlaceStays
  <1>5. x - Modulus \in Int /\ (x - Modulus) + Modulus = x
    BY <1>1
  <1>6. (x - Modulus) % PIPESIZE = x % PIPESIZE
    BY <1>5, PlaceStays
  <1> QED BY <1>3, <1>4, <1>6

\* The bytes in the pipe, first in first out, and that there are never too many.
Fifo == [i \in 1 .. Used |-> data[Wrap(nread + i - 1) % PIPESIZE]]
RingInv == Used <= PIPESIZE

LEMMA CountersAre ==
  ASSUME TypeOK
  PROVE  /\ nread \in 0 .. Modulus - 1 /\ nwrite \in 0 .. Modulus - 1
         /\ Used = IF nwrite < nread THEN nwrite - nread + Modulus ELSE nwrite - nread
         /\ Used \in 0 .. Modulus - 1 /\ Room = PIPESIZE - Used
         /\ Modulus \in Nat /\ PIPESIZE \in Nat /\ 0 < PIPESIZE /\ PIPESIZE < Modulus
  <1>1. nread \in 0 .. Modulus - 1 /\ nwrite \in 0 .. Modulus - 1
    BY DEF TypeOK, Modulus
  <1>2. /\ nwrite - nread \in Int /\ nwrite - nread >= -Modulus
        /\ nwrite - nread < Modulus + Modulus
    BY <1>1, Sizes
  <1>3. Used = IF nwrite < nread THEN nwrite - nread + Modulus ELSE nwrite - nread
    BY <1>1, <1>2, Sizes, WrapIs DEF Used
  <1> QED BY <1>1, <1>3, RoomIs, Sizes

\* Where the bytes in the pipe are, and where the next ones go.
LEMMA RingPlaces ==
  ASSUME TypeOK, RingInv
  PROVE  /\ \A i \in 1 .. PIPESIZE :
              /\ Wrap(nread + i - 1) % PIPESIZE = (nread + i - 1) % PIPESIZE
              /\ (nread + i - 1) % PIPESIZE \in 0 .. PIPESIZE - 1
         /\ \A j \in 1 .. Room :
              Wrap(nwrite + j - 1) % PIPESIZE = (nread + (Used + j) - 1) % PIPESIZE
         /\ \A i, j \in 1 .. PIPESIZE :
              (nread + i - 1) % PIPESIZE = (nread + j - 1) % PIPESIZE => i = j
  <1>0. /\ nread \in 0 .. Modulus - 1 /\ nwrite \in 0 .. Modulus - 1
        /\ Used = IF nwrite < nread THEN nwrite - nread + Modulus ELSE nwrite - nread
        /\ Used \in 0 .. PIPESIZE /\ Room = PIPESIZE - Used
        /\ Modulus \in Nat /\ PIPESIZE \in Nat /\ 0 < PIPESIZE /\ PIPESIZE < Modulus
    BY CountersAre DEF RingInv
  <1> HIDE DEF Used, Room
  <1>1. ASSUME NEW i \in 1 .. PIPESIZE
        PROVE  /\ Wrap(nread + i - 1) % PIPESIZE = (nread + i - 1) % PIPESIZE
               /\ (nread + i - 1) % PIPESIZE \in 0 .. PIPESIZE - 1
    <2>1. /\ nread + i - 1 \in Int /\ nread + i - 1 >= -Modulus
          /\ nread + i - 1 < Modulus + Modulus
      BY <1>0
    <2> QED BY <2>1, WrapIs, Turns
  <1>2. ASSUME NEW j \in 1 .. Room
        PROVE  Wrap(nwrite + j - 1) % PIPESIZE = (nread + (Used + j) - 1) % PIPESIZE
    <2> DEFINE x == nwrite + j - 1
    <2>1. x \in Int /\ x >= -Modulus /\ x < Modulus + Modulus
      BY <1>0
    <2>2. Wrap(x) % PIPESIZE = x % PIPESIZE /\ (x + Modulus) % PIPESIZE = x % PIPESIZE
      BY <2>1, WrapIs, PlaceStays
    <2>3. nread + (Used + j) - 1 = x \/ nread + (Used + j) - 1 = x + Modulus
      BY <1>0
    <2> QED BY <2>2, <2>3
  <1>3. ASSUME NEW i \in 1 .. PIPESIZE, NEW j \in 1 .. PIPESIZE, i < j
        PROVE  (nread + i - 1) % PIPESIZE # (nread + j - 1) % PIPESIZE
    <2> DEFINE x == nread + i - 1
               y == nread + j - 1
    <2>1. x \in Int /\ y \in Int /\ x < y /\ y - x < PIPESIZE
      BY <1>0, <1>3
    <2> HIDE DEF x, y
    <2>2. x % PIPESIZE # y % PIPESIZE
      BY <2>1, PlacesDiffer
    <2> QED BY <2>2 DEF x, y
  <1>4. \A i, j \in 1 .. PIPESIZE : i = j \/ i < j \/ j < i
    BY <1>0
  <1> QED BY <1>1, <1>2, <1>3, <1>4

\* What pipewrite() stores comes after what is there.
LEMMA StoreFifo ==
  ASSUME TypeOK, RingInv, NEW n \in Nat, n <= Room, Store(n)
  PROVE  /\ Used' = Used + n /\ RingInv'
         /\ \E s \in [1 .. n -> Bytes] :
              Fifo' = [i \in 1 .. Used + n |-> IF i <= Used THEN Fifo[i] ELSE s[i - Used]]
  <1>0. /\ nread \in 0 .. Modulus - 1 /\ nwrite \in 0 .. Modulus - 1
        /\ Used = IF nwrite < nread THEN nwrite - nread + Modulus ELSE nwrite - nread
        /\ Used \in 0 .. PIPESIZE /\ Room = PIPESIZE - Used
        /\ Modulus \in Nat /\ PIPESIZE \in Nat /\ 0 < PIPESIZE /\ PIPESIZE < Modulus
    BY CountersAre DEF RingInv
  <1>1. /\ nread' = nread /\ nwrite' = Wrap(nwrite + n)
        /\ DOMAIN data = 0 .. PIPESIZE - 1
    BY DEF Store, TypeOK
  <1>2. /\ nwrite' \in Int
        /\ nwrite' = IF nwrite + n < Modulus THEN nwrite + n ELSE nwrite + n - Modulus
    <2> DEFINE x == nwrite + n
    <2>1. x \in Int /\ x >= -Modulus /\ x < Modulus + Modulus
      BY <1>0
    <2>2. nwrite' = Wrap(x)
      BY <1>1
    <2> HIDE DEF x
    <2>3. nwrite' = IF x < 0 THEN x + Modulus ELSE IF x < Modulus THEN x ELSE x - Modulus
      BY <2>1, <2>2, WrapIs
    <2> QED BY <1>0, <2>3 DEF x
  <1>3. Used' = Used + n
    <2> DEFINE y == nwrite' - nread
    <2>1. y \in Int /\ y >= -Modulus /\ y < Modulus + Modulus
      BY <1>0, <1>2
    <2>2. Used' = Wrap(y)
      BY <1>1 DEF Used, Wrap
    <2>3. Used' = IF y < 0 THEN y + Modulus ELSE IF y < Modulus THEN y ELSE y - Modulus
      BY <2>1, <2>2, WrapIs
    <2> QED BY <1>0, <1>2, <2>3
  <1>4. RingInv'
    BY <1>0, <1>3 DEF RingInv
  <1> HIDE DEF Used, Room
  <1>5. PICK s \in [1 .. n -> Bytes] :
            data' = [i \in DOMAIN data |->
                        IF \E j \in 1 .. n : i = Wrap(nwrite + j - 1) % PIPESIZE
                        THEN s[CHOOSE j \in 1 .. n : i = Wrap(nwrite + j - 1) % PIPESIZE]
                        ELSE data[i]]
    BY DEF Store
  <1> DEFINE Place(i) == (nread + i - 1) % PIPESIZE
  <1>6. /\ \A i \in 1 .. PIPESIZE : /\ Wrap(nread + i - 1) % PIPESIZE = Place(i)
                                   /\ Place(i) \in 0 .. PIPESIZE - 1
        /\ \A j \in 1 .. Room : Wrap(nwrite + j - 1) % PIPESIZE = Place(Used + j)
        /\ \A i, j \in 1 .. PIPESIZE : Place(i) = Place(j) => i = j
    BY RingPlaces
  <1> HIDE DEF Place
  <1>7. ASSUME NEW i \in 1 .. Used
        PROVE  data'[Place(i)] = data[Place(i)]
    <2>1. i \in 1 .. PIPESIZE /\ Place(i) \in DOMAIN data
      BY <1>0, <1>1, <1>6
    <2>2. ASSUME NEW j \in 1 .. n PROVE Place(i) # Wrap(nwrite + j - 1) % PIPESIZE
      <3>1. j \in 1 .. Room /\ Used + j \in 1 .. PIPESIZE /\ Used + j # i
        BY <1>0
      <3> QED BY <1>6, <2>1, <3>1
    <2> QED BY <1>5, <2>1, <2>2
  <1>8. ASSUME NEW j \in 1 .. n
        PROVE  data'[Place(Used + j)] = s[j]
    <2>1. /\ j \in 1 .. Room /\ Used + j \in 1 .. PIPESIZE
          /\ Place(Used + j) \in DOMAIN data
          /\ Place(Used + j) = Wrap(nwrite + j - 1) % PIPESIZE
      <3>1. j \in 1 .. Room /\ Used + j \in 1 .. PIPESIZE
        BY <1>0
      <3> QED BY <1>1, <1>6, <3>1
    <2>2. ASSUME NEW l \in 1 .. n, Place(Used + j) = Wrap(nwrite + l - 1) % PIPESIZE
          PROVE  l = j
      <3>1. l \in 1 .. Room /\ Used + l \in 1 .. PIPESIZE
        BY <1>0
      <3>2. Place(Used + l) = Place(Used + j)
        BY <1>6, <2>2, <3>1
      <3>3. Used + l = Used + j
        BY <1>6, <2>1, <3>1, <3>2
      <3> QED BY <1>0, <3>3
    <2>3. (CHOOSE l \in 1 .. n : Place(Used + j) = Wrap(nwrite + l - 1) % PIPESIZE) = j
      BY <2>1, <2>2
    <2> QED BY <1>5, <2>1, <2>3
  <1>9. ASSUME NEW i \in 1 .. Used + n
        PROVE  data'[Wrap(nread' + i - 1) % PIPESIZE] = IF i <= Used THEN Fifo[i] ELSE s[i - Used]
    <2>1. i \in 1 .. PIPESIZE
      BY <1>0
    <2>2. Wrap(nread' + i - 1) % PIPESIZE = Place(i)
      BY <1>1, <1>6, <2>1
    <2>3. CASE i <= Used
      <3>1. i \in 1 .. Used
        BY <1>0, <2>3
      <3>2. Fifo[i] = data[Place(i)]
        BY <1>6, <2>1, <3>1 DEF Fifo
      <3> QED BY <1>7, <2>2, <2>3, <3>1, <3>2
    <2>4. CASE ~(i <= Used)
      <3>1. i - Used \in 1 .. n /\ Used + (i - Used) = i
        BY <1>0, <2>4
      <3> QED BY <1>8, <2>2, <2>4, <3>1
    <2> QED BY <2>3, <2>4
  <1>10. Fifo' = [i \in 1 .. Used' |-> data'[Wrap(nread' + i - 1) % PIPESIZE]]
    BY DEF Fifo, Wrap
  <1> QED BY <1>3, <1>4, <1>9, <1>10

\* What piperead() takes is what came first.
LEMMA TakeFifo ==
  ASSUME TypeOK, RingInv, NEW n \in 0 .. Used,
         nread' = Wrap(nread + n), nwrite' = nwrite, data' = data
  PROVE  /\ Used' = Used - n /\ RingInv'
         /\ Fifo' = [i \in 1 .. Used - n |-> Fifo[n + i]]
  <1>0. /\ nread \in 0 .. Modulus - 1 /\ nwrite \in 0 .. Modulus - 1
        /\ Used = IF nwrite < nread THEN nwrite - nread + Modulus ELSE nwrite - nread
        /\ Used \in 0 .. PIPESIZE
        /\ Modulus \in Nat /\ PIPESIZE \in Nat /\ 0 < PIPESIZE /\ PIPESIZE < Modulus
    BY CountersAre DEF RingInv
  <1>1. nread' = IF nread + n < Modulus THEN nread + n ELSE nread + n - Modulus
    <2> DEFINE x == nread + n
    <2>1. x \in Int /\ x >= -Modulus /\ x < Modulus + Modulus
      BY <1>0
    <2>2. nread' = Wrap(x)
      OBVIOUS
    <2> HIDE DEF x
    <2>3. nread' = IF x < 0 THEN x + Modulus ELSE IF x < Modulus THEN x ELSE x - Modulus
      BY <2>1, <2>2, WrapIs
    <2> QED BY <1>0, <2>3 DEF x
  <1>2. Used' = Used - n
    <2> DEFINE y == nwrite - nread'
    <2>1. y \in Int /\ y >= -Modulus /\ y < Modulus + Modulus
      BY <1>0, <1>1
    <2>2. Used' = Wrap(y)
      BY DEF Used, Wrap
    <2>3. Used' = IF y < 0 THEN y + Modulus ELSE IF y < Modulus THEN y ELSE y - Modulus
      BY <2>1, <2>2, WrapIs
    <2> QED BY <1>0, <1>1, <2>3
  <1>3. RingInv'
    BY <1>0, <1>2 DEF RingInv
  <1> HIDE DEF Used
  <1>4. ASSUME NEW i \in 1 .. Used - n
        PROVE  data[Wrap(nread' + i - 1) % PIPESIZE] = Fifo[n + i]
    <2> DEFINE x == nread + (n + i) - 1
    <2>1. n + i \in 1 .. Used /\ n + i \in 1 .. PIPESIZE /\ x \in Int
      BY <1>0
    <2>2. nread' + i - 1 = x \/ (nread' + i - 1) + Modulus = x
      BY <1>0, <1>1
    <2>3. /\ nread' + i - 1 \in Int /\ nread' + i - 1 >= -Modulus
          /\ nread' + i - 1 < Modulus + Modulus
      BY <1>0, <1>1
    <2>4. /\ Wrap(nread' + i - 1) % PIPESIZE = (nread' + i - 1) % PIPESIZE
          /\ ((nread' + i - 1) + Modulus) % PIPESIZE = (nread' + i - 1) % PIPESIZE
      BY <2>3, WrapIs, PlaceStays
    <2>5. Wrap(x) % PIPESIZE = x % PIPESIZE
      BY <2>1, RingPlaces
    <2> HIDE DEF x
    <2>6. Wrap(nread' + i - 1) % PIPESIZE = Wrap(x) % PIPESIZE
      BY <2>2, <2>4, <2>5
    <2> QED BY <2>1, <2>6 DEF Fifo, x
  <1>5. Fifo' = [i \in 1 .. Used' |-> data'[Wrap(nread' + i - 1) % PIPESIZE]]
    BY DEF Fifo, Wrap
  <1> QED BY <1>2, <1>3, <1>4, <1>5

LEMMA SameSequence ==
  ASSUME NEW S, NEW s \in Seq(S), NEW t \in Seq(S), NEW k \in Nat,
         Len(s) = k, Len(t) = k, \A i \in 1 .. k : s[i] = t[i]
  PROVE  s = t
  OBVIOUS

\* A call of pipewrite() puts in bytes, one of piperead() takes out the first, and every
\* other step leaves the pipe as it is.
LEMMA FifoStep ==
  ASSUME Inv, RingInv, [Next]_vars
  PROVE  RingInv' /\ (Queue!Put \/ Queue!Take \/ Fifo' = Fifo)
  <1>0. TypeOK /\ Used \in Nat /\ Room = PIPESIZE - Used /\ PIPESIZE \in Nat /\ Used <= PIPESIZE
    BY CountersAre DEF Inv, RingInv
  <1> HIDE DEF Used, Room
  <1>1. Fifo \in Seq(Bytes) /\ Len(Fifo) = Used /\ DOMAIN Fifo = 1 .. Used
    <2>1. ASSUME NEW i \in 1 .. Used
          PROVE  data[Wrap(nread + i - 1) % PIPESIZE] \in Bytes
      <3>1. i \in 1 .. PIPESIZE
        BY <1>0
      <3>2. Wrap(nread + i - 1) % PIPESIZE \in 0 .. PIPESIZE - 1
        BY <1>0, <3>1, RingPlaces
      <3> QED BY <1>0, <3>2 DEF TypeOK
    <2>2. Fifo \in [1 .. Used -> Bytes]
      BY <2>1 DEF Fifo
    <2> QED BY <1>0, <2>2
  <1>2. ASSUME NEW n \in Nat, n <= Room, Store(n)
        PROVE  RingInv' /\ (Queue!Put \/ Fifo' = Fifo)
    <2>1. /\ Used' = Used + n /\ RingInv'
          /\ \E s \in [1 .. n -> Bytes] :
               Fifo' = [i \in 1 .. Used + n |-> IF i <= Used THEN Fifo[i] ELSE s[i - Used]]
      BY <1>0, <1>2, StoreFifo
    <2>2. PICK s \in [1 .. n -> Bytes] :
             Fifo' = [i \in 1 .. Used + n |-> IF i <= Used THEN Fifo[i] ELSE s[i - Used]]
      BY <2>1
    <2>3. ASSUME NEW i \in 1 .. Used + n, ~(i <= Used)
          PROVE  s[i - Used] \in Bytes
      <3>1. i - Used \in 1 .. n
        BY <1>0, <2>3
      <3> QED BY <3>1
    <2>4. ASSUME NEW i \in 1 .. Used + n, i <= Used
          PROVE  Fifo[i] \in Bytes
      BY <1>0, <1>1, <2>4
    <2>5. Fifo' \in [1 .. Used + n -> Bytes]
      BY <2>2, <2>3, <2>4
    <2>6. Fifo' \in Seq(Bytes) /\ Len(Fifo') = Used + n
      BY <1>0, <2>5
    <2>7. SubSeq(Fifo', 1, Used) = Fifo
      <3>1. /\ SubSeq(Fifo', 1, Used) \in Seq(Bytes) /\ Len(SubSeq(Fifo', 1, Used)) = Used
            /\ \A i \in 1 .. Used : SubSeq(Fifo', 1, Used)[i] = Fifo'[i]
        BY <1>0, <2>6
      <3>2. \A i \in 1 .. Used : Fifo'[i] = Fifo[i]
        BY <1>0, <2>2
      <3> QED BY <1>0, <1>1, <3>1, <3>2
    <2>8. CASE n = 0
      <3>1. SubSeq(Fifo', 1, Used) = Fifo'
        BY <1>0, <2>6, <2>8
      <3> QED BY <2>1, <2>7, <3>1
    <2>9. CASE n > 0
      <3>1. Len(Fifo') <= PIPESIZE /\ Len(Fifo') > Len(Fifo)
        BY <1>0, <1>1, <1>2, <2>6, <2>9
      <3>2. SubSeq(Fifo', 1, Len(Fifo)) = Fifo
        BY <1>1, <2>7
      <3> QED BY <2>1, <2>6, <3>1, <3>2 DEF Queue!Put, Fifo
    <2> QED BY <2>8, <2>9
  <1>3. ASSUME NEW p \in Procs, ReadCopy(p)
        PROVE  RingInv' /\ (Queue!Take \/ Fifo' = Fifo)
    <2> DEFINE n == Lesser(want[p], Used)
    <2>1. n \in 0 .. Used /\ nread' = Wrap(nread + n) /\ nwrite' = nwrite /\ data' = data
      BY <1>0, <1>3 DEF ReadCopy, Lesser, TypeOK
    <2> HIDE DEF n
    <2>2. RingInv' /\ Used' = Used - n /\ Fifo' = [i \in 1 .. Used - n |-> Fifo[n + i]]
      BY <1>0, <2>1, TakeFifo
    <2>3. \A i \in 1 .. Used - n : n + i \in 1 .. Used
      BY <1>0, <2>1
    <2>4. Fifo' \in Seq(Bytes) /\ Len(Fifo') = Used - n
      <3>1. Used - n \in Nat
        BY <1>0, <2>1
      <3>2. Fifo' \in [1 .. Used - n -> Bytes]
        BY <1>1, <2>2, <2>3
      <3> QED BY <3>1, <3>2
    <2>5. Fifo' = SubSeq(Fifo, n + 1, Used)
      <3>1. /\ SubSeq(Fifo, n + 1, Used) \in Seq(Bytes)
            /\ Len(SubSeq(Fifo, n + 1, Used)) = Used - n
            /\ \A i \in 1 .. Used - n : SubSeq(Fifo, n + 1, Used)[i] = Fifo[n + i]
        BY <1>0, <1>1, <2>1
      <3>2. \A i \in 1 .. Used - n : Fifo'[i] = Fifo[n + i]
        BY <2>2
      <3>3. \A i \in 1 .. Used - n : Fifo'[i] = SubSeq(Fifo, n + 1, Used)[i]
        BY <3>1, <3>2
      <3>4. Used - n \in Nat
        BY <1>0, <2>1
      <3> QED BY <2>4, <3>1, <3>3, <3>4, SameSequence
    <2>6. CASE n = 0
      <3>1. SubSeq(Fifo, 1, Used) = Fifo /\ n + 1 = 1
        BY <1>0, <1>1, <2>6
      <3>2. Fifo' = Fifo
        BY <2>5, <3>1
      <3> QED BY <2>2, <3>2
    <2>7. CASE n > 0
      <3>1. Fifo # <<>> /\ Len(Fifo') < Len(Fifo)
        BY <1>0, <1>1, <2>1, <2>4, <2>7
      <3>2. Len(Fifo) - Len(Fifo') + 1 = n + 1 /\ Len(Fifo) = Used
        BY <1>0, <1>1, <2>1, <2>4
      <3> QED BY <2>2, <2>5, <3>1, <3>2 DEF Queue!Take, Fifo
    <2> QED BY <2>1, <2>6, <2>7
  <1>4. ASSUME UNCHANGED ring PROVE RingInv' /\ Fifo' = Fifo
    <2>1. nread' = nread /\ nwrite' = nwrite /\ data' = data
      BY <1>4 DEF ring
    <2>2. Used' = Used
      BY <2>1 DEF Used, Wrap
    <2> QED BY <1>0, <2>1, <2>2 DEF RingInv, Fifo, Wrap
  <1>5. \/ UNCHANGED ring
        \/ \E p \in Procs : ReadCopy(p) \/ WriteAll(p) \/ WriteFull(p) \/ WriteFails(p)
    BY StepsAre
    DEF Copy, Close, ExitClose, Drop, PipeClose, ExitZombie, Collected, Quiet, Exit, Kill, Call,
        ReadEmpty, vars
  <1>6. ASSUME NEW p \in Procs, WriteAll(p)
        PROVE  RingInv' /\ (Queue!Put \/ Fifo' = Fifo)
    <2>1. want[p] \in Nat /\ want[p] <= Room /\ Store(want[p])
      BY <1>0, <1>6 DEF WriteAll, TypeOK
    <2> QED BY <1>2, <2>1
  <1>7. ASSUME NEW p \in Procs, WriteFull(p) \/ WriteFails(p)
        PROVE  RingInv' /\ (Queue!Put \/ Fifo' = Fifo)
    <2>1. Room \in Nat /\ Room <= Room /\ Store(Room)
      BY <1>0, <1>7 DEF WriteFull, WriteFails
    <2> QED BY <1>2, <2>1
  <1> QED BY <1>3, <1>4, <1>5, <1>6, <1>7

\* The ring buffer with its counters that wrap implements a bounded queue: bytes come out
\* in the order in which they went in, none is lost and none comes twice, for every size
\* of the pipe that divides the range of the counters (pipewrite() and piperead()).
THEOREM Refinement == Spec => ImplementsFifo
  <1>1. Init => RingInv /\ Fifo = <<>>
    <2> SUFFICES ASSUME Init PROVE RingInv /\ Fifo = <<>>
      OBVIOUS
    <2>1. Used = 0
      <3>1. TypeOK
        BY InvInit DEF Inv
      <3>2. nread = 0 /\ nwrite = 0
        BY DEF Init
      <3> QED BY <3>1, <3>2, CountersAre
    <2>2. RingInv
      BY <2>1, Sizes DEF RingInv
    <2>3. Fifo = [i \in {} |-> data[Wrap(nread + i - 1) % PIPESIZE]]
      BY <2>1 DEF Fifo
    <2> QED BY <2>2, <2>3
  <1>2. Inv /\ RingInv /\ [Next]_vars => RingInv' /\ [Queue!Put \/ Queue!Take]_Fifo
    BY FifoStep
  <1>3. Spec => []RingInv /\ [][Queue!Put \/ Queue!Take]_Fifo
    <2>1. Init => RingInv
      BY <1>1
    <2> QED BY <1>2, <2>1, InvAlways, PTL DEF Spec
  <1>4. Init => Queue!FifoInit
    BY <1>1 DEF Queue!FifoInit, Fifo
  <1>5. [Queue!Put \/ Queue!Take]_Fifo
          <=> [Queue!Put \/ Queue!Take]_([i \in 1 .. Used |-> data[Wrap(nread + i - 1) % PIPESIZE]])
    BY DEF Fifo
  <1> QED BY <1>3, <1>4, <1>5, PTL DEF Spec, ImplementsFifo, Queue!FifoSpec

=============================================================================
