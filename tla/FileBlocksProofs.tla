-------------------------- MODULE FileBlocksProofs --------------------------
(***************************************************************************)
(* Proofs about FileBlocks, for every number of processes, inodes and open *)
(* files, every size of the disk, its blocks and its inodes, and whatever  *)
(* programs write.                                                         *)
(***************************************************************************)
EXTENDS FileBlocks, FunctionTheorems, FiniteSetTheorems, SequenceTheorems,
        WellFoundedInduction, TLAPS

Pcs == {"user", "begin", "write", "zero", "put", "trunc", "drop"}
Holds(p) == call[p].pc \in {"write", "zero", "trunc"}       \* the lock of Ip(p)
Refers(p) == call[p].pc \in {"put", "trunc", "drop"}        \* to Ip(p)
Writing(p) == call[p].pc \in {"write", "zero"}

\* The blocks that a call may log.
BitmapBlocks == {<<"bitmap", k>> : k \in 0 .. LastBBLOCK}
LogBlocks == {<<"directory">>} \cup BitmapBlocks \cup {IBLOCK(i) : i \in Inodes}
             \cup {DBLOCK(b) : b \in Blocks}

WordVals == Vals \cup (0 .. NBLOCKS) \cup {Stale}
InodeRecords == [type : {"free", "file"}, nlink : {0, 1}, size : 0 .. MAXFILE * BSIZE,
                 addrs : [0 .. NDIRECT -> 0 .. NBLOCKS]]
FileRecords == [ip : Inodes \cup {None}, off : 0 .. MAXFILE * BSIZE]
CallRecords == [pc : Pcs, todo : Seq(Vals), src : Seq(Vals), off : Nat, new : 0 .. NBLOCKS,
                ip : Inodes \cup {None}, k : Nat, logged : SUBSET LogBlocks,
                before : Seq(WordVals)]
CallType == call \in [Procs -> CallRecords]

Types ==
    /\ used \subseteq Blocks /\ data \in [Blocks -> [Words -> WordVals]]
    /\ disk \in [Inodes -> InodeRecords] /\ mem \in [Inodes -> InodeRecords]
    /\ ref \in [Inodes -> Nat] /\ fd \in [Procs -> Files \cup {None}]
    /\ file \in [Files -> FileRecords] /\ CallType

\* One process at a time has an inode locked.
LockInv == \A p, q \in Procs : Holds(p) /\ Holds(q) /\ Ip(p) = Ip(q) => p = q

\* An inode is referred to by open files, and by calls that are about to let it go.
Refs(i) == Cardinality({f \in Files : file[f].ip = i})
           + Cardinality({p \in Procs : Refers(p) /\ Ip(p) = i})
RefInv == \A i \in Inodes : ref[i] = Refs(i)

FileInv ==
    /\ \A f \in Files : file[f].ip # None =>
          disk[file[f].ip].type = "file" /\ \E p \in Procs : fd[p] = f
    /\ \A p \in Procs : fd[p] # None => file[fd[p]].ip # None

InodeInv == \A i \in Inodes : disk[i].type = "free" => disk[i] = FreeInode

\* Nobody else has the inode whose blocks itrunc() frees.
TruncInv ==
    \A p \in Procs : At(p, "trunc") =>
        /\ mem[Ip(p)] = disk[Ip(p)] /\ disk[Ip(p)].nlink = 0
        /\ \A f \in Files : file[f].ip # Ip(p)
        /\ \A q \in Procs \ {p} : Refers(q) => Ip(q) # Ip(p)

CallInv(p) ==
    /\ At(p, "user") => call[p] = Idle
    /\ At(p, "begin") => call[p] = [Idle EXCEPT !.pc = "begin", !.todo = call[p].todo]
    /\ At(p, "begin") \/ Writing(p) => fd[p] # None
    /\ Writing(p) \/ Refers(p) => Ip(p) \in Inodes
    /\ At(p, "put") \/ At(p, "zero") => call[p].k = 0
    /\ At(p, "zero") <=> call[p].new # 0
    /\ call[p].k <= IF At(p, "write") THEN LastBBLOCK ELSE MAXFILE + 1
    /\ At(p, "put") \/ At(p, "trunc") => disk[Ip(p)].type = "file"

\* The blocks of inode i, by number.
Blk(i, k) == IF k >= Freed(i) THEN Place(i, k) ELSE 0
Ks == 0 .. MAXFILE

\* Every block in use has one place, in a file or in the hands of balloc().
BlockInv ==
    /\ \A i \in Inodes, k \in Ks : Blk(i, k) \in 0 .. NBLOCKS
    /\ \A i, j \in Inodes, k, l \in Ks :
          Blk(i, k) # 0 /\ Blk(i, k) = Blk(j, l) => i = j /\ k = l
    /\ \A i \in Inodes, k \in Ks : Blk(i, k) # 0 => Blk(i, k) \in used
    /\ \A p \in Procs : At(p, "zero") =>
          call[p].new \in used /\ \A i \in Inodes, k \in Ks : Blk(i, k) # call[p].new
    /\ \A p, q \in Procs : At(p, "zero") /\ At(q, "zero") /\ call[p].new = call[q].new => p = q
    /\ \A b \in used : \/ \E i \in Inodes, k \in Ks : Blk(i, k) = b
                       \/ \E p \in Procs : At(p, "zero") /\ call[p].new = b
    /\ \A i \in Inodes : Blk(i, MAXFILE) # 0 => data[Blk(i, MAXFILE)] \in [Words -> 0 .. NBLOCKS]

\* The block that p is at, and whether bmap() finds it.
Bn(p) == call[p].off \div BSIZE
Missing(p) == BlockAt(mem[Ip(p)], Bn(p)) = 0

\* A chunk in progress: what it has written so far has blocks, and what is only in
\* memory will be on disk, because the file is going to grow.
WriteInv(p) ==
    Writing(p) =>
      LET i == Ip(p)
          end == call[p].off + Len(call[p].src)
      IN  /\ i = file[fd[p]].ip
          /\ mem[i].type = "file"
          /\ file[fd[p]].off <= call[p].off
          /\ end <= MAXFILE * BSIZE
          /\ \A k \in 0 .. MAXFILE - 1 : k * BSIZE < call[p].off => BlockAt(mem[i], k) # 0
          /\ mem[i] # disk[i] => end > mem[i].size /\ call[p].src # <<>>
          /\ call[p].src = <<>> => call[p].off <= mem[i].size
          /\ At(p, "zero") => call[p].src # <<>> /\ Missing(p)

\* Blocks that a chunk may still have to log: two for each block of bytes after this
\* one, for this one what is left to do, for the indirect block, for the inode.
Ahead(r, m, o) == m <= (r + 1) * BSIZE - o
ForBlock(p) ==
    IF At(p, "zero") /\ (Bn(p) < NDIRECT \/ Indirect(mem[Ip(p)]) # 0) THEN 1
    ELSE IF Missing(p) THEN 2
    ELSE IF DBLOCK(BlockAt(mem[Ip(p)], Bn(p))) \in call[p].logged THEN 0 ELSE 1
ForIndirect(p) ==
    IF Indirect(mem[Ip(p)]) # 0
    THEN IF DBLOCK(Indirect(mem[Ip(p)])) \in call[p].logged THEN 0 ELSE 1
    ELSE IF At(p, "zero") /\ Bn(p) >= NDIRECT THEN 1 ELSE 2

LogInv(p) ==
    /\ At(p, "user") \/ At(p, "begin") => call[p].logged = {}
    /\ Refers(p) => call[p].logged \subseteq {<<"directory">>, IBLOCK(Ip(p))} \cup BitmapBlocks
    /\ Writing(p) =>
          IF call[p].src = <<>> THEN Cardinality(call[p].logged) <= MAXOPBLOCKS
          ELSE \E r \in Nat :
                 /\ Ahead(r, Len(call[p].src), call[p].off % BSIZE)
                 /\ Cardinality(call[p].logged) + 2 * r + ForBlock(p) + ForIndirect(p) + 1
                      <= MAXOPBLOCKS

ProcInv(p) == CallInv(p) /\ WriteInv(p) /\ LogInv(p)

\* NoHoles, in terms of Blk.
HolesInv(i) ==
    Freed(i) = 0 => \A k \in 0 .. MAXFILE - 1 : k * BSIZE < Inode(i).size => Blk(i, k) # 0
OffInv == \A f \in Files : file[f].ip # None => file[f].off <= Inode(file[f].ip).size

\* The inductive invariant.
Inv ==
    /\ Types /\ LockInv /\ RefInv /\ FileInv /\ InodeInv /\ TruncInv /\ BlockInv
    /\ NothingOnlyInMemory /\ OffInv
    /\ \A i \in Inodes : HolesInv(i)
    /\ \A p \in Procs : ProcInv(p)
    /\ panicked # "freeing free block"

-----------------------------------------------------------------------------
(* Arithmetic of blocks *)

LEMMA Sizes ==
  /\ NBLOCKS \in Nat /\ NBLOCKS > 0 /\ BPB \in Nat /\ BPB > 0 /\ BSIZE \in Nat /\ BSIZE > 0
  /\ NDIRECT \in Nat /\ NDIRECT > 0 /\ MAXOPBLOCKS \in Nat /\ MAXOPBLOCKS >= 6
  /\ MAXFILE \in Nat /\ MAXFILE = NDIRECT + BSIZE
  BY SizesAssumption, ReservationAssumption DEF MAXFILE

LEMMA FileKs ==
  /\ \A k \in 0 .. MAXFILE - 1 : k \in Ks /\ k # MAXFILE
  /\ MAXFILE \in Ks /\ \A k \in Ks : k \in Nat /\ k <= MAXFILE
  BY Sizes DEF Ks

LEMMA DivMod ==
  ASSUME NEW o \in Nat
  PROVE  /\ o \div BSIZE \in Nat /\ o % BSIZE \in 0 .. BSIZE - 1
         /\ o = (o \div BSIZE) * BSIZE + (o % BSIZE)
  <1>1. o \div BSIZE \in Int /\ o % BSIZE \in 0 .. BSIZE - 1
    BY Sizes
  <1>2. o = BSIZE * (o \div BSIZE) + (o % BSIZE)
    BY Sizes
  <1>3. o \div BSIZE \in Nat
    BY Sizes
  <1>4. BSIZE * (o \div BSIZE) = (o \div BSIZE) * BSIZE
    BY <1>1, Sizes
  <1> QED BY <1>1, <1>2, <1>3, <1>4

LEMMA DivBPB ==
  ASSUME NEW b \in Blocks
  PROVE  (b - 1) \div BPB \in 0 .. LastBBLOCK
  BY Sizes DEF Blocks, LastBBLOCK

\* A product with the size of a block, compared.
LEMMA Times ==
  ASSUME NEW a \in Int, NEW b \in Int, a * BSIZE < b * BSIZE
  PROVE  a < b
  BY Sizes

LEMMA TimesNext ==
  ASSUME NEW a \in Int
  PROVE  (a + 1) * BSIZE = a * BSIZE + BSIZE /\ a * BSIZE \in Int
  BY Sizes

LEMMA Multiple ==
  ASSUME NEW a \in Nat
  PROVE  (a * BSIZE) % BSIZE = 0 /\ (a * BSIZE) \div BSIZE = a
  <1> DEFINE x == a * BSIZE
             q == x \div BSIZE
             r == x % BSIZE
  <1>1. x \in Nat
    BY Sizes
  <1>2. q \in Nat /\ r \in 0 .. BSIZE - 1 /\ x = q * BSIZE + r
    BY <1>1, DivMod
  <1> HIDE DEF q, r
  <1>3. q * BSIZE < (a + 1) * BSIZE /\ a * BSIZE < (q + 1) * BSIZE
    BY <1>2, TimesNext, Sizes
  <1>4. q = a
    BY <1>2, <1>3, Times
  <1>5. r = 0
    BY <1>1, <1>2, <1>4 DEF x
  <1> QED BY <1>4, <1>5 DEF q, r, x

\* A turn of the loop of writei(): m bytes from off go to block bn.
LEMMA Turn ==
  ASSUME NEW off \in Nat, NEW len \in Nat \ {0}, off + len <= MAXFILE * BSIZE
  PROVE  LET o == off % BSIZE
             m == Min2(len, BSIZE - o)
             bn == off \div BSIZE
         IN  /\ m \in 1 .. len /\ o \in 0 .. BSIZE - 1 /\ m <= BSIZE - o
             /\ bn \in 0 .. MAXFILE - 1 /\ bn * BSIZE <= off
             /\ \A k \in Nat : k * BSIZE < off + m => k * BSIZE < off \/ k = bn
             /\ \A k \in Nat : k < bn => k * BSIZE < off
             /\ o = 0 \/ bn * BSIZE < off
             /\ m < len => m = BSIZE - o /\ (off + m) % BSIZE = 0
  <1> DEFINE o == off % BSIZE
             m == Min2(len, BSIZE - o)
             bn == off \div BSIZE
  <1>1. bn \in Nat /\ o \in 0 .. BSIZE - 1 /\ off = bn * BSIZE + o
    BY DivMod
  <1>2. m \in 1 .. len /\ m <= BSIZE - o /\ (m < len => m = BSIZE - o)
    BY <1>1, Sizes DEF Min2
  <1> HIDE DEF o, bn, m
  <1>3. bn * BSIZE \in Int /\ MAXFILE * BSIZE \in Int
    BY <1>1, TimesNext, Sizes
  <1>4. bn < MAXFILE
    <2>1. bn * BSIZE < MAXFILE * BSIZE
      BY <1>1, <1>3
    <2> QED BY <1>1, <2>1, Times, Sizes
  <1>5. ASSUME NEW k \in Nat, k * BSIZE < off + m, k # bn PROVE k * BSIZE < off
    <2>1. k * BSIZE \in Int /\ k * BSIZE < (bn + 1) * BSIZE
      BY <1>1, <1>2, <1>3, <1>5, TimesNext, Sizes
    <2>2. k < bn + 1
      BY <1>1, <2>1, Times
    <2>3. k + 1 <= bn
      BY <1>1, <1>5, <2>2
    <2>4. ~ (bn * BSIZE < (k + 1) * BSIZE)
      BY <1>1, <2>3, Times
    <2>5. k * BSIZE + BSIZE <= bn * BSIZE
      BY <1>3, <2>4, TimesNext, Sizes
    <2> QED BY <1>1, <1>3, <2>1, <2>5, Sizes
  <1>6. ASSUME NEW k \in Nat, k < bn PROVE k * BSIZE < off
    <2>1. ~ (bn * BSIZE < (k + 1) * BSIZE)
      BY <1>1, <1>6, Times
    <2>2. k * BSIZE + BSIZE <= bn * BSIZE /\ k * BSIZE \in Int
      BY <1>3, <2>1, TimesNext, Sizes
    <2> QED BY <1>1, <1>3, <2>2, Sizes
  <1>7. ASSUME m < len PROVE m = BSIZE - o /\ (off + m) % BSIZE = 0
    <2>1. m = BSIZE - o /\ off + m = (bn + 1) * BSIZE
      BY <1>1, <1>2, <1>3, <1>7, TimesNext, Sizes
    <2> QED BY <1>1, <2>1, Multiple
  <1>8. bn \in 0 .. MAXFILE - 1 /\ bn * BSIZE <= off /\ (o = 0 \/ bn * BSIZE < off)
    BY <1>1, <1>3, <1>4, Sizes
  <1> QED BY <1>1, <1>2, <1>5, <1>6, <1>7, <1>8 DEF o, bn, m

\* The byte at j of a file is in a block of the file.
LEMMA ByteIsIn ==
  ASSUME NEW j \in Nat, j < MAXFILE * BSIZE
  PROVE  /\ j \div BSIZE \in 0 .. MAXFILE - 1 /\ j % BSIZE \in Words
         /\ (j \div BSIZE) * BSIZE <= j
  <1>1. j + 1 <= MAXFILE * BSIZE
    BY Sizes
  <1> QED BY <1>1, Turn DEF Words

LEMMA FirstRest ==
  ASSUME NEW S, NEW s \in Seq(S), NEW n \in Nat
  PROVE  /\ First(s, n) \in Seq(S) /\ Len(First(s, n)) = Min2(n, Len(s))
         /\ Rest(s, n) \in Seq(S)
         /\ n <= Len(s) => Len(Rest(s, n)) = Len(s) - n
         /\ \A k \in 1 .. Len(First(s, n)) : First(s, n)[k] \in S
  <1>0. Len(s) \in Nat /\ \A i \in 1 .. Len(s) : s[i] \in S
    OBVIOUS
  <1> DEFINE m == Min2(n, Len(s))
  <1>1. m \in Nat /\ m <= Len(s)
    BY <1>0 DEF Min2
  <1> HIDE DEF m
  <1>2. SubSeq(s, 1, m) \in Seq(S) /\ Len(SubSeq(s, 1, m)) = m
    <2>1. /\ \A i \in 1 .. m : s[i] \in S
      BY <1>0, <1>1
    <2>2. /\ SubSeq(s, 1, m) \in Seq(S)
          /\ Len(SubSeq(s, 1, m)) = IF 1 <= m THEN m - 1 + 1 ELSE 0
      BY <1>1, <2>1, SubSeqProperties
    <2> QED BY <1>1, <2>2
  <1>3. /\ SubSeq(s, n + 1, Len(s)) \in Seq(S)
        /\ n <= Len(s) => Len(SubSeq(s, n + 1, Len(s))) = Len(s) - n
    <2>1. \A i \in n + 1 .. Len(s) : s[i] \in S
      BY <1>0
    <2>2. /\ SubSeq(s, n + 1, Len(s)) \in Seq(S)
          /\ Len(SubSeq(s, n + 1, Len(s))) =
                IF n + 1 <= Len(s) THEN Len(s) - (n + 1) + 1 ELSE 0
      BY <1>0, <2>1, SubSeqProperties
    <2> QED BY <1>0, <2>2
  <1>4. First(s, n) = SubSeq(s, 1, m) /\ Rest(s, n) = SubSeq(s, n + 1, Len(s))
    BY DEF First, Rest, m
  <1> QED BY <1>2, <1>3, <1>4 DEF m

-----------------------------------------------------------------------------
(* Counting references *)

Has(v, i) == IF v = i THEN 1 ELSE 0

\* Sets that differ in one element.
LEMMA SetChange ==
  ASSUME NEW S, IsFiniteSet(S), NEW F \in SUBSET S, NEW G \in SUBSET S, NEW x \in S,
         F \ {x} = G \ {x}
  PROVE  /\ Cardinality(F) \in Nat /\ Cardinality(G) \in Nat
         /\ Cardinality(G) + (IF x \in F THEN 1 ELSE 0)
               = Cardinality(F) + (IF x \in G THEN 1 ELSE 0)
  <1> DEFINE A == F \ {x}
  <1>1. /\ F = IF x \in F THEN A \cup {x} ELSE A
        /\ G = IF x \in G THEN A \cup {x} ELSE A
        /\ A \in SUBSET S /\ x \notin A
    OBVIOUS
  <1>2. IsFiniteSet(A)
    BY <1>1, FS_Subset
  <1>3. Cardinality(A) \in Nat
    BY <1>2, FS_CardinalityType
  <1>4. Cardinality(A \cup {x}) = Cardinality(A) + 1
    BY <1>1, <1>2, FS_AddElement
  <1> HIDE DEF A
  <1>5. /\ Cardinality(F) = IF x \in F THEN Cardinality(A) + 1 ELSE Cardinality(A)
        /\ Cardinality(G) = IF x \in G THEN Cardinality(A) + 1 ELSE Cardinality(A)
    BY <1>1, <1>4
  <1> QED BY <1>3, <1>5

\* What has one element at most has no second one.
LEMMA OnlyOne ==
  ASSUME NEW S, IsFiniteSet(S)
  PROVE  /\ Cardinality(S) \in Nat
         /\ Cardinality(S) = 0 => S = {}
         /\ S # {} => Cardinality(S) >= 1
         /\ \A a, b \in S : Cardinality(S) <= 1 => a = b
  <1>1. Cardinality(S) \in Nat /\ (Cardinality(S) = 0 <=> S = {})
    BY FS_CardinalityType, FS_EmptySet
  <1>2. ASSUME NEW a \in S, NEW b \in S, a # b PROVE Cardinality(S) >= 2
    <2>1. IsFiniteSet({a}) /\ Cardinality({a}) = 1 /\ b \notin {a}
      BY <1>2, FS_Singleton
    <2>2. Cardinality({a} \cup {b}) = 2
      BY <2>1, FS_AddElement
    <2>3. {a} \cup {b} \in SUBSET S
      OBVIOUS
    <2>4. Cardinality({a} \cup {b}) <= Cardinality(S)
      BY <2>3, FS_Subset
    <2> QED BY <1>1, <2>2, <2>4
  <1> QED BY <1>1, <1>2

FileRefs(i) == Cardinality({f \in Files : file[f].ip = i})
CallRefs(i) == Cardinality({p \in Procs : Refers(p) /\ Ip(p) = i})

\* The inode that p is about to let go.
Out(p) == IF Refers(p) THEN Ip(p) ELSE None

LEMMA RefsAre ==
  ASSUME NEW i
  PROVE  Refs(i) = FileRefs(i) + CallRefs(i) /\ FileRefs(i) \in Nat /\ CallRefs(i) \in Nat
  <1>1. {f \in Files : file[f].ip = i} \in SUBSET Files
        /\ {p \in Procs : Refers(p) /\ Ip(p) = i} \in SUBSET Procs
    OBVIOUS
  <1>2. IsFiniteSet({f \in Files : file[f].ip = i})
        /\ IsFiniteSet({p \in Procs : Refers(p) /\ Ip(p) = i})
    BY <1>1, FS_Subset, FiniteAssumption
  <1> QED BY <1>2, FS_CardinalityType DEF Refs, FileRefs, CallRefs

LEMMA RefsNow ==
  ASSUME RefInv, NEW i \in Inodes
  PROVE  /\ ref[i] = FileRefs(i) + CallRefs(i) /\ FileRefs(i) \in Nat /\ CallRefs(i) \in Nat
         /\ Refs(i)' = FileRefs(i)' + CallRefs(i)'
  <1>1. Refs(i)' = FileRefs(i)' + CallRefs(i)'
    BY DEF Refs, FileRefs, CallRefs
  <1>2. ref[i] = Refs(i)
    BY DEF RefInv
  <1> QED BY <1>1, <1>2, RefsAre

LEMMA FileRefsChange ==
  ASSUME NEW f \in Files, NEW i \in Inodes, \A g \in Files \ {f} : file'[g].ip = file[g].ip
  PROVE  FileRefs(i)' + Has(file[f].ip, i) = FileRefs(i) + Has(file'[f].ip, i)
         /\ FileRefs(i)' \in Nat
  <1> DEFINE F == {g \in Files : file[g].ip = i}
             G == {g \in Files : file'[g].ip = i}
  <1>1. /\ F \in SUBSET Files /\ G \in SUBSET Files /\ F \ {f} = G \ {f}
        /\ f \in F <=> file[f].ip = i
        /\ f \in G <=> file'[f].ip = i
    OBVIOUS
  <1>2. FileRefs(i) = Cardinality(F) /\ FileRefs(i)' = Cardinality(G)
    BY DEF FileRefs
  <1> HIDE DEF F, G
  <1>3. Cardinality(G) \in Nat /\ Cardinality(G) + (IF f \in F THEN 1 ELSE 0)
                                   = Cardinality(F) + (IF f \in G THEN 1 ELSE 0)
    BY <1>1, SetChange, FiniteAssumption
  <1> QED BY <1>1, <1>2, <1>3 DEF Has

LEMMA CallRefsChange ==
  ASSUME NEW p \in Procs, NEW i \in Inodes, \A q \in Procs \ {p} : call'[q] = call[q]
  PROVE  CallRefs(i)' + Has(Out(p), i) = CallRefs(i) + Has(Out(p)', i)
         /\ CallRefs(i)' \in Nat
  <1> DEFINE F == {q \in Procs : Refers(q) /\ Ip(q) = i}
             G == {q \in Procs : Refers(q)' /\ Ip(q)' = i}
  <1>1. /\ F \in SUBSET Procs /\ G \in SUBSET Procs /\ F \ {p} = G \ {p}
    BY DEF Refers, Ip
  <1>2. /\ p \in F <=> Out(p) = i
        /\ p \in G <=> Out(p)' = i
    BY NoneAssumption DEF Out
  <1>3. CallRefs(i) = Cardinality(F) /\ CallRefs(i)' = Cardinality(G)
    BY DEF CallRefs
  <1> HIDE DEF F, G
  <1>4. Cardinality(G) \in Nat /\ Cardinality(G) + (IF p \in F THEN 1 ELSE 0)
                                   = Cardinality(F) + (IF p \in G THEN 1 ELSE 0)
    BY <1>1, SetChange, FiniteAssumption
  <1> QED BY <1>2, <1>3, <1>4 DEF Has

\* What an open file and a call do to the references.
LEMMA RefsChange ==
  ASSUME RefInv, NEW p \in Procs, NEW f \in Files, NEW j \in Inodes,
         \A q \in Procs \ {p} : call'[q] = call[q],
         \A g \in Files \ {f} : file'[g].ip = file[g].ip
  PROVE  /\ Refs(j)' + Has(file[f].ip, j) + Has(Out(p), j)
               = ref[j] + Has(file'[f].ip, j) + Has(Out(p)', j)
         /\ Refs(j)' \in Nat /\ ref[j] \in Nat
  <1> DEFINE a == FileRefs(j)
             b == CallRefs(j)
             aa == FileRefs(j)'
             bb == CallRefs(j)'
             h == Has(file[f].ip, j)
             hh == Has(file'[f].ip, j)
             o == Has(Out(p), j)
             oo == Has(Out(p)', j)
  <1>1. aa + h = a + hh /\ aa \in Nat
    BY FileRefsChange
  <1>2. bb + o = b + oo /\ bb \in Nat
    BY CallRefsChange
  <1>3. ref[j] = a + b /\ a \in Nat /\ b \in Nat /\ Refs(j)' = aa + bb
    BY RefsNow
  <1>4. h \in Nat /\ hh \in Nat /\ o \in Nat /\ oo \in Nat
    BY DEF Has
  <1> HIDE DEF a, b, aa, bb, h, hh, o, oo
  <1>5. /\ Refs(j)' + h + o = ref[j] + hh + oo
        /\ Refs(j)' \in Nat /\ ref[j] \in Nat
    BY <1>1, <1>2, <1>3, <1>4
  <1> QED BY <1>5 DEF h, hh, o, oo

\* References are counted, so who has the only one is alone.
LEMMA OnlyReference ==
  ASSUME RefInv, NEW p \in Procs, NEW i \in Inodes, Refers(p), Ip(p) = i
  PROVE  /\ ref[i] \in Nat /\ ref[i] >= 1
         /\ ref[i] = 1 => /\ \A f \in Files : file[f].ip # i
                          /\ \A q \in Procs \ {p} : Refers(q) => Ip(q) # i
  <1> DEFINE F == {f \in Files : file[f].ip = i}
             C == {q \in Procs : Refers(q) /\ Ip(q) = i}
  <1>1. IsFiniteSet(F) /\ IsFiniteSet(C) /\ p \in C
    <2>1. F \in SUBSET Files /\ C \in SUBSET Procs
      OBVIOUS
    <2> QED BY <2>1, FS_Subset, FiniteAssumption
  <1>2. ref[i] = Cardinality(F) + Cardinality(C)
    BY DEF RefInv, Refs
  <1> HIDE DEF F, C
  <1>3. Cardinality(C) >= 1 /\ Cardinality(C) \in Nat /\ Cardinality(F) \in Nat
    BY <1>1, OnlyOne
  <1>4. ASSUME ref[i] = 1 PROVE Cardinality(F) = 0 /\ Cardinality(C) <= 1
    BY <1>2, <1>3, <1>4
  <1>5. ASSUME ref[i] = 1 PROVE F = {} /\ \A q \in C : q = p
    BY <1>1, <1>4, <1>5, OnlyOne
  <1> QED BY <1>2, <1>3, <1>5 DEF F, C

LEMMA OpenIsReferred ==
  ASSUME RefInv, NEW f \in Files, NEW i \in Inodes, file[f].ip = i
  PROVE  ref[i] \in Nat /\ ref[i] >= 1
  <1> DEFINE F == {g \in Files : file[g].ip = i}
  <1>1. IsFiniteSet(F) /\ f \in F
    <2>1. F \in SUBSET Files
      OBVIOUS
    <2> QED BY <2>1, FS_Subset, FiniteAssumption
  <1> HIDE DEF F
  <1>2. Cardinality(F) >= 1
    BY <1>1, OnlyOne
  <1>3. FileRefs(i) = Cardinality(F)
    BY DEF FileRefs, F
  <1> QED BY <1>2, <1>3, RefsAre DEF RefInv

-----------------------------------------------------------------------------
(* Where blocks are *)

\* BlockAt() and Place() in an inode ip and with words d.
Word(d, ip, bn) ==
    IF bn < NDIRECT THEN ip.addrs[bn]
    ELSE IF ip.addrs[NDIRECT] = 0 THEN 0
    ELSE d[ip.addrs[NDIRECT]][bn - NDIRECT]
PlaceIn(d, ip, k) == IF k = MAXFILE THEN ip.addrs[NDIRECT] ELSE Word(d, ip, k)

\* Locked() and Freed() when processes are at c.
HoldsIn(c, p, i) == c[p].ip = i /\ c[p].pc \in {"write", "zero", "trunc"}
LockedIn(c, i) == \E p \in Procs : HoldsIn(c, p, i)
TruncsIn(c, p, i) == c[p].pc = "trunc" /\ c[p].ip = i
FreedIn(c, i) ==
    IF \E p \in Procs : TruncsIn(c, p, i)
    THEN c[CHOOSE p \in Procs : TruncsIn(c, p, i)].k ELSE 0

LEMMA Places ==
  /\ \A ip, k : BlockAt(ip, k) = Word(data, ip, k)
  /\ \A i, k : Place(i, k) = PlaceIn(data, Inode(i), k)
  /\ \A i, k : BlockAt(mem[i], k)' = Word(data', mem'[i], k)
  /\ \A i, k : Place(i, k)' = PlaceIn(data', Inode(i)', k)
  /\ \A i : Indirect(mem[i]) = mem[i].addrs[NDIRECT]
  /\ \A i : Indirect(mem[i])' = mem'[i].addrs[NDIRECT]
  BY DEF BlockAt, Place, Indirect, PlaceIn, Word

LEMMA Uses ==
  /\ \A i : Locked(i) <=> LockedIn(call, i)
  /\ \A i : Locked(i)' <=> LockedIn(call', i)
  /\ \A i : Freed(i) = FreedIn(call, i)
  /\ \A i : Freed(i)' = FreedIn(call', i)
  BY DEF Locked, Freed, LockedIn, FreedIn, HoldsIn, TruncsIn, At, Ip

LEMMA InUse ==
  ASSUME NEW c, NEW p \in Procs, NEW i, HoldsIn(c, p, i),
         \A q \in Procs : HoldsIn(c, q, i) => q = p
  PROVE  LockedIn(c, i) /\ FreedIn(c, i) = IF c[p].pc = "trunc" THEN c[p].k ELSE 0
  <1>1. \A q \in Procs : TruncsIn(c, q, i) => q = p
    BY DEF HoldsIn, TruncsIn
  <1>2. CASE c[p].pc = "trunc"
    <2>1. TruncsIn(c, p, i)
      BY <1>2 DEF HoldsIn, TruncsIn
    <2>2. (CHOOSE q \in Procs : TruncsIn(c, q, i)) = p
      BY <1>1, <2>1
    <2> QED BY <1>2, <2>1, <2>2 DEF LockedIn, FreedIn
  <1>3. CASE c[p].pc # "trunc"
    <2>1. ~ \E q \in Procs : TruncsIn(c, q, i)
      BY <1>1, <1>3 DEF TruncsIn
    <2> QED BY <1>3, <2>1 DEF LockedIn, FreedIn
  <1> QED BY <1>2, <1>3

LEMMA NotInUse ==
  ASSUME NEW c, NEW i, \A q \in Procs : ~HoldsIn(c, q, i)
  PROVE  ~LockedIn(c, i) /\ FreedIn(c, i) = 0
  BY DEF LockedIn, FreedIn, HoldsIn, TruncsIn

LEMMA SameUse ==
  ASSUME NEW c, NEW d, NEW p \in Procs, NEW i, \A q \in Procs \ {p} : d[q] = c[q],
         ~HoldsIn(c, p, i), ~HoldsIn(d, p, i),
         \A q, r \in Procs : HoldsIn(c, q, i) /\ HoldsIn(c, r, i) => q = r
  PROVE  (LockedIn(d, i) <=> LockedIn(c, i)) /\ FreedIn(d, i) = FreedIn(c, i)
  <1>1. \A q \in Procs : HoldsIn(d, q, i) <=> HoldsIn(c, q, i)
    BY DEF HoldsIn
  <1>2. CASE \E q \in Procs : HoldsIn(c, q, i)
    <2>1. PICK q \in Procs : HoldsIn(c, q, i)
      BY <1>2
    <2>2. HoldsIn(d, q, i) /\ d[q] = c[q]
      BY <1>1, <2>1
    <2>3. /\ \A r \in Procs : HoldsIn(c, r, i) => r = q
          /\ \A r \in Procs : HoldsIn(d, r, i) => r = q
      BY <1>1, <2>1
    <2>4. LockedIn(c, i) /\ FreedIn(c, i) = IF c[q].pc = "trunc" THEN c[q].k ELSE 0
      BY <2>1, <2>3, InUse
    <2>5. LockedIn(d, i) /\ FreedIn(d, i) = IF d[q].pc = "trunc" THEN d[q].k ELSE 0
      BY <2>2, <2>3, InUse
    <2> QED BY <2>2, <2>4, <2>5
  <1>3. CASE \A q \in Procs : ~HoldsIn(c, q, i)
    BY <1>1, <1>3, NotInUse
  <1> QED BY <1>2, <1>3

\* Only the addresses of an inode and the words of its indirect block count.
LEMMA SamePlaces ==
  ASSUME NEW d, NEW e, NEW ip, NEW jp, jp.addrs = ip.addrs,
         ip.addrs[NDIRECT] # 0 => e[ip.addrs[NDIRECT]] = d[ip.addrs[NDIRECT]], NEW k
  PROVE  PlaceIn(e, jp, k) = PlaceIn(d, ip, k)
  BY DEF PlaceIn, Word

-----------------------------------------------------------------------------
(* What a step of p leaves alone *)

\* p changes no inode but i, which nobody else has locked.
Apart(p, i) ==
    /\ \A q \in Procs \ {p} : call'[q] = call[q] /\ (Holds(q) => Ip(q) # i)
    /\ Holds(p) => Ip(p) = i
    /\ Holds(p)' => Ip(p)' = i
    /\ \A j \in Inodes \ {i} :
         /\ mem'[j] = mem[j] /\ disk'[j] = disk[j]
         /\ Blk(j, MAXFILE) # 0 => data'[Blk(j, MAXFILE)] = data[Blk(j, MAXFILE)]

LEMMA OthersLocks ==
  ASSUME LockInv, NEW p \in Procs, NEW i, Apart(p, i), NEW j \in Inodes \ {i}
  PROVE  /\ Locked(j)' <=> Locked(j)
         /\ Freed(j)' = Freed(j) /\ Inode(j)' = Inode(j)
  <1>1. \A q \in Procs \ {p} : call'[q] = call[q]
    BY DEF Apart
  <1>2. ~HoldsIn(call, p, j) /\ ~HoldsIn(call', p, j)
    BY DEF Apart, Holds, HoldsIn, Ip
  <1>3. \A q, r \in Procs : HoldsIn(call, q, j) /\ HoldsIn(call, r, j) => q = r
    BY DEF LockInv, Holds, HoldsIn, Ip
  <1>4. (LockedIn(call', j) <=> LockedIn(call, j)) /\ FreedIn(call', j) = FreedIn(call, j)
    BY <1>1, <1>2, <1>3, SameUse
  <1>5. (Locked(j)' <=> Locked(j)) /\ Freed(j)' = Freed(j)
    BY <1>4, Uses
  <1>6. mem'[j] = mem[j] /\ disk'[j] = disk[j]
    BY DEF Apart
  <1> QED BY <1>5, <1>6 DEF Inode

LEMMA OthersBlocks ==
  ASSUME LockInv, NEW p \in Procs, NEW i, Apart(p, i), NEW j \in Inodes \ {i}, NEW k \in Ks,
         Freed(j) \in Nat
  PROVE  Blk(j, k)' = Blk(j, k)
  <1>1. Freed(j)' = Freed(j) /\ Inode(j)' = Inode(j)
    BY OthersLocks
  <1>2. Blk(j, k)' = IF k >= Freed(j) THEN PlaceIn(data', Inode(j), k) ELSE 0
    BY <1>1, Places DEF Blk
  <1>3. Blk(j, k) = IF k >= Freed(j) THEN PlaceIn(data, Inode(j), k) ELSE 0
    BY Places DEF Blk
  <1>4. ASSUME k >= Freed(j) PROVE PlaceIn(data', Inode(j), k) = PlaceIn(data, Inode(j), k)
    <2>1. MAXFILE >= Freed(j)
      BY <1>4, Sizes DEF Ks
    <2>2. Blk(j, MAXFILE) = Inode(j).addrs[NDIRECT]
      BY <2>1, Places DEF Blk, PlaceIn
    <2>3. Blk(j, MAXFILE) # 0 => data'[Blk(j, MAXFILE)] = data[Blk(j, MAXFILE)]
      BY DEF Apart
    <2> QED BY <2>2, <2>3, SamePlaces
  <1> QED BY <1>2, <1>3, <1>4

\* The inode that p is at, before and after.
LEMMA OwnInode ==
  ASSUME LockInv, NEW p \in Procs, NEW i, Apart(p, i)
  PROVE  /\ Holds(p) => Locked(i) /\ Inode(i) = mem[i]
                        /\ Freed(i) = IF At(p, "trunc") THEN call[p].k ELSE 0
         /\ ~Holds(p) => ~Locked(i) /\ Inode(i) = disk[i] /\ Freed(i) = 0
         /\ Holds(p)' => Locked(i)' /\ Inode(i)' = mem'[i]
                         /\ Freed(i)' = IF At(p, "trunc")' THEN call'[p].k ELSE 0
         /\ ~Holds(p)' => ~Locked(i)' /\ Inode(i)' = disk'[i] /\ Freed(i)' = 0
  <1>1. \A q \in Procs \ {p} : ~HoldsIn(call, q, i) /\ ~HoldsIn(call', q, i)
    BY DEF Apart, Holds, HoldsIn, Ip
  <1>2. /\ HoldsIn(call, p, i) <=> Holds(p)
        /\ HoldsIn(call', p, i) <=> Holds(p)'
    BY DEF Apart, Holds, HoldsIn, Ip
  <1>3. ASSUME Holds(p)
        PROVE  Locked(i) /\ Freed(i) = IF At(p, "trunc") THEN call[p].k ELSE 0
    <2>1. LockedIn(call, i) /\ FreedIn(call, i) = IF call[p].pc = "trunc" THEN call[p].k ELSE 0
      BY <1>1, <1>2, <1>3, InUse
    <2> QED BY <2>1, Uses DEF At
  <1>4. ASSUME ~Holds(p) PROVE ~Locked(i) /\ Freed(i) = 0
    <2>1. ~LockedIn(call, i) /\ FreedIn(call, i) = 0
      BY <1>1, <1>2, <1>4, NotInUse
    <2> QED BY <2>1, Uses
  <1>5. ASSUME Holds(p)'
        PROVE  Locked(i)' /\ Freed(i)' = IF At(p, "trunc")' THEN call'[p].k ELSE 0
    <2>1. LockedIn(call', i)
          /\ FreedIn(call', i) = IF call'[p].pc = "trunc" THEN call'[p].k ELSE 0
      BY <1>1, <1>2, <1>5, InUse
    <2> QED BY <2>1, Uses DEF At
  <1>6. ASSUME ~Holds(p)' PROVE ~Locked(i)' /\ Freed(i)' = 0
    <2>1. ~LockedIn(call', i) /\ FreedIn(call', i) = 0
      BY <1>1, <1>2, <1>6, NotInUse
    <2> QED BY <2>1, Uses
  <1> QED BY <1>3, <1>4, <1>5, <1>6 DEF Inode

LEMMA LocksStay ==
  ASSUME LockInv, NEW p \in Procs, NEW i, Apart(p, i)
  PROVE  LockInv'
  <1>1. \A q \in Procs \ {p} : ~(Holds(q)' /\ Ip(q)' = i)
    BY DEF Apart, Holds, Ip
  <1>2. \A q \in Procs \ {p} : (Holds(q)' <=> Holds(q)) /\ Ip(q)' = Ip(q)
    BY DEF Apart, Holds, Ip
  <1>3. Holds(p)' => Ip(p)' = i
    BY DEF Apart
  <1>4. SUFFICES ASSUME NEW q \in Procs, NEW r \in Procs,
                        Holds(q)', Holds(r)', Ip(q)' = Ip(r)'
                 PROVE  q = r
    BY DEF LockInv
  <1>5. CASE q # p /\ r # p
    BY <1>2, <1>4, <1>5 DEF LockInv
  <1>6. CASE q = p \/ r = p
    BY <1>1, <1>3, <1>4, <1>6
  <1> QED BY <1>5, <1>6

LEMMA HolderIs ==
  ASSUME LockInv, NEW p \in Procs, Holds(p)
  PROVE  /\ Locked(Ip(p)) /\ Inode(Ip(p)) = mem[Ip(p)]
         /\ Freed(Ip(p)) = IF At(p, "trunc") THEN call[p].k ELSE 0
  <1>1. HoldsIn(call, p, Ip(p)) /\ \A q \in Procs : HoldsIn(call, q, Ip(p)) => q = p
    BY DEF LockInv, Holds, HoldsIn, Ip
  <1>2. LockedIn(call, Ip(p))
        /\ FreedIn(call, Ip(p)) = IF call[p].pc = "trunc" THEN call[p].k ELSE 0
    BY <1>1, InUse
  <1> QED BY <1>2, Uses DEF Inode, At

\* The fields of what p is at.
LEMMA Registers ==
  ASSUME Types, NEW p \in Procs
  PROVE  /\ call[p] \in CallRecords /\ call[p].pc \in Pcs /\ Ip(p) \in Inodes \cup {None}
         /\ call[p].todo \in Seq(Vals) /\ call[p].src \in Seq(Vals) /\ call[p].off \in Nat
         /\ call[p].new \in 0 .. NBLOCKS /\ call[p].k \in Nat
         /\ call[p].logged \subseteq LogBlocks /\ call[p].before \in Seq(WordVals)
         /\ Len(call[p].src) \in Nat /\ fd[p] \in Files \cup {None}
         /\ fd[p] # None => file[fd[p]] \in FileRecords
  BY DEF Types, CallType, CallRecords, Ip

LEMMA FreedIsNat ==
  ASSUME Types, LockInv, NEW i \in Inodes
  PROVE  Freed(i) \in Nat /\ (~Locked(i) => Freed(i) = 0)
  <1>1. CASE \E p \in Procs : HoldsIn(call, p, i)
    <2>1. PICK p \in Procs : HoldsIn(call, p, i)
      BY <1>1
    <2>2. Holds(p) /\ Ip(p) = i
      BY <2>1 DEF Holds, HoldsIn, Ip
    <2>3. Freed(i) = (IF At(p, "trunc") THEN call[p].k ELSE 0) /\ Locked(i)
      BY <2>2, HolderIs
    <2> QED BY <2>3, Registers
  <1>2. CASE ~ \E p \in Procs : HoldsIn(call, p, i)
    BY <1>2, NotInUse, Uses
  <1> QED BY <1>1, <1>2

\* A file that is being written is all in memory.
LEMMA WriterIs ==
  ASSUME Types, LockInv, NEW p \in Procs, CallInv(p), Writing(p)
  PROVE  /\ Ip(p) \in Inodes /\ Holds(p) /\ Locked(Ip(p))
         /\ Inode(Ip(p)) = mem[Ip(p)] /\ Freed(Ip(p)) = 0
         /\ \A k \in Ks : Blk(Ip(p), k) = PlaceIn(data, mem[Ip(p)], k)
         /\ mem[Ip(p)] \in InodeRecords /\ disk[Ip(p)] \in InodeRecords
         /\ fd[p] \in Files /\ file[fd[p]] \in FileRecords
  <1>1. Ip(p) \in Inodes /\ Holds(p) /\ ~At(p, "trunc") /\ fd[p] # None
    BY DEF CallInv, Writing, Holds, At
  <1>2. Locked(Ip(p)) /\ Inode(Ip(p)) = mem[Ip(p)] /\ Freed(Ip(p)) = 0
    BY <1>1, HolderIs
  <1>3. ASSUME NEW k \in Ks PROVE Blk(Ip(p), k) = PlaceIn(data, mem[Ip(p)], k)
    <2>1. k >= Freed(Ip(p))
      BY <1>2, Sizes DEF Ks
    <2>2. Place(Ip(p), k) = PlaceIn(data, mem[Ip(p)], k)
      BY <1>2, Places
    <2> QED BY <2>1, <2>2 DEF Blk
  <1> QED BY <1>1, <1>2, <1>3, Registers DEF Types

\* What the others are at stays true.
LEMMA OthersStay ==
  ASSUME Types, LockInv, NEW p \in Procs, NEW i, Apart(p, i), NEW q \in Procs \ {p}, ProcInv(q),
         At(q, "begin") \/ Writing(q) => fd'[q] = fd[q],
         Writing(q) => file'[fd[q]] = file[fd[q]],
         At(q, "put") \/ At(q, "trunc") => disk'[Ip(q)].type = "file"
  PROVE  ProcInv(q)'
  <1>1. /\ call'[q] = call[q] /\ Ip(q)' = Ip(q)
        /\ \A c : At(q, c)' <=> At(q, c)
        /\ Writing(q)' <=> Writing(q)
        /\ Refers(q)' <=> Refers(q)
    BY DEF Apart, Ip, At, Writing, Refers
  <1>2. CallInv(q)'
    BY <1>1 DEF ProcInv, CallInv
  <1>3. ASSUME ~Writing(q) PROVE WriteInv(q)' /\ LogInv(q)'
    BY <1>1, <1>3 DEF ProcInv, WriteInv, LogInv
  <1>4. ASSUME Writing(q) PROVE WriteInv(q)' /\ LogInv(q)'
    <2> DEFINE j == Ip(q)
    <2>1. /\ j \in Inodes /\ Holds(q) /\ mem[j] \in InodeRecords
          /\ \A k \in Ks : Blk(j, k) = PlaceIn(data, mem[j], k)
      BY <1>4, WriterIs DEF ProcInv
    <2>2. j # i /\ mem'[j] = mem[j] /\ disk'[j] = disk[j]
          /\ (Blk(j, MAXFILE) # 0 => data'[Blk(j, MAXFILE)] = data[Blk(j, MAXFILE)])
      BY <2>1 DEF Apart
    <2>3. MAXFILE \in Ks /\ Blk(j, MAXFILE) = mem[j].addrs[NDIRECT]
      BY <2>1, Sizes DEF Ks, PlaceIn
    <2>4. \A k : Word(data', mem[j], k) = Word(data, mem[j], k)
      BY <2>2, <2>3 DEF Word
    <2>5. /\ \A k : BlockAt(mem[j], k)' = BlockAt(mem[j], k)
          /\ Indirect(mem[j])' = Indirect(mem[j])
      BY <1>1, <2>2, <2>4, Places
    <2>6. fd'[q] = fd[q] /\ file'[fd[q]] = file[fd[q]] /\ mem[j]' = mem[j] /\ disk[j]' = disk[j]
          /\ Bn(q)' = Bn(q) /\ (Missing(q)' <=> Missing(q))
      BY <1>1, <1>4, <2>2, <2>5 DEF Bn, Missing
    <2>7. WriteInv(q)'
      BY <1>1, <1>4, <2>5, <2>6 DEF ProcInv, WriteInv
    <2>8. ForBlock(q)' = ForBlock(q) /\ ForIndirect(q)' = ForIndirect(q)
      BY <1>1, <2>5, <2>6 DEF ForBlock, ForIndirect
    <2>9. LogInv(q)'
      BY <1>1, <1>4, <2>8 DEF ProcInv, LogInv
    <2> QED BY <2>7, <2>9
  <1> QED BY <1>2, <1>3, <1>4 DEF ProcInv

-----------------------------------------------------------------------------
(* Steps *)

\* What p is at afterwards.
LEMMA Becomes ==
  ASSUME CallType, NEW p \in Procs, NEW r \in CallRecords, call' = [call EXCEPT ![p] = r]
  PROVE  /\ CallType' /\ call'[p] = r /\ \A q \in Procs \ {p} : call'[q] = call[q]
         /\ Ip(p)' = r.ip
         /\ Holds(p)' <=> r.pc \in {"write", "zero", "trunc"}
         /\ Writing(p)' <=> r.pc \in {"write", "zero"}
         /\ Refers(p)' <=> r.pc \in {"put", "trunc", "drop"}
         /\ Out(p)' = IF r.pc \in {"put", "trunc", "drop"} THEN r.ip ELSE None
  <1>1. CallType' /\ call'[p] = r /\ \A q \in Procs \ {p} : call'[q] = call[q]
    BY DEF CallType
  <1> QED BY <1>1 DEF At, Ip, Holds, Writing, Refers, Out

LEMMA IdleIs ==
  /\ Idle \in CallRecords /\ Idle.pc = "user" /\ Idle.ip = None /\ Idle.logged = {}
  /\ Idle.new = 0 /\ Idle.k = 0 /\ Idle.src = <<>> /\ Idle.todo = <<>>
  /\ Idle.off = 0 /\ Idle.before = <<>>
  <1>1. <<>> \in Seq(Vals) /\ <<>> \in Seq(WordVals) /\ "user" \in Pcs /\ 0 \in 0 .. NBLOCKS
    BY Sizes DEF Pcs
  <1> QED BY <1>1 DEF Idle, CallRecords

\* The files of the others stay as they are.
FilesStay(p) ==
    \A q \in Procs \ {p} :
      /\ At(q, "begin") \/ Writing(q) => fd'[q] = fd[q]
      /\ Writing(q) => file'[fd[q]] = file[fd[q]]

LEMMA BlocksStay ==
  ASSUME BlockInv, NEW p \in Procs, \A q \in Procs \ {p} : call'[q] = call[q],
         ~At(p, "zero"), ~At(p, "zero")', used' = used,
         \A j \in Inodes, k \in Ks : Blk(j, k)' = Blk(j, k),
         \A j \in Inodes : Blk(j, MAXFILE) # 0 =>
                             data'[Blk(j, MAXFILE)] = data[Blk(j, MAXFILE)]
  PROVE  BlockInv'
  <1>1. \A q \in Procs : At(q, "zero")' => At(q, "zero") /\ call'[q] = call[q]
    BY DEF At
  <1>2. \A q \in Procs : At(q, "zero") => At(q, "zero")' /\ call'[q] = call[q]
    BY DEF At
  <1>3. MAXFILE \in Ks /\ \A j \in Inodes : Blk(j, MAXFILE)' = Blk(j, MAXFILE)
    BY Sizes DEF Ks
  <1>4. /\ \A i \in Inodes, k \in Ks : Blk(i, k)' \in 0 .. NBLOCKS
        /\ \A i, j \in Inodes, k, l \in Ks :
             Blk(i, k)' # 0 /\ Blk(i, k)' = Blk(j, l)' => i = j /\ k = l
        /\ \A i \in Inodes, k \in Ks : Blk(i, k)' # 0 => Blk(i, k)' \in used'
    BY DEF BlockInv
  <1>5. \A q \in Procs : At(q, "zero")' =>
          call'[q].new \in used' /\ \A i \in Inodes, k \in Ks : Blk(i, k)' # call'[q].new
    BY <1>1 DEF BlockInv
  <1>6. \A q, r \in Procs :
          At(q, "zero")' /\ At(r, "zero")' /\ call'[q].new = call'[r].new => q = r
    BY <1>1 DEF BlockInv
  <1>7. \A b \in used' : \/ \E i \in Inodes, k \in Ks : Blk(i, k)' = b
                         \/ \E q \in Procs : At(q, "zero")' /\ call'[q].new = b
    BY <1>2 DEF BlockInv
  <1>8. \A i \in Inodes : Blk(i, MAXFILE)' # 0 =>
          data'[Blk(i, MAXFILE)'] \in [Words -> 0 .. NBLOCKS]
    BY <1>3 DEF BlockInv
  <1> QED BY <1>4, <1>5, <1>6, <1>7, <1>8 DEF BlockInv

LEMMA Whole ==
  ASSUME Inv, NEW p \in Procs, NEW i \in Inodes \cup {None}, Apart(p, i), FilesStay(p),
         Types', RefInv', FileInv', TruncInv', BlockInv', OffInv', ProcInv(p)',
         panicked' # "freeing free block",
         \A q \in Procs \ {p} : At(q, "put") \/ At(q, "trunc") => disk'[Ip(q)].type = "file",
         \A j \in Inodes \ {i} : ref'[j] > 0 => ref[j] > 0,
         i \in Inodes =>
           /\ disk'[i].type = "free" => disk'[i] = FreeInode
           /\ ref'[i] > 0 /\ ~Holds(p)' => mem'[i] = disk'[i]
           /\ HolesInv(i)'
  PROVE  Inv'
  <1>1. LockInv'
    BY LocksStay DEF Inv
  <1>2. \A q \in Procs : ProcInv(q)'
    BY OthersStay DEF Inv, FilesStay
  <1>3. InodeInv'
    BY DEF Inv, InodeInv, Apart
  <1>4. ASSUME NEW j \in Inodes \ {i}
        PROVE  HolesInv(j)' /\ (ref'[j] > 0 /\ ~Locked(j)' => mem'[j] = disk'[j])
    <2>1. /\ Locked(j)' <=> Locked(j)
          /\ Freed(j)' = Freed(j) /\ Inode(j)' = Inode(j)
      BY <1>4, OthersLocks DEF Inv
    <2>2. \A k \in Ks : Blk(j, k)' = Blk(j, k)
      BY <1>4, OthersBlocks, FreedIsNat DEF Inv
    <2>3. \A k \in 0 .. MAXFILE - 1 : k \in Ks
      BY FileKs
    <2>4. HolesInv(j)'
      BY <1>4, <2>1, <2>2, <2>3 DEF Inv, HolesInv
    <2> QED BY <1>4, <2>1, <2>4 DEF Inv, NothingOnlyInMemory, Apart
  <1>5. i \in Inodes => (~Locked(i)' => ~Holds(p)')
    BY OwnInode DEF Inv
  <1>6. NothingOnlyInMemory'
    BY <1>4, <1>5 DEF NothingOnlyInMemory
  <1>7. \A j \in Inodes : HolesInv(j)'
    BY <1>4
  <1> QED BY <1>1, <1>2, <1>3, <1>6, <1>7 DEF Inv

\* Blocks stay where they are while inodes keep their addresses and the words of blocks
\* stay.
LEMMA SameBlocks ==
  ASSUME Inv, NEW p \in Procs, NEW i \in Inodes \cup {None}, Apart(p, i), data' = data,
         i \in Inodes => /\ Inode(i)'.addrs = Inode(i).addrs /\ Freed(i)' = Freed(i)
  PROVE  \A j \in Inodes, k \in Ks : Blk(j, k)' = Blk(j, k)
  <1>1. ASSUME NEW j \in Inodes
        PROVE  /\ Inode(j)'.addrs = Inode(j).addrs /\ Freed(j)' = Freed(j)
    <2>1. CASE j # i
      BY <2>1, OthersLocks DEF Inv
    <2>2. CASE j = i
      BY <2>2
    <2> QED BY <2>1, <2>2
  <1>2. ASSUME NEW j \in Inodes, NEW k \in Ks PROVE Blk(j, k)' = Blk(j, k)
    <2>1. PlaceIn(data', Inode(j)', k) = PlaceIn(data, Inode(j), k)
      BY <1>1 DEF PlaceIn, Word
    <2> QED BY <1>1, <2>1, Places DEF Blk
  <1> QED BY <1>2

\* A step that moves no block and leaves inodes their sizes.
LEMMA Still ==
  ASSUME Inv, NEW p \in Procs, NEW i \in Inodes \cup {None}, Apart(p, i),
         used' = used, data' = data, ~At(p, "zero"), ~At(p, "zero")',
         i \in Inodes => /\ Inode(i)'.addrs = Inode(i).addrs /\ Inode(i)'.size = Inode(i).size
                         /\ Freed(i)' = Freed(i)
  PROVE  /\ BlockInv'
         /\ \A j \in Inodes : Inode(j)'.size = Inode(j).size /\ HolesInv(j)'
  <1>1. ASSUME NEW j \in Inodes
        PROVE  Inode(j)'.size = Inode(j).size /\ Freed(j)' = Freed(j)
    <2>1. CASE j # i
      BY <2>1, OthersLocks DEF Inv
    <2>2. CASE j = i
      BY <2>2
    <2> QED BY <2>1, <2>2
  <1>2. \A j \in Inodes, k \in Ks : Blk(j, k)' = Blk(j, k)
    BY SameBlocks
  <1>3. \A k \in 0 .. MAXFILE - 1 : k \in Ks
    BY FileKs
  <1>4. \A j \in Inodes : HolesInv(j)'
    BY <1>1, <1>2, <1>3 DEF Inv, HolesInv
  <1>5. BlockInv'
    BY <1>2, BlocksStay DEF Inv, Apart
  <1> QED BY <1>1, <1>4, <1>5

LEMMA RefsStay ==
  ASSUME RefInv, NEW p \in Procs, \A q \in Procs \ {p} : call'[q] = call[q],
         \A f \in Files : file'[f].ip = file[f].ip, Out(p)' = Out(p), ref' = ref
  PROVE  RefInv'
  <1>1. SUFFICES ASSUME NEW i \in Inodes PROVE ref'[i] = Refs(i)'
    BY DEF RefInv
  <1>2. FileRefs(i)' = FileRefs(i)
    BY DEF FileRefs
  <1>3. CallRefs(i)' + Has(Out(p), i) = CallRefs(i) + Has(Out(p), i) /\ CallRefs(i)' \in Nat
    BY CallRefsChange
  <1>4. Has(Out(p), i) \in Nat
    BY DEF Has
  <1>5. Refs(i)' = FileRefs(i)' + CallRefs(i)'
    BY DEF Refs, FileRefs, CallRefs
  <1>6. Refs(i) = FileRefs(i) + CallRefs(i) /\ CallRefs(i) \in Nat
    BY RefsAre
  <1> QED BY <1>2, <1>3, <1>4, <1>5, <1>6 DEF RefInv

LEMMA TruncStays ==
  ASSUME TruncInv, NEW p \in Procs, \A q \in Procs \ {p} : call'[q] = call[q],
         \A q \in Procs \ {p} : At(q, "trunc") =>
           /\ mem'[Ip(q)] = mem[Ip(q)] /\ disk'[Ip(q)] = disk[Ip(q)]
           /\ \A f \in Files : file'[f].ip # Ip(q)
           /\ Refers(p)' => Ip(p)' # Ip(q),
         At(p, "trunc")' =>
           /\ mem'[Ip(p)'] = disk'[Ip(p)'] /\ disk'[Ip(p)'].nlink = 0
           /\ \A f \in Files : file'[f].ip # Ip(p)'
           /\ \A q \in Procs \ {p} : Refers(q) => Ip(q) # Ip(p)'
  PROVE  TruncInv'
  <1>1. \A q \in Procs \ {p} : /\ At(q, "trunc")' <=> At(q, "trunc")
                               /\ Refers(q)' <=> Refers(q)
                               /\ Ip(q)' = Ip(q)
    BY DEF At, Refers, Ip
  <1>2. ASSUME NEW q \in Procs \ {p}, At(q, "trunc")
        PROVE  /\ mem'[Ip(q)] = disk'[Ip(q)] /\ disk'[Ip(q)].nlink = 0
               /\ \A f \in Files : file'[f].ip # Ip(q)
               /\ \A r \in Procs \ {q} : Refers(r)' => Ip(r)' # Ip(q)
    <2>1. mem'[Ip(q)] = disk'[Ip(q)] /\ disk'[Ip(q)].nlink = 0
      BY <1>2 DEF TruncInv
    <2>2. \A r \in Procs \ {q} : Refers(r) => Ip(r) # Ip(q)
      BY <1>2 DEF TruncInv
    <2>3. \A r \in Procs \ {q, p} : Refers(r)' => Ip(r)' # Ip(q)
      BY <1>1, <2>2
    <2> QED BY <1>2, <2>1, <2>3
  <1>3. ASSUME At(p, "trunc")'
        PROVE  \A q \in Procs \ {p} : Refers(q)' => Ip(q)' # Ip(p)'
    BY <1>1, <1>3
  <1> QED BY <1>1, <1>2, <1>3 DEF TruncInv

LEMMA OpenFilesStay ==
  ASSUME Types, FileInv, fd' = fd, \A f \in Files : file'[f].ip = file[f].ip,
         \A j \in Inodes : disk[j].type = "file" => disk'[j].type = "file"
  PROVE  FileInv'
  <1>1. \A f \in Files : file[f].ip \in Inodes \cup {None}
    BY DEF Types, FileRecords
  <1>2. \A p \in Procs : fd[p] # None => fd[p] \in Files
    BY DEF Types
  <1> QED BY <1>1, <1>2 DEF FileInv

\* A process that nobody shares an inode with, seen by the process that frees one.
LEMMA TruncIsAlone ==
  ASSUME Inv, NEW q \in Procs, At(q, "trunc")
  PROVE  /\ Ip(q) \in Inodes /\ Holds(q) /\ Locked(Ip(q))
         /\ disk[Ip(q)].nlink = 0 /\ disk[Ip(q)].type = "file" /\ mem[Ip(q)] = disk[Ip(q)]
         /\ \A f \in Files : file[f].ip # Ip(q)
         /\ \A r \in Procs \ {q} : Refers(r) => Ip(r) # Ip(q)
  <1>1. Ip(q) \in Inodes /\ disk[Ip(q)].type = "file" /\ Holds(q)
    BY DEF Inv, ProcInv, CallInv, At, Refers, Holds
  <1> QED BY <1>1, HolderIs DEF Inv, TruncInv

\* A step that changes only what p is at.
LEMMA CallStep ==
  ASSUME Inv, NEW p \in Procs, NEW i \in Inodes \cup {None}, Apart(p, i),
         UNCHANGED <<used, data, disk, mem, ref, fd, file>>,
         CallType', Out(p)' = Out(p), ~At(p, "zero"), ~At(p, "zero")',
         At(p, "trunc")' =>
           /\ mem[Ip(p)'] = disk[Ip(p)'] /\ disk[Ip(p)'].nlink = 0
           /\ \A f \in Files : file[f].ip # Ip(p)'
           /\ \A q \in Procs \ {p} : Refers(q) => Ip(q) # Ip(p)',
         i \in Inodes => /\ Inode(i)' = Inode(i) /\ Freed(i)' = Freed(i)
                         /\ ref[i] > 0 /\ ~Holds(p)' => mem[i] = disk[i],
         ProcInv(p)', panicked' # "freeing free block"
  PROVE  Inv'
  <1>1. Types'
    BY DEF Inv, Types
  <1>2. RefInv'
    BY RefsStay DEF Inv, Apart
  <1>3. FileInv'
    BY OpenFilesStay DEF Inv
  <1>4. TruncInv'
    <2>1. ASSUME NEW q \in Procs \ {p}, At(q, "trunc"), Refers(p)' PROVE Ip(p)' # Ip(q)
      <3>1. Ip(p)' \in Inodes
        BY <2>1 DEF ProcInv, CallInv
      <3>2. Out(p) = Ip(p)' /\ Out(p) # None
        BY <2>1, <3>1, NoneAssumption DEF Out
      <3>3. Refers(p) /\ Ip(p) = Ip(p)'
        BY <3>2 DEF Out
      <3> QED BY <2>1, <3>3, TruncIsAlone
    <2>2. \A q \in Procs \ {p} : call'[q] = call[q]
      BY DEF Apart
    <2>3. \A q \in Procs \ {p} : At(q, "trunc") => \A f \in Files : file'[f].ip # Ip(q)
      BY TruncIsAlone
    <2> QED BY <2>1, <2>2, <2>3, TruncStays DEF Inv
  <1>5. BlockInv' /\ \A j \in Inodes : Inode(j)'.size = Inode(j).size /\ HolesInv(j)'
    <2>1. i \in Inodes => /\ Inode(i)'.addrs = Inode(i).addrs /\ Inode(i)'.size = Inode(i).size
                          /\ Freed(i)' = Freed(i)
      OBVIOUS
    <2> QED BY <2>1, Still
  <1>6. OffInv'
    <2>1. \A f \in Files : file[f].ip # None => file[f].ip \in Inodes
      BY DEF Inv, Types, FileRecords
    <2> QED BY <1>5, <2>1 DEF Inv, OffInv
  <1>7. \A q \in Procs \ {p} : At(q, "put") \/ At(q, "trunc") => disk'[Ip(q)].type = "file"
    BY DEF Inv, ProcInv, CallInv
  <1>8. i \in Inodes => (disk'[i].type = "free" => disk'[i] = FreeInode)
    BY DEF Inv, InodeInv
  <1>9. FilesStay(p)
    BY DEF FilesStay
  <1> QED BY <1>1, <1>2, <1>3, <1>4, <1>5, <1>6, <1>7, <1>8, <1>9, Whole

-----------------------------------------------------------------------------
(* Steps that change only what a process is at *)

\* Nobody but p has anything to do with None.
LEMMA ApartNone ==
  ASSUME Inv, NEW p \in Procs, \A q \in Procs \ {p} : call'[q] = call[q],
         ~Holds(p), ~Holds(p)', \A j \in Inodes : mem'[j] = mem[j] /\ disk'[j] = disk[j],
         \A j \in Inodes : Blk(j, MAXFILE) # 0 =>
                             data'[Blk(j, MAXFILE)] = data[Blk(j, MAXFILE)]
  PROVE  Apart(p, None)
  <1>1. \A q \in Procs : Holds(q) => Ip(q) \in Inodes
    BY DEF Inv, ProcInv, CallInv, Holds, Writing, Refers
  <1> QED BY <1>1, NoneAssumption DEF Apart

\* An inode that is not locked is locked by nobody.
LEMMA Unlocked ==
  ASSUME NEW i, ~Locked(i)
  PROVE  \A q \in Procs : Holds(q) => Ip(q) # i
  BY DEF Locked, Holds, Ip

\* A process that begins nothing has nothing to answer for.
LEMMA AtUser ==
  ASSUME NEW p \in Procs, CallType', call'[p] = Idle
  PROVE  ProcInv(p)' /\ ~Holds(p)' /\ Out(p)' = None /\ ~At(p, "zero")' /\ ~At(p, "trunc")'
         /\ ~Refers(p)'
  <1>1. At(p, "user")' /\ ~Writing(p)' /\ ~Refers(p)' /\ \A c : At(p, c)' <=> c = "user"
    BY IdleIs DEF At, Writing, Refers
  <1>2. CallInv(p)'
    BY <1>1, IdleIs, Sizes DEF CallInv
  <1> QED BY <1>1, <1>2, IdleIs DEF ProcInv, WriteInv, LogInv, Holds, Out, At

\* Nor does one that is about to write a chunk.
LEMMA AtBegin ==
  ASSUME CallType, NEW p \in Procs, NEW s \in Seq(Vals), fd'[p] # None,
         call' = [call EXCEPT ![p] = [Idle EXCEPT !.pc = "begin", !.todo = s]]
  PROVE  /\ CallType' /\ \A q \in Procs \ {p} : call'[q] = call[q]
         /\ ProcInv(p)' /\ ~Holds(p)' /\ Out(p)' = None /\ ~Refers(p)'
         /\ ~At(p, "zero")' /\ ~At(p, "trunc")'
  <1> DEFINE r == [Idle EXCEPT !.pc = "begin", !.todo = s]
  <1>1. /\ r \in CallRecords /\ r.pc = "begin" /\ r.ip = None /\ r.logged = {} /\ r.new = 0
        /\ r.k = 0 /\ r.todo = s
    <2>1. "begin" \in Pcs
      BY DEF Pcs
    <2> QED BY <2>1, IdleIs DEF CallRecords
  <1>2. call' = [call EXCEPT ![p] = r]
    OBVIOUS
  <1> HIDE DEF r
  <1>3. /\ CallType' /\ call'[p] = r /\ \A q \in Procs \ {p} : call'[q] = call[q]
        /\ call'[p].pc = "begin" /\ ~Holds(p)' /\ ~Writing(p)' /\ ~Refers(p)' /\ Out(p)' = None
    BY ZenonT(40), <1>1, <1>2, Becomes
  <1>4. CallInv(p)'
    <2>1. call'[p].todo = s /\ call'[p] = [Idle EXCEPT !.pc = "begin", !.todo = s]
      BY <1>1, <1>3 DEF r
    <2>2. call'[p].new = 0 /\ call'[p].k = 0
      BY <1>1, <1>3
    <2>3. 0 <= MAXFILE + 1
      BY Sizes
    <2> QED BY <1>3, <2>1, <2>2, <2>3 DEF CallInv, At
  <1>5. ProcInv(p)'
    BY <1>1, <1>3, <1>4 DEF ProcInv, WriteInv, LogInv, At
  <1> QED BY <1>3, <1>5 DEF At

LEMMA WriteStep ==
  ASSUME Inv, NEW p \in Procs, NEW s \in Writes, Write(p, s), panicked' = panicked
  PROVE  Inv'
  <1>1. /\ call' = [call EXCEPT ![p] = [Idle EXCEPT !.pc = "begin", !.todo = s]]
        /\ fd'[p] # None /\ At(p, "user") /\ s \in Seq(Vals)
        /\ UNCHANGED <<used, data, disk, mem, ref, fd, file>>
    BY WritesAssumption DEF Write
  <1>2. /\ CallType' /\ \A q \in Procs \ {p} : call'[q] = call[q]
        /\ ProcInv(p)' /\ ~Holds(p)' /\ Out(p)' = None
        /\ ~At(p, "zero")' /\ ~At(p, "trunc")'
    BY <1>1, AtBegin DEF Inv, Types
  <1>3. ~Holds(p) /\ Out(p) = None /\ ~At(p, "zero")
    BY <1>1 DEF At, Holds, Out, Refers
  <1>4. Apart(p, None)
    BY <1>1, <1>2, <1>3, ApartNone
  <1> QED BY <1>1, <1>2, <1>3, <1>4, CallStep, NoneAssumption DEF Inv

\* What iput() does first.
LEMMA IputStep ==
  ASSUME Inv, NEW p \in Procs, Iput(p), panicked' = panicked
  PROVE  Inv'
  <1> DEFINE i == Ip(p)
  <1>1. /\ At(p, "put") /\ ~Locked(i) /\ UNCHANGED <<used, data, disk, mem, ref, fd, file>>
        /\ call[p] \in CallRecords /\ call[p].pc = "put" /\ i \in Inodes /\ Refers(p)
        /\ call[p].k = 0 /\ call[p].new = 0 /\ disk[i].type = "file" /\ fd'[p] = fd[p]
    BY Registers DEF Iput, Inv, ProcInv, CallInv, At, Refers
  <1>2. \A q \in Procs : Holds(q) => Ip(q) # i
    BY <1>1, Unlocked
  <1>3. ref[i] \in Nat /\ ref[i] >= 1 /\ mem[i] = disk[i]
    <2>1. ref[i] \in Nat /\ ref[i] >= 1
      BY <1>1, OnlyReference DEF Inv
    <2>2. ref[i] > 0
      BY <2>1
    <2> QED BY <1>1, <2>1, <2>2 DEF Inv, NothingOnlyInMemory
  <1>4. CASE Unwanted(i)
    <2> DEFINE r == [call[p] EXCEPT !.pc = "trunc", !.logged = call[p].logged \cup {IBLOCK(i)}]
    <2>1. call' = [call EXCEPT ![p] = r]
      BY <1>4 DEF Iput, Unwanted
    <2>2. /\ r \in CallRecords /\ r.pc = "trunc" /\ r.ip = i /\ r.k = 0 /\ r.new = 0
          /\ r.logged = call[p].logged \cup {IBLOCK(i)}
      <3>1. "trunc" \in Pcs /\ IBLOCK(i) \in LogBlocks
        BY <1>1 DEF Pcs, LogBlocks
      <3> QED BY <1>1, <3>1 DEF CallRecords, Ip
    <2> HIDE DEF r
    <2>3. /\ CallType' /\ call'[p] = r /\ \A q \in Procs \ {p} : call'[q] = call[q]
          /\ Ip(p)' = i /\ call'[p].pc = "trunc"
          /\ Holds(p)' /\ ~Writing(p)' /\ Refers(p)' /\ Out(p)' = i
      BY <2>1, <2>2, Becomes DEF Inv, Types
    <2>4. ~Holds(p) /\ Out(p) = i
      BY <1>1 DEF Holds, Out
    <2>5. Apart(p, i)
      BY <1>1, <1>2, <2>3, <2>4 DEF Apart
    <2>6. Inode(i) = disk[i] /\ Freed(i) = 0 /\ Inode(i)' = mem[i] /\ Freed(i)' = 0
      BY ZenonT(40), <1>1, <2>2, <2>3, <2>4, <2>5, OwnInode DEF Inv, At
    <2>7. CallInv(p)'
      BY <1>1, <2>2, <2>3, Sizes DEF CallInv, At
    <2>8. r.logged \subseteq {<<"directory">>, IBLOCK(i)} \cup BitmapBlocks
      BY <1>1, <2>2 DEF Inv, ProcInv, LogInv
    <2>9. ProcInv(p)'
      BY <2>3, <2>7, <2>8 DEF ProcInv, WriteInv, LogInv, At
    <2>10. /\ mem[i] = disk[i] /\ disk[i].nlink = 0
           /\ \A f \in Files : file[f].ip # i
           /\ \A q \in Procs \ {p} : Refers(q) => Ip(q) # i
      BY <1>1, <1>3, <1>4, OnlyReference DEF Inv, Unwanted
    <2>11. ~At(p, "zero") /\ ~At(p, "zero")'
      BY <1>1, <2>3 DEF At
    <2> QED BY <1>1, <1>3, <2>3, <2>4, <2>5, <2>6, <2>9, <2>10, <2>11, CallStep DEF Inv
  <1>5. CASE ~Unwanted(i)
    <2> DEFINE r == [call[p] EXCEPT !.pc = "drop"]
    <2>1. call' = [call EXCEPT ![p] = r]
      BY <1>5 DEF Iput
    <2>2. /\ r \in CallRecords /\ r.pc = "drop" /\ r.ip = i /\ r.k = 0 /\ r.new = 0
          /\ r.logged = call[p].logged
      <3>1. "drop" \in Pcs
        BY DEF Pcs
      <3> QED BY <1>1, <3>1 DEF CallRecords, Ip
    <2> HIDE DEF r
    <2>3. /\ CallType' /\ call'[p] = r /\ \A q \in Procs \ {p} : call'[q] = call[q]
          /\ Ip(p)' = i /\ call'[p].pc = "drop"
          /\ ~Holds(p)' /\ ~Writing(p)' /\ Refers(p)' /\ Out(p)' = i
      BY <2>1, <2>2, Becomes DEF Inv, Types
    <2>4. ~Holds(p) /\ Out(p) = i
      BY <1>1 DEF Holds, Out
    <2>5. Apart(p, None)
      BY <1>1, <2>3, <2>4, ApartNone
    <2>7. CallInv(p)'
      BY <1>1, <2>2, <2>3, Sizes DEF CallInv, At
    <2>8. r.logged \subseteq {<<"directory">>, IBLOCK(i)} \cup BitmapBlocks
      BY <1>1, <2>2 DEF Inv, ProcInv, LogInv
    <2>9. ProcInv(p)'
      BY <2>3, <2>7, <2>8 DEF ProcInv, WriteInv, LogInv, At
    <2>11. ~At(p, "zero") /\ ~At(p, "zero")' /\ ~At(p, "trunc")'
      BY <1>1, <2>3 DEF At
    <2> QED BY <1>1, <2>3, <2>4, <2>5, <2>9, <2>11, CallStep, NoneAssumption DEF Inv
  <1> QED BY <1>4, <1>5

\* Who has an inode locked has a reference to it.
LEMMA HolderRefers ==
  ASSUME Inv, NEW q \in Procs, Holds(q)
  PROVE  /\ Ip(q) \in Inodes /\ ref[Ip(q)] \in Nat /\ ref[Ip(q)] >= 1
         /\ disk[Ip(q)].type = "file"
  <1>1. CASE Writing(q)
    <2>1. /\ fd[q] \in Files /\ file[fd[q]].ip = Ip(q) /\ Ip(q) \in Inodes
      BY <1>1, WriterIs DEF Inv, ProcInv, WriteInv
    <2>2. Ip(q) # None
      BY <2>1, NoneAssumption
    <2> QED BY <2>1, <2>2, OpenIsReferred DEF Inv, FileInv
  <1>2. CASE At(q, "trunc")
    <2>1. Refers(q) /\ Ip(q) \in Inodes /\ disk[Ip(q)].type = "file"
      BY <1>2, TruncIsAlone DEF Refers, At
    <2> QED BY <2>1, OnlyReference DEF Inv
  <1> QED BY <1>1, <1>2 DEF Holds, Writing, At

\* An inode that is not locked is on disk as it is in memory.
LEMMA OnDisk ==
  ASSUME Inv, NEW i \in Inodes, ~Locked(i)
  PROVE  Cached(i) = disk[i] /\ Inode(i) = disk[i] /\ Freed(i) = 0
  <1>1. ref[i] \in Nat /\ Freed(i) = 0
    BY FreedIsNat DEF Inv, Types
  <1>2. ref[i] > 0 => mem[i] = disk[i]
    BY DEF Inv, NothingOnlyInMemory
  <1>3. ref[i] = 0 \/ ref[i] > 0
    BY <1>1
  <1> QED BY <1>1, <1>2, <1>3 DEF Cached, Inode

\* What a step that moves no block has to keep.
LEMMA StillStep ==
  ASSUME Inv, NEW p \in Procs, NEW i \in Inodes \cup {None}, Apart(p, i), FilesStay(p),
         used' = used, data' = data, ~At(p, "zero"), ~At(p, "zero")',
         i \in Inodes => /\ Inode(i)'.addrs = Inode(i).addrs /\ Inode(i)'.size = Inode(i).size
                         /\ Freed(i)' = Freed(i)
                         /\ disk'[i].type = "file"
                         /\ ref'[i] > 0 /\ ~Holds(p)' => mem'[i] = disk'[i],
         Types', RefInv', FileInv', TruncInv', ProcInv(p)', panicked' = panicked,
         \A f \in Files : file'[f].ip # None => file'[f].off <= Inode(file'[f].ip).size,
         \A j \in Inodes \ {i} : ref'[j] > 0 => ref[j] > 0
  PROVE  Inv'
  <1>1. BlockInv' /\ \A j \in Inodes : Inode(j)'.size = Inode(j).size /\ HolesInv(j)'
    BY Still
  <1>2. \A f \in Files : file'[f].ip # None => file'[f].ip \in Inodes
    BY DEF Types, FileRecords
  <1>3. OffInv'
    BY <1>1, <1>2 DEF OffInv
  <1>4. \A q \in Procs \ {p} : At(q, "put") \/ At(q, "trunc") => disk'[Ip(q)].type = "file"
    <2>1. ASSUME NEW q \in Procs \ {p}, At(q, "put") \/ At(q, "trunc")
          PROVE  disk'[Ip(q)].type = "file"
      <3>1. Ip(q) \in Inodes /\ disk[Ip(q)].type = "file"
        BY <2>1 DEF Inv, ProcInv, CallInv, Refers, At
      <3>2. Ip(q) # i => disk'[Ip(q)] = disk[Ip(q)]
        BY <3>1 DEF Apart
      <3> QED BY <3>1, <3>2
    <2> QED BY <2>1
  <1>5. panicked' # "freeing free block"
    BY DEF Inv
  <1> QED BY <1>1, <1>3, <1>4, <1>5, Whole

\* The reference goes.
LEMMA DropStep ==
  ASSUME Inv, NEW p \in Procs, Drop(p), panicked' = panicked
  PROVE  Inv'
  <1> DEFINE i == Ip(p)
  <1>1. /\ At(p, "drop") /\ UNCHANGED <<used, data, disk, mem, fd, file>>
        /\ call' = [call EXCEPT ![p] = Idle] /\ ref' = [ref EXCEPT ![i] = @ - 1]
        /\ i \in Inodes /\ Refers(p) /\ Out(p) = i /\ ~Holds(p) /\ ~At(p, "zero")
    BY DEF Drop, Inv, ProcInv, CallInv, At, Refers, Out, Holds
  <1>2. /\ CallType' /\ call'[p] = Idle /\ \A q \in Procs \ {p} : call'[q] = call[q]
    BY <1>1, Becomes, IdleIs DEF Inv, Types
  <1>3. ProcInv(p)' /\ ~Holds(p)' /\ Out(p)' = None /\ ~At(p, "zero")' /\ ~At(p, "trunc")'
        /\ ~Refers(p)'
    BY <1>2, AtUser
  <1>4. Apart(p, None)
    BY <1>1, <1>2, <1>3, ApartNone
  <1>5. ref[i] \in Nat /\ ref[i] >= 1
    BY <1>1, OnlyReference DEF Inv
  <1>6. Types' /\ \A j \in Inodes : ref'[j] > 0 => ref[j] > 0
    <2>1. ref \in [Inodes -> Nat]
      BY DEF Inv, Types
    <2>2. ref' \in [Inodes -> Nat] /\ \A j \in Inodes : ref'[j] > 0 => ref[j] > 0
      <3> HIDE DEF i
      <3>1. ref' = [ref EXCEPT ![i] = ref[i] - 1] /\ \A j \in Inodes : ref[j] \in Nat
        BY <1>1, <2>1
      <3>2. ref[i] - 1 \in Nat
        BY <1>5
      <3>3. ref' \in [Inodes -> Nat]
        BY <2>1, <3>1, <3>2
      <3> QED BY <1>5, <2>1, <3>1, <3>3
    <2> QED BY <1>1, <1>2, <2>2 DEF Inv, Types
  <1>7. RefInv'
    <2>1. ASSUME NEW j \in Inodes PROVE ref'[j] = Refs(j)'
      <3>1. FileRefs(j)' = FileRefs(j) /\ FileRefs(j) \in Nat /\ CallRefs(j) \in Nat
        BY <1>1, RefsAre DEF FileRefs
      <3>2. CallRefs(j)' + Has(i, j) = CallRefs(j) + Has(None, j) /\ CallRefs(j)' \in Nat
        BY <1>1, <1>2, <1>3, CallRefsChange
      <3>3. Has(None, j) = 0 /\ Has(i, j) = IF j = i THEN 1 ELSE 0
        BY NoneAssumption DEF Has
      <3>4. ref[j] = FileRefs(j) + CallRefs(j) /\ Refs(j)' = FileRefs(j)' + CallRefs(j)'
        BY RefsNow DEF Inv
      <3>5. ref'[j] = IF j = i THEN ref[j] - 1 ELSE ref[j]
        BY <1>1 DEF Inv, Types
      <3> HIDE DEF i
      <3> QED BY <3>1, <3>2, <3>3, <3>4, <3>5
    <2> QED BY <2>1 DEF RefInv
  <1>8. FileInv'
    BY <1>1, OpenFilesStay DEF Inv
  <1>9. TruncInv'
    <2>1. \A q \in Procs \ {p} : At(q, "trunc") => \A f \in Files : file'[f].ip # Ip(q)
      BY <1>1, TruncIsAlone
    <2> QED BY <1>1, <1>2, <1>3, <2>1, TruncStays DEF Inv
  <1>10. FilesStay(p)
    BY <1>1 DEF FilesStay
  <1>11. None \notin Inodes /\ \A f \in Files : file'[f].ip # None =>
            file'[f].off <= Inode(file'[f].ip).size
    BY <1>1, NoneAssumption DEF Inv, OffInv
  <1> QED BY <1>1, <1>3, <1>4, <1>6, <1>7, <1>8, <1>9, <1>10, <1>11, StillStep

\* fork() shares the open file.
LEMMA ForkStep ==
  ASSUME Inv, NEW p \in Procs, NEW q \in Procs, Fork(p, q), panicked' = panicked
  PROVE  Inv'
  <1>1. /\ At(q, "user") /\ fd[q] = None /\ fd[p] # None /\ fd[p] \in Files
        /\ UNCHANGED <<used, data, disk, mem, ref, file, call>>
        /\ fd' = [fd EXCEPT ![q] = fd[p]]
    BY DEF Fork, Inv, Types
  <1>2. call'[q] = Idle /\ CallType'
    BY <1>1 DEF Inv, Types, ProcInv, CallInv, CallType
  <1>3. ProcInv(q)' /\ ~Holds(q)' /\ Out(q)' = None /\ ~At(q, "zero")' /\ ~At(q, "trunc")'
    BY <1>2, AtUser
  <1>4. ~Holds(q) /\ Out(q) = None /\ ~At(q, "zero")
    BY <1>1 DEF At, Holds, Out, Refers
  <1>5. Apart(q, None)
    BY <1>1, <1>3, <1>4, ApartNone
  <1>6. /\ fd' \in [Procs -> Files \cup {None}] /\ fd'[q] = fd[p]
        /\ \A r \in Procs \ {q} : fd'[r] = fd[r]
    BY <1>1 DEF Inv, Types
  <1>7. Types'
    BY <1>1, <1>2, <1>6 DEF Inv, Types
  <1>8. RefInv'
    BY <1>1, <1>3, <1>4, RefsStay DEF Inv
  <1>9. FileInv'
    <2>1. \A f \in Files : file[f].ip # None =>
            /\ disk[file[f].ip].type = "file"
            /\ \E r \in Procs \ {q} : fd[r] = f
      BY <1>1, NoneAssumption DEF Inv, FileInv
    <2>2. \A r \in Procs : fd'[r] # None => file[fd'[r]].ip # None
      BY <1>1, <1>6 DEF Inv, FileInv
    <2> QED BY <1>1, <1>6, <2>1, <2>2 DEF FileInv
  <1>10. TruncInv'
    BY <1>1 DEF Inv, TruncInv, At, Refers, Ip
  <1>11. FilesStay(q)
    BY <1>1, <1>6 DEF FilesStay
  <1>12. None \notin Inodes /\ \A f \in Files : file'[f].ip # None =>
            file'[f].off <= Inode(file'[f].ip).size
    BY <1>1, NoneAssumption DEF Inv, OffInv
  <1> QED BY <1>1, <1>3, <1>4, <1>5, <1>7, <1>8, <1>9, <1>10, <1>11, <1>12, StillStep

\* fileclose(), the last one or not.
LEMMA CloseStep ==
  ASSUME Inv, NEW p \in Procs, Close(p), panicked' = panicked
  PROVE  Inv'
  <1> DEFINE f == fd[p]
             i == file[f].ip
             last == \A q \in Procs \ {p} : fd[q] # f
  <1>1. /\ At(p, "user") /\ f \in Files /\ f # None
        /\ UNCHANGED <<used, data, disk, mem, ref>> /\ fd' = [fd EXCEPT ![p] = None]
    BY DEF Close, Inv, Types
  <1>2. /\ file[f] \in FileRecords /\ i # None /\ i \in Inodes
        /\ disk[i].type = "file" /\ call[p] = Idle
    <2>1. file[f] \in FileRecords /\ i \in Inodes \cup {None}
      BY <1>1, Registers DEF Inv, FileRecords
    <2>2. i # None /\ disk[i].type = "file"
      BY <1>1 DEF Inv, FileInv
    <2> QED BY <1>1, <2>1, <2>2 DEF Inv, ProcInv, CallInv
  <1>3. /\ fd' \in [Procs -> Files \cup {None}] /\ fd'[p] = None
        /\ \A q \in Procs \ {p} : fd'[q] = fd[q]
    BY <1>1 DEF Inv, Types
  <1>4. ~Holds(p) /\ Out(p) = None /\ ~At(p, "zero") /\ None \notin Inodes
    BY <1>1, NoneAssumption DEF At, Holds, Out, Refers
  <1>5. CASE ~last
    <2>1. file' = file /\ call' = call
      <3>1. file' = [file EXCEPT ![f] = [file[f] EXCEPT !.ip = file[f].ip]]
        BY <1>5 DEF Close
      <3>2. [file[f] EXCEPT !.ip = file[f].ip] = file[f]
        BY <1>2 DEF FileRecords
      <3>3. call' = [call EXCEPT ![p] = call[p]]
        BY <1>5 DEF Close
      <3>4. file \in [Files -> FileRecords] /\ call \in [Procs -> CallRecords]
        BY DEF Inv, Types, CallType
      <3>5. file' = file
        BY <3>1, <3>2, <3>4
      <3> QED BY <3>3, <3>4, <3>5
    <2>2. CallType' /\ call'[p] = Idle
      BY <1>2, <2>1 DEF Inv, Types, CallType
    <2>3. ProcInv(p)' /\ ~Holds(p)' /\ Out(p)' = None /\ ~At(p, "zero")'
      BY <2>2, AtUser
    <2>4. Apart(p, None)
      BY <1>1, <1>4, <2>1, <2>3, ApartNone
    <2>5. Types'
      BY <1>1, <1>3, <2>1, <2>2 DEF Inv, Types
    <2>6. RefInv'
      BY <1>1, <1>4, <2>1, <2>3, RefsStay DEF Inv
    <2>7. FileInv'
      <3>1. \A g \in Files : file[g].ip # None =>
              disk[file[g].ip].type = "file" /\ \E r \in Procs \ {p} : fd[r] = g
        BY <1>5 DEF Inv, FileInv
      <3> QED BY <1>1, <1>3, <2>1, <3>1 DEF Inv, FileInv
    <2>8. TruncInv'
      BY <1>1, <2>1 DEF Inv, TruncInv, At, Refers, Ip
    <2>9. FilesStay(p)
      BY <1>3, <2>1 DEF FilesStay
    <2>10. \A g \in Files : file'[g].ip # None => file'[g].off <= Inode(file'[g].ip).size
      BY <2>1 DEF Inv, OffInv
    <2> QED BY <1>1, <1>4, <2>3, <2>4, <2>5, <2>6, <2>7, <2>8, <2>9, <2>10, StillStep
  <1>6. CASE last
    <2> DEFINE r == [Idle EXCEPT !.pc = "put", !.ip = i]
    <2>1. /\ call' = [call EXCEPT ![p] = r]
          /\ file' = [file EXCEPT ![f] = [file[f] EXCEPT !.ip = None]]
      BY <1>6 DEF Close
    <2>2. /\ r \in CallRecords /\ r.pc = "put" /\ r.ip = i /\ r.logged = {} /\ r.new = 0
          /\ r.k = 0
      <3>1. "put" \in Pcs
        BY DEF Pcs
      <3> QED BY <1>2, <3>1, IdleIs DEF CallRecords
    <2> HIDE DEF r
    <2>3. /\ CallType' /\ call'[p] = r /\ \A q \in Procs \ {p} : call'[q] = call[q]
          /\ Ip(p)' = i /\ call'[p].pc = "put"
          /\ ~Holds(p)' /\ ~Writing(p)' /\ Refers(p)' /\ Out(p)' = i
      BY <2>1, <2>2, Becomes DEF Inv, Types
    <2>4. /\ file' \in [Files -> FileRecords] /\ file'[f].ip = None
          /\ \A g \in Files \ {f} : file'[g] = file[g]
      <3>1. file \in [Files -> FileRecords] /\ [file[f] EXCEPT !.ip = None] \in FileRecords
        BY <1>2 DEF Inv, Types, FileRecords
      <3>2. [file[f] EXCEPT !.ip = None].ip = None
        BY <1>2 DEF FileRecords
      <3> HIDE DEF f
      <3> QED BY <1>1, <2>1, <3>1, <3>2
    <2>5. Apart(p, None)
      BY <1>1, <1>4, <2>3, ApartNone
    <2>6. Types'
      BY <1>1, <1>3, <2>3, <2>4 DEF Inv, Types
    <2>7. ProcInv(p)'
      <3>1. CallInv(p)'
        BY <1>1, <1>2, <2>2, <2>3, Sizes DEF CallInv, At
      <3> QED BY <2>2, <2>3, <3>1 DEF ProcInv, WriteInv, LogInv, At
    <2>8. RefInv'
      <3>1. ASSUME NEW j \in Inodes PROVE ref'[j] = Refs(j)'
        <4>1. /\ Refs(j)' + Has(i, j) + Has(None, j) = ref[j] + Has(None, j) + Has(i, j)
              /\ Refs(j)' \in Nat /\ ref[j] \in Nat
          BY <1>1, <1>4, <2>3, <2>4, RefsChange DEF Inv
        <4>2. Has(i, j) \in Nat /\ Has(None, j) = 0
          BY <1>4 DEF Has
        <4>3. Refs(j)' = ref[j]
          BY <4>1, <4>2
        <4> QED BY <1>1, <4>3
      <3> QED BY <3>1 DEF RefInv
    <2>9. FileInv'
      <3>1. \A g \in Files : file'[g].ip # None =>
              g # f /\ file'[g] = file[g] /\ disk[file[g].ip].type = "file"
              /\ \E q \in Procs \ {p} : fd[q] = g
        BY <2>4 DEF Inv, FileInv
      <3>2. \A q \in Procs : fd'[q] # None => file'[fd'[q]].ip # None
        <4>1. ASSUME NEW q \in Procs, fd'[q] # None PROVE file'[fd'[q]].ip # None
          <5>1. q # p /\ fd'[q] = fd[q] /\ fd[q] # f /\ fd[q] \in Files
            BY <1>3, <1>6, <4>1
          <5>2. file[fd[q]].ip # None
            BY <5>1, <4>1 DEF Inv, FileInv
          <5>3. fd[q] \in Files \ {f}
            BY <5>1
          <5>4. file'[fd[q]] = file[fd[q]]
            BY <2>4, <5>3
          <5> QED BY <5>1, <5>2, <5>4
        <4> QED BY <4>1
      <3> QED BY <1>1, <1>3, <3>1, <3>2 DEF FileInv
    <2>10. TruncInv'
      <3>1. ASSUME NEW q \in Procs \ {p}, At(q, "trunc")
            PROVE  /\ \A g \in Files : file'[g].ip # Ip(q)
                   /\ Ip(p)' # Ip(q)
        <4>1. Ip(q) \in Inodes /\ \A g \in Files : file[g].ip # Ip(q)
          BY <3>1, TruncIsAlone
        <4>2. Ip(p)' # Ip(q) /\ None # Ip(q)
          BY <1>1, <1>4, <2>3, <4>1
        <4>3. \A g \in Files : file'[g].ip = None \/ file'[g].ip = file[g].ip
          BY <2>4
        <4> QED BY <4>1, <4>2, <4>3
      <3>2. ~At(p, "trunc")'
        BY <2>3 DEF At
      <3> QED BY <1>1, <2>3, <3>1, <3>2, TruncStays DEF Inv
    <2>11. FilesStay(p)
      <3>1. ASSUME NEW q \in Procs \ {p}
            PROVE  fd'[q] = fd[q] /\ (Writing(q) => file'[fd[q]] = file[fd[q]])
        <4>1. Writing(q) => fd[q] # None
          BY DEF Inv, ProcInv, CallInv
        <4>2. fd[q] # None => fd[q] \in Files /\ fd[q] # f
          BY <1>3, <1>6 DEF Inv, Types
        <4> QED BY <1>3, <2>4, <4>1, <4>2
      <3> QED BY <3>1 DEF FilesStay
    <2>12. \A g \in Files : file'[g].ip # None => file'[g].off <= Inode(file'[g].ip).size
      BY <2>4 DEF Inv, OffInv
    <2>13. ~At(p, "zero")'
      BY <2>3 DEF At
    <2> QED BY <1>1, <1>4, <2>5, <2>6, <2>7, <2>8, <2>9, <2>10, <2>11, <2>12, <2>13, StillStep
  <1> QED BY <1>5, <1>6

\* What filealloc() and the reference do, whether the inode is new or not.
LEMMA Opening ==
  ASSUME Inv, NEW p \in Procs, NEW f \in Files, NEW i \in Inodes, OpenFile(p, f, i),
         At(p, "user"), fd[p] = None, call' = call,
         \A j \in Inodes : disk[j].type = "file" => disk'[j].type = "file",
         disk'[i].type = "file"
  PROVE  /\ RefInv' /\ FileInv' /\ FilesStay(p) /\ CallType' /\ ProcInv(p)'
         /\ fd' \in [Procs -> Files \cup {None}]
         /\ file' \in [Files -> FileRecords] /\ ref' \in [Inodes -> Nat]
         /\ ~Holds(p) /\ ~At(p, "zero") /\ ~Holds(p)' /\ ~At(p, "zero")' /\ ~At(p, "trunc")'
         /\ file'[f].ip = i /\ file'[f].off = 0
         /\ \A g \in Files \ {f} : file'[g] = file[g]
         /\ \A j \in Inodes \ {i} : ref'[j] = ref[j]
  <1>1. /\ \A q \in Procs : fd[q] # f
        /\ fd' = [fd EXCEPT ![p] = f]
        /\ file' = [file EXCEPT ![f] = [ip |-> i, off |-> 0]]
        /\ ref' = [ref EXCEPT ![i] = ref[i] + 1]
    BY DEF OpenFile
  <1>2. ref[i] \in Nat /\ ref \in [Inodes -> Nat] /\ file \in [Files -> FileRecords]
        /\ fd \in [Procs -> Files \cup {None}] /\ CallType
    BY DEF Inv, Types
  <1>3. [ip |-> i, off |-> 0] \in FileRecords
    <2>1. 0 \in 0 .. MAXFILE * BSIZE
      BY Sizes
    <2> QED BY <2>1 DEF FileRecords
  <1>4. /\ fd' \in [Procs -> Files \cup {None}] /\ fd'[p] = f
        /\ \A q \in Procs \ {p} : fd'[q] = fd[q]
    BY <1>1, <1>2
  <1>5. /\ file' \in [Files -> FileRecords] /\ file'[f].ip = i /\ file'[f].off = 0
        /\ \A g \in Files \ {f} : file'[g] = file[g]
    BY <1>1, <1>2, <1>3
  <1>6. /\ ref' \in [Inodes -> Nat] /\ ref'[i] = ref[i] + 1
        /\ \A j \in Inodes \ {i} : ref'[j] = ref[j]
    BY <1>1, <1>2
  <1>7. file[f].ip = None /\ f # None /\ i # None
    BY <1>1, NoneAssumption DEF Inv, FileInv
  <1>8. call'[p] = Idle /\ CallType' /\ Out(p) = None /\ ~Holds(p) /\ ~At(p, "zero")
    BY <1>2 DEF Inv, ProcInv, CallInv, CallType, At, Out, Holds, Refers
  <1>9. ProcInv(p)' /\ ~Holds(p)' /\ Out(p)' = None /\ ~At(p, "zero")' /\ ~At(p, "trunc")'
    BY <1>8, AtUser
  <1>10. RefInv'
    <2>1. ASSUME NEW j \in Inodes PROVE ref'[j] = Refs(j)'
      <3>1. /\ Refs(j)' + Has(None, j) + Has(None, j) = ref[j] + Has(i, j) + Has(None, j)
            /\ Refs(j)' \in Nat /\ ref[j] \in Nat
        BY <1>5, <1>7, <1>8, <1>9, RefsChange DEF Inv
      <3>2. Has(None, j) = 0 /\ Has(i, j) = IF j = i THEN 1 ELSE 0
        BY NoneAssumption DEF Has
      <3> QED BY <1>6, <3>1, <3>2
    <2> QED BY <2>1 DEF RefInv
  <1>11. FileInv'
    <2>1. \A g \in Files : file'[g].ip # None =>
            /\ disk'[file'[g].ip].type = "file"
            /\ \E q \in Procs : fd'[q] = g
      <3>1. ASSUME NEW g \in Files \ {f}, file[g].ip # None
            PROVE  /\ disk'[file[g].ip].type = "file"
                   /\ \E q \in Procs : fd'[q] = g
        <4>1. file[g].ip \in Inodes /\ disk[file[g].ip].type = "file"
          BY <1>2, <3>1 DEF FileRecords, Inv, FileInv
        <4>2. \E q \in Procs : fd[q] = g
          BY <3>1 DEF Inv, FileInv
        <4>3. PICK q \in Procs : fd[q] = g
          BY <4>2
        <4>4. q # p
          BY <4>3, NoneAssumption
        <4> QED BY <1>4, <4>1, <4>3, <4>4
      <3> QED BY <1>4, <1>5, <3>1
    <2>2. ASSUME NEW q \in Procs, fd'[q] # None PROVE file'[fd'[q]].ip # None
      <3>1. CASE q = p
        BY <1>4, <1>5, <1>7, <3>1
      <3>2. CASE q # p
        <4>1. fd'[q] = fd[q] /\ fd[q] \in Files \ {f}
          BY <1>1, <1>2, <1>4, <2>2, <3>2
        <4>2. file[fd[q]].ip # None
          BY <2>2, <4>1 DEF Inv, FileInv
        <4> QED BY <1>5, <4>1, <4>2
      <3> QED BY <3>1, <3>2
    <2> QED BY <2>1, <2>2 DEF FileInv
  <1>12. FilesStay(p)
    <2>1. ASSUME NEW q \in Procs \ {p}
          PROVE  fd'[q] = fd[q] /\ (Writing(q) => file'[fd[q]] = file[fd[q]])
      <3>1. Writing(q) => fd[q] # None
        BY DEF Inv, ProcInv, CallInv
      <3>2. fd[q] # None => fd[q] \in Files \ {f}
        BY <1>1, <1>2
      <3> QED BY <1>4, <1>5, <3>1, <3>2
    <2> QED BY <2>1 DEF FilesStay
  <1> QED BY <1>4, <1>5, <1>6, <1>8, <1>9, <1>10, <1>11, <1>12

\* A file that somebody opens has no process that frees its blocks.
LEMMA TruncApart ==
  ASSUME Inv, NEW p \in Procs, NEW i \in Inodes, call' = call, ~At(p, "trunc"),
         disk[i].type = "free" \/ disk[i].nlink > 0,
         \A j \in Inodes \ {i} : mem'[j] = mem[j] /\ disk'[j] = disk[j],
         \A g \in Files : file'[g].ip = i \/ file'[g].ip = file[g].ip
  PROVE  TruncInv'
  <1>1. ASSUME NEW q \in Procs, At(q, "trunc")
        PROVE  /\ mem'[Ip(q)] = mem[Ip(q)] /\ disk'[Ip(q)] = disk[Ip(q)]
               /\ \A g \in Files : file'[g].ip # Ip(q)
               /\ ~Refers(p) \/ q = p \/ Ip(p) # Ip(q)
    <2>1. /\ Ip(q) \in Inodes /\ disk[Ip(q)].nlink = 0 /\ disk[Ip(q)].type = "file"
          /\ \A g \in Files : file[g].ip # Ip(q)
          /\ \A r \in Procs \ {q} : Refers(r) => Ip(r) # Ip(q)
      BY <1>1, TruncIsAlone
    <2>2. Ip(q) # i
      BY <2>1
    <2> QED BY <2>1, <2>2
  <1>2. /\ Refers(p)' <=> Refers(p)
        /\ Ip(p)' = Ip(p)
        /\ At(p, "trunc")' <=> At(p, "trunc")
    BY DEF Refers, Ip, At
  <1> QED BY <1>1, <1>2, TruncStays DEF Inv

\* A file that has a name.
LEMMA Linked ==
  ASSUME Inv, NEW i \in Inodes, disk[i].nlink > 0
  PROVE  disk[i].type = "file" /\ disk[i] \in InodeRecords
  <1>1. disk[i] \in InodeRecords
    BY DEF Inv, Types
  <1>2. FreeInode.nlink = 0
    BY DEF FreeInode
  <1>3. disk[i].type = "free" => disk[i] = FreeInode
    BY DEF Inv, InodeInv
  <1>4. disk[i].type # "free"
    BY <1>2, <1>3
  <1> QED BY <1>1, <1>4 DEF InodeRecords

LEMMA OpenStep ==
  ASSUME Inv, NEW p \in Procs, NEW f \in Files, NEW i \in Inodes, Open(p, f, i),
         panicked' = panicked
  PROVE  Inv'
  <1>1. /\ At(p, "user") /\ fd[p] = None /\ disk[i].nlink > 0 /\ OpenFile(p, f, i)
        /\ mem' = [mem EXCEPT ![i] = Cached(i)] /\ UNCHANGED <<used, data, disk, call>>
    BY DEF Open
  <1>2. disk[i].type = "file" /\ disk[i] \in InodeRecords
    BY <1>1, Linked
  <1>3. /\ RefInv' /\ FileInv' /\ FilesStay(p) /\ CallType' /\ ProcInv(p)'
        /\ fd' \in [Procs -> Files \cup {None}]
        /\ file' \in [Files -> FileRecords] /\ ref' \in [Inodes -> Nat]
        /\ ~Holds(p) /\ ~At(p, "zero") /\ ~Holds(p)' /\ ~At(p, "zero")' /\ ~At(p, "trunc")'
        /\ file'[f].ip = i /\ file'[f].off = 0
        /\ \A g \in Files \ {f} : file'[g] = file[g]
        /\ \A j \in Inodes \ {i} : ref'[j] = ref[j]
    BY <1>1, <1>2, Opening
  <1>4. mem \in [Inodes -> InodeRecords] /\ Cached(i) \in InodeRecords
    BY <1>2 DEF Inv, Types, Cached
  <1>5. /\ mem' \in [Inodes -> InodeRecords] /\ mem'[i] = Cached(i)
        /\ \A j \in Inodes \ {i} : mem'[j] = mem[j]
    BY <1>1, <1>4
  <1>6. Types'
    BY <1>1, <1>3, <1>5 DEF Inv, Types
  <1>7. TruncInv'
    <2>1. ~At(p, "trunc")
      BY <1>1 DEF At
    <2>2. /\ \A j \in Inodes \ {i} : mem'[j] = mem[j] /\ disk'[j] = disk[j]
          /\ \A g \in Files : file'[g].ip = i \/ file'[g].ip = file[g].ip
      BY <1>1, <1>3, <1>5
    <2> QED BY <1>1, <2>1, <2>2, TruncApart
  <1>8. \A g \in Files : file'[g].ip # None => file'[g].off <= Inode(file'[g].ip).size
    <2>1. Inode(i) \in InodeRecords
      BY <1>2 DEF Inv, Types, Inode
    <2>2. 0 <= Inode(i).size
      BY <2>1, Sizes DEF InodeRecords
    <2> QED BY <1>3, <2>2 DEF Inv, OffInv
  <1>9. CASE Locked(i)
    <2>1. PICK q \in Procs : Holds(q) /\ Ip(q) = i
      BY <1>9 DEF Locked, Holds
    <2>2. ref[i] \in Nat /\ ref[i] >= 1
      BY <2>1, HolderRefers
    <2>3. Cached(i) = mem[i]
      BY <2>2 DEF Cached
    <2>4. \A j \in Inodes : mem'[j] = mem[j] /\ disk'[j] = disk[j]
      BY <1>1, <1>5, <2>3
    <2>5. Apart(p, None)
      BY <1>1, <1>3, <2>4, ApartNone
    <2>6. \A j \in Inodes : ref'[j] > 0 => ref[j] > 0
      BY <1>3, <2>2
    <2> QED BY <1>1, <1>3, <1>6, <1>7, <1>8, <2>5, <2>6, NoneAssumption, StillStep
  <1>10. CASE ~Locked(i)
    <2>1. Cached(i) = disk[i]
      BY <1>10, OnDisk
    <2>2. Apart(p, i)
      BY <1>1, <1>3, <1>5, <1>10, Unlocked DEF Apart
    <2>3. /\ Inode(i)' = Inode(i) /\ Freed(i)' = Freed(i)
          /\ mem'[i] = disk'[i] /\ disk'[i].type = "file"
      <3>1. Inode(i) = disk[i] /\ Freed(i) = 0 /\ Inode(i)' = disk'[i] /\ Freed(i)' = 0
        BY <1>3, <2>2, OwnInode DEF Inv
      <3> QED BY <1>1, <1>2, <1>5, <2>1, <3>1
    <2> QED BY <1>1, <1>3, <1>6, <1>7, <1>8, <2>2, <2>3, StillStep
  <1> QED BY <1>9, <1>10

LEMMA CreateStep ==
  ASSUME Inv, NEW p \in Procs, NEW f \in Files, NEW i \in Inodes, Create(p, f, i),
         panicked' = panicked
  PROVE  Inv'
  <1> DEFINE r == [FreeInode EXCEPT !.type = "file", !.nlink = 1]
  <1>1. /\ At(p, "user") /\ fd[p] = None /\ disk[i].type = "free" /\ OpenFile(p, f, i)
        /\ disk' = [disk EXCEPT ![i] = r] /\ mem' = [mem EXCEPT ![i] = disk'[i]]
        /\ UNCHANGED <<used, data, call>>
    BY DEF Create
  <1>2. r \in InodeRecords /\ r.type = "file" /\ r.addrs = FreeInode.addrs /\ r.size = 0
        /\ FreeInode.size = 0
    <2>1. [k \in 0 .. NDIRECT |-> 0] \in [0 .. NDIRECT -> 0 .. NBLOCKS] /\ 0 \in 0 .. MAXFILE * BSIZE
      BY Sizes
    <2> QED BY <2>1 DEF FreeInode, InodeRecords
  <1> HIDE DEF r
  <1>3. /\ disk' \in [Inodes -> InodeRecords] /\ disk'[i] = r
        /\ mem' \in [Inodes -> InodeRecords] /\ mem'[i] = r
        /\ \A j \in Inodes \ {i} : mem'[j] = mem[j] /\ disk'[j] = disk[j]
    <2>1. disk \in [Inodes -> InodeRecords] /\ mem \in [Inodes -> InodeRecords]
      BY DEF Inv, Types
    <2>2. /\ disk' \in [Inodes -> InodeRecords] /\ disk'[i] = r
          /\ \A j \in Inodes \ {i} : disk'[j] = disk[j]
      BY <1>1, <1>2, <2>1
    <2> QED BY <1>1, <1>2, <2>1, <2>2
  <1>4. /\ RefInv' /\ FileInv' /\ FilesStay(p) /\ CallType' /\ ProcInv(p)'
        /\ fd' \in [Procs -> Files \cup {None}]
        /\ file' \in [Files -> FileRecords] /\ ref' \in [Inodes -> Nat]
        /\ ~Holds(p) /\ ~At(p, "zero") /\ ~Holds(p)' /\ ~At(p, "zero")' /\ ~At(p, "trunc")'
        /\ file'[f].ip = i /\ file'[f].off = 0
        /\ \A g \in Files \ {f} : file'[g] = file[g]
        /\ \A j \in Inodes \ {i} : ref'[j] = ref[j]
    <2>1. disk'[i].type = "file"
          /\ \A j \in Inodes : disk[j].type = "file" => disk'[j].type = "file"
      BY <1>2, <1>3
    <2> QED BY <1>1, <2>1, Opening
  <1>5. Types'
    BY <1>1, <1>3, <1>4 DEF Inv, Types
  <1>6. TruncInv'
    <2>1. ~At(p, "trunc")
      BY <1>1 DEF At
    <2>2. \A g \in Files : file'[g].ip = i \/ file'[g].ip = file[g].ip
      BY <1>4
    <2> QED BY <1>1, <1>3, <2>1, <2>2, TruncApart
  <1>7. \A g \in Files : file'[g].ip # None => file'[g].off <= Inode(file'[g].ip).size
    <2>1. Inode(i) \in InodeRecords
      BY DEF Inv, Types, Inode
    <2>2. 0 <= Inode(i).size
      BY <2>1, Sizes DEF InodeRecords
    <2> QED BY <1>4, <2>2 DEF Inv, OffInv
  <1>8. \A q \in Procs : Holds(q) => Ip(q) # i
    <2>1. disk[i].type # "file"
      BY <1>1
    <2> QED BY <2>1, HolderRefers
  <1>9. Apart(p, i)
    BY <1>1, <1>3, <1>4, <1>8 DEF Apart
  <1>10. /\ Inode(i) = disk[i] /\ Freed(i) = 0 /\ Inode(i)' = disk'[i] /\ Freed(i)' = 0
    BY <1>4, <1>9, OwnInode DEF Inv
  <1>11. disk[i] = FreeInode
    BY <1>1 DEF Inv, InodeInv
  <1>12. /\ Inode(i)'.addrs = Inode(i).addrs /\ Inode(i)'.size = Inode(i).size
         /\ Freed(i)' = Freed(i) /\ disk'[i].type = "file" /\ mem'[i] = disk'[i]
    BY <1>2, <1>3, <1>10, <1>11
  <1> QED BY <1>1, <1>4, <1>5, <1>6, <1>7, <1>9, <1>12, StillStep

LEMMA UnlinkStep ==
  ASSUME Inv, NEW p \in Procs, NEW i \in Inodes, Unlink(p, i), panicked' = panicked
  PROVE  Inv'
  <1> DEFINE d == [disk[i] EXCEPT !.nlink = 0]
             r == [Idle EXCEPT !.pc = "put", !.ip = i, !.logged = {<<"directory">>, IBLOCK(i)}]
  <1>1. /\ At(p, "user") /\ disk[i].nlink > 0 /\ ~Locked(i)
        /\ UNCHANGED <<used, data, fd, file>>
        /\ ref' = [ref EXCEPT ![i] = ref[i] + 1] /\ call' = [call EXCEPT ![p] = r]
        /\ disk' = [disk EXCEPT ![i] = mem'[i]]
    BY DEF Unlink
  <1>2. mem' = [mem EXCEPT ![i] = d] /\ Inode(i) = disk[i] /\ Freed(i) = 0
    BY <1>1, OnDisk DEF Unlink
  <1>3. disk[i] \in InodeRecords /\ disk[i].type = "file"
    BY <1>1, Linked
  <1>4. d \in InodeRecords /\ d.type = "file" /\ d.addrs = disk[i].addrs /\ d.size = disk[i].size
    BY <1>3 DEF InodeRecords
  <1>5. /\ r \in CallRecords /\ r.pc = "put" /\ r.ip = i /\ r.k = 0 /\ r.new = 0
        /\ r.logged = {<<"directory">>, IBLOCK(i)}
    <2>1. "put" \in Pcs /\ {<<"directory">>, IBLOCK(i)} \subseteq LogBlocks
      BY DEF Pcs, LogBlocks
    <2> QED BY <2>1, IdleIs DEF CallRecords
  <1> HIDE DEF d, r
  <1>6. /\ disk' \in [Inodes -> InodeRecords] /\ disk'[i] = d
        /\ mem' \in [Inodes -> InodeRecords] /\ mem'[i] = d
        /\ \A j \in Inodes \ {i} : mem'[j] = mem[j] /\ disk'[j] = disk[j]
    <2>1. disk \in [Inodes -> InodeRecords] /\ mem \in [Inodes -> InodeRecords]
      BY DEF Inv, Types
    <2>2. /\ mem' \in [Inodes -> InodeRecords] /\ mem'[i] = d
          /\ \A j \in Inodes \ {i} : mem'[j] = mem[j]
      BY <1>2, <1>4, <2>1
    <2> QED BY <1>1, <1>4, <2>1, <2>2
  <1>7. /\ CallType' /\ call'[p] = r /\ \A q \in Procs \ {p} : call'[q] = call[q]
        /\ Ip(p)' = i /\ call'[p].pc = "put"
        /\ ~Holds(p)' /\ ~Writing(p)' /\ Refers(p)' /\ Out(p)' = i
    BY <1>1, <1>5, Becomes DEF Inv, Types
  <1>8. ref \in [Inodes -> Nat] /\ ref' \in [Inodes -> Nat] /\ ref'[i] = ref[i] + 1
        /\ \A j \in Inodes \ {i} : ref'[j] = ref[j]
    <2>1. ref \in [Inodes -> Nat] /\ ref[i] \in Nat
      BY DEF Inv, Types
    <2> QED BY <1>1, <2>1
  <1>9. ~Holds(p) /\ Out(p) = None /\ ~At(p, "zero") /\ ~At(p, "zero")' /\ ~At(p, "trunc")'
    BY <1>1, <1>7 DEF At, Holds, Out, Refers
  <1>10. Apart(p, i)
    BY <1>1, <1>6, <1>7, <1>9, Unlocked DEF Apart
  <1>11. /\ Inode(i)'.addrs = Inode(i).addrs /\ Inode(i)'.size = Inode(i).size
         /\ Freed(i)' = Freed(i) /\ mem'[i] = disk'[i] /\ disk'[i].type = "file"
    <2>1. Inode(i)' = disk'[i] /\ Freed(i)' = 0
      BY <1>7, <1>10, OwnInode DEF Inv
    <2> QED BY <1>2, <1>4, <1>6, <2>1
  <1>12. Types'
    BY <1>1, <1>6, <1>7, <1>8 DEF Inv, Types
  <1>13. RefInv'
    <2>1. ASSUME NEW j \in Inodes PROVE ref'[j] = Refs(j)'
      <3>1. ref[j] \in Nat /\ FileRefs(j)' = FileRefs(j) /\ FileRefs(j) \in Nat
            /\ CallRefs(j) \in Nat /\ ref[j] = FileRefs(j) + CallRefs(j)
            /\ Refs(j)' = FileRefs(j)' + CallRefs(j)'
        BY <1>1, <1>8, RefsNow DEF FileRefs, Inv
      <3>2. CallRefs(j)' + Has(None, j) = CallRefs(j) + Has(i, j) /\ CallRefs(j)' \in Nat
        BY <1>7, <1>9, CallRefsChange
      <3>3. Has(None, j) = 0 /\ Has(i, j) = IF j = i THEN 1 ELSE 0
        BY NoneAssumption DEF Has
      <3> QED BY <1>8, <3>1, <3>2, <3>3
    <2> QED BY <2>1 DEF RefInv
  <1>14. FileInv'
    <2>1. \A j \in Inodes : disk[j].type = "file" => disk'[j].type = "file"
      BY <1>4, <1>6
    <2> QED BY <1>1, <2>1, OpenFilesStay DEF Inv
  <1>15. TruncInv'
    <2>1. ASSUME NEW q \in Procs \ {p}, At(q, "trunc")
          PROVE  /\ mem'[Ip(q)] = mem[Ip(q)] /\ disk'[Ip(q)] = disk[Ip(q)]
                 /\ \A g \in Files : file'[g].ip # Ip(q)
                 /\ Ip(p)' # Ip(q)
      <3>1. Ip(q) \in Inodes /\ Locked(Ip(q)) /\ \A g \in Files : file[g].ip # Ip(q)
        BY <2>1, TruncIsAlone
      <3> QED BY <1>1, <1>6, <1>7, <3>1
    <2> QED BY <1>7, <1>9, <2>1, TruncStays DEF Inv
  <1>16. ProcInv(p)'
    <2>1. CallInv(p)'
      BY <1>4, <1>5, <1>6, <1>7, Sizes DEF CallInv, At
    <2> QED BY <1>5, <1>7, <2>1 DEF ProcInv, WriteInv, LogInv, At
  <1>17. FilesStay(p)
    BY <1>1 DEF FilesStay
  <1>18. \A f \in Files : file'[f].ip # None => file'[f].off <= Inode(file'[f].ip).size
    BY <1>1 DEF Inv, OffInv
  <1>19. \A j \in Inodes \ {i} : ref'[j] > 0 => ref[j] > 0
    BY <1>8
  <1> QED BY <1>1, <1>9, <1>10, <1>11, <1>12, <1>13, <1>14, <1>15, <1>16, <1>17, <1>18, <1>19,
             StillStep

LEMMA ReadStep ==
  ASSUME Inv, NEW p \in Procs, NEW n \in Reads, Read(p, n), panicked' = panicked
  PROVE  Inv'
  <1> DEFINE f == fd[p]
             i == file[f].ip
             o == Min2(Off(p) + n, mem[i].size)
  <1>1. /\ At(p, "user") /\ f # None /\ f \in Files /\ ~Locked(i) /\ n \in Nat
        /\ UNCHANGED <<used, data, disk, mem, ref, fd, call>>
        /\ file' = [file EXCEPT ![f] = [file[f] EXCEPT !.off = o]]
    BY WritesAssumption DEF Read, Inv, Types
  <1>2. /\ file \in [Files -> FileRecords] /\ file[f] \in FileRecords /\ i # None /\ i \in Inodes
        /\ Off(p) \in Nat /\ mem[i] \in InodeRecords /\ call[p] = Idle
    <2>1. file \in [Files -> FileRecords] /\ file[f] \in FileRecords
      BY <1>1 DEF Inv, Types
    <2>2. i # None /\ call[p] = Idle
      BY <1>1 DEF Inv, FileInv, ProcInv, CallInv
    <2>3. i \in Inodes /\ Off(p) \in Nat
      BY <2>1, <2>2 DEF FileRecords, Off
    <2>4. mem[i] \in InodeRecords
      BY <2>3 DEF Inv, Types
    <2> QED BY <2>1, <2>2, <2>3, <2>4
  <1>3. mem[i].size \in 0 .. MAXFILE * BSIZE /\ mem[i] = disk[i]
    <2>a. ref[i] \in Nat /\ ref[i] >= 1
      BY <1>1, <1>2, OpenIsReferred DEF Inv
    <2>1. ref[i] > 0
      BY <2>a
    <2>2. mem[i] = disk[i]
      BY <1>1, <1>2, <2>1 DEF Inv, NothingOnlyInMemory
    <2> QED BY <1>2, <2>2 DEF InodeRecords
  <1>4. o \in 0 .. MAXFILE * BSIZE /\ o <= mem[i].size
    <2>1. MAXFILE * BSIZE \in Nat
      BY Sizes
    <2> QED BY <1>1, <1>2, <1>3, <2>1 DEF Min2
  <1> HIDE DEF o
  <1>5. /\ file' \in [Files -> FileRecords] /\ file'[f].ip = i /\ file'[f].off = o
        /\ \A g \in Files \ {f} : file'[g] = file[g]
    <2>1. /\ [file[f] EXCEPT !.off = o] \in FileRecords /\ [file[f] EXCEPT !.off = o].ip = i
          /\ [file[f] EXCEPT !.off = o].off = o
      BY <1>2, <1>4 DEF FileRecords
    <2> HIDE DEF f
    <2> QED BY <1>1, <1>2, <2>1
  <1>6. \A g \in Files : file'[g].ip = file[g].ip
    BY <1>5
  <1>7. call'[p] = Idle /\ CallType' /\ Out(p) = None /\ ~Holds(p) /\ ~At(p, "zero")
    BY <1>1, <1>2 DEF Inv, Types, CallType, At, Out, Holds, Refers
  <1>8. ProcInv(p)' /\ ~Holds(p)' /\ Out(p)' = None /\ ~At(p, "zero")' /\ ~At(p, "trunc")'
    BY <1>7, AtUser
  <1>9. Apart(p, None)
    BY <1>1, <1>7, <1>8, ApartNone
  <1>10. Types'
    BY <1>1, <1>5, <1>7 DEF Inv, Types
  <1>11. RefInv'
    BY <1>1, <1>6, <1>7, <1>8, RefsStay DEF Inv
  <1>12. FileInv'
    BY <1>1, <1>6, OpenFilesStay DEF Inv
  <1>13. TruncInv'
    <2>1. \A q \in Procs \ {p} : At(q, "trunc") => \A g \in Files : file'[g].ip # Ip(q)
      BY <1>6, TruncIsAlone
    <2>2. ~Refers(p)'
      BY <1>1, <1>7 DEF Refers, At
    <2> QED BY <1>1, <1>8, <2>1, <2>2, TruncStays DEF Inv
  <1>14. FilesStay(p)
    <2>1. ASSUME NEW q \in Procs \ {p}, Writing(q) PROVE file'[fd[q]] = file[fd[q]]
      <3>1. Holds(q) /\ Ip(q) = file[fd[q]].ip /\ fd[q] \in Files
        BY <2>1, WriterIs DEF Inv, ProcInv, WriteInv
      <3>2. Ip(q) # i
        BY <1>1, <3>1, Unlocked
      <3> QED BY <1>5, <3>1, <3>2
    <2> QED BY <1>1, <2>1 DEF FilesStay
  <1>15. \A g \in Files : file'[g].ip # None => file'[g].off <= Inode(file'[g].ip).size
    <2>1. Inode(i).size = mem[i].size
      BY <1>3 DEF Inode
    <2>2. ASSUME NEW g \in Files, file'[g].ip # None
          PROVE  file'[g].off <= Inode(file'[g].ip).size
      <3>1. CASE g = f
        BY <1>4, <1>5, <2>1, <3>1
      <3>2. CASE g # f
        BY <1>5, <2>2, <3>2 DEF Inv, OffInv
      <3> QED BY <3>1, <3>2
    <2> QED BY <2>2
  <1> QED BY <1>1, <1>7, <1>8, <1>9, <1>10, <1>11, <1>12, <1>13, <1>14, <1>15, NoneAssumption,
             StillStep

\* The end of a chunk.
LEMMA ChunkDoneStep ==
  ASSUME Inv, NEW p \in Procs, ChunkDone(p), panicked' = panicked
  PROVE  Inv'
  <1>0. At(p, "write") /\ Ip(p) \in Inodes
    BY DEF ChunkDone, Inv, ProcInv, CallInv, Writing, At
  <1>. PICK i \in Inodes : i = Ip(p)
    BY <1>0
  <1> DEFINE f == fd[p]
             o == call[p].off
             left == Rest(call[p].todo, o - Off(p))
  <1>1. /\ At(p, "write") /\ call[p].src = <<>>
        /\ UNCHANGED <<used, data, disk, mem, ref, fd>>
        /\ file' = [file EXCEPT ![f] = [file[f] EXCEPT !.off = o]]
        /\ call' = [call EXCEPT ![p] = IF left = <<>> THEN Idle
                        ELSE [Idle EXCEPT !.pc = "begin", !.todo = left]]
    BY DEF ChunkDone
  <1>2. /\ Writing(p) /\ i \in Inodes /\ Holds(p) /\ Inode(i) = mem[i] /\ Freed(i) = 0
        /\ f \in Files /\ file[f] \in FileRecords /\ o \in Nat /\ i = file[f].ip
        /\ Off(p) \in Nat /\ Off(p) <= o /\ o + Len(call[p].src) <= MAXFILE * BSIZE
        /\ o <= mem[i].size /\ mem[i] = disk[i] /\ disk[i].type = "file"
    <2>1. Writing(p) /\ CallInv(p) /\ WriteInv(p)
      BY <1>1 DEF Writing, At, Inv, ProcInv
    <2>2. /\ i \in Inodes /\ Holds(p) /\ Inode(i) = mem[i] /\ Freed(i) = 0
          /\ f \in Files /\ file[f] \in FileRecords
      BY <2>1, WriterIs DEF Inv
    <2>3. o \in Nat /\ Off(p) \in Nat
      <3>1. o \in Nat
        BY Registers DEF Inv
      <3> QED BY <2>2, <3>1 DEF Off, FileRecords
    <2> QED BY <1>1, <2>1, <2>2, <2>3 DEF WriteInv, Off
  <1>3. o \in 0 .. MAXFILE * BSIZE /\ o - Off(p) \in Nat /\ f # None
    <2>1. Len(call[p].src) = 0
      BY <1>1
    <2>2. MAXFILE * BSIZE \in Nat
      BY Sizes
    <2> QED BY <1>2, <2>1, <2>2, NoneAssumption
  <1>4. left \in Seq(Vals)
    <2>1. call[p].todo \in Seq(Vals)
      BY Registers DEF Inv
    <2> QED BY <1>3, <2>1, FirstRest
  <1> HIDE DEF left, o
  <1>5. /\ CallType' /\ \A q \in Procs \ {p} : call'[q] = call[q]
        /\ ProcInv(p)' /\ ~Holds(p)' /\ Out(p)' = None /\ ~Refers(p)'
        /\ ~At(p, "zero")' /\ ~At(p, "trunc")'
    <2>1. CASE left = <<>>
      <3>1. CallType' /\ call'[p] = Idle /\ \A q \in Procs \ {p} : call'[q] = call[q]
        BY <1>1, <2>1, Becomes, IdleIs DEF Inv, Types
      <3> QED BY <3>1, AtUser
    <2>2. CASE left # <<>>
      <3>1. call' = [call EXCEPT ![p] = [Idle EXCEPT !.pc = "begin", !.todo = left]]
        BY <1>1, <2>2
      <3>2. fd'[p] # None
        BY <1>1, <1>3
      <3> QED BY <1>4, <3>1, <3>2, AtBegin DEF Inv, Types
    <2> QED BY <2>1, <2>2
  <1>6. /\ file' \in [Files -> FileRecords] /\ file'[f].ip = i /\ file'[f].off = o
        /\ \A g \in Files \ {f} : file'[g] = file[g]
    <2>1. file \in [Files -> FileRecords]
      BY DEF Inv, Types
    <2>2. /\ [file[f] EXCEPT !.off = o] \in FileRecords /\ [file[f] EXCEPT !.off = o].ip = i
          /\ [file[f] EXCEPT !.off = o].off = o
      BY <1>2, <1>3 DEF FileRecords
    <2> HIDE DEF f
    <2> QED BY <1>1, <1>2, <2>1, <2>2
  <1>7. \A g \in Files : file'[g].ip = file[g].ip
    BY <1>2, <1>6
  <1>8. Apart(p, i)
    <2>1. \A q \in Procs \ {p} : Holds(q) => Ip(q) # i
      BY <1>2 DEF Inv, LockInv
    <2> QED BY <1>1, <1>5, <2>1 DEF Apart
  <1>9. Inode(i)' = Inode(i) /\ Freed(i)' = Freed(i) /\ mem'[i] = disk'[i] /\ disk'[i].type = "file"
    <2>. LockInv
      BY DEF Inv
    <2>1. Inode(i)' = disk'[i] /\ Freed(i)' = 0
      BY <1>5, <1>8, OwnInode
    <2> QED BY <1>1, <1>2, <2>1
  <1>10. Types'
    BY <1>1, <1>5, <1>6 DEF Inv, Types
  <1>11. ~At(p, "zero") /\ Out(p) = None
    BY <1>1 DEF At, Out, Refers
  <1>12. RefInv'
    BY <1>1, <1>5, <1>7, <1>11, RefsStay DEF Inv
  <1>13. FileInv'
    BY <1>1, <1>7, OpenFilesStay DEF Inv
  <1>14. TruncInv'
    <2>1. \A q \in Procs \ {p} : At(q, "trunc") => \A g \in Files : file'[g].ip # Ip(q)
      BY <1>7, TruncIsAlone
    <2> QED BY <1>1, <1>5, <2>1, TruncStays DEF Inv
  <1>15. FilesStay(p)
    <2>1. ASSUME NEW q \in Procs \ {p}, Writing(q) PROVE file'[fd[q]] = file[fd[q]]
      <3>1. Holds(q) /\ Ip(q) = file[fd[q]].ip /\ fd[q] \in Files
        BY <2>1, WriterIs DEF Inv, ProcInv, WriteInv
      <3>2. Ip(q) # i
        BY <1>8, <3>1 DEF Apart
      <3>3. fd[q] # f
        BY <1>2, <3>1, <3>2
      <3> QED BY <1>6, <3>1, <3>3
    <2> QED BY <1>1, <2>1 DEF FilesStay
  <1>16. \A g \in Files : file'[g].ip # None => file'[g].off <= Inode(file'[g].ip).size
    <2>1. ASSUME NEW g \in Files, file'[g].ip # None
          PROVE  file'[g].off <= Inode(file'[g].ip).size
      <3>1. CASE g = f
        BY <1>2, <1>6, <3>1
      <3>2. CASE g # f
        BY <1>6, <2>1, <3>2 DEF Inv, OffInv
      <3> QED BY <3>1, <3>2
    <2> QED BY <2>1
  <1>17. /\ i \in Inodes /\ used' = used /\ data' = data
         /\ \A j \in Inodes \ {i} : ref'[j] > 0 => ref[j] > 0
    BY <1>1, <1>2
  <1> QED BY <1>5, <1>8, <1>9, <1>10, <1>11, <1>12, <1>13, <1>14, <1>15, <1>16, <1>17, StillStep

\* What filewrite() takes at a time fits into what begin_op() reserved.
LEMMA ChunkFits ==
  ASSUME NEW len \in Nat, len <= Chunk, NEW o \in 0 .. BSIZE - 1, NEW fb \in 1 .. 2,
         NEW fi \in 1 .. 2, fb = 2 => o = 0
  PROVE  \E r \in Nat : Ahead(r, len, o) /\ 2 * r + fb + fi + 1 <= MAXOPBLOCKS
  <1> DEFINE C == (MAXOPBLOCKS - 1 - 1 - 2) \div 2
  <1>1. C \in Nat /\ C >= 1 /\ 2 * C <= MAXOPBLOCKS - 4
    BY Sizes
  <1>2. Chunk = C * BSIZE
    BY DEF Chunk
  <1> HIDE DEF C
  <1>3. C * BSIZE \in Int /\ (C + 1) * BSIZE = C * BSIZE + BSIZE
    BY <1>1, TimesNext
  <1>4. CASE o = 0
    <2>1. C - 1 \in Nat /\ (C - 1) + 1 = C
      BY <1>1
    <2>2. Ahead(C - 1, len, o)
      BY <1>2, <1>3, <1>4, <2>1 DEF Ahead
    <2>3. 2 * (C - 1) + fb + fi + 1 <= MAXOPBLOCKS
      BY <1>1, Sizes
    <2> QED BY <2>1, <2>2, <2>3
  <1>5. CASE o # 0
    <2>1. Ahead(C, len, o)
      BY <1>2, <1>3, Sizes DEF Ahead
    <2>2. 2 * C + fb + fi + 1 <= MAXOPBLOCKS
      BY <1>1, <1>5, Sizes
    <2> QED BY <1>1, <2>1, <2>2
  <1> QED BY <1>4, <1>5

\* The blocks that bmap() finds in a file that nobody has locked.
LEMMA FileOnDisk ==
  ASSUME Inv, NEW i \in Inodes, ~Locked(i), mem[i] = disk[i]
  PROVE  \A k \in 0 .. MAXFILE - 1 : k * BSIZE < mem[i].size =>
            BlockAt(mem[i], k) # 0 /\ BlockAt(mem[i], k) \in Blocks
  <1>1. ASSUME NEW k \in 0 .. MAXFILE - 1, k * BSIZE < mem[i].size
        PROVE  BlockAt(mem[i], k) # 0 /\ BlockAt(mem[i], k) \in Blocks
    <2>1. Inode(i) = mem[i] /\ Freed(i) = 0
      BY OnDisk
    <2>2. k \in Ks /\ k # MAXFILE /\ k >= 0
      BY FileKs, Sizes
    <2>3. Blk(i, k) = BlockAt(mem[i], k)
      BY <2>1, <2>2 DEF Blk, Place
    <2>4. Blk(i, k) # 0
      BY <1>1, <2>1 DEF Inv, HolesInv
    <2>5. Blk(i, k) \in 0 .. NBLOCKS
      BY <2>2 DEF Inv, BlockInv
    <2> QED BY <2>3, <2>4, <2>5, Sizes DEF Blocks
  <1> QED BY <1>1

LEMMA ContentsAre ==
  ASSUME Inv, NEW i \in Inodes, ~Locked(i), mem[i] = disk[i]
  PROVE  Contents(mem[i]) \in Seq(WordVals)
  <1> DEFINE n == mem[i].size
             e(j) == data[BlockAt(mem[i], (j - 1) \div BSIZE)][(j - 1) % BSIZE]
  <1>1. n \in 0 .. MAXFILE * BSIZE /\ n \in Nat
    <2>1. mem[i] \in InodeRecords
      BY DEF Inv, Types
    <2>2. MAXFILE * BSIZE \in Nat
      BY Sizes
    <2> QED BY <2>1, <2>2 DEF InodeRecords
  <1>2. ASSUME NEW j \in 1 .. n PROVE e(j) \in WordVals
    <2> DEFINE k == (j - 1) \div BSIZE
               w == (j - 1) % BSIZE
    <2>1. j - 1 \in Nat /\ j - 1 < MAXFILE * BSIZE /\ j - 1 < n
      <3>1. MAXFILE * BSIZE \in Nat
        BY Sizes
      <3> QED BY <1>1, <3>1
    <2>2. k \in 0 .. MAXFILE - 1 /\ w \in Words /\ k * BSIZE <= j - 1
      BY <2>1, ByteIsIn
    <2>3. k * BSIZE < n
      <3>1. k * BSIZE \in Int
        BY <2>2, TimesNext
      <3> HIDE DEF k
      <3> QED BY <1>1, <2>1, <2>2, <3>1
    <2>4. BlockAt(mem[i], k) \in Blocks
      BY <2>2, <2>3, FileOnDisk
    <2>5. data \in [Blocks -> [Words -> WordVals]]
      BY DEF Inv, Types
    <2> HIDE DEF k, w
    <2>6. data[BlockAt(mem[i], k)][w] \in WordVals
      BY <2>2, <2>4, <2>5
    <2> QED BY <2>6 DEF k, w
  <1>3. Contents(mem[i]) = [j \in 1 .. n |-> e(j)]
    BY DEF Contents
  <1> HIDE DEF e, n
  <1>4. [j \in 1 .. n |-> e(j)] \in [1 .. n -> WordVals]
    BY <1>2
  <1> QED BY <1>1, <1>3, <1>4, SeqDef

\* What a process that is about to write a chunk finds.
LEMMA Beginning ==
  ASSUME Inv, NEW p \in Procs, At(p, "begin"), ~Locked(file[fd[p]].ip)
  PROVE  /\ fd[p] \in Files /\ file[fd[p]] \in FileRecords /\ file[fd[p]].ip \in Inodes
         /\ Off(p) \in Nat /\ mem[file[fd[p]].ip] \in InodeRecords
         /\ mem[file[fd[p]].ip] = disk[file[fd[p]].ip] /\ mem[file[fd[p]].ip].type = "file"
         /\ call[p] = [Idle EXCEPT !.pc = "begin", !.todo = call[p].todo]
         /\ call[p].todo \in Seq(Vals)
         /\ ~Holds(p) /\ Out(p) = None /\ ~At(p, "zero")
  <1> DEFINE f == fd[p]
             i == file[f].ip
  <1>1. f # None /\ call[p] = [Idle EXCEPT !.pc = "begin", !.todo = call[p].todo]
    BY DEF Inv, ProcInv, CallInv
  <1>2. f \in Files /\ file[f] \in FileRecords /\ call[p].todo \in Seq(Vals)
    BY <1>1, Registers DEF Inv
  <1>3. i # None /\ disk[i].type = "file"
    BY <1>1, <1>2 DEF Inv, FileInv
  <1>4. i \in Inodes /\ Off(p) \in Nat
    BY <1>2, <1>3 DEF FileRecords, Off
  <1>5. ref[i] \in Nat /\ ref[i] >= 1
    BY <1>2, <1>4, OpenIsReferred DEF Inv
  <1>6. ref[i] > 0
    BY <1>5
  <1>7. mem[i] = disk[i]
    BY <1>4, <1>6 DEF Inv, NothingOnlyInMemory
  <1>8. mem[i] \in InodeRecords
    BY <1>4 DEF Inv, Types
  <1>9. ~Holds(p) /\ Out(p) = None /\ ~At(p, "zero")
    BY DEF At, Holds, Out, Refers
  <1> QED BY <1>1, <1>2, <1>3, <1>4, <1>7, <1>8, <1>9

\* The first chunk of a write, or its end.
LEMMA IlockStep ==
  ASSUME Inv, NEW p \in Procs, Ilock(p), panicked' = panicked
  PROVE  Inv'
  <1> DEFINE src == First(call[p].todo, Chunk)
             o == Off(p)
  <1>1. /\ At(p, "begin") /\ ~Locked(file[fd[p]].ip)
        /\ UNCHANGED <<used, data, disk, mem, ref, fd, file>>
    BY DEF Ilock
  <1>2. PICK i \in Inodes : i = file[fd[p]].ip
    BY <1>1, Beginning
  <1>3. call' = [call EXCEPT ![p] =
                IF o > mem[i].size \/ o + Len(src) > MAXFILE * BSIZE
                THEN Idle
                ELSE [call[p] EXCEPT !.pc = "write", !.ip = i, !.off = o, !.src = src,
                                     !.before = Contents(mem[i])]]
    BY <1>2 DEF Ilock
  <1>4. /\ fd[p] \in Files /\ o \in Nat /\ mem[i] \in InodeRecords /\ mem[i] = disk[i]
        /\ mem[i].type = "file" /\ call[p].todo \in Seq(Vals)
        /\ call[p] = [Idle EXCEPT !.pc = "begin", !.todo = call[p].todo]
        /\ ~Holds(p) /\ Out(p) = None /\ ~At(p, "zero") /\ fd[p] # None
        /\ call[p] \in CallRecords
    <2>1. /\ fd[p] \in Files /\ o \in Nat /\ mem[i] \in InodeRecords /\ mem[i] = disk[i]
          /\ mem[i].type = "file" /\ call[p].todo \in Seq(Vals)
          /\ call[p] = [Idle EXCEPT !.pc = "begin", !.todo = call[p].todo]
          /\ ~Holds(p) /\ Out(p) = None /\ ~At(p, "zero")
      BY <1>1, <1>2, Beginning
    <2>2. call[p] \in CallRecords
      BY Registers DEF Inv
    <2> QED BY <2>1, <2>2, NoneAssumption
  <1>5. src \in Seq(Vals) /\ Len(src) \in Nat /\ Len(src) <= Chunk
    <2>1. Chunk \in Nat
      <3>1. (MAXOPBLOCKS - 1 - 1 - 2) \div 2 \in Nat
        BY Sizes
      <3> QED BY <3>1, Sizes DEF Chunk
    <2>2. src \in Seq(Vals) /\ Len(src) = Min2(Chunk, Len(call[p].todo))
      BY <1>4, <2>1, FirstRest
    <2>3. Len(src) \in Nat /\ Len(call[p].todo) \in Nat
      BY <1>4, <2>2
    <2> QED BY <2>1, <2>2, <2>3 DEF Min2
  <1>6. call[p].logged = {} /\ call[p].k = 0 /\ call[p].new = 0
    BY <1>4, IdleIs DEF CallRecords
  <1> HIDE DEF src, o
  <1>7. CASE o > mem[i].size \/ o + Len(src) > MAXFILE * BSIZE
    <2>1. CallType' /\ call'[p] = Idle /\ \A q \in Procs \ {p} : call'[q] = call[q]
      BY <1>3, <1>7, Becomes, IdleIs DEF Inv, Types
    <2>2. ProcInv(p)' /\ ~Holds(p)' /\ Out(p)' = None /\ ~At(p, "zero")' /\ ~At(p, "trunc")'
      BY <2>1, AtUser
    <2>3. Apart(p, None)
      BY <1>1, <1>4, <2>1, <2>2, ApartNone
    <2> QED BY <1>1, <1>4, <2>1, <2>2, <2>3, CallStep, NoneAssumption DEF Inv
  <1>8. CASE ~(o > mem[i].size \/ o + Len(src) > MAXFILE * BSIZE)
    <2> DEFINE r == [call[p] EXCEPT !.pc = "write", !.ip = i, !.off = o, !.src = src,
                                    !.before = Contents(mem[i])]
    <2>1. call' = [call EXCEPT ![p] = r]
      BY <1>3, <1>8
    <2>2. /\ r \in CallRecords /\ r.pc = "write" /\ r.ip = i /\ r.off = o /\ r.src = src
          /\ r.logged = {} /\ r.k = 0 /\ r.new = 0
      <3>1. "write" \in Pcs /\ Contents(mem[i]) \in Seq(WordVals)
        BY <1>1, <1>2, <1>4, ContentsAre DEF Pcs
      <3> QED BY <1>4, <1>5, <1>6, <3>1 DEF CallRecords
    <2> HIDE DEF r
    <2>3. /\ CallType' /\ call'[p] = r /\ \A q \in Procs \ {p} : call'[q] = call[q]
          /\ Ip(p)' = i /\ call'[p].pc = "write"
          /\ Holds(p)' /\ Writing(p)' /\ ~Refers(p)' /\ Out(p)' = None
      BY <2>1, <2>2, Becomes DEF Inv, Types
    <2>4. Apart(p, i)
      BY <1>1, <1>2, <1>4, <2>3, Unlocked DEF Apart
    <2>5. Inode(i)' = Inode(i) /\ Freed(i)' = Freed(i)
      <3>1. ~At(p, "trunc")'
        BY <2>3 DEF At
      <3>. LockInv
        BY DEF Inv
      <3>2. Inode(i) = disk[i] /\ Freed(i) = 0 /\ Inode(i)' = mem'[i] /\ Freed(i)' = 0
        BY <1>4, <2>3, <2>4, <3>1, OwnInode
      <3> QED BY <1>1, <1>4, <3>2
    <2>6. /\ \A k : BlockAt(mem[i], k)' = BlockAt(mem[i], k)
          /\ Indirect(mem[i])' = Indirect(mem[i])
      BY <1>1, Places
    <2>7. \A k \in 0 .. MAXFILE - 1 : k * BSIZE < o => BlockAt(mem[i], k) # 0
      <3>1. ASSUME NEW k \in 0 .. MAXFILE - 1, k * BSIZE < o
            PROVE  BlockAt(mem[i], k) # 0
        <4>1. k * BSIZE \in Int /\ mem[i].size \in Int
          <5>1. k * BSIZE \in Int
            BY TimesNext
          <5>2. MAXFILE * BSIZE \in Nat
            BY Sizes
          <5> QED BY <1>4, <5>1, <5>2 DEF InodeRecords
        <4>2. k * BSIZE < mem[i].size
          BY <1>4, <1>8, <3>1, <4>1
        <4> QED BY <1>1, <1>2, <1>4, <4>2, FileOnDisk
      <3> QED BY <3>1
    <2>8. CallInv(p)'
      <3>1. call'[p].k = 0 /\ call'[p].new = 0 /\ fd'[p] # None
        BY <1>1, <1>4, <2>2, <2>3
      <3>2. 0 <= LastBBLOCK
        BY Sizes DEF LastBBLOCK
      <3> QED BY <2>3, <3>1, <3>2 DEF CallInv, At
    <2>9. WriteInv(p)'
      <3>1. o <= mem[i].size /\ o + Len(src) <= MAXFILE * BSIZE
        <4>1. mem[i].size \in Int /\ MAXFILE * BSIZE \in Int
          <5>1. MAXFILE * BSIZE \in Nat
            BY Sizes
          <5> QED BY <1>4, <5>1 DEF InodeRecords
        <4> QED BY <1>4, <1>5, <1>8, <4>1
      <3>2. /\ Ip(p)' = file'[fd'[p]].ip /\ mem'[i].type = "file" /\ mem'[i] = disk'[i]
            /\ file'[fd'[p]].off <= call'[p].off /\ call'[p].off = o /\ call'[p].src = src
            /\ mem'[i] = mem[i]
        BY <1>1, <1>2, <1>4, <2>2, <2>3 DEF o, Off
      <3> QED BY <2>3, <2>6, <2>7, <3>1, <3>2 DEF WriteInv, At
    <2>10. LogInv(p)'
      <3>1. call'[p].logged = {} /\ call'[p].src = src /\ call'[p].off = o
        BY <2>2, <2>3
      <3>2. Cardinality({}) = 0
        BY FS_EmptySet
      <3>3. CASE src = <<>>
        BY <2>3, <3>1, <3>2, <3>3, Sizes DEF LogInv, At
      <3>4. CASE src # <<>>
        <4> DEFINE fb == ForBlock(p)'
                   fi == ForIndirect(p)'
        <4>1. fb \in 1 .. 2 /\ fi \in 1 .. 2
          BY <2>3, <3>1 DEF ForBlock, ForIndirect, At
        <4>2. fb = 2 => Missing(p)'
          BY <2>3, <3>1 DEF ForBlock, At
        <4>3. Missing(p)' => BlockAt(mem[i], o \div BSIZE) = 0
          BY <2>3, <2>6, <3>1 DEF Missing, Bn
        <4>4. Len(src) \in Nat \ {0}
          BY <1>5, <3>4
        <4>5. o + Len(src) <= MAXFILE * BSIZE
          <5>1. MAXFILE * BSIZE \in Nat
            BY Sizes
          <5> QED BY <1>4, <1>5, <1>8, <5>1
        <4>6. /\ o % BSIZE \in 0 .. BSIZE - 1 /\ o \div BSIZE \in 0 .. MAXFILE - 1
              /\ o % BSIZE = 0 \/ (o \div BSIZE) * BSIZE < o
          BY <1>4, <4>4, <4>5, Turn
        <4>7. fb = 2 => o % BSIZE = 0
          BY <2>7, <4>2, <4>3, <4>6
        <4> HIDE DEF fb, fi
        <4>8. PICK n \in Nat :
                Ahead(n, Len(src), o % BSIZE) /\ 2 * n + fb + fi + 1 <= MAXOPBLOCKS
          BY <1>5, <4>1, <4>6, <4>7, ChunkFits
        <4>9. Cardinality(call'[p].logged) + 2 * n + fb + fi + 1 <= MAXOPBLOCKS
          BY <3>1, <3>2, <4>1, <4>8
        <4>10. /\ Ahead(n, Len(call'[p].src), call'[p].off % BSIZE)
               /\ Cardinality(call'[p].logged) + 2 * n + ForBlock(p)' + ForIndirect(p)' + 1
                    <= MAXOPBLOCKS
          BY <3>1, <4>8, <4>9 DEF fb, fi
        <4> QED BY <2>3, <3>1, <3>4, <4>10 DEF LogInv, At, Ahead
      <3> QED BY <3>3, <3>4
    <2>11. ~At(p, "zero")' /\ ~At(p, "trunc")'
      BY <2>3 DEF At
    <2>12. ProcInv(p)'
      BY <2>8, <2>9, <2>10 DEF ProcInv
    <2>13. panicked' # "freeing free block"
      BY DEF Inv
    <2> QED BY <1>1, <1>4, <2>3, <2>4, <2>5, <2>11, <2>12, <2>13, CallStep
  <1> QED BY <1>7, <1>8

-----------------------------------------------------------------------------
(* Steps of a chunk *)

LEMMA LogGrows ==
  ASSUME NEW L \in SUBSET LogBlocks, NEW x
  PROVE  /\ IsFiniteSet(L) /\ Cardinality(L) \in Nat
         /\ Cardinality(L \cup {x}) = IF x \in L THEN Cardinality(L) ELSE Cardinality(L) + 1
         /\ Cardinality(L \cup {x}) \in Nat
  <1>1. IsFiniteSet(BitmapBlocks) /\ Cardinality(BitmapBlocks) <= LastBBLOCK + 1
    <2> DEFINE g == [k \in 0 .. LastBBLOCK |-> <<"bitmap", k>>]
    <2>1. g \in Surjection(0 .. LastBBLOCK, BitmapBlocks)
      BY DEF Surjection, BitmapBlocks
    <2>2. LastBBLOCK \in Nat
      BY Sizes DEF LastBBLOCK
    <2>3. IsFiniteSet(0 .. LastBBLOCK) /\ Cardinality(0 .. LastBBLOCK) = LastBBLOCK + 1
      BY <2>2, FS_Interval
    <2> QED BY <2>1, <2>3, FS_Surjection
  <1>2. IsFiniteSet({IBLOCK(i) : i \in Inodes})
    <2> DEFINE g == [i \in Inodes |-> IBLOCK(i)]
    <2>1. g \in Surjection(Inodes, {IBLOCK(i) : i \in Inodes})
      BY DEF Surjection
    <2> QED BY <2>1, FS_Surjection, FiniteAssumption
  <1>3. IsFiniteSet({DBLOCK(b) : b \in Blocks})
    <2> DEFINE g == [b \in Blocks |-> DBLOCK(b)]
    <2>1. g \in Surjection(Blocks, {DBLOCK(b) : b \in Blocks})
      BY DEF Surjection
    <2>2. IsFiniteSet(Blocks)
      BY FS_Interval, Sizes DEF Blocks
    <2> QED BY <2>1, <2>2, FS_Surjection
  <1>4. IsFiniteSet(LogBlocks)
    <2>1. IsFiniteSet({<<"directory">>})
      BY FS_Singleton
    <2> QED BY <1>1, <1>2, <1>3, <2>1, FS_Union DEF LogBlocks
  <1>5. IsFiniteSet(L)
    BY <1>4, FS_Subset
  <1>6. Cardinality(L) \in Nat
    BY <1>5, FS_CardinalityType
  <1>7. Cardinality(L \cup {x}) = IF x \in L THEN Cardinality(L) ELSE Cardinality(L) + 1
    BY <1>5, FS_AddElement
  <1> QED BY <1>5, <1>6, <1>7

\* A process in the middle of a chunk.
LEMMA Writer ==
  ASSUME Inv, NEW p \in Procs, NEW i \in Inodes, Ip(p) = i, Writing(p)
  PROVE  /\ Holds(p) /\ Out(p) = None /\ ~Refers(p) /\ Inode(i) = mem[i] /\ Freed(i) = 0
         /\ \A q \in Procs \ {p} : Holds(q) => Ip(q) # i
         /\ \A k \in Ks : Blk(i, k) = PlaceIn(data, mem[i], k)
         /\ mem[i] \in InodeRecords /\ disk[i] \in InodeRecords
         /\ fd[p] \in Files /\ fd[p] # None /\ file[fd[p]] \in FileRecords
         /\ file[fd[p]].ip = i /\ disk[i].type = "file" /\ mem[i].type = "file"
         /\ call[p] \in CallRecords /\ CallInv(p) /\ WriteInv(p) /\ LogInv(p)
  <1>1. CallInv(p) /\ WriteInv(p) /\ LogInv(p)
    BY DEF Inv, ProcInv
  <1>2. /\ Holds(p) /\ Inode(i) = mem[i] /\ Freed(i) = 0
        /\ \A k \in Ks : Blk(i, k) = PlaceIn(data, mem[i], k)
        /\ mem[i] \in InodeRecords /\ disk[i] \in InodeRecords
        /\ fd[p] \in Files /\ file[fd[p]] \in FileRecords
    BY <1>1, WriterIs DEF Inv
  <1>3. \A q \in Procs \ {p} : Holds(q) => Ip(q) # i
    BY <1>2 DEF Inv, LockInv
  <1>4. file[fd[p]].ip = i /\ mem[i].type = "file" /\ fd[p] # None /\ i # None
    BY <1>1, <1>2, NoneAssumption DEF WriteInv
  <1>5. disk[i].type = "file"
    BY <1>2, <1>4 DEF Inv, FileInv
  <1>6. ~Refers(p) /\ Out(p) = None
    BY DEF Writing, Refers, Out
  <1>7. call[p] \in CallRecords
    BY Registers DEF Inv
  <1> QED BY <1>1, <1>2, <1>3, <1>4, <1>5, <1>6, <1>7

LEMMA InodeIs ==
  ASSUME NEW j \in Inodes
  PROVE  /\ Types => Inode(j) \in InodeRecords /\ Inode(j).size \in Nat
         /\ Types' => Inode(j)' \in InodeRecords /\ Inode(j)'.size \in Nat
  <1>1. \A ip \in InodeRecords : ip.size \in Nat
    <2>1. MAXFILE * BSIZE \in Nat
      BY Sizes
    <2> QED BY <2>1 DEF InodeRecords
  <1>2. Types => mem[j] \in InodeRecords /\ disk[j] \in InodeRecords
    BY DEF Types
  <1>3. Types' => mem'[j] \in InodeRecords /\ disk'[j] \in InodeRecords
    BY DEF Types
  <1>4. Types => Inode(j) \in InodeRecords
    BY <1>2 DEF Inode
  <1>5. Types' => Inode(j)' \in InodeRecords
    BY <1>3 DEF Inode
  <1> QED BY <1>1, <1>4, <1>5

\* Offsets stay within a file that does not shrink.
LEMMA OffStays ==
  ASSUME Inv, NEW p \in Procs, NEW i \in Inodes, Apart(p, i), file' = file, Types',
         Inode(i)'.size >= Inode(i).size
  PROVE  OffInv'
  <1>1. \A j \in Inodes : Inode(j)'.size >= Inode(j).size
    <2>1. ASSUME NEW j \in Inodes \ {i} PROVE Inode(j)'.size >= Inode(j).size
      <3>1. Inode(j)' = Inode(j)
        BY OthersLocks DEF Inv
      <3>2. Inode(j).size \in Nat
        BY InodeIs DEF Inv
      <3>3. Inode(j).size >= Inode(j).size
        BY <3>2
      <3> QED BY <3>1, <3>3
    <2> QED BY <2>1
  <1>2. ASSUME NEW f \in Files, file[f].ip # None
        PROVE  file[f].off <= Inode(file[f].ip)'.size
    <2>1. file[f] \in FileRecords /\ file[f].ip \in Inodes
      BY <1>2 DEF Inv, Types, FileRecords
    <2>2. file[f].off \in Nat
      <3>1. MAXFILE * BSIZE \in Nat
        BY Sizes
      <3> QED BY <2>1, <3>1 DEF FileRecords
    <2>3. PICK j \in Inodes : j = file[f].ip
      BY <2>1
    <2>4. Inode(j).size \in Nat /\ Inode(j)'.size \in Nat
      BY InodeIs DEF Inv
    <2>5. file[f].off <= Inode(j).size
      BY <1>2, <2>3 DEF Inv, OffInv
    <2>6. Inode(j).size <= Inode(j)'.size
      BY <1>1, <2>4
    <2>7. file[f].off <= Inode(j)'.size
      BY <2>2, <2>4, <2>5, <2>6
    <2> QED BY <2>3, <2>7
  <1> QED BY <1>2 DEF OffInv

\* What a step of a chunk has to keep.
LEMMA WriterStep ==
  ASSUME Inv, NEW p \in Procs, NEW i \in Inodes, Ip(p) = i, Writing(p),
         UNCHANGED <<ref, fd, file>>, CallType', \A q \in Procs \ {p} : call'[q] = call[q],
         Ip(p)' = i, Writing(p)', Types', BlockInv', CallInv(p)', WriteInv(p)', LogInv(p)',
         \A j \in Inodes \ {i} :
           /\ mem'[j] = mem[j] /\ disk'[j] = disk[j]
           /\ Blk(j, MAXFILE) # 0 => data'[Blk(j, MAXFILE)] = data[Blk(j, MAXFILE)],
         disk'[i].type = "file", HolesInv(i)', OffInv', panicked' # "freeing free block"
  PROVE  Inv'
  <1>1. /\ Holds(p) /\ Out(p) = None /\ Inode(i) = mem[i] /\ ~Refers(p)
        /\ \A q \in Procs \ {p} : Holds(q) => Ip(q) # i
        /\ mem[i] \in InodeRecords
    BY Writer
  <1>2. Holds(p)' /\ Out(p)' = None /\ ~At(p, "trunc")' /\ ~Refers(p)'
    BY DEF Writing, Holds, Out, At, Refers
  <1>3. Apart(p, i)
    BY <1>1 DEF Apart
  <1>4. RefInv'
    BY <1>1, <1>2, RefsStay DEF Inv
  <1>5. FileInv'
    <2>1. \A j \in Inodes : disk[j].type = "file" => disk'[j].type = "file"
      OBVIOUS
    <2> QED BY <2>1, OpenFilesStay DEF Inv
  <1>6. TruncInv'
    <2>1. ASSUME NEW q \in Procs \ {p}, At(q, "trunc")
          PROVE  /\ mem'[Ip(q)] = mem[Ip(q)] /\ disk'[Ip(q)] = disk[Ip(q)]
                 /\ \A f \in Files : file'[f].ip # Ip(q)
      <3>1. Ip(q) \in Inodes /\ Holds(q) /\ \A f \in Files : file[f].ip # Ip(q)
        BY <2>1, TruncIsAlone
      <3>2. Ip(q) # i
        BY <1>1, <3>1
      <3> QED BY <3>1, <3>2
    <2> QED BY <1>2, <2>1, TruncStays DEF Inv
  <1>7. \A q \in Procs \ {p} : At(q, "put") \/ At(q, "trunc") => disk'[Ip(q)].type = "file"
    <2>1. ASSUME NEW q \in Procs \ {p}, At(q, "put") \/ At(q, "trunc")
          PROVE  disk'[Ip(q)].type = "file"
      <3>1. Ip(q) \in Inodes /\ disk[Ip(q)].type = "file"
        BY <2>1 DEF Inv, ProcInv, CallInv, Refers, At
      <3>2. Ip(q) # i => disk'[Ip(q)] = disk[Ip(q)]
        BY <3>1
      <3> QED BY <3>1, <3>2
    <2> QED BY <2>1
  <1>8. FilesStay(p)
    BY DEF FilesStay
  <1>9. ProcInv(p)'
    BY DEF ProcInv
  <1> QED BY <1>2, <1>3, <1>4, <1>5, <1>6, <1>7, <1>8, <1>9, Whole

\* A block of the bitmap that has a free block has a first one.
LEMMA FirstFree ==
  ASSUME NEW S \in SUBSET Blocks, S # {}
  PROVE  (CHOOSE x \in S : \A y \in S : x <= y) \in S
  <1>1. S \subseteq Nat
    BY DEF Blocks
  <1>2. IsWellFoundedOn({ss \in Nat \X Nat : ss[1] < ss[2]}, Nat)
    BY NatLessThanWellFounded, Zenon DEF OpToRel
  <1>3. PICK x \in S : \A y \in S : ~ (<<y, x>> \in {ss \in Nat \X Nat : ss[1] < ss[2]})
    BY <1>1, <1>2, WFMin
  <1>4. ASSUME NEW y \in S PROVE x <= y
    <2>1. x \in Nat /\ y \in Nat
      BY <1>1
    <2>2. ~ (y < x)
      <3>1. SUFFICES ASSUME y < x PROVE FALSE
        OBVIOUS
      <3>2. <<y, x>> \in {ss \in Nat \X Nat : ss[1] < ss[2]}
        BY <2>1, <3>1
      <3> QED BY <1>3, <3>2
    <2> QED BY <2>1, <2>2
  <1> QED BY <1>4

\* balloc() takes a block.
LEMMA TakeStep ==
  ASSUME Inv, NEW p \in Procs, Lacks(p), NEW b \in Blocks \ used, used' = used \cup {b},
         call' = [call EXCEPT ![p] = [call[p] EXCEPT !.pc = "zero", !.new = b, !.k = 0,
                                          !.logged = call[p].logged \cup {BBLOCK(b)}]],
         UNCHANGED <<data, disk, mem, ref, fd, file>>, panicked' = panicked
  PROVE  Inv'
  <1>0. At(p, "write") /\ Writing(p) /\ Ip(p) \in Inodes
    BY DEF Lacks, At, Inv, ProcInv, CallInv, Writing
  <1>1. PICK i \in Inodes : i = Ip(p)
    BY <1>0
  <1> DEFINE r == [call[p] EXCEPT !.pc = "zero", !.new = b, !.k = 0,
                                  !.logged = call[p].logged \cup {BBLOCK(b)}]
             c == call[p]
  <1>2. /\ Holds(p) /\ Out(p) = None /\ ~Refers(p) /\ Inode(i) = mem[i] /\ Freed(i) = 0
        /\ \A q \in Procs \ {p} : Holds(q) => Ip(q) # i
        /\ mem[i] \in InodeRecords /\ fd[p] # None /\ disk[i].type = "file"
        /\ call[p] \in CallRecords /\ CallInv(p) /\ WriteInv(p) /\ LogInv(p)
    BY <1>0, <1>1, Writer
  <1>3. c.src # <<>> /\ Missing(p)
    BY DEF Lacks, Missing, Bn
  <1>4. b \in 1 .. NBLOCKS /\ b # 0 /\ BBLOCK(b) \in LogBlocks
        /\ \A x : BBLOCK(b) # DBLOCK(x)
    <2>1. (b - 1) \div BPB \in 0 .. LastBBLOCK
      BY DivBPB
    <2>2. BBLOCK(b) \in LogBlocks
      BY <2>1 DEF BBLOCK, LogBlocks, BitmapBlocks
    <2>3. \A x : BBLOCK(b) # DBLOCK(x)
      BY DEF BBLOCK, DBLOCK
    <2>4. b \in 1 .. NBLOCKS /\ b # 0
      BY Sizes DEF Blocks
    <2> QED BY <2>2, <2>3, <2>4
  <1>5. /\ r \in CallRecords /\ r.pc = "zero" /\ r.ip = i /\ r.off = c.off /\ r.src = c.src
        /\ r.logged = c.logged \cup {BBLOCK(b)} /\ r.k = 0 /\ r.new = b
    <2>1. "zero" \in Pcs /\ b \in 0 .. NBLOCKS
      BY <1>4 DEF Pcs
    <2> QED BY <1>1, <1>2, <1>4, <2>1 DEF CallRecords, Ip
  <1> HIDE DEF r
  <1>6. /\ CallType' /\ call'[p] = r /\ \A q \in Procs \ {p} : call'[q] = call[q]
        /\ Ip(p)' = i /\ call'[p].pc = "zero"
        /\ Holds(p)' /\ Writing(p)' /\ ~Refers(p)'
    BY <1>5, Becomes DEF Inv, Types, r
  <1>7. Apart(p, i)
    BY <1>1, <1>2, <1>6 DEF Apart
  <1>8. Inode(i)' = Inode(i) /\ Freed(i)' = Freed(i)
    <2>1. ~At(p, "trunc")'
      BY <1>6 DEF At
    <2>2. LockInv
      BY DEF Inv
    <2>3. Inode(i)' = mem'[i] /\ Freed(i)' = 0
      BY <1>6, <1>7, <2>1, <2>2, OwnInode
    <2> QED BY <1>2, <2>3
  <1>9. \A j \in Inodes, k \in Ks : Blk(j, k)' = Blk(j, k)
    BY <1>7, <1>8, SameBlocks
  <1>10. Types'
    <2>1. used' \subseteq Blocks
      BY DEF Inv, Types
    <2> QED BY <1>6, <2>1 DEF Inv, Types
  <1>11. BlockInv'
    <2>. BlockInv
      BY DEF Inv
    <2>1. MAXFILE \in Ks /\ \A j \in Inodes : Blk(j, MAXFILE)' = Blk(j, MAXFILE)
      BY <1>9, Sizes DEF Ks
    <2>2. /\ At(p, "zero")' /\ ~At(p, "zero") /\ call'[p].new = b
          /\ \A q \in Procs \ {p} : /\ At(q, "zero")' <=> At(q, "zero")
                                    /\ call'[q].new = call[q].new
      BY <1>0, <1>5, <1>6 DEF At
    <2>3. /\ \A j \in Inodes, k \in Ks : Blk(j, k)' \in 0 .. NBLOCKS
          /\ \A j, l \in Inodes, k, m \in Ks :
               Blk(j, k)' # 0 /\ Blk(j, k)' = Blk(l, m)' => j = l /\ k = m
          /\ \A j \in Inodes, k \in Ks : Blk(j, k)' # 0 => Blk(j, k)' \in used'
      BY <1>9 DEF BlockInv
    <2>4. \A j \in Inodes, k \in Ks : Blk(j, k)' # b
      BY <1>4, <1>9 DEF BlockInv
    <2>5. \A q \in Procs \ {p} : At(q, "zero") =>
            call[q].new \in used /\ \A j \in Inodes, k \in Ks : Blk(j, k) # call[q].new
      BY DEF BlockInv
    <2>6. \A q \in Procs : At(q, "zero")' =>
            call'[q].new \in used' /\ \A j \in Inodes, k \in Ks : Blk(j, k)' # call'[q].new
      BY <1>9, <2>2, <2>4, <2>5
    <2>7. \A q, s \in Procs :
            At(q, "zero")' /\ At(s, "zero")' /\ call'[q].new = call'[s].new => q = s
      <3>1. \A q, s \in Procs \ {p} :
              At(q, "zero") /\ At(s, "zero") /\ call[q].new = call[s].new => q = s
        BY DEF BlockInv
      <3> QED BY <2>2, <2>5, <3>1
    <2>8. \A x \in used' : \/ \E j \in Inodes, k \in Ks : Blk(j, k)' = x
                           \/ \E q \in Procs : At(q, "zero")' /\ call'[q].new = x
      <3>1. ASSUME NEW x \in used
            PROVE  \/ \E j \in Inodes, k \in Ks : Blk(j, k)' = x
                   \/ \E q \in Procs : At(q, "zero")' /\ call'[q].new = x
        <4>1. \/ \E j \in Inodes, k \in Ks : Blk(j, k) = x
              \/ \E q \in Procs : At(q, "zero") /\ call[q].new = x
          BY DEF BlockInv
        <4> QED BY <1>9, <2>2, <4>1
      <3> QED BY <2>2, <3>1
    <2>9. \A j \in Inodes : Blk(j, MAXFILE)' # 0 =>
            data'[Blk(j, MAXFILE)'] \in [Words -> 0 .. NBLOCKS]
      BY <2>1 DEF BlockInv
    <2> QED BY <2>3, <2>6, <2>7, <2>8, <2>9 DEF BlockInv
  <1>12. HolesInv(i)' /\ OffInv'
    <2>1. \A k \in 0 .. MAXFILE - 1 : k \in Ks
      BY FileKs
    <2>2. HolesInv(i)'
      BY <1>8, <1>9, <2>1 DEF Inv, HolesInv
    <2>3. Inode(i).size \in Nat
      BY InodeIs DEF Inv
    <2>4. Inode(i).size >= Inode(i).size
      BY <2>3
    <2>5. OffInv'
      BY <1>7, <1>8, <1>10, <2>4, OffStays
    <2> QED BY <2>2, <2>5
  <1>13. /\ \A k : BlockAt(mem[i], k)' = BlockAt(mem[i], k)
         /\ Indirect(mem[i])' = Indirect(mem[i])
         /\ Bn(p)' = Bn(p) /\ (Missing(p)' <=> Missing(p))
    <2>1. /\ \A k : BlockAt(mem[i], k)' = BlockAt(mem[i], k)
          /\ Indirect(mem[i])' = Indirect(mem[i])
      BY Places
    <2>2. Bn(p)' = Bn(p)
      BY <1>5, <1>6 DEF Bn
    <2> QED BY <1>1, <1>6, <2>1, <2>2 DEF Missing
  <1>14. CallInv(p)'
    <2>1. call'[p].k = 0 /\ call'[p].new # 0 /\ fd'[p] # None
      BY <1>2, <1>4, <1>5, <1>6
    <2>2. 0 <= MAXFILE + 1
      BY Sizes
    <2> QED BY <1>6, <2>1, <2>2 DEF CallInv, At
  <1>15. WriteInv(p)'
    <2>1. /\ i = file[fd[p]].ip /\ mem[i].type = "file" /\ file[fd[p]].off <= c.off
          /\ c.off + Len(c.src) <= MAXFILE * BSIZE
          /\ \A k \in 0 .. MAXFILE - 1 : k * BSIZE < c.off => BlockAt(mem[i], k) # 0
          /\ mem[i] # disk[i] => c.off + Len(c.src) > mem[i].size
      BY <1>0, <1>1, <1>2 DEF WriteInv
    <2>2. call'[p].off = c.off /\ call'[p].src = c.src
      BY <1>5, <1>6
    <2> QED BY <1>3, <1>6, <1>13, <2>1, <2>2 DEF WriteInv
  <1>16. LogInv(p)'
    <2> DEFINE n == Cardinality(c.logged)
               nn == Cardinality(call'[p].logged)
               fb == ForBlock(p)
               fi == ForIndirect(p)
               fbb == ForBlock(p)'
               fii == ForIndirect(p)'
    <2>1. /\ call'[p].logged = c.logged \cup {BBLOCK(b)} /\ c.logged \in SUBSET LogBlocks
          /\ call'[p].off = c.off /\ call'[p].src = c.src
      BY <1>2, <1>5, <1>6 DEF CallRecords
    <2>2. n \in Nat /\ nn \in Nat /\ nn <= n + 1
      <3>1. /\ n \in Nat /\ nn \in Nat /\ nn = IF BBLOCK(b) \in c.logged THEN n ELSE n + 1
        BY ZenonT(40), <2>1, LogGrows
      <3> HIDE DEF n, nn
      <3> QED BY <3>1
    <2>3. PICK m \in Nat :
            /\ Ahead(m, Len(c.src), c.off % BSIZE)
            /\ n + 2 * m + fb + fi + 1 <= MAXOPBLOCKS
      BY <1>0, <1>2, <1>3 DEF LogInv
    <2>4. /\ At(p, "zero")' /\ ~At(p, "zero")
          /\ \A x : DBLOCK(x) \in call'[p].logged <=> DBLOCK(x) \in c.logged
      BY <1>0, <1>4, <1>6, <2>1 DEF At
    <2>5. fb = 2
      BY <1>3, <2>4 DEF ForBlock
    <2>6. fi = IF Indirect(mem[i]) # 0
               THEN IF DBLOCK(Indirect(mem[i])) \in c.logged THEN 0 ELSE 1
               ELSE 2
      BY <1>1, <2>4 DEF ForIndirect
    <2>7. fbb = IF Bn(p) < NDIRECT \/ Indirect(mem[i]) # 0 THEN 1 ELSE 2
      BY <1>3, <1>6, <1>13, <2>4 DEF ForBlock
    <2>8. fii = IF Indirect(mem[i]) # 0
                THEN IF DBLOCK(Indirect(mem[i])) \in c.logged THEN 0 ELSE 1
                ELSE IF Bn(p) >= NDIRECT THEN 1 ELSE 2
      BY <1>6, <1>13, <2>4 DEF ForIndirect
    <2>9. fbb + fii + 1 <= fb + fi /\ fbb \in Nat /\ fii \in Nat /\ fb \in Nat /\ fi \in Nat
      <3>1. Bn(p) \in Nat
        <4>1. c.off \in Nat
          BY <1>2 DEF CallRecords
        <4> QED BY <4>1, DivMod DEF Bn
      <3>2. Bn(p) < NDIRECT \/ Bn(p) >= NDIRECT
        BY <3>1, Sizes
      <3> HIDE DEF fb, fi, fbb, fii
      <3>3. CASE Indirect(mem[i]) # 0
        <4>1. fbb = 1 /\ fb = 2 /\ fi \in {0, 1} /\ fii = fi
          BY <2>5, <2>6, <2>7, <2>8, <3>3
        <4> QED BY <4>1
      <3>4. CASE Indirect(mem[i]) = 0 /\ Bn(p) < NDIRECT
        <4>1. ~ (Bn(p) >= NDIRECT)
          BY <3>1, <3>4, Sizes
        <4>2. fbb = 1 /\ fb = 2 /\ fi = 2 /\ fii = 2
          BY <2>5, <2>6, <2>7, <2>8, <3>4, <4>1
        <4> QED BY <4>2
      <3>5. CASE Indirect(mem[i]) = 0 /\ Bn(p) >= NDIRECT
        <4>1. ~ (Bn(p) < NDIRECT)
          BY <3>1, <3>5, Sizes
        <4>2. fbb = 2 /\ fb = 2 /\ fi = 2 /\ fii = 1
          BY <2>5, <2>6, <2>7, <2>8, <3>5, <4>1
        <4> QED BY <4>2
      <3> QED BY <3>2, <3>3, <3>4, <3>5
    <2> HIDE DEF n, nn, fb, fi, fbb, fii
    <2>10. nn + 2 * m + fbb + fii + 1 <= MAXOPBLOCKS
      <3>1. n + 2 * m + fb + fi + 1 <= MAXOPBLOCKS /\ MAXOPBLOCKS \in Nat
        BY <2>3, Sizes
      <3> QED BY <2>2, <2>9, <3>1
    <2>11. /\ Ahead(m, Len(call'[p].src), call'[p].off % BSIZE)
           /\ Cardinality(call'[p].logged) + 2 * m + ForBlock(p)' + ForIndirect(p)' + 1
                <= MAXOPBLOCKS
      BY <2>1, <2>3, <2>10 DEF nn, fbb, fii
    <2> QED BY <1>3, <1>6, <2>1, <2>11 DEF LogInv, At, Ahead
  <1>17. /\ UNCHANGED <<ref, fd, file>> /\ disk'[i].type = "file"
         /\ panicked' # "freeing free block" /\ Ip(p) = i
         /\ \A j \in Inodes \ {i} :
              /\ mem'[j] = mem[j] /\ disk'[j] = disk[j]
              /\ Blk(j, MAXFILE) # 0 => data'[Blk(j, MAXFILE)] = data[Blk(j, MAXFILE)]
    BY <1>1, <1>2 DEF Inv
  <1> QED BY <1>0, <1>6, <1>10, <1>11, <1>12, <1>14, <1>15, <1>16, <1>17, WriterStep

\* balloc() goes on to the next block of the bitmap.
LEMMA NextBitmapBlock ==
  ASSUME Inv, NEW p \in Procs, Lacks(p), call[p].k < LastBBLOCK,
         call' = [call EXCEPT ![p] = [call[p] EXCEPT !.k = call[p].k + 1]],
         UNCHANGED <<used, data, disk, mem, ref, fd, file>>, panicked' = panicked
  PROVE  Inv'
  <1>0. At(p, "write") /\ Writing(p) /\ Ip(p) \in Inodes
    BY DEF Lacks, At, Inv, ProcInv, CallInv, Writing
  <1>1. PICK i \in Inodes : i = Ip(p)
    BY <1>0
  <1> DEFINE r == [call[p] EXCEPT !.k = call[p].k + 1]
             c == call[p]
  <1>2. /\ Holds(p) /\ Out(p) = None /\ ~Refers(p) /\ Inode(i) = mem[i] /\ Freed(i) = 0
        /\ \A q \in Procs \ {p} : Holds(q) => Ip(q) # i
        /\ fd[p] # None /\ c \in CallRecords /\ CallInv(p) /\ WriteInv(p) /\ LogInv(p)
    BY <1>0, <1>1, Writer
  <1>3. c.k \in Nat /\ c.k + 1 \in Nat /\ c.k + 1 <= LastBBLOCK
    <2>1. c.k \in Nat /\ LastBBLOCK \in Int
      BY SMTT(30), <1>2, Sizes DEF CallRecords, LastBBLOCK
    <2> QED BY <2>1
  <1>4. /\ r \in CallRecords /\ r.pc = "write" /\ r.ip = i /\ r.off = c.off /\ r.src = c.src
        /\ r.logged = c.logged /\ r.k = c.k + 1 /\ r.new = c.new
    BY <1>0, <1>1, <1>2, <1>3 DEF CallRecords, Ip, At
  <1> HIDE DEF r
  <1>5. /\ CallType' /\ call'[p] = r /\ \A q \in Procs \ {p} : call'[q] = call[q]
        /\ Ip(p)' = i /\ call'[p].pc = "write"
        /\ Holds(p)' /\ Writing(p)' /\ ~Refers(p)' /\ Out(p)' = None
    BY <1>4, Becomes DEF Inv, Types, r
  <1>6. Apart(p, i)
    BY <1>1, <1>2, <1>5 DEF Apart
  <1>7. ~At(p, "trunc")' /\ ~At(p, "zero")' /\ ~At(p, "zero")
    BY <1>0, <1>5 DEF At
  <1>8. Inode(i)' = Inode(i) /\ Freed(i)' = Freed(i)
    <2>1. LockInv
      BY DEF Inv
    <2>2. Inode(i)' = mem'[i] /\ Freed(i)' = 0
      BY <1>5, <1>6, <1>7, <2>1, OwnInode
    <2> QED BY <1>2, <2>2
  <1>9. CallInv(p)'
    <2>1. c.new = 0
      BY <1>2, <1>7 DEF CallInv
    <2>2. call'[p].k = c.k + 1 /\ call'[p].new = 0 /\ fd'[p] # None
      BY <1>2, <1>4, <1>5, <2>1
    <2> QED BY <1>3, <1>5, <2>2 DEF CallInv, At
  <1>10. /\ \A k : BlockAt(mem[i], k)' = BlockAt(mem[i], k)
         /\ Indirect(mem[i])' = Indirect(mem[i])
         /\ Bn(p)' = Bn(p) /\ (Missing(p)' <=> Missing(p))
    <2>1. /\ \A k : BlockAt(mem[i], k)' = BlockAt(mem[i], k)
          /\ Indirect(mem[i])' = Indirect(mem[i])
      BY Places
    <2>2. Bn(p)' = Bn(p)
      BY <1>4, <1>5 DEF Bn
    <2> QED BY <1>1, <1>5, <2>1, <2>2 DEF Missing
  <1>11. WriteInv(p)'
    <2>1. call'[p].off = c.off /\ call'[p].src = c.src
      BY <1>4, <1>5
    <2> QED BY <1>0, <1>1, <1>2, <1>5, <1>7, <1>10, <2>1 DEF WriteInv
  <1>12. LogInv(p)'
    <2>1. call'[p].logged = c.logged /\ call'[p].off = c.off /\ call'[p].src = c.src
      BY <1>4, <1>5
    <2>2. ForBlock(p)' = ForBlock(p)
      BY <1>1, <1>5, <1>7, <1>10, <2>1 DEF ForBlock
    <2>3. ForIndirect(p)' = ForIndirect(p)
      BY <1>1, <1>5, <1>7, <1>10, <2>1 DEF ForIndirect
    <2> QED BY <1>0, <1>2, <1>5, <2>1, <2>2, <2>3 DEF LogInv, At, Ahead
  <1>13. ProcInv(p)'
    BY <1>9, <1>11, <1>12 DEF ProcInv
  <1>14. panicked' # "freeing free block" /\ Out(p)' = Out(p)
    BY <1>2, <1>5 DEF Inv
  <1> QED BY <1>5, <1>6, <1>7, <1>8, <1>13, <1>14, CallStep

\* Blocks are where they were when neither places nor calls change.
LEMMA NoBlockMoves ==
  ASSUME BlockInv, \A q \in Procs : call'[q] = call[q], used' = used,
         \A j \in Inodes, k \in Ks : Blk(j, k)' = Blk(j, k),
         \A j \in Inodes : Blk(j, MAXFILE) # 0 =>
                             data'[Blk(j, MAXFILE)] = data[Blk(j, MAXFILE)]
  PROVE  BlockInv'
  <1>1. MAXFILE \in Ks /\ \A q \in Procs : At(q, "zero")' <=> At(q, "zero")
    BY Sizes DEF Ks, At
  <1>2. \A j \in Inodes : Blk(j, MAXFILE)' = Blk(j, MAXFILE)
    BY <1>1
  <1>3. /\ \A j \in Inodes, k \in Ks : Blk(j, k)' \in 0 .. NBLOCKS
        /\ \A i, j \in Inodes, k, l \in Ks :
             Blk(i, k)' # 0 /\ Blk(i, k)' = Blk(j, l)' => i = j /\ k = l
        /\ \A j \in Inodes, k \in Ks : Blk(j, k)' # 0 => Blk(j, k)' \in used'
    BY DEF BlockInv
  <1>4. /\ \A q \in Procs : At(q, "zero")' =>
              call'[q].new \in used' /\ \A j \in Inodes, k \in Ks : Blk(j, k)' # call'[q].new
        /\ \A q, r \in Procs :
              At(q, "zero")' /\ At(r, "zero")' /\ call'[q].new = call'[r].new => q = r
    BY <1>1 DEF BlockInv
  <1>5. \A b \in used' : \/ \E j \in Inodes, k \in Ks : Blk(j, k)' = b
                         \/ \E q \in Procs : At(q, "zero")' /\ call'[q].new = b
    BY <1>1 DEF BlockInv
  <1>6. \A j \in Inodes : Blk(j, MAXFILE)' # 0 =>
            data'[Blk(j, MAXFILE)'] \in [Words -> 0 .. NBLOCKS]
    BY <1>2 DEF BlockInv
  <1> QED BY <1>3, <1>4, <1>5, <1>6 DEF BlockInv

\* A panic that is not of bfree() changes nothing else.
LEMMA PanicStep ==
  ASSUME Inv, UNCHANGED <<used, data, disk, mem, ref, fd, file, call>>,
         panicked' # "freeing free block"
  PROVE  Inv'
  <1>1. /\ \A p : Ip(p)' = Ip(p) /\ (Holds(p)' <=> Holds(p)) /\ (Refers(p)' <=> Refers(p))
        /\ \A p : Writing(p)' <=> Writing(p)
        /\ \A p, c : At(p, c)' <=> At(p, c)
    BY DEF Ip, Holds, Refers, Writing, At
  <1>2. Types' /\ LockInv' /\ FileInv' /\ InodeInv' /\ TruncInv'
    BY <1>1 DEF Inv, Types, CallType, LockInv, FileInv, InodeInv, TruncInv
  <1>3. RefInv'
    BY <1>1 DEF Inv, RefInv, Refs
  <1>4. /\ \A i : Inode(i)' = Inode(i) /\ (Locked(i)' <=> Locked(i)) /\ Freed(i)' = Freed(i)
        /\ \A i, k : BlockAt(mem[i], k)' = BlockAt(mem[i], k)
        /\ \A i : Indirect(mem[i])' = Indirect(mem[i])
    <2>1. /\ \A i : Locked(i)' <=> Locked(i)
          /\ \A i : Freed(i)' = Freed(i)
      BY Uses
    <2>2. \A i : Inode(i)' = Inode(i)
      BY <2>1 DEF Inode
    <2> QED BY <2>1, <2>2, Places
  <1>5. \A i, k : Blk(i, k)' = Blk(i, k)
    <2>1. \A i, k : Place(i, k)' = Place(i, k)
      BY <1>4, Places
    <2> QED BY <1>4, <2>1 DEF Blk
  <1>6. BlockInv'
    <2>1. /\ \A q \in Procs : call'[q] = call[q]
          /\ \A i \in Inodes, k \in Ks : Blk(i, k)' = Blk(i, k)
          /\ \A i \in Inodes : Blk(i, MAXFILE) # 0 =>
                                data'[Blk(i, MAXFILE)] = data[Blk(i, MAXFILE)]
      BY <1>5
    <2> QED BY <2>1, NoBlockMoves DEF Inv
  <1>7. NothingOnlyInMemory' /\ OffInv'
    BY <1>4 DEF Inv, NothingOnlyInMemory, OffInv
  <1>8. \A i \in Inodes : HolesInv(i)'
    BY <1>4, <1>5 DEF Inv, HolesInv
  <1>9. ASSUME NEW p \in Procs PROVE ProcInv(p)'
    <2>1. CallInv(p) /\ WriteInv(p) /\ LogInv(p)
      BY DEF Inv, ProcInv
    <2>2. CallInv(p)'
      BY <1>1, <2>1 DEF CallInv
    <2>3. /\ Bn(p)' = Bn(p) /\ (Missing(p)' <=> Missing(p))
          /\ BlockAt(mem[Ip(p)], Bn(p))' = BlockAt(mem[Ip(p)], Bn(p))
          /\ Indirect(mem[Ip(p)])' = Indirect(mem[Ip(p)])
      BY <1>1, Places DEF Bn, Missing
    <2>4. \A k : BlockAt(mem[Ip(p)], k)' = BlockAt(mem[Ip(p)], k)
      BY <1>1, Places
    <2>5. WriteInv(p)'
      BY <1>1, <2>1, <2>3, <2>4 DEF WriteInv
    <2>6. ForBlock(p)' = ForBlock(p) /\ ForIndirect(p)' = ForIndirect(p)
      BY <1>1, <2>3 DEF ForBlock, ForIndirect
    <2>7. LogInv(p)'
      BY <1>1, <2>1, <2>6 DEF LogInv, Ahead
    <2> QED BY <2>2, <2>5, <2>7 DEF ProcInv
  <1> QED BY <1>2, <1>3, <1>6, <1>7, <1>8, <1>9 DEF Inv

\* A step of balloc() keeps the invariant.
LEMMA BallocStep ==
  ASSUME Inv, NEW p \in Procs, Balloc(p), panicked = "no"
  PROVE  Inv'
  <1> DEFINE k == call[p].k
             free == {b \in Blocks \ used : BBLOCK(b) = <<"bitmap", k>>}
             b == CHOOSE x \in free : \A y \in free : x <= y
  <1>1. Lacks(p) /\ UNCHANGED <<data, disk, mem, ref, fd, file>>
    BY DEF Balloc
  <1>2. CASE /\ free # {} /\ used' = used \cup {b} /\ panicked' = panicked
             /\ call' = [call EXCEPT ![p] = [call[p] EXCEPT !.pc = "zero", !.new = b, !.k = 0,
                                               !.logged = call[p].logged \cup {BBLOCK(b)}]]
    <2>1. free \in SUBSET Blocks /\ free \subseteq Blocks \ used
      OBVIOUS
    <2> HIDE DEF free
    <2>2. b \in free
      BY <1>2, <2>1, FirstFree
    <2>3. b \in Blocks \ used
      BY <2>1, <2>2
    <2> HIDE DEF b
    <2> QED BY <1>1, <1>2, <2>3, TakeStep
  <1>3. CASE /\ k < LastBBLOCK /\ used' = used /\ panicked' = panicked
             /\ call' = [call EXCEPT ![p] = [call[p] EXCEPT !.k = k + 1]]
    BY <1>1, <1>3, NextBitmapBlock
  <1>4. CASE panicked' = "balloc: out of blocks" /\ used' = used /\ call' = call
    BY <1>1, <1>4, PanicStep
  <1> QED BY <1>2, <1>3, <1>4 DEF Balloc, Panic

-----------------------------------------------------------------------------
(* bmap() puts a new block where one was missing *)

\* Words d and inode ip become e and jp: block b is a direct block, the indirect block,
\* or one in it.
DirectIn(d, e, ip, jp, b, bn) ==
    /\ d \in [Blocks -> [Words -> WordVals]] /\ ip \in InodeRecords /\ b \in Blocks
    /\ bn \in 0 .. NDIRECT - 1 /\ ip.addrs[NDIRECT] # b
    /\ e = [d EXCEPT ![b] = Zeroed]
    /\ jp = [ip EXCEPT !.addrs = [ip.addrs EXCEPT ![bn] = b]]
IndirectIn(d, e, ip, jp, b) ==
    /\ d \in [Blocks -> [Words -> WordVals]] /\ ip \in InodeRecords /\ b \in Blocks
    /\ ip.addrs[NDIRECT] = 0
    /\ e = [d EXCEPT ![b] = Zeroed]
    /\ jp = [ip EXCEPT !.addrs = [ip.addrs EXCEPT ![NDIRECT] = b]]
EntryIn(d, e, ip, b, bn) ==
    LET a == ip.addrs[NDIRECT]
    IN  /\ d \in [Blocks -> [Words -> WordVals]] /\ ip \in InodeRecords /\ b \in Blocks
        /\ bn \in NDIRECT .. MAXFILE - 1
        /\ a \in Blocks /\ a # b /\ d[a] \in [Words -> 0 .. NBLOCKS]
        /\ e = [d EXCEPT ![b] = Zeroed, ![a] = [@ EXCEPT ![bn - NDIRECT] = b]]

LEMMA PutDirect ==
  ASSUME NEW d, NEW e, NEW ip, NEW jp, NEW b, NEW bn, DirectIn(d, e, ip, jp, b, bn)
  PROVE  /\ jp \in InodeRecords /\ jp.size = ip.size /\ jp.type = ip.type
         /\ jp.addrs[NDIRECT] = ip.addrs[NDIRECT]
         /\ PlaceIn(e, jp, bn) = b
         /\ \A k \in Ks \ {bn} : PlaceIn(e, jp, k) = PlaceIn(d, ip, k)
  <1> USE DEF DirectIn
  <1>1. /\ ip.addrs \in [0 .. NDIRECT -> 0 .. NBLOCKS] /\ b \in 0 .. NBLOCKS
        /\ bn \in 0 .. NDIRECT /\ NDIRECT \in 0 .. NDIRECT /\ bn # NDIRECT /\ bn < NDIRECT
        /\ bn # MAXFILE
    BY SMTT(30), Sizes DEF InodeRecords, Blocks
  <1>2. jp \in InodeRecords /\ jp.size = ip.size /\ jp.type = ip.type
    BY <1>1 DEF InodeRecords
  <1>3. /\ jp.addrs[NDIRECT] = ip.addrs[NDIRECT] /\ jp.addrs[bn] = b
        /\ \A k \in 0 .. NDIRECT : k # bn => jp.addrs[k] = ip.addrs[k]
    BY <1>1 DEF InodeRecords
  <1>4. \A x : x # b => e[x] = d[x]
    OBVIOUS
  <1>5. PlaceIn(e, jp, bn) = b
    BY <1>1, <1>3 DEF PlaceIn, Word
  <1>6. ASSUME NEW k \in Ks \ {bn} PROVE PlaceIn(e, jp, k) = PlaceIn(d, ip, k)
    <2>1. CASE k = MAXFILE
      BY <1>3, <2>1 DEF PlaceIn
    <2>2. CASE k # MAXFILE /\ k < NDIRECT
      <3>1. k \in 0 .. NDIRECT
        BY <2>2, FileKs, Sizes
      <3> QED BY <1>3, <2>2, <3>1 DEF PlaceIn, Word
    <2>3. CASE k # MAXFILE /\ ~ (k < NDIRECT)
      BY <1>3, <1>4, <2>3 DEF PlaceIn, Word
    <2> QED BY <2>1, <2>2, <2>3
  <1> QED BY <1>2, <1>3, <1>5, <1>6

LEMMA PutIndirect ==
  ASSUME NEW d, NEW e, NEW ip, NEW jp, NEW b, IndirectIn(d, e, ip, jp, b)
  PROVE  /\ jp \in InodeRecords /\ jp.size = ip.size /\ jp.type = ip.type
         /\ jp.addrs[NDIRECT] = b /\ e[b] \in [Words -> 0 .. NBLOCKS]
         /\ PlaceIn(e, jp, MAXFILE) = b
         /\ \A k \in Ks \ {MAXFILE} : PlaceIn(e, jp, k) = PlaceIn(d, ip, k)
  <1> USE DEF IndirectIn
  <1>1. /\ ip.addrs \in [0 .. NDIRECT -> 0 .. NBLOCKS] /\ b \in 0 .. NBLOCKS /\ b # 0
        /\ NDIRECT \in 0 .. NDIRECT
    BY Sizes DEF InodeRecords, Blocks
  <1>2. jp \in InodeRecords /\ jp.size = ip.size /\ jp.type = ip.type
    BY <1>1 DEF InodeRecords
  <1>3. /\ jp.addrs[NDIRECT] = b
        /\ \A k \in 0 .. NDIRECT : k # NDIRECT => jp.addrs[k] = ip.addrs[k]
    BY <1>1 DEF InodeRecords
  <1>4. e[b] = Zeroed
    OBVIOUS
  <1>5. e[b] \in [Words -> 0 .. NBLOCKS]
    <2>1. 0 \in 0 .. NBLOCKS
      BY Sizes
    <2> QED BY <1>4, <2>1 DEF Zeroed
  <1>6. ASSUME NEW k \in Ks \ {MAXFILE} PROVE PlaceIn(e, jp, k) = PlaceIn(d, ip, k)
    <2>1. k # MAXFILE /\ k \in Nat /\ k <= MAXFILE
      BY FileKs
    <2>2. CASE k < NDIRECT
      <3>1. k \in 0 .. NDIRECT /\ k # NDIRECT
        BY <2>1, <2>2, Sizes
      <3> QED BY <1>3, <2>1, <2>2, <3>1 DEF PlaceIn, Word
    <2>3. CASE ~ (k < NDIRECT)
      <3>1. k - NDIRECT \in Words
        BY <2>1, <2>3, Sizes DEF Words
      <3>2. e[b][k - NDIRECT] = 0
        BY <1>4, <3>1 DEF Zeroed
      <3> QED BY <1>1, <1>3, <2>1, <2>3, <3>2 DEF PlaceIn, Word
    <2> QED BY <2>2, <2>3
  <1>7. PlaceIn(e, jp, MAXFILE) = b
    BY <1>3 DEF PlaceIn
  <1> QED BY <1>2, <1>3, <1>5, <1>6, <1>7

LEMMA TwoUpdates ==
  ASSUME NEW S, NEW V, NEW d \in [S -> V], NEW b \in S, NEW a \in S, a # b, NEW z, NEW w, NEW v
  PROVE  LET e == [d EXCEPT ![b] = z, ![a] = [@ EXCEPT ![w] = v]]
         IN  /\ e[a] = [d[a] EXCEPT ![w] = v]
             /\ \A x \in S : x # b /\ x # a => e[x] = d[x]
  <1> DEFINE c == [d EXCEPT ![b] = z]
  <1>1. c[a] = d[a] /\ a \in DOMAIN c /\ DOMAIN c = S
        /\ \A x \in S : x # b => c[x] = d[x]
    OBVIOUS
  <1>2. [d EXCEPT ![b] = z, ![a] = [@ EXCEPT ![w] = v]] = [c EXCEPT ![a] = [c[a] EXCEPT ![w] = v]]
    OBVIOUS
  <1> HIDE DEF c
  <1>3. /\ [c EXCEPT ![a] = [c[a] EXCEPT ![w] = v]][a] = [c[a] EXCEPT ![w] = v]
        /\ \A x \in S : x # a => [c EXCEPT ![a] = [c[a] EXCEPT ![w] = v]][x] = c[x]
    BY <1>1
  <1> QED BY <1>1, <1>2, <1>3

LEMMA PutEntry ==
  ASSUME NEW d, NEW e, NEW ip, NEW b, NEW bn, EntryIn(d, e, ip, b, bn)
  PROVE  /\ e[ip.addrs[NDIRECT]] \in [Words -> 0 .. NBLOCKS]
         /\ PlaceIn(e, ip, bn) = b
         /\ \A k \in Ks \ {bn} : PlaceIn(e, ip, k) = PlaceIn(d, ip, k)
         /\ \A x \in Blocks : x # b /\ x # ip.addrs[NDIRECT] => e[x] = d[x]
  <1> USE DEF EntryIn
  <1> DEFINE a == ip.addrs[NDIRECT]
             w == bn - NDIRECT
  <1>1. /\ b \in 0 .. NBLOCKS /\ a # 0 /\ w \in Words /\ bn # MAXFILE /\ ~ (bn < NDIRECT)
    <2>1. \A x \in Blocks : x \in 0 .. NBLOCKS /\ x # 0
      BY Sizes DEF Blocks
    <2>2. \A n \in NDIRECT .. MAXFILE - 1 :
            n - NDIRECT \in Words /\ n # MAXFILE /\ ~ (n < NDIRECT)
      BY Sizes DEF Words
    <2> QED BY <2>1, <2>2
  <1>2. /\ e[a] = [d[a] EXCEPT ![w] = b]
        /\ \A x \in Blocks : x # b /\ x # a => e[x] = d[x]
    BY TwoUpdates
  <1> HIDE DEF a, w
  <1>3. /\ e[a] \in [Words -> 0 .. NBLOCKS] /\ e[a][w] = b
        /\ \A v \in Words \ {w} : e[a][v] = d[a][v]
    <2>1. d[a] \in [Words -> 0 .. NBLOCKS]
      BY DEF a
    <2>2. w \in Words /\ b \in 0 .. NBLOCKS
      BY <1>1
    <2> DEFINE c == d[a]
               u == e[a]
    <2>3. c \in [Words -> 0 .. NBLOCKS] /\ u = [c EXCEPT ![w] = b]
      BY <1>2, <2>1
    <2> HIDE DEF c, u
    <2>4. /\ u \in [Words -> 0 .. NBLOCKS] /\ u[w] = b
          /\ \A v \in Words \ {w} : u[v] = c[v]
      BY <2>2, <2>3
    <2> QED BY <2>4 DEF c, u
  <1>4. PlaceIn(e, ip, bn) = b
    BY <1>1, <1>3 DEF PlaceIn, Word, a, w
  <1>5. ASSUME NEW k \in Ks \ {bn} PROVE PlaceIn(e, ip, k) = PlaceIn(d, ip, k)
    <2>1. CASE k = MAXFILE \/ k < NDIRECT
      BY <2>1 DEF PlaceIn, Word
    <2>2. CASE k # MAXFILE /\ ~ (k < NDIRECT)
      <3>1. k - NDIRECT \in Words \ {w}
        BY <2>2, FileKs, Sizes DEF Words, w
      <3> QED BY <1>1, <1>3, <2>2, <3>1 DEF PlaceIn, Word, a
    <2> QED BY <2>1, <2>2
  <1> QED BY <1>2, <1>3, <1>4, <1>5 DEF a

\* The block that balloc() took goes from the hands of p to place kx of inode i.
LEMMA BlockPut ==
  ASSUME BlockInv, NEW p \in Procs, NEW i \in Inodes, NEW kx \in Ks, NEW b \in Blocks,
         used \subseteq Blocks, At(p, "zero"), ~At(p, "zero")', call[p].new = b,
         \A q \in Procs \ {p} : call'[q] = call[q], used' = used,
         Blk(i, kx) = 0, Blk(i, kx)' = b,
         \A j \in Inodes, k \in Ks : j # i \/ k # kx => Blk(j, k)' = Blk(j, k),
         \A j \in Inodes : Blk(j, MAXFILE)' # 0 =>
                             data'[Blk(j, MAXFILE)'] \in [Words -> 0 .. NBLOCKS]
  PROVE  BlockInv'
  <1>1. b \in 0 .. NBLOCKS /\ b # 0
    BY Sizes DEF Blocks
  <1>2. b \in used /\ \A j \in Inodes, k \in Ks : Blk(j, k) # b
    BY DEF BlockInv
  <1>3. \A q \in Procs \ {p} : (At(q, "zero")' <=> At(q, "zero")) /\ call'[q].new = call[q].new
    BY DEF At
  <1>4. \A j \in Inodes, k \in Ks : Blk(j, k)' = IF j = i /\ k = kx THEN b ELSE Blk(j, k)
    OBVIOUS
  <1>5. /\ \A j \in Inodes, k \in Ks : Blk(j, k)' \in 0 .. NBLOCKS
        /\ \A j \in Inodes, k \in Ks : Blk(j, k)' # 0 => Blk(j, k)' \in used'
    <2>1. \A j \in Inodes, k \in Ks : Blk(j, k) \in 0 .. NBLOCKS /\ (Blk(j, k) # 0 => Blk(j, k) \in used)
      BY DEF BlockInv
    <2> QED BY <1>1, <1>2, <1>4, <2>1
  <1>6. \A j, l \in Inodes, k, m \in Ks :
             Blk(j, k)' # 0 /\ Blk(j, k)' = Blk(l, m)' => j = l /\ k = m
    <2>1. \A j, l \in Inodes, k, m \in Ks :
             Blk(j, k) # 0 /\ Blk(j, k) = Blk(l, m) => j = l /\ k = m
      BY DEF BlockInv
    <2> QED BY <1>2, <1>4, <2>1
  <1>7. /\ \A q \in Procs : At(q, "zero")' =>
              call'[q].new \in used' /\ \A j \in Inodes, k \in Ks : Blk(j, k)' # call'[q].new
        /\ \A q, r \in Procs :
              At(q, "zero")' /\ At(r, "zero")' /\ call'[q].new = call'[r].new => q = r
    <2>1. /\ \A q \in Procs : At(q, "zero") =>
              call[q].new \in used /\ \A j \in Inodes, k \in Ks : Blk(j, k) # call[q].new
          /\ \A q, r \in Procs :
              At(q, "zero") /\ At(r, "zero") /\ call[q].new = call[r].new => q = r
      BY DEF BlockInv
    <2>2. \A q \in Procs \ {p} : At(q, "zero") => call[q].new # b
      BY <2>1
    <2> QED BY <1>3, <1>4, <2>1, <2>2
  <1>8. ASSUME NEW x \in used'
        PROVE  \/ \E j \in Inodes, k \in Ks : Blk(j, k)' = x
               \/ \E q \in Procs : At(q, "zero")' /\ call'[q].new = x
    <2>1. \/ \E j \in Inodes, k \in Ks : Blk(j, k) = x
          \/ \E q \in Procs : At(q, "zero") /\ call[q].new = x
      BY DEF BlockInv
    <2>2. CASE x = b
      BY <2>2
    <2>3. CASE x # b /\ \E j \in Inodes, k \in Ks : Blk(j, k) = x
      <3>1. PICK j \in Inodes, k \in Ks : Blk(j, k) = x
        BY <2>3
      <3>2. CASE j = i /\ k = kx
        <4>1. x = 0 /\ x \in Blocks
          BY <1>8, <3>1, <3>2
        <4> QED BY <4>1, Sizes DEF Blocks
      <3>3. CASE ~ (j = i /\ k = kx)
        BY <1>4, <3>1, <3>3
      <3> QED BY <3>2, <3>3
    <2>4. CASE x # b /\ \E q \in Procs : At(q, "zero") /\ call[q].new = x
      BY <1>3, <2>4
    <2> QED BY <2>1, <2>2, <2>3, <2>4
  <1> QED BY <1>5, <1>6, <1>7, <1>8 DEF BlockInv

\* What Bzero() does, with kx the place that was missing.
PutAt(p, i, kx) ==
    LET b == call[p].new
        ind == mem[i].addrs[NDIRECT]
        ind2 == mem'[i].addrs[NDIRECT]
    IN  /\ PlaceIn(data, mem[i], kx) = 0 /\ PlaceIn(data', mem'[i], kx) = b
        /\ \A k \in Ks \ {kx} : PlaceIn(data', mem'[i], k) = PlaceIn(data, mem[i], k)
        /\ mem'[i] \in InodeRecords
        /\ mem'[i].size = mem[i].size /\ mem'[i].type = mem[i].type
        /\ \A j \in Inodes \ {i} : mem'[j] = mem[j]
        /\ data' \in [Blocks -> [Words -> WordVals]] /\ mem' \in [Inodes -> InodeRecords]
        /\ \A x \in Blocks : x # b /\ x # ind => data'[x] = data[x]
        /\ ind2 # 0 => data'[ind2] \in [Words -> 0 .. NBLOCKS]
        /\ \/ /\ kx = Bn(p) /\ ind2 = ind /\ Bn(p) < NDIRECT
              /\ call'[p].logged = call[p].logged \cup {DBLOCK(b)}
           \/ /\ kx = Bn(p) /\ ind2 = ind /\ ind # 0 /\ ~ (Bn(p) < NDIRECT)
              /\ call'[p].logged = (call[p].logged \cup {DBLOCK(b)}) \cup {DBLOCK(ind)}
           \/ /\ kx = MAXFILE /\ ind = 0 /\ ind2 = b /\ ~ (Bn(p) < NDIRECT)
              /\ call'[p].logged = call[p].logged \cup {DBLOCK(b)}

LEMMA BlockOfChunk ==
  ASSUME Inv, NEW p \in Procs, Writing(p), call[p].src # <<>>
  PROVE  /\ Bn(p) \in 0 .. MAXFILE - 1 /\ Bn(p) * BSIZE <= call[p].off /\ call[p].off \in Nat
         /\ Len(call[p].src) \in Nat \ {0}
         /\ call[p].off + Len(call[p].src) <= MAXFILE * BSIZE
  <1>1. /\ call[p].off \in Nat /\ call[p].src \in Seq(Vals)
        /\ call[p].off + Len(call[p].src) <= MAXFILE * BSIZE
    BY Registers DEF Inv, ProcInv, WriteInv
  <1>2. Len(call[p].src) \in Nat \ {0}
    BY <1>1
  <1> QED BY <1>1, <1>2, Turn DEF Bn

LEMMA BzeroPuts ==
  ASSUME Inv, NEW p \in Procs, NEW i \in Inodes, Ip(p) = i, Bzero(p),
         call'[p].logged = call[p].logged \cup {DBLOCK(call[p].new)}
             \cup (IF Bn(p) >= NDIRECT /\ Indirect(mem[i]) # 0
                   THEN {DBLOCK(Indirect(mem[i]))} ELSE {})
  PROVE  \E kx \in Ks : PutAt(p, i, kx)
  <1> DEFINE b == call[p].new
             bn == Bn(p)
             ind == mem[i].addrs[NDIRECT]
             here == IF bn < NDIRECT THEN bn ELSE NDIRECT
             entry == bn >= NDIRECT /\ ind # 0
  <1>1. At(p, "zero") /\ Writing(p)
    BY DEF Bzero, At, Writing
  <1>2. /\ mem[i] \in InodeRecords /\ mem \in [Inodes -> InodeRecords]
        /\ data \in [Blocks -> [Words -> WordVals]] /\ CallInv(p) /\ WriteInv(p)
        /\ \A k \in Ks : Blk(i, k) = PlaceIn(data, mem[i], k)
    <2>1. mem \in [Inodes -> InodeRecords] /\ data \in [Blocks -> [Words -> WordVals]]
      BY DEF Inv, Types
    <2> QED BY <1>1, <2>1, Writer
  <1>3. b \in Blocks
    <2>1. b \in used
      BY <1>1 DEF Inv, BlockInv
    <2> QED BY <2>1 DEF Inv, Types
  <1>4. bn \in 0 .. MAXFILE - 1 /\ Word(data, mem[i], bn) = 0 /\ bn \in Ks /\ bn # MAXFILE
    <2>1. call[p].src # <<>> /\ Missing(p)
      BY <1>1, <1>2 DEF WriteInv
    <2>2. bn \in 0 .. MAXFILE - 1
      BY <1>1, <2>1, BlockOfChunk
    <2> QED BY <2>1, <2>2, FileKs, Places DEF Missing
  <1>5. /\ ind # b /\ ind \in 0 .. NBLOCKS
        /\ ind # 0 => ind \in Blocks /\ data[ind] \in [Words -> 0 .. NBLOCKS]
    <2>1. MAXFILE \in Ks /\ Blk(i, MAXFILE) = ind
      BY <1>2, FileKs DEF PlaceIn
    <2>2. Blk(i, MAXFILE) # b
      BY <1>1, <2>1 DEF Inv, BlockInv
    <2>3. /\ Blk(i, MAXFILE) \in 0 .. NBLOCKS
          /\ Blk(i, MAXFILE) # 0 => data[Blk(i, MAXFILE)] \in [Words -> 0 .. NBLOCKS]
      BY <2>1 DEF Inv, BlockInv
    <2>4. \A x \in 0 .. NBLOCKS : x # 0 => x \in Blocks
      BY Sizes DEF Blocks
    <2> QED BY <2>1, <2>2, <2>3, <2>4
  <1>6. \A c \in Blocks : c \in 0 .. NBLOCKS
    BY DEF Blocks
  <1>7. Zeroed \in [Words -> WordVals] /\ \A z \in [Words -> 0 .. NBLOCKS] : z \in [Words -> WordVals]
    <2>1. 0 \in 0 .. NBLOCKS
      BY Sizes
    <2>2. 0 \in WordVals /\ 0 .. NBLOCKS \subseteq WordVals
      BY <2>1 DEF WordVals
    <2> QED BY <2>2 DEF Zeroed
  <1>8. /\ entry => /\ data' = [data EXCEPT ![b] = Zeroed,
                                            ![ind] = [@ EXCEPT ![bn - NDIRECT] = b]]
                    /\ mem' = mem
        /\ ~entry => /\ data' = [data EXCEPT ![b] = Zeroed]
                     /\ mem' = [mem EXCEPT ![i] =
                                    [mem[i] EXCEPT !.addrs = [mem[i].addrs EXCEPT ![here] = b]]]
    BY DEF Bzero, Bn, Indirect
  <1>9. ~entry => /\ data' \in [Blocks -> [Words -> WordVals]]
                  /\ \A x \in Blocks : x # b => data'[x] = data[x]
                  /\ \A j \in Inodes \ {i} : mem'[j] = mem[j]
                  /\ mem'[i] = [mem[i] EXCEPT !.addrs = [mem[i].addrs EXCEPT ![here] = b]]
    BY <1>2, <1>3, <1>7, <1>8
  <1>10. CASE bn < NDIRECT
    <2>1. ~entry /\ here = bn /\ bn \in 0 .. NDIRECT - 1
      BY <1>4, <1>10, Sizes
    <2>2. /\ mem'[i] \in InodeRecords /\ mem'[i].size = mem[i].size /\ mem'[i].type = mem[i].type
          /\ mem'[i].addrs[NDIRECT] = ind
          /\ PlaceIn(data', mem'[i], bn) = b
          /\ \A k \in Ks \ {bn} : PlaceIn(data', mem'[i], k) = PlaceIn(data, mem[i], k)
      <3>1. /\ data' = [data EXCEPT ![b] = Zeroed]
            /\ mem'[i] = [mem[i] EXCEPT !.addrs = [mem[i].addrs EXCEPT ![bn] = b]]
        BY <1>8, <1>9, <2>1
      <3>2. /\ data \in [Blocks -> [Words -> WordVals]] /\ mem[i] \in InodeRecords /\ b \in Blocks
            /\ bn \in 0 .. NDIRECT - 1 /\ mem[i].addrs[NDIRECT] # b
        BY <1>2, <1>3, <1>5, <2>1
      <3>3. DirectIn(data, data', mem[i], mem'[i], b, bn)
        BY <3>1, <3>2 DEF DirectIn
      <3> QED BY <3>3, PutDirect
    <2>3. mem' \in [Inodes -> InodeRecords]
      BY <1>2, <1>8, <2>1, <2>2
    <2>4. data'[ind] = data[ind] \/ ind = 0
      BY <1>5, <1>9, <2>1
    <2>5. call'[p].logged = call[p].logged \cup {DBLOCK(b)}
      BY <2>1 DEF Indirect
    <2>6. PlaceIn(data, mem[i], bn) = 0
      BY <1>4 DEF PlaceIn
    <2>7. PutAt(p, i, bn)
      BY <1>5, <1>9, <1>10, <2>1, <2>2, <2>3, <2>4, <2>5, <2>6 DEF PutAt
    <2> QED BY <1>4, <2>7
  <1>11. CASE ~ (bn < NDIRECT) /\ ind = 0
    <2>1. ~entry /\ here = NDIRECT /\ MAXFILE \in Ks
      BY <1>11, FileKs
    <2>2. /\ mem'[i] \in InodeRecords /\ mem'[i].size = mem[i].size /\ mem'[i].type = mem[i].type
          /\ mem'[i].addrs[NDIRECT] = b /\ data'[b] \in [Words -> 0 .. NBLOCKS]
          /\ PlaceIn(data', mem'[i], MAXFILE) = b
          /\ \A k \in Ks \ {MAXFILE} : PlaceIn(data', mem'[i], k) = PlaceIn(data, mem[i], k)
      <3>1. /\ data' = [data EXCEPT ![b] = Zeroed]
            /\ mem'[i] = [mem[i] EXCEPT !.addrs = [mem[i].addrs EXCEPT ![NDIRECT] = b]]
        BY <1>8, <1>9, <2>1
      <3>2. /\ data \in [Blocks -> [Words -> WordVals]] /\ mem[i] \in InodeRecords /\ b \in Blocks
            /\ mem[i].addrs[NDIRECT] = 0
        BY <1>2, <1>3, <1>11
      <3>3. IndirectIn(data, data', mem[i], mem'[i], b)
        BY <3>1, <3>2 DEF IndirectIn
      <3> QED BY <3>3, PutIndirect
    <2>3. mem' \in [Inodes -> InodeRecords]
      BY <1>2, <1>8, <2>1, <2>2
    <2>5. call'[p].logged = call[p].logged \cup {DBLOCK(b)}
      BY <2>1 DEF Indirect
    <2>6. PlaceIn(data, mem[i], MAXFILE) = 0
      BY <1>11 DEF PlaceIn
    <2>7. PutAt(p, i, MAXFILE)
      BY <1>9, <1>11, <2>1, <2>2, <2>3, <2>5, <2>6 DEF PutAt
    <2> QED BY <2>1, <2>7
  <1>12. CASE ~ (bn < NDIRECT) /\ ind # 0
    <2>1. entry /\ bn \in NDIRECT .. MAXFILE - 1
      BY <1>4, <1>12, Sizes
    <2>2. data' = [data EXCEPT ![b] = Zeroed, ![ind] = [@ EXCEPT ![bn - NDIRECT] = b]]
          /\ mem' = mem
      BY <1>8, <2>1
    <2>3. /\ data'[ind] \in [Words -> 0 .. NBLOCKS]
          /\ PlaceIn(data', mem[i], bn) = b
          /\ \A k \in Ks \ {bn} : PlaceIn(data', mem[i], k) = PlaceIn(data, mem[i], k)
          /\ \A x \in Blocks : x # b /\ x # ind => data'[x] = data[x]
      <3>1. data' = [data EXCEPT ![b] = Zeroed,
                                 ![mem[i].addrs[NDIRECT]] = [@ EXCEPT ![bn - NDIRECT] = b]]
        BY <2>2
      <3>2. /\ data \in [Blocks -> [Words -> WordVals]] /\ mem[i] \in InodeRecords /\ b \in Blocks
            /\ bn \in NDIRECT .. MAXFILE - 1 /\ mem[i].addrs[NDIRECT] # b
            /\ mem[i].addrs[NDIRECT] \in Blocks
            /\ data[mem[i].addrs[NDIRECT]] \in [Words -> 0 .. NBLOCKS]
        BY <1>2, <1>3, <1>5, <1>12, <2>1
      <3>3. EntryIn(data, data', mem[i], b, bn)
        BY <3>1, <3>2 DEF EntryIn
      <3> QED BY <3>3, PutEntry
    <2>4. data' \in [Blocks -> [Words -> WordVals]]
      <3>1. DOMAIN data' = Blocks /\ data' = [x \in Blocks |-> data'[x]]
        BY <1>2, <2>2
      <3>2. data'[b] = Zeroed
        BY <1>2, <1>3, <1>5, <2>2
      <3>3. \A x \in Blocks : data'[x] \in [Words -> WordVals]
        BY <1>2, <1>7, <2>3, <3>2
      <3> QED BY <3>1, <3>3
    <2>5. call'[p].logged = (call[p].logged \cup {DBLOCK(b)}) \cup {DBLOCK(ind)}
      BY <2>1 DEF Indirect
    <2>6. PlaceIn(data, mem[i], bn) = 0
      BY <1>4 DEF PlaceIn
    <2>7. PutAt(p, i, bn)
      BY <1>2, <1>12, <2>2, <2>3, <2>4, <2>5, <2>6 DEF PutAt
    <2> QED BY <1>4, <2>7
  <1> QED BY <1>10, <1>11, <1>12

\* A missing block is beyond the end of the file: the chunk makes it grow.
LEMMA MissingGrows ==
  ASSUME Inv, NEW p \in Procs, NEW i \in Inodes, Ip(p) = i, Writing(p), Missing(p),
         call[p].src # <<>>
  PROVE  call[p].off + Len(call[p].src) > mem[i].size
  <1>1. /\ Inode(i) = mem[i] /\ Freed(i) = 0 /\ mem[i] \in InodeRecords
        /\ \A k \in Ks : Blk(i, k) = PlaceIn(data, mem[i], k)
    BY Writer
  <1>2. /\ Bn(p) \in 0 .. MAXFILE - 1 /\ Bn(p) * BSIZE <= call[p].off /\ call[p].off \in Nat
        /\ Len(call[p].src) \in Nat \ {0}
    BY BlockOfChunk
  <1>3. Blk(i, Bn(p)) = 0
    <2>1. Bn(p) \in Ks /\ Bn(p) # MAXFILE
      BY <1>2, FileKs
    <2> QED BY <1>1, <2>1, Places DEF Missing, PlaceIn
  <1>4. ~ (Bn(p) * BSIZE < mem[i].size)
    BY <1>1, <1>2, <1>3 DEF Inv, HolesInv
  <1>5. mem[i].size \in Nat /\ Bn(p) * BSIZE \in Int
    <2>1. \A x \in 0 .. MAXFILE * BSIZE : x \in Nat
      OBVIOUS
    <2>2. mem[i].size \in 0 .. MAXFILE * BSIZE
      BY <1>1 DEF InodeRecords
    <2>3. Bn(p) \in Int
      BY <1>2
    <2> QED BY <2>1, <2>2, <2>3, TimesNext
  <1> DEFINE a == Bn(p) * BSIZE
             o == call[p].off
             l == Len(call[p].src)
             n == mem[i].size
  <1>6. a \in Int /\ o \in Nat /\ l \in Nat \ {0} /\ n \in Nat /\ a <= o /\ ~ (a < n)
    BY <1>2, <1>4, <1>5
  <1> HIDE DEF a, o, l, n
  <1>7. o + l > n
    BY <1>6
  <1> QED BY <1>7 DEF o, l, n

LEMMA BzeroStep ==
  ASSUME Inv, NEW p \in Procs, Bzero(p), panicked' = panicked
  PROVE  Inv'
  <1>0. At(p, "zero") /\ Writing(p) /\ Ip(p) \in Inodes /\ UNCHANGED <<used, disk, ref, fd, file>>
    BY DEF Bzero, At, Inv, ProcInv, CallInv, Writing
  <1>1. PICK i \in Inodes : i = Ip(p)
    BY <1>0
  <1> DEFINE c == call[p]
             b == call[p].new
             ind == mem[i].addrs[NDIRECT]
             logged == c.logged \cup {DBLOCK(b)}
                         \cup (IF Bn(p) >= NDIRECT /\ Indirect(mem[i]) # 0
                               THEN {DBLOCK(Indirect(mem[i]))} ELSE {})
             r == [call[p] EXCEPT !.pc = "write", !.new = 0, !.logged = logged]
  <1>2. /\ Holds(p) /\ Out(p) = None /\ ~Refers(p) /\ Inode(i) = mem[i] /\ Freed(i) = 0
        /\ \A q \in Procs \ {p} : Holds(q) => Ip(q) # i
        /\ \A k \in Ks : Blk(i, k) = PlaceIn(data, mem[i], k)
        /\ mem[i] \in InodeRecords /\ fd[p] # None /\ disk[i].type = "file"
        /\ c \in CallRecords /\ CallInv(p) /\ WriteInv(p) /\ LogInv(p)
    BY <1>0, <1>1, Writer
  <1>3. c.src # <<>> /\ Missing(p)
    BY <1>0, <1>2 DEF WriteInv
  <1>4. b \in Blocks /\ b # 0 /\ used \subseteq Blocks
    <2>1. b \in used /\ used \subseteq Blocks
      BY <1>0 DEF Inv, BlockInv, Types
    <2>2. 0 \notin Blocks
      BY DEF Blocks
    <2> QED BY <2>1, <2>2
  <1>5. MAXFILE \in Ks /\ Blk(i, MAXFILE) = ind /\ ind = Indirect(mem[i])
        /\ (ind # 0 => ind \in Blocks)
    <2>1. MAXFILE \in Ks /\ Blk(i, MAXFILE) = ind
      BY <1>2, FileKs DEF PlaceIn
    <2>2. Blk(i, MAXFILE) \in 0 .. NBLOCKS
      BY <2>1 DEF Inv, BlockInv
    <2>3. \A x \in 0 .. NBLOCKS : x # 0 => x \in Blocks
      BY Sizes DEF Blocks
    <2> QED BY <2>1, <2>2, <2>3 DEF Indirect
  <1>6. /\ r \in CallRecords /\ r.pc = "write" /\ r.ip = i /\ r.off = c.off /\ r.src = c.src
        /\ r.logged = logged /\ r.k = c.k /\ r.new = 0
    <2>1. "write" \in Pcs /\ 0 \in 0 .. NBLOCKS
      BY Sizes DEF Pcs
    <2>2. \A x \in Blocks : DBLOCK(x) \in LogBlocks
      BY DEF LogBlocks
    <2>3. c.logged \in SUBSET LogBlocks
      BY <1>2 DEF CallRecords
    <2>4. logged \in SUBSET LogBlocks
      BY <1>4, <1>5, <2>2, <2>3
    <2> HIDE DEF logged
    <2> QED BY <1>1, <1>2, <2>1, <2>4 DEF CallRecords, Ip
  <1>7. call' = [call EXCEPT ![p] = r]
    BY <1>1 DEF Bzero, Bn
  <1> HIDE DEF r
  <1>8. /\ CallType' /\ call'[p] = r /\ \A q \in Procs \ {p} : call'[q] = call[q]
        /\ Ip(p)' = i /\ call'[p].pc = "write"
        /\ Holds(p)' /\ Writing(p)' /\ ~Refers(p)'
    BY <1>6, <1>7, Becomes DEF Inv, Types
  <1>9. PICK kx \in Ks : PutAt(p, i, kx)
    <2>1. call'[p].logged = logged
      BY <1>6, <1>8
    <2> QED BY <1>1, <2>1, BzeroPuts
  <1>10. \A j \in Inodes \ {i} :
           /\ mem'[j] = mem[j] /\ disk'[j] = disk[j]
           /\ Blk(j, MAXFILE) # 0 =>
                data'[Blk(j, MAXFILE)] = data[Blk(j, MAXFILE)] /\ Blk(j, MAXFILE) \in Blocks
    <2>1. ASSUME NEW j \in Inodes \ {i}, Blk(j, MAXFILE) # 0
          PROVE  data'[Blk(j, MAXFILE)] = data[Blk(j, MAXFILE)] /\ Blk(j, MAXFILE) \in Blocks
      <3>1. Blk(j, MAXFILE) # b /\ Blk(j, MAXFILE) \in used
        BY <1>0, <1>5, <2>1 DEF Inv, BlockInv
      <3>2. Blk(j, MAXFILE) # ind
        <4>1. \A l, m \in Inodes, k, h \in Ks :
                 Blk(l, k) # 0 /\ Blk(l, k) = Blk(m, h) => l = m /\ k = h
          BY DEF Inv, BlockInv
        <4> QED BY <1>5, <2>1, <4>1
      <3> QED BY <1>4, <1>9, <3>1, <3>2 DEF PutAt
    <2> QED BY <1>0, <1>9, <2>1 DEF PutAt
  <1>11. Apart(p, i)
    BY <1>1, <1>2, <1>8, <1>10 DEF Apart
  <1>12. ~At(p, "trunc")' /\ ~At(p, "zero")'
    BY <1>8 DEF At
  <1>13. Inode(i)' = mem'[i] /\ Freed(i)' = 0
    <2>1. LockInv
      BY DEF Inv
    <2> QED BY <1>8, <1>11, <1>12, <2>1, OwnInode
  <1>14. \A k \in Ks : Blk(i, k)' = PlaceIn(data', mem'[i], k)
    <2>1. \A k \in Ks : k >= 0
      BY FileKs
    <2> QED BY <1>13, <2>1, Places DEF Blk
  <1>15. /\ Blk(i, kx) = 0 /\ Blk(i, kx)' = b
         /\ \A j \in Inodes, k \in Ks : j # i \/ k # kx => Blk(j, k)' = Blk(j, k)
    <2>1. Blk(i, kx) = 0 /\ Blk(i, kx)' = b /\ \A k \in Ks \ {kx} : Blk(i, k)' = Blk(i, k)
      BY <1>2, <1>9, <1>14 DEF PutAt
    <2>2. ASSUME NEW j \in Inodes \ {i}, NEW k \in Ks PROVE Blk(j, k)' = Blk(j, k)
      BY <1>11, OthersBlocks, FreedIsNat DEF Inv
    <2> QED BY <2>1, <2>2
  <1>16. Types'
    BY <1>0, <1>8, <1>9 DEF Inv, Types, PutAt
  <1>17. BlockInv'
    <2>1. ASSUME NEW j \in Inodes, Blk(j, MAXFILE)' # 0
          PROVE  data'[Blk(j, MAXFILE)'] \in [Words -> 0 .. NBLOCKS]
      <3>1. CASE j = i
        <4>1. Blk(i, MAXFILE)' = mem'[i].addrs[NDIRECT]
          BY <1>5, <1>14 DEF PlaceIn
        <4> QED BY <1>9, <2>1, <3>1, <4>1 DEF PutAt
      <3>2. CASE j # i
        <4>1. Blk(j, MAXFILE)' = Blk(j, MAXFILE)
          BY <1>5, <1>15, <3>2
        <4>2. data[Blk(j, MAXFILE)] \in [Words -> 0 .. NBLOCKS]
          BY <2>1, <4>1 DEF Inv, BlockInv
        <4> QED BY <1>10, <2>1, <3>2, <4>1, <4>2
      <3> QED BY <3>1, <3>2
    <2>2. BlockInv
      BY DEF Inv
    <2> QED BY <1>0, <1>4, <1>8, <1>12, <1>15, <2>1, <2>2, BlockPut
  <1>18. HolesInv(i)' /\ OffInv' /\ Inode(i)'.size = Inode(i).size
    <2>1. Inode(i)'.size = Inode(i).size
      BY <1>2, <1>9, <1>13 DEF PutAt
    <2>2. \A k \in Ks : Blk(i, k) # 0 => Blk(i, k)' # 0
      BY <1>4, <1>15
    <2>3. \A k \in 0 .. MAXFILE - 1 : k \in Ks
      BY FileKs
    <2>4. HolesInv(i)'
      BY <1>2, <1>13, <2>1, <2>2, <2>3 DEF Inv, HolesInv
    <2>5. Inode(i).size \in Nat
      BY InodeIs DEF Inv
    <2>6. Inode(i)'.size >= Inode(i).size
      BY <2>1, <2>5
    <2>7. OffInv'
      BY <1>0, <1>11, <1>16, <2>6, OffStays
    <2> QED BY <2>1, <2>4, <2>7
  <1>19. CallInv(p)'
    <2>1. c.k = 0 /\ 0 <= LastBBLOCK
      <3>1. 1 \in Blocks /\ 0 \in Int
        BY Sizes DEF Blocks
      <3>2. \A x \in 0 .. LastBBLOCK : 0 <= LastBBLOCK
        BY Sizes DEF LastBBLOCK
      <3>3. c.k = 0
        BY <1>0, <1>2 DEF CallInv
      <3> QED BY <3>1, <3>2, <3>3, DivBPB
    <2>2. call'[p].k = 0 /\ call'[p].new = 0 /\ fd'[p] # None
      BY <1>0, <1>2, <1>6, <1>8, <2>1
    <2> QED BY <1>8, <2>1, <2>2 DEF CallInv, At
  <1>20. /\ call'[p].off = c.off /\ call'[p].src = c.src /\ call'[p].logged = logged
         /\ Bn(p)' = Bn(p) /\ Bn(p) \in 0 .. MAXFILE - 1
         /\ \A k \in 0 .. MAXFILE - 1 : /\ BlockAt(mem[i], k) = Blk(i, k)
                                       /\ BlockAt(mem[i], k)' = Blk(i, k)'
         /\ BlockAt(mem[i], Bn(p))' = Blk(i, Bn(p))'
    <2>1. call'[p].off = c.off /\ call'[p].src = c.src /\ call'[p].logged = logged
      BY <1>6, <1>8
    <2>2. Bn(p)' = Bn(p)
      BY <2>1 DEF Bn
    <2>3. Bn(p) \in 0 .. MAXFILE - 1
      BY <1>0, <1>3, BlockOfChunk
    <2>4. \A k \in 0 .. MAXFILE - 1 : /\ BlockAt(mem[i], k) = Blk(i, k)
                                     /\ BlockAt(mem[i], k)' = Blk(i, k)'
      BY <1>2, <1>14, FileKs, Places DEF PlaceIn
    <2>5. BlockAt(mem[i], Bn(p))' = Word(data', mem'[i], Bn(p)) /\ Bn(p) \in Ks /\ Bn(p) # MAXFILE
      BY <2>2, <2>3, FileKs, Places
    <2>6. BlockAt(mem[i], Bn(p))' = PlaceIn(data', mem'[i], Bn(p))
      BY <2>5 DEF PlaceIn
    <2>7. Blk(i, Bn(p))' = PlaceIn(data', mem'[i], Bn(p))
      BY <1>14, <2>2, <2>5
    <2> QED BY <2>1, <2>2, <2>3, <2>4, <2>6, <2>7
  <1>21. WriteInv(p)'
    <2>1. /\ i = file[fd[p]].ip /\ mem[i].type = "file" /\ file[fd[p]].off <= c.off
          /\ c.off + Len(c.src) <= MAXFILE * BSIZE
          /\ \A k \in 0 .. MAXFILE - 1 : k * BSIZE < c.off => BlockAt(mem[i], k) # 0
      BY <1>0, <1>1, <1>2 DEF WriteInv
    <2>2. c.off + Len(c.src) > mem[i].size
      BY <1>0, <1>1, <1>3, MissingGrows
    <2>3. mem'[i].type = "file" /\ c.off + Len(c.src) > mem'[i].size
      BY <1>9, <2>1, <2>2 DEF PutAt
    <2>4. \A k \in Ks : Blk(i, k) # 0 => Blk(i, k)' # 0
      BY <1>4, <1>15
    <2>5. \A k \in 0 .. MAXFILE - 1 : k * BSIZE < c.off => BlockAt(mem[i], k)' # 0
      BY <1>20, <2>1, <2>4, FileKs
    <2>6. i = file'[fd'[p]].ip /\ file'[fd'[p]].off <= c.off
      BY <1>0, <2>1
    <2> QED BY <1>3, <1>8, <1>12, <1>20, <2>1, <2>3, <2>5, <2>6 DEF WriteInv
  <1>22. LogInv(p)'
    <2> DEFINE n == Cardinality(c.logged)
               nn == Cardinality(call'[p].logged)
               fb == ForBlock(p)
               fi == ForIndirect(p)
               fbb == ForBlock(p)'
               fii == ForIndirect(p)'
               ind2 == mem'[i].addrs[NDIRECT]
               L1 == c.logged \cup {DBLOCK(b)}
    <2>1. PICK m \in Nat :
            /\ Ahead(m, Len(c.src), c.off % BSIZE)
            /\ n + 2 * m + fb + fi + 1 <= MAXOPBLOCKS
      BY <1>0, <1>2, <1>3 DEF LogInv
    <2>2. /\ fb = IF Bn(p) < NDIRECT \/ ind # 0 THEN 1 ELSE 2
          /\ fi = IF ind # 0 THEN IF DBLOCK(ind) \in c.logged THEN 0 ELSE 1
                  ELSE IF Bn(p) >= NDIRECT THEN 1 ELSE 2
      BY <1>0, <1>1, <1>3, <1>5 DEF ForBlock, ForIndirect
    <2>3. /\ fbb = IF Blk(i, Bn(p))' = 0 THEN 2
                   ELSE IF DBLOCK(Blk(i, Bn(p))') \in call'[p].logged THEN 0 ELSE 1
          /\ fii = IF ind2 # 0 THEN IF DBLOCK(ind2) \in call'[p].logged THEN 0 ELSE 1 ELSE 2
      <3>1. Indirect(mem[i])' = ind2
        BY Places
      <3>2. BlockAt(mem[Ip(p)], Bn(p))' = Blk(i, Bn(p))' /\ Indirect(mem[Ip(p)])' = ind2
        BY <1>8, <1>20, <3>1
      <3> QED BY <1>12, <3>2 DEF ForBlock, ForIndirect, Missing
    <2>4. /\ n \in Nat /\ Cardinality(L1) \in Nat /\ Cardinality(L1) <= n + 1
          /\ L1 \in SUBSET LogBlocks
          /\ \A x : /\ Cardinality(L1 \cup {x}) \in Nat
                    /\ Cardinality(L1 \cup {x}) <= Cardinality(L1) + 1
      <3>1. c.logged \in SUBSET LogBlocks
        BY <1>2 DEF CallRecords
      <3>2. /\ n \in Nat /\ Cardinality(L1) \in Nat
            /\ Cardinality(L1) = IF DBLOCK(b) \in c.logged THEN n ELSE n + 1
        BY <3>1, LogGrows
      <3>3. L1 \in SUBSET LogBlocks
        BY <1>4, <3>1 DEF LogBlocks
      <3> HIDE DEF L1, n
      <3>4. \A x : /\ Cardinality(L1 \cup {x}) \in Nat /\ Cardinality(L1) \in Nat
                   /\ Cardinality(L1 \cup {x}) =
                          IF x \in L1 THEN Cardinality(L1) ELSE Cardinality(L1) + 1
        BY <3>3, LogGrows
      <3> QED BY <3>2, <3>3, <3>4
    <2>5. nn + fbb + fii <= n + fb + fi /\ nn \in Nat /\ fbb \in 0 .. 2 /\ fii \in 0 .. 2
          /\ fb \in 0 .. 2 /\ fi \in 0 .. 2
      <3>1. b # 0 /\ DBLOCK(b) \in L1 /\ (DBLOCK(ind) \in c.logged => DBLOCK(ind) \in L1)
        BY <1>4
      <3>2. Bn(p) \in Nat
        BY <1>20
      <3>3. Blk(i, kx)' = b
        BY <1>15
      <3>4. Bn(p) \in Ks /\ Bn(p) # MAXFILE /\ Blk(i, Bn(p)) = 0
        <4>1. Missing(p) <=> BlockAt(mem[i], Bn(p)) = 0
          BY <1>1 DEF Missing
        <4> QED BY <1>3, <1>20, <4>1, FileKs
      <3>5. CASE /\ kx = Bn(p) /\ ind2 = ind /\ Bn(p) < NDIRECT
                 /\ call'[p].logged = L1
        <4>1. Blk(i, Bn(p))' = b
          BY <1>20, <3>3, <3>5
        <4>2. fb = 1 /\ fbb = 0 /\ nn = Cardinality(L1)
          BY <2>2, <2>3, <3>1, <3>5, <4>1
        <4>3. fii <= fi /\ fi \in 0 .. 2 /\ fii \in 0 .. 2
          <5>1. ~ (Bn(p) >= NDIRECT)
            BY <3>2, <3>5, Sizes
          <5> QED BY <2>2, <2>3, <3>1, <3>5, <5>1
        <4> HIDE DEF nn, n, fb, fbb, fi, fii
        <4> QED BY <2>4, <4>2, <4>3
      <3>6. CASE /\ kx = Bn(p) /\ ind2 = ind /\ ind # 0 /\ ~ (Bn(p) < NDIRECT)
                 /\ call'[p].logged = L1 \cup {DBLOCK(ind)}
        <4>1. Blk(i, Bn(p))' = b
          BY <1>20, <3>3, <3>6
        <4>2. fb = 1 /\ fbb = 0 /\ fii = 0 /\ nn = Cardinality(L1 \cup {DBLOCK(ind)})
          BY <2>2, <2>3, <3>1, <3>6, <4>1
        <4>3. fi = IF DBLOCK(ind) \in c.logged THEN 0 ELSE 1
          BY <2>2, <3>6
        <4>4. Cardinality(L1 \cup {DBLOCK(ind)}) \in Nat
              /\ Cardinality(L1 \cup {DBLOCK(ind)}) <= Cardinality(L1) + fi
          <5>1. CASE DBLOCK(ind) \in c.logged
            <6>1. L1 \cup {DBLOCK(ind)} = L1
              BY <3>1, <5>1
            <6>2. fi = 0
              BY <4>3, <5>1
            <6>3. Cardinality(L1) \in Nat
              BY <2>4
            <6>4. Cardinality(L1 \cup {DBLOCK(ind)}) = Cardinality(L1)
              BY <6>1, Zenon
            <6> HIDE DEF L1, fi
            <6> QED BY <6>2, <6>3, <6>4
          <5>2. CASE DBLOCK(ind) \notin c.logged
            <6>1. Cardinality(L1 \cup {DBLOCK(ind)}) \in Nat
                  /\ Cardinality(L1 \cup {DBLOCK(ind)}) <= Cardinality(L1) + 1
              BY <2>4
            <6> HIDE DEF L1, fi
            <6> QED BY <2>4, <4>3, <5>2, <6>1
          <5> QED BY <5>1, <5>2
        <4> HIDE DEF nn, n, fb, fbb, fi, fii, L1
        <4> QED BY <2>4, <4>2, <4>3, <4>4
      <3>7. CASE /\ kx = MAXFILE /\ ind = 0 /\ ind2 = b /\ ~ (Bn(p) < NDIRECT)
                 /\ call'[p].logged = L1
        <4>1. Blk(i, Bn(p))' = 0
          <5>1. \A k \in Ks : k # kx => Blk(i, k)' = Blk(i, k)
            BY <1>15
          <5>2. Bn(p)' = Bn(p)
            BY <1>20
          <5> QED BY <3>4, <3>7, <5>1, <5>2
        <4>2. fb = 2 /\ fbb = 2 /\ fii = 0 /\ nn = Cardinality(L1)
          BY <2>2, <2>3, <3>1, <3>7, <4>1
        <4>3. fi = 1
          <5>1. Bn(p) >= NDIRECT
            BY <3>2, <3>7, Sizes
          <5> QED BY <2>2, <3>7, <5>1
        <4> HIDE DEF nn, n, fb, fbb, fi, fii
        <4> QED BY <2>4, <4>2, <4>3
      <3> QED BY <1>9, <3>5, <3>6, <3>7 DEF PutAt
    <2> HIDE DEF n, nn, fb, fi, fbb, fii
    <2>6. nn + 2 * m + fbb + fii + 1 <= MAXOPBLOCKS
      <3>1. n + 2 * m + fb + fi + 1 <= MAXOPBLOCKS /\ MAXOPBLOCKS \in Nat /\ n \in Nat
        BY <2>1, <2>4, Sizes
      <3> QED BY <2>5, <3>1
    <2>7. /\ Ahead(m, Len(call'[p].src), call'[p].off % BSIZE)
          /\ Cardinality(call'[p].logged) + 2 * m + ForBlock(p)' + ForIndirect(p)' + 1
               <= MAXOPBLOCKS
      BY <1>20, <2>1, <2>6 DEF nn, fbb, fii
    <2> QED BY <1>3, <1>8, <1>20, <2>7 DEF LogInv, At, Ahead
  <1>23. /\ UNCHANGED <<ref, fd, file>> /\ disk'[i].type = "file"
         /\ panicked' # "freeing free block"
         /\ \A j \in Inodes \ {i} :
              /\ mem'[j] = mem[j] /\ disk'[j] = disk[j]
              /\ Blk(j, MAXFILE) # 0 => data'[Blk(j, MAXFILE)] = data[Blk(j, MAXFILE)]
    <2>1. panicked' # "freeing free block"
      BY DEF Inv
    <2> QED BY <1>0, <1>2, <1>10, <2>1
  <1> QED BY <1>0, <1>1, <1>8, <1>16, <1>17, <1>18, <1>19, <1>21, <1>22, <1>23, WriterStep

-----------------------------------------------------------------------------
(* writei() fills a block *)

LEMMA AheadNext ==
  ASSUME NEW r \in Nat, NEW len \in Nat, NEW m \in Nat, NEW o \in 0 .. BSIZE - 1,
         Ahead(r, len, o), m < len, m = BSIZE - o
  PROVE  r - 1 \in Nat /\ Ahead(r - 1, len - m, 0)
  <1> DEFINE x == r * BSIZE
  <1>1. (r + 1) * BSIZE = x + BSIZE /\ x \in Int /\ BSIZE \in Nat
    BY TimesNext, Sizes
  <1> HIDE DEF x
  <1>2. len <= x + BSIZE - o
    BY <1>1 DEF Ahead
  <1>3. len - m <= x /\ x > 0
    BY <1>1, <1>2
  <1>4. r > 0
    <2>1. CASE r = 0
      <3>1. x = 0
        BY <2>1, Sizes DEF x
      <3> QED BY <1>3, <3>1
    <2> QED BY <2>1
  <1>5. r - 1 \in Nat /\ (r - 1) + 1 = r
    BY <1>4
  <1>6. ((r - 1) + 1) * BSIZE - 0 = x
    BY <1>1, <1>5 DEF x
  <1> QED BY <1>3, <1>5, <1>6 DEF Ahead

\* Words of a block that bytes of s go into.
LEMMA Filled ==
  ASSUME NEW z \in [Words -> WordVals], NEW s \in Seq(Vals), NEW o \in 0 .. BSIZE - 1,
         NEW m \in Nat, m <= Len(s)
  PROVE  [w \in Words |-> IF w \in o .. o + m - 1 THEN s[w - o + 1] ELSE z[w]]
           \in [Words -> WordVals]
  <1>1. ASSUME NEW w \in Words, w \in o .. o + m - 1 PROVE s[w - o + 1] \in WordVals
    <2>1. w - o + 1 \in 1 .. Len(s)
      <3>1. Len(s) \in Nat
        OBVIOUS
      <3> QED BY <1>1, <3>1, Sizes DEF Words
    <2> QED BY <2>1 DEF WordVals
  <1> QED BY <1>1

LEMMA WriteBlockStep ==
  ASSUME Inv, NEW p \in Procs, WriteBlock(p), panicked' = panicked
  PROVE  Inv'
  <1>0. /\ At(p, "write") /\ Writing(p) /\ Ip(p) \in Inodes /\ UNCHANGED <<used, ref, fd, file>>
        /\ call[p].src # <<>> /\ ~Lacks(p)
    BY DEF WriteBlock, At, Inv, ProcInv, CallInv, Writing
  <1>1. PICK i \in Inodes : i = Ip(p)
    BY <1>0
  <1> DEFINE c == call[p]
             o == c.off % BSIZE
             len == Len(c.src)
             m == Min2(len, BSIZE - o)
             bn == Bn(p)
             grew == m = len /\ c.off + m > mem[i].size
             b == BlockAt(mem[i], bn)
             logged == c.logged \cup {DBLOCK(b)} \cup (IF grew THEN {IBLOCK(i)} ELSE {})
             r == [call[p] EXCEPT !.src = Rest(c.src, m), !.off = c.off + m, !.logged = logged]
             ind == mem[i].addrs[NDIRECT]
  <1>2. /\ Holds(p) /\ Out(p) = None /\ ~Refers(p) /\ Inode(i) = mem[i] /\ Freed(i) = 0
        /\ \A q \in Procs \ {p} : Holds(q) => Ip(q) # i
        /\ \A k \in Ks : Blk(i, k) = PlaceIn(data, mem[i], k)
        /\ mem[i] \in InodeRecords /\ fd[p] # None /\ disk[i].type = "file"
        /\ disk[i] \in InodeRecords
        /\ c \in CallRecords /\ CallInv(p) /\ WriteInv(p) /\ LogInv(p)
    BY <1>0, <1>1, Writer
  <1>3. /\ i = file[fd[p]].ip /\ mem[i].type = "file" /\ file[fd[p]].off <= c.off
        /\ c.off + len <= MAXFILE * BSIZE
        /\ \A k \in 0 .. MAXFILE - 1 : k * BSIZE < c.off => BlockAt(mem[i], k) # 0
        /\ mem[i] # disk[i] => c.off + len > mem[i].size
    BY <1>0, <1>1, <1>2 DEF WriteInv
  <1>4. c.off \in Nat /\ c.src \in Seq(Vals) /\ len \in Nat \ {0}
    <2>1. c.off \in Nat /\ c.src \in Seq(Vals)
      BY <1>2 DEF CallRecords
    <2> QED BY <1>0, <2>1
  <1>5. /\ m \in 1 .. len /\ o \in 0 .. BSIZE - 1 /\ m <= BSIZE - o
        /\ bn \in 0 .. MAXFILE - 1
        /\ \A k \in Nat : k * BSIZE < c.off + m => k * BSIZE < c.off \/ k = bn
        /\ m < len => m = BSIZE - o /\ (c.off + m) % BSIZE = 0
    BY <1>3, <1>4, Turn DEF Bn
  <1>6. /\ b # 0 /\ bn \in Ks /\ bn # MAXFILE /\ MAXFILE \in Ks /\ b = Blk(i, bn)
        /\ Blk(i, MAXFILE) = ind
    <2>1. b # 0
      BY <1>0, <1>1 DEF Lacks, Bn
    <2>2. bn \in Ks /\ bn # MAXFILE /\ MAXFILE \in Ks
      BY <1>5, FileKs
    <2>3. b = Blk(i, bn)
      BY <1>2, <2>2, Places DEF PlaceIn
    <2> QED BY <1>2, <2>1, <2>2, <2>3 DEF PlaceIn
  <1>7. b \in Blocks /\ \A j \in Inodes : Blk(j, MAXFILE) # b
    <2>1. /\ \A l, n \in Inodes, k, h \in Ks :
                Blk(l, k) # 0 /\ Blk(l, k) = Blk(n, h) => l = n /\ k = h
          /\ \A l \in Inodes, k \in Ks : Blk(l, k) \in 0 .. NBLOCKS
      BY DEF Inv, BlockInv
    <2>2. \A x \in 0 .. NBLOCKS : x # 0 => x \in Blocks
      BY Sizes DEF Blocks
    <2> QED BY <1>6, <2>1, <2>2
  <1>8. /\ data' = [data EXCEPT ![b] =
              [w \in Words |-> IF w \in o .. o + m - 1 THEN c.src[w - o + 1] ELSE data[b][w]]]
        /\ mem' = IF grew THEN [mem EXCEPT ![i] = [mem[i] EXCEPT !.size = c.off + m]] ELSE mem
        /\ disk' = IF grew THEN [disk EXCEPT ![i] = mem'[i]] ELSE disk
        /\ call' = [call EXCEPT ![p] = r]
    BY <1>1 DEF WriteBlock, Bn
  <1>9. data' \in [Blocks -> [Words -> WordVals]] /\ \A x \in Blocks : x # b => data'[x] = data[x]
    <2> DEFINE z == [w \in Words |-> IF w \in o .. o + m - 1 THEN c.src[w - o + 1] ELSE data[b][w]]
    <2>1. data \in [Blocks -> [Words -> WordVals]]
      BY DEF Inv, Types
    <2>2. data[b] \in [Words -> WordVals] /\ m \in Nat /\ m <= Len(c.src)
      BY <1>4, <1>5, <1>7, <2>1
    <2>3. z \in [Words -> WordVals]
      <3>1. c.src \in Seq(Vals) /\ o \in 0 .. BSIZE - 1
        BY <1>4, <1>5
      <3> HIDE DEF m, o
      <3> QED BY <2>2, <3>1, Filled
    <2>4. data' = [data EXCEPT ![b] = z]
      BY <1>8
    <2> HIDE DEF z
    <2> QED BY <2>1, <2>3, <2>4
  <1>10. c.off + m \in 0 .. MAXFILE * BSIZE /\ c.off + m \in Nat /\ mem[i].size \in Nat
    <2>1. MAXFILE * BSIZE \in Int
      BY TimesNext, Sizes
    <2>2. mem[i].size \in 0 .. MAXFILE * BSIZE
      BY <1>2 DEF InodeRecords
    <2> HIDE DEF m, len
    <2> QED BY <1>3, <1>4, <1>5, <2>1, <2>2
  <1>11. /\ mem'[i] \in InodeRecords /\ disk'[i] \in InodeRecords
         /\ mem'[i].size = IF grew THEN c.off + m ELSE mem[i].size
         /\ mem'[i].addrs = mem[i].addrs /\ mem'[i].type = "file" /\ disk'[i].type = "file"
         /\ disk'[i] = IF grew THEN mem'[i] ELSE disk[i]
         /\ ~grew => mem'[i] = mem[i]
         /\ \A j \in Inodes \ {i} : mem'[j] = mem[j] /\ disk'[j] = disk[j]
         /\ mem' \in [Inodes -> InodeRecords] /\ disk' \in [Inodes -> InodeRecords]
    <2> HIDE DEF m
    <2>1. mem \in [Inodes -> InodeRecords] /\ disk \in [Inodes -> InodeRecords]
      BY DEF Inv, Types
    <2>2. CASE grew
      <3> DEFINE ip == [mem[i] EXCEPT !.size = c.off + m]
      <3>1. ip \in InodeRecords /\ ip.size = c.off + m /\ ip.addrs = mem[i].addrs /\ ip.type = "file"
        BY <1>2, <1>3, <1>10 DEF InodeRecords
      <3>2. mem' = [mem EXCEPT ![i] = ip] /\ disk' = [disk EXCEPT ![i] = mem'[i]]
        BY <1>8, <2>2
      <3> HIDE DEF ip
      <3>3. mem'[i] = ip /\ disk'[i] = ip
        BY <2>1, <3>2
      <3>4. /\ \A j \in Inodes \ {i} : mem'[j] = mem[j] /\ disk'[j] = disk[j]
            /\ mem' \in [Inodes -> InodeRecords] /\ disk' \in [Inodes -> InodeRecords]
        BY <2>1, <3>1, <3>2, <3>3
      <3> QED BY <2>2, <3>1, <3>3, <3>4
    <2>3. CASE ~grew
      BY <1>2, <1>3, <1>8, <2>1, <2>3
    <2> QED BY <2>2, <2>3
  <1>12. /\ r \in CallRecords /\ r.pc = "write" /\ r.ip = i /\ r.off = c.off + m
         /\ r.src = Rest(c.src, m) /\ r.logged = logged /\ r.k = c.k /\ r.new = c.new
         /\ Len(r.src) = len - m
    <2>1. Rest(c.src, m) \in Seq(Vals) /\ Len(Rest(c.src, m)) = len - m
      <3>1. m \in Nat /\ m <= Len(c.src)
        BY <1>4, <1>5
      <3> HIDE DEF m
      <3> QED BY <1>4, <3>1, FirstRest
    <2>2. logged \in SUBSET LogBlocks
      <3>1. c.logged \in SUBSET LogBlocks
        BY <1>2 DEF CallRecords
      <3>2. DBLOCK(b) \in LogBlocks /\ IBLOCK(i) \in LogBlocks
        BY <1>7 DEF LogBlocks
      <3> QED BY <3>1, <3>2
    <2>3. c.pc = "write"
      BY <1>0 DEF At
    <2> HIDE DEF logged, m
    <2> QED BY <1>1, <1>2, <1>10, <2>1, <2>2, <2>3 DEF CallRecords, Ip
  <1> HIDE DEF r
  <1>13. /\ CallType' /\ call'[p] = r /\ \A q \in Procs \ {p} : call'[q] = call[q]
         /\ Ip(p)' = i /\ call'[p].pc = "write"
         /\ Holds(p)' /\ Writing(p)' /\ ~Refers(p)'
    BY <1>8, <1>12, Becomes DEF Inv, Types
  <1>14. Apart(p, i) /\ \A j \in Inodes : Blk(j, MAXFILE) # 0 =>
                                            data'[Blk(j, MAXFILE)] = data[Blk(j, MAXFILE)]
    <2>1. \A j \in Inodes : Blk(j, MAXFILE) # 0 => Blk(j, MAXFILE) \in Blocks
      <3>1. \A j \in Inodes : Blk(j, MAXFILE) \in 0 .. NBLOCKS
        BY <1>6 DEF Inv, BlockInv
      <3>2. \A x \in 0 .. NBLOCKS : x # 0 => x \in Blocks
        BY Sizes DEF Blocks
      <3> QED BY <3>1, <3>2
    <2>2. \A j \in Inodes : Blk(j, MAXFILE) # 0 => data'[Blk(j, MAXFILE)] = data[Blk(j, MAXFILE)]
      BY <1>7, <1>9, <2>1
    <2> QED BY <1>1, <1>2, <1>11, <1>13, <2>2 DEF Apart
  <1>15. ~At(p, "trunc")' /\ ~At(p, "zero")' /\ ~At(p, "zero")
    BY <1>0, <1>13 DEF At
  <1>16. Inode(i)' = mem'[i] /\ Freed(i)' = 0
    <2>1. LockInv
      BY DEF Inv
    <2> QED BY <1>13, <1>14, <1>15, <2>1, OwnInode
  <1>17. \A k : PlaceIn(data', mem'[i], k) = PlaceIn(data, mem[i], k)
    <2>1. mem'[i].addrs = mem[i].addrs
      BY <1>11
    <2>2. mem[i].addrs[NDIRECT] # 0 => data'[mem[i].addrs[NDIRECT]] = data[mem[i].addrs[NDIRECT]]
      BY <1>6, <1>14
    <2> QED BY <2>1, <2>2 DEF PlaceIn, Word
  <1>18. \A j \in Inodes, k \in Ks : Blk(j, k)' = Blk(j, k)
    <2>1. ASSUME NEW j \in Inodes \ {i}, NEW k \in Ks PROVE Blk(j, k)' = Blk(j, k)
      BY <1>14, OthersBlocks, FreedIsNat DEF Inv
    <2>2. ASSUME NEW k \in Ks PROVE Blk(i, k)' = Blk(i, k)
      <3>1. PlaceIn(data', mem'[i], k) = PlaceIn(data, mem[i], k)
        BY <1>17
      <3>2. Blk(i, k)' = PlaceIn(data', mem'[i], k)
        <4>1. k >= 0
          BY FileKs
        <4> QED BY <1>16, <4>1, Places DEF Blk
      <3> QED BY <1>2, <3>1, <3>2
    <2> QED BY <2>1, <2>2
  <1>19. Types'
    BY <1>0, <1>9, <1>11, <1>13 DEF Inv, Types
  <1>20. BlockInv'
    BY <1>0, <1>13, <1>14, <1>15, <1>18, BlocksStay DEF Inv
  <1>21. \A k \in 0 .. MAXFILE - 1 : /\ BlockAt(mem[i], k) = Blk(i, k)
                                     /\ BlockAt(mem[i], k)' = Blk(i, k)
    <2>1. ASSUME NEW k \in 0 .. MAXFILE - 1
          PROVE  BlockAt(mem[i], k) = Blk(i, k) /\ BlockAt(mem[i], k)' = Blk(i, k)
      <3>1. k \in Ks /\ k # MAXFILE
        BY FileKs
      <3>2. BlockAt(mem[i], k) = PlaceIn(data, mem[i], k)
        BY <3>1, Places DEF PlaceIn
      <3>3. BlockAt(mem[i], k)' = PlaceIn(data', mem'[i], k)
        BY <3>1, Places DEF PlaceIn
      <3>4. PlaceIn(data', mem'[i], k) = PlaceIn(data, mem[i], k)
        BY <1>17
      <3> QED BY <1>2, <3>1, <3>2, <3>3, <3>4
    <2> QED BY <2>1
  <1>22. \A k \in 0 .. MAXFILE - 1 : k * BSIZE < c.off + m => Blk(i, k) # 0
    <2>1. \A k \in 0 .. MAXFILE - 1 : k \in Nat
      OBVIOUS
    <2> HIDE DEF m, bn
    <2>2. ASSUME NEW k \in 0 .. MAXFILE - 1, k * BSIZE < c.off + m PROVE Blk(i, k) # 0
      <3>1. k * BSIZE < c.off \/ k = bn
        BY <1>5, <2>1, <2>2
      <3>2. CASE k = bn
        BY <1>6, <3>2
      <3>3. CASE k * BSIZE < c.off
        BY <1>3, <1>21, <3>3
      <3> QED BY <3>1, <3>2, <3>3
    <2> QED BY <2>2
  <1>23. HolesInv(i)' /\ OffInv'
    <2>1. HolesInv(i)'
      <3>1. \A k \in 0 .. MAXFILE - 1 : k \in Ks
        BY FileKs
      <3>2. CASE grew
        <4>1. Inode(i)'.size = c.off + m
          BY <1>11, <1>16, <3>2
        <4> HIDE DEF m, grew
        <4> QED BY <1>18, <1>22, <3>1, <4>1 DEF HolesInv
      <3>3. CASE ~grew
        <4>1. Inode(i)'.size = Inode(i).size
          BY <1>2, <1>11, <1>16, <3>3
        <4> HIDE DEF m, grew
        <4> QED BY <1>2, <1>18, <3>1, <4>1 DEF Inv, HolesInv
      <3> QED BY <3>2, <3>3
    <2>2. Inode(i)'.size >= Inode(i).size
      <3>1. Inode(i)'.size = IF grew THEN c.off + m ELSE mem[i].size
        BY <1>11, <1>16
      <3>2. Inode(i).size = mem[i].size
        BY <1>2
      <3>3. grew => c.off + m > mem[i].size
        OBVIOUS
      <3> HIDE DEF grew, m
      <3> QED BY <1>10, <3>1, <3>2, <3>3
    <2> QED BY <1>0, <1>14, <1>19, <2>1, <2>2, OffStays
  <1>24. CallInv(p)'
    <2>1. c.new = 0 /\ c.k <= LastBBLOCK
      BY <1>0, <1>2, <1>15 DEF CallInv
    <2>2. call'[p].k = c.k /\ call'[p].new = 0 /\ fd'[p] # None
      BY <1>0, <1>2, <1>12, <1>13, <2>1
    <2> QED BY <1>13, <2>1, <2>2 DEF CallInv, At
  <1>25. /\ call'[p].off = c.off + m /\ call'[p].src = Rest(c.src, m) /\ call'[p].logged = logged
         /\ Len(call'[p].src) = len - m /\ call'[p].src \in Seq(Vals)
         /\ (call'[p].src = <<>> <=> m = len)
    <2>1. /\ call'[p].off = c.off + m /\ call'[p].src = Rest(c.src, m) /\ call'[p].logged = logged
          /\ Len(call'[p].src) = len - m /\ call'[p].src \in Seq(Vals)
      BY <1>12, <1>13 DEF CallRecords
    <2>2. call'[p].src = <<>> <=> Len(call'[p].src) = 0
      BY <2>1
    <2>3. len - m = 0 <=> m = len
      <3> HIDE DEF m, len
      <3> QED BY <1>4, <1>5
    <2> QED BY <2>1, <2>2, <2>3
  <1>26. WriteInv(p)'
    <2> DEFINE s == call'[p].src
               e == call'[p].off + Len(s)
    <2>1. e = c.off + len /\ e <= MAXFILE * BSIZE /\ file[fd[p]].off <= c.off + m
      <3>1. file[fd[p]].off \in Nat
        <4>1. file[fd[p]] \in FileRecords
          BY <1>0, Writer
        <4>2. \A x \in 0 .. MAXFILE * BSIZE : x \in Nat
          OBVIOUS
        <4> QED BY <4>1, <4>2 DEF FileRecords
      <3>2. e = (c.off + m) + (len - m)
        BY <1>25
      <3> HIDE DEF m, len, e
      <3>3. e = c.off + len /\ file[fd[p]].off <= c.off + m
        BY <1>3, <1>4, <1>5, <3>1, <3>2
      <3> QED BY <1>3, <3>3
    <2>2. mem'[i] # disk'[i] => e > mem'[i].size /\ s # <<>>
      <3>1. SUFFICES ASSUME mem'[i] # disk'[i] PROVE e > mem'[i].size /\ s # <<>>
        OBVIOUS
      <3>2. ~grew /\ mem'[i] = mem[i] /\ disk'[i] = disk[i]
        BY <1>11, <3>1
      <3>3. c.off + len > mem[i].size
        BY <1>3, <3>1, <3>2
      <3>4. m # len
        BY <3>2, <3>3
      <3> QED BY <1>25, <2>1, <3>2, <3>3, <3>4
    <2>3. s = <<>> => c.off + m <= mem'[i].size
      <3>1. SUFFICES ASSUME m = len PROVE c.off + m <= mem'[i].size
        BY <1>25
      <3>2. CASE grew
        <4>1. mem'[i].size = c.off + m
          BY <1>11, <3>2
        <4> HIDE DEF m
        <4> QED BY <1>10, <4>1
      <3>3. CASE ~grew
        <4>1. mem'[i].size = mem[i].size /\ ~ (c.off + m > mem[i].size)
          BY <1>11, <3>1, <3>3
        <4> HIDE DEF m
        <4> QED BY <1>10, <4>1
      <3> QED BY <3>2, <3>3
    <2>4. \A k \in 0 .. MAXFILE - 1 : k * BSIZE < c.off + m => BlockAt(mem[i], k)' # 0
      BY <1>21, <1>22
    <2>5. /\ i = file'[fd'[p]].ip /\ file'[fd'[p]].off <= call'[p].off
          /\ \A k \in 0 .. MAXFILE - 1 : k * BSIZE < call'[p].off => BlockAt(mem[i], k)' # 0
          /\ s = <<>> => call'[p].off <= mem'[i].size
          /\ e <= MAXFILE * BSIZE /\ mem'[i].type = "file"
      BY <1>0, <1>3, <1>11, <1>25, <2>1, <2>3, <2>4
    <2> QED BY <1>13, <1>15, <2>2, <2>5 DEF WriteInv
  <1>27. LogInv(p)'
    <2> DEFINE n == Cardinality(c.logged)
               nn == Cardinality(call'[p].logged)
               fb == ForBlock(p)
               fi == ForIndirect(p)
               fbb == ForBlock(p)'
               fii == ForIndirect(p)'
               L1 == c.logged \cup {DBLOCK(b)}
    <2>1. PICK x \in Nat : Ahead(x, len, o) /\ n + 2 * x + fb + fi + 1 <= MAXOPBLOCKS
      BY <1>0, <1>2 DEF LogInv
    <2>2. /\ fb = IF DBLOCK(b) \in c.logged THEN 0 ELSE 1
          /\ fi = IF ind # 0 THEN IF DBLOCK(ind) \in c.logged THEN 0 ELSE 1 ELSE 2
      BY <1>1, <1>6, <1>15, Places DEF ForBlock, ForIndirect, Missing
    <2>3. fbb \in 0 .. 2
      BY <1>15 DEF ForBlock
    <2>4. fii = IF ind # 0 THEN IF DBLOCK(ind) \in call'[p].logged THEN 0 ELSE 1 ELSE 2
      <3>1. Indirect(mem[i])' = ind
        BY <1>11, Places
      <3> QED BY <1>13, <1>15, <3>1 DEF ForIndirect
    <2>5. fii <= fi /\ fii \in 0 .. 2 /\ fi \in 0 .. 2 /\ fb \in 0 .. 1
      <3>1. DBLOCK(ind) \in c.logged => DBLOCK(ind) \in call'[p].logged
        BY <1>25
      <3> HIDE DEF ind, fi, fii, fb
      <3> QED BY <2>2, <2>4, <3>1
    <2>6. /\ n \in Nat /\ Cardinality(L1) \in Nat /\ Cardinality(L1) = n + fb
          /\ L1 \in SUBSET LogBlocks
      <3>1. c.logged \in SUBSET LogBlocks
        BY <1>2 DEF CallRecords
      <3>2. /\ n \in Nat /\ Cardinality(L1) \in Nat
            /\ Cardinality(L1) = IF DBLOCK(b) \in c.logged THEN n ELSE n + 1
        BY <3>1, LogGrows
      <3>3. L1 \in SUBSET LogBlocks
        BY <1>7, <3>1 DEF LogBlocks
      <3> HIDE DEF L1, n, fb
      <3> QED BY <2>2, <3>2, <3>3
    <2>7. CASE m = len
      <3>1. nn <= Cardinality(L1) + 1 /\ nn \in Nat
        <4>1. call'[p].logged = L1 \/ call'[p].logged = L1 \cup {IBLOCK(i)}
          BY <1>25
        <4>2. /\ Cardinality(L1 \cup {IBLOCK(i)}) \in Nat
              /\ Cardinality(L1 \cup {IBLOCK(i)}) = IF IBLOCK(i) \in L1 THEN Cardinality(L1)
                                                    ELSE Cardinality(L1) + 1
          BY <2>6, LogGrows
        <4>3. Cardinality(L1) \in Nat
          BY <2>6
        <4>4. nn = Cardinality(L1) \/ nn = Cardinality(L1 \cup {IBLOCK(i)})
          BY <4>1
        <4> HIDE DEF L1, nn
        <4> QED BY <4>2, <4>3, <4>4
      <3> HIDE DEF n, nn, fb, fi, L1
      <3>2. nn <= MAXOPBLOCKS
        <4>1. n + 2 * x + fb + fi + 1 <= MAXOPBLOCKS /\ MAXOPBLOCKS \in Nat
          BY <2>1, Sizes
        <4> QED BY <2>5, <2>6, <3>1, <4>1
      <3>3. call'[p].src = <<>>
        BY <1>25, <2>7
      <3> QED BY <1>13, <3>2, <3>3 DEF LogInv, At, nn
    <2>8. CASE m # len
      <3>1. m < len /\ m \in Nat /\ len \in Nat
        <4> HIDE DEF m, len
        <4> QED BY <1>4, <1>5, <2>8
      <3>2. m = BSIZE - o /\ (c.off + m) % BSIZE = 0 /\ o \in 0 .. BSIZE - 1
        BY <1>5, <3>1
      <3>3. x - 1 \in Nat /\ Ahead(x - 1, len - m, 0)
        <4> HIDE DEF m, len, o
        <4> QED BY <2>1, <3>1, <3>2, AheadNext
      <3>4. call'[p].logged = L1
        BY <1>25, <2>8
      <3> HIDE DEF n, fb, fi, fbb, fii, L1
      <3>5. nn = n + fb
        BY <2>6, <3>4
      <3> HIDE DEF nn
      <3>6. nn + 2 * (x - 1) + fbb + fii + 1 <= MAXOPBLOCKS
        <4>1. n + 2 * x + fb + fi + 1 <= MAXOPBLOCKS /\ MAXOPBLOCKS \in Nat /\ x \in Nat
          BY <2>1, Sizes
        <4> QED BY <2>3, <2>5, <2>6, <3>5, <4>1
      <3>7. /\ Ahead(x - 1, Len(call'[p].src), call'[p].off % BSIZE)
            /\ Cardinality(call'[p].logged) + 2 * (x - 1) + ForBlock(p)' + ForIndirect(p)' + 1
                 <= MAXOPBLOCKS
        BY <1>25, <3>2, <3>3, <3>6 DEF nn, fbb, fii
      <3>8. call'[p].src # <<>>
        BY <1>25, <2>8
      <3> QED BY <1>13, <3>3, <3>7, <3>8 DEF LogInv, At, Ahead
    <2> QED BY <2>7, <2>8
  <1>28. /\ UNCHANGED <<ref, fd, file>> /\ panicked' # "freeing free block"
         /\ \A j \in Inodes \ {i} :
              /\ mem'[j] = mem[j] /\ disk'[j] = disk[j]
              /\ Blk(j, MAXFILE) # 0 => data'[Blk(j, MAXFILE)] = data[Blk(j, MAXFILE)]
    <2>1. panicked' # "freeing free block"
      BY DEF Inv
    <2> QED BY <1>0, <1>11, <1>14, <2>1
  <1> QED BY <1>0, <1>1, <1>11, <1>13, <1>19, <1>20, <1>23, <1>24, <1>26, <1>27, <1>28, WriterStep

-----------------------------------------------------------------------------
(* itrunc() frees the blocks of a file, iput() the inode *)

\* The block in place kx of inode i is free again.
LEMMA BlockFreed ==
  ASSUME BlockInv, NEW i \in Inodes, NEW kx \in Ks, NEW b, b # 0, Blk(i, kx) = b,
         used \subseteq Blocks, used' = used \ {b},
         \A q \in Procs : (At(q, "zero")' <=> At(q, "zero")) /\ call'[q].new = call[q].new,
         Blk(i, kx)' = 0,
         \A j \in Inodes, k \in Ks : j # i \/ k # kx => Blk(j, k)' = Blk(j, k),
         \A j \in Inodes : Blk(j, MAXFILE)' # 0 =>
                             data'[Blk(j, MAXFILE)] = data[Blk(j, MAXFILE)]
  PROVE  BlockInv'
  <1>1. MAXFILE \in Ks /\ 0 \in 0 .. NBLOCKS
    BY Sizes, FileKs
  <1>2. \A j \in Inodes, k \in Ks : Blk(j, k)' = IF j = i /\ k = kx THEN 0 ELSE Blk(j, k)
    OBVIOUS
  <1>3. \A j, l \in Inodes, k, m \in Ks :
           Blk(j, k) # 0 /\ Blk(j, k) = Blk(l, m) => j = l /\ k = m
    BY DEF BlockInv
  <1>4. /\ \A j \in Inodes, k \in Ks : Blk(j, k)' \in 0 .. NBLOCKS
        /\ \A j \in Inodes, k \in Ks : Blk(j, k)' # 0 => Blk(j, k)' \in used'
    <2>1. \A j \in Inodes, k \in Ks : Blk(j, k) \in 0 .. NBLOCKS /\ (Blk(j, k) # 0 => Blk(j, k) \in used)
      BY DEF BlockInv
    <2>2. \A j \in Inodes, k \in Ks : j # i \/ k # kx => Blk(j, k) # b
      BY <1>3
    <2> QED BY <1>1, <1>2, <2>1, <2>2
  <1>5. \A j, l \in Inodes, k, m \in Ks :
             Blk(j, k)' # 0 /\ Blk(j, k)' = Blk(l, m)' => j = l /\ k = m
    BY <1>2, <1>3
  <1>6. /\ \A q \in Procs : At(q, "zero")' =>
              call'[q].new \in used' /\ \A j \in Inodes, k \in Ks : Blk(j, k)' # call'[q].new
        /\ \A q, r \in Procs :
              At(q, "zero")' /\ At(r, "zero")' /\ call'[q].new = call'[r].new => q = r
    <2>1. /\ \A q \in Procs : At(q, "zero") =>
              call[q].new \in used /\ \A j \in Inodes, k \in Ks : Blk(j, k) # call[q].new
          /\ \A q, r \in Procs :
              At(q, "zero") /\ At(r, "zero") /\ call[q].new = call[r].new => q = r
      BY DEF BlockInv
    <2>3. 0 \notin used
      BY DEF Blocks
    <2> QED BY <1>2, <2>1, <2>3
  <1>7. ASSUME NEW x \in used'
        PROVE  \/ \E j \in Inodes, k \in Ks : Blk(j, k)' = x
               \/ \E q \in Procs : At(q, "zero")' /\ call'[q].new = x
    <2>1. \/ \E j \in Inodes, k \in Ks : Blk(j, k) = x
          \/ \E q \in Procs : At(q, "zero") /\ call[q].new = x
      BY DEF BlockInv
    <2> QED BY <1>2, <2>1
  <1>8. \A j \in Inodes : Blk(j, MAXFILE)' # 0 =>
           data'[Blk(j, MAXFILE)'] \in [Words -> 0 .. NBLOCKS]
    <2>1. \A j \in Inodes : Blk(j, MAXFILE)' # 0 => Blk(j, MAXFILE)' = Blk(j, MAXFILE)
      BY <1>1, <1>2
    <2>2. \A j \in Inodes : Blk(j, MAXFILE) # 0 => data[Blk(j, MAXFILE)] \in [Words -> 0 .. NBLOCKS]
      BY DEF BlockInv
    <2> QED BY <2>1, <2>2
  <1> QED BY <1>4, <1>5, <1>6, <1>7, <1>8 DEF BlockInv

LEMMA BfreeStep ==
  ASSUME Inv, NEW p \in Procs, Bfree(p), panicked = "no"
  PROVE  Inv'
  <1>0. At(p, "trunc") /\ UNCHANGED <<disk, mem, ref, fd, file>>
    BY DEF Bfree
  <1>1. PICK i \in Inodes : i = Ip(p)
    BY <1>0, TruncIsAlone
  <1> DEFINE c == call[p]
             ind == mem[i].addrs[NDIRECT]
  <1>2. /\ Holds(p) /\ Refers(p) /\ Out(p) = i /\ ~Writing(p) /\ ~At(p, "zero")
        /\ disk[i].nlink = 0 /\ disk[i].type = "file" /\ mem[i] = disk[i]
        /\ \A f \in Files : file[f].ip # i
        /\ \A q \in Procs \ {p} : (Refers(q) => Ip(q) # i) /\ (Holds(q) => Ip(q) # i)
        /\ c \in CallRecords /\ CallInv(p) /\ LogInv(p) /\ c.pc = "trunc" /\ c.k \in Nat
        /\ Inode(i) = mem[i] /\ Freed(i) = c.k
    <2>1. /\ Holds(p) /\ Refers(p) /\ Out(p) = i /\ ~Writing(p) /\ ~At(p, "zero") /\ c.pc = "trunc"
      BY <1>0, <1>1 DEF At, Holds, Refers, Out, Writing
    <2>2. /\ disk[i].nlink = 0 /\ disk[i].type = "file" /\ mem[i] = disk[i]
          /\ \A f \in Files : file[f].ip # i
          /\ \A q \in Procs \ {p} : Refers(q) => Ip(q) # i
      BY <1>0, <1>1, TruncIsAlone
    <2>3. \A q \in Procs \ {p} : Holds(q) => Ip(q) # i
      BY <1>1, <2>1 DEF Inv, LockInv
    <2>4. c \in CallRecords /\ CallInv(p) /\ LogInv(p) /\ c.k \in Nat
      BY Registers DEF Inv, ProcInv
    <2>5. Inode(i) = mem[i] /\ Freed(i) = c.k
      BY <1>0, <1>1, <2>1, HolderIs DEF Inv
    <2> QED BY <2>1, <2>2, <2>3, <2>4, <2>5
  <1>3. /\ \A k \in Ks : Doomed(p, k) = PlaceIn(data, mem[i], k)
        /\ \A k \in Ks : Blk(i, k) = IF k >= c.k THEN Doomed(p, k) ELSE 0
    <2>1. \A k \in Ks : Doomed(p, k) = PlaceIn(data, mem[i], k)
      BY <1>1, Places DEF Doomed, PlaceIn
    <2> QED BY <1>2, <2>1, Places DEF Blk
  <1>4. PICK k0 \in ToFree(p) :
          LET b == Doomed(p, k0)
          IN  /\ \A j \in ToFree(p) : k0 <= j
              /\ IF b \notin used
                 THEN Panic("freeing free block") /\ UNCHANGED <<used, data, call>>
                 ELSE /\ used' = used \ {b}
                      /\ data' = [data EXCEPT ![b] = Unused]
                      /\ call' = [call EXCEPT ![p] =
                              [call[p] EXCEPT !.k = k0 + 1,
                                              !.logged = call[p].logged \cup {BBLOCK(b)}]]
                      /\ UNCHANGED panicked
    BY DEF Bfree
  <1> DEFINE b == Doomed(p, k0)
             r == [call[p] EXCEPT !.k = k0 + 1, !.logged = call[p].logged \cup {BBLOCK(b)}]
  <1>5. /\ k0 \in Ks /\ k0 \in Nat /\ k0 >= c.k /\ k0 <= MAXFILE /\ b # 0 /\ MAXFILE \in Ks
        /\ \A k \in Ks : k >= c.k /\ Doomed(p, k) # 0 => k0 <= k
    <2>1. \A k : k \in ToFree(p) <=> k \in c.k .. MAXFILE /\ Doomed(p, k) # 0
      BY DEF ToFree
    <2>2. \A k : k \in c.k .. MAXFILE <=> k \in Ks /\ k >= c.k
      BY <1>2, Sizes DEF Ks
    <2>3. k0 \in Ks /\ k0 >= c.k /\ b # 0
      BY <2>1, <2>2
    <2>4. \A k \in Ks : k >= c.k /\ Doomed(p, k) # 0 => k0 <= k
      BY <1>4, <2>1, <2>2
    <2> QED BY <2>3, <2>4, FileKs
  <1>6. Blk(i, k0) = b /\ b \in used /\ b \in Blocks
    <2>1. Blk(i, k0) = b
      BY <1>3, <1>5
    <2>2. b \in used
      BY <1>5, <2>1 DEF Inv, BlockInv
    <2>3. used \subseteq Blocks
      BY DEF Inv, Types
    <2> QED BY <2>1, <2>2, <2>3
  <1>7. /\ used' = used \ {b} /\ data' = [data EXCEPT ![b] = Unused]
        /\ call' = [call EXCEPT ![p] = r] /\ panicked' = panicked
    BY <1>4, <1>6
  <1>8. /\ r \in CallRecords /\ r.pc = "trunc" /\ r.ip = i /\ r.k = k0 + 1 /\ r.new = c.new
        /\ r.logged = c.logged \cup {BBLOCK(b)} /\ BBLOCK(b) \in BitmapBlocks
    <2>1. BBLOCK(b) \in BitmapBlocks
      BY <1>6, DivBPB DEF BBLOCK, BitmapBlocks
    <2>2. c.logged \cup {BBLOCK(b)} \in SUBSET LogBlocks /\ k0 + 1 \in Nat
      BY <1>2, <1>5, <2>1 DEF CallRecords, LogBlocks
    <2> HIDE DEF b
    <2> QED BY <1>1, <1>2, <2>1, <2>2 DEF CallRecords, Ip
  <1> HIDE DEF r
  <1>9. /\ CallType' /\ call'[p] = r /\ \A q \in Procs \ {p} : call'[q] = call[q]
        /\ Ip(p)' = i /\ call'[p].pc = "trunc"
        /\ Holds(p)' /\ ~Writing(p)' /\ Refers(p)' /\ Out(p)' = i
    BY <1>7, <1>8, Becomes DEF Inv, Types
  <1>10. /\ \A j \in Inodes, k \in Ks : j # i \/ k # k0 => Blk(j, k) # b
         /\ \A j \in Inodes : Blk(j, MAXFILE) # 0 => Blk(j, MAXFILE) \in Blocks
    <2>1. \A j, l \in Inodes, k, m \in Ks :
             Blk(j, k) # 0 /\ Blk(j, k) = Blk(l, m) => j = l /\ k = m
      BY DEF Inv, BlockInv
    <2>2. \A j \in Inodes : Blk(j, MAXFILE) # 0 => Blk(j, MAXFILE) \in used
      BY <1>5 DEF Inv, BlockInv
    <2>3. used \subseteq Blocks
      BY DEF Inv, Types
    <2> HIDE DEF b
    <2> QED BY <1>5, <1>6, <2>1, <2>2, <2>3
  <1>11. \A x : x # b => data'[x] = data[x] \/ x \notin Blocks
    BY <1>7 DEF Inv, Types
  <1>12. Apart(p, i)
    <2>1. \A j \in Inodes \ {i} : Blk(j, MAXFILE) # 0 =>
                                     data'[Blk(j, MAXFILE)] = data[Blk(j, MAXFILE)]
      BY <1>5, <1>10, <1>11
    <2> QED BY <1>0, <1>1, <1>2, <1>9, <2>1 DEF Apart
  <1>13. At(p, "trunc")' /\ ~At(p, "zero")' /\ \A q \in Procs : At(q, "zero")' <=> At(q, "zero")
    BY <1>2, <1>9 DEF At
  <1>14. Inode(i)' = mem[i] /\ Freed(i)' = k0 + 1
    <2>1. LockInv
      BY DEF Inv
    <2> QED BY <1>0, <1>8, <1>9, <1>12, <1>13, <2>1, OwnInode
  <1>15. Blk(i, k0)' = 0 /\ \A j \in Inodes, k \in Ks : j # i \/ k # k0 => Blk(j, k)' = Blk(j, k)
    <2>1. ASSUME NEW j \in Inodes \ {i}, NEW k \in Ks PROVE Blk(j, k)' = Blk(j, k)
      BY <1>12, OthersBlocks, FreedIsNat DEF Inv
    <2>2. \A k \in Ks : Blk(i, k)' = IF k >= k0 + 1 THEN PlaceIn(data', mem[i], k) ELSE 0
      BY <1>14, Places DEF Blk
    <2>3. Blk(i, k0)' = 0
      BY <1>5, <2>2
    <2>4. ASSUME NEW k \in Ks, k # k0 PROVE Blk(i, k)' = Blk(i, k)
      <3>1. k \in Nat /\ k <= MAXFILE
        BY FileKs
      <3>2. CASE k < k0
        <4>1. Blk(i, k)' = 0
          BY <1>5, <2>2, <3>1, <3>2
        <4>2. Blk(i, k) = 0
          BY <1>3, <1>5, <3>1, <3>2
        <4> QED BY <4>1, <4>2
      <3>3. CASE k > k0
        <4>1. k0 # MAXFILE
          BY <1>5, <3>1, <3>3
        <4>2. PlaceIn(data', mem[i], k) = PlaceIn(data, mem[i], k)
          <5>1. ind # 0 => ind # b /\ ind \in Blocks
            <6>1. MAXFILE >= c.k
              BY <1>2, <1>5, <3>1, <3>3
            <6>2. Blk(i, MAXFILE) = ind
              BY <1>3, <1>5, <6>1 DEF PlaceIn
            <6> QED BY <1>5, <1>10, <4>1, <6>2
          <5>2. ind # 0 => data'[ind] = data[ind]
            BY <1>11, <5>1
          <5> QED BY <5>2 DEF PlaceIn, Word
        <4>3. k >= k0 + 1 /\ k >= c.k
          BY <1>2, <1>5, <3>1, <3>3
        <4> QED BY <1>3, <2>2, <4>2, <4>3
      <3> QED BY <1>5, <2>4, <3>1, <3>2, <3>3
    <2> QED BY <2>1, <2>3, <2>4
  <1>16. BlockInv'
    <2>1. \A j \in Inodes : Blk(j, MAXFILE)' # 0 =>
                              data'[Blk(j, MAXFILE)] = data[Blk(j, MAXFILE)]
      <3>1. ASSUME NEW j \in Inodes, Blk(j, MAXFILE)' # 0
            PROVE  data'[Blk(j, MAXFILE)] = data[Blk(j, MAXFILE)]
        <4>1. j # i \/ MAXFILE # k0
          BY <1>15, <3>1
        <4>2. Blk(j, MAXFILE)' = Blk(j, MAXFILE) /\ Blk(j, MAXFILE) # b
          BY <1>5, <1>10, <1>15, <4>1
        <4> QED BY <1>10, <1>11, <3>1, <4>2
      <3> QED BY <3>1
    <2>2. \A q \in Procs : call'[q].new = call[q].new
      BY <1>8, <1>9
    <2>3. BlockInv /\ used \subseteq Blocks
      BY DEF Inv, Types
    <2> QED BY <1>5, <1>6, <1>7, <1>13, <1>15, <2>1, <2>2, <2>3, BlockFreed
  <1>17. Types'
    <2>1. Unused \in [Words -> WordVals]
      BY DEF Unused, WordVals
    <2>2. data' \in [Blocks -> [Words -> WordVals]] /\ used' \subseteq Blocks
      BY <1>6, <1>7, <2>1 DEF Inv, Types
    <2> QED BY <1>0, <1>9, <2>2 DEF Inv, Types
  <1>18. RefInv' /\ FileInv'
    <2>1. RefInv'
      BY <1>0, <1>2, <1>9, RefsStay DEF Inv
    <2>2. FileInv'
      BY <1>0, OpenFilesStay DEF Inv
    <2> QED BY <2>1, <2>2
  <1>19. TruncInv'
    <2>1. \A q \in Procs \ {p} : At(q, "trunc") => \A f \in Files : file'[f].ip # Ip(q)
      BY <1>0, TruncIsAlone
    <2>2. \A q \in Procs \ {p} : At(q, "trunc") => Ip(p)' # Ip(q)
      <3>1. \A q \in Procs \ {p} : At(q, "trunc") => Refers(q)
        BY DEF At, Refers
      <3> QED BY <1>2, <1>9, <3>1
    <2> QED BY <1>0, <1>2, <1>9, <2>1, <2>2, TruncStays DEF Inv
  <1>20. OffInv'
    <2>1. Inode(i).size \in Nat
      BY InodeIs DEF Inv
    <2>2. Inode(i)'.size >= Inode(i).size
      BY <1>2, <1>14, <2>1
    <2> QED BY <1>0, <1>12, <1>17, <2>2, OffStays
  <1>21. ProcInv(p)'
    <2>1. CallInv(p)'
      <3>1. k0 + 1 <= MAXFILE + 1
        BY <1>5, Sizes
      <3>2. c.new = 0 /\ call'[p].k = k0 + 1 /\ call'[p].new = c.new /\ disk'[i].type = "file"
        BY <1>0, <1>2, <1>8, <1>9 DEF CallInv
      <3> QED BY <1>9, <3>1, <3>2 DEF CallInv, At
    <2>2. c.logged \subseteq {<<"directory">>, IBLOCK(i)} \cup BitmapBlocks
      BY <1>1, <1>2 DEF LogInv
    <2>3. call'[p].logged \subseteq {<<"directory">>, IBLOCK(i)} \cup BitmapBlocks
      BY <1>8, <1>9, <2>2
    <2> QED BY <1>9, <2>1, <2>3 DEF ProcInv, WriteInv, LogInv, At
  <1>22. HolesInv(i)'
    <2>1. Freed(i)' # 0
      BY <1>5, <1>14
    <2> QED BY <2>1 DEF HolesInv
  <1>23. /\ FilesStay(p) /\ panicked' # "freeing free block"
         /\ \A q \in Procs \ {p} : At(q, "put") \/ At(q, "trunc") => disk'[Ip(q)].type = "file"
         /\ disk'[i].type = "file" /\ ref' = ref
    <2>1. \A q \in Procs : At(q, "put") \/ At(q, "trunc") => disk[Ip(q)].type = "file"
      BY DEF Inv, ProcInv, CallInv
    <2>2. panicked' # "freeing free block"
      BY <1>7 DEF Inv
    <2> QED BY <1>0, <1>2, <2>1, <2>2 DEF FilesStay
  <1> QED BY <1>9, <1>12, <1>16, <1>17, <1>18, <1>19, <1>20, <1>21, <1>22, <1>23, Whole

LEMMA FreeTheInodeStep ==
  ASSUME Inv, NEW p \in Procs, FreeTheInode(p), panicked' = panicked
  PROVE  Inv'
  <1>0. At(p, "trunc") /\ ToFree(p) = {} /\ UNCHANGED <<used, data, ref, fd, file>>
    BY DEF FreeTheInode
  <1>1. PICK i \in Inodes : i = Ip(p)
    BY <1>0, TruncIsAlone
  <1> DEFINE c == call[p]
             r == [call[p] EXCEPT !.pc = "drop"]
  <1>2. /\ Holds(p) /\ Refers(p) /\ Out(p) = i /\ ~Writing(p) /\ ~At(p, "zero")
        /\ \A f \in Files : file[f].ip # i
        /\ \A q \in Procs \ {p} : (Refers(q) => Ip(q) # i) /\ (Holds(q) => Ip(q) # i)
        /\ c \in CallRecords /\ CallInv(p) /\ LogInv(p) /\ c.pc = "trunc" /\ c.k \in Nat
        /\ Inode(i) = mem[i] /\ Freed(i) = c.k
    <2>1. /\ Holds(p) /\ Refers(p) /\ Out(p) = i /\ ~Writing(p) /\ ~At(p, "zero") /\ c.pc = "trunc"
      BY <1>0, <1>1 DEF At, Holds, Refers, Out, Writing
    <2>2. /\ \A f \in Files : file[f].ip # i
          /\ \A q \in Procs \ {p} : Refers(q) => Ip(q) # i
      BY <1>0, <1>1, TruncIsAlone
    <2>3. \A q \in Procs \ {p} : Holds(q) => Ip(q) # i
      BY <1>1, <2>1 DEF Inv, LockInv
    <2>4. c \in CallRecords /\ CallInv(p) /\ LogInv(p) /\ c.k \in Nat
      BY Registers DEF Inv, ProcInv
    <2>5. Inode(i) = mem[i] /\ Freed(i) = c.k
      BY <1>0, <1>1, <2>1, HolderIs DEF Inv
    <2> QED BY <2>1, <2>2, <2>3, <2>4, <2>5
  <1>3. \A k \in Ks : Blk(i, k) = 0
    <2>1. ASSUME NEW k \in Ks, k >= c.k PROVE PlaceIn(data, mem[i], k) = 0
      <3>1. k \in c.k .. MAXFILE
        BY <1>2, <2>1, Sizes DEF Ks
      <3>2. Doomed(p, k) = 0
        BY <1>0, <3>1 DEF ToFree
      <3> QED BY <1>1, <3>2, Places DEF Doomed, PlaceIn
    <2> QED BY <1>2, <2>1, Places DEF Blk
  <1>4. /\ r \in CallRecords /\ r.pc = "drop" /\ r.ip = i /\ r.k = c.k /\ r.new = c.new
        /\ r.logged = c.logged
    <2>1. "drop" \in Pcs
      BY DEF Pcs
    <2> QED BY <1>1, <1>2, <2>1 DEF CallRecords, Ip
  <1>5. call' = [call EXCEPT ![p] = r]
    BY DEF FreeTheInode
  <1> HIDE DEF r
  <1>6. /\ CallType' /\ call'[p] = r /\ \A q \in Procs \ {p} : call'[q] = call[q]
        /\ Ip(p)' = i /\ call'[p].pc = "drop"
        /\ ~Holds(p)' /\ ~Writing(p)' /\ Refers(p)' /\ Out(p)' = i
    BY <1>4, <1>5, Becomes DEF Inv, Types
  <1>7. ~At(p, "trunc")' /\ ~At(p, "zero")'
    BY <1>6 DEF At
  <1>8. /\ FreeInode \in InodeRecords /\ FreeInode.size = 0 /\ FreeInode.type = "free"
        /\ \A k \in 0 .. NDIRECT : FreeInode.addrs[k] = 0
    <2>1. 0 \in 0 .. NBLOCKS
      BY Sizes
    <2>2. 0 \in 0 .. MAXFILE * BSIZE
      <3>1. MAXFILE * BSIZE \in Nat
        BY Sizes
      <3> QED BY <3>1
    <2> QED BY <2>1, <2>2 DEF FreeInode, InodeRecords
  <1>9. /\ mem' = [mem EXCEPT ![i] = FreeInode] /\ disk' = [disk EXCEPT ![i] = FreeInode]
        /\ mem \in [Inodes -> InodeRecords] /\ disk \in [Inodes -> InodeRecords]
    BY <1>1 DEF FreeTheInode, Inv, Types
  <1>10. /\ mem'[i] = FreeInode /\ disk'[i] = FreeInode
         /\ \A j \in Inodes \ {i} : mem'[j] = mem[j] /\ disk'[j] = disk[j]
         /\ mem' \in [Inodes -> InodeRecords] /\ disk' \in [Inodes -> InodeRecords]
    <2> HIDE DEF FreeInode
    <2> QED BY <1>8, <1>9
  <1>11. Apart(p, i)
    BY <1>0, <1>1, <1>2, <1>6, <1>10 DEF Apart
  <1>12. Inode(i)' = FreeInode /\ Freed(i)' = 0
    <2>1. LockInv
      BY DEF Inv
    <2> QED BY <1>6, <1>10, <1>11, <2>1, OwnInode
  <1>13. \A j \in Inodes, k \in Ks : Blk(j, k)' = Blk(j, k)
    <2>1. ASSUME NEW j \in Inodes \ {i}, NEW k \in Ks PROVE Blk(j, k)' = Blk(j, k)
      BY <1>11, OthersBlocks, FreedIsNat DEF Inv
    <2>2. ASSUME NEW k \in Ks PROVE Blk(i, k)' = 0
      <3>1. NDIRECT \in 0 .. NDIRECT /\ k \in Nat
        BY Sizes, FileKs
      <3>2. k < NDIRECT => k \in 0 .. NDIRECT
        BY <3>1, Sizes
      <3>3. PlaceIn(data', FreeInode, k) = 0
        BY <1>8, <3>1, <3>2 DEF PlaceIn, Word
      <3>4. k >= 0
        BY <3>1
      <3> QED BY <1>12, <3>3, <3>4, Places DEF Blk
    <2> QED BY <1>3, <2>1, <2>2
  <1>14. BlockInv'
    <2>1. \A j \in Inodes : Blk(j, MAXFILE) # 0 => data'[Blk(j, MAXFILE)] = data[Blk(j, MAXFILE)]
      BY <1>0
    <2> QED BY <1>0, <1>2, <1>6, <1>7, <1>13, <2>1, BlocksStay DEF Inv
  <1>15. Types'
    BY <1>0, <1>6, <1>10 DEF Inv, Types
  <1>16. RefInv'
    BY <1>0, <1>2, <1>6, RefsStay DEF Inv
  <1>17. FileInv'
    <2>1. ASSUME NEW f \in Files, file[f].ip # None
          PROVE  disk'[file[f].ip].type = "file" /\ \E q \in Procs : fd[q] = f
      <3>1. disk[file[f].ip].type = "file" /\ \E q \in Procs : fd[q] = f
        BY <2>1 DEF Inv, FileInv
      <3>2. file[f].ip \in Inodes \ {i}
        BY <1>2, <2>1 DEF Inv, Types, FileRecords
      <3> QED BY <1>10, <3>1, <3>2
    <2>2. \A q \in Procs : fd[q] # None => file[fd[q]].ip # None
      BY DEF Inv, FileInv
    <2> QED BY <1>0, <2>1, <2>2 DEF FileInv
  <1>18. \A q \in Procs \ {p} : At(q, "put") \/ At(q, "trunc") =>
            Refers(q) /\ Ip(q) \in Inodes \ {i} /\ disk[Ip(q)].type = "file"
    <2>1. \A q \in Procs : At(q, "put") \/ At(q, "trunc") =>
             Refers(q) /\ Ip(q) \in Inodes /\ disk[Ip(q)].type = "file"
      BY DEF Inv, ProcInv, CallInv, Refers, At
    <2> QED BY <1>2, <2>1
  <1>19. TruncInv'
    <2>1. \A q \in Procs \ {p} : At(q, "trunc") =>
             /\ mem'[Ip(q)] = mem[Ip(q)] /\ disk'[Ip(q)] = disk[Ip(q)]
             /\ \A f \in Files : file'[f].ip # Ip(q)
             /\ Ip(p)' # Ip(q)
      <3>1. \A q \in Procs \ {p} : At(q, "trunc") => \A f \in Files : file[f].ip # Ip(q)
        BY TruncIsAlone
      <3> QED BY <1>0, <1>6, <1>10, <1>18, <3>1
    <2> QED BY <1>6, <1>7, <2>1, TruncStays DEF Inv
  <1>20. OffInv'
    <2>1. ASSUME NEW f \in Files, file[f].ip # None
          PROVE  file[f].off <= Inode(file[f].ip)'.size
      <3>1. file[f].ip \in Inodes \ {i}
        BY <1>2, <2>1 DEF Inv, Types, FileRecords
      <3>2. Inode(file[f].ip)' = Inode(file[f].ip)
        <4>1. file'[f].ip = file[f].ip
          BY <1>0
        <4>2. \A j \in Inodes \ {i} : Inode(j)' = Inode(j)
          BY <1>11, OthersLocks DEF Inv
        <4> QED BY <3>1, <4>1, <4>2
      <3> QED BY <2>1, <3>2 DEF Inv, OffInv
    <2> QED BY <1>0, <2>1 DEF OffInv
  <1>21. ProcInv(p)'
    <2>1. CallInv(p)'
      <3>1. c.k <= MAXFILE + 1 /\ c.new = 0
        BY <1>2 DEF CallInv, At
      <3>2. call'[p].k = c.k /\ call'[p].new = 0
        BY <1>4, <1>6, <3>1
      <3> QED BY <1>6, <3>1, <3>2 DEF CallInv, At
    <2>2. c.logged \subseteq {<<"directory">>, IBLOCK(i)} \cup BitmapBlocks
      BY <1>1, <1>2 DEF LogInv
    <2>3. call'[p].logged \subseteq {<<"directory">>, IBLOCK(i)} \cup BitmapBlocks
      BY <1>4, <1>6, <2>2
    <2> QED BY <1>6, <2>1, <2>3 DEF ProcInv, WriteInv, LogInv, At
  <1>22. HolesInv(i)'
    <2>1. ASSUME NEW k \in 0 .. MAXFILE - 1, k * BSIZE < 0 PROVE FALSE
      <3>1. k * BSIZE < 0 * BSIZE /\ k \in Nat
        BY <2>1, Sizes
      <3>2. k < 0
        BY <3>1, Times
      <3> QED BY <3>1, <3>2
    <2>2. Inode(i)'.size = 0
      BY <1>8, <1>12
    <2> QED BY <2>1, <2>2 DEF HolesInv
  <1>23. /\ FilesStay(p) /\ panicked' # "freeing free block"
         /\ \A q \in Procs \ {p} : At(q, "put") \/ At(q, "trunc") => disk'[Ip(q)].type = "file"
         /\ ref' = ref
    <2>1. panicked' # "freeing free block"
      BY DEF Inv
    <2> QED BY <1>0, <1>10, <1>18, <2>1 DEF FilesStay
  <1> QED BY <1>10, <1>11, <1>14, <1>15, <1>16, <1>17, <1>19, <1>20, <1>21, <1>22, <1>23, Whole

-----------------------------------------------------------------------------
(* The start, and power failures *)

\* Nobody is in a call, and no inode is in the cache.
Quiet ==
    /\ Types /\ InodeInv /\ BlockInv /\ panicked # "freeing free block"
    /\ \A i \in Inodes : ref[i] = 0 /\ HolesInv(i)
    /\ \A p \in Procs : call[p] = Idle /\ fd[p] = None
    /\ \A f \in Files : file[f].ip = None

LEMMA NobodyAtWork ==
  ASSUME NEW c, \A p \in Procs : c[p] = Idle, NEW i
  PROVE  ~LockedIn(c, i) /\ FreedIn(c, i) = 0
  <1>1. \A q \in Procs : ~HoldsIn(c, q, i)
    BY IdleIs DEF HoldsIn
  <1> QED BY <1>1, NotInUse

LEMMA AtRest == Quiet => Inv
  <1> SUFFICES ASSUME Quiet PROVE Inv
    OBVIOUS
  <1>1. \A p \in Procs : /\ ~Holds(p) /\ ~Refers(p) /\ ~Writing(p)
                         /\ \A c : At(p, c) <=> c = "user"
    BY IdleIs DEF Quiet, Holds, Refers, Writing, At
  <1>2. LockInv /\ FileInv /\ TruncInv /\ NothingOnlyInMemory /\ OffInv
    <2>1. /\ \A i \in Inodes : ref[i] = 0
          /\ \A p \in Procs : fd[p] = None /\ ~At(p, "trunc")
          /\ \A f \in Files : file[f].ip = None
      BY <1>1 DEF Quiet
    <2>2. LockInv /\ FileInv /\ TruncInv /\ OffInv
      BY <1>1, <2>1 DEF LockInv, FileInv, TruncInv, OffInv
    <2>3. NothingOnlyInMemory
      BY <2>1 DEF NothingOnlyInMemory
    <2> QED BY <2>2, <2>3
  <1>3. RefInv
    <2>1. ASSUME NEW i \in Inodes PROVE Refs(i) = 0
      <3>1. {f \in Files : file[f].ip = i} = {} /\ {p \in Procs : Refers(p) /\ Ip(p) = i} = {}
        BY <1>1, NoneAssumption DEF Quiet
      <3>2. Cardinality({f \in Files : file[f].ip = i}) = 0
            /\ Cardinality({p \in Procs : Refers(p) /\ Ip(p) = i}) = 0
        BY <3>1, FS_EmptySet, Zenon
      <3> QED BY <3>2 DEF Refs
    <2> QED BY <2>1 DEF Quiet, RefInv
  <1>4. ASSUME NEW p \in Procs PROVE ProcInv(p)
    <2>1. call[p] = Idle
      BY DEF Quiet
    <2>2. CallInv(p)
      BY <1>1, <2>1, IdleIs, Sizes DEF CallInv
    <2>3. WriteInv(p) /\ LogInv(p)
      BY <1>1, <2>1, IdleIs DEF WriteInv, LogInv
    <2> QED BY <2>2, <2>3 DEF ProcInv
  <1> QED BY <1>2, <1>3, <1>4 DEF Quiet, Inv

LEMMA InvInit == Init => Inv
  <1> SUFFICES ASSUME Init PROVE Quiet
    BY AtRest
  <1>1. FreeInode \in InodeRecords /\ FreeInode.size = 0 /\ FreeInode.type = "free"
        /\ \A k \in 0 .. NDIRECT : FreeInode.addrs[k] = 0
    <2>1. 0 \in 0 .. NBLOCKS
      BY Sizes
    <2>2. 0 \in 0 .. MAXFILE * BSIZE
      <3>1. MAXFILE * BSIZE \in Nat
        BY Sizes
      <3> QED BY <3>1
    <2> QED BY <2>1, <2>2 DEF FreeInode, InodeRecords
  <1>2. Unused \in [Words -> WordVals]
    BY DEF Unused, WordVals
  <1>3. [ip |-> None, off |-> 0] \in FileRecords
    <2>1. MAXFILE * BSIZE \in Nat
      BY Sizes
    <2> QED BY <2>1 DEF FileRecords
  <1>4. Types
    <2> HIDE DEF FreeInode, Unused, Idle
    <2>1. used \subseteq Blocks /\ data \in [Blocks -> [Words -> WordVals]]
      BY <1>2 DEF Init
    <2>2. disk \in [Inodes -> InodeRecords] /\ mem \in [Inodes -> InodeRecords]
      BY <1>1 DEF Init
    <2>3. /\ ref \in [Inodes -> Nat] /\ fd \in [Procs -> Files \cup {None}]
          /\ file \in [Files -> FileRecords]
      BY <1>3 DEF Init
    <2>4. CallType
      BY IdleIs DEF Init, CallType
    <2> QED BY <2>1, <2>2, <2>3, <2>4 DEF Types
  <1>5. \A p \in Procs : call[p] = Idle /\ fd[p] = None
    BY DEF Init
  <1>6. \A i \in Inodes : Inode(i) = FreeInode
    <2>1. \A i \in Inodes : mem[i] = FreeInode /\ disk[i] = FreeInode
      BY DEF Init
    <2> QED BY <2>1 DEF Inode
  <1>7. \A i \in Inodes, k \in Ks : Blk(i, k) = 0
    <2> TAKE i \in Inodes, k \in Ks
    <2>1. NDIRECT \in 0 .. NDIRECT /\ k \in Nat /\ (k < NDIRECT => k \in 0 .. NDIRECT)
      BY Sizes, FileKs
    <2>2. PlaceIn(data, FreeInode, k) = 0
      BY <1>1, <2>1 DEF PlaceIn, Word
    <2> QED BY <1>6, <2>2, Places DEF Blk
  <1>8. BlockInv
    <2>1. MAXFILE \in Ks /\ 0 \in 0 .. NBLOCKS
      BY FileKs, Sizes
    <2>2. \A p \in Procs : ~At(p, "zero")
      BY <1>5, IdleIs DEF At
    <2>3. used = {}
      BY DEF Init
    <2> QED BY <1>7, <2>1, <2>2, <2>3 DEF BlockInv
  <1>9. \A i \in Inodes : HolesInv(i)
    <2>1. ASSUME NEW k \in 0 .. MAXFILE - 1, k * BSIZE < 0 PROVE FALSE
      <3>1. k * BSIZE < 0 * BSIZE /\ k \in Nat
        BY <2>1, Sizes
      <3>2. k < 0
        BY <3>1, Times
      <3> QED BY <3>1, <3>2
    <2>2. \A i \in Inodes : Inode(i).size = 0
      BY <1>1, <1>6
    <2> QED BY <2>1, <2>2 DEF HolesInv
  <1>10. InodeInv /\ panicked # "freeing free block"
    BY DEF Init, InodeInv
  <1>11. /\ \A i \in Inodes : ref[i] = 0
         /\ \A f \in Files : file[f].ip = None
    BY DEF Init
  <1> QED BY <1>4, <1>5, <1>8, <1>9, <1>10, <1>11 DEF Quiet

LEMMA QuietNext == Quiet' => Inv'
  BY AtRest, PTL

\* The power fails.
LEMMA CrashStep ==
  ASSUME Inv, Crash
  PROVE  Inv'
  <1>1. /\ \A q \in Procs : ~Holds(q) /\ ~At(q, "zero") /\ ~At(q, "trunc")
        /\ \A q \in Procs : call'[q] = Idle /\ fd'[q] = None
        /\ \A f \in Files : file'[f].ip = None
        /\ \A i \in Inodes : ref'[i] = 0
        /\ mem' = disk /\ disk' = disk /\ data' = data /\ used' = used /\ panicked' = panicked
    BY DEF Crash, InOp, Holds, At
  <1>2. \A i : ~Locked(i) /\ Freed(i) = 0 /\ ~Locked(i)' /\ Freed(i)' = 0
    <2>1. \A i : ~LockedIn(call, i) /\ FreedIn(call, i) = 0
      <3> TAKE i
      <3>1. \A q \in Procs : ~HoldsIn(call, q, i)
        BY <1>1 DEF HoldsIn, Holds
      <3> QED BY <3>1, NotInUse
    <2>2. \A i : ~LockedIn(call', i) /\ FreedIn(call', i) = 0
      BY <1>1, NobodyAtWork
    <2> QED BY <2>1, <2>2, Uses
  <1>3. \A i : Inode(i)' = Inode(i)
    BY <1>1, <1>2 DEF Inode
  <1>4. \A i, k : Blk(i, k)' = Blk(i, k)
    <2>1. \A i, k : Place(i, k)' = Place(i, k)
      BY <1>1, <1>3, Places
    <2> QED BY <1>2, <2>1 DEF Blk
  <1>5. \A q \in Procs : ~At(q, "zero")'
    BY <1>1, IdleIs DEF At
  <1>6. BlockInv
    BY DEF Inv
  <1>7. BlockInv'
    <2>1. /\ \A i \in Inodes, k \in Ks : Blk(i, k)' \in 0 .. NBLOCKS
          /\ \A i, j \in Inodes, k, l \in Ks :
               Blk(i, k)' # 0 /\ Blk(i, k)' = Blk(j, l)' => i = j /\ k = l
          /\ \A i \in Inodes, k \in Ks : Blk(i, k)' # 0 => Blk(i, k)' \in used'
      BY <1>1, <1>4, <1>6 DEF BlockInv
    <2>2. \A b \in used' : \E i \in Inodes, k \in Ks : Blk(i, k)' = b
      BY <1>1, <1>4, <1>6 DEF BlockInv
    <2>3. \A i \in Inodes : Blk(i, MAXFILE)' # 0 =>
            data'[Blk(i, MAXFILE)'] \in [Words -> 0 .. NBLOCKS]
      BY <1>1, <1>4, <1>6 DEF BlockInv
    <2> QED BY <1>5, <2>1, <2>2, <2>3 DEF BlockInv
  <1>8. \A i \in Inodes : HolesInv(i)'
    BY <1>2, <1>3, <1>4 DEF Inv, HolesInv
  <1>9. Types'
    <2>1. mem' \in [Inodes -> InodeRecords]
      BY <1>1 DEF Inv, Types
    <2>2. /\ ref' \in [Inodes -> Nat] /\ fd' \in [Procs -> Files \cup {None}]
      BY DEF Crash
    <2>3. file' \in [Files -> FileRecords]
      <3>1. MAXFILE * BSIZE \in Nat
        BY Sizes
      <3> QED BY <3>1 DEF Crash, FileRecords
    <2>4. CallType'
      <3> HIDE DEF Idle
      <3> QED BY IdleIs DEF Crash, CallType
    <2> QED BY <1>1, <2>1, <2>2, <2>3, <2>4 DEF Inv, Types
  <1>10. InodeInv' /\ panicked' # "freeing free block"
    BY <1>1 DEF Inv, InodeInv
  <1> QED BY <1>1, <1>7, <1>8, <1>9, <1>10, QuietNext DEF Quiet

LEMMA InvStep == Inv /\ [Next]_vars => Inv'
  <1> SUFFICES ASSUME Inv, [Next]_vars PROVE Inv'
    OBVIOUS
  <1>1. CASE UNCHANGED vars
    <2>1. UNCHANGED <<used, data, disk, mem, ref, fd, file, call>> /\ panicked' = panicked
      BY <1>1 DEF vars
    <2> QED BY <2>1, PanicStep DEF Inv
  <1>2. CASE Next
    <2>1. panicked = "no" /\ (Crash \/ (\E p \in Procs : Call(p)) \/ (\E p \in Procs : Step(p)))
      BY <1>2 DEF Next
    <2>2. CASE Crash
      BY <2>2, CrashStep
    <2>3. ASSUME NEW p \in Procs, Call(p) PROVE Inv'
      <3>1. ASSUME NEW f \in Files, NEW i \in Inodes, Open(p, f, i) PROVE Inv'
        BY <3>1, OpenStep DEF Open
      <3>2. ASSUME NEW f \in Files, NEW i \in Inodes, Create(p, f, i) PROVE Inv'
        BY <3>2, CreateStep DEF Create
      <3>3. ASSUME NEW q \in Procs, Fork(p, q) PROVE Inv'
        BY <3>3, ForkStep DEF Fork
      <3>4. CASE Close(p)
        BY <3>4, CloseStep DEF Close
      <3>5. ASSUME NEW i \in Inodes, Unlink(p, i) PROVE Inv'
        BY <3>5, UnlinkStep DEF Unlink
      <3>6. ASSUME NEW s \in Writes, Write(p, s) PROVE Inv'
        BY <3>6, WriteStep DEF Write
      <3>7. ASSUME NEW n \in Reads, Read(p, n) PROVE Inv'
        BY <3>7, ReadStep DEF Read
      <3> QED BY <2>3, <3>1, <3>2, <3>3, <3>4, <3>5, <3>6, <3>7 DEF Call
    <2>4. ASSUME NEW p \in Procs, Step(p) PROVE Inv'
      <3>1. CASE Ilock(p)
        BY <3>1, IlockStep DEF Ilock
      <3>2. CASE Balloc(p)
        BY <2>1, <3>2, BallocStep
      <3>3. CASE Bzero(p)
        BY <3>3, BzeroStep DEF Bzero
      <3>4. CASE WriteBlock(p)
        BY <3>4, WriteBlockStep DEF WriteBlock
      <3>5. CASE ChunkDone(p)
        BY <3>5, ChunkDoneStep DEF ChunkDone
      <3>6. CASE Iput(p)
        BY <3>6, IputStep DEF Iput
      <3>7. CASE Bfree(p)
        BY <2>1, <3>7, BfreeStep
      <3>8. CASE FreeTheInode(p)
        BY <3>8, FreeTheInodeStep DEF FreeTheInode
      <3>9. CASE Drop(p)
        BY <3>9, DropStep DEF Drop
      <3> QED BY <2>4, <3>1, <3>2, <3>3, <3>4, <3>5, <3>6, <3>7, <3>8, <3>9 DEF Step
    <2> QED BY <2>1, <2>2, <2>3, <2>4
  <1> QED BY <1>1, <1>2

LEMMA Invariance == Spec => []Inv
  <1> QED BY InvInit, InvStep, PTL DEF Spec

-----------------------------------------------------------------------------
(* What the invariant says of the log *)

LEMMA ForIsNat ==
  ASSUME NEW p
  PROVE  ForBlock(p) \in 0 .. 2 /\ ForIndirect(p) \in 0 .. 2
  BY DEF ForBlock, ForIndirect

\* An inode, a directory and the whole bitmap fit in a reservation.
LEMMA BitmapFits ==
  ASSUME NEW L, NEW x, NEW y, L \subseteq {x, y} \cup BitmapBlocks
  PROVE  IsFiniteSet(L) /\ Cardinality(L) <= MAXOPBLOCKS
  <1>1. LastBBLOCK \in Nat /\ MAXOPBLOCKS >= LastBBLOCK + 3 /\ MAXOPBLOCKS \in Nat
    BY Sizes, ReservationAssumption DEF LastBBLOCK
  <1>2. IsFiniteSet(BitmapBlocks) /\ Cardinality(BitmapBlocks) <= LastBBLOCK + 1
    <2> DEFINE g == [k \in 0 .. LastBBLOCK |-> <<"bitmap", k>>]
    <2>1. g \in Surjection(0 .. LastBBLOCK, BitmapBlocks)
      BY DEF Surjection, BitmapBlocks
    <2>2. IsFiniteSet(0 .. LastBBLOCK) /\ Cardinality(0 .. LastBBLOCK) = LastBBLOCK + 1
      BY <1>1, FS_Interval
    <2> QED BY <2>1, <2>2, FS_Surjection
  <1> DEFINE A == BitmapBlocks \cup {x}
             B == A \cup {y}
  <1>3. Cardinality(BitmapBlocks) \in Nat
    BY <1>2, FS_CardinalityType
  <1>4. IsFiniteSet(A) /\ Cardinality(A) <= LastBBLOCK + 2 /\ Cardinality(A) \in Nat
    <2>1. IsFiniteSet(A) /\ (Cardinality(A) = Cardinality(BitmapBlocks)
                              \/ Cardinality(A) = Cardinality(BitmapBlocks) + 1)
      BY <1>2, FS_AddElement
    <2> QED BY <1>1, <1>2, <1>3, <2>1
  <1> HIDE DEF A
  <1>5. IsFiniteSet(B) /\ Cardinality(B) <= LastBBLOCK + 3 /\ Cardinality(B) \in Nat
    <2>1. IsFiniteSet(B) /\ (Cardinality(B) = Cardinality(A)
                              \/ Cardinality(B) = Cardinality(A) + 1)
      BY <1>4, FS_AddElement
    <2> QED BY <1>1, <1>4, <2>1
  <1>6. L \in SUBSET B
    BY DEF A
  <1>7. IsFiniteSet(L) /\ Cardinality(L) <= Cardinality(B)
    BY <1>5, <1>6, FS_Subset
  <1>8. Cardinality(L) \in Nat
    BY <1>7, FS_CardinalityType
  <1> QED BY <1>1, <1>5, <1>7, <1>8

LEMMA LogsFit == Inv => WithinReservation
  <1> SUFFICES ASSUME Inv, NEW p \in Procs PROVE Cardinality(call[p].logged) <= MAXOPBLOCKS
    BY DEF WithinReservation
  <1>1. LogInv(p) /\ call[p].pc \in Pcs /\ call[p].logged \in SUBSET LogBlocks
    BY Registers DEF Inv, ProcInv
  <1>2. Cardinality(call[p].logged) \in Nat
    BY <1>1, LogGrows
  <1>3. CASE At(p, "user") \/ At(p, "begin")
    <2>1. call[p].logged = {}
      BY <1>1, <1>3 DEF LogInv
    <2>2. Cardinality(call[p].logged) = 0
      BY <2>1, FS_EmptySet, Zenon
    <2> QED BY <2>2, Sizes
  <1>4. CASE Refers(p)
    BY <1>1, <1>4, BitmapFits DEF LogInv
  <1>5. CASE Writing(p)
    <2>1. CASE call[p].src = <<>>
      BY <1>1, <1>5, <2>1 DEF LogInv
    <2>2. CASE call[p].src # <<>>
      <3>1. PICK r \in Nat : Cardinality(call[p].logged) + 2 * r + ForBlock(p) + ForIndirect(p) + 1
                               <= MAXOPBLOCKS
        BY <1>1, <1>5, <2>2 DEF LogInv
      <3> QED BY <1>2, <3>1, ForIsNat, Sizes
    <2> QED BY <2>1, <2>2
  <1>6. At(p, "user") \/ At(p, "begin") \/ Refers(p) \/ Writing(p)
    BY <1>1 DEF Pcs, At, Refers, Writing
  <1> QED BY <1>3, <1>4, <1>5, <1>6

-----------------------------------------------------------------------------
(* What the invariant says of blocks *)

\* The places of blocks, and who has just taken one.
PlacesNow == {x \in Inodes \X Ks : Blk(x[1], x[2]) # 0}
Taken == {p \in Procs : At(p, "zero")}

LEMMA PlacesAre ==
  ASSUME Types, LockInv
  PROVE  /\ {x \in Inodes \X (0 .. MAXFILE) : x[2] >= Freed(x[1]) /\ Place(x[1], x[2]) # 0}
              = PlacesNow
         /\ \A x \in PlacesNow : Place(x[1], x[2]) = Blk(x[1], x[2])
  BY DEF PlacesNow, Ks, Blk

LEMMA BlocksCount ==
  ASSUME Inv
  PROVE  BlocksExact
  <1> DEFINE held == {Place(x[1], x[2]) : x \in PlacesNow}
             new == {call[p].new : p \in Taken}
             f == [x \in PlacesNow |-> Blk(x[1], x[2])]
             g == [p \in Taken |-> call[p].new]
  <1>0. BlockInv
    BY DEF Inv
  <1>1. \A x \in PlacesNow : Place(x[1], x[2]) = Blk(x[1], x[2])
    BY PlacesAre DEF Inv
  <1>2. \A x \in PlacesNow : x[1] \in Inodes /\ x[2] \in Ks /\ Blk(x[1], x[2]) # 0
                             /\ x = <<x[1], x[2]>>
    BY DEF PlacesNow
  <1>3. f \in Bijection(PlacesNow, held)
    <2>1. \A x, y \in PlacesNow : f[x] = f[y] => x = y
      <3>1. ASSUME NEW x \in PlacesNow, NEW y \in PlacesNow,
                   Blk(x[1], x[2]) = Blk(y[1], y[2])
            PROVE  x = y
        <4>1. x[1] = y[1] /\ x[2] = y[2]
          BY <1>0, <1>2, <3>1 DEF BlockInv
        <4> QED BY <1>2, <4>1
      <3> QED BY <3>1
    <2>2. \A x \in PlacesNow : f[x] = Place(x[1], x[2])
      BY <1>1
    <2> HIDE DEF f
    <2>3. f \in [PlacesNow -> held] /\ \A b \in held : \E x \in PlacesNow : f[x] = b
      <3>1. f = [x \in PlacesNow |-> Blk(x[1], x[2])]
        BY DEF f
      <3> QED BY <2>2, <3>1
    <2> HIDE DEF held
    <2> QED BY <2>1, <2>3, Fun_IsBij
  <1>4. g \in Bijection(Taken, new)
    <2>1. \A p, q \in Taken : g[p] = g[q] => p = q
      BY <1>0 DEF BlockInv, Taken
    <2>2. g \in [Taken -> new] /\ \A b \in new : \E p \in Taken : g[p] = b
      OBVIOUS
    <2> HIDE DEF g, new
    <2> QED BY <2>1, <2>2, Fun_IsBij
  <1>5. IsFiniteSet(PlacesNow) /\ IsFiniteSet(Taken)
    <2>1. IsFiniteSet(Ks)
      BY FS_Interval, Sizes DEF Ks
    <2>2. IsFiniteSet(Inodes \X Ks)
      BY <2>1, FS_Product, FiniteAssumption
    <2>3. PlacesNow \in SUBSET (Inodes \X Ks) /\ Taken \in SUBSET Procs
      BY DEF PlacesNow, Taken
    <2> QED BY <2>2, <2>3, FS_Subset, FiniteAssumption
  <1>6. used = held \cup new
    <2>1. ASSUME NEW b \in used PROVE b \in held \cup new
      <3>1. CASE \E i \in Inodes, k \in Ks : Blk(i, k) = b
        <4>1. PICK i \in Inodes, k \in Ks : Blk(i, k) = b
          BY <3>1
        <4>2. b # 0
          <5>1. used \subseteq Blocks
            BY DEF Inv, Types
          <5> QED BY <5>1 DEF Blocks
        <4>3. <<i, k>> \in PlacesNow
          BY <4>1, <4>2 DEF PlacesNow
        <4>4. b = Place(<<i, k>>[1], <<i, k>>[2])
          BY <1>1, <4>1, <4>3
        <4> QED BY <4>3, <4>4
      <3>2. CASE \E p \in Procs : At(p, "zero") /\ call[p].new = b
        BY <3>2 DEF Taken
      <3> QED BY <1>0, <3>1, <3>2 DEF BlockInv
    <2>2. ASSUME NEW b \in held PROVE b \in used
      BY <1>0, <1>1, <1>2 DEF BlockInv
    <2>3. ASSUME NEW b \in new PROVE b \in used
      BY <1>0 DEF BlockInv, Taken
    <2> QED BY <2>1, <2>2, <2>3
  <1>7. held \cap new = {}
    <2>1. ASSUME NEW x \in PlacesNow, NEW p \in Taken PROVE Place(x[1], x[2]) # call[p].new
      BY <1>0, <1>1, <1>2 DEF BlockInv, Taken
    <2> QED BY <2>1
  <1> HIDE DEF held, new, f, g
  <1>8. IsFiniteSet(held) /\ Cardinality(held) = Cardinality(PlacesNow)
    BY <1>3, <1>5, FS_Bijection DEF ExistsBijection
  <1>9. IsFiniteSet(new) /\ Cardinality(new) = Cardinality(Taken)
    BY <1>4, <1>5, FS_Bijection DEF ExistsBijection
  <1>10. Cardinality(held \cup new) = Cardinality(held) + Cardinality(new)
    <2>1. Cardinality(held \cup new)
             = Cardinality(held) + Cardinality(new) - Cardinality(held \cap new)
      BY <1>8, <1>9, FS_Union
    <2>2. Cardinality(held \cap new) = 0
      BY <1>7, FS_EmptySet, Zenon
    <2>3. Cardinality(held) \in Nat /\ Cardinality(new) \in Nat
      BY <1>8, <1>9, FS_CardinalityType
    <2> QED BY <2>1, <2>2, <2>3
  <1>11. used = held \cup new /\ Cardinality(used) = Cardinality(PlacesNow) + Cardinality(Taken)
    BY <1>6, <1>8, <1>9, <1>10
  <1> QED BY <1>11, PlacesAre DEF BlocksExact, Taken, held, new, Inv

LEMMA BlocksConsistent == Inv => Consistent
  <1> SUFFICES ASSUME Inv PROVE Consistent
    OBVIOUS
  <1>1. TypeOK
    <2>1. \A p \in Procs : call[p].new \in 0 .. NBLOCKS /\ call[p].k \in Nat
      BY Registers DEF Inv
    <2>2. \A p \in Procs : call[p].k <= IF At(p, "write") THEN LastBBLOCK ELSE MAXFILE + 1
      BY DEF Inv, ProcInv, CallInv
    <2>3. LastBBLOCK \in Nat /\ MAXFILE \in Nat
      BY Sizes DEF LastBBLOCK
    <2>4. \A p \in Procs : call[p].k \in 0 .. IF At(p, "write") THEN LastBBLOCK ELSE MAXFILE + 1
      BY <2>1, <2>2, <2>3
    <2> QED BY <2>1, <2>4 DEF Inv, Types, TypeOK, InodeRecords, FileRecords, WordVals
  <1>2. NoHoles
    <2>1. ASSUME NEW i \in Inodes, NEW k \in 0 .. MAXFILE - 1, Freed(i) = 0,
                 k * BSIZE < Inode(i).size
          PROVE  BlockAt(Inode(i), k) # 0
      <3>1. Blk(i, k) # 0
        BY <2>1 DEF Inv, HolesInv
      <3>2. k # MAXFILE
        BY FileKs
      <3> QED BY <2>1, <3>1, <3>2 DEF Blk, Place
    <2>2. OffInv
      BY DEF Inv
    <2> QED BY <2>1, <2>2 DEF NoHoles, OffInv
  <1>3. NothingOnlyInMemory /\ panicked # "freeing free block"
    BY DEF Inv
  <1> QED BY <1>1, <1>2, <1>3, BlocksCount DEF Consistent

-----------------------------------------------------------------------------
(* The theorems *)

\* The bitmap says of exactly the blocks that files have, and those that balloc() has
\* just taken, that they are used, and no block is in two places; the cache of inodes
\* is write-through; files have no holes; no offset is beyond the end; bfree() never
\* panics.  So whatever processes open, share, write, unlink and close, wherever the
\* power fails.
THEOREM Consistency == Spec => []Consistent
  <1> QED BY Invariance, BlocksConsistent, PTL

\* No call of filewrite(), unlink() or fileclose() logs more blocks than begin_op()
\* reserved for it.
THEOREM Reservation == Spec => []WithinReservation
  <1> QED BY Invariance, LogsFit, PTL

-----------------------------------------------------------------------------
(* The bytes of files *)

\* Byte j of a file with inode ip and words d.
ByteIn(d, ip, j) == d[Word(d, ip, (j - 1) \div BSIZE)][(j - 1) % BSIZE]
BytesIn(d, ip) == [j \in 1 .. ip.size |-> ByteIn(d, ip, j)]

Longer(a, b) == IF b > a THEN b ELSE a

\* A write in progress: what is left of the chunk is what comes next of the call, and the
\* file is what it was before the chunk, with the bytes up to here over it.
ChunkInv(p) ==
    /\ At(p, "begin") \/ Writing(p) <=> call[p].todo # <<>>
    /\ Writing(p) =>
         LET c == call[p]
             o == file[fd[p]].off
             ip == mem[Ip(p)]
         IN  /\ (c.off - o) + Len(c.src) = Min2(Chunk, Len(c.todo))
             /\ \A k \in 1 .. Len(c.src) : c.src[k] = c.todo[(c.off - o) + k]
             /\ o <= Len(c.before) /\ ip.nlink = disk[Ip(p)].nlink
             /\ ip.size = IF c.src = <<>> THEN Longer(Len(c.before), c.off) ELSE Len(c.before)
             /\ \A j \in 1 .. Longer(Len(c.before), c.off) :
                   ByteIn(data, ip, j) =
                      IF j > o /\ j <= c.off THEN c.todo[j - o] ELSE c.before[j]
Chunks == \A p \in Procs : ChunkInv(p)

\* What the abstract file i contains, in terms of who has it locked.
BytesInv ==
    \A i \in Inodes :
      /\ \A p \in Procs : Writing(p) /\ Ip(p) = i => Bytes(i) = call[p].before
      /\ \A p \in Procs : At(p, "trunc") /\ Ip(p) = i => Bytes(i) = <<>>
      /\ ~Locked(i) => Bytes(i) = BytesIn(data, disk[i])

LEMMA ContentsIs ==
  /\ \A i : Contents(mem[i]) = BytesIn(data, mem[i])
  /\ \A i : Contents(disk[i]) = BytesIn(data, disk[i])
  BY Places DEF Contents, BytesIn, ByteIn, BlockAt, Word, Indirect

LEMMA BytesAre == LockInv => BytesInv
  <1> SUFFICES ASSUME LockInv, NEW i \in Inodes
               PROVE  /\ \A p \in Procs : Writing(p) /\ Ip(p) = i => Bytes(i) = call[p].before
                      /\ \A p \in Procs : At(p, "trunc") /\ Ip(p) = i => Bytes(i) = <<>>
                      /\ ~Locked(i) => Bytes(i) = BytesIn(data, disk[i])
    BY DEF BytesInv
  <1> DEFINE W(p) == Ip(p) = i /\ call[p].pc \in {"write", "zero"}
  <1>1. ASSUME NEW p \in Procs, Writing(p), Ip(p) = i PROVE Bytes(i) = call[p].before
    <2>1. W(p) /\ \A q \in Procs : W(q) => q = p
      BY <1>1 DEF Writing, LockInv, Holds
    <2>2. (CHOOSE q \in Procs : W(q)) = p
      BY <2>1
    <2> QED BY <2>1, <2>2 DEF Bytes
  <1>2. ASSUME NEW p \in Procs, At(p, "trunc"), Ip(p) = i PROVE Bytes(i) = <<>>
    <2>1. \A q \in Procs : ~W(q)
      BY <1>2 DEF At, LockInv, Holds
    <2>2. Locked(i)
      BY <1>2 DEF Locked, At
    <2> QED BY <2>1, <2>2 DEF Bytes
  <1>3. ASSUME ~Locked(i) PROVE Bytes(i) = BytesIn(data, disk[i])
    <2>1. \A q \in Procs : ~W(q)
      BY <1>3 DEF Locked
    <2> QED BY <1>3, <2>1, ContentsIs DEF Bytes
  <1> QED BY <1>1, <1>2, <1>3

LEMMA BytesAreNext == LockInv' => BytesInv'
  BY BytesAre, PTL

\* A step that leaves the blocks of a file alone leaves its bytes alone.
Untouched(i) ==
    /\ Inode(i)' = Inode(i)
    /\ \A k \in Ks : Blk(i, k) # 0 => data'[Blk(i, k)] = data[Blk(i, k)]

LEMMA SameByte ==
  ASSUME NEW i \in Inodes, Untouched(i), Freed(i) = 0, NEW j \in Nat, j > 0,
         j <= MAXFILE * BSIZE, Blk(i, (j - 1) \div BSIZE) # 0
  PROVE  ByteIn(data', Inode(i), j) = ByteIn(data, Inode(i), j)
  <1> DEFINE k == (j - 1) \div BSIZE
  <1>1. k \in 0 .. MAXFILE - 1
    <2>1. j - 1 \in Nat /\ j - 1 < MAXFILE * BSIZE
      <3>1. MAXFILE * BSIZE \in Nat
        BY Sizes
      <3> QED BY <3>1
    <2> QED BY <2>1, ByteIsIn
  <1> HIDE DEF k
  <1>2. k \in Ks /\ MAXFILE \in Ks /\ k # MAXFILE /\ k >= 0 /\ MAXFILE >= 0
    BY <1>1, FileKs, Sizes
  <1>3. /\ Blk(i, k) = Word(data, Inode(i), k)
        /\ Blk(i, MAXFILE) = Inode(i).addrs[NDIRECT]
    BY <1>2, Places DEF Blk, PlaceIn
  <1>4. Word(data', Inode(i), k) = Word(data, Inode(i), k)
    BY <1>2, <1>3 DEF Untouched, Word
  <1>5. data'[Blk(i, k)] = data[Blk(i, k)]
    BY <1>2 DEF Untouched, k
  <1> QED BY <1>3, <1>4, <1>5 DEF ByteIn, k

\* Every byte of a file is in a block.
LEMMA ByteHasBlock ==
  ASSUME Inv, NEW i \in Inodes, Freed(i) = 0, NEW j \in Nat, j > 0, j <= Inode(i).size
  PROVE  j <= MAXFILE * BSIZE /\ Blk(i, (j - 1) \div BSIZE) # 0
  <1> DEFINE k == (j - 1) \div BSIZE
             n == MAXFILE * BSIZE
  <1>1. n \in Nat /\ Inode(i).size \in Nat /\ Inode(i).size <= n
    <2>1. n \in Nat
      BY Sizes
    <2>2. Inode(i) \in InodeRecords
      BY InodeIs DEF Inv
    <2> QED BY <2>1, <2>2 DEF InodeRecords
  <1>2. k \in 0 .. MAXFILE - 1 /\ k * BSIZE <= j - 1
    <2>1. j - 1 \in Nat /\ j - 1 < n
      BY <1>1
    <2> QED BY <2>1, ByteIsIn
  <1> HIDE DEF k
  <1>3. k * BSIZE < Inode(i).size
    <2>1. k * BSIZE \in Int
      BY <1>2, TimesNext
    <2> QED BY <1>1, <1>2, <2>1
  <1>4. Blk(i, k) # 0
    BY <1>2, <1>3 DEF Inv, HolesInv
  <1> QED BY <1>1, <1>4 DEF k

LEMMA SameBytes ==
  ASSUME Inv, NEW i \in Inodes, Untouched(i), Freed(i) = 0
  PROVE  BytesIn(data', Inode(i)) = BytesIn(data, Inode(i))
  <1>1. Inode(i).size \in Nat
    BY InodeIs DEF Inv
  <1>2. ASSUME NEW j \in 1 .. Inode(i).size
        PROVE  ByteIn(data', Inode(i), j) = ByteIn(data, Inode(i), j)
    <2>1. j \in Nat /\ j > 0 /\ j <= Inode(i).size
      BY <1>1
    <2> QED BY <2>1, ByteHasBlock, SameByte
  <1> QED BY <1>2 DEF BytesIn

LEMMA Lengths ==
  ASSUME Types, NEW p \in Procs
  PROVE  /\ call[p].off \in Nat /\ Len(call[p].before) \in Nat /\ Len(call[p].src) \in Nat
         /\ Len(call[p].todo) \in Nat /\ MAXFILE * BSIZE \in Nat
  <1>1. call[p].before \in Seq(WordVals) /\ call[p].src \in Seq(Vals)
        /\ call[p].todo \in Seq(Vals) /\ call[p].off \in Nat
    BY Registers
  <1>2. MAXFILE * BSIZE \in Nat
    BY Sizes
  <1> QED BY <1>1, <1>2

\* The blocks that a chunk in progress has bytes in.
LEMMA ChunkHasBlocks ==
  ASSUME Inv, NEW p \in Procs, Writing(p), ChunkInv(p), NEW j \in Nat, j > 0,
         j <= Longer(Len(call[p].before), call[p].off)
  PROVE  j <= MAXFILE * BSIZE /\ Blk(Ip(p), (j - 1) \div BSIZE) # 0
  <1> DEFINE k == (j - 1) \div BSIZE
             n == MAXFILE * BSIZE
  <1>0. Ip(p) \in Inodes
    BY WriterIs DEF Inv, ProcInv
  <1>1. /\ Inode(Ip(p)) = mem[Ip(p)] /\ Freed(Ip(p)) = 0 /\ WriteInv(p)
        /\ \A l \in Ks : Blk(Ip(p), l) = PlaceIn(data, mem[Ip(p)], l)
    BY <1>0, Writer
  <1>2. /\ n \in Nat /\ call[p].off \in Nat /\ Len(call[p].src) \in Nat
        /\ Len(call[p].before) \in Nat
    BY Lengths DEF Inv
  <1>3. CASE j <= Len(call[p].before)
    <2>1. j <= mem[Ip(p)].size
      BY <1>2, <1>3 DEF ChunkInv, Longer
    <2> QED BY <1>0, <1>1, <2>1, ByteHasBlock
  <1>4. CASE j <= call[p].off
    <2>1. call[p].off + Len(call[p].src) <= n
      BY <1>1 DEF WriteInv
    <2>2. j - 1 \in Nat /\ j - 1 < n /\ j <= n
      BY <1>2, <1>4, <2>1
    <2>3. k \in 0 .. MAXFILE - 1 /\ k * BSIZE <= j - 1
      BY <2>2, ByteIsIn
    <2> HIDE DEF k
    <2>4. k * BSIZE < call[p].off
      <3>1. k * BSIZE \in Int
        BY <2>3, TimesNext
      <3> QED BY <1>2, <1>4, <2>2, <2>3, <3>1
    <2>5. BlockAt(mem[Ip(p)], k) # 0
      BY <1>1, <2>3, <2>4 DEF WriteInv
    <2>6. k \in Ks /\ k # MAXFILE
      BY <2>3, FileKs
    <2>7. Blk(Ip(p), k) = BlockAt(mem[Ip(p)], k)
      BY <1>1, <2>6, Places DEF PlaceIn
    <2> QED BY <2>2, <2>5, <2>7 DEF k
  <1>5. j <= Len(call[p].before) \/ j <= call[p].off
    BY DEF Longer
  <1> QED BY <1>3, <1>4, <1>5

\* A chunk of q goes on after a step of another process.
LEMMA ChunkStays ==
  ASSUME Inv, NEW q \in Procs, ChunkInv(q), call'[q] = call[q],
         Writing(q) => /\ fd'[q] = fd[q] /\ file'[fd[q]] = file[fd[q]]
                       /\ mem'[Ip(q)] = mem[Ip(q)] /\ disk'[Ip(q)] = disk[Ip(q)]
                       /\ Untouched(Ip(q))
  PROVE  ChunkInv(q)'
  <1>1. /\ Ip(q)' = Ip(q)
        /\ At(q, "begin")' <=> At(q, "begin")
        /\ Writing(q)' <=> Writing(q)
    BY DEF Ip, At, Writing
  <1>2. CASE ~Writing(q)
    BY <1>1, <1>2 DEF ChunkInv
  <1>3. CASE Writing(q)
    <2>1. /\ Ip(q) \in Inodes /\ Inode(Ip(q)) = mem[Ip(q)] /\ Freed(Ip(q)) = 0
          /\ call[q].off \in Nat /\ Len(call[q].before) \in Nat
      BY <1>3, WriterIs, Lengths DEF Inv, ProcInv
    <2>2. ASSUME NEW j \in 1 .. Longer(Len(call[q].before), call[q].off)
          PROVE  ByteIn(data', mem[Ip(q)], j) = ByteIn(data, mem[Ip(q)], j)
      <3>1. Longer(Len(call[q].before), call[q].off) \in Nat
        BY <2>1 DEF Longer
      <3>2. j \in Nat /\ j > 0 /\ j <= Longer(Len(call[q].before), call[q].off)
        BY <3>1
      <3> QED BY <1>3, <2>1, <3>2, ChunkHasBlocks, SameByte
    <2> QED BY <1>1, <1>3, <2>2 DEF ChunkInv
  <1> QED BY <1>2, <1>3

\* What a step of p does to other processes and files.
LEMMA OthersFiles ==
  ASSUME Inv, Inv', Chunks, NEW p \in Procs, NEW i \in Inodes \cup {None}, Apart(p, i),
         FilesStay(p),
         \A j \in Inodes \ {i}, k \in Ks : Blk(j, k) # 0 => data'[Blk(j, k)] = data[Blk(j, k)]
  PROVE  /\ \A q \in Procs \ {p} : ChunkInv(q)'
         /\ \A j \in Inodes \ {i} : Bytes(j)' = Bytes(j)
  <1>0. LockInv /\ LockInv' /\ BytesInv /\ BytesInv'
    <2>1. LockInv /\ LockInv'
      BY DEF Inv
    <2> QED BY <2>1, BytesAre, BytesAreNext
  <1>1. \A q \in Procs \ {p} : call'[q] = call[q] /\ (Holds(q) => Ip(q) # i)
    BY DEF Apart
  <1>2. \A j \in Inodes \ {i} : /\ Locked(j)' <=> Locked(j)
                                /\ Freed(j)' = Freed(j) /\ Inode(j)' = Inode(j)
                                /\ mem'[j] = mem[j] /\ disk'[j] = disk[j] /\ Untouched(j)
    <2>1. \A j \in Inodes \ {i} : /\ Locked(j)' <=> Locked(j)
                                  /\ Freed(j)' = Freed(j) /\ Inode(j)' = Inode(j)
      BY <1>0, OthersLocks
    <2> QED BY <2>1 DEF Apart, Untouched
  <1>3. ASSUME NEW q \in Procs \ {p} PROVE ChunkInv(q)'
    <2>1. Writing(q) => Ip(q) \in Inodes \ {i}
      BY <1>1, WriterIs DEF Inv, ProcInv
    <2>2. ChunkInv(q)
      BY DEF Chunks
    <2> QED BY <1>1, <1>2, <2>1, <2>2, ChunkStays DEF FilesStay
  <1>4. ASSUME NEW j \in Inodes \ {i} PROVE Bytes(j)' = Bytes(j)
    <2>1. CASE Locked(j)
      <3>1. PICK q \in Procs : Holds(q) /\ Ip(q) = j
        BY <2>1 DEF Locked, Holds
      <3>2. q # p
        BY <3>1 DEF Apart
      <3>3. Holds(q)' /\ Ip(q)' = j /\ (Writing(q)' <=> Writing(q))
            /\ (At(q, "trunc")' <=> At(q, "trunc"))
        BY <1>1, <3>1, <3>2 DEF Holds, Ip, Writing, At
      <3>4. Writing(q) \/ At(q, "trunc")
        BY <3>1 DEF Holds, Writing, At
      <3>5. CASE Writing(q)
        BY <1>0, <1>1, <3>1, <3>2, <3>3, <3>5 DEF BytesInv
      <3>6. CASE At(q, "trunc")
        BY <1>0, <1>1, <3>1, <3>2, <3>3, <3>6 DEF BytesInv
      <3> QED BY <3>4, <3>5, <3>6
    <2>2. CASE ~Locked(j)
      <3>1. Inode(j) = disk[j] /\ Freed(j) = 0
        BY <2>2, OnDisk
      <3>2. BytesIn(data', disk[j]) = BytesIn(data, disk[j])
        BY <1>2, <3>1, SameBytes
      <3>3. Bytes(j) = BytesIn(data, disk[j])
        BY <1>0, <2>2 DEF BytesInv
      <3>4. Bytes(j)' = BytesIn(data', disk'[j])
        BY <1>0, <1>2, <2>2 DEF BytesInv
      <3> QED BY <1>2, <3>2, <3>3, <3>4
    <2> QED BY <2>1, <2>2
  <1> QED BY <1>3, <1>4

-----------------------------------------------------------------------------
(* Steps of the abstract files *)

FilesStep == Bytewise!FilesNext \/ UNCHANGED Bytewise!FilesVars

LEMMA SameContents ==
  ASSUME \A i \in Inodes : Bytes(i)' = Bytes(i)
  PROVE  [i \in Inodes |-> Bytes(i)]' = [i \in Inodes |-> Bytes(i)]
  OBVIOUS

LEMMA Stutter ==
  ASSUME \A i \in Inodes : Bytes(i)' = Bytes(i), fd' = fd, file' = file,
         \A i \in Inodes : disk'[i].nlink > 0 <=> disk[i].nlink > 0,
         \A q \in Procs : call'[q].todo = call[q].todo
  PROVE  FilesStep
  <1>1. [i \in Inodes |-> Bytes(i)]' = [i \in Inodes |-> Bytes(i)]
    BY SameContents
  <1>2. {i \in Inodes : disk[i].nlink > 0}' = {i \in Inodes : disk[i].nlink > 0}
    OBVIOUS
  <1>3. [q \in Procs |-> call[q].todo]' = [q \in Procs |-> call[q].todo]
    OBVIOUS
  <1> QED BY <1>1, <1>2, <1>3 DEF FilesStep, Bytewise!FilesVars

LEMMA IdleChunk ==
  ASSUME NEW p \in Procs, call'[p] = Idle
  PROVE  ChunkInv(p)'
  <1>1. ~Writing(p)' /\ ~At(p, "begin")' /\ call'[p].todo = <<>>
    BY IdleIs DEF Writing, At
  <1> QED BY <1>1 DEF ChunkInv

\* A step that touches no inode, block or file.
LEMMA NothingTouched ==
  ASSUME Inv, Inv', Chunks, NEW p \in Procs, ~Holds(p), ~Holds(p)', FilesStay(p),
         \A q \in Procs \ {p} : call'[q] = call[q],
         mem' = mem, disk' = disk, data' = data
  PROVE  /\ \A q \in Procs \ {p} : ChunkInv(q)'
         /\ \A j \in Inodes : Bytes(j)' = Bytes(j)
  <1>1. Apart(p, None)
    BY ApartNone
  <1>2. None \notin Inodes
    BY NoneAssumption
  <1> QED BY <1>1, <1>2, OthersFiles

LEMMA DropFiles ==
  ASSUME Inv, Inv', Chunks, NEW p \in Procs, Drop(p)
  PROVE  Chunks' /\ FilesStep
  <1>1. /\ At(p, "drop") /\ call' = [call EXCEPT ![p] = Idle]
        /\ UNCHANGED <<used, data, disk, mem, fd, file>>
    BY DEF Drop
  <1>2. call'[p] = Idle /\ \A q \in Procs \ {p} : call'[q] = call[q]
    BY <1>1, Becomes, IdleIs DEF Inv, Types
  <1>3. ~Holds(p) /\ ~Holds(p)' /\ FilesStay(p)
    BY <1>1, <1>2, IdleIs DEF At, Holds, FilesStay
  <1>4. /\ \A q \in Procs \ {p} : ChunkInv(q)'
        /\ \A j \in Inodes : Bytes(j)' = Bytes(j)
    BY <1>1, <1>2, <1>3, NothingTouched
  <1>5. call[p].todo = <<>>
    BY <1>1 DEF Chunks, ChunkInv, Writing, At
  <1>6. FilesStep
    <2>1. \A q \in Procs : call'[q].todo = call[q].todo
      BY <1>2, <1>5, IdleIs
    <2> QED BY <1>1, <1>4, <2>1, Stutter
  <1> QED BY <1>2, <1>4, <1>6, IdleChunk DEF Chunks

\* write() is called.
LEMMA WriteFiles ==
  ASSUME Inv, Inv', Chunks, NEW p \in Procs, NEW s \in Writes, Write(p, s)
  PROVE  Chunks' /\ FilesStep
  <1> DEFINE r == [Idle EXCEPT !.pc = "begin", !.todo = s]
  <1>1. /\ At(p, "user") /\ fd[p] # None /\ call' = [call EXCEPT ![p] = r]
        /\ UNCHANGED <<used, data, disk, mem, ref, fd, file>>
    BY DEF Write
  <1>2. /\ r \in CallRecords /\ r.pc = "begin" /\ r.todo = s /\ s # <<>>
    <2>1. s \in Seq(Vals) /\ s # <<>> /\ "begin" \in Pcs
      BY WritesAssumption DEF Pcs
    <2> QED BY <2>1, IdleIs DEF CallRecords
  <1> HIDE DEF r
  <1>3. call'[p] = r /\ \A q \in Procs \ {p} : call'[q] = call[q]
    BY <1>1, <1>2, Becomes DEF Inv, Types
  <1>4. ~Holds(p) /\ ~Holds(p)' /\ FilesStay(p) /\ ~Writing(p)' /\ At(p, "begin")'
    BY <1>1, <1>2, <1>3 DEF At, Holds, FilesStay, Writing
  <1>5. /\ \A q \in Procs \ {p} : ChunkInv(q)'
        /\ \A j \in Inodes : Bytes(j)' = Bytes(j)
    BY <1>1, <1>3, <1>4, NothingTouched
  <1>6. ChunkInv(p)'
    BY <1>2, <1>3, <1>4 DEF ChunkInv
  <1>7. call[p].todo = <<>>
    BY <1>1 DEF Chunks, ChunkInv, Writing, At
  <1>8. Bytewise!Ask(p)
    <2>1. [i \in Inodes |-> Bytes(i)]' = [i \in Inodes |-> Bytes(i)]
      BY <1>5, SameContents
    <2>2. call'[p].todo = s /\ \A q \in Procs \ {p} : call'[q].todo = call[q].todo
      BY <1>2, <1>3
    <2>3. [q \in Procs |-> call[q].todo]' = [[q \in Procs |-> call[q].todo] EXCEPT ![p] = s]
      BY <2>2
    <2>4. [q \in Procs |-> call[q].todo]'[p] = s /\ [q \in Procs |-> call[q].todo][p] = <<>>
      BY <1>7, <2>2
    <2> QED BY <1>1, <1>2, <2>1, <2>3, <2>4 DEF Bytewise!Ask
  <1>9. Bytewise!FilesNext
    BY <1>8 DEF Bytewise!FilesNext
  <1> QED BY <1>5, <1>6, <1>9 DEF Chunks, FilesStep

LEMMA ForkFiles ==
  ASSUME Inv, Inv', Chunks, NEW p \in Procs, NEW q \in Procs, Fork(p, q)
  PROVE  Chunks' /\ FilesStep
  <1>1. /\ At(p, "user") /\ fd[p] # None /\ At(q, "user") /\ fd[q] = None
        /\ fd' = [fd EXCEPT ![q] = fd[p]]
        /\ UNCHANGED <<used, data, disk, mem, ref, file, call>>
    BY DEF Fork
  <1>2. /\ ~Holds(q) /\ ~Holds(q)'
        /\ \A r \in Procs \ {q} : call'[r] = call[r]
    BY <1>1 DEF At, Holds
  <1>3. FilesStay(q)
    BY <1>1 DEF FilesStay, Inv, Types
  <1>4. /\ \A r \in Procs \ {q} : ChunkInv(r)'
        /\ \A j \in Inodes : Bytes(j)' = Bytes(j)
    BY <1>1, <1>2, <1>3, NothingTouched
  <1>5. ChunkInv(q)'
    BY <1>1 DEF Chunks, ChunkInv, Writing, At
  <1>6. Bytewise!Share(p, q)
    <2>1. [i \in Inodes |-> Bytes(i)]' = [i \in Inodes |-> Bytes(i)]
      BY <1>4, SameContents
    <2> QED BY <1>1, <2>1 DEF Bytewise!Share
  <1>7. Bytewise!FilesNext
    BY <1>6 DEF Bytewise!FilesNext
  <1> QED BY <1>4, <1>5, <1>7 DEF Chunks, FilesStep

LEMMA CloseFiles ==
  ASSUME Inv, Inv', Chunks, NEW p \in Procs, Close(p)
  PROVE  Chunks' /\ FilesStep
  <1> DEFINE f == fd[p]
             i == file[f].ip
             last == \A q \in Procs \ {p} : fd[q] # f
             r == [Idle EXCEPT !.pc = "put", !.ip = i]
  <1>1. /\ At(p, "user") /\ f # None /\ UNCHANGED <<used, data, disk, mem, ref>>
        /\ fd' = [fd EXCEPT ![p] = None]
        /\ file' = [file EXCEPT ![f] = [file[f] EXCEPT !.ip = IF last THEN None ELSE i]]
        /\ call' = [call EXCEPT ![p] = IF last THEN r ELSE call[p]]
    BY DEF Close
  <1>2. /\ f \in Files /\ file \in [Files -> FileRecords] /\ fd \in [Procs -> Files \cup {None}]
        /\ call \in [Procs -> CallRecords] /\ call[p] = Idle
    BY <1>1 DEF Inv, Types, CallType, ProcInv, CallInv
  <1>3. /\ r.pc = "put" /\ r.todo = <<>>
    BY IdleIs DEF Idle
  <1> HIDE DEF r
  <1>4. /\ \A q \in Procs \ {p} : call'[q] = call[q]
        /\ call'[p].pc \in {"user", "put"} /\ call'[p].todo = <<>>
    BY <1>1, <1>2, <1>3, IdleIs
  <1>5. ~Holds(p) /\ ~Holds(p)' /\ ChunkInv(p)'
    <2>1. ~Holds(p) /\ ~Holds(p)' /\ ~At(p, "begin")' /\ ~Writing(p)'
      BY <1>1, <1>4 DEF At, Holds, Writing
    <2> QED BY <1>4, <2>1 DEF ChunkInv
  <1>6. /\ \A g \in Files \ {f} : file'[g] = file[g]
        /\ file'[f].off = file[f].off /\ file'[f].ip = IF last THEN None ELSE i
        /\ ~last => file'[f] = file[f]
    <2>1. /\ \A g \in Files \ {f} : file'[g] = file[g]
          /\ file'[f] = [file[f] EXCEPT !.ip = IF last THEN None ELSE i]
      <3> HIDE DEF f, last
      <3> QED BY <1>1, <1>2
    <2>2. file[f] \in FileRecords
      BY <1>2
    <2>3. ~last => [file[f] EXCEPT !.ip = IF last THEN None ELSE i] = file[f]
      BY <2>2 DEF FileRecords
    <2> HIDE DEF last, f, i
    <2> QED BY <2>1, <2>2, <2>3 DEF FileRecords
  <1>7. FilesStay(p)
    <2>1. \A q \in Procs \ {p} : fd'[q] = fd[q]
      BY <1>1, <1>2
    <2>2. ASSUME NEW q \in Procs \ {p}, Writing(q) PROVE file'[fd[q]] = file[fd[q]]
      <3>1. fd[q] \in Files
        BY <2>2, WriterIs DEF Inv, ProcInv
      <3>2. fd[q] = f => ~last
        OBVIOUS
      <3> HIDE DEF f, last
      <3> QED BY <1>6, <3>1, <3>2
    <2> QED BY <2>1, <2>2 DEF FilesStay
  <1>8. /\ \A q \in Procs \ {p} : ChunkInv(q)'
        /\ \A j \in Inodes : Bytes(j)' = Bytes(j)
    BY <1>1, <1>4, <1>5, <1>7, NothingTouched
  <1>9. Bytewise!Close(p)
    <2>1. [j \in Inodes |-> Bytes(j)]' = [j \in Inodes |-> Bytes(j)]
      BY <1>8, SameContents
    <2>2. call[p].todo = <<>> /\ \A q \in Procs : call'[q].todo = call[q].todo
      BY <1>2, <1>4, IdleIs
    <2>3. [q \in Procs |-> call[q].todo]' = [q \in Procs |-> call[q].todo]
      BY <2>2
    <2>4. [g \in Files |-> file[g].ip]' =
             [[g \in Files |-> file[g].ip] EXCEPT ![f] = IF last THEN None ELSE @]
      <3> HIDE DEF last
      <3>1. \A g \in Files : file'[g].ip = IF g = f THEN IF last THEN None ELSE i ELSE file[g].ip
        BY <1>6
      <3> QED BY <1>2, <3>1
    <2>5. [g \in Files |-> file[g].off]' = [g \in Files |-> file[g].off]
      <3>1. \A g \in Files : file'[g].off = file[g].off
        BY <1>6
      <3> QED BY <3>1
    <2>6. {j \in Inodes : disk[j].nlink > 0}' = {j \in Inodes : disk[j].nlink > 0}
      BY <1>1
    <2> QED BY <1>1, <1>2, <2>1, <2>2, <2>3, <2>4, <2>5, <2>6 DEF Bytewise!Close
  <1>10. Bytewise!FilesNext
    BY <1>9 DEF Bytewise!FilesNext
  <1> QED BY <1>5, <1>8, <1>10 DEF Chunks, FilesStep

\* fileread() moves the offset within the file.
LEMMA ReadFiles ==
  ASSUME Inv, Inv', Chunks, NEW p \in Procs, NEW n \in Reads, Read(p, n)
  PROVE  Chunks' /\ FilesStep
  <1> DEFINE f == fd[p]
             i == file[f].ip
             o == Min2(Off(p) + n, mem[i].size)
  <1>1. /\ At(p, "user") /\ f # None /\ ~Locked(i) /\ Off(p) <= mem[i].size
        /\ file' = [file EXCEPT ![f] = [file[f] EXCEPT !.off = o]]
        /\ UNCHANGED <<used, data, disk, mem, ref, fd, call>>
    BY DEF Read
  <1>2. /\ f \in Files /\ file \in [Files -> FileRecords] /\ i # None /\ i \in Inodes
        /\ file[f] \in FileRecords
    BY <1>1 DEF Inv, Types, FileInv, FileRecords
  <1>3. mem[i] = disk[i] /\ mem[i].size \in Nat /\ Off(p) \in Nat /\ n \in Nat
    <2>1. ref[i] \in Nat /\ ref[i] >= 1
      BY <1>2, OpenIsReferred DEF Inv
    <2>2. Inode(i) = disk[i] /\ mem[i] = disk[i]
      <3>1. NothingOnlyInMemory
        BY DEF Inv
      <3>2. ref[i] > 0
        BY <2>1
      <3>3. mem[i] = disk[i]
        BY <1>1, <1>2, <3>1, <3>2 DEF NothingOnlyInMemory
      <3> QED BY <1>1, <1>2, <3>3, OnDisk
    <2>3. mem[i].size \in Nat
      BY <1>2, <2>2, InodeIs DEF Inv
    <2>4. Off(p) \in Nat
      BY <1>2, Sizes DEF Off, FileRecords
    <2> QED BY <2>2, <2>3, <2>4, WritesAssumption
  <1>4. o \in Off(p) .. mem[i].size
    BY <1>1, <1>3 DEF Min2
  <1> HIDE DEF o
  <1>5. /\ \A g \in Files \ {f} : file'[g] = file[g]
        /\ file'[f].ip = i /\ file'[f].off = o
    <2>1. \A g \in Files \ {f} : file'[g] = file[g]
      BY <1>1, <1>2
    <2>2. file'[f] = [file[f] EXCEPT !.off = o]
      BY <1>1, <1>2
    <2> QED BY <1>2, <2>1, <2>2 DEF FileRecords
  <1>6. ~Holds(p) /\ ~Holds(p)' /\ ChunkInv(p)'
    <2>1. ~Holds(p) /\ ~Holds(p)' /\ ~At(p, "begin")' /\ ~Writing(p)' /\ call'[p] = call[p]
      BY <1>1 DEF At, Holds, Writing
    <2>2. call[p].todo = <<>>
      BY <1>1 DEF Chunks, ChunkInv, Writing, At
    <2> QED BY <2>1, <2>2 DEF ChunkInv
  <1>7. FilesStay(p)
    <2>1. ASSUME NEW q \in Procs \ {p}, Writing(q) PROVE file'[fd[q]] = file[fd[q]]
      <3>1. fd[q] \in Files /\ Ip(q) = file[fd[q]].ip /\ Locked(Ip(q))
        BY <2>1, WriterIs DEF Inv, ProcInv, WriteInv
      <3>2. fd[q] # f
        BY <1>1, <3>1
      <3> QED BY <1>5, <3>1, <3>2
    <2> QED BY <1>1, <2>1 DEF FilesStay
  <1>8. /\ \A q \in Procs \ {p} : ChunkInv(q)'
        /\ \A j \in Inodes : Bytes(j)' = Bytes(j)
    BY <1>1, <1>6, <1>7, NothingTouched
  <1>9. Len(Bytes(i)) = mem[i].size
    <2>1. LockInv
      BY DEF Inv
    <2>2. Bytes(i) = BytesIn(data, disk[i])
      BY <1>1, <1>2, <2>1, BytesAre DEF BytesInv
    <2> QED BY <1>3, <2>2 DEF BytesIn
  <1>10. Bytewise!Read(p)
    <2>1. [j \in Inodes |-> Bytes(j)]' = [j \in Inodes |-> Bytes(j)]
      BY <1>8, SameContents
    <2>2. [g \in Files |-> file[g].ip]' = [g \in Files |-> file[g].ip]
      <3>1. \A g \in Files : file'[g].ip = file[g].ip
        BY <1>5
      <3> QED BY <3>1
    <2>3. /\ [g \in Files |-> file[g].off]' = [[g \in Files |-> file[g].off] EXCEPT ![f] = o]
          /\ [g \in Files |-> file[g].off]'[f] = o
          /\ [g \in Files |-> file[g].off][f] = Off(p)
          /\ [g \in Files |-> file[g].ip][f] = i
          /\ [j \in Inodes |-> Bytes(j)][i] = Bytes(i)
      <3>1. \A g \in Files : file'[g].off = IF g = f THEN o ELSE file[g].off
        BY <1>5
      <3> QED BY <1>2, <3>1 DEF Off
    <2>4. {j \in Inodes : disk[j].nlink > 0}' = {j \in Inodes : disk[j].nlink > 0}
          /\ [q \in Procs |-> call[q].todo]' = [q \in Procs |-> call[q].todo]
      BY <1>1
    <2>5. o \in Off(p) .. Len(Bytes(i))
      BY <1>4, <1>9
    <2> QED BY <1>1, <2>1, <2>2, <2>3, <2>4, <2>5 DEF Bytewise!Read
  <1>11. Bytewise!FilesNext
    BY <1>10 DEF Bytewise!FilesNext
  <1> QED BY <1>6, <1>8, <1>11 DEF Chunks, FilesStep

\* The abstract position of a file that is opened.
LEMMA OpeningFiles ==
  ASSUME Inv, NEW p \in Procs, NEW f \in Files, NEW i \in Inodes, OpenFile(p, f, i)
  PROVE  /\ [g \in Files |-> file[g].ip]' = [[g \in Files |-> file[g].ip] EXCEPT ![f] = i]
         /\ [g \in Files |-> file[g].off]' = [[g \in Files |-> file[g].off] EXCEPT ![f] = 0]
         /\ fd' = [fd EXCEPT ![p] = f] /\ \A q \in Procs : fd[q] # f
  <1>1. file \in [Files -> FileRecords] /\ file' = [file EXCEPT ![f] = [ip |-> i, off |-> 0]]
    BY DEF Inv, Types, OpenFile
  <1>2. \A g \in Files : file'[g] = IF g = f THEN [ip |-> i, off |-> 0] ELSE file[g]
    BY <1>1
  <1>3. \A g \in Files : /\ file'[g].ip = IF g = f THEN i ELSE file[g].ip
                         /\ file'[g].off = IF g = f THEN 0 ELSE file[g].off
    BY <1>2
  <1> QED BY <1>3 DEF OpenFile

LEMMA OpenFiles ==
  ASSUME Inv, Inv', Chunks, NEW p \in Procs, NEW f \in Files, NEW i \in Inodes, Open(p, f, i)
  PROVE  Chunks' /\ FilesStep
  <1>1. /\ At(p, "user") /\ fd[p] = None /\ disk[i].nlink > 0 /\ OpenFile(p, f, i)
        /\ mem' = [mem EXCEPT ![i] = Cached(i)] /\ UNCHANGED <<used, data, disk, call>>
    BY DEF Open
  <1>2. FilesStay(p) /\ ~Holds(p) /\ ~Holds(p)'
    <2>1. disk[i].type = "file"
      BY <1>1, Linked
    <2> QED BY <1>1, <2>1, Opening
  <1>3. mem \in [Inodes -> InodeRecords]
    BY DEF Inv, Types
  <1>4. ChunkInv(p)'
    BY <1>1 DEF Chunks, ChunkInv, Writing, At
  <1>5. /\ \A q \in Procs \ {p} : ChunkInv(q)'
        /\ \A j \in Inodes : Bytes(j)' = Bytes(j)
    <2>1. CASE Locked(i)
      <3>1. PICK q \in Procs : Holds(q) /\ Ip(q) = i
        BY <2>1 DEF Locked, Holds
      <3>2. ref[i] \in Nat /\ ref[i] >= 1
        BY <3>1, HolderRefers
      <3>3. Cached(i) = mem[i]
        BY <3>2 DEF Cached
      <3>4. mem' = mem
        BY <1>1, <1>3, <3>3
      <3> QED BY <1>1, <1>2, <3>4, NothingTouched
    <2>2. CASE ~Locked(i)
      <3>1. Apart(p, i)
        BY <1>1, <1>2, <1>3, <2>2, Unlocked DEF Apart
      <3>2. /\ \A q \in Procs \ {p} : ChunkInv(q)'
            /\ \A j \in Inodes \ {i} : Bytes(j)' = Bytes(j)
        BY <1>1, <1>2, <3>1, OthersFiles
      <3>3. Bytes(i)' = Bytes(i)
        <4>1. ~Locked(i)'
          BY <1>2, <3>1, OwnInode DEF Inv
        <4>2. BytesInv /\ BytesInv'
          BY BytesAre, BytesAreNext DEF Inv
        <4> QED BY <1>1, <2>2, <4>1, <4>2 DEF BytesInv
      <3> QED BY <3>2, <3>3
    <2> QED BY <2>1, <2>2
  <1>6. Bytewise!Open(p, f, i)
    <2>1. [j \in Inodes |-> Bytes(j)]' = [j \in Inodes |-> Bytes(j)]
      BY <1>5, SameContents
    <2>2. {j \in Inodes : disk[j].nlink > 0}' = {j \in Inodes : disk[j].nlink > 0}
          /\ [q \in Procs |-> call[q].todo]' = [q \in Procs |-> call[q].todo]
          /\ i \in {j \in Inodes : disk[j].nlink > 0}
      BY <1>1
    <2>3. /\ [g \in Files |-> file[g].ip]' = [[g \in Files |-> file[g].ip] EXCEPT ![f] = i]
          /\ [g \in Files |-> file[g].off]' = [[g \in Files |-> file[g].off] EXCEPT ![f] = 0]
          /\ fd' = [fd EXCEPT ![p] = f] /\ \A q \in Procs : fd[q] # f
      BY <1>1, OpeningFiles
    <2> QED BY <2>1, <2>2, <2>3 DEF Bytewise!Open, Bytewise!Opened
  <1>7. Bytewise!FilesNext
    BY <1>6 DEF Bytewise!FilesNext
  <1> QED BY <1>4, <1>5, <1>7 DEF Chunks, FilesStep

\* A new file is empty, as the free inode was.
LEMMA Empty ==
  ASSUME NEW d, NEW ip, ip.size = 0
  PROVE  BytesIn(d, ip) = <<>>
  BY DEF BytesIn

LEMMA CreateFiles ==
  ASSUME Inv, Inv', Chunks, NEW p \in Procs, NEW f \in Files, NEW i \in Inodes,
         Create(p, f, i)
  PROVE  Chunks' /\ FilesStep
  <1> DEFINE r == [FreeInode EXCEPT !.type = "file", !.nlink = 1]
  <1>1. /\ At(p, "user") /\ fd[p] = None /\ disk[i].type = "free" /\ OpenFile(p, f, i)
        /\ disk' = [disk EXCEPT ![i] = r] /\ mem' = [mem EXCEPT ![i] = disk'[i]]
        /\ UNCHANGED <<used, data, call>>
    BY DEF Create
  <1>2. r.type = "file" /\ r.size = 0 /\ r.nlink = 1 /\ FreeInode.size = 0 /\ FreeInode.nlink = 0
    BY DEF FreeInode
  <1> HIDE DEF r
  <1>3. mem \in [Inodes -> InodeRecords] /\ disk \in [Inodes -> InodeRecords]
        /\ disk[i] = FreeInode
    BY <1>1 DEF Inv, Types, InodeInv
  <1>4. /\ disk'[i] = r /\ \A j \in Inodes \ {i} : disk'[j] = disk[j] /\ mem'[j] = mem[j]
    BY <1>1, <1>3
  <1>5. FilesStay(p) /\ ~Holds(p) /\ ~Holds(p)'
    BY <1>1, <1>2, <1>4, Opening
  <1>6. ~Locked(i)
    <2>1. \A q \in Procs : Holds(q) => Ip(q) # i
      BY <1>1, HolderRefers
    <2> QED BY <2>1 DEF Locked, Holds
  <1>7. Apart(p, i)
    BY <1>1, <1>4, <1>5, <1>6, Unlocked DEF Apart
  <1>8. /\ \A q \in Procs \ {p} : ChunkInv(q)'
        /\ \A j \in Inodes \ {i} : Bytes(j)' = Bytes(j)
    BY <1>1, <1>5, <1>7, OthersFiles
  <1>9. Bytes(i) = <<>> /\ Bytes(i)' = <<>>
    <2>1. ~Locked(i)'
      BY <1>5, <1>7, OwnInode DEF Inv
    <2>2. BytesInv /\ BytesInv'
      BY BytesAre, BytesAreNext DEF Inv
    <2>3. Bytes(i) = BytesIn(data, disk[i]) /\ Bytes(i)' = BytesIn(data', disk'[i])
      BY <1>6, <2>1, <2>2 DEF BytesInv
    <2> QED BY <1>2, <1>3, <1>4, <2>3, Empty
  <1>10. ChunkInv(p)'
    BY <1>1 DEF Chunks, ChunkInv, Writing, At
  <1>11. Bytewise!Create(p, f, i)
    <2>1. [j \in Inodes |-> Bytes(j)]' = [j \in Inodes |-> Bytes(j)]
      <3>1. \A j \in Inodes : Bytes(j)' = Bytes(j)
        BY <1>8, <1>9
      <3> QED BY <3>1, SameContents
    <2>2. {j \in Inodes : disk[j].nlink > 0}' = {j \in Inodes : disk[j].nlink > 0} \cup {i}
          /\ [q \in Procs |-> call[q].todo]' = [q \in Procs |-> call[q].todo]
          /\ i \notin {j \in Inodes : disk[j].nlink > 0}
      BY <1>1, <1>2, <1>3, <1>4
    <2>3. [j \in Inodes |-> Bytes(j)][i] = <<>>
      BY <1>9
    <2>4. /\ [g \in Files |-> file[g].ip]' = [[g \in Files |-> file[g].ip] EXCEPT ![f] = i]
          /\ [g \in Files |-> file[g].off]' = [[g \in Files |-> file[g].off] EXCEPT ![f] = 0]
          /\ fd' = [fd EXCEPT ![p] = f] /\ \A q \in Procs : fd[q] # f
      BY <1>1, OpeningFiles
    <2> QED BY <2>1, <2>2, <2>3, <2>4 DEF Bytewise!Create, Bytewise!Opened
  <1>12. Bytewise!FilesNext
    BY <1>11 DEF Bytewise!FilesNext
  <1> QED BY <1>8, <1>10, <1>12 DEF Chunks, FilesStep

LEMMA UnlinkFiles ==
  ASSUME Inv, Inv', Chunks, NEW p \in Procs, NEW i \in Inodes, Unlink(p, i)
  PROVE  Chunks' /\ FilesStep
  <1> DEFINE c == [Cached(i) EXCEPT !.nlink = 0]
             r == [Idle EXCEPT !.pc = "put", !.ip = i, !.logged = {<<"directory">>, IBLOCK(i)}]
  <1>1. /\ At(p, "user") /\ disk[i].nlink > 0 /\ ~Locked(i)
        /\ mem' = [mem EXCEPT ![i] = c] /\ disk' = [disk EXCEPT ![i] = mem'[i]]
        /\ call' = [call EXCEPT ![p] = r] /\ UNCHANGED <<used, data, fd, file>>
    BY DEF Unlink
  <1>2. /\ mem \in [Inodes -> InodeRecords] /\ disk \in [Inodes -> InodeRecords]
        /\ call \in [Procs -> CallRecords] /\ Cached(i) = disk[i]
    BY <1>1, OnDisk DEF Inv, Types, CallType
  <1>3. /\ c.nlink = 0 /\ c.size = disk[i].size /\ c.addrs = disk[i].addrs
        /\ r.pc = "put" /\ r.todo = <<>>
    <2>1. disk[i] \in InodeRecords
      BY <1>2
    <2> QED BY <1>2, <2>1, IdleIs DEF InodeRecords, Idle
  <1> HIDE DEF c, r
  <1>4. /\ disk'[i] = c /\ \A j \in Inodes \ {i} : disk'[j] = disk[j] /\ mem'[j] = mem[j]
        /\ call'[p] = r /\ \A q \in Procs \ {p} : call'[q] = call[q]
    BY <1>1, <1>2
  <1>5. ~Holds(p) /\ ~Holds(p)' /\ FilesStay(p) /\ ChunkInv(p)'
    <2>1. ~Holds(p) /\ ~Holds(p)' /\ ~At(p, "begin")' /\ ~Writing(p)'
      BY <1>1, <1>3, <1>4 DEF At, Holds, Writing
    <2> QED BY <1>1, <1>3, <1>4, <2>1 DEF ChunkInv, FilesStay
  <1>6. Apart(p, i)
    BY <1>1, <1>4, <1>5, Unlocked DEF Apart
  <1>7. /\ \A q \in Procs \ {p} : ChunkInv(q)'
        /\ \A j \in Inodes \ {i} : Bytes(j)' = Bytes(j)
    BY <1>1, <1>5, <1>6, OthersFiles
  <1>8. Bytes(i)' = Bytes(i)
    <2>1. ~Locked(i)'
      BY <1>5, <1>6, OwnInode DEF Inv
    <2>2. BytesInv /\ BytesInv'
      BY BytesAre, BytesAreNext DEF Inv
    <2>3. Bytes(i) = BytesIn(data, disk[i]) /\ Bytes(i)' = BytesIn(data', disk'[i])
      BY <1>1, <2>1, <2>2 DEF BytesInv
    <2>4. BytesIn(data', disk'[i]) = BytesIn(data, disk[i])
      <3>1. data' = data /\ disk'[i].size = disk[i].size /\ disk'[i].addrs = disk[i].addrs
        BY <1>1, <1>3, <1>4
      <3>2. ASSUME NEW bn PROVE Word(data', disk'[i], bn) = Word(data, disk[i], bn)
        BY <3>1 DEF Word
      <3>3. ASSUME NEW j PROVE ByteIn(data', disk'[i], j) = ByteIn(data, disk[i], j)
        BY <3>1, <3>2 DEF ByteIn
      <3> QED BY <3>1, <3>3 DEF BytesIn
    <2> QED BY <2>3, <2>4
  <1>9. Bytewise!Unlink(i)
    <2>1. [j \in Inodes |-> Bytes(j)]' = [j \in Inodes |-> Bytes(j)]
      <3>1. \A j \in Inodes : Bytes(j)' = Bytes(j)
        BY <1>7, <1>8
      <3> QED BY <3>1, SameContents
    <2>2. {j \in Inodes : disk[j].nlink > 0}' = {j \in Inodes : disk[j].nlink > 0} \ {i}
          /\ i \in {j \in Inodes : disk[j].nlink > 0}
      BY <1>1, <1>3, <1>4
    <2>3. [q \in Procs |-> call[q].todo]' = [q \in Procs |-> call[q].todo]
      <3>1. call[p].todo = <<>>
        BY <1>1 DEF Chunks, ChunkInv, Writing, At
      <3>2. \A q \in Procs : call'[q].todo = call[q].todo
        BY <1>3, <1>4, <3>1
      <3> QED BY <3>2
    <2> QED BY <1>1, <2>1, <2>2, <2>3 DEF Bytewise!Unlink
  <1>10. Bytewise!FilesNext
    BY <1>9 DEF Bytewise!FilesNext
  <1> QED BY <1>5, <1>7, <1>10 DEF Chunks, FilesStep

LEMMA CrashFiles ==
  ASSUME Inv, Inv', Crash
  PROVE  Chunks' /\ FilesStep
  <1>1. /\ \A q \in Procs : ~Holds(q)
        /\ call' = [q \in Procs |-> Idle] /\ fd' = [q \in Procs |-> None]
        /\ file' = [f \in Files |-> [ip |-> None, off |-> 0]]
        /\ disk' = disk /\ data' = data
    BY DEF Crash, InOp, Holds, At
  <1>2. \A q \in Procs : call'[q] = Idle
    BY <1>1
  <1>3. \A i : ~Locked(i) /\ ~Locked(i)'
    <2>1. \A q \in Procs : call'[q].pc = "user"
      BY <1>2, IdleIs
    <2> QED BY <1>1, <2>1 DEF Locked, Holds
  <1>4. \A i \in Inodes : Bytes(i)' = Bytes(i)
    <2>1. BytesInv /\ BytesInv'
      BY BytesAre, BytesAreNext DEF Inv
    <2> QED BY <1>1, <1>3, <2>1 DEF BytesInv
  <1>5. Bytewise!LosePower
    <2>1. [i \in Inodes |-> Bytes(i)]' = [i \in Inodes |-> Bytes(i)]
      BY <1>4, SameContents
    <2>2. /\ [f \in Files |-> file[f].ip]' = [f \in Files |-> None]
          /\ [f \in Files |-> file[f].off]' = [f \in Files |-> 0]
      BY <1>1
    <2>3. [q \in Procs |-> call[q].todo]' = [q \in Procs |-> <<>>]
      BY <1>2, IdleIs
    <2>4. {i \in Inodes : disk[i].nlink > 0}' = {i \in Inodes : disk[i].nlink > 0}
      BY <1>1
    <2> QED BY <1>1, <2>1, <2>2, <2>3, <2>4 DEF Bytewise!LosePower
  <1>6. Bytewise!FilesNext
    BY <1>5 DEF Bytewise!FilesNext
  <1> QED BY <1>2, <1>6, IdleChunk DEF Chunks, FilesStep

-----------------------------------------------------------------------------
(* filewrite() on the abstract files *)

\* What writei() gets of a call.
LEMMA ChunkIs ==
  ASSUME NEW s \in Seq(Vals)
  PROVE  /\ Chunk \in Nat /\ Chunk >= 1 /\ First(s, Chunk) \in Seq(Vals)
         /\ Len(First(s, Chunk)) = Min2(Chunk, Len(s))
         /\ Len(First(s, Chunk)) \in Nat /\ Len(s) \in Nat /\ Len(First(s, Chunk)) <= Len(s)
         /\ s # <<>> => Len(First(s, Chunk)) >= 1
         /\ \A k \in 1 .. Len(First(s, Chunk)) : First(s, Chunk)[k] = s[k]
  <1>1. Chunk \in Nat /\ Chunk >= 1
    <2>1. (MAXOPBLOCKS - 1 - 1 - 2) \div 2 \in Nat /\ (MAXOPBLOCKS - 1 - 1 - 2) \div 2 >= 1
      BY Sizes
    <2>2. \A x \in Nat : x >= 1 => x * BSIZE \in Nat /\ x * BSIZE >= 1
      BY Sizes
    <2> QED BY <2>1, <2>2 DEF Chunk
  <1>2. First(s, Chunk) \in Seq(Vals) /\ Len(First(s, Chunk)) = Min2(Chunk, Len(s))
    BY <1>1, FirstRest
  <1>3. Len(s) \in Nat /\ (s # <<>> => Len(s) >= 1)
    OBVIOUS
  <1> DEFINE m == Min2(Chunk, Len(s))
  <1>4. m \in Nat /\ m <= Len(s) /\ (s # <<>> => m >= 1)
    BY <1>1, <1>3 DEF Min2
  <1>5. First(s, Chunk) = SubSeq(s, 1, m)
    BY DEF First
  <1> HIDE DEF m
  <1>6. \A k \in 1 .. m : SubSeq(s, 1, m)[k] = s[k]
    BY <1>4
  <1> QED BY <1>1, <1>2, <1>3, <1>4, <1>5, <1>6 DEF m

\* A chunk begins, or a call that would make the file too long ends.
LEMMA IlockFiles ==
  ASSUME Inv, Inv', Chunks, NEW p \in Procs, Ilock(p)
  PROVE  Chunks' /\ FilesStep
  <1> DEFINE src == First(call[p].todo, Chunk)
             o == Off(p)
             n == MAXFILE * BSIZE
  <1>1. /\ At(p, "begin") /\ ~Locked(file[fd[p]].ip)
        /\ UNCHANGED <<used, data, disk, mem, ref, fd, file>>
    BY DEF Ilock
  <1>2. PICK i \in Inodes : i = file[fd[p]].ip
    BY <1>1, Beginning
  <1>3. call' = [call EXCEPT ![p] =
                IF o > mem[i].size \/ o + Len(src) > n
                THEN Idle
                ELSE [call[p] EXCEPT !.pc = "write", !.ip = i, !.off = o, !.src = src,
                                     !.before = Contents(mem[i])]]
    BY <1>2 DEF Ilock
  <1>4. /\ fd[p] \in Files /\ o \in Nat /\ mem[i] \in InodeRecords /\ mem[i] = disk[i]
        /\ call[p].todo \in Seq(Vals) /\ ~Holds(p)
    BY <1>1, <1>2, Beginning
  <1>5. /\ call[p] \in CallRecords /\ call \in [Procs -> CallRecords] /\ n \in Nat
        /\ mem[i].size \in Nat
    <2>1. call[p] \in CallRecords /\ call \in [Procs -> CallRecords]
      BY Registers DEF Inv, Types, CallType
    <2>2. n \in Nat
      BY Sizes
    <2> QED BY <1>4, <2>1, <2>2 DEF InodeRecords
  <1>6. o <= mem[i].size
    <2>1. OffInv /\ Inode(i) = disk[i]
      BY <1>1, <1>2, OnDisk DEF Inv
    <2> QED BY <1>2, <1>4, <2>1, NoneAssumption DEF OffInv, Off
  <1>7. call[p].todo # <<>>
    BY <1>1 DEF Chunks, ChunkInv
  <1>8. /\ src \in Seq(Vals) /\ Len(src) = Min2(Chunk, Len(call[p].todo))
        /\ Len(src) \in Nat /\ Len(src) <= Len(call[p].todo) /\ Len(src) >= 1
        /\ Len(call[p].todo) \in Nat
        /\ \A k \in 1 .. Len(src) : src[k] = call[p].todo[k]
    BY <1>4, <1>7, ChunkIs
  <1> HIDE DEF src, n
  <1>9. FilesStay(p)
    BY <1>1 DEF FilesStay
  <1>10. CASE o + Len(src) > n
    <2>1. call' = [call EXCEPT ![p] = Idle]
      BY <1>3, <1>10
    <2>2. call'[p] = Idle /\ \A q \in Procs \ {p} : call'[q] = call[q]
      BY <1>5, <2>1
    <2>3. ~Holds(p)'
      BY <2>2, IdleIs DEF Holds
    <2>4. /\ \A q \in Procs \ {p} : ChunkInv(q)'
          /\ \A j \in Inodes : Bytes(j)' = Bytes(j)
      BY <1>1, <1>4, <1>9, <2>2, <2>3, NothingTouched
    <2>5. Bytewise!Fail(p)
      <3>1. [j \in Inodes |-> Bytes(j)]' = [j \in Inodes |-> Bytes(j)]
        BY <2>4, SameContents
      <3>2. [q \in Procs |-> call[q].todo]' = [[q \in Procs |-> call[q].todo] EXCEPT ![p] = <<>>]
        BY <2>2, IdleIs
      <3>3. o + Len(call[p].todo) > n
        BY <1>4, <1>5, <1>8, <1>10
      <3>4. /\ [q \in Procs |-> call[q].todo][p] = call[p].todo
            /\ [f \in Files |-> file[f].off][fd[p]] = o
        BY <1>4 DEF Off
      <3> QED BY <1>1, <1>7, <3>1, <3>2, <3>3, <3>4 DEF Bytewise!Fail, n
    <2>6. Bytewise!FilesNext
      BY <2>5 DEF Bytewise!FilesNext
    <2> QED BY <2>2, <2>4, <2>6, IdleChunk DEF Chunks, FilesStep
  <1>11. CASE ~(o + Len(src) > n)
    <2> DEFINE r == [call[p] EXCEPT !.pc = "write", !.ip = i, !.off = o, !.src = src,
                                    !.before = Contents(mem[i])]
    <2>1. call' = [call EXCEPT ![p] = r]
      <3>1. ~(o > mem[i].size \/ o + Len(src) > n)
        BY <1>4, <1>5, <1>6, <1>11
      <3> QED BY <1>3, <3>1
    <2>2. /\ r.pc = "write" /\ r.ip = i /\ r.off = o /\ r.src = src
          /\ r.todo = call[p].todo /\ r.before = BytesIn(data, mem[i])
      BY <1>5, ContentsIs DEF CallRecords
    <2> HIDE DEF r
    <2>3. call'[p] = r /\ \A q \in Procs \ {p} : call'[q] = call[q]
      BY <1>5, <2>1
    <2>4. Ip(p)' = i /\ Holds(p)' /\ Writing(p)'
      BY <2>2, <2>3 DEF Ip, Holds, Writing
    <2>5. Apart(p, i)
      BY <1>1, <1>2, <1>4, <2>3, <2>4, Unlocked DEF Apart
    <2>6. /\ \A q \in Procs \ {p} : ChunkInv(q)'
          /\ \A j \in Inodes \ {i} : Bytes(j)' = Bytes(j)
      BY <1>1, <1>9, <2>5, OthersFiles
    <2>7. Bytes(i)' = Bytes(i)
      <3>1. BytesInv /\ BytesInv'
        BY BytesAre, BytesAreNext DEF Inv
      <3>2. Bytes(i) = BytesIn(data, disk[i])
        BY <1>1, <1>2, <3>1 DEF BytesInv
      <3>3. Bytes(i)' = call'[p].before
        BY <2>4, <3>1 DEF BytesInv
      <3> QED BY <1>4, <2>2, <2>3, <3>2, <3>3
    <2>8. ChunkInv(p)'
      <3> DEFINE c == call'[p]
                 ip == mem'[Ip(p)']
      <3>1. /\ file'[fd'[p]].off = o /\ ip = mem[i] /\ disk'[Ip(p)'] = mem[i]
            /\ c.off = o /\ c.src = src /\ c.todo = call[p].todo
            /\ c.before = BytesIn(data, mem[i])
        BY <1>1, <1>4, <2>2, <2>3, <2>4 DEF Off
      <3>2. Len(c.before) = mem[i].size /\ src # <<>>
        <4>1. Len(BytesIn(data, mem[i])) = mem[i].size
          BY <1>5 DEF BytesIn
        <4> QED BY <1>8, <3>1, <4>1
      <3> HIDE DEF c, ip
      <3>3. (c.off - o) + Len(c.src) = Min2(Chunk, Len(c.todo))
        BY <1>4, <1>8, <3>1
      <3>4. \A k \in 1 .. Len(c.src) : c.src[k] = c.todo[(c.off - o) + k]
        BY <1>4, <1>8, <3>1
      <3>5. Longer(Len(c.before), c.off) = mem[i].size
        BY <1>4, <1>5, <1>6, <3>1, <3>2 DEF Longer
      <3>6. ASSUME NEW j \in 1 .. mem[i].size
            PROVE  ByteIn(data', ip, j) = IF j > o /\ j <= c.off THEN c.todo[j - o]
                                          ELSE c.before[j]
        <4>1. ~(j > o /\ j <= c.off)
          BY <1>4, <1>5, <3>1
        <4>2. c.before[j] = ByteIn(data, mem[i], j)
          BY <3>1 DEF BytesIn
        <4> QED BY <1>1, <3>1, <4>1, <4>2
      <3>7. c.todo # <<>> /\ o <= Len(c.before) /\ ip.size = Len(c.before)
        BY <1>6, <1>7, <3>1, <3>2
      <3> QED BY <2>4, <3>1, <3>2, <3>3, <3>4, <3>5, <3>6, <3>7 DEF ChunkInv, c, ip
    <2>9. FilesStep
      <3>1. \A q \in Procs : call'[q].todo = call[q].todo
        BY <2>2, <2>3
      <3>2. \A j \in Inodes : Bytes(j)' = Bytes(j)
        BY <2>6, <2>7
      <3> QED BY <1>1, <3>1, <3>2, Stutter
    <2> QED BY <2>6, <2>8, <2>9 DEF Chunks
  <1> QED BY <1>10, <1>11

\* A chunk goes on while the bytes so far stay.
LEMMA SameChunk ==
  ASSUME Inv, NEW p \in Procs, Writing(p), Writing(p)', ChunkInv(p), Ip(p)' = Ip(p),
         UNCHANGED <<fd, file>>, call'[p].todo = call[p].todo, call'[p].src = call[p].src,
         call'[p].off = call[p].off, call'[p].before = call[p].before,
         mem'[Ip(p)].size = mem[Ip(p)].size, mem'[Ip(p)].nlink = mem[Ip(p)].nlink,
         disk'[Ip(p)] = disk[Ip(p)],
         \A j \in 1 .. Longer(Len(call[p].before), call[p].off) :
            ByteIn(data', mem'[Ip(p)], j) = ByteIn(data, mem[Ip(p)], j)
  PROVE  ChunkInv(p)'
  <1> DEFINE i == Ip(p)
             c == call[p]
             d == call'[p]
             L == Longer(Len(c.before), c.off)
             o == file[fd[p]].off
  <1>1. /\ c.todo # <<>> /\ (c.off - o) + Len(c.src) = Min2(Chunk, Len(c.todo))
        /\ \A k \in 1 .. Len(c.src) : c.src[k] = c.todo[(c.off - o) + k]
        /\ o <= Len(c.before) /\ mem[i].nlink = disk[i].nlink
        /\ mem[i].size = IF c.src = <<>> THEN L ELSE Len(c.before)
        /\ \A j \in 1 .. L :
             ByteIn(data, mem[i], j) = IF j > o /\ j <= c.off THEN c.todo[j - o] ELSE c.before[j]
    BY DEF ChunkInv
  <1>2. /\ Ip(p)' = i /\ file'[fd'[p]].off = o
        /\ d.todo = c.todo /\ d.src = c.src /\ d.off = c.off /\ d.before = c.before
        /\ mem'[i].size = mem[i].size /\ mem'[i].nlink = mem[i].nlink /\ disk'[i] = disk[i]
    OBVIOUS
  <1>3. \A j \in 1 .. L : ByteIn(data', mem'[i], j) =
                             IF j > o /\ j <= c.off THEN c.todo[j - o] ELSE c.before[j]
    BY <1>1
  <1> HIDE DEF i, c, o
  <1> QED BY <1>1, <1>2, <1>3 DEF ChunkInv

\* A turn of writei() that is not the last of the chunk shows in no file.
LEMMA WriterFiles ==
  ASSUME Inv, Inv', Chunks, NEW p \in Procs, NEW i \in Inodes, Ip(p) = i, Writing(p),
         Writing(p)', Ip(p)' = i, \A q \in Procs \ {p} : call'[q] = call[q],
         UNCHANGED <<fd, file>>, call'[p].todo = call[p].todo,
         call'[p].before = call[p].before, ChunkInv(p)',
         \A j \in Inodes \ {i} :
            /\ mem'[j] = mem[j] /\ disk'[j] = disk[j]
            /\ \A k \in Ks : Blk(j, k) # 0 => data'[Blk(j, k)] = data[Blk(j, k)],
         disk'[i].nlink = disk[i].nlink
  PROVE  Chunks' /\ FilesStep
  <1>1. Holds(p)' /\ \A q \in Procs \ {p} : Holds(q) => Ip(q) # i
    BY Writer DEF Writing, Holds
  <1>2. Apart(p, i)
    BY <1>1, FileKs DEF Apart
  <1>3. FilesStay(p)
    BY DEF FilesStay
  <1>4. /\ \A q \in Procs \ {p} : ChunkInv(q)'
        /\ \A j \in Inodes \ {i} : Bytes(j)' = Bytes(j)
    BY <1>2, <1>3, OthersFiles
  <1>5. Bytes(i)' = Bytes(i)
    <2>1. BytesInv /\ BytesInv'
      BY BytesAre, BytesAreNext DEF Inv
    <2> QED BY <2>1 DEF BytesInv
  <1>6. FilesStep
    <2>1. \A q \in Procs : call'[q].todo = call[q].todo
      OBVIOUS
    <2>2. \A j \in Inodes : disk'[j].nlink = disk[j].nlink
      OBVIOUS
    <2> QED BY <1>4, <1>5, <2>1, <2>2, Stutter
  <1> QED BY <1>4, <1>6 DEF Chunks

LEMMA BallocFiles ==
  ASSUME Inv, Inv', Chunks, NEW p \in Procs, Balloc(p)
  PROVE  Chunks' /\ FilesStep
  <1> DEFINE k == call[p].k
             free == {b \in Blocks \ used : BBLOCK(b) = <<"bitmap", k>>}
             b == CHOOSE x \in free : \A y \in free : x <= y
             r == [call[p] EXCEPT !.pc = "zero", !.new = b, !.k = 0,
                                  !.logged = call[p].logged \cup {BBLOCK(b)}]
             s == [call[p] EXCEPT !.k = k + 1]
  <1>1. At(p, "write") /\ Writing(p) /\ UNCHANGED <<data, disk, mem, fd, file>>
    BY DEF Balloc, Lacks, At, Writing
  <1>2. call[p] \in CallRecords /\ call \in [Procs -> CallRecords] /\ call[p].pc = "write"
    BY <1>1, Registers DEF Inv, Types, CallType, At
  <1>3. PICK i \in Inodes : Ip(p) = i
    BY <1>1 DEF Inv, ProcInv, CallInv
  <1>4. /\ Writing(p)' /\ Ip(p)' = i /\ \A q \in Procs \ {p} : call'[q] = call[q]
        /\ call'[p].todo = call[p].todo /\ call'[p].src = call[p].src
        /\ call'[p].off = call[p].off /\ call'[p].before = call[p].before
    <2>1. /\ r.pc = "zero" /\ r.ip = i /\ r.todo = call[p].todo /\ r.src = call[p].src
          /\ r.off = call[p].off /\ r.before = call[p].before
      BY <1>2, <1>3 DEF CallRecords, Ip
    <2>2. /\ s.pc = "write" /\ s.ip = i /\ s.todo = call[p].todo /\ s.src = call[p].src
          /\ s.off = call[p].off /\ s.before = call[p].before
      BY <1>2, <1>3 DEF CallRecords, Ip
    <2>3. \/ call' = [call EXCEPT ![p] = r] \/ call' = [call EXCEPT ![p] = s] \/ call' = call
      BY DEF Balloc
    <2> HIDE DEF r, s
    <2>4. CASE call' = [call EXCEPT ![p] = r]
      <3>1. call'[p] = r /\ \A q \in Procs \ {p} : call'[q] = call[q]
        BY <1>2, <2>4
      <3> QED BY <2>1, <3>1 DEF Writing, Ip
    <2>5. CASE call' = [call EXCEPT ![p] = s]
      <3>1. call'[p] = s /\ \A q \in Procs \ {p} : call'[q] = call[q]
        BY <1>2, <2>5
      <3> QED BY <2>2, <3>1 DEF Writing, Ip
    <2>6. CASE call' = call
      BY <1>1, <1>3, <2>6 DEF Writing, Ip
    <2> QED BY <2>3, <2>4, <2>5, <2>6
  <1>5. ChunkInv(p)'
    <2>1. ChunkInv(p)
      BY DEF Chunks
    <2> QED BY <1>1, <1>3, <1>4, <2>1, SameChunk
  <1> QED BY <1>1, <1>3, <1>4, <1>5, WriterFiles

\* The block that bmap() puts where one was missing has no bytes of a file yet.
LEMMA BzeroFiles ==
  ASSUME Inv, Inv', Chunks, NEW p \in Procs, Bzero(p)
  PROVE  Chunks' /\ FilesStep
  <1>1. At(p, "zero") /\ Writing(p) /\ Ip(p) \in Inodes /\ UNCHANGED <<used, disk, ref, fd, file>>
    BY DEF Bzero, At, Inv, ProcInv, CallInv, Writing
  <1>2. PICK i \in Inodes : i = Ip(p)
    BY <1>1
  <1> DEFINE c == call[p]
             b == call[p].new
             ind == mem[i].addrs[NDIRECT]
             logged == c.logged \cup {DBLOCK(b)}
                         \cup (IF Bn(p) >= NDIRECT /\ Indirect(mem[i]) # 0
                               THEN {DBLOCK(Indirect(mem[i]))} ELSE {})
             r == [call[p] EXCEPT !.pc = "write", !.new = 0, !.logged = logged]
  <1>3. /\ \A k \in Ks : Blk(i, k) = PlaceIn(data, mem[i], k)
        /\ c \in CallRecords /\ mem[i] \in InodeRecords /\ Inode(i) = mem[i] /\ Freed(i) = 0
    BY <1>1, <1>2, Writer
  <1>4. call' = [call EXCEPT ![p] = r]
    BY <1>2 DEF Bzero, Bn
  <1>5. /\ r.pc = "write" /\ r.ip = i /\ r.off = c.off /\ r.src = c.src /\ r.logged = logged
        /\ r.todo = c.todo /\ r.before = c.before
    BY <1>2, <1>3 DEF CallRecords, Ip
  <1> HIDE DEF r
  <1>6. /\ call'[p] = r /\ \A q \in Procs \ {p} : call'[q] = call[q]
        /\ Writing(p)' /\ Ip(p)' = i
    <2>1. call'[p] = r /\ \A q \in Procs \ {p} : call'[q] = call[q]
      BY <1>4 DEF Inv, Types, CallType
    <2> QED BY <1>5, <2>1 DEF Writing, Ip
  <1>7. PICK kx \in Ks : PutAt(p, i, kx)
    <2>1. call'[p].logged = logged
      BY <1>5, <1>6
    <2> QED BY <1>2, <2>1, BzeroPuts
  <1> HIDE DEF logged
  <1>8. /\ \A l, m \in Inodes, k, h \in Ks :
             Blk(l, k) # 0 /\ Blk(l, k) = Blk(m, h) => l = m /\ k = h
        /\ \A l \in Inodes, k \in Ks : Blk(l, k) # b /\ (Blk(l, k) # 0 => Blk(l, k) \in Blocks)
        /\ Blk(i, MAXFILE) = ind /\ MAXFILE \in Ks
    <2>1. BlockInv /\ used \subseteq Blocks
      BY DEF Inv, Types
    <2> QED BY <1>1, <1>3, <2>1, FileKs DEF BlockInv, PlaceIn
  <1>9. \A l \in Inodes, k \in Ks :
          Blk(l, k) # 0 /\ (l # i \/ k # MAXFILE) => data'[Blk(l, k)] = data[Blk(l, k)]
    <2>1. ASSUME NEW l \in Inodes, NEW k \in Ks, Blk(l, k) # 0, l # i \/ k # MAXFILE
          PROVE  data'[Blk(l, k)] = data[Blk(l, k)]
      <3>1. Blk(l, k) \in Blocks /\ Blk(l, k) # b /\ Blk(l, k) # ind
        BY <1>8, <2>1
      <3>2. \A x \in Blocks : x # b /\ x # ind => data'[x] = data[x]
        BY <1>7 DEF PutAt
      <3> QED BY <3>1, <3>2
    <2> QED BY <2>1
  <1>10. \A j \in Inodes \ {i} : mem'[j] = mem[j] /\ disk'[j] = disk[j]
    BY <1>1, <1>7 DEF PutAt
  <1>11. mem'[i].size = mem[i].size /\ mem'[i].nlink = mem[i].nlink
    <2>1. mem'[i].size = mem[i].size
      BY <1>7 DEF PutAt
    <2>2. \/ mem' = mem
          \/ \E a : mem' = [mem EXCEPT ![i] = [mem[i] EXCEPT !.addrs = a]]
      BY <1>2 DEF Bzero
    <2>3. \A a : [mem[i] EXCEPT !.addrs = a].nlink = mem[i].nlink
      BY <1>3 DEF InodeRecords
    <2>4. mem \in [Inodes -> InodeRecords]
      BY DEF Inv, Types
    <2>5. mem'[i].nlink = mem[i].nlink
      BY <2>2, <2>3, <2>4
    <2> QED BY <2>1, <2>5
  <1>12. ChunkInv(p)
    BY DEF Chunks
  <1>13. \A j \in 1 .. Longer(Len(c.before), c.off) :
           ByteIn(data', mem'[i], j) = ByteIn(data, mem[i], j)
    <2>1. ASSUME NEW j \in 1 .. Longer(Len(c.before), c.off)
          PROVE  ByteIn(data', mem'[i], j) = ByteIn(data, mem[i], j)
      <3> DEFINE k == (j - 1) \div BSIZE
      <3>1. Longer(Len(c.before), c.off) \in Nat
        BY Lengths DEF Longer, Inv
      <3>2. j \in Nat /\ j > 0 /\ j <= Longer(Len(c.before), c.off)
        BY <3>1
      <3>3. j <= MAXFILE * BSIZE /\ Blk(i, k) # 0
        BY <1>1, <1>2, <1>12, <3>2, ChunkHasBlocks
      <3>4. k \in 0 .. MAXFILE - 1
        <4>1. MAXFILE * BSIZE \in Nat
          BY Sizes
        <4>2. j - 1 \in Nat /\ j - 1 < MAXFILE * BSIZE
          BY <3>2, <3>3, <4>1
        <4> QED BY <4>2, ByteIsIn
      <3> HIDE DEF k
      <3>5. k \in Ks /\ k # MAXFILE
        BY <3>4, FileKs
      <3>6. /\ PlaceIn(data, mem[i], k) = Blk(i, k)
            /\ PlaceIn(data', mem'[i], k) = PlaceIn(data, mem[i], k)
        <4>1. PlaceIn(data, mem[i], k) = Blk(i, k)
          BY <1>3, <3>5
        <4>2. PlaceIn(data, mem[i], kx) = 0
              /\ \A h \in Ks \ {kx} : PlaceIn(data', mem'[i], h) = PlaceIn(data, mem[i], h)
          BY <1>7 DEF PutAt
        <4> QED BY <3>3, <3>5, <4>1, <4>2
      <3>7. Word(data', mem'[i], k) = Blk(i, k) /\ Word(data, mem[i], k) = Blk(i, k)
        BY <3>5, <3>6 DEF PlaceIn
      <3>8. data'[Blk(i, k)] = data[Blk(i, k)]
        BY <1>9, <3>3, <3>5
      <3> QED BY <3>7, <3>8 DEF ByteIn, k
    <2> QED BY <2>1
  <1>14. ChunkInv(p)'
    BY <1>1, <1>2, <1>5, <1>6, <1>11, <1>12, <1>13, SameChunk
  <1> QED BY <1>1, <1>2, <1>5, <1>6, <1>9, <1>10, <1>14, WriterFiles

\* Where a number is in blocks.
LEMMA InBlock ==
  ASSUME NEW q \in Nat, NEW r \in 0 .. BSIZE - 1, NEW x, x = q * BSIZE + r
  PROVE  x \div BSIZE = q /\ x % BSIZE = r
  <1> DEFINE a == x \div BSIZE
             s == x % BSIZE
  <1>1. x \in Nat /\ q * BSIZE \in Nat
    BY Sizes
  <1>2. a \in Nat /\ s \in 0 .. BSIZE - 1 /\ x = a * BSIZE + s
    BY <1>1, DivMod
  <1> HIDE DEF a, s
  <1>3. a * BSIZE \in Int
    BY <1>2, TimesNext
  <1>4. a * BSIZE < (q + 1) * BSIZE /\ q * BSIZE < (a + 1) * BSIZE
    BY <1>1, <1>2, <1>3, TimesNext, Sizes
  <1>5. a = q
    BY <1>2, <1>4, Times
  <1>6. s = r
    BY <1>1, <1>2, <1>5, Sizes
  <1> QED BY <1>5, <1>6 DEF a, s

\* Which byte of a block a byte of a file is, and whether it is one of those written.
LEMMA WrittenBytes ==
  ASSUME NEW off \in Nat, NEW m \in Nat, (off % BSIZE) + m <= BSIZE, NEW j \in Nat, j > 0
  PROVE  LET o == off % BSIZE
             k == (j - 1) \div BSIZE
             w == (j - 1) % BSIZE
         IN  /\ j > off /\ j <= off + m =>
                  k = off \div BSIZE /\ w \in o .. o + m - 1 /\ w \in Words
                  /\ w - o + 1 = j - off
             /\ k = off \div BSIZE /\ ~(j > off /\ j <= off + m) => w \notin o .. o + m - 1
             /\ w \in Words
  <1> DEFINE o == off % BSIZE
             bn == off \div BSIZE
             k == (j - 1) \div BSIZE
             w == (j - 1) % BSIZE
  <1>1. /\ bn \in Nat /\ o \in 0 .. BSIZE - 1 /\ off = bn * BSIZE + o /\ o + m <= BSIZE
        /\ bn * BSIZE \in Int
    BY DivMod, TimesNext
  <1>2. k \in Nat /\ w \in 0 .. BSIZE - 1 /\ j - 1 = k * BSIZE + w /\ k * BSIZE \in Int
    <2>1. j - 1 \in Nat
      OBVIOUS
    <2> QED BY <2>1, DivMod, TimesNext
  <1> HIDE DEF o, bn
  <1>3. ASSUME j > off, j <= off + m
        PROVE  k = bn /\ w \in o .. o + m - 1 /\ w - o + 1 = j - off
    <2> DEFINE r == o + (j - 1 - off)
    <2>1. r \in 0 .. BSIZE - 1 /\ j - 1 = bn * BSIZE + r
      BY <1>1, <1>3, Sizes
    <2>2. k = bn /\ w = r
      BY <1>1, <2>1, InBlock
    <2> QED BY <1>1, <1>3, <2>1, <2>2
  <1> HIDE DEF k, w
  <1>4. ASSUME k = bn, ~(j > off /\ j <= off + m) PROVE w \notin o .. o + m - 1
    <2>1. j - 1 = bn * BSIZE + w
      BY <1>2, <1>4
    <2> QED BY <1>1, <1>2, <1>4, <2>1
  <1> QED BY <1>2, <1>3, <1>4 DEF o, bn, k, w, Words

\* What is left of a sequence.
LEMMA RestIs ==
  ASSUME NEW S, NEW s \in Seq(S), NEW m \in Nat, m <= Len(s)
  PROVE  /\ Rest(s, m) \in Seq(S) /\ Len(Rest(s, m)) = Len(s) - m
         /\ Rest(s, m) = <<>> <=> m = Len(s)
         /\ \A k \in 1 .. Len(s) - m : Rest(s, m)[k] = s[m + k]
  <1>1. Rest(s, m) \in Seq(S) /\ Len(Rest(s, m)) = Len(s) - m
    BY FirstRest
  <1>2. Len(s) \in Nat
    OBVIOUS
  <1>3. Rest(s, m) = <<>> <=> Len(Rest(s, m)) = 0
    BY <1>1
  <1>4. \A k \in 1 .. Len(s) - m : Rest(s, m)[k] = s[m + k]
    BY <1>2 DEF Rest
  <1> QED BY <1>1, <1>2, <1>3, <1>4

\* The bytes of one block: those of the chunk go where they belong, the others stay.
LEMMA WriteBlockFiles ==
  ASSUME Inv, Inv', Chunks, NEW p \in Procs, WriteBlock(p)
  PROVE  Chunks' /\ FilesStep
  <1>0. /\ At(p, "write") /\ Writing(p) /\ Ip(p) \in Inodes /\ UNCHANGED <<used, ref, fd, file>>
        /\ call[p].src # <<>> /\ ~Lacks(p)
    BY DEF WriteBlock, At, Inv, ProcInv, CallInv, Writing
  <1>1. PICK i \in Inodes : i = Ip(p)
    BY <1>0
  <1> DEFINE c == call[p]
             o == c.off % BSIZE
             len == Len(c.src)
             m == Min2(len, BSIZE - o)
             bn == Bn(p)
             grew == m = len /\ c.off + m > mem[i].size
             b == BlockAt(mem[i], bn)
             logged == c.logged \cup {DBLOCK(b)} \cup (IF grew THEN {IBLOCK(i)} ELSE {})
             r == [call[p] EXCEPT !.src = Rest(c.src, m), !.off = c.off + m, !.logged = logged]
             ind == mem[i].addrs[NDIRECT]
             pos == file[fd[p]].off
             z == [w \in Words |-> IF w \in o .. o + m - 1 THEN c.src[w - o + 1] ELSE data[b][w]]
  <1>2. /\ \A k \in Ks : Blk(i, k) = PlaceIn(data, mem[i], k)
        /\ mem[i] \in InodeRecords /\ disk[i] \in InodeRecords
        /\ c \in CallRecords /\ WriteInv(p) /\ c.pc = "write" /\ c.ip = i
        /\ pos \in Nat
    <2>1. /\ \A k \in Ks : Blk(i, k) = PlaceIn(data, mem[i], k)
          /\ mem[i] \in InodeRecords /\ disk[i] \in InodeRecords
          /\ c \in CallRecords /\ WriteInv(p) /\ file[fd[p]] \in FileRecords
      BY <1>0, <1>1, Writer
    <2> QED BY <1>0, <1>1, <2>1, Sizes DEF At, Ip, FileRecords
  <1>3. pos <= c.off /\ c.off + len <= MAXFILE * BSIZE
    BY <1>0, <1>1, <1>2 DEF WriteInv
  <1>4. c.off \in Nat /\ c.src \in Seq(Vals) /\ len \in Nat \ {0} /\ Len(c.before) \in Nat
    <2>1. c.off \in Nat /\ c.src \in Seq(Vals)
      BY <1>2 DEF CallRecords
    <2>2. Len(c.before) \in Nat
      BY Lengths DEF Inv
    <2> QED BY <1>0, <2>1, <2>2
  <1>5. /\ m \in 1 .. len /\ o \in 0 .. BSIZE - 1 /\ m <= BSIZE - o
        /\ bn \in 0 .. MAXFILE - 1 /\ bn = c.off \div BSIZE
    BY <1>3, <1>4, Turn DEF Bn
  <1>6. /\ b # 0 /\ bn \in Ks /\ bn # MAXFILE /\ MAXFILE \in Ks /\ b = Blk(i, bn)
        /\ Blk(i, MAXFILE) = ind
    <2>1. b # 0
      BY <1>0, <1>1 DEF Lacks, Bn
    <2>2. bn \in Ks /\ bn # MAXFILE /\ MAXFILE \in Ks
      BY <1>5, FileKs
    <2>3. b = Blk(i, bn)
      BY <1>2, <2>2, Places DEF PlaceIn
    <2> QED BY <1>2, <2>1, <2>2, <2>3 DEF PlaceIn
  <1>7. \A l \in Inodes, k \in Ks : Blk(l, k) = b => l = i /\ k = bn
    <2>1. BlockInv
      BY DEF Inv
    <2> QED BY <1>6, <2>1 DEF BlockInv
  <1>8. /\ data' = [data EXCEPT ![b] = z]
        /\ mem' = IF grew THEN [mem EXCEPT ![i] = [mem[i] EXCEPT !.size = c.off + m]] ELSE mem
        /\ disk' = IF grew THEN [disk EXCEPT ![i] = mem'[i]] ELSE disk
        /\ call' = [call EXCEPT ![p] = r]
    BY <1>1 DEF WriteBlock, Bn
  <1>9. data'[b] = z /\ \A x : x # b => data'[x] = data[x]
    <2>1. data \in [Blocks -> [Words -> WordVals]] /\ b \in Blocks
      <3>1. Blk(i, bn) \in used
        BY <1>6 DEF Inv, BlockInv
      <3>2. used \subseteq Blocks /\ data \in [Blocks -> [Words -> WordVals]]
        BY DEF Inv, Types
      <3> QED BY <1>6, <3>1, <3>2
    <2> HIDE DEF z, b
    <2> QED BY <1>8, <2>1
  <1>10. /\ call'[p] = r /\ \A q \in Procs \ {p} : call'[q] = call[q]
         /\ r.src = Rest(c.src, m) /\ r.off = c.off + m /\ r.todo = c.todo
         /\ r.before = c.before /\ Writing(p)' /\ Ip(p)' = i
    <2>1. /\ r.src = Rest(c.src, m) /\ r.off = c.off + m /\ r.todo = c.todo
          /\ r.before = c.before /\ r.pc = "write" /\ r.ip = i
      BY <1>2 DEF CallRecords
    <2> HIDE DEF r
    <2>2. call'[p] = r /\ \A q \in Procs \ {p} : call'[q] = call[q]
      BY <1>8 DEF Inv, Types, CallType
    <2> QED BY <2>1, <2>2 DEF Writing, Ip
  <1> HIDE DEF r, z
  <1>11. /\ mem'[i].size = IF grew THEN c.off + m ELSE mem[i].size
         /\ mem'[i].addrs = mem[i].addrs /\ mem'[i].nlink = mem[i].nlink
         /\ disk'[i] = IF grew THEN mem'[i] ELSE disk[i]
         /\ \A j \in Inodes \ {i} : mem'[j] = mem[j] /\ disk'[j] = disk[j]
    <2>1. mem \in [Inodes -> InodeRecords] /\ disk \in [Inodes -> InodeRecords]
      BY DEF Inv, Types
    <2> DEFINE ip == [mem[i] EXCEPT !.size = c.off + m]
    <2>2. ip.size = c.off + m /\ ip.addrs = mem[i].addrs /\ ip.nlink = mem[i].nlink
      BY <1>2 DEF InodeRecords
    <2> HIDE DEF ip, grew
    <2>3. /\ mem' = IF grew THEN [mem EXCEPT ![i] = ip] ELSE mem
          /\ disk' = IF grew THEN [disk EXCEPT ![i] = mem'[i]] ELSE disk
      BY <1>8 DEF ip
    <2> QED BY <2>1, <2>2, <2>3
  <1>12. ChunkInv(p)
    BY DEF Chunks
  <1>13. /\ c.todo # <<>> /\ (c.off - pos) + len = Min2(Chunk, Len(c.todo))
         /\ \A k \in 1 .. len : c.src[k] = c.todo[(c.off - pos) + k]
         /\ pos <= Len(c.before) /\ mem[i].nlink = disk[i].nlink
         /\ mem[i].size = Len(c.before)
         /\ \A j \in 1 .. Longer(Len(c.before), c.off) :
              ByteIn(data, mem[i], j) =
                 IF j > pos /\ j <= c.off THEN c.todo[j - pos] ELSE c.before[j]
    BY <1>0, <1>1, <1>12 DEF ChunkInv
  <1> HIDE DEF m, o, b, bn, c, len, pos, ind, grew
  \* The places of bytes stay.
  <1>14. ASSUME NEW k \in 0 .. MAXFILE - 1
         PROVE  Word(data', mem'[i], k) = Word(data, mem[i], k)
    <2>1. ind # b
      BY <1>6, <1>7
    <2>2. data'[ind] = data[ind]
      BY <1>9, <2>1
    <2> QED BY <1>11, <2>2 DEF Word, ind
  <1>15. ASSUME NEW j \in 1 .. Longer(Len(c.before), c.off + m)
         PROVE  ByteIn(data', mem'[i], j) =
                   IF j > pos /\ j <= c.off + m THEN c.todo[j - pos] ELSE c.before[j]
    <2> DEFINE k == (j - 1) \div BSIZE
               w == (j - 1) % BSIZE
               new == j > c.off /\ j <= c.off + m
    <2>1. /\ j \in Nat /\ j > 0 /\ m \in Nat /\ c.off + m <= MAXFILE * BSIZE
          /\ MAXFILE * BSIZE \in Nat /\ (c.off % BSIZE) + m <= BSIZE
          /\ new \/ j <= Longer(Len(c.before), c.off)
      <3>1. m \in Nat /\ MAXFILE * BSIZE \in Nat /\ (c.off % BSIZE) + m <= BSIZE
        BY <1>5, Sizes DEF o
      <3>2. Longer(Len(c.before), c.off + m) \in Nat
        BY <1>4, <3>1 DEF Longer
      <3> QED BY SMTT(30), <1>3, <1>4, <1>5, <3>1, <3>2 DEF Longer
    <2>2. /\ new => k = bn /\ w \in o .. o + m - 1 /\ w - o + 1 = j - c.off
          /\ k = bn /\ ~new => w \notin o .. o + m - 1
          /\ w \in Words
      BY SMTT(30), <1>4, <1>5, <2>1, WrittenBytes DEF o
    <2> HIDE DEF k, w
    <2>3. CASE new
      <3>1. Word(data', mem'[i], bn) = b
        <4>1. Word(data, mem[i], bn) = b
          BY Places DEF b
        <4> QED BY <1>5, <1>14, <4>1
      <3>2. z[w] = c.src[w - o + 1]
        BY <2>2, <2>3 DEF z
      <3>3. ByteIn(data', mem'[i], j) = c.src[j - c.off]
        BY <1>9, <2>2, <2>3, <3>1, <3>2 DEF ByteIn, k, w
      <3>4. j - c.off \in 1 .. len /\ (c.off - pos) + (j - c.off) = j - pos /\ j > pos
        BY SMTT(30), <1>2, <1>3, <1>4, <1>5, <2>1, <2>3
      <3>5. c.src[j - c.off] = c.todo[j - pos]
        BY <1>13, <3>4
      <3> QED BY <2>3, <3>3, <3>4, <3>5
    <2>4. CASE ~new
      <3>1. j \in 1 .. Longer(Len(c.before), c.off) /\ j <= Longer(Len(c.before), c.off)
        BY <1>4, <2>1, <2>4 DEF Longer
      <3>2. j <= MAXFILE * BSIZE /\ Blk(i, k) # 0
        BY <1>0, <1>1, <1>12, <2>1, <3>1, ChunkHasBlocks DEF k, c
      <3>3. k \in 0 .. MAXFILE - 1
        <4>1. j - 1 \in Nat /\ j - 1 < MAXFILE * BSIZE
          BY <2>1, <3>2
        <4> QED BY <4>1, ByteIsIn DEF k
      <3>4. k \in Ks /\ k # MAXFILE
        BY <3>3, FileKs
      <3>5. Word(data', mem'[i], k) = Blk(i, k) /\ Word(data, mem[i], k) = Blk(i, k)
        BY <1>2, <1>14, <3>3, <3>4 DEF PlaceIn
      <3>6. data'[Blk(i, k)][w] = data[Blk(i, k)][w]
        <4>1. CASE k = bn
          <5>1. z[w] = data[b][w]
            BY <2>2, <2>4, <4>1 DEF z
          <5> QED BY <1>6, <1>9, <4>1, <5>1
        <4>2. CASE k # bn
          <5>1. Blk(i, k) # b
            BY <1>7, <3>4, <4>2
          <5> QED BY <1>9, <5>1
        <4> QED BY <4>1, <4>2
      <3>7. ByteIn(data', mem'[i], j) = ByteIn(data, mem[i], j)
        BY <3>5, <3>6 DEF ByteIn, k, w
      <3>8. j > pos /\ j <= c.off + m <=> j > pos /\ j <= c.off
        BY <1>2, <1>3, <1>4, <2>1, <2>4
      <3> QED BY <1>13, <3>1, <3>7, <3>8
    <2> QED BY <2>3, <2>4
  <1>16. ChunkInv(p)'
    <2>1. /\ Rest(c.src, m) \in Seq(Vals) /\ Len(Rest(c.src, m)) = len - m
          /\ Rest(c.src, m) = <<>> <=> m = len
          /\ \A k \in 1 .. len - m : Rest(c.src, m)[k] = c.src[m + k]
      <3>1. m \in Nat /\ m <= Len(c.src)
        BY <1>4, <1>5 DEF len
      <3> QED BY <1>4, <3>1, RestIs DEF len
    <2>2. (r.off - pos) + Len(r.src) = Min2(Chunk, Len(r.todo))
      BY <1>2, <1>4, <1>5, <1>10, <1>13, <2>1
    <2>3. \A k \in 1 .. Len(r.src) : r.src[k] = r.todo[(r.off - pos) + k]
      <3>1. ASSUME NEW k \in 1 .. Len(r.src) PROVE r.src[k] = r.todo[(r.off - pos) + k]
        <4>1. /\ k \in 1 .. len - m /\ m + k \in 1 .. len
              /\ (c.off - pos) + (m + k) = (r.off - pos) + k
          <5>1. r.off = c.off + m /\ k \in 1 .. len - m
            BY <1>10, <2>1, <3>1
          <5>2. c.off \in Nat /\ len \in Nat /\ m \in 1 .. len /\ pos \in Nat
            BY <1>2, <1>4, <1>5
          <5> QED BY <5>1, <5>2
        <4>2. r.src[k] = c.src[m + k]
          BY <1>10, <2>1, <4>1
        <4>3. c.src[m + k] = c.todo[(c.off - pos) + (m + k)]
          BY <1>13, <4>1
        <4> QED BY <1>10, <4>1, <4>2, <4>3
      <3> QED BY <3>1
    <2>4. mem'[i].size = IF r.src = <<>> THEN Longer(Len(r.before), r.off) ELSE Len(r.before)
      BY <1>4, <1>5, <1>10, <1>11, <1>13, <2>1 DEF Longer, grew
    <2>5. mem'[i].nlink = disk'[i].nlink
      BY <1>11, <1>13
    <2>6. \A j \in 1 .. Longer(Len(r.before), r.off) :
             ByteIn(data', mem'[i], j) =
                IF j > pos /\ j <= r.off THEN r.todo[j - pos] ELSE r.before[j]
      BY <1>10, <1>15
    <2>7. r.todo # <<>> /\ pos <= Len(r.before) /\ file'[fd'[p]].off = pos
      BY <1>0, <1>10, <1>13 DEF pos
    <2> QED BY <1>10, <2>2, <2>3, <2>4, <2>5, <2>6, <2>7 DEF ChunkInv
  <1>17. \A j \in Inodes \ {i}, k \in Ks : Blk(j, k) # 0 => data'[Blk(j, k)] = data[Blk(j, k)]
    BY <1>7, <1>9
  <1>18. disk'[i].nlink = disk[i].nlink
    BY <1>11, <1>13
  <1>19. call'[p].todo = call[p].todo /\ call'[p].before = call[p].before
    BY <1>10 DEF c
  <1> QED BY <1>0, <1>1, <1>10, <1>11, <1>16, <1>17, <1>18, <1>19, WriterFiles

\* A chunk counts: its bytes are in the file, and come off the call.
LEMMA ChunkDoneFiles ==
  ASSUME Inv, Inv', Chunks, NEW p \in Procs, ChunkDone(p)
  PROVE  Chunks' /\ FilesStep
  <1>0. At(p, "write") /\ Ip(p) \in Inodes /\ Writing(p)
    BY DEF ChunkDone, Inv, ProcInv, CallInv, Writing, At
  <1>1. PICK i \in Inodes : i = Ip(p)
    BY <1>0
  <1> DEFINE c == call[p]
             f == fd[p]
             o == file[f].off
             n == c.off - o
             left == Rest(c.todo, n)
             begin == [Idle EXCEPT !.pc = "begin", !.todo = left]
  <1>2. /\ c.src = <<>> /\ UNCHANGED <<used, data, disk, mem, ref, fd>>
        /\ file' = [file EXCEPT ![f] = [file[f] EXCEPT !.off = c.off]]
        /\ call' = [call EXCEPT ![p] = IF left = <<>> THEN Idle ELSE begin]
    BY DEF ChunkDone, Off
  <1>3. /\ f \in Files /\ file[f] \in FileRecords /\ c.off \in Nat /\ i = file[f].ip
        /\ o \in Nat /\ o <= c.off /\ c.off <= MAXFILE * BSIZE /\ MAXFILE * BSIZE \in Nat
        /\ mem[i] = disk[i] /\ c.todo \in Seq(Vals) /\ Len(c.before) \in Nat
        /\ mem[i].size \in Nat /\ f # None
        /\ \A q \in Procs \ {p} : Holds(q) => Ip(q) # i
    <2>1. /\ WriteInv(p) /\ f \in Files /\ file[f] \in FileRecords /\ file[f].ip = i
          /\ f # None /\ \A q \in Procs \ {p} : Holds(q) => Ip(q) # i
      BY <1>0, <1>1, Writer
    <2>2. mem[i] \in InodeRecords
      BY <1>0, <1>1, Writer
    <2>3. MAXFILE * BSIZE \in Nat
      BY Sizes
    <2>4. mem[i].size \in Nat /\ o \in Nat
      BY <2>1, <2>2, <2>3 DEF InodeRecords, FileRecords
    <2>5. c.off \in Nat /\ c.todo \in Seq(Vals) /\ Len(c.before) \in Nat
      BY Registers, Lengths DEF Inv
    <2>6. o <= c.off /\ c.off + Len(c.src) <= MAXFILE * BSIZE /\ mem[i] = disk[i]
      BY <1>0, <1>1, <1>2, <2>1 DEF WriteInv
    <2>7. Len(c.src) = 0
      BY <1>2
    <2>8. c.off <= MAXFILE * BSIZE
      BY <2>5, <2>6, <2>7
    <2> QED BY <2>1, <2>3, <2>4, <2>5, <2>6, <2>8
  <1>4. /\ c.todo # <<>> /\ n = Min2(Chunk, Len(c.todo)) /\ o <= Len(c.before)
        /\ mem[i].size = Longer(Len(c.before), c.off)
        /\ \A j \in 1 .. Longer(Len(c.before), c.off) :
             ByteIn(data, mem[i], j) =
                IF j > o /\ j <= c.off THEN c.todo[j - o] ELSE c.before[j]
    <2>1. ChunkInv(p) /\ Len(c.src) = 0
      BY <1>2 DEF Chunks
    <2>2. n + Len(c.src) = Min2(Chunk, Len(c.todo))
      BY <1>0, <2>1 DEF ChunkInv
    <2>3. n = Min2(Chunk, Len(c.todo))
      BY <1>3, <2>1, <2>2
    <2> QED BY <1>0, <1>1, <1>2, <2>1, <2>3 DEF ChunkInv
  <1>5. n \in 1 .. MAXFILE * BSIZE /\ n <= Len(c.todo) /\ Len(c.todo) \in Nat
    <2>1. Chunk \in Nat /\ Chunk >= 1 /\ Len(c.todo) \in Nat
      BY <1>3, ChunkIs
    <2>2. Len(c.todo) >= 1
      BY <1>3, <1>4
    <2>3. n >= 1 /\ n <= Len(c.todo)
      BY <1>4, <2>1, <2>2 DEF Min2
    <2> QED BY <1>3, <2>1, <2>3
  <1>6. left = SubSeq(c.todo, n + 1, Len(c.todo))
    BY DEF Rest
  <1>7. /\ call'[p].todo = left /\ call'[p].pc \in {"user", "begin"}
        /\ call'[p].pc = "begin" <=> left # <<>>
        /\ \A q \in Procs \ {p} : call'[q] = call[q]
    <2>1. call \in [Procs -> CallRecords]
      BY DEF Inv, Types, CallType
    <2>2. begin.pc = "begin" /\ begin.todo = left
      BY DEF Idle
    <2> HIDE DEF begin, left
    <2>3. /\ call'[p] = IF left = <<>> THEN Idle ELSE begin
          /\ \A q \in Procs \ {p} : call'[q] = call[q]
      BY <1>2, <2>1
    <2> QED BY <2>2, <2>3, IdleIs
  <1>8. ~Holds(p)' /\ ChunkInv(p)'
    <2>1. ~Writing(p)' /\ (At(p, "begin")' <=> left # <<>>) /\ ~Holds(p)'
      BY <1>7 DEF Writing, At, Holds
    <2> QED BY <1>7, <2>1 DEF ChunkInv
  <1>9. /\ \A g \in Files \ {f} : file'[g] = file[g]
        /\ file'[f].ip = i /\ file'[f].off = c.off
    <2>1. file \in [Files -> FileRecords]
      BY DEF Inv, Types
    <2>2. /\ \A g \in Files \ {f} : file'[g] = file[g]
          /\ file'[f] = [file[f] EXCEPT !.off = c.off]
      BY <1>2, <1>3, <2>1
    <2> QED BY <1>3, <2>2 DEF FileRecords
  <1>10. FilesStay(p)
    <2>1. ASSUME NEW q \in Procs \ {p}, Writing(q) PROVE file'[fd[q]] = file[fd[q]]
      <3>1. fd[q] \in Files /\ Ip(q) = file[fd[q]].ip /\ Holds(q)
        BY <2>1, WriterIs DEF Inv, ProcInv, WriteInv
      <3>2. fd[q] # f
        BY <1>3, <3>1
      <3> QED BY <1>9, <3>1, <3>2
    <2> QED BY <1>2, <2>1 DEF FilesStay
  <1>11. Apart(p, i)
    BY <1>1, <1>2, <1>3, <1>7, <1>8 DEF Apart
  <1>12. /\ \A q \in Procs \ {p} : ChunkInv(q)'
         /\ \A j \in Inodes \ {i} : Bytes(j)' = Bytes(j)
    BY <1>2, <1>10, <1>11, OthersFiles
  <1>13. Bytes(i) = c.before /\ Bytes(i)' = BytesIn(data, mem[i])
    <2>1. ~Locked(i)'
      BY <1>8, <1>11, OwnInode DEF Inv
    <2>2. BytesInv /\ BytesInv'
      BY BytesAre, BytesAreNext DEF Inv
    <2> QED BY <1>0, <1>1, <1>2, <1>3, <2>1, <2>2 DEF BytesInv
  <1>14. Bytes(i)' = Bytewise!Over(Bytes(i), o, SubSeq(c.todo, 1, n))
    <2> DEFINE t == SubSeq(c.todo, 1, n)
    <2>1. Len(t) = n /\ \A k \in 1 .. n : t[k] = c.todo[k]
      BY <1>3, <1>5
    <2>2. o + n = c.off /\ n \in Nat
      BY <1>3
    <2> HIDE DEF t, n, c, o
    <2>3. (IF o + Len(t) > Len(c.before) THEN o + Len(t) ELSE Len(c.before))
            = Longer(Len(c.before), c.off)
      BY <2>1, <2>2 DEF Longer
    <2>4. ASSUME NEW j \in 1 .. Longer(Len(c.before), c.off)
          PROVE  ByteIn(data, mem[i], j) =
                    IF j > o /\ j <= o + Len(t) THEN t[j - o] ELSE c.before[j]
      <3>1. o + Len(t) = c.off
        BY <2>1, <2>2
      <3>2. CASE j > o /\ j <= c.off
        <4>1. j - o \in 1 .. n
          BY <1>3, <2>2, <3>2
        <4> QED BY <1>4, <2>1, <3>1, <3>2, <4>1
      <3>3. CASE ~(j > o /\ j <= c.off)
        BY <1>4, <3>1, <3>3
      <3> QED BY <3>2, <3>3
    <2>5. BytesIn(data, mem[i]) =
             [j \in 1 .. Longer(Len(c.before), c.off) |->
                IF j > o /\ j <= o + Len(t) THEN t[j - o] ELSE c.before[j]]
      BY <1>4, <2>4 DEF BytesIn
    <2> QED BY <1>13, <2>3, <2>5 DEF Bytewise!Over, t
  <1> HIDE DEF n, left, begin
  <1>15. Bytewise!Write(p, n)
    <2>1. [j \in Inodes |-> Bytes(j)]' =
             [[j \in Inodes |-> Bytes(j)] EXCEPT
                ![i] = Bytewise!Over(Bytes(i), o, SubSeq(c.todo, 1, n))]
      BY <1>12, <1>14
    <2>2. [q \in Procs |-> call[q].todo]' =
             [[q \in Procs |-> call[q].todo] EXCEPT ![p] = SubSeq(c.todo, n + 1, Len(c.todo))]
      BY <1>6, <1>7
    <2>3. [g \in Files |-> file[g].ip]' = [g \in Files |-> file[g].ip]
      <3>1. \A g \in Files : file'[g].ip = file[g].ip
        BY <1>3, <1>9
      <3> QED BY <3>1
    <2>4. [g \in Files |-> file[g].off]' = [[g \in Files |-> file[g].off] EXCEPT ![f] = o + n]
      <3>1. \A g \in Files : file'[g].off = IF g = f THEN c.off ELSE file[g].off
        BY <1>9
      <3>2. o + n = c.off
        BY <1>3 DEF n
      <3> QED BY <3>1, <3>2
    <2>5. /\ [q \in Procs |-> call[q].todo][p] = c.todo
          /\ [g \in Files |-> file[g].ip][f] = i /\ [g \in Files |-> file[g].off][f] = o
          /\ [j \in Inodes |-> Bytes(j)][i] = Bytes(i)
      BY <1>3
    <2>6. {j \in Inodes : disk[j].nlink > 0}' = {j \in Inodes : disk[j].nlink > 0} /\ fd' = fd
      BY <1>2
    <2> HIDE DEF c, f, o
    <2> QED BY <1>4, <1>5, <2>1, <2>2, <2>3, <2>4, <2>5, <2>6 DEF Bytewise!Write, f
  <1>16. Bytewise!FilesNext
    <2>1. \E m \in 1 .. MAXFILE * BSIZE : Bytewise!Write(p, m)
      <3>1. PICK m \in 1 .. MAXFILE * BSIZE : m = n
        BY <1>5
      <3>2. Bytewise!Write(p, m)
        BY <1>15, <3>1 DEF Bytewise!Write
      <3> QED BY <3>2
    <2> QED BY <2>1 DEF Bytewise!FilesNext
  <1> QED BY <1>8, <1>12, <1>16 DEF Chunks, FilesStep

-----------------------------------------------------------------------------
(* iput() on the abstract files *)

\* Who finds the last reference to a file without a name makes it vanish.
LEMMA IputFiles ==
  ASSUME Inv, Inv', Chunks, NEW p \in Procs, Iput(p)
  PROVE  Chunks' /\ FilesStep
  <1>0. PICK i \in Inodes : i = Ip(p)
    BY DEF Iput, Inv, ProcInv, CallInv, Refers, At
  <1> DEFINE r == [call[p] EXCEPT !.pc = "trunc", !.logged = call[p].logged \cup {IBLOCK(i)}]
             s == [call[p] EXCEPT !.pc = "drop"]
  <1>1. /\ At(p, "put") /\ ~Locked(i) /\ UNCHANGED <<used, data, disk, mem, ref, fd, file>>
        /\ call[p] \in CallRecords /\ Ip(p) = i /\ Refers(p) /\ ~Holds(p)
        /\ call' = [call EXCEPT ![p] = IF Unwanted(i) THEN r ELSE s]
    BY <1>0, Registers DEF Iput, Inv, At, Refers, Holds
  <1>2. call[p].todo = <<>>
    BY <1>1 DEF Chunks, ChunkInv, Writing, At
  <1>3. /\ r.pc = "trunc" /\ r.ip = i /\ r.todo = <<>>
        /\ s.pc = "drop" /\ s.todo = <<>>
    BY <1>1, <1>2 DEF CallRecords, Ip
  <1> HIDE DEF r, s
  <1>4. /\ call'[p] = IF Unwanted(i) THEN r ELSE s
        /\ \A q \in Procs \ {p} : call'[q] = call[q]
    BY <1>1 DEF Inv, Types, CallType
  <1>5. ~Writing(p)' /\ ~At(p, "begin")' /\ call'[p].todo = <<>> /\ ChunkInv(p)'
    <2>1. ~Writing(p)' /\ ~At(p, "begin")' /\ call'[p].todo = <<>>
      BY <1>3, <1>4 DEF Writing, At
    <2> QED BY <2>1 DEF ChunkInv
  <1>6. FilesStay(p)
    BY <1>1 DEF FilesStay
  <1>7. \A q \in Procs : call'[q].todo = call[q].todo
    BY <1>2, <1>4, <1>5
  <1>8. CASE ~Unwanted(i)
    <2>1. ~Holds(p)'
      BY <1>3, <1>4, <1>8 DEF Holds
    <2>2. /\ \A q \in Procs \ {p} : ChunkInv(q)'
          /\ \A j \in Inodes : Bytes(j)' = Bytes(j)
      BY <1>1, <1>4, <1>6, <2>1, NothingTouched
    <2>3. FilesStep
      BY <1>1, <1>7, <2>2, Stutter
    <2> QED BY <1>5, <2>2, <2>3 DEF Chunks
  <1>9. CASE Unwanted(i)
    <2>1. Holds(p)' /\ Ip(p)' = i /\ At(p, "trunc")'
      BY <1>3, <1>4, <1>9 DEF Holds, Ip, At
    <2>2. Apart(p, i)
      BY <1>1, <1>4, <2>1, Unlocked DEF Apart
    <2>3. /\ \A q \in Procs \ {p} : ChunkInv(q)'
          /\ \A j \in Inodes \ {i} : Bytes(j)' = Bytes(j)
      BY <1>1, <1>6, <2>2, OthersFiles
    <2>4. Bytes(i)' = <<>>
      <3>1. BytesInv'
        BY BytesAreNext DEF Inv
      <3> QED BY <1>1, <2>1, <3>1 DEF BytesInv
    <2>5. /\ \A f \in Files : file[f].ip # i
          /\ disk[i].nlink = 0
      <3>1. /\ ref[i] \in Nat /\ ref[i] >= 1 /\ ref[i] = 1
            /\ \A f \in Files : file[f].ip # i
        BY <1>1, <1>9, OnlyReference DEF Inv, Unwanted
      <3>2. NothingOnlyInMemory
        BY DEF Inv
      <3>3. ref[i] > 0
        BY <3>1
      <3>4. mem[i] = disk[i]
        BY <1>1, <3>2, <3>3 DEF NothingOnlyInMemory
      <3> QED BY <1>9, <3>1, <3>4 DEF Unwanted
    <2>6. Bytewise!Vanish(i)
      <3>1. [j \in Inodes |-> Bytes(j)]' = [[j \in Inodes |-> Bytes(j)] EXCEPT ![i] = <<>>]
        BY <1>1, <2>3, <2>4
      <3>2. [q \in Procs |-> call[q].todo]' = [q \in Procs |-> call[q].todo]
        BY <1>7
      <3>3. /\ {j \in Inodes : disk[j].nlink > 0}' = {j \in Inodes : disk[j].nlink > 0}
            /\ i \notin {j \in Inodes : disk[j].nlink > 0}
        BY <1>1, <2>5
      <3>4. /\ [f \in Files |-> file[f].ip]' = [f \in Files |-> file[f].ip]
            /\ [f \in Files |-> file[f].off]' = [f \in Files |-> file[f].off] /\ fd' = fd
            /\ \A f \in Files : [g \in Files |-> file[g].ip][f] # i
        BY <1>1, <2>5
      <3> QED BY <3>1, <3>2, <3>3, <3>4 DEF Bytewise!Vanish
    <2>7. Bytewise!FilesNext
      BY <1>1, <2>6 DEF Bytewise!FilesNext
    <2> QED BY <1>5, <2>3, <2>7 DEF Chunks, FilesStep
  <1> QED BY <1>8, <1>9

\* What itrunc() frees has no bytes of another file.
LEMMA BfreeFiles ==
  ASSUME Inv, Inv', Chunks, NEW p \in Procs, Bfree(p)
  PROVE  Chunks' /\ FilesStep
  <1>0. At(p, "trunc") /\ UNCHANGED <<disk, mem, ref, fd, file>>
    BY DEF Bfree
  <1>1. PICK i \in Inodes : i = Ip(p)
    BY <1>0, TruncIsAlone
  <1> DEFINE c == call[p]
  <1>2. /\ Holds(p) /\ \A q \in Procs \ {p} : Holds(q) => Ip(q) # i
        /\ c \in CallRecords /\ c.pc = "trunc" /\ c.ip = i /\ c.k \in Nat
        /\ Inode(i) = mem[i] /\ Freed(i) = c.k /\ c.todo = <<>>
    <2>1. Holds(p) /\ c.pc = "trunc" /\ c.ip = i
      BY <1>0, <1>1 DEF At, Holds, Ip
    <2>2. \A q \in Procs \ {p} : Holds(q) => Ip(q) # i
      BY <1>1, <2>1 DEF Inv, LockInv
    <2>3. c \in CallRecords /\ c.k \in Nat
      BY Registers DEF Inv
    <2>4. Inode(i) = mem[i] /\ Freed(i) = c.k
      BY <1>0, <1>1, <2>1, HolderIs DEF Inv
    <2>5. c.todo = <<>>
      BY <2>1 DEF Chunks, ChunkInv, At, Writing
    <2> QED BY <2>1, <2>2, <2>3, <2>4, <2>5
  <1>3. PICK k0 \in ToFree(p) :
          LET b == Doomed(p, k0)
          IN  \/ UNCHANGED <<data, call>>
              \/ /\ data' = [data EXCEPT ![b] = Unused]
                 /\ call' = [call EXCEPT ![p] =
                         [call[p] EXCEPT !.k = k0 + 1,
                                         !.logged = call[p].logged \cup {BBLOCK(b)}]]
    BY DEF Bfree
  <1> DEFINE b == Doomed(p, k0)
             r == [call[p] EXCEPT !.k = k0 + 1, !.logged = call[p].logged \cup {BBLOCK(b)}]
  <1>4. k0 \in Ks /\ Blk(i, k0) = b /\ b # 0
    <2>1. k0 \in c.k .. MAXFILE /\ b # 0
      BY DEF ToFree
    <2>2. k0 \in Ks /\ k0 >= c.k
      BY <1>2, <2>1, Sizes DEF Ks
    <2>3. Doomed(p, k0) = PlaceIn(data, mem[i], k0)
      BY <1>1, Places DEF Doomed, PlaceIn
    <2> QED BY <1>2, <2>1, <2>2, <2>3, Places DEF Blk
  <1>5. r.pc = "trunc" /\ r.ip = i /\ r.todo = <<>>
    BY <1>2 DEF CallRecords
  <1> HIDE DEF r, b
  <1>6. /\ \A q \in Procs \ {p} : call'[q] = call[q]
        /\ call'[p].pc = "trunc" /\ call'[p].ip = i /\ call'[p].todo = <<>>
    <2>1. call \in [Procs -> CallRecords]
      BY DEF Inv, Types, CallType
    <2>2. CASE call' = call
      BY <1>2, <2>2
    <2>3. CASE call' = [call EXCEPT ![p] = r]
      <3>1. call'[p] = r /\ \A q \in Procs \ {p} : call'[q] = call[q]
        BY <2>1, <2>3
      <3> QED BY <1>5, <3>1
    <2> QED BY <1>3, <2>2, <2>3 DEF r, b
  <1>7. \A j \in Inodes \ {i}, k \in Ks : Blk(j, k) # 0 => data'[Blk(j, k)] = data[Blk(j, k)]
    <2>1. ASSUME NEW j \in Inodes \ {i}, NEW k \in Ks, Blk(j, k) # 0
          PROVE  Blk(j, k) # b /\ Blk(j, k) \in Blocks
      <3>1. BlockInv /\ used \subseteq Blocks
        BY DEF Inv, Types
      <3> QED BY <1>4, <2>1, <3>1 DEF BlockInv
    <2>2. \A x \in Blocks : x # b => data'[x] = data[x]
      <3>1. data' = data \/ data' = [data EXCEPT ![b] = Unused]
        BY <1>3 DEF b
      <3>2. b \in Blocks /\ data \in [Blocks -> [Words -> WordVals]]
        <4>1. Blk(i, k0) \in used
          BY <1>4 DEF Inv, BlockInv
        <4> QED BY <1>4, <4>1 DEF Inv, Types
      <3> QED BY <3>1, <3>2
    <2> QED BY <2>1, <2>2
  <1>8. Holds(p)' /\ Ip(p)' = i /\ At(p, "trunc")' /\ ChunkInv(p)' /\ FilesStay(p)
    <2>1. /\ Holds(p)' /\ Ip(p)' = i /\ At(p, "trunc")' /\ ~Writing(p)' /\ ~At(p, "begin")'
      BY <1>6 DEF Holds, Ip, At, Writing
    <2> QED BY <1>0, <1>6, <2>1 DEF ChunkInv, FilesStay
  <1>9. Apart(p, i)
    BY <1>0, <1>1, <1>2, <1>6, <1>7, <1>8, FileKs DEF Apart
  <1>10. /\ \A q \in Procs \ {p} : ChunkInv(q)'
         /\ \A j \in Inodes \ {i} : Bytes(j)' = Bytes(j)
    BY <1>7, <1>8, <1>9, OthersFiles
  <1>11. Bytes(i)' = Bytes(i)
    <2>1. BytesInv /\ BytesInv'
      BY BytesAre, BytesAreNext DEF Inv
    <2> QED BY <1>0, <1>1, <1>8, <2>1 DEF BytesInv
  <1>12. FilesStep
    <2>1. \A q \in Procs : call'[q].todo = call[q].todo
      BY <1>2, <1>6
    <2> QED BY <1>0, <1>10, <1>11, <2>1, Stutter
  <1> QED BY <1>8, <1>10, <1>12 DEF Chunks

LEMMA FreeTheInodeFiles ==
  ASSUME Inv, Inv', Chunks, NEW p \in Procs, FreeTheInode(p)
  PROVE  Chunks' /\ FilesStep
  <1>0. At(p, "trunc") /\ UNCHANGED <<used, data, ref, fd, file>>
    BY DEF FreeTheInode
  <1>1. PICK i \in Inodes : i = Ip(p)
    BY <1>0, TruncIsAlone
  <1> DEFINE c == call[p]
             r == [call[p] EXCEPT !.pc = "drop"]
  <1>2. /\ Holds(p) /\ \A q \in Procs \ {p} : Holds(q) => Ip(q) # i
        /\ c \in CallRecords /\ disk[i].nlink = 0 /\ c.todo = <<>>
    <2>1. Holds(p) /\ c.pc = "trunc"
      BY <1>0 DEF At, Holds
    <2>2. \A q \in Procs \ {p} : Holds(q) => Ip(q) # i
      BY <1>1, <2>1 DEF Inv, LockInv
    <2>3. c \in CallRecords
      BY Registers DEF Inv
    <2>4. disk[i].nlink = 0
      BY <1>0, <1>1, TruncIsAlone
    <2>5. c.todo = <<>>
      BY <2>1 DEF Chunks, ChunkInv, At, Writing
    <2> QED BY <2>1, <2>2, <2>3, <2>4, <2>5
  <1>3. r.pc = "drop" /\ r.todo = <<>>
    BY <1>2 DEF CallRecords
  <1>4. /\ call' = [call EXCEPT ![p] = r] /\ disk' = [disk EXCEPT ![i] = FreeInode]
        /\ mem' = [mem EXCEPT ![i] = FreeInode]
    BY <1>1 DEF FreeTheInode
  <1> HIDE DEF r
  <1>5. /\ call'[p] = r /\ \A q \in Procs \ {p} : call'[q] = call[q]
        /\ disk'[i] = FreeInode
        /\ \A j \in Inodes \ {i} : mem'[j] = mem[j] /\ disk'[j] = disk[j]
    BY <1>4 DEF Inv, Types, CallType
  <1>6. ~Holds(p)' /\ ChunkInv(p)' /\ FilesStay(p)
    <2>1. ~Holds(p)' /\ ~Writing(p)' /\ ~At(p, "begin")'
      BY <1>3, <1>5 DEF Holds, At, Writing
    <2> QED BY <1>0, <1>3, <1>5, <2>1 DEF ChunkInv, FilesStay
  <1>7. Apart(p, i)
    BY <1>0, <1>1, <1>2, <1>5, <1>6 DEF Apart
  <1>8. /\ \A q \in Procs \ {p} : ChunkInv(q)'
        /\ \A j \in Inodes \ {i} : Bytes(j)' = Bytes(j)
    BY <1>0, <1>6, <1>7, OthersFiles
  <1>9. Bytes(i)' = Bytes(i)
    <2>1. BytesInv /\ BytesInv'
      BY BytesAre, BytesAreNext DEF Inv
    <2>2. ~Locked(i)'
      BY <1>6, <1>7, OwnInode DEF Inv
    <2>3. Bytes(i) = <<>>
      BY <1>0, <1>1, <2>1 DEF BytesInv
    <2>4. Bytes(i)' = BytesIn(data', FreeInode)
      BY <1>5, <2>1, <2>2 DEF BytesInv
    <2>5. FreeInode.size = 0
      BY DEF FreeInode
    <2> QED BY <2>3, <2>4, <2>5, Empty
  <1>10. FilesStep
    <2>1. \A q \in Procs : call'[q].todo = call[q].todo
      BY <1>2, <1>3, <1>5
    <2>2. \A j \in Inodes : disk'[j].nlink > 0 <=> disk[j].nlink > 0
      <3>1. FreeInode.nlink = 0
        BY DEF FreeInode
      <3> QED BY <1>2, <1>5, <3>1
    <2> QED BY <1>0, <1>8, <1>9, <2>1, <2>2, Stutter
  <1> QED BY <1>6, <1>8, <1>10 DEF Chunks

-----------------------------------------------------------------------------
(* Blocks implement files *)

LEMMA FilesInitially == Init => Bytewise!FilesInit /\ Chunks
  <1> SUFFICES ASSUME Init PROVE Bytewise!FilesInit /\ Chunks
    OBVIOUS
  <1>1. /\ disk = [i \in Inodes |-> FreeInode] /\ call = [p \in Procs |-> Idle]
        /\ file = [f \in Files |-> [ip |-> None, off |-> 0]]
        /\ fd = [p \in Procs |-> None]
    BY DEF Init
  <1>2. \A p \in Procs : call[p] = Idle
    BY <1>1
  <1>3. \A i \in Inodes : Bytes(i) = <<>>
    <2>1. \A i : ~Locked(i)
      BY <1>2, IdleIs DEF Locked
    <2>2. BytesInv
      BY InvInit, BytesAre DEF Inv
    <2>3. \A i \in Inodes : Bytes(i) = BytesIn(data, FreeInode)
      BY <1>1, <2>1, <2>2 DEF BytesInv
    <2>4. FreeInode.size = 0
      BY DEF FreeInode
    <2> QED BY <2>3, <2>4, Empty
  <1>4. Bytewise!FilesInit
    <2>1. [i \in Inodes |-> Bytes(i)] = [i \in Inodes |-> <<>>]
      BY <1>3
    <2>2. {i \in Inodes : disk[i].nlink > 0} = {}
      BY <1>1 DEF FreeInode
    <2>3. /\ [f \in Files |-> file[f].ip] = [f \in Files |-> None]
          /\ [f \in Files |-> file[f].off] = [f \in Files |-> 0]
      BY <1>1
    <2>4. [p \in Procs |-> call[p].todo] = [p \in Procs |-> <<>>]
      BY <1>2, IdleIs
    <2> QED BY <1>1, <2>1, <2>2, <2>3, <2>4 DEF Bytewise!FilesInit
  <1>5. Chunks
    <2>1. \A p \in Procs : ~Writing(p) /\ ~At(p, "begin") /\ call[p].todo = <<>>
      BY <1>2, IdleIs DEF Writing, At
    <2> QED BY <2>1 DEF Chunks, ChunkInv
  <1> QED BY <1>4, <1>5

LEMMA NothingFiles ==
  ASSUME Inv, Inv', Chunks, UNCHANGED <<used, data, disk, mem, ref, fd, file, call>>
  PROVE  Chunks' /\ FilesStep
  <1>1. Chunks'
    BY DEF Chunks, ChunkInv, At, Writing, Ip
  <1>2. \A i \in Inodes : Bytes(i)' = Bytes(i)
    <2> SUFFICES ASSUME NEW i \in Inodes PROVE Bytes(i)' = Bytes(i)
      OBVIOUS
    <2>1. BytesInv /\ BytesInv'
      BY BytesAre, BytesAreNext DEF Inv
    <2>2. Locked(i)' <=> Locked(i)
      BY Uses
    <2>3. CASE Locked(i)
      <3>1. PICK q \in Procs : (Writing(q) \/ At(q, "trunc")) /\ Ip(q) = i
        BY <2>3 DEF Locked, Writing, At
      <3>2. /\ Writing(q)' <=> Writing(q)
            /\ At(q, "trunc")' <=> At(q, "trunc")
            /\ Ip(q)' = i /\ call'[q] = call[q]
        BY <3>1 DEF Writing, At, Ip
      <3> QED BY <2>1, <3>1, <3>2 DEF BytesInv
    <2>4. CASE ~Locked(i)
      BY <2>1, <2>2, <2>4 DEF BytesInv
    <2> QED BY <2>3, <2>4
  <1> QED BY <1>1, <1>2, Stutter

LEMMA FilesNextStep == Inv /\ Inv' /\ Chunks /\ [Next]_vars => Chunks' /\ FilesStep
  <1> SUFFICES ASSUME Inv, Inv', Chunks, [Next]_vars PROVE Chunks' /\ FilesStep
    OBVIOUS
  <1> DEFINE G == Chunks' /\ FilesStep
  <1>1. CASE UNCHANGED vars
    <2>1. UNCHANGED <<used, data, disk, mem, ref, fd, file, call>>
      BY <1>1 DEF vars
    <2> QED BY <2>1, NothingFiles
  <1>2. CASE Next
    <2>1. Crash \/ (\E p \in Procs : Call(p)) \/ (\E p \in Procs : Step(p))
      BY <1>2 DEF Next
    <2>2. CASE Crash
      BY <2>2, CrashFiles
    <2>3. ASSUME NEW p \in Procs, Call(p) PROVE G
      <3>1. ASSUME NEW f \in Files, NEW i \in Inodes, Open(p, f, i) PROVE G
        BY <3>1, OpenFiles
      <3>2. ASSUME NEW f \in Files, NEW i \in Inodes, Create(p, f, i) PROVE G
        BY <3>2, CreateFiles
      <3>3. ASSUME NEW q \in Procs, Fork(p, q) PROVE G
        BY <3>3, ForkFiles
      <3>4. CASE Close(p)
        BY <3>4, CloseFiles
      <3>5. ASSUME NEW i \in Inodes, Unlink(p, i) PROVE G
        BY <3>5, UnlinkFiles
      <3>6. ASSUME NEW s \in Writes, Write(p, s) PROVE G
        BY <3>6, WriteFiles
      <3>7. ASSUME NEW n \in Reads, Read(p, n) PROVE G
        BY <3>7, ReadFiles
      <3> HIDE DEF G
      <3> QED BY <2>3, <3>1, <3>2, <3>3, <3>4, <3>5, <3>6, <3>7 DEF Call
    <2>4. ASSUME NEW p \in Procs, Step(p) PROVE G
      <3>1. CASE Ilock(p)
        BY <3>1, IlockFiles
      <3>2. CASE Balloc(p)
        BY <3>2, BallocFiles
      <3>3. CASE Bzero(p)
        BY <3>3, BzeroFiles
      <3>4. CASE WriteBlock(p)
        BY <3>4, WriteBlockFiles
      <3>5. CASE ChunkDone(p)
        BY <3>5, ChunkDoneFiles
      <3>6. CASE Iput(p)
        BY <3>6, IputFiles
      <3>7. CASE Bfree(p)
        BY <3>7, BfreeFiles
      <3>8. CASE FreeTheInode(p)
        BY <3>8, FreeTheInodeFiles
      <3>9. CASE Drop(p)
        BY <3>9, DropFiles
      <3> HIDE DEF G
      <3> QED BY <2>4, <3>1, <3>2, <3>3, <3>4, <3>5, <3>6, <3>7, <3>8, <3>9 DEF Step
    <2> QED BY <2>1, <2>2, <2>3, <2>4
  <1> QED BY <1>1, <1>2

\* Blocks, the bitmap, the indirect block and chunks under the lock of an inode implement
\* files that are sequences of bytes: what one process writes is there at once, at the
\* position of the open file, no other file changes, and a power failure changes none.
THEOREM Refinement == Spec => ImplementsFiles
  <1>1. Inv /\ Inv' /\ Chunks /\ [Next]_vars => Chunks'
    BY FilesNextStep
  <1>2. Inv /\ Inv' /\ Chunks /\ [Next]_vars => [Bytewise!FilesNext]_(Bytewise!FilesVars)
    BY FilesNextStep DEF FilesStep
  <1>3. Init => Chunks
    BY FilesInitially
  <1>4. Init => Bytewise!FilesInit
    BY FilesInitially
  <1>5. Spec => []Chunks
    BY <1>1, <1>3, Invariance, PTL DEF Spec
  <1> QED
    BY <1>2, <1>4, <1>5, Invariance, PTL DEF Spec, ImplementsFiles, Bytewise!FilesSpec

=============================================================================
