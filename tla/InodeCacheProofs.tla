--------------------------- MODULE InodeCacheProofs ---------------------------
(***************************************************************************)
(* Proofs about InodeCache, for every number of processes, inodes, names   *)
(* and entries of the cache, and whatever programs call.                   *)
(***************************************************************************)
EXTENDS InodeCache, FiniteSetTheorems, SequenceTheorems, TLAPS

Ops == AllCalls \cup {"none", "close", "linknew"}
Conts == {"user", "walk", "open", "link", "chdir", "exists", "made", "erased", "release",
          "linkbad"}
Pcs == Conts \cup {"put", "drop", "create", "make", "linknew", "unlink", "erase"}

CallRecords == [op : Ops, path : Seq(Elements), new : PathNames \cup {None},
                cur : Inums \cup {None}, ip : Inums \cup {None}, puts : Seq(Inums),
                cont : Conts, pc : Pcs]

CallType == call \in [Procs -> CallRecords]

Types ==
    /\ type \in [Inums -> {"free", "file", "dir"}]
    /\ nlink \in [Inums -> Nat] /\ ref \in [Inums -> Nat]
    /\ ents \in [Inums -> [Names -> Inums \cup {None}]]
    /\ valid \in [Inums -> BOOLEAN]
    /\ owner \in [Inums -> Procs \cup {None}]
    /\ up \in [Inums -> Inums \cup {None}] /\ lost \in SUBSET Inums
    /\ fh \in [Procs -> Inums \cup {None}] /\ cwd \in [Procs -> Inums]
    /\ strayed \in BOOLEAN
    /\ CallType

\* Where p is, or will be when it has put what it has to.
Putting(p) == At(p, "put") \/ At(p, "drop")
Loc(p) == IF Putting(p) THEN call[p].cont ELSE call[p].pc

\* What p has in hand at each point of a call.
HasCur == {"walk", "open", "create", "make", "link", "linknew", "unlink", "erase", "release",
           "chdir"}
HasIp == {"exists", "make", "made", "linknew", "linkbad", "erase", "erased"}
HasPath == {"create", "make", "linknew", "unlink", "erase"}

OpsAt(c) ==
    CASE c = "open" -> {"open"}
      [] c = "link" -> {"link"}
      [] c = "chdir" -> {"chdir"}
      [] c \in {"create", "exists", "make", "made"} -> {"create", "mkdir"}
      [] c \in {"linknew", "linkbad"} -> {"linknew"}
      [] c \in {"unlink", "erase", "erased"} -> {"unlink"}
      [] c = "release" -> {"linknew", "unlink"}
      [] c = "walk" -> AllCalls \cup {"linknew"}
      [] OTHER -> Ops

CallInv(p) ==
    /\ At(p, "user") => call[p] = Idle
    /\ Putting(p) => \/ Len(call[p].puts) = 1
                     \/ Len(call[p].puts) = 2 /\ call[p].cont = "user"
    /\ ~Putting(p) => call[p].puts = <<>>
    /\ Cur(p) # None <=> Loc(p) \in HasCur
    /\ Ip(p) # None <=>
         (Loc(p) \in HasIp \/ (call[p].op = "linknew" /\ Loc(p) \in {"walk", "release"}))
    /\ call[p].op \in OpsAt(Loc(p))
    /\ Loc(p) \in HasPath => call[p].path # <<>>
    /\ call[p].op = "link" => call[p].new \in PathNames
    /\ call[p].op \in {"open", "create"} => fh[p] = None

\* The lock that p holds.
LockOf(p) ==
    CASE Loc(p) \in {"make", "erase", "release"} -> Cur(p)
      [] Loc(p) \in {"made", "erased"} -> Ip(p)
      [] OTHER -> None

LockInv(p) == LockOf(p) # None => owner[LockOf(p)] = p

\* The inodes p refers to, but for one that it may have freed and is about to drop.
Uses(p) ==
    {fh[p], cwd[p], Cur(p), Ip(p), Put(p, 2),
     IF At(p, "drop") THEN None ELSE Put(p, 1)} \ {None}

UseInv(p) == \A i \in Uses(p) : type[i] # "free"

\* Parents are directories, and link() does not link any.
KindInv(p) ==
    /\ Loc(p) \in {"create", "make", "linknew", "unlink", "erase", "release"} =>
         type[Cur(p)] = "dir"
    /\ call[p].op = "linknew" /\ Ip(p) # None => type[Ip(p)] = "file"

\* Until create() has linked the new inode, nobody else knows it; the name it gets
\* is free, and the one that unlink() erases is there.
NewInv(p) ==
    At(p, "make") =>
      /\ nlink[Ip(p)] = 0 /\ ents[Ip(p)] = NoEnts /\ Ip(p) # Root
      /\ \A d \in Inums, n \in Names : ents[d][n] # Ip(p)
      /\ \A d \in Inums : up[d] = Ip(p) => d \in lost
      /\ Ip(p) # Cur(p) /\ Ip(p) # fh[p] /\ Ip(p) # cwd[p]
      /\ Head(call[p].path) \in Names
      /\ \A q \in Procs \ {p} : Ip(p) \notin Uses(q)
      /\ ents[Cur(p)][Head(call[p].path)] = None

OldInv(p) ==
    /\ At(p, "erase") => /\ Head(call[p].path) \in Names
                         /\ ents[Cur(p)][Head(call[p].path)] = Ip(p)
    /\ Loc(p) = "erased" => ents[Ip(p)] = NoEnts

ProcInv(p) ==
    /\ CallInv(p) /\ LockInv(p) /\ UseInv(p) /\ KindInv(p) /\ NewInv(p) /\ OldInv(p)

\* The inode that has one link more than entries, because of a call under way.
Pending(p) ==
    IF call[p].op = "linknew" \/ Loc(p) = "erased" THEN Ip(p) ELSE None

Links(i) ==
    Cardinality(Entries(i)) + (IF i = Root THEN 1 ELSE 0) + Cardinality(Subdirs(i))
    + Cardinality({p \in Procs : Pending(p) = i})

\* Link counts cover the entries, and are exact unless an entry was made in a removed
\* directory; until then only a directory that has a name has entries.
DiskInv ==
    /\ type[Root] = "dir"
    /\ \A i \in Inums : type[i] # "dir" => ents[i] = NoEnts
    /\ \A d \in Inums, n \in Names : ents[d][n] # None => type[ents[d][n]] # "free"
    /\ \A i \in Inums : nlink[i] >= Links(i)
    /\ ~strayed => \A i \in Inums : nlink[i] = Links(i)
    /\ ~strayed => \A i \in Inums : ents[i] # NoEnts => i = Root \/ Entries(i) # {}

\* A directory that has a name is in the directory that its ".." leads to; and until
\* that is freed, ".." does not lead to a free inode.
UpInv ==
    /\ \A d \in Inums, n \in Names :
           ents[d][n] # None /\ type[ents[d][n]] = "dir" =>
             up[ents[d][n]] = d /\ ents[d][n] \notin lost
    /\ \A d \in Inums \ lost : up[d] # None => type[up[d]] # "free"

\* The invariant as long as no path has gone through the ".." of a lost directory.
Inv ==
    /\ adrift = FALSE
    /\ Types /\ RefsExact /\ DiskInv /\ UpInv
    /\ \A p \in Procs : ProcInv(p)
    /\ panicked \in {"no", "iget", "ialloc"}

-----------------------------------------------------------------------------
(* Counting *)

Has(v, i) == IF v = i THEN 1 ELSE 0
Count(S, f, v) == Cardinality({q \in S : f[q] = v})

\* A function that changes at one place takes one value less and another one more.
LEMMA CountChange ==
  ASSUME NEW S, IsFiniteSet(S), NEW f, NEW g, NEW p \in S, NEW v,
         \A q \in S \ {p} : g[q] = f[q]
  PROVE  /\ Count(S, f, v) \in Nat /\ Count(S, g, v) \in Nat
         /\ Count(S, g, v) + Has(f[p], v) = Count(S, f, v) + Has(g[p], v)
  <1> DEFINE A == {q \in S \ {p} : f[q] = v}
             F == {q \in S : f[q] = v}
             G == {q \in S : g[q] = v}
  <1>1. /\ F = IF f[p] = v THEN A \cup {p} ELSE A
        /\ G = IF g[p] = v THEN A \cup {p} ELSE A
        /\ A \in SUBSET S /\ p \notin A
    OBVIOUS
  <1>2. IsFiniteSet(A)
    BY <1>1, FS_Subset
  <1>3. Cardinality(A) \in Nat
    BY <1>2, FS_CardinalityType
  <1>4. Cardinality(A \cup {p}) = Cardinality(A) + 1
    BY <1>1, <1>2, FS_AddElement
  <1> HIDE DEF A, F, G
  <1>5. /\ Cardinality(F) = IF f[p] = v THEN Cardinality(A) + 1 ELSE Cardinality(A)
        /\ Cardinality(G) = IF g[p] = v THEN Cardinality(A) + 1 ELSE Cardinality(A)
    BY <1>1, <1>4
  <1>6. /\ Cardinality(F) \in Nat /\ Cardinality(G) \in Nat
        /\ Cardinality(G) + Has(f[p], v) = Cardinality(F) + Has(g[p], v)
    BY <1>3, <1>5 DEF Has
  <1> QED BY <1>6 DEF F, G, Count

\* Two places that have a value count for two.
LEMMA CountTwo ==
  ASSUME NEW S, IsFiniteSet(S), NEW f, NEW p \in S, NEW q \in S, NEW v
  PROVE  /\ Count(S, f, v) \in Nat /\ Count(S, f, v) >= Has(f[p], v)
         /\ q # p => Count(S, f, v) >= Has(f[p], v) + Has(f[q], v)
  <1> DEFINE F == {r \in S : f[r] = v}
             T == {r \in {p, q} : f[r] = v}
  <1>1. T \in SUBSET F /\ F \in SUBSET S
    OBVIOUS
  <1>2. IsFiniteSet(F)
    BY <1>1, FS_Subset
  <1>3. Cardinality(T) <= Cardinality(F) /\ Cardinality(F) \in Nat /\ Cardinality(T) \in Nat
    BY <1>1, <1>2, FS_Subset, FS_CardinalityType
  <1>4. CASE f[p] = v /\ f[q] = v /\ q # p
    <2>1. T = {p} \cup {q} /\ q \notin {p}
      BY <1>4
    <2>2. IsFiniteSet({p}) /\ Cardinality({p}) = 1
      BY FS_Singleton
    <2>3. Cardinality(T) = 2
      BY <2>1, <2>2, FS_AddElement
    <2> QED BY <1>3, <1>4, <2>3 DEF Has, Count
  <1>5. CASE f[p] # v /\ ~(f[q] = v /\ q # p)
    BY <1>3, <1>5 DEF Has, Count
  <1>6. CASE (f[p] = v /\ ~(f[q] = v /\ q # p)) \/ (f[p] # v /\ f[q] = v /\ q # p)
    <2>1. T = {p} \/ T = {q}
      BY <1>6
    <2>2. Cardinality(T) = 1
      BY <2>1, FS_Singleton
    <2> QED BY <1>3, <1>6, <2>2 DEF Has, Count
  <1> QED BY <1>4, <1>5, <1>6

\* How often p refers to i.
Own(p, i) == Has(fh[p], i) + Has(cwd[p], i) + Has(Cur(p), i) + Has(Ip(p), i)
             + Has(Put(p, 1), i) + Has(Put(p, 2), i)

\* When only p moves, the references change by what p has more or less.
LEMMA RefsChange ==
  ASSUME NEW p \in Procs, NEW i \in Inums,
         \A q \in Procs \ {p} : call'[q] = call[q] /\ fh'[q] = fh[q] /\ cwd'[q] = cwd[q]
  PROVE  /\ Refs(i) \in Nat /\ Refs(i)' \in Nat
         /\ Refs(i)' + Own(p, i) = Refs(i) + Own(p, i)'
  <1> DEFINE f1 == [q \in Procs |-> fh[q]]
             f2 == [q \in Procs |-> Cur(q)]
             f3 == [q \in Procs |-> Ip(q)]
             f4 == [q \in Procs |-> Put(q, 1)]
             f5 == [q \in Procs |-> Put(q, 2)]
             f6 == [q \in Procs |-> cwd[q]]
             g1 == [q \in Procs |-> fh'[q]]
             g2 == [q \in Procs |-> Cur(q)']
             g3 == [q \in Procs |-> Ip(q)']
             g4 == [q \in Procs |-> Put(q, 1)']
             g5 == [q \in Procs |-> Put(q, 2)']
             g6 == [q \in Procs |-> cwd'[q]]
             C(f) == Count(Procs, f, i)
  <1>1. \A q \in Procs \ {p} : /\ g1[q] = f1[q] /\ g2[q] = f2[q] /\ g3[q] = f3[q]
                               /\ g4[q] = f4[q] /\ g5[q] = f5[q] /\ g6[q] = f6[q]
    BY DEF Cur, Ip, Put
  <1>2. /\ f1[p] = fh[p] /\ f2[p] = Cur(p) /\ f3[p] = Ip(p)
        /\ f4[p] = Put(p, 1) /\ f5[p] = Put(p, 2) /\ f6[p] = cwd[p]
        /\ g1[p] = fh'[p] /\ g2[p] = Cur(p)' /\ g3[p] = Ip(p)'
        /\ g4[p] = Put(p, 1)' /\ g5[p] = Put(p, 2)' /\ g6[p] = cwd'[p]
    OBVIOUS
  <1>3. /\ Refs(i) = C(f1) + C(f6) + C(f2) + C(f3) + C(f4) + C(f5)
        /\ Refs(i)' = C(g1) + C(g6) + C(g2) + C(g3) + C(g4) + C(g5)
    BY DEF Refs, Count
  <1> HIDE DEF f1, f2, f3, f4, f5, f6, g1, g2, g3, g4, g5, g6
  <1>4. IsFiniteSet(Procs)
    BY FiniteAssumption
  <1>5. ASSUME NEW f, NEW g, \A q \in Procs \ {p} : g[q] = f[q]
        PROVE  C(f) \in Nat /\ C(g) \in Nat /\ C(g) + Has(f[p], i) = C(f) + Has(g[p], i)
    <2>1. C(g) + Has(f[p], i) = C(f) + Has(g[p], i)
      BY <1>4, <1>5, CountChange
    <2>2. C(f) \in Nat /\ C(g) \in Nat
      BY <1>4, CountTwo
    <2> QED BY <2>1, <2>2
  <1>6. C(f1) \in Nat /\ C(g1) \in Nat /\ C(g1) + Has(f1[p], i) = C(f1) + Has(g1[p], i)
    BY <1>1, <1>5, Zenon
  <1>7. C(f2) \in Nat /\ C(g2) \in Nat /\ C(g2) + Has(f2[p], i) = C(f2) + Has(g2[p], i)
    BY <1>1, <1>5, Zenon
  <1>8. C(f3) \in Nat /\ C(g3) \in Nat /\ C(g3) + Has(f3[p], i) = C(f3) + Has(g3[p], i)
    BY <1>1, <1>5, Zenon
  <1>9. C(f4) \in Nat /\ C(g4) \in Nat /\ C(g4) + Has(f4[p], i) = C(f4) + Has(g4[p], i)
    BY <1>1, <1>5, Zenon
  <1>10. C(f5) \in Nat /\ C(g5) \in Nat /\ C(g5) + Has(f5[p], i) = C(f5) + Has(g5[p], i)
    BY <1>1, <1>5, Zenon
  <1>12. C(f6) \in Nat /\ C(g6) \in Nat /\ C(g6) + Has(f6[p], i) = C(f6) + Has(g6[p], i)
    BY <1>1, <1>5, Zenon
  <1>11. \A v : Has(v, i) \in Nat
    BY DEF Has
  <1> HIDE DEF C
  <1> QED BY <1>2, <1>3, <1>6, <1>7, <1>8, <1>9, <1>10, <1>11, <1>12 DEF Own

\* The references of two processes are among those that are counted.
LEMMA RefsOfTwo ==
  ASSUME NEW p \in Procs, NEW q \in Procs, NEW i \in Inums
  PROVE  /\ Own(p, i) \in Nat /\ Own(q, i) \in Nat /\ Refs(i) >= Own(p, i)
         /\ q # p => Refs(i) >= Own(p, i) + Own(q, i)
  <1> DEFINE f1 == [r \in Procs |-> fh[r]]
             f2 == [r \in Procs |-> Cur(r)]
             f3 == [r \in Procs |-> Ip(r)]
             f4 == [r \in Procs |-> Put(r, 1)]
             f5 == [r \in Procs |-> Put(r, 2)]
             f6 == [r \in Procs |-> cwd[r]]
             C(f) == Count(Procs, f, i)
             Two(f) == /\ C(f) \in Nat
                       /\ C(f) >= Has(f[p], i)
                       /\ q # p => C(f) >= Has(f[p], i) + Has(f[q], i)
  <1>1. \A r \in Procs : /\ f1[r] = fh[r] /\ f2[r] = Cur(r) /\ f3[r] = Ip(r)
                         /\ f4[r] = Put(r, 1) /\ f5[r] = Put(r, 2)
                         /\ f6[r] = cwd[r]
    OBVIOUS
  <1>2. Refs(i) = C(f1) + C(f6) + C(f2) + C(f3) + C(f4) + C(f5)
    BY DEF Refs, Count
  <1>3. IsFiniteSet(Procs)
    BY FiniteAssumption
  <1>4. \A v : Has(v, i) \in Nat
    BY DEF Has
  <1>5. ASSUME NEW f PROVE Two(f)
    BY <1>3, CountTwo
  <1> HIDE DEF f1, f2, f3, f4, f5, f6
  <1>6. Two(f1) /\ Two(f2) /\ Two(f3) /\ Two(f4) /\ Two(f5) /\ Two(f6)
    BY <1>5
  <1> HIDE DEF C
  <1> QED BY <1>1, <1>2, <1>4, <1>6 DEF Own

-----------------------------------------------------------------------------
(* What a step of one process leaves to the others *)

\* Only p moves.
Alone(p) ==
    \A q \in Procs \ {p} : call'[q] = call[q] /\ fh'[q] = fh[q] /\ cwd'[q] = cwd[q]

\* p changes only inodes it refers to, or free ones, and of these not what others have
\* locked or refer to.
Modest(p) ==
    /\ Alone(p)
    /\ \A i \in Inums : owner'[i] = owner[i] \/ owner[i] \in {None, p}
    /\ \A i \in Inums : \/ type'[i] = type[i] \/ type[i] = "free"
                        \/ ref[i] = 1 /\ i \in Uses(p)
    /\ \A i \in Inums : nlink'[i] = nlink[i] \/ i \in Uses(p) \/ type[i] = "free"
    /\ \A i \in Inums : ents'[i] = ents[i] \/ (i \in Uses(p) /\ owner[i] \in {None, p})
    /\ \A d \in Inums, n \in Names : \/ ents'[d][n] = ents[d][n]
                                     \/ ents'[d][n] \in Uses(p) \cup {None}
    /\ \A d \in Inums : \/ up'[d] = up[d] /\ (d \in lost => d \in lost')
                        \/ up'[d] \in Uses(p) \cup {None}

\* A name, or the ".." of a directory that is not lost, leads to i.
Leads(i) ==
    \/ \E d \in Inums, n \in Names : ents[d][n] = i
    \/ \E d \in Inums \ lost : up[d] = i

\* The inodes p comes to know are the root, free ones, and those that something leads to.
Finds(p) ==
    \A i \in Uses(p)' : i \in Uses(p) \/ i = Root \/ type[i] = "free" \/ Leads(i)

LEMMA UsesAreInodes ==
  ASSUME Types, NEW p \in Procs
  PROVE  /\ Uses(p) \in SUBSET Inums /\ cwd[p] \in Inums /\ cwd[p] \in Uses(p)
         /\ \A i \in Uses(p) : Own(p, i) >= 1
         /\ \A i : Own(p, i) \in Nat
  <1>1. /\ fh[p] \in Inums \cup {None} /\ Cur(p) \in Inums \cup {None}
        /\ Ip(p) \in Inums \cup {None} /\ cwd[p] \in Inums
    BY DEF Types, CallType, CallRecords, Cur, Ip
  <1>2. ASSUME NEW k \in {1, 2} PROVE Put(p, k) \in Inums \cup {None}
    BY DEF Types, CallType, CallRecords, Put
  <1>3. Put(p, 1) \in Inums \cup {None} /\ Put(p, 2) \in Inums \cup {None}
    BY <1>2
  <1>4. \A v, i : Has(v, i) \in Nat /\ (v = i => Has(v, i) = 1)
    BY DEF Has
  <1>5. \A i : Own(p, i) \in Nat
    BY <1>4 DEF Own
  <1>6. ASSUME NEW i \in Uses(p) PROVE Own(p, i) >= 1
    <2>1. i \in {fh[p], cwd[p], Cur(p), Ip(p), Put(p, 1), Put(p, 2)}
      BY DEF Uses
    <2> QED BY <1>4, <2>1 DEF Own
  <1>7. Uses(p) \in SUBSET Inums /\ cwd[p] \in Uses(p)
    BY <1>1, <1>3, NoneAssumption DEF Uses
  <1> QED BY <1>1, <1>5, <1>6, <1>7

\* What p knows alone, nobody else refers to.
LEMMA LastReference ==
  ASSUME Types, RefsExact, NEW p \in Procs, NEW i \in Inums, ref[i] = 1, Own(p, i) >= 1
  PROVE  Own(p, i) = 1 /\ \A q \in Procs \ {p} : i \notin Uses(q)
  <1>1. Refs(i) = 1
    BY DEF RefsExact
  <1>2. Own(p, i) = 1
    BY <1>1, RefsOfTwo
  <1>3. ASSUME NEW q \in Procs \ {p}, i \in Uses(q) PROVE FALSE
    <2>1. Own(q, i) >= 1
      BY <1>3, UsesAreInodes
    <2>2. /\ Own(p, i) \in Nat /\ Own(q, i) \in Nat
          /\ Refs(i) >= Own(p, i) + Own(q, i)
      BY RefsOfTwo
    <2> QED BY <1>1, <1>2, <2>1, <2>2
  <1> QED BY <1>2, <1>3

LEMMA OthersKeep ==
  ASSUME Inv, NEW p \in Procs, Modest(p), Finds(p)
  PROVE  \A q \in Procs \ {p} : ProcInv(q)'
  <1>1. SUFFICES ASSUME NEW q \in Procs \ {p} PROVE ProcInv(q)'
    OBVIOUS
  <1>2. /\ Types /\ RefsExact /\ ProcInv(q) /\ q \in Procs /\ ProcInv(p)
        /\ Uses(p) \in SUBSET Inums /\ Uses(q) \in SUBSET Inums
    BY UsesAreInodes DEF Inv
  <1>3. call'[q] = call[q] /\ fh'[q] = fh[q] /\ cwd'[q] = cwd[q]
    BY DEF Modest, Alone
  <1>4. /\ Cur(q)' = Cur(q) /\ Ip(q)' = Ip(q) /\ Loc(q)' = Loc(q) /\ Uses(q)' = Uses(q)
        /\ LockOf(q)' = LockOf(q)
        /\ At(q, "make")' = At(q, "make") /\ At(q, "erase")' = At(q, "erase")
        /\ Head(call[q].path)' = Head(call[q].path)
        /\ call[q].op' = call[q].op
    BY <1>3 DEF Cur, Ip, Loc, Uses, LockOf, At, Putting, Put
  <1>5. \A i \in Uses(q) : type'[i] = type[i] \/ type[i] = "free"
    <2>1. SUFFICES ASSUME NEW i \in Uses(q), ref[i] = 1, i \in Uses(p) PROVE FALSE
      BY <1>2 DEF Modest
    <2>2. i \in Inums /\ Own(p, i) >= 1
      BY <1>2, <2>1, UsesAreInodes
    <2> QED BY <1>2, <2>1, <2>2, LastReference
  <1>6. \A i \in Uses(q) : type'[i] = type[i] /\ type[i] # "free"
    BY <1>2, <1>5 DEF ProcInv, UseInv
  <1>7. UseInv(q)'
    BY <1>4, <1>6 DEF UseInv
  <1>8. CallInv(q)'
    <2>1. CallInv(q)
      BY <1>2 DEF ProcInv
    <2> QED BY <1>3, <1>4, <2>1 DEF CallInv, Idle, At, Putting, Loc
  <1>9. LockInv(q)'
    <2>1. LockOf(q) # None => owner[LockOf(q)] = q /\ LockOf(q) \in Inums
      <3>1. LockOf(q) \in {Cur(q), Ip(q), None}
        BY DEF LockOf
      <3>2. Cur(q) \in Inums \cup {None} /\ Ip(q) \in Inums \cup {None}
        BY <1>2 DEF Types, CallType, CallRecords, Cur, Ip
      <3> QED BY <1>2, <3>1, <3>2 DEF ProcInv, LockInv
    <2>2. q # None
      BY <1>2, <2>1, ProcsAssumption
    <2> QED BY <1>4, <2>1, <2>2 DEF LockInv, Modest
  <1>10. Cur(q) \in Uses(q) \cup {None} /\ Ip(q) \in Uses(q) \cup {None}
    BY DEF Uses
  <1>11. KindInv(q)'
    <2>1. KindInv(q) /\ CallInv(q)
      BY <1>2 DEF ProcInv
    <2>2. Loc(q) \in {"create", "make", "linknew", "unlink", "erase", "release"} =>
            Cur(q) # None
      BY <2>1 DEF CallInv, HasCur
    <2> QED BY <1>3, <1>4, <1>6, <1>10, <2>1, <2>2 DEF KindInv
  <1>12. \A i \in Inums : owner[i] = q => ents'[i] = ents[i]
    BY ProcsAssumption DEF Modest
  <1>13. NewInv(q)'
    <2>1. SUFFICES ASSUME At(q, "make") PROVE NewInv(q)'
      BY <1>4 DEF NewInv
    <2>2. /\ NewInv(q) /\ LockInv(q) /\ CallInv(q) /\ Loc(q) = "make"
          /\ Cur(q) # None /\ Ip(q) # None /\ LockOf(q) = Cur(q)
      BY <1>2, <2>1 DEF ProcInv, Loc, At, Putting, LockOf, CallInv, HasCur, HasIp
    <2>3. Cur(q) \in Uses(q) /\ Ip(q) \in Uses(q) /\ owner[Cur(q)] = q
      BY <1>10, <2>2 DEF LockInv
    <2>4. Ip(q) \notin Uses(p)
      BY <2>1, <2>2 DEF NewInv
    <2>5. ents'[Cur(q)] = ents[Cur(q)]
      BY <1>2, <1>12, <2>3
    <2>6. nlink'[Ip(q)] = nlink[Ip(q)] /\ ents'[Ip(q)] = ents[Ip(q)]
      BY <1>2, <1>6, <2>3, <2>4 DEF Modest
    <2>7. \A d \in Inums, n \in Names : ents'[d][n] # Ip(q)
      BY <2>1, <2>2, <2>4 DEF Modest, NewInv
    <2>8. Ip(q) \notin Uses(p)'
      BY <1>6, <2>1, <2>2, <2>3, <2>4 DEF Finds, NewInv, Leads
    <2>11. \A d \in Inums : up'[d] = Ip(q) => d \in lost'
      BY <2>1, <2>2, <2>4 DEF Modest, NewInv
    <2>9. ASSUME NEW r \in Procs \ {q} PROVE Ip(q) \notin Uses(r)'
      <3>1. CASE r = p
        BY <2>8, <3>1
      <3>2. CASE r # p
        <4>1. Uses(r)' = Uses(r)
          BY <3>2 DEF Modest, Alone, Uses, Cur, Ip, At, Put
        <4> QED BY <2>1, <2>2, <4>1 DEF NewInv
      <3> QED BY <3>1, <3>2
    <2>10. Ip(q) # Root /\ Ip(q) # Cur(q) /\ Ip(q) # fh[q] /\ nlink[Ip(q)] = 0
           /\ ents[Ip(q)] = NoEnts /\ ents[Cur(q)][Head(call[q].path)] = None
           /\ Ip(q) # cwd[q] /\ Head(call[q].path) \in Names
      BY <2>1, <2>2 DEF NewInv
    <2> QED BY <1>3, <1>4, <2>5, <2>6, <2>7, <2>9, <2>10, <2>11 DEF NewInv
  <1>14. OldInv(q)'
    <2>1. OldInv(q) /\ LockInv(q) /\ CallInv(q)
      BY <1>2 DEF ProcInv
    <2>2. At(q, "erase") => ents'[Cur(q)] = ents[Cur(q)]
      <3>1. SUFFICES ASSUME At(q, "erase") PROVE ents'[Cur(q)] = ents[Cur(q)]
        OBVIOUS
      <3>2. LockOf(q) = Cur(q) /\ Cur(q) # None
        BY <2>1, <3>1 DEF Loc, At, Putting, LockOf, CallInv, HasCur
      <3> QED BY <1>2, <1>10, <1>12, <2>1, <3>2 DEF LockInv
    <2>3. Loc(q) = "erased" => ents'[Ip(q)] = ents[Ip(q)]
      <3>1. SUFFICES ASSUME Loc(q) = "erased" PROVE ents'[Ip(q)] = ents[Ip(q)]
        OBVIOUS
      <3>2. LockOf(q) = Ip(q) /\ Ip(q) # None
        BY <2>1, <3>1 DEF LockOf, CallInv, HasIp
      <3> QED BY <1>2, <1>10, <1>12, <2>1, <3>2 DEF LockInv
    <2> QED BY <1>3, <1>4, <2>1, <2>2, <2>3 DEF OldInv, NoEnts
  <1> QED BY <1>7, <1>8, <1>9, <1>11, <1>13, <1>14 DEF ProcInv

-----------------------------------------------------------------------------
(* Steps that leave the disk alone *)

LEMMA HasIs ==
  /\ \A v, i : Has(v, i) = IF v = i THEN 1 ELSE 0
  /\ \A i \in Inums : Has(None, i) = 0
  <1>1. \A v, i : Has(v, i) = IF v = i THEN 1 ELSE 0
    BY DEF Has
  <1>2. ASSUME NEW i \in Inums PROVE Has(None, i) = 0
    <2>1. None # i
      BY NoneAssumption
    <2> QED BY <2>1 DEF Has
  <1> QED BY <1>1, <1>2

LEMMA PutIs ==
  ASSUME NEW p
  PROVE  /\ call[p].puts = <<>> => Put(p, 1) = None /\ Put(p, 2) = None
         /\ \A i : call[p].puts = <<i>> =>
              Put(p, 1) = i /\ Put(p, 2) = None /\ Len(call[p].puts) = 1
         /\ \A i, j : call[p].puts = <<i, j>> =>
              Put(p, 1) = i /\ Put(p, 2) = j /\ Len(call[p].puts) = 2
  <1>1. call[p].puts = <<>> => Put(p, 1) = None /\ Put(p, 2) = None
    BY DEF Put
  <1>2. ASSUME NEW i, call[p].puts = <<i>>
        PROVE  Put(p, 1) = i /\ Put(p, 2) = None /\ Len(call[p].puts) = 1
    BY <1>2 DEF Put
  <1>3. ASSUME NEW i, NEW j, call[p].puts = <<i, j>>
        PROVE  Put(p, 1) = i /\ Put(p, 2) = j /\ Len(call[p].puts) = 2
    BY <1>3 DEF Put
  <1> QED BY <1>1, <1>2, <1>3

\* The registers of the model's process, with their types.
LEMMA Registers ==
  ASSUME Types, NEW p \in Procs
  PROVE  /\ cwd[p] \in Inums /\ fh[p] \in Inums \cup {None} /\ Cur(p) \in Inums \cup {None}
         /\ Ip(p) \in Inums \cup {None} /\ Put(p, 1) \in Inums \cup {None}
         /\ Put(p, 2) \in Inums \cup {None}
         /\ call[p].op \in Ops /\ call[p].path \in Seq(Elements)
         /\ call[p].new \in PathNames \cup {None}
         /\ call[p].puts \in Seq(Inums) /\ call[p].cont \in Conts /\ call[p].pc \in Pcs
  <1>1. ASSUME NEW k \in {1, 2} PROVE Put(p, k) \in Inums \cup {None}
    BY DEF Types, CallType, CallRecords, Put
  <1> QED BY <1>1 DEF Types, CallType, CallRecords, Cur, Ip

\* What p is at afterwards.
LEMMA Becomes ==
  ASSUME CallType, NEW p \in Procs, NEW r \in CallRecords, call' = [call EXCEPT ![p] = r]
  PROVE  /\ CallType' /\ (\A q \in Procs \ {p} : call'[q] = call[q]) /\ call'[p] = r
         /\ At(p, r.pc)' /\ call[p].pc' = r.pc /\ call[p].cont' = r.cont
         /\ call[p].op' = r.op /\ call[p].path' = r.path /\ call[p].new' = r.new
         /\ call[p].puts' = r.puts /\ Cur(p)' = r.cur /\ Ip(p)' = r.ip
         /\ Loc(p)' = IF r.pc \in {"put", "drop"} THEN r.cont ELSE r.pc
         /\ Putting(p)' = (r.pc \in {"put", "drop"})
  <1>1. CallType' /\ call'[p] = r /\ \A q \in Procs \ {p} : call'[q] = call[q]
    BY DEF CallType
  <1> QED BY <1>1 DEF At, Cur, Ip, Loc, Putting

SameCall(p) ==
    /\ call[p].op' = call[p].op /\ call[p].path' = call[p].path
    /\ call[p].new' = call[p].new

LEMMA PutCurIs ==
  ASSUME CallType, NEW p \in Procs, Cur(p) \in Inums, NEW c \in Conts, PutCur(p, c)
  PROVE  /\ CallType' /\ (\A q \in Procs \ {p} : call'[q] = call[q])
         /\ SameCall(p) /\ call[p].pc' = "put" /\ call[p].cont' = c /\ Loc(p)' = c
         /\ Cur(p)' = None /\ Ip(p)' = Ip(p)
         /\ call[p].puts' = <<Cur(p)>> /\ Put(p, 1)' = Cur(p) /\ Put(p, 2)' = None
  <1> DEFINE r == [call[p] EXCEPT !.pc = "put", !.puts = <<Cur(p)>>, !.cur = None,
                                  !.cont = c]
  <1>1. call' = [call EXCEPT ![p] = r]
    BY DEF PutCur, CallType
  <1>2. /\ call[p] \in CallRecords /\ <<Cur(p)>> \in Seq(Inums) /\ "put" \in Pcs
    BY DEF CallType, Pcs
  <1>3. /\ r \in CallRecords /\ r.pc = "put" /\ r.puts = <<Cur(p)>> /\ r.cur = None
        /\ r.cont = c /\ r.ip = Ip(p) /\ r.op = call[p].op /\ r.path = call[p].path
        /\ r.new = call[p].new
    BY <1>2 DEF CallRecords, Ip
  <1> HIDE DEF r
  <1>4. call[p].puts' = <<Cur(p)>>
    BY <1>1, <1>3, Becomes
  <1>5. Put(p, 1)' = Cur(p) /\ Put(p, 2)' = None
    BY <1>4 DEF Put
  <1> QED BY <1>1, <1>3, <1>4, <1>5, Becomes DEF SameCall

LEMMA PutIpIs ==
  ASSUME CallType, NEW p \in Procs, Ip(p) \in Inums, NEW c \in Conts, PutIp(p, c)
  PROVE  /\ CallType' /\ (\A q \in Procs \ {p} : call'[q] = call[q])
         /\ SameCall(p) /\ call[p].pc' = "put" /\ call[p].cont' = c /\ Loc(p)' = c
         /\ Cur(p)' = Cur(p) /\ Ip(p)' = None
         /\ call[p].puts' = <<Ip(p)>> /\ Put(p, 1)' = Ip(p) /\ Put(p, 2)' = None
  <1> DEFINE r == [call[p] EXCEPT !.pc = "put", !.puts = <<Ip(p)>>, !.ip = None,
                                  !.cont = c]
  <1>1. call' = [call EXCEPT ![p] = r]
    BY DEF PutIp, CallType
  <1>2. /\ call[p] \in CallRecords /\ <<Ip(p)>> \in Seq(Inums) /\ "put" \in Pcs
    BY DEF CallType, Pcs
  <1>3. /\ r \in CallRecords /\ r.pc = "put" /\ r.puts = <<Ip(p)>> /\ r.ip = None
        /\ r.cont = c /\ r.cur = Cur(p) /\ r.op = call[p].op /\ r.path = call[p].path
        /\ r.new = call[p].new
    BY <1>2 DEF CallRecords, Cur
  <1> HIDE DEF r
  <1>4. call[p].puts' = <<Ip(p)>>
    BY <1>1, <1>3, Becomes
  <1>5. Put(p, 1)' = Ip(p) /\ Put(p, 2)' = None
    BY <1>4 DEF Put
  <1> QED BY <1>1, <1>3, <1>4, <1>5, Becomes DEF SameCall

LEMMA GotoIs ==
  ASSUME CallType, NEW p \in Procs, NEW c \in Pcs, Goto(p, c)
  PROVE  /\ CallType' /\ (\A q \in Procs \ {p} : call'[q] = call[q])
         /\ SameCall(p) /\ call[p].pc' = c /\ call[p].cont' = call[p].cont
         /\ Loc(p)' = IF c \in {"put", "drop"} THEN call[p].cont ELSE c
         /\ Cur(p)' = Cur(p) /\ Ip(p)' = Ip(p)
         /\ call[p].puts' = call[p].puts /\ Put(p, 1)' = Put(p, 1) /\ Put(p, 2)' = Put(p, 2)
  <1> DEFINE r == [call[p] EXCEPT !.pc = c]
  <1>1. call' = [call EXCEPT ![p] = r]
    BY DEF Goto, CallType
  <1>2. /\ r \in CallRecords /\ r.pc = c /\ r.puts = call[p].puts /\ r.ip = Ip(p)
        /\ r.cont = call[p].cont /\ r.cur = Cur(p) /\ r.op = call[p].op
        /\ r.path = call[p].path /\ r.new = call[p].new
    BY DEF CallType, CallRecords, Cur, Ip
  <1> HIDE DEF r
  <1>3. call[p].puts' = call[p].puts
    BY <1>1, <1>2, Becomes
  <1>4. Put(p, 1)' = Put(p, 1) /\ Put(p, 2)' = Put(p, 2)
    BY <1>3 DEF Put
  <1> QED BY <1>1, <1>2, <1>3, <1>4, Becomes DEF SameCall

\* A process that comes back to user code.
LEMMA IdleIs ==
  /\ Idle \in CallRecords
  /\ Idle.op = "none" /\ Idle.cur = None /\ Idle.ip = None /\ Idle.puts = <<>>
  /\ Idle.pc = "user" /\ Idle.path = <<>> /\ Idle.new = None /\ Idle.cont = "user"
  BY DEF Idle, CallRecords, Ops, Conts, Pcs

LEMMA ToUserIs ==
  ASSUME CallType, NEW p \in Procs, call' = [call EXCEPT ![p] = Idle]
  PROVE  /\ CallType' /\ (\A q \in Procs \ {p} : call'[q] = call[q])
         /\ call'[p] = Idle /\ call[p].pc' = "user" /\ Loc(p)' = "user"
         /\ Cur(p)' = None /\ Ip(p)' = None /\ Put(p, 1)' = None /\ Put(p, 2)' = None
         /\ call[p].op' = "none" /\ call[p].puts' = <<>>
  <1>1. call[p].puts' = <<>>
    BY IdleIs, Becomes
  <1>2. Put(p, 1)' = None /\ Put(p, 2)' = None
    BY <1>1 DEF Put
  <1> QED BY <1>1, <1>2, IdleIs, Becomes

\* Then link counts are what they were.
LEMMA SameDisk ==
  ASSUME DiskInv, NEW p \in Procs, \A q \in Procs \ {p} : call'[q] = call[q],
         UNCHANGED <<disk, strayed>>, Pending(p)' = Pending(p)
  PROVE  DiskInv'
  <1>1. \A q \in Procs : Pending(q)' = Pending(q)
    BY DEF Pending, Loc, Putting, At, Ip
  <1>2. \A i \in Inums : {q \in Procs : Pending(q)' = i} = {q \in Procs : Pending(q) = i}
    BY <1>1
  <1>3. \A i \in Inums : Entries(i)' = Entries(i) /\ Subdirs(i)' = Subdirs(i)
    BY DEF disk, Entries, Subdirs
  <1>4. \A i \in Inums : Links(i)' = Links(i)
    BY <1>2, <1>3 DEF Links
  <1> QED BY <1>3, <1>4 DEF DiskInv, disk, NoEnts

QuietLearns(p) ==
    \A i \in Uses(p)' : i \in Uses(p) \/ i = Root \/ Leads(i)

LEMMA QuietStep ==
  ASSUME Inv, NEW p \in Procs, Alone(p), UNCHANGED <<disk, strayed, adrift>>, Types',
         \A i \in Inums : owner'[i] = owner[i] \/ owner[i] \in {None, p},
         QuietLearns(p), Pending(p)' = Pending(p),
         \A i \in Inums : ref'[i] + Own(p, i) = ref[i] + Own(p, i)',
         CallInv(p)', LockInv(p)', KindInv(p)', call[p].pc' # "make", OldInv(p)',
         panicked' \in {"no", "iget", "ialloc"}
  PROVE  Inv'
  <1>1. DiskInv' /\ UpInv'
    BY SameDisk DEF Inv, Alone, UpInv, disk
  <1>2. Modest(p) /\ Finds(p)
    BY DEF Modest, Finds, QuietLearns, disk
  <1>3. \A q \in Procs \ {p} : ProcInv(q)'
    BY <1>2, OthersKeep
  <1>4. UseInv(p)'
    <2>1. SUFFICES ASSUME NEW i \in Uses(p)' PROVE type'[i] # "free"
      BY DEF UseInv
    <2>2. /\ type' = type /\ type[Root] = "dir"
          /\ \A d \in Inums, n \in Names : ents[d][n] # None => type[ents[d][n]] # "free"
          /\ \A d \in Inums \ lost : up[d] # None => type[up[d]] # "free"
          /\ \A j \in Uses(p) : type[j] # "free"
      BY DEF disk, Inv, DiskInv, UpInv, ProcInv, UseInv
    <2>3. i # None
      BY DEF Uses
    <2>4. i \in Uses(p) \/ i = Root \/ Leads(i)
      BY <2>1 DEF QuietLearns
    <2>5. type[i] # "free"
      BY <2>2, <2>3, <2>4 DEF Leads
    <2> QED BY <2>2, <2>5
  <1>5. NewInv(p)'
    BY DEF NewInv, At
  <1>6. RefsExact'
    <2>1. SUFFICES ASSUME NEW i \in Inums PROVE ref'[i] = Refs(i)'
      BY DEF RefsExact
    <2>2. /\ Refs(i) \in Nat /\ Refs(i)' \in Nat
          /\ Refs(i)' + Own(p, i) = Refs(i) + Own(p, i)'
      BY RefsChange DEF Alone
    <2>3. ref[i] = Refs(i) /\ ref'[i] \in Nat
      BY DEF Inv, RefsExact, Types
    <2>4. Own(p, i) \in Nat /\ Own(p, i)' \in Nat
      BY HasIs DEF Own
    <2> QED BY <2>2, <2>3, <2>4
  <1>7. \A q \in Procs : ProcInv(q)'
    BY <1>3, <1>4, <1>5 DEF ProcInv
  <1> QED BY <1>1, <1>6, <1>7 DEF Inv

LEMMA ShortTails ==
  ASSUME NEW S, NEW s \in Seq(S)
  PROVE  /\ Len(s) = 1 => Tail(s) = <<>> /\ Head(s) = s[1] /\ s[1] \in S
         /\ Len(s) = 2 => /\ Tail(s) \in Seq(S) /\ Tail(s) # <<>> /\ Len(Tail(s)) = 1
                          /\ Head(s) = s[1] /\ s[1] \in S /\ s[2] \in S
                          /\ Tail(s)[1] = s[2]
         /\ Len(s) # 1 /\ s # <<>> => Tail(s) # <<>>
  <1>1. s # <<>> => /\ Head(s) \in S /\ Tail(s) \in Seq(S) /\ Len(Tail(s)) = Len(s) - 1
                    /\ \A k \in 1 .. Len(Tail(s)) : Tail(s)[k] = s[k + 1]
    BY HeadTailProperties
  <1>2. Len(s) \in Nat /\ \A k \in 1 .. Len(s) : s[k] \in S
    BY LenProperties
  <1>3. \A t \in Seq(S) : t # <<>> => Len(t) \in Nat \ {0}
    BY EmptySeq
  <1>4. Len(<<>>) = 0
    OBVIOUS
  <1>5. Head(s) = s[1]
    OBVIOUS
  <1>6. CASE s = <<>>
    BY <1>4, <1>6
  <1>7. CASE s # <<>> /\ Len(s) = 1
    <2>1. Tail(s) \in Seq(S) /\ Len(Tail(s)) = 0
      BY <1>1, <1>7
    <2>2. Tail(s) = <<>>
      BY <1>3, <2>1
    <2>3. s[1] \in S
      BY <1>2, <1>7
    <2> QED BY <1>5, <1>7, <2>2, <2>3
  <1>8. CASE s # <<>> /\ Len(s) # 1
    <2>3. Len(s) \in Nat \ {0}
      BY <1>3, <1>8
    <2>6. \A n \in Nat \ {0} : n # 1 => n >= 2
      OBVIOUS
    <2>5. Len(s) >= 2
      BY <1>8, <2>3, <2>6, Zenon
    <2>4. Len(Tail(s)) # Len(<<>>)
      BY <1>1, <1>4, <1>8, <2>3, <2>5
    <2>1. Len(s) \in Nat /\ Len(s) >= 2 /\ Tail(s) # <<>>
      BY <2>3, <2>4, <2>5
    <2>2. Len(s) = 2 => Tail(s)[1] = s[2] /\ s[1] \in S /\ s[2] \in S
      BY <1>1, <1>2, <1>8
    <2> QED BY <1>1, <1>5, <1>8, <2>1, <2>2
  <1> QED BY <1>6, <1>7, <1>8

LEMMA PanicIs ==
  ASSUME NEW l, NEW g, panicked \in {"no", "iget", "ialloc"}, Panic(l, g),
         l = None \/ type[l] # "free"
  PROVE  panicked' \in {"no", "iget", "ialloc"}
  BY DEF Panic

LEMMA ValidityIs ==
  ASSUME valid \in [Inums -> BOOLEAN], NEW l, NEW g
  PROVE  Validity(g, l) \in [Inums -> BOOLEAN] /\ ReadIn(l) \in [Inums -> BOOLEAN]
  BY DEF Validity, ReadIn

\* The first element of the inodes p puts.
LEMMA HeadOfPuts ==
  ASSUME Types, NEW p \in Procs, CallInv(p), Putting(p)
  PROVE  /\ Head(call[p].puts) = Put(p, 1) /\ Put(p, 1) \in Inums
         /\ Len(call[p].puts) = 1 => Put(p, 2) = None /\ Tail(call[p].puts) = <<>>
         /\ Len(call[p].puts) # 1 =>
              /\ call[p].cont = "user" /\ Put(p, 2) \in Inums
              /\ Tail(call[p].puts) \in Seq(Inums) /\ Tail(call[p].puts) # <<>>
              /\ Len(Tail(call[p].puts)) = 1 /\ Tail(call[p].puts)[1] = Put(p, 2)
  <1> DEFINE s == call[p].puts
  <1>1. /\ s \in Seq(Inums)
        /\ Len(s) = 1 \/ (Len(s) = 2 /\ call[p].cont = "user")
    BY Registers DEF CallInv
  <1>2. /\ Put(p, 1) = IF 1 \in DOMAIN s THEN s[1] ELSE None
        /\ Put(p, 2) = IF 2 \in DOMAIN s THEN s[2] ELSE None
    BY DEF Put
  <1> HIDE DEF s
  <1>3. DOMAIN s = 1 .. Len(s)
    BY <1>1
  <1>4. CASE Len(s) = 1
    BY <1>1, <1>2, <1>3, <1>4, ShortTails DEF s
  <1>5. CASE Len(s) = 2 /\ call[p].cont = "user"
    BY <1>1, <1>2, <1>3, <1>5, ShortTails DEF s
  <1> QED BY <1>1, <1>4, <1>5

\* A step of iput() that keeps p where it is in the call.
LEMMA StaysIs ==
  ASSUME Types, NEW p \in Procs, ProcInv(p), UNCHANGED <<disk, owner>>,
         Loc(p)' = Loc(p), Cur(p)' = Cur(p), Ip(p)' = Ip(p),
         call[p].op' = call[p].op \/ (Ip(p) = None /\ call[p].op' = "none"),
         call[p].pc' \notin {"erase", "make"}
  PROVE  /\ Pending(p)' = Pending(p) /\ LockInv(p)' /\ KindInv(p)' /\ OldInv(p)'
  <1>1. LockOf(p)' = LockOf(p)
    BY DEF LockOf
  <1>2. Pending(p)' = Pending(p)
    BY DEF Pending
  <1>3. LockInv(p)'
    BY <1>1 DEF ProcInv, LockInv
  <1>4. KindInv(p)'
    BY DEF ProcInv, KindInv, disk
  <1>5. OldInv(p)'
    BY DEF ProcInv, OldInv, disk, At, NoEnts
  <1> QED BY <1>2, <1>3, <1>4, <1>5

LEMMA PutDropStep ==
  ASSUME Inv, NEW p \in Procs, PutDrop(p)
  PROVE  Inv'
  <1> DEFINE rest == Tail(call[p].puts)
             r == IF rest = <<>> /\ call[p].cont = "user" THEN Idle
                  ELSE [call[p] EXCEPT !.puts = rest,
                          !.pc = IF rest = <<>> THEN call[p].cont ELSE "put"]
             i == Put(p, 1)
  <1>1. /\ Types /\ RefsExact /\ CallType /\ ProcInv(p) /\ CallInv(p) /\ At(p, "drop")
        /\ Putting(p) /\ Loc(p) = call[p].cont /\ call[p].pc = "drop"
        /\ UNCHANGED <<disk, valid, owner, fh, cwd, strayed, adrift, panicked>>
        /\ panicked \in {"no", "iget", "ialloc"}
    BY DEF Inv, Types, ProcInv, PutDrop, At, Putting, Loc
  <1>2. /\ i \in Inums /\ ref' = [ref EXCEPT ![i] = @ - 1]
        /\ call' = [call EXCEPT ![p] = r]
    BY <1>1, HeadOfPuts DEF PutDrop, CallType
  <1>3. /\ r \in CallRecords
        /\ \/ /\ rest = <<>> /\ call[p].cont = "user" /\ r = Idle
           \/ /\ rest = <<>> /\ call[p].cont # "user" /\ r.puts = <<>>
              /\ r.pc = call[p].cont /\ r.op = call[p].op /\ r.cont = call[p].cont
              /\ r.cur = Cur(p) /\ r.ip = Ip(p) /\ r.path = call[p].path
              /\ r.new = call[p].new
           \/ /\ rest # <<>> /\ call[p].cont = "user" /\ r.puts = rest
              /\ r.pc = "put" /\ r.op = call[p].op /\ r.cont = call[p].cont
              /\ r.cur = Cur(p) /\ r.ip = Ip(p) /\ r.path = call[p].path
              /\ r.new = call[p].new
    <2>1. /\ call[p] \in CallRecords /\ "put" \in Pcs /\ call[p].cont \in Pcs
          /\ rest \in Seq(Inums) /\ (rest # <<>> => call[p].cont = "user")
      BY <1>1, HeadOfPuts, Registers DEF CallType, Pcs
    <2>2. CASE rest = <<>> /\ call[p].cont = "user"
      BY <2>2, IdleIs
    <2>3. CASE ~(rest = <<>> /\ call[p].cont = "user")
      BY <2>1, <2>3 DEF CallRecords, Cur, Ip
    <2> QED BY <2>2, <2>3
  <1>4. (Cur(p) = None /\ Ip(p) = None) \/ call[p].cont # "user"
    BY <1>1 DEF CallInv, HasCur, HasIp
  <1> HIDE DEF r
  <1>12. /\ CallType' /\ (\A q \in Procs \ {p} : call'[q] = call[q]) /\ call'[p] = r
         /\ call[p].puts' = r.puts /\ call[p].pc' = r.pc /\ call[p].op' = r.op
         /\ Loc(p)' = IF r.pc \in {"put", "drop"} THEN r.cont ELSE r.pc
         /\ Cur(p)' = r.cur /\ Ip(p)' = r.ip
    BY <1>1, <1>2, <1>3, Becomes
  <1>13. call[p].cont \in Conts
    BY <1>1, Registers
  <1>5. /\ Loc(p)' = Loc(p) /\ Cur(p)' = Cur(p) /\ Ip(p)' = Ip(p)
        /\ call[p].op' = call[p].op \/ (Ip(p) = None /\ call[p].op' = "none")
        /\ call[p].pc' \notin {"erase", "make", "drop"}
        /\ call[p].pc' = "put" \/ call[p].pc' = Loc(p)
    BY <1>1, <1>3, <1>4, <1>12, <1>13, IdleIs DEF Conts
  <1>6. Put(p, 1)' = Put(p, 2) /\ Put(p, 2)' = None
    <2>1. CASE rest = <<>>
      <3>1. Put(p, 2) = None
        BY <1>1, <2>1, HeadOfPuts
      <3>2. call[p].puts' = <<>>
        BY <1>3, <1>12, <2>1, IdleIs
      <3> QED BY <3>1, <3>2 DEF Put
    <2>2. CASE rest # <<>>
      <3>1. /\ rest \in Seq(Inums) /\ Len(rest) = 1 /\ rest[1] = Put(p, 2)
        BY <1>1, <2>2, HeadOfPuts
      <3>2. call[p].puts' = rest
        BY <1>3, <1>12, <2>2
      <3> QED BY <3>1, <3>2 DEF Put
    <2> QED BY <2>1, <2>2
  <1>7. \A j \in Inums : ref'[j] + Own(p, j) = ref[j] + Own(p, j)'
    <2>1. SUFFICES ASSUME NEW j \in Inums PROVE ref'[j] + Own(p, j) = ref[j] + Own(p, j)'
      OBVIOUS
    <2>2. ref[j] \in Nat /\ ref'[j] = ref[j] - Has(i, j)
      BY <1>1, <1>2, HasIs DEF Types
    <2>3. Own(p, j)' = Own(p, j) - Has(i, j)
      BY <1>1, <1>5, <1>6, HasIs DEF Own
    <2> QED BY <2>2, <2>3, UsesAreInodes, <1>1, HasIs
  <1>8. Types'
    <2>1. ref[i] >= 1
      <3>1. Refs(i) >= Own(p, i) /\ Own(p, i) \in Nat
        BY <1>2, RefsOfTwo
      <3>2. Own(p, i) >= 1
        BY HasIs DEF Own
      <3> QED BY <1>1, <1>2, <3>1, <3>2 DEF RefsExact, Types
    <2> QED BY <1>1, <1>2, <1>12, <2>1 DEF Types, disk
  <1>9. QuietLearns(p)
    BY <1>1, <1>5, <1>6 DEF QuietLearns, Uses, At
  <1>10. CallInv(p)'
    <2>1. At(p, "user")' => call'[p] = Idle
      BY <1>3, <1>12, <1>13 DEF At
    <2>2. /\ Putting(p)' => \/ Len(call[p].puts)' = 1
                            \/ Len(call[p].puts)' = 2 /\ call[p].cont' = "user"
          /\ ~Putting(p)' => call[p].puts' = <<>>
      BY <1>1, <1>3, <1>12, <1>13, HeadOfPuts, IdleIs DEF Putting, At, Conts
    <2>3. \/ call'[p] = Idle /\ Loc(p) = "user"
          \/ /\ call[p].op' = call[p].op /\ call[p].path' = call[p].path
             /\ call[p].new' = call[p].new
      BY <1>1, <1>3, <1>12
    <2>4. /\ call[p].op' \in OpsAt(Loc(p)') /\ (Loc(p)' \in HasPath => call[p].path' # <<>>)
          /\ call[p].op' = "link" => call[p].new' \in PathNames
          /\ call[p].op' \in {"open", "create"} => fh'[p] = None
      BY <1>1, <1>5, <2>3, IdleIs DEF CallInv, OpsAt, HasPath, Ops
    <2>5. /\ Cur(p)' # None <=> Loc(p)' \in HasCur
          /\ Ip(p)' # None <=>
               (Loc(p)' \in HasIp
                \/ (call[p].op' = "linknew" /\ Loc(p)' \in {"walk", "release"}))
      <3>1. call[p].op' = call[p].op \/ Loc(p) = "user"
        BY <1>1, <1>5, <2>3
      <3>2. /\ Cur(p) # None <=> Loc(p) \in HasCur
            /\ Ip(p) # None <=>
                 (Loc(p) \in HasIp
                  \/ (call[p].op = "linknew" /\ Loc(p) \in {"walk", "release"}))
        BY <1>1 DEF CallInv
      <3> QED BY <1>5, <3>1, <3>2
    <2> QED BY <2>1, <2>2, <2>4, <2>5 DEF CallInv
  <1>11. Pending(p)' = Pending(p) /\ LockInv(p)' /\ KindInv(p)' /\ OldInv(p)'
    BY <1>1, <1>5, StaysIs
  <1> QED BY <1>1, <1>5, <1>7, <1>8, <1>9, <1>10, <1>11, <1>12, QuietStep DEF Alone

\* What is known of a process that is not at iput().
LEMMA Here ==
  ASSUME Inv, NEW p \in Procs, NEW c \in Pcs \ {"put", "drop"}, At(p, c)
  PROVE  /\ Types /\ CallType /\ RefsExact /\ ProcInv(p) /\ CallInv(p)
         /\ panicked \in {"no", "iget", "ialloc"}
         /\ call[p].pc = c /\ ~Putting(p) /\ Loc(p) = c
         /\ Put(p, 1) = None /\ Put(p, 2) = None /\ call[p].puts = <<>>
         /\ c \in HasCur => Cur(p) \in Inums /\ type[Cur(p)] # "free"
         /\ c \notin HasCur => Cur(p) = None
         /\ c \in HasIp => Ip(p) \in Inums /\ type[Ip(p)] # "free"
         /\ c \notin HasIp /\ ~(call[p].op = "linknew" /\ c \in {"walk", "release"}) =>
              Ip(p) = None
         /\ call[p].op \in OpsAt(c)
         /\ c \in HasPath => call[p].path # <<>> /\ Head(call[p].path) \in Elements
  <1>1. /\ Types /\ CallType /\ RefsExact /\ ProcInv(p) /\ CallInv(p)
        /\ panicked \in {"no", "iget", "ialloc"}
    BY DEF Inv, Types, ProcInv
  <1>2. call[p].pc = c /\ ~Putting(p) /\ Loc(p) = c
    BY DEF At, Putting, Loc
  <1>3. call[p].puts = <<>>
    BY <1>1, <1>2 DEF CallInv
  <1>4. Put(p, 1) = None /\ Put(p, 2) = None
    BY <1>3, PutIs
  <1>5. /\ Cur(p) # None => Cur(p) \in Inums /\ type[Cur(p)] # "free"
        /\ Ip(p) # None => Ip(p) \in Inums /\ type[Ip(p)] # "free"
    <2>1. /\ Cur(p) # None => Cur(p) \in Uses(p)
          /\ Ip(p) # None => Ip(p) \in Uses(p)
      BY DEF Uses
    <2>2. UseInv(p)
      BY <1>1 DEF ProcInv
    <2>3. Cur(p) \in Inums \cup {None} /\ Ip(p) \in Inums \cup {None}
      BY <1>1, Registers
    <2> QED BY <2>1, <2>2, <2>3 DEF UseInv
  <1>6. c \in HasPath => call[p].path # <<>> /\ Head(call[p].path) \in Elements
    <2>1. call[p].path \in Seq(Elements)
      BY <1>1, Registers
    <2> QED BY <1>1, <1>2, <2>1, HeadTailProperties DEF CallInv
  <1>7. /\ Cur(p) # None <=> c \in HasCur
        /\ Ip(p) # None <=>
             (c \in HasIp \/ (call[p].op = "linknew" /\ c \in {"walk", "release"}))
        /\ call[p].op \in OpsAt(c)
    BY <1>1, <1>2 DEF CallInv
  <1> QED BY <1>1, <1>2, <1>3, <1>4, <1>5, <1>6, <1>7

\* p gives back cur, and is then at the end of a call or of its failure path.
LEMMA GivesBackCur ==
  ASSUME Inv, NEW p \in Procs,
         NEW l \in {"walk", "open", "link", "unlink", "release", "chdir"}, At(p, l),
         NEW c \in {"user", "linkbad"}, PutCur(p, c),
         c = "linkbad" <=> call[p].op = "linknew",
         UNCHANGED <<disk, ref, fh, cwd, strayed, adrift>>,
         valid' \in [Inums -> BOOLEAN], owner' \in [Inums -> Procs \cup {None}],
         \A i \in Inums : owner'[i] = owner[i] \/ owner[i] \in {None, p},
         panicked' \in {"no", "iget", "ialloc"}
  PROVE  Inv'
  <1>0. l \in Pcs \ {"put", "drop"} /\ l \in HasCur /\ l \notin HasIp /\ c \in Conts
    BY DEF Pcs, Conts, HasCur, HasIp
  <1>1. /\ Types /\ CallType /\ RefsExact /\ ProcInv(p) /\ CallInv(p)
        /\ Loc(p) = l /\ Put(p, 1) = None /\ Put(p, 2) = None
        /\ Cur(p) \in Inums
        /\ (call[p].op # "linknew" => Ip(p) = None)
        /\ call[p].op \in Ops
    BY <1>0, Here, Registers
  <1>2. /\ CallType' /\ (\A q \in Procs \ {p} : call'[q] = call[q])
        /\ SameCall(p) /\ call[p].pc' = "put" /\ call[p].cont' = c /\ Loc(p)' = c
        /\ Cur(p)' = None /\ Ip(p)' = Ip(p)
        /\ call[p].puts' = <<Cur(p)>> /\ Put(p, 1)' = Cur(p) /\ Put(p, 2)' = None
    BY <1>0, <1>1, PutCurIs
  <1>3. Types'
    BY <1>1, <1>2 DEF Types, disk
  <1>4. Alone(p)
    BY <1>2 DEF Alone
  <1>5. \A i \in Inums : ref'[i] + Own(p, i) = ref[i] + Own(p, i)'
    <2>1. SUFFICES ASSUME NEW i \in Inums PROVE ref'[i] + Own(p, i) = ref[i] + Own(p, i)'
      OBVIOUS
    <2>2. Own(p, i)' = Own(p, i)
      BY <1>1, <1>2, HasIs DEF Own
    <2> QED BY <2>2
  <1>6. QuietLearns(p)
    BY <1>1, <1>2 DEF QuietLearns, Uses, At
  <1>7. CallInv(p)'
    <2>1. Len(call[p].puts)' = 1
      BY <1>2, PutIs
    <2>2. Ip(p) # None <=> call[p].op = "linknew"
      BY <1>1, <1>0 DEF CallInv, OpsAt
    <2>3. Putting(p)' /\ ~At(p, "user")'
      BY <1>2 DEF Putting, At
    <2>4. Loc(p)' \notin HasCur /\ Loc(p)' \notin HasPath /\ call[p].op' \in OpsAt(Loc(p)')
      BY <1>1, <1>2 DEF HasCur, HasPath, OpsAt, SameCall
    <2>5. /\ call[p].op' = "link" => call[p].new' \in PathNames
          /\ call[p].op' \in {"open", "create"} => fh'[p] = None
      BY <1>1, <1>2 DEF SameCall, CallInv
    <2> QED BY <1>2, <2>1, <2>2, <2>3, <2>4, <2>5 DEF CallInv, HasIp, SameCall
  <1>8. Pending(p)' = Pending(p)
    BY <1>1, <1>2 DEF Pending, SameCall
  <1>9. LockInv(p)'
    BY <1>2 DEF LockInv, LockOf
  <1>10. KindInv(p)'
    BY <1>1, <1>2 DEF KindInv, ProcInv, SameCall, disk
  <1>11. OldInv(p)' /\ call[p].pc' # "make"
    BY <1>2 DEF OldInv, At
  <1> QED BY <1>3, <1>4, <1>5, <1>6, <1>7, <1>8, <1>9, <1>10, <1>11, QuietStep

\* p gives back ip: open() and mkdir() at the end, unlink() of what it must not remove.
LEMMA GivesBackIp ==
  ASSUME Inv, NEW p \in Procs, NEW l \in {"exists", "made", "erase"}, At(p, l),
         NEW c \in {"user", "release"}, PutIp(p, c), c = "release" <=> l = "erase",
         UNCHANGED <<disk, ref, fh, cwd, strayed, adrift>>,
         valid' \in [Inums -> BOOLEAN], owner' \in [Inums -> Procs \cup {None}],
         \A i \in Inums : owner'[i] = owner[i] \/ owner[i] \in {None, p},
         c = "release" => owner' = owner,
         panicked' \in {"no", "iget", "ialloc"}
  PROVE  Inv'
  <1>0. l \in Pcs \ {"put", "drop"} /\ l \in HasIp /\ c \in Conts
        /\ (l \in HasCur <=> l = "erase")
    BY DEF Pcs, Conts, HasCur, HasIp
  <1>1. /\ Types /\ CallType /\ RefsExact /\ ProcInv(p) /\ CallInv(p)
        /\ Loc(p) = l /\ Put(p, 1) = None /\ Put(p, 2) = None
        /\ Ip(p) \in Inums
        /\ call[p].op \in Ops /\ call[p].op \in OpsAt(l)
    BY <1>0, Here, Registers
  <1>2. /\ CallType' /\ (\A q \in Procs \ {p} : call'[q] = call[q])
        /\ SameCall(p) /\ call[p].pc' = "put" /\ call[p].cont' = c /\ Loc(p)' = c
        /\ Cur(p)' = Cur(p) /\ Ip(p)' = None
        /\ call[p].puts' = <<Ip(p)>> /\ Put(p, 1)' = Ip(p) /\ Put(p, 2)' = None
    BY <1>0, <1>1, PutIpIs
  <1>3. Types'
    BY <1>1, <1>2 DEF Types, disk
  <1>4. Alone(p)
    BY <1>2 DEF Alone
  <1>5. \A i \in Inums : ref'[i] + Own(p, i) = ref[i] + Own(p, i)'
    <2>1. SUFFICES ASSUME NEW i \in Inums PROVE ref'[i] + Own(p, i) = ref[i] + Own(p, i)'
      OBVIOUS
    <2>2. Own(p, i)' = Own(p, i)
      BY <1>1, <1>2, HasIs DEF Own
    <2> QED BY <2>2
  <1>6. QuietLearns(p)
    BY <1>1, <1>2 DEF QuietLearns, Uses, At
  <1>12. call[p].op # "linknew"
    BY <1>1 DEF OpsAt
  <1>7. CallInv(p)'
    <2>1. Len(call[p].puts)' = 1
      BY <1>2, PutIs
    <2>2. Cur(p) # None <=> c = "release"
      BY <1>1, <1>0 DEF CallInv
    <2>3. Putting(p)' /\ ~At(p, "user")'
      BY <1>2 DEF Putting, At
    <2>4. /\ Loc(p)' \notin HasIp /\ Loc(p)' \notin HasPath
          /\ call[p].op' \in OpsAt(Loc(p)')
          /\ (Loc(p)' \in HasCur <=> c = "release")
      BY <1>1, <1>2 DEF HasIp, HasPath, HasCur, OpsAt, SameCall
    <2>5. /\ call[p].op' = "link" => call[p].new' \in PathNames
          /\ call[p].op' \in {"open", "create"} => fh'[p] = None
      BY <1>1, <1>2 DEF SameCall, CallInv
    <2> QED BY <1>2, <1>12, <2>1, <2>2, <2>3, <2>4, <2>5 DEF CallInv, SameCall
  <1>8. Pending(p)' = Pending(p)
    BY <1>1, <1>2, <1>12 DEF Pending, SameCall
  <1>9. LockInv(p)'
    BY <1>1, <1>2 DEF LockInv, LockOf, ProcInv
  <1>10. KindInv(p)'
    BY <1>1, <1>2 DEF KindInv, ProcInv, SameCall, disk
  <1>11. OldInv(p)' /\ call[p].pc' # "make"
    BY <1>2 DEF OldInv, At
  <1> QED BY <1>3, <1>4, <1>5, <1>6, <1>7, <1>8, <1>9, <1>10, <1>11, QuietStep

\* p has opened the inode i it has in hand, and is back in user code.
LEMMA HasOpened ==
  ASSUME Inv, NEW p \in Procs, NEW l \in {"open", "exists", "made"}, At(p, l),
         call' = [call EXCEPT ![p] = Idle],
         NEW i \in Inums, fh' = [fh EXCEPT ![p] = i], fh[p] = None,
         i = IF l = "open" THEN Cur(p) ELSE Ip(p),
         UNCHANGED <<disk, ref, cwd, strayed, adrift>>,
         valid' \in [Inums -> BOOLEAN], owner' \in [Inums -> Procs \cup {None}],
         \A j \in Inums : owner'[j] = owner[j] \/ owner[j] \in {None, p},
         panicked' \in {"no", "iget", "ialloc"}
  PROVE  Inv'
  <1>0. l \in Pcs \ {"put", "drop"} /\ (l \in HasCur <=> l = "open")
        /\ (l \notin HasIp <=> l = "open")
    BY DEF Pcs, Conts, HasCur, HasIp
  <1>1. /\ Types /\ CallType /\ RefsExact /\ ProcInv(p) /\ CallInv(p)
        /\ Loc(p) = l /\ Put(p, 1) = None /\ Put(p, 2) = None
        /\ call[p].op \in OpsAt(l)
    BY <1>0, Here
  <1>12. call[p].op # "linknew"
    BY <1>1 DEF OpsAt
  <1>13. \/ Cur(p) = i /\ Ip(p) = None
         \/ Ip(p) = i /\ Cur(p) = None
    BY <1>0, <1>12, Here
  <1>2. /\ CallType' /\ (\A q \in Procs \ {p} : call'[q] = call[q])
        /\ call'[p] = Idle /\ call[p].pc' = "user" /\ Loc(p)' = "user"
        /\ Cur(p)' = None /\ Ip(p)' = None /\ Put(p, 1)' = None /\ Put(p, 2)' = None
        /\ call[p].op' = "none" /\ call[p].puts' = <<>>
    BY <1>1, ToUserIs
  <1>14. fh'[p] = i /\ fh' \in [Procs -> Inums \cup {None}]
         /\ \A q \in Procs \ {p} : fh'[q] = fh[q]
    BY <1>1 DEF Types
  <1>3. Types'
    BY <1>1, <1>2, <1>14 DEF Types, disk
  <1>4. Alone(p)
    BY <1>2, <1>14 DEF Alone
  <1>5. \A j \in Inums : ref'[j] + Own(p, j) = ref[j] + Own(p, j)'
    <2>1. SUFFICES ASSUME NEW j \in Inums PROVE ref'[j] + Own(p, j) = ref[j] + Own(p, j)'
      OBVIOUS
    <2>2. /\ Has(fh'[p], j) = Has(i, j) /\ Has(Cur(p), j)' = 0 /\ Has(Ip(p), j)' = 0
          /\ Has(Put(p, 1), j)' = 0 /\ Has(Put(p, 2), j)' = 0
          /\ Has(cwd'[p], j) = Has(cwd[p], j)
          /\ Has(fh[p], j) = 0 /\ Has(Put(p, 1), j) = 0 /\ Has(Put(p, 2), j) = 0
          /\ Has(cwd[p], j) \in Nat /\ Has(i, j) \in Nat
      BY <1>1, <1>2, <1>14, HasIs
    <2>3. \/ Has(Cur(p), j) = Has(i, j) /\ Has(Ip(p), j) = 0
          \/ Has(Ip(p), j) = Has(i, j) /\ Has(Cur(p), j) = 0
      BY <1>13, HasIs
    <2>4. Own(p, j)' = Own(p, j)
      BY <2>2, <2>3 DEF Own
    <2> QED BY <2>4
  <1>6. QuietLearns(p)
    BY <1>2, <1>13, <1>14 DEF QuietLearns, Uses, At
  <1>7. CallInv(p)'
    BY <1>2 DEF CallInv, Putting, At, HasCur, HasIp, HasPath, OpsAt, Ops
  <1>8. Pending(p)' = Pending(p)
    BY <1>1, <1>2, <1>12 DEF Pending
  <1>9. LockInv(p)' /\ KindInv(p)' /\ OldInv(p)' /\ call[p].pc' # "make"
    BY <1>2 DEF LockInv, LockOf, KindInv, OldInv, At
  <1> QED BY <1>3, <1>4, <1>5, <1>6, <1>7, <1>8, <1>9, QuietStep

LEMMA OpenStep ==
  ASSUME Inv, NEW p \in Procs, Open(p)
  PROVE  Inv'
  <1>0. At(p, "open") /\ UNCHANGED <<disk, ref, owner, cwd, strayed, adrift>>
        /\ valid' = ReadIn(Cur(p)) /\ Panic(Cur(p), None)
    BY DEF Open
  <1>1. "open" \in Pcs \ {"put", "drop"} /\ "open" \in HasCur
    BY DEF Pcs, Conts, HasCur
  <1>2. /\ Types /\ CallInv(p) /\ call[p].op \in OpsAt("open") /\ Cur(p) \in Inums
        /\ type[Cur(p)] # "free" /\ panicked \in {"no", "iget", "ialloc"}
    BY <1>0, <1>1, Here
  <1>3. call[p].op = "open" /\ fh[p] = None
    BY <1>2 DEF OpsAt, CallInv
  <1>4. valid' \in [Inums -> BOOLEAN] /\ owner' \in [Inums -> Procs \cup {None}]
    BY <1>0, <1>2, ValidityIs DEF Types
  <1>5. panicked' \in {"no", "iget", "ialloc"}
    BY <1>0, <1>2, PanicIs
  <1>6. CASE PutCur(p, "user") /\ UNCHANGED fh
    BY <1>0, <1>3, <1>4, <1>5, <1>6, GivesBackCur
  <1>7. CASE fh' = [fh EXCEPT ![p] = Cur(p)] /\ call' = [call EXCEPT ![p] = Idle]
    BY <1>0, <1>2, <1>3, <1>4, <1>5, <1>7, HasOpened
  <1> QED BY <1>6, <1>7 DEF Open

LEMMA OpenedStep ==
  ASSUME Inv, NEW p \in Procs, NEW l \in {"exists", "made"}, At(p, l), Opened(p),
         UNCHANGED <<disk, ref, cwd, strayed, adrift>>,
         valid' \in [Inums -> BOOLEAN], owner' \in [Inums -> Procs \cup {None}],
         \A i \in Inums : owner'[i] = owner[i] \/ owner[i] \in {None, p},
         panicked' \in {"no", "iget", "ialloc"}
  PROVE  Inv'
  <1>1. l \in Pcs \ {"put", "drop"} /\ l \in HasIp
    BY DEF Pcs, Conts, HasIp
  <1>2. Types /\ CallInv(p) /\ Ip(p) \in Inums
    BY <1>1, Here
  <1>3. CASE PutIp(p, "user") /\ UNCHANGED fh
    BY <1>3, GivesBackIp
  <1>4. CASE /\ call[p].op = "create" /\ fh' = [fh EXCEPT ![p] = Ip(p)]
             /\ call' = [call EXCEPT ![p] = Idle]
    <2>1. fh[p] = None
      BY <1>2, <1>4 DEF CallInv
    <2> QED BY <1>2, <1>4, <2>1, HasOpened
  <1> QED BY <1>3, <1>4 DEF Opened

LEMMA ExistsStep ==
  ASSUME Inv, NEW p \in Procs, Exists(p)
  PROVE  Inv'
  <1>0. At(p, "exists") /\ UNCHANGED <<disk, ref, owner, cwd, strayed, adrift>> /\ Opened(p)
        /\ valid' = ReadIn(Ip(p)) /\ Panic(Ip(p), None)
    BY DEF Exists
  <1>1. "exists" \in Pcs \ {"put", "drop"} /\ "exists" \in HasIp
    BY DEF Pcs, Conts, HasIp
  <1>2. /\ Types /\ Ip(p) \in Inums
        /\ type[Ip(p)] # "free" /\ panicked \in {"no", "iget", "ialloc"}
    BY <1>0, <1>1, Here
  <1>4. valid' \in [Inums -> BOOLEAN] /\ owner' \in [Inums -> Procs \cup {None}]
    BY <1>0, <1>2, ValidityIs DEF Types
  <1>5. panicked' \in {"no", "iget", "ialloc"}
    BY <1>0, <1>2, PanicIs
  <1> QED BY <1>0, <1>4, <1>5, OpenedStep

LEMMA MadeStep ==
  ASSUME Inv, NEW p \in Procs, Made(p)
  PROVE  Inv'
  <1>0. At(p, "made") /\ UNCHANGED <<disk, ref, valid, cwd, strayed, adrift, panicked>> /\ Opened(p)
        /\ owner' = [owner EXCEPT ![Ip(p)] = None]
    BY DEF Made
  <1>1. "made" \in Pcs \ {"put", "drop"} /\ "made" \in HasIp
    BY DEF Pcs, Conts, HasIp
  <1>2. /\ Types /\ Ip(p) \in Inums /\ panicked \in {"no", "iget", "ialloc"}
        /\ ProcInv(p) /\ Loc(p) = "made"
    BY <1>0, <1>1, Here
  <1>3. owner[Ip(p)] = p
    BY <1>2, NoneAssumption DEF ProcInv, LockInv, LockOf
  <1>4. /\ valid' \in [Inums -> BOOLEAN] /\ owner' \in [Inums -> Procs \cup {None}]
        /\ \A i \in Inums : owner'[i] = owner[i] \/ owner[i] \in {None, p}
    BY <1>0, <1>2, <1>3 DEF Types
  <1> QED BY <1>0, <1>2, <1>4, OpenedStep

LEMMA ReleaseStep ==
  ASSUME Inv, NEW p \in Procs, Release(p)
  PROVE  Inv'
  <1>0. At(p, "release") /\ UNCHANGED <<disk, ref, valid, fh, cwd, strayed, adrift, panicked>>
        /\ owner' = [owner EXCEPT ![Cur(p)] = None] /\ PutCur(p, NotFound(p))
    BY DEF Release
  <1>1. "release" \in Pcs \ {"put", "drop"} /\ "release" \in HasCur
    BY DEF Pcs, Conts, HasCur
  <1>2. /\ Types /\ Cur(p) \in Inums /\ panicked \in {"no", "iget", "ialloc"}
        /\ ProcInv(p) /\ Loc(p) = "release"
    BY <1>0, <1>1, Here
  <1>3. owner[Cur(p)] = p
    BY <1>2, NoneAssumption DEF ProcInv, LockInv, LockOf
  <1>4. /\ valid' \in [Inums -> BOOLEAN] /\ owner' \in [Inums -> Procs \cup {None}]
        /\ \A i \in Inums : owner'[i] = owner[i] \/ owner[i] \in {None, p}
    BY <1>0, <1>2, <1>3 DEF Types
  <1>5. /\ NotFound(p) \in {"user", "linkbad"}
        /\ NotFound(p) = "linkbad" <=> call[p].op = "linknew"
    BY DEF NotFound
  <1> QED BY <1>0, <1>2, <1>4, <1>5, GivesBackCur

LEMMA GotIs ==
  ASSUME ref \in [Inums -> Nat], NEW g \in Inums
  PROVE  /\ Got(g) \in [Inums -> Nat]
         /\ \A j \in Inums : Got(g)[j] = ref[j] + Has(g, j)
  BY DEF Got, Has

\* What a process finds in a directory.
LEMMA EntryIs ==
  ASSUME Types, NEW p \in Procs, Cur(p) \in Inums, Head(call[p].path) \in Elements
  PROVE  /\ Entry(p) \in Inums \cup {None}
         /\ Entry(p) # None /\ ~Drifts(p) => Entry(p) \in Uses(p) \/ Leads(Entry(p))
         /\ Head(call[p].path) \in Names => Entry(p) = ents[Cur(p)][Head(call[p].path)]
  <1> DEFINE n == Head(call[p].path)
  <1>1. /\ n = ".." => Entry(p) = up[Cur(p)]
        /\ n = "." => Entry(p) \in {None, Cur(p)}
        /\ n \in Names => Entry(p) = ents[Cur(p)][n]
    BY NamesAssumption DEF Entry
  <1>2. up[Cur(p)] \in Inums \cup {None} /\ ents[Cur(p)] \in [Names -> Inums \cup {None}]
    BY DEF Types
  <1>3. CASE n = ".."
    BY <1>1, <1>2, <1>3, NamesAssumption DEF Drifts, Leads
  <1>4. CASE n = "."
    <2>1. Cur(p) \in Uses(p)
      BY NoneAssumption DEF Uses
    <2> QED BY <1>1, <1>4, <2>1, NamesAssumption
  <1>5. CASE n \in Names
    BY <1>1, <1>2, <1>5 DEF Leads
  <1> QED BY <1>3, <1>4, <1>5 DEF Elements

\* A path starts at an inode that p knows, or at the root.
LEMMA StartIs ==
  ASSUME Types, NEW p \in Procs, NEW path
  PROVE  /\ Start(p, path) \in Inums
         /\ Start(p, path) = Root \/ Start(p, path) \in Uses(p)
  BY UsesAreInodes, RootAssumption DEF Start

\* A step with a reference more, g, and the disk as it was.
LEMMA GotStep ==
  ASSUME Inv, NEW p \in Procs, Types', NEW g \in Inums, ref' = Got(g),
         \A q \in Procs \ {p} : call'[q] = call[q],
         UNCHANGED <<disk, fh, cwd, strayed, adrift>>,
         \A i \in Inums : owner'[i] = owner[i] \/ owner[i] \in {None, p},
         g = Root \/ g \in Uses(p) \/ Leads(g),
         Put(p, 1) = None, Put(p, 2) = None, Put(p, 2)' = None,
         Uses(p)' \subseteq Uses(p) \cup {g},
         \A i \in Inums : Has(Cur(p), i)' + Has(Ip(p), i)' + Has(Put(p, 1), i)'
                           = Has(Cur(p), i) + Has(Ip(p), i) + Has(g, i),
         Pending(p)' = Pending(p), CallInv(p)', LockInv(p)', KindInv(p)',
         call[p].pc' # "make", OldInv(p)', panicked' \in {"no", "iget", "ialloc"}
  PROVE  Inv'
  <1>1. Types
    BY DEF Inv
  <1>2. \A i \in Inums : ref'[i] + Own(p, i) = ref[i] + Own(p, i)'
    <2>1. SUFFICES ASSUME NEW i \in Inums PROVE ref'[i] + Own(p, i) = ref[i] + Own(p, i)'
      OBVIOUS
    <2>2. ref'[i] = ref[i] + Has(g, i) /\ ref[i] \in Nat
      BY <1>1, GotIs DEF Types
    <2>3. \A v : Has(v, i) \in Nat /\ Has(None, i) = 0
      BY HasIs
    <2>4. Own(p, i)' = Own(p, i) + Has(g, i)
      BY <2>3 DEF Own
    <2>5. Own(p, i) \in Nat
      BY <2>3 DEF Own
    <2> QED BY <2>2, <2>3, <2>4, <2>5
  <1>3. QuietLearns(p)
    BY DEF QuietLearns
  <1>4. Alone(p)
    BY DEF Alone
  <1> QED BY <1>2, <1>3, <1>4, QuietStep

LEMMA WalkOnStep ==
  ASSUME Inv, NEW p \in Procs, At(p, "walk"), type[Cur(p)] = "dir",
         call[p].path # <<>>, ~(WantsParent(p) /\ Len(call[p].path) = 1), Entry(p) # None,
         ~Drifts(p),
         Panic(Cur(p), Entry(p)),
         ref' = Got(Entry(p)), valid' = Validity(Entry(p), Cur(p)),
         call' = [call EXCEPT ![p] = [@ EXCEPT !.pc = "put", !.puts = <<Cur(p)>>,
                    !.cur = Entry(p), !.path = Tail(call[p].path),
                    !.cont = IF Len(call[p].path) = 1 THEN Found(p) ELSE "walk"]],
         UNCHANGED <<disk, owner, fh, cwd, strayed, adrift>>
  PROVE  Inv'
  <1> DEFINE rest == call[p].path
             d == Cur(p)
             g == Entry(p)
             c == IF Len(rest) = 1 THEN Found(p) ELSE "walk"
             r == [call[p] EXCEPT !.pc = "put", !.puts = <<d>>, !.cur = g,
                                  !.path = Tail(rest), !.cont = c]
  <1>0. "walk" \in Pcs \ {"put", "drop"} /\ "walk" \in HasCur
    BY DEF Pcs, Conts, HasCur
  <1>1. /\ Types /\ CallType /\ RefsExact /\ ProcInv(p) /\ CallInv(p)
        /\ panicked \in {"no", "iget", "ialloc"}
        /\ Loc(p) = "walk" /\ Put(p, 1) = None /\ Put(p, 2) = None
        /\ d \in Inums /\ type[d] # "free"
        /\ call[p].op \in AllCalls \cup {"linknew"}
    <2>1. OpsAt("walk") = AllCalls \cup {"linknew"}
      BY DEF OpsAt
    <2> QED BY <1>0, <2>1, Here
  <1>3. Tail(rest) \in Seq(Elements) /\ (Len(rest) # 1 => Tail(rest) # <<>>)
        /\ Head(rest) \in Elements
    <2>1. rest \in Seq(Elements)
      BY <1>1, Registers
    <2> QED BY <1>1, <2>1, HeadTailProperties, ShortTails
  <1>2. g \in Inums /\ (g \in Uses(p) \/ Leads(g))
    BY <1>1, <1>3, EntryIs
  <1>4. /\ c \in {"walk", "open", "link", "chdir"} /\ (c = "open" => call[p].op = "open")
        /\ (c = "link" => call[p].op = "link") /\ (c = "chdir" => call[p].op = "chdir")
        /\ (c = "walk" => Len(rest) # 1)
    BY <1>1 DEF WantsParent, Found, AllCalls
  <1>5. /\ call[p] \in CallRecords /\ <<d>> \in Seq(Inums) /\ "put" \in Pcs /\ c \in Conts
    BY <1>1, <1>4 DEF CallType, Pcs, Conts
  <1>6. /\ r \in CallRecords /\ r.pc = "put" /\ r.puts = <<d>> /\ r.cur = g
        /\ r.cont = c /\ r.ip = Ip(p) /\ r.op = call[p].op /\ r.path = Tail(rest)
        /\ r.new = call[p].new
    BY <1>2, <1>3, <1>5 DEF CallRecords, Ip
  <1>7. call' = [call EXCEPT ![p] = r]
    BY <1>1 DEF CallType
  <1> HIDE DEF r
  <1>8. /\ CallType' /\ (\A q \in Procs \ {p} : call'[q] = call[q])
        /\ call[p].pc' = "put" /\ call[p].cont' = c /\ Loc(p)' = c
        /\ call[p].op' = call[p].op /\ call[p].path' = Tail(rest)
        /\ call[p].new' = call[p].new
        /\ call[p].puts' = <<d>> /\ Cur(p)' = g /\ Ip(p)' = Ip(p)
    <2>1. CallType /\ r \in CallRecords
      BY <1>1, <1>6
    <2>2. /\ CallType' /\ (\A q \in Procs \ {p} : call'[q] = call[q])
          /\ call[p].pc' = r.pc /\ call[p].cont' = r.cont
          /\ call[p].op' = r.op /\ call[p].path' = r.path /\ call[p].new' = r.new
          /\ call[p].puts' = r.puts /\ Cur(p)' = r.cur /\ Ip(p)' = r.ip
          /\ Loc(p)' = IF r.pc \in {"put", "drop"} THEN r.cont ELSE r.pc
      BY ONLY <2>1, <1>7, p \in Procs, Becomes
    <2> QED BY <2>2, <1>6
  <1>9. Put(p, 1)' = d /\ Put(p, 2)' = None /\ Len(call[p].puts)' = 1
    <2>1. Put(p, 1)' = d /\ Put(p, 2)' = None
      BY <1>8 DEF Put
    <2>2. Len(call[p].puts)' = 1
      BY <1>8
    <2> QED BY <2>1, <2>2
  <1>10. Types'
    <2>1. ref' \in [Inums -> Nat] /\ valid' \in [Inums -> BOOLEAN]
      BY <1>1, <1>2, GotIs, ValidityIs DEF Types
    <2> QED BY <1>1, <1>8, <2>1 DEF Types, disk
  <1> HIDE DEF c, g, d, rest
  <1>11. CallInv(p)'
    <2>1. Putting(p)' /\ ~At(p, "user")'
      BY <1>8 DEF Putting, At
    <2>2. Ip(p) # None <=> call[p].op = "linknew"
      BY <1>1 DEF CallInv, HasIp
    <2>3. /\ (Ip(p)' # None <=>
                 (Loc(p)' \in HasIp
                  \/ (call[p].op' = "linknew" /\ Loc(p)' \in {"walk", "release"})))
          /\ (Cur(p)' # None <=> Loc(p)' \in HasCur)
      BY <1>2, <1>4, <1>8, <2>2, NoneAssumption DEF HasIp, HasCur
    <2>4. /\ call[p].op' \in OpsAt(Loc(p)')
          /\ Loc(p)' \in HasPath => call[p].path' # <<>>
          /\ call[p].op' = "link" => call[p].new' \in PathNames
          /\ call[p].op' \in {"open", "create"} => fh'[p] = None
      BY <1>1, <1>3, <1>4, <1>8 DEF CallInv, OpsAt, HasPath
    <2> QED BY <1>8, <1>9, <2>1, <2>3, <2>4 DEF CallInv
  <1>12. /\ Pending(p)' = Pending(p) /\ LockInv(p)' /\ OldInv(p)' /\ call[p].pc' # "make"
    BY <1>1, <1>4, <1>8 DEF Pending, LockInv, LockOf, OldInv, At
  <1>13. KindInv(p)'
    BY <1>1, <1>4, <1>8 DEF KindInv, ProcInv, disk
  <1>14. Uses(p)' \subseteq Uses(p) \cup {g}
    BY <1>1, <1>8, <1>9 DEF Uses, At, d
  <1>15. \A i \in Inums : Has(Cur(p), i)' + Has(Ip(p), i)' + Has(Put(p, 1), i)'
                           = Has(Cur(p), i) + Has(Ip(p), i) + Has(g, i)
    <2>1. \A v, i : Has(v, i) \in Nat
      BY HasIs
    <2>2. \A i : /\ Has(Cur(p), i)' = Has(g, i) /\ Has(Ip(p), i)' = Has(Ip(p), i)
                 /\ Has(Put(p, 1), i)' = Has(d, i)
      BY <1>8, <1>9 DEF Has
    <2> QED BY <2>1, <2>2 DEF d
  <1>16. panicked' \in {"no", "iget", "ialloc"}
    BY <1>1, PanicIs DEF d
  <1> QED BY <1>1, <1>2, <1>8, <1>9, <1>10, <1>11, <1>12, <1>13, <1>14, <1>15, <1>16,
             GotStep DEF g

LEMMA WalkStep ==
  ASSUME Inv, NEW p \in Procs, Walk(p), ~adrift'
  PROVE  Inv'
  <1> DEFINE d == Cur(p)
             arrived == WantsParent(p) /\ Len(call[p].path) = 1
             i == IF type[d] # "dir" \/ arrived THEN None ELSE Entry(p)
  <1>0. "walk" \in Pcs \ {"put", "drop"} /\ "walk" \in HasCur
    BY DEF Pcs, Conts, HasCur
  <1>1. /\ At(p, "walk") /\ Panic(d, i) /\ UNCHANGED <<disk, owner, fh, cwd, strayed, adrift>>
        /\ call[p].path # <<>> /\ (i # None => ~Drifts(p))
    BY DEF Walk, Inv, Types
  <1>2. /\ Types /\ CallType /\ RefsExact /\ ProcInv(p) /\ CallInv(p)
        /\ panicked \in {"no", "iget", "ialloc"}
        /\ Loc(p) = "walk" /\ ~Putting(p) /\ Put(p, 1) = None /\ Put(p, 2) = None
        /\ call[p].puts = <<>>
        /\ d \in Inums /\ type[d] # "free"
        /\ call[p].op \in AllCalls \cup {"linknew"}
    <2>1. OpsAt("walk") = AllCalls \cup {"linknew"}
      BY DEF OpsAt
    <2> QED BY <1>0, <1>1, <2>1, Here
  <1>3. panicked' \in {"no", "iget", "ialloc"}
    BY <1>1, <1>2, PanicIs
  <1>4. /\ ReadIn(d) \in [Inums -> BOOLEAN]
        /\ owner' \in [Inums -> Procs \cup {None}]
        /\ \A j \in Inums : owner'[j] = owner[j] \/ owner[j] \in {None, p}
    BY <1>1, <1>2, ValidityIs DEF Types
  <1>5. CASE type[d] = "dir" /\ arrived /\ Goto(p, Found(p)) /\ ref' = ref /\ valid' = ReadIn(d)
    <2>1. /\ Found(p) \in {"create", "unlink", "linknew"}
          /\ (Found(p) = "create" <=> call[p].op \in {"create", "mkdir"})
          /\ (Found(p) = "unlink" <=> call[p].op = "unlink")
          /\ (Found(p) = "linknew" <=> call[p].op = "linknew")
      BY <1>5 DEF WantsParent, Found
    <2>2. Found(p) \in Pcs
      BY <2>1 DEF Pcs
    <2>3. /\ CallType' /\ (\A q \in Procs \ {p} : call'[q] = call[q])
          /\ SameCall(p) /\ call[p].pc' = Found(p) /\ Loc(p)' = Found(p)
          /\ Cur(p)' = Cur(p) /\ Ip(p)' = Ip(p) /\ call[p].puts' = call[p].puts
          /\ Put(p, 1)' = Put(p, 1) /\ Put(p, 2)' = Put(p, 2)
      BY <1>2, <1>5, <2>1, <2>2, GotoIs
    <2>4. Types'
      BY <1>1, <1>2, <1>4, <1>5, <2>3 DEF Types, disk
    <2>5. \A j \in Inums : ref'[j] + Own(p, j) = ref[j] + Own(p, j)'
      <3>1. SUFFICES ASSUME NEW j \in Inums PROVE ref'[j] + Own(p, j) = ref[j] + Own(p, j)'
        OBVIOUS
      <3>2. Own(p, j)' = Own(p, j)
        BY <1>1, <2>3 DEF Own, Has
      <3> QED BY <1>5, <3>2
    <2>6. QuietLearns(p)
      BY <1>1, <1>2, <2>1, <2>3 DEF QuietLearns, Uses, At
    <2>7. CallInv(p)'
      <3>1. Ip(p) # None <=> call[p].op = "linknew"
        BY <1>2 DEF CallInv, HasIp
      <3>2. ~Putting(p)' /\ ~At(p, "user")' /\ call[p].puts' = <<>>
        BY <1>2, <2>1, <2>3 DEF Putting, At
      <3>3. Loc(p)' \in HasCur /\ (Loc(p)' \in HasIp <=> call[p].op = "linknew")
        BY <2>1, <2>3 DEF HasCur, HasIp
      <3>4. call[p].op' \in OpsAt(Loc(p)')
        BY <2>1, <2>3 DEF OpsAt, SameCall
      <3>5. Cur(p)' # None
        BY <1>2, <2>3, NoneAssumption
      <3> QED BY <1>1, <1>2, <2>1, <2>3, <3>1, <3>2, <3>3, <3>4, <3>5 DEF CallInv, SameCall
    <2>8. Pending(p)' = Pending(p) /\ LockInv(p)' /\ OldInv(p)' /\ call[p].pc' # "make"
      BY <1>2, <2>1, <2>3 DEF Pending, LockInv, LockOf, OldInv, At, SameCall
    <2>9. KindInv(p)'
      BY <1>1, <1>2, <1>5, <2>3 DEF KindInv, ProcInv, disk, SameCall
    <2> QED BY <1>1, <1>3, <1>4, <2>3, <2>4, <2>5, <2>6, <2>7, <2>8, <2>9, QuietStep DEF Alone
  <1>6. CASE /\ i # None /\ ref' = Got(i) /\ valid' = Validity(i, d)
             /\ call' = [call EXCEPT ![p] = [@ EXCEPT !.pc = "put", !.puts = <<d>>,
                            !.cur = i, !.path = Tail(call[p].path),
                            !.cont = IF Len(call[p].path) = 1 THEN Found(p) ELSE "walk"]]
    <2>1. type[d] = "dir" /\ ~arrived /\ i = Entry(p)
      BY <1>6
    <2> QED BY <1>1, <1>6, <2>1, WalkOnStep
  <1>7. CASE PutCur(p, NotFound(p)) /\ ref' = ref /\ valid' = ReadIn(d)
    <2>1. /\ NotFound(p) \in {"user", "linkbad"}
          /\ NotFound(p) = "linkbad" <=> call[p].op = "linknew"
      BY DEF NotFound
    <2> QED BY <1>1, <1>3, <1>4, <1>7, <2>1, GivesBackCur
  <1> QED BY <1>5, <1>6, <1>7 DEF Walk

\* A step from c that keeps cur, path and call, and ends at e with ip, puts and cont.
LEMMA FoundStep ==
  ASSUME Inv, NEW p \in Procs, NEW c \in {"create", "linknew", "unlink"}, At(p, c),
         ~Drifts(p), c = "unlink" => Head(call[p].path) \in Names,
         NEW g \in Inums, g = Entry(p), ref' = Got(g), valid' = Validity(g, Cur(p)),
         UNCHANGED <<disk, fh, cwd, strayed, adrift>>,
         NEW r \in CallRecords, call' = [call EXCEPT ![p] = r],
         r.op = call[p].op, r.path = call[p].path, r.new = call[p].new,
         \/ c = "create" /\ r.pc = "put" /\ r.puts = <<Cur(p)>> /\ r.cur = None
            /\ r.ip = g /\ r.cont = "exists" /\ owner' = owner
         \/ c = "linknew" /\ r.pc = "put" /\ r.puts = <<g>> /\ r.cur = Cur(p)
            /\ r.ip = Ip(p) /\ r.cont = "release"
            /\ owner[Cur(p)] = None /\ owner' = [owner EXCEPT ![Cur(p)] = p]
         \/ c = "unlink" /\ r.pc = "erase" /\ r.puts = <<>> /\ r.cur = Cur(p) /\ r.ip = g
            /\ owner[Cur(p)] = None /\ owner' = [owner EXCEPT ![Cur(p)] = p],
         panicked' \in {"no", "iget", "ialloc"}
  PROVE  Inv'
  <1> DEFINE d == Cur(p)
  <1>0. /\ c \in Pcs \ {"put", "drop"} /\ c \in HasCur /\ c \in HasPath
        /\ (c \in HasIp <=> c = "linknew") /\ c \notin {"walk", "release"}
    BY DEF Pcs, Conts, HasCur, HasPath, HasIp
  <1>1. /\ Types /\ CallType /\ RefsExact /\ ProcInv(p) /\ CallInv(p)
        /\ Loc(p) = c /\ Put(p, 1) = None /\ Put(p, 2) = None
        /\ d \in Inums /\ call[p].op \in OpsAt(c)
        /\ call[p].path # <<>> /\ Head(call[p].path) \in Elements
        /\ (c # "linknew" => Ip(p) = None) /\ (c = "linknew" => Ip(p) \in Inums)
    BY <1>0, Here
  <1>2. type[d] = "dir"
    BY <1>1 DEF ProcInv, KindInv
  <1>3. /\ g \in Uses(p) \/ Leads(g)
        /\ c = "unlink" => /\ Head(call[p].path) \in Names
                           /\ ents[d][Head(call[p].path)] = g
    BY <1>1, EntryIs, NoneAssumption
  <1>4. /\ CallType' /\ (\A q \in Procs \ {p} : call'[q] = call[q])
        /\ call[p].pc' = r.pc /\ call[p].cont' = r.cont
        /\ call[p].op' = r.op /\ call[p].path' = r.path /\ call[p].new' = r.new
        /\ call[p].puts' = r.puts /\ Cur(p)' = r.cur /\ Ip(p)' = r.ip
        /\ Loc(p)' = IF r.pc \in {"put", "drop"} THEN r.cont ELSE r.pc
    BY <1>1, Becomes
  <1>5. /\ owner' \in [Inums -> Procs \cup {None}]
        /\ \A j \in Inums : owner'[j] = owner[j] \/ owner[j] \in {None, p}
        /\ (c # "create" => owner'[d] = p)
    BY <1>1 DEF Types
  <1>6. Types'
    <2>1. ref' \in [Inums -> Nat] /\ valid' \in [Inums -> BOOLEAN]
      BY <1>1, GotIs, ValidityIs DEF Types
    <2> QED BY <1>1, <1>4, <1>5, <2>1 DEF Types, disk
  <1>7. \A j : Has(j, j) \in Nat
    BY HasIs
  <1>8. Head(call[p].path)' = Head(call[p].path)
    BY <1>4
  <1>9. CASE c = "create"
    <2>1. /\ Loc(p)' = "exists" /\ call[p].pc' = "put" /\ call[p].cont' = "exists"
          /\ Cur(p)' = None /\ Ip(p)' = g /\ call[p].puts' = <<d>>
          /\ call[p].op' = call[p].op /\ call[p].op \in {"create", "mkdir"}
          /\ Ip(p) = None /\ d # None /\ g # None
      BY <1>1, <1>4, <1>9, NoneAssumption DEF OpsAt
    <2>2. Put(p, 1)' = d /\ Put(p, 2)' = None
      BY <2>1 DEF Put
    <2>3. Len(call[p].puts)' = 1
      BY <2>1
    <2>4. CallInv(p)'
      BY <1>1, <1>4, <2>1, <2>3 DEF CallInv, Putting, At, HasCur, HasIp, HasPath, OpsAt
    <2>5. /\ Pending(p)' = Pending(p) /\ LockInv(p)' /\ OldInv(p)' /\ KindInv(p)'
      BY <1>1, <1>9, <2>1 DEF Pending, LockInv, LockOf, OldInv, At, KindInv
    <2>6. Uses(p)' \subseteq Uses(p) \cup {g}
      BY <1>1, <2>1, <2>2 DEF Uses, At
    <2>7. \A j \in Inums : Has(Cur(p), j)' + Has(Ip(p), j)' + Has(Put(p, 1), j)'
                            = Has(Cur(p), j) + Has(Ip(p), j) + Has(g, j)
      <3>1. \A v, j : Has(v, j) \in Nat
        BY HasIs
      <3>2. \A j : /\ Has(Cur(p), j)' = Has(None, j) /\ Has(Ip(p), j)' = Has(g, j)
                   /\ Has(Put(p, 1), j)' = Has(d, j) /\ Has(Ip(p), j) = Has(None, j)
        BY <2>1, <2>2 DEF Has
      <3> QED BY <3>1, <3>2
    <2> QED BY <1>1, <1>3, <1>4, <1>5, <1>6, <2>1, <2>2, <2>4, <2>5, <2>6, <2>7, GotStep
  <1>10. CASE c = "linknew"
    <2>1. /\ Loc(p)' = "release" /\ call[p].pc' = "put" /\ call[p].cont' = "release"
          /\ Cur(p)' = Cur(p) /\ Ip(p)' = Ip(p) /\ call[p].puts' = <<g>>
          /\ call[p].op' = call[p].op /\ call[p].op = "linknew"
          /\ d # None /\ Ip(p) # None
      BY <1>1, <1>4, <1>10, NoneAssumption DEF OpsAt
    <2>2. Put(p, 1)' = g /\ Put(p, 2)' = None
      BY <2>1 DEF Put
    <2>3. Len(call[p].puts)' = 1
      BY <2>1
    <2>4. CallInv(p)'
      BY <1>1, <1>4, <2>1, <2>3 DEF CallInv, Putting, At, HasCur, HasIp, HasPath, OpsAt
    <2>5. /\ Pending(p)' = Pending(p) /\ LockInv(p)' /\ OldInv(p)'
      BY <1>1, <1>5, <1>10, <2>1 DEF Pending, LockInv, LockOf, OldInv, At
    <2>8. KindInv(p)'
      BY <1>1, <1>2, <1>10, <2>1 DEF KindInv, ProcInv, disk
    <2>6. Uses(p)' \subseteq Uses(p) \cup {g}
      BY <1>1, <2>1, <2>2 DEF Uses, At
    <2>7. \A j \in Inums : Has(Cur(p), j)' + Has(Ip(p), j)' + Has(Put(p, 1), j)'
                            = Has(Cur(p), j) + Has(Ip(p), j) + Has(g, j)
      BY <2>1, <2>2 DEF Has
    <2> QED BY <1>1, <1>3, <1>4, <1>5, <1>6, <2>1, <2>2, <2>4, <2>5, <2>6, <2>7, <2>8, GotStep
  <1>11. CASE c = "unlink"
    <2>1. /\ Loc(p)' = "erase" /\ call[p].pc' = "erase"
          /\ Cur(p)' = Cur(p) /\ Ip(p)' = g /\ call[p].puts' = <<>>
          /\ call[p].op' = call[p].op /\ call[p].op = "unlink"
          /\ d # None /\ Ip(p) = None /\ g # None
      BY <1>1, <1>4, <1>11, NoneAssumption DEF OpsAt
    <2>2. Put(p, 1)' = None /\ Put(p, 2)' = None
      BY <2>1 DEF Put
    <2>4. CallInv(p)'
      BY <1>1, <1>4, <2>1 DEF CallInv, Putting, At, HasCur, HasIp, HasPath, OpsAt
    <2>5. /\ Pending(p)' = Pending(p) /\ LockInv(p)'
      BY <1>1, <1>5, <1>11, <2>1 DEF Pending, LockInv, LockOf, At
    <2>9. OldInv(p)'
      BY <1>3, <1>8, <1>11, <2>1 DEF OldInv, At, disk
    <2>8. KindInv(p)'
      BY <1>1, <1>2, <1>11, <2>1 DEF KindInv, ProcInv, disk
    <2>6. Uses(p)' \subseteq Uses(p) \cup {g}
      BY <1>1, <2>1, <2>2 DEF Uses, At
    <2>7. \A j \in Inums : Has(Cur(p), j)' + Has(Ip(p), j)' + Has(Put(p, 1), j)'
                            = Has(Cur(p), j) + Has(Ip(p), j) + Has(g, j)
      <3>1. \A v, j : Has(v, j) \in Nat
        BY HasIs
      <3>2. \A j : /\ Has(Cur(p), j)' = Has(Cur(p), j) /\ Has(Ip(p), j)' = Has(g, j)
                   /\ Has(Put(p, 1), j)' = Has(None, j) /\ Has(Ip(p), j) = Has(None, j)
        BY <2>1, <2>2 DEF Has
      <3> QED BY <3>1, <3>2
    <2> QED BY <1>1, <1>3, <1>4, <1>5, <1>6, <2>1, <2>2, <2>4, <2>5, <2>6, <2>7, <2>8, <2>9,
               GotStep
  <1> QED BY <1>9, <1>10, <1>11

\* What p has in hand where it looks up a name in a directory.
LEMMA AtParent ==
  ASSUME Inv, NEW p \in Procs, NEW c \in {"create", "linknew", "unlink"}, At(p, c),
         NEW g, Panic(Cur(p), g)
  PROVE  /\ Types /\ CallType /\ call[p] \in CallRecords
         /\ Cur(p) \in Inums /\ Entry(p) \in Inums \cup {None}
         /\ call[p].puts = <<>> /\ panicked' \in {"no", "iget", "ialloc"}
         /\ type[Cur(p)] = "dir" /\ Head(call[p].path) \in Elements
         /\ (c = "linknew" => Ip(p) \in Inums /\ type[Ip(p)] = "file"
                               /\ call[p].op = "linknew")
         /\ (c # "linknew" => Ip(p) = None)
  <1>1. /\ c \in Pcs \ {"put", "drop"} /\ c \in HasCur /\ c \in HasPath
        /\ (c \in HasIp <=> c = "linknew") /\ c \notin {"walk", "release"}
    BY DEF Pcs, Conts, HasCur, HasPath, HasIp
  <1>2. /\ Types /\ CallType /\ call[p].puts = <<>> /\ Cur(p) \in Inums
        /\ type[Cur(p)] # "free" /\ Head(call[p].path) \in Elements /\ ProcInv(p)
        /\ Loc(p) = c /\ call[p].op \in OpsAt(c) /\ CallInv(p)
        /\ panicked \in {"no", "iget", "ialloc"}
        /\ (c = "linknew" => Ip(p) \in Inums) /\ (c # "linknew" => Ip(p) = None)
    BY <1>1, Here
  <1>3. call[p] \in CallRecords
    BY <1>2 DEF CallType
  <1>4. panicked' \in {"no", "iget", "ialloc"}
    BY <1>2, PanicIs
  <1>5. type[Cur(p)] = "dir"
    BY <1>2 DEF ProcInv, KindInv
  <1>6. c = "linknew" => type[Ip(p)] = "file" /\ call[p].op = "linknew"
    BY <1>2, NoneAssumption DEF ProcInv, KindInv, OpsAt
  <1>7. Entry(p) \in Inums \cup {None}
    BY <1>2, EntryIs
  <1> QED BY <1>2, <1>3, <1>4, <1>5, <1>6, <1>7

LEMMA UnlinkStep ==
  ASSUME Inv, NEW p \in Procs, Unlink(p)
  PROVE  Inv'
  <1> DEFINE d == Cur(p)
             g == IF Head(call[p].path) \in Names THEN Entry(p) ELSE None
             r == [call[p] EXCEPT !.pc = "erase", !.ip = g]
  <1>1. /\ At(p, "unlink") /\ owner[d] = None /\ Panic(d, g)
        /\ UNCHANGED <<disk, fh, cwd, strayed, adrift>>
    BY DEF Unlink, Unlocked
  <1>5. g # None => g = Entry(p) /\ Head(call[p].path) \in Names /\ ~Drifts(p)
    BY NamesAssumption DEF Drifts
  <1>2. /\ Types /\ CallType /\ call[p] \in CallRecords /\ d \in Inums
        /\ g \in Inums \cup {None} /\ call[p].puts = <<>>
        /\ panicked' \in {"no", "iget", "ialloc"}
    BY <1>1, AtParent
  <1>3. CASE g = None /\ PutCur(p, "user") /\ valid' = ReadIn(d) /\ UNCHANGED <<ref, owner>>
    <2>1. "unlink" \in Pcs \ {"put", "drop"} /\ OpsAt("unlink") = {"unlink"}
      BY DEF Pcs, OpsAt
    <2>2. call[p].op # "linknew"
      BY <1>1, <2>1, Here
    <2>3. valid' \in [Inums -> BOOLEAN] /\ owner' \in [Inums -> Procs \cup {None}]
      BY <1>2, <1>3, ValidityIs DEF Types
    <2>4. "user" = "linkbad" <=> call[p].op = "linknew"
      BY <2>2
    <2>5. \A j \in Inums : owner'[j] = owner[j] \/ owner[j] \in {None, p}
      BY <1>3
    <2> QED BY <1>1, <1>2, <1>3, <2>3, <2>4, <2>5, GivesBackCur
  <1>4. CASE /\ g # None /\ ref' = Got(g) /\ valid' = Validity(g, d)
             /\ owner' = [owner EXCEPT ![d] = p]
             /\ call' = [call EXCEPT ![p] = [@ EXCEPT !.pc = "erase", !.ip = g]]
    <2>1. /\ r \in CallRecords /\ r.pc = "erase" /\ r.puts = <<>> /\ r.cur = d /\ r.ip = g
          /\ r.op = call[p].op /\ r.path = call[p].path /\ r.new = call[p].new
      BY <1>2 DEF CallRecords, Pcs, Cur
    <2>2. call' = [call EXCEPT ![p] = r] /\ g \in Inums
      BY <1>2, <1>4 DEF CallType
    <2>3. ref' = Got(g) /\ valid' = Validity(g, d) /\ owner' = [owner EXCEPT ![d] = p]
      BY <1>4
    <2>4. owner[d] = None /\ UNCHANGED <<disk, fh, cwd, strayed, adrift>> /\ At(p, "unlink")
      BY <1>1
    <2>5. g = Entry(p) /\ Head(call[p].path) \in Names /\ ~Drifts(p)
      BY <1>4, <1>5
    <2> HIDE DEF r, g
    <2> QED BY <1>2, <2>1, <2>2, <2>3, <2>4, <2>5, FoundStep
  <1> QED BY <1>3, <1>4 DEF Unlink

LEMMA CreateFoundStep ==
  ASSUME Inv, NEW p \in Procs, At(p, "create"), Unlocked(Cur(p)), Entry(p) # None, ~Drifts(p),
         ref' = Got(Entry(p)), valid' = Validity(Entry(p), Cur(p)), Panic(Cur(p), Entry(p)),
         call' = [call EXCEPT ![p] = [@ EXCEPT !.pc = "put", !.puts = <<Cur(p)>>,
                                       !.cur = None, !.ip = Entry(p), !.cont = "exists"]],
         UNCHANGED <<disk, owner, fh, cwd, strayed, adrift>>
  PROVE  Inv'
  <1> DEFINE d == Cur(p)
             g == Entry(p)
             r == [call[p] EXCEPT !.pc = "put", !.puts = <<d>>, !.cur = None, !.ip = g,
                                  !.cont = "exists"]
  <1>1. /\ Types /\ CallType /\ call[p] \in CallRecords /\ d \in Inums
        /\ g \in Inums \cup {None} /\ call[p].puts = <<>>
        /\ panicked' \in {"no", "iget", "ialloc"}
    BY AtParent
  <1>4. <<d>> \in Seq(Inums) /\ "put" \in Pcs /\ "exists" \in Conts
    BY <1>1 DEF Pcs, Conts
  <1>2. /\ r \in CallRecords /\ r.pc = "put" /\ r.puts = <<d>> /\ r.cur = None /\ r.ip = g
        /\ r.cont = "exists"
        /\ r.op = call[p].op /\ r.path = call[p].path /\ r.new = call[p].new
    BY <1>1, <1>4 DEF CallRecords
  <1>3. call' = [call EXCEPT ![p] = r] /\ g \in Inums
    BY <1>1 DEF CallType
  <1> HIDE DEF r
  <1> QED BY <1>1, <1>2, <1>3, FoundStep

LEMMA LinkTakenStep ==
  ASSUME Inv, NEW p \in Procs, At(p, "linknew"), Unlocked(Cur(p)), Entry(p) # None, ~Drifts(p),
         ref' = Got(Entry(p)), valid' = Validity(Entry(p), Cur(p)), Panic(Cur(p), Entry(p)),
         owner' = [owner EXCEPT ![Cur(p)] = p],
         call' = [call EXCEPT ![p] = [@ EXCEPT !.pc = "put", !.puts = <<Entry(p)>>,
                                       !.cont = "release"]],
         UNCHANGED <<disk, fh, cwd, strayed, adrift>>
  PROVE  Inv'
  <1> DEFINE d == Cur(p)
             g == Entry(p)
             r == [call[p] EXCEPT !.pc = "put", !.puts = <<g>>, !.cont = "release"]
  <1>1. /\ Types /\ CallType /\ call[p] \in CallRecords /\ d \in Inums
        /\ g \in Inums \cup {None} /\ call[p].puts = <<>>
        /\ panicked' \in {"no", "iget", "ialloc"}
    BY AtParent
  <1>3. call' = [call EXCEPT ![p] = r] /\ g \in Inums
    BY <1>1 DEF CallType
  <1>5. <<g>> \in Seq(Inums) /\ "put" \in Pcs /\ "release" \in Conts
    BY <1>3 DEF Pcs, Conts
  <1>2. /\ r \in CallRecords /\ r.pc = "put" /\ r.puts = <<g>> /\ r.cur = d /\ r.ip = Ip(p)
        /\ r.cont = "release"
        /\ r.op = call[p].op /\ r.path = call[p].path /\ r.new = call[p].new
    BY <1>1, <1>5 DEF CallRecords, Cur, Ip
  <1>4. owner[d] = None
    BY DEF Unlocked
  <1>6. g = Entry(p) /\ g \in Inums /\ ref' = Got(g) /\ valid' = Validity(g, d)
    BY <1>3
  <1>7. owner' = [owner EXCEPT ![d] = p] /\ panicked' \in {"no", "iget", "ialloc"}
    BY <1>1
  <1>8. call' = [call EXCEPT ![p] = r]
    BY <1>3
  <1>9. /\ Inv /\ p \in Procs /\ At(p, "linknew") /\ ~Drifts(p)
        /\ UNCHANGED <<disk, fh, cwd, strayed, adrift>>
    OBVIOUS
  <1> HIDE DEF r, g
  <1> QED BY ONLY <1>2, <1>4, <1>6, <1>7, <1>8, <1>9, FoundStep

LEMMA BeginStep ==
  ASSUME Inv, NEW p \in Procs, NEW req \in Requests, Begin(p, req)
  PROVE  Inv'
  <1> DEFINE c == req.op
             s == Start(p, req.path)
             r == [Idle EXCEPT !.op = req.op, !.path = req.path.elems, !.new = req.new,
                               !.cur = s, !.pc = "walk"]
  <1>1. /\ At(p, "user") /\ (c \in {"open", "create"} => fh[p] = None)
        /\ call' = [call EXCEPT ![p] = r] /\ ref' = Got(s)
        /\ valid' = Validity(s, None) /\ Panic(None, s)
        /\ UNCHANGED <<disk, owner, fh, cwd, strayed, adrift>>
    BY DEF Begin
  <1>2. "user" \in Pcs \ {"put", "drop"} /\ "user" \notin HasCur /\ "user" \notin HasIp
    BY DEF Pcs, Conts, HasCur, HasIp
  <1>3. /\ Types /\ CallType /\ CallInv(p) /\ Loc(p) = "user"
        /\ Put(p, 1) = None /\ Put(p, 2) = None /\ Cur(p) = None /\ Ip(p) = None
        /\ panicked \in {"no", "iget", "ialloc"}
    BY <1>1, <1>2, Here
  <1>4. /\ c \in AllCalls /\ req.path.elems \in Seq(Elements)
        /\ req.new \in PathNames \cup {None} /\ (c = "link" => req.new \in PathNames)
    <2>1. req \in [op : AllCalls, path : PathNames, new : PathNames \cup {None}]
      BY RequestsAssumption
    <2>2. c = "link" => req.new \in PathNames
      BY RequestsAssumption
    <2>3. c \in AllCalls /\ req.path \in PathNames /\ req.new \in PathNames \cup {None}
      BY <2>1
    <2>4. req.path.elems \in Seq(Elements)
      BY <2>3 DEF PathNames
    <2> QED BY <2>2, <2>3, <2>4
  <1>15. s \in Inums /\ (s = Root \/ s \in Uses(p))
    BY <1>3, StartIs
  <1>14. /\ Idle \in CallRecords /\ "walk" \in Pcs /\ c \in Ops
         /\ Idle.puts = <<>> /\ Idle.ip = None
    BY <1>4, IdleIs DEF Ops, Pcs, Conts
  <1> HIDE DEF s
  <1>5. /\ r \in CallRecords /\ r.pc = "walk" /\ r.puts = <<>> /\ r.cur = s
        /\ r.ip = None /\ r.op = c /\ r.new = req.new
    BY <1>4, <1>14, <1>15 DEF CallRecords
  <1> HIDE DEF r
  <1>6. /\ CallType' /\ (\A q \in Procs \ {p} : call'[q] = call[q])
        /\ call[p].pc' = "walk" /\ Loc(p)' = "walk" /\ call[p].op' = c
        /\ call[p].new' = req.new /\ call[p].puts' = <<>>
        /\ Cur(p)' = s /\ Ip(p)' = None
    BY <1>1, <1>3, <1>5, Becomes
  <1>7. Put(p, 1)' = None /\ Put(p, 2)' = None
    BY <1>6 DEF Put
  <1>8. Types'
    <2>1. ref' \in [Inums -> Nat] /\ valid' \in [Inums -> BOOLEAN]
      BY <1>1, <1>3, <1>15, GotIs, ValidityIs DEF Types
    <2> QED BY <1>1, <1>3, <1>6, <2>1 DEF Types, disk
  <1> HIDE DEF c
  <1>9. CallInv(p)'
    BY <1>1, <1>4, <1>6, <1>15, NoneAssumption
       DEF CallInv, Putting, At, HasCur, HasIp, HasPath, OpsAt, AllCalls
  <1>10. Pending(p)' = Pending(p) /\ LockInv(p)' /\ KindInv(p)' /\ OldInv(p)'
    BY <1>3, <1>4, <1>6 DEF Pending, LockInv, LockOf, KindInv, OldInv, At, AllCalls
  <1>11. Uses(p)' \subseteq Uses(p) \cup {s}
    BY <1>1, <1>6, <1>7 DEF Uses, At
  <1>12. \A j \in Inums : Has(Cur(p), j)' + Has(Ip(p), j)' + Has(Put(p, 1), j)'
                           = Has(Cur(p), j) + Has(Ip(p), j) + Has(s, j)
    BY <1>3, <1>6, <1>7 DEF Has
  <1>13. panicked' \in {"no", "iget", "ialloc"}
    BY <1>1, <1>3, PanicIs
  <1>16. call[p].pc' # "make"
    BY <1>6
  <1> QED BY <1>1, <1>3, <1>6, <1>7, <1>8, <1>9, <1>10, <1>11, <1>12, <1>13, <1>15, <1>16,
             GotStep

\* namex() of a path without elements ends where it starts.
LEMMA NoElementStep ==
  ASSUME Inv, NEW p \in Procs, NoElement(p)
  PROVE  Inv'
  <1>1. /\ At(p, "walk")
        /\ UNCHANGED <<disk, ref, valid, owner, fh, cwd, strayed, adrift, panicked>>
    BY DEF NoElement
  <1>2. /\ "walk" \in Pcs \ {"put", "drop"} /\ "walk" \in HasCur
        /\ OpsAt("walk") = AllCalls \cup {"linknew"}
    BY DEF Pcs, Conts, HasCur, OpsAt
  <1>3. /\ Types /\ CallType /\ ProcInv(p) /\ CallInv(p) /\ Loc(p) = "walk"
        /\ Put(p, 1) = None /\ Put(p, 2) = None /\ call[p].puts = <<>> /\ Cur(p) \in Inums
        /\ call[p].op \in AllCalls \cup {"linknew"} /\ panicked \in {"no", "iget", "ialloc"}
    BY <1>1, <1>2, Here
  <1>4. /\ valid' \in [Inums -> BOOLEAN] /\ owner' \in [Inums -> Procs \cup {None}]
        /\ \A j \in Inums : owner'[j] = owner[j] \/ owner[j] \in {None, p}
    BY <1>1, <1>3 DEF Types
  <1>5. CASE WantsParent(p) /\ PutCur(p, NotFound(p))
    <2>1. /\ NotFound(p) \in {"user", "linkbad"}
          /\ NotFound(p) = "linkbad" <=> call[p].op = "linknew"
      BY DEF NotFound
    <2> QED BY <1>1, <1>3, <1>4, <1>5, <2>1, GivesBackCur
  <1>6. CASE ~WantsParent(p) /\ Goto(p, Found(p))
    <2>1. Found(p) \in {"open", "link", "chdir"} /\ call[p].op = Found(p)
      BY <1>3, <1>6 DEF WantsParent, Found, AllCalls
    <2>2. Found(p) \in Pcs
      BY <2>1 DEF Pcs, Conts
    <2>3. /\ CallType' /\ (\A q \in Procs \ {p} : call'[q] = call[q])
          /\ SameCall(p) /\ call[p].pc' = Found(p) /\ Loc(p)' = Found(p)
          /\ Cur(p)' = Cur(p) /\ Ip(p)' = Ip(p) /\ call[p].puts' = call[p].puts
          /\ Put(p, 1)' = Put(p, 1) /\ Put(p, 2)' = Put(p, 2)
      BY <1>3, <1>6, <2>1, <2>2, GotoIs
    <2>4. Types'
      BY <1>1, <1>3, <2>3 DEF Types, disk
    <2>5. \A j \in Inums : ref'[j] + Own(p, j) = ref[j] + Own(p, j)'
      <3>1. SUFFICES ASSUME NEW j \in Inums PROVE ref'[j] + Own(p, j) = ref[j] + Own(p, j)'
        OBVIOUS
      <3>2. Own(p, j)' = Own(p, j)
        BY <1>1, <2>3 DEF Own, Has
      <3> QED BY <1>1, <3>2
    <2>6. QuietLearns(p)
      BY <1>1, <1>3, <2>1, <2>3 DEF QuietLearns, Uses, At
    <2>7. CallInv(p)'
      <3>1. Ip(p) = None
        BY <1>3, <2>1 DEF CallInv, HasIp
      <3>2. ~Putting(p)' /\ ~At(p, "user")' /\ call[p].puts' = <<>>
        BY <1>3, <2>1, <2>3 DEF Putting, At
      <3>3. /\ Loc(p)' \in HasCur /\ Loc(p)' \notin HasIp /\ Loc(p)' \notin HasPath
            /\ Loc(p)' \notin {"walk", "release"}
        BY <2>1, <2>3 DEF HasCur, HasIp, HasPath
      <3>4. call[p].op' \in OpsAt(Loc(p)')
        BY <2>1, <2>3 DEF OpsAt, SameCall
      <3>5. Cur(p)' # None
        BY <1>3, <2>3, NoneAssumption
      <3> QED BY <1>1, <1>3, <2>1, <2>3, <3>1, <3>2, <3>3, <3>4, <3>5 DEF CallInv, SameCall
    <2>8. Pending(p)' = Pending(p) /\ LockInv(p)' /\ OldInv(p)' /\ call[p].pc' # "make"
      BY <1>3, <2>1, <2>3 DEF Pending, LockInv, LockOf, OldInv, At, SameCall
    <2>9. KindInv(p)'
      BY <1>1, <1>3, <2>1, <2>3 DEF KindInv, ProcInv, SameCall
    <2> QED BY <1>1, <1>3, <1>4, <2>3, <2>4, <2>5, <2>6, <2>7, <2>8, <2>9, QuietStep DEF Alone
  <1> QED BY <1>5, <1>6 DEF NoElement

LEMMA CloseStep ==
  ASSUME Inv, NEW p \in Procs, Close(p)
  PROVE  Inv'
  <1> DEFINE r == [Idle EXCEPT !.op = "close", !.pc = "put", !.puts = <<fh[p]>>,
                               !.cont = "user"]
  <1>1. /\ At(p, "user") /\ fh[p] # None /\ fh' = [fh EXCEPT ![p] = None]
        /\ call' = [call EXCEPT ![p] = r]
        /\ UNCHANGED <<disk, ref, valid, owner, cwd, strayed, adrift, panicked>>
    BY DEF Close
  <1>2. "user" \in Pcs \ {"put", "drop"} /\ "user" \notin HasCur /\ "user" \notin HasIp
    BY DEF Pcs, Conts, HasCur, HasIp
  <1>3. /\ Types /\ CallType /\ CallInv(p) /\ Loc(p) = "user"
        /\ Put(p, 1) = None /\ Put(p, 2) = None /\ Cur(p) = None /\ Ip(p) = None
        /\ panicked \in {"no", "iget", "ialloc"}
    BY <1>1, <1>2, Here
  <1>4. fh[p] \in Inums
    BY <1>1, <1>3 DEF Types
  <1>16. /\ Idle \in CallRecords /\ "put" \in Pcs /\ "close" \in Ops /\ "user" \in Conts
         /\ <<fh[p]>> \in Seq(Inums) /\ Idle.cur = None /\ Idle.ip = None
    BY <1>4, IdleIs DEF Ops, Pcs, Conts
  <1>5. /\ r \in CallRecords /\ r.pc = "put" /\ r.puts = <<fh[p]>> /\ r.cur = None
        /\ r.ip = None /\ r.op = "close" /\ r.cont = "user"
    BY <1>16 DEF CallRecords
  <1> HIDE DEF r
  <1>6. /\ CallType' /\ (\A q \in Procs \ {p} : call'[q] = call[q])
        /\ call[p].pc' = "put" /\ call[p].cont' = "user" /\ Loc(p)' = "user"
        /\ call[p].op' = "close" /\ call[p].puts' = <<fh[p]>>
        /\ Cur(p)' = None /\ Ip(p)' = None
    BY <1>1, <1>3, <1>5, Becomes
  <1>7. Put(p, 1)' = fh[p] /\ Put(p, 2)' = None
    BY <1>6 DEF Put
  <1>14. Len(call[p].puts)' = 1
    BY <1>6
  <1>15. fh'[p] = None /\ fh' \in [Procs -> Inums \cup {None}]
         /\ \A q \in Procs \ {p} : fh'[q] = fh[q]
    BY <1>1, <1>3 DEF Types
  <1>8. Types'
    BY <1>1, <1>3, <1>6, <1>15 DEF Types, disk
  <1>9. CallInv(p)'
    BY <1>6, <1>14 DEF CallInv, Putting, At, HasCur, HasIp, HasPath, OpsAt, Ops
  <1>10. /\ Pending(p)' = Pending(p) /\ LockInv(p)' /\ KindInv(p)' /\ OldInv(p)'
         /\ call[p].pc' # "make"
    BY <1>3, <1>6 DEF Pending, LockInv, LockOf, KindInv, OldInv, At
  <1>11. QuietLearns(p)
    BY <1>1, <1>3, <1>6, <1>7, <1>15 DEF QuietLearns, Uses, At
  <1>12. \A j \in Inums : ref'[j] + Own(p, j) = ref[j] + Own(p, j)'
    <2>1. SUFFICES ASSUME NEW j \in Inums PROVE ref'[j] + Own(p, j) = ref[j] + Own(p, j)'
      OBVIOUS
    <2>2. /\ Has(fh'[p], j) = 0 /\ Has(Cur(p), j)' = 0 /\ Has(Ip(p), j)' = 0
          /\ Has(Put(p, 1), j)' = Has(fh[p], j) /\ Has(Put(p, 2), j)' = 0
          /\ Has(cwd'[p], j) = Has(cwd[p], j)
          /\ Has(Cur(p), j) = 0 /\ Has(Ip(p), j) = 0
          /\ Has(Put(p, 1), j) = 0 /\ Has(Put(p, 2), j) = 0
          /\ Has(cwd[p], j) \in Nat /\ Has(fh[p], j) \in Nat
      BY <1>1, <1>3, <1>6, <1>7, <1>15, HasIs
    <2>3. Own(p, j)' = Own(p, j)
      BY <2>2 DEF Own
    <2> QED BY <1>1, <2>3
  <1> QED BY <1>1, <1>3, <1>6, <1>8, <1>9, <1>10, <1>11, <1>12, <1>15, QuietStep DEF Alone

-----------------------------------------------------------------------------
(* Counting links *)

Pend(i) == Cardinality({q \in Procs : Pending(q) = i})
RootLink(i) == IF i = Root THEN 1 ELSE 0
KindAt(d, n) == IF ents[d][n] = None THEN "none" ELSE type[ents[d][n]]
DotDot(d, n, i) == IF i = d THEN Has(KindAt(d, n), "dir") ELSE 0

LEMMA PendChange ==
  ASSUME NEW p \in Procs, NEW i, \A q \in Procs \ {p} : call'[q] = call[q]
  PROVE  /\ Pend(i) \in Nat /\ Pend(i)' \in Nat
         /\ Pend(i)' + Has(Pending(p), i) = Pend(i) + Has(Pending(p)', i)
         /\ Pend(i) >= Has(Pending(p), i)
  <1> DEFINE f == [q \in Procs |-> Pending(q)]
             g == [q \in Procs |-> Pending(q)']
  <1>1. \A q \in Procs \ {p} : g[q] = f[q]
    BY DEF Pending, Loc, Putting, At, Ip
  <1>2. f[p] = Pending(p) /\ g[p] = Pending(p)'
    OBVIOUS
  <1>3. Pend(i) = Count(Procs, f, i) /\ Pend(i)' = Count(Procs, g, i)
    BY DEF Pend, Count
  <1> HIDE DEF f, g
  <1>6. IsFiniteSet(Procs)
    BY FiniteAssumption
  <1>4. Count(Procs, g, i) + Has(f[p], i) = Count(Procs, f, i) + Has(g[p], i)
    BY <1>1, <1>6, CountChange
  <1>5. /\ Count(Procs, f, i) \in Nat /\ Count(Procs, g, i) \in Nat
        /\ Count(Procs, f, i) >= Has(f[p], i)
    BY <1>6, CountTwo
  <1> QED BY <1>2, <1>3, <1>4, <1>5

LEMMA EntriesChange ==
  ASSUME NEW d \in Inums, NEW n \in Names, NEW i,
         \A e \in Inums, m \in Names : (e # d \/ m # n) => ents'[e][m] = ents[e][m]
  PROVE  /\ Cardinality(Entries(i)) \in Nat /\ Cardinality(Entries(i)') \in Nat
         /\ Cardinality(Entries(i)') + Has(ents[d][n], i)
              = Cardinality(Entries(i)) + Has(ents'[d][n], i)
         /\ Cardinality(Entries(i)) >= Has(ents[d][n], i)
  <1> DEFINE S == Inums \X Names
             f == [x \in S |-> ents[x[1]][x[2]]]
             g == [x \in S |-> ents'[x[1]][x[2]]]
             y == <<d, n>>
  <1>1. \A x \in S \ {y} : g[x] = f[x]
    OBVIOUS
  <1>2. y \in S /\ f[y] = ents[d][n] /\ g[y] = ents'[d][n]
    OBVIOUS
  <1>3. Cardinality(Entries(i)) = Count(S, f, i) /\ Cardinality(Entries(i)') = Count(S, g, i)
    <2>1. Entries(i) = {x \in S : f[x] = i} /\ Entries(i)' = {x \in S : g[x] = i}
      BY DEF Entries
    <2> QED BY <2>1 DEF Count
  <1>4. IsFiniteSet(S)
    BY FiniteAssumption, FS_Product
  <1> HIDE DEF S, f, g, y
  <1>5. Count(S, g, i) + Has(f[y], i) = Count(S, f, i) + Has(g[y], i)
    BY <1>1, <1>2, <1>4, CountChange
  <1>6. /\ Count(S, f, i) \in Nat /\ Count(S, g, i) \in Nat
        /\ Count(S, f, i) >= Has(f[y], i)
    BY <1>2, <1>4, CountTwo
  <1> QED BY <1>2, <1>3, <1>5, <1>6

LEMMA SubdirsChange ==
  ASSUME NEW d \in Inums, NEW n \in Names, NEW i \in Inums,
         \A e \in Inums, m \in Names : (e # d \/ m # n) => KindAt(e, m)' = KindAt(e, m)
  PROVE  /\ Cardinality(Subdirs(i)) \in Nat /\ Cardinality(Subdirs(i)') \in Nat
         /\ Cardinality(Subdirs(i)') + DotDot(d, n, i) = Cardinality(Subdirs(i)) + DotDot(d, n, i)'
         /\ Cardinality(Subdirs(i)) >= DotDot(d, n, i)
  <1> DEFINE f == [m \in Names |-> KindAt(i, m)]
             g == [m \in Names |-> KindAt(i, m)']
  <1>1. /\ \A m \in Names \ {n} : g[m] = f[m]
        /\ i # d => g[n] = f[n]
        /\ f[n] = KindAt(i, n) /\ g[n] = KindAt(i, n)'
    OBVIOUS
  <1>2. Cardinality(Subdirs(i)) = Count(Names, f, "dir")
        /\ Cardinality(Subdirs(i)') = Count(Names, g, "dir")
    <2>1. /\ Subdirs(i) = {m \in Names : f[m] = "dir"}
          /\ Subdirs(i)' = {m \in Names : g[m] = "dir"}
      BY DEF Subdirs, KindAt
    <2> QED BY <2>1 DEF Count
  <1> HIDE DEF f, g
  <1>3. Count(Names, g, "dir") + Has(f[n], "dir") = Count(Names, f, "dir") + Has(g[n], "dir")
    BY <1>1, FiniteAssumption, CountChange
  <1>4. /\ Count(Names, f, "dir") \in Nat /\ Count(Names, g, "dir") \in Nat
        /\ Count(Names, f, "dir") >= Has(f[n], "dir")
    BY FiniteAssumption, CountTwo
  <1>5. \A v : Has(v, "dir") \in Nat
    BY DEF Has
  <1>6. CASE i = d
    <2>1. DotDot(d, n, i) = Has(f[n], "dir") /\ DotDot(d, n, i)' = Has(g[n], "dir")
      BY <1>1, <1>6 DEF DotDot, Has
    <2> QED BY <1>2, <1>3, <1>4, <1>5, <2>1
  <1>7. CASE i # d
    <2>1. DotDot(d, n, i) = 0 /\ DotDot(d, n, i)' = 0 /\ g[n] = f[n]
      BY <1>1, <1>7 DEF DotDot
    <2> QED BY <1>2, <1>3, <1>4, <1>5, <2>1
  <1> QED BY <1>6, <1>7

\* The links of i, in parts.
LEMMA LinksAre ==
  ASSUME NEW i \in Inums
  PROVE  /\ Links(i) = Cardinality(Entries(i)) + RootLink(i) + Cardinality(Subdirs(i)) + Pend(i)
         /\ Cardinality(Entries(i)) \in Nat /\ Cardinality(Subdirs(i)) \in Nat
         /\ Pend(i) \in Nat /\ RootLink(i) \in {0, 1} /\ Links(i) \in Nat
         /\ Cardinality(Entries(i)) = 0 <=> Entries(i) = {}
         /\ Cardinality(Subdirs(i)) = 0 <=> Subdirs(i) = {}
         /\ Pend(i) = 0 <=> \A q \in Procs : Pending(q) # i
  <1> DEFINE P == {q \in Procs : Pending(q) = i}
  <1>1. Entries(i) \in SUBSET (Inums \X Names) /\ Subdirs(i) \in SUBSET Names
        /\ P \in SUBSET Procs
    BY DEF Entries, Subdirs
  <1>2. IsFiniteSet(Inums \X Names)
    BY FiniteAssumption, FS_Product
  <1>3. IsFiniteSet(Entries(i)) /\ IsFiniteSet(Subdirs(i)) /\ IsFiniteSet(P)
    BY <1>1, <1>2, FiniteAssumption, FS_Subset
  <1>4. /\ Cardinality(Entries(i)) \in Nat /\ Cardinality(Subdirs(i)) \in Nat
        /\ Cardinality(P) \in Nat
    BY <1>3, FS_CardinalityType
  <1>5. /\ Cardinality(Entries(i)) = 0 <=> Entries(i) = {}
        /\ Cardinality(Subdirs(i)) = 0 <=> Subdirs(i) = {}
        /\ Cardinality(P) = 0 <=> P = {}
    BY <1>3, FS_EmptySet
  <1>6. Pend(i) = Cardinality(P)
    BY DEF Pend
  <1>7. RootLink(i) \in {0, 1}
    BY DEF RootLink
  <1>8. Links(i) = Cardinality(Entries(i)) + RootLink(i) + Cardinality(Subdirs(i)) + Pend(i)
    BY DEF Links, RootLink, Pend
  <1>9. Links(i) \in Nat
    BY <1>4, <1>6, <1>7, <1>8
  <1> QED BY <1>4, <1>5, <1>6, <1>7, <1>8, <1>9

\* When one entry of d changes and no type does, every link that appears or goes is one
\* of the entry, of the ".." of the inode it names, or of p's call.
LEMMA LinksChange ==
  ASSUME NEW p \in Procs, NEW d \in Inums, NEW n \in Names, NEW i \in Inums,
         \A q \in Procs \ {p} : call'[q] = call[q], type' = type,
         \A e \in Inums, m \in Names : (e # d \/ m # n) => ents'[e][m] = ents[e][m]
  PROVE  /\ Links(i) \in Nat /\ Links(i)' \in Nat
         /\ Links(i)' + (Has(ents[d][n], i) + DotDot(d, n, i) + Has(Pending(p), i))
              = Links(i) + (Has(ents'[d][n], i) + DotDot(d, n, i)' + Has(Pending(p)', i))
         /\ Links(i) >= Has(ents[d][n], i) + DotDot(d, n, i) + Has(Pending(p), i) + RootLink(i)
  <1>1. \A e \in Inums, m \in Names : (e # d \/ m # n) => KindAt(e, m)' = KindAt(e, m)
    BY DEF KindAt
  <1>2. /\ Cardinality(Entries(i)) \in Nat /\ Cardinality(Entries(i)') \in Nat
        /\ Cardinality(Entries(i)') + Has(ents[d][n], i)
             = Cardinality(Entries(i)) + Has(ents'[d][n], i)
        /\ Cardinality(Entries(i)) >= Has(ents[d][n], i)
    BY EntriesChange
  <1>3. /\ Cardinality(Subdirs(i)) \in Nat /\ Cardinality(Subdirs(i)') \in Nat
        /\ Cardinality(Subdirs(i)') + DotDot(d, n, i) = Cardinality(Subdirs(i)) + DotDot(d, n, i)'
        /\ Cardinality(Subdirs(i)) >= DotDot(d, n, i)
    BY <1>1, SubdirsChange
  <1>4. /\ Pend(i) \in Nat /\ Pend(i)' \in Nat
        /\ Pend(i)' + Has(Pending(p), i) = Pend(i) + Has(Pending(p)', i)
        /\ Pend(i) >= Has(Pending(p), i)
    BY PendChange
  <1>5. /\ Links(i) = Cardinality(Entries(i)) + RootLink(i) + Cardinality(Subdirs(i)) + Pend(i)
        /\ Links(i)' = Cardinality(Entries(i)') + RootLink(i) + Cardinality(Subdirs(i)') + Pend(i)'
        /\ RootLink(i) \in Nat
    <2>1. Links(i) = Cardinality(Entries(i)) + RootLink(i) + Cardinality(Subdirs(i)) + Pend(i)
      BY DEF Links, Pend, RootLink
    <2>2. Links(i)' = Cardinality(Entries(i)') + (IF i = Root THEN 1 ELSE 0)
                        + Cardinality(Subdirs(i)') + Cardinality({q \in Procs : Pending(q)' = i})
      BY Zenon DEF Links
    <2>3. Pend(i)' = Cardinality({q \in Procs : Pending(q)' = i})
      BY DEF Pend
    <2>4. RootLink(i) = (IF i = Root THEN 1 ELSE 0) /\ RootLink(i) \in Nat
      BY DEF RootLink
    <2> QED BY <2>1, <2>2, <2>3, <2>4
  <1>6. /\ Has(ents[d][n], i) \in Nat /\ Has(ents'[d][n], i) \in Nat
        /\ DotDot(d, n, i) \in Nat /\ DotDot(d, n, i)' \in Nat
        /\ Has(Pending(p), i) \in Nat /\ Has(Pending(p)', i) \in Nat
    BY DEF Has, DotDot
  <1>7. Links(i) \in Nat /\ Links(i)' \in Nat
    BY <1>2, <1>3, <1>4, <1>5
  <1>8. Links(i)' + (Has(ents[d][n], i) + DotDot(d, n, i) + Has(Pending(p), i))
          = Links(i) + (Has(ents'[d][n], i) + DotDot(d, n, i)' + Has(Pending(p)', i))
    <2> DEFINE e1 == Cardinality(Entries(i))
               e2 == Cardinality(Entries(i)')
               s1 == Cardinality(Subdirs(i))
               s2 == Cardinality(Subdirs(i)')
               q1 == Pend(i)
               q2 == Pend(i)'
               a1 == Has(ents[d][n], i)
               a2 == Has(ents'[d][n], i)
               b1 == DotDot(d, n, i)
               b2 == DotDot(d, n, i)'
               c1 == Has(Pending(p), i)
               c2 == Has(Pending(p)', i)
    <2>2. /\ e1 \in Nat /\ e2 \in Nat /\ s1 \in Nat /\ s2 \in Nat /\ q1 \in Nat /\ q2 \in Nat
          /\ a1 \in Nat /\ a2 \in Nat /\ b1 \in Nat /\ b2 \in Nat /\ c1 \in Nat /\ c2 \in Nat
          /\ RootLink(i) \in Nat
          /\ e2 + a1 = e1 + a2 /\ s2 + b1 = s1 + b2 /\ q2 + c1 = q1 + c2
      BY <1>2, <1>3, <1>4, <1>5, <1>6
    <2>3. Links(i)' = e2 + RootLink(i) + s2 + q2 /\ Links(i) = e1 + RootLink(i) + s1 + q1
      BY <1>5
    <2> HIDE DEF e1, e2, s1, s2, q1, q2, a1, a2, b1, b2, c1, c2
    <2>1. Links(i)' + (a1 + b1 + c1) = Links(i) + (a2 + b2 + c2)
      BY <2>2, <2>3
    <2> QED BY <2>1 DEF a1, a2, b1, b2, c1, c2
  <1>9. Links(i) >= Has(ents[d][n], i) + DotDot(d, n, i) + Has(Pending(p), i) + RootLink(i)
    BY <1>2, <1>3, <1>4, <1>5, <1>6
  <1> QED BY <1>7, <1>8, <1>9

\* And when no entry changes.
LEMMA LinksPend ==
  ASSUME NEW p \in Procs, NEW i \in Inums,
         \A q \in Procs \ {p} : call'[q] = call[q], type' = type, ents' = ents
  PROVE  /\ Links(i) \in Nat /\ Links(i)' \in Nat
         /\ Links(i)' + Has(Pending(p), i) = Links(i) + Has(Pending(p)', i)
         /\ Links(i) >= Has(Pending(p), i)
  <1>1. Entries(i)' = Entries(i) /\ Subdirs(i)' = Subdirs(i)
    BY DEF Entries, Subdirs
  <1>2. /\ Pend(i) \in Nat /\ Pend(i)' \in Nat
        /\ Pend(i)' + Has(Pending(p), i) = Pend(i) + Has(Pending(p)', i)
        /\ Pend(i) >= Has(Pending(p), i)
    BY PendChange
  <1>3. /\ Links(i) = Cardinality(Entries(i)) + RootLink(i) + Cardinality(Subdirs(i)) + Pend(i)
        /\ Links(i)' = Cardinality(Entries(i)) + RootLink(i) + Cardinality(Subdirs(i)) + Pend(i)'
    BY <1>1 DEF Links, Pend, RootLink
  <1>4. /\ Cardinality(Entries(i)) \in Nat /\ Cardinality(Subdirs(i)) \in Nat
        /\ RootLink(i) \in Nat
    BY LinksAre
  <1>5. Has(Pending(p), i) \in Nat /\ Has(Pending(p)', i) \in Nat
    BY DEF Has
  <1> QED BY <1>2, <1>3, <1>4, <1>5

\* A step that changes the disk.
LEMMA DiskStep ==
  ASSUME Inv, NEW p \in Procs, Types', Modest(p), Finds(p),
         \A i \in Inums : ref'[i] + Own(p, i) = ref[i] + Own(p, i)',
         DiskInv', UpInv', ProcInv(p)', adrift' = adrift,
         panicked' \in {"no", "iget", "ialloc"}
  PROVE  Inv'
  <1>1. \A q \in Procs \ {p} : ProcInv(q)'
    BY OthersKeep
  <1>2. RefsExact'
    <2>1. SUFFICES ASSUME NEW i \in Inums PROVE ref'[i] = Refs(i)'
      BY DEF RefsExact
    <2>2. /\ Refs(i) \in Nat /\ Refs(i)' \in Nat
          /\ Refs(i)' + Own(p, i) = Refs(i) + Own(p, i)'
      BY RefsChange DEF Modest, Alone
    <2>3. ref[i] = Refs(i) /\ ref'[i] \in Nat
      BY DEF Inv, RefsExact, Types
    <2>4. Own(p, i) \in Nat /\ Own(p, i)' \in Nat
      BY HasIs DEF Own
    <2> QED BY <2>2, <2>3, <2>4
  <1> QED BY <1>1, <1>2 DEF Inv

-----------------------------------------------------------------------------
(* Steps that change the disk *)

\* Counting a link more or less for the call under way.
LEMMA CountedLinks ==
  ASSUME Inv, NEW p \in Procs, \A q \in Procs \ {p} : call'[q] = call[q],
         type' = type, ents' = ents, strayed' = strayed, Types',
         \A i \in Inums : nlink'[i] + Has(Pending(p), i) = nlink[i] + Has(Pending(p)', i)
  PROVE  DiskInv'
  <1>1. DiskInv /\ Types
    BY DEF Inv
  <1>2. ASSUME NEW i \in Inums
        PROVE  nlink'[i] >= Links(i)' /\ (~strayed => nlink'[i] = Links(i)')
    <2>1. /\ Links(i) \in Nat /\ Links(i)' \in Nat
          /\ Links(i)' + Has(Pending(p), i) = Links(i) + Has(Pending(p)', i)
      BY LinksPend
    <2>2. nlink[i] >= Links(i) /\ (~strayed => nlink[i] = Links(i))
          /\ nlink[i] \in Nat /\ nlink'[i] \in Nat
      BY <1>1 DEF DiskInv, Types
    <2>3. Has(Pending(p), i) \in Nat /\ Has(Pending(p)', i) \in Nat
      BY DEF Has
    <2> QED BY <2>1, <2>2, <2>3
  <1>3. \A i \in Inums : Entries(i)' = Entries(i)
    BY DEF Entries
  <1> QED BY <1>1, <1>2, <1>3 DEF DiskInv, NoEnts

LEMMA LinkTakenBack ==
  ASSUME Inv, NEW p \in Procs, NEW l \in {"linkbad", "erased"}, At(p, l), PutIp(p, "user"),
         nlink' = [nlink EXCEPT ![Ip(p)] = @ - 1],
         UNCHANGED <<type, ents, up, lost, ref, fh, cwd, strayed, adrift>>,
         valid' \in [Inums -> BOOLEAN], owner' \in [Inums -> Procs \cup {None}],
         \A i \in Inums : owner'[i] = owner[i] \/ owner[i] \in {None, p},
         panicked' \in {"no", "iget", "ialloc"}
  PROVE  Inv'
  <1> DEFINE i == Ip(p)
  <1>0. /\ l \in Pcs \ {"put", "drop"} /\ l \in HasIp /\ l \notin HasCur /\ "user" \in Conts
    BY DEF Pcs, Conts, HasCur, HasIp
  <1>1. /\ Types /\ CallType /\ RefsExact /\ ProcInv(p) /\ CallInv(p)
        /\ Loc(p) = l /\ Put(p, 1) = None /\ Put(p, 2) = None
        /\ i \in Inums /\ Cur(p) = None /\ call[p].op \in OpsAt(l) /\ call[p].op \in Ops
    BY <1>0, Here, Registers
  <1>2. Pending(p) = i /\ call[p].op \in {"linknew", "unlink"}
    BY <1>1 DEF Pending, OpsAt
  <1>3. /\ CallType' /\ (\A q \in Procs \ {p} : call'[q] = call[q])
        /\ SameCall(p) /\ call[p].pc' = "put" /\ call[p].cont' = "user" /\ Loc(p)' = "user"
        /\ Cur(p)' = None /\ Ip(p)' = None
        /\ call[p].puts' = <<Ip(p)>> /\ Put(p, 1)' = Ip(p) /\ Put(p, 2)' = None
    BY <1>0, <1>1, PutIpIs
  <1>4. Pending(p)' = None
    BY <1>3 DEF Pending
  <1>5. nlink[i] >= 1 /\ nlink[i] \in Nat
    <2>1. Links(i) \in Nat /\ Links(i) >= Has(Pending(p), i)
      BY <1>1, <1>3, LinksPend
    <2>2. nlink[i] >= Links(i) /\ nlink[i] \in Nat
      BY <1>1 DEF Inv, DiskInv, Types
    <2>3. Has(Pending(p), i) = 1
      BY <1>2 DEF Has
    <2> QED BY <2>1, <2>2, <2>3
  <1>6. /\ nlink' \in [Inums -> Nat]
        /\ \A j \in Inums : nlink'[j] + Has(i, j) = nlink[j]
        /\ \A j \in Inums : nlink'[j] = nlink[j] \/ j = i
    BY <1>1, <1>5 DEF Types, Has
  <1>7. Types'
    BY <1>1, <1>3, <1>6 DEF Types
  <1>8. DiskInv'
    <2>1. ASSUME NEW j \in Inums
          PROVE  nlink'[j] + Has(Pending(p), j) = nlink[j] + Has(Pending(p)', j)
      <3>1. Has(None, j) = 0
        BY HasIs
      <3>2. nlink[j] \in Nat
        BY <1>1 DEF Types
      <3> QED BY <1>2, <1>4, <1>6, <3>1, <3>2
    <2> QED BY <1>3, <1>7, <2>1, CountedLinks
  <1>9. i \in Uses(p)
    BY <1>1, NoneAssumption DEF Uses
  <1>10. Modest(p)
    BY <1>3, <1>6, <1>9 DEF Modest, Alone
  <1>11. Uses(p)' \subseteq Uses(p)
    BY <1>3, <1>9 DEF Uses, At
  <1>12. \A j \in Inums : ref'[j] + Own(p, j) = ref[j] + Own(p, j)'
    <2>1. SUFFICES ASSUME NEW j \in Inums PROVE ref'[j] + Own(p, j) = ref[j] + Own(p, j)'
      OBVIOUS
    <2>2. Own(p, j)' = Own(p, j)
      BY <1>1, <1>3, HasIs DEF Own
    <2> QED BY <2>2
  <1>13. CallInv(p)'
    <2>1. Len(call[p].puts)' = 1
      BY <1>3
    <2> QED BY <1>1, <1>2, <1>3, <2>1
            DEF CallInv, Putting, At, HasCur, HasIp, HasPath, OpsAt, SameCall
  <1>14. UseInv(p)'
    BY <1>1, <1>11 DEF UseInv, ProcInv
  <1>15. LockInv(p)' /\ KindInv(p)' /\ NewInv(p)' /\ OldInv(p)'
    BY <1>3 DEF LockInv, LockOf, KindInv, NewInv, OldInv, At
  <1>16. UpInv'
    BY DEF Inv, UpInv
  <1> QED BY <1>7, <1>8, <1>10, <1>11, <1>12, <1>13, <1>14, <1>15, <1>16, DiskStep
          DEF ProcInv, Finds

LEMMA LinkBadStep ==
  ASSUME Inv, NEW p \in Procs, LinkBad(p)
  PROVE  Inv'
  <1>0. /\ At(p, "linkbad") /\ UNCHANGED <<type, ents, up, lost, ref, owner, fh, cwd, strayed, adrift>>
        /\ valid' = ReadIn(Ip(p)) /\ Panic(Ip(p), None) /\ PutIp(p, "user")
        /\ nlink' = [nlink EXCEPT ![Ip(p)] = @ - 1]
    BY DEF LinkBad
  <1>1. "linkbad" \in Pcs \ {"put", "drop"} /\ "linkbad" \in HasIp
    BY DEF Pcs, Conts, HasIp
  <1>2. /\ Types /\ Ip(p) \in Inums
        /\ type[Ip(p)] # "free" /\ panicked \in {"no", "iget", "ialloc"}
    BY <1>0, <1>1, Here
  <1>4. valid' \in [Inums -> BOOLEAN] /\ owner' \in [Inums -> Procs \cup {None}]
    BY <1>0, <1>2, ValidityIs DEF Types
  <1>5. panicked' \in {"no", "iget", "ialloc"}
    BY <1>0, <1>2, PanicIs
  <1> QED BY <1>0, <1>4, <1>5, LinkTakenBack

LEMMA ErasedStep ==
  ASSUME Inv, NEW p \in Procs, Erased(p)
  PROVE  Inv'
  <1>0. /\ At(p, "erased") /\ UNCHANGED <<type, ents, up, lost, ref, valid, fh, cwd, strayed, adrift, panicked>>
        /\ PutIp(p, "user") /\ nlink' = [nlink EXCEPT ![Ip(p)] = @ - 1]
        /\ owner' = [owner EXCEPT ![Ip(p)] = None]
    BY DEF Erased
  <1>1. "erased" \in Pcs \ {"put", "drop"} /\ "erased" \in HasIp
    BY DEF Pcs, Conts, HasIp
  <1>2. /\ Types /\ Ip(p) \in Inums /\ panicked \in {"no", "iget", "ialloc"}
        /\ ProcInv(p) /\ Loc(p) = "erased"
    BY <1>0, <1>1, Here
  <1>3. owner[Ip(p)] = p
    BY <1>2, NoneAssumption DEF ProcInv, LockInv, LockOf
  <1>4. /\ valid' \in [Inums -> BOOLEAN] /\ owner' \in [Inums -> Procs \cup {None}]
        /\ \A i \in Inums : owner'[i] = owner[i] \/ owner[i] \in {None, p}
    BY <1>0, <1>2, <1>3 DEF Types
  <1> QED BY <1>0, <1>2, <1>4, LinkTakenBack

\* link() counts the link that it is going to make.
LEMMA LinkFileStep ==
  ASSUME Inv, NEW p \in Procs, At(p, "link"), type[Cur(p)] # "dir",
         NEW s, s = Start(p, call[p].new),
         nlink' = [nlink EXCEPT ![Cur(p)] = @ + 1],
         ref' = Got(s), valid' = Validity(s, Cur(p)), Panic(Cur(p), s),
         call' = [call EXCEPT ![p] =
                    [@ EXCEPT !.op = "linknew", !.path = call[p].new.elems,
                              !.cur = s, !.ip = Cur(p), !.pc = "walk"]],
         UNCHANGED <<type, ents, up, lost, owner, fh, cwd, strayed, adrift>>
  PROVE  Inv'
  <1> DEFINE i == Cur(p)
             r == [call[p] EXCEPT !.op = "linknew", !.path = call[p].new.elems,
                                  !.cur = s, !.ip = i, !.pc = "walk"]
  <1>0. /\ "link" \in Pcs \ {"put", "drop"} /\ "link" \in HasCur /\ "link" \notin HasIp
        /\ OpsAt("link") = {"link"}
    BY DEF Pcs, Conts, HasCur, HasIp, OpsAt
  <1>1. /\ Types /\ CallType /\ RefsExact /\ ProcInv(p) /\ CallInv(p)
        /\ Loc(p) = "link" /\ Put(p, 1) = None /\ Put(p, 2) = None /\ call[p].puts = <<>>
        /\ i \in Inums /\ type[i] # "free" /\ Ip(p) = None /\ call[p].op = "link"
        /\ panicked \in {"no", "iget", "ialloc"}
    BY <1>0, Here
  <1>2. call[p] \in CallRecords /\ call[p].new.elems \in Seq(Elements)
    <2>1. call[p] \in CallRecords /\ call[p].new \in PathNames
      BY <1>1 DEF CallType, CallInv
    <2> QED BY <2>1 DEF PathNames
  <1>3. /\ "linknew" \in Ops /\ "walk" \in Pcs
        /\ s \in Inums /\ (s = Root \/ s \in Uses(p))
    BY <1>1, StartIs DEF Ops, Pcs, Conts
  <1>4. /\ r \in CallRecords /\ r.pc = "walk" /\ r.puts = <<>> /\ r.cur = s
        /\ r.ip = i /\ r.op = "linknew" /\ r.path = call[p].new.elems
    BY <1>1, <1>2, <1>3 DEF CallRecords
  <1>5. call' = [call EXCEPT ![p] = r]
    BY <1>1 DEF CallType
  <1> HIDE DEF r
  <1>6. /\ CallType' /\ (\A q \in Procs \ {p} : call'[q] = call[q])
        /\ call[p].pc' = "walk" /\ Loc(p)' = "walk" /\ call[p].op' = "linknew"
        /\ call[p].path' = call[p].new.elems /\ call[p].puts' = <<>>
        /\ Cur(p)' = s /\ Ip(p)' = i
    BY <1>1, <1>4, <1>5, Becomes
  <1>7. Put(p, 1)' = None /\ Put(p, 2)' = None
    BY <1>6 DEF Put
  <1>8. Pending(p) = None /\ Pending(p)' = i
    BY <1>1, <1>6 DEF Pending
  <1>9. /\ nlink' \in [Inums -> Nat]
        /\ \A j \in Inums : nlink'[j] = nlink[j] + Has(i, j)
        /\ \A j \in Inums : nlink'[j] = nlink[j] \/ j = i
    BY <1>1 DEF Types, Has
  <1>10. Types'
    <2>1. ref' \in [Inums -> Nat] /\ valid' \in [Inums -> BOOLEAN]
      BY <1>1, <1>3, GotIs, ValidityIs DEF Types
    <2> QED BY <1>1, <1>6, <1>9, <2>1 DEF Types
  <1>11. DiskInv'
    <2>1. ASSUME NEW j \in Inums
          PROVE  nlink'[j] + Has(Pending(p), j) = nlink[j] + Has(Pending(p)', j)
      <3>1. Has(None, j) = 0 /\ Has(i, j) \in Nat
        BY HasIs
      <3>2. nlink[j] \in Nat
        BY <1>1 DEF Types
      <3> QED BY <1>8, <1>9, <3>1, <3>2
    <2> QED BY <1>6, <1>10, <2>1, CountedLinks
  <1>12. i \in Uses(p)
    BY <1>1, NoneAssumption DEF Uses
  <1>13. Modest(p)
    BY <1>6, <1>9, <1>12 DEF Modest, Alone
  <1>14. Uses(p)' \subseteq Uses(p) \cup {s}
    BY <1>6, <1>7, <1>12 DEF Uses, At
  <1>15. \A j \in Inums : ref'[j] + Own(p, j) = ref[j] + Own(p, j)'
    <2>1. SUFFICES ASSUME NEW j \in Inums PROVE ref'[j] + Own(p, j) = ref[j] + Own(p, j)'
      OBVIOUS
    <2>2. ref'[j] = ref[j] + Has(s, j) /\ ref[j] \in Nat
      BY <1>1, <1>3, GotIs DEF Types
    <2>3. \A v : Has(v, j) \in Nat /\ Has(None, j) = 0
      BY HasIs
    <2>4. Own(p, j)' = Own(p, j) + Has(s, j)
      BY <1>1, <1>6, <1>7, <2>3 DEF Own
    <2>5. Own(p, j) \in Nat
      BY <2>3 DEF Own
    <2> QED BY <2>2, <2>3, <2>4, <2>5
  <1>16. CallInv(p)'
    BY <1>1, <1>2, <1>3, <1>6, NoneAssumption
       DEF CallInv, Putting, At, HasCur, HasIp, HasPath, OpsAt
  <1>17. UseInv(p)'
    BY <1>1, <1>3, <1>14 DEF UseInv, ProcInv, Inv, DiskInv
  <1>18. KindInv(p)'
    <2>1. type[i] = "file"
      BY <1>1 DEF Types
    <2> QED BY <1>6, <2>1 DEF KindInv
  <1>19. LockInv(p)' /\ NewInv(p)' /\ OldInv(p)'
    BY <1>6 DEF LockInv, LockOf, NewInv, OldInv, At
  <1>20. Finds(p)
    BY <1>3, <1>14 DEF Finds
  <1>21. panicked' \in {"no", "iget", "ialloc"}
    BY <1>1, PanicIs
  <1>22. UpInv'
    BY DEF Inv, UpInv
  <1> QED BY <1>10, <1>11, <1>13, <1>15, <1>16, <1>17, <1>18, <1>19, <1>20, <1>21, <1>22,
             DiskStep
          DEF ProcInv

LEMMA LinkStep ==
  ASSUME Inv, NEW p \in Procs, Link(p)
  PROVE  Inv'
  <1> DEFINE s == Start(p, call[p].new)
  <1>1. At(p, "link") /\ UNCHANGED <<type, ents, up, lost, owner, fh, cwd, strayed, adrift>>
    BY DEF Link
  <1>2. CASE /\ PutCur(p, "user") /\ valid' = ReadIn(Cur(p)) /\ Panic(Cur(p), None)
             /\ UNCHANGED <<nlink, ref>>
    <2>0. /\ "link" \in Pcs \ {"put", "drop"} /\ "link" \in HasCur
          /\ OpsAt("link") = {"link"}
      BY DEF Pcs, Conts, HasCur, OpsAt
    <2>1. /\ Types /\ Cur(p) \in Inums /\ type[Cur(p)] # "free" /\ call[p].op = "link"
          /\ panicked \in {"no", "iget", "ialloc"}
      BY <1>1, <2>0, Here
    <2>2. valid' \in [Inums -> BOOLEAN] /\ owner' \in [Inums -> Procs \cup {None}]
      BY <1>1, <1>2, <2>1, ValidityIs DEF Types
    <2>3. panicked' \in {"no", "iget", "ialloc"}
      BY <1>2, <2>1, PanicIs
    <2>4. "user" = "linkbad" <=> call[p].op = "linknew"
      BY <2>1
    <2>5. \A j \in Inums : owner'[j] = owner[j] \/ owner[j] \in {None, p}
      BY <1>1
    <2>6. UNCHANGED <<disk, ref, fh, cwd, strayed, adrift>>
      BY <1>1, <1>2 DEF disk
    <2> QED BY <1>1, <1>2, <2>2, <2>3, <2>4, <2>5, <2>6, GivesBackCur
  <1>3. CASE /\ type[Cur(p)] # "dir" /\ nlink' = [nlink EXCEPT ![Cur(p)] = @ + 1]
             /\ ref' = Got(s) /\ valid' = Validity(s, Cur(p)) /\ Panic(Cur(p), s)
             /\ call' = [call EXCEPT ![p] =
                           [@ EXCEPT !.op = "linknew", !.path = call[p].new.elems,
                                     !.cur = s, !.ip = Cur(p), !.pc = "walk"]]
    BY <1>1, <1>3, LinkFileStep
  <1> QED BY <1>2, <1>3 DEF Link

\* chdir() exchanges the inode it found for the working directory, which it puts.
LEMMA ChdirStep ==
  ASSUME Inv, NEW p \in Procs, Chdir(p)
  PROVE  Inv'
  <1>1. /\ At(p, "chdir") /\ Panic(Cur(p), None) /\ valid' = ReadIn(Cur(p))
        /\ UNCHANGED <<disk, ref, owner, fh, strayed, adrift>>
    BY DEF Chdir
  <1>2. /\ "chdir" \in Pcs \ {"put", "drop"} /\ "chdir" \in HasCur /\ "chdir" \notin HasIp
        /\ OpsAt("chdir") = {"chdir"}
    BY DEF Pcs, Conts, HasCur, HasIp, OpsAt
  <1>3. /\ Types /\ CallType /\ CallInv(p) /\ Loc(p) = "chdir"
        /\ Put(p, 1) = None /\ Put(p, 2) = None /\ Cur(p) \in Inums /\ Ip(p) = None
        /\ type[Cur(p)] # "free" /\ call[p].op = "chdir"
        /\ panicked \in {"no", "iget", "ialloc"}
    BY <1>1, <1>2, Here
  <1>4. panicked' \in {"no", "iget", "ialloc"}
    BY <1>1, <1>3, PanicIs
  <1>5. valid' \in [Inums -> BOOLEAN] /\ owner' \in [Inums -> Procs \cup {None}]
        /\ \A j \in Inums : owner'[j] = owner[j] \/ owner[j] \in {None, p}
    BY <1>1, <1>3, ValidityIs DEF Types
  <1>6. CASE PutCur(p, "user") /\ UNCHANGED cwd
    <2>1. "user" = "linkbad" <=> call[p].op = "linknew"
      BY <1>3
    <2> QED BY <1>1, <1>3, <1>4, <1>5, <1>6, <2>1, GivesBackCur
  <1>7. CASE /\ cwd' = [cwd EXCEPT ![p] = Cur(p)]
             /\ call' = [call EXCEPT ![p] = [@ EXCEPT !.pc = "put", !.puts = <<cwd[p]>>,
                                                    !.cur = None, !.cont = "user"]]
    <2> DEFINE w == cwd[p]
               r == [call[p] EXCEPT !.pc = "put", !.puts = <<w>>, !.cur = None,
                                    !.cont = "user"]
    <2>1. /\ w \in Inums /\ <<w>> \in Seq(Inums) /\ "put" \in Pcs /\ "user" \in Conts
          /\ call[p] \in CallRecords /\ call' = [call EXCEPT ![p] = r]
      BY <1>3, <1>7 DEF Types, CallType, Pcs, Conts
    <2>2. /\ r \in CallRecords /\ r.pc = "put" /\ r.puts = <<w>> /\ r.cur = None
          /\ r.ip = Ip(p) /\ r.op = call[p].op /\ r.cont = "user"
      BY <2>1 DEF CallRecords, Ip
    <2> HIDE DEF r
    <2>13. /\ CallType' /\ (\A q \in Procs \ {p} : call'[q] = call[q])
           /\ call[p].pc' = r.pc /\ call[p].cont' = r.cont /\ call[p].op' = r.op
           /\ call[p].puts' = r.puts /\ Cur(p)' = r.cur /\ Ip(p)' = r.ip
           /\ Loc(p)' = IF r.pc \in {"put", "drop"} THEN r.cont ELSE r.pc
      BY <1>3, <2>1, <2>2, Becomes
    <2>3. /\ CallType' /\ (\A q \in Procs \ {p} : call'[q] = call[q])
          /\ call[p].pc' = "put" /\ call[p].cont' = "user" /\ Loc(p)' = "user"
          /\ call[p].op' = "chdir" /\ call[p].puts' = <<w>>
          /\ Cur(p)' = None /\ Ip(p)' = None
      BY <1>3, <2>2, <2>13
    <2>4. Put(p, 1)' = w /\ Put(p, 2)' = None
      BY <2>3 DEF Put
    <2>5. Len(call[p].puts)' = 1
      BY <2>3
    <2>6. cwd'[p] = Cur(p) /\ cwd' \in [Procs -> Inums]
          /\ \A q \in Procs \ {p} : cwd'[q] = cwd[q]
      BY <1>3, <1>7 DEF Types
    <2>7. Types'
      BY <1>1, <1>3, <1>5, <2>3, <2>6 DEF Types, disk
    <2>8. CallInv(p)'
      BY <2>3, <2>5 DEF CallInv, Putting, At, HasCur, HasIp, HasPath, OpsAt, Ops, AllCalls
    <2>9. /\ Pending(p)' = Pending(p) /\ LockInv(p)' /\ KindInv(p)' /\ OldInv(p)'
          /\ call[p].pc' # "make"
      BY <1>3, <2>3 DEF Pending, LockInv, LockOf, KindInv, OldInv, At
    <2>10. QuietLearns(p)
      BY <1>1, <1>3, <2>3, <2>4, <2>6 DEF QuietLearns, Uses, At
    <2>11. \A j \in Inums : ref'[j] + Own(p, j) = ref[j] + Own(p, j)'
      <3>1. SUFFICES ASSUME NEW j \in Inums PROVE ref'[j] + Own(p, j) = ref[j] + Own(p, j)'
        OBVIOUS
      <3>2. /\ Has(fh'[p], j) = Has(fh[p], j) /\ Has(Cur(p)', j) = 0 /\ Has(Ip(p)', j) = 0
            /\ Has(Put(p, 1)', j) = Has(cwd[p], j) /\ Has(Put(p, 2)', j) = 0
            /\ Has(cwd'[p], j) = Has(Cur(p), j)
            /\ Has(Ip(p), j) = 0 /\ Has(Put(p, 1), j) = 0 /\ Has(Put(p, 2), j) = 0
            /\ Has(cwd[p], j) \in Nat /\ Has(fh[p], j) \in Nat /\ Has(Cur(p), j) \in Nat
        BY <1>1, <1>3, <2>3, <2>4, <2>6, HasIs
      <3>3. Own(p, j)' = Own(p, j)
        BY <3>2 DEF Own
      <3> QED BY <1>1, <3>3
    <2>12. Alone(p)
      BY <1>1, <2>3, <2>6 DEF Alone
    <2> QED BY <1>1, <1>4, <1>5, <2>7, <2>8, <2>9, <2>10, <2>11, <2>12, QuietStep
  <1> QED BY <1>6, <1>7 DEF Chdir

\* Nothing leads to a free inode.
LEMMA FreeInode ==
  ASSUME Inv, NEW j \in Inums, type[j] = "free"
  PROVE  /\ \A d \in Inums, n \in Names : ents[d][n] # j
         /\ \A d \in Inums : up[d] = j => d \in lost
         /\ \A q \in Procs : j \notin Uses(q)
         /\ j # Root /\ ents[j] = NoEnts /\ Links(j) = 0
  <1>1. /\ j # None /\ j # Root /\ ents[j] = NoEnts
        /\ \A d \in Inums, n \in Names : ents[d][n] # j
        /\ \A d \in Inums : up[d] = j => d \in lost
        /\ \A q \in Procs : j \notin Uses(q)
    BY NoneAssumption DEF Inv, DiskInv, UpInv, ProcInv, UseInv
  <1>2. Entries(j) = {} /\ Subdirs(j) = {} /\ RootLink(j) = 0
    BY <1>1 DEF Entries, Subdirs, NoEnts, RootLink
  <1>3. \A q \in Procs : Pending(q) # j
    <2>1. \A q \in Procs : Pending(q) \in Uses(q) \cup {None}
      BY DEF Pending, Uses
    <2> QED BY <1>1, <2>1
  <1>4. Links(j) = 0
    BY <1>2, <1>3, LinksAre
  <1> QED BY <1>1, <1>4

\* create() allocates the inode j.
LEMMA CreateNewStep ==
  ASSUME Inv, NEW p \in Procs, At(p, "create"), Unlocked(Cur(p)), Entry(p) = None,
         Head(call[p].path) \in Names,
         NEW j \in Inums, type[j] = "free",
         type' = [type EXCEPT ![j] = IF call[p].op = "mkdir" THEN "dir" ELSE "file"],
         nlink' = [nlink EXCEPT ![j] = 0],
         ref' = Got(j), valid' = Validity(j, Cur(p)), Panic(Cur(p), j),
         owner' = [owner EXCEPT ![Cur(p)] = p],
         call' = [call EXCEPT ![p] = [@ EXCEPT !.pc = "make", !.ip = j]],
         UNCHANGED <<ents, up, lost, fh, cwd, strayed, adrift>>
  PROVE  Inv'
  <1> DEFINE d == Cur(p)
             r == [call[p] EXCEPT !.pc = "make", !.ip = j]
  <1>0. /\ "create" \in Pcs \ {"put", "drop"} /\ "create" \in HasCur /\ "create" \notin HasIp
        /\ "create" \in HasPath /\ OpsAt("create") = {"create", "mkdir"} /\ "make" \in Pcs
    BY DEF Pcs, Conts, HasCur, HasIp, HasPath, OpsAt
  <1>1. /\ Types /\ CallType /\ RefsExact /\ ProcInv(p) /\ CallInv(p)
        /\ Loc(p) = "create" /\ Put(p, 1) = None /\ Put(p, 2) = None /\ call[p].puts = <<>>
        /\ d \in Inums /\ type[d] # "free" /\ Ip(p) = None
        /\ call[p].op \in {"create", "mkdir"} /\ call[p].path # <<>>
        /\ panicked \in {"no", "iget", "ialloc"}
    BY <1>0, Here
  <1>2. type[d] = "dir"
    BY <1>1 DEF ProcInv, KindInv
  <1>3. call[p] \in CallRecords
    BY <1>1 DEF CallType
  <1>4. /\ r \in CallRecords /\ r.pc = "make" /\ r.puts = <<>> /\ r.cur = d
        /\ r.ip = j /\ r.op = call[p].op /\ r.path = call[p].path /\ r.new = call[p].new
    BY <1>0, <1>1, <1>3 DEF CallRecords, Cur
  <1>5. call' = [call EXCEPT ![p] = r]
    BY <1>1 DEF CallType
  <1> HIDE DEF r
  <1>6. /\ CallType' /\ (\A q \in Procs \ {p} : call'[q] = call[q])
        /\ call[p].pc' = "make" /\ Loc(p)' = "make" /\ call[p].op' = call[p].op
        /\ call[p].path' = call[p].path /\ call[p].new' = call[p].new
        /\ call[p].puts' = <<>> /\ Cur(p)' = d /\ Ip(p)' = j
    <2>1. CallType /\ r \in CallRecords
      BY <1>1, <1>4
    <2>2. /\ CallType' /\ (\A q \in Procs \ {p} : call'[q] = call[q])
          /\ call[p].pc' = r.pc /\ call[p].cont' = r.cont
          /\ call[p].op' = r.op /\ call[p].path' = r.path /\ call[p].new' = r.new
          /\ call[p].puts' = r.puts /\ Cur(p)' = r.cur /\ Ip(p)' = r.ip
          /\ Loc(p)' = IF r.pc \in {"put", "drop"} THEN r.cont ELSE r.pc
      BY ONLY <2>1, <1>5, p \in Procs, Becomes
    <2> QED BY <2>2, <1>4
  <1>7. Put(p, 1)' = None /\ Put(p, 2)' = None
    BY <1>6 DEF Put
  <1>8. /\ \A e \in Inums, n \in Names : ents[e][n] # j
        /\ \A e \in Inums : up[e] = j => e \in lost
        /\ \A q \in Procs : j \notin Uses(q)
        /\ j # Root /\ ents[j] = NoEnts /\ Links(j) = 0 /\ j # d
    BY <1>1, FreeInode
  <1>9. /\ nlink' \in [Inums -> Nat] /\ nlink'[j] = 0
        /\ (\A e \in Inums \ {j} : nlink'[e] = nlink[e])
        /\ type' \in [Inums -> {"free", "file", "dir"}] /\ type'[j] # "free"
        /\ (\A e \in Inums \ {j} : type'[e] = type[e])
    BY <1>1 DEF Types
  <1>10. /\ owner' \in [Inums -> Procs \cup {None}] /\ owner'[d] = p
         /\ \A e \in Inums : owner'[e] = owner[e] \/ owner[e] \in {None, p}
    BY <1>1 DEF Types, Unlocked
  <1>11. Types'
    <2>1. ref' \in [Inums -> Nat] /\ valid' \in [Inums -> BOOLEAN]
      BY <1>1, GotIs, ValidityIs DEF Types
    <2> QED BY <1>1, <1>6, <1>9, <1>10, <2>1 DEF Types
  <1>12. \A e \in Inums : Links(e)' = Links(e)
    <2>1. SUFFICES ASSUME NEW e \in Inums PROVE Links(e)' = Links(e)
      OBVIOUS
    <2>2. \A q \in Procs : Pending(q)' = Pending(q)
      BY <1>1, <1>6 DEF Pending, Loc, Putting, At, Ip
    <2>3. {q \in Procs : Pending(q)' = e} = {q \in Procs : Pending(q) = e}
      BY <2>2
    <2>4. Entries(e)' = Entries(e)
      BY DEF Entries
    <2>5. Subdirs(e)' = Subdirs(e)
      <3>1. \A n \in Names : ents[e][n] # None =>
                  ents[e][n] \in Inums /\ type'[ents[e][n]] = type[ents[e][n]]
        BY <1>1, <1>8, <1>9 DEF Types
      <3> QED BY <3>1 DEF Subdirs
    <2> QED BY <2>3, <2>4, <2>5 DEF Links
  <1>13. DiskInv'
    <2>1. DiskInv
      BY DEF Inv
    <2>2. type'[Root] = "dir"
      BY <1>8, <1>9, <2>1, RootAssumption DEF DiskInv
    <2>3. \A e \in Inums : type'[e] # "dir" => ents'[e] = NoEnts
      BY <1>8, <1>9, <2>1 DEF DiskInv
    <2>4. \A e \in Inums, n \in Names : ents'[e][n] # None => type'[ents'[e][n]] # "free"
      BY <1>1, <1>8, <1>9, <2>1 DEF DiskInv, Types
    <2>5. \A e \in Inums : /\ nlink'[e] >= Links(e)'
                           /\ (~strayed => nlink'[e] = Links(e)')
      BY <1>8, <1>9, <1>12, <2>1 DEF DiskInv
    <2>6. ~strayed' => \A e \in Inums : ents'[e] # NoEnts => (e = Root \/ Entries(e)' # {})
      BY <2>1 DEF DiskInv, Entries
    <2>7. strayed' = strayed
      OBVIOUS
    <2> QED BY <2>2, <2>3, <2>4, <2>5, <2>6, <2>7 DEF DiskInv, NoEnts
  <1>14. Modest(p)
    BY <1>6, <1>9, <1>10 DEF Modest, Alone
  <1>15. Uses(p)' \subseteq Uses(p) \cup {j}
    BY <1>6, <1>7 DEF Uses, At
  <1>16. \A e \in Inums : ref'[e] + Own(p, e) = ref[e] + Own(p, e)'
    <2>1. SUFFICES ASSUME NEW e \in Inums PROVE ref'[e] + Own(p, e) = ref[e] + Own(p, e)'
      OBVIOUS
    <2>2. ref'[e] = ref[e] + Has(j, e) /\ ref[e] \in Nat
      BY <1>1, GotIs DEF Types
    <2>3. \A v : Has(v, e) \in Nat /\ Has(None, e) = 0
      BY HasIs
    <2>4. Own(p, e)' = Own(p, e) + Has(j, e)
      BY <1>1, <1>6, <1>7, <2>3 DEF Own
    <2>5. Own(p, e) \in Nat
      BY <2>3 DEF Own
    <2> QED BY <2>2, <2>3, <2>4, <2>5
  <1>17. CallInv(p)'
    BY <1>1, <1>6, NoneAssumption DEF CallInv, Putting, At, HasCur, HasIp, HasPath, OpsAt
  <1>18. UseInv(p)'
    <2>1. \A e \in Uses(p) : e # j /\ e \in Inums /\ type[e] # "free"
      BY <1>1, <1>8, UsesAreInodes DEF ProcInv, UseInv
    <2> QED BY <1>9, <1>15, <2>1 DEF UseInv
  <1>19. LockInv(p)' /\ KindInv(p)' /\ OldInv(p)'
    BY <1>1, <1>2, <1>6, <1>8, <1>9, <1>10 DEF LockInv, LockOf, KindInv, OldInv, At
  <1>20. NewInv(p)'
    <2>1. \A q \in Procs \ {p} : Uses(q)' = Uses(q)
      BY <1>6 DEF Uses, Cur, Ip, At, Put
    <2>2. j # fh[p] /\ j # cwd[p]
      BY <1>8, NoneAssumption DEF Uses
    <2>3. /\ ents[d][Head(call[p].path)] = None
          /\ Head(call[p].path)' = Head(call[p].path)
      BY <1>1, <1>6, EntryIs DEF Elements
    <2> QED BY <1>6, <1>8, <1>9, <2>1, <2>2, <2>3 DEF NewInv, NoEnts
  <1>21. Finds(p)
    BY <1>15 DEF Finds
  <1>22. panicked' \in {"no", "iget", "ialloc"}
    BY <1>1, PanicIs
  <1>23. UpInv'
    <2>1. /\ UpInv /\ ents \in [Inums -> [Names -> Inums \cup {None}]]
          /\ up \in [Inums -> Inums \cup {None}]
      BY <1>1 DEF Inv, Types
    <2> QED BY <1>8, <1>9, <2>1 DEF UpInv
  <1> QED BY <1>11, <1>13, <1>14, <1>16, <1>17, <1>18, <1>19, <1>20, <1>21, <1>22, <1>23, DiskStep
          DEF ProcInv

LEMMA PanicStep ==
  ASSUME Inv, UNCHANGED <<disk, ref, valid, owner, call, fh, cwd, strayed, adrift>>,
         panicked' \in {"no", "iget", "ialloc"}
  PROVE  Inv'
  <1>1. Types' /\ RefsExact'
    BY DEF Inv, Types, CallType, RefsExact, Refs, Cur, Ip, Put, disk
  <1>2. DiskInv'
    <2>1. \A q \in Procs : Pending(q)' = Pending(q)
      BY DEF Pending, Loc, Putting, At, Ip
    <2>2. \A i \in Inums : {q \in Procs : Pending(q)' = i} = {q \in Procs : Pending(q) = i}
      BY <2>1
    <2>3. \A i \in Inums : Entries(i)' = Entries(i) /\ Subdirs(i)' = Subdirs(i)
      BY DEF disk, Entries, Subdirs
    <2>4. \A i \in Inums : Links(i)' = Links(i)
      BY <2>2, <2>3 DEF Links
    <2> QED BY <2>3, <2>4 DEF Inv, DiskInv, disk, NoEnts
  <1>3. \A p \in Procs : ProcInv(p)'
    BY DEF Inv, ProcInv, CallInv, LockInv, UseInv, KindInv, NewInv, OldInv, disk, NoEnts,
           At, Putting, Loc, Cur, Ip, Put, Uses, LockOf, Idle
  <1>4. UpInv'
    BY DEF Inv, UpInv, disk
  <1> QED BY <1>1, <1>2, <1>3, <1>4 DEF Inv

LEMMA CreateStep ==
  ASSUME Inv, NEW p \in Procs, Create(p), ~adrift'
  PROVE  Inv'
  <1>1. /\ At(p, "create") /\ Unlocked(Cur(p)) /\ ~Drifts(p)
        /\ Entry(p) = None => Head(call[p].path) \in Names
        /\ UNCHANGED <<ents, up, lost, fh, cwd, strayed, adrift>>
    BY DEF Create, Inv
  <1>2. CASE /\ Entry(p) # None /\ ref' = Got(Entry(p)) /\ valid' = Validity(Entry(p), Cur(p))
             /\ Panic(Cur(p), Entry(p))
             /\ call' = [call EXCEPT ![p] = [@ EXCEPT !.pc = "put", !.puts = <<Cur(p)>>,
                                          !.cur = None, !.ip = Entry(p), !.cont = "exists"]]
             /\ UNCHANGED <<type, nlink, owner>>
    BY <1>1, <1>2, CreateFoundStep DEF disk
  <1>3. CASE /\ Entry(p) = None
             /\ \E j \in {j \in Inums : type[j] = "free"} :
                  /\ type' = [type EXCEPT ![j] = IF call[p].op = "mkdir" THEN "dir"
                                                                          ELSE "file"]
                  /\ nlink' = [nlink EXCEPT ![j] = 0]
                  /\ ref' = Got(j) /\ valid' = Validity(j, Cur(p)) /\ Panic(Cur(p), j)
                  /\ owner' = [owner EXCEPT ![Cur(p)] = p]
                  /\ call' = [call EXCEPT ![p] = [@ EXCEPT !.pc = "make", !.ip = j]]
    BY <1>1, <1>3, CreateNewStep
  <1>4. CASE /\ panicked' = "ialloc"
             /\ UNCHANGED <<type, nlink, ref, valid, owner, call>>
    BY <1>1, <1>4, PanicStep DEF disk
  <1> QED BY <1>2, <1>3, <1>4 DEF Create

\* iput() frees an inode without links that nobody else refers to.
LEMMA FreeStep ==
  ASSUME Inv, NEW p \in Procs, At(p, "put"),
         NEW i \in Inums, i = Put(p, 1), owner[i] = None, nlink[i] = 0, ref[i] = 1,
         Free(i), valid' \in [Inums -> BOOLEAN], Goto(p, "drop"),
         UNCHANGED << ref, owner, fh, cwd, strayed, adrift, panicked>>
  PROVE  Inv'
  <1>0. /\ type' = [type EXCEPT ![i] = "free"] /\ ents' = [ents EXCEPT ![i] = NoEnts]
        /\ up' = [up EXCEPT ![i] = None] /\ nlink' = nlink
        /\ lost' = (lost \cup {d \in Inums : up[d] = i}) \ {i}
    BY DEF Free
  <1>1. /\ Types /\ CallType /\ RefsExact /\ ProcInv(p) /\ CallInv(p) /\ DiskInv /\ UpInv
        /\ Putting(p) /\ Loc(p) = call[p].cont /\ panicked \in {"no", "iget", "ialloc"}
        /\ call[p].cont \in Conts
    BY Registers DEF Inv, Types, ProcInv, At, Putting, Loc
  <1>2. /\ CallType' /\ (\A q \in Procs \ {p} : call'[q] = call[q])
        /\ SameCall(p) /\ call[p].pc' = "drop" /\ call[p].cont' = call[p].cont
        /\ Loc(p)' = call[p].cont /\ Cur(p)' = Cur(p) /\ Ip(p)' = Ip(p)
        /\ call[p].puts' = call[p].puts
        /\ Put(p, 1)' = Put(p, 1) /\ Put(p, 2)' = Put(p, 2)
    <2>1. "drop" \in Pcs
      BY DEF Pcs
    <2> QED BY <1>1, <2>1, GotoIs
  <1>3. i # None /\ i \in Uses(p) /\ Own(p, i) >= 1
    <2>1. i \in Uses(p)
      BY NoneAssumption DEF Uses, At
    <2> QED BY <1>1, <2>1, UsesAreInodes, NoneAssumption
  <1>4. Own(p, i) = 1 /\ \A q \in Procs \ {p} : i \notin Uses(q)
    BY <1>1, <1>3, LastReference
  <1>5. fh[p] # i /\ cwd[p] # i /\ Cur(p) # i /\ Ip(p) # i /\ Put(p, 2) # i
    <2>1. \A v : Has(v, i) \in Nat /\ (v = i => Has(v, i) = 1)
      BY DEF Has
    <2>2. Has(fh[p], i) + Has(cwd[p], i) + Has(Cur(p), i) + Has(Ip(p), i) + Has(Put(p, 1), i)
             + Has(Put(p, 2), i) = 1
      BY <1>4 DEF Own
    <2>3. Has(Put(p, 1), i) = 1
      BY <2>1
    <2>4. /\ Has(fh[p], i) = 0 /\ Has(cwd[p], i) = 0 /\ Has(Cur(p), i) = 0
          /\ Has(Ip(p), i) = 0 /\ Has(Put(p, 2), i) = 0
      BY <2>1, <2>2, <2>3
    <2> QED BY <2>1, <2>4
  \* No entry leads to it, and it has none unless somebody made one after it was removed.
  <1>6. /\ Links(i) = 0 /\ Entries(i) = {} /\ i # Root
        /\ \A d \in Inums, n \in Names : ents[d][n] # i
    <2>1. nlink[i] >= Links(i) /\ Links(i) \in Nat
      BY <1>1, LinksAre DEF DiskInv
    <2>2. Links(i) = 0
      BY <2>1
    <2>3. Cardinality(Entries(i)) = 0 /\ RootLink(i) = 0
      <3> DEFINE a == Cardinality(Entries(i))
                 b == RootLink(i)
                 c == Cardinality(Subdirs(i))
                 e == Pend(i)
      <3>1. Links(i) = a + b + c + e /\ a \in Nat /\ c \in Nat /\ e \in Nat
        BY LinksAre
      <3>2. b \in Nat
        BY DEF RootLink
      <3>3. a + b + c + e = 0
        BY <2>2, <3>1
      <3> HIDE DEF a, b, c, e
      <3>4. a = 0 /\ b = 0
        BY ONLY <3>1, <3>2, <3>3
      <3> QED BY <3>4 DEF a, b
    <2>4. Entries(i) = {} /\ i # Root
      BY <2>3, LinksAre DEF RootLink
    <2>5. \A d \in Inums, n \in Names : ents[d][n] # i
      <3>1. SUFFICES ASSUME NEW d \in Inums, NEW n \in Names, ents[d][n] = i PROVE FALSE
        OBVIOUS
      <3>2. <<d, n>> \in Entries(i)
        BY <3>1 DEF Entries
      <3> QED BY <2>4, <3>2
    <2> QED BY <2>2, <2>4, <2>5
  <1>7. /\ type'[i] = "free" /\ ents'[i] = NoEnts
        /\ \A e \in Inums \ {i} : type'[e] = type[e] /\ ents'[e] = ents[e]
        /\ type' \in [Inums -> {"free", "file", "dir"}]
        /\ ents' \in [Inums -> [Names -> Inums \cup {None}]]
        /\ up' \in [Inums -> Inums \cup {None}] /\ lost' \in SUBSET Inums
        /\ up'[i] = None /\ \A e \in Inums \ {i} : up'[e] = up[e]
    <2>1. NoEnts \in [Names -> Inums \cup {None}]
      BY DEF NoEnts
    <2> QED BY <1>0, <1>1, <2>1 DEF Types
  <1>8. Types'
    BY <1>0, <1>1, <1>2, <1>7 DEF Types
  <1>9. \A e \in Inums, n \in Names : \/ ents'[e][n] = ents[e][n]
                                     \/ ents'[e][n] = None
    BY <1>7 DEF NoEnts
  <1>10. ASSUME NEW e \in Inums
         PROVE  /\ Links(e)' \in Nat /\ Links(e)' <= Links(e)
                /\ ents' = ents => Links(e)' = Links(e) /\ Entries(e)' = Entries(e)
    <2>1. \A q \in Procs : Pending(q)' = Pending(q)
      BY <1>1, <1>2 DEF Pending, Loc, Putting, At, Ip, SameCall
    <2>2. Pend(e)' = Pend(e)
      <3>1. {q \in Procs : Pending(q)' = e} = {q \in Procs : Pending(q) = e}
        BY <2>1
      <3> QED BY <3>1 DEF Pend
    <2>3. Entries(e)' \subseteq Entries(e)
      BY <1>9, NoneAssumption DEF Entries
    <2>4. Subdirs(e)' \subseteq Subdirs(e)
      <3>1. \A n \in Names : ents'[e][n] # None =>
              /\ ents'[e][n] = ents[e][n] /\ type'[ents[e][n]] = type[ents[e][n]]
        BY <1>1, <1>6, <1>7, <1>9 DEF Types
      <3> QED BY <3>1 DEF Subdirs
    <2>5. ents' = ents => Entries(e)' = Entries(e) /\ Subdirs(e)' = Subdirs(e)
      <3>1. SUFFICES ASSUME ents' = ents
                     PROVE  Entries(e)' = Entries(e) /\ Subdirs(e)' = Subdirs(e)
        OBVIOUS
      <3>2. \A n \in Names : ents[e][n] # None => type'[ents[e][n]] = type[ents[e][n]]
        BY <1>1, <1>6, <1>7 DEF Types
      <3> QED BY <3>1, <3>2 DEF Entries, Subdirs
    <2>6. /\ Cardinality(Entries(e)') <= Cardinality(Entries(e))
          /\ Cardinality(Subdirs(e)') <= Cardinality(Subdirs(e))
          /\ Cardinality(Entries(e)') \in Nat /\ Cardinality(Subdirs(e)') \in Nat
      <3>1. Entries(e) \in SUBSET (Inums \X Names) /\ Subdirs(e) \in SUBSET Names
        BY DEF Entries, Subdirs
      <3>2. IsFiniteSet(Inums \X Names)
        BY FiniteAssumption, FS_Product
      <3>3. IsFiniteSet(Entries(e)) /\ IsFiniteSet(Subdirs(e))
        BY <3>1, <3>2, FiniteAssumption, FS_Subset
      <3>4. IsFiniteSet(Entries(e)') /\ IsFiniteSet(Subdirs(e)')
        BY <2>3, <2>4, <3>3, FS_Subset
      <3>5. Cardinality(Entries(e)') \in Nat /\ Cardinality(Subdirs(e)') \in Nat
        BY <3>4, FS_CardinalityType
      <3> QED BY <2>3, <2>4, <3>3, <3>5, FS_Subset
    <2>7. /\ Links(e) = Cardinality(Entries(e)) + RootLink(e) + Cardinality(Subdirs(e)) + Pend(e)
          /\ Cardinality(Entries(e)) \in Nat /\ Cardinality(Subdirs(e)) \in Nat
          /\ Pend(e) \in Nat /\ RootLink(e) \in Nat
      BY LinksAre
    <2>8. Links(e)' = Cardinality(Entries(e)') + RootLink(e) + Cardinality(Subdirs(e)') + Pend(e)
      BY <2>2 DEF Links, RootLink, Pend
    <2> QED BY <2>5, <2>6, <2>7, <2>8
  <1>11. ~strayed => ents' = ents
    <2>1. SUFFICES ASSUME ~strayed PROVE ents' = ents
      OBVIOUS
    <2>2. ents[i] = NoEnts
      BY <1>1, <1>6, <2>1 DEF DiskInv
    <2> QED BY <1>0, <1>1, <2>2 DEF Types
  <1>12. DiskInv'
    <2>1. type'[Root] = "dir"
      BY <1>1, <1>6, <1>7, RootAssumption DEF DiskInv
    <2>2. \A e \in Inums : type'[e] # "dir" => ents'[e] = NoEnts
      BY <1>1, <1>7 DEF DiskInv
    <2>3. \A e \in Inums, n \in Names : ents'[e][n] # None => type'[ents'[e][n]] # "free"
      BY <1>1, <1>6, <1>7, <1>9 DEF DiskInv, Types
    <2>4. \A e \in Inums : nlink'[e] >= Links(e)'
      <3>1. SUFFICES ASSUME NEW e \in Inums PROVE nlink'[e] >= Links(e)'
        OBVIOUS
      <3>2. nlink[e] >= Links(e) /\ nlink'[e] = nlink[e] /\ nlink[e] \in Nat /\ Links(e) \in Nat
        BY <1>0, <1>1, LinksAre DEF DiskInv, Types
      <3>3. Links(e)' \in Nat /\ Links(e)' <= Links(e)
        BY <1>10
      <3> QED BY <3>2, <3>3
    <2>5. ~strayed => \A e \in Inums : nlink'[e] = Links(e)'
      BY <1>0, <1>1, <1>10, <1>11 DEF DiskInv
    <2>6. ~strayed => \A e \in Inums : ents'[e] # NoEnts => (e = Root \/ Entries(e)' # {})
      <3>1. SUFFICES ASSUME ~strayed, NEW e \in Inums, ents'[e] # NoEnts
                     PROVE  e = Root \/ Entries(e)' # {}
        OBVIOUS
      <3>2. ents' = ents /\ Entries(e)' = Entries(e)
        BY <1>10, <1>11, <3>1
      <3> QED BY <1>1, <3>1, <3>2 DEF DiskInv
    <2>7. strayed' = strayed
      OBVIOUS
    <2> QED BY <2>1, <2>2, <2>3, <2>4, <2>5, <2>6, <2>7 DEF DiskInv, NoEnts
  <1>13. Modest(p)
    BY <1>0, <1>2, <1>3, <1>7, <1>9 DEF Modest, Alone
  <1>14. Uses(p)' \subseteq Uses(p) \ {i}
    BY <1>2, <1>5 DEF Uses, At
  <1>15. \A e \in Inums : ref'[e] + Own(p, e) = ref[e] + Own(p, e)'
    <2>1. SUFFICES ASSUME NEW e \in Inums PROVE ref'[e] + Own(p, e) = ref[e] + Own(p, e)'
      OBVIOUS
    <2>2. Own(p, e)' = Own(p, e)
      BY <1>2 DEF Own, Has
    <2> QED BY <2>2
  <1>16. CallInv(p)'
    <2>1. Len(call[p].puts)' = Len(call[p].puts) /\ Putting(p)' /\ ~At(p, "user")'
      BY <1>2 DEF Putting, At
    <2> QED BY <1>1, <1>2, <2>1 DEF CallInv, SameCall
  <1>17. UseInv(p)'
    BY <1>1, <1>7, <1>14, UsesAreInodes DEF UseInv, ProcInv
  <1>18. LockInv(p)'
    <2>1. LockOf(p)' = LockOf(p)
      BY <1>1, <1>2 DEF LockOf
    <2> QED BY <1>1, <2>1 DEF ProcInv, LockInv
  <1>19. /\ Cur(p) # None => Cur(p) \in Inums \ {i}
         /\ Ip(p) # None => Ip(p) \in Inums \ {i}
    BY <1>1, <1>5, Registers
  <1>20. KindInv(p)' /\ OldInv(p)'
    <2>1. KindInv(p) /\ OldInv(p)
      BY <1>1 DEF ProcInv
    <2>2. /\ Loc(p) \in {"create", "make", "linknew", "unlink", "erase", "release"} => Cur(p) # None
          /\ Loc(p) = "erased" => Ip(p) # None
      BY <1>1 DEF CallInv, HasCur, HasIp
    <2>3. KindInv(p)'
      BY <1>1, <1>2, <1>7, <1>19, <2>1, <2>2 DEF KindInv, SameCall
    <2>4. OldInv(p)'
      BY <1>1, <1>2, <1>7, <1>19, <2>1, <2>2 DEF OldInv, At, NoEnts
    <2> QED BY <2>3, <2>4
  <1>21. NewInv(p)' /\ Finds(p)
    BY <1>2, <1>14 DEF NewInv, At, Finds
  \* The directories that lose the inode their ".." leads to have no name.
  <1>22. UpInv'
    <2>1. ASSUME NEW e \in Inums, NEW n \in Names, ents'[e][n] # None,
                 type'[ents'[e][n]] = "dir"
          PROVE  up'[ents'[e][n]] = e /\ ents'[e][n] \notin lost'
      <3> DEFINE c == ents[e][n]
      <3>1. ents'[e][n] = c /\ c \in Inums /\ c # i /\ e # i
        BY <1>1, <1>6, <1>7, <1>9, <2>1 DEF Types, NoEnts
      <3>2. type[c] = "dir"
        BY <1>7, <2>1, <3>1
      <3>3. up[c] = e /\ c \notin lost
        BY <1>1, <2>1, <3>1, <3>2 DEF UpInv
      <3> QED BY <1>0, <1>7, <3>1, <3>3
    <2>2. ASSUME NEW e \in Inums \ lost', up'[e] # None
          PROVE  type'[up'[e]] # "free"
      <3>1. e # i /\ up'[e] = up[e] /\ up[e] \in Inums
        BY <1>1, <1>7, <2>2 DEF Types
      <3>2. e \notin lost /\ up[e] # i
        BY <1>0, <2>2, <3>1
      <3>3. type[up[e]] # "free"
        BY <1>1, <2>2, <3>1, <3>2 DEF UpInv
      <3> QED BY <1>7, <3>1, <3>2, <3>3
    <2> QED BY <2>1, <2>2 DEF UpInv
  <1> QED BY <1>1, <1>8, <1>12, <1>13, <1>15, <1>16, <1>17, <1>18, <1>20, <1>21, <1>22, DiskStep
          DEF ProcInv

LEMMA PutCheckStep ==
  ASSUME Inv, NEW p \in Procs, PutCheck(p)
  PROVE  Inv'
  <1> DEFINE i == Put(p, 1)
             last == valid[i] /\ nlink[i] = 0 /\ ref[i] = 1
  <1>1. /\ Types /\ CallType /\ RefsExact /\ ProcInv(p) /\ CallInv(p) /\ At(p, "put")
        /\ Putting(p) /\ Loc(p) = call[p].cont /\ panicked \in {"no", "iget", "ialloc"}
        /\ call[p].cont \in Conts
    BY Registers DEF Inv, Types, ProcInv, At, Putting, Loc, PutCheck
  <1>2. i \in Inums /\ i = Head(call[p].puts)
    BY <1>1, HeadOfPuts
  <1>3. /\ owner[i] = None /\ Goto(p, "drop")
        /\ last => Free(i)
        /\ ~last => UNCHANGED disk
        /\ valid' = [valid EXCEPT ![i] = @ /\ ~last]
        /\ UNCHANGED <<ref, owner, fh, cwd, strayed, adrift, panicked>>
    BY <1>2 DEF PutCheck, Unlocked
  <1>4. valid' \in [Inums -> BOOLEAN]
    <2>1. (valid[i] /\ ~last) \in BOOLEAN
      OBVIOUS
    <2> QED BY <1>1, <1>3, <2>1 DEF Types
  <1>5. CASE last
    BY <1>1, <1>2, <1>3, <1>4, <1>5, FreeStep
  <1>6. CASE ~last
    <2>1. UNCHANGED <<disk, ref, owner, fh, cwd, strayed, adrift, panicked>>
      BY <1>3, <1>6
    <2>2. "drop" \in Pcs
      BY DEF Pcs
    <2>3. /\ CallType' /\ (\A q \in Procs \ {p} : call'[q] = call[q])
          /\ SameCall(p) /\ call[p].pc' = "drop" /\ call[p].cont' = call[p].cont
          /\ Loc(p)' = call[p].cont /\ Cur(p)' = Cur(p) /\ Ip(p)' = Ip(p)
          /\ call[p].puts' = call[p].puts
          /\ Put(p, 1)' = Put(p, 1) /\ Put(p, 2)' = Put(p, 2)
      BY <1>1, <1>3, <2>2, GotoIs
    <2>4. Types'
      BY <1>1, <1>4, <2>1, <2>3 DEF Types, disk
    <2>5. \A j \in Inums : ref'[j] + Own(p, j) = ref[j] + Own(p, j)'
      <3>1. SUFFICES ASSUME NEW j \in Inums PROVE ref'[j] + Own(p, j) = ref[j] + Own(p, j)'
        OBVIOUS
      <3>2. Own(p, j)' = Own(p, j)
        BY <2>1, <2>3 DEF Own, Has
      <3> QED BY <2>1, <3>2
    <2>6. QuietLearns(p)
      BY <2>1, <2>3 DEF QuietLearns, Uses, At
    <2>7. CallInv(p)'
      <3>1. Len(call[p].puts)' = Len(call[p].puts) /\ Putting(p)' /\ ~At(p, "user")'
        BY <2>3 DEF Putting, At
      <3> QED BY <1>1, <2>1, <2>3, <3>1 DEF CallInv, SameCall
    <2>8. Pending(p)' = Pending(p) /\ LockInv(p)' /\ KindInv(p)' /\ OldInv(p)'
      BY <1>1, <2>1, <2>3, StaysIs DEF SameCall
    <2> QED BY <1>1, <2>1, <2>3, <2>4, <2>5, <2>6, <2>7, <2>8, QuietStep DEF Alone
  <1> QED BY <1>5, <1>6

\* A directory that has links, while nobody else unlinks it, is the root or has a name.
LEMMA HasName ==
  ASSUME Inv, NEW p \in Procs, NEW d \in Inums, type[d] = "dir", nlink[d] # 0, ~strayed,
         owner[d] \in {None, p}, Loc(p) # "erased"
  PROVE  d = Root \/ Entries(d) # {}
  <1>1. SUFFICES ASSUME d # Root, Entries(d) = {} PROVE FALSE
    OBVIOUS
  <1>2. DiskInv /\ Types /\ d # None
    BY NoneAssumption DEF Inv
  <1>3. ents[d] = NoEnts
    BY <1>1, <1>2 DEF DiskInv
  <1>4. Subdirs(d) = {}
    BY <1>3 DEF Subdirs, NoEnts
  <1>5. ASSUME NEW q \in Procs, Pending(q) = d PROVE FALSE
    <2>1. ProcInv(q) /\ CallInv(q)
      BY DEF Inv, ProcInv
    <2>2. Ip(q) = d
      BY <1>2, <1>5 DEF Pending
    <2>3. call[q].op # "linknew"
      BY <1>2, <2>1, <2>2 DEF ProcInv, KindInv
    <2>4. Loc(q) = "erased"
      BY <1>2, <1>5, <2>3 DEF Pending
    <2>5. owner[d] = q
      BY <1>2, <2>1, <2>2, <2>4 DEF ProcInv, LockInv, LockOf
    <2> QED BY <2>4, <2>5, ProcsAssumption
  <1>6. /\ Cardinality(Entries(d)) = 0 /\ Cardinality(Subdirs(d)) = 0 /\ Pend(d) = 0
        /\ RootLink(d) = 0
    BY <1>1, <1>4, <1>5, LinksAre DEF RootLink
  <1>7. Links(d) = 0
    BY <1>6, LinksAre
  <1> QED BY <1>2, <1>7 DEF DiskInv

\* dirlink() of i in the directory d.
LEMMA EntryMade ==
  ASSUME Inv, NEW p \in Procs, NEW d \in Inums, NEW h \in Names, NEW i \in Inums,
         Types', \A q \in Procs \ {p} : call'[q] = call[q],
         type[d] = "dir", type[i] # "free", type' = type, ents[d][h] = None,
         ents' = [ents EXCEPT ![d][h] = i], strayed' = (strayed \/ nlink[d] = 0),
         owner[d] \in {None, p}, Loc(p) # "erased",
         \A e \in Inums : nlink'[e] + Has(Pending(p), e)
            = nlink[e] + Has(i, e) + (IF e = d THEN Has(type[i], "dir") ELSE 0)
              + Has(Pending(p)', e)
  PROVE  DiskInv'
  <1>1. Types /\ DiskInv /\ i # None
    BY NoneAssumption DEF Inv
  <1>2. /\ \A e \in Inums, n \in Names : (e # d \/ n # h) => ents'[e][n] = ents[e][n]
        /\ ents'[d][h] = i
        /\ \A e \in Inums \ {d} : ents'[e] = ents[e]
    BY <1>1 DEF Types
  <1>3. KindAt(d, h) = "none" /\ KindAt(d, h)' = type[i]
    BY <1>1, <1>2 DEF KindAt
  <1>4. \A e : DotDot(d, h, e) = 0 /\ DotDot(d, h, e)' = (IF e = d THEN Has(type[i], "dir") ELSE 0)
    <2>1. Has("none", "dir") = 0
      BY DEF Has
    <2>2. Has(KindAt(d, h), "dir")' = Has(type[i], "dir")
      BY <1>3 DEF Has
    <2> QED BY <1>3, <2>1, <2>2 DEF DotDot
  <1>5. ASSUME NEW e \in Inums
        PROVE  nlink'[e] >= Links(e)' /\ (~strayed => nlink'[e] = Links(e)')
    <2>1. /\ Links(e) \in Nat /\ Links(e)' \in Nat
          /\ Links(e)' + (Has(ents[d][h], e) + DotDot(d, h, e) + Has(Pending(p), e))
               = Links(e) + (Has(ents'[d][h], e) + DotDot(d, h, e)' + Has(Pending(p)', e))
      BY <1>2, LinksChange
    <2>2. nlink[e] >= Links(e) /\ (~strayed => nlink[e] = Links(e))
          /\ nlink[e] \in Nat /\ nlink'[e] \in Nat
      BY <1>1 DEF DiskInv, Types
    <2> DEFINE a == Has(Pending(p), e)
               b == Has(i, e)
               u == IF e = d THEN Has(type[i], "dir") ELSE 0
               c == Has(Pending(p)', e)
               l == Links(e)
               l2 == Links(e)'
               m == nlink[e]
               m2 == nlink'[e]
    <2>3. a \in Nat /\ b \in Nat /\ u \in Nat /\ c \in Nat
      BY DEF Has
    <2>4. Has(ents[d][h], e) = 0 /\ DotDot(d, h, e) = 0 /\ Has(ents'[d][h], e) = b /\ DotDot(d, h, e)' = u
      BY <1>2, <1>4, HasIs
    <2>5. nlink'[e] + a = nlink[e] + b + u + c
      OBVIOUS
    <2>6. Links(e)' + (0 + 0 + a) = Links(e) + (b + u + c)
      BY <2>1, <2>4
    <2>7. /\ l \in Nat /\ l2 \in Nat /\ m \in Nat /\ m2 \in Nat
          /\ m >= l /\ (~strayed => m = l)
      BY <2>1, <2>2
    <2>8. l2 + (0 + 0 + a) = l + (b + u + c) /\ m2 + a = m + b + u + c
      BY <2>5, <2>6
    <2> HIDE DEF a, b, u, c, l, l2, m, m2
    <2>9. m2 >= l2 /\ (m = l => m2 = l2)
      BY <2>3, <2>7, <2>8
    <2> QED BY <2>7, <2>9 DEF l2, m2
  <1>6. type'[Root] = "dir"
    BY <1>1 DEF DiskInv
  <1>7. \A e \in Inums : type'[e] # "dir" => ents'[e] = NoEnts
    BY <1>1, <1>2 DEF DiskInv
  <1>8. \A e \in Inums, n \in Names : ents'[e][n] # None => type'[ents'[e][n]] # "free"
    BY <1>1, <1>2 DEF DiskInv
  <1>9. ~strayed' => \A e \in Inums : ents'[e] # NoEnts => (e = Root \/ Entries(e)' # {})
    <2>1. SUFFICES ASSUME ~strayed, nlink[d] # 0, NEW e \in Inums, ents'[e] # NoEnts
                   PROVE  e = Root \/ Entries(e)' # {}
      OBVIOUS
    <2>2. e = Root \/ Entries(e) # {}
      <3>1. CASE e = d
        BY <2>1, <3>1, HasName
      <3>2. CASE e # d
        BY <1>1, <1>2, <2>1, <3>2 DEF DiskInv
      <3> QED BY <3>1, <3>2
    <2>3. Entries(e) \subseteq Entries(e)'
      <3>1. ASSUME NEW x \in Inums \X Names, ents[x[1]][x[2]] = e PROVE ents'[x[1]][x[2]] = e
        <4>1. x[1] \in Inums /\ x[2] \in Names /\ e # None
          BY NoneAssumption
        <4> QED BY <1>2, <3>1, <4>1
      <3> QED BY <3>1 DEF Entries
    <2> QED BY <2>2, <2>3
  <1> QED BY <1>5, <1>6, <1>7, <1>8, <1>9 DEF DiskInv, NoEnts

LEMMA MakeStep ==
  ASSUME Inv, NEW p \in Procs, Make(p)
  PROVE  Inv'
  <1> DEFINE d == Cur(p)
             i == Ip(p)
             h == Head(call[p].path)
             dots == IF type[i] = "dir" THEN 1 ELSE 0
  <1>0. /\ "make" \in Pcs \ {"put", "drop"} /\ "make" \in HasCur /\ "make" \in HasIp
        /\ "make" \in HasPath /\ OpsAt("make") = {"create", "mkdir"} /\ "made" \in Conts
    BY DEF Pcs, Conts, HasCur, HasIp, HasPath, OpsAt
  <1>1. /\ At(p, "make") /\ owner[i] = None /\ valid' = ReadIn(i) /\ Panic(i, None)
        /\ nlink' = [nlink EXCEPT ![i] = 1, ![d] = IF type[i] = "dir" THEN @ + 1 ELSE @]
        /\ ents' = [ents EXCEPT ![d][h] = i] /\ strayed' = (strayed \/ nlink[d] = 0)
        /\ owner' = [owner EXCEPT ![d] = None, ![i] = p]
        /\ PutCur(p, "made") /\ UNCHANGED <<type, ref, fh, cwd, adrift>>
    BY DEF Make, Unlocked
  <1>20. /\ type[i] = "dir" => up' = [up EXCEPT ![i] = d] /\ lost' = lost \ {i}
         /\ type[i] # "dir" => up' = up /\ lost' = lost
    BY DEF Make
  <1>2. /\ Types /\ CallType /\ RefsExact /\ ProcInv(p) /\ CallInv(p)
        /\ Loc(p) = "make" /\ Put(p, 1) = None /\ Put(p, 2) = None
        /\ d \in Inums /\ i \in Inums /\ type[i] # "free"
        /\ call[p].op \in {"create", "mkdir"} /\ panicked \in {"no", "iget", "ialloc"}
    BY <1>0, <1>1, Here
  <1>3. /\ type[d] = "dir" /\ owner[d] = p /\ nlink[i] = 0 /\ i # d /\ ents[d][h] = None
        /\ h \in Names /\ \A e \in Inums, n \in Names : ents[e][n] # i
    BY <1>1, <1>2, NoneAssumption DEF ProcInv, KindInv, LockInv, LockOf, NewInv
  <1>4. /\ CallType' /\ (\A q \in Procs \ {p} : call'[q] = call[q])
        /\ SameCall(p) /\ call[p].pc' = "put" /\ call[p].cont' = "made" /\ Loc(p)' = "made"
        /\ Cur(p)' = None /\ Ip(p)' = i
        /\ call[p].puts' = <<d>> /\ Put(p, 1)' = d /\ Put(p, 2)' = None
    BY <1>0, <1>1, <1>2, PutCurIs
  <1>5. Pending(p) = None /\ Pending(p)' = None
    BY <1>2, <1>4 DEF Pending, SameCall
  <1>6. /\ nlink' \in [Inums -> Nat] /\ nlink'[i] = 1 /\ nlink'[d] = nlink[d] + dots
        /\ \A e \in Inums \ {i, d} : nlink'[e] = nlink[e]
    <2>1. dots \in Nat
      OBVIOUS
    <2>2. nlink[d] \in Nat
      BY <1>2 DEF Types
    <2>3. nlink' = [nlink EXCEPT ![i] = 1, ![d] = @ + dots]
      <3>1. CASE type[i] = "dir"
        BY <1>1, <3>1
      <3>2. CASE type[i] # "dir"
        <4>1. nlink' = [nlink EXCEPT ![i] = 1, ![d] = @]
          BY <1>1, <3>2
        <4>2. nlink[d] + dots = nlink[d]
          BY <2>2, <3>2
        <4> QED BY <1>2, <1>3, <4>1, <4>2 DEF Types
      <3> QED BY <3>1, <3>2
    <2>4. nlink \in [Inums -> Nat] /\ d \in Inums /\ i \in Inums /\ i # d
      BY <1>2, <1>3 DEF Types
    <2> HIDE DEF dots, d, i
    <2> QED BY <2>1, <2>2, <2>3, <2>4
  <1>7. /\ ents' \in [Inums -> [Names -> Inums \cup {None}]]
        /\ \A e \in Inums : ents'[e] = ents[e] \/ e = d
        /\ \A e \in Inums, n \in Names : ents'[e][n] = ents[e][n] \/ ents'[e][n] = i
    BY <1>1, <1>2, <1>3 DEF Types
  <1>8. /\ owner' \in [Inums -> Procs \cup {None}] /\ owner'[i] = p
        /\ \A e \in Inums : owner'[e] = owner[e] \/ owner[e] \in {None, p}
    BY <1>1, <1>2, <1>3 DEF Types
  <1>9. Types'
    <2>1. valid' \in [Inums -> BOOLEAN] /\ strayed' \in BOOLEAN
      BY <1>1, <1>2, ValidityIs DEF Types
    <2>2. up' \in [Inums -> Inums \cup {None}] /\ lost' \in SUBSET Inums
      <3>1. CASE type[i] = "dir"
        BY <1>2, <1>20, <3>1 DEF Types
      <3>2. CASE type[i] # "dir"
        BY <1>2, <1>20, <3>2 DEF Types
      <3> QED BY <3>1, <3>2
    <2> QED BY <1>1, <1>2, <1>4, <1>6, <1>7, <1>8, <2>1, <2>2 DEF Types
  <1>10. DiskInv'
    <2>1. ASSUME NEW e \in Inums
          PROVE  nlink'[e] + Has(Pending(p), e)
                   = nlink[e] + Has(i, e) + (IF e = d THEN Has(type[i], "dir") ELSE 0)
                     + Has(Pending(p)', e)
      <3>1. Has(None, e) = 0 /\ Has(type[i], "dir") = dots /\ dots \in Nat
        BY HasIs
      <3>2. nlink[e] \in Nat
        BY <1>2 DEF Types
      <3> HIDE DEF dots
      <3>3. nlink'[e] = nlink[e] + Has(i, e) + (IF e = d THEN dots ELSE 0)
        BY <1>3, <1>6, <3>1, <3>2 DEF Has
      <3>4. Has(i, e) \in Nat /\ nlink'[e] \in Nat
        BY <1>6 DEF Has
      <3> QED BY <1>5, <3>1, <3>2, <3>3, <3>4
    <2>2. Loc(p) # "erased" /\ owner[d] \in {None, p}
      BY <1>2, <1>3
    <2> QED BY <1>1, <1>2, <1>3, <1>4, <1>9, <2>1, <2>2, EntryMade
  <1>11. d \in Uses(p) /\ i \in Uses(p)
    BY <1>2, NoneAssumption DEF Uses
  <1>12. Modest(p)
    <2>1. \A e \in Inums : \/ up'[e] = up[e] /\ (e \in lost => e \in lost')
                           \/ up'[e] \in Uses(p) \cup {None}
      BY <1>2, <1>11, <1>20 DEF Types
    <2> QED BY <1>1, <1>2, <1>3, <1>4, <1>6, <1>7, <1>8, <1>11, <2>1 DEF Modest, Alone
  <1>13. Uses(p)' \subseteq Uses(p)
    BY <1>1, <1>4, <1>11 DEF Uses, At
  <1>14. \A e \in Inums : ref'[e] + Own(p, e) = ref[e] + Own(p, e)'
    <2>1. SUFFICES ASSUME NEW e \in Inums PROVE ref'[e] + Own(p, e) = ref[e] + Own(p, e)'
      OBVIOUS
    <2>2. Own(p, e)' = Own(p, e)
      BY <1>1, <1>2, <1>4, HasIs DEF Own
    <2> QED BY <1>1, <2>2
  <1>15. CallInv(p)'
    <2>1. Len(call[p].puts)' = 1
      BY <1>4
    <2> QED BY <1>1, <1>2, <1>4, <2>1, NoneAssumption
            DEF CallInv, Putting, At, HasCur, HasIp, HasPath, OpsAt, SameCall
  <1>16. UseInv(p)'
    BY <1>1, <1>2, <1>13 DEF UseInv, ProcInv
  <1>17. LockInv(p)' /\ KindInv(p)' /\ NewInv(p)' /\ OldInv(p)'
    BY <1>2, <1>4, <1>8 DEF LockInv, LockOf, KindInv, NewInv, OldInv, At, SameCall
  <1>18. panicked' \in {"no", "iget", "ialloc"}
    BY <1>1, <1>2, PanicIs
  <1>19. UpInv'
    <2>1. UpInv /\ up \in [Inums -> Inums \cup {None}]
      BY <1>2 DEF Inv, Types
    <2>2. ASSUME NEW e \in Inums, NEW n \in Names, ents'[e][n] # None,
                 type'[ents'[e][n]] = "dir"
          PROVE  up'[ents'[e][n]] = e /\ ents'[e][n] \notin lost'
      <3>1. CASE ents'[e][n] = i
        <4>1. e = d
          BY <1>1, <1>2, <1>3, <1>7, <3>1
        <4> QED BY <1>1, <1>2, <1>20, <2>1, <2>2, <3>1, <4>1
      <3>2. CASE ents'[e][n] # i
        <4>1. ents'[e][n] = ents[e][n] /\ ents[e][n] \in Inums
          BY <1>2, <1>7, <2>2, <3>2 DEF Types
        <4>2. up[ents[e][n]] = e /\ ents[e][n] \notin lost
          BY <1>1, <2>1, <2>2, <4>1 DEF UpInv
        <4> QED BY <1>20, <2>1, <3>2, <4>1, <4>2
      <3> QED BY <3>1, <3>2
    <2>3. ASSUME NEW e \in Inums \ lost', up'[e] # None PROVE type'[up'[e]] # "free"
      <3>1. CASE e = i /\ type[i] = "dir"
        BY <1>1, <1>2, <1>3, <1>20, <2>1, <3>1
      <3>2. CASE ~(e = i /\ type[i] = "dir")
        <4>1. up'[e] = up[e] /\ e \notin lost
          BY <1>2, <1>20, <2>1, <2>3, <3>2
        <4> QED BY <1>1, <2>1, <2>3, <4>1 DEF UpInv
      <3> QED BY <3>1, <3>2
    <2> QED BY <2>2, <2>3 DEF UpInv
  <1> QED BY <1>1, <1>9, <1>10, <1>12, <1>13, <1>14, <1>15, <1>16, <1>17, <1>18, <1>19, DiskStep
          DEF ProcInv, Finds

\* link() makes the entry.
LEMMA LinkMadeStep ==
  ASSUME Inv, NEW p \in Procs, At(p, "linknew"), Unlocked(Cur(p)), Entry(p) = None,
         Head(call[p].path) \in Names,
         Panic(Cur(p), Entry(p)),
         ents' = [ents EXCEPT ![Cur(p)][Head(call[p].path)] = Ip(p)],
         strayed' = (strayed \/ nlink[Cur(p)] = 0),
         call' = [call EXCEPT ![p] = [@ EXCEPT !.pc = "put", !.puts = <<Cur(p), Ip(p)>>,
                                        !.cur = None, !.ip = None, !.cont = "user"]],
         valid' = ReadIn(Cur(p)), 
         UNCHANGED <<type, nlink, up, lost, ref, owner, fh, cwd, adrift>>
  PROVE  Inv'
  <1> DEFINE d == Cur(p)
             i == Ip(p)
             h == Head(call[p].path)
             r == [call[p] EXCEPT !.pc = "put", !.puts = <<d, i>>, !.cur = None,
                                  !.ip = None, !.cont = "user"]
  <1>0. /\ "linknew" \in Pcs \ {"put", "drop"} /\ "linknew" \in HasCur /\ "linknew" \in HasIp
        /\ "linknew" \in HasPath /\ OpsAt("linknew") = {"linknew"}
        /\ "user" \in Conts /\ "put" \in Pcs
    BY DEF Pcs, Conts, HasCur, HasIp, HasPath, OpsAt
  <1>2. /\ Types /\ CallType /\ RefsExact /\ ProcInv(p) /\ CallInv(p)
        /\ Loc(p) = "linknew" /\ Put(p, 1) = None /\ Put(p, 2) = None
        /\ d \in Inums /\ i \in Inums /\ type[i] # "free"
        /\ call[p].op = "linknew" /\ panicked \in {"no", "iget", "ialloc"}
    BY <1>0, Here
  <1>3. type[d] = "dir" /\ type[i] = "file" /\ ents[d][h] = None /\ owner[d] = None
    <2>1. ents[d][h] = None
      BY <1>2, EntryIs DEF Elements
    <2> QED BY <1>2, <2>1, NoneAssumption DEF ProcInv, KindInv, Unlocked
  <1>19. call[p] \in CallRecords /\ <<d, i>> \in Seq(Inums)
    BY <1>2 DEF CallType
  <1>20. /\ r \in CallRecords /\ r.pc = "put" /\ r.puts = <<d, i>> /\ r.cur = None
         /\ r.ip = None /\ r.op = "linknew" /\ r.cont = "user"
    BY <1>0, <1>2, <1>19 DEF CallRecords
  <1>21. call' = [call EXCEPT ![p] = r]
    BY <1>2 DEF CallType
  <1> HIDE DEF r
  <1>4. /\ CallType' /\ (\A q \in Procs \ {p} : call'[q] = call[q])
        /\ call[p].pc' = "put" /\ call[p].cont' = "user" /\ Loc(p)' = "user"
        /\ call[p].op' = "linknew" /\ Cur(p)' = None /\ Ip(p)' = None
        /\ call[p].puts' = <<d, i>>
    BY <1>2, <1>20, <1>21, Becomes
  <1>22. Put(p, 1)' = d /\ Put(p, 2)' = i
    BY <1>4 DEF Put
  <1>5. Pending(p) = i /\ Pending(p)' = None
    BY <1>2, <1>4 DEF Pending
  <1>7. /\ ents' \in [Inums -> [Names -> Inums \cup {None}]]
        /\ \A e \in Inums : ents'[e] = ents[e] \/ e = d
        /\ \A e \in Inums, n \in Names : ents'[e][n] = ents[e][n] \/ ents'[e][n] = i
    BY <1>2 DEF Types
  <1>9. Types'
    <2>1. valid' \in [Inums -> BOOLEAN] /\ strayed' \in BOOLEAN
      BY <1>2, ValidityIs DEF Types
    <2> QED BY <1>2, <1>4, <1>7, <2>1 DEF Types
  <1>10. DiskInv'
    <2>1. ASSUME NEW e \in Inums
          PROVE  nlink'[e] + Has(Pending(p), e)
                   = nlink[e] + Has(i, e) + (IF e = d THEN Has(type[i], "dir") ELSE 0)
                     + Has(Pending(p)', e)
      <3>1. Has(None, e) = 0 /\ Has(type[i], "dir") = 0 /\ Has(i, e) \in Nat
        BY <1>3, HasIs
      <3>2. nlink[e] \in Nat
        BY <1>2 DEF Types
      <3> QED BY <1>5, <3>1, <3>2
    <2>2. Loc(p) # "erased" /\ owner[d] \in {None, p}
      BY <1>2, <1>3
    <2> QED BY <1>2, <1>3, <1>4, <1>9, <2>1, <2>2, EntryMade
  <1>11. d \in Uses(p) /\ i \in Uses(p)
    BY <1>2, NoneAssumption DEF Uses
  <1>12. Modest(p)
    BY <1>2, <1>3, <1>4, <1>7, <1>11 DEF Modest, Alone
  <1>13. Uses(p)' \subseteq Uses(p)
    BY <1>4, <1>11, <1>22 DEF Uses, At
  <1>14. \A e \in Inums : ref'[e] + Own(p, e) = ref[e] + Own(p, e)'
    <2>1. SUFFICES ASSUME NEW e \in Inums PROVE ref'[e] + Own(p, e) = ref[e] + Own(p, e)'
      OBVIOUS
    <2>2. Own(p, e)' = Own(p, e)
      BY <1>2, <1>4, <1>22, HasIs DEF Own
    <2> QED BY <2>2
  <1>15. CallInv(p)'
    <2>1. Len(call[p].puts)' = 2
      BY <1>4
    <2> QED BY <1>2, <1>4, <2>1
            DEF CallInv, Putting, At, HasCur, HasIp, HasPath, OpsAt, Ops
  <1>16. UseInv(p)'
    BY <1>2, <1>13 DEF UseInv, ProcInv
  <1>17. LockInv(p)' /\ KindInv(p)' /\ NewInv(p)' /\ OldInv(p)'
    BY <1>4 DEF LockInv, LockOf, KindInv, NewInv, OldInv, At
  <1>18. panicked' \in {"no", "iget", "ialloc"}
    BY AtParent
  <1>23. UpInv'
    <2>1. UpInv
      BY DEF Inv
    <2> QED BY <1>2, <1>3, <1>7, <2>1 DEF UpInv
  <1> QED BY <1>9, <1>10, <1>12, <1>13, <1>14, <1>15, <1>16, <1>17, <1>18, <1>23, DiskStep
          DEF ProcInv, Finds

LEMMA LinkNewStep ==
  ASSUME Inv, NEW p \in Procs, LinkNew(p), ~adrift'
  PROVE  Inv'
  <1>1. /\ At(p, "linknew") /\ Unlocked(Cur(p)) /\ Panic(Cur(p), Entry(p))
        /\ ~Drifts(p) /\ (Entry(p) = None => Head(call[p].path) \in Names)
        /\ UNCHANGED <<type, nlink, up, lost, fh, cwd, adrift>>
    BY DEF LinkNew, Inv
  <1>2. CASE /\ Entry(p) # None
             /\ ref' = Got(Entry(p)) /\ valid' = Validity(Entry(p), Cur(p))
             /\ owner' = [owner EXCEPT ![Cur(p)] = p]
             /\ call' = [call EXCEPT ![p] = [@ EXCEPT !.pc = "put", !.puts = <<Entry(p)>>,
                                                    !.cont = "release"]]
             /\ UNCHANGED <<ents, strayed>>
    BY <1>1, <1>2, LinkTakenStep DEF disk
  <1>3. CASE /\ Entry(p) = None
             /\ ents' = [ents EXCEPT ![Cur(p)][Head(call[p].path)] = Ip(p)]
             /\ strayed' = (strayed \/ nlink[Cur(p)] = 0)
             /\ call' = [call EXCEPT ![p] = [@ EXCEPT !.pc = "put", !.puts = <<Cur(p), Ip(p)>>,
                                                    !.cur = None, !.ip = None, !.cont = "user"]]
             /\ valid' = ReadIn(Cur(p))
             /\ UNCHANGED <<ref, owner>>
    BY <1>1, <1>3, LinkMadeStep
  <1> QED BY <1>2, <1>3 DEF LinkNew

\* unlink() erases the entry of i in the directory d.
LEMMA EntryErased ==
  ASSUME Inv, NEW p \in Procs, NEW d \in Inums, NEW h \in Names, NEW i \in Inums, i # d,
         Types', \A q \in Procs \ {p} : call'[q] = call[q],
         type[d] = "dir", type' = type, ents[d][h] = i, ents[i] = NoEnts,
         ents' = [ents EXCEPT ![d][h] = None], strayed' = strayed,
         \A e \in Inums : nlink'[e] + Has(i, e) + (IF e = d THEN Has(type[i], "dir") ELSE 0)
                             + Has(Pending(p), e)
            = nlink[e] + Has(Pending(p)', e)
  PROVE  DiskInv'
  <1>1. Types /\ DiskInv /\ i # None
    BY NoneAssumption DEF Inv
  <1>2. /\ \A e \in Inums, n \in Names : (e # d \/ n # h) => ents'[e][n] = ents[e][n]
        /\ ents'[d][h] = None
        /\ \A e \in Inums \ {d} : ents'[e] = ents[e]
    BY <1>1 DEF Types
  <1>3. KindAt(d, h) = type[i] /\ KindAt(d, h)' = "none"
    BY <1>1, <1>2 DEF KindAt
  <1>4. \A e : DotDot(d, h, e)' = 0 /\ DotDot(d, h, e) = (IF e = d THEN Has(type[i], "dir") ELSE 0)
    <2>1. Has("none", "dir") = 0
      BY DEF Has
    <2>2. Has(KindAt(d, h), "dir")' = Has("none", "dir")
      BY <1>3 DEF Has
    <2> QED BY <1>3, <2>1, <2>2 DEF DotDot
  <1>5. ASSUME NEW e \in Inums
        PROVE  nlink'[e] >= Links(e)' /\ (~strayed => nlink'[e] = Links(e)')
    <2>1. /\ Links(e) \in Nat /\ Links(e)' \in Nat
          /\ Links(e)' + (Has(ents[d][h], e) + DotDot(d, h, e) + Has(Pending(p), e))
               = Links(e) + (Has(ents'[d][h], e) + DotDot(d, h, e)' + Has(Pending(p)', e))
      BY <1>2, LinksChange
    <2> DEFINE a == Has(Pending(p), e)
               b == Has(i, e)
               u == IF e = d THEN Has(type[i], "dir") ELSE 0
               c == Has(Pending(p)', e)
               l == Links(e)
               l2 == Links(e)'
               m == nlink[e]
               m2 == nlink'[e]
    <2>3. a \in Nat /\ b \in Nat /\ u \in Nat /\ c \in Nat
      BY DEF Has
    <2>4. Has(ents[d][h], e) = b /\ DotDot(d, h, e) = u /\ Has(ents'[d][h], e) = 0 /\ DotDot(d, h, e)' = 0
      BY <1>2, <1>4, HasIs
    <2>5. m2 + b + u + a = m + c
      OBVIOUS
    <2>6. l2 + (b + u + a) = l + (0 + 0 + c) /\ l \in Nat /\ l2 \in Nat
      BY <2>1, <2>4
    <2>7. m \in Nat /\ m2 \in Nat /\ m >= l /\ (~strayed => m = l)
      BY <1>1 DEF DiskInv, Types
    <2> HIDE DEF a, b, u, c, l, l2, m, m2
    <2>8. m2 + (b + u + a) = m + c /\ l2 + (b + u + a) = l + c
      BY <2>3, <2>5, <2>6, <2>7
    <2> DEFINE w == b + u + a
    <2>10. w \in Nat /\ m2 + w = m + c /\ l2 + w = l + c
      BY <2>3, <2>8
    <2> HIDE DEF w
    <2>9. m2 >= l2 /\ (m = l => m2 = l2)
      BY <2>3, <2>6, <2>7, <2>10
    <2> QED BY <2>7, <2>9 DEF l2, m2
  <1>6. type'[Root] = "dir"
    BY <1>1 DEF DiskInv
  <1>7. \A e \in Inums : type'[e] # "dir" => ents'[e] = NoEnts
    BY <1>1, <1>2 DEF DiskInv
  <1>8. \A e \in Inums, n \in Names : ents'[e][n] # None => type'[ents'[e][n]] # "free"
    BY <1>1, <1>2 DEF DiskInv
  <1>9. ~strayed => \A e \in Inums : ents'[e] # NoEnts => (e = Root \/ Entries(e)' # {})
    <2>1. SUFFICES ASSUME ~strayed, NEW e \in Inums, ents'[e] # NoEnts
                   PROVE  e = Root \/ Entries(e)' # {}
      OBVIOUS
    <2>2. e # i
      BY <1>2, <2>1
    <2>3. ents[e] # NoEnts
      <3>1. ents[d] # NoEnts
        BY <1>1 DEF NoEnts
      <3> QED BY <1>2, <2>1, <3>1
    <2>4. Entries(e)' = Entries(e)
      <3>1. ASSUME NEW x \in Inums \X Names
            PROVE  ents'[x[1]][x[2]] = e <=> ents[x[1]][x[2]] = e
        <4>1. x[1] \in Inums /\ x[2] \in Names /\ e # None
          BY NoneAssumption
        <4> QED BY <1>2, <2>2, <4>1
      <3> QED BY <3>1 DEF Entries
    <2> QED BY <1>1, <2>1, <2>3, <2>4 DEF DiskInv
  <1> QED BY <1>5, <1>6, <1>7, <1>8, <1>9 DEF DiskInv, NoEnts

LEMMA EraseStep ==
  ASSUME Inv, NEW p \in Procs, Erase(p)
  PROVE  Inv'
  <1> DEFINE d == Cur(p)
             i == Ip(p)
             h == Head(call[p].path)
             isDir == type[i] = "dir"
             down == IF isDir THEN 1 ELSE 0
  <1>0. /\ "erase" \in Pcs \ {"put", "drop"} /\ "erase" \in HasCur /\ "erase" \in HasIp
        /\ "erase" \in HasPath /\ OpsAt("erase") = {"unlink"} /\ "erased" \in Conts
    BY DEF Pcs, Conts, HasCur, HasIp, HasPath, OpsAt
  <1>1. /\ At(p, "erase") /\ owner[i] = None /\ valid' = ReadIn(i)
        /\ UNCHANGED <<type, up, lost, ref, fh, cwd, strayed, adrift>>
    BY DEF Erase, Unlocked
  <1>2. /\ Types /\ CallType /\ RefsExact /\ ProcInv(p) /\ CallInv(p) /\ DiskInv
        /\ Loc(p) = "erase" /\ Put(p, 1) = None /\ Put(p, 2) = None
        /\ d \in Inums /\ i \in Inums /\ type[i] # "free"
        /\ call[p].op = "unlink" /\ panicked \in {"no", "iget", "ialloc"}
    BY <1>0, <1>1, Here DEF Inv
  <1>3. /\ type[d] = "dir" /\ owner[d] = p /\ ents[d][h] = i /\ i # d
        /\ h \in Names
    BY <1>1, <1>2, NoneAssumption, ProcsAssumption
       DEF ProcInv, KindInv, LockInv, LockOf, OldInv
  <1>4. valid' \in [Inums -> BOOLEAN]
    BY <1>1, <1>2, ValidityIs DEF Types
  <1>5. KindAt(d, h) = type[i]
    BY <1>2, <1>3, NoneAssumption DEF KindAt
  <1>6. \A e : DotDot(d, h, e) = IF e = d THEN down ELSE 0
    BY <1>5 DEF DotDot, Has
  <1>7. /\ nlink[i] >= 1 /\ nlink[d] >= down
    <2>1. ASSUME NEW e \in Inums
          PROVE  nlink[e] >= Has(i, e) + (IF e = d THEN down ELSE 0)
      <3>1. \A x \in Inums, n \in Names : (x # d \/ n # h) => ents'[x][n] = ents'[x][n]
        OBVIOUS
      <3>2. /\ Cardinality(Entries(e)) >= Has(i, e) /\ Cardinality(Subdirs(e)) >= DotDot(d, h, e)
        <4>1. Entries(e) \in SUBSET (Inums \X Names) /\ Subdirs(e) \in SUBSET Names
          BY DEF Entries, Subdirs
        <4>2. IsFiniteSet(Inums \X Names)
          BY FiniteAssumption, FS_Product
        <4>3. IsFiniteSet(Entries(e)) /\ IsFiniteSet(Subdirs(e))
          BY <4>1, <4>2, FiniteAssumption, FS_Subset
        <4>4. e = i => Entries(e) # {}
          <5>1. e = i => <<d, h>> \in Entries(e)
            BY <1>2, <1>3 DEF Entries
          <5> QED BY <5>1
        <4>5. e = d /\ isDir => Subdirs(e) # {}
          <5>1. e = d /\ isDir => h \in Subdirs(e)
            BY <1>2, <1>3, NoneAssumption DEF Subdirs
          <5> QED BY <5>1
        <4>6. /\ Cardinality(Entries(e)) \in Nat /\ Cardinality(Subdirs(e)) \in Nat
              /\ Entries(e) # {} => Cardinality(Entries(e)) # 0
              /\ Subdirs(e) # {} => Cardinality(Subdirs(e)) # 0
          BY <4>3, FS_CardinalityType, FS_EmptySet
        <4> QED BY <1>6, <4>4, <4>5, <4>6 DEF Has
      <3>3. /\ Links(e) = Cardinality(Entries(e)) + RootLink(e) + Cardinality(Subdirs(e)) + Pend(e)
            /\ Cardinality(Entries(e)) \in Nat /\ Cardinality(Subdirs(e)) \in Nat
            /\ Pend(e) \in Nat
        BY LinksAre
      <3>4. RootLink(e) \in Nat /\ Has(i, e) \in Nat /\ DotDot(d, h, e) \in Nat
        BY <1>6 DEF RootLink, Has
      <3>5. nlink[e] >= Links(e) /\ nlink[e] \in Nat
        BY <1>2 DEF DiskInv, Types
      <3>6. DotDot(d, h, e) = IF e = d THEN down ELSE 0
        BY <1>6
      <3> DEFINE u == IF e = d THEN down ELSE 0
      <3>7. u \in Nat /\ Cardinality(Subdirs(e)) >= u
        BY <3>2, <3>4, <3>6
      <3> HIDE DEF u
      <3>8. nlink[e] >= Has(i, e) + u
        BY <3>2, <3>3, <3>4, <3>5, <3>7
      <3> QED BY <3>8 DEF u
    <2>2. nlink[i] >= Has(i, i) /\ Has(i, i) = 1
      BY <1>2, <1>3, <2>1, HasIs
    <2>3. nlink[d] >= Has(i, d) + down /\ Has(i, d) = 0
      BY <1>2, <1>3, <2>1, HasIs
    <2> QED BY <2>2, <2>3
  <1>8. CASE /\ isDir /\ ents[i] # NoEnts /\ Panic(i, None) /\ PutIp(p, "release")
             /\ UNCHANGED <<nlink, ents, owner>>
    <2>1. panicked' \in {"no", "iget", "ialloc"}
      BY <1>2, <1>8, PanicIs
    <2>2. UNCHANGED <<disk, ref, fh, cwd, strayed, adrift>>
      BY <1>1, <1>8 DEF disk
    <2>3. /\ owner' \in [Inums -> Procs \cup {None}] /\ owner' = owner
          /\ \A e \in Inums : owner'[e] = owner[e] \/ owner[e] \in {None, p}
      BY <1>2, <1>8 DEF Types
    <2>4. "release" = "release" <=> "erase" = "erase"
      OBVIOUS
    <2> QED BY <1>1, <1>4, <1>8, <2>1, <2>2, <2>3, <2>4, GivesBackIp
  <1>9. CASE /\ nlink[i] >= 1 /\ (isDir => ents[i] = NoEnts) /\ Panic(i, None)
             /\ ents' = [ents EXCEPT ![d][h] = None]
             /\ nlink' = [nlink EXCEPT ![d] = IF isDir THEN @ - 1 ELSE @]
             /\ owner' = [owner EXCEPT ![d] = None, ![i] = p]
             /\ PutCur(p, "erased")
    <2>1. /\ CallType' /\ (\A q \in Procs \ {p} : call'[q] = call[q])
          /\ SameCall(p) /\ call[p].pc' = "put" /\ call[p].cont' = "erased"
          /\ Loc(p)' = "erased" /\ Cur(p)' = None /\ Ip(p)' = i
          /\ call[p].puts' = <<d>> /\ Put(p, 1)' = d /\ Put(p, 2)' = None
      BY <1>0, <1>2, <1>9, PutCurIs
    <2>2. Pending(p) = None /\ Pending(p)' = i
      BY <1>2, <2>1 DEF Pending, SameCall
    <2>3. /\ nlink' \in [Inums -> Nat] /\ nlink'[d] + down = nlink[d]
          /\ \A e \in Inums \ {d} : nlink'[e] = nlink[e]
      <3>1. nlink[d] \in Nat
        BY <1>2 DEF Types
      <3>2. (IF isDir THEN nlink[d] - 1 ELSE nlink[d]) = nlink[d] - down
            /\ nlink[d] - down \in Nat /\ nlink[d] - down + down = nlink[d]
        BY <1>7, <3>1
      <3>3. nlink' = [nlink EXCEPT ![d] = nlink[d] - down]
        BY <1>2, <1>9, <3>2
      <3> HIDE DEF down
      <3> QED BY <1>2, <3>2, <3>3 DEF Types
    <2>4. /\ ents' \in [Inums -> [Names -> Inums \cup {None}]]
          /\ ents'[d][h] = None
          /\ \A e \in Inums : ents'[e] = ents[e] \/ e = d
          /\ \A e \in Inums, n \in Names : ents'[e][n] = ents[e][n] \/ ents'[e][n] = None
          /\ \A e \in Inums, n \in Names : (e # d \/ n # h) => ents'[e][n] = ents[e][n]
      BY <1>2, <1>3, <1>9 DEF Types
    <2>5. /\ owner' \in [Inums -> Procs \cup {None}] /\ owner'[i] = p
          /\ \A e \in Inums : owner'[e] = owner[e] \/ owner[e] \in {None, p}
      BY <1>1, <1>2, <1>3, <1>9 DEF Types
    <2>6. Types'
      BY <1>1, <1>2, <1>4, <2>1, <2>3, <2>4, <2>5 DEF Types
    <2>10. ents'[i] = NoEnts
      BY <1>2, <1>3, <1>9, <2>4 DEF DiskInv
    <2>7. ents[i] = NoEnts
      BY <1>2, <1>9 DEF DiskInv
    <2>11. DiskInv'
      <3>1. ASSUME NEW e \in Inums
            PROVE  nlink'[e] + Has(i, e) + (IF e = d THEN Has(type[i], "dir") ELSE 0)
                     + Has(Pending(p), e)
                   = nlink[e] + Has(Pending(p)', e)
        <4>1. Has(None, e) = 0 /\ Has(type[i], "dir") = down /\ Has(i, e) \in Nat /\ down \in Nat
          BY HasIs
        <4>2. nlink[e] \in Nat /\ nlink'[e] \in Nat
          BY <1>2, <2>3 DEF Types
        <4> HIDE DEF down
        <4>3. nlink'[e] + (IF e = d THEN down ELSE 0) = nlink[e]
          BY <2>3, <4>1, <4>2
        <4> QED BY <2>2, <4>1, <4>2, <4>3
      <3> QED BY <1>1, <1>2, <1>3, <1>9, <2>1, <2>6, <2>7, <3>1, EntryErased
    <2>12. d \in Uses(p) /\ i \in Uses(p)
      BY <1>2, NoneAssumption DEF Uses
    <2>13. Modest(p)
      BY <1>1, <1>2, <1>3, <2>1, <2>3, <2>4, <2>5, <2>12 DEF Modest, Alone
    <2>14. Uses(p)' \subseteq Uses(p)
      BY <1>1, <2>1, <2>12 DEF Uses, At
    <2>15. \A e \in Inums : ref'[e] + Own(p, e) = ref[e] + Own(p, e)'
      <3>1. SUFFICES ASSUME NEW e \in Inums PROVE ref'[e] + Own(p, e) = ref[e] + Own(p, e)'
        OBVIOUS
      <3>2. Own(p, e)' = Own(p, e)
        BY <1>1, <1>2, <2>1, HasIs DEF Own
      <3> QED BY <1>1, <3>2
    <2>16. CallInv(p)'
      <3>1. Len(call[p].puts)' = 1
        BY <2>1
      <3> QED BY <1>1, <1>2, <2>1, <3>1, NoneAssumption
              DEF CallInv, Putting, At, HasCur, HasIp, HasPath, OpsAt, SameCall
    <2>17. UseInv(p)'
      BY <1>1, <1>2, <2>14 DEF UseInv, ProcInv
    <2>18. LockInv(p)' /\ KindInv(p)' /\ NewInv(p)' /\ OldInv(p)'
      BY <1>2, <2>1, <2>5, <2>10
         DEF LockInv, LockOf, KindInv, NewInv, OldInv, At, SameCall, NoEnts
    <2>19. panicked' \in {"no", "iget", "ialloc"}
      BY <1>2, <1>9, PanicIs
    <2>20. UpInv'
      <3>1. UpInv
        BY DEF Inv
      <3> QED BY <1>1, <2>4, <3>1 DEF UpInv
    <2> QED BY <1>1, <2>6, <2>11, <2>13, <2>14, <2>15, <2>16, <2>17, <2>18, <2>19, <2>20, DiskStep
            DEF ProcInv, Finds
  <1>10. nlink[i] \in Nat
    BY <1>2 DEF Types
  <1> QED BY <1>7, <1>8, <1>9, <1>10 DEF Erase

-----------------------------------------------------------------------------
(* The invariant holds *)

LEMMA InvInit == Init => Inv
  <1> SUFFICES ASSUME Init PROVE Inv
    OBVIOUS
  <1>1. \A p \in Procs : /\ call[p] = Idle /\ fh[p] = None /\ cwd[p] = Root /\ Cur(p) = None /\ Ip(p) = None
                         /\ call[p].pc = "user" /\ call[p].op = "none" /\ call[p].puts = <<>>
    BY IdleIs DEF Init, Cur, Ip
  <1>2. \A p \in Procs : Put(p, 1) = None /\ Put(p, 2) = None /\ Loc(p) = "user" /\ ~Putting(p)
    BY <1>1 DEF Put, Loc, Putting, At
  <1>3. Types
    <2>1. Cardinality(Procs) \in Nat
      BY FiniteAssumption, FS_CardinalityType
    <2> QED BY <2>1, IdleIs, RootAssumption DEF Init, Types, CallType, NoEnts
  <1>4. RefsExact
    <2>1. SUFFICES ASSUME NEW i \in Inums PROVE ref[i] = Refs(i)
      BY DEF RefsExact
    <2>2. /\ {p \in Procs : fh[p] = i} = {} /\ {p \in Procs : Cur(p) = i} = {}
          /\ {p \in Procs : Ip(p) = i} = {} /\ {p \in Procs : Put(p, 1) = i} = {}
          /\ {p \in Procs : Put(p, 2) = i} = {}
          /\ {p \in Procs : cwd[p] = i} = IF i = Root THEN Procs ELSE {}
      BY <1>1, <1>2, NoneAssumption
    <2>3. Cardinality({}) = 0 /\ Cardinality(Procs) \in Nat
      BY FiniteAssumption, FS_EmptySet, FS_CardinalityType
    <2>4. Refs(i) = IF i = Root THEN Cardinality(Procs) ELSE 0
      BY <2>2, <2>3 DEF Refs
    <2> QED BY <2>4 DEF Init
  <1>5. DiskInv
    <2>1. \A d \in Inums, n \in Names : ents[d][n] = None
      BY DEF Init, NoEnts
    <2>2. \A i \in Inums : ents[i] = NoEnts
      BY DEF Init
    <2>3. ASSUME NEW i \in Inums PROVE nlink[i] = Links(i)
      <3>1. Entries(i) = {} /\ Subdirs(i) = {} /\ {p \in Procs : Pending(p) = i} = {}
        BY <1>1, <1>2, <2>1, NoneAssumption DEF Entries, Subdirs, Pending
      <3>2. nlink[i] = IF i = Root THEN 1 ELSE 0
        BY DEF Init
      <3>3. Links(i) = 0 + (IF i = Root THEN 1 ELSE 0) + 0 + 0
        BY <3>1, FS_EmptySet DEF Links
      <3> QED BY <3>2, <3>3
    <2>4. \A i \in Inums : nlink[i] >= Links(i)
      BY <1>3, <2>3 DEF Types
    <2>5. type[Root] = "dir"
      BY RootAssumption DEF Init
    <2> QED BY <2>1, <2>2, <2>3, <2>4, <2>5 DEF DiskInv
  <1>6. ASSUME NEW p \in Procs PROVE ProcInv(p)
    <2>1. CallInv(p)
      BY <1>1, <1>2 DEF CallInv, At, HasCur, HasIp, HasPath, OpsAt, Ops
    <2>2. UseInv(p)
      <3>1. Uses(p) \subseteq {Root}
        BY <1>1, <1>2 DEF Uses
      <3> QED BY <1>5, <3>1 DEF UseInv, DiskInv
    <2>3. LockInv(p) /\ KindInv(p) /\ NewInv(p) /\ OldInv(p)
      BY <1>1, <1>2 DEF LockInv, LockOf, KindInv, NewInv, OldInv, At
    <2> QED BY <2>1, <2>2, <2>3 DEF ProcInv
  <1>7. panicked \in {"no", "iget", "ialloc"}
    BY DEF Init
  <1>8. UpInv
    <2>1. /\ \A d \in Inums, n \in Names : ents[d][n] = None
          /\ \A d \in Inums : up[d] # None => up[d] = Root
          /\ type[Root] = "dir"
      BY RootAssumption DEF Init, NoEnts
    <2> QED BY <2>1 DEF UpInv
  <1>9. adrift = FALSE
    BY DEF Init
  <1> QED BY <1>3, <1>4, <1>5, <1>6, <1>7, <1>8, <1>9 DEF Inv

\* Until a path has gone through the ".." of a lost directory.
Safe == adrift = TRUE \/ Inv

LEMMA InvStep == Inv /\ [Next]_vars => Safe'
  <1> SUFFICES ASSUME Inv, [Next]_vars, adrift' # TRUE PROVE Inv'
    BY DEF Safe
  <1>1. CASE UNCHANGED vars
    <2>1. panicked' \in {"no", "iget", "ialloc"}
      BY <1>1 DEF vars, Inv
    <2> QED BY <1>1, <2>1, PanicStep DEF vars
  <1>2. ASSUME NEW p \in Procs, KernelStep(p) PROVE Inv'
    <2>1. CASE PutCheck(p) \/ PutDrop(p) \/ NoElement(p)
      BY <2>1, PutCheckStep, PutDropStep, NoElementStep
    <2>2. CASE Walk(p) \/ Create(p) \/ LinkNew(p)
      <3>1. ~adrift'
        BY <2>2 DEF Walk, Create, LinkNew, Inv
      <3> QED BY <2>2, <3>1, WalkStep, CreateStep, LinkNewStep
    <2>3. CASE Open(p) \/ Exists(p) \/ Make(p) \/ Made(p)
      BY <2>3, OpenStep, ExistsStep, MakeStep, MadeStep
    <2>4. CASE Link(p) \/ LinkBad(p) \/ Chdir(p)
      BY <2>4, LinkStep, LinkBadStep, ChdirStep
    <2>5. CASE Unlink(p) \/ Erase(p) \/ Erased(p) \/ Release(p)
      BY <2>5, UnlinkStep, EraseStep, ErasedStep, ReleaseStep
    <2> QED BY <1>2, <2>1, <2>2, <2>3, <2>4, <2>5 DEF KernelStep
  <1>3. ASSUME NEW p \in Procs, NEW r \in Requests, Begin(p, r) PROVE Inv'
    BY <1>3, BeginStep
  <1>4. ASSUME NEW p \in Procs, Close(p) PROVE Inv'
    BY <1>4, CloseStep
  <1> QED BY <1>1, <1>2, <1>3, <1>4 DEF Next

LEMMA AdriftStays == adrift = TRUE /\ [Next]_vars => adrift' = TRUE
  <1> SUFFICES ASSUME adrift = TRUE, [Next]_vars PROVE adrift' = TRUE
    OBVIOUS
  <1>1. CASE UNCHANGED vars
    BY <1>1 DEF vars
  <1>2. ASSUME NEW p \in Procs, KernelStep(p) PROVE adrift' = TRUE
    <2>1. CASE PutCheck(p) \/ PutDrop(p) \/ NoElement(p)
      BY <2>1 DEF PutCheck, PutDrop, NoElement
    <2>2. CASE Walk(p) \/ Create(p) \/ LinkNew(p)
      BY <2>2 DEF Walk, Create, LinkNew
    <2>3. CASE Open(p) \/ Exists(p) \/ Make(p) \/ Made(p)
      BY <2>3 DEF Open, Exists, Make, Made
    <2>4. CASE Link(p) \/ LinkBad(p) \/ Chdir(p)
      BY <2>4 DEF Link, LinkBad, Chdir
    <2>5. CASE Unlink(p) \/ Erase(p) \/ Erased(p) \/ Release(p)
      BY <2>5 DEF Unlink, Erase, Erased, Release
    <2> QED BY <1>2, <2>1, <2>2, <2>3, <2>4, <2>5 DEF KernelStep
  <1>3. ASSUME NEW p \in Procs, NEW r \in Requests, Begin(p, r) PROVE adrift' = TRUE
    BY <1>3 DEF Begin
  <1>4. ASSUME NEW p \in Procs, Close(p) PROVE adrift' = TRUE
    BY <1>4 DEF Close
  <1> QED BY <1>1, <1>2, <1>3, <1>4 DEF Next

LEMMA Invariance == Spec => []Safe
  <1>1. Init => Safe
    BY InvInit DEF Safe
  <1>2. Safe /\ [Next]_vars => Safe'
    BY InvStep, AdriftStays DEF Safe
  <1> QED BY <1>1, <1>2, PTL DEF Spec

\* The references in the cache are those that the processes hold (iget, iput, and every
\* path through namex, create, link, unlink, open and chdir), for any number of
\* processes, until a path goes through a ".." that leads to a freed inode.
THEOREM ReferencesAreExact == Spec => [](~adrift => RefsExact)
  <1>1. Safe => (~adrift => RefsExact)
    BY DEF Safe, Inv
  <1> QED BY <1>1, Invariance, PTL

\* Link counts on disk are those of the directories whenever no call is under way, as
\* long as no entry was made in a removed directory and no path has gone adrift.
THEOREM LinkCountsAreExact == Spec => []LinksExact
  <1>1. Safe => LinksExact
    <2>1. SUFFICES ASSUME Inv, Quiet, ~strayed, NEW i \in Inums
                   PROVE  nlink[i] = Cardinality(Entries(i)) + (IF i = Root THEN 1 ELSE 0)
                                     + Cardinality(Subdirs(i))
      BY DEF LinksExact, Safe
    <2>2. \A q \in Procs : Pending(q) = None
      BY <2>1, IdleIs DEF Quiet, Pending, Loc, Putting, At
    <2>3. Pend(i) = 0
      BY <2>2, LinksAre, NoneAssumption
    <2>4. nlink[i] = Links(i)
      BY <2>1 DEF Inv, DiskInv
    <2>5. Links(i) = Cardinality(Entries(i)) + RootLink(i) + Cardinality(Subdirs(i)) + Pend(i)
          /\ Cardinality(Entries(i)) \in Nat /\ Cardinality(Subdirs(i)) \in Nat
      BY LinksAre
    <2>6. RootLink(i) = (IF i = Root THEN 1 ELSE 0) /\ RootLink(i) \in Nat
      BY DEF RootLink
    <2> QED BY <2>3, <2>4, <2>5, <2>6
  <1> QED BY <1>1, Invariance, PTL

\* Whatever calls change names and working directories at the same time, iput() frees an
\* inode under nobody, and the ".." of a directory with a name leads to where the name
\* is; the one way out is a path through the ".." of a removed directory whose parent was
\* freed after it, which a process that works there can take.
THEOREM NoInodeDangles == Spec => []NothingDangles
  <1>1. Safe => NothingDangles
    <2>1. SUFFICES ASSUME Inv PROVE NothingDangles
      BY DEF Safe, NothingDangles
    <2>2. \A d \in Inums, n \in Names : ents[d][n] # None =>
            /\ type[ents[d][n]] # "free"
            /\ type[ents[d][n]] = "dir" => up[ents[d][n]] = d /\ ents[d][n] \notin lost
      BY <2>1 DEF Inv, DiskInv, UpInv
    <2>3. ASSUME NEW p \in Procs, NEW i \in {fh[p], cwd[p], Cur(p), Ip(p)} \ {None}
          PROVE  type[i] # "free"
      <3>1. i \in Uses(p)
        BY DEF Uses
      <3> QED BY <2>1, <3>1 DEF Inv, ProcInv, UseInv
    <2> QED BY <2>2, <2>3 DEF NothingDangles
  <1> QED BY <1>1, Invariance, PTL

\* ilock() finds an inode without a type, and unlink() one without links, only once a
\* path has gone through the ".." of a directory whose parent was freed.
THEOREM FilesAreConsistent == Spec => []NoInconsistency
  <1>1. Safe => NoInconsistency
    BY DEF Safe, Inv, NoInconsistency
  <1> QED BY <1>1, Invariance, PTL

=============================================================================
