------------------------ MODULE AddressSpacesProofs ------------------------
(***************************************************************************)
(* Proofs about AddressSpaces, for every set of processes, every layout of *)
(* the address space and every number of physical pages.                   *)
(***************************************************************************)
EXTENDS AddressSpaces, FiniteSetTheorems, WellFoundedInduction, TLAPS

\* What the assumptions say, one number at a time.
LEMMA Layout ==
  /\ USERBASE \in Nat /\ MMAPBASE \in Nat /\ KERNBASE \in Nat /\ ADDRESSES \in Nat
  /\ NFRAMES \in Nat /\ MaxLen \in Nat /\ ImageSize \in Nat
  /\ 0 < USERBASE /\ USERBASE + ImageSize <= MMAPBASE /\ MMAPBASE < KERNBASE
  /\ KERNBASE < ADDRESSES /\ KERNBASE + MaxLen <= ADDRESSES /\ 0 < ImageSize
  /\ 0 < NFRAMES
  BY LayoutAssumption

-----------------------------------------------------------------------------
(* Least and greatest elements *)

LEMMA MinOfNaturals ==
  ASSUME NEW S \in SUBSET Nat, S # {}
  PROVE  Min(S) \in S /\ \A m \in S : Min(S) <= m
  <1>1. IsWellFoundedOn({ss \in Nat \X Nat : ss[1] < ss[2]}, Nat)
    BY NatLessThanWellFounded, Zenon DEF OpToRel
  <1>2. PICK n \in S : \A m \in S : ~(<<m, n>> \in {ss \in Nat \X Nat : ss[1] < ss[2]})
    BY <1>1, WFMin
  <1>3. ASSUME NEW m \in S PROVE n <= m
    <2>1. ~(m < n)
      <3> SUFFICES ASSUME m < n PROVE FALSE
        OBVIOUS
      <3>1. <<m, n>> \in Nat \X Nat /\ <<m, n>>[1] < <<m, n>>[2]
        OBVIOUS
      <3>2. <<m, n>> \in {ss \in Nat \X Nat : ss[1] < ss[2]}
        BY <3>1
      <3> QED BY <1>2, <3>2
    <2> QED BY <2>1
  <1> QED BY <1>3 DEF Min

\* The least element is the only one that is below all others.
LEMMA MinIs ==
  ASSUME NEW S \in SUBSET Nat, NEW n \in S, \A m \in S : n <= m
  PROVE  Min(S) = n
  <1>1. Min(S) \in S /\ Min(S) <= n
    BY MinOfNaturals
  <1>2. Min(S) \in Nat /\ n \in Nat /\ n <= Min(S)
    BY <1>1
  <1> QED BY <1>1, <1>2

LEMMA MaxOfBoundedNaturals ==
  ASSUME NEW b \in Nat, NEW S \in SUBSET (0 .. b), S # {}
  PROVE  \E n \in S : \A m \in S : m <= n
  <1> DEFINE T == {b - m : m \in S}
  <1>1. T \in SUBSET Nat /\ T # {}
    <2>1. \A m \in S : b - m \in Nat
      OBVIOUS
    <2> QED BY <2>1
  <1>2. PICK n \in S : Min(T) = b - n
    BY <1>1, MinOfNaturals
  <1>3. ASSUME NEW m \in S PROVE m <= n
    <2>1. b - n <= b - m
      BY <1>1, <1>2, MinOfNaturals
    <2> QED BY <2>1
  <1> QED BY <1>3

LEMMA MaxOfTwo ==
  ASSUME NEW a \in Int, NEW b \in Int
  PROVE  Max({a, b}) = IF a >= b THEN a ELSE b
  BY DEF Max

-----------------------------------------------------------------------------
(* The search of mmap() *)

LEMMA RangeEndIs ==
  ASSUME NEW start \in 0 .. ADDRESSES - 1, NEW len \in Lengths
  PROVE  RangeEnd(start, len) = IF start + len < ADDRESSES THEN start + len
                                                           ELSE start + len - ADDRESSES
  BY Layout DEF RangeEnd, Lengths

\* Where the search could stop from s on: the starts of ranges that are free and end
\* below KERNBASE.
Room(pg, len, s) ==
  {t \in s .. KERNBASE - 1 : /\ t + len < KERNBASE
                             /\ t .. t + len - 1 \cap MappedIn(pg) = {}}

\* What it finds from s on.
Found(pg, len) ==
  [s \in 0 .. ADDRESSES - 1 |->
     IF s + len >= ADDRESSES
     THEN IF s + len - ADDRESSES >= KERNBASE THEN None ELSE s
     ELSE IF Room(pg, len, s) = {} THEN None ELSE Min(Room(pg, len, s))]

\* The pages in the way of a range that starts at s.
Taken(pg, len, s) == {a \in MappedIn(pg) : s <= a /\ a < RangeEnd(s, len)}

\* One step of the search: past the first page in the way.
Searched(pg, len, f) ==
  [s \in 0 .. ADDRESSES - 1 |->
     IF RangeEnd(s, len) >= KERNBASE THEN None
     ELSE IF Taken(pg, len, s) = {} THEN s
     ELSE f[Min(Taken(pg, len, s)) + 1]]

LEMMA SearchIs ==
  ASSUME NEW pg, NEW hint, NEW len
  PROVE  FindRange(pg, hint, len)
           = (CHOOSE f : f = Searched(pg, len, f))[Max({hint, MMAPBASE})]
  BY DEF FindRange, Searched, Taken

\* A page in the way is above the start, and the search goes on below KERNBASE.
LEMMA TakenIs ==
  ASSUME NEW pg \in [Pages -> Protections], NEW len \in Lengths,
         NEW s \in 0 .. ADDRESSES - 1, Taken(pg, len, s) # {}, RangeEnd(s, len) < KERNBASE
  PROVE  LET m == Min(Taken(pg, len, s))
         IN  /\ m \in MappedIn(pg) /\ m \in Nat
             /\ s <= m /\ m < s + len /\ m + 1 < KERNBASE /\ s + len < ADDRESSES
             /\ \A a \in MappedIn(pg) : s <= a /\ a < m => FALSE
  <1>1. Taken(pg, len, s) \in SUBSET Nat
    BY Layout DEF Taken, MappedIn, Pages
  <1>2. PICK m \in Taken(pg, len, s) :
          m = Min(Taken(pg, len, s)) /\ \A a \in Taken(pg, len, s) : m <= a
    BY <1>1, MinOfNaturals
  <1>3. m \in MappedIn(pg) /\ m \in Nat /\ s <= m /\ m < RangeEnd(s, len)
    BY <1>1, <1>2 DEF Taken
  <1>4. s + len < ADDRESSES
    BY <1>3, RangeEndIs, Layout DEF Lengths
  <1>5. RangeEnd(s, len) = s + len
    BY <1>4, RangeEndIs
  <1>6. ASSUME NEW a \in MappedIn(pg), s <= a, a < m PROVE FALSE
    <2>1. a \in Nat
      BY Layout DEF MappedIn, Pages
    <2>2. a \in Taken(pg, len, s)
      BY <1>3, <1>5, <1>6, <2>1, Layout DEF Taken, Lengths
    <2> QED BY <1>2, <1>3, <1>6, <2>1, <2>2
  <1>7. m + 1 < KERNBASE
    BY <1>3, <1>5, Layout DEF Lengths
  <1> QED BY <1>2, <1>3, <1>4, <1>5, <1>6, <1>7

\* No range that is free starts at or before a page in the way.
LEMMA RoomBeyond ==
  ASSUME NEW pg \in [Pages -> Protections], NEW len \in Lengths,
         NEW s \in 0 .. ADDRESSES - 1, Taken(pg, len, s) # {}, RangeEnd(s, len) < KERNBASE
  PROVE  Room(pg, len, s) = Room(pg, len, Min(Taken(pg, len, s)) + 1)
  <1> DEFINE m == Min(Taken(pg, len, s))
  <1>1. m \in MappedIn(pg) /\ m \in Nat /\ s <= m /\ m < s + len
    BY TakenIs
  <1>2. ASSUME NEW t \in Room(pg, len, s) PROVE t \in Room(pg, len, m + 1)
    <2>1. t \in Nat /\ s <= t /\ t < KERNBASE
      BY <1>2, Layout DEF Room
    <2>2. ~(t <= m)
      <3> SUFFICES ASSUME t <= m PROVE FALSE
        OBVIOUS
      <3>1. m \in t .. t + len - 1
        BY <1>1, <2>1, Layout DEF Lengths
      <3> QED BY <1>1, <1>2, <3>1 DEF Room
    <2>3. t \in m + 1 .. KERNBASE - 1
      BY <1>1, <2>1, <2>2, Layout
    <2> HIDE DEF m
    <2> QED BY <1>2, <2>3 DEF Room
  <1>3. Room(pg, len, m + 1) \subseteq Room(pg, len, s)
    <2>1. m + 1 .. KERNBASE - 1 \subseteq s .. KERNBASE - 1
      BY <1>1, Layout
    <2> HIDE DEF m
    <2> QED BY <2>1 DEF Room
  <1> QED BY <1>2, <1>3

\* So what Found says of a start is what one step of the search makes of what Found
\* says of the next one.
LEMMA FoundIsSearched ==
  ASSUME NEW pg \in [Pages -> Protections], NEW len \in Lengths
  PROVE  Found(pg, len) = Searched(pg, len, Found(pg, len))
  <1> DEFINE F == Found(pg, len)
  <1> SUFFICES ASSUME NEW s \in 0 .. ADDRESSES - 1
               PROVE  F[s] = IF RangeEnd(s, len) >= KERNBASE THEN None
                             ELSE IF Taken(pg, len, s) = {} THEN s
                             ELSE F[Min(Taken(pg, len, s)) + 1]
    BY Zenon DEF Searched, Found
  <1>0. len \in Nat /\ len > 0 /\ len <= MaxLen
    BY Layout DEF Lengths
  <1>1. CASE s + len >= ADDRESSES
    <2>1. RangeEnd(s, len) = s + len - ADDRESSES
      BY <1>0, <1>1, RangeEndIs, Layout
    <2>2. Taken(pg, len, s) = {}
      BY <1>0, <1>1, <2>1, Layout DEF Taken, MappedIn, Pages
    <2> QED BY <1>1, <2>1, <2>2 DEF Found
  <1>2. CASE s + len < ADDRESSES /\ s + len >= KERNBASE
    <2>1. RangeEnd(s, len) = s + len
      BY <1>0, <1>2, RangeEndIs, Layout
    <2>2. Room(pg, len, s) = {}
      BY <1>0, <1>2, Layout DEF Room
    <2> QED BY <1>0, <1>2, <2>1, <2>2, Layout DEF Found
  <1>3. CASE s + len < KERNBASE
    <2>1. RangeEnd(s, len) = s + len /\ s + len < ADDRESSES
      BY <1>0, <1>3, RangeEndIs, Layout
    <2>2. F[s] = IF Room(pg, len, s) = {} THEN None ELSE Min(Room(pg, len, s))
      BY <1>0, <2>1, Layout DEF Found
    <2>3. CASE Taken(pg, len, s) = {}
      <3>1. s .. s + len - 1 \cap MappedIn(pg) = {}
        BY <1>0, <2>1, <2>3 DEF Taken, MappedIn, Pages
      <3>2. s \in Room(pg, len, s)
        BY <1>0, <1>3, <3>1, Layout DEF Room
      <3>3. Room(pg, len, s) \in SUBSET Nat /\ \A t \in Room(pg, len, s) : s <= t
        BY <1>0, Layout DEF Room
      <3>4. Min(Room(pg, len, s)) = s
        BY <3>2, <3>3, MinIs
      <3> QED BY <1>3, <2>1, <2>2, <2>3, <3>2, <3>4, Layout, <1>0
    <2>4. CASE Taken(pg, len, s) # {}
      <3> DEFINE m == Min(Taken(pg, len, s))
      <3>1. RangeEnd(s, len) < KERNBASE
        BY <1>3, <2>1
      <3>2. m \in Nat /\ m + 1 < KERNBASE
        BY <2>4, <3>1, TakenIs
      <3>3. m + 1 \in 0 .. ADDRESSES - 1 /\ ~(m + 1 + len >= ADDRESSES)
        BY <1>0, <3>2, Layout
      <3>4. Room(pg, len, s) = Room(pg, len, m + 1)
        BY <2>4, <3>1, RoomBeyond
      <3>5. F[m + 1] = IF Room(pg, len, m + 1) = {} THEN None ELSE Min(Room(pg, len, m + 1))
        <4> HIDE DEF m
        <4> QED BY <3>3 DEF Found
      <3> HIDE DEF F
      <3> QED BY <1>0, <1>3, <2>1, <2>2, <2>4, <3>1, <3>4, <3>5, Layout
    <2> QED BY <2>3, <2>4
  <1> QED BY <1>0, <1>1, <1>2, <1>3, Layout

\* The search is a function: two that satisfy its equation are equal, for they could
\* only differ at a start beyond the last one at which they differ.
LEMMA SearchIsUnique ==
  ASSUME NEW pg \in [Pages -> Protections], NEW len \in Lengths,
         NEW f, f = Searched(pg, len, f), NEW g, g = Searched(pg, len, g)
  PROVE  f = g
  <1> DEFINE D == {s \in 0 .. ADDRESSES - 1 : f[s] # g[s]}
  <1>1. SUFFICES ASSUME D # {} PROVE FALSE
    BY Zenon DEF Searched
  <1>2. PICK s \in D : \A t \in D : t <= s
    <2>1. ADDRESSES - 1 \in Nat /\ D \in SUBSET (0 .. ADDRESSES - 1)
      BY Layout
    <2> HIDE DEF D
    <2> QED BY <1>1, <2>1, MaxOfBoundedNaturals
  <1> DEFINE m == Min(Taken(pg, len, s))
  <1>3. /\ f[s] = IF RangeEnd(s, len) >= KERNBASE THEN None
                  ELSE IF Taken(pg, len, s) = {} THEN s ELSE f[m + 1]
        /\ g[s] = IF RangeEnd(s, len) >= KERNBASE THEN None
                  ELSE IF Taken(pg, len, s) = {} THEN s ELSE g[m + 1]
    BY Zenon DEF Searched
  <1>4. Taken(pg, len, s) # {} /\ ~(RangeEnd(s, len) >= KERNBASE) /\ f[m + 1] # g[m + 1]
    BY <1>3
  <1>5. RangeEnd(s, len) < KERNBASE
    BY <1>4, RangeEndIs, Layout DEF Lengths
  <1>6. m \in Nat /\ s <= m /\ m + 1 < KERNBASE
    BY <1>4, <1>5, TakenIs
  <1>7. m + 1 \in D
    BY <1>4, <1>6, Layout
  <1> QED BY <1>2, <1>6, <1>7, Layout

LEMMA FindRangeIs ==
  ASSUME NEW pg \in [Pages -> Protections], NEW len \in Lengths, NEW hint \in Hints
  PROVE  FindRange(pg, hint, len) = Found(pg, len)[Max({hint, MMAPBASE})]
  <1> DEFINE g == CHOOSE f : f = Searched(pg, len, f)
  <1>1. g = Searched(pg, len, g)
    BY FoundIsSearched, Zenon
  <1>2. g = Found(pg, len)
    <2> HIDE DEF g
    <2> QED BY <1>1, FoundIsSearched, SearchIsUnique
  <1> QED BY <1>2, SearchIs

\* The range that mmap() gets is free and below KERNBASE, unless it wraps round the
\* end of the addresses: then it is empty, but ends below KERNBASE too.
LEMMA RangeIsFree ==
  ASSUME NEW pg \in [Pages -> Protections], NEW len \in Lengths, NEW hint \in Hints,
         FindRange(pg, hint, len) # None
  PROVE  LET start == FindRange(pg, hint, len)
             end == RangeEnd(start, len)
         IN  /\ start \in MMAPBASE .. ADDRESSES - 1 /\ end \in Nat /\ end < KERNBASE
             /\ \A a \in MappedIn(pg) : ~(start <= a /\ a < end)
  <1> DEFINE s == Max({hint, MMAPBASE})
             start == FindRange(pg, hint, len)
  <1>0. len \in Nat /\ len > 0 /\ len <= MaxLen
    BY Layout DEF Lengths
  <1>1. s \in 0 .. ADDRESSES - 1 /\ s >= MMAPBASE
    BY MaxOfTwo, Layout DEF Hints
  <1>2. start = Found(pg, len)[s] /\ start # None
    BY FindRangeIs
  <1> HIDE DEF s, start
  <1>3. CASE s + len >= ADDRESSES
    <2>1. start = s /\ s + len - ADDRESSES < KERNBASE
      BY <1>0, <1>1, <1>2, <1>3, Layout DEF Found
    <2>2. RangeEnd(start, len) = s + len - ADDRESSES
      BY <1>0, <1>1, <1>3, <2>1, RangeEndIs, Layout
    <2>3. \A a \in MappedIn(pg) : ~(start <= a /\ a < s + len - ADDRESSES)
      BY <1>0, <1>1, <2>1, Layout DEF MappedIn, Pages
    <2> QED BY <1>0, <1>1, <1>3, <2>1, <2>2, <2>3, Layout DEF start
  <1>4. CASE s + len < ADDRESSES
    <2>1. Room(pg, len, s) # {} /\ start = Min(Room(pg, len, s))
      BY <1>0, <1>1, <1>2, <1>4, Layout DEF Found
    <2>2. Room(pg, len, s) \in SUBSET Nat
      BY <1>1, Layout DEF Room
    <2>3. start \in Room(pg, len, s)
      BY <2>1, <2>2, MinOfNaturals
    <2>4. /\ start \in Nat /\ start + len < KERNBASE /\ start >= s
          /\ start .. start + len - 1 \cap MappedIn(pg) = {}
      BY <1>1, <2>2, <2>3, Layout DEF Room
    <2>5. start \in MMAPBASE .. ADDRESSES - 1 /\ RangeEnd(start, len) = start + len
      BY <1>0, <1>1, <2>4, RangeEndIs, Layout
    <2>6. \A a \in MappedIn(pg) : ~(start <= a /\ a < start + len)
      BY <1>0, <2>4 DEF MappedIn, Pages
    <2> QED BY <1>0, <2>4, <2>5, <2>6 DEF start
  <1> QED BY <1>0, <1>1, <1>3, <1>4, Layout

\* The search is right in every state, for every page table of the right type.
LEMMA SearchIsRight == TypeOK => FirstFit
  <1> SUFFICES ASSUME TypeOK, NEW p \in Live, NEW hint \in Hints, NEW n \in Lengths,
                      hint + n < ADDRESSES
               PROVE  LET room == {s \in MMAPBASE .. KERNBASE - 1 :
                                     /\ s >= hint /\ s + n < KERNBASE
                                     /\ s .. s + n - 1 \cap MappedIn(pages[p]) = {}}
                      IN  FindRange(pages[p], hint, n)
                            = IF room = {} THEN None ELSE Min(room)
    BY DEF FirstFit
  <1> DEFINE s0 == Max({hint, MMAPBASE})
             room == {s \in MMAPBASE .. KERNBASE - 1 :
                        /\ s >= hint /\ s + n < KERNBASE
                        /\ s .. s + n - 1 \cap MappedIn(pages[p]) = {}}
  <1>1. pages[p] \in [Pages -> Protections]
    BY DEF TypeOK, Live
  <1>2. s0 = (IF hint >= MMAPBASE THEN hint ELSE MMAPBASE) /\ hint \in Nat /\ n \in Nat
        /\ n <= MaxLen
    BY MaxOfTwo, Layout DEF Hints, Lengths
  <1>3. s0 \in 0 .. ADDRESSES - 1 /\ s0 + n < ADDRESSES
    BY <1>2, Layout DEF Hints
  <1>4. room = Room(pages[p], n, s0)
    BY <1>2, Layout DEF Room
  <1> HIDE DEF s0, room
  <1>5. Found(pages[p], n)[s0] = IF room = {} THEN None ELSE Min(room)
    BY <1>2, <1>3, <1>4, Layout DEF Found
  <1> QED BY <1>1, <1>5, FindRangeIs DEF s0, room
-----------------------------------------------------------------------------
(* Physical pages.  What one process gives back and takes is what the list   *)
(* gains and loses.                                                          *)

LEMMA DisjointUnion ==
  ASSUME NEW S, NEW T, IsFiniteSet(S), IsFiniteSet(T), S \cap T = {}
  PROVE  Cardinality(S \cup T) = Cardinality(S) + Cardinality(T)
  <1>1. Cardinality(S \cup T) = Cardinality(S) + Cardinality(T) - Cardinality(S \cap T)
    BY FS_Union
  <1>2. Cardinality(S) \in Nat /\ Cardinality(T) \in Nat /\ Cardinality(S \cap T) = 0
    BY FS_CardinalityType, FS_EmptySet
  <1> QED BY <1>1, <1>2

LEMMA MappedInIsFinite ==
  ASSUME NEW pg
  PROVE  IsFiniteSet(MappedIn(pg)) /\ Cardinality(MappedIn(pg)) \in Nat
  <1>1. IsFiniteSet(Pages)
    BY FS_Interval, Layout DEF Pages
  <1>2. MappedIn(pg) \in SUBSET Pages
    BY DEF MappedIn
  <1> QED BY <1>1, <1>2, FS_Subset, FS_CardinalityType

\* A set of pages and what is mapped in one process in them have one size.
LEMMA OneProcess ==
  ASSUME NEW p, NEW S, IsFiniteSet(S)
  PROVE  IsFiniteSet({p} \X S) /\ Cardinality({p} \X S) = Cardinality(S)
  <1>1. IsFiniteSet({p}) /\ Cardinality({p}) = 1
    BY FS_Singleton
  <1>2. Cardinality({p} \X S) = 1 * Cardinality(S) /\ IsFiniteSet({p} \X S)
    BY <1>1, FS_Product
  <1> QED BY <1>2, FS_CardinalityType

LEMMA MappedSplits ==
  ASSUME NEW pg \in [Procs -> [Pages -> Protections]], NEW p \in Procs
  PROVE  {m \in Procs \X Pages : pg[m[1]][m[2]] # "none"}
           = {m \in (Procs \ {p}) \X Pages : pg[m[1]][m[2]] # "none"}
                \cup ({p} \X MappedIn(pg[p]))
  BY DEF MappedIn

\* A new page table of p changes what is mapped by what it has more or less.
LEMMA MappedChanges ==
  ASSUME pages \in [Procs -> [Pages -> Protections]],
         NEW p \in Procs, NEW pg \in [Pages -> Protections],
         pages' = [pages EXCEPT ![p] = pg]
  PROVE  /\ Cardinality(Mapped) \in Nat /\ Cardinality(Mapped') \in Nat
         /\ Cardinality(Mapped') + Cardinality(MappedIn(pages[p]))
              = Cardinality(Mapped) + Cardinality(MappedIn(pg))
  <1> DEFINE old == MappedIn(pages[p])
             new == MappedIn(pg)
             rest == {m \in (Procs \ {p}) \X Pages : pages[m[1]][m[2]] # "none"}
  <1>1. /\ pages' \in [Procs -> [Pages -> Protections]]
        /\ pages'[p] = pg /\ \A q \in Procs \ {p} : pages'[q] = pages[q]
    OBVIOUS
  <1>2. /\ IsFiniteSet(old) /\ Cardinality(old) \in Nat
        /\ IsFiniteSet(new) /\ Cardinality(new) \in Nat
    BY MappedInIsFinite
  <1>3. Mapped = rest \cup ({p} \X old)
    BY <1>1, MappedSplits DEF Mapped
  <1>4. Mapped' = rest \cup ({p} \X new)
    <2>1. {m \in (Procs \ {p}) \X Pages : pages'[m[1]][m[2]] # "none"} = rest
      BY <1>1
    <2> QED BY <1>1, <2>1, MappedSplits DEF Mapped
  <1>5. IsFiniteSet(rest) /\ Cardinality(rest) \in Nat
    <2>1. IsFiniteSet(Pages)
      BY FS_Interval, Layout DEF Pages
    <2>2. IsFiniteSet(Procs \X Pages)
      BY <2>1, FS_Product, ProcsAssumption
    <2>3. rest \in SUBSET (Procs \X Pages)
      OBVIOUS
    <2> HIDE DEF rest
    <2> QED BY <2>2, <2>3, FS_Subset, FS_CardinalityType
  <1>6. rest \cap ({p} \X old) = {} /\ rest \cap ({p} \X new) = {}
    OBVIOUS
  <1> HIDE DEF old, new, rest
  <1>7. /\ IsFiniteSet({p} \X old) /\ Cardinality({p} \X old) = Cardinality(old)
        /\ IsFiniteSet({p} \X new) /\ Cardinality({p} \X new) = Cardinality(new)
    BY <1>2, OneProcess
  <1>8. Cardinality(Mapped) = Cardinality(rest) + Cardinality(old)
    BY <1>3, <1>5, <1>6, <1>7, DisjointUnion
  <1>9. Cardinality(Mapped') = Cardinality(rest) + Cardinality(new)
    BY <1>4, <1>5, <1>6, <1>7, DisjointUnion
  <1> QED BY <1>2, <1>5, <1>8, <1>9 DEF old, new

LEMMA MapIs ==
  ASSUME NEW pg \in [Pages -> Protections], NEW from, NEW to, NEW prot \in Protections
  PROVE  /\ Map(pg, from, to, prot) \in [Pages -> Protections]
         /\ \A a \in Pages : Map(pg, from, to, prot)[a]
                               = IF from <= a /\ a < to THEN prot ELSE pg[a]
  BY DEF Map

LEMMA RangeSize ==
  ASSUME NEW from \in Nat, NEW to \in Nat
  PROVE  /\ IsFiniteSet(from .. to - 1) /\ Cardinality(from .. to - 1) \in Nat
         /\ from <= to => Cardinality(from .. to - 1) = to - from
  <1> DEFINE last == to - 1
  <1>1. from \in Int /\ last \in Int
    OBVIOUS
  <1>2. /\ IsFiniteSet(from .. last)
        /\ Cardinality(from .. last) = IF from > last THEN 0 ELSE last - from + 1
    <2> HIDE DEF last
    <2> QED BY <1>1, FS_Interval
  <1> QED BY <1>2

\* Mapping a range that is free takes as many pages as it has.
LEMMA MoreMapped ==
  ASSUME NEW pg \in [Pages -> Protections], NEW from \in Nat, NEW to \in Nat,
         to <= KERNBASE, NEW prot \in Protections, prot # "none",
         \A a \in MappedIn(pg) : ~(from <= a /\ a < to),
         NEW more, more = Map(pg, from, to, prot)
  PROVE  /\ more \in [Pages -> Protections]
         /\ MappedIn(more) = MappedIn(pg) \cup (from .. to - 1)
         /\ Cardinality(MappedIn(more))
              = Cardinality(MappedIn(pg)) + Cardinality(from .. to - 1)
  <1>1. /\ more \in [Pages -> Protections]
        /\ \A a \in Pages : more[a] = IF from <= a /\ a < to THEN prot ELSE pg[a]
    BY MapIs
  <1>2. MappedIn(more) = MappedIn(pg) \cup (from .. to - 1)
    <2>1. \A a \in Pages : a \in Int /\ (a \in from .. to - 1 <=> from <= a /\ a < to)
      BY Layout DEF Pages
    <2>2. from .. to - 1 \subseteq Pages
      BY Layout DEF Pages
    <2> HIDE DEF Pages
    <2> QED BY <1>1, <2>1, <2>2 DEF MappedIn
  <1>3. MappedIn(pg) \cap (from .. to - 1) = {}
    <2>1. \A a \in from .. to - 1 : from <= a /\ a < to
      OBVIOUS
    <2> QED BY <2>1
  <1>4. Cardinality(MappedIn(more)) = Cardinality(MappedIn(pg)) + Cardinality(from .. to - 1)
    <2>1. IsFiniteSet(MappedIn(pg)) /\ IsFiniteSet(from .. to - 1)
      BY MappedInIsFinite, RangeSize
    <2> QED BY <1>2, <1>3, <2>1, DisjointUnion
  <1> QED BY <1>1, <1>2, <1>4

\* deallocuvm() gives to kfree() what was mapped in the range and no longer is.
LEMMA FewerMapped ==
  ASSUME NEW pg \in [Pages -> Protections], NEW from \in Nat, NEW to \in Nat
  PROVE  LET less == deallocuvm(pg, to, from)
         IN  /\ less \in [Pages -> Protections]
             /\ MappedIn(less) = MappedIn(pg) \ (from .. to - 1)
             /\ Freed(pg, to, from) \in Nat
             /\ Cardinality(MappedIn(less)) = Cardinality(MappedIn(pg)) - Freed(pg, to, from)
             /\ \A a \in Pages : less[a] = pg[a] \/ (from <= a /\ a < to)
  <1> DEFINE less == deallocuvm(pg, to, from)
  <1>1. /\ less \in [Pages -> Protections]
        /\ \A a \in Pages : less[a] = IF from <= a /\ a < to THEN "none" ELSE pg[a]
    BY MapIs DEF deallocuvm, Protections
  <1> HIDE DEF less
  <1>2. MappedIn(less) = MappedIn(pg) \ (from .. to - 1)
    <2>1. \A a \in Pages : a \in from .. to - 1 <=> from <= a /\ a < to
      BY Layout DEF Pages
    <2> QED BY <1>1, <2>1 DEF MappedIn
  <1>3. /\ Cardinality(MappedIn(less)) = Cardinality(MappedIn(pg)) - Freed(pg, to, from)
        /\ Freed(pg, to, from) \in Nat
    <2>1. IsFiniteSet(MappedIn(pg))
      BY MappedInIsFinite
    <2>2. IsFiniteSet(MappedIn(pg) \cap (from .. to - 1))
      BY <2>1, FS_Intersection
    <2> QED BY <1>2, <2>1, <2>2, FS_Difference, FS_CardinalityType DEF Freed
  <1> QED BY <1>1, <1>2, <1>3 DEF less

\* freevm() of a page table with nothing below USERBASE frees all of it.
LEMMA AllFreed ==
  ASSUME NEW pg, \A a \in MappedIn(pg) : a >= USERBASE
  PROVE  FreedWithTable(pg) = Cardinality(MappedIn(pg))
  <1>1. MappedIn(pg) \cap (USERBASE .. KERNBASE - 1) = MappedIn(pg)
    BY Layout DEF MappedIn, Pages
  <1> QED BY <1>1 DEF FreedWithTable, Freed

\* A failed allocation of a free range restores the page table, and the calls of
\* kfree() make up for those of kalloc().
LEMMA UndoneIs ==
  ASSUME Consistent, NEW p \in Procs, NEW from \in Nat, NEW to \in Nat,
         NEW prot \in Protections, prot # "none", NEW upto,
         \A k \in Nat : upto[k] \in {k, to}, to <= KERNBASE,
         \A a \in MappedIn(pages[p]) : ~(from <= a /\ a < to),
         Undone(p, from, to, prot, upto)
  PROVE  pages' = pages /\ free' = free
  <1>1. PICK k \in from .. to - 1 :
          LET some == Map(pages[p], from, k, prot)
          IN  /\ pages' = [pages EXCEPT ![p] = deallocuvm(some, upto[k], from)]
              /\ free' = free - (k - from) + Freed(some, upto[k], from)
    BY DEF Undone
  <1>2. pages \in [Procs -> [Pages -> Protections]] /\ free \in Nat
    BY Layout DEF Consistent, TypeOK
  <1>3. /\ k \in Nat /\ from <= k /\ k < to
        /\ upto[k] \in Nat /\ k <= upto[k] /\ upto[k] <= to
    <2>1. k \in Nat /\ from <= k /\ k < to
      OBVIOUS
    <2> QED BY <2>1
  <1> DEFINE some == Map(pages[p], from, k, prot)
             less == deallocuvm(some, upto[k], from)
  <1>4. /\ some \in [Pages -> Protections]
        /\ MappedIn(some) = MappedIn(pages[p]) \cup (from .. k - 1)
        /\ Cardinality(MappedIn(some)) = Cardinality(MappedIn(pages[p])) + Cardinality(from .. k - 1)
    <2>1. \A a \in MappedIn(pages[p]) : ~(from <= a /\ a < k)
      BY <1>3, Layout DEF MappedIn, Pages
    <2>2. k <= KERNBASE
      BY <1>3, Layout
    <2> QED BY <1>2, <1>3, <2>1, <2>2, MoreMapped
  <1>5. \A a \in Pages : some[a] = IF from <= a /\ a < k THEN prot ELSE pages[p][a]
    BY <1>2, MapIs
  <1> HIDE DEF some
  <1>6. /\ less \in [Pages -> Protections]
        /\ Freed(some, upto[k], from) \in Nat
        /\ Cardinality(MappedIn(less))
             = Cardinality(MappedIn(some)) - Freed(some, upto[k], from)
        /\ \A a \in Pages : less[a] = IF from <= a /\ a < upto[k] THEN "none" ELSE some[a]
    <2>1. upto[k] \in Nat /\ "none" \in Protections
      BY <1>3 DEF Protections
    <2>2. /\ less \in [Pages -> Protections]
          /\ Freed(some, upto[k], from) \in Nat
          /\ Cardinality(MappedIn(less))
               = Cardinality(MappedIn(some)) - Freed(some, upto[k], from)
      BY <1>4, <2>1, FewerMapped
    <2>3. \A a \in Pages : less[a] = IF from <= a /\ a < upto[k] THEN "none" ELSE some[a]
      BY <1>4, <2>1, MapIs DEF deallocuvm
    <2> QED BY <2>2, <2>3
  <1> HIDE DEF less
  <1>7. less = pages[p]
    <2>1. SUFFICES ASSUME NEW a \in Pages PROVE less[a] = pages[p][a]
      BY <1>2, <1>6
    <2>2. a \in Nat
      BY Layout DEF Pages
    <2>3. CASE from <= a /\ a < upto[k]
      <3>1. a < to
        BY <1>3, <2>2, <2>3
      <3> QED BY <1>6, <2>3, <3>1 DEF MappedIn
    <2>4. CASE ~(from <= a /\ a < upto[k])
      <3>1. ~(from <= a /\ a < k)
        BY <1>3, <2>2, <2>4
      <3> QED BY <1>5, <1>6, <2>4, <3>1
    <2> QED BY <2>3, <2>4
  <1>8. pages' = [pages EXCEPT ![p] = less]
        /\ free' = free - (k - from) + Freed(some, upto[k], from)
    BY <1>1 DEF some, less
  <1>9. Freed(some, upto[k], from) = k - from
    <2>1. Cardinality(from .. k - 1) = k - from
      BY <1>3, RangeSize
    <2>2. Cardinality(MappedIn(pages[p])) \in Nat
      BY MappedInIsFinite
    <2> QED BY <1>3, <1>4, <1>6, <1>7, <2>1, <2>2
  <1> QED BY <1>2, <1>3, <1>7, <1>8, <1>9

-----------------------------------------------------------------------------
(* The TLB.  A step flushes the entry of the process whose pages it changes, *)
(* or marks it, or leaves the pages that an entry can be about alone.        *)

Entries == {None} \cup [page : Pages, as : Protections, stale : BOOLEAN]
TlbLow == \A p \in Procs : tlb[p] # None => tlb[p].page >= USERBASE
TlbInv == tlb \in [Procs -> Entries] /\ TlbExact /\ TlbLoaded /\ TlbLow

LEMMA FlushStep ==
  ASSUME TlbInv, NEW p \in Procs, Flush(p),
         \A q \in Procs \ {p} :
           state'[q] = state[q] /\ sz'[q] = sz[q] /\ pages'[q] = pages[q]
  PROVE  TlbInv'
  <1>1. /\ tlb' \in [Procs -> Entries] /\ tlb'[p] = None
        /\ \A q \in Procs \ {p} : tlb'[q] = tlb[q]
    BY DEF TlbInv, Flush, Entries
  <1>2. TlbExact' /\ TlbLoaded' /\ TlbLow'
    BY <1>1 DEF TlbInv, TlbExact, TlbLoaded, TlbLow, Live
  <1> QED BY <1>1, <1>2 DEF TlbInv, Entries

LEMMA StaleStep ==
  ASSUME TlbInv, NEW p \in Procs, NEW from \in Int, NEW to \in Int, Stale(p, from, to),
         state' = state, sz' = sz, \A q \in Procs \ {p} : pages'[q] = pages[q],
         \A a \in Pages : pages'[p][a] = pages[p][a] \/ (from <= a /\ a < to)
  PROVE  TlbInv'
  <1> DEFINE e == tlb[p]
  <1>1. /\ e \in Entries
        /\ \A q \in Procs \ {p} : tlb'[q] = tlb[q]
        /\ tlb'[p] = IF e # None /\ e.page >= from /\ e.page < to
                     THEN [e EXCEPT !.stale = TRUE] ELSE e
    BY DEF TlbInv, Stale
  <1>2. CASE e = None
    <2>1. tlb' = tlb
      BY <1>1, <1>2 DEF Stale, TlbInv
    <2> QED BY <1>2, <2>1 DEF TlbInv, TlbExact, TlbLoaded, TlbLow, Live, Entries
  <1>3. CASE e # None
    <2>1. /\ e \in [page : Pages, as : Protections, stale : BOOLEAN]
          /\ e.page \in Pages /\ e.page \in Int
          /\ [e EXCEPT !.stale = TRUE] \in [page : Pages, as : Protections, stale : BOOLEAN]
      <3>1. e \in [page : Pages, as : Protections, stale : BOOLEAN]
        BY <1>1, <1>3 DEF Entries
      <3>2. e.page \in Pages
        BY <3>1
      <3>3. e.page \in Int
        BY <3>2, Layout DEF Pages
      <3>4. [e EXCEPT !.stale = TRUE] \in [page : Pages, as : Protections, stale : BOOLEAN]
        <4> HIDE DEF e
        <4> QED BY <3>1
      <3> QED BY <3>1, <3>2, <3>3, <3>4
    <2>2. tlb' \in [Procs -> Entries]
      BY <1>1, <2>1 DEF Stale, TlbInv, Entries
    <2>3. /\ tlb'[p].page = e.page /\ tlb'[p].as = e.as
          /\ tlb'[p].stale \/ (tlb'[p].stale = e.stale /\ ~(from <= e.page /\ e.page < to))
      BY <1>1, <1>3, <2>1
    <2>4. TlbExact'
      <3>1. SUFFICES ASSUME NEW q \in Live, tlb'[q] # None
                     PROVE  tlb'[q].stale \/ pages'[q][tlb'[q].page] = tlb'[q].as
        BY DEF TlbExact, Live
      <3>2. CASE q = p
        BY <1>3, <2>1, <2>3, <3>1, <3>2 DEF TlbInv, TlbExact
      <3>3. CASE q # p
        <4>1. q \in Procs \ {p}
          BY <3>3 DEF Live
        <4>2. tlb'[q] = tlb[q] /\ pages'[q] = pages[q]
          BY <1>1, <4>1
        <4> QED BY <3>1, <4>2 DEF TlbInv, TlbExact
      <3> QED BY <3>2, <3>3
    <2>5. TlbLoaded' /\ TlbLow'
      <3>1. SUFFICES ASSUME NEW q \in Procs, tlb'[q] # None
                     PROVE  /\ q \in Live /\ tlb'[q].as # "none" /\ tlb'[q].page < sz[q]
                            /\ tlb'[q].page >= USERBASE
        BY DEF TlbLoaded, TlbLow, Live
      <3>2. CASE q = p
        BY <1>3, <2>3, <3>2 DEF TlbInv, TlbLoaded, TlbLow
      <3>3. CASE q # p
        <4>1. tlb'[q] = tlb[q]
          BY <1>1, <3>3
        <4> QED BY <3>1, <4>1 DEF TlbInv, TlbLoaded, TlbLow
      <3> QED BY <3>2, <3>3
    <2> QED BY <2>2, <2>4, <2>5 DEF TlbInv, Entries
  <1> QED BY <1>2, <1>3

LEMMA UntouchedStep ==
  ASSUME TlbInv, TypeOK, tlb' = tlb, Live \subseteq Live',
         \A q \in Live : sz[q] <= sz'[q] /\ sz'[q] \in Nat,
         \A q \in Live : \A a \in MappedIn(pages[q]) : pages'[q][a] = pages[q][a]
  PROVE  TlbInv'
  <1>1. TlbLoaded'
    <2>1. SUFFICES ASSUME NEW q \in Procs, tlb[q] # None
                   PROVE  q \in Live' /\ tlb[q].as # "none" /\ tlb[q].page < sz'[q]
      BY DEF TlbLoaded
    <2>2. q \in Live /\ tlb[q].as # "none" /\ tlb[q].page < sz[q]
      BY <2>1 DEF TlbInv, TlbLoaded
    <2>3. tlb[q].page \in Pages
      BY <2>1 DEF TlbInv, Entries
    <2>4. tlb[q].page \in Nat /\ sz[q] \in Nat /\ sz'[q] \in Nat /\ sz[q] <= sz'[q]
      BY <2>2, <2>3, Layout DEF Pages, TypeOK
    <2> QED BY <2>2, <2>4
  <1>2. TlbExact'
    <2>1. SUFFICES ASSUME NEW q \in Procs, tlb[q] # None, ~tlb[q].stale
                   PROVE  pages'[q][tlb[q].page] = tlb[q].as
      BY DEF TlbExact, Live
    <2>2. q \in Live /\ tlb[q].as # "none" /\ pages[q][tlb[q].page] = tlb[q].as
      BY <2>1 DEF TlbInv, TlbLoaded, TlbExact
    <2>3. tlb[q].page \in Pages
      BY <2>1 DEF TlbInv, Entries
    <2>4. tlb[q].page \in MappedIn(pages[q])
      BY <2>2, <2>3 DEF MappedIn
    <2> QED BY <2>2, <2>4
  <1> QED BY <1>1, <1>2 DEF TlbInv, TlbLow, Entries

-----------------------------------------------------------------------------
(* The steps.  A step that is no fork() changes the pages, the size and the  *)
(* entry of one process, p.                                                  *)

LEMMA PartsOf ==
  ASSUME Consistent
  PROVE  /\ TypeOK /\ PagesBelowSize /\ LowPages /\ FramesExact /\ TlbInv
         /\ state \in [Procs -> States]
         /\ sz \in [Procs -> 0 .. KERNBASE]
         /\ pages \in [Procs -> [Pages -> Protections]]
         /\ free \in Nat /\ free \in 0 .. NFRAMES
         /\ "none" \in Protections
  BY Layout DEF Consistent, TlbInv, TlbLow, LowPages, TypeOK, Entries, Protections

\* Beside a process that is not initcode, there is no initcode.
LEMMA AfterBoot ==
  ASSUME Consistent, NEW p \in Procs, state[p] \in {"live", "stuck", "zombie"}
  PROVE  Booted /\ \A a \in MappedIn(pages[p]) : a \in Nat /\ a >= USERBASE /\ a < sz[p]
  <1>1. Booted
    <2>1. SUFFICES ASSUME NEW q \in Procs, state[q] = "boot" PROVE FALSE
      BY DEF Booted
    <2>2. state[p] # "boot" /\ state[p] # "unused"
      OBVIOUS
    <2>3. q # p
      BY <2>1, <2>2
    <2>4. \A r \in Procs \ {q} : state[r] = "unused"
      BY <2>1, PartsOf, Zenon DEF LowPages
    <2> QED BY <2>2, <2>3, <2>4
  <1>2. ASSUME NEW a \in MappedIn(pages[p])
        PROVE  a \in Nat /\ a >= USERBASE /\ a < sz[p]
    <2>1. a \in Nat
      BY Layout DEF MappedIn, Pages
    <2>2. a < sz[p]
      BY PartsOf DEF PagesBelowSize
    <2>3. a >= USERBASE \/ (state[p] = "boot" /\ a = 0)
      BY PartsOf DEF LowPages
    <2> QED BY <2>1, <2>2, <2>3
  <1> QED BY <1>1, <1>2

\* A program that runs has a page or remembers one, and both are above USERBASE.
LEMMA WhoRuns ==
  ASSUME Consistent, NEW p \in Procs, Runs(p)
  PROVE  /\ p \in Live /\ state[p] = "live" /\ Booted
         /\ sz[p] \in Nat /\ sz[p] <= KERNBASE /\ sz[p] > USERBASE
         /\ \A a \in MappedIn(pages[p]) : a \in Nat /\ a >= USERBASE /\ a < sz[p]
         /\ pages[p] \in [Pages -> Protections]
  <1>1. p \in Live /\ state[p] = "live"
    BY DEF Runs, Live
  <1>2. Booted /\ \A a \in MappedIn(pages[p]) : a \in Nat /\ a >= USERBASE /\ a < sz[p]
    BY <1>1, AfterBoot
  <1>3. sz[p] \in Nat /\ sz[p] <= KERNBASE /\ pages[p] \in [Pages -> Protections]
    BY PartsOf, Layout
  <1>4. CASE MappedIn(pages[p]) # {}
    <2>1. PICK a \in MappedIn(pages[p]) : a \in Nat /\ a >= USERBASE /\ a < sz[p]
      BY <1>2, <1>4
    <2>2. sz[p] > USERBASE
      BY <1>3, <2>1, Layout
    <2> QED BY <1>1, <1>2, <1>3, <2>2
  <1>5. CASE tlb[p] # None
    <2>1. tlb[p].page \in Pages
      BY <1>5, PartsOf DEF TlbInv, Entries
    <2>2. tlb[p].page < sz[p] /\ tlb[p].page >= USERBASE /\ tlb[p].page \in Nat
      BY <1>5, <2>1, PartsOf, Layout DEF TlbInv, TlbLoaded, TlbLow, Pages
    <2>3. sz[p] > USERBASE
      BY <1>3, <2>2, Layout
    <2> QED BY <1>1, <1>2, <1>3, <2>3
  <1>6. MappedIn(pages[p]) # {} \/ tlb[p] # None
    BY DEF Runs
  <1> QED BY <1>1, <1>2, <1>3, <1>4, <1>5, <1>6

\* A step that gives p the page table pg, and takes for it and gives back as many pages
\* as that needs, less the one that initcode leaves behind.
LEMMA NewPages ==
  ASSUME Consistent, NEW p \in Procs, NEW pg \in [Pages -> Protections],
         pages' = [pages EXCEPT ![p] = pg], free' \in Nat,
         free' + Cardinality(MappedIn(pg))
           = free + Cardinality(MappedIn(pages[p])) - (IF Booted THEN 0 ELSE 1),
         state' \in [Procs -> States], Booted',
         \A q \in Procs \ {p} : state'[q] = state[q] /\ sz'[q] = sz[q],
         sz' \in [Procs -> 0 .. KERNBASE],
         \A a \in MappedIn(pg) : a >= USERBASE /\ a < sz'[p],
         state'[p] = "unused" => MappedIn(pg) = {},
         TlbInv'
  PROVE  Consistent'
  <1>1. /\ pages' \in [Procs -> [Pages -> Protections]]
        /\ pages'[p] = pg /\ \A q \in Procs \ {p} : pages'[q] = pages[q]
    BY PartsOf
  <1>2. FramesExact' /\ free' \in 0 .. NFRAMES
    <2>1. /\ Cardinality(Mapped) \in Nat /\ Cardinality(Mapped') \in Nat
          /\ Cardinality(Mapped') + Cardinality(MappedIn(pages[p]))
               = Cardinality(Mapped) + Cardinality(MappedIn(pg))
      BY PartsOf, MappedChanges
    <2>2. free + Cardinality(Mapped) = IF Booted THEN NFRAMES - 1 ELSE NFRAMES
      BY PartsOf DEF FramesExact
    <2>3. /\ Cardinality(MappedIn(pg)) \in Nat /\ Cardinality(MappedIn(pages[p])) \in Nat
          /\ free \in Nat
      BY MappedInIsFinite, PartsOf
    <2>4. free' + Cardinality(Mapped') = NFRAMES - 1
      <3>1. CASE Booted
        BY <2>1, <2>2, <2>3, <3>1, Layout
      <3>2. CASE ~Booted
        BY <2>1, <2>2, <2>3, <3>2, Layout
      <3> QED BY <3>1, <3>2
    <2> QED BY <2>1, <2>4, Layout DEF FramesExact
  <1>3. PagesBelowSize'
    BY <1>1, PartsOf DEF PagesBelowSize
  <1>4. LowPages'
    <2>1. \A q \in Procs : \A a \in MappedIn(pages'[q]) : a >= USERBASE
      <3>1. SUFFICES ASSUME NEW q \in Procs \ {p}, NEW a \in MappedIn(pages[q])
                     PROVE  a >= USERBASE
        BY <1>1
      <3>2. state[q] # "boot"
        BY DEF Booted
      <3> QED BY <3>1, <3>2, PartsOf DEF LowPages
    <2>2. \A q \in Procs : state'[q] # "boot"
      BY DEF Booted
    <2>3. \A q \in Procs : state'[q] = "unused" => MappedIn(pages'[q]) = {}
      BY <1>1, PartsOf DEF LowPages
    <2> QED BY <2>1, <2>2, <2>3 DEF LowPages, TlbInv, TlbLow
  <1> QED BY <1>1, <1>2, <1>3, <1>4 DEF Consistent, TypeOK, TlbInv, Entries

\* A step that leaves the page tables as they are, after the boot.
LEMMA OldPages ==
  ASSUME Consistent, pages' = pages, free' = free,
         sz' \in [Procs -> 0 .. KERNBASE], \A q \in Procs : sz[q] <= sz'[q],
         state' \in [Procs -> States],
         \A q \in Procs : /\ state'[q] = "boot" <=> state[q] = "boot"
                          /\ state'[q] = "unused" <=> state[q] = "unused",
         TlbInv'
  PROVE  Consistent'
  <1>1. PagesBelowSize'
    <2>1. SUFFICES ASSUME NEW q \in Procs, NEW a \in MappedIn(pages[q]) PROVE a < sz'[q]
      BY DEF PagesBelowSize
    <2>2. a < sz[q] /\ a \in Nat
      BY PartsOf, Layout DEF PagesBelowSize, MappedIn, Pages
    <2>3. sz[q] \in Nat /\ sz'[q] \in Nat /\ sz[q] <= sz'[q]
      BY PartsOf, Layout
    <2> QED BY <2>2, <2>3
  <1>2. LowPages'
    <2>1. \A q \in Procs : \A a \in MappedIn(pages[q]) :
             a >= USERBASE \/ (state'[q] = "boot" /\ a = 0)
      BY PartsOf DEF LowPages
    <2>2. ASSUME NEW q \in Procs, state'[q] = "boot"
          PROVE  MappedIn(pages[q]) = {0} /\ \A r \in Procs \ {q} : state'[r] = "unused"
      <3>1. state[q] = "boot"
        BY <2>2
      <3>2. MappedIn(pages[q]) = {0} /\ \A r \in Procs \ {q} : state[r] = "unused"
        BY <3>1, PartsOf, Zenon DEF LowPages
      <3> QED BY <3>2
    <2>3. \A q \in Procs : state'[q] = "unused" => MappedIn(pages[q]) = {}
      BY PartsOf DEF LowPages
    <2>4. TlbLow'
      BY DEF TlbInv
    <2> QED BY <2>1, <2>2, <2>3, <2>4 DEF LowPages, TlbLow
  <1>3. FramesExact'
    <2>1. Mapped' = Mapped /\ (Booted' <=> Booted)
      BY DEF Mapped, Booted
    <2> QED BY <2>1, PartsOf DEF FramesExact
  <1> QED BY <1>1, <1>2, <1>3, PartsOf DEF Consistent, TypeOK, TlbInv, Entries

\* A step that changes nothing at all.
LEMMA NoStep ==
  ASSUME Consistent, UNCHANGED vars
  PROVE  Consistent'
  BY DEF vars, Consistent, TypeOK, PagesBelowSize, LowPages, FramesExact, Mapped, Booted,
         TlbExact, TlbLoaded, Live

-----------------------------------------------------------------------------
(* sbrk() *)

LEMMA GrowStep ==
  ASSUME Consistent, NEW p \in Procs, NEW n \in Lengths, Grow(p, n)
  PROVE  Consistent'
  <1>1. Runs(p) /\ n \in Nat /\ n > 0 /\ state' = state
    BY Layout DEF Grow, Lengths
  <1>2. /\ p \in Live /\ Booted /\ sz[p] \in Nat /\ sz[p] <= KERNBASE /\ sz[p] > USERBASE
        /\ \A a \in MappedIn(pages[p]) : a \in Nat /\ a >= USERBASE /\ a < sz[p]
        /\ pages[p] \in [Pages -> Protections]
    BY <1>1, WhoRuns
  <1>3. /\ sz[p] + n \in Nat /\ "rw" \in Protections /\ "rw" # "none"
        /\ \A a \in MappedIn(pages[p]) : ~(sz[p] <= a /\ a < sz[p] + n)
    BY <1>1, <1>2 DEF Protections
  <1>4. CASE /\ sz[p] + n <= KERNBASE
             /\ Allocate(p, sz[p], sz[p] + n, "rw")
             /\ sz' = [sz EXCEPT ![p] = @ + n]
             /\ Flush(p)
    <2> DEFINE end == sz[p] + n
               grown == Map(pages[p], sz[p], end, "rw")
               taken == sz[p] .. end - 1
    <2> HIDE DEF end
    <2>0. /\ end \in Nat /\ end <= KERNBASE
          /\ \A a \in MappedIn(pages[p]) : ~(sz[p] <= a /\ a < end)
      BY <1>3, <1>4 DEF end
    <2>1. /\ grown \in [Pages -> Protections]
          /\ MappedIn(grown) = MappedIn(pages[p]) \cup taken
          /\ Cardinality(MappedIn(grown)) = Cardinality(MappedIn(pages[p])) + Cardinality(taken)
          /\ Cardinality(taken) \in Nat
      <3>1. Cardinality(taken) \in Nat
        BY <1>2, <2>0, RangeSize
      <3> HIDE DEF taken
      <3>2. /\ grown \in [Pages -> Protections]
            /\ MappedIn(grown) = MappedIn(pages[p]) \cup taken
            /\ Cardinality(MappedIn(grown)) = Cardinality(MappedIn(pages[p])) + Cardinality(taken)
        <4>1. grown = Map(pages[p], sz[p], end, "rw")
          OBVIOUS
        <4> HIDE DEF grown
        <4> QED BY <1>2, <1>3, <2>0, <4>1, MoreMapped DEF taken
      <3> QED BY <3>1, <3>2
    <2>2. /\ Cardinality(taken) <= free /\ free' = free - Cardinality(taken)
          /\ pages' = [pages EXCEPT ![p] = grown]
      BY <1>4 DEF Allocate, end
    <2>3. /\ sz' \in [Procs -> 0 .. KERNBASE] /\ sz'[p] = sz[p] + n
          /\ \A q \in Procs \ {p} : sz'[q] = sz[q]
      BY <1>2, <1>3, <1>4, PartsOf, Layout
    <2>4. \A a \in taken : a >= USERBASE /\ a < sz[p] + n
      <3>1. \A a \in taken : a \in Int /\ sz[p] <= a /\ a < end
        BY <1>2, <2>0
      <3> HIDE DEF taken
      <3> QED BY <1>2, <3>1, Layout DEF end
    <2> HIDE DEF grown, taken
    <2>5. \A a \in MappedIn(grown) : a >= USERBASE /\ a < sz'[p]
      <3>1. SUFFICES ASSUME NEW a \in MappedIn(pages[p]) PROVE a < sz[p] + n
        BY <1>2, <2>1, <2>3, <2>4
      <3> QED BY <1>1, <1>2
    <2>6. TlbInv'
      BY <1>1, <1>4, <2>2, <2>3, PartsOf, FlushStep
    <2>7. /\ free' \in Nat
          /\ free' + Cardinality(MappedIn(grown)) = free + Cardinality(MappedIn(pages[p])) - 0
      BY <2>1, <2>2, PartsOf, MappedInIsFinite
    <2>8. Booted' /\ state' \in [Procs -> States] /\ state'[p] # "unused"
      BY <1>1, <1>2, PartsOf DEF Booted, Live
    <2> QED BY <1>1, <1>2, <2>1, <2>2, <2>3, <2>5, <2>6, <2>7, <2>8, NewPages
  <1>5. CASE /\ sz[p] + n <= KERNBASE
             /\ Undone(p, sz[p], sz[p] + n, "rw", [k \in Nat |-> sz[p] + n])
             /\ UNCHANGED <<sz, tlb>>
    <2> DEFINE upto == [k \in Nat |-> sz[p] + n]
    <2>1. \A k \in Nat : upto[k] \in {k, sz[p] + n}
      OBVIOUS
    <2> HIDE DEF upto
    <2>2. Undone(p, sz[p], sz[p] + n, "rw", upto)
      BY <1>5 DEF upto
    <2>3. pages' = pages /\ free' = free
      BY <1>2, <1>3, <1>5, <2>1, <2>2, UndoneIs
    <2> QED BY <1>1, <1>5, <2>3, NoStep DEF vars
  <1>6. CASE sz[p] + n >= KERNBASE /\ UNCHANGED <<sz, pages, free, tlb>>
    BY <1>1, <1>6, NoStep DEF vars
  <1> QED BY <1>4, <1>5, <1>6 DEF Grow

\* A step of p that takes pages away, in [from, to), and frees them.
LEMMA FewerPages ==
  ASSUME Consistent, NEW p \in Procs, NEW from \in Nat, NEW to \in Nat, Runs(p),
         pages' = [pages EXCEPT ![p] = deallocuvm(@, to, from)],
         free' = free + Freed(pages[p], to, from),
         state' = state, \A q \in Procs \ {p} : sz'[q] = sz[q],
         sz' \in [Procs -> 0 .. KERNBASE],
         \A a \in MappedIn(pages[p]) : a < sz'[p] \/ (from <= a /\ a < to),
         TlbInv'
  PROVE  Consistent'
  <1> DEFINE less == deallocuvm(pages[p], to, from)
  <1>1. /\ less \in [Pages -> Protections]
        /\ MappedIn(less) = MappedIn(pages[p]) \ (from .. to - 1)
        /\ Freed(pages[p], to, from) \in Nat
        /\ Cardinality(MappedIn(less)) = Cardinality(MappedIn(pages[p])) - Freed(pages[p], to, from)
    <2>1. pages[p] \in [Pages -> Protections]
      BY PartsOf
    <2> QED BY <2>1, FewerMapped
  <1>2. pages' = [pages EXCEPT ![p] = less]
    OBVIOUS
  <1> HIDE DEF less
  <1>3. p \in Live /\ Booted
        /\ \A a \in MappedIn(pages[p]) : a \in Nat /\ a >= USERBASE /\ a < sz[p]
    BY WhoRuns
  <1>4. \A a \in MappedIn(less) : a >= USERBASE /\ a < sz'[p]
    BY <1>1, <1>3
  <1>5. /\ free' \in Nat
        /\ free' + Cardinality(MappedIn(less)) = free + Cardinality(MappedIn(pages[p])) - 0
    BY <1>1, PartsOf, MappedInIsFinite
  <1>6. Booted' /\ state' \in [Procs -> States] /\ state'[p] # "unused"
    BY <1>3, PartsOf DEF Booted, Live
  <1> QED BY <1>1, <1>2, <1>3, <1>4, <1>5, <1>6, NewPages

LEMMA ShrinkStep ==
  ASSUME Consistent, NEW p \in Procs, NEW n \in Lengths \cup {sz[p]}, Shrink(p, n)
  PROVE  Consistent'
  <1>1. /\ Runs(p) /\ state' = state /\ n \in Nat /\ n <= sz[p] /\ n > 0
        /\ sz[p] \in Nat /\ sz[p] <= KERNBASE /\ sz[p] - n \in Nat
    BY PartsOf, Layout DEF Shrink, Lengths
  <1>2. /\ pages' = [pages EXCEPT ![p] = deallocuvm(@, sz[p], sz[p] - n)]
        /\ free' = free + Freed(pages[p], sz[p], sz[p] - n)
    BY DEF Shrink
  <1>3. /\ \A a \in MappedIn(pages[p]) : a \in Nat /\ a < sz[p]
        /\ \A q \in Procs \ {p} : pages'[q] = pages[q]
        /\ \A a \in Pages : \/ pages'[p][a] = pages[p][a]
                            \/ (sz[p] - n <= a /\ a < sz[p])
    <2>1. \A a \in MappedIn(pages[p]) : a \in Nat /\ a < sz[p]
      BY <1>1, WhoRuns
    <2>2. pages'[p] = deallocuvm(pages[p], sz[p], sz[p] - n)
          /\ \A q \in Procs \ {p} : pages'[q] = pages[q]
      BY <1>2, PartsOf
    <2>3. \A a \in Pages : \/ deallocuvm(pages[p], sz[p], sz[p] - n)[a] = pages[p][a]
                           \/ (sz[p] - n <= a /\ a < sz[p])
      BY <1>1, PartsOf, FewerMapped
    <2> QED BY <2>1, <2>2, <2>3
  <1>4. CASE sz[p] = n /\ Stale(p, 0, sz[p]) /\ UNCHANGED sz
    <2>1. TlbInv'
      <3>1. sz[p] - n = 0 /\ 0 \in Int /\ sz[p] \in Int
        BY <1>1, <1>4
      <3>2. \A a \in Pages : pages'[p][a] = pages[p][a] \/ (0 <= a /\ a < sz[p])
        BY <1>3, <3>1
      <3> QED BY <1>1, <1>3, <1>4, <3>1, <3>2, PartsOf, StaleStep
    <2> QED BY <1>1, <1>2, <1>3, <1>4, <2>1, PartsOf, FewerPages
  <1>5. CASE sz[p] # n /\ sz' = [sz EXCEPT ![p] = @ - n] /\ Flush(p)
    <2>1. /\ sz' \in [Procs -> 0 .. KERNBASE] /\ sz'[p] = sz[p] - n
          /\ \A q \in Procs \ {p} : sz'[q] = sz[q]
      BY <1>1, <1>5, PartsOf, Layout
    <2>2. TlbInv'
      BY <1>1, <1>3, <1>5, <2>1, PartsOf, FlushStep
    <2>3. \A a \in MappedIn(pages[p]) : a < sz'[p] \/ (sz[p] - n <= a /\ a < sz[p])
      BY <1>1, <1>3, <2>1
    <2> QED BY <1>1, <1>2, <2>1, <2>2, <2>3, FewerPages
  <1> QED BY <1>4, <1>5 DEF Shrink

-----------------------------------------------------------------------------
(* mmap(), munmap() and the protections *)

LEMMA MunmapStep ==
  ASSUME Consistent, NEW p \in Procs, NEW addr \in Pages, NEW len \in Lengths,
         Munmap(p, addr, len)
  PROVE  Consistent'
  <1>1. addr \in Nat /\ len \in Nat /\ addr + len \in Nat
    BY Layout DEF Pages, Lengths
  <1>2. /\ Runs(p) /\ state' = state /\ sz' = sz /\ Stale(p, addr, addr + len)
        /\ pages' = [pages EXCEPT ![p] = deallocuvm(@, addr + len, addr)]
        /\ free' = free + Freed(pages[p], addr + len, addr)
    BY DEF Munmap
  <1>3. /\ \A q \in Procs \ {p} : pages'[q] = pages[q]
        /\ \A a \in Pages : pages'[p][a] = pages[p][a] \/ (addr <= a /\ a < addr + len)
    <2>1. pages'[p] = deallocuvm(pages[p], addr + len, addr)
          /\ \A q \in Procs \ {p} : pages'[q] = pages[q]
      BY <1>2, PartsOf
    <2>2. \A a \in Pages : \/ deallocuvm(pages[p], addr + len, addr)[a] = pages[p][a]
                           \/ (addr <= a /\ a < addr + len)
      BY <1>1, PartsOf, FewerMapped
    <2> QED BY <2>1, <2>2
  <1>4. TlbInv'
    BY <1>1, <1>2, <1>3, PartsOf, StaleStep
  <1>5. \A a \in MappedIn(pages[p]) : a < sz'[p]
    BY <1>2, WhoRuns
  <1> QED BY <1>1, <1>2, <1>4, <1>5, PartsOf, FewerPages

\* mmap() takes pages that are free, so nothing the CPU remembers is about them.
LEMMA MmapStep ==
  ASSUME Consistent, NEW p \in Procs, NEW len \in Lengths, NEW prot \in {"ro", "rw"},
         Mmap(p, len, prot)
  PROVE  Consistent'
  <1>1. /\ Runs(p) /\ state' = state /\ tlb' = tlb
        /\ prot \in Protections /\ prot # "none"
    BY DEF Mmap, Protections
  <1>2. /\ p \in Live /\ Booted /\ sz[p] \in Nat /\ sz[p] <= KERNBASE
        /\ \A a \in MappedIn(pages[p]) : a \in Nat /\ a >= USERBASE /\ a < sz[p]
        /\ pages[p] \in [Pages -> Protections]
    BY <1>1, WhoRuns
  <1>3. PICK hint \in Hints :
          LET start == FindRange(pages[p], hint, len)
              end == RangeEnd(start, len)
          IN  /\ start # None
              /\ \/ /\ Allocate(p, start, end, prot)
                    /\ sz' = [sz EXCEPT ![p] = Max({@, end})]
                 \/ /\ Undone(p, start, end, prot, [k \in Nat |-> k])
                    /\ UNCHANGED sz
    BY DEF Mmap
  <1> DEFINE start == FindRange(pages[p], hint, len)
             end == RangeEnd(start, len)
  <1>4. /\ start \in Nat /\ start >= USERBASE /\ end \in Nat /\ end < KERNBASE
        /\ \A a \in MappedIn(pages[p]) : ~(start <= a /\ a < end)
    <2>1. /\ start \in MMAPBASE .. ADDRESSES - 1 /\ end \in Nat /\ end < KERNBASE
          /\ \A a \in MappedIn(pages[p]) : ~(start <= a /\ a < end)
      BY <1>2, <1>3, RangeIsFree
    <2> HIDE DEF start, end
    <2> QED BY <2>1, Layout
  <1> HIDE DEF start, end
  <1>5. CASE /\ Allocate(p, start, end, prot)
             /\ sz' = [sz EXCEPT ![p] = Max({@, end})]
    <2> DEFINE more == Map(pages[p], start, end, prot)
               taken == start .. end - 1
    <2>1. /\ more \in [Pages -> Protections]
          /\ MappedIn(more) = MappedIn(pages[p]) \cup taken
          /\ Cardinality(MappedIn(more)) = Cardinality(MappedIn(pages[p])) + Cardinality(taken)
          /\ Cardinality(taken) \in Nat
      <3>1. end <= KERNBASE
        BY <1>4, Layout
      <3>2. more = Map(pages[p], start, end, prot) /\ Cardinality(taken) \in Nat
        BY <1>4, RangeSize
      <3> HIDE DEF more
      <3> QED BY <1>1, <1>2, <1>4, <3>1, <3>2, MoreMapped
    <2>2. /\ Cardinality(taken) <= free /\ free' = free - Cardinality(taken)
          /\ pages' = [pages EXCEPT ![p] = more]
      BY <1>5 DEF Allocate
    <2>3. \A a \in Pages : more[a] = IF start <= a /\ a < end THEN prot ELSE pages[p][a]
      BY <1>1, <1>2, MapIs
    <2>4. \A a \in taken : a \in Nat /\ a >= USERBASE /\ a < end
      BY <1>4, Layout
    <2> HIDE DEF more, taken
    <2>5. sz' = [sz EXCEPT ![p] = IF sz[p] >= end THEN sz[p] ELSE end]
      <3>1. Max({sz[p], end}) = IF sz[p] >= end THEN sz[p] ELSE end
        BY <1>2, <1>4, MaxOfTwo
      <3>2. sz' = [sz EXCEPT ![p] = Max({sz[p], end})]
        BY <1>5
      <3> QED BY <3>1, <3>2
    <2>6. /\ sz' \in [Procs -> 0 .. KERNBASE] /\ sz'[p] >= sz[p] /\ sz'[p] >= end
          /\ sz'[p] \in Nat /\ \A q \in Procs \ {p} : sz'[q] = sz[q]
      BY <1>2, <1>4, <2>5, PartsOf, Layout
    <2>7. \A a \in MappedIn(more) : a >= USERBASE /\ a < sz'[p]
      <3>1. SUFFICES ASSUME NEW a \in MappedIn(more) PROVE a >= USERBASE /\ a < sz'[p]
        OBVIOUS
      <3>2. CASE a \in MappedIn(pages[p])
        BY <1>2, <2>6, <3>2
      <3>3. CASE a \in taken
        BY <1>4, <2>4, <2>6, <3>3
      <3> QED BY <2>1, <3>2, <3>3
    <2>8. TlbInv'
      <3>1. \A a \in MappedIn(pages[p]) : more[a] = pages[p][a]
        BY <1>4, <2>3 DEF MappedIn
      <3>2. pages'[p] = more /\ \A q \in Procs \ {p} : pages'[q] = pages[q]
        BY <2>2, PartsOf
      <3>3. \A q \in Live : \A a \in MappedIn(pages[q]) : pages'[q][a] = pages[q][a]
        BY <3>1, <3>2 DEF Live
      <3>4. \A q \in Live : sz[q] <= sz'[q] /\ sz'[q] \in Nat
        BY <1>2, <2>6, PartsOf, Layout DEF Live
      <3> QED BY <1>1, <3>3, <3>4, PartsOf, UntouchedStep DEF Live
    <2>9. /\ free' \in Nat
          /\ free' + Cardinality(MappedIn(more)) = free + Cardinality(MappedIn(pages[p])) - 0
      BY <2>1, <2>2, PartsOf, MappedInIsFinite
    <2>10. Booted' /\ state' \in [Procs -> States] /\ state'[p] # "unused"
      BY <1>1, <1>2, PartsOf DEF Booted, Live
    <2> QED BY <1>1, <1>2, <2>1, <2>2, <2>6, <2>7, <2>8, <2>9, <2>10, NewPages
  <1>6. CASE Undone(p, start, end, prot, [k \in Nat |-> k]) /\ UNCHANGED sz
    <2> DEFINE upto == [k \in Nat |-> k]
    <2>1. \A k \in Nat : upto[k] \in {k, end}
      OBVIOUS
    <2> HIDE DEF upto
    <2>2. Undone(p, start, end, prot, upto)
      BY <1>6 DEF upto
    <2>3. end <= KERNBASE
      BY <1>4, Layout
    <2>4. pages' = pages /\ free' = free
      BY <1>1, <1>4, <2>1, <2>2, <2>3, UndoneIs
    <2> QED BY <1>1, <1>6, <2>4, NoStep DEF vars
  <1> QED BY <1>3, <1>5, <1>6 DEF start, end

\* mprotect() and munprotect() keep the pages and change what they may be used for.
LEMMA ProtectStep ==
  ASSUME Consistent, NEW p \in Procs, NEW addr \in Pages, NEW len \in Lengths,
         Mprotect(p, addr, len) \/ Munprotect(p, addr, len)
  PROVE  Consistent'
  <1>1. PICK prot \in {"ro", "rw"} :
          /\ Runs(p) /\ Present(p, addr, len)
          /\ pages' = [pages EXCEPT ![p] = Map(@, addr, addr + len, prot)]
          /\ state' = state /\ sz' = sz /\ free' = free
          /\ Flush(p) \/ Stale(p, addr, addr + len)
    BY DEF Mprotect, Munprotect
  <1>2. addr \in Nat /\ len \in Nat /\ prot \in Protections /\ prot # "none"
        /\ pages[p] \in [Pages -> Protections]
    BY PartsOf, Layout DEF Pages, Lengths, Protections
  <1> DEFINE pg == Map(pages[p], addr, addr + len, prot)
  <1>3. /\ pg \in [Pages -> Protections]
        /\ \A a \in Pages : pg[a] = IF addr <= a /\ a < addr + len THEN prot
                                                                   ELSE pages[p][a]
    BY <1>2, MapIs
  <1>4. /\ pages' = [pages EXCEPT ![p] = pg] /\ pages'[p] = pg
        /\ \A q \in Procs \ {p} : pages'[q] = pages[q]
    BY <1>1, PartsOf
  <1> HIDE DEF pg
  <1>5. MappedIn(pg) = MappedIn(pages[p])
    <2>1. SUFFICES ASSUME NEW a \in Pages, addr <= a, a < addr + len
                   PROVE  pages[p][a] # "none"
      BY <1>2, <1>3 DEF MappedIn
    <2>2. a \in addr .. addr + len - 1
      BY <1>2, <2>1, Layout DEF Pages
    <2> QED BY <1>1, <2>2 DEF Present, MappedIn
  <1>6. TlbInv'
    <2>1. CASE Flush(p)
      BY <1>1, <1>4, <2>1, PartsOf, FlushStep
    <2>2. CASE Stale(p, addr, addr + len)
      <3>1. \A a \in Pages : pages'[p][a] = pages[p][a] \/ (addr <= a /\ a < addr + len)
        BY <1>3, <1>4
      <3>2. addr \in Int /\ addr + len \in Int
        BY <1>2
      <3> QED BY <1>1, <1>4, <2>2, <3>1, <3>2, PartsOf, StaleStep
    <2> QED BY <1>1, <2>1, <2>2
  <1>7. p \in Live /\ Booted
        /\ \A a \in MappedIn(pages[p]) : a \in Nat /\ a >= USERBASE /\ a < sz[p]
    BY <1>1, WhoRuns
  <1>8. /\ free' \in Nat
        /\ free' + Cardinality(MappedIn(pg)) = free + Cardinality(MappedIn(pages[p])) - 0
    BY <1>1, <1>5, PartsOf, MappedInIsFinite
  <1>9. Booted' /\ state' \in [Procs -> States] /\ state'[p] # "unused"
    BY <1>1, <1>7, PartsOf DEF Booted, Live
  <1> QED BY <1>1, <1>3, <1>4, <1>5, <1>6, <1>7, <1>8, <1>9, PartsOf, NewPages

-----------------------------------------------------------------------------
(* fork(), exec(), exit() and wait() *)

LEMMA CopyIs ==
  ASSUME NEW pg \in [Pages -> Protections], NEW size
  PROVE  /\ copyuvm(pg, size) \in [Pages -> Protections]
         /\ \A a \in MappedIn(copyuvm(pg, size)) : a >= USERBASE /\ a < size
  <1>1. /\ copyuvm(pg, size) \in [Pages -> Protections]
        /\ \A a \in Pages : copyuvm(pg, size)[a]
                              = IF USERBASE <= a /\ a < size THEN pg[a] ELSE "none"
    BY DEF copyuvm, Protections
  <1> QED BY <1>1, Layout DEF MappedIn, Pages

LEMMA ForkStep ==
  ASSUME Consistent, NEW p \in Procs, NEW q \in Procs, Fork(p, q)
  PROVE  Consistent'
  <1>1. Runs(p) /\ state[q] = "unused" /\ tlb' = tlb
    BY DEF Fork
  <1>2. /\ p \in Live /\ state[p] = "live" /\ Booted /\ sz[p] \in Nat /\ sz[p] <= KERNBASE
        /\ pages[p] \in [Pages -> Protections]
    BY <1>1, WhoRuns
  <1>3. MappedIn(pages[q]) = {} /\ q \notin Live
    BY <1>1, PartsOf DEF LowPages, Live
  <1>4. ASSUME LET copy == copyuvm(pages[p], sz[p])
               IN  /\ Cardinality(MappedIn(copy)) <= free
                   /\ pages' = [pages EXCEPT ![q] = copy]
                   /\ free' = free - Cardinality(MappedIn(copy))
                   /\ state' = [state EXCEPT ![q] = "live"]
                   /\ sz' = [sz EXCEPT ![q] = sz[p]]
        PROVE Consistent'
    <2> DEFINE copy == copyuvm(pages[p], sz[p])
    <2>1. /\ copy \in [Pages -> Protections]
          /\ \A a \in MappedIn(copy) : a >= USERBASE /\ a < sz[p]
      BY <1>2, CopyIs
    <2>2. /\ Cardinality(MappedIn(copy)) <= free /\ pages' = [pages EXCEPT ![q] = copy]
          /\ free' = free - Cardinality(MappedIn(copy))
          /\ state' = [state EXCEPT ![q] = "live"] /\ sz' = [sz EXCEPT ![q] = sz[p]]
      BY <1>4
    <2> HIDE DEF copy
    <2>3. /\ free' \in Nat
          /\ free' + Cardinality(MappedIn(copy)) = free + Cardinality(MappedIn(pages[q])) - 0
      <3>1. Cardinality(MappedIn(copy)) \in Nat /\ Cardinality(MappedIn(pages[q])) = 0
        BY <1>3, MappedInIsFinite, FS_EmptySet
      <3> QED BY <2>2, <3>1, PartsOf
    <2>4. /\ state' \in [Procs -> States] /\ Booted' /\ state'[q] # "unused"
          /\ sz' \in [Procs -> 0 .. KERNBASE] /\ sz'[q] = sz[p]
          /\ \A r \in Procs \ {q} : state'[r] = state[r] /\ sz'[r] = sz[r]
                                    /\ pages'[r] = pages[r]
          /\ Live \subseteq Live'
      BY <1>1, <1>2, <2>2, PartsOf DEF Live, States, Booted
    <2>5. TlbInv'
      <3>1. \A r \in Live : r # q /\ sz[r] <= sz'[r] /\ sz'[r] \in Nat
        BY <1>3, <2>4, PartsOf, Layout DEF Live
      <3>2. \A r \in Live : \A a \in MappedIn(pages[r]) : pages'[r][a] = pages[r][a]
        BY <2>4, <3>1 DEF Live
      <3> QED BY <1>1, <2>4, <3>1, <3>2, PartsOf, UntouchedStep
    <2>6. \A a \in MappedIn(copy) : a >= USERBASE /\ a < sz'[q]
      BY <2>1, <2>4
    <2> QED BY <1>2, <2>1, <2>2, <2>3, <2>4, <2>5, <2>6, NewPages
  <1>5. ASSUME NEW k \in USERBASE .. sz[p] - 1,
               LET part == copyuvm(pages[p], k)
               IN  /\ free' = free - Cardinality(MappedIn(part)) + FreedWithTable(part)
                   /\ UNCHANGED <<state, sz, pages>>
        PROVE Consistent'
    <2> DEFINE part == copyuvm(pages[p], k)
    <2>1. FreedWithTable(part) = Cardinality(MappedIn(part))
      BY <1>2, CopyIs, AllFreed
    <2>2. free' = free - Cardinality(MappedIn(part)) + FreedWithTable(part)
      BY <1>5
    <2> HIDE DEF part
    <2>3. free' = free
      BY <2>1, <2>2, PartsOf, MappedInIsFinite
    <2> QED BY <1>1, <1>5, <2>3, NoStep DEF vars
  <1> QED BY <1>4, <1>5 DEF Fork

LEMMA ImageIs ==
  ASSUME NEW size \in 0 .. ImageSize
  PROVE  /\ Image(size) \in [Pages -> Protections]
         /\ \A a \in MappedIn(Image(size)) : a >= USERBASE /\ a < USERBASE + size
         /\ Cardinality(MappedIn(Image(size))) = size
         /\ FreedWithTable(Image(size)) = size
  <1>1. NoPages \in [Pages -> Protections] /\ MappedIn(NoPages) = {}
        /\ "rw" \in Protections /\ "rw" # "none"
    BY DEF NoPages, Protections, MappedIn
  <1>2. USERBASE + size \in Nat /\ USERBASE + size <= KERNBASE /\ size \in Nat
        /\ USERBASE \in Nat
    BY Layout
  <1> DEFINE end == USERBASE + size
             all == Map(NoPages, USERBASE, end, "rw")
  <1>3. /\ all \in [Pages -> Protections]
        /\ MappedIn(all) = MappedIn(NoPages) \cup (USERBASE .. end - 1)
        /\ Cardinality(MappedIn(all)) = Cardinality(MappedIn(NoPages)) + Cardinality(USERBASE .. end - 1)
    <2>1. \A a \in MappedIn(NoPages) : ~(USERBASE <= a /\ a < end)
      BY <1>1
    <2>2. end \in Nat /\ end <= KERNBASE
      BY <1>2
    <2>3. all = Map(NoPages, USERBASE, end, "rw")
      OBVIOUS
    <2>4. NoPages \in [Pages -> Protections] /\ "rw" \in Protections /\ "rw" # "none"
      BY <1>1
    <2>5. USERBASE \in Nat
      BY <1>2
    <2> HIDE DEF end, all
    <2> QED BY <2>1, <2>2, <2>3, <2>4, <2>5, MoreMapped
  <1>4. Image(size) = all
    BY DEF Image
  <1>5. Cardinality(USERBASE .. end - 1) = size /\ Cardinality(MappedIn(NoPages)) = 0
    <2>1. end \in Nat /\ USERBASE <= end /\ end - USERBASE = size
      BY <1>2
    <2> HIDE DEF end
    <2> QED BY <1>1, <1>2, <2>1, RangeSize, FS_EmptySet
  <1>6. \A a \in USERBASE .. end - 1 : a >= USERBASE /\ a < USERBASE + size
    BY <1>2
  <1> HIDE DEF end, all
  <1>7. \A a \in MappedIn(all) : a >= USERBASE /\ a < USERBASE + size
    BY <1>1, <1>3, <1>6
  <1>8. Cardinality(MappedIn(all)) = size
    BY <1>2, <1>3, <1>5
  <1> QED BY <1>3, <1>4, <1>7, <1>8, AllFreed

\* What exec() frees of the old page table: all of it, but of initcode's nothing.
LEMMA OldIsFreed ==
  ASSUME Consistent, NEW p \in Procs, state[p] \in {"boot", "live", "stuck", "zombie"}
  PROVE  FreedWithTable(pages[p])
           = Cardinality(MappedIn(pages[p])) - (IF Booted THEN 0 ELSE 1)
  <1>1. CASE state[p] = "boot"
    <2>1. MappedIn(pages[p]) = {0} /\ ~Booted
      BY <1>1, PartsOf DEF LowPages, Booted
    <2>2. {0} \cap (USERBASE .. KERNBASE - 1) = {}
      BY Layout
    <2>3. FreedWithTable(pages[p]) = 0
      BY <2>1, <2>2, FS_EmptySet DEF FreedWithTable, Freed
    <2>4. Cardinality(MappedIn(pages[p])) = 1
      BY <2>1, FS_Singleton
    <2> QED BY <2>1, <2>3, <2>4
  <1>2. CASE state[p] # "boot"
    <2>1. Booted /\ \A a \in MappedIn(pages[p]) : a >= USERBASE
      BY <1>2, AfterBoot
    <2>2. FreedWithTable(pages[p]) = Cardinality(MappedIn(pages[p]))
      BY <2>1, AllFreed
    <2> QED BY <2>1, <2>2, MappedInIsFinite
  <1> QED BY <1>1, <1>2

LEMMA ExecStep ==
  ASSUME Consistent, NEW p \in Procs, Exec(p)
  PROVE  Consistent'
  <1>1. state[p] \in {"boot", "live"}
    BY DEF Exec, Runs, Live
  <1>2. CASE /\ ImageSize <= free
             /\ pages' = [pages EXCEPT ![p] = Image(ImageSize)]
             /\ free' = free - ImageSize + FreedWithTable(pages[p])
             /\ state' = [state EXCEPT ![p] = "live"]
             /\ sz' = [sz EXCEPT ![p] = USERBASE + ImageSize]
             /\ Flush(p)
    <2>1. /\ Image(ImageSize) \in [Pages -> Protections]
          /\ \A a \in MappedIn(Image(ImageSize)) : a >= USERBASE /\ a < USERBASE + ImageSize
          /\ Cardinality(MappedIn(Image(ImageSize))) = ImageSize
      BY ImageIs, Layout
    <2>2. /\ sz' \in [Procs -> 0 .. KERNBASE] /\ sz'[p] = USERBASE + ImageSize
          /\ state' \in [Procs -> States] /\ state'[p] # "unused"
          /\ \A q \in Procs \ {p} : state'[q] = state[q] /\ sz'[q] = sz[q]
                                    /\ pages'[q] = pages[q]
      BY <1>2, PartsOf, Layout DEF States
    <2>3. Booted'
      <3>1. \A q \in Procs \ {p} : state[q] # "boot"
        <4>1. CASE state[p] = "boot"
          <5>1. \A q \in Procs \ {p} : state[q] = "unused"
            BY <4>1, PartsOf, Zenon DEF LowPages
          <5> QED BY <5>1
        <4>2. CASE state[p] = "live"
          BY <4>2, AfterBoot DEF Booted
        <4> QED BY <1>1, <4>1, <4>2
      <3>2. state'[p] = "live"
        BY <1>2, PartsOf
      <3> QED BY <2>2, <3>1, <3>2 DEF Booted
    <2>4. TlbInv'
      BY <1>2, <2>2, PartsOf, FlushStep
    <2>5. /\ free' \in Nat
          /\ free' + ImageSize
               = free + Cardinality(MappedIn(pages[p])) - (IF Booted THEN 0 ELSE 1)
      <3>1. FreedWithTable(pages[p])
              = Cardinality(MappedIn(pages[p])) - (IF Booted THEN 0 ELSE 1)
        BY <1>1, OldIsFreed
      <3>2. FreedWithTable(pages[p]) \in Nat /\ Cardinality(MappedIn(pages[p])) \in Nat
        <4>1. IsFiniteSet(MappedIn(pages[p]) \cap (USERBASE .. KERNBASE - 1))
          BY MappedInIsFinite, FS_Intersection
        <4> QED BY <4>1, MappedInIsFinite, FS_CardinalityType DEF FreedWithTable, Freed
      <3> QED BY <1>2, <3>1, <3>2, PartsOf, Layout
    <2> QED BY <1>2, <2>1, <2>2, <2>3, <2>4, <2>5, NewPages
  <1>3. ASSUME NEW k \in 0 .. ImageSize - 1,
               free' = free - k + FreedWithTable(Image(k)),
               UNCHANGED <<state, sz, pages, tlb>>
        PROVE Consistent'
    <2>1. k \in 0 .. ImageSize /\ k \in Nat
      BY Layout
    <2>2. free' = free
      BY <1>3, <2>1, ImageIs, PartsOf
    <2> QED BY <1>3, <2>2, NoStep DEF vars
  <1> QED BY <1>2, <1>3 DEF Exec

\* A process that stops for good keeps its pages.
LEMMA StopStep ==
  ASSUME Consistent, NEW p \in Live, NEW s \in {"zombie", "stuck"},
         state' = [state EXCEPT ![p] = s], Flush(p), UNCHANGED <<sz, pages, free>>
  PROVE  Consistent'
  <1>1. p \in Procs /\ state[p] = "live"
    BY DEF Live
  <1>2. /\ state' \in [Procs -> States]
        /\ \A q \in Procs \ {p} : state'[q] = state[q]
        /\ \A q \in Procs : /\ state'[q] = "boot" <=> state[q] = "boot"
                            /\ state'[q] = "unused" <=> state[q] = "unused"
    BY <1>1, PartsOf DEF States
  <1>3. TlbInv'
    BY <1>1, <1>2, PartsOf, FlushStep
  <1>4. \A q \in Procs : sz[q] <= sz'[q]
    BY PartsOf, Layout
  <1> QED BY <1>2, <1>3, <1>4, PartsOf, OldPages

LEMMA QuitStep ==
  ASSUME Consistent, NEW p \in Procs,
         Exit(p) \/ PageFault(p) \/ KernelFault(p)
  PROVE  Consistent'
  <1>1. p \in Live
    BY DEF Exit, PageFault, KernelFault, Runs
  <1>2. CASE KernelFault(p)
    BY <1>1, <1>2, StopStep DEF KernelFault
  <1>3. CASE Exit(p) \/ PageFault(p)
    BY <1>1, <1>3, StopStep DEF Exit, PageFault, Quit
  <1> QED BY <1>2, <1>3

LEMMA WaitStep ==
  ASSUME Consistent, NEW p \in Procs, Wait(p)
  PROVE  Consistent'
  <1>1. /\ state[p] = "zombie" /\ state' = [state EXCEPT ![p] = "unused"]
        /\ sz' = sz /\ tlb' = tlb /\ pages' = [pages EXCEPT ![p] = NoPages]
        /\ free' = free + FreedWithTable(pages[p])
    BY DEF Wait
  <1>2. NoPages \in [Pages -> Protections] /\ MappedIn(NoPages) = {}
        /\ Cardinality(MappedIn(NoPages)) = 0
    BY FS_EmptySet DEF NoPages, Protections, MappedIn
  <1>3. Booted /\ \A a \in MappedIn(pages[p]) : a >= USERBASE
    BY <1>1, AfterBoot
  <1>4. /\ free' \in Nat
        /\ free' + Cardinality(MappedIn(NoPages))
             = free + Cardinality(MappedIn(pages[p])) - 0
    BY <1>1, <1>2, <1>3, AllFreed, PartsOf, MappedInIsFinite
  <1>5. /\ state' \in [Procs -> States] /\ Booted' /\ Live \subseteq Live' /\ p \notin Live
        /\ \A q \in Procs \ {p} : state'[q] = state[q] /\ pages'[q] = pages[q]
    BY <1>1, <1>3, PartsOf DEF Live, States, Booted
  <1>6. TlbInv'
    <2>1. \A q \in Live : sz[q] <= sz'[q] /\ sz'[q] \in Nat
      BY <1>1, PartsOf, Layout DEF Live
    <2>2. \A q \in Live : \A a \in MappedIn(pages[q]) : pages'[q][a] = pages[q][a]
      BY <1>5 DEF Live
    <2> QED BY <1>1, <1>5, <2>1, <2>2, PartsOf, UntouchedStep
  <1> QED BY <1>1, <1>2, <1>3, <1>4, <1>5, <1>6, PartsOf, NewPages

-----------------------------------------------------------------------------
(* Accesses *)

\* What the CPU loads is what the page table says.
LEMMA LoadStep ==
  ASSUME Consistent, NEW p \in Procs, NEW a \in Pages, Load(p, a)
  PROVE  Consistent'
  <1> DEFINE e == [page |-> a, as |-> pages[p][a], stale |-> FALSE]
  <1>1. /\ p \in Live /\ state[p] = "live" /\ pages[p][a] # "none"
        /\ tlb' = [tlb EXCEPT ![p] = e]
        /\ state' = state /\ sz' = sz /\ pages' = pages /\ free' = free
    BY DEF Load, Live
  <1>2. e \in [page : Pages, as : Protections, stale : BOOLEAN]
    BY PartsOf
  <1>3. a >= USERBASE /\ a < sz[p]
    <2>1. a \in MappedIn(pages[p])
      BY <1>1 DEF MappedIn
    <2> QED BY <1>1, <2>1, AfterBoot
  <1>4. /\ tlb' \in [Procs -> Entries] /\ tlb'[p] = e
        /\ \A q \in Procs \ {p} : tlb'[q] = tlb[q]
    <2> HIDE DEF e
    <2> QED BY <1>1, <1>2, PartsOf DEF TlbInv, Entries
  <1>5. TlbExact' /\ TlbLoaded' /\ TlbLow'
    BY <1>1, <1>3, <1>4, PartsOf DEF TlbInv, TlbExact, TlbLoaded, TlbLow, Live
  <1>6. TlbInv' /\ \A q \in Procs : sz[q] <= sz'[q]
    BY <1>1, <1>4, <1>5, PartsOf, Layout DEF TlbInv, Entries
  <1> QED BY <1>1, <1>6, PartsOf, OldPages

LEMMA DropStep ==
  ASSUME Consistent, NEW p \in Procs, Drop(p)
  PROVE  Consistent'
  <1>1. Flush(p) /\ state' = state /\ sz' = sz /\ pages' = pages /\ free' = free
    BY DEF Drop
  <1>2. TlbInv' /\ \A q \in Procs : sz[q] <= sz'[q]
    BY <1>1, PartsOf, FlushStep, Layout
  <1> QED BY <1>1, <1>2, PartsOf, OldPages

-----------------------------------------------------------------------------
(* The theorems *)

LEMMA InvInit == Init => Consistent
  <1> SUFFICES ASSUME Init PROVE Consistent
    OBVIOUS
  <1>1. PICK p \in Procs : state = [q \in Procs |-> IF q = p THEN "boot" ELSE "unused"]
    BY DEF Init
  <1> DEFINE boot == Map(NoPages, 0, 1, "rw")
  <1>2. /\ sz = [q \in Procs |-> IF q = p THEN 1 ELSE 0]
        /\ pages = [q \in Procs |-> IF q = p THEN boot ELSE NoPages]
        /\ free = NFRAMES - 1 /\ tlb = [q \in Procs |-> None]
    BY <1>1 DEF Init
  <1>3. NoPages \in [Pages -> Protections] /\ MappedIn(NoPages) = {}
        /\ "rw" \in Protections /\ "rw" # "none"
        /\ \A a \in Pages : NoPages[a] = "none"
    BY DEF NoPages, Protections, MappedIn
  <1>4. boot \in [Pages -> Protections] /\ MappedIn(boot) = {0}
    <2>1. /\ boot \in [Pages -> Protections]
          /\ \A a \in Pages : boot[a] = IF 0 <= a /\ a < 1 THEN "rw" ELSE "none"
      BY <1>3, MapIs
    <2>2. 0 \in Pages /\ \A a \in Pages : (0 <= a /\ a < 1) <=> a = 0
      BY Layout DEF Pages
    <2> HIDE DEF boot
    <2> QED BY <2>1, <2>2 DEF MappedIn
  <1> HIDE DEF boot
  <1>5. TypeOK
    BY <1>1, <1>2, <1>3, <1>4, Layout DEF TypeOK, States
  <1>6. PagesBelowSize
    BY <1>2, <1>3, <1>4 DEF PagesBelowSize
  <1>7. LowPages
    BY <1>1, <1>2, <1>3, <1>4 DEF LowPages
  <1>8. FramesExact
    <2>1. Mapped = {p} \X MappedIn(boot)
      <3>1. \A q \in Procs, a \in Pages :
               pages[q][a] # "none" <=> q = p /\ boot[a] # "none"
        BY <1>2, <1>3
      <3>2. \A m \in Procs \X Pages : m \in Mapped <=> m \in {p} \X MappedIn(boot)
        BY <3>1 DEF Mapped, MappedIn
      <3> QED BY <3>2 DEF Mapped, MappedIn
    <2>2. Cardinality(Mapped) = 1
      <3>1. IsFiniteSet({0}) /\ Cardinality({0}) = 1
        BY FS_Singleton
      <3>2. Mapped = {p} \X {0}
        BY <1>4, <2>1
      <3>3. Cardinality({p} \X {0}) = Cardinality({0})
        BY <3>1, OneProcess, Zenon
      <3> QED BY <3>1, <3>2, <3>3
    <2>3. ~Booted
      BY <1>1 DEF Booted
    <2> QED BY <1>2, <2>2, <2>3, Layout DEF FramesExact
  <1>9. TlbExact /\ TlbLoaded
    BY <1>2 DEF TlbExact, TlbLoaded, Live
  <1> QED BY <1>5, <1>6, <1>7, <1>8, <1>9 DEF Consistent

LEMMA InvStep == Consistent /\ [Next]_vars => Consistent'
  BY GrowStep, ShrinkStep, MmapStep, MunmapStep, ProtectStep, ForkStep, ExecStep, QuitStep,
     WaitStep, LoadStep, DropStep, NoStep
  DEF Next

\* The inductive invariant holds in every state, for every layout and every number of
\* processes and physical pages.
THEOREM Consistency == Spec => []Consistent
  BY InvInit, InvStep, PTL DEF Spec

\* Whatever the order of sbrk(), mmap(), munmap() and fork(), no page is mapped at or
\* above the size of its process.
THEOREM SizesCover == Spec => []PagesBelowSize
  <1>1. Consistent => PagesBelowSize
    BY DEF Consistent
  <1> QED BY <1>1, Consistency, PTL

\* No physical page is lost or given away twice, but for initcode's: as many as kalloc()
\* gave to a process are mapped in it, and kfree() gets each of them once, on the failure
\* paths of sbrk(), mmap(), fork() and exec() too.
THEOREM FramesAreExact == Spec => []FramesExact
  <1>1. Consistent => FramesExact
    BY DEF Consistent
  <1> QED BY <1>1, Consistency, PTL

\* Only munmap(), munprotect() and an sbrk() of everything can leave the CPU with an
\* entry that the page table contradicts.
THEOREM TlbIsExact == Spec => []TlbExact
  <1>1. Consistent => TlbExact
    BY DEF Consistent
  <1> QED BY <1>1, Consistency, PTL

\* The search of mmap() is first fit, for every page table the programs can make, and
\* every hint whose range does not wrap: the recursion ends, for each step goes beyond
\* a page in the way, and skips no range that is free.
THEOREM SearchIsFirstFit == Spec => []FirstFit
  <1>1. Consistent => FirstFit
    BY SearchIsRight DEF Consistent
  <1> QED BY <1>1, Consistency, PTL

=============================================================================
