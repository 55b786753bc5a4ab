--------------------------- MODULE AddressSpaces ---------------------------
(***************************************************************************)
(* The address spaces of processes in practice4: sbrk(), fork(), exec(),   *)
(* mmap(), munmap(), mprotect() and munprotect() (kernel/sysproc.c, vm.c,  *)
(* proc.c, exec.c), page faults (trap.c), and the TLB of the CPU that the  *)
(* process runs on, which the kernel has to flush.                         *)
(*                                                                         *)
(* The unit is the page: addresses and sizes are numbers of pages, and     *)
(* sums of addresses wrap at ADDRESSES as they do at 2^32.  Of the         *)
(* physical pages on kalloc()'s list, those for user memory are counted,   *)
(* each kalloc() and kfree() as the code makes it; pages for page tables   *)
(* may be missing at any time.  A system call is one step, for a process   *)
(* has one thread here.                                                    *)
(*                                                                         *)
(* Of the TLB one entry per process is followed, whichever: what is stated *)
(* is about every single entry.                                            *)
(***************************************************************************)
EXTENDS Integers, FiniteSets, FiniteSetsExt

CONSTANTS Procs,
          USERBASE, MMAPBASE, KERNBASE,
          ADDRESSES,      \* pages in 2^32 bytes
          NFRAMES,        \* physical pages
          MaxLen,         \* longest range that the programs ask for
          ImageSize,      \* pages of a program with its stack
          None

ASSUME ProcsAssumption == IsFiniteSet(Procs)

ASSUME LayoutAssumption ==
    /\ {USERBASE, MMAPBASE, KERNBASE, ADDRESSES, NFRAMES, MaxLen, ImageSize} \subseteq Nat
    /\ 0 < USERBASE /\ USERBASE + ImageSize <= MMAPBASE
    /\ MMAPBASE < KERNBASE /\ KERNBASE < ADDRESSES
    /\ MaxLen <= ADDRESSES - KERNBASE /\ 0 < ImageSize /\ 0 < NFRAMES

VARIABLES state,          \* of each process, one of States
          sz,             \* proc->sz, rounded up to pages: the first page beyond
          pages,          \* proc->pgdir: what each user page is mapped as
          free,           \* physical pages on kalloc()'s list
          tlb             \* an entry that the CPU holds for the process, or None

vars == <<state, sz, pages, free, tlb>>

\* initcode, another program, one that faults in the kernel for ever, and the rest.
States == {"boot", "live", "stuck", "zombie", "unused"}
Pages == 0 .. KERNBASE - 1
Protections == {"none", "ro", "rw"}
NoPages == [a \in Pages |-> "none"]
MappedIn(pg) == {a \in Pages : pg[a] # "none"}
Live == {p \in Procs : state[p] = "live"}

\* A program runs, and makes calls, only while the page of its next instruction is
\* mapped, or the TLB remembers it.
Runs(p) == p \in Live /\ (MappedIn(pages[p]) # {} \/ tlb[p] # None)

Flush(p) == tlb' = [tlb EXCEPT ![p] = None]

\* An entry of the TLB for a page whose mapping changes without a flush.
Stale(p, from, to) ==
    tlb' = [tlb EXCEPT ![p] = IF @ # None /\ @.page >= from /\ @.page < to
                              THEN [@ EXCEPT !.stale = TRUE] ELSE @]

(***************************************************************************)
(* vm.c                                                                    *)
(***************************************************************************)
\* mappages() of [from, to), a page at a time.
Map(pg, from, to, prot) == [a \in Pages |-> IF from <= a /\ a < to THEN prot ELSE pg[a]]

\* deallocuvm() of [newsz, oldsz): the pages that remain.
deallocuvm(pg, oldsz, newsz) == Map(pg, newsz, oldsz, "none")

\* The pages that deallocuvm() of [newsz, oldsz) gives to kfree().
Freed(pg, oldsz, newsz) == Cardinality(MappedIn(pg) \cap (newsz .. oldsz - 1))

\* freevm() frees what is mapped from USERBASE on, and then the page table.
FreedWithTable(pg) == Freed(pg, KERNBASE, USERBASE)

\* kalloc(), mappages() and the next page, from `from' to `to': panics if one is
\* mapped already, here the page that was there is lost.
Allocate(p, from, to, prot) ==
    /\ Cardinality(from .. to - 1) <= free
    /\ pages' = [pages EXCEPT ![p] = Map(@, from, to, prot)]
    /\ free' = free - Cardinality(from .. to - 1)

\* Mutant: the page that mappages() could not enter is not freed.
UndoneButOne(p, from, to, prot, upto) ==
    \E k \in from .. to - 1 :
      LET some == Map(pages[p], from, k, prot)
      IN  /\ k - from < free
          /\ pages' = [pages EXCEPT ![p] = deallocuvm(some, upto[k], from)]
          /\ free' = free - (k - from) + Freed(some, upto[k], from) - 1

\* The pages from..to-1 are allocated one after the other until one cannot be
\* had, or cannot be entered and is freed, and those before it are given back, by
\* deallocuvm(pgdir, upto[k], from) when k is the one that could not.
Undone(p, from, to, prot, upto) ==
    \E k \in from .. to - 1 :
      LET some == Map(pages[p], from, k, prot)
      IN  /\ k - from <= free
          /\ pages' = [pages EXCEPT ![p] = deallocuvm(some, upto[k], from)]
          /\ free' = free - (k - from) + Freed(some, upto[k], from)

(***************************************************************************)
(* sbrk()                                                                  *)
(***************************************************************************)
\* allocuvm() gives up when the size in bytes reaches KERNBASE, and for want of
\* memory; the page below KERNBASE can be had in part.
Grow(p, n) ==
    /\ Runs(p) /\ n > 0
    /\ \/ /\ sz[p] + n <= KERNBASE
          /\ Allocate(p, sz[p], sz[p] + n, "rw")
          /\ sz' = [sz EXCEPT ![p] = @ + n]
          /\ Flush(p)
       \/ /\ sz[p] + n <= KERNBASE
          /\ Undone(p, sz[p], sz[p] + n, "rw", [k \in Nat |-> sz[p] + n])
          /\ UNCHANGED <<sz, tlb>>
       \/ /\ sz[p] + n >= KERNBASE
          /\ UNCHANGED <<sz, pages, free, tlb>>
    /\ UNCHANGED state

\* A program that gives back its whole memory gets -1: its size stays, and the
\* TLB is not flushed.
Shrink(p, n) ==
    /\ Runs(p) /\ n > 0 /\ n <= sz[p]
    /\ pages' = [pages EXCEPT ![p] = deallocuvm(@, sz[p], sz[p] - n)]
    /\ free' = free + Freed(pages[p], sz[p], sz[p] - n)
    /\ \/ /\ sz[p] = n
          /\ Stale(p, 0, sz[p])
          /\ UNCHANGED sz
       \/ /\ sz[p] # n
          /\ sz' = [sz EXCEPT ![p] = @ - n]
          /\ Flush(p)
    /\ UNCHANGED state

(***************************************************************************)
(* mmap() and munmap()                                                     *)
(***************************************************************************)
RangeEnd(start, len) == (start + len) % ADDRESSES

\* Mutant: a range that reaches up to KERNBASE is taken for one that is too long.
FindRangeShort(pg, hint, len) ==
    LET search[start \in 0 .. ADDRESSES - 1] ==
          LET taken == {a \in MappedIn(pg) : start <= a /\ a < RangeEnd(start, len)}
          IN  IF RangeEnd(start, len) >= KERNBASE - 1 THEN None
              ELSE IF taken = {} THEN start
              ELSE search[Min(taken) + 1]
    IN  search[Max({hint, MMAPBASE})]

\* The search: from the hint on, or from MMAPBASE, past every mapped page.
FindRange(pg, hint, len) ==
    LET search[start \in 0 .. ADDRESSES - 1] ==
          LET taken == {a \in MappedIn(pg) : start <= a /\ a < RangeEnd(start, len)}
          IN  IF RangeEnd(start, len) >= KERNBASE THEN None
              ELSE IF taken = {} THEN start
              ELSE search[Min(taken) + 1]
    IN  search[Max({hint, MMAPBASE})]

Hints == 0 .. ADDRESSES - 1

\* Mutant: mmap() leaves the size alone.
MmapNoSize(p, len, prot) ==
    /\ Runs(p)
    /\ \E start \in {FindRange(pages[p], hint, len) : hint \in Hints} \ {None} :
         Allocate(p, start, RangeEnd(start, len), prot)
    /\ UNCHANGED <<state, sz, tlb>>

Mmap(p, len, prot) ==
    /\ Runs(p)
    /\ \E start \in {FindRange(pages[p], hint, len) : hint \in Hints} \ {None} :
         LET end == RangeEnd(start, len)
         IN  \/ /\ Allocate(p, start, end, prot)
                /\ sz' = [sz EXCEPT ![p] = Max({@, end})]
             \/ /\ Undone(p, start, end, prot, [k \in Nat |-> k])
                /\ UNCHANGED sz
    /\ UNCHANGED <<state, tlb>>

\* Programs unmap below KERNBASE.  The size stays: the code compares the end of
\* the range with the address of the page directory, which is above KERNBASE.
Munmap(p, addr, len) ==
    /\ Runs(p) /\ addr < sz[p] /\ addr + len <= KERNBASE
    /\ pages' = [pages EXCEPT ![p] = deallocuvm(@, addr + len, addr)]
    /\ free' = free + Freed(pages[p], addr + len, addr)
    /\ Stale(p, addr, addr + len)
    /\ UNCHANGED <<state, sz>>

(***************************************************************************)
(* mprotect() and munprotect()                                             *)
(***************************************************************************)
Present(p, addr, len) ==
    /\ addr < sz[p]
    /\ addr .. addr + len - 1 \subseteq MappedIn(pages[p])

\* Mutant: no flush.
MprotectNoFlush(p, addr, len) ==
    /\ Runs(p) /\ Present(p, addr, len)
    /\ pages' = [pages EXCEPT ![p] = Map(@, addr, addr + len, "ro")]
    /\ UNCHANGED <<state, sz, free, tlb>>

Mprotect(p, addr, len) ==
    /\ Runs(p) /\ Present(p, addr, len)
    /\ pages' = [pages EXCEPT ![p] = Map(@, addr, addr + len, "ro")]
    /\ Flush(p)
    /\ UNCHANGED <<state, sz, free>>

Munprotect(p, addr, len) ==
    /\ Runs(p) /\ Present(p, addr, len)
    /\ pages' = [pages EXCEPT ![p] = Map(@, addr, addr + len, "rw")]
    /\ Stale(p, addr, addr + len)
    /\ UNCHANGED <<state, sz, free>>

(***************************************************************************)
(* fork(), exec(), exit() and wait()                                       *)
(***************************************************************************)
\* copyuvm() copies what is mapped from USERBASE to the size, with its protection.
copyuvm(pg, size) ==
    [a \in Pages |-> IF USERBASE <= a /\ a < size THEN pg[a] ELSE "none"]

\* A copy that ends at page k for want of memory goes to freevm().
Fork(p, q) ==
    /\ Runs(p) /\ state[q] = "unused"
    /\ \/ LET copy == copyuvm(pages[p], sz[p])
          IN  /\ Cardinality(MappedIn(copy)) <= free
              /\ pages' = [pages EXCEPT ![q] = copy]
              /\ free' = free - Cardinality(MappedIn(copy))
              /\ state' = [state EXCEPT ![q] = "live"]
              /\ sz' = [sz EXCEPT ![q] = sz[p]]
       \/ \E k \in USERBASE .. sz[p] - 1 :
            LET part == copyuvm(pages[p], k)
            IN  /\ Cardinality(MappedIn(part)) <= free
                /\ free' = free - Cardinality(MappedIn(part)) + FreedWithTable(part)
                /\ UNCHANGED <<state, sz, pages>>
    /\ UNCHANGED tlb

Image(size) == Map(NoPages, USERBASE, USERBASE + size, "rw")

\* The new image is complete before the old one is freed; one that is not goes to
\* freevm().  initcode makes no other call.
Exec(p) ==
    /\ state[p] = "boot" \/ Runs(p)
    /\ \/ /\ ImageSize <= free
          /\ pages' = [pages EXCEPT ![p] = Image(ImageSize)]
          /\ free' = free - ImageSize + FreedWithTable(pages[p])
          /\ state' = [state EXCEPT ![p] = "live"]
          /\ sz' = [sz EXCEPT ![p] = USERBASE + ImageSize]
          /\ Flush(p)
       \/ \E k \in 0 .. ImageSize - 1 :
            /\ k <= free
            /\ free' = free - k + FreedWithTable(Image(k))
            /\ UNCHANGED <<state, sz, pages, tlb>>

\* What is left of a process that exits.
Quit(p) ==
    /\ state' = [state EXCEPT ![p] = "zombie"]
    /\ Flush(p)
    /\ UNCHANGED <<sz, pages, free>>

Exit(p) == Runs(p) /\ Quit(p)

\* wait() calls freevm().
Wait(p) ==
    /\ state[p] = "zombie"
    /\ pages' = [pages EXCEPT ![p] = NoPages]
    /\ free' = free + FreedWithTable(pages[p])
    /\ state' = [state EXCEPT ![p] = "unused"]
    /\ UNCHANGED <<sz, tlb>>

(***************************************************************************)
(* Accesses.  The CPU keeps what it found in the page table, and drops     *)
(* entries when it likes; a switch to another process drops all.           *)
(***************************************************************************)
Load(p, a) ==
    /\ p \in Live /\ pages[p][a] # "none" /\ tlb[p] = None
    /\ tlb' = [tlb EXCEPT ![p] = [page |-> a, as |-> pages[p][a], stale |-> FALSE]]
    /\ UNCHANGED <<state, sz, pages, free>>

Drop(p) ==
    /\ tlb[p] # None
    /\ Flush(p)
    /\ UNCHANGED <<state, sz, pages, free>>

\* What p's access to page a finds.
Seen(p, a) == IF tlb[p] # None /\ tlb[p].page = a THEN tlb[p].as ELSE pages[p][a]

\* T_PGFLT in user code: the process is killed, and exits.
PageFault(p) ==
    /\ p \in Live
    /\ \E a \in Pages : Seen(p, a) # "rw"
    /\ Quit(p)

\* T_PGFLT in a call that uses an address below the size: the process is killed,
\* but trap() returns to the instruction, which faults again, for ever.  It never
\* comes back to user code, so what the TLB had for it no longer counts.
KernelFault(p) ==
    /\ Runs(p)
    /\ \E a \in Pages : a < sz[p] /\ Seen(p, a) # "rw"
    /\ state' = [state EXCEPT ![p] = "stuck"]
    /\ Flush(p)
    /\ UNCHANGED <<sz, pages, free>>

(***************************************************************************)
(* The specification                                                       *)
(***************************************************************************)
\* userinit() has mapped initcode at address 0.
Init ==
    /\ \E p \in Procs : state = [q \in Procs |-> IF q = p THEN "boot" ELSE "unused"]
    /\ sz = [p \in Procs |-> IF state[p] = "boot" THEN 1 ELSE 0]
    /\ pages = [p \in Procs |-> IF state[p] = "boot" THEN Map(NoPages, 0, 1, "rw")
                                                    ELSE NoPages]
    /\ free = NFRAMES - 1
    /\ tlb = [p \in Procs |-> None]

Lengths == 1 .. MaxLen

Next == \E p \in Procs :
    \/ \E n \in Lengths : Grow(p, n)
    \/ \E n \in Lengths \cup {sz[p]} : Shrink(p, n)
    \/ \E n \in Lengths, prot \in {"ro", "rw"} : Mmap(p, n, prot)
    \/ \E a \in Pages, n \in Lengths :
         \/ Munmap(p, a, n)
         \/ Mprotect(p, a, n)
         \/ Munprotect(p, a, n)
    \/ \E q \in Procs : Fork(p, q)
    \/ Exec(p)
    \/ Exit(p)
    \/ Wait(p)
    \/ \E a \in Pages : Load(p, a)
    \/ Drop(p)
    \/ PageFault(p)
    \/ KernelFault(p)

Spec == Init /\ [][Next]_vars

(***************************************************************************)
(* Properties                                                              *)
(***************************************************************************)
TypeOK ==
    /\ state \in [Procs -> States]
    /\ sz \in [Procs -> 0 .. KERNBASE]
    /\ pages \in [Procs -> [Pages -> Protections]]
    /\ free \in 0 .. NFRAMES
    /\ tlb \in [Procs -> {None} \cup [page : Pages, as : Protections, stale : BOOLEAN]]

\* No page at or above the size of its process is mapped, in whatever order it
\* calls mmap(), munmap(), sbrk() and fork(): sbrk() never maps a page twice (a
\* panic), and fork(), which copies up to the size, forgets none.
PagesBelowSize == \A p \in Procs : \A a \in MappedIn(pages[p]) : a < sz[p]

\* Every physical page is on kalloc()'s list or mapped in one process, whatever is
\* mapped, copied and freed in whatever order, failures half way and their undoing
\* included, but for one: freevm() frees nothing below USERBASE, and so the exec() of
\* initcode loses its page at 0.  Nothing else is ever lost, or freed twice.
Mapped == {m \in Procs \X Pages : pages[m[1]][m[2]] # "none"}
Booted == \A p \in Procs : state[p] # "boot"

FramesExact == free + Cardinality(Mapped) = IF Booted THEN NFRAMES - 1 ELSE NFRAMES

\* The search of mmap() finds the first range at or after the hint that is free
\* and ends below KERNBASE, and finds one if there is one, for every hint whose
\* range does not wrap at the end of the addresses.
FirstFit ==
    \A p \in Live, hint \in Hints, n \in Lengths :
      hint + n < ADDRESSES =>
        LET room == {s \in MMAPBASE .. KERNBASE - 1 :
                       /\ s >= hint /\ s + n < KERNBASE
                       /\ s .. s + n - 1 \cap MappedIn(pages[p]) = {}}
        IN  FindRange(pages[p], hint, n) = IF room = {} THEN None ELSE Min(room)

\* What the CPU remembers of a page is what the page table says, unless munmap(),
\* munprotect() or an sbrk() of everything, which do not flush, changed it since:
\* a protected page cannot be written through an old entry, and what any other
\* sbrk() took away is gone.
TlbExact ==
    \A p \in Live : tlb[p] # None =>
      tlb[p].stale \/ pages[p][tlb[p].page] = tlb[p].as

\* The CPU remembers only what it loaded, below the size of a process that runs.
TlbLoaded ==
    \A p \in Procs : tlb[p] # None =>
        /\ p \in Live
        /\ tlb[p].as # "none" /\ tlb[p].page < sz[p]

\* initcode is alone, with its page; no other program has a page below USERBASE, and
\* a free slot has none at all.
LowPages ==
    /\ \A p \in Procs : \A a \in MappedIn(pages[p]) :
            a >= USERBASE \/ (state[p] = "boot" /\ a = 0)
    /\ \A p \in Procs : state[p] = "boot" =>
            MappedIn(pages[p]) = {0} /\ \A q \in Procs \ {p} : state[q] = "unused"
    /\ \A p \in Procs : state[p] = "unused" => MappedIn(pages[p]) = {}
    /\ \A p \in Procs : tlb[p] # None => tlb[p].page >= USERBASE

\* The inductive invariant: what the steps of all processes preserve together.
Consistent ==
    /\ TypeOK
    /\ PagesBelowSize
    /\ LowPages
    /\ FramesExact
    /\ TlbExact
    /\ TlbLoaded
=============================================================================
