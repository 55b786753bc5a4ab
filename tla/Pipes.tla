------------------------------- MODULE Pipes -------------------------------
(***************************************************************************)
(* A pipe (practice5/kernel/pipe.c), the two struct files that lead to it  *)
(* (file.c) and the descriptors by which processes and threads share it    *)
(* (sys_pipe(), fork(), clone(), sys_close(), exit()), at the granularity  *)
(* of the critical sections of ftable.lock and of the pipe's lock.         *)
(*                                                                         *)
(* The model begins when a process returns from pipe(2).  A descriptor     *)
(* number is named by the end of the pipe it leads to: fork() and clone()  *)
(* copy descriptors to the same number, and there is no dup().             *)
(* Nothing is modelled of who is whose parent, and a zombie, which does    *)
(* nothing until wait() or join() frees its slot, counts as free at once.  *)
(* kill() hits any process at any time.                                    *)
(***************************************************************************)
EXTENDS Integers, Sequences, FiniteSets

CONSTANTS
    Procs,
    Bytes,
    PIPESIZE,
    BITS,           \* width of the counters nread and nwrite, 32 in the code
    Reads, Writes,  \* how many bytes programs ask read() and write() to move
    MaxRef,         \* bound: nobody forks when a file has as many references
    Calls,          \* what programs do, of "fork", "clone", "kill"
    None

ASSUME PipeAssumption ==
    /\ {PIPESIZE, BITS, MaxRef} \cup Reads \cup Writes \subseteq Nat \ {0}
    /\ PIPESIZE < 2 ^ BITS /\ (2 ^ BITS) % PIPESIZE = 0
ASSUME ProcsAssumption == IsFiniteSet(Procs)
ASSUME CallsAssumption == Calls \subseteq {"fork", "clone", "kill"}

Ends == {"r", "w"}      \* the read end and the write end

ASSUME NoneAssumption == None \notin Ends

VARIABLES
    life,               \* free or live
    thread,             \* made by clone()
    killed,
    fds,                \* proc.ofile; survives the exit of a thread
    pc, want,           \* the call a process is in, bytes it still has to move
    closing,            \* the end fileclose() has found unreferenced
    ref,                \* file.ref
    nread, nwrite, data,    \* struct pipe
    open,               \* readopen and writeopen
    freed,              \* the pipe was given to kfree()
    cutShort,           \* history: a killed writer left without wakeup(&nread)
    leaked              \* history: a thread exited with files open

procs == <<life, thread, killed, fds, pc, want, closing>>
ring == <<nread, nwrite, data>>
vars == <<procs, ref, ring, open, freed, cutShort, leaked>>

-----------------------------------------------------------------------------
Wrap(n) == n % (2 ^ BITS)
Used == Wrap(nwrite - nread)        \* bytes in the pipe
RoomOneMore == PIPESIZE - Used + 1      \* mutant: off by one
Room == PIPESIZE - Used
Lesser(m, n) == IF m < n THEN m ELSE n

Goto(p, c) == pc' = [pc EXCEPT ![p] = c]

\* The program counters after p goes to c and those that sleep at from wake up.
Wakeup(p, c, from, to) ==
    pc' = [q \in Procs |-> IF q = p THEN c
                           ELSE IF pc[q] = from THEN to ELSE pc[q]]
WakeReaders(p, c) == Wakeup(p, c, "rsleep", "read")
WakeWriters(p, c) == Wakeup(p, c, "wsleep", "write")

Init ==
    /\ \E p \in Procs :
        /\ life = [q \in Procs |-> IF q = p THEN "live" ELSE "free"]
        /\ fds = [q \in Procs |-> IF q = p THEN Ends ELSE {}]
    /\ thread = [p \in Procs |-> FALSE]
    /\ killed = [p \in Procs |-> FALSE]
    /\ pc = [p \in Procs |-> "user"]
    /\ want = [p \in Procs |-> 0]
    /\ closing = [p \in Procs |-> None]
    /\ ref = [e \in Ends |-> 1]
    /\ nread = 0 /\ nwrite = 0
    /\ data \in [0 .. PIPESIZE - 1 -> Bytes]
    /\ open = [e \in Ends |-> TRUE]
    /\ freed = FALSE
    /\ cutShort = FALSE /\ leaked = FALSE

InUser(p) == life[p] = "live" /\ pc[p] = "user"

-----------------------------------------------------------------------------
(* fork, clone, exit, wait and kill, as far as descriptors go *)

\* Mutant: the files are copied without filedup().
CopyUncounted(p, q, isThread) ==
    /\ InUser(p) /\ ~killed[p] /\ life[q] = "free"
    /\ \A e \in Ends : ref[e] < MaxRef
    /\ life' = [life EXCEPT ![q] = "live"]
    /\ thread' = [thread EXCEPT ![q] = isThread]
    /\ fds' = [fds EXCEPT ![q] = @ \cup fds[p]]
    /\ Goto(q, "user")
    /\ UNCHANGED <<killed, want, closing, ref, ring, open, freed, cutShort, leaked>>

\* fork() and clone() put the caller's files into the slot of the child, where
\* files that a thread left behind stay where the caller has none.
Copy(p, q, isThread) ==
    /\ InUser(p) /\ ~killed[p] /\ life[q] = "free"
    /\ \A e \in Ends : ref[e] < MaxRef
    /\ life' = [life EXCEPT ![q] = "live"]
    /\ thread' = [thread EXCEPT ![q] = isThread]
    /\ fds' = [fds EXCEPT ![q] = @ \cup fds[p]]
    /\ ref' = [e \in Ends |-> IF e \in fds[p] THEN ref[e] + 1 ELSE ref[e]]
    /\ Goto(q, "user")
    /\ UNCHANGED <<killed, want, closing, ring, open, freed, cutShort, leaked>>

Fork(p, q) == "fork" \in Calls /\ Copy(p, q, FALSE)
Clone(p, q) == "clone" \in Calls /\ Copy(p, q, TRUE)

\* A process calls exit(), or trap() makes it exit.
Exit(p) ==
    /\ InUser(p)
    /\ Goto(p, "exit")
    /\ UNCHANGED <<life, thread, killed, fds, want, closing, ref, ring, open,
                   freed, cutShort, leaked>>

\* fileclose() under ftable.lock, for the descriptor of e.
Drop(p, e) ==
    /\ fds' = [fds EXCEPT ![p] = @ \ {e}]
    /\ ref' = [ref EXCEPT ![e] = @ - 1]
    /\ closing' = [closing EXCEPT ![p] = IF ref[e] = 1 THEN e ELSE None]
    /\ UNCHANGED <<life, thread, killed, want, ring, open, freed, cutShort, leaked>>

\* exit() of a process closes its files one after the other, in the order of
\* their numbers; exit() of a thread does not.
ExitClose(p, e) ==
    /\ pc[p] = "exit" /\ ~thread[p] /\ closing[p] = None
    /\ e \in fds[p] /\ (e = "w" => "r" \notin fds[p])
    /\ Drop(p, e)
    /\ UNCHANGED pc

\* The slot is free again, once the parent has collected p.
Collected(p) ==
    /\ life' = [life EXCEPT ![p] = "free"]
    /\ thread' = [thread EXCEPT ![p] = FALSE]
    /\ killed' = [killed EXCEPT ![p] = FALSE]
    /\ Goto(p, "user")
    /\ UNCHANGED <<fds, want, closing, ref, ring, open, freed, cutShort>>

ExitWithFiles(p) ==     \* mutant: exit() closes nothing
    /\ pc[p] = "exit" /\ closing[p] = None
    /\ UNCHANGED leaked
    /\ Collected(p)

\* The end of exit(), and wait() or join() of the parent.
ExitZombie(p) ==
    /\ pc[p] = "exit" /\ closing[p] = None
    /\ thread[p] \/ fds[p] = {}
    /\ leaked' = (leaked \/ fds[p] # {})
    /\ Collected(p)

\* kill() wakes its target, unless it came between the target's check of killed
\* and its sleep().  Nothing else looks at killed in between, so that case is
\* the same as a kill of a sleeper that does not wake it.
Kill(p) ==
    /\ "kill" \in Calls /\ life[p] = "live" /\ ~killed[p]
    /\ killed' = [killed EXCEPT ![p] = TRUE]
    /\ \/ pc' = [pc EXCEPT ![p] = CASE @ = "rsleep" -> "read"
                                    [] @ = "wsleep" -> "write"
                                    [] OTHER -> @]
       \/ pc[p] \in {"rsleep", "wsleep"} /\ UNCHANGED pc
    /\ UNCHANGED <<life, thread, fds, want, closing, ref, ring, open, freed,
                   cutShort, leaked>>

-----------------------------------------------------------------------------
(* close, read and write *)

\* sys_close(), up to pipeclose().
Close(p, e) ==
    /\ InUser(p) /\ ~killed[p] /\ e \in fds[p]
    /\ Drop(p, e)
    /\ Goto(p, IF ref[e] = 1 THEN "close" ELSE "user")

\* pipeclose() under the pipe's lock.
PipeClose(p, e) ==
    LET c == IF pc[p] = "close" THEN "user" ELSE pc[p]
    IN  /\ closing[p] = e
        /\ open' = [open EXCEPT ![e] = FALSE]
        /\ IF e = "w" THEN WakeReaders(p, c) ELSE WakeWriters(p, c)
        /\ cutShort' = (cutShort /\ e # "w")
        /\ freed' = \A d \in Ends \ {e} : ~open[d]
        /\ closing' = [closing EXCEPT ![p] = None]
        /\ UNCHANGED <<life, thread, killed, fds, want, ref, ring, leaked>>

\* sys_read() and sys_write() of n bytes, up to the pipe's lock.
Call(p, c, e, sizes) ==
    /\ InUser(p) /\ ~killed[p] /\ e \in fds[p]
    /\ \E n \in sizes : want' = [want EXCEPT ![p] = n]
    /\ Goto(p, c)
    /\ UNCHANGED <<life, thread, killed, fds, closing, ref, ring, open, freed,
                   cutShort, leaked>>

Leave(p) == want' = [want EXCEPT ![p] = 0]

\* piperead() on an empty pipe that has writers: sleep, or give up if killed.
ReadEmpty(p) ==
    /\ pc[p] = "read" /\ Used = 0 /\ open["w"]
    /\ IF killed[p] THEN Goto(p, "user") /\ Leave(p)
                    ELSE Goto(p, "rsleep") /\ UNCHANGED want
    /\ UNCHANGED <<life, thread, killed, fds, closing, ref, ring, open, freed,
                   cutShort, leaked>>

\* piperead() takes what is there; nothing, at the end of the file.
ReadCopy(p) ==
    /\ pc[p] = "read" /\ (Used > 0 \/ ~open["w"])
    /\ nread' = Wrap(nread + Lesser(want[p], Used))
    /\ WakeWriters(p, "user") /\ Leave(p)
    /\ UNCHANGED <<life, thread, killed, fds, closing, ref, nwrite, data, open,
                   freed, cutShort, leaked>>

\* n bytes into the ring.
Store(n) ==
    /\ \E s \in [1 .. n -> Bytes] :
        data' = [i \in DOMAIN data |->
                    IF \E j \in 1 .. n : i = Wrap(nwrite + j - 1) % PIPESIZE
                    THEN s[CHOOSE j \in 1 .. n :
                                i = Wrap(nwrite + j - 1) % PIPESIZE]
                    ELSE data[i]]
    /\ nwrite' = Wrap(nwrite + n)
    /\ UNCHANGED nread

\* Mutant: no wakeup(&p->nread) at the end of pipewrite().
WriteAllSilently(p) ==
    /\ pc[p] = "write" /\ want[p] <= Room
    /\ Store(want[p])
    /\ Goto(p, "user") /\ Leave(p)
    /\ cutShort' = FALSE
    /\ UNCHANGED <<life, thread, killed, fds, closing, ref, open, freed,
                   leaked>>

\* pipewrite() finds room for all it has left.
WriteAll(p) ==
    /\ pc[p] = "write" /\ want[p] <= Room
    /\ Store(want[p])
    /\ WakeReaders(p, "user") /\ Leave(p)
    /\ cutShort' = FALSE
    /\ UNCHANGED <<life, thread, killed, fds, closing, ref, open, freed,
                   leaked>>

\* pipewrite() fills the pipe and wakes the readers to sleep until there is room.
WriteFull(p) ==
    /\ pc[p] = "write" /\ want[p] > Room
    /\ open["r"] /\ ~killed[p]
    /\ Store(Room)
    /\ want' = [want EXCEPT ![p] = @ - Room]
    /\ WakeReaders(p, "wsleep")
    /\ cutShort' = FALSE
    /\ UNCHANGED <<life, thread, killed, fds, closing, ref, open, freed,
                   leaked>>

\* pipewrite() fills the pipe and fails: no reader is left, or p is killed.
WriteFails(p) ==
    /\ pc[p] = "write" /\ want[p] > Room
    /\ ~open["r"] \/ killed[p]
    /\ Store(Room)
    /\ Goto(p, "user") /\ Leave(p)
    /\ cutShort' = (cutShort \/ Room > 0)
    /\ UNCHANGED <<life, thread, killed, fds, closing, ref, open, freed,
                   leaked>>

-----------------------------------------------------------------------------
\* What a process does in the kernel without waiting for anybody.
KernelStep(p) ==
    \/ \E e \in Ends : ExitClose(p, e) \/ PipeClose(p, e)
    \/ ExitZombie(p)
    \/ ReadEmpty(p) \/ ReadCopy(p)
    \/ WriteAll(p) \/ WriteFull(p) \/ WriteFails(p)

UserStep(p) ==
    \/ \E q \in Procs : Fork(p, q) \/ Clone(p, q)
    \/ \E e \in Ends : Close(p, e)
    \/ Call(p, "read", "r", Reads) \/ Call(p, "write", "w", Writes)
    \/ Exit(p)

Next ==
    \E p \in Procs : KernelStep(p) \/ UserStep(p) \/ Kill(p)

Spec == Init /\ [][Next]_vars

-----------------------------------------------------------------------------
(* Properties *)

\* The values the variables take.
TypeOK ==
    /\ life \in [Procs -> {"free", "live"}]
    /\ thread \in [Procs -> BOOLEAN] /\ killed \in [Procs -> BOOLEAN]
    /\ fds \in [Procs -> SUBSET Ends]
    /\ pc \in [Procs -> {"user", "read", "rsleep", "write", "wsleep", "close",
                         "exit"}]
    /\ want \in [Procs -> Nat]
    /\ closing \in [Procs -> Ends \cup {None}]
    /\ ref \in [Ends -> Nat]
    /\ {nread, nwrite} \subseteq 0 .. 2 ^ BITS - 1
    /\ data \in [0 .. PIPESIZE - 1 -> Bytes]
    /\ open \in [Ends -> BOOLEAN]
    /\ {freed, cutShort, leaked} \subseteq BOOLEAN

\* An end is open exactly as long as a descriptor leads to it (or the last one
\* is being closed), and the pipe is freed exactly when both are closed: it is
\* neither used after kfree() nor leaked, however forks, closes and exits of
\* several processes interleave.  Only a thread's exit leaks, never frees early:
\* what it leaves in its slot is counted, and the next child there counts again.
EndsExact ==
    /\ \A e \in Ends :
        LET used == \E p \in Procs : e \in fds[p] \/ closing[p] = e
        IN  (used => open[e]) /\ (open[e] => used \/ leaked)
    /\ freed <=> \A e \in Ends : ~open[e]

\* Nobody sleeps on a pipe that has what he waits for, with one exception in
\* the code: a killed writer that fills the pipe returns without waking the
\* readers, and they sleep on until the next write or close.
NoLostWakeup ==
    \A p \in Procs :
        /\ pc[p] = "rsleep" => (Used = 0 \/ cutShort) /\ open["w"]
        /\ pc[p] = "wsleep" => Room = 0 /\ open["r"]

\* The ring buffer with its wrapping counters implements a bounded FIFO.
Queue == INSTANCE BoundedFifo WITH
    Items <- Bytes, Capacity <- PIPESIZE,
    fifo <- [i \in 1 .. Used |-> data[Wrap(nread + i - 1) % PIPESIZE]]

ImplementsFifo == Queue!FifoSpec

\* A reader gets its end of file: it sleeps only while a process lives that can
\* still write, or is about to close the write end.
EndOfFile ==
    \A p \in Procs :
        pc[p] = "rsleep" =>
            \E q \in Procs : life[q] = "live" /\ ("w" \in fds[q] \/ closing[q] = "w")

\* It does, unless a thread has exited with files open.
ReaderHasWriter == leaked \/ EndOfFile

=============================================================================
