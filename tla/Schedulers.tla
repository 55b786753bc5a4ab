----------------------------- MODULE Schedulers -----------------------------
(***************************************************************************)
(* The three schedulers of practice3 (kernel/proc.c) and the time slices   *)
(* that the clock hands out (kernel/trap.c).  The policy is chosen when    *)
(* the kernel is compiled, here in Init.                                   *)
(*                                                                         *)
(* Every step is one critical section of ptable.lock, or one clock         *)
(* interrupt.  What a process does between two of them is left out: it     *)
(* may fork, exit, sleep, set priorities and the latency at any time.      *)
(*                                                                         *)
(* rand() is a linear congruential generator modulo 2^32.  Its low w bits  *)
(* are the same generator modulo 2^w, so the model keeps BITS of them.     *)
(*                                                                         *)
(* Left out: ct and the value of delay (only "never run yet", -1, decides  *)
(* anything), rt under the policies that do not read it, and timeslice of  *)
(* a process without a CPU, which is set anew when it gets one.            *)
(***************************************************************************)
EXTENDS Integers, FiniteSets, FiniteSetsExt

CONSTANTS NPROC,          \* slots of the process table
          Cpus,
          Machines,       \* kernels and hardware to explore: a policy and a set of CPUs
          Calls,          \* the calls that processes make in this instance
          MIN_TICKETS, MAX_TICKETS, PENALTY,
          MAX_TS,         \* ticks after which the hybrid scheduler takes tickets away
          MAX_LATENCY,    \* 10 in set_schedlatency()
          BITS,           \* bits of randstate that the model keeps
          NoProc

ASSUME TicketAssumption == /\ MIN_TICKETS \in Nat \ {0} /\ MAX_TICKETS \in Nat
                           /\ MIN_TICKETS <= MAX_TICKETS
                           /\ PENALTY \in Nat
ASSUME MachineAssumption ==
    Machines \subseteq [policy : {"rr", "lottery", "hybrid"}, cpus : SUBSET Cpus]
ASSUME SliceAssumption == MAX_TS \in Nat \ {0} /\ MAX_LATENCY \in Nat \ {0}

Slots == 1 .. NPROC
ASSUME TableAssumption == NPROC \in Nat \ {0} /\ NoProc \notin Slots /\ BITS \in Nat
InitProc == 1             \* the first process; it never exits

VARIABLES policy,         \* SCHEDULER
          cpus,           \* the CPUs of the machine
          proc,           \* ptable.proc: state and sched_data
          running,        \* cpus[c].proc
          slice,          \* timeslice of the process that runs on c
          cursor,         \* where the loop of rr_scheduler() on c goes on
          forking,        \* the embryo that the fork() of a process builds
          schedLatency,   \* sched_latency
          randstate

schedVars == <<policy, cpus, proc, running, slice, cursor, forking, schedLatency, randstate>>

States == {"UNUSED", "EMBRYO", "SLEEPING", "RUNNABLE", "RUNNING", "ZOMBIE"}
InUse(i) == proc[i].state \notin {"UNUSED", "ZOMBIE"}

(***************************************************************************)
(* sched_data                                                              *)
(***************************************************************************)
init_sched_data == [tickets |-> MIN_TICKETS, rt |-> 0, new |-> TRUE]

\* A process that gets a CPU.
Chosen(p) == [p EXCEPT !.state = "RUNNING", !.sched.new = FALSE]

\* Under the hybrid scheduler, the first time and later.
Welcomed(p) == [Chosen(p) EXCEPT !.sched.tickets = MAX_TICKETS]

\* Mutant: the penalty may take the last ticket.
PenaliseToNothing(p) ==
    IF p.sched.rt < MAX_TS THEN Chosen(p)
    ELSE [Chosen(p) EXCEPT !.sched.tickets = Max({@ - PENALTY, 0}), !.sched.rt = 0]

Penalised(p) ==
    IF p.sched.rt < MAX_TS THEN Chosen(p)
    ELSE [Chosen(p) EXCEPT !.sched.tickets = Max({@ - PENALTY, MIN_TICKETS}),
                           !.sched.rt = 0]

(***************************************************************************)
(* The choice of the next process                                          *)
(***************************************************************************)
Ready(tab) == {i \in Slots : tab[i].state = "RUNNABLE"}
Newcomers == {i \in Ready(proc) : proc[i].sched.new}

\* current_ticket after the first i slots.
TicketsUpTo[i \in 0 .. NPROC] ==
    IF i = 0 THEN 0
    ELSE TicketsUpTo[i - 1] + IF i \in Ready(proc) THEN proc[i].sched.tickets ELSE 0
TotalTickets == TicketsUpTo[NPROC]

\* 2^BITS, as a recursive function: the proofs go bit by bit.
Power2[n \in Nat] == IF n = 0 THEN 1 ELSE 2 * Power2[n - 1]
Period == Power2[BITS]

rand(state) == (state * 1664525 + 1013904223) % Period

\* Mutant: the comparison is off by one.
WinnerOffByOne(random) ==
    Min({i \in Ready(proc) : TicketsUpTo[i] >= random % TotalTickets})

\* The first whose tickets reach beyond the winning one; there always is one.
Winner(random) ==
    Min({i \in Ready(proc) : TicketsUpTo[i] > random % TotalTickets})

(***************************************************************************)
(* The schedulers.  rr_scheduler() goes on with its loop over the table,   *)
(* lock held, where it dispatched last; the others start over.             *)
(***************************************************************************)
Dispatch(c, tab, i, p) ==
    /\ proc' = [tab EXCEPT ![i] = p]
    /\ running' = [running EXCEPT ![c] = i]
    /\ slice' = [slice EXCEPT ![c] = schedLatency]

Idle(c, tab) ==
    /\ proc' = tab
    /\ running' = [running EXCEPT ![c] = NoProc]
    /\ slice' = [slice EXCEPT ![c] = 0]

\* Mutant: every scan begins at the first slot.
RunFirst(c, tab) ==
    \/ /\ Ready(tab) = {}
       /\ Idle(c, tab)
       /\ UNCHANGED cursor
    \/ /\ Ready(tab) # {}
       /\ Dispatch(c, tab, Min(Ready(tab)), Chosen(tab[Min(Ready(tab))]))
       /\ UNCHANGED cursor

\* The rest of the loop of rr_scheduler() over the table.
RunNext(c, tab) ==
    LET ahead == {i \in Ready(tab) : i >= cursor[c]}
    IN  \/ /\ ahead = {}
           /\ Idle(c, tab)
           /\ cursor' = [cursor EXCEPT ![c] = 1]
        \/ /\ ahead # {}
           /\ Dispatch(c, tab, Min(ahead), Chosen(tab[Min(ahead)]))
           /\ cursor' = [cursor EXCEPT ![c] = Min(ahead) + 1]

\* The process on c gives up the CPU; tab is the table it leaves behind.
Sched(c, tab) == \/ policy = "rr" /\ RunNext(c, tab)
                 \/ policy # "rr" /\ Idle(c, tab) /\ UNCHANGED cursor

RoundRobin(c) ==
    /\ policy = "rr" /\ running[c] = NoProc
    /\ RunNext(c, proc)
    /\ UNCHANGED <<policy, cpus, forking, schedLatency, randstate>>

Lottery(c) ==
    /\ policy = "lottery" /\ running[c] = NoProc /\ Ready(proc) # {}
    /\ randstate' = rand(randstate)
    /\ LET i == Winner(randstate') IN Dispatch(c, proc, i, Chosen(proc[i]))
    /\ UNCHANGED <<policy, cpus, cursor, forking, schedLatency>>

HybridFirst(c) ==
    /\ policy = "hybrid" /\ running[c] = NoProc /\ Newcomers # {}
    /\ LET i == Min(Newcomers) IN Dispatch(c, proc, i, Welcomed(proc[i]))
    /\ UNCHANGED <<policy, cpus, cursor, forking, schedLatency, randstate>>

HybridDraw(c) ==
    /\ policy = "hybrid" /\ running[c] = NoProc
    /\ Newcomers = {} /\ Ready(proc) # {}
    /\ randstate' = rand(randstate)
    /\ LET i == Winner(randstate') IN Dispatch(c, proc, i, Penalised(proc[i]))
    /\ UNCHANGED <<policy, cpus, cursor, forking, schedLatency>>

Scheduler(c) == RoundRobin(c) \/ Lottery(c) \/ HybridFirst(c) \/ HybridDraw(c)

(***************************************************************************)
(* The clock: trap() counts the slice down and yields when it is used up.  *)
(***************************************************************************)
Tick(c) ==
    /\ running[c] # NoProc /\ slice[c] > 0
    /\ slice' = [slice EXCEPT ![c] = @ - 1]
    /\ proc' = [proc EXCEPT ![running[c]].sched.rt = IF policy = "hybrid" THEN @ + 1 ELSE @]
    /\ UNCHANGED <<policy, cpus, running, cursor, forking, schedLatency, randstate>>

Yield(c) ==
    /\ running[c] # NoProc /\ slice[c] = 0
    /\ Sched(c, [proc EXCEPT ![running[c]].state = "RUNNABLE"])
    /\ UNCHANGED <<policy, cpus, forking, schedLatency, randstate>>

(***************************************************************************)
(* System calls of the process on CPU c, outside the handler of the clock. *)
(***************************************************************************)
InCall(c, call) == /\ call \in Calls
                   /\ running[c] # NoProc /\ slice[c] > 0

Unused == {i \in Slots : proc[i].state = "UNUSED"}

allocproc(c) ==
    /\ InCall(c, "fork") /\ forking[running[c]] = NoProc /\ Unused # {}
    /\ proc' = [proc EXCEPT ![Min(Unused)] = [state |-> "EMBRYO", sched |-> init_sched_data]]
    /\ forking' = [forking EXCEPT ![running[c]] = Min(Unused)]
    /\ UNCHANGED <<policy, cpus, running, slice, cursor, schedLatency, randstate>>

\* fork() comes to its end, or fails for want of memory.
EndFork(c, state) ==
    /\ InCall(c, "fork") /\ forking[running[c]] # NoProc
    /\ proc' = [proc EXCEPT ![forking[running[c]]].state = state]
    /\ forking' = [forking EXCEPT ![running[c]] = NoProc]
    /\ UNCHANGED <<policy, cpus, running, slice, cursor, schedLatency, randstate>>

Leave(c, call, state) ==
    /\ InCall(c, call) /\ forking[running[c]] = NoProc
    /\ Sched(c, [proc EXCEPT ![running[c]].state = state])
    /\ UNCHANGED <<policy, cpus, forking, schedLatency, randstate>>

exit(c) == running[c] # InitProc /\ Leave(c, "exit", "ZOMBIE")
sleep(c) == Leave(c, "sleep", "SLEEPING")

wait(c, i) ==
    /\ InCall(c, "exit") /\ proc[i].state = "ZOMBIE"
    /\ proc' = [proc EXCEPT ![i].state = "UNUSED"]
    /\ UNCHANGED <<policy, cpus, running, slice, cursor, forking, schedLatency, randstate>>

\* By an interrupt, or by another process.
wakeup(i) ==
    /\ proc[i].state = "SLEEPING"
    /\ proc' = [proc EXCEPT ![i].state = "RUNNABLE"]
    /\ UNCHANGED <<policy, cpus, running, slice, cursor, forking, schedLatency, randstate>>

\* The pid given may be that of any slot, of a free one too: 0, or the pid that
\* a failed fork() left there.
set_priority(c, i, n) ==
    /\ InCall(c, "setpriority") /\ n >= MIN_TICKETS /\ n <= MAX_TICKETS
    /\ proc' = [proc EXCEPT ![i].sched.tickets = n]
    /\ UNCHANGED <<policy, cpus, running, slice, cursor, forking, schedLatency, randstate>>

\* Without a lock, at any time.
set_schedlatency(c, n) ==
    /\ InCall(c, "schedlatency") /\ n >= 1 /\ n <= MAX_LATENCY
    /\ schedLatency' = n
    /\ UNCHANGED <<policy, cpus, proc, running, slice, cursor, forking, randstate>>

(***************************************************************************)
(* The specification                                                       *)
(***************************************************************************)
\* What setpriority() and schedlatency() are asked for.
Asked == 0 .. Max({MAX_TICKETS, MAX_LATENCY}) + 1

SchedInit ==
    /\ \E m \in Machines : policy = m.policy /\ cpus = m.cpus
    /\ schedLatency = Min({2, MAX_LATENCY})
    /\ proc = [i \in Slots |-> [state |-> IF i = InitProc THEN "RUNNABLE" ELSE "UNUSED",
                                sched |-> init_sched_data]]
    /\ running = [c \in Cpus |-> NoProc]
    /\ slice = [c \in Cpus |-> 0]
    /\ cursor = [c \in Cpus |-> 1]
    /\ forking = [i \in Slots |-> NoProc]
    /\ randstate = 1 % Period

SystemCall(c) ==
    \/ allocproc(c)
    \/ EndFork(c, "RUNNABLE")
    \/ EndFork(c, "UNUSED")
    \/ exit(c)
    \/ sleep(c)
    \/ \E i \in Slots : wait(c, i)
    \/ \E i \in Slots, n \in Asked : set_priority(c, i, n)
    \/ \E n \in Asked : set_schedlatency(c, n)

SchedNext == \/ \E c \in cpus : Scheduler(c) \/ Tick(c) \/ Yield(c) \/ SystemCall(c)
             \/ \E i \in Slots : wakeup(i)

SchedSpec == SchedInit /\ [][SchedNext]_schedVars

\* A CPU that has a process to run takes it, the clock ticks on every CPU, and
\* what the clock has started comes to its end.
SchedLiveSpec == /\ SchedSpec
                 /\ \A c \in Cpus : /\ WF_schedVars(c \in cpus /\ Scheduler(c))
                                    /\ WF_schedVars(c \in cpus /\ Tick(c))
                                    /\ WF_schedVars(c \in cpus /\ Yield(c))

(***************************************************************************)
(* Properties                                                              *)
(***************************************************************************)
SchedTypeOK ==
    /\ policy \in {"rr", "lottery", "hybrid"} /\ cpus \subseteq Cpus
    /\ proc \in [Slots -> [state : States,
                           sched : [tickets : Nat, rt : Nat, new : BOOLEAN]]]
    /\ running \in [Cpus -> Slots \cup {NoProc}]
    /\ slice \in [Cpus -> 0 .. MAX_LATENCY]
    /\ cursor \in [Cpus -> 1 .. NPROC + 1]
    /\ forking \in [Slots -> Slots \cup {NoProc}]
    /\ schedLatency \in 1 .. MAX_LATENCY
    /\ randstate \in 0 .. Period - 1

\* A process on a CPU is RUNNING, on no other CPU, and every RUNNING process is
\* on one: two schedulers never take the same process, and none gets lost when
\* it leaves while the loop of rr_scheduler() goes on with the next.
RunsOnce ==
    \A i \in Slots :
      /\ proc[i].state = "RUNNING" <=> \E c \in Cpus : running[c] = i
      /\ \A c, d \in Cpus : running[c] = i /\ running[d] = i => c = d

\* Whatever setpriority(), the hybrid scheduler's bonus and its penalties do, a
\* process that is in use holds a legal number of tickets.
TicketsLegal ==
    \A i \in Slots : InUse(i) => proc[i].sched.tickets \in MIN_TICKETS .. MAX_TICKETS

\* What rand() returns from now on.
Outputs[n \in 0 .. Period] == IF n = 0 THEN randstate ELSE rand(Outputs[n - 1])

\* rand() and the loops over the table give everybody its share: were the
\* processes that are ready now to compete with their tickets for a full period
\* of rand(), each would win as often as its tickets say, to the remainder of
\* the division, whatever the state of rand().  (That is no promise for a schedule
\* in which the ready processes change meanwhile.)
FairShare ==
    LET wins(i) == Cardinality({n \in 1 .. Period : Winner(Outputs[n]) = i})
        whole   == Period \div TotalTickets
    IN  \A i \in Ready(proc) : /\ wins(i) >= whole * proc[i].sched.tickets
                               /\ wins(i) <= (whole + 1) * proc[i].sched.tickets

\* The hybrid scheduler looks at rt only when it draws the process: a process
\* keeps its tickets for less than MAX_TS ticks and one slice, the slice that
\* was in force when it was dispatched.
PenaltyInTime == \A i \in Slots : proc[i].sched.rt < MAX_TS + MAX_LATENCY

\* A process runs on one CPU, and what the schedulers keep of it stays within its
\* limits, whatever the processes ask for and in whatever order they run.
SchedConsistent == SchedTypeOK /\ RunsOnce /\ TicketsLegal /\ PenaltyInTime

\* rr_scheduler() gives every runnable process a CPU, though each CPU walks the
\* table on its own and processes come, go and sleep all the time.
RrServes == \A i \in Slots :
    (policy = "rr" /\ proc[i].state = "RUNNABLE") ~> (proc[i].state = "RUNNING")
=============================================================================
