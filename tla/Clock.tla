------------------------------- MODULE Clock -------------------------------
(***************************************************************************)
(* The clock of practice2: time_init() reads the real-time clock of the    *)
(* hardware at boot (kernel/lapic.c, time.c), the timer interrupt counts   *)
(* ticks and seconds from then on (trap.c), ps prints a time as a date     *)
(* (user/ps.c), and processes sleep for a number of ticks (sysproc.c).     *)
(*                                                                         *)
(* The kernel reads the registers of the real-time clock one by one, and   *)
(* the clock changes them in between.  A step of sys_sleep() is what it    *)
(* does between two sleeps, under tickslock; kill() does not take that     *)
(* lock and comes between the check of killed and the sleep too.           *)
(*                                                                         *)
(* Times are of 1970 to 2037: a long has 32 bits.                          *)
(***************************************************************************)
EXTENDS Integers, Sequences, FiniteSets, FiniteSetsExt

CONSTANTS Procs,
          Starts,         \* times at which the machine may be switched on
          Stimes,         \* times that processes ask of stime()
          MaxSeconds,     \* bound on the seconds that the model follows a clock
          HZ,             \* 100: ticks in a second
          TICK_BITS,      \* ticks is a uint of 32 bits
          NoTime

ASSUME TimesAssumption == /\ Starts \cup Stimes \subseteq Nat /\ MaxSeconds \in Nat
                          /\ HZ \in Nat \ {0} /\ TICK_BITS \in Nat \ {0} /\ HZ <= 2 ^ TICK_BITS

VARIABLES rtc,            \* the hardware's clock: since when it is followed, its time,
                          \* whether it is being updated, and whether it counts in BCD
          at,             \* where the boot is: "first", "check", "second", "compare", "up"
          t1, t2,         \* what cmostime() has read so far, in the order of Fields
          xtime,          \* NoTime before the boot, and when it is followed no more
          ticks,
          call,           \* the sys_sleep() of each process: its state and its variables
          counting        \* ++xtime under way: the number it has loaded

clockVars == <<rtc, at, t1, t2, xtime, ticks, call, counting>>

(***************************************************************************)
(* The calendar                                                            *)
(***************************************************************************)
Fields == <<"second", "minute", "hour", "day", "month", "year">>

\* The date of a time, by the arithmetic of the 400-year cycle (from 1 March 0).
Date(t) ==
    LET day   == t \div 86400 + 719468
        rest  == day % 146097       \* days into the 400 years
        y     == (rest - rest \div 1460 + rest \div 36524 - rest \div 146096) \div 365
        inY   == rest - (365 * y + y \div 4 - y \div 100)
        m     == (5 * inY + 2) \div 153
        month == IF m < 10 THEN m + 3 ELSE m - 9
    IN  [second |-> t % 60, minute |-> (t \div 60) % 60, hour |-> (t \div 3600) % 24,
         day |-> inY - (153 * m + 2) \div 5 + 1, month |-> month,
         year |-> y + 400 * (day \div 146097) + (IF month <= 2 THEN 1 ELSE 0)]

isleapyear(year) == (year % 4 = 0 /\ year % 100 # 0) \/ year % 400 = 0
days_in_month == <<31, 28, 31, 30, 31, 30, 31, 31, 30, 31, 30, 31>>

YearDays(year) == IF isleapyear(year) THEN 366 ELSE 365
MonthDays(year, month) ==
    days_in_month[month] + (IF month = 2 /\ isleapyear(year) THEN 1 ELSE 0)

rtcdate_to_epoch(r) ==
    LET days == MapThenSumSet(YearDays, 1970 .. r.year - 1)
                + MapThenSumSet(LAMBDA m : MonthDays(r.year, m), 1 .. r.month - 1)
                + r.day - 1
    IN  days * 24 * 3600 + r.hour * 3600 + r.minute * 60 + r.second

\* ps: whole years first, then whole months of the year that is left.
epoch_to_datetime(epoch) ==
    LET years[year \in Nat, days \in Nat] ==
          IF days >= YearDays(year) THEN years[year + 1, days - YearDays(year)]
                                    ELSE <<year, days>>
        found == years[1970, epoch \div 86400]
        months[month \in Nat, days \in Nat] ==
          IF month <= 12 /\ days >= MonthDays(found[1], month)
          THEN months[month + 1, days - MonthDays(found[1], month)]
          ELSE <<month, days>>
        rest  == months[1, found[2]]
        rem   == epoch % 86400
    IN  [year |-> found[1], month |-> rest[1], day |-> rest[2] + 1,
         hour |-> rem \div 3600, minute |-> (rem % 3600) \div 60, second |-> rem % 60]

(***************************************************************************)
(* cmostime() and time_init()                                              *)
(***************************************************************************)
Register(t, field) ==
    LET d == IF field = "year" THEN Date(t).year % 100 ELSE Date(t)[field]
    IN  IF rtc.bcd THEN (d \div 10) * 16 + (d % 10) ELSE d

\* A register that is read during an update holds the old or the new number.
cmos_read(field) == {Register(rtc.time, field)}
                    \cup {Register(rtc.time + 1, field) : u \in {TRUE} \cap {rtc.updating}}

RtcBegin == /\ at # "up" /\ ~rtc.updating /\ rtc.time < rtc.since + MaxSeconds
            /\ rtc' = [rtc EXCEPT !.updating = TRUE]
            /\ UNCHANGED <<at, t1, t2, xtime, ticks, call, counting>>

RtcEnd == /\ at # "up" /\ rtc.updating
          /\ rtc' = [rtc EXCEPT !.updating = FALSE, !.time = @ + 1]
          /\ UNCHANGED <<at, t1, t2, xtime, ticks, call, counting>>

\* fill_rtcdate(&t1): the next register.
ReadFirst ==
    /\ at = "first"
    /\ \E v \in cmos_read(Fields[Len(t1) + 1]) : t1' = Append(t1, v)
    /\ at' = IF Len(t1') = Len(Fields) THEN "check" ELSE at
    /\ UNCHANGED <<rtc, t2, xtime, ticks, call, counting>>

\* Nothing to read while an update is under way.
CheckUpdate ==
    /\ at = "check"
    /\ \/ /\ rtc.updating
          /\ at' = "first" /\ t1' = <<>>
       \/ /\ ~rtc.updating
          /\ at' = "second" /\ UNCHANGED t1
    /\ UNCHANGED <<rtc, t2, xtime, ticks, call, counting>>

ReadSecond ==
    /\ at = "second"
    /\ \E v \in cmos_read(Fields[Len(t2) + 1]) : t2' = Append(t2, v)
    /\ at' = IF Len(t2') = Len(Fields) THEN "compare" ELSE at
    /\ UNCHANGED <<rtc, t1, xtime, ticks, call, counting>>

Conv(x) == IF rtc.bcd THEN (x \div 16) * 10 + (x % 16) ELSE x

\* The registers as a date: 2000 is added to the year.
Converted(t) == [f \in {Fields[i] : i \in 1 .. Len(Fields)} |->
                   LET i == CHOOSE j \in 1 .. Len(Fields) : Fields[j] = f
                   IN  IF f = "year" THEN Conv(t[i]) + 2000 ELSE Conv(t[i])]

\* From here on the hardware's clock is not looked at any more.
BootWith(date) ==
    /\ at' = "up"
    /\ xtime' = rtcdate_to_epoch(date)
    /\ rtc' = NoTime

\* Mutant: one look at the registers is believed.
CompareNothing ==
    /\ at = "compare"
    /\ BootWith(Converted(t2))
    /\ t1' = <<>> /\ t2' = <<>>
    /\ UNCHANGED <<ticks, call, counting>>

Compare ==
    /\ at = "compare"
    /\ \/ /\ t1 = t2
          /\ BootWith(Converted(t1))
       \/ /\ t1 # t2
          /\ at' = "first"
          /\ UNCHANGED <<xtime, rtc>>
    /\ t1' = <<>> /\ t2' = <<>>
    /\ UNCHANGED <<ticks, call, counting>>

(***************************************************************************)
(* sys_sleep() and kill()                                                  *)
(***************************************************************************)
Width == 2 ^ TICK_BITS

\* "user" holds no lock; "sleeping" has tickslock and is on its way to sleep().
NotCounting == [on |-> FALSE, xtime |-> NoTime]

Awake == [at |-> "user", n |-> 0, ticks0 |-> 0, passed |-> 0, result |-> "none",
          killed |-> FALSE]

LockFree == ~counting.on /\ \A p \in Procs : call[p].at # "sleeping"
Running == at = "up"

\* Mutant: ticks is compared with the tick to wait for.
OverAbsolute(c) == ticks >= c.ticks0 + c.n

\* The subtraction is of unsigned numbers, and so is the comparison: an n below
\* zero counts as a large one.
Over(c) == (ticks - c.ticks0) % Width >= c.n

\* The head of the loop, and the check of killed in it.
Loop(p, c) ==
    call' = [call EXCEPT ![p] =
      IF Over(c) THEN [c EXCEPT !.at = "user", !.ticks0 = 0, !.result = "slept"]
      ELSE IF c.killed THEN [Awake EXCEPT !.result = "killed", !.killed = TRUE]
      ELSE [c EXCEPT !.at = "sleeping"]]

Sleep(p, n) ==
    /\ Running /\ LockFree /\ call[p].at = "user" /\ ~call[p].killed
    /\ Loop(p, [Awake EXCEPT !.n = n, !.ticks0 = ticks])
    /\ UNCHANGED <<rtc, at, t1, t2, xtime, ticks, counting>>

\* sleep() releases the lock when the process is asleep.
FallAsleep(p) ==
    /\ Running /\ call[p].at = "sleeping"
    /\ call' = [call EXCEPT ![p].at = "asleep"]
    /\ UNCHANGED <<rtc, at, t1, t2, xtime, ticks, counting>>

WakesUp(p) ==
    /\ Running /\ LockFree /\ call[p].at = "woken"
    /\ Loop(p, call[p])
    /\ UNCHANGED <<rtc, at, t1, t2, xtime, ticks, counting>>

kill(p) ==
    /\ Running /\ ~call[p].killed
    /\ call' = [call EXCEPT ![p].killed = TRUE,
                            ![p].at = IF @ = "asleep" THEN "woken" ELSE @]
    /\ UNCHANGED <<rtc, at, t1, t2, xtime, ticks, counting>>

\* It exits before it is in user code again, and another takes the slot.
Exits(p) ==
    /\ Running /\ call[p].at = "user" /\ call[p].killed
    /\ call' = [call EXCEPT ![p] = Awake]
    /\ UNCHANGED <<rtc, at, t1, t2, xtime, ticks, counting>>

(***************************************************************************)
(* The timer, and sys_stime()                                              *)
(***************************************************************************)
Followed == {t + s : t \in Starts \cup Stimes, s \in 0 .. MaxSeconds + 1}

\* A second later; NoTime when the model follows the time no more.
OneMore(t) == IF t # NoTime /\ t + 1 \in Followed THEN t + 1 ELSE NoTime

\* Bound: no process is kept off the CPUs for as long as ticks takes to wrap.
TickWaking(wakes) ==
    /\ Running /\ LockFree
    /\ \A p \in Procs : call[p].at = "user" \/ call[p].passed < Width - 1
    /\ ticks' = (ticks + 1) % Width
    /\ counting' = [on |-> ticks' % HZ = 0, xtime |-> IF ticks' % HZ = 0 THEN xtime ELSE NoTime]
    /\ call' = [p \in Procs |->
                  IF call[p].at = "user" THEN call[p]
                  ELSE [call[p] EXCEPT !.passed = @ + 1, !.at = IF wakes THEN "woken" ELSE @]]
    /\ UNCHANGED <<rtc, at, t1, t2, xtime>>

\* Mutant: no wakeup().
TickWakesNobody == TickWaking(FALSE)

TimerTick == TickWaking(TRUE)

\* ++xtime: the new number is stored, under tickslock.
TickStores ==
    /\ counting.on
    /\ xtime' = OneMore(counting.xtime)
    /\ counting' = NotCounting
    /\ UNCHANGED <<rtc, at, t1, t2, ticks, call>>

\* Without a lock: it may come between the two halves of ++xtime, and is lost.
Stime ==
    /\ Running
    /\ xtime' \in Stimes
    /\ UNCHANGED <<rtc, at, t1, t2, ticks, call, counting>>

(***************************************************************************)
(* The specification                                                       *)
(***************************************************************************)
ClockInit ==
    /\ \E t \in Starts, bcd \in BOOLEAN :
         rtc = [since |-> t, time |-> t, updating |-> FALSE, bcd |-> bcd]
    /\ at = "first" /\ t1 = <<>> /\ t2 = <<>>
    /\ xtime = NoTime /\ ticks = 0
    /\ call = [p \in Procs |-> Awake]
    /\ counting = NotCounting

cmostime == ReadFirst \/ CheckUpdate \/ ReadSecond \/ Compare

sys_sleep(p) == \/ \E n \in 0 .. Width - 1 : Sleep(p, n)
                \/ FallAsleep(p) \/ WakesUp(p)

ClockNext == \/ RtcBegin \/ RtcEnd \/ cmostime
             \/ \E p \in Procs : sys_sleep(p) \/ kill(p) \/ Exits(p)
             \/ TimerTick \/ TickStores \/ Stime

ClockSpec == ClockInit /\ [][ClockNext]_clockVars

\* The timer goes on, what it started ends, a process that is woken runs, and whoever spins for
\* tickslock gets it in the end.
ClockLiveSpec == /\ ClockSpec
                 /\ SF_clockVars(TimerTick) /\ WF_clockVars(TickStores)
                 /\ \A p \in Procs : WF_clockVars(FallAsleep(p)) /\ SF_clockVars(WakesUp(p))

(***************************************************************************)
(* Properties                                                              *)
(***************************************************************************)
ClockTypeOK ==
    /\ at \in {"first", "check", "second", "compare", "up"}
    /\ ticks \in 0 .. Width - 1 /\ counting.on \in BOOLEAN
    /\ call \in [Procs -> [at : {"user", "sleeping", "asleep", "woken"},
                           n : 0 .. Width - 1, ticks0 : 0 .. Width - 1,
                           passed : 0 .. Width - 1,
                           result : {"none", "slept", "killed"}, killed : BOOLEAN]]

\* What the boot reads and the times that the kernel keeps.
TimesOK ==
    /\ \A t \in {t1, t2} : Len(t) <= Len(Fields) /\ \A i \in 1 .. Len(t) : t[i] \in Nat
    /\ {xtime, counting.xtime} \subseteq Followed \cup {NoTime}

\* The kernel starts with a time that the hardware's clock showed while it was
\* read, never one put together of two, and ps prints every time as the calendar
\* has it, over the ends of days, months, leap years and years.
DateExact ==
    /\ []TimesOK
    /\ [][at' = "up" /\ at # "up" => xtime' \in rtc.since .. rtc.time]_clockVars
    /\ [](xtime # NoTime => epoch_to_datetime(xtime) = Date(xtime))

\* sleep(n) returns 0 after n ticks at the earliest, and whoever sleeps still has
\* ticks to sleep, when ticks wraps, the process is slow to run again or n counts
\* as a large number too: the wakeup of the last tick is never lost.
SleepExact ==
    \A p \in Procs :
      /\ call[p].at \in {"sleeping", "asleep"} => call[p].passed < call[p].n
      /\ call[p].at = "user" /\ call[p].result = "slept" => call[p].passed >= call[p].n

\* The clock is in a state that it can be in, and every sleep lasts as it should.
ClockConsistent == ClockTypeOK /\ SleepExact

\* Every sleep ends, that of a killed process as well, though kill() may come
\* too late to wake it.
SleeperReturns ==
    \A p \in Procs : call[p].at # "user" ~> call[p].at = "user"
=============================================================================
