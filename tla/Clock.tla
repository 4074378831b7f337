------------------------------- MODULE Clock -------------------------------
(***************************************************************************)
(* The clock: the timer interrupt of trap.c, which counts ticks on CPU 0   *)
(* and drives the alarms of processes it finds in user mode, and sys_sleep *)
(* and sys_alarm of sysproc.c.  ticks, alarmticks and alarmticked are uint *)
(* and wrap.                                                               *)
(***************************************************************************)
EXTENDS Integers

CONSTANTS
    Proc,
    UintRange,   \* 2^32
    Sleeps,      \* the values of n in sleep(n)
    Alarms       \* the values of ticks in alarm(ticks, handler)

VARIABLES
    ticks,
    pc,          \* where each process is
    n, ticks0,   \* sys_sleep's variables
    killed,
    alarm,       \* alarmticks, alarmticked and whether alarmhandler is set
    elapsed      \* history: ticks since sys_sleep read ticks0

sleepvars == <<n, ticks0, elapsed>>
vars == <<ticks, pc, killed, alarm, sleepvars>>

Uint(k) == k % UintRange

Init ==
    /\ ticks = 0
    /\ pc = [p \in Proc |-> "user"] /\ killed = [p \in Proc |-> FALSE]
    /\ n = [p \in Proc |-> 0] /\ ticks0 = [p \in Proc |-> 0] /\ elapsed = [p \in Proc |-> 0]
    /\ alarm = [p \in Proc |-> [ticks |-> 0, ticked |-> 0, handler |-> FALSE]]

\* Definitions named F_... are faulty variants of the definition that follows
\* them; each shows that some property below can tell the code from a
\* plausible bug.  They are not part of the specification.

\* A process at "test" or "sleep" has tickslock.
Unlocked == \A p \in Proc : pc[p] \notin {"test", "sleep"}
InSleep(p) == pc[p] # "user"

(***************************************************************************)
(* The timer interrupt on CPU 0 (zero) or another one, which may find a    *)
(* process in user mode.  Bound: no process is kept from running for 2^32  *)
(* ticks once it has called sleep.                                         *)
(***************************************************************************)
Rings(a) == Uint(a.ticked + 1) >= a.ticks

Tick ==
    /\ Unlocked
    /\ \A p \in Proc : InSleep(p) => elapsed[p] < UintRange - 1
    /\ ticks' = Uint(ticks + 1)
    /\ pc' = [p \in Proc |-> IF pc[p] = "asleep" THEN "woken" ELSE pc[p]]
    /\ elapsed' = [p \in Proc |-> IF InSleep(p) THEN elapsed[p] + 1 ELSE 0]

\* When the alarm rings the process goes on in its handler, which returns to
\* where it was interrupted like from a call.
Alarm(p) == alarm' = [alarm EXCEPT ![p].ticked = IF Rings(alarm[p]) THEN 0 ELSE Uint(@ + 1)]

Timer(zero) ==
    /\ IF zero THEN Tick ELSE UNCHANGED <<ticks, pc, elapsed>>
    /\ UNCHANGED <<killed, n, ticks0, alarm>>

UserTimer(p, zero) ==
    /\ pc[p] = "user" /\ ~killed[p]
    /\ IF zero THEN Tick ELSE UNCHANGED <<ticks, pc, elapsed>>
    /\ IF alarm[p].handler THEN Alarm(p) ELSE UNCHANGED alarm
    /\ UNCHANGED <<killed, n, ticks0>>

SysAlarm(p, t, handler) ==
    /\ pc[p] = "user" /\ ~killed[p]
    /\ alarm' = [alarm EXCEPT ![p] = [ticks |-> t, ticked |-> 0, handler |-> handler]]
    /\ UNCHANGED <<ticks, pc, killed, sleepvars>>

(***************************************************************************)
(* sys_sleep; n is an int that the comparison converts to uint.            *)
(***************************************************************************)
SysSleep(p, k) ==
    /\ pc[p] = "user" /\ ~killed[p] /\ Unlocked
    /\ pc' = [pc EXCEPT ![p] = "test"]
    /\ n' = [n EXCEPT ![p] = Uint(k)]
    /\ ticks0' = [ticks0 EXCEPT ![p] = ticks]
    /\ elapsed' = [elapsed EXCEPT ![p] = 0]
    /\ UNCHANGED <<ticks, killed, alarm>>

F_Early(p) == ticks < ticks0[p] + n[p]
Early(p) == Uint(ticks - ticks0[p]) < n[p]

SleepTest(p) ==
    /\ pc[p] = "test"
    /\ pc' = [pc EXCEPT ![p] = IF ~Early(p) THEN "slept"
                               ELSE IF killed[p] THEN "user" ELSE "sleep"]
    /\ UNCHANGED <<ticks, killed, alarm, sleepvars>>

\* sleep() lets tickslock go, and has it again when it returns.
Sleep(p) ==
    /\ pc[p] = "sleep"
    /\ pc' = [pc EXCEPT ![p] = "asleep"]
    /\ UNCHANGED <<ticks, killed, alarm, sleepvars>>

WakeUp(p) ==
    /\ pc[p] = "woken" /\ Unlocked
    /\ pc' = [pc EXCEPT ![p] = "test"]
    /\ UNCHANGED <<ticks, killed, alarm, sleepvars>>

SleepReturn(p) ==
    /\ pc[p] = "slept"
    /\ pc' = [pc EXCEPT ![p] = "user"]
    /\ n' = [n EXCEPT ![p] = 0] /\ ticks0' = [ticks0 EXCEPT ![p] = 0]
    /\ elapsed' = [elapsed EXCEPT ![p] = 0]
    /\ UNCHANGED <<ticks, killed, alarm>>

Kill(p) ==
    /\ ~killed[p]
    /\ killed' = [killed EXCEPT ![p] = TRUE]
    /\ pc' = [pc EXCEPT ![p] = IF @ = "asleep" THEN "woken" ELSE @]
    /\ UNCHANGED <<ticks, alarm, sleepvars>>

Next ==
    \/ \E zero \in BOOLEAN : Timer(zero) \/ \E p \in Proc : UserTimer(p, zero)
    \/ \E p \in Proc :
        \/ SleepTest(p) \/ Sleep(p) \/ WakeUp(p) \/ SleepReturn(p) \/ Kill(p)
        \/ \E k \in Sleeps : SysSleep(p, k)
        \/ \E t \in Alarms, h \in BOOLEAN : SysAlarm(p, t, h)

Spec == Init /\ [][Next]_vars

-----------------------------------------------------------------------------
(***************************************************************************)
(* Properties.                                                             *)
(***************************************************************************)
TypeOK ==
    /\ ticks \in 0..UintRange - 1
    /\ pc \in [Proc -> {"user", "test", "sleep", "asleep", "woken", "slept"}]
    /\ n \in [Proc -> 0..UintRange - 1] /\ ticks0 \in [Proc -> 0..UintRange - 1]
    /\ killed \in [Proc -> BOOLEAN]
    /\ alarm \in [Proc -> [ticks : Alarms \cup {0}, ticked : 0..UintRange - 1, handler : BOOLEAN]]

\* sleep(n) returns 0 only after n ticks, however ticks wraps around meanwhile;
\* a process is asleep only while its time has not come, as every tick
\* wakes it; and an alarm rings no later than its period of user-mode ticks,
\* whatever alarm() calls changed the period to.
TimeKept ==
    /\ TypeOK
    /\ \A p \in Proc : pc[p] = "slept" => elapsed[p] >= n[p]
    /\ Unlocked => \A p \in Proc : pc[p] = "asleep" => elapsed[p] < n[p]
    /\ \A p \in Proc : alarm[p].handler => alarm[p].ticked = 0 \/ alarm[p].ticked < alarm[p].ticks
=============================================================================
