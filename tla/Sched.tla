------------------------------- MODULE Sched -------------------------------
(***************************************************************************)
(* Spin locks, interrupts, context switches, sleep and wakeup: spinlock.c  *)
(* and the scheduling half of proc.c, at the grain of single lock and flag *)
(* operations, on several CPUs with timer interrupts.                      *)
(*                                                                         *)
(* The processes run the client that sleep1.p describes: consumers sleep   *)
(* under the lock "lk" until value is positive and take one, producers add *)
(* one under the lock and wake the sleepers.                               *)
(***************************************************************************)
EXTENDS Integers, FiniteSets

CONSTANTS
    Cpu,        \* processors
    NPROC,      \* slots of the process table, all in use here
    None,       \* no CPU, no process, no lock
    MaxValue    \* capacity of the client's queue

Proc == 1..NPROC
Lock == {"ptable", "lk"}

ASSUME SchedAssumption ==
    /\ NPROC \in Nat \ {0} /\ MaxValue \in Nat
    /\ None \notin Cpu /\ None \notin Proc /\ None \notin Lock

VARIABLES
    holder,    \* lk->locked and lk->cpu
    ncli, intena, ifl,   \* cpu->ncli, cpu->intena, the FL_IF flag
    cur,       \* cpu->proc; None while the CPU runs its scheduler
    spin,      \* the lock whose xchg loop a CPU is in
    spc, pos,  \* where each scheduler is, and its p
    state,     \* p->state
    pc,        \* where each process is in the kernel, or "user"
    saved,     \* where the timer interrupted it
    sint,      \* sched's local intena
    value,     \* items queued by the producers
    panicked

cpuvars == <<ncli, intena, ifl>>
vars == <<holder, cpuvars, cur, spin, spc, pos, state, pc, saved, sint, value, panicked>>

Init ==
    /\ holder = [l \in Lock |-> None]
    /\ ncli = [c \in Cpu |-> 0]
    /\ intena = [c \in Cpu |-> FALSE]
    /\ ifl = [c \in Cpu |-> FALSE]
    /\ cur = [c \in Cpu |-> None]
    /\ spin = [c \in Cpu |-> None]
    /\ spc = [c \in Cpu |-> "sti"]
    /\ pos = [c \in Cpu |-> 1]
    /\ state = [p \in Proc |-> "RUNNABLE"]
    /\ pc = [p \in Proc |-> "forkret"]
    /\ saved = [p \in Proc |-> None]
    /\ sint = [p \in Proc |-> FALSE]
    /\ value = 0
    /\ panicked = FALSE

(***************************************************************************)
(* The lock operations of each routine, in program order: the label, the   *)
(* operation, its lock, and the label that follows.                        *)
(***************************************************************************)
\* Definitions named F_... are faulty variants of the definition that follows
\* them; each shows that some property below can tell the code from a
\* plausible bug.  They are not part of the specification.

F_SleepCode == {<<"sleep", "release", "lk", "sleep2">>,
                <<"sleep2", "acquire", "ptable", "sleep3">>}
SleepCode == {<<"sleep", "acquire", "ptable", "sleep2">>,
              <<"sleep2", "release", "lk", "sleep3">>}

Code ==
    SleepCode \cup
    { <<"awake", "release", "ptable", "awake2">>,
      <<"awake2", "acquire", "lk", "test">>,
      <<"consume", "acquire", "lk", "test">>,
      <<"consumed", "release", "lk", "user">>,
      <<"produce", "acquire", "lk", "put">>,
      <<"wakeup", "acquire", "ptable", "wakeup1">>,
      <<"wakeup2", "release", "ptable", "produced">>,
      <<"produced", "release", "lk", "user">>,
      <<"yield", "acquire", "ptable", "yield2">>,
      <<"yielded", "release", "ptable", "iret">>,
      <<"forkret", "release", "ptable", "user">>,
      <<"lock", "acquire", "ptable", "scan">>,
      <<"unlock", "release", "ptable", "sti">> }

At(c) == IF cur[c] = None THEN spc[c] ELSE pc[cur[c]]

Goto(c, l) ==
    IF cur[c] = None
    THEN spc' = [spc EXCEPT ![c] = l] /\ UNCHANGED pc
    ELSE pc' = [pc EXCEPT ![cur[c]] = l] /\ UNCHANGED spc

Panic == panicked' = TRUE /\ UNCHANGED <<holder, cpuvars, spin, spc, pc>>

(***************************************************************************)
(* acquire: pushcli, then the xchg loop.  release: clear, then popcli; a   *)
(* release on the way out of the kernel includes the iret, which restores  *)
(* the user's FL_IF.                                                       *)
(***************************************************************************)
Pushcli(c) ==
    /\ ~panicked
    /\ spin[c] = None
    /\ \E e \in Code :
         /\ e[1] = At(c) /\ e[2] = "acquire"
         /\ IF holder[e[3]] = c
            THEN Panic
            ELSE /\ ifl' = [ifl EXCEPT ![c] = FALSE]
                 /\ intena' = IF ncli[c] = 0 THEN [intena EXCEPT ![c] = ifl[c]] ELSE intena
                 /\ ncli' = [ncli EXCEPT ![c] = @ + 1]
                 /\ spin' = [spin EXCEPT ![c] = e[3]]
                 /\ UNCHANGED <<holder, spc, pc, panicked>>
    /\ UNCHANGED <<cur, pos, state, saved, sint, value>>

Xchg(c) ==
    /\ ~panicked
    /\ spin[c] # None
    /\ holder[spin[c]] = None
    /\ holder' = [holder EXCEPT ![spin[c]] = c]
    /\ spin' = [spin EXCEPT ![c] = None]
    /\ \E e \in Code : e[1] = At(c) /\ Goto(c, e[4])
    /\ UNCHANGED <<cpuvars, cur, pos, state, saved, sint, value, panicked>>

F_Popped(c) == ncli[c]
Popped(c) == ncli[c] - 1

Release(c) ==
    /\ ~panicked
    /\ \E e \in Code :
         /\ e[1] = At(c) /\ e[2] = "release"
         /\ IF holder[e[3]] # c \/ ifl[c] \/ ncli[c] < 1
            THEN Panic
            ELSE /\ holder' = [holder EXCEPT ![e[3]] = None]
                 /\ ncli' = [ncli EXCEPT ![c] = Popped(c)]
                 /\ ifl' = [ifl EXCEPT ![c] = e[4] = "user" \/ (Popped(c) = 0 /\ intena[c])]
                 /\ Goto(c, e[4])
                 /\ UNCHANGED <<intena, spin, panicked>>
    /\ UNCHANGED <<cur, pos, state, saved, sint, value>>

(***************************************************************************)
(* scheduler: enable interrupts, lock the table, run each RUNNABLE process *)
(* in table order, unlock, and start over.                                 *)
(***************************************************************************)
Sti(c) ==
    /\ ~panicked
    /\ cur[c] = None /\ spc[c] = "sti"
    /\ ifl' = [ifl EXCEPT ![c] = TRUE]
    /\ spc' = [spc EXCEPT ![c] = "lock"]
    /\ pos' = [pos EXCEPT ![c] = 1]
    /\ UNCHANGED <<holder, ncli, intena, cur, spin, state, pc, saved, sint, value, panicked>>

CanRun(p) == state[p] = "RUNNABLE"

\* swtch to the process: it goes on where its sched left off, and sched
\* restores cpu->intena, or starts at forkret.
RestoredIntena(c, p) == IF pc[p] = "forkret" THEN intena[c] ELSE sint[p]

Scan(c) ==
    /\ ~panicked
    /\ cur[c] = None /\ spc[c] = "scan"
    /\ IF pos[c] > NPROC
       THEN /\ spc' = [spc EXCEPT ![c] = "unlock"]
            /\ UNCHANGED <<cur, state, intena, pos>>
       ELSE IF CanRun(pos[c])
       THEN /\ cur' = [cur EXCEPT ![c] = pos[c]]
            /\ state' = [state EXCEPT ![pos[c]] = "RUNNING"]
            /\ intena' = [intena EXCEPT ![c] = RestoredIntena(c, pos[c])]
            /\ UNCHANGED <<spc, pos>>
       ELSE /\ pos' = [pos EXCEPT ![c] = @ + 1]
            /\ UNCHANGED <<spc, cur, state, intena>>
    /\ UNCHANGED <<holder, ncli, ifl, spin, pc, saved, sint, value, panicked>>

\* sched, called by sleep (state SLEEPING) and by yield (state RUNNABLE):
\* its four panics, then swtch back to the scheduler, which goes on to the
\* next slot still holding ptable.lock.
F_NextPos(c) == 1
NextPos(c) == pos[c] + 1

Enter(c) ==
    /\ ~panicked
    /\ cur[c] # None
    /\ LET p == cur[c]
           st == IF pc[p] = "sleep3" THEN "SLEEPING" ELSE "RUNNABLE"
           back == IF pc[p] = "sleep3" THEN "awake" ELSE "yielded"
       IN  /\ pc[p] \in {"sleep3", "yield2"}
           /\ IF holder["ptable"] # c \/ ncli[c] # 1 \/ st = "RUNNING" \/ ifl[c]
              THEN Panic /\ UNCHANGED <<cur, pos, state, sint>>
              ELSE /\ state' = [state EXCEPT ![p] = st]
                   /\ pc' = [pc EXCEPT ![p] = back]
                   /\ sint' = [sint EXCEPT ![p] = intena[c]]
                   /\ cur' = [cur EXCEPT ![c] = None]
                   /\ pos' = [pos EXCEPT ![c] = NextPos(c)]
                   /\ UNCHANGED <<holder, cpuvars, spin, spc, panicked>>
    /\ UNCHANGED <<saved, value>>

(***************************************************************************)
(* The steps of the client between its lock operations, and wakeup1.       *)
(***************************************************************************)
Woken == [p \in Proc |-> IF state[p] = "SLEEPING" THEN "RUNNABLE" ELSE state[p]]

\* The queue of the model holds at most MaxValue items.
Put(v) == IF v < MaxValue THEN v + 1 ELSE v

Work(c) ==
    /\ ~panicked
    /\ cur[c] # None
    /\ \/ /\ At(c) = "test" /\ value = 0 /\ Goto(c, "sleep") /\ UNCHANGED <<value, state>>
       \/ /\ At(c) = "test" /\ value > 0 /\ Goto(c, "consumed")
          /\ value' = value - 1 /\ UNCHANGED state
       \/ /\ At(c) = "put" /\ Goto(c, "wakeup") /\ value' = Put(value) /\ UNCHANGED state
       \/ /\ At(c) = "wakeup1" /\ Goto(c, "wakeup2") /\ state' = Woken /\ UNCHANGED value
    /\ UNCHANGED <<holder, cpuvars, cur, spin, pos, saved, sint, panicked>>

Syscall(c) ==
    /\ ~panicked
    /\ cur[c] # None /\ At(c) = "user"
    /\ Goto(c, "consume") \/ Goto(c, "produce")
    /\ UNCHANGED <<holder, cpuvars, cur, spin, pos, state, saved, sint, value, panicked>>

(***************************************************************************)
(* A timer interrupt, when the CPU lets it in: an interrupt gate clears    *)
(* FL_IF, trap() yields, iret returns and sets the flag again.             *)
(***************************************************************************)
Interruptible(c) == ifl[c]

Timer(c) ==
    /\ ~panicked
    /\ cur[c] # None /\ Interruptible(c)
    /\ saved' = [saved EXCEPT ![cur[c]] = At(c)]
    /\ Goto(c, "yield")
    /\ ifl' = [ifl EXCEPT ![c] = FALSE]
    /\ UNCHANGED <<holder, ncli, intena, cur, spin, pos, state, sint, value, panicked>>

Iret(c) ==
    /\ ~panicked
    /\ cur[c] # None /\ At(c) = "iret"
    /\ Goto(c, saved[cur[c]])
    /\ saved' = [saved EXCEPT ![cur[c]] = None]
    /\ ifl' = [ifl EXCEPT ![c] = TRUE]
    /\ UNCHANGED <<holder, ncli, intena, cur, spin, pos, state, sint, value, panicked>>

KernelStep(c) ==
    \/ Pushcli(c) \/ Xchg(c) \/ Release(c) \/ Sti(c) \/ Scan(c) \/ Enter(c)
    \/ Work(c) \/ Iret(c)

Next == \E c \in Cpu : KernelStep(c) \/ Timer(c) \/ Syscall(c)

Spec == Init /\ [][Next]_vars

\* CPUs keep executing; a timer interrupt stays pending until it is let in.
Fairness == \A c \in Cpu : WF_vars(KernelStep(c)) /\ SF_vars(Timer(c))
FairSpec == Spec /\ Fairness

-----------------------------------------------------------------------------
(***************************************************************************)
(* Properties.                                                             *)
(***************************************************************************)
Label == {e[1] : e \in Code} \cup {e[4] : e \in Code}

TypeOK ==
    /\ holder \in [Lock -> Cpu \cup {None}]
    /\ ncli \in [Cpu -> 0..3]
    /\ intena \in [Cpu -> BOOLEAN] /\ ifl \in [Cpu -> BOOLEAN]
    /\ cur \in [Cpu -> Proc \cup {None}]
    /\ spin \in [Cpu -> Lock \cup {None}]
    /\ spc \in [Cpu -> {"sti", "lock", "scan", "unlock"}]
    /\ pos \in [Cpu -> 1..NPROC + 1]
    /\ state \in [Proc -> {"RUNNABLE", "RUNNING", "SLEEPING"}]
    /\ pc \in [Proc -> Label] /\ saved \in [Proc -> Label \cup {None}]
    /\ sint \in [Proc -> BOOLEAN]
    /\ value \in 0..MaxValue
    /\ panicked \in BOOLEAN

\* None of the panics of acquire, release, popcli and sched can happen: locks
\* are not taken twice, and a process enters the scheduler holding exactly
\* ptable.lock with interrupts off.  pushcli and popcli match: a CPU's ncli
\* counts the locks it holds or spins for, through context switches, and with
\* a lock its interrupts are off.  A process, and so its kernel stack, is on
\* one CPU at most, exactly when its state is RUNNING; and one that slept runs
\* on with interrupts enabled once it has released ptable.lock, on whatever
\* CPU: intena belongs to the process, not the CPU.
SwitchesSafely ==
    /\ TypeOK /\ ~panicked
    /\ \A c \in Cpu :
        /\ ncli[c] = Cardinality({l \in Lock : holder[l] = c}) + (IF spin[c] = None THEN 0 ELSE 1)
        /\ ncli[c] > 0 => ~ifl[c]
        /\ cur[c] # None /\ spin[c] = None /\ At(c) = "awake2" => ifl[c]
    /\ \A c, d \in Cpu : cur[c] = cur[d] /\ cur[c] # None => c = d
    /\ \A p \in Proc : state[p] = "RUNNING" <=> \E c \in Cpu : cur[c] = p

\* sleep() and wakeup() do not miss each other: nobody sleeps while there is
\* something to consume and both locks are free.
NoLostWakeup ==
    (\A l \in Lock : holder[l] = None) /\ value > 0 =>
        \A p \in Proc : state[p] # "SLEEPING"

\* The scheduler starves nobody: each RUNNABLE process gets to run.
EveryoneRuns == \A p \in Proc : state[p] = "RUNNABLE" ~> state[p] = "RUNNING"
=============================================================================
