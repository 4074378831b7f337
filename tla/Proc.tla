-------------------------------- MODULE Proc --------------------------------
(***************************************************************************)
(* The life of a process: allocproc, fork, exit, wait and kill of proc.c,  *)
(* and the checks of proc->killed in trap().                               *)
(*                                                                         *)
(* What runs under ptable.lock is one action.  RUNNABLE stands for         *)
(* RUNNABLE and RUNNING: who has a CPU is the subject of Sched.  The only  *)
(* sleep is the one in wait(), whose channel is the process itself.  Init  *)
(* runs init.c, which forks and waits; it never calls kill or exit.        *)
(***************************************************************************)
EXTENDS Integers, FiniteSets

CONSTANTS
    NPROC,     \* size of the process table
    MaxPid,    \* bound of nextpid
    None       \* no process

Proc == 1..NPROC
initproc == 1    \* userinit takes the first slot

ASSUME ProcAssumption == NPROC \in Nat \ {0} /\ MaxPid \in Nat \ {0} /\ None \notin Proc

VARIABLES
    state, pid, parent, killed,   \* fields of struct proc
    kstack, pgdir,                \* whether the slot owns them
    pc,                           \* where the process is: user code or a system call
    np,                           \* fork's np
    nextpid,
    stray,     \* history: slots marked by a kill() that found no process in them
    panicked

slot == <<state, pid, parent, killed, kstack, pgdir>>
vars == <<slot, pc, np, nextpid, stray, panicked>>

\* userinit.
Init ==
    /\ state = [p \in Proc |-> IF p = initproc THEN "RUNNABLE" ELSE "UNUSED"]
    /\ pid = [p \in Proc |-> IF p = initproc THEN 1 ELSE 0]
    /\ parent = [p \in Proc |-> None]
    /\ killed = [p \in Proc |-> FALSE]
    /\ kstack = [p \in Proc |-> p = initproc]
    /\ pgdir = [p \in Proc |-> p = initproc]
    /\ pc = [p \in Proc |-> "user"]
    /\ np = [p \in Proc |-> None]
    /\ nextpid = 2 /\ stray = {}
    /\ panicked = FALSE

\* Definitions named F_... are faulty variants of the definition that follows
\* them; each shows that some property below can tell the code from a
\* plausible bug.  They are not part of the specification.

At(p, l) == ~panicked /\ state[p] = "RUNNABLE" /\ pc[p] = l

\* trap() lets only a process that is not killed into a system call, and
\* looks again when the call returns.
Enters(p) == At(p, "user") /\ ~killed[p]
Return(p) == pc' = [pc EXCEPT ![p] = IF killed[p] THEN "exit" ELSE "user"]

Lowest(S) == CHOOSE s \in S : \A t \in S : s <= t

(***************************************************************************)
(* fork: a slot, a kernel stack, the copy of the memory, then the rest of  *)
(* the fields and RUNNABLE.  Only the first step holds ptable.lock.        *)
(***************************************************************************)
Unused == {s \in Proc : state[s] = "UNUSED"}

ForkSlot(p) ==
    /\ Enters(p)
    /\ Unused # {} /\ nextpid <= MaxPid
    /\ LET s == Lowest(Unused)
       IN  /\ state' = [state EXCEPT ![s] = "EMBRYO"]
           /\ pid' = [pid EXCEPT ![s] = nextpid]
           /\ np' = [np EXCEPT ![p] = s]
    /\ nextpid' = nextpid + 1
    /\ pc' = [pc EXCEPT ![p] = "stack"]
    /\ UNCHANGED <<parent, killed, kstack, pgdir, stray, panicked>>

Abandon(p) ==
    /\ state' = [state EXCEPT ![np[p]] = "UNUSED"]
    /\ np' = [np EXCEPT ![p] = None]
    /\ Return(p)

ForkStack(p) ==
    /\ At(p, "stack")
    /\ \/ /\ kstack' = [kstack EXCEPT ![np[p]] = TRUE]
          /\ pc' = [pc EXCEPT ![p] = "copy"]
          /\ UNCHANGED <<state, np>>
       \/ Abandon(p) /\ UNCHANGED kstack
    /\ UNCHANGED <<pid, parent, killed, pgdir, nextpid, stray, panicked>>

F_StackFreed(p) == kstack
StackFreed(p) == [kstack EXCEPT ![np[p]] = FALSE]

ForkCopy(p) ==
    /\ At(p, "copy")
    /\ \/ /\ pgdir' = [pgdir EXCEPT ![np[p]] = TRUE]
          /\ parent' = [parent EXCEPT ![np[p]] = p]
          /\ pc' = [pc EXCEPT ![p] = "run"]
          /\ UNCHANGED <<state, kstack, np>>
       \/ Abandon(p) /\ kstack' = StackFreed(p) /\ UNCHANGED <<pgdir, parent>>
    /\ UNCHANGED <<pid, killed, nextpid, stray, panicked>>

ForkRun(p) ==
    /\ At(p, "run")
    /\ state' = [state EXCEPT ![np[p]] = "RUNNABLE"]
    /\ np' = [np EXCEPT ![p] = None]
    /\ pc' = [pc EXCEPT ![p] = IF killed[p] THEN "exit" ELSE "user", ![np[p]] = "user"]
    /\ UNCHANGED <<pid, parent, killed, kstack, pgdir, nextpid, stray, panicked>>

(***************************************************************************)
(* exit: init must not; anyone else wakes the parent, gives the children   *)
(* to init and becomes a ZOMBIE.                                           *)
(***************************************************************************)
ExitCall(p) ==
    /\ Enters(p) /\ p # initproc
    /\ pc' = [pc EXCEPT ![p] = "exit"]
    /\ UNCHANGED <<slot, np, nextpid, stray, panicked>>

Children(p) == {s \in Proc : parent[s] = p}

\* An orphan that is a ZOMBIE already has nobody else left to wake init.
F_WakesInit(p) == FALSE
WakesInit(p) == \E s \in Children(p) : state[s] = "ZOMBIE"

F_Heir(p) == p
Heir(p) == initproc

Exit(p) ==
    /\ At(p, "exit") /\ p # initproc
    /\ state' = [s \in Proc |->
                    IF s = p THEN "ZOMBIE"
                    ELSE IF state[s] = "SLEEPING" /\ (s = parent[p] \/ (s = initproc /\ WakesInit(p)))
                    THEN "RUNNABLE"
                    ELSE state[s]]
    /\ parent' = [s \in Proc |-> IF s \in Children(p) THEN Heir(p) ELSE parent[s]]
    /\ pc' = [pc EXCEPT ![p] = "dead"]
    /\ UNCHANGED <<pid, killed, kstack, pgdir, np, nextpid, stray, panicked>>

\* panic("init exiting")
ExitInit ==
    /\ At(initproc, "exit")
    /\ panicked' = TRUE
    /\ UNCHANGED <<slot, pc, np, nextpid, stray>>

(***************************************************************************)
(* wait: free the first ZOMBIE child; without one, give up when there are  *)
(* no children or the process is killed, otherwise sleep and look again.   *)
(***************************************************************************)
WaitCall(p) ==
    /\ Enters(p)
    /\ pc' = [pc EXCEPT ![p] = "wait"]
    /\ UNCHANGED <<slot, np, nextpid, stray, panicked>>

Zombies(p) == {s \in Children(p) : state[s] = "ZOMBIE"}

NoPid == 0

Reap(p) ==
    /\ At(p, "wait") /\ Zombies(p) # {}
    /\ LET s == Lowest(Zombies(p))
       IN  /\ kstack' = [kstack EXCEPT ![s] = FALSE]
           /\ pgdir' = [pgdir EXCEPT ![s] = FALSE]
           /\ state' = [state EXCEPT ![s] = "UNUSED"]
           /\ pid' = [pid EXCEPT ![s] = NoPid]
           /\ parent' = [parent EXCEPT ![s] = None]
           /\ killed' = [killed EXCEPT ![s] = FALSE]
           /\ stray' = stray \ {s}
           /\ pc' = [pc EXCEPT ![s] = "user", ![p] = IF killed[p] THEN "exit" ELSE "user"]
    /\ UNCHANGED <<np, nextpid, panicked>>

F_GivesUp(p) == Children(p) = {}
GivesUp(p) == Children(p) = {} \/ killed[p]

WaitFails(p) ==
    /\ At(p, "wait") /\ Zombies(p) = {} /\ GivesUp(p)
    /\ Return(p)
    /\ UNCHANGED <<slot, np, nextpid, stray, panicked>>

WaitSleep(p) ==
    /\ At(p, "wait") /\ Zombies(p) = {} /\ ~GivesUp(p)
    /\ state' = [state EXCEPT ![p] = "SLEEPING"]
    /\ UNCHANGED <<pid, parent, killed, kstack, pgdir, pc, np, nextpid, stray, panicked>>

(***************************************************************************)
(* kill: the first slot with that pid, whatever its state.  A killed       *)
(* process in user mode exits at its next trap.                            *)
(***************************************************************************)
KillState(s) == IF state[s] = "SLEEPING" THEN "RUNNABLE" ELSE state[s]

Kill(p, n) ==
    /\ Enters(p) /\ p # initproc
    /\ \E s \in Proc : pid[s] = n
    /\ LET s == Lowest({t \in Proc : pid[t] = n})
       IN  /\ killed' = [killed EXCEPT ![s] = TRUE]
           /\ state' = [state EXCEPT ![s] = KillState(s)]
           /\ stray' = IF state[s] \in {"UNUSED", "EMBRYO"} THEN stray \cup {s} ELSE stray
    /\ UNCHANGED <<pid, parent, kstack, pgdir, pc, np, nextpid, panicked>>

TrapKilled(p) ==
    /\ At(p, "user") /\ killed[p]
    /\ pc' = [pc EXCEPT ![p] = "exit"]
    /\ UNCHANGED <<slot, np, nextpid, stray, panicked>>

\* panic() spins for ever.
Halted == panicked /\ UNCHANGED vars

KernelStep(p) ==
    \/ ForkStack(p) \/ ForkCopy(p) \/ ForkRun(p) \/ Exit(p) \/ Reap(p)
    \/ WaitFails(p) \/ WaitSleep(p) \/ TrapKilled(p)

UserCall(p) == ForkSlot(p) \/ ExitCall(p) \/ WaitCall(p) \/ \E n \in 0..MaxPid : Kill(p, n)

Next == (\E p \in Proc : KernelStep(p) \/ UserCall(p)) \/ ExitInit \/ Halted

Spec == Init /\ [][Next]_vars

\* The scheduler runs every process that is in the kernel, the timer traps a
\* process in user mode, and init (init.c) waits for ever.
Fairness ==
    /\ \A p \in Proc : WF_vars(KernelStep(p))
    /\ WF_vars(WaitCall(initproc)) /\ WF_vars(ExitInit)
FairSpec == Spec /\ Fairness

-----------------------------------------------------------------------------
(***************************************************************************)
(* Properties.                                                             *)
(***************************************************************************)
TypeOK ==
    /\ state \in [Proc -> {"UNUSED", "EMBRYO", "RUNNABLE", "SLEEPING", "ZOMBIE"}]
    /\ pid \in [Proc -> 0..MaxPid]
    /\ parent \in [Proc -> Proc \cup {None}]
    /\ killed \in [Proc -> BOOLEAN]
    /\ kstack \in [Proc -> BOOLEAN] /\ pgdir \in [Proc -> BOOLEAN]
    /\ pc \in [Proc -> {"user", "stack", "copy", "run", "exit", "wait", "dead"}]
    /\ np \in [Proc -> Proc \cup {None}]
    /\ nextpid \in 2..MaxPid + 1 /\ stray \in SUBSET Proc
    /\ panicked \in BOOLEAN

Alive(p) == state[p] \in {"RUNNABLE", "SLEEPING"}

\* Every process but init has a living parent to wait for it, though parents
\* exit and their slots are reused: exit() hands its children to init, and no
\* fork of a dead process can be under way.
ParentAlive ==
    \A p \in Proc \ {initproc} :
        Alive(p) \/ state[p] = "ZOMBIE" => parent[p] # None /\ Alive(parent[p])

\* kill() reaches the process it names and no other: a pid other than 0 is in
\* one slot only, though a failed fork leaves its pid behind in a free slot,
\* and a process always has one.
PidsApart ==
    /\ \A s, t \in Proc : pid[s] = pid[t] /\ pid[s] # 0 => s = t
    /\ \A s \in Proc : pid[s] < nextpid /\ (state[s] # "UNUSED" => pid[s] # 0)

\* A slot without a process is marked killed, so that its next process dies
\* young, only
\* after a kill() that found no process in it: kill(0), or the pid of a fork
\* under way or failed.  wait() clears all other marks.
MarksCleared ==
    \A s \in Proc : state[s] \in {"UNUSED", "EMBRYO"} /\ killed[s] => s \in stray

\* The process table keeps its types, every process its parent and its pid:
\* what the steps of fork, exit, wait and kill preserve together.
FamilyIntact == TypeOK /\ ParentAlive /\ PidsApart /\ MarksCleared

\* wait() sleeps only for something that can still happen: a process asleep
\* in wait() has a child, none of its children is a ZOMBIE it failed to
\* notice, and it is not killed (the race of usertests' exitwait).
NothingMissed ==
    \A p \in Proc : state[p] = "SLEEPING" =>
        Children(p) # {} /\ Zombies(p) = {} /\ ~killed[p]

\* Each slot is freed with all that it owns and no earlier: a free slot owns
\* neither stack nor page table, and a process that can run, or whose stack
\* sched() may still be leaving, owns both.
OwnsItsMemory ==
    \A p \in Proc :
        /\ state[p] = "UNUSED" => ~kstack[p] /\ ~pgdir[p]
        /\ Alive(p) \/ state[p] = "ZOMBIE" => kstack[p] /\ pgdir[p]

\* An EMBRYO belongs to exactly one fork in progress: two forks never fill the
\* same slot.
OneForkPerEmbryo ==
    \A s \in Proc : Cardinality({p \in Proc : np[p] = s}) =
                    (IF state[s] = "EMBRYO" THEN 1 ELSE 0)

\* A child of init that has exited is freed: init is woken for its own
\* children and for orphans, also those that were dead when it got them.
OrphansReaped ==
    \A s \in Proc : state[s] = "ZOMBIE" /\ parent[s] = initproc
                        ~> state[s] = "UNUSED" \/ panicked

\* A killed process exits, also when it sleeps in wait().
KilledExits ==
    \A s \in Proc \ {initproc} : Alive(s) /\ killed[s]
                        ~> state[s] \in {"ZOMBIE", "UNUSED"} \/ panicked
=============================================================================
