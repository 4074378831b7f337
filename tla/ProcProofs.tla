----------------------------- MODULE ProcProofs -----------------------------
(***************************************************************************)
(* Safety of the process table for any number of slots.                    *)
(***************************************************************************)
EXTENDS Proc, FiniteSetTheorems, WellFoundedInduction, TLAPS

\* A non-empty set of slots has a lowest one: the table scans find it.
LEMMA LowestIn ==
    ASSUME NEW S, S \subseteq Proc, S # {}
    PROVE  Lowest(S) \in S
<1>1. S \subseteq Nat
  BY ProcAssumption DEF Proc
<1>2. PICK s \in S : \A t \in S : ~(<<t, s>> \in OpToRel(<, Nat))
  BY <1>1, WFMin, NatLessThanWellFounded
<1>3. \A t \in S : ~(<<t, s>> \in {ss \in Nat \X Nat : ss[1] < ss[2]})
  BY <1>2 DEF OpToRel
<1>4. ASSUME NEW t \in S PROVE s <= t
  <2>1. s \in Nat /\ t \in Nat /\ <<t, s>> \in Nat \X Nat
    BY <1>1
  <2>2. ~(<<t, s>>[1] < <<t, s>>[2])
    BY <1>3, <2>1
  <2> QED
    BY <2>1, <2>2
<1> QED
  BY <1>4 DEF Lowest

(***************************************************************************)
(* The inductive invariant adds to the properties what fork knows of its   *)
(* np at each step, and that init lives and sleepers are in wait().        *)
(***************************************************************************)
Forking ==
    /\ \A p \in Proc : np[p] # None <=> pc[p] \in {"stack", "copy", "run"}
    /\ \A p \in Proc : np[p] # None => state[p] = "RUNNABLE" /\ state[np[p]] = "EMBRYO"
    /\ \A p, q \in Proc : np[p] # None /\ np[p] = np[q] => p = q
    /\ \A s \in Proc : state[s] = "EMBRYO" => \E p \in Proc : np[p] = s

Built ==
    \A p \in Proc : np[p] # None =>
        /\ kstack[np[p]] = (pc[p] # "stack")
        /\ pgdir[np[p]] = (pc[p] = "run")
        /\ parent[np[p]] = (IF pc[p] = "run" THEN p ELSE None)

Placed ==
    /\ Alive(initproc) /\ parent[initproc] = None
    /\ \A p \in Proc : parent[p] # p /\ (state[p] = "UNUSED" => parent[p] = None)
    /\ \A p \in Proc : state[p] = "SLEEPING" => pc[p] = "wait"

Inv ==
    /\ TypeOK /\ Forking /\ Built /\ Placed
    /\ ParentAlive /\ NothingMissed /\ OwnsItsMemory

-----------------------------------------------------------------------------
\* userinit builds init alone.
LEMMA InitInv == Init => Inv
<1> SUFFICES ASSUME Init PROVE Inv
  OBVIOUS
<1>0. initproc \in Proc
  BY ProcAssumption DEF Proc, initproc
<1>1. TypeOK
  <2>1. pid \in [Proc -> 0..MaxPid] /\ nextpid \in 2..MaxPid + 1
    BY ProcAssumption DEF Init
  <2>2. state \in [Proc -> {"UNUSED", "EMBRYO", "RUNNABLE", "SLEEPING", "ZOMBIE"}]
    BY DEF Init
  <2> QED
    BY <2>1, <2>2 DEF Init, TypeOK
<1>2. Forking
  BY ProcAssumption, <1>0 DEF Init, Forking
<1>3. Built
  BY ProcAssumption, <1>0 DEF Init, Built
<1>4. Placed
  BY ProcAssumption, <1>0 DEF Init, Placed, Alive
<1>5. ParentAlive
  BY ProcAssumption, <1>0 DEF Init, ParentAlive, Alive
<1>6. NothingMissed
  BY ProcAssumption, <1>0 DEF Init, NothingMissed, Children, Zombies
<1>7. OwnsItsMemory
  BY ProcAssumption, <1>0 DEF Init, OwnsItsMemory, Alive
<1> QED
  BY <1>1, <1>2, <1>3, <1>4, <1>5, <1>6, <1>7 DEF Inv

\* The child starts with its parent alive.
LEMMA ForkRunInv ==
    ASSUME Inv, NEW p \in Proc, ForkRun(p)
    PROVE  Inv'
<1>1. TypeOK'
  BY ProcAssumption DEF Inv, TypeOK, Forking, ForkRun, At
<1>2. Forking' /\ Built'
  BY ProcAssumption DEF Inv, TypeOK, Forking, Built, ForkRun, At
<1>3. Placed' /\ ParentAlive' /\ OwnsItsMemory'
  BY ProcAssumption DEF Inv, TypeOK, Forking, Built, Placed, ParentAlive, OwnsItsMemory, Alive,
     initproc, ForkRun, At
<1>4. NothingMissed'
  BY ProcAssumption DEF Inv, TypeOK, Forking, NothingMissed, Children, Zombies, ForkRun, At
<1> QED
  BY <1>1, <1>2, <1>3, <1>4 DEF Inv

LEMMA ExitCallInv ==
    ASSUME Inv, NEW p \in Proc, ExitCall(p)
    PROVE  Inv'
BY ProcAssumption DEF Inv, TypeOK, Forking, Built, Placed, ParentAlive, NothingMissed,
   OwnsItsMemory, Alive, Children, Zombies, initproc, ExitCall, Enters, At, slot

LEMMA WaitCallInv ==
    ASSUME Inv, NEW p \in Proc, WaitCall(p)
    PROVE  Inv'
BY ProcAssumption DEF Inv, TypeOK, Forking, Built, Placed, ParentAlive, NothingMissed,
   OwnsItsMemory, Alive, Children, Zombies, initproc, WaitCall, Enters, At, slot

LEMMA WaitFailsInv ==
    ASSUME Inv, NEW p \in Proc, WaitFails(p)
    PROVE  Inv'
BY ProcAssumption DEF Inv, TypeOK, Forking, Built, Placed, ParentAlive, NothingMissed,
   OwnsItsMemory, Alive, Children, Zombies, initproc, WaitFails, At, Return, slot

\* A process goes to sleep with a child, no ZOMBIE and not killed.
LEMMA WaitSleepInv ==
    ASSUME Inv, NEW p \in Proc, WaitSleep(p)
    PROVE  Inv'
BY ProcAssumption DEF Inv, TypeOK, Forking, Built, Placed, ParentAlive, NothingMissed,
   OwnsItsMemory, Alive, Children, Zombies, initproc, WaitSleep, At, GivesUp

LEMMA TrapKilledInv ==
    ASSUME Inv, NEW p \in Proc, TrapKilled(p)
    PROVE  Inv'
BY ProcAssumption DEF Inv, TypeOK, Forking, Built, Placed, ParentAlive, NothingMissed,
   OwnsItsMemory, Alive, Children, Zombies, initproc, TrapKilled, At, slot

\* The slot of a fork in progress is nobody else's: it is not the forking
\* process, not init, not another fork's.
LEMMA EmbryoApart ==
    ASSUME Inv, NEW p \in Proc, np[p] # None
    PROVE  /\ np[p] \in Proc /\ np[p] # p /\ np[p] # initproc
           /\ state[p] = "RUNNABLE" /\ state[np[p]] = "EMBRYO" /\ np[np[p]] = None
           /\ \A q \in Proc : q # p => np[q] # np[p]
           /\ parent[np[p]] \in {p, None}
BY ProcAssumption DEF Inv, TypeOK, Forking, Built, Placed, Alive, Proc, initproc

\* A failed fork gives its slot back; nothing else changes for anyone.
LEMMA AbandonInv ==
    ASSUME Inv, NEW p \in Proc, np[p] # None, pc[p] # "run", Abandon(p), kstack' = StackFreed(p),
           UNCHANGED <<pid, parent, killed, pgdir, nextpid, stray, panicked>>
    PROVE  Inv'
<1> DEFINE s == np[p]
<1>1. /\ s \in Proc /\ s # p /\ s # initproc /\ parent[s] = None /\ ~pgdir[s]
      /\ state[p] = "RUNNABLE" /\ state[s] = "EMBRYO" /\ np[s] = None
      /\ \A q \in Proc : q # p => np[q] # s
  BY EmbryoApart DEF Inv, Built, Forking, TypeOK
<1>2. /\ state' = [state EXCEPT ![s] = "UNUSED"] /\ kstack' = [kstack EXCEPT ![s] = FALSE]
      /\ np' = [np EXCEPT ![p] = None]
      /\ pc' \in [Proc -> {"user", "stack", "copy", "run", "exit", "wait", "dead"}]
      /\ pc'[p] \in {"user", "exit"} /\ \A q \in Proc : q # p => pc'[q] = pc[q]
  BY DEF Abandon, Return, StackFreed, Inv, TypeOK
<1> HIDE DEF s
<1>3. TypeOK'
  BY <1>1, <1>2 DEF Inv, TypeOK
<1>4. Forking'
  BY <1>1, <1>2 DEF Inv, TypeOK, Forking
<1>5. Built'
  <2> SUFFICES ASSUME NEW q \in Proc, np'[q] # None
               PROVE  /\ kstack'[np'[q]] = (pc'[q] # "stack")
                      /\ pgdir'[np'[q]] = (pc'[q] = "run")
                      /\ parent'[np'[q]] = (IF pc'[q] = "run" THEN q ELSE None)
    BY DEF Built
  <2>1. q # p /\ np'[q] = np[q] /\ np[q] # s /\ np[q] \in Proc
    BY <1>1, <1>2 DEF Inv, TypeOK
  <2> QED
    BY <1>2, <2>1 DEF Inv, TypeOK, Built
<1>6. Placed'
  BY <1>1, <1>2 DEF Inv, TypeOK, Placed, Alive
<1>7. ParentAlive' /\ NothingMissed' /\ OwnsItsMemory'
  BY <1>1, <1>2 DEF Inv, TypeOK, ParentAlive, NothingMissed, OwnsItsMemory, Alive, Children, Zombies
<1> QED
  BY <1>3, <1>4, <1>5, <1>6, <1>7 DEF Inv

\* The kernel stack is there, or the fork fails.
LEMMA ForkStackInv ==
    ASSUME Inv, NEW p \in Proc, ForkStack(p)
    PROVE  Inv'
<1> DEFINE s == np[p]
<1>1. np[p] # None /\ pc[p] = "stack" /\ ~kstack[s] /\ s \in Proc
  BY EmbryoApart DEF Inv, Forking, Built, ForkStack, At
<1>2. CASE Abandon(p) /\ UNCHANGED kstack
  <2>1. kstack' = StackFreed(p)
    BY <1>1, <1>2 DEF StackFreed, Inv, TypeOK
  <2> QED
    BY <1>1, <1>2, <2>1, AbandonInv DEF ForkStack
<1>3. CASE /\ kstack' = [kstack EXCEPT ![s] = TRUE]
           /\ pc' = [pc EXCEPT ![p] = "copy"]
           /\ UNCHANGED <<state, np>>
  <2>1. /\ s # p /\ state[s] = "EMBRYO"
        /\ \A q \in Proc : q # p => np[q] # s
        /\ UNCHANGED <<pid, parent, killed, pgdir, nextpid, stray, panicked>>
    BY <1>1, EmbryoApart DEF ForkStack
  <2> HIDE DEF s
  <2>2. TypeOK' /\ Forking' /\ Placed'
    BY <1>1, <1>3, <2>1 DEF Inv, TypeOK, Forking, Placed, Alive
  <2>3. Built'
    <3> SUFFICES ASSUME NEW q \in Proc, np'[q] # None
                 PROVE  /\ kstack'[np'[q]] = (pc'[q] # "stack")
                        /\ pgdir'[np'[q]] = (pc'[q] = "run")
                        /\ parent'[np'[q]] = (IF pc'[q] = "run" THEN q ELSE None)
      BY DEF Built
    <3>1. np'[q] = np[q] /\ np[q] \in Proc
      BY <1>3 DEF Inv, TypeOK
    <3>2. CASE q = p
      BY <1>1, <1>3, <2>1, <3>1, <3>2 DEF Inv, TypeOK, Built, s
    <3>3. CASE q # p
      BY <1>3, <2>1, <3>1, <3>3 DEF Inv, TypeOK, Built
    <3> QED
      BY <3>2, <3>3
  <2>4. ParentAlive' /\ NothingMissed' /\ OwnsItsMemory'
    BY <1>1, <1>3, <2>1 DEF Inv, TypeOK, ParentAlive, NothingMissed, OwnsItsMemory, Alive,
        Children, Zombies
  <2> QED
    BY <2>2, <2>3, <2>4 DEF Inv
<1> QED
  BY <1>2, <1>3 DEF ForkStack

\* The memory is copied and the child belongs to its parent, or the fork fails.
LEMMA ForkCopyInv ==
    ASSUME Inv, NEW p \in Proc, ForkCopy(p)
    PROVE  Inv'
<1> DEFINE s == np[p]
<1>1. np[p] # None /\ pc[p] = "copy" /\ kstack[s] /\ s \in Proc
  BY EmbryoApart DEF Inv, Forking, Built, ForkCopy, At
<1>2. CASE Abandon(p) /\ kstack' = StackFreed(p) /\ UNCHANGED <<pgdir, parent>>
  BY <1>1, <1>2, AbandonInv DEF ForkCopy
<1>3. CASE /\ pgdir' = [pgdir EXCEPT ![s] = TRUE]
           /\ parent' = [parent EXCEPT ![s] = p]
           /\ pc' = [pc EXCEPT ![p] = "run"]
           /\ UNCHANGED <<state, kstack, np>>
  <2>1. /\ s # p /\ s # initproc /\ state[s] = "EMBRYO" /\ state[p] = "RUNNABLE"
        /\ \A q \in Proc : q # p => np[q] # s
        /\ parent[s] = None
        /\ UNCHANGED <<pid, killed, nextpid, stray, panicked>>
    BY <1>1, EmbryoApart DEF ForkCopy, Inv, Built
  <2> HIDE DEF s
  <2>a. TypeOK'
    BY <1>1, <1>3, <2>1 DEF Inv, TypeOK
  <2>b. Forking'
    BY <1>1, <1>3, <2>1 DEF Inv, TypeOK, Forking
  <2>c. Placed'
    <3>1. \A q \in Proc : parent'[q] = IF q = s THEN p ELSE parent[q]
      BY <1>1, <1>3 DEF Inv, TypeOK
    <3>2. initproc \in Proc
      BY ProcAssumption DEF Proc, initproc
    <3>3. \A q \in Proc : state[q] = "SLEEPING" => pc'[q] = "wait"
      BY <1>3, <2>1 DEF Inv, TypeOK, Placed
    <3> QED
      BY <1>3, <2>1, <3>1, <3>2, <3>3 DEF Inv, Placed, Alive
  <2>2. TypeOK' /\ Forking' /\ Placed'
    BY <2>a, <2>b, <2>c
  <2>3. Built'
    <3> SUFFICES ASSUME NEW q \in Proc, np'[q] # None
                 PROVE  /\ kstack'[np'[q]] = (pc'[q] # "stack")
                        /\ pgdir'[np'[q]] = (pc'[q] = "run")
                        /\ parent'[np'[q]] = (IF pc'[q] = "run" THEN q ELSE None)
      BY DEF Built
    <3>1. np'[q] = np[q] /\ np[q] \in Proc
      BY <1>3 DEF Inv, TypeOK
    <3>2. CASE q = p
      BY <1>1, <1>3, <2>1, <3>1, <3>2 DEF Inv, TypeOK, Built, s
    <3>3. CASE q # p
      BY <1>3, <2>1, <3>1, <3>3 DEF Inv, TypeOK, Built
    <3> QED
      BY <3>2, <3>3
  <2>4. ParentAlive' /\ OwnsItsMemory'
    BY <1>1, <1>3, <2>1 DEF Inv, TypeOK, ParentAlive, OwnsItsMemory, Alive
  <2>5. NothingMissed'
    BY <1>1, <1>3, <2>1, ProcAssumption DEF Inv, TypeOK, NothingMissed, Children, Zombies
  <2> QED
    BY <2>2, <2>3, <2>4, <2>5 DEF Inv
<1> QED
  BY <1>2, <1>3 DEF ForkCopy

\* exit() leaves its parent awake, its children with init, and init awake when
\* one of them is dead.
LEMMA ExitInv ==
    ASSUME Inv, NEW p \in Proc, Exit(p)
    PROVE  Inv'
<1>1. /\ p # initproc /\ initproc \in Proc /\ state[p] = "RUNNABLE" /\ np[p] = None
      /\ pc' = [pc EXCEPT ![p] = "dead"]
      /\ UNCHANGED <<pid, killed, kstack, pgdir, np, nextpid, stray, panicked>>
  BY ProcAssumption DEF Exit, At, Inv, Forking, Proc, initproc
<1>2. /\ state' \in [Proc -> {"UNUSED", "EMBRYO", "RUNNABLE", "SLEEPING", "ZOMBIE"}]
      /\ state'[p] = "ZOMBIE"
      /\ \A s \in Proc : s # p => state'[s] = state[s] \/ (state[s] = "SLEEPING" /\ state'[s] = "RUNNABLE")
      /\ \A s \in Proc : state'[s] = "SLEEPING" => s # parent[p]
      /\ state'[initproc] = "SLEEPING" => \A s \in Proc : parent[s] = p => state[s] # "ZOMBIE"
  <2> DEFINE woken(s) == state[s] = "SLEEPING" /\ (s = parent[p] \/ (s = initproc /\ WakesInit(p)))
  <2>1. state' = [s \in Proc |-> IF s = p THEN "ZOMBIE" ELSE IF woken(s) THEN "RUNNABLE" ELSE state[s]]
    BY DEF Exit
  <2>2. \A s \in Proc : s # p => state'[s] = (IF woken(s) THEN "RUNNABLE" ELSE state[s])
    BY <2>1
  <2>3. state'[p] = "ZOMBIE" /\ DOMAIN state' = Proc
    BY <2>1
  <2>4. \A s \in Proc : state'[s] = "SLEEPING" => s # p /\ state[s] = "SLEEPING" /\ ~woken(s)
    BY <2>2, <2>3
  <2>5. \A s \in Proc : state'[s] = "SLEEPING" => s # parent[p]
    BY <2>4
  <2>6. state'[initproc] = "SLEEPING" => \A s \in Proc : parent[s] = p => state[s] # "ZOMBIE"
    BY <1>1, <2>4 DEF WakesInit, Children
  <2>7. \A s \in Proc : s # p => state'[s] = state[s] \/ (state[s] = "SLEEPING" /\ state'[s] = "RUNNABLE")
    BY <2>2
  <2>8. state' \in [Proc -> {"UNUSED", "EMBRYO", "RUNNABLE", "SLEEPING", "ZOMBIE"}]
    <3>1. \A s \in Proc : state'[s] \in {"UNUSED", "EMBRYO", "RUNNABLE", "SLEEPING", "ZOMBIE"}
      BY <2>3, <2>7 DEF Inv, TypeOK
    <3> QED
      BY <2>1, <3>1
  <2> HIDE DEF woken
  <2> QED
    BY <2>3, <2>5, <2>6, <2>7, <2>8
<1>3. /\ parent' \in [Proc -> Proc \cup {None}]
      /\ \A s \in Proc : parent'[s] = (IF parent[s] = p THEN initproc ELSE parent[s])
  BY <1>1 DEF Exit, Inv, TypeOK, Heir, Children
<1>4. TypeOK'
  BY <1>1, <1>2, <1>3 DEF Inv, TypeOK
<1>5. Forking'
  BY <1>1, <1>2, ProcAssumption DEF Inv, TypeOK, Forking
<1>6. Built'
  BY <1>1, <1>3, ProcAssumption DEF Inv, TypeOK, Forking, Built
<1>7. Placed'
  BY <1>1, <1>2, <1>3, ProcAssumption DEF Inv, TypeOK, Placed, Alive
<1>8. ParentAlive'
  BY <1>1, <1>2, <1>3, ProcAssumption DEF Inv, TypeOK, ParentAlive, Placed, Alive
<1>9. NothingMissed'
  <2> SUFFICES ASSUME NEW q \in Proc, state'[q] = "SLEEPING"
               PROVE  /\ \E t \in Proc : parent'[t] = q
                      /\ \A t \in Proc : parent'[t] = q => state'[t] # "ZOMBIE"
                      /\ ~killed'[q]
    BY DEF NothingMissed, Children, Zombies
  <2>1. q # p /\ q # parent[p] /\ state[q] = "SLEEPING"
    BY <1>1, <1>2
  <2>2. \A t \in Proc : parent[t] = q => parent'[t] = q /\ state[t] # "ZOMBIE"
    BY <1>3, <2>1 DEF Inv, NothingMissed, Zombies, Children
  <2>3. ASSUME NEW t \in Proc, parent'[t] = q PROVE state'[t] # "ZOMBIE"
    <3>1. t # p
      BY <1>3, <2>1, <2>3 DEF Inv, Placed
    <3>2. state[t] # "ZOMBIE"
      BY <1>2, <1>3, <2>2, <2>3
    <3> QED
      BY <1>2, <3>1, <3>2
  <2> QED
    BY <1>1, <2>1, <2>2, <2>3 DEF Inv, NothingMissed, Children
<1>10. OwnsItsMemory'
  BY <1>1, <1>2 DEF Inv, TypeOK, OwnsItsMemory, Alive
<1> QED
  BY <1>4, <1>5, <1>6, <1>7, <1>8, <1>9, <1>10 DEF Inv

\* allocproc takes a free slot, which has no parent and owns nothing.
LEMMA ForkSlotInv ==
    ASSUME Inv, NEW p \in Proc, ForkSlot(p)
    PROVE  Inv'
<1> DEFINE s == Lowest(Unused)
<1>1. s \in Proc /\ state[s] = "UNUSED"
  BY LowestIn DEF ForkSlot, Unused
<1> HIDE DEF s
<1>2. /\ state' = [state EXCEPT ![s] = "EMBRYO"] /\ pid' = [pid EXCEPT ![s] = nextpid]
      /\ np' = [np EXCEPT ![p] = s] /\ pc' = [pc EXCEPT ![p] = "stack"]
      /\ nextpid' = nextpid + 1 /\ nextpid <= MaxPid
      /\ UNCHANGED <<parent, killed, kstack, pgdir, stray, panicked>>
      /\ state[p] = "RUNNABLE" /\ pc[p] = "user" /\ np[p] = None
  BY DEF ForkSlot, Enters, At, Inv, Forking, s
<1>3. /\ s # p /\ s # initproc /\ parent[s] = None /\ ~kstack[s] /\ ~pgdir[s]
      /\ \A q \in Proc : np[q] # s
  BY <1>1, <1>2, ProcAssumption DEF Inv, TypeOK, Placed, Alive, OwnsItsMemory, Forking
<1>4. TypeOK'
  <2>1. nextpid' \in 2..MaxPid + 1 /\ nextpid \in 0..MaxPid
    BY <1>2, ProcAssumption DEF Inv, TypeOK
  <2> QED
    BY <1>1, <1>2, <2>1 DEF Inv, TypeOK
<1>5. Forking'
  BY <1>1, <1>2, <1>3, ProcAssumption DEF Inv, TypeOK, Forking
<1>6. Built'
  <2> SUFFICES ASSUME NEW q \in Proc, np'[q] # None
               PROVE  /\ kstack'[np'[q]] = (pc'[q] # "stack")
                      /\ pgdir'[np'[q]] = (pc'[q] = "run")
                      /\ parent'[np'[q]] = (IF pc'[q] = "run" THEN q ELSE None)
    BY DEF Built
  <2>1. CASE q = p
    BY <1>1, <1>2, <1>3, <2>1 DEF Inv, TypeOK
  <2>2. CASE q # p
    BY <1>1, <1>2, <2>2 DEF Inv, TypeOK, Built
  <2> QED
    BY <2>1, <2>2
<1>7. Placed' /\ ParentAlive' /\ NothingMissed' /\ OwnsItsMemory'
  BY <1>1, <1>2, <1>3, ProcAssumption
  DEF Inv, TypeOK, Placed, ParentAlive, NothingMissed, OwnsItsMemory, Alive, Children, Zombies
<1> QED
  BY <1>4, <1>5, <1>6, <1>7 DEF Inv

\* wait() frees a dead child, which is nobody's parent.
LEMMA ReapInv ==
    ASSUME Inv, NEW p \in Proc, Reap(p)
    PROVE  Inv'
<1> DEFINE s == Lowest(Zombies(p))
<1>1. s \in Proc /\ state[s] = "ZOMBIE" /\ parent[s] = p
  BY LowestIn DEF Reap, Zombies, Children
<1> HIDE DEF s
<1>2. /\ state' = [state EXCEPT ![s] = "UNUSED"] /\ pid' = [pid EXCEPT ![s] = 0]
      /\ parent' = [parent EXCEPT ![s] = None] /\ killed' = [killed EXCEPT ![s] = FALSE]
      /\ kstack' = [kstack EXCEPT ![s] = FALSE] /\ pgdir' = [pgdir EXCEPT ![s] = FALSE]
      /\ stray' = stray \ {s} /\ UNCHANGED <<np, nextpid, panicked>>
      /\ state[p] = "RUNNABLE" /\ pc[p] = "wait" /\ np[p] = None
  BY DEF Reap, At, NoPid, Inv, Forking, s
<1>3. /\ s # p /\ s # initproc /\ np[s] = None /\ \A q \in Proc : np[q] # s
      /\ \A q \in Proc : parent[q] = s => state[q] \notin {"RUNNABLE", "SLEEPING", "ZOMBIE"}
  BY <1>1, <1>2, ProcAssumption DEF Inv, TypeOK, Placed, Alive, ParentAlive, Forking
<1>4. /\ pc' \in [Proc -> {"user", "stack", "copy", "run", "exit", "wait", "dead"}]
      /\ pc'[p] \in {"user", "exit"} /\ pc'[s] = "user"
      /\ \A q \in Proc : q # p /\ q # s => pc'[q] = pc[q]
  <2>1. pc' = [pc EXCEPT ![s] = "user", ![p] = IF killed[p] THEN "exit" ELSE "user"]
    BY DEF Reap, s
  <2> QED
    BY <1>1, <1>3, <2>1 DEF Inv, TypeOK
<1>5. TypeOK'
  <2>1. pid' \in [Proc -> 0..MaxPid]
    BY <1>1, <1>2, ProcAssumption DEF Inv, TypeOK
  <2> QED
    BY <1>1, <1>2, <1>4, <2>1 DEF Inv, TypeOK
<1>6. Forking'
  <2>1. \A q \in Proc : np[q] # None <=> pc'[q] \in {"stack", "copy", "run"}
    BY <1>2, <1>3, <1>4 DEF Inv, Forking
  <2>2. \A q \in Proc : np[q] # None => np[q] \in Proc /\ np[q] # s /\ q # s
    BY <1>3 DEF Inv, TypeOK
  <2> QED
    BY <1>1, <1>2, <2>1, <2>2 DEF Inv, TypeOK, Forking
<1>7. Built'
  <2> SUFFICES ASSUME NEW q \in Proc, np'[q] # None
               PROVE  /\ kstack'[np'[q]] = (pc'[q] # "stack")
                      /\ pgdir'[np'[q]] = (pc'[q] = "run")
                      /\ parent'[np'[q]] = (IF pc'[q] = "run" THEN q ELSE None)
    BY DEF Built
  <2>1. np'[q] = np[q] /\ np[q] \in Proc /\ np[q] # s /\ q # p /\ q # s /\ pc'[q] = pc[q]
    BY <1>2, <1>3, <1>4 DEF Inv, TypeOK
  <2>2. /\ kstack'[np[q]] = kstack[np[q]] /\ pgdir'[np[q]] = pgdir[np[q]]
        /\ parent'[np[q]] = parent[np[q]]
    BY <1>2, <2>1 DEF Inv, TypeOK
  <2> QED
    BY <2>1, <2>2 DEF Inv, Built
<1>8. Placed' /\ ParentAlive' /\ OwnsItsMemory'
  BY <1>1, <1>2, <1>3, <1>4, ProcAssumption
  DEF Inv, TypeOK, Placed, ParentAlive, OwnsItsMemory, Alive
<1>9. NothingMissed'
  BY <1>1, <1>2, <1>3, ProcAssumption DEF Inv, TypeOK, NothingMissed, Children, Zombies
<1> QED
  BY <1>5, <1>6, <1>7, <1>8, <1>9 DEF Inv

\* kill() wakes its target, so no sleeper is killed.
LEMMA KillInv ==
    ASSUME Inv, NEW p \in Proc, NEW n \in 0..MaxPid, Kill(p, n)
    PROVE  Inv'
<1> DEFINE s == Lowest({t \in Proc : pid[t] = n})
<1>1. s \in Proc
  <2>1. {t \in Proc : pid[t] = n} # {}
    BY DEF Kill
  <2> QED
    BY <2>1, LowestIn
<1> HIDE DEF s
<1>2. /\ killed' = [killed EXCEPT ![s] = TRUE]
      /\ state' = [state EXCEPT ![s] = IF @ = "SLEEPING" THEN "RUNNABLE" ELSE @]
      /\ stray' = (IF state[s] \in {"UNUSED", "EMBRYO"} THEN stray \cup {s} ELSE stray)
      /\ UNCHANGED <<pid, parent, kstack, pgdir, pc, np, nextpid, panicked>>
  BY DEF Kill, KillState, s
<1>3. TypeOK' /\ Forking' /\ Built'
  BY <1>1, <1>2 DEF Inv, TypeOK, Forking, Built
<1>4. Placed' /\ ParentAlive' /\ OwnsItsMemory'
  BY <1>1, <1>2, ProcAssumption DEF Inv, TypeOK, Placed, ParentAlive, OwnsItsMemory, Alive
<1>5. NothingMissed'
  BY <1>1, <1>2 DEF Inv, TypeOK, NothingMissed, Children, Zombies
<1> QED
  BY <1>3, <1>4, <1>5 DEF Inv

\* Pids and marks, given the invariant: a new pid is larger than every pid in
\* the table, reaped and abandoned slots included, and only kill() marks.
LEMMA NamesStep ==
    ASSUME Inv, PidsApart, MarksCleared, [Next]_vars
    PROVE  PidsApart' /\ MarksCleared'
<1> DEFINE same == UNCHANGED <<pid, killed, nextpid, stray>>
           calm == \A s \in Proc : state'[s] = "UNUSED" => state[s] \in {"UNUSED", "EMBRYO"}
           still == \A s \in Proc : state'[s] # "UNUSED" => state[s] # "UNUSED"
           young == \A s \in Proc : state'[s] = "EMBRYO" => state[s] \in {"UNUSED", "EMBRYO"}
<1>1. ASSUME same, calm, still, young PROVE PidsApart' /\ MarksCleared'
  BY <1>1 DEF PidsApart, MarksCleared
<1> HIDE DEF same, calm, still, young
<1>2. ASSUME NEW p \in Proc, ForkSlot(p) PROVE PidsApart' /\ MarksCleared'
  <2> DEFINE s == Lowest(Unused)
  <2>1. s \in Proc /\ state[s] = "UNUSED"
    BY <1>2, LowestIn DEF ForkSlot, Unused
  <2> HIDE DEF s
  <2>2. /\ state' = [state EXCEPT ![s] = "EMBRYO"] /\ pid' = [pid EXCEPT ![s] = nextpid]
        /\ nextpid' = nextpid + 1 /\ UNCHANGED <<killed, stray>>
    BY <1>2 DEF ForkSlot, s
  <2>3. nextpid \in Nat /\ nextpid # 0 /\ \A t \in Proc : pid[t] \in Nat /\ pid[t] < nextpid
    BY ProcAssumption DEF Inv, TypeOK, PidsApart
  <2> QED
    BY <2>1, <2>2, <2>3 DEF Inv, TypeOK, PidsApart, MarksCleared
<1>3. ASSUME NEW p \in Proc, ForkStack(p) \/ ForkCopy(p) \/ ForkRun(p) PROVE PidsApart' /\ MarksCleared'
  <2>1. np[p] \in Proc /\ state[np[p]] = "EMBRYO"
    BY <1>3, EmbryoApart DEF Inv, Forking, ForkStack, ForkCopy, ForkRun, At
  <2>2. same /\ (state' = state \/ \E x \in {"UNUSED", "RUNNABLE"} : state' = [state EXCEPT ![np[p]] = x])
    BY <1>3 DEF ForkStack, ForkCopy, ForkRun, Abandon, same
  <2> QED
    BY <1>1, <2>1, <2>2 DEF Inv, TypeOK, calm, still, young
<1>4. ASSUME NEW p \in Proc, Exit(p) PROVE PidsApart' /\ MarksCleared'
  <2>1. same /\ state[p] = "RUNNABLE"
    BY <1>4 DEF Exit, At, same
  <2>2. \A s \in Proc : state'[s] = state[s] \/ (state'[s] \in {"RUNNABLE", "ZOMBIE"} /\ state[s] \in {"RUNNABLE", "SLEEPING"})
    BY <1>4, <2>1 DEF Exit
  <2> QED
    BY <1>1, <2>1, <2>2 DEF calm, still, young
<1>5. ASSUME NEW p \in Proc, Reap(p) PROVE PidsApart' /\ MarksCleared'
  <2> DEFINE s == Lowest(Zombies(p))
  <2>1. s \in Proc
    BY <1>5, LowestIn DEF Reap, Zombies, Children
  <2> HIDE DEF s
  <2>2. /\ state' = [state EXCEPT ![s] = "UNUSED"] /\ pid' = [pid EXCEPT ![s] = 0]
        /\ killed' = [killed EXCEPT ![s] = FALSE] /\ stray' = stray \ {s} /\ nextpid' = nextpid
    BY <1>5 DEF Reap, NoPid, s
  <2>3. nextpid > 0
    BY ProcAssumption DEF Inv, TypeOK
  <2> QED
    BY <2>1, <2>2, <2>3 DEF Inv, TypeOK, PidsApart, MarksCleared
<1>6. ASSUME NEW p \in Proc, NEW n \in 0..MaxPid, Kill(p, n) PROVE PidsApart' /\ MarksCleared'
  <2> DEFINE s == Lowest({t \in Proc : pid[t] = n})
  <2>1. s \in Proc
    <3>1. {t \in Proc : pid[t] = n} # {}
      BY <1>6 DEF Kill
    <3> QED
      BY <3>1, LowestIn
  <2> HIDE DEF s
  <2>2. /\ killed' = [killed EXCEPT ![s] = TRUE]
        /\ state' = [state EXCEPT ![s] = IF @ = "SLEEPING" THEN "RUNNABLE" ELSE @]
        /\ stray' = (IF state[s] \in {"UNUSED", "EMBRYO"} THEN stray \cup {s} ELSE stray)
        /\ UNCHANGED <<pid, nextpid>>
    BY <1>6 DEF Kill, KillState, s
  <2> QED
    BY <2>1, <2>2 DEF Inv, TypeOK, PidsApart, MarksCleared
<1>7. ASSUME NEW p \in Proc, ExitCall(p) \/ WaitCall(p) \/ WaitFails(p) \/ TrapKilled(p) \/ ExitInit
      PROVE  PidsApart' /\ MarksCleared'
  BY <1>1, <1>7 DEF ExitCall, WaitCall, WaitFails, TrapKilled, ExitInit, slot, same, calm, still, young
<1>8. ASSUME NEW p \in Proc, WaitSleep(p) PROVE PidsApart' /\ MarksCleared'
  BY <1>1, <1>8 DEF WaitSleep, At, Inv, TypeOK, same, calm, still, young
<1>9. CASE ExitInit \/ UNCHANGED vars
  BY <1>1, <1>9 DEF ExitInit, vars, slot, same, calm, still, young
<1> QED
  BY <1>2, <1>3, <1>4, <1>5, <1>6, <1>7, <1>8, <1>9 DEF Next, KernelStep, UserCall, Halted

-----------------------------------------------------------------------------
(***************************************************************************)
(* Theorems.                                                               *)
(***************************************************************************)
\* Every reachable state of the process table satisfies the inductive
\* invariant, for any number of slots and any bound on pids.
THEOREM Invariance == Spec => []Inv
<1>1. Inv /\ [Next]_vars => Inv'
  <2> SUFFICES ASSUME Inv, [Next]_vars PROVE Inv'
    OBVIOUS
  <2>1. ASSUME NEW p \in Proc, KernelStep(p) PROVE Inv'
    BY <2>1, ForkStackInv, ForkCopyInv, ForkRunInv, ExitInv, ReapInv, WaitFailsInv,
       WaitSleepInv, TrapKilledInv DEF KernelStep
  <2>2. ASSUME NEW p \in Proc, UserCall(p) PROVE Inv'
    BY <2>2, ForkSlotInv, ExitCallInv, WaitCallInv, KillInv DEF UserCall
  <2>3. CASE ExitInit
    <3>1. TypeOK'
      BY <2>3 DEF ExitInit, slot, Inv, TypeOK
    <3>4. Forking' /\ Built'
      BY <2>3 DEF ExitInit, slot, Inv, Forking, Built
    <3>2. Placed' /\ ParentAlive' /\ OwnsItsMemory'
      BY <2>3 DEF ExitInit, slot, Inv, Placed, ParentAlive, OwnsItsMemory, Alive
    <3>3. NothingMissed'
      BY <2>3 DEF ExitInit, slot, Inv, NothingMissed, Children, Zombies
    <3> QED
      BY <3>1, <3>2, <3>3, <3>4 DEF Inv
  <2>4. CASE UNCHANGED vars
    <3>1. TypeOK' /\ Forking' /\ Built'
      BY <2>4 DEF vars, slot, Inv, TypeOK, Forking, Built
    <3>2. Placed' /\ ParentAlive' /\ OwnsItsMemory'
      BY <2>4 DEF vars, slot, Inv, Placed, ParentAlive, OwnsItsMemory, Alive
    <3>3. NothingMissed'
      BY <2>4 DEF vars, slot, Inv, NothingMissed, Children, Zombies
    <3> QED
      BY <3>1, <3>2, <3>3 DEF Inv
  <2> QED
    BY <2>1, <2>2, <2>3, <2>4 DEF Next, Halted
<1> QED
  BY <1>1, InitInv, PTL DEF Spec

\* Every path of fork, exit, wait and kill keeps the types, exit() leaves no
\* process without a living parent, kill() can tell all pids apart, and only a
\* kill() without a process leaves a mark on a free slot.
THEOREM NoOrphans == Spec => []FamilyIntact
<1>1. Init => PidsApart /\ MarksCleared
  BY ProcAssumption DEF Init, PidsApart, MarksCleared, initproc
<1>2. Inv /\ PidsApart /\ MarksCleared => FamilyIntact
  BY DEF Inv, FamilyIntact
<1>3. Inv /\ (PidsApart /\ MarksCleared) /\ [Next]_vars => (PidsApart /\ MarksCleared)'
  BY NamesStep
<1> QED
  BY <1>1, <1>2, <1>3, Invariance, PTL DEF Spec

\* wait() and exit(), and wait() and kill(), never miss each other.
THEOREM WaitMissesNothing == Spec => []NothingMissed
<1>1. Inv => NothingMissed
  BY DEF Inv
<1> QED
  BY <1>1, Invariance, PTL

\* Stacks and page tables are neither leaked by a failed fork or a reaped
\* process nor freed under one that can run.
THEOREM MemoryOwned == Spec => []OwnsItsMemory
<1>1. Inv => OwnsItsMemory
  BY DEF Inv
<1> QED
  BY <1>1, Invariance, PTL

\* allocproc never gives the slot of one fork to another.
THEOREM EmbryosApart == Spec => []OneForkPerEmbryo
<1>1. Inv => OneForkPerEmbryo
  <2> SUFFICES ASSUME Inv, NEW s \in Proc
               PROVE  Cardinality({p \in Proc : np[p] = s}) =
                          (IF state[s] = "EMBRYO" THEN 1 ELSE 0)
    BY DEF OneForkPerEmbryo
  <2>1. CASE state[s] = "EMBRYO"
    <3>1. PICK p \in Proc : np[p] = s
      BY <2>1 DEF Inv, Forking
    <3>2. s # None
      BY ProcAssumption
    <3>3. ASSUME NEW q \in Proc, np[q] = s PROVE q = p
      BY <3>1, <3>2, <3>3 DEF Inv, Forking
    <3>4. {q \in Proc : np[q] = s} = {p}
      BY <3>1, <3>3
    <3> QED
      BY <2>1, <3>4, FS_Singleton
  <2>2. CASE state[s] # "EMBRYO"
    <3>1. {q \in Proc : np[q] = s} = {}
      BY <2>2, ProcAssumption DEF Inv, Forking
    <3> QED
      BY <2>2, <3>1, FS_EmptySet
  <2> QED
    BY <2>1, <2>2
<1> QED
  BY <1>1, Invariance, PTL
=============================================================================
