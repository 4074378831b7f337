-------------------------------- MODULE Boot --------------------------------
(***************************************************************************)
(* Starting the machine: main.c's order of initialisation, startothers and *)
(* the other processors' way from entryother.S to the scheduler, and the   *)
(* page allocator of kalloc.c at the grain of its loads and stores, which  *)
(* runs without its lock until kinit2 has finished.                        *)
(***************************************************************************)
EXTENDS Integers, FiniteSets

CONSTANTS
    NCPU, BSP,     \* the processors are 1..NCPU; BSP boots the machine
    NLOW, NHIGH,   \* pages below and above the 4 MB that entrypgdir maps
    MaxProc        \* bound on the number of processes

Processor == 1..NCPU
Low == 1..NLOW
Page == 1..NLOW + NHIGH
Nil == 0
Junk == -1         \* what kfree's memset leaves in the page

BootAssumption ==
    /\ NCPU \in Nat /\ BSP \in Processor /\ NHIGH \in Nat /\ MaxProc \in Nat \ {0}
    /\ NLOW \in Nat /\ NLOW >= NCPU + 1

VARIABLES
    freelist, next, use_lock, lock,  \* kmem, and the next field of each page
    kpc, kop, r,   \* where each CPU is in kalloc or kfree, which one, and its r
    pos,           \* freerange's p
    c0,            \* startothers' c
    arg,           \* the stack written to code-4
    started,       \* cpu->started
    pgdir,         \* the page table in use: "none", "entry" or "kernel"
    stack,         \* the page of each CPU's stack, Nil for the one in the kernel's image
    pc,            \* where each CPU is
    kernel, mem,   \* pages of the kernel's page table, and of processes
    ready,         \* processes that are ready to run
    rank,          \* history: a page's height in the free list, 0 when not in it
    panicked

kmem == <<freelist, next, use_lock, lock, kpc, kop, r, rank, panicked>>
vars == <<kmem, pos, c0, arg, started, pgdir, stack, pc, kernel, mem, ready>>

Init ==
    /\ freelist = Nil /\ next = [p \in Page |-> Junk]
    /\ use_lock = FALSE /\ lock = Nil
    /\ kpc = [c \in Processor |-> "idle"] /\ kop = [c \in Processor |-> "alloc"] /\ r = [c \in Processor |-> Nil]
    /\ pos = 1 /\ c0 = 1 /\ arg = Nil
    /\ started = [c \in Processor |-> FALSE]
    /\ pgdir = [c \in Processor |-> IF c = BSP THEN "entry" ELSE "none"]
    /\ stack = [c \in Processor |-> Nil]
    /\ pc = [c \in Processor |-> IF c = BSP THEN "kinit1" ELSE "off"]
    /\ kernel = {} /\ mem = {} /\ ready = 0
    /\ rank = [p \in Page |-> 0]
    /\ panicked = FALSE

\* Definitions named F_... are faulty variants of the definition that follows
\* them; each shows that some property below can tell the code from a
\* plausible bug.  They are not part of the specification.

(***************************************************************************)
(* kalloc and kfree: the lock if it is in use, the load and the store.     *)
(***************************************************************************)
Acquire(c) ==
    /\ ~panicked /\ kpc[c] = "lock"
    /\ use_lock => lock = Nil
    /\ lock' = IF use_lock THEN c ELSE lock
    /\ kpc' = [kpc EXCEPT ![c] = "load"]
    /\ UNCHANGED <<freelist, next, use_lock, kop, r, rank, panicked>>

Load(c) ==
    /\ ~panicked /\ kpc[c] = "load"
    /\ IF kop[c] = "alloc"
       THEN r' = [r EXCEPT ![c] = freelist] /\ UNCHANGED next
       ELSE next' = [next EXCEPT ![r[c]] = freelist] /\ UNCHANGED r
    /\ kpc' = [kpc EXCEPT ![c] = "store"]
    /\ UNCHANGED <<freelist, use_lock, lock, kop, rank, panicked>>

Top == IF freelist = Nil THEN 0 ELSE rank[freelist]

Store(c) ==
    /\ ~panicked /\ kpc[c] = "store"
    /\ CASE kop[c] = "free" -> freelist' = r[c] /\ rank' = [rank EXCEPT ![r[c]] = Top + 1]
         [] kop[c] = "alloc" /\ r[c] # Nil -> freelist' = next[r[c]] /\ rank' = [rank EXCEPT ![r[c]] = 0]
         [] OTHER -> UNCHANGED <<freelist, rank>>
    /\ kpc' = [kpc EXCEPT ![c] = "unlock"]
    /\ UNCHANGED <<next, use_lock, lock, kop, r, panicked>>

Release(c) ==
    /\ ~panicked /\ kpc[c] = "unlock"
    /\ panicked' = (use_lock /\ lock # c)
    /\ lock' = IF use_lock /\ lock = c THEN Nil ELSE lock
    /\ kpc' = [kpc EXCEPT ![c] = "idle"]
    /\ UNCHANGED <<freelist, next, use_lock, kop, r, rank>>

Allocator(c) ==
    /\ Acquire(c) \/ Load(c) \/ Store(c) \/ Release(c)
    /\ UNCHANGED <<pos, c0, arg, started, pgdir, stack, pc, kernel, mem, ready>>

(***************************************************************************)
(* Calls of kalloc and kfree, which return at label l.                     *)
(***************************************************************************)
At(c, l) == ~panicked /\ kpc[c] = "idle" /\ pc[c] = l
Goto(c, l) == pc' = [pc EXCEPT ![c] = l]

kalloc(c, l) ==
    /\ kpc' = [kpc EXCEPT ![c] = "lock"] /\ kop' = [kop EXCEPT ![c] = "alloc"]
    /\ Goto(c, l)
    /\ UNCHANGED <<freelist, next, use_lock, lock, r, rank, panicked>>

kfree(c, p, l) ==
    /\ kpc' = [kpc EXCEPT ![c] = "lock"] /\ kop' = [kop EXCEPT ![c] = "free"]
    /\ r' = [r EXCEPT ![c] = p]
    /\ next' = [next EXCEPT ![p] = Junk]
    /\ Goto(c, l)
    /\ UNCHANGED <<freelist, use_lock, lock, rank, panicked>>

(***************************************************************************)
(* main on the boot processor: kinit1, kvmalloc, startothers, kinit2,      *)
(* userinit, mpmain.                                                       *)
(***************************************************************************)
Limit(l) == IF l = "kinit1" THEN NLOW ELSE NLOW + NHIGH

freerange(l) ==
    /\ At(BSP, l) /\ pos <= Limit(l)
    /\ kfree(BSP, pos, l)
    /\ pos' = pos + 1
    /\ UNCHANGED <<c0, arg, started, pgdir, stack, kernel, mem, ready>>

kinit1 ==
    /\ At(BSP, "kinit1") /\ pos > NLOW
    /\ kalloc(BSP, "kvmalloc")
    /\ UNCHANGED <<pos, c0, arg, started, pgdir, stack, kernel, mem, ready>>

\* The new page table is in use: switchkvm.
kvmalloc ==
    /\ At(BSP, "kvmalloc")
    /\ kernel' = kernel \cup {r[BSP]}
    /\ pgdir' = [pgdir EXCEPT ![BSP] = "kernel"]
    /\ Goto(BSP, "others")
    /\ UNCHANGED <<kmem, pos, c0, arg, started, stack, mem, ready>>

\* The loop of startothers: skip this processor, allocate a stack, leave it
\* at code-4, start the processor, and wait for it.
Skip ==
    /\ At(BSP, "others") /\ c0 = BSP
    /\ c0' = c0 + 1
    /\ UNCHANGED <<kmem, pos, arg, started, pgdir, stack, pc, kernel, mem, ready>>

AllocStack ==
    /\ At(BSP, "others") /\ c0 <= NCPU /\ c0 # BSP
    /\ kalloc(BSP, "args")
    /\ UNCHANGED <<pos, c0, arg, started, pgdir, stack, kernel, mem, ready>>

\* The second STARTUP of lapicstartap finds the processor running.
StartAp ==
    /\ At(BSP, "args")
    /\ arg' = r[BSP]
    /\ pc' = [pc EXCEPT ![BSP] = "wait", ![c0] = IF @ = "off" THEN "start" ELSE @]
    /\ UNCHANGED <<kmem, pos, c0, started, pgdir, stack, kernel, mem, ready>>

F_IsUp(c) == TRUE
IsUp(c) == started[c]

Wait ==
    /\ At(BSP, "wait") /\ IsUp(c0)
    /\ c0' = c0 + 1
    /\ Goto(BSP, "others")
    /\ UNCHANGED <<kmem, pos, arg, started, pgdir, stack, kernel, mem, ready>>

OthersDone ==
    /\ At(BSP, "others") /\ c0 > NCPU
    /\ Goto(BSP, "kinit2")
    /\ UNCHANGED <<kmem, pos, c0, arg, started, pgdir, stack, kernel, mem, ready>>

\* kinit2 ends with kmem.use_lock = 1; userinit allocates the first process.
kinit2 ==
    /\ At(BSP, "kinit2") /\ pos > NLOW + NHIGH
    /\ use_lock' = TRUE
    /\ Goto(BSP, "userinit")
    /\ UNCHANGED <<freelist, next, lock, kpc, kop, r, rank, panicked>>
    /\ UNCHANGED <<pos, c0, arg, started, pgdir, stack, kernel, mem, ready>>

userinit ==
    /\ At(BSP, "userinit")
    /\ kalloc(BSP, "runnable")
    /\ UNCHANGED <<pos, c0, arg, started, pgdir, stack, kernel, mem, ready>>

\* Out of memory is a panic.
Runnable ==
    /\ At(BSP, "runnable")
    /\ IF r[BSP] = Nil
       THEN panicked' = TRUE /\ UNCHANGED <<mem, ready, pc>>
       ELSE mem' = mem \cup {r[BSP]} /\ ready' = 1 /\ Goto(BSP, "mpmain") /\ UNCHANGED panicked
    /\ UNCHANGED <<freelist, next, use_lock, lock, kpc, kop, r, rank>>
    /\ UNCHANGED <<pos, c0, arg, started, pgdir, stack, kernel>>

Main ==
    \/ freerange("kinit1") \/ kinit1 \/ kvmalloc \/ Skip \/ AllocStack \/ StartAp \/ Wait \/ OthersDone
    \/ freerange("kinit2") \/ kinit2 \/ userinit \/ Runnable

(***************************************************************************)
(* The other processors: entryother.S, mpenter, mpmain.                    *)
(***************************************************************************)
\* movl (start-12), %cr3; then movl (start-4), %esp.
EntryPgdir(c) ==
    /\ At(c, "start")
    /\ pgdir' = [pgdir EXCEPT ![c] = "entry"]
    /\ Goto(c, "esp")
    /\ UNCHANGED <<kmem, pos, c0, arg, started, stack, kernel, mem, ready>>

EntryStack(c) ==
    /\ At(c, "esp")
    /\ stack' = [stack EXCEPT ![c] = arg]
    /\ Goto(c, "mpenter")
    /\ UNCHANGED <<kmem, pos, c0, arg, started, pgdir, kernel, mem, ready>>

\* switchkvm; seginit and lapicinit set up the processor's own registers.
mpenter(c) ==
    /\ At(c, "mpenter")
    /\ pgdir' = [pgdir EXCEPT ![c] = "kernel"]
    /\ Goto(c, "mpmain")
    /\ UNCHANGED <<kmem, pos, c0, arg, started, stack, kernel, mem, ready>>

Up(c) == [started EXCEPT ![c] = TRUE]

mpmain(c) ==
    /\ At(c, "mpmain")
    /\ started' = Up(c)
    /\ Goto(c, "scheduler")
    /\ UNCHANGED <<kmem, pos, c0, arg, pgdir, stack, kernel, mem, ready>>

Enter(c) == EntryPgdir(c) \/ EntryStack(c) \/ mpenter(c) \/ mpmain(c)

(***************************************************************************)
(* After the start: a scheduler takes a process that is ready, and the     *)
(* process allocates pages (for itself or a child) and frees them.         *)
(***************************************************************************)
Run(c) ==
    /\ At(c, "scheduler") /\ ready > 0
    /\ ready' = ready - 1
    /\ Goto(c, "process")
    /\ UNCHANGED <<kmem, pos, c0, arg, started, pgdir, stack, kernel, mem>>

Grow(c) ==
    /\ At(c, "process")
    /\ kalloc(c, "grown")
    /\ UNCHANGED <<pos, c0, arg, started, pgdir, stack, kernel, mem, ready>>

Processes == ready + Cardinality({c \in Processor : pc[c] \in {"process", "grown"}})

Grown(c) ==
    /\ At(c, "grown")
    /\ mem' = mem \cup ({r[c]} \ {Nil})
    /\ ready' \in {ready} \cup (IF r[c] # Nil /\ Processes < MaxProc THEN {ready + 1} ELSE {})
    /\ Goto(c, "process")
    /\ UNCHANGED <<kmem, pos, c0, arg, started, pgdir, stack, kernel>>

Shrink(c) ==
    /\ At(c, "process")
    /\ \E p \in mem : kfree(c, p, "process") /\ mem' = mem \ {p}
    /\ UNCHANGED <<pos, c0, arg, started, pgdir, stack, kernel, ready>>

Yield(c) ==
    /\ At(c, "process")
    /\ ready' = ready + 1
    /\ Goto(c, "scheduler")
    /\ UNCHANGED <<kmem, pos, c0, arg, started, pgdir, stack, kernel, mem>>

Process(c) == Grow(c) \/ Grown(c) \/ Shrink(c) \/ Yield(c)

Step(c) == Allocator(c) \/ (c = BSP /\ Main) \/ Enter(c) \/ Run(c)

Next == \E c \in Processor : Step(c) \/ Process(c)

Spec == Init /\ [][Next]_vars

\* A processor that has been started keeps executing.
FairSpec == Spec /\ \A c \in Processor : WF_vars(Step(c))

-----------------------------------------------------------------------------
(***************************************************************************)
(* Properties.                                                             *)
(***************************************************************************)
TypeOK ==
    /\ freelist \in Page \cup {Nil} /\ next \in [Page -> Page \cup {Nil, Junk}]
    /\ use_lock \in BOOLEAN /\ lock \in Processor \cup {Nil}
    /\ kpc \in [Processor -> {"idle", "lock", "load", "store", "unlock"}]
    /\ kop \in [Processor -> {"alloc", "free"}] /\ r \in [Processor -> Page \cup {Nil}]
    /\ pos \in 1..NLOW + NHIGH + 1 /\ c0 \in 1..NCPU + 1
    /\ arg \in Page \cup {Nil} /\ stack \in [Processor -> Page \cup {Nil}]
    /\ started \in [Processor -> BOOLEAN] /\ pgdir \in [Processor -> {"none", "entry", "kernel"}]
    /\ pc \in [Processor -> {"off", "start", "esp", "mpenter", "mpmain", "scheduler", "process", "grown",
                       "kinit1", "kvmalloc", "others", "args", "wait", "kinit2", "userinit", "runnable"}]
    /\ kernel \in SUBSET Page /\ mem \in SUBSET Page /\ ready \in Nat
    /\ rank \in [Page -> Nat] /\ panicked \in BOOLEAN

\* The page a CPU has just allocated or is about to free.
Hand(c) ==
    IF \/ kpc[c] = "idle" /\ pc[c] \in {"kvmalloc", "args", "runnable", "grown"}
       \/ kpc[c] = "unlock" /\ kop[c] = "alloc"
       \/ kpc[c] \in {"lock", "load", "store"} /\ kop[c] = "free"
    THEN {r[c]} \ {Nil} ELSE {}

\* The stack of a CPU, from the moment startothers has left it at code-4.
StackOf(c) == (IF pc[c] \in {"start", "esp"} THEN {arg} ELSE {stack[c]}) \ {Nil}

\* Following next from freelist one meets every free page, and meets it once.
FreeListSound ==
    /\ freelist # Nil => rank[freelist] > 0
    /\ \A p \in Page :
        /\ rank[p] <= Top
        /\ rank[p] = 1 => next[p] = Nil
        /\ rank[p] > 1 => next[p] \in Page /\ rank[next[p]] = rank[p] - 1
    /\ \A p, q \in Page : rank[p] > 0 /\ rank[p] = rank[q] => p = q

\* A page is free, or in one hand, or one CPU's stack, or in one use.
PagesApart ==
    /\ kernel \cap mem = {} /\ \A p \in kernel \cup mem : rank[p] = 0
    /\ \A c \in Processor :
        /\ Hand(c) \cap StackOf(c) = {}
        /\ \A p \in Hand(c) \cup StackOf(c) : rank[p] = 0 /\ p \notin kernel \cup mem
        /\ \A d \in Processor \ {c} : (Hand(c) \cup StackOf(c)) \cap (Hand(d) \cup StackOf(d)) = {}

\* The machine starts safely although it shares one entry page, one argument
\* slot and an allocator without a lock.  The free list is intact and no page
\* has two uses, in particular every processor runs on a stack of its own:
\* startothers does not reuse code-4 before the processor has read it.  Nobody
\* releases kmem.lock without holding it, although use_lock changes while the
\* others run.  A processor that still uses entrypgdir touches only pages it
\* maps, which is why kinit2 "must come after startothers()".  No process runs
\* before the boot processor has finished with the allocator.
BootSafe ==
    /\ TypeOK /\ ~panicked /\ FreeListSound /\ PagesApart
    /\ \A c \in Processor :
        /\ c # BSP /\ pc[c] \in {"start", "esp", "mpenter", "mpmain", "scheduler", "process", "grown"}
              => StackOf(c) # {}
        /\ pgdir[c] = "entry" => StackOf(c) \cup Hand(c) \subseteq Low
        /\ pc[c] \in {"process", "grown"} => use_lock

\* Every processor comes up, and the first process runs.
AllStarted == <>(\A c \in Processor : started[c]) /\ <>(\E c \in Processor : pc[c] = "process")
=============================================================================
