------------------------------ MODULE MCSched ------------------------------
(***************************************************************************)
(* The processors, one part per behaviour: the scheduler with its locks,   *)
(* and the start of the machine.                                           *)
(***************************************************************************)
EXTENDS Sched

CONSTANTS NCPU, BSP, NLOW, NHIGH, MaxProc                              \* of Boot

VARIABLES freelist, next, use_lock, lock, kpc, kop, r, rank, bootpanic  \* of Boot
VARIABLES start, c0, arg, started, pgdir, stack, bootpc, kernel, mem, ready
VARIABLE part

Machine == INSTANCE Boot WITH pos <- start, pc <- bootpc, panicked <- bootpanic

bootvars == <<freelist, next, use_lock, lock, kpc, kop, r, rank, bootpanic,
              start, c0, arg, started, pgdir, stack, bootpc, kernel, mem, ready>>
mcvars == <<vars, bootvars, part>>

ASSUME Machine!BootAssumption

MCInit == part \in {"sched", "boot"} /\ Init /\ Machine!Init

InSched(A) == part = "sched" /\ A /\ UNCHANGED <<bootvars, part>>
InBoot(A) == part = "boot" /\ A /\ UNCHANGED <<vars, part>>

MCNext == InSched(Next) \/ InBoot(Machine!Next)

MCSpec ==
    /\ MCInit /\ [][MCNext]_mcvars
    /\ \A c \in Cpu : WF_mcvars(InSched(KernelStep(c))) /\ SF_mcvars(InSched(Timer(c)))
    /\ \A c \in 1..NCPU : WF_mcvars(InBoot(Machine!Step(c)))

\* The start of the machine: stacks, pages and the allocator's lock.
BootSafe == Machine!BootSafe

\* Every processor comes up, the first process runs, and from then on the
\* scheduler starves no process that is RUNNABLE.
EveryoneGoesOn ==
    /\ part = "boot" => Machine!AllStarted
    /\ part = "sched" => EveryoneRuns
=============================================================================
