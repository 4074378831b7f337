-------------------------------- MODULE Pipe --------------------------------
(***************************************************************************)
(* One pipe of pipe.c, shared by processes that hold its write or its read *)
(* end.  pipewrite and piperead run under p->lock, sleep() lets it go, and *)
(* kill() marks a process without taking it.  A killed process closes its  *)
(* end when it leaves the kernel (trap.c), and the last close of an end    *)
(* calls pipeclose (file.c's reference count).                             *)
(***************************************************************************)
EXTENDS Integers, Sequences

CONSTANTS
    Writers, Readers,  \* processes with the write end, with the read end
    Byte,              \* byte values
    PIPESIZE,          \* slots in p->data
    UintRange,         \* 2^32: nread and nwrite are uint and wrap
    Counts,            \* values of n in reads and writes
    None               \* p->lock is free

Proc == Writers \cup Readers

ASSUME PipeAssumption ==
    /\ PIPESIZE \in Nat \ {0}
    /\ UintRange \in Nat /\ UintRange > PIPESIZE /\ UintRange % PIPESIZE = 0
    /\ Counts \subseteq Nat
    /\ None \notin Proc /\ Writers \cap Readers = {}
    /\ Writers # {} /\ Readers # {} /\ Byte # {}

VARIABLES
    data, nread, nwrite, readopen, writeopen,  \* struct pipe
    lock,    \* holder of p->lock
    freed,   \* kfree(p) was called
    pc,      \* where each process is
    i, n,    \* pipewrite's and piperead's i and n
    killed,  \* proc->killed
    late     \* history: who was killed between the test of killed and sleep()

pipevars == <<data, nread, nwrite, readopen, writeopen, freed>>
vars == <<pipevars, lock, pc, i, n, killed, late>>

Init ==
    /\ data = [k \in 0..PIPESIZE - 1 |-> CHOOSE x \in Byte : TRUE]
    /\ nread = 0 /\ nwrite = 0
    /\ readopen = TRUE /\ writeopen = TRUE
    /\ lock = None /\ freed = FALSE
    /\ pc = [p \in Proc |-> "user"]
    /\ i = [p \in Proc |-> 0] /\ n = [p \in Proc |-> 0]
    /\ killed = [p \in Proc |-> FALSE] /\ late = {}

\* Definitions named F_... are faulty variants of the definition that follows
\* them; each shows that some property below can tell the code from a
\* plausible bug.  They are not part of the specification.

Full == nwrite = (nread + PIPESIZE) % UintRange
Empty == nread = nwrite

\* wakeup(&p->nread) and wakeup(&p->nwrite).
F_WakeReaders(c) == c
WakeReaders(c) == [p \in Proc |-> IF c[p] = "r_asleep" THEN "r_wake" ELSE c[p]]
F_WakeWriters(c) ==
    [p \in Proc |-> IF c[p] = "w_asleep" /\ (lock = None \/ Empty) THEN "w_wake" ELSE c[p]]
WakeWriters(c) == [p \in Proc |-> IF c[p] = "w_asleep" THEN "w_wake" ELSE c[p]]

\* release(&p->lock) and return; the locals are gone.
Leave(p) ==
    /\ lock' = None
    /\ i' = [i EXCEPT ![p] = 0]
    /\ n' = [n EXCEPT ![p] = 0]

(***************************************************************************)
(* pipewrite.                                                              *)
(***************************************************************************)
WriteCall(p, count) ==
    /\ p \in Writers /\ pc[p] = "user" /\ ~killed[p] /\ lock = None
    /\ lock' = p
    /\ pc' = [pc EXCEPT ![p] = "w_loop"]
    /\ n' = [n EXCEPT ![p] = count]
    /\ i' = [i EXCEPT ![p] = 0]
    /\ UNCHANGED <<pipevars, killed, late>>

F_Slot == (nwrite + 1) % PIPESIZE
Slot == nwrite % PIPESIZE

WriteByte(p, x) ==
    /\ pc[p] = "w_loop" /\ i[p] < n[p] /\ ~Full
    /\ data' = [data EXCEPT ![Slot] = x]
    /\ nwrite' = (nwrite + 1) % UintRange
    /\ i' = [i EXCEPT ![p] = @ + 1]
    /\ UNCHANGED <<nread, readopen, writeopen, freed, lock, pc, n, killed, late>>

\* The buffer is full: give up, or wake the readers and go on to sleep.
WriteFull(p) ==
    /\ pc[p] = "w_loop" /\ i[p] < n[p] /\ Full
    /\ IF ~readopen \/ killed[p]
       THEN Leave(p) /\ pc' = [pc EXCEPT ![p] = "user"]
       ELSE /\ pc' = [WakeReaders(pc) EXCEPT ![p] = "w_sleep"]
            /\ UNCHANGED <<lock, i, n>>
    /\ UNCHANGED <<pipevars, killed, late>>

WriteReturn(p) ==
    /\ pc[p] = "w_loop" /\ i[p] >= n[p]
    /\ Leave(p)
    /\ pc' = [WakeReaders(pc) EXCEPT ![p] = "user"]
    /\ UNCHANGED <<pipevars, killed, late>>

(***************************************************************************)
(* piperead.                                                               *)
(***************************************************************************)
ReadCall(p, count) ==
    /\ p \in Readers /\ pc[p] = "user" /\ ~killed[p] /\ lock = None
    /\ lock' = p
    /\ pc' = [pc EXCEPT ![p] = "r_loop"]
    /\ n' = [n EXCEPT ![p] = count]
    /\ i' = [i EXCEPT ![p] = 0]
    /\ UNCHANGED <<pipevars, killed, late>>

ReadWait(p) ==
    /\ pc[p] = "r_loop" /\ Empty /\ writeopen
    /\ IF killed[p]
       THEN Leave(p) /\ pc' = [pc EXCEPT ![p] = "user"]
       ELSE pc' = [pc EXCEPT ![p] = "r_sleep"] /\ UNCHANGED <<lock, i, n>>
    /\ UNCHANGED <<pipevars, killed, late>>

ReadReady(p) ==
    /\ pc[p] = "r_loop" /\ ~(Empty /\ writeopen)
    /\ pc' = [pc EXCEPT ![p] = "r_copy"]
    /\ UNCHANGED <<pipevars, lock, i, n, killed, late>>

\* addr[i] gets data[nread % PIPESIZE], the head of Channel's queue.
ReadByte(p) ==
    /\ pc[p] = "r_copy" /\ i[p] < n[p] /\ ~Empty
    /\ nread' = (nread + 1) % UintRange
    /\ i' = [i EXCEPT ![p] = @ + 1]
    /\ UNCHANGED <<data, nwrite, readopen, writeopen, freed, lock, pc, n, killed, late>>

ReadReturn(p) ==
    /\ pc[p] = "r_copy" /\ (i[p] >= n[p] \/ Empty)
    /\ Leave(p)
    /\ pc' = [WakeWriters(pc) EXCEPT ![p] = "user"]
    /\ UNCHANGED <<pipevars, killed, late>>

(***************************************************************************)
(* sleep(chan, &p->lock): the lock is let go in the same step, under       *)
(* ptable.lock, that makes the process SLEEPING; a woken process takes it  *)
(* again and goes back to its loop.                                        *)
(***************************************************************************)
Sleep(p) ==
    /\ pc[p] \in {"w_sleep", "r_sleep"}
    /\ lock' = None
    /\ pc' = [pc EXCEPT ![p] = IF @ = "w_sleep" THEN "w_asleep" ELSE "r_asleep"]
    /\ UNCHANGED <<pipevars, i, n, killed, late>>

F_Resume(c) == IF c = "w_wake" THEN "w_loop" ELSE "r_copy"
Resume(c) == IF c = "w_wake" THEN "w_loop" ELSE "r_loop"

Acquirable == lock = None

WakeUp(p) ==
    /\ pc[p] \in {"w_wake", "r_wake"} /\ Acquirable
    /\ lock' = p
    /\ pc' = [pc EXCEPT ![p] = Resume(@)]
    /\ UNCHANGED <<pipevars, i, n, killed, late>>

\* kill(): mark the process and, if it is SLEEPING, make it RUNNABLE.
Kill(p) ==
    /\ pc[p] # "closed" /\ ~killed[p]
    /\ killed' = [killed EXCEPT ![p] = TRUE]
    /\ pc' = [pc EXCEPT ![p] = CASE @ = "w_asleep" -> "w_wake"
                                 [] @ = "r_asleep" -> "r_wake"
                                 [] OTHER -> @]
    /\ late' = IF pc[p] \in {"w_sleep", "r_sleep"} THEN late \cup {p} ELSE late
    /\ UNCHANGED <<pipevars, lock, i, n>>

(***************************************************************************)
(* close() or exit() of a holder of an end; pipeclose on the last one.     *)
(***************************************************************************)
Last(p, ends) == p \in ends /\ \A q \in ends \ {p} : pc[q] = "closed"

CloseShared(p) ==
    /\ pc[p] = "user" /\ ~Last(p, Writers) /\ ~Last(p, Readers)
    /\ pc' = [pc EXCEPT ![p] = "closed"]
    /\ UNCHANGED <<pipevars, lock, i, n, killed, late>>

Unused(w, r) == ~w /\ ~r

PipeClose(p) ==
    /\ pc[p] = "user" /\ lock = None
    /\ \/ /\ Last(p, Writers)
          /\ writeopen' = FALSE /\ readopen' = readopen
          /\ pc' = [WakeReaders(pc) EXCEPT ![p] = "closed"]
       \/ /\ Last(p, Readers)
          /\ readopen' = FALSE /\ writeopen' = writeopen
          /\ pc' = [WakeWriters(pc) EXCEPT ![p] = "closed"]
    /\ freed' = Unused(writeopen', readopen')
    /\ UNCHANGED <<data, nread, nwrite, lock, i, n, killed, late>>

KernelStep(p) ==
    \/ WriteFull(p) \/ WriteReturn(p) \/ (\E x \in Byte : WriteByte(p, x))
    \/ ReadWait(p) \/ ReadReady(p) \/ ReadByte(p) \/ ReadReturn(p) \/ Sleep(p) \/ WakeUp(p)

\* Every holder has closed its end.
Done == (\A p \in Proc : pc[p] = "closed") /\ UNCHANGED vars

Next ==
    \/ \E p \in Proc :
        \/ KernelStep(p) \/ Kill(p) \/ CloseShared(p) \/ PipeClose(p)
        \/ \E c \in Counts : WriteCall(p, c) \/ ReadCall(p, c)
    \/ Done

Spec == Init /\ [][Next]_vars

\* A process running in the kernel goes on running.
FairSpec == Spec /\ \A p \in Proc : WF_vars(KernelStep(p))

-----------------------------------------------------------------------------
(***************************************************************************)
(* Properties.                                                             *)
(***************************************************************************)
InKernel == {"w_loop", "w_sleep", "w_asleep", "w_wake",
             "r_loop", "r_sleep", "r_asleep", "r_wake", "r_copy"}
WithLock == {"w_loop", "w_sleep", "r_loop", "r_sleep", "r_copy"}

\* Bytes in the pipe, computed as the code does, in wrapping uints.
Count == (nwrite - nread) % UintRange

TypeOK ==
    /\ data \in [0..PIPESIZE - 1 -> Byte]
    /\ nread \in 0..UintRange - 1 /\ nwrite \in 0..UintRange - 1
    /\ Count \in 0..PIPESIZE
    /\ readopen \in BOOLEAN /\ writeopen \in BOOLEAN /\ freed \in BOOLEAN
    /\ lock \in Proc \cup {None}
    /\ pc \in [Proc -> InKernel \cup {"user", "closed"}]
    /\ n \in [Proc -> Counts \cup {0}]
    /\ i \in [Proc -> Nat] /\ \A p \in Proc : i[p] <= n[p]
    /\ killed \in [Proc -> BOOLEAN] /\ late \in SUBSET Proc

\* The contents of the pipe: a window of the ring that starts at nread.
Chan == INSTANCE Channel
    WITH queue <- [k \in 1..Count |-> data[(nread + k - 1) % PIPESIZE]],
         wopen <- writeopen, ropen <- readopen, Capacity <- PIPESIZE

\* pipewrite and piperead implement a bounded FIFO, across the wrap-around of
\* the ring and of the counters and with any mix of readers and writers.
FifoChannel == Chan!Spec

\* No lost wakeup: when nobody holds the lock, a writer sleeps only on a full
\* pipe with a reader, and a reader only on an empty pipe with a writer.  The
\* exception begins when a writer is killed: at a full pipe pipewrite then
\* returns without wakeup(&p->nread), so that a reader may stay asleep on a
\* pipe with bytes in it, full or no longer full, until another write
\* completes or the write end is closed.  The lock is held exactly by the
\* process inside its critical section: every process can see these states.
\* A killed process sleeps only if the kill fell after pipewrite or piperead
\* had tested proc->killed and before sleep(), where kill() wakes nobody.
\* pipeclose frees the pipe only when no process can be in it any more.
NobodyStranded ==
    /\ TypeOK
    /\ \A p \in Proc : pc[p] \in WithLock <=> lock = p
    /\ lock = None => \A p \in Proc :
        /\ pc[p] = "w_asleep" => Full /\ readopen
        /\ pc[p] = "r_asleep" => /\ writeopen
                                 /\ Empty \/ \E w \in Writers : killed[w]
    /\ \A p \in Proc : pc[p] \in {"w_asleep", "r_asleep"} /\ killed[p] => p \in late
    /\ freed => \A p \in Proc : pc[p] = "closed"

\* piperead of at least one byte returns 0 only at end of file.
ZeroMeansEof ==
    [][\A p \in Proc : ReadReturn(p) /\ i[p] = 0 /\ n[p] > 0 => Empty /\ ~writeopen]_vars

\* A writer asleep on a pipe that has room again is woken: piperead's
\* wakeup(&p->nwrite) comes after the bytes it took.
WriterWoken == \A p \in Writers : (pc[p] = "w_asleep" /\ ~Full) ~> pc[p] # "w_asleep"
=============================================================================
