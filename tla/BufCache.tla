------------------------------ MODULE BufCache ------------------------------
(***************************************************************************)
(* The buffer cache (bio.c) over the IDE driver (ide.c).  A process reads  *)
(* a sector into a B_BUSY buffer, may change it, write it to disk or pin   *)
(* it with B_DIRTY as log_write does, and releases it.  The driver queues  *)
(* requests for one disk; its interrupt completes the head of the queue.   *)
(*                                                                         *)
(* A critical section of bcache.lock or idelock is one step.  Both bget    *)
(* and iderw sleep on the buffer's address, so a wakeup(b) of one reaches  *)
(* the sleepers of the other.                                              *)
(***************************************************************************)
EXTENDS Integers, Sequences, FiniteSets

CONSTANTS
    Proc,        \* processes
    Buf,         \* bcache.buf, NBUF of them
    Sector,      \* disk sectors
    Value,       \* contents of a sector
    NoSector,    \* binit's dev = -1
    NoBuf,       \* no buffer
    Jobs         \* see job

ASSUME BufAssumption ==
    /\ IsFiniteSet(Buf) /\ Buf # {}
    /\ Value # {}
    /\ NoSector \notin Sector
    /\ NoBuf \notin Buf
    /\ \A j \in Jobs : j.values \in SUBSET Value \ {{}} /\ j.errors \in BOOLEAN

VARIABLES
    sector,    \* b->dev and b->sector
    flags,     \* b->flags
    data,      \* b->data
    lru,       \* bcache.head's list, most recently used first
    idequeue,  \* the driver's queue of buffers
    disk,      \* the sectors on the platter
    device,    \* "idle", "working" on the head of the queue, or its outcome
    pc,        \* what each process is doing
    want,      \* the sector each process asked for
    mine,      \* the buffer a process holds or sleeps on
    latest,    \* history: the last contents given to each sector
    job,       \* one of Jobs, the same throughout a behaviour: the values that
               \* are written, and whether the disk may report IDE_ERR or IDE_DF
    panicked   \* a kernel panic stopped the machine

bvars == <<sector, flags, data, lru>>
dvars == <<idequeue, disk, device, job>>
pvars == <<pc, want, mine>>
vars == <<bvars, dvars, pvars, latest, panicked>>

Flag == {"BUSY", "VALID", "DIRTY"}

Init ==
    /\ sector = [b \in Buf |-> NoSector]
    /\ flags = [b \in Buf |-> {}]
    /\ job \in Jobs
    /\ disk \in [Sector -> job.values]
    /\ data = [b \in Buf |-> CHOOSE v \in job.values : TRUE]
    /\ lru = CHOOSE s \in [1..Cardinality(Buf) -> Buf] :
                 \A b \in Buf : \E i \in 1..Cardinality(Buf) : s[i] = b
    /\ idequeue = <<>>
    /\ device = "idle"
    /\ pc = [p \in Proc |-> "out"]
    /\ want = [p \in Proc |-> NoSector]
    /\ mine = [p \in Proc |-> NoBuf]
    /\ latest = disk
    /\ panicked = FALSE

\* Definitions named F_... are faulty variants of the definition that follows
\* them; each shows that some property below can tell the code from a
\* plausible bug.  They are not part of the specification.

\* The sleepers on channel b after wakeup(b): bget's go back to its loop.
F_Awake(b) ==
    [p \in Proc |-> IF mine[p] = b /\ pc[p] \in {"wait_buf", "wait_io"} THEN "own" ELSE pc[p]]
Awake(b) ==
    [p \in Proc |-> CASE mine[p] = b /\ pc[p] = "wait_buf" -> "bget"
                      [] mine[p] = b /\ pc[p] = "wait_io" -> "check_io"
                      [] OTHER -> pc[p]]

(***************************************************************************)
(* bread = bget, then iderw unless the buffer is B_VALID.                  *)
(***************************************************************************)
Bread(p, s) ==
    /\ ~panicked
    /\ pc[p] = "out"
    /\ pc' = [pc EXCEPT ![p] = "bget"]
    /\ want' = [want EXCEPT ![p] = s]
    /\ UNCHANGED <<bvars, dvars, mine, latest, panicked>>

Caching(s) == {b \in Buf : sector[b] = s}

\* Positions in the list that bget may recycle: non-busy and clean.
Recyclable == {i \in 1..Len(lru) : flags[lru[i]] \cap {"BUSY", "DIRTY"} = {}}

\* Where bread goes once bget returned b.
AfterBget(fl) == IF "VALID" \in fl THEN "own" ELSE "iderw"

Grab(b) == flags[b] \cup {"BUSY"}

BgetCached(p) ==
    /\ ~panicked
    /\ pc[p] = "bget"
    /\ \E b \in Caching(want[p]) :
         /\ mine' = [mine EXCEPT ![p] = b]
         /\ IF "BUSY" \in flags[b]
            THEN pc' = [pc EXCEPT ![p] = "wait_buf"] /\ UNCHANGED flags
            ELSE /\ flags' = [flags EXCEPT ![b] = Grab(b)]
                 /\ pc' = [pc EXCEPT ![p] = AfterBget(flags[b])]
    /\ UNCHANGED <<sector, data, lru, dvars, want, latest, panicked>>

F_Cached(s) == \E b \in Caching(s) : "BUSY" \notin flags[b]
Cached(s) == Caching(s) # {}

\* Recycle the least recently used candidate, or panic("bget: no buffers").
BgetRecycle(p) ==
    /\ ~panicked
    /\ pc[p] = "bget"
    /\ ~Cached(want[p])
    /\ IF Recyclable = {}
       THEN panicked' = TRUE /\ UNCHANGED <<sector, flags, pc, mine>>
       ELSE \E i \in Recyclable :
              /\ \A j \in Recyclable : j <= i
              /\ sector' = [sector EXCEPT ![lru[i]] = want[p]]
              /\ flags' = [flags EXCEPT ![lru[i]] = {"BUSY"}]
              /\ mine' = [mine EXCEPT ![p] = lru[i]]
              /\ pc' = [pc EXCEPT ![p] = "iderw"]
              /\ UNCHANGED panicked
    /\ UNCHANGED <<data, lru, dvars, want, latest>>

(***************************************************************************)
(* iderw: append the buffer, start the disk if it is the only request, and *)
(* sleep until the buffer is B_VALID and not B_DIRTY.                      *)
(***************************************************************************)
Synced(b) == flags[b] \cap {"VALID", "DIRTY"} = {"VALID"}

Started == IF idequeue = <<>> THEN "working" ELSE device

F_Enqueued(b) == <<b>> \o idequeue
Enqueued(b) == Append(idequeue, b)

Iderw(p) ==
    /\ ~panicked
    /\ pc[p] = "iderw"
    /\ LET b == mine[p] IN
       IF "BUSY" \notin flags[b] \/ Synced(b)
       THEN panicked' = TRUE /\ UNCHANGED <<dvars, pc>>
       ELSE /\ idequeue' = Enqueued(b)
            /\ device' = Started
            /\ pc' = [pc EXCEPT ![p] = "wait_io"]
            /\ UNCHANGED <<disk, job, panicked>>
    /\ UNCHANGED <<bvars, want, mine, latest>>

\* A sleeper of iderw tests the flags again.
IderwRecheck(p) ==
    /\ ~panicked
    /\ pc[p] = "check_io"
    /\ pc' = [pc EXCEPT ![p] = IF Synced(mine[p]) THEN "own" ELSE "wait_io"]
    /\ UNCHANGED <<bvars, dvars, want, mine, latest, panicked>>

\* The disk carries out the request at the head of the queue and raises its
\* interrupt; it may fail instead.
DiskOp ==
    /\ device = "working"
    /\ \/ /\ device' = "done"
          /\ LET b == Head(idequeue) IN
             disk' = IF "DIRTY" \in flags[b] THEN [disk EXCEPT ![sector[b]] = data[b]]
                     ELSE disk
       \/ job.errors /\ device' = "error" /\ UNCHANGED disk
    /\ UNCHANGED <<bvars, idequeue, job, pvars, latest, panicked>>

\* What insl leaves in the buffer: a failed read transfers nothing.
Transferred(b) ==
    IF "DIRTY" \notin flags[b] /\ device = "done" THEN disk[sector[b]] ELSE data[b]

\* idestart for the next request, if there is one.
Restarted == IF Len(idequeue) > 1 THEN "working" ELSE "idle"

Ideintr ==
    /\ ~panicked
    /\ device \in {"done", "error"}
    /\ LET b == Head(idequeue) IN
       /\ data' = [data EXCEPT ![b] = Transferred(b)]
       /\ flags' = [flags EXCEPT ![b] = (@ \cup {"VALID"}) \ {"DIRTY"}]
       /\ pc' = Awake(b)
    /\ idequeue' = Tail(idequeue)
    /\ device' = Restarted
    /\ UNCHANGED <<sector, lru, disk, job, want, mine, latest, panicked>>

(***************************************************************************)
(* What the holder of a B_BUSY buffer does with it.                        *)
(***************************************************************************)
\* Change the data and bwrite it (as install_trans and write_head do).
Bwrite(p, v) ==
    /\ ~panicked
    /\ pc[p] = "own"
    /\ LET b == mine[p] IN
       /\ data' = [data EXCEPT ![b] = v]
       /\ flags' = [flags EXCEPT ![b] = @ \cup {"DIRTY"}]
       /\ latest' = [latest EXCEPT ![sector[b]] = v]
    /\ pc' = [pc EXCEPT ![p] = "iderw"]
    /\ UNCHANGED <<sector, lru, dvars, want, mine, panicked>>

\* Change the data and mark it with log_write, to be written at commit.
LogWrite(p, v) ==
    /\ ~panicked
    /\ pc[p] = "own"
    /\ LET b == mine[p] IN
       /\ data' = [data EXCEPT ![b] = v]
       /\ flags' = [flags EXCEPT ![b] = @ \cup {"DIRTY"}]
       /\ latest' = [latest EXCEPT ![sector[b]] = v]
    /\ UNCHANGED <<sector, lru, dvars, pvars, panicked>>

MoveToFront(b) == <<b>> \o SelectSeq(lru, LAMBDA x : x # b)

F_ReleasedBy(p, b) == [pc EXCEPT ![p] = "out"]
ReleasedBy(p, b) == [Awake(b) EXCEPT ![p] = "out"]

Brelse(p) ==
    /\ ~panicked
    /\ pc[p] = "own"
    /\ LET b == mine[p] IN
       IF "BUSY" \notin flags[b]
       THEN panicked' = TRUE /\ UNCHANGED <<flags, lru, pc, want, mine>>
       ELSE /\ lru' = MoveToFront(b)
            /\ flags' = [flags EXCEPT ![b] = @ \ {"BUSY"}]
            /\ pc' = ReleasedBy(p, b)
            /\ mine' = [mine EXCEPT ![p] = NoBuf]
            /\ want' = [want EXCEPT ![p] = NoSector]
            /\ UNCHANGED panicked
    /\ UNCHANGED <<sector, data, dvars, latest>>

\* panic() ends in for(;;).
Halted == panicked /\ UNCHANGED vars

KernelStep(p) ==
    BgetCached(p) \/ BgetRecycle(p) \/ Iderw(p) \/ IderwRecheck(p) \/ Brelse(p)

Next ==
    \/ \E p \in Proc : KernelStep(p)
    \/ \E p \in Proc, s \in Sector : Bread(p, s)
    \/ \E p \in Proc, v \in job.values : Bwrite(p, v) \/ LogWrite(p, v)
    \/ DiskOp \/ Ideintr \/ Halted

Spec == Init /\ [][Next]_vars

\* The disk answers, its interrupt is delivered, and a process inside the
\* kernel keeps running and releases the buffers it holds.
Fairness ==
    /\ WF_vars(DiskOp) /\ WF_vars(Ideintr)
    /\ \A p \in Proc : WF_vars(KernelStep(p))
FairSpec == Spec /\ Fairness

-----------------------------------------------------------------------------
(***************************************************************************)
(* Properties.                                                             *)
(***************************************************************************)
Holding == {"own", "iderw", "wait_io", "check_io"}
Holds(p, b) == pc[p] \in Holding /\ mine[p] = b

TypeOK ==
    /\ sector \in [Buf -> Sector \cup {NoSector}]
    /\ flags \in [Buf -> SUBSET Flag]
    /\ data \in [Buf -> Value]
    /\ lru \in [1..Cardinality(Buf) -> Buf]
    /\ idequeue \in Seq(Buf)
    /\ disk \in [Sector -> Value]
    /\ device \in {"idle", "working", "done", "error"}
    /\ pc \in [Proc -> {"out", "bget", "wait_buf"} \cup Holding]
    /\ want \in [Proc -> Sector \cup {NoSector}]
    /\ mine \in [Proc -> Buf \cup {NoBuf}]
    /\ latest \in [Sector -> Value]
    /\ job \in Jobs
    /\ panicked \in BOOLEAN

\* bget never gives a sector two buffers, though it sleeps between finding
\* the buffer busy and looking again, and buffers are recycled meanwhile; and
\* B_BUSY is a lock: it is set exactly while one process is between the bget
\* and the brelse of the buffer, disk waits included.  Of the panics of bio.c
\* and ide.c only "bget: no buffers" can happen.
Exclusive ==
    /\ TypeOK
    /\ panicked => Recyclable = {}
    /\ \A a, b \in Buf : sector[a] = sector[b] /\ sector[a] # NoSector => a = b
    /\ \A p, q \in Proc, b \in Buf : Holds(p, b) /\ Holds(q, b) => p = q
    /\ \A b \in Buf : "BUSY" \in flags[b] <=> \E p \in Proc : Holds(p, b)

\* bread returns the sector that was asked for with the contents last given
\* to it, whether they are on disk or only in a pinned buffer (bio.c:95
\* "Return a B_BUSY buf with the contents of the indicated disk sector").
\* The contents may be wrong when the disk reports errors: ideintr sets
\* B_VALID and clears B_DIRTY all the same.  Contents that are not on disk
\* yet are in a B_DIRTY buffer of their sector, which bget cannot recycle.
ReadsLatest ==
    /\ \A p \in Proc : pc[p] = "own" =>
        sector[mine[p]] = want[p] /\ (job.errors \/ data[mine[p]] = latest[want[p]])
    /\ ~job.errors => \A s \in Sector : disk[s] # latest[s] =>
        \E b \in Caching(s) : "DIRTY" \in flags[b] /\ data[b] = latest[s]

\* No lost wakeup on the channel bget and iderw share: who sleeps in bget
\* waits for a holder's brelse, who sleeps in iderw for a queued request; the
\* queue holds a buffer once, each for a waiting process, and the disk works
\* exactly while the queue is not empty.
NoLostWakeup ==
    /\ \A p \in Proc :
        /\ pc[p] = "wait_buf" => "BUSY" \in flags[mine[p]]
        /\ pc[p] = "wait_io" => \E i \in 1..Len(idequeue) : idequeue[i] = mine[p]
    /\ \A i, j \in 1..Len(idequeue) : idequeue[i] = idequeue[j] => i = j
    /\ \A i \in 1..Len(idequeue) : \E p \in Proc : Holds(p, idequeue[i]) /\ pc[p] = "wait_io"
    /\ device = "idle" <=> idequeue = <<>>

\* Every request handed to iderw completes, whatever is queued before it.
RequestCompletes ==
    \A p \in Proc : pc[p] = "iderw" ~> (pc[p] = "own" \/ panicked)
=============================================================================
