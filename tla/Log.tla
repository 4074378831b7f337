-------------------------------- MODULE Log --------------------------------
(***************************************************************************)
(* The file-system log of log.c: begin_trans, log_write, commit_trans and  *)
(* the recovery that initlog runs at boot, over a disk that can lose power *)
(* between any two sector writes.                                          *)
(*                                                                         *)
(* Memory: the buffers of the data blocks (cache, dirty) and struct log    *)
(* (lh, busy).  Disk: the home blocks, the log blocks and the log header.  *)
(* A bwrite is one atomic step; bread/modify/log_write/brelse by the       *)
(* holder of the buffer is one step, since the buffer is B_BUSY meanwhile. *)
(***************************************************************************)
EXTENDS Integers, Sequences, FiniteSets

CONSTANTS
    Proc,       \* processes that make file-system calls
    InitProc,   \* the first process, which runs initlog from forkret
    Block,      \* home blocks of the file system
    Value,      \* contents of a block
    NoBuf,      \* a block that is not in the buffer cache
    NoOwner,    \* no process is in a transaction
    LOGSIZE,    \* param.h: sectors the in-memory header can hold
    LogBlocks   \* log.size: sectors of the on-disk log, header included

ASSUME LogAssumption ==
    /\ InitProc \in Proc
    /\ NoBuf \notin Value
    /\ NoOwner \notin Proc
    /\ LOGSIZE \in Nat /\ LogBlocks \in Nat

VARIABLES
    disk,      \* home blocks on disk
    logd,      \* log blocks on disk, by position
    hdr,       \* header block on disk: the first n entries of sector[]
    cache,     \* buffer contents, NoBuf when the block has no buffer
    dirty,     \* blocks whose buffer has B_DIRTY set
    lh,        \* log.lh, the in-memory header
    busy,      \* log.busy
    tail,      \* install_trans's loop counter
    pc,        \* what each process is doing
    panicked,  \* a kernel panic stopped the machine
    finished,  \* history: image left by the last transaction that returned
    committed  \* history: image promised by the last header write

disks == <<disk, logd, hdr>>
vars == <<disk, logd, hdr, cache, dirty, lh, busy, tail, pc, panicked,
          finished, committed>>

\* What a bread of the block returns now.
View == [b \in Block |-> IF cache[b] = NoBuf THEN disk[b] ELSE cache[b]]

Listed(h) == {h[i] : i \in 1..Len(h)}

\* The places of commit_trans after the call, up to its busy = 0.
Committing == {"head", "log", "home", "finish"}

\* A process that has returned from begin_trans and not from commit_trans.
InTrans(p) == busy /\ pc[p] \in {"trans"} \cup Committing

\* The buffer install_trans holds B_BUSY between its two bwrites.
Held(b) == \E p \in Proc : pc[p] = "home" /\ b = lh[tail + 1]

(***************************************************************************)
(* Power-on.  The buffers are empty, struct log is zero, and only the      *)
(* first process exists: it runs initlog.                                  *)
(***************************************************************************)
PowerOn == [p \in Proc |-> IF p = InitProc THEN "boot" ELSE "unborn"]

\* A disk made by mkfs: an all-zero header.
Init ==
    /\ cache = [b \in Block |-> NoBuf]
    /\ dirty = {}
    /\ lh = <<>>
    /\ busy = FALSE
    /\ tail = 0
    /\ pc = PowerOn
    /\ panicked = FALSE
    /\ disk \in [Block -> Value]
    /\ logd = [i \in 1..LOGSIZE |-> NoBuf]
    /\ hdr = <<>>
    /\ finished = disk
    /\ committed = disk

\* Definitions named F_... are faulty variants of the definition that follows
\* them; each shows that some property below can tell the code from a
\* plausible bug.  They are not part of the specification.

Goto(p, l) == pc' = [pc EXCEPT ![p] = l]

(***************************************************************************)
(* Buffers.  Any process may read a block; bget may recycle a buffer only  *)
(* when it is neither B_BUSY nor B_DIRTY.                                  *)
(***************************************************************************)
Read(b) ==
    /\ ~panicked
    /\ cache[b] = NoBuf
    /\ cache' = [cache EXCEPT ![b] = disk[b]]
    /\ UNCHANGED <<disks, dirty, lh, busy, tail, pc, panicked, finished, committed>>

F_Recyclable(b) == cache[b] # NoBuf /\ ~Held(b)
Recyclable(b) == cache[b] # NoBuf /\ b \notin dirty /\ ~Held(b)

Recycle(b) ==
    /\ ~panicked
    /\ Recyclable(b)
    /\ cache' = [cache EXCEPT ![b] = NoBuf]
    /\ UNCHANGED <<disks, dirty, lh, busy, tail, pc, panicked, finished, committed>>

(***************************************************************************)
(* begin_trans: under log.lock, sleep while busy, then take the log.  A    *)
(* process woken by wakeup(&log) tests busy again.                         *)
(***************************************************************************)
F_MustSleep(p) == busy /\ pc[p] = "idle"
MustSleep(p) == busy

BeginTrans(p) ==
    /\ ~panicked
    /\ pc[p] \in {"idle", "woken"}
    /\ IF MustSleep(p)
       THEN Goto(p, "asleep") /\ UNCHANGED busy
       ELSE Goto(p, "trans") /\ busy' = TRUE
    /\ UNCHANGED <<disks, cache, dirty, lh, tail, panicked, finished, committed>>

\* log_write's two panics; the first is tested before absorption.
TooBig == Len(lh) >= LOGSIZE \/ Len(lh) >= LogBlocks - 1

LogWritePanic(p) ==
    /\ ~panicked
    /\ pc[p] = "trans"
    /\ TooBig \/ ~busy
    /\ panicked' = TRUE
    /\ UNCHANGED <<disks, cache, dirty, lh, busy, tail, pc, finished, committed>>

F_Pin(b) == dirty
Pin(b) == dirty \cup {b}

\* bread, modify, log_write, brelse: the block is recorded once (absorption)
\* and pinned with B_DIRTY; nothing is written to disk.
LogWrite(p, b, v) ==
    /\ ~panicked
    /\ pc[p] = "trans"
    /\ ~TooBig
    /\ busy
    /\ cache' = [cache EXCEPT ![b] = v]
    /\ lh' = IF b \in Listed(lh) THEN lh ELSE Append(lh, b)
    /\ dirty' = Pin(b)
    /\ UNCHANGED <<disks, busy, tail, pc, panicked, finished, committed>>

(***************************************************************************)
(* commit_trans.                                                           *)
(***************************************************************************)
CommitTrans(p) ==
    /\ ~panicked
    /\ pc[p] = "trans"
    /\ Goto(p, IF Len(lh) > 0 THEN "head" ELSE "finish")
    /\ UNCHANGED <<disks, cache, dirty, lh, busy, tail, panicked, finished, committed>>

F_SavedHead == hdr
SavedHead == lh

\* The first write_head, then tail = 0.
WriteHead(p) ==
    /\ ~panicked
    /\ pc[p] = "head"
    /\ hdr' = SavedHead
    /\ tail' = 0
    /\ committed' = View
    /\ Goto(p, "log")
    /\ UNCHANGED <<disk, logd, cache, dirty, lh, busy, panicked, finished>>

(***************************************************************************)
(* install_trans, shared by commit_trans and recover_from_log: bread both  *)
(* buffers, copy the home buffer over the log buffer, and write the two.   *)
(***************************************************************************)
DstBuf(b) == View[b]

NextTail == tail + 1

MoreToInstall == tail < Len(lh)

InstallLog(p) ==
    /\ ~panicked
    /\ pc[p] = "log"
    /\ MoreToInstall
    /\ LET b == lh[tail + 1] IN
       /\ cache' = [cache EXCEPT ![b] = DstBuf(b)]
       /\ logd' = [logd EXCEPT ![tail + 1] = DstBuf(b)]
    /\ Goto(p, "home")
    /\ UNCHANGED <<disk, hdr, dirty, lh, busy, tail, panicked, finished, committed>>

InstallHome(p) ==
    /\ ~panicked
    /\ pc[p] = "home"
    /\ LET b == lh[tail + 1] IN
       /\ disk' = [disk EXCEPT ![b] = cache[b]]
       /\ dirty' = dirty \ {b}  \* iderw clears B_DIRTY
    /\ tail' = NextTail
    /\ Goto(p, "log")
    /\ UNCHANGED <<logd, hdr, cache, lh, busy, panicked, finished, committed>>

\* The loop ends; lh.n = 0 and the second write_head.  Recovery then lets
\* the first process return to user space and fork the others.
EraseHead(p) ==
    /\ ~panicked
    /\ pc[p] = "log"
    /\ ~MoreToInstall
    /\ lh' = <<>>
    /\ hdr' = <<>>
    /\ IF busy
       THEN Goto(p, "finish")
       ELSE pc' = [q \in Proc |-> "idle"]
    /\ UNCHANGED <<disk, logd, cache, dirty, busy, tail, panicked, finished, committed>>

F_Wakeup == pc
Wakeup == [q \in Proc |-> IF pc[q] = "asleep" THEN "woken" ELSE pc[q]]

\* busy = 0 and wakeup(&log), under log.lock.
FinishTrans(p) ==
    /\ ~panicked
    /\ pc[p] = "finish"
    /\ busy' = FALSE
    /\ pc' = [Wakeup EXCEPT ![p] = "idle"]
    /\ finished' = View
    /\ UNCHANGED <<disks, cache, dirty, lh, tail, panicked, committed>>

(***************************************************************************)
(* initlog -> recover_from_log: read_head, then install_trans.             *)
(***************************************************************************)
ReadHead(p) ==
    /\ ~panicked
    /\ pc[p] = "boot"
    /\ lh' = hdr
    /\ tail' = 0
    /\ Goto(p, "log")
    /\ UNCHANGED <<disks, cache, dirty, busy, panicked, finished, committed>>

\* Power fails: memory is lost, the disk keeps what was written to it.
Crash ==
    /\ cache' = [b \in Block |-> NoBuf]
    /\ dirty' = {}
    /\ lh' = <<>>
    /\ busy' = FALSE
    /\ tail' = 0
    /\ pc' = PowerOn
    /\ panicked' = FALSE
    /\ finished' = disk
    /\ UNCHANGED <<disks, committed>>

CommitStep(p) ==
    \/ CommitTrans(p) \/ WriteHead(p) \/ InstallLog(p) \/ InstallHome(p)
    \/ EraseHead(p) \/ FinishTrans(p) \/ ReadHead(p)

Next ==
    \/ \E p \in Proc :
         \/ BeginTrans(p) \/ LogWritePanic(p) \/ CommitStep(p)
         \/ \E b \in Block, v \in Value : LogWrite(p, b, v)
    \/ \E b \in Block : Read(b) \/ Recycle(b)
    \/ Crash

Spec == Init /\ [][Next]_vars

\* Every process in the kernel keeps running; a system call reaches its
\* commit_trans after finitely many log_writes.
Fairness == \A p \in Proc : WF_vars(CommitStep(p))
FairSpec == Spec /\ Fairness

-----------------------------------------------------------------------------
(***************************************************************************)
(* Properties.                                                             *)
(***************************************************************************)
Labels == {"unborn", "boot", "idle", "asleep", "woken", "trans"} \cup Committing

TypeOK ==
    /\ disk \in [Block -> Value]
    /\ logd \in [1..LOGSIZE -> Value \cup {NoBuf}]
    /\ hdr \in Seq(Block) /\ Len(hdr) <= LOGSIZE
    /\ cache \in [Block -> Value \cup {NoBuf}]
    /\ dirty \subseteq Block
    /\ lh \in Seq(Block) /\ Len(lh) <= LOGSIZE
    /\ busy \in BOOLEAN
    /\ tail \in 0..LOGSIZE
    /\ pc \in [Proc -> Labels]
    /\ panicked \in BOOLEAN
    /\ finished \in [Block -> Value]
    /\ committed \in [Block -> Value]

\* begin_trans and commit_trans serialise transactions: log.busy is set
\* exactly while one process is between the two, whatever sleeps, wakes or
\* crashes happen (log.c:14 "only one system call can be in a transaction").
OneTransaction ==
    /\ \A p, q \in Proc : InTrans(p) /\ InTrans(q) => p = q
    /\ busy => \E p \in Proc : InTrans(p)
    /\ \A p \in Proc : pc[p] \in {"trans", "head", "finish"} => busy

\* sleep(&log) in begin_trans cannot miss the wakeup of commit_trans: a
\* process is asleep only while the log is busy.
NoLostWakeup == \A p \in Proc : pc[p] = "asleep" => busy

\* Transactions are serialised and no sleeper in begin_trans is forgotten.
Serialised == TypeOK /\ OneTransaction /\ NoLostWakeup

Uninstalled(p) ==
    {lh[i] : i \in (IF pc[p] \in {"log", "home"} THEN tail + 1 ELSE 1)..Len(lh)}

\* B_DIRTY pins exactly the logged blocks whose home copy is still to be
\* written, so bget can never recycle a buffer that holds the only copy of
\* logged data, and every clean buffer agrees with the disk.
PinnedUntilInstalled ==
    /\ \A p \in Proc : InTrans(p) => dirty = Uninstalled(p)
    /\ ~busy => dirty = {}
    /\ \A b \in Block \ dirty : cache[b] \in {NoBuf, disk[b]}

\* The open transaction has passed the test of lh.n in commit_trans.
Sealed == \E p \in Proc : InTrans(p) /\ pc[p] \in Committing

\* Before commit_trans, after it, during recovery and after any crash in
\* these states, the disk holds exactly the image of the last transaction
\* that finished: no block of an uncommitted transaction reaches the disk.
UncommittedInvisible == ~Sealed => disk = finished

\* Write-ahead: install_trans changes a home block only while the header
\* on disk lists it, so that recovery would visit it.
WriteAhead ==
    [][\A b \in Block : disk'[b] # disk[b] => b \in Listed(hdr)]_vars

Owner ==
    IF \E p \in Proc : InTrans(p) THEN CHOOSE p \in Proc : InTrans(p) ELSE NoOwner

Store == INSTANCE TransStore
    WITH store <- finished, pend <- View, owner <- Owner, sealed <- Sealed

\* The log implements the transactional store, torn crashes included.
Refinement == Store!Spec

\* A process asleep in begin_trans is eventually woken: commit_trans always
\* gets through its disk writes to busy = 0 (or log_write panics, or power
\* fails) and wakes every sleeper.
SleeperWoken == \A p \in Proc : pc[p] = "asleep" ~> (pc[p] # "asleep" \/ panicked)

\* log.c:101-103: the header write "is the true point at which the current
\* transaction commits".  Whenever no commit or recovery is under way, the
\* disk must then hold the image of the last header write.
CommitIsDurable ==
    (\A p \in Proc : pc[p] \in {"idle", "asleep", "woken", "trans"}) => disk = committed
============================================================================
