----------------------------- MODULE LogProofs -----------------------------
(***************************************************************************)
(* Proofs about Log for every set of processes, blocks and values and      *)
(* every log size.                                                         *)
(***************************************************************************)
EXTENDS Log, TLAPS

\* The first process is in recover_from_log.
Recovering == ~busy /\ pc[InitProc] \in {"boot", "log", "home"}

\* Who may be where: at most one process is in a transaction, and recovery
\* runs alone, before any other process exists.
Control ==
    /\ OneTransaction
    /\ NoLostWakeup
    /\ Recovering => \A q \in Proc \ {InitProc} : pc[q] = "unborn"
    /\ ~Recovering => \A p \in Proc : pc[p] \notin {"unborn", "boot"}
    /\ ~Recovering /\ ~busy => \A p \in Proc : pc[p] \in {"idle", "asleep", "woken"}

\* What install_trans relies on while it runs, and leaves behind.
Installing ==
    /\ \A p \in Proc : pc[p] \in {"log", "home"} => hdr = lh /\ tail <= Len(lh)
    /\ \A p \in Proc : pc[p] = "home" =>
         tail < Len(lh) /\ cache[lh[tail + 1]] # NoBuf
    /\ busy => \A i, j \in 1..Len(lh) : lh[i] = lh[j] => i = j
    /\ \A p \in Proc : pc[p] = "finish" => lh = <<>>
    /\ ~busy /\ ~Recovering => lh = <<>>

\* The disk is, block by block, between the finished and the current image.
Between == \A b \in Block : disk[b] \in {finished[b], View[b]}

Inv ==
    /\ TypeOK
    /\ Control
    /\ Installing
    /\ PinnedUntilInstalled
    /\ Between
    /\ UncommittedInvisible

-----------------------------------------------------------------------------
USE LogAssumption

\* bread returns a block's contents.
LEMMA ViewType ==
  ASSUME TypeOK
  PROVE  View \in [Block -> Value]
BY DEF TypeOK, View

\* The block install_trans is at.
LEMMA TailBlock ==
  ASSUME TypeOK, tail < Len(lh)
  PROVE  lh[tail + 1] \in Block /\ tail + 1 \in 1..Len(lh) /\ tail + 1 \in 1..LOGSIZE
BY DEF TypeOK

LEMMA InitInv == Init => Inv
<1> SUFFICES ASSUME Init PROVE Inv
  OBVIOUS
<1>1. TypeOK
  <2>1. <<>> \in Seq(Block) /\ Len(<<>>) <= LOGSIZE
    OBVIOUS
  <2>2. PowerOn \in [Proc -> Labels]
    BY DEF PowerOn, Labels
  <2> QED
    <3>1. logd \in [1..LOGSIZE -> Value \cup {NoBuf}]
      BY DEF Init
    <3>2. cache \in [Block -> Value \cup {NoBuf}] /\ tail \in 0..LOGSIZE
      BY DEF Init
    <3> QED
      BY <2>1, <2>2, <3>1, <3>2, Zenon DEF Init, TypeOK
<1>2. Control
  BY DEF Init, Control, OneTransaction, NoLostWakeup, InTrans, Recovering, PowerOn
<1>3. Installing
  BY DEF Init, Installing, Recovering, PowerOn
<1>4. PinnedUntilInstalled /\ Between /\ UncommittedInvisible
  BY DEF Init, PinnedUntilInstalled, Between, UncommittedInvisible, InTrans, View
<1> QED
  BY <1>1, <1>2, <1>3, <1>4 DEF Inv

LEMMA BeginTransInv ==
  ASSUME Inv, NEW p \in Proc, BeginTrans(p)
  PROVE  Inv'
<1> USE DEF BeginTrans, Goto, MustSleep, disks
<1>1. TypeOK'
  BY DEF Inv, TypeOK, Labels, Committing
<1>2. Control'
  BY DEF Inv, TypeOK, Control, OneTransaction, NoLostWakeup, InTrans, Recovering, Committing, Labels
<1>3. Installing'
  BY SMTT(30) DEF Inv, TypeOK, Control, Installing, Recovering
<1>4. PinnedUntilInstalled'
  BY DEF Inv, TypeOK, Control, OneTransaction, Installing, Recovering, PinnedUntilInstalled, InTrans, Uninstalled, Committing
<1>5. Between' /\ UncommittedInvisible'
  BY DEF Inv, TypeOK, Between, UncommittedInvisible, View, Sealed, InTrans, Committing
<1> QED
  BY <1>1, <1>2, <1>3, <1>4, <1>5 DEF Inv

LEMMA LogWritePanicInv ==
  ASSUME Inv, NEW p \in Proc, LogWritePanic(p)
  PROVE  Inv'
<1> USE DEF LogWritePanic, disks
<1>1. TypeOK'
  BY DEF Inv, TypeOK, Labels, Committing
<1>2. Control'
  BY DEF Inv, TypeOK, Control, OneTransaction, NoLostWakeup, InTrans, Recovering, Committing, Labels
<1>3. Installing'
  BY DEF Inv, TypeOK, Control, OneTransaction, InTrans, Committing, Installing, Recovering
<1>4. PinnedUntilInstalled'
  BY DEF Inv, TypeOK, Control, OneTransaction, Installing, Recovering, PinnedUntilInstalled, InTrans, Uninstalled, Committing
<1>5. Between' /\ UncommittedInvisible'
  BY DEF Inv, TypeOK, Between, UncommittedInvisible, View, Sealed, InTrans, Committing
<1> QED
  BY <1>1, <1>2, <1>3, <1>4, <1>5 DEF Inv

LEMMA LogWriteInv ==
  ASSUME Inv, NEW p \in Proc, NEW b \in Block, NEW v \in Value, LogWrite(p, b, v)
  PROVE  Inv'
<1> USE DEF LogWrite, disks, TooBig, Pin, Listed
<1>1. TypeOK'
  BY DEF Inv, TypeOK, Labels, Committing
<1>2. Control'
  BY DEF Inv, TypeOK, Control, OneTransaction, NoLostWakeup, InTrans, Recovering, Committing, Labels
<1>3. Installing'
  BY DEF Inv, TypeOK, Control, OneTransaction, InTrans, Committing, Installing, Recovering
<1>4. PinnedUntilInstalled'
  BY DEF Inv, TypeOK, Control, OneTransaction, Installing, Recovering, PinnedUntilInstalled, InTrans, Uninstalled, Committing
<1>5. Between' /\ UncommittedInvisible'
  <2>1. ~Sealed
    BY DEF Inv, Control, OneTransaction, Sealed, InTrans, Committing
  <2>2. disk' = finished'
    BY <2>1 DEF Inv, UncommittedInvisible
  <2> QED
    BY <2>2 DEF Between, UncommittedInvisible
<1> QED
  BY <1>1, <1>2, <1>3, <1>4, <1>5 DEF Inv

LEMMA CommitTransInv ==
  ASSUME Inv, NEW p \in Proc, CommitTrans(p)
  PROVE  Inv'
<1> USE DEF CommitTrans, disks, Goto
<1>1. TypeOK'
  BY DEF Inv, TypeOK, Labels, Committing
<1>2. Control'
  BY DEF Inv, TypeOK, Control, OneTransaction, NoLostWakeup, InTrans, Recovering, Committing, Labels
<1>3. Installing'
  BY DEF Inv, TypeOK, Control, OneTransaction, InTrans, Committing, Installing, Recovering
<1>4. PinnedUntilInstalled'
  BY DEF Inv, TypeOK, Control, OneTransaction, Installing, Recovering, PinnedUntilInstalled, InTrans, Uninstalled, Committing
<1>5. Between' /\ UncommittedInvisible'
  BY DEF Inv, TypeOK, Between, UncommittedInvisible, View, Sealed, InTrans, Committing
<1> QED
  BY <1>1, <1>2, <1>3, <1>4, <1>5 DEF Inv

LEMMA WriteHeadInv ==
  ASSUME Inv, NEW p \in Proc, WriteHead(p)
  PROVE  Inv'
<1> USE DEF WriteHead, Goto, SavedHead
<1>1. TypeOK'
  <2>1. View \in [Block -> Value]
    BY ViewType DEF Inv
  <2> QED
    BY <2>1 DEF Inv, TypeOK, Labels, Committing
<1>2. Control'
  BY DEF Inv, TypeOK, Control, OneTransaction, NoLostWakeup, InTrans, Recovering, Committing, Labels
<1>3. Installing'
  BY DEF Inv, TypeOK, Control, OneTransaction, InTrans, Committing, Installing, Recovering
<1>4. PinnedUntilInstalled'
  BY DEF Inv, TypeOK, Control, OneTransaction, Installing, Recovering, PinnedUntilInstalled, InTrans, Uninstalled, Committing
<1>5. Between' /\ UncommittedInvisible'
  BY DEF Inv, TypeOK, Between, UncommittedInvisible, View, Sealed, InTrans, Committing
<1> QED
  BY <1>1, <1>2, <1>3, <1>4, <1>5 DEF Inv

LEMMA InstallLogInv ==
  ASSUME Inv, NEW p \in Proc, InstallLog(p)
  PROVE  Inv'
<1> USE DEF InstallLog, Goto, DstBuf, MoreToInstall
<1> DEFINE b == lh[tail + 1]
<1>0. b \in Block /\ tail + 1 \in 1..LOGSIZE /\ tail + 1 \in 1..Len(lh) /\ View \in [Block -> Value]
  BY TailBlock, ViewType DEF Inv
<1>c. /\ cache' = [cache EXCEPT ![b] = View[b]]
      /\ logd' = [logd EXCEPT ![tail + 1] = View[b]]
  BY DEF InstallLog
<1> HIDE DEF b
<1>1. TypeOK'
  <2>0. View[b] \in Value \cup {NoBuf}
    BY <1>0
  <2>1. cache' \in [Block -> Value \cup {NoBuf}]
    BY <1>0, <1>c, <2>0 DEF Inv, TypeOK
  <2>2. logd' \in [1..LOGSIZE -> Value \cup {NoBuf}]
    BY <1>0, <1>c, <2>0 DEF Inv, TypeOK
  <2>3. pc' \in [Proc -> Labels]
    BY DEF Inv, TypeOK, Labels, Committing
  <2> QED
    BY <2>1, <2>2, <2>3 DEF Inv, TypeOK
<1>2. Control'
  BY DEF Inv, TypeOK, Control, OneTransaction, NoLostWakeup, InTrans, Recovering, Committing, Labels
<1>3. Installing'
  <2>1. cache'[b] # NoBuf
    <3>1. View[b] # NoBuf
      BY <1>0
    <3> QED
      BY <1>0, <1>c, <3>1 DEF Inv, TypeOK
  <2>2. \A q \in Proc : pc[q] \in {"log", "home"} => q = p
    BY DEF Inv, Control, OneTransaction, InTrans, Committing, Recovering
  <2> QED
    BY <2>1, <2>2 DEF Inv, TypeOK, Installing, Recovering, b
<1>4. PinnedUntilInstalled'
  <2>1. \A q \in Proc : InTrans(q)' => InTrans(q) /\ Uninstalled(q)' = Uninstalled(q)
    BY DEF Inv, TypeOK, InTrans, Uninstalled, Committing
  <2>2. \A x \in Block \ dirty : cache'[x] \in {NoBuf, disk[x]}
    BY <1>0, <1>c DEF Inv, TypeOK, PinnedUntilInstalled, View
  <2> QED
    BY <2>1, <2>2 DEF Inv, PinnedUntilInstalled
<1>5. Between' /\ UncommittedInvisible'
  BY DEF Inv, TypeOK, Between, UncommittedInvisible, View, Sealed, InTrans, Committing
<1> QED
  BY <1>1, <1>2, <1>3, <1>4, <1>5 DEF Inv

LEMMA InstallHomeInv ==
  ASSUME Inv, NEW p \in Proc, InstallHome(p)
  PROVE  Inv'
<1> USE DEF InstallHome, Goto, NextTail
<1> DEFINE b == lh[tail + 1]
<1>0. b \in Block /\ tail < Len(lh) /\ cache[b] \in Value
  BY TailBlock DEF Inv, TypeOK, Installing
<1>c. disk' = [disk EXCEPT ![b] = cache[b]] /\ dirty' = dirty \ {b}
  BY DEF InstallHome
<1>u. \A q \in Proc : pc[q] \in {"log", "home"} => q = p
  BY DEF Inv, Control, OneTransaction, InTrans, Committing, Recovering
<1> HIDE DEF b
<1>1. TypeOK'
  BY <1>0, <1>c DEF Inv, TypeOK, Labels, Committing
<1>2. Control'
  BY DEF Inv, TypeOK, Control, OneTransaction, NoLostWakeup, InTrans, Recovering, Committing, Labels
<1>3. Installing'
  BY <1>0, <1>u DEF Inv, TypeOK, Installing, Recovering
<1>4. PinnedUntilInstalled'
  BY DEF Inv, TypeOK, Control, OneTransaction, Installing, Recovering, PinnedUntilInstalled, InTrans, Uninstalled, Committing
<1>5. Between' /\ UncommittedInvisible'
  <2>1. View'[b] = disk'[b]
    BY <1>0, <1>c DEF Inv, TypeOK, View
  <2>2. \A x \in Block \ {b} : View'[x] = View[x] /\ disk'[x] = disk[x]
    BY <1>0, <1>c DEF Inv, TypeOK, View
  <2>3. Between'
    BY <2>1, <2>2 DEF Inv, Between
  <2>4. ASSUME busy PROVE UncommittedInvisible'
    BY <2>4 DEF Inv, TypeOK, UncommittedInvisible, Sealed, InTrans, Committing
  <2>5. ASSUME ~busy PROVE UncommittedInvisible'
    <3>1. cache[b] = disk[b] /\ disk = finished
      BY <1>0, <2>5 DEF Inv, TypeOK, PinnedUntilInstalled, UncommittedInvisible, Sealed, InTrans
    <3> QED
      BY <1>0, <1>c, <3>1 DEF Inv, TypeOK, UncommittedInvisible
  <2> QED
    BY <2>3, <2>4, <2>5
<1> QED
  BY <1>1, <1>2, <1>3, <1>4, <1>5 DEF Inv

LEMMA EraseHeadInv ==
  ASSUME Inv, NEW p \in Proc, EraseHead(p)
  PROVE  Inv'
<1> USE DEF EraseHead, Goto, MoreToInstall
<1>1. TypeOK'
  BY DEF Inv, TypeOK, Labels, Committing
<1>2. Control'
  BY DEF Inv, TypeOK, Control, OneTransaction, NoLostWakeup, InTrans, Recovering, Committing, Labels
<1>3. Installing'
  BY DEF Inv, TypeOK, Control, OneTransaction, InTrans, Committing, Installing, Recovering
<1>4. PinnedUntilInstalled'
  BY DEF Inv, TypeOK, Control, OneTransaction, Installing, Recovering, PinnedUntilInstalled, InTrans, Uninstalled, Committing
<1>5. Between' /\ UncommittedInvisible'
  BY DEF Inv, TypeOK, Between, UncommittedInvisible, View, Sealed, InTrans, Committing
<1> QED
  BY <1>1, <1>2, <1>3, <1>4, <1>5 DEF Inv

LEMMA FinishTransInv ==
  ASSUME Inv, NEW p \in Proc, FinishTrans(p)
  PROVE  Inv'
<1> USE DEF FinishTrans, disks, Wakeup
<1>1. TypeOK'
  <2>1. View \in [Block -> Value]
    BY ViewType DEF Inv
  <2>2. pc' \in [Proc -> Labels]
    BY DEF Inv, TypeOK, Labels
  <2> QED
    BY <2>1, <2>2 DEF Inv, TypeOK
<1>2. Control'
  BY DEF Inv, TypeOK, Control, OneTransaction, NoLostWakeup, InTrans, Recovering, Committing, Labels
<1>3. Installing'
  BY DEF Inv, TypeOK, Control, OneTransaction, InTrans, Committing, Installing, Recovering
<1>4. PinnedUntilInstalled'
  BY DEF Inv, TypeOK, Control, OneTransaction, Installing, Recovering, PinnedUntilInstalled, InTrans, Uninstalled, Committing
<1>5. Between' /\ UncommittedInvisible'
  <2>1. busy /\ InTrans(p) /\ lh = <<>>
    BY DEF Inv, Control, OneTransaction, Installing, InTrans, Committing
  <2>2. dirty = {}
    BY <2>1 DEF Inv, PinnedUntilInstalled, Uninstalled
  <2>3. disk = View
    BY <2>2 DEF Inv, TypeOK, PinnedUntilInstalled, View
  <2> QED
    BY <2>3 DEF Between, UncommittedInvisible
<1> QED
  BY <1>1, <1>2, <1>3, <1>4, <1>5 DEF Inv

LEMMA ReadHeadInv ==
  ASSUME Inv, NEW p \in Proc, ReadHead(p)
  PROVE  Inv'
<1> USE DEF ReadHead, disks, Goto
<1>1. TypeOK'
  BY DEF Inv, TypeOK, Labels, Committing
<1>2. Control'
  BY DEF Inv, TypeOK, Control, OneTransaction, NoLostWakeup, InTrans, Recovering, Committing, Labels
<1>3. Installing'
  BY DEF Inv, TypeOK, Control, OneTransaction, InTrans, Committing, Installing, Recovering
<1>4. PinnedUntilInstalled'
  BY DEF Inv, TypeOK, Control, OneTransaction, Installing, Recovering, PinnedUntilInstalled, InTrans, Uninstalled, Committing
<1>5. Between' /\ UncommittedInvisible'
  BY DEF Inv, TypeOK, Between, UncommittedInvisible, View, Sealed, InTrans, Committing
<1> QED
  BY <1>1, <1>2, <1>3, <1>4, <1>5 DEF Inv

LEMMA ReadInv ==
  ASSUME Inv, NEW b \in Block, Read(b)
  PROVE  Inv'
<1> USE DEF Read, disks
<1>1. TypeOK'
  BY DEF Inv, TypeOK, Labels, Committing
<1>2. Control'
  BY DEF Inv, TypeOK, Control, OneTransaction, NoLostWakeup, InTrans, Recovering, Committing, Labels
<1>3. Installing'
  BY DEF Inv, TypeOK, Control, OneTransaction, InTrans, Committing, Installing, Recovering
<1>4. PinnedUntilInstalled'
  BY DEF Inv, TypeOK, Control, OneTransaction, Installing, Recovering, PinnedUntilInstalled, InTrans, Uninstalled, Committing
<1>5. Between' /\ UncommittedInvisible'
  BY DEF Inv, TypeOK, Between, UncommittedInvisible, View, Sealed, InTrans, Committing
<1> QED
  BY <1>1, <1>2, <1>3, <1>4, <1>5 DEF Inv

LEMMA RecycleInv ==
  ASSUME Inv, NEW b \in Block, Recycle(b)
  PROVE  Inv'
<1> USE DEF Recycle, Recyclable, Held, disks
<1>1. TypeOK'
  BY DEF Inv, TypeOK, Labels, Committing
<1>2. Control'
  BY DEF Inv, TypeOK, Control, OneTransaction, NoLostWakeup, InTrans, Recovering, Committing, Labels
<1>3. Installing'
  BY DEF Inv, TypeOK, Control, OneTransaction, InTrans, Committing, Installing, Recovering
<1>4. PinnedUntilInstalled'
  BY DEF Inv, TypeOK, Control, OneTransaction, Installing, Recovering, PinnedUntilInstalled, InTrans, Uninstalled, Committing
<1>5. Between' /\ UncommittedInvisible'
  BY DEF Inv, TypeOK, Between, UncommittedInvisible, View, Sealed, InTrans, Committing
<1> QED
  BY <1>1, <1>2, <1>3, <1>4, <1>5 DEF Inv

LEMMA CrashInv ==
  ASSUME Inv, Crash
  PROVE  Inv'
<1> USE DEF Crash, disks, PowerOn
<1>1. TypeOK'
  <2>1. <<>> \in Seq(Block) /\ Len(<<>>) <= LOGSIZE /\ 0 \in 0..LOGSIZE
    OBVIOUS
  <2>2. pc' \in [Proc -> Labels] /\ cache' \in [Block -> Value \cup {NoBuf}]
    BY DEF Labels
  <2> QED
    BY <2>1, <2>2, Zenon DEF Inv, TypeOK
<1>2. Control'
  BY DEF Inv, TypeOK, Control, OneTransaction, NoLostWakeup, InTrans, Recovering, Committing, Labels
<1>3. Installing'
  BY DEF Inv, TypeOK, Control, OneTransaction, InTrans, Committing, Installing, Recovering
<1>4. PinnedUntilInstalled'
  BY DEF Inv, TypeOK, Control, OneTransaction, Installing, Recovering, PinnedUntilInstalled, InTrans, Uninstalled, Committing
<1>5. Between' /\ UncommittedInvisible'
  BY DEF Inv, TypeOK, Between, UncommittedInvisible, View, Sealed, InTrans, Committing
<1> QED
  BY <1>1, <1>2, <1>3, <1>4, <1>5 DEF Inv

LEMMA NextInv == Inv /\ [Next]_vars => Inv'
<1> SUFFICES ASSUME Inv, [Next]_vars PROVE Inv'
  OBVIOUS
<1>1. CASE UNCHANGED vars
  <2>1. TypeOK'
    BY <1>1 DEF vars, Inv, TypeOK
  <2>2. Control' /\ Installing'
    BY <1>1 DEF vars, Inv, Control, OneTransaction, NoLostWakeup, Recovering, InTrans, Installing
  <2>3. PinnedUntilInstalled'
    BY <1>1 DEF vars, Inv, PinnedUntilInstalled, InTrans, Uninstalled
  <2>4. Between' /\ UncommittedInvisible'
    BY <1>1 DEF vars, Inv, Between, UncommittedInvisible, InTrans, Sealed, View
  <2> QED
    BY <2>1, <2>2, <2>3, <2>4 DEF Inv
<1>2. CASE Next
  BY <1>2, BeginTransInv, LogWritePanicInv, LogWriteInv, CommitTransInv, WriteHeadInv,
     InstallLogInv, InstallHomeInv, EraseHeadInv, FinishTransInv, ReadHeadInv, ReadInv,
     RecycleInv, CrashInv DEF Next, CommitStep
<1> QED
  BY <1>1, <1>2

\* The inductive invariant holds in every reachable state.
THEOREM Invariance == Spec => []Inv
BY InitInv, NextInv, PTL DEF Spec

\* Type correctness of the log's state.
THEOREM Typing == Spec => []TypeOK
<1>1. Inv => TypeOK
  BY DEF Inv
<1> QED
  BY <1>1, Invariance, PTL

\* begin_trans and commit_trans admit one transaction at a time, and no
\* sleeper misses its wakeup.
THEOREM OneAtATime == Spec => []Serialised
<1>1. Inv => Serialised
  BY DEF Inv, Control, Serialised
<1> QED
  BY <1>1, Invariance, PTL

\* Logged buffers are pinned by B_DIRTY until install_trans writes them home.
THEOREM Pinned == Spec => []PinnedUntilInstalled
<1>1. Inv => PinnedUntilInstalled
  BY DEF Inv
<1> QED
  BY <1>1, Invariance, PTL

\* Nothing of an uncommitted transaction is ever on disk.
THEOREM NothingUncommitted == Spec => []UncommittedInvisible
<1>1. Inv => UncommittedInvisible
  BY DEF Inv
<1> QED
  BY <1>1, Invariance, PTL

LEMMA WriteAheadStep ==
  Inv /\ [Next]_vars => [\A b \in Block : disk'[b] # disk[b] => b \in Listed(hdr)]_vars
<1> SUFFICES ASSUME Inv, Next, NEW b \in Block, disk'[b] # disk[b]
             PROVE  b \in Listed(hdr)
  OBVIOUS
<1>1. PICK p \in Proc : InstallHome(p)
  BY DEF Next, CommitStep, BeginTrans, LogWritePanic, LogWrite, CommitTrans, WriteHead,
     InstallLog, EraseHead, FinishTrans, ReadHead, Read, Recycle, Crash, disks
<1>2. hdr = lh /\ tail < Len(lh)
  BY <1>1 DEF Inv, Installing, InstallHome
<1>3. tail + 1 \in 1..Len(lh) /\ lh[tail + 1] \in Block
  BY <1>2, TailBlock DEF Inv
<1>4. b = lh[tail + 1]
  BY <1>1, <1>3 DEF InstallHome, Inv, TypeOK
<1> QED
  BY <1>2, <1>3, <1>4 DEF Listed

\* install_trans changes a home block only while the on-disk header lists it.
THEOREM HomeAfterHeader == Spec => WriteAhead
BY Invariance, WriteAheadStep, PTL DEF Spec, WriteAhead

-----------------------------------------------------------------------------
(***************************************************************************)
(* The log implements TransStore.                                          *)
(***************************************************************************)
\* The process inside a transaction is the abstract owner.
LEMMA OwnerIs ==
  ASSUME Inv, NEW p \in Proc, InTrans(p)
  PROVE  Owner = p
BY DEF Inv, Control, OneTransaction, Owner

LEMMA OwnerIsNext ==
  ASSUME Inv', NEW p \in Proc, InTrans(p)'
  PROVE  Owner' = p
BY DEF Inv, Control, OneTransaction, Owner

LEMMA NobodyOwns ==
  /\ ~busy => Owner = NoOwner /\ ~Sealed
  /\ ~busy' => Owner' = NoOwner /\ ~Sealed'
BY DEF Owner, Sealed, InTrans

\* A process in a transaction alone decides whether it is sealed.
LEMMA SealedBy ==
  ASSUME Inv, NEW p \in Proc, InTrans(p)
  PROVE  Sealed <=> pc[p] \in Committing
BY DEF Inv, Control, OneTransaction, Sealed

LEMMA SealedByNext ==
  ASSUME Inv', NEW p \in Proc, InTrans(p)'
  PROVE  Sealed' <=> pc'[p] \in Committing
BY DEF Inv, Control, OneTransaction, Sealed

LEMMA RefineInit == Init => Store!Init
BY NobodyOwns DEF Init, Store!Init, View

\* Steps that only move a buffer or a process leave the abstract state alone.
LEMMA Stutter ==
  ASSUME Inv, Inv', View' = View, finished' = finished, busy' = busy,
         \A p \in Proc : InTrans(p) => InTrans(p)' /\ (pc'[p] \in Committing <=> pc[p] \in Committing)
  PROVE  UNCHANGED Store!svars
<1>1. CASE busy
  <2>1. PICK p \in Proc : InTrans(p)
    BY <1>1 DEF Inv, Control, OneTransaction
  <2>2. InTrans(p)'
    BY <2>1
  <2> QED
    BY <2>1, <2>2, OwnerIs, OwnerIsNext, SealedBy, SealedByNext DEF Store!svars, Sealed
<1>2. CASE ~busy
  BY <1>2, NobodyOwns DEF Store!svars, Sealed
<1> QED
  BY <1>1, <1>2

LEMMA RefineNext == Inv /\ Inv' /\ [Next]_vars => [Store!Next]_(Store!svars)
<1> SUFFICES ASSUME Inv, Inv', [Next]_vars PROVE [Store!Next]_(Store!svars)
  OBVIOUS
<1> USE DEF Goto, disks
<1>0. TypeOK /\ TypeOK'
  BY DEF Inv
<1>1. ASSUME NEW p \in Proc, BeginTrans(p) PROVE [Store!Next]_(Store!svars)
  <2>1. View' = View
    BY <1>1 DEF BeginTrans, View
  <2>2. CASE busy
    <3>1. \A q \in Proc : InTrans(q) => InTrans(q)' /\ pc'[q] = pc[q]
      BY <1>0, <1>1, <2>2 DEF BeginTrans, MustSleep, InTrans, Committing, TypeOK
    <3> QED
      BY <1>1, <2>1, <2>2, <3>1, Stutter DEF BeginTrans, MustSleep
  <2>3. CASE ~busy
    <3>1. InTrans(p)' /\ pc'[p] \notin Committing
      BY <1>0, <1>1, <2>3 DEF BeginTrans, MustSleep, InTrans, Committing, TypeOK
    <3>2. Owner = NoOwner /\ ~Sealed /\ Owner' = p /\ ~Sealed'
      BY <2>3, <3>1, NobodyOwns, OwnerIsNext, SealedByNext
    <3>3. Store!Begin(p)
      BY <1>1, <2>1, <3>2 DEF BeginTrans, Store!Begin, Sealed
    <3> QED
      BY <3>3 DEF Store!Next
  <2> QED
    BY <2>2, <2>3
<1>2. ASSUME NEW p \in Proc, NEW b \in Block, NEW v \in Value, LogWrite(p, b, v)
      PROVE  [Store!Next]_(Store!svars)
  <2>1. InTrans(p) /\ InTrans(p)' /\ pc[p] \notin Committing /\ pc'[p] \notin Committing
    BY <1>0, <1>2 DEF LogWrite, InTrans, Committing, TypeOK
  <2>2. Owner = p /\ ~Sealed /\ Owner' = p /\ ~Sealed'
    BY <2>1, OwnerIs, OwnerIsNext, SealedBy, SealedByNext
  <2>3. View' = [View EXCEPT ![b] = v]
    BY <1>0, <1>2 DEF LogWrite, View, TypeOK
  <2>4. Store!Write(p, b, v)
    BY <1>2, <2>2, <2>3 DEF LogWrite, Store!Write, Sealed
  <2> QED
    BY <2>4 DEF Store!Next
<1>3. ASSUME NEW p \in Proc, CommitTrans(p) PROVE [Store!Next]_(Store!svars)
  <2>1. InTrans(p) /\ InTrans(p)' /\ pc[p] \notin Committing /\ pc'[p] \in Committing
    BY <1>0, <1>3 DEF CommitTrans, InTrans, Committing, TypeOK, Inv, Control, OneTransaction
  <2>2. Owner = p /\ ~Sealed /\ Owner' = p /\ Sealed'
    BY <2>1, OwnerIs, OwnerIsNext, SealedBy, SealedByNext
  <2>3. Store!Seal(p)
    BY <1>3, <2>2 DEF CommitTrans, Store!Seal, Sealed, View
  <2> QED
    BY <2>3 DEF Store!Next
<1>4. ASSUME NEW p \in Proc, FinishTrans(p) PROVE [Store!Next]_(Store!svars)
  <2>1. InTrans(p) /\ pc[p] \in Committing
    BY <1>4 DEF FinishTrans, InTrans, Committing, Inv, Control, OneTransaction
  <2>2. Owner = p /\ Sealed /\ Owner' = NoOwner /\ ~Sealed'
    BY <1>4, <2>1, OwnerIs, SealedBy, NobodyOwns DEF FinishTrans
  <2>3. Store!Finish(p)
    BY <1>4, <2>2 DEF FinishTrans, Store!Finish, Sealed, View
  <2> QED
    BY <2>3 DEF Store!Next
<1>5. ASSUME Crash PROVE [Store!Next]_(Store!svars)
  <2>1. View' = disk /\ finished' = disk /\ Owner' = NoOwner /\ ~Sealed'
    BY <1>5, NobodyOwns DEF Crash, View, Inv, TypeOK
  <2>2. disk \in Store!Mixture(finished, View)
    BY <1>0 DEF Store!Mixture, Inv, Between, TypeOK
  <2>3. ~Sealed => disk = finished
    BY DEF Inv, UncommittedInvisible
  <2>4. Store!Crash
    BY <2>1, <2>2, <2>3 DEF Store!Crash
  <2> QED
    BY <2>4 DEF Store!Next
<1>6. ASSUME NEW p \in Proc, WriteHead(p) \/ InstallLog(p) \/ InstallHome(p)
      PROVE  UNCHANGED Store!svars
  <2>1. View' = View
    <3>1. CASE WriteHead(p)
      BY <3>1 DEF WriteHead, View
    <3>2. CASE InstallLog(p)
      BY <1>0, <3>2, TailBlock, ViewType DEF InstallLog, DstBuf, MoreToInstall, View, TypeOK
    <3>3. CASE InstallHome(p)
      BY <1>0, <3>3 DEF InstallHome, View, TypeOK, Inv, Installing
    <3> QED
      BY <1>6, <3>1, <3>2, <3>3
  <2>2. \A q \in Proc : InTrans(q) => InTrans(q)' /\ (pc'[q] \in Committing <=> pc[q] \in Committing)
    BY <1>0, <1>6 DEF WriteHead, InstallLog, InstallHome, InTrans, Committing, TypeOK
  <2> QED
    BY <1>6, <2>1, <2>2, Stutter DEF WriteHead, InstallLog, InstallHome
<1>7. ASSUME NEW p \in Proc, EraseHead(p) \/ ReadHead(p) \/ LogWritePanic(p)
      PROVE  UNCHANGED Store!svars
  <2>1. View' = View
    BY <1>7 DEF EraseHead, ReadHead, LogWritePanic, View
  <2>2. \A q \in Proc : InTrans(q) => InTrans(q)' /\ (pc'[q] \in Committing <=> pc[q] \in Committing)
    BY <1>0, <1>7 DEF EraseHead, ReadHead, LogWritePanic, InTrans, Committing, TypeOK
  <2> QED
    BY <1>7, <2>1, <2>2, Stutter DEF EraseHead, ReadHead, LogWritePanic
<1>8. ASSUME NEW b \in Block, Read(b) \/ Recycle(b) PROVE UNCHANGED Store!svars
  <2>1. View' = View
    BY <1>0, <1>8 DEF Read, Recycle, Recyclable, View, TypeOK, Inv, PinnedUntilInstalled
  <2>2. \A q \in Proc : InTrans(q) => InTrans(q)' /\ (pc'[q] \in Committing <=> pc[q] \in Committing)
    BY <1>8 DEF Read, Recycle, InTrans
  <2> QED
    BY <1>8, <2>1, <2>2, Stutter DEF Read, Recycle
<1>9. CASE UNCHANGED vars
  BY <1>9, Stutter DEF vars, View, InTrans
<1> QED
  BY <1>1, <1>2, <1>3, <1>4, <1>5, <1>6, <1>7, <1>8, <1>9 DEF Next, CommitStep

\* The log, crashes and recovery included, implements the transactional
\* store: a finished transaction stays, an unsealed one vanishes in a crash,
\* and a crash during commit leaves a block-by-block mixture.
THEOREM Implements == Spec => Refinement
BY RefineInit, RefineNext, Invariance, PTL DEF Spec, Store!Spec, Refinement
=============================================================================
