----------------------------- MODULE PipeProofs -----------------------------
(***************************************************************************)
(* Pipes of any size, with any number of readers and writers.              *)
(***************************************************************************)
EXTENDS Pipe, Modular, SequenceTheorems

(***************************************************************************)
(* The inductive invariant.  What a sleeper waits for may have happened    *)
(* already while another process is in the middle of its copy loop with    *)
(* the lock; that process will do the wakeup before it lets the lock go.   *)
(***************************************************************************)
WriterAt == {"w_loop", "w_sleep", "w_asleep", "w_wake"}
ReaderAt == {"r_loop", "r_sleep", "r_asleep", "r_wake", "r_copy"}

Locked == \A p \in Proc : pc[p] \in WithLock <=> lock = p

Roles ==
    \A p \in Proc : /\ pc[p] \in WriterAt => p \in Writers
                    /\ pc[p] \in ReaderAt => p \in Readers

Ends ==
    /\ writeopen <=> \E w \in Writers : pc[w] # "closed"
    /\ readopen <=> \E r \in Readers : pc[r] # "closed"
    /\ freed <=> ~writeopen /\ ~readopen

Awake ==
    \A p \in Proc :
        /\ pc[p] = "w_sleep" => Full /\ readopen
        /\ pc[p] = "r_sleep" => Empty /\ writeopen
        /\ pc[p] = "r_copy" /\ i[p] = 0 => ~Empty \/ ~writeopen

Asleep ==
    \A p \in Proc :
        /\ pc[p] = "w_asleep" => readopen /\ (Full \/ \E r \in Readers : pc[r] = "r_copy")
        /\ pc[p] = "r_asleep" =>
            /\ writeopen
            /\ Empty \/ \E w \in Writers : killed[w] \/ pc[w] = "w_loop"

Waiting == Awake /\ Asleep

Late ==
    \A p \in Proc : pc[p] \in {"w_sleep", "r_sleep", "w_asleep", "r_asleep"} /\ killed[p] => p \in late

Inv == TypeOK /\ Locked /\ Roles /\ Ends /\ Waiting /\ Late

-----------------------------------------------------------------------------
(***************************************************************************)
(* The counters.                                                           *)
(***************************************************************************)
\* The tests of pipewrite and piperead, in wrapping arithmetic, are tests of
\* the number of bytes in the pipe.
LEMMA Counting ==
    ASSUME NEW r \in 0..UintRange - 1, NEW w \in 0..UintRange - 1
    PROVE  /\ (w - r) % UintRange = IF w >= r THEN w - r ELSE w - r + UintRange
           /\ (w + 1) % UintRange = IF w = UintRange - 1 THEN 0 ELSE w + 1
           /\ (r + PIPESIZE) % UintRange =
                  IF r + PIPESIZE < UintRange THEN r + PIPESIZE ELSE r + PIPESIZE - UintRange
<1>1. UintRange \in Nat /\ UintRange > 0 /\ PIPESIZE \in Nat /\ PIPESIZE < UintRange /\ PIPESIZE > 0
  BY PipeAssumption
<1>2. w - r \in -UintRange..2 * UintRange - 1 /\ w + 1 \in -UintRange..2 * UintRange - 1
      /\ r + PIPESIZE \in -UintRange..2 * UintRange - 1
  BY <1>1
<1>3. ASSUME NEW x \in -UintRange..2 * UintRange - 1
      PROVE  x % UintRange =
                 IF x < 0 THEN x + UintRange ELSE IF x < UintRange THEN x ELSE x - UintRange
  BY <1>1, ModWrap
<1> QED
  BY <1>1, <1>2, <1>3

LEMMA FullEmpty ==
    ASSUME TypeOK
    PROVE  (Full <=> Count = PIPESIZE) /\ (Empty <=> Count = 0)
<1>1. nread \in 0..UintRange - 1 /\ nwrite \in 0..UintRange - 1
  BY DEF TypeOK
<1>2. PIPESIZE \in Nat /\ PIPESIZE > 0 /\ UintRange \in Nat /\ UintRange > PIPESIZE
  BY PipeAssumption
<1> QED
  BY <1>1, <1>2, Counting DEF Full, Empty, Count

\* A byte written, a byte read.
LEMMA Counted ==
    ASSUME TypeOK
    PROVE  /\ ~Full => /\ (nwrite + 1) % UintRange \in 0..UintRange - 1
                       /\ (((nwrite + 1) % UintRange) - nread) % UintRange = Count + 1
                       /\ Count + 1 \in 1..PIPESIZE
           /\ ~Empty => /\ (nread + 1) % UintRange \in 0..UintRange - 1
                        /\ (nwrite - ((nread + 1) % UintRange)) % UintRange = Count - 1
                        /\ Count - 1 \in 0..PIPESIZE - 1
<1>1. nread \in 0..UintRange - 1 /\ nwrite \in 0..UintRange - 1 /\ Count \in 0..PIPESIZE
  BY DEF TypeOK
<1>2. PIPESIZE \in Nat /\ PIPESIZE > 0 /\ UintRange \in Nat /\ UintRange > PIPESIZE
  BY PipeAssumption
<1>3. Count = IF nwrite >= nread THEN nwrite - nread ELSE nwrite - nread + UintRange
  BY <1>1, Counting DEF Count
<1>4. ASSUME ~Full
      PROVE  /\ (nwrite + 1) % UintRange \in 0..UintRange - 1
             /\ (((nwrite + 1) % UintRange) - nread) % UintRange = Count + 1
             /\ Count + 1 \in 1..PIPESIZE
  <2>1. Count # PIPESIZE
    BY <1>4, FullEmpty
  <2>2. PICK w \in 0..UintRange - 1 :
            w = (nwrite + 1) % UintRange /\ w = IF nwrite = UintRange - 1 THEN 0 ELSE nwrite + 1
    BY <1>1, <1>2, Counting
  <2>3. (w - nread) % UintRange = IF w >= nread THEN w - nread ELSE w - nread + UintRange
    BY <1>1, Counting
  <2> QED
    BY <1>1, <1>2, <1>3, <2>1, <2>2, <2>3
<1>5. ASSUME ~Empty
      PROVE  /\ (nread + 1) % UintRange \in 0..UintRange - 1
             /\ (nwrite - ((nread + 1) % UintRange)) % UintRange = Count - 1
             /\ Count - 1 \in 0..PIPESIZE - 1
  <2>1. Count # 0
    BY <1>5, FullEmpty
  <2>2. PICK r \in 0..UintRange - 1 :
            r = (nread + 1) % UintRange /\ r = IF nread = UintRange - 1 THEN 0 ELSE nread + 1
    BY <1>1, <1>2, Counting
  <2>3. (nwrite - r) % UintRange = IF nwrite >= r THEN nwrite - r ELSE nwrite - r + UintRange
    BY <1>1, Counting
  <2> QED
    BY <1>1, <1>2, <1>3, <2>1, <2>2, <2>3
<1> QED
  BY <1>4, <1>5

-----------------------------------------------------------------------------
(***************************************************************************)
(* The steps.                                                              *)
(***************************************************************************)
LEMMA InitInv == Init => Inv
<1> SUFFICES ASSUME Init PROVE Inv
  OBVIOUS
<1>1. PIPESIZE \in Nat /\ PIPESIZE > 0 /\ UintRange \in Nat /\ UintRange > PIPESIZE
  BY PipeAssumption
<1>2. nread \in 0..UintRange - 1 /\ nwrite \in 0..UintRange - 1 /\ nread = 0 /\ nwrite = 0
  BY <1>1 DEF Init
<1>3. Count = 0
  BY <1>1, <1>2, Counting DEF Count
<1>4. data \in [0..PIPESIZE - 1 -> Byte]
  BY PipeAssumption DEF Init
<1>5. TypeOK
  <2>1. Count \in 0..PIPESIZE
    BY <1>1, <1>3
  <2>2. /\ pc \in [Proc -> InKernel \cup {"user", "closed"}]
        /\ n \in [Proc -> Counts \cup {0}] /\ i \in [Proc -> Nat]
        /\ killed \in [Proc -> BOOLEAN] /\ late \in SUBSET Proc
    BY DEF Init
  <2>3. \A p \in Proc : i[p] <= n[p]
    BY DEF Init
  <2> QED
    BY <1>2, <1>4, <2>1, <2>2, <2>3 DEF Init, TypeOK
<1>6. Locked /\ Roles /\ Late
  BY PipeAssumption DEF Init, Locked, Roles, Late, WithLock, WriterAt, ReaderAt, Proc
<1>7. Ends /\ Waiting
  BY PipeAssumption DEF Init, Ends, Waiting, Awake, Asleep, Proc
<1> QED
  BY <1>5, <1>6, <1>7 DEF Inv

\* Steps that leave the counters alone leave the tests on them alone.
LEMMA Unmoved ==
    ASSUME UNCHANGED <<nread, nwrite>>
    PROVE  Count' = Count /\ Full' = Full /\ Empty' = Empty
BY DEF Count, Full, Empty

LEMMA CountsNat ==
    ASSUME TypeOK
    PROVE  n \in [Proc -> Nat]
<1>1. Counts \cup {0} \subseteq Nat
  BY PipeAssumption
<1>2. n \in [Proc -> Counts \cup {0}]
  BY DEF TypeOK
<1> QED
  BY <1>1, <1>2

\* A system call starts with the lock.
LEMMA CallInv ==
    ASSUME Inv, NEW p \in Proc, NEW c \in Counts, WriteCall(p, c) \/ ReadCall(p, c)
    PROVE  Inv'
<1>1. /\ pc[p] = "user" /\ lock = None /\ lock' = p
      /\ n' = [n EXCEPT ![p] = c] /\ i' = [i EXCEPT ![p] = 0]
      /\ UNCHANGED <<data, nread, nwrite, readopen, writeopen, freed, killed, late>>
  BY DEF WriteCall, ReadCall, pipevars
<1>2. PICK l \in {"w_loop", "r_loop"} :
          /\ pc' = [pc EXCEPT ![p] = l]
          /\ l = "w_loop" => p \in Writers
          /\ l = "r_loop" => p \in Readers
  BY DEF WriteCall, ReadCall
<1>3. Count' = Count /\ Full' = Full /\ Empty' = Empty
  BY <1>1, Unmoved
<1>4. TypeOK'
  <2>1. pc' \in [Proc -> InKernel \cup {"user", "closed"}]
    BY <1>2 DEF Inv, TypeOK, InKernel
  <2>2. n' \in [Proc -> Counts \cup {0}] /\ i' \in [Proc -> Nat]
    BY <1>1 DEF Inv, TypeOK
  <2>3. \A q \in Proc : i'[q] <= n'[q]
    <3>1. n \in [Proc -> Nat] /\ c \in Nat
      BY CountsNat, PipeAssumption DEF Inv
    <3> QED
      BY <1>1, <3>1 DEF Inv, TypeOK
  <2> QED
    BY <1>1, <1>3, <2>1, <2>2, <2>3 DEF Inv, TypeOK
<1>5. Locked'
  BY <1>1, <1>2, PipeAssumption DEF Inv, TypeOK, Locked, WithLock
<1>6. Roles' /\ Late' /\ Ends'
  BY <1>1, <1>2 DEF Inv, TypeOK, Roles, Late, Ends, WriterAt, ReaderAt, Proc
<1>7. Waiting'
  <2>1. \A q \in Proc : q # p => pc'[q] = pc[q] /\ i'[q] = i[q] /\ pc[q] \notin WithLock
    BY <1>1, <1>2, PipeAssumption DEF Inv, TypeOK, Locked
  <2>2. pc'[p] \in {"w_loop", "r_loop"}
    BY <1>2 DEF Inv, TypeOK
  <2> QED
    BY <1>1, <1>3, <2>1, <2>2 DEF Inv, Waiting, Awake, Asleep, WithLock, Proc
<1> QED
  BY <1>4, <1>5, <1>6, <1>7 DEF Inv

\* A writer adds a byte: a reader asleep on the empty pipe is one it will wake.
LEMMA WriteByteInv ==
    ASSUME Inv, NEW p \in Proc, NEW x \in Byte, WriteByte(p, x)
    PROVE  Inv'
<1>0. /\ pc[p] = "w_loop" /\ i[p] < n[p] /\ i' = [i EXCEPT ![p] = i[p] + 1] /\ ~Full
      /\ nwrite' = (nwrite + 1) % UintRange /\ data' = [data EXCEPT ![Slot] = x]
      /\ UNCHANGED <<nread, readopen, writeopen, freed, lock, pc, n, killed, late>>
  BY DEF WriteByte
<1>1. /\ nwrite' \in 0..UintRange - 1 /\ Count' = Count + 1 /\ Count + 1 \in 1..PIPESIZE
  BY <1>0, Counted DEF Inv, Count
<1>2. data' \in [0..PIPESIZE - 1 -> Byte]
  BY <1>0 DEF Inv, TypeOK
<1>3. i' \in [Proc -> Nat] /\ \A q \in Proc : i'[q] <= n[q]
  <2>1. n \in [Proc -> Nat]
    BY CountsNat DEF Inv
  <2> QED
    BY <1>0, <2>1 DEF Inv, TypeOK
<1>4. TypeOK'
  <2>1. Count' \in 0..PIPESIZE
    BY <1>1, PipeAssumption
  <2> QED
    BY <1>0, <1>1, <1>2, <1>3, <2>1 DEF Inv, TypeOK
<1>5. Locked' /\ Roles' /\ Late' /\ Ends'
  BY <1>0 DEF Inv, Locked, Roles, Late, Ends
<1>6. Waiting'
  <2>1. \A q \in Proc : q # p => pc[q] \notin WithLock
    BY <1>0 DEF Inv, Locked, WithLock
  <2>2. p \in Writers
    BY <1>0 DEF Inv, Roles, WriterAt
  <2>3. \A q \in Proc : pc[q] = "w_asleep" => Full \/ \E r \in Readers : pc[r] = "r_copy"
    BY DEF Inv, Waiting, Awake, Asleep
  <2>4. \A q \in Proc : pc[q] # "w_asleep"
    BY <1>0, <2>1, <2>2, <2>3, PipeAssumption DEF WithLock, Proc
  <2> QED
    BY <1>0, <2>1, <2>2, <2>4 DEF Inv, Waiting, Awake, Asleep, WithLock
<1> QED
  BY <1>4, <1>5, <1>6 DEF Inv

\* What the steps that leave the lock have in common.
LEMMA LeaveType ==
    ASSUME Inv, NEW p \in Proc, Leave(p), UNCHANGED <<pipevars, killed, late>>,
           pc' \in [Proc -> InKernel \cup {"user", "closed"}]
    PROVE  TypeOK' /\ Count' = Count /\ Full' = Full /\ Empty' = Empty
<1>1. Count' = Count /\ Full' = Full /\ Empty' = Empty
  BY Unmoved DEF pipevars
<1>2. /\ n' \in [Proc -> Counts \cup {0}] /\ i' \in [Proc -> Nat]
      /\ \A q \in Proc : i'[q] <= n'[q]
  BY DEF Leave, Inv, TypeOK
<1> QED
  BY <1>1, <1>2 DEF Inv, TypeOK, Leave, pipevars

\* A full pipe: the writer leaves, or wakes the readers and goes to sleep.
LEMMA WriteFullInv ==
    ASSUME Inv, NEW p \in Proc, WriteFull(p)
    PROVE  Inv'
<1>0. /\ pc[p] = "w_loop" /\ lock = p /\ p \in Writers /\ Full
      /\ UNCHANGED <<pipevars, killed, late>>
  BY DEF WriteFull, Inv, Locked, WithLock, Roles, WriterAt
<1>1. \A q \in Proc : q # p => pc[q] \notin WithLock
  BY <1>0 DEF Inv, Locked
<1>2. CASE ~readopen \/ killed[p]
  <2>0. Leave(p) /\ pc' = [pc EXCEPT ![p] = "user"] /\ lock' = None
    BY <1>2 DEF WriteFull, Leave
  <2>1. pc' \in [Proc -> InKernel \cup {"user", "closed"}]
    BY <2>0 DEF Inv, TypeOK
  <2>2. TypeOK' /\ Count' = Count /\ Full' = Full /\ Empty' = Empty
    BY <1>0, <2>0, <2>1, LeaveType
  <2>3. Locked'
    BY <1>1, <2>0, PipeAssumption DEF Inv, TypeOK, Locked, WithLock
  <2>4. Roles' /\ Late' /\ Ends'
    BY <1>0, <2>0 DEF Inv, TypeOK, Roles, Late, Ends, WriterAt, ReaderAt, pipevars, Proc
  <2>5. \A r \in Proc : pc[r] = "r_asleep" => killed[p]
    BY <1>2 DEF Inv, Ends, Roles, ReaderAt
  <2>6. \A q \in Proc : q # p => pc'[q] = pc[q] /\ i'[q] = i[q]
    BY <2>0 DEF Inv, TypeOK, Leave
  <2>7. pc'[p] = "user"
    BY <2>0 DEF Inv, TypeOK
  <2>8. Waiting'
    <3>1. Awake'
      BY <1>0, <1>1, <2>2, <2>5, <2>6, <2>7 DEF Inv, Waiting, Awake, WithLock, pipevars, Proc
    <3>2. Asleep'
      BY <1>0, <1>1, <2>2, <2>5, <2>6, <2>7 DEF Inv, Waiting, Asleep, WithLock, pipevars, Proc
    <3> QED
      BY <3>1, <3>2 DEF Waiting
  <2> QED
    BY <2>2, <2>3, <2>4, <2>8 DEF Inv
<1>3. CASE ~(~readopen \/ killed[p])
  <2>0. /\ pc' = [WakeReaders(pc) EXCEPT ![p] = "w_sleep"] /\ UNCHANGED <<lock, i, n>>
        /\ readopen /\ ~killed[p]
    BY <1>3 DEF WriteFull, Inv, TypeOK
  <2>1. pc'[p] = "w_sleep" /\ \A q \in Proc : q # p =>
            pc'[q] = (IF pc[q] = "r_asleep" THEN "r_wake" ELSE pc[q])
    BY <2>0 DEF WakeReaders
  <2>2. pc' \in [Proc -> InKernel \cup {"user", "closed"}]
    BY <2>0 DEF Inv, TypeOK, WakeReaders, InKernel
  <2>3. Count' = Count /\ Full' = Full /\ Empty' = Empty
    BY <1>0, Unmoved DEF pipevars
  <2>4. TypeOK'
    BY <1>0, <2>0, <2>2, <2>3 DEF Inv, TypeOK, pipevars
  <2>5. Locked'
    BY <1>0, <2>0, <2>1 DEF Inv, Locked, WithLock
  <2>6. Roles' /\ Late'
    BY <1>0, <2>0, <2>1 DEF Inv, Roles, Late, WriterAt, ReaderAt
  <2>7. Ends'
    BY <1>0, <2>1 DEF Inv, Ends, pipevars, Proc
  <2>8. Waiting'
    <3>1. Awake'
      BY <1>0, <1>1, <2>0, <2>1, <2>3 DEF Inv, Waiting, Awake, WithLock, pipevars, Proc
    <3>2. Asleep'
      BY <1>0, <1>1, <2>0, <2>1, <2>3 DEF Inv, Waiting, Asleep, WithLock, pipevars, Proc
    <3> QED
      BY <3>1, <3>2 DEF Waiting
  <2> QED
    BY <2>4, <2>5, <2>6, <2>7, <2>8 DEF Inv
<1> QED
  BY <1>2, <1>3

\* pipewrite returns and wakes the readers.
LEMMA WriteReturnInv ==
    ASSUME Inv, NEW p \in Proc, WriteReturn(p)
    PROVE  Inv'
<1>0. /\ pc[p] = "w_loop" /\ lock = p /\ p \in Writers /\ lock' = None /\ Leave(p)
      /\ pc' = [WakeReaders(pc) EXCEPT ![p] = "user"]
      /\ UNCHANGED <<pipevars, killed, late>>
  BY DEF WriteReturn, Leave, Inv, Locked, WithLock, Roles, WriterAt
<1>1. \A q \in Proc : q # p => pc[q] \notin WithLock
  BY <1>0 DEF Inv, Locked
<1>2. pc'[p] = "user" /\ \A q \in Proc : q # p =>
          pc'[q] = (IF pc[q] = "r_asleep" THEN "r_wake" ELSE pc[q])
  BY <1>0 DEF WakeReaders
<1>3. pc' \in [Proc -> InKernel \cup {"user", "closed"}]
  BY <1>0 DEF Inv, TypeOK, WakeReaders, InKernel
<1>4. TypeOK' /\ Count' = Count /\ Full' = Full /\ Empty' = Empty
  BY <1>0, <1>3, LeaveType
<1>5. Locked'
  BY <1>0, <1>1, <1>2, PipeAssumption DEF Locked, WithLock
<1>6. Roles' /\ Late'
  BY <1>0, <1>2 DEF Inv, Roles, Late, WriterAt, ReaderAt
<1>7. Ends'
  BY <1>0, <1>2 DEF Inv, Ends, pipevars, Proc
<1>8. \A q \in Proc : q # p => i'[q] = i[q]
  BY <1>0 DEF Leave, Inv, TypeOK
<1>9. Waiting'
  <2>1. Awake'
    BY <1>0, <1>5, PipeAssumption DEF Locked, WithLock, Awake
  <2>2. Asleep'
    BY <1>0, <1>1, <1>2, <1>4, <1>8, PipeAssumption DEF Inv, Waiting, Asleep, WithLock, pipevars, Proc
  <2> QED
    BY <2>1, <2>2 DEF Waiting
<1> QED
  BY <1>4, <1>5, <1>6, <1>7, <1>9 DEF Inv

\* piperead finds nothing: it leaves when killed, otherwise goes to sleep.
LEMMA ReadWaitInv ==
    ASSUME Inv, NEW p \in Proc, ReadWait(p)
    PROVE  Inv'
<1>0. /\ pc[p] = "r_loop" /\ lock = p /\ p \in Readers /\ Empty /\ writeopen
      /\ UNCHANGED <<pipevars, killed, late>>
  BY DEF ReadWait, Inv, Locked, WithLock, Roles, ReaderAt
<1>1. \A q \in Proc : q # p => pc[q] \notin WithLock
  BY <1>0 DEF Inv, Locked
<1>2. CASE killed[p]
  <2>0. Leave(p) /\ pc' = [pc EXCEPT ![p] = "user"] /\ lock' = None
    BY <1>2 DEF ReadWait, Leave
  <2>1. pc' \in [Proc -> InKernel \cup {"user", "closed"}]
    BY <2>0 DEF Inv, TypeOK
  <2>2. TypeOK' /\ Count' = Count /\ Full' = Full /\ Empty' = Empty
    BY <1>0, <2>0, <2>1, LeaveType
  <2>3. Locked'
    BY <1>1, <2>0, PipeAssumption DEF Inv, TypeOK, Locked, WithLock
  <2>4. Roles' /\ Late' /\ Ends'
    BY <1>0, <2>0 DEF Inv, TypeOK, Roles, Late, Ends, WriterAt, ReaderAt, pipevars, Proc
  <2>5. pc'[p] = "user" /\ \A q \in Proc : q # p => pc'[q] = pc[q] /\ i'[q] = i[q]
    BY <2>0 DEF Inv, TypeOK, Leave
  <2>6. Waiting'
    <3>1. Awake'
      BY <1>0, <1>1, <2>2, <2>5 DEF Inv, Waiting, Awake, WithLock, pipevars, Proc
    <3>2. Asleep'
      BY <1>0, <1>1, <2>2, <2>5 DEF Inv, Waiting, Asleep, WithLock, pipevars, Proc
    <3> QED
      BY <3>1, <3>2 DEF Waiting
  <2> QED
    BY <2>2, <2>3, <2>4, <2>6 DEF Inv
<1>3. CASE ~killed[p]
  <2>0. pc' = [pc EXCEPT ![p] = "r_sleep"] /\ UNCHANGED <<lock, i, n>>
    BY <1>3 DEF ReadWait
  <2>1. pc'[p] = "r_sleep" /\ \A q \in Proc : q # p => pc'[q] = pc[q]
    BY <2>0 DEF Inv, TypeOK
  <2>2. pc' \in [Proc -> InKernel \cup {"user", "closed"}]
    BY <2>0 DEF Inv, TypeOK, InKernel
  <2>3. Count' = Count /\ Full' = Full /\ Empty' = Empty
    BY <1>0, Unmoved DEF pipevars
  <2>4. TypeOK'
    BY <1>0, <2>0, <2>2, <2>3 DEF Inv, TypeOK, pipevars
  <2>5. Locked' /\ Roles' /\ Late'
    BY <1>0, <1>3, <2>0, <2>1 DEF Inv, Locked, WithLock, Roles, Late, WriterAt, ReaderAt
  <2>6. Ends'
    BY <1>0, <2>1 DEF Inv, Ends, pipevars, Proc
  <2>7. Waiting'
    <3>1. Awake'
      BY <1>0, <1>1, <2>0, <2>1, <2>3 DEF Inv, Waiting, Awake, WithLock, pipevars, Proc
    <3>2. Asleep'
      BY <1>0, <1>1, <2>0, <2>1, <2>3 DEF Inv, Waiting, Asleep, WithLock, pipevars, Proc
    <3> QED
      BY <3>1, <3>2 DEF Waiting
  <2> QED
    BY <2>4, <2>5, <2>6, <2>7 DEF Inv
<1> QED
  BY <1>2, <1>3

\* piperead leaves its waiting loop with something to read or at end of file.
LEMMA ReadReadyInv ==
    ASSUME Inv, NEW p \in Proc, ReadReady(p)
    PROVE  Inv'
<1>0. /\ pc[p] = "r_loop" /\ lock = p /\ p \in Readers /\ ~(Empty /\ writeopen)
      /\ pc' = [pc EXCEPT ![p] = "r_copy"]
      /\ UNCHANGED <<pipevars, lock, i, n, killed, late>>
  BY DEF ReadReady, Inv, Locked, WithLock, Roles, ReaderAt
<1>1. \A q \in Proc : q # p => pc[q] \notin WithLock
  BY <1>0 DEF Inv, Locked
<1>2. pc'[p] = "r_copy" /\ \A q \in Proc : q # p => pc'[q] = pc[q]
  BY <1>0 DEF Inv, TypeOK
<1>3. Count' = Count /\ Full' = Full /\ Empty' = Empty
  BY <1>0, Unmoved DEF pipevars
<1>4. TypeOK'
  BY <1>0, <1>3 DEF Inv, TypeOK, InKernel, pipevars
<1>5. Locked' /\ Roles' /\ Late'
  BY <1>0, <1>2 DEF Inv, Locked, WithLock, Roles, Late, WriterAt, ReaderAt
<1>6. Ends'
  BY <1>0, <1>2 DEF Inv, Ends, pipevars, Proc
<1>7. Waiting'
  <2>1. Awake'
    BY <1>0, <1>1, <1>2, <1>3 DEF Inv, Waiting, Awake, WithLock, pipevars, Proc
  <2>2. Asleep'
    BY <1>0, <1>1, <1>2, <1>3 DEF Inv, Waiting, Asleep, WithLock, pipevars, Proc
  <2> QED
    BY <2>1, <2>2 DEF Waiting
<1> QED
  BY <1>4, <1>5, <1>6, <1>7 DEF Inv

\* A reader takes a byte: a writer asleep on the full pipe is one it will wake.
LEMMA ReadByteInv ==
    ASSUME Inv, NEW p \in Proc, ReadByte(p)
    PROVE  Inv'
<1>0. /\ pc[p] = "r_copy" /\ i[p] < n[p] /\ i' = [i EXCEPT ![p] = i[p] + 1] /\ ~Empty
      /\ nread' = (nread + 1) % UintRange
      /\ UNCHANGED <<data, nwrite, readopen, writeopen, freed, lock, pc, n, killed, late>>
  BY DEF ReadByte
<1>1. nread' \in 0..UintRange - 1 /\ Count' = Count - 1 /\ Count - 1 \in 0..PIPESIZE - 1
  <2>1. Count' = (nwrite - ((nread + 1) % UintRange)) % UintRange
    <3>1. nwrite' = nwrite /\ nread' = (nread + 1) % UintRange
      BY <1>0
    <3> QED
      BY <3>1, Zenon DEF Count
  <2> QED
    BY <1>0, <2>1, Counted DEF Inv
<1>2. i' \in [Proc -> Nat] /\ i'[p] # 0 /\ \A q \in Proc : i'[q] <= n[q]
  <2>1. n \in [Proc -> Nat]
    BY CountsNat DEF Inv
  <2> QED
    BY <1>0, <2>1 DEF Inv, TypeOK
<1>3. TypeOK'
  <2>1. Count' \in 0..PIPESIZE
    BY <1>1, PipeAssumption
  <2> QED
    BY <1>0, <1>1, <1>2, <2>1 DEF Inv, TypeOK
<1>4. Locked' /\ Roles' /\ Late' /\ Ends'
  BY <1>0 DEF Inv, Locked, Roles, Late, Ends
<1>5. Waiting'
  <2>1. \A q \in Proc : q # p => pc[q] \notin WithLock
    BY <1>0 DEF Inv, Locked, WithLock
  <2>2. p \in Readers /\ p \notin Writers
    BY <1>0, PipeAssumption DEF Inv, Roles, ReaderAt
  <2> QED
    BY <1>0, <1>2, <2>1, <2>2 DEF Inv, Waiting, Awake, Asleep, WithLock, Proc
<1> QED
  BY <1>3, <1>4, <1>5 DEF Inv

\* piperead returns and wakes the writers.
LEMMA ReadReturnInv ==
    ASSUME Inv, NEW p \in Proc, ReadReturn(p)
    PROVE  Inv'
<1>0. /\ pc[p] = "r_copy" /\ lock = p /\ p \in Readers /\ lock' = None /\ Leave(p)
      /\ pc' = [WakeWriters(pc) EXCEPT ![p] = "user"]
      /\ UNCHANGED <<pipevars, killed, late>>
  BY DEF ReadReturn, Leave, Inv, Locked, WithLock, Roles, ReaderAt
<1>1. \A q \in Proc : q # p => pc[q] \notin WithLock
  BY <1>0 DEF Inv, Locked
<1>2. pc'[p] = "user" /\ \A q \in Proc : q # p =>
          pc'[q] = (IF pc[q] = "w_asleep" THEN "w_wake" ELSE pc[q])
  BY <1>0 DEF WakeWriters
<1>3. pc' \in [Proc -> InKernel \cup {"user", "closed"}]
  BY <1>0 DEF Inv, TypeOK, WakeWriters, InKernel
<1>4. TypeOK' /\ Count' = Count /\ Full' = Full /\ Empty' = Empty
  BY <1>0, <1>3, LeaveType
<1>5. Locked'
  BY <1>0, <1>1, <1>2, PipeAssumption DEF Locked, WithLock
<1>6. Roles' /\ Late'
  BY <1>0, <1>2 DEF Inv, Roles, Late, WriterAt, ReaderAt
<1>7. Ends'
  BY <1>0, <1>2 DEF Inv, Ends, pipevars, Proc
<1>8. \A q \in Proc : q # p => i'[q] = i[q]
  BY <1>0 DEF Leave, Inv, TypeOK
<1>9. Waiting'
  <2>1. Awake'
    BY <1>0, <1>5, PipeAssumption DEF Locked, WithLock, Awake
  <2>2. Asleep'
    BY <1>0, <1>1, <1>2, <1>4, <1>8, PipeAssumption DEF Inv, Waiting, Asleep, WithLock, pipevars, Proc
  <2> QED
    BY <2>1, <2>2 DEF Waiting
<1> QED
  BY <1>4, <1>5, <1>6, <1>7, <1>9 DEF Inv

\* sleep() lets the lock go in the step that makes the process a sleeper.
LEMMA SleepInv ==
    ASSUME Inv, NEW p \in Proc, Sleep(p)
    PROVE  Inv'
<1>0. /\ pc[p] \in {"w_sleep", "r_sleep"} /\ lock = p /\ lock' = None
      /\ pc' = [pc EXCEPT ![p] = IF pc[p] = "w_sleep" THEN "w_asleep" ELSE "r_asleep"]
      /\ UNCHANGED <<pipevars, i, n, killed, late>>
  BY DEF Sleep, Inv, Locked, WithLock
<1>1. \A q \in Proc : q # p => pc[q] \notin WithLock
  BY <1>0 DEF Inv, Locked
<1>2. /\ pc'[p] = (IF pc[p] = "w_sleep" THEN "w_asleep" ELSE "r_asleep")
      /\ \A q \in Proc : q # p => pc'[q] = pc[q]
  BY <1>0 DEF Inv, TypeOK
<1>3. Count' = Count /\ Full' = Full /\ Empty' = Empty
  BY <1>0, Unmoved DEF pipevars
<1>4. TypeOK'
  BY <1>0, <1>3 DEF Inv, TypeOK, InKernel, pipevars
<1>5. Locked'
  BY <1>0, <1>1, <1>2, PipeAssumption DEF Locked, WithLock
<1>6. Roles' /\ Late'
  BY <1>0, <1>2 DEF Inv, Roles, Late, WriterAt, ReaderAt
<1>7. Ends'
  BY <1>0, <1>2 DEF Inv, Ends, pipevars, Proc
<1>8. Waiting'
  <2>1. Awake'
    BY <1>0, <1>5, PipeAssumption DEF Locked, WithLock, Awake
  <2>2. Asleep'
    <3>1. pc[p] = "w_sleep" => Full /\ readopen
      BY DEF Inv, Waiting, Awake
    <3>2. pc[p] = "r_sleep" => Empty /\ writeopen
      BY DEF Inv, Waiting, Awake
    <3>3. \A q \in Proc : q # p => pc[q] # "r_copy" /\ pc[q] # "w_loop"
      BY <1>1 DEF WithLock
    <3> QED
      BY <1>0, <1>2, <1>3, <3>1, <3>2, <3>3 DEF Inv, Waiting, Asleep, pipevars, Proc
  <2> QED
    BY <2>1, <2>2 DEF Waiting
<1> QED
  BY <1>4, <1>5, <1>6, <1>7, <1>8 DEF Inv

\* A woken process takes the lock and looks again.
LEMMA WakeUpInv ==
    ASSUME Inv, NEW p \in Proc, WakeUp(p)
    PROVE  Inv'
<1>0. /\ pc[p] \in {"w_wake", "r_wake"} /\ lock = None /\ lock' = p
      /\ pc' = [pc EXCEPT ![p] = IF pc[p] = "w_wake" THEN "w_loop" ELSE "r_loop"]
      /\ UNCHANGED <<pipevars, i, n, killed, late>>
  BY DEF WakeUp, Acquirable, Resume
<1>1. \A q \in Proc : pc[q] \notin WithLock
  BY <1>0, PipeAssumption DEF Inv, Locked
<1>2. /\ pc'[p] = (IF pc[p] = "w_wake" THEN "w_loop" ELSE "r_loop")
      /\ \A q \in Proc : q # p => pc'[q] = pc[q]
  BY <1>0 DEF Inv, TypeOK
<1>3. Count' = Count /\ Full' = Full /\ Empty' = Empty
  BY <1>0, Unmoved DEF pipevars
<1>4. TypeOK'
  BY <1>0, <1>3 DEF Inv, TypeOK, InKernel, pipevars
<1>5. Locked' /\ Roles' /\ Late'
  BY <1>0, <1>1, <1>2 DEF Inv, Locked, WithLock, Roles, Late, WriterAt, ReaderAt
<1>6. Ends'
  BY <1>0, <1>2 DEF Inv, Ends, pipevars, Proc
<1>7. Waiting'
  <2>1. Awake'
    BY <1>0, <1>1, <1>2, <1>3 DEF Inv, Waiting, Awake, WithLock, pipevars, Proc
  <2>2. Asleep'
    BY <1>0, <1>1, <1>2, <1>3 DEF Inv, Waiting, Asleep, WithLock, pipevars, Proc
  <2> QED
    BY <2>1, <2>2 DEF Waiting
<1> QED
  BY <1>4, <1>5, <1>6, <1>7 DEF Inv

\* kill() marks a process at any moment; if it is asleep it is woken.
LEMMA KillInv ==
    ASSUME Inv, NEW p \in Proc, Kill(p)
    PROVE  Inv'
<1>0. /\ pc[p] # "closed" /\ killed' = [killed EXCEPT ![p] = TRUE]
      /\ late' = (IF pc[p] \in {"w_sleep", "r_sleep"} THEN late \cup {p} ELSE late)
      /\ UNCHANGED <<pipevars, lock, i, n>>
  BY DEF Kill
<1>1. /\ pc[p] = "w_asleep" => pc' = [pc EXCEPT ![p] = "w_wake"]
      /\ pc[p] = "r_asleep" => pc' = [pc EXCEPT ![p] = "r_wake"]
      /\ pc[p] \notin {"w_asleep", "r_asleep"} => pc' = [pc EXCEPT ![p] = pc[p]]
  BY DEF Kill
<1>2. /\ pc'[p] = (IF pc[p] = "w_asleep" THEN "w_wake" ELSE IF pc[p] = "r_asleep" THEN "r_wake" ELSE pc[p])
      /\ \A q \in Proc : q # p => pc'[q] = pc[q]
      /\ pc' \in [Proc -> InKernel \cup {"user", "closed"}]
  BY <1>1 DEF Inv, TypeOK, InKernel
<1>3. killed'[p] /\ \A q \in Proc : q # p => killed'[q] = killed[q]
  BY <1>0 DEF Inv, TypeOK
<1>4. Count' = Count /\ Full' = Full /\ Empty' = Empty
  BY <1>0, Unmoved DEF pipevars
<1>5. TypeOK'
  BY <1>0, <1>2, <1>4 DEF Inv, TypeOK, pipevars
<1>6. Locked' /\ Roles'
  BY <1>0, <1>2 DEF Inv, Locked, WithLock, Roles, WriterAt, ReaderAt
<1>7. Late'
  BY <1>0, <1>2, <1>3 DEF Inv, Late
<1>8. Ends'
  BY <1>0, <1>2 DEF Inv, Ends, pipevars, Proc
<1>9. Waiting'
  <2>1. \A w \in Writers : killed[w] \/ pc[w] = "w_loop" => killed'[w] \/ pc'[w] = "w_loop"
    BY <1>2, <1>3 DEF Proc
  <2>2. \A r \in Readers : pc[r] = "r_copy" => pc'[r] = "r_copy"
    BY <1>2 DEF Proc
  <2> QED
    BY <1>0, <1>2, <1>4, <2>1, <2>2 DEF Inv, Waiting, Awake, Asleep, pipevars
<1> QED
  BY <1>5, <1>6, <1>7, <1>8, <1>9 DEF Inv

\* An end is closed that another process still has.
LEMMA CloseSharedInv ==
    ASSUME Inv, NEW p \in Proc, CloseShared(p)
    PROVE  Inv'
<1>0. /\ pc[p] = "user" /\ pc' = [pc EXCEPT ![p] = "closed"]
      /\ ~Last(p, Writers) /\ ~Last(p, Readers)
      /\ UNCHANGED <<pipevars, lock, i, n, killed, late>>
  BY DEF CloseShared
<1>1. pc'[p] = "closed" /\ \A q \in Proc : q # p => pc'[q] = pc[q]
  BY <1>0 DEF Inv, TypeOK
<1>2. Count' = Count /\ Full' = Full /\ Empty' = Empty
  BY <1>0, Unmoved DEF pipevars
<1>3. TypeOK'
  BY <1>0, <1>2 DEF Inv, TypeOK, pipevars
<1>4. Locked' /\ Roles' /\ Late'
  BY <1>0, <1>1 DEF Inv, Locked, WithLock, Roles, Late, WriterAt, ReaderAt
<1>5. Ends'
  BY <1>0, <1>1 DEF Inv, Ends, Last, pipevars, Proc
<1>6. Waiting'
  <2>1. Awake'
    BY <1>0, <1>1, <1>2 DEF Inv, Waiting, Awake, pipevars, Proc
  <2>2. Asleep'
    BY <1>0, <1>1, <1>2 DEF Inv, Waiting, Asleep, pipevars, Proc
  <2> QED
    BY <2>1, <2>2 DEF Waiting
<1> QED
  BY <1>3, <1>4, <1>5, <1>6 DEF Inv

\* The last writer or reader closes its end and wakes the other side.
LEMMA PipeCloseInv ==
    ASSUME Inv, NEW p \in Proc, PipeClose(p)
    PROVE  Inv'
<1>0. /\ pc[p] = "user" /\ lock = None /\ freed' = (~writeopen' /\ ~readopen')
      /\ UNCHANGED <<data, nread, nwrite, lock, i, n, killed, late>>
  BY DEF PipeClose, Unused
<1>1. Count' = Count /\ Full' = Full /\ Empty' = Empty
  BY <1>0, Unmoved
<1>2. CASE /\ Last(p, Writers) /\ writeopen' = FALSE /\ readopen' = readopen
           /\ pc' = [WakeReaders(pc) EXCEPT ![p] = "closed"]
  <2>1. pc'[p] = "closed" /\ \A q \in Proc : q # p =>
            pc'[q] = (IF pc[q] = "r_asleep" THEN "r_wake" ELSE pc[q])
    BY <1>2 DEF WakeReaders
  <2>2. pc' \in [Proc -> InKernel \cup {"user", "closed"}]
    BY <1>2 DEF Inv, TypeOK, WakeReaders, InKernel
  <2>3. TypeOK'
    BY <1>0, <1>1, <1>2, <2>2 DEF Inv, TypeOK
  <2>4. Locked' /\ Roles' /\ Late'
    BY <1>0, <2>1 DEF Inv, Locked, WithLock, Roles, Late, WriterAt, ReaderAt
  <2>5. p \in Writers /\ p \notin Readers /\ \A q \in Writers : q # p => pc[q] = "closed"
    BY <1>2, PipeAssumption DEF Last
  <2>6. Ends'
    <3>1. \A q \in Writers : pc'[q] = "closed"
      BY <2>1, <2>5 DEF Proc
    <3>2. \A q \in Readers : pc'[q] = "closed" <=> pc[q] = "closed"
      BY <2>1, <2>5 DEF Proc
    <3> QED
      BY <1>0, <1>2, <3>1, <3>2, Zenon DEF Inv, Ends
  <2>7. Waiting'
    <3>1. Awake'
      BY <1>0, <2>4, PipeAssumption DEF Locked, WithLock, Awake
    <3>2. Asleep'
      BY <1>0, <1>1, <1>2, <2>1, <2>5, PipeAssumption
      DEF Inv, Waiting, Asleep, Locked, WithLock, Roles, WriterAt, Proc
    <3> QED
      BY <3>1, <3>2 DEF Waiting
  <2> QED
    BY <2>3, <2>4, <2>6, <2>7 DEF Inv
<1>3. CASE /\ Last(p, Readers) /\ readopen' = FALSE /\ writeopen' = writeopen
           /\ pc' = [WakeWriters(pc) EXCEPT ![p] = "closed"]
  <2>1. pc'[p] = "closed" /\ \A q \in Proc : q # p =>
            pc'[q] = (IF pc[q] = "w_asleep" THEN "w_wake" ELSE pc[q])
    BY <1>3 DEF WakeWriters
  <2>2. pc' \in [Proc -> InKernel \cup {"user", "closed"}]
    BY <1>3 DEF Inv, TypeOK, WakeWriters, InKernel
  <2>3. TypeOK'
    BY <1>0, <1>1, <1>3, <2>2 DEF Inv, TypeOK
  <2>4. Locked' /\ Roles' /\ Late'
    BY <1>0, <2>1 DEF Inv, Locked, WithLock, Roles, Late, WriterAt, ReaderAt
  <2>5. p \in Readers /\ p \notin Writers /\ \A q \in Readers : q # p => pc[q] = "closed"
    BY <1>3, PipeAssumption DEF Last
  <2>6. Ends'
    <3>1. \A q \in Readers : pc'[q] = "closed"
      BY <2>1, <2>5 DEF Proc
    <3>2. \A q \in Writers : pc'[q] = "closed" <=> pc[q] = "closed"
      BY <2>1, <2>5 DEF Proc
    <3> QED
      BY <1>0, <1>3, <3>1, <3>2, Zenon DEF Inv, Ends
  <2>7. Waiting'
    <3>1. Awake'
      BY <1>0, <2>4, PipeAssumption DEF Locked, WithLock, Awake
    <3>2. Asleep'
      <4>1. \A q \in Proc : pc'[q] # "w_asleep"
        BY <2>1
      <4>2. \A q \in Proc : pc'[q] = "r_asleep" => q # p /\ pc[q] = "r_asleep"
        BY <2>1
      <4>3. \A q \in Proc : pc[q] = "r_asleep" => q \in Readers
        BY DEF Inv, Roles, ReaderAt
      <4> QED
        BY <2>5, <4>1, <4>2, <4>3 DEF Asleep, Proc
    <3> QED
      BY <3>1, <3>2 DEF Waiting
  <2> QED
    BY <2>3, <2>4, <2>6, <2>7 DEF Inv
<1> QED
  BY <1>2, <1>3 DEF PipeClose

-----------------------------------------------------------------------------
(***************************************************************************)
(* The refinement.  The bytes in the pipe are a window of the ring; the    *)
(* two counters wrap at a multiple of its size, so the window moves over   *)
(* the ring as if they did not wrap.                                       *)
(***************************************************************************)
At(k) == (nread + k - 1) % PIPESIZE
Queue == [k \in 1..Count |-> data[At(k)]]

LEMMA Sizes ==
    /\ PIPESIZE \in Nat /\ PIPESIZE > 0 /\ UintRange \in Nat /\ UintRange > PIPESIZE
    /\ UintRange > 0 /\ UintRange % PIPESIZE = 0
BY PipeAssumption

LEMMA AtSlot == ASSUME TypeOK, NEW k \in Nat, k > 0 PROVE At(k) \in 0..PIPESIZE - 1
<1>1. nread + k - 1 \in Nat
  BY DEF TypeOK
<1> QED
  BY <1>1, Sizes, SMT DEF At

LEMMA QueueSeq ==
    ASSUME TypeOK
    PROVE  /\ Queue \in Seq(Byte) /\ Len(Queue) = Count
           /\ \A k \in 1..Count : Queue[k] = data[At(k)]
<1>1. Count \in Nat
  BY Sizes DEF TypeOK
<1>2. \A k \in 1..Count : data[At(k)] \in Byte
  BY <1>1, AtSlot DEF TypeOK
<1> HIDE DEF At
<1>3. Queue \in [1..Count -> Byte]
  BY <1>2 DEF Queue
<1>4. Queue \in Seq(Byte) /\ Len(Queue) = Count
  BY <1>1, <1>3, SMT
<1> QED
  BY <1>4 DEF Queue

\* The slot pipewrite fills is the one after the window, and not in it.
LEMMA SlotAt ==
    ASSUME TypeOK, ~Full
    PROVE  At(Count + 1) = Slot /\ \A k \in 1..Count : At(k) # Slot
<1>1. nread \in 0..UintRange - 1 /\ nwrite \in 0..UintRange - 1 /\ Count \in 0..PIPESIZE
  BY DEF TypeOK
<1>2. Count # PIPESIZE
  BY FullEmpty
<1>3. nread + Count = nwrite \/ nread + Count = nwrite + UintRange
  <2>1. UintRange \in Nat
    BY Sizes
  <2>2. Count = IF nwrite >= nread THEN nwrite - nread ELSE nwrite - nread + UintRange
    BY <1>1, Counting DEF Count
  <2> QED
    BY <1>1, <2>1, <2>2
<1>4. nread + Count \in 0..2 * UintRange - 1 /\ nread + Count \in Int
  BY <1>1, Sizes
<1>5. (nread + Count) % UintRange = nwrite
  <2>1. UintRange \in Nat /\ UintRange > 0
    BY Sizes
  <2>2. PICK y \in -UintRange..2 * UintRange - 1 : y = nread + Count
    BY <1>4, <2>1
  <2>3. y % UintRange = IF y < 0 THEN y + UintRange ELSE IF y < UintRange THEN y ELSE y - UintRange
    BY <2>1, ModWrap
  <2>4. y % UintRange = nwrite
    BY <1>1, <1>3, <2>1, <2>2, <2>3
  <2> QED
    BY <2>2, <2>4, Zenon
<1>6. (nread + Count) % PIPESIZE = Slot
  <2>1. ((nread + Count) % UintRange) % PIPESIZE = (nread + Count) % PIPESIZE
    BY <1>4, Sizes, ModOfWrapped
  <2> QED
    BY <1>5, <2>1 DEF Slot
<1>7. nread + (Count + 1) - 1 = nread + Count
  BY <1>1, Sizes
<1>8. ASSUME NEW k \in 1..Count PROVE At(k) # Slot
  <2>1. /\ nread + k - 1 \in Int /\ nread + k - 1 < nread + Count
        /\ nread + Count < nread + k - 1 + PIPESIZE
    BY <1>1, <1>2, Sizes
  <2>2. (nread + k - 1) % PIPESIZE # (nread + Count) % PIPESIZE
    BY <1>4, <2>1, Sizes, ModApart
  <2> QED
    BY <1>6, <2>2 DEF At
<1> QED
  BY <1>6, <1>7, <1>8 DEF At

\* pipewrite's byte goes to the end of the queue.
LEMMA Sends ==
    ASSUME Inv, Inv', NEW p \in Proc, NEW x \in Byte, WriteByte(p, x)
    PROVE  Queue' = Append(Queue, x) /\ Len(Queue) < PIPESIZE
<1>1. /\ ~Full /\ data' = [data EXCEPT ![Slot] = x] /\ nwrite' = (nwrite + 1) % UintRange
      /\ nread' = nread
  BY DEF WriteByte
<1>2. Count' = Count + 1 /\ Count + 1 \in 1..PIPESIZE /\ Count \in Nat
  <2>1. Count \in Nat
    BY Sizes DEF Inv, TypeOK
  <2> QED
    BY <1>1, <2>1, Counted DEF Inv, Count
<1>3. Queue \in Seq(Byte) /\ Len(Queue) = Count /\ \A k \in 1..Count : Queue[k] = data[At(k)]
  BY QueueSeq DEF Inv
<1>4. /\ Queue' \in Seq(Byte) /\ Len(Queue') = Count + 1
      /\ \A k \in 1..Count + 1 : Queue'[k] = data'[At(k)]
  <2>1. (TypeOK => /\ Queue \in Seq(Byte) /\ Len(Queue) = Count
                   /\ \A k \in 1..Count : Queue[k] = data[At(k)])'
    BY QueueSeq, PTL
  <2>2. \A k : At(k)' = At(k)
    BY <1>1 DEF At
  <2> QED
    BY <1>2, <2>1, <2>2 DEF Inv
<1>5. \A k \in 1..Count + 1 : At(k) \in DOMAIN data
  BY <1>2, AtSlot DEF Inv, TypeOK
<1>6. Queue'[Count + 1] = x /\ \A k \in 1..Count : Queue'[k] = Queue[k]
  <2>1. At(Count + 1) = Slot /\ \A k \in 1..Count : At(k) # Slot
    BY <1>1, SlotAt DEF Inv
  <2>2. Count + 1 \in 1..Count + 1 /\ \A k \in 1..Count : k \in 1..Count + 1
    BY <1>2
  <2> QED
    BY <1>1, <1>3, <1>4, <1>5, <2>1, <2>2
<1>7. Append(Queue, x) \in Seq(Byte) /\ Len(Append(Queue, x)) = Count + 1
      /\ (\A k \in 1..Count : Append(Queue, x)[k] = Queue[k]) /\ Append(Queue, x)[Count + 1] = x
  BY <1>3, AppendProperties
<1>8. \A k \in 1..Count + 1 : Queue'[k] = Append(Queue, x)[k]
  <2>1. \A k \in 1..Count + 1 : k \in 1..Count \/ k = Count + 1
    BY <1>2
  <2> QED
    BY <1>6, <1>7, <2>1
<1>9. Queue' = Append(Queue, x)
  BY <1>4, <1>7, <1>8, SeqEqual
<1> QED
  BY <1>2, <1>3, <1>9, Sizes

\* piperead's byte leaves the front of the queue.
LEMMA Receives ==
    ASSUME Inv, Inv', NEW p \in Proc, ReadByte(p)
    PROVE  Queue' = Tail(Queue) /\ Queue # <<>>
<1>1. ~Empty /\ data' = data /\ nwrite' = nwrite /\ nread' = (nread + 1) % UintRange
  BY DEF ReadByte
<1>2. Count' = Count - 1 /\ Count - 1 \in 0..PIPESIZE - 1 /\ Count \in Nat
  <2>1. Count \in Nat
    BY Sizes DEF Inv, TypeOK
  <2> QED
    BY <1>1, <2>1, Counted DEF Inv, Count
<1>3. Queue \in Seq(Byte) /\ Len(Queue) = Count /\ \A k \in 1..Count : Queue[k] = data[At(k)]
  BY QueueSeq DEF Inv
<1>4. ASSUME NEW k \in 1..Count - 1 PROVE At(k)' = At(k + 1)
  <2>1. nread \in 0..UintRange - 1 /\ nwrite \in 0..UintRange - 1
    BY DEF Inv, TypeOK
  <2>2. nread' = IF nread = UintRange - 1 THEN 0 ELSE nread + 1
    BY <1>1, <2>1, Counting
  <2>3. CASE nread # UintRange - 1
    <3>1. nread' + k - 1 = nread + (k + 1) - 1
      BY <2>1, <2>2, <2>3, <1>2, Sizes
    <3> QED
      BY <3>1 DEF At
  <2>4. CASE nread = UintRange - 1
    <3>1. nread' + k - 1 = k - 1 /\ nread + (k + 1) - 1 = UintRange + (k - 1)
      BY <2>1, <2>2, <2>4, <1>2, Sizes
    <3>2. UintRange + (k - 1) \in 0..2 * UintRange - 1 /\ k - 1 \in 0..UintRange - 1
      BY <1>2, Sizes
    <3>3. ((UintRange + (k - 1)) % UintRange) % PIPESIZE = (UintRange + (k - 1)) % PIPESIZE
      BY <3>2, Sizes, ModOfWrapped
    <3>4. (UintRange + (k - 1)) % UintRange = k - 1
      <4>1. UintRange * 1 + (k - 1) = UintRange + (k - 1)
        BY <3>2, Sizes
      <4>2. (UintRange * 1 + (k - 1)) % UintRange = k - 1
        BY <3>2, Sizes, ModUnique
      <4> QED
        BY <4>1, <4>2
    <3> QED
      BY <3>1, <3>3, <3>4 DEF At
  <2> QED
    BY <2>3, <2>4
<1>5. /\ Queue' \in Seq(Byte) /\ Len(Queue') = Count - 1
      /\ \A k \in 1..Count - 1 : Queue'[k] = data[At(k + 1)]
  <2>1. (TypeOK => /\ Queue \in Seq(Byte) /\ Len(Queue) = Count
                   /\ \A k \in 1..Count : Queue[k] = data[At(k)])'
    BY QueueSeq, PTL
  <2> QED
    BY <1>1, <1>2, <1>4, <2>1 DEF Inv
<1>6. Queue # <<>>
  BY <1>2, <1>3, EmptySeq
<1>7. Tail(Queue) \in Seq(Byte) /\ Len(Tail(Queue)) = Count - 1
      /\ \A k \in 1..Count - 1 : Tail(Queue)[k] = Queue[k + 1]
  BY <1>3, <1>6, HeadTailProperties
<1>8. \A k \in 1..Count - 1 : Queue'[k] = Tail(Queue)[k]
  <2>1. \A k \in 1..Count - 1 : k + 1 \in 1..Count
    BY <1>2
  <2> QED
    BY <1>3, <1>5, <1>7, <2>1
<1>9. Queue' = Tail(Queue)
  BY <1>5, <1>7, <1>8, SeqEqual
<1> QED
  BY <1>6, <1>9

-----------------------------------------------------------------------------
(***************************************************************************)
(* Theorems.                                                               *)
(***************************************************************************)
\* Every reachable state of a pipe satisfies the inductive invariant.
THEOREM Invariance == Spec => []Inv
<1>1. Inv /\ [Next]_vars => Inv'
  <2> SUFFICES ASSUME Inv, [Next]_vars PROVE Inv'
    OBVIOUS
  <2>1. ASSUME NEW p \in Proc, KernelStep(p) PROVE Inv'
    BY <2>1, WriteFullInv, WriteReturnInv, WriteByteInv, ReadWaitInv, ReadReadyInv, ReadByteInv,
       ReadReturnInv, SleepInv, WakeUpInv DEF KernelStep
  <2>2. ASSUME NEW p \in Proc, NEW c \in Counts, WriteCall(p, c) \/ ReadCall(p, c) PROVE Inv'
    BY <2>2, CallInv
  <2>3. ASSUME NEW p \in Proc, Kill(p) \/ CloseShared(p) \/ PipeClose(p) PROVE Inv'
    BY <2>3, KillInv, CloseSharedInv, PipeCloseInv
  <2>4. CASE UNCHANGED vars
    BY <2>4 DEF vars, pipevars, Inv, TypeOK, Locked, Roles, Ends, Waiting, Awake, Asleep, Late, Full, Empty, Count
  <2> QED
    BY <2>1, <2>2, <2>3, <2>4 DEF Next, Done
<1> QED
  BY <1>1, InitInv, PTL DEF Spec

\* No sleeper of pipewrite or piperead is stranded and no page freed under a
\* process, for any size of the ring and any number of processes.
THEOREM SleepersServed == Spec => []NobodyStranded
<1>1. Inv => NobodyStranded
  <2> SUFFICES ASSUME Inv PROVE NobodyStranded
    OBVIOUS
  <2>1. TypeOK /\ Locked
    BY DEF Inv
  <2>2. ASSUME lock = None, NEW p \in Proc
        PROVE  /\ pc[p] = "w_asleep" => Full /\ readopen
               /\ pc[p] = "r_asleep" => writeopen /\ (Empty \/ \E w \in Writers : killed[w])
    <3>1. \A q \in Proc : pc[q] \notin {"r_copy", "w_loop"}
      BY <2>2, PipeAssumption DEF Inv, Locked, WithLock
    <3> QED
      BY <3>1 DEF Inv, Waiting, Awake, Asleep, Proc
  <2>3. \A p \in Proc : pc[p] \in {"w_asleep", "r_asleep"} /\ killed[p] => p \in late
    BY DEF Inv, Late
  <2>4. freed => \A p \in Proc : pc[p] = "closed"
    BY DEF Inv, Ends, Proc
  <2> QED
    BY <2>1, <2>2, <2>3, <2>4 DEF NobodyStranded, Locked
<1> QED
  BY <1>1, Invariance, PTL

\* piperead returns 0 for a positive count only at end of file, although it
\* is woken with others and may find that they took everything.
THEOREM EofOnly == Spec => ZeroMeansEof
<1>1. Inv /\ [Next]_vars =>
        [\A p \in Proc : ReadReturn(p) /\ i[p] = 0 /\ n[p] > 0 => Empty /\ ~writeopen]_vars
  <2> SUFFICES ASSUME Inv, NEW p \in Proc, ReadReturn(p), i[p] = 0, n[p] > 0
               PROVE  Empty /\ ~writeopen
    OBVIOUS
  <2>1. pc[p] = "r_copy" /\ (i[p] >= n[p] \/ Empty)
    BY DEF ReadReturn
  <2>2. ~(i[p] >= n[p])
    BY CountsNat DEF Inv
  <2> QED
    BY <2>1, <2>2 DEF Inv, Waiting, Awake, Asleep
<1> QED
  BY <1>1, Invariance, PTL DEF Spec, ZeroMeansEof

\* A pipe is a bounded first-in first-out queue, whatever the size of its ring
\* and the width of its counters, as long as the one divides the other.
THEOREM PipeIsChannel == Spec => FifoChannel
<1>1. Init => Chan!Init
  <2> SUFFICES ASSUME Init PROVE Queue = <<>> /\ writeopen = TRUE /\ readopen = TRUE
    BY DEF Chan!Init, Queue, At
  <2>1. TypeOK /\ Empty
    BY InitInv DEF Inv, Init, Empty
  <2>2. Queue \in Seq(Byte) /\ Len(Queue) = 0
    BY <2>1, QueueSeq, FullEmpty
  <2> QED
    BY <2>2, EmptySeq DEF Init
<1>2. Inv /\ Inv' /\ [Next]_vars => [Chan!Next]_Chan!cvars
  <2> SUFFICES ASSUME Inv, Inv', [Next]_vars
               PROVE  \/ \E x \in Byte : /\ writeopen /\ Len(Queue) < PIPESIZE
                                         /\ Queue' = Append(Queue, x)
                                         /\ UNCHANGED <<writeopen, readopen>>
                      \/ /\ readopen /\ Queue # <<>> /\ Queue' = Tail(Queue)
                         /\ UNCHANGED <<writeopen, readopen>>
                      \/ writeopen /\ writeopen' = FALSE /\ UNCHANGED <<Queue, readopen>>
                      \/ readopen /\ readopen' = FALSE /\ UNCHANGED <<Queue, writeopen>>
                      \/ UNCHANGED <<Queue, writeopen, readopen>>
    BY DEF Chan!Next, Chan!Send, Chan!Receive, Chan!CloseWrite, Chan!CloseRead, Chan!cvars,
           Queue, At
  <2>1. ASSUME NEW p \in Proc, NEW x \in Byte, WriteByte(p, x)
        PROVE  /\ writeopen /\ Len(Queue) < PIPESIZE /\ Queue' = Append(Queue, x)
               /\ UNCHANGED <<writeopen, readopen>>
    <3>1. p \in Writers /\ pc[p] # "closed"
      BY <2>1 DEF WriteByte, Inv, Roles, WriterAt
    <3> QED
      BY <2>1, <3>1, Sends DEF WriteByte, Inv, Ends
  <2>2. ASSUME NEW p \in Proc, ReadByte(p)
        PROVE  /\ readopen /\ Queue # <<>> /\ Queue' = Tail(Queue)
               /\ UNCHANGED <<writeopen, readopen>>
    <3>1. p \in Readers /\ pc[p] # "closed"
      BY <2>2 DEF ReadByte, Inv, Roles, ReaderAt
    <3> QED
      BY <2>2, <3>1, Receives DEF ReadByte, Inv, Ends
  <2>3. ASSUME UNCHANGED <<data, nread, nwrite>> PROVE Queue' = Queue
    BY <2>3 DEF Queue, At, Count
  <2>4. ASSUME NEW p \in Proc, PipeClose(p)
        PROVE  \/ writeopen /\ writeopen' = FALSE /\ UNCHANGED <<Queue, readopen>>
               \/ readopen /\ readopen' = FALSE /\ UNCHANGED <<Queue, writeopen>>
    BY <2>3, <2>4, Zenon DEF PipeClose, Last, Inv, Ends
  <2>5. ASSUME UNCHANGED pipevars PROVE UNCHANGED <<Queue, writeopen, readopen>>
    BY <2>3, <2>5 DEF pipevars
  <2>6. \/ \E p \in Proc : \/ \E x \in Byte : WriteByte(p, x)
                           \/ ReadByte(p) \/ PipeClose(p)
        \/ UNCHANGED pipevars
    BY DEF Next, KernelStep, WriteFull, WriteReturn, ReadWait, ReadReady, ReadReturn, Sleep, WakeUp,
           Kill, CloseShared, WriteCall, ReadCall, Done, vars
  <2> HIDE DEF Queue
  <2> QED
    BY <2>1, <2>2, <2>4, <2>5, <2>6
<1> QED
  BY <1>1, <1>2, Invariance, PTL DEF Spec, FifoChannel, Chan!Spec
=============================================================================
