----------------------------- MODULE FileWrite ------------------------------
(***************************************************************************)
(* fileread and filewrite of file.c: processes that share one struct file, *)
(* and its offset, read it and write to it, a chunk per transaction.       *)
(* Sizes are the real ones, so that the log space a chunk of writei takes  *)
(* can be compared with the log.                                           *)
(***************************************************************************)
EXTENDS Integers, FiniteSets, FiniteSetsExt

CONSTANTS
    Proc,
    BSIZE, NDIRECT, NINDIRECT, LOGSIZE,  \* fs.h, param.h
    NLOG,                                \* sb.nlog, the blocks of the log
    NBITMAP,                             \* blocks of the free map
    Start,                               \* initial sizes of the file
    Back,                                \* how far before its end the offset may start
    Request,                             \* the values of n in read and write(fd, buf, n)
    MaxCalls                             \* bound on the calls of each process

MAXFILE == NDIRECT + NINDIRECT + NINDIRECT * NINDIRECT

FileWriteAssumption ==
    /\ \A k \in {BSIZE, NINDIRECT, NBITMAP, NLOG, LOGSIZE} : k \in Nat \ {0}
    /\ NDIRECT \in Nat /\ MaxCalls \in Nat /\ Back \in Nat
    /\ Start \subseteq 0..MAXFILE * BSIZE /\ Request \subseteq Nat

VARIABLES
    size,      \* ip->size
    off,       \* f->off, shared by the processes
    pc,        \* "user", "loop", "trans" (asked for a transaction)
    n, i,      \* filewrite's request and the bytes written so far
    calls,     \* calls made
    trans,     \* the process in a transaction, or 0
    moved,     \* ranges read or written: <<first byte, length, process, call>>
    result,    \* what the last call returned
    logfull    \* 0, or when log_write has panicked the number of blocks of the
               \* free map in the transaction

vars == <<size, off, pc, n, i, calls, trans, moved, result, logfull>>

Init ==
    /\ size \in Start /\ off \in {size, IF size < Back THEN 0 ELSE size - Back}
    /\ pc = [p \in Proc |-> "user"]
    /\ n = [p \in Proc |-> 0] /\ i = [p \in Proc |-> 0] /\ calls = [p \in Proc |-> 0]
    /\ trans = 0 /\ moved = {} /\ result = [p \in Proc |-> 0]
    /\ logfull = 0

\* Definitions named F_... are faulty variants of the definition that follows
\* them; each shows that some property below can tell the code from a
\* plausible bug.  They are not part of the specification.

max == ((LOGSIZE - 1 - 1 - 2) \div 2) * BSIZE

(***************************************************************************)
(* The blocks that writei(off, m) passes to log_write.  A block number     *)
(* stands for the data block bmap gives it.                                *)
(***************************************************************************)
Mapped == (size + BSIZE - 1) \div BSIZE
Touched(m) == (off \div BSIZE)..((off + m - 1) \div BSIZE)
New(m) == {bn \in Touched(m) : bn >= Mapped}

\* The index block holding the address of bn, and the first bn below it.
Second(bn) == (bn - NDIRECT - NINDIRECT) \div NINDIRECT
Holder(bn) ==
    IF bn < NDIRECT THEN <<"inode">>
    ELSE IF bn < NDIRECT + NINDIRECT THEN <<"indirect">>
    ELSE <<"second", Second(bn)>>
FirstBelow(bn) ==
    IF bn < NDIRECT THEN 0
    ELSE IF bn < NDIRECT + NINDIRECT THEN NDIRECT
    ELSE NDIRECT + NINDIRECT + Second(bn) * NINDIRECT

NewHolders(m) == {Holder(bn) : bn \in {b \in New(m) : b >= NDIRECT /\ FirstBelow(b) >= Mapped}}
NewSeconds(m) == {h \in NewHolders(m) : h[1] = "second"}
Doubly(m) == IF NewSeconds(m) = {} THEN {} ELSE {<<"doubly">>}
NewDoubly(m) == IF Mapped <= NDIRECT + NINDIRECT THEN Doubly(m) ELSE {}

Allocated(m) == Cardinality(New(m)) + Cardinality(NewHolders(m)) + Cardinality(NewDoubly(m))

\* Data and index blocks, the inode when the file grows, and the maps blocks of
\* the free map in which balloc finds what it allocates.
LogBlocks(m, maps) ==
    Cardinality(Touched(m)) + Cardinality({Holder(bn) : bn \in New(m)} \ {<<"inode">>})
    + Cardinality(Doubly(m)) + (IF off + m > size THEN 1 ELSE 0)
    + maps

\* log_write panics when it is called with log.size - 1 blocks logged.  The
\* inode, moved last, is the last to be added.
Capacity == IF LOGSIZE < NLOG - 1 THEN LOGSIZE ELSE NLOG - 1

(***************************************************************************)
(* filewrite.                                                              *)
(***************************************************************************)
Call(p, k) ==
    /\ logfull = 0
    /\ pc[p] = "user" /\ calls[p] < MaxCalls
    /\ pc' = [pc EXCEPT ![p] = "loop"]
    /\ n' = [n EXCEPT ![p] = k] /\ i' = [i EXCEPT ![p] = 0]
    /\ calls' = [calls EXCEPT ![p] = @ + 1]
    /\ UNCHANGED <<size, off, trans, moved, result, logfull>>

CanBegin == trans = 0

Begin(p) ==
    /\ logfull = 0
    /\ pc[p] = "loop" /\ i[p] < n[p] /\ CanBegin
    /\ trans' = p
    /\ pc' = [pc EXCEPT ![p] = "trans"]
    /\ UNCHANGED <<size, off, n, i, calls, moved, result, logfull>>

n1(p) == IF n[p] - i[p] > max THEN max ELSE n[p] - i[p]
WriteFails(m) == off > size \/ off + m > MAXFILE * BSIZE

F_Advance(r) == off
Advance(r) == off + r

\* ilock, writei, iunlock, commit_trans: the free blocks that balloc finds are
\* in as many blocks of the free map as maps says.
Chunk(p, maps) ==
    LET m == n1(p) IN
    /\ logfull = 0
    /\ pc[p] = "trans" /\ trans = p /\ ~WriteFails(m)
    /\ maps <= Allocated(m) /\ (New(m) # {} => maps > 0)
    /\ IF LogBlocks(m, maps) > Capacity
       THEN logfull' = maps /\ UNCHANGED <<size, off, pc, i, trans, moved>>
       ELSE /\ size' = IF off + m > size THEN off + m ELSE size
            /\ off' = Advance(m)
            /\ moved' = moved \cup {<<off, m, p, calls[p]>>}
            /\ i' = [i EXCEPT ![p] = @ + m]
            /\ trans' = 0
            /\ pc' = [pc EXCEPT ![p] = "loop"]
            /\ UNCHANGED logfull
    /\ UNCHANGED <<n, calls, result>>

Returned(p) == IF i[p] = n[p] THEN n[p] ELSE -1

\* writei returns -1 and the loop is left.
ChunkFails(p) ==
    /\ logfull = 0
    /\ pc[p] = "trans" /\ trans = p /\ WriteFails(n1(p))
    /\ trans' = 0
    /\ result' = [result EXCEPT ![p] = Returned(p)]
    /\ pc' = [pc EXCEPT ![p] = "user"]
    /\ UNCHANGED <<size, off, n, i, calls, moved, logfull>>

Return(p) ==
    /\ logfull = 0
    /\ pc[p] = "loop" /\ i[p] >= n[p]
    /\ result' = [result EXCEPT ![p] = Returned(p)]
    /\ pc' = [pc EXCEPT ![p] = "user"]
    /\ UNCHANGED <<size, off, n, i, calls, trans, moved, logfull>>

\* fileread: ilock, readi, iunlock.  (A chunk of filewrite is one step, so that
\* the inode is never found locked.)
ReadCall(p, k) ==
    LET r == IF off + k > size THEN size - off ELSE k IN
    /\ logfull = 0
    /\ pc[p] = "user" /\ calls[p] < MaxCalls
    /\ off' = Advance(r)
    /\ moved' = IF r > 0 THEN moved \cup {<<off, r, p, calls[p] + 1>>} ELSE moved
    /\ n' = [n EXCEPT ![p] = r] /\ i' = [i EXCEPT ![p] = r] /\ result' = [result EXCEPT ![p] = r]
    /\ calls' = [calls EXCEPT ![p] = @ + 1]
    /\ UNCHANGED <<size, pc, trans, logfull>>

\* The bound on calls is reached, or the kernel has panicked.
Finished == (logfull # 0 \/ \A p \in Proc : pc[p] = "user" /\ calls[p] = MaxCalls) /\ UNCHANGED vars

Next ==
    \/ \E p \in Proc :
        \/ \E k \in Request : Call(p, k) \/ ReadCall(p, k)
        \/ Begin(p)
        \/ \E maps \in 0..NBITMAP : Chunk(p, maps)
        \/ ChunkFails(p)
        \/ Return(p)
    \/ Finished

Spec == Init /\ [][Next]_vars

-----------------------------------------------------------------------------
(***************************************************************************)
(* Properties.                                                             *)
(***************************************************************************)
\* The variables of filewrite stay in their ranges; in particular a process
\* is between begin_trans and commit_trans exactly when trans says so.
TypeOK ==
    /\ size \in 0..MAXFILE * BSIZE /\ off \in 0..size
    /\ logfull \in 0..NBITMAP
    /\ trans \in Proc \cup {0}
    /\ \A p \in Proc : /\ pc[p] \in {"user", "loop", "trans"}
                       /\ (pc[p] = "trans") = (trans = p)
                       /\ i[p] \in 0..n[p] /\ result[p] \in -1..Max(Request)

\* Processes that share a file move through it one after the other: a byte is
\* read or written by one call only, and what the calls moved fills the file
\* from the initial offset to the present one without a hole; a call that
\* returns n has moved n bytes.  A chunk whose free blocks are all in one block
\* of the free map fits in the log: log_write does not panic, wherever in the
\* file and in a block it starts.
BytesOf(p) == FoldSet(LAMBDA w, s : w[2] + s, 0, {w \in moved : w[3] = p /\ w[4] = calls[p]})
ChunksTile ==
    /\ TypeOK /\ logfull # 1
    /\ \A v, w \in moved : v # w => v[1] + v[2] <= w[1] \/ w[1] + w[2] <= v[1]
    /\ moved # {} => off - Min({w[1] : w \in moved}) = FoldSet(LAMBDA w, s : w[2] + s, 0, moved)
    /\ \A p \in Proc : pc[p] = "user" /\ calls[p] > 0 /\ result[p] >= 0 => BytesOf(p) = n[p]

\* The comment in filewrite says that it writes a few blocks at a time to avoid
\* exceeding the maximum log transaction size, including i-node, indirect block,
\* allocation blocks and slop: log_write never panics.
ChunksFit == logfull = 0
=============================================================================
