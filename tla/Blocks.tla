------------------------------- MODULE Blocks -------------------------------
(***************************************************************************)
(* Blocks and file contents: balloc, bfree, bmap, itrunc, readi and writei *)
(* of fs.c, with direct, indirect and doubly indirect blocks, on a disk    *)
(* that mkfs.c has written.                                                *)
(*                                                                         *)
(* A call runs with its inode locked, and inside a transaction when it     *)
(* writes, so each is one step here.  The operators map the file system d  *)
(* to a new one; a C function's result is left in d.r.                     *)
(***************************************************************************)
EXTENDS Integers, FiniteSets, FiniteSetsExt, SequencesExt

CONSTANTS
    Inode,               \* inode numbers
    NDIRECT, NINDIRECT,  \* direct addresses of an inode, addresses in a block
    BSIZE,               \* bytes in a block
    Width,               \* bits of a uint
    Val,                 \* byte values other than 0
    Count,               \* the values of n that calls use
    Jobs                 \* disks and their use, see job

MAXFILE == NDIRECT + NINDIRECT + NINDIRECT * NINDIRECT
Uint(n) == n % (2 ^ Width)

BlocksAssumption ==
    /\ NDIRECT \in Nat /\ NINDIRECT \in Nat \ {0} /\ BSIZE \in Nat \ {0}
    /\ Width \in Nat /\ MAXFILE * BSIZE < 2 ^ Width
    /\ Val \subseteq Nat \ {0} /\ \A n \in Count : n \in 0..2 ^ Width - 1
    /\ \A j \in Jobs : j.inodes \subseteq Inode /\ j.vals \subseteq Val /\ j.blocks \in Nat
    \* mkfs's directory does not end with a full block, and its files need no
    \* doubly indirect block.
    /\ \A j \in Jobs : \A image \in j.images : image # <<>> =>
          /\ Len(image[1]) % BSIZE # 0
          /\ \A i \in DOMAIN image : Len(image[i]) <= (NDIRECT + NINDIRECT) * BSIZE

VARIABLES
    d,        \* the file system
    content,  \* the bytes written to each file: what readi should return
    lost,     \* history: the blocks itrunc left below doubly indirect addresses
    job       \* one of Jobs, the same throughout a behaviour: the number of
              \* blocks, the inodes used, the values written and what mkfs
              \* may put on the disk, the root directory first

vars == <<d, content, lost, job>>

\* The blocks below sb.size that mkfs leaves free in the bitmap.
Block == 1..job.blocks

(***************************************************************************)
(* d.used is the bitmap; ptr and byte are two views of the data blocks.    *)
(* addrs and size are the cached inode, dinode its copy on disk, live the  *)
(* inodes whose type is not 0.                                             *)
(***************************************************************************)
NoAddrs == [k \in 0..NDIRECT + 1 |-> 0]
ZeroPtr == [k \in 0..NINDIRECT - 1 |-> 0]
ZeroByte == [k \in 0..BSIZE - 1 |-> 0]
NewInode == [addrs |-> NoAddrs, size |-> 0]

\* Definitions named F_... are faulty variants of the definition that follows
\* them; each shows that some property below can tell the code from a
\* plausible bug.  They are not part of the specification.

(***************************************************************************)
(* balloc takes the first free block and zeroes it.                        *)
(***************************************************************************)
Marked(used, b) == used \cup {b}

F_Zeroed(e, b) == e
Zeroed(e, b) == [e EXCEPT !.ptr[b] = ZeroPtr, !.byte[b] = ZeroByte]

balloc(e) ==
    IF e.used = Block \/ e.panic
    THEN [e EXCEPT !.panic = TRUE, !.r = 1]
    ELSE LET b == Min(Block \ e.used)
         IN  Zeroed([e EXCEPT !.used = Marked(@, b), !.r = b], b)

bfree(e, b) ==
    IF b \notin e.used
    THEN [e EXCEPT !.panic = TRUE]
    ELSE [e EXCEPT !.used = @ \ {b}]

\* Load the address at index k of inode i, or of block b, allocating a block
\* if there is none.
InodeAddr(e, i, k) ==
    IF e.ip[i].addrs[k] # 0
    THEN [e EXCEPT !.r = e.ip[i].addrs[k]]
    ELSE LET g == balloc(e) IN [g EXCEPT !.ip[i].addrs[k] = g.r]

BlockAddr(e, b, k) ==
    IF e.ptr[b][k] # 0
    THEN [e EXCEPT !.r = e.ptr[b][k]]
    ELSE LET g == balloc(e) IN [g EXCEPT !.ptr[b][k] = g.r]

Outer(bn) == bn \div NINDIRECT

bmap(e, i, bn) ==
    LET ind == bn - NDIRECT
        dbl == ind - NINDIRECT
    IN  IF bn < NDIRECT
        THEN InodeAddr(e, i, bn)
        ELSE IF ind < NINDIRECT
        THEN LET g == InodeAddr(e, i, NDIRECT) IN BlockAddr(g, g.r, ind)
        ELSE IF dbl >= NINDIRECT * NINDIRECT
        THEN [e EXCEPT !.panic = TRUE]
        ELSE LET g == InodeAddr(e, i, NDIRECT + 1)
                 h == BlockAddr(g, g.r, Outer(dbl))
             IN  BlockAddr(h, h.r, dbl % NINDIRECT)

iupdate(e, i) == [e EXCEPT !.dinode[i] = e.ip[i]]

\* itrunc frees what the direct addresses and the indirect block name.
itrunc(e, i) ==
    LET direct == [k \in 1..NDIRECT |-> e.ip[i].addrs[k - 1]]
        ind == IF e.ip[i].addrs[NDIRECT] = 0 THEN <<>>
               ELSE Append([k \in 1..NINDIRECT |-> e.ptr[e.ip[i].addrs[NDIRECT]][k - 1]],
                           e.ip[i].addrs[NDIRECT])
        g == FoldLeft(bfree, e, SelectSeq(direct \o ind, LAMBDA b : b # 0))
    IN  iupdate([g EXCEPT !.ip[i] =
                    [addrs |-> [k \in 0..NDIRECT + 1 |-> IF k <= NDIRECT THEN 0 ELSE @.addrs[k]],
                     size |-> 0]], i)

(***************************************************************************)
(* writei and readi.                                                       *)
(***************************************************************************)
\* The bytes of a call that fall in file block bn, as offsets in the file.
Span(off, n, bn) == (off..off + n - 1) \cap (bn * BSIZE..bn * BSIZE + BSIZE - 1)
BlocksOf(off, n) == [k \in 1..((off + n - 1) \div BSIZE - off \div BSIZE + 1) |-> off \div BSIZE + k - 1]

WriteBlock(e, i, off, n, v, bn) ==
    LET g == bmap(e, i, bn)
    IN  IF g.panic THEN g
        ELSE [g EXCEPT !.byte[g.r] = [k \in 0..BSIZE - 1 |->
                 IF bn * BSIZE + k \in Span(off, n, bn) THEN v ELSE @[k]]]

WriteFails(e, i, off, n) ==
    off > e.ip[i].size \/ Uint(off + n) < off \/ off + n > MAXFILE * BSIZE

Grown(e, i, off, n) ==
    IF n > 0 /\ off + n > e.ip[i].size
    THEN iupdate([e EXCEPT !.ip[i].size = off + n], i)
    ELSE e

writei(e, i, off, n, v) ==
    IF WriteFails(e, i, off, n)
    THEN [e EXCEPT !.r = -1]
    ELSE LET g == IF n = 0 THEN e
                  ELSE FoldLeft(LAMBDA h, bn : WriteBlock(h, i, off, n, v, bn), e, BlocksOf(off, n))
             h == Grown(g, i, off, n)
         IN  IF g.panic THEN g ELSE [h EXCEPT !.r = n]

\* The bytes read; <<-1>> for the return value -1.
readi(e, i, off, n) ==
    IF off > e.ip[i].size \/ Uint(off + n) < off
    THEN <<-1>>
    ELSE LET m == IF off + n > e.ip[i].size THEN e.ip[i].size - off ELSE n
         IN  [k \in 1..m |-> LET o == off + k - 1
                             IN  e.byte[bmap(e, i, o \div BSIZE).r][o % BSIZE]]

(***************************************************************************)
(* mkfs: files appended to a disk of zeros.  Its iappend knows direct and  *)
(* indirect blocks and takes the next block without a bitmap, which its    *)
(* balloc writes at the end.                                               *)
(***************************************************************************)
Fresh(e) == LET b == Cardinality(e.used) + 1 IN [e EXCEPT !.used = @ \cup {b}, !.r = b]
mkAddr(e, i, k) ==
    IF e.ip[i].addrs[k] # 0 THEN [e EXCEPT !.r = e.ip[i].addrs[k]]
    ELSE LET g == Fresh(e) IN [g EXCEPT !.ip[i].addrs[k] = g.r]
mkPtr(e, b, k) ==
    IF e.ptr[b][k] # 0 THEN [e EXCEPT !.r = e.ptr[b][k]]
    ELSE LET g == Fresh(e) IN [g EXCEPT !.ptr[b][k] = g.r]

\* One byte of iappend's loop, which copies up to the end of a block.
AppendByte(e, i, v) ==
    LET off == e.ip[i].size
        fbn == off \div BSIZE
        f == mkAddr(e, i, IF fbn < NDIRECT THEN fbn ELSE NDIRECT)
        g == IF fbn < NDIRECT THEN f ELSE mkPtr(f, f.r, fbn - NDIRECT)
    IN [g EXCEPT !.byte[g.r][off % BSIZE] = v, !.ip[i].size = off + 1]
iappend(e, i, bytes) == FoldLeft(LAMBDA g, v : AppendByte(g, i, v), e, bytes)

\* "fix size of root inode dir"
RoundedUp(size) == (size \div BSIZE + 1) * BSIZE

Zeroes == [used |-> {}, ptr |-> [b \in Block |-> ZeroPtr], byte |-> [b \in Block |-> ZeroByte],
           ip |-> [i \in Inode |-> NewInode], dinode |-> [i \in Inode |-> NewInode],
           live |-> {}, r |-> 0, panic |-> FALSE]

mkfs(image) ==
    LET e == FoldLeft(LAMBDA g, i : iappend(g, i, image[i]), Zeroes, [k \in DOMAIN image |-> k])
        f == IF image = <<>> THEN e ELSE [e EXCEPT !.ip[1].size = RoundedUp(@)]
    IN [f EXCEPT !.dinode = f.ip, !.live = DOMAIN image, !.r = 0]

Contents(image, i) ==
    IF i \notin DOMAIN image THEN <<>>
    ELSE IF i = 1 THEN [k \in 1..RoundedUp(Len(image[1])) |-> IF k <= Len(image[1]) THEN image[1][k] ELSE 0]
    ELSE image[i]

Init ==
    /\ job \in Jobs
    /\ \E image \in job.images :
        d = mkfs(image) /\ content = [i \in Inode |-> Contents(image, i)]
    /\ lost = {}

(***************************************************************************)
(* Transitions.  A panic stops the system where it is.                     *)
(***************************************************************************)
Apply(e) == d' = IF e.panic THEN [d EXCEPT !.panic = TRUE] ELSE [e EXCEPT !.r = 0]

\* create(): ialloc clears the on-disk inode, ilock then reads it.
ialloc(i) ==
    /\ ~d.panic
    /\ i \notin d.live
    /\ Apply([d EXCEPT !.live = @ \cup {i}, !.dinode[i] = NewInode, !.ip[i] = NewInode])
    /\ UNCHANGED <<content, lost>>

Written(old, off, n, v) ==
    [k \in 1..(IF off + n > Len(old) THEN off + n ELSE Len(old)) |->
        IF k \in off + 1..off + n THEN v ELSE IF k <= Len(old) THEN old[k] ELSE 0]

Write(i, off, n, v) ==
    /\ ~d.panic
    /\ i \in d.live
    /\ LET e == writei(d, i, off, n, v)
       IN  /\ Apply(e)
           /\ content' = IF e.panic \/ e.r = -1 THEN content
                         ELSE [content EXCEPT ![i] = Written(@, off, n, v)]
    /\ UNCHANGED lost

\* A doubly indirect block and all that is reached from it.
BelowDoubly(b) ==
    LET names(x) == {d.ptr[x][k] : k \in 0..NINDIRECT - 1} \ {0}
    IN  IF b = 0 THEN {} ELSE {b} \cup names(b) \cup UNION {names(x) : x \in names(b)}

\* iput() of the last reference to an inode without links.
Free(i) ==
    /\ ~d.panic
    /\ i \in d.live
    /\ Apply([itrunc(d, i) EXCEPT !.live = @ \ {i}])
    /\ content' = [content EXCEPT ![i] = <<>>]
    /\ lost' = lost \cup BelowDoubly(d.ip[i].addrs[NDIRECT + 1])

\* A panic ends every behaviour.
Halted == d.panic /\ UNCHANGED <<d, content, lost>>

Step ==
    \/ \E i \in job.inodes : ialloc(i) \/ Free(i)
    \/ \E i \in job.inodes, off \in 0..MAXFILE * BSIZE, n \in Count, v \in job.vals : Write(i, off, n, v)
    \/ Halted

Next == Step /\ UNCHANGED job

Spec == Init /\ [][Next]_vars

-----------------------------------------------------------------------------
(***************************************************************************)
(* Properties.                                                             *)
(***************************************************************************)
Addr == Block \cup {0}
DInode == [addrs : [0..NDIRECT + 1 -> Addr], size : 0..MAXFILE * BSIZE]

\* Every address is 0 or a data block and no file is longer than MAXFILE
\* blocks: what balloc returns and writei checks before it writes.
TypeOK ==
    /\ d.used \subseteq Block
    /\ d.ptr \in [Block -> [0..NINDIRECT - 1 -> Addr]]
    /\ d.byte \in [Block -> [0..BSIZE - 1 -> Val \cup {0}]]
    /\ d.ip \in [Inode -> DInode] /\ d.dinode \in [Inode -> DInode]
    /\ d.live \subseteq Inode /\ d.panic \in BOOLEAN

\* The blocks named by the inode, its indirect block and its doubly indirect
\* block, each with the place that names it (0 for the inode).
FromInode(a) == {<<0, k, a.addrs[k]>> : k \in 0..NDIRECT + 1}
FromBlock(b) == IF b = 0 THEN {} ELSE {<<b, k, d.ptr[b][k]>> : k \in 0..NINDIRECT - 1}
Named(a) ==
    LET second == FromBlock(a.addrs[NDIRECT + 1])
    IN  FromInode(a) \cup FromBlock(a.addrs[NDIRECT]) \cup second
            \cup UNION {FromBlock(t[3]) : t \in second}
Places == UNION {{<<i, t>> : t \in {u \in Named(d.dinode[i]) : u[3] # 0}} : i \in d.live}

\* No block plays two parts: whatever sequence of writes, removals and
\* creations ran, a block that some inode on disk reaches is marked in use by
\* balloc and is reached through exactly one address.  The inode on disk,
\* which is all that is left once the cache entry is recycled, is the cached
\* one.  Nothing else is in use but what itrunc, which never looks at the
\* doubly indirect address, leaves of a removed file; that is never reached
\* again.
NoBlockShared ==
    /\ TypeOK
    /\ d.used = {r[2][3] : r \in Places} \cup lost
    /\ \A r \in Places : r[2][3] \notin lost
    /\ \A r, s \in Places : r[2][3] = s[2][3] => r = s
    /\ \A i \in d.live : d.dinode[i] = d.ip[i]

\* readi returns what was written last at each offset, through all three
\* levels of bmap, and returns -1 exactly for a start beyond the end of the
\* file or a range that wraps around.  It runs without a transaction, so its
\* calls of bmap must never allocate: each block below the end is mapped.
ReadsBack ==
    /\ \A i \in d.live, off \in 0..MAXFILE * BSIZE, n \in Count :
        readi(d, i, off, n) =
            IF off > Len(content[i]) \/ off + n >= 2 ^ Width
            THEN <<-1>>
            ELSE SubSeq(content[i], off + 1,
                        IF off + n > Len(content[i]) THEN Len(content[i]) ELSE off + n)
    /\ \A i \in d.live, k \in 0..MAXFILE - 1 :
        k * BSIZE < d.ip[i].size => bmap(d, i, k) = [d EXCEPT !.r = bmap(d, i, k).r]
=============================================================================
