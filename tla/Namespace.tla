----------------------------- MODULE Namespace ------------------------------
(***************************************************************************)
(* The inode cache and the directory tree: iget, ilock, iput, ialloc,      *)
(* dirlookup, dirlink and namex of fs.c, and the system calls that change  *)
(* the tree (open, create, mkdir, mknod, link, unlink, chdir, close and    *)
(* exit) in sysfile.c, by processes that interleave wherever the code      *)
(* takes an inode lock, drops a reference or waits for the log.            *)
(*                                                                         *)
(* ilock, iput and namex are subroutines: a process keeps where to go on   *)
(* in k (after ilock or iput) and in ret (after namex).  File contents are *)
(* left to Blocks, commits and crashes to Log.                             *)
(***************************************************************************)
EXTENDS Integers, Sequences, FiniteSets, FiniteSetsExt

CONSTANTS
    Proc, initproc,
    NINUM,    \* inodes on disk; 1 is the root
    NINODE,   \* entries of the inode cache
    Name,     \* names other than "." and ".."
    Workloads,  \* sets of system calls, see calls
    None

Inum == 1..NINUM
ROOTINO == 1
NoInode == 0

ASSUME NamespaceAssumption == NINUM \in Nat \ {0} /\ NINODE \in Nat /\ ".." \notin Name
                              /\ None \notin Proc /\ initproc \in Proc

VARIABLES
    dinode,   \* the inodes on disk: type (0 when free) and nlink
    ent,      \* directory contents: the inode each name leads to, or NoInode
    cache,    \* icache: ref, busy (the process that set I_BUSY), valid, type, nlink
    trans,    \* the process between begin_trans and commit_trans, or None
    cwd,      \* proc->cwd
    file,     \* an open file's inode, or NoInode
    st,       \* where each process is, and its local variables
    panic,    \* what the kernel has panicked with, or None
    strayed,  \* history: a process has made an entry in a directory that has
              \* been removed, or has gone from one to its parent
    calls     \* one of Workloads, the same throughout a behaviour: the system
              \* calls that processes make

vars == <<dinode, ent, cache, trans, cwd, file, st, panic, strayed, calls>>

NoEntry == [n \in Name \cup {".."} |-> NoInode]
NoCall == [op |-> "none", root |-> TRUE, path |-> <<>>, new |-> <<>>]
User == [pc |-> "user", call |-> NoCall, path |-> <<>>, par |-> FALSE, w |-> NoInode, name |-> "",
         ret |-> "", lk |-> NoInode, put |-> NoInode, k |-> "", ip |-> NoInode, dp |-> NoInode]

\* mkfs makes the root; every process starts there.
Init ==
    /\ calls \in Workloads
    /\ dinode = [i \in Inum |-> [type |-> IF i = ROOTINO THEN "dir" ELSE "free",
                                 nlink |-> IF i = ROOTINO THEN 1 ELSE 0]]
    /\ ent = [i \in Inum |-> IF i = ROOTINO THEN [NoEntry EXCEPT ![".."] = ROOTINO] ELSE NoEntry]
    /\ cache = [i \in Inum |-> [ref |-> IF i = ROOTINO THEN Cardinality(Proc) ELSE 0,
                                busy |-> None, valid |-> FALSE, type |-> "free", nlink |-> 0]]
    /\ trans = None
    /\ cwd = [p \in Proc |-> ROOTINO] /\ file = [p \in Proc |-> NoInode]
    /\ st = [p \in Proc |-> User]
    /\ panic = None /\ strayed = FALSE

\* Definitions named F_... are faulty variants of the definition that follows
\* them; each shows that some property below can tell the code from a
\* plausible bug.  They are not part of the specification.

(***************************************************************************)
(* The inode cache c.                                                      *)
(***************************************************************************)
CacheFull(i) == cache[i].ref = 0 /\ Cardinality({j \in Inum : cache[j].ref > 0}) >= NINODE

Iget(c, i) ==
    IF c[i].ref > 0
    THEN [c EXCEPT ![i].ref = @ + 1]
    ELSE [c EXCEPT ![i] = [ref |-> 1, busy |-> None, valid |-> FALSE, type |-> "free", nlink |-> 0]]

F_Unlock(c, i) == c
Unlock(c, i) == [c EXCEPT ![i].busy = None]

Loaded(p, i) ==
    IF cache[i].valid
    THEN [cache EXCEPT ![i].busy = p]
    ELSE [cache EXCEPT ![i].busy = p, ![i].valid = TRUE,
                       ![i].type = dinode[i].type, ![i].nlink = dinode[i].nlink]

\* iupdate: the inode on disk takes the type and nlink of the cached one.
Iupdate(dn, c, i) == [dn EXCEPT ![i] = [type |-> c[i].type, nlink |-> c[i].nlink]]

(***************************************************************************)
(* Control.                                                                *)
(***************************************************************************)
At(p, l) == panic = None /\ st[p].pc = l
Goto(p, l) == st' = [st EXCEPT ![p].pc = l]
GoUser(p) == st' = [st EXCEPT ![p] = User]
Lock(p, s, i, k) == st' = [st EXCEPT ![p] = [s EXCEPT !.pc = "ilock", !.lk = i, !.k = k]]
Put(p, s, i, k) == st' = [st EXCEPT ![p] = [s EXCEPT !.pc = "iput", !.put = i, !.k = k]]
Resume(p) == st' = [st EXCEPT ![p].pc = st[p].k, ![p].k = "", ![p].lk = NoInode, ![p].put = NoInode]
Panics(why) == panic' = why /\ UNCHANGED <<dinode, ent, cache, trans, cwd, file, st, strayed>>
Disk == <<dinode, ent>>
Mine == <<trans, cwd, file, panic, strayed>>

\* A directory that unlink has removed and that a process still refers to.
Removed(i) == cache[i].nlink = 0

ilock(p) ==
    LET i == st[p].lk IN
    /\ At(p, "ilock")
    /\ cache[i].busy = None
    /\ IF ~cache[i].valid /\ dinode[i].type = "free"
       THEN Panics("ilock: no type")
       ELSE cache' = Loaded(p, i) /\ Resume(p) /\ UNCHANGED <<Disk, Mine>>

LastPut(i) == cache[i].ref = 1 /\ cache[i].valid /\ cache[i].nlink = 0

iput(p) ==
    LET i == st[p].put IN
    /\ At(p, "iput")
    /\ IF LastPut(i)
       THEN IF cache[i].busy # None
            THEN Panics("iput busy")
            ELSE /\ cache' = [cache EXCEPT ![i].busy = p]
                 /\ Goto(p, "itrunc") /\ UNCHANGED <<Disk, Mine>>
       ELSE /\ cache' = [cache EXCEPT ![i].ref = @ - 1]
            /\ Resume(p) /\ UNCHANGED <<Disk, Mine>>

F_Forget(c, i) == [c EXCEPT ![i].busy = None, ![i].valid = FALSE]
Forget(c, i) == [c EXCEPT ![i].busy = None, ![i].valid = FALSE, ![i].ref = @ - 1]

\* itrunc, type = 0, iupdate: log_write panics outside of a transaction.
iputFree(p) ==
    LET i == st[p].put IN
    /\ At(p, "itrunc")
    /\ IF trans = None
       THEN Panics("write outside of trans")
       ELSE /\ cache' = Forget([cache EXCEPT ![i].type = "free"], i)
            /\ dinode' = [dinode EXCEPT ![i] = [type |-> "free", nlink |-> cache[i].nlink]]
            /\ ent' = [ent EXCEPT ![i] = NoEntry]
            /\ Resume(p) /\ UNCHANGED Mine

(***************************************************************************)
(* namex: w is the inode reached, path the elements left.  ip and dp take  *)
(* the result, NoInode for failure, at the label ret.                      *)
(***************************************************************************)
Namex(p, s, c, root, path, par, ret) ==
    LET w == IF root THEN ROOTINO ELSE cwd[p] IN
    /\ cache' = Iget(c, w)
    /\ st' = [st EXCEPT ![p] = [s EXCEPT !.pc = "namex", !.path = path, !.par = par, !.w = w, !.ret = ret]]

\* What dirlookup finds under a name; the callers take the reference of its iget.
dirlookup(dp, name) == ent[dp][name]

\* What namex leaves for namei or nameiparent to return.
NamexDone(s, w) == [s EXCEPT !.pc = s.ret, !.w = w, !.path = <<>>, !.par = FALSE, !.ret = ""]

NamexLoop(p) ==
    LET s == st[p] IN
    /\ At(p, "namex")
    /\ IF s.path # <<>>
       THEN Lock(p, s, s.w, "walk")
       ELSE IF s.par THEN Put(p, NamexDone(s, NoInode), s.w, s.ret)
       ELSE st' = [st EXCEPT ![p] = NamexDone(s, s.w)]
    /\ UNCHANGED <<Disk, cache, Mine>>

NamexWalk(p) ==
    LET s == st[p]
        next == dirlookup(s.w, Head(s.path))
        fail == cache[s.w].type # "dir" \/ (next = NoInode /\ ~(s.par /\ Len(s.path) = 1))
        stop == cache[s.w].type = "dir" /\ s.par /\ Len(s.path) = 1
    IN
    /\ At(p, "walk")
    /\ \/ /\ fail
          /\ cache' = Unlock(cache, s.w)
          /\ Put(p, NamexDone(s, NoInode), s.w, s.ret)
          /\ UNCHANGED <<Disk, Mine>>
       \/ /\ stop
          /\ cache' = Unlock(cache, s.w)
          /\ st' = [st EXCEPT ![p] = [NamexDone(s, s.w) EXCEPT !.name = Head(s.path)]]
          /\ UNCHANGED <<Disk, Mine>>
       \/ /\ ~fail /\ ~stop
          /\ IF CacheFull(next)
             THEN Panics("iget: no inodes")
             ELSE /\ cache' = Unlock(Iget(cache, next), s.w)
                  /\ Put(p, [s EXCEPT !.w = next, !.path = Tail(@)], s.w, "namex")
                  /\ strayed' = (strayed \/ (Head(s.path) = ".." /\ Removed(s.w)))
                  /\ UNCHANGED <<Disk, trans, cwd, file, panic>>

(***************************************************************************)
(* System calls.                                                           *)
(***************************************************************************)
Creates == [create |-> "file", mkdir |-> "dir", mknod |-> "dev"]

Call(p, c) ==
    LET s == [User EXCEPT !.call = c] IN
    /\ At(p, "user")
    /\ c.op = "close" => file[p] # NoInode
    /\ c.op \in {"open", "create", "exit"} => file[p] = NoInode
    /\ c.op = "exit" => p # initproc
    /\ IF c.op \in DOMAIN Creates \cup {"close"}
       THEN st' = [st EXCEPT ![p] = [s EXCEPT !.pc = "begin"]] /\ UNCHANGED cache
       ELSE IF c.op = "exit"
       THEN Put(p, s, cwd[p], "dead") /\ UNCHANGED cache
       ELSE Namex(p, s, cache, c.root, c.path, c.op = "unlink", c.op)
    /\ UNCHANGED <<Disk, Mine>>

\* begin_trans, and what each call does next.
Begin(p) ==
    LET s == st[p] IN
    /\ At(p, "begin")
    /\ trans = None
    /\ trans' = p
    /\ \/ s.call.op \in DOMAIN Creates /\ Namex(p, s, cache, s.call.root, s.call.path, TRUE, "create")
       \/ s.call.op = "unlink" /\ Lock(p, s, s.dp, "unlink_dp") /\ UNCHANGED cache
       \/ s.call.op = "link" /\ Lock(p, s, s.ip, "link_ip") /\ UNCHANGED cache
       \/ s.call.op = "close" /\ Put(p, s, file[p], "commit") /\ UNCHANGED cache
    /\ file' = IF s.call.op = "close" THEN [file EXCEPT ![p] = NoInode] ELSE file
    /\ UNCHANGED <<Disk, cwd, panic, strayed>>

commit(p) ==
    /\ At(p, "commit")
    /\ trans' = None
    /\ GoUser(p)
    /\ UNCHANGED <<Disk, cache, cwd, file, panic, strayed>>

\* unlink: nameiparent has returned.
UnlinkParent(p) ==
    /\ At(p, "unlink")
    /\ IF st[p].w = NoInode THEN GoUser(p)
       ELSE st' = [st EXCEPT ![p].pc = "begin", ![p].dp = st[p].w, ![p].w = NoInode]
    /\ UNCHANGED <<Disk, cache, Mine>>

UnlinkLookup(p) ==
    LET s == st[p]
        i == dirlookup(s.dp, s.name)
    IN
    /\ At(p, "unlink_dp")
    /\ IF s.name = ".." \/ i = NoInode
       THEN cache' = Unlock(cache, s.dp) /\ Put(p, [s EXCEPT !.dp = NoInode], s.dp, "commit") /\ UNCHANGED <<Disk, Mine>>
       ELSE IF CacheFull(i)
       THEN Panics("iget: no inodes")
       ELSE cache' = Iget(cache, i) /\ Lock(p, [s EXCEPT !.ip = i], i, "unlink_ip") /\ UNCHANGED <<Disk, Mine>>

F_isdirempty(i) == TRUE
isdirempty(i) == \A n \in Name : ent[i][n] = NoInode

DropsParent(c, dp, ip) == IF c[ip].type = "dir" THEN [c EXCEPT ![dp].nlink = @ - 1] ELSE c

UnlinkEntry(p) ==
    LET s == st[p]
        c == DropsParent(cache, s.dp, s.ip)
    IN
    /\ At(p, "unlink_ip")
    /\ IF cache[s.ip].nlink < 1
       THEN Panics("unlink: nlink < 1")
       ELSE IF cache[s.ip].type = "dir" /\ ~isdirempty(s.ip)
       THEN cache' = Unlock(cache, s.ip) /\ Put(p, [s EXCEPT !.ip = NoInode], s.ip, "unlink_bad") /\ UNCHANGED <<Disk, Mine>>
       ELSE /\ ent' = [ent EXCEPT ![s.dp][s.name] = NoInode]
            /\ dinode' = IF cache[s.ip].type = "dir" THEN Iupdate(dinode, c, s.dp) ELSE dinode
            /\ cache' = Unlock(c, s.dp)
            /\ Put(p, [s EXCEPT !.dp = NoInode], s.dp, "unlink_drop")
            /\ UNCHANGED Mine

UnlinkBad(p) ==
    /\ At(p, "unlink_bad")
    /\ cache' = Unlock(cache, st[p].dp)
    /\ Put(p, [st[p] EXCEPT !.dp = NoInode], st[p].dp, "commit")
    /\ UNCHANGED <<Disk, Mine>>

\* ip->nlink--, iupdate, iunlockput.  Also the end of a link that failed.
DropLink(p) ==
    LET i == st[p].ip
        c == [cache EXCEPT ![i].nlink = @ - 1]
    IN
    /\ At(p, "unlink_drop")
    /\ dinode' = Iupdate(dinode, c, i)
    /\ cache' = Unlock(c, i)
    /\ Put(p, [st[p] EXCEPT !.ip = NoInode], i, "commit")
    /\ UNCHANGED <<ent, Mine>>

\* link: namei(old) has returned, outside of the transaction.
LinkOld(p) ==
    /\ At(p, "link")
    /\ IF st[p].w = NoInode THEN GoUser(p)
       ELSE st' = [st EXCEPT ![p].pc = "begin", ![p].ip = st[p].w, ![p].w = NoInode]
    /\ UNCHANGED <<Disk, cache, Mine>>

Counted(c, i) == [c EXCEPT ![i].nlink = @ + 1]

LinkCount(p) ==
    LET s == st[p]
        c == Counted(cache, s.ip)
    IN
    /\ At(p, "link_ip")
    /\ IF cache[s.ip].type = "dir"
       THEN /\ cache' = Unlock(cache, s.ip)
            /\ Put(p, [s EXCEPT !.ip = NoInode], s.ip, "commit")
            /\ UNCHANGED dinode
       ELSE /\ dinode' = Iupdate(dinode, c, s.ip)
            /\ Namex(p, s, Unlock(c, s.ip), s.call.root, s.call.new, TRUE, "link_new")
    /\ UNCHANGED <<ent, Mine>>

LinkNew(p) ==
    LET s == st[p] IN
    /\ At(p, "link_new")
    /\ IF s.w = NoInode
       THEN Lock(p, s, s.ip, "unlink_drop")
       ELSE Lock(p, [s EXCEPT !.dp = s.w, !.w = NoInode], s.w, "link_dp")
    /\ UNCHANGED <<Disk, cache, Mine>>

\* dirlink(dp, name, ip->inum), which fails when the name is present.
LinkEntry(p) ==
    LET s == st[p] IN
    /\ At(p, "link_dp")
    /\ cache' = Unlock(cache, s.dp)
    /\ IF dirlookup(s.dp, s.name) # NoInode
       THEN Put(p, [s EXCEPT !.dp = NoInode], s.dp, "link_bad") /\ UNCHANGED <<ent, strayed>>
       ELSE /\ ent' = [ent EXCEPT ![s.dp][s.name] = s.ip]
            /\ Put(p, [s EXCEPT !.dp = NoInode], s.dp, "put_ip")
            /\ strayed' = (strayed \/ Removed(s.dp))
    /\ UNCHANGED <<dinode, trans, cwd, file, panic>>

\* The link count is taken back, under the inode's lock.
LinkBad(p) ==
    /\ At(p, "link_bad")
    /\ Lock(p, st[p], st[p].ip, "unlink_drop")
    /\ UNCHANGED <<Disk, cache, Mine>>

PutIp(p) ==
    /\ At(p, "put_ip")
    /\ Put(p, [st[p] EXCEPT !.ip = NoInode], st[p].ip, IF trans = p THEN "commit" ELSE "return")
    /\ UNCHANGED <<Disk, cache, Mine>>

Return(p) ==
    /\ At(p, "return")
    /\ GoUser(p)
    /\ UNCHANGED <<Disk, cache, Mine>>

\* create: nameiparent has returned, inside the transaction.
CreateParent(p) ==
    LET s == st[p] IN
    /\ At(p, "create")
    /\ IF s.w = NoInode THEN Goto(p, "commit")
       ELSE Lock(p, [s EXCEPT !.dp = s.w, !.w = NoInode], s.w, "create_dp")
    /\ UNCHANGED <<Disk, cache, Mine>>

CreateLookup(p) ==
    LET s == st[p]
        i == dirlookup(s.dp, s.name)
        free == {j \in Inum : dinode[j].type = "free"}
        new == Min(free)
    IN
    /\ At(p, "create_dp")
    /\ IF i # NoInode
       THEN IF CacheFull(i) THEN Panics("iget: no inodes")
            ELSE /\ cache' = Unlock(Iget(cache, i), s.dp)
                 /\ Put(p, [s EXCEPT !.ip = i, !.dp = NoInode], s.dp, "create_old")
                 /\ UNCHANGED <<Disk, Mine>>
       ELSE IF free = {} THEN Panics("ialloc: no inodes")
       ELSE IF CacheFull(new) THEN Panics("iget: no inodes")
       ELSE /\ dinode' = [dinode EXCEPT ![new] = [type |-> Creates[s.call.op], nlink |-> 0]]
            /\ cache' = Iget(cache, new)
            /\ Lock(p, [s EXCEPT !.ip = new], new, "create_ip")
            /\ UNCHANGED <<ent, Mine>>

CreateOld(p) ==
    /\ At(p, "create_old")
    /\ Lock(p, st[p], st[p].ip, "create_found")
    /\ UNCHANGED <<Disk, cache, Mine>>

CreateFound(p) ==
    LET s == st[p] IN
    /\ At(p, "create_found")
    /\ IF s.call.op = "create" /\ cache[s.ip].type = "file"
       THEN Goto(p, "created") /\ UNCHANGED cache
       ELSE cache' = Unlock(cache, s.ip) /\ Put(p, [s EXCEPT !.ip = NoInode], s.ip, "commit")
    /\ UNCHANGED <<Disk, Mine>>

Dots(c, dp, ip) == IF c[ip].type = "dir" THEN [c EXCEPT ![dp].nlink = @ + 1] ELSE c

\* nlink = 1, iupdate, "." and "..", dirlink, iunlockput(dp).
CreateEntry(p) ==
    LET s == st[p]
        c == Dots([cache EXCEPT ![s.ip].nlink = 1], s.dp, s.ip)
        dots == IF cache[s.ip].type = "dir" THEN [ent EXCEPT ![s.ip][".."] = s.dp] ELSE ent
    IN
    /\ At(p, "create_ip")
    /\ dinode' = LET dn == Iupdate(dinode, c, s.ip)
                 IN  IF cache[s.ip].type = "dir" THEN Iupdate(dn, c, s.dp) ELSE dn
    /\ ent' = [dots EXCEPT ![s.dp][s.name] = s.ip]
    /\ cache' = Unlock(c, s.dp)
    /\ Put(p, [s EXCEPT !.dp = NoInode], s.dp, "created")
    /\ strayed' = (strayed \/ Removed(s.dp))
    /\ UNCHANGED <<trans, cwd, file, panic>>

\* create has returned ip, locked.  open commits with the inode still locked.
Created(p) ==
    LET s == st[p] IN
    /\ At(p, "created")
    /\ IF s.call.op = "create"
       THEN trans' = None /\ Goto(p, "opened") /\ UNCHANGED cache
       ELSE /\ cache' = Unlock(cache, s.ip)
            /\ Put(p, [s EXCEPT !.ip = NoInode], s.ip, "commit")
            /\ UNCHANGED trans
    /\ UNCHANGED <<Disk, cwd, file, panic, strayed>>

\* open without O_CREATE, and chdir: namei has returned.
NameiDone(p) ==
    LET s == st[p] IN
    /\ At(p, "open") \/ At(p, "chdir")
    /\ IF s.w = NoInode THEN GoUser(p)
       ELSE Lock(p, [s EXCEPT !.ip = s.w, !.w = NoInode], s.w, s.call.op \o "_ip")
    /\ UNCHANGED <<Disk, cache, Mine>>

UnlockPut(p) == cache' = Unlock(cache, st[p].ip) /\ Goto(p, "put_ip")

OpenMode(p, rdonly) ==
    /\ At(p, "open_ip")
    /\ IF cache[st[p].ip].type = "dir" /\ ~rdonly
       THEN UnlockPut(p)
       ELSE Goto(p, "opened") /\ UNCHANGED cache
    /\ UNCHANGED <<Disk, Mine>>

\* The file structure and descriptor are found, or not.
OpenFile(p, found) ==
    /\ At(p, "opened")
    /\ IF found
       THEN /\ cache' = Unlock(cache, st[p].ip)
            /\ file' = [file EXCEPT ![p] = st[p].ip]
            /\ GoUser(p)
       ELSE UnlockPut(p) /\ UNCHANGED file
    /\ UNCHANGED <<Disk, trans, cwd, panic, strayed>>

ChdirType(p) ==
    LET s == st[p] IN
    /\ At(p, "chdir_ip")
    /\ IF cache[s.ip].type # "dir"
       THEN UnlockPut(p)
       ELSE cache' = Unlock(cache, s.ip) /\ Put(p, s, cwd[p], "chdir_done")
    /\ UNCHANGED <<Disk, Mine>>

ChdirDone(p) ==
    /\ At(p, "chdir_done")
    /\ cwd' = [cwd EXCEPT ![p] = st[p].ip]
    /\ GoUser(p)
    /\ UNCHANGED <<Disk, cache, trans, file, panic, strayed>>

Exited(p) ==
    /\ At(p, "dead")
    /\ cwd' = [cwd EXCEPT ![p] = NoInode]
    /\ st' = [st EXCEPT ![p] = [User EXCEPT !.pc = "zombie"]]
    /\ UNCHANGED <<Disk, cache, trans, file, panic, strayed>>

idup(c, i) == [c EXCEPT ![i].ref = @ + 1]

\* fork: the child of a process without open files (FileTable has those).
Fork(p, q) ==
    /\ At(p, "user") /\ At(q, "zombie") /\ file[p] = NoInode
    /\ cache' = idup(cache, cwd[p])
    /\ cwd' = [cwd EXCEPT ![q] = cwd[p]]
    /\ st' = [st EXCEPT ![q] = User]
    /\ UNCHANGED <<Disk, trans, file, panic, strayed>>

Halted == panic # None /\ UNCHANGED <<dinode, ent, cache, trans, cwd, file, st, panic, strayed>>

Step(p) ==
    \/ \E c \in calls : Call(p, c)
    \/ ilock(p) \/ iput(p) \/ iputFree(p) \/ NamexLoop(p) \/ NamexWalk(p) \/ Begin(p) \/ commit(p)
    \/ UnlinkParent(p) \/ UnlinkLookup(p) \/ UnlinkEntry(p) \/ UnlinkBad(p) \/ DropLink(p)
    \/ LinkOld(p) \/ LinkCount(p) \/ LinkNew(p) \/ LinkEntry(p) \/ LinkBad(p) \/ PutIp(p) \/ Return(p)
    \/ CreateParent(p) \/ CreateLookup(p) \/ CreateOld(p) \/ CreateFound(p) \/ CreateEntry(p)
    \/ Created(p) \/ NameiDone(p) \/ ChdirType(p) \/ ChdirDone(p) \/ Exited(p)
    \/ \E b \in BOOLEAN : OpenMode(p, b) \/ OpenFile(p, b)
    \/ \E q \in Proc : Fork(p, q)

Next == ((\E p \in Proc : Step(p)) \/ Halted) /\ UNCHANGED calls

Spec == Init /\ [][Next]_vars

-----------------------------------------------------------------------------
(***************************************************************************)
(* Properties.                                                             *)
(***************************************************************************)
Type == {"free", "file", "dir", "dev"}

\* The variables keep their types; a process is inside the log's transaction
\* only while it is in a system call.
TypeOK ==
    /\ dinode \in [Inum -> [type : Type, nlink : Nat]]
    /\ ent \in [Inum -> [Name \cup {".."} -> Inum \cup {NoInode}]]
    /\ cache \in [Inum -> [ref : Nat, busy : Proc \cup {None}, valid : BOOLEAN, type : Type, nlink : Nat]]
    /\ trans \in Proc \cup {None} /\ (trans # None => st[trans].pc # "user")
    /\ cwd \in [Proc -> Inum \cup {NoInode}] /\ file \in [Proc -> Inum \cup {NoInode}]

\* ip->ref is the number of pointers to the inode that processes hold, in
\* cwd, in files and in the local variables of calls in progress: none is
\* dropped twice and none forgotten on any error path.  An unlocked valid cache
\* entry agrees with the inode on disk: what iget finds there is never left
\* from an earlier use of the inode number.
Putting(p) == st[p].pc \in {"iput", "itrunc"}
Pointers(p) ==
    {<<"cwd", IF (Putting(p) /\ st[p].k \in {"chdir_done", "dead"}) \/ st[p].pc \in {"chdir_done", "dead"}
              THEN NoInode ELSE cwd[p]>>,
     <<"file", file[p]>>, <<"w", st[p].w>>, <<"ip", st[p].ip>>, <<"dp", st[p].dp>>,
     <<"put", IF Putting(p) THEN st[p].put ELSE NoInode>>}
RefsCounted ==
    /\ TypeOK
    /\ \A i \in Inum : cache[i].ref = Cardinality({r \in UNION {{<<p, x>> : x \in Pointers(p)} : p \in Proc} : r[2][2] = i})
    /\ \A i \in Inum : cache[i].ref > 0 /\ cache[i].valid /\ cache[i].busy = None =>
        cache[i].type = dinode[i].type /\ cache[i].nlink = dinode[i].nlink

\* Between transactions each inode's link count is the number of directory
\* entries that lead to it, ".." included for directories that still have a
\* name, each entry leads to an allocated inode, and an inode that no name
\* leads to and that no process refers to has been freed by iput.  The
\* consistency checks in iput, unlink and ilock do not fail.  All this holds
\* as long as no process goes on to use a directory that has been removed,
\* which the code does not refuse: ".." in it may lead to a free inode, on
\* which ilock panics, and what is created in it is never freed.
HasName(i) == dinode[i].type = "dir" /\ dinode[i].nlink > 0
Links(i) == Cardinality({<<j, n>> \in Inum \X (Name \cup {".."}) : ent[j][n] = i /\ (n = ".." => HasName(j))})
TreeConsistent == strayed \/
    /\ panic \in {None, "write outside of trans", "iget: no inodes", "ialloc: no inodes"}
    /\ trans = None => \A i \in Inum :
        /\ dinode[i].nlink = (IF dinode[i].type = "free" THEN 0 ELSE Links(i))
        /\ dinode[i].type # "free" /\ dinode[i].nlink = 0 => cache[i].ref > 0

\* The comment at the top of log.c says that each system call that might
\* write the file system should be surrounded with begin_trans() and
\* commit_trans(): log_write never finds the log without a transaction.
WritesInTransaction == panic # "write outside of trans"

\* Processes never wait for each other in a circle, or for themselves: locks
\* of a directory and of a file in it and the log's transaction are taken in
\* orders that agree, and every path lets go of what it has locked.
WaitsFor(p) ==
    CASE st[p].pc = "ilock" -> cache[st[p].lk].busy
      [] st[p].pc = "begin" -> trans
      [] OTHER -> None
NoDeadlock == \A S \in SUBSET Proc \ {{}} : \E p \in S : WaitsFor(p) \notin S
=============================================================================
