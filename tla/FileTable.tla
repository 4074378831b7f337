----------------------------- MODULE FileTable -----------------------------
(***************************************************************************)
(* Open files: file.c's reference-counted ftable and the descriptor tables *)
(* of the processes, with the system calls that allocate, share and drop   *)
(* files: open, dup, close, pipe, and the file halves of fork and exit.    *)
(*                                                                         *)
(* One step is one critical section of ftable.lock, or what a process does *)
(* on its own between two of them.  A file's type and its pipe, writable   *)
(* and ip fields are one value, obj: a pipe's end or an inode.             *)
(***************************************************************************)
EXTENDS Integers, FiniteSets, FiniteSetsExt, Sequences

CONSTANTS
    Proc,      \* process slots
    initproc,  \* the first process, which does not exit
    Pipe,      \* pages that can become pipes
    Inode,     \* files that can be opened
    NFILE, NOFILE,
    None

File == 1..NFILE
Fd == 1..NOFILE
Obj == ({"r", "w"} \X Pipe) \cup ({"ip"} \X Inode)

ASSUME FileTableAssumption ==
    initproc \in Proc /\ NFILE \in Nat /\ NOFILE \in Nat /\ None \notin File \cup Obj \cup Proc \cup Fd

VARIABLES
    ref, obj,  \* f->ref; f->type with the object it tells of, None for FD_NONE
    ofile,     \* proc->ofile
    ends,      \* the open ends of each pipe; none: the page is free
    iref,      \* references to each inode held by files and system calls
    pc,        \* where each process is; "none" for a free slot
    f,         \* the file that dup has yet to take a reference to
    ip,        \* the inode an open holds
    todo,      \* the files a call has allocated or still has to fileclose, in order
    ff,        \* fileclose's copy of a file whose last reference is gone
    fd,        \* the descriptor exit is closing
    child,     \* fork's np
    panicked

table == <<ref, obj>>
locals == <<f, ip, todo, ff, fd, child>>
vars == <<table, ofile, ends, iref, pc, locals, panicked>>

Init ==
    /\ ref = [x \in File |-> 0] /\ obj = [x \in File |-> None]
    /\ ofile = [p \in Proc |-> [d \in Fd |-> None]]
    /\ ends = [k \in Pipe |-> {}] /\ iref = [i \in Inode |-> 0]
    /\ pc = [p \in Proc |-> IF p = initproc THEN "user" ELSE "none"]
    /\ f = [p \in Proc |-> None] /\ ip = [p \in Proc |-> None]
    /\ todo = [p \in Proc |-> <<>>] /\ ff = [p \in Proc |-> None]
    /\ fd = [p \in Proc |-> None] /\ child = [p \in Proc |-> None]
    /\ panicked = FALSE

\* Definitions named F_... are faulty variants of the definition that follows
\* them; each shows that some property below can tell the code from a
\* plausible bug.  They are not part of the specification.

At(p, l) == ~panicked /\ pc[p] = l
Goto(p, l) == pc' = [pc EXCEPT ![p] = l]

(***************************************************************************)
(* filealloc, fdalloc, filedup and fileclose.                              *)
(***************************************************************************)
FreeFiles == {x \in File : ref[x] = 0}

FreeFds(p) == {d \in Fd : ofile[p][d] = None}

\* Close the files of s in turn, then go on at l.  The label remembers l.
CloseAll(p, s, l) == todo' = [todo EXCEPT ![p] = s] /\ Goto(p, l)

Closing(p) == pc[p] \in {"close", "bad", "exiting"} /\ ff[p] = None /\ todo[p] # <<>>

Emptied(x) == [obj EXCEPT ![x] = None]

IsLast(x) == ref[x] = 1

FileClose(p) ==
    /\ ~panicked /\ Closing(p)
    /\ LET x == Head(todo[p])
       IN  IF ref[x] < 1
           THEN panicked' = TRUE /\ UNCHANGED <<table, todo, ff>>
           ELSE /\ ref' = [ref EXCEPT ![x] = IF IsLast(x) THEN 0 ELSE @ - 1]
                /\ obj' = IF IsLast(x) THEN Emptied(x) ELSE obj
                /\ ff' = IF IsLast(x) THEN [ff EXCEPT ![p] = obj[x]] ELSE ff
                /\ todo' = [todo EXCEPT ![p] = Tail(@)]
                /\ UNCHANGED panicked
    /\ UNCHANGED <<ofile, ends, iref, pc, f, ip, fd, child>>

\* After ftable.lock is released: pipeclose, or iput in a transaction.
CloseObject(p) ==
    /\ ~panicked /\ ff[p] # None
    /\ \/ /\ ff[p][1] \in {"r", "w"}
          /\ ends' = [ends EXCEPT ![ff[p][2]] = @ \ {ff[p][1]}]
          /\ UNCHANGED iref
       \/ /\ ff[p][1] = "ip"
          /\ iref' = [iref EXCEPT ![ff[p][2]] = @ - 1]
          /\ UNCHANGED ends
    /\ ff' = [ff EXCEPT ![p] = None]
    /\ UNCHANGED <<table, ofile, pc, f, ip, todo, fd, child, panicked>>

Closed(p) == ff[p] = None /\ todo[p] = <<>>

(***************************************************************************)
(* close and dup.                                                          *)
(***************************************************************************)
SysClose(p) ==
    /\ At(p, "user")
    /\ \E d \in Fd : /\ ofile[p][d] # None
                     /\ CloseAll(p, <<ofile[p][d]>>, "close")
                     /\ ofile' = [ofile EXCEPT ![p][d] = None]
    /\ UNCHANGED <<table, ends, iref, f, ip, ff, fd, child, panicked>>

CloseReturn(p) ==
    /\ At(p, "close") /\ Closed(p)
    /\ Goto(p, "user")
    /\ UNCHANGED <<table, ofile, ends, iref, locals, panicked>>

\* sys_dup: the new descriptor first, then the reference.
SysDup(p) ==
    /\ At(p, "user") /\ FreeFds(p) # {}
    /\ \E d \in Fd : /\ ofile[p][d] # None
                     /\ f' = [f EXCEPT ![p] = ofile[p][d]]
                     /\ ofile' = [ofile EXCEPT ![p][Min(FreeFds(p))] = ofile[p][d]]
    /\ Goto(p, "dup")
    /\ UNCHANGED <<table, ends, iref, ip, todo, ff, fd, child, panicked>>

FileDup(x) ==
    IF ref[x] < 1
    THEN panicked' = TRUE /\ UNCHANGED ref
    ELSE ref' = [ref EXCEPT ![x] = @ + 1] /\ UNCHANGED panicked

DupRef(p) ==
    /\ At(p, "dup")
    /\ FileDup(f[p])
    /\ f' = [f EXCEPT ![p] = None]
    /\ Goto(p, "user")
    /\ UNCHANGED <<obj, ofile, ends, iref, ip, todo, ff, fd, child>>

(***************************************************************************)
(* open: the inode, a file, a descriptor; what is missing undoes the rest. *)
(***************************************************************************)
SysOpen(p) ==
    /\ At(p, "user")
    /\ \E i \in Inode : /\ ip' = [ip EXCEPT ![p] = i]
                        /\ iref' = [iref EXCEPT ![i] = @ + 1]
    /\ Goto(p, "open")
    /\ UNCHANGED <<table, ofile, ends, f, todo, ff, fd, child, panicked>>

FileAlloc(p) ==
    /\ FreeFiles # {}
    /\ ref' = [ref EXCEPT ![Min(FreeFiles)] = 1]
    /\ todo' = [todo EXCEPT ![p] = Append(@, Min(FreeFiles))]

\* iunlockput(ip)
Iput(p) == iref' = [iref EXCEPT ![ip[p]] = @ - 1]

OpenFile(p) ==
    /\ At(p, "open")
    /\ \/ FileAlloc(p) /\ Goto(p, "openfd") /\ UNCHANGED <<ip, iref>>
       \/ /\ FreeFiles = {}
          /\ Iput(p) /\ ip' = [ip EXCEPT ![p] = None] /\ Goto(p, "user")
          /\ UNCHANGED <<ref, todo>>
    /\ UNCHANGED <<obj, ofile, ends, f, ff, fd, child, panicked>>

OpenFd(p) ==
    /\ At(p, "openfd")
    /\ \/ /\ FreeFds(p) # {}
          /\ ofile' = [ofile EXCEPT ![p][Min(FreeFds(p))] = Head(todo[p])]
          /\ obj' = [obj EXCEPT ![Head(todo[p])] = <<"ip", ip[p]>>]
          /\ CloseAll(p, <<>>, "user")
          /\ ip' = [ip EXCEPT ![p] = None]
       \/ FreeFds(p) = {} /\ Goto(p, "bad") /\ UNCHANGED <<ofile, obj, todo, ip>>
    /\ UNCHANGED <<ref, ends, iref, f, ff, fd, child, panicked>>

\* The end of a failed open or pipe.
BadReturn(p) ==
    /\ At(p, "bad") /\ Closed(p)
    /\ \/ ip[p] = None /\ UNCHANGED iref
       \/ ip[p] # None /\ Iput(p)
    /\ ip' = [ip EXCEPT ![p] = None]
    /\ Goto(p, "user")
    /\ UNCHANGED <<table, ofile, ends, f, todo, ff, fd, child, panicked>>

(***************************************************************************)
(* pipe: two files, a page, two descriptors.                               *)
(***************************************************************************)
SysPipe(p) ==
    /\ At(p, "user")
    /\ FileAlloc(p)
    /\ Goto(p, "pipe")
    /\ UNCHANGED <<obj, ofile, ends, iref, f, ip, ff, fd, child, panicked>>

PipeFile(p) ==
    /\ At(p, "pipe")
    /\ \/ FileAlloc(p) /\ Goto(p, "pipealloc")
       \/ FreeFiles = {} /\ Goto(p, "bad") /\ UNCHANGED <<ref, todo>>
    /\ UNCHANGED <<obj, ofile, ends, iref, f, ip, ff, fd, child, panicked>>

PipeAlloc(p) ==
    /\ At(p, "pipealloc")
    /\ \/ \E k \in Pipe :
            /\ ends[k] = {}
            /\ ends' = [ends EXCEPT ![k] = {"r", "w"}]
            /\ obj' = [obj EXCEPT ![todo[p][1]] = <<"r", k>>, ![todo[p][2]] = <<"w", k>>]
            /\ Goto(p, "pipefd")
       \/ Goto(p, "bad") /\ UNCHANGED <<ends, obj>>
    /\ UNCHANGED <<ref, ofile, iref, f, ip, todo, ff, fd, child, panicked>>

\* When the second fdalloc fails, sys_pipe takes the first descriptor back.
F_PipeUndone(p) == IF FreeFds(p) = {} THEN ofile
                   ELSE [ofile EXCEPT ![p][Min(FreeFds(p))] = todo[p][1]]
PipeUndone(p) == ofile

PipeFd(p) ==
    /\ At(p, "pipefd")
    /\ \/ /\ Cardinality(FreeFds(p)) >= 2
          /\ LET d == Min(FreeFds(p))
                 e == Min(FreeFds(p) \ {d})
             IN  ofile' = [ofile EXCEPT ![p][d] = todo[p][1], ![p][e] = todo[p][2]]
          /\ CloseAll(p, <<>>, "user")
       \/ /\ Cardinality(FreeFds(p)) < 2
          /\ ofile' = PipeUndone(p)
          /\ Goto(p, "bad") /\ UNCHANGED todo
    /\ UNCHANGED <<table, ends, iref, f, ip, ff, fd, child, panicked>>

(***************************************************************************)
(* fork duplicates the open files one by one; exit closes them.            *)
(***************************************************************************)
SysFork(p) ==
    /\ At(p, "user")
    /\ \E q \in Proc : /\ pc[q] = "none"
                       /\ child' = [child EXCEPT ![p] = q]
                       /\ pc' = [pc EXCEPT ![p] = "fork", ![q] = "embryo"]
    /\ UNCHANGED <<table, ofile, ends, iref, f, ip, todo, ff, fd, panicked>>

Uncopied(p) == {d \in Fd : ofile[p][d] # None /\ ofile[child[p]][d] = None}

ForkDup(p) ==
    /\ At(p, "fork") /\ Uncopied(p) # {}
    /\ LET d == Min(Uncopied(p))
       IN  /\ FileDup(ofile[p][d])
           /\ ofile' = [ofile EXCEPT ![child[p]][d] = ofile[p][d]]
    /\ UNCHANGED <<obj, ends, iref, pc, locals>>

ForkReturn(p) ==
    /\ At(p, "fork") /\ Uncopied(p) = {}
    /\ pc' = [pc EXCEPT ![p] = "user", ![child[p]] = "user"]
    /\ child' = [child EXCEPT ![p] = None]
    /\ UNCHANGED <<table, ofile, ends, iref, f, ip, todo, ff, fd, panicked>>

SysExit(p) ==
    /\ At(p, "user") /\ p # initproc
    /\ Goto(p, "exit")
    /\ UNCHANGED <<table, ofile, ends, iref, locals, panicked>>

UsedFds(p) == Fd \ FreeFds(p)

\* The descriptor is cleared when fileclose has returned.
ExitClose(p) ==
    /\ At(p, "exit") /\ UsedFds(p) # {}
    /\ fd' = [fd EXCEPT ![p] = Min(UsedFds(p))]
    /\ CloseAll(p, <<ofile[p][Min(UsedFds(p))]>>, "exiting")
    /\ UNCHANGED <<table, ofile, ends, iref, f, ip, ff, child, panicked>>

ExitClosed(p) ==
    /\ At(p, "exiting") /\ Closed(p)
    /\ ofile' = [ofile EXCEPT ![p][fd[p]] = None]
    /\ fd' = [fd EXCEPT ![p] = None]
    /\ Goto(p, "exit")
    /\ UNCHANGED <<table, ends, iref, f, ip, todo, ff, child, panicked>>

ExitDone(p) ==
    /\ At(p, "exit") /\ UsedFds(p) = {}
    /\ Goto(p, "none")
    /\ UNCHANGED <<table, ofile, ends, iref, locals, panicked>>

Step(p) ==
    \/ FileClose(p) \/ CloseObject(p) \/ CloseReturn(p) \/ DupRef(p)
    \/ OpenFile(p) \/ OpenFd(p) \/ BadReturn(p) \/ PipeFile(p) \/ PipeAlloc(p) \/ PipeFd(p)
    \/ ForkDup(p) \/ ForkReturn(p) \/ ExitClose(p) \/ ExitClosed(p) \/ ExitDone(p)

Call(p) == SysClose(p) \/ SysDup(p) \/ SysOpen(p) \/ SysPipe(p) \/ SysFork(p) \/ SysExit(p)

Next == \E p \in Proc : Step(p) \/ Call(p)

Spec == Init /\ [][Next]_vars

-----------------------------------------------------------------------------
(***************************************************************************)
(* Properties.                                                             *)
(***************************************************************************)
Label == {"none", "embryo", "user", "close", "dup", "open", "openfd", "bad", "pipe",
          "pipealloc", "pipefd", "fork", "exit", "exiting"}

TypeOK ==
    /\ ref \in [File -> 0..Cardinality(Proc) * NOFILE + 1]
    /\ obj \in [File -> Obj \cup {None}]
    /\ ofile \in [Proc -> [Fd -> File \cup {None}]]
    /\ ends \in [Pipe -> SUBSET {"r", "w"}] /\ iref \in [Inode -> Nat]
    /\ pc \in [Proc -> Label]
    /\ f \in [Proc -> File \cup {None}] /\ ip \in [Proc -> Inode \cup {None}]
    /\ \A p \in Proc : todo[p] \in Seq(File) /\ Len(todo[p]) <= 2
    /\ ff \in [Proc -> Obj \cup {None}] /\ fd \in [Proc -> Fd \cup {None}]
    /\ child \in [Proc -> Proc \cup {None}]
    /\ panicked \in BOOLEAN

Users(o) == Cardinality({x \in File : obj[x] = o}) + Cardinality({p \in Proc : ff[p] = o})

\* f->ref is the number of descriptors that refer to f, plus the references
\* calls in progress hold, less the ones dup is about to take.  So the panics
\* of filedup and fileclose cannot happen, no file is lost for ever, and a
\* descriptor always names a live, fully set-up file, whatever other
\* processes close.  What files refer to is released exactly once, by whoever
\* drops the last reference: a pipe's end is open while one file (or the close
\* of it) stands for it, and an inode's references are those of the files and
\* opens.
RefsCounted ==
    /\ \A x \in File :
         ref[x] = Cardinality({pd \in Proc \X Fd : /\ ofile[pd[1]][pd[2]] = x
                                                  /\ ~(pc[pd[1]] = "exiting" /\ fd[pd[1]] = pd[2])})
                + Cardinality({pj \in Proc \X (1..2) : /\ pj[2] <= Len(todo[pj[1]])
                                                      /\ todo[pj[1]][pj[2]] = x})
                - Cardinality({p \in Proc : f[p] = x})
    /\ \A p \in Proc, d \in Fd : pc[p] = "user" /\ ofile[p][d] # None =>
         ref[ofile[p][d]] >= 1 /\ obj[ofile[p][d]] # None
    /\ \A k \in Pipe, e \in {"r", "w"} : Users(<<e, k>>) = (IF e \in ends[k] THEN 1 ELSE 0)
    /\ \A i \in Inode : iref[i] = Users(<<"ip", i>>) + Cardinality({p \in Proc : ip[p] = i})
    /\ TypeOK /\ ~panicked
=============================================================================
