------------------------------- MODULE RunCmd -------------------------------
(***************************************************************************)
(* The execution of one command line by sh.c: main forks a child that      *)
(* parses and runs it, and runcmd forks, redirects and waits as the parsed *)
(* command says.  A child's descriptor changes after fork1 are local and   *)
(* part of the fork here.  Of the programs (external), some read all of    *)
(* their standard input and some do not.                                   *)
(***************************************************************************)
EXTENDS Shell, FiniteSetsExt

CONSTANTS
    Lines,     \* command lines
    Filter     \* words that name programs which read to end of file

VARIABLES
    proc,      \* the processes, in the order of their forks; the first is the shell
    failed     \* some fork, pipe, open or exec has failed

rvars == <<line, proc, failed>>

Fd == 0..6
none == <<"none">>
tty == <<"console">>
Console == [f \in Fd |-> IF f < 3 THEN tty ELSE none]

\* path is where the command stands in the line's, p is runcmd's variable
Process(parent, pc, cmd, path, fds, p) ==
    [parent |-> parent, pc |-> pc, cmd |-> cmd, path |-> path, fds |-> fds, p |-> p]

Shell == 1
init == 0

RunInit ==
    /\ line \in Lines
    /\ proc = <<Process(init, "prompt", <<>>, <<>>, Console, <<>>)>>
    /\ failed = FALSE

\* close, open and dup on a descriptor table; fdalloc takes the lowest.
lowest(f) == Min({d \in Fd : f[d] = none})
close(f, d) == [f EXCEPT ![d] = none]
open(f, o) == [f EXCEPT ![lowest(f)] = o]
dup(f, d) == open(f, f[d])

Set(q, field, v) == [proc EXCEPT ![q][field] = v]
Children(q) == {c \in DOMAIN proc : proc[c].parent = q}

exit(q) ==
    proc' = [c \in DOMAIN proc |->
        IF c = q THEN [proc[c] EXCEPT !.pc = "zombie", !.fds = [d \in Fd |-> none]]
        ELSE IF proc[c].parent = q THEN [proc[c] EXCEPT !.parent = init]
        ELSE proc[c]]

\* A call fails, and the process prints a message and exits.
Fails(q) == exit(q) /\ failed' = TRUE

\* fork1() in q, which goes on at pc; the child runs part s of q's command.
fork1(q, pc, cpc, cmd, s, fds) ==
    \/ /\ proc' = Append(Set(q, "pc", pc), Process(q, cpc, cmd, proc[q].path \o s, fds, proc[q].p))
       /\ UNCHANGED failed
    \/ Fails(q)

\* wait(): reap a child, or return at once without one.
wait(q, pc) ==
    /\ \/ \E c \in Children(q) : /\ proc[c].pc = "zombie"
                                 /\ proc' = [Set(q, "pc", pc) EXCEPT ![c].pc = "gone", ![c].parent = init]
       \/ Children(q) = {} /\ proc' = Set(q, "pc", pc)
    /\ UNCHANGED failed

At(q, pc) == proc[q].pc = pc
Runs(q, type) == At(q, "run") /\ proc[q].cmd.type = type

-----------------------------------------------------------------------------
(***************************************************************************)
(* main                                                                    *)
(***************************************************************************)
MainFork == At(Shell, "prompt") /\ fork1(Shell, "wait", "parse", <<>>, <<>>, proc[Shell].fds)

\* what parsecmd makes of each line
Parsing == [l \in Lines |-> parsecmd(l)]

Parse(q) ==
    /\ At(q, "parse")
    /\ LET p == Parsing[line] IN
       IF p.ok THEN proc' = [proc EXCEPT ![q].pc = "run", ![q].cmd = p.cmd] ELSE exit(q)
    /\ UNCHANGED failed

MainWait == At(Shell, "wait") /\ wait(Shell, "done")

(***************************************************************************)
(* runcmd                                                                  *)
(***************************************************************************)
RunExec(q) ==
    /\ Runs(q, "EXEC")
    /\ IF proc[q].cmd.argv = <<>> THEN exit(q) /\ UNCHANGED failed
       ELSE (proc' = Set(q, "pc", "program") /\ UNCHANGED failed) \/ Fails(q)

RunRedir(q) ==
    /\ Runs(q, "REDIR")
    /\ LET c == proc[q].cmd IN
       \/ /\ proc' = [proc EXCEPT ![q].fds = open(close(@, c.fd), <<"file", c.file>>), ![q].cmd = c.cmd,
                                  ![q].path = Append(@, "redir")]
          /\ UNCHANGED failed
       \/ Fails(q)

RunList(q) == Runs(q, "LIST") /\ fork1(q, "list", "run", proc[q].cmd.left, <<"left">>, proc[q].fds)
ListWait(q) == At(q, "list") /\ wait(q, "right")
ListRight(q) ==
    /\ At(q, "right")
    /\ proc' = [proc EXCEPT ![q].pc = "run", ![q].cmd = @.right, ![q].path = Append(@, "right")]
    /\ UNCHANGED failed

RunPipe(q) ==
    /\ Runs(q, "PIPE")
    /\ LET f == proc[q].fds
           r == open(f, <<"r", proc[q].path>>)
           w == open(r, <<"w", proc[q].path>>)
       IN \/ /\ proc' = [proc EXCEPT ![q].fds = w, ![q].p = <<lowest(f), lowest(r)>>, ![q].pc = "pipe"]
             /\ UNCHANGED failed
          \/ Fails(q)

closeboth(f, p) == close(close(f, p[1]), p[2])

\* Definitions named F_... are faulty variants of the definition that follows
\* them; each shows that some property below can tell the code from a
\* plausible bug.  They are not part of the specification.

F_RightEnd(f, p) == close(dup(close(f, 0), p[1]), p[1])
LeftEnd(f, p) == closeboth(dup(close(f, 1), p[2]), p)
RightEnd(f, p) == closeboth(dup(close(f, 0), p[1]), p)

PipeLeft(q) ==
    At(q, "pipe") /\ fork1(q, "pipe2", "run", proc[q].cmd.left, <<"left">>, LeftEnd(proc[q].fds, proc[q].p))
PipeRight(q) ==
    At(q, "pipe2") /\ fork1(q, "pipe3", "run", proc[q].cmd.right, <<"right">>, RightEnd(proc[q].fds, proc[q].p))
PipeClose(q) ==
    At(q, "pipe3") /\ proc' = [proc EXCEPT ![q].pc = "wait1", ![q].fds = closeboth(@, proc[q].p)] /\ UNCHANGED failed
PipeWait(q) == (At(q, "wait1") /\ wait(q, "wait2")) \/ (At(q, "wait2") /\ wait(q, "exit"))

RunBack(q) == Runs(q, "BACK") /\ fork1(q, "exit", "run", proc[q].cmd.cmd, <<"back">>, proc[q].fds)

Exits(q) == At(q, "exit") /\ exit(q) /\ UNCHANGED failed

\* A program ends; a filter at the end of its input, which a pipe has when
\* nobody has its write end.
EndOfFile(o) == o[1] = "r" => \A c \in DOMAIN proc, d \in Fd : proc[c].fds[d] # <<"w", o[2]>>
MayEnd(q) == Head(proc[q].cmd.argv) \in Filter => EndOfFile(proc[q].fds[0])
Program(q) ==
    /\ At(q, "program") /\ MayEnd(q)
    /\ exit(q) /\ UNCHANGED failed

RunStep ==
    \/ MainFork \/ MainWait
    \/ \E q \in DOMAIN proc \ {Shell} :
        \/ Parse(q) \/ RunExec(q) \/ RunRedir(q) \/ RunList(q) \/ ListWait(q) \/ ListRight(q)
        \/ RunPipe(q) \/ PipeLeft(q) \/ PipeRight(q) \/ PipeClose(q) \/ PipeWait(q)
        \/ RunBack(q) \/ Exits(q) \/ Program(q)

RunNext == RunStep /\ UNCHANGED line

RunSpec == RunInit /\ [][RunNext]_rvars

-----------------------------------------------------------------------------
\* What the program at a path below cmd should find as its standard input and
\* output.
RECURSIVE Ends(_, _, _, _)
Ends(cmd, path, k, io) ==
    IF k > Len(path) THEN io
    ELSE LET here == SubSeq(path, 1, k - 1)
             sub == IF path[k] = "left" THEN cmd.left ELSE IF path[k] = "right" THEN cmd.right ELSE cmd.cmd
         IN Ends(sub, path, k + 1,
                 CASE cmd.type = "PIPE" -> IF path[k] = "left" THEN <<io[1], <<"w", here>>>> ELSE <<<<"r", here>>, io[2]>>
                   [] cmd.type = "REDIR" -> [io EXCEPT ![cmd.fd + 1] = <<"file", cmd.file>>]
                   [] OTHER -> io)

\* The processes that part of the command has in the foreground.
Foreground(path) == {c \in DOMAIN proc : /\ IsPrefix(path, proc[c].path) /\ proc[c].pc \notin {"zombie", "gone"}
                                         /\ \A k \in Len(path) + 1..Len(proc[c].path) : proc[c].path[k] # "back"}

\* A process is neither dead nor waiting: for a child, or for a pipe's end.
CanStep(q) ==
    /\ proc[q].pc \notin {"zombie", "gone", "done"}
    /\ proc[q].pc \in {"wait", "list", "wait1", "wait2"} =>
         Children(q) = {} \/ \E c \in Children(q) : At(c, "zombie")
    /\ At(q, "program") => MayEnd(q)

\* Whatever the order in which the processes of a line run: each program has
\* its descriptors 0, 1 and 2 and no other, 0 and 1 being what the command
\* says; what follows a ";" starts when everything before it has ended (unless
\* some call failed); and until the shell is back nobody waits for ever, in
\* wait() or for the end of a pipe that its own side keeps open.
RunsAsWritten ==
    LET cmd == Parsing[line].cmd IN
    /\ \A q \in DOMAIN proc : At(q, "program") =>
        LET f == proc[q].fds IN
        /\ <<f[0], f[1]>> = Ends(cmd, proc[q].path, 1, <<tty, tty>>)
        /\ f[2] = tty /\ \A d \in Fd \ 0..2 : f[d] = none
    /\ ~failed => \A q \in DOMAIN proc : At(q, "right") => Foreground(Append(proc[q].path, "left")) = {}
    /\ proc[Shell].pc \in {"done", "zombie"} \/ \E q \in DOMAIN proc : CanStep(q)
=============================================================================
