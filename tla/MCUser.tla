------------------------------- MODULE MCUser -------------------------------
(***************************************************************************)
(* User programs and library functions, one per behaviour: the shell's     *)
(* parser, the shell running a line, malloc and free, the user-level       *)
(* threads, grep's matcher, the string functions and the loops of wc, cat  *)
(* and gets; and where they meet the kernel, the arguments of their calls. *)
(***************************************************************************)
EXTENDS SysArg

CONSTANTS Word, MAXARGS, MaxLine, Lines, Filter    \* of Shell and RunCmd
CONSTANTS MaxUnit, MinCore, Header, Sizes    \* of Umalloc
CONSTANTS MAX_THREAD, Created, Rounds        \* of Uthread
CONSTANTS Letter, MaxRe, MaxText             \* of Grep
CONSTANTS Size, Chr, Bits, Slash, DIRSIZ     \* of StringLib
CONSTANTS Chars, BufSize, MaxInput           \* of Filters

VARIABLES line, proc, failed                         \* of Shell and RunCmd
VARIABLES h, used                                    \* of Umalloc
VARIABLES state, current, created, left, exited      \* of Uthread
VARIABLES re, text                                   \* of Grep
VARIABLES mem, dst, src, n, x, called                \* of StringLib
VARIABLE reads                                       \* of Filters
VARIABLE program

Sh == INSTANCE RunCmd
Heap == INSTANCE Umalloc
Threads == INSTANCE Uthread
Matcher == INSTANCE Grep
Library == INSTANCE StringLib WITH Byte <- Chr
Loops == INSTANCE Filters

ASSUME SysArgAssumption

shellvars == <<line, proc, failed>>
heapvars == <<h, used>>
threadvars == <<state, current, created, left, exited>>
grepvars == <<re, text>>
libvars == <<mem, dst, src, n, x, called>>
mcvars == <<shellvars, heapvars, threadvars, grepvars, libvars, args, reads, program>>

MCInit ==
    /\ program \in {"parse", "run", "umalloc", "uthread", "grep", "library", "args", "filters"}
    /\ Sh!RunInit /\ (program # "run" => Sh!Init)
    /\ Heap!Init /\ Threads!Init /\ Matcher!Init /\ Library!Init /\ Loops!Init
    /\ IF program = "args" THEN Init ELSE sz = 0 /\ user = [a \in Addr |-> 0] /\ esp = 0 /\ ofile = {}

MCNext ==
    /\ UNCHANGED program
    /\ \/ program = "parse" /\ Sh!Type /\ UNCHANGED <<proc, failed, heapvars, threadvars, grepvars, libvars, args, reads>>
       \/ program = "run" /\ Sh!RunNext /\ UNCHANGED <<heapvars, threadvars, grepvars, libvars, args, reads>>
       \/ program = "umalloc" /\ Heap!Next /\ UNCHANGED <<shellvars, threadvars, grepvars, libvars, args, reads>>
       \/ program = "uthread" /\ Threads!Next /\ UNCHANGED <<shellvars, heapvars, grepvars, libvars, args, reads>>
       \/ program = "grep" /\ Matcher!Grow /\ UNCHANGED <<shellvars, heapvars, threadvars, libvars, args, reads>>
       \/ program = "library" /\ Library!Next /\ UNCHANGED <<shellvars, heapvars, threadvars, grepvars, args, reads>>
       \/ program = "args" /\ Next /\ UNCHANGED <<shellvars, heapvars, threadvars, grepvars, libvars, reads>>
       \/ program = "filters" /\ Loops!Next /\ UNCHANGED <<shellvars, heapvars, threadvars, grepvars, libvars, args>>

MCSpec == MCInit /\ [][MCNext]_mcvars

\* runcmd: descriptors, sequence and termination are what the line says.
ShellRuns == program = "run" => Sh!RunsAsWritten

\* malloc and free: blocks neither overlap nor get lost.
HeapSound == program = "umalloc" => Heap!HeapSound

\* parsecmd accepts the shell's grammar, no more and no less; match finds
\* exactly the matches there are; the functions of string.c, printint, atoi,
\* wc, cat and gets compute what their references say; and thread_schedule
\* lets the two threads of uthread alternate and end.
AlgorithmsRight ==
    /\ program = "parse" => Sh!ParsesGrammar
    /\ program = "grep" => Matcher!FindsMatches
    /\ program = "library" => Library!LibraryRight
    /\ program = "filters" => Loops!CutsDoNotMatter
    /\ program = "uthread" => Threads!TurnsTaken

\* Ints of two bytes, lowest byte first.
MCDecode == [w \in [0..1 -> Byte] |-> w[0] + 4 * w[1]]

\* Five bytes, over and over, a NUL first or no NUL at all: every address may
\* be the one that esp has.
MCMemories == {[a \in Addr |-> f[a % 5]] :
                 f \in {g \in [0..4 -> Byte] : g[0] = 0 \/ \A k \in 0..4 : g[k] # 0}}

\* a | b | a;  (a ; b) | a > b;  a & ; b | a;  a < a > b;  (a | a) & ; (a ; b) > b;
\* a syntax error; and no command at all
MCLines == {
    <<"a", "|", "b", "|", "a">>,
    <<"(", "a", ";", "b", ")", "|", "a", ">", "b">>,
    <<"a", "&", ";", "b", "|", "a">>,
    <<"a", "<", "a", ">", "b">>,
    <<"(", "a", "|", "a", ")", "&", ";", "(", "a", ";", "b", ")", ">", "b">>,
    <<"a", "(">>,
    <<>>}
=============================================================================
