----------------------------- MODULE MCMachine -----------------------------
(***************************************************************************)
(* The machine without its processors and its disk, one part per           *)
(* behaviour: console input and output, the clock, the keyboard, and       *)
(* memory.                                                                 *)
(***************************************************************************)
EXTENDS Vm, TLC

CONSTANTS Reader, INPUT_BUF, UintRange, Ordinary, Counts   \* of Console
CONSTANTS TickRange, Sleeps, Alarms           \* of Clock, for the processes of Reader
CONSTANT Keys                                 \* of Kbd
CONSTANTS Cpu, Texts, Echoed, MaxOut, None    \* of Screen

VARIABLES buf, r, w, e, pc, n, got, killed                             \* of Console
VARIABLES ticks, clockpc, left, ticks0, clockkilled, alarm, elapsed    \* of Clock
VARIABLES down, wire, shift, c                                         \* of Kbd
VARIABLES crt, index, reg, lock, locking, panicked, via, todo, step, pos, paper, at, top, count, raced, wild  \* of Screen
VARIABLE part

Input == INSTANCE Console
Time == INSTANCE Clock WITH Proc <- Reader, UintRange <- TickRange, pc <- clockpc, n <- left, killed <- clockkilled
Keyboard == INSTANCE Kbd

\* Two columns, two rows, and cursor registers of three values: the cursor
\* needs both of them, and five characters scroll the screen.
Display == INSTANCE Screen WITH COLS <- 2, ROWS <- 2, Base <- 3

ASSUME Display!ScreenAssumption
ASSUME Input!ConsoleAssumption

clockvars == <<ticks, clockpc, left, ticks0, clockkilled, alarm, elapsed>>
kbdvars == <<down, wire, shift, c>>
screenvars == <<crt, index, reg, lock, locking, panicked, via, todo, step, pos, paper, at, top, count, raced, wild>>
consolevars == <<buf, r, w, e, pc, n, got, killed>>
mcvars == <<vars, consolevars, clockvars, kbdvars, screenvars, part>>

\* Two processes on nine frames: fork and sbrk succeed and run out of memory.
\* 4 in a set of touched pages stands for the kernel's.
Forking == [procs |-> Proc, frames |-> 9, sbrks |-> {-2, 2}, images |-> {}, touch |-> {0, 3}, other |-> 0]

\* One process on eleven frames, enough for two images while the rest of the
\* kernel takes none.
Execing == [procs |-> {initproc}, frames |-> 11, sbrks |-> {2}, images |-> {1}, touch |-> {0, 2}, other |-> 2]

\* One process whose size sbrk takes below 0, into the kernel's half.
Shrinking == [procs |-> {initproc}, frames |-> 9, sbrks |-> {2, -4, -36}, images |-> {}, touch |-> {1, 4}, other |-> 1]

MCJobs == {Forking, Execing, Shrinking}

\* A part that does not run stays in one initial state.
MCInit ==
    /\ part \in {"console", "clock", "keyboard", "screen", "memory"}
    /\ Init /\ Input!Init /\ Time!Init /\ Keyboard!Init /\ Display!Init
    /\ part # "memory" => job = Execing

MCNext ==
    \/ part = "console" /\ Input!Next /\ UNCHANGED <<vars, clockvars, kbdvars, screenvars, part>>
    \/ part = "clock" /\ Time!Next /\ UNCHANGED <<vars, consolevars, kbdvars, screenvars, part>>
    \/ part = "keyboard" /\ Keyboard!Next /\ UNCHANGED <<vars, consolevars, clockvars, screenvars, part>>
    \/ part = "screen" /\ Display!Next /\ UNCHANGED <<vars, consolevars, clockvars, kbdvars, part>>
    \/ part = "memory" /\ Next /\ UNCHANGED <<consolevars, clockvars, kbdvars, screenvars, part>>

MCSpec == MCInit /\ [][MCNext]_mcvars

\* consoleread: no reader sleeps while a line, or its kill, waits for it.
ReadersServed == Input!ReadersServed

\* consoleread: a read returns what was typed, a line or less of it.
LineDiscipline == Input!LineDiscipline

\* sys_sleep and the alarm of trap(): no process sleeps too short or too long.
TimeKept == Time!TimeKept

\* kbdgetc: shift, control and alt follow their keys.
NoStuckModifier == Keyboard!NoStuckModifier

\* cgaputc: the screen shows the end of what was printed, unless an echo or a
\* panic collides with another CPU's output.
ScreenRight == Display!ScreenRight

\* Readers, sleepers and CPUs are interchangeable; all properties are safety ones.
Symm == Permutations(Reader) \cup Permutations(Cpu)

MCTexts == {<<"a", "\n">>}

\* sleep for a negative time, for none and for two ticks
MCSleeps == {-1, 0, 2}

\* the modifiers with one key each or two, caps lock, a letter and an arrow
Key(code, ext) == [code |-> code, ext |-> ext]
MCKeys == {Key(42, FALSE), Key(29, FALSE), Key(29, TRUE), Key(56, TRUE), Key(58, FALSE),
           Key(30, FALSE), Key(72, TRUE)}
=============================================================================
