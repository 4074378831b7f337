------------------------------- MODULE Screen -------------------------------
(***************************************************************************)
(* Console output: consolewrite and cprintf under cons.lock, the echo of   *)
(* consoleintr, which does not take it, panic, which switches it off, and  *)
(* cgaputc at the grain of its accesses to the cursor registers.           *)
(***************************************************************************)
EXTENDS Integers, Sequences

CONSTANTS
    Cpu,         \* processors
    COLS, ROWS,  \* 80 columns, and the 24 of the 25 rows that are scrolled
    Base,        \* 256: values of a cursor register
    Texts,       \* what a write or a message prints
    Echoed,      \* the characters echoed, BACKSPACE included
    MaxOut,      \* bound on the characters put on the screen
    None         \* no CPU

Cell == 0..(ROWS + 1) * COLS - 1
Paper == 0..(MaxOut + 1) * COLS
Blank == " "

ScreenAssumption ==
    /\ COLS \in Nat \ {0} /\ ROWS \in Nat \ {0} /\ MaxOut \in Nat
    /\ Base \in Nat /\ Base * Base >= (ROWS + 1) * COLS
    /\ Texts \subseteq Seq(STRING) /\ None \notin Cpu

VARIABLES
    crt,            \* the screen's memory
    index, reg,     \* the port CRTPORT, and registers 14 and 15 behind it
    lock, locking,  \* cons.lock and cons.locking
    panicked,
    via,            \* what each CPU is printing for
    todo,           \* the characters it has yet to put
    step, pos,      \* its place in cgaputc (0 when outside) and cgaputc's pos
    paper, at, top, \* history: an endless screen, its cursor and its first visible row
    count,          \* characters printed so far
    raced,          \* history: two CPUs were in cgaputc at the same time
    wild            \* history: a store outside the screen's memory

hist == <<paper, at, top>>
vars == <<crt, index, reg, lock, locking, panicked, via, todo, step, pos, hist, count, raced, wild>>

Init ==
    /\ crt = [i \in Cell |-> Blank]
    /\ index = 14 /\ reg = [k \in {14, 15} |-> 0]
    /\ lock = None /\ locking = TRUE /\ panicked = FALSE
    /\ via = [c \in Cpu |-> "none"] /\ todo = [c \in Cpu |-> <<>>]
    /\ step = [c \in Cpu |-> 0] /\ pos = [c \in Cpu |-> 0]
    /\ paper = [i \in Paper |-> Blank] /\ at = 0 /\ top = 0 /\ count = 0
    /\ raced = FALSE /\ wild = FALSE

\* Definitions named F_... are faulty variants of the definition that follows
\* them; each shows that some property below can tell the code from a
\* plausible bug.  They are not part of the specification.

(***************************************************************************)
(* Who prints: consolewrite, cprintf, the echo of consoleintr, panic.      *)
(***************************************************************************)
Begin(c, v, s) ==
    /\ ~panicked /\ ~raced
    /\ count + Len(s) <= MaxOut /\ count' = count + Len(s)
    /\ via' = [via EXCEPT ![c] = v]
    /\ todo' = [todo EXCEPT ![c] = s]
    /\ UNCHANGED <<crt, index, reg, panicked, step, pos, hist, raced, wild>>

consolewrite(c, s) ==
    /\ via[c] = "none" /\ lock = None
    /\ lock' = c
    /\ Begin(c, "write", s)
    /\ UNCHANGED locking

cprintf(c, s) ==
    /\ via[c] = "none" /\ (locking => lock = None)
    /\ lock' = IF locking THEN c ELSE lock
    /\ Begin(c, IF locking THEN "cprintf" ELSE "unlocked", s)
    /\ UNCHANGED locking

\* Under input.lock, so one CPU at a time.
echo(c, ch) ==
    /\ via[c] = "none" /\ \A d \in Cpu : via[d] # "echo"
    /\ Begin(c, "echo", <<ch>>)
    /\ UNCHANGED <<lock, locking>>

\* From anywhere between two characters.  One way is a page fault on the
\* buffer of consolewrite: trap() prints a message, and acquire panics.  (A
\* second CPU that panics prints as an unlocked cprintf does.)
panic(c, s) ==
    /\ via[c] \in {"none", "write"} /\ step[c] = 0 /\ locking
    /\ locking' = FALSE
    /\ Begin(c, "panic", s)
    /\ UNCHANGED lock

\* The last character is out.  panic freezes the machine.
Return(c) ==
    /\ ~raced /\ via[c] \notin {"none", "dead"} /\ step[c] = 0 /\ todo[c] = <<>>
    /\ via' = [via EXCEPT ![c] = IF @ = "panic" THEN "dead" ELSE "none"]
    /\ lock' = IF via[c] \in {"write", "cprintf"} THEN None ELSE lock
    /\ panicked' = (panicked \/ via[c] = "panic")
    /\ UNCHANGED <<crt, index, reg, locking, todo, step, pos, hist, count, raced, wild>>

(***************************************************************************)
(* cgaputc: read the cursor, store the character, scroll, write the cursor *)
(* and blank the cell under it.                                            *)
(***************************************************************************)
Moved(p, ch) ==
    CASE ch = "\n" -> p + COLS - (p % COLS)
      [] ch = "BACKSPACE" -> IF p > 0 THEN p - 1 ELSE p
      [] OTHER -> p + 1

Shown(ch) == ch \notin {"\n", "BACKSPACE"}

F_Scrolls(p) == p \div COLS > ROWS
Scrolls(p) == p \div COLS >= ROWS

Scrolled(s, p) ==
    [i \in Cell |-> IF i < (ROWS - 1) * COLS THEN s[i + COLS]
                    ELSE IF i >= p /\ i < ROWS * COLS THEN Blank ELSE s[i]]

\* What the character does to an endless screen.
Put(ch) ==
    LET to == IF ch = "BACKSPACE" /\ at = top * COLS THEN at ELSE Moved(at, ch)
    IN  /\ at' = to
        /\ paper' = [i \in Paper |-> IF i = to THEN Blank ELSE IF i = at /\ Shown(ch) THEN ch ELSE paper[i]]
        /\ top' = IF to >= (top + ROWS) * COLS THEN top + 1 ELSE top

\* consputc spins for ever once panicked is set.
Enter(c) ==
    /\ ~raced /\ ~panicked /\ step[c] = 0 /\ todo[c] # <<>> /\ via[c] # "none"
    /\ index' = 14
    /\ step' = [step EXCEPT ![c] = 1]
    /\ raced' = (raced \/ \E d \in Cpu \ {c} : step[d] # 0)
    /\ UNCHANGED <<crt, reg, lock, locking, panicked, via, todo, pos, hist, count, wild>>

\* inb high; outb 15; inb low.
ReadCursor(c) ==
    /\ ~raced /\ step[c] \in 1..3
    /\ CASE step[c] = 1 -> pos' = [pos EXCEPT ![c] = reg[index] * Base] /\ UNCHANGED index
         [] step[c] = 2 -> index' = 15 /\ UNCHANGED pos
         [] step[c] = 3 -> pos' = [pos EXCEPT ![c] = @ + reg[index]] /\ UNCHANGED index
    /\ step' = [step EXCEPT ![c] = @ + 1]
    /\ UNCHANGED <<crt, reg, lock, locking, panicked, via, todo, hist, count, raced, wild>>

Draw(c) ==
    LET ch == Head(todo[c])
        p == Moved(pos[c], ch)
        s == IF Shown(ch) /\ pos[c] \in Cell THEN [crt EXCEPT ![pos[c]] = ch] ELSE crt
        q == IF Scrolls(p) THEN p - COLS ELSE p
    IN  /\ ~raced /\ step[c] = 4
        /\ crt' = IF Scrolls(p) THEN Scrolled(s, q) ELSE s
        /\ pos' = [pos EXCEPT ![c] = q]
        /\ wild' = \/ Shown(ch) /\ pos[c] \notin Cell
                   \/ Scrolls(p) /\ q > ROWS * COLS
                   \/ q \notin Cell
        /\ Put(ch)
        /\ todo' = [todo EXCEPT ![c] = Tail(@)]
        /\ step' = [step EXCEPT ![c] = 5]
        /\ UNCHANGED <<index, reg, lock, locking, panicked, via, count, raced>>

\* outb 14, outb high; outb 15, outb low, and the blank.
WriteCursor(c) ==
    /\ ~raced /\ step[c] \in 5..8
    /\ CASE step[c] \in {5, 7} -> index' = (IF step[c] = 5 THEN 14 ELSE 15) /\ UNCHANGED <<reg, crt>>
         [] step[c] = 6 -> reg' = [reg EXCEPT ![index] = pos[c] \div Base] /\ UNCHANGED <<index, crt>>
         [] step[c] = 8 -> /\ reg' = [reg EXCEPT ![index] = pos[c] % Base] /\ UNCHANGED index
                           /\ crt' = [crt EXCEPT ![pos[c]] = Blank]
    /\ step' = [step EXCEPT ![c] = (@ + 1) % 9]
    /\ UNCHANGED <<lock, locking, panicked, via, todo, pos, hist, count, raced, wild>>

Putc(c) == Enter(c) \/ ReadCursor(c) \/ Draw(c) \/ WriteCursor(c) \/ Return(c)

\* The machine is frozen, or at the bound on the output.  The model ends where
\* two CPUs meet in cgaputc.
Stopped == (panicked \/ raced \/ count = MaxOut) /\ UNCHANGED vars

Next ==
    \/ \E c \in Cpu :
        \/ Putc(c)
        \/ \E s \in Texts : consolewrite(c, s) \/ cprintf(c, s) \/ panic(c, s)
        \/ \E ch \in Echoed : echo(c, ch)
    \/ Stopped

Spec == Init /\ [][Next]_vars

-----------------------------------------------------------------------------
(***************************************************************************)
(* Properties.                                                             *)
(***************************************************************************)
Chars == {Blank} \cup Echoed \cup UNION {{s[k] : k \in DOMAIN s} : s \in Texts}

TypeOK ==
    /\ crt \in [Cell -> Chars] /\ index \in {14, 15} /\ reg \in [{14, 15} -> 0..Base - 1]
    /\ lock \in Cpu \cup {None} /\ locking \in BOOLEAN /\ panicked \in BOOLEAN
    /\ via \in [Cpu -> {"none", "write", "cprintf", "unlocked", "echo", "panic", "dead"}]
    /\ step \in [Cpu -> 0..8] /\ top * COLS <= at

\* The cursor cgaputc works with stays on the screen, and the screen is the
\* window of an endless one that begins at the row top: what scrolled out is
\* gone, the rest is in place, and the cursor is where the text ends.  This
\* holds as long as no two CPUs are in cgaputc at a time.  cons.lock sees to
\* that for consolewrite and cprintf; the two ways in which it can happen are
\* an echo, which only takes input.lock, and a panic, which takes no lock.
\* Nothing is claimed of what follows: the cursor registers can be read half
\* and half.
ScreenRight ==
    /\ TypeOK
    /\ ~wild
    /\ raced \/ (\E c \in Cpu : step[c] # 0) \/
         /\ reg[14] * Base + reg[15] = at - top * COLS
         /\ \A i \in 0..ROWS * COLS - 1 : crt[i] = paper[top * COLS + i]
    /\ \A c, d \in Cpu : c # d /\ step[c] # 0 /\ step[d] # 0 =>
         {via[c], via[d]} \cap {"echo", "panic", "unlocked"} # {}
=============================================================================
