------------------------------ MODULE Console ------------------------------
(***************************************************************************)
(* Console input: the ring of console.c, which the keyboard and serial     *)
(* interrupts fill and edit (consoleintr) and processes drain, a line at a *)
(* time (consoleread).  All of it runs under input.lock, which sleep()     *)
(* lets go; kill() marks a process without taking it.                      *)
(*                                                                         *)
(* A process at "loop" or "sleep" has input.lock.  Echo and ^P only print, *)
(* and an interrupt that finds several characters waiting is several here. *)
(***************************************************************************)
EXTENDS Integers, Sequences, FiniteSets

CONSTANTS
    Reader,      \* processes that read the console
    INPUT_BUF,   \* slots of input.buf
    UintRange,   \* 2^32: input.r, w and e are uint and wrap
    Ordinary,    \* characters without a meaning of their own
    Counts       \* the values of n in read(0, dst, n)

ConsoleAssumption ==
    /\ INPUT_BUF \in Nat \ {0} /\ UintRange \in Nat /\ INPUT_BUF < UintRange
    /\ UintRange % INPUT_BUF = 0
    /\ Counts \subseteq Nat
    /\ Ordinary \cap {"\n", "\r", "^D", "^H", "^U", "nul"} = {}

VARIABLES
    buf, r, w, e,  \* input
    pc,            \* where each reader is
    n,             \* characters its read still wants
    got,           \* history: what its read has stored at dst so far
    killed         \* proc->killed

input == <<buf, r, w, e>>
vars == <<input, pc, n, got, killed>>

Char == Ordinary \cup {"\n", "^D"}

Init ==
    /\ buf = [k \in 0..INPUT_BUF - 1 |-> "nul"]
    /\ r = 0 /\ w = 0 /\ e = 0
    /\ pc = [p \in Reader |-> "user"] /\ n = [p \in Reader |-> 0]
    /\ got = [p \in Reader |-> <<>>] /\ killed = [p \in Reader |-> FALSE]

\* Definitions named F_... are faulty variants of the definition that follows
\* them; each shows that some property below can tell the code from a
\* plausible bug.  They are not part of the specification.

Uint(k) == k % UintRange
Slot(k) == k % INPUT_BUF
Waiting(from, to) == Uint(to - from)

Unlocked == \A p \in Reader : pc[p] \notin {"loop", "sleep"}

(***************************************************************************)
(* consoleintr, for one character.                                         *)
(***************************************************************************)
\* ^U goes back to the last newline, or to what readers may already have.
F_LineStart == CHOOSE k \in 0..UintRange - 1 :
    /\ Waiting(r, k) <= Waiting(r, e)
    /\ k = r \/ buf[Slot(Uint(k - 1))] = "\n"
    /\ \A j \in 0..Waiting(k, e) - 1 : buf[Slot(Uint(k + j))] # "\n"
LineStart == CHOOSE k \in 0..UintRange - 1 :
    /\ Waiting(w, k) <= Waiting(w, e)
    /\ k = w \/ buf[Slot(Uint(k - 1))] = "\n"
    /\ \A j \in 0..Waiting(k, e) - 1 : buf[Slot(Uint(k + j))] # "\n"

EraseLine == Unlocked /\ e' = LineStart /\ UNCHANGED <<buf, r, w, pc, n, got, killed>>

Erase ==
    /\ Unlocked /\ e # w
    /\ e' = Uint(e - 1)
    /\ UNCHANGED <<buf, r, w, pc, n, got, killed>>

\* wakeup(&input.r)
Woken == [p \in Reader |-> IF pc[p] = "asleep" THEN "woken" ELSE pc[p]]

F_EndsInput(c, end) == c \in {"\n", "^D"}
EndsInput(c, end) == c \in {"\n", "^D"} \/ end = Uint(r + INPUT_BUF)

Type(typed) ==
    /\ Unlocked
    /\ typed # "nul" /\ Waiting(r, e) < INPUT_BUF
    /\ LET c == IF typed = "\r" THEN "\n" ELSE typed
           end == Uint(e + 1)
       IN /\ buf' = [buf EXCEPT ![Slot(e)] = c]
          /\ e' = end
          /\ IF EndsInput(c, end)
             THEN w' = end /\ pc' = Woken
             ELSE UNCHANGED <<w, pc>>
    /\ UNCHANGED <<r, n, got, killed>>

(***************************************************************************)
(* consoleread.                                                            *)
(***************************************************************************)
ReadCall(p, count) ==
    /\ pc[p] = "user" /\ ~killed[p] /\ Unlocked
    /\ pc' = [pc EXCEPT ![p] = "loop"]
    /\ n' = [n EXCEPT ![p] = count]
    /\ got' = [got EXCEPT ![p] = <<>>]
    /\ UNCHANGED <<input, killed>>

\* release(&input.lock), and back to user mode, where trap() lets a killed
\* process exit.
Leave(p) == pc' = [pc EXCEPT ![p] = "user"]

ReadFull(p) ==
    /\ pc[p] = "loop" /\ n[p] = 0
    /\ Leave(p) /\ UNCHANGED <<input, n, got, killed>>

\* Nothing to read: give up if killed, or go to sleep.
ReadEmpty(p) ==
    /\ pc[p] = "loop" /\ n[p] > 0 /\ r = w
    /\ IF killed[p] THEN Leave(p) ELSE pc' = [pc EXCEPT ![p] = "sleep"]
    /\ UNCHANGED <<input, n, got, killed>>

\* ^D ends the read; it is left for the next one unless this one has nothing.
ReadEof(p) ==
    /\ pc[p] = "loop" /\ n[p] > 0 /\ r # w
    /\ buf[Slot(r)] = "^D"
    /\ r' = IF got[p] = <<>> THEN Uint(r + 1) ELSE r
    /\ Leave(p) /\ UNCHANGED <<buf, w, e, n, got, killed>>

ReadChar(p) ==
    /\ pc[p] = "loop" /\ n[p] > 0 /\ r # w
    /\ LET c == buf[Slot(r)] IN
       /\ c # "^D"
       /\ got' = [got EXCEPT ![p] = Append(@, c)]
       /\ IF c = "\n" THEN Leave(p) ELSE UNCHANGED pc
    /\ r' = Uint(r + 1) /\ n' = [n EXCEPT ![p] = @ - 1]
    /\ UNCHANGED <<buf, w, e, killed>>

Sleep(p) ==
    /\ pc[p] = "sleep"
    /\ pc' = [pc EXCEPT ![p] = "asleep"]
    /\ UNCHANGED <<input, n, got, killed>>

\* sleep() takes input.lock again before it returns.
WakeUp(p) ==
    /\ pc[p] = "woken" /\ Unlocked
    /\ pc' = [pc EXCEPT ![p] = "loop"]
    /\ UNCHANGED <<input, n, got, killed>>

Kill(p) ==
    /\ ~killed[p]
    /\ killed' = [killed EXCEPT ![p] = TRUE]
    /\ pc' = [pc EXCEPT ![p] = IF @ = "asleep" THEN "woken" ELSE @]
    /\ UNCHANGED <<input, n, got>>

ReadStep(p) ==
    ReadFull(p) \/ ReadEmpty(p) \/ ReadEof(p) \/ ReadChar(p) \/ Sleep(p) \/ WakeUp(p)

Next ==
    \/ EraseLine \/ Erase
    \/ \E c \in Char \cup {"\r", "nul"} : Type(c)
    \/ \E p \in Reader : ReadStep(p) \/ Kill(p) \/ \E c \in Counts : ReadCall(p, c)

Spec == Init /\ [][Next]_vars

-----------------------------------------------------------------------------
(***************************************************************************)
(* Properties.                                                             *)
(***************************************************************************)
TypeOK ==
    /\ buf \in [0..INPUT_BUF - 1 -> Char \cup {"nul"}]
    /\ {r, w, e} \subseteq 0..UintRange - 1
    /\ Waiting(r, w) <= Waiting(r, e) /\ Waiting(r, e) <= INPUT_BUF
    /\ pc \in [Reader -> {"user", "loop", "sleep", "asleep", "woken"}]
    /\ n \in [Reader -> Nat] /\ got \in [Reader -> Seq(Char)] /\ killed \in [Reader -> BOOLEAN]
    /\ Cardinality({p \in Reader : pc[p] \in {"loop", "sleep"}}) <= 1

Window(from, to) == [k \in 1..Waiting(from, to) |-> buf[Slot(Uint(from + k - 1))]]

\* The ring with its three wrapping indices is a line-edited terminal:
\* backspace and ^U reach no further back than the unfinished line, the full
\* ring refuses characters, and readers get what was typed in order.
Line == INSTANCE Tty
    WITH ready <- Window(r, w), line <- Window(w, e), Capacity <- INPUT_BUF, Ends <- {"\n", "^D"}
LineDiscipline == Line!Spec

\* No reader sleeps while there is something to read; a full ring always has
\* something to read, so that a line longer than the ring cannot block input
\* for ever; and a read returns at most one line and never a ^D.
ReadersServed ==
    /\ TypeOK
    /\ Unlocked => \A p \in Reader : pc[p] = "asleep" => r = w
    /\ Waiting(r, e) = INPUT_BUF => w = e
    /\ \A p \in Reader : \A k \in DOMAIN got[p] :
         got[p][k] # "^D" /\ (got[p][k] = "\n" => k = Len(got[p]) /\ pc[p] = "user")
=============================================================================
