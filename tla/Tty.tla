-------------------------------- MODULE Tty --------------------------------
(***************************************************************************)
(* What the console promises its readers: characters are kept in the order *)
(* typed; the line being edited can lose its end or be dropped as a whole, *)
(* a finished line can only be read, and at most Capacity characters wait. *)
(***************************************************************************)
EXTENDS Naturals, Sequences

CONSTANTS Char, Ends, Capacity

VARIABLES
    ready,   \* characters readers may have
    line     \* characters that can still be edited

Init == ready = <<>> /\ line = <<>>

Full == Len(ready) + Len(line) = Capacity

Type(c) ==
    /\ ~Full
    /\ IF c \in Ends \/ Len(ready) + Len(line) + 1 = Capacity
       THEN ready' = Append(ready \o line, c) /\ line' = <<>>
       ELSE ready' = ready /\ line' = Append(line, c)

Erase ==
    /\ line # <<>>
    /\ line' = SubSeq(line, 1, Len(line) - 1) /\ UNCHANGED ready

EraseLine == line' = <<>> /\ UNCHANGED ready

Take ==
    /\ ready # <<>>
    /\ ready' = Tail(ready) /\ UNCHANGED line

Next == (\E c \in Char : Type(c)) \/ Erase \/ EraseLine \/ Take

Spec == Init /\ [][Next]_<<ready, line>>
=============================================================================
