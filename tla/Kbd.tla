-------------------------------- MODULE Kbd --------------------------------
(***************************************************************************)
(* The keyboard driver, kbd.c: kbdgetc turns the keyboard's scan codes     *)
(* into characters.  The keyboard (external) sends a key's code when it is *)
(* pressed or repeats, and the code with bit 7 set when it is released,    *)
(* each after the byte E0 for the keys of the extended block.              *)
(***************************************************************************)
EXTENDS Integers, Sequences, FiniteSets

CONSTANTS Keys   \* the keys used, [code |-> 0..127, ext |-> BOOLEAN] each

VARIABLES
    down,    \* keys held down
    wire,    \* scan codes the driver has not read
    shift,   \* kbdgetc's static variable, as the set of its bits
    c        \* what the last call of kbdgetc returned

vars == <<down, wire, shift, c>>

\* kbd.h: what a code, 80 (hex) added for the extended block, does to shift.
shiftcode(d) == CASE d \in {29, 157} -> {"CTL"} [] d \in {42, 54} -> {"SHIFT"}
                  [] d \in {56, 184} -> {"ALT"} [] OTHER -> {}
togglecode(d) == CASE d = 58 -> {"CAPSLOCK"} [] d = 69 -> {"NUMLOCK"}
                   [] d = 70 -> {"SCROLLLOCK"} [] OTHER -> {}

\* The maps of kbd.h for a letter, a digit, enter and an arrow; NO for others.
charcode(bits, d) ==
    LET row == IF "CTL" \in bits THEN 3 ELSE IF "SHIFT" \in bits THEN 2 ELSE 1
    IN CASE d = 30 -> <<"a", "A", "^A">>[row] [] d = 2 -> <<"1", "!", "NO">>[row]
         [] d = 28 -> <<"\n", "\n", "\r">>[row] [] d = 200 -> "KEY_UP" [] OTHER -> "NO"

Init == down = {} /\ wire = <<>> /\ shift = {} /\ c = "NO"

Prefix(k) == IF k.ext THEN <<224>> ELSE <<>>

Press(k) ==
    /\ wire = <<>>
    /\ down' = down \cup {k} /\ wire' = Append(Prefix(k), k.code)
    /\ UNCHANGED <<shift, c>>

Release(k) ==
    /\ wire = <<>> /\ k \in down
    /\ down' = down \ {k} /\ wire' = Append(Prefix(k), k.code + 128)
    /\ UNCHANGED <<shift, c>>

\* Definitions named F_... are faulty variants of the definition that follows
\* them; each shows that some property below can tell the code from a
\* plausible bug.  They are not part of the specification.

\* The key a code above 7F releases.
F_Released(d) == d
Released(d) == IF "E0ESC" \in shift THEN d ELSE d - 128

Toggle(S, T) == (S \ T) \cup (T \ S)

SwapCase(ch) == CASE ch = "a" -> "A" [] ch = "A" -> "a" [] OTHER -> ch

Kbdgetc ==
    /\ wire # <<>>
    /\ wire' = Tail(wire)
    /\ LET d == Head(wire) IN
       IF d = 224
       THEN shift' = shift \cup {"E0ESC"} /\ c' = "NO"
       ELSE IF d >= 128
       THEN shift' = shift \ (shiftcode(Released(d)) \cup {"E0ESC"}) /\ c' = "NO"
       ELSE LET code == IF "E0ESC" \in shift THEN d + 128 ELSE d
                bits == Toggle((shift \ {"E0ESC"}) \cup shiftcode(code), togglecode(code))
                ch == charcode(bits, code)
            IN shift' = bits /\ c' = IF "CAPSLOCK" \in bits THEN SwapCase(ch) ELSE ch
    /\ UNCHANGED down

Next == Kbdgetc \/ \E k \in Keys : Press(k) \/ Release(k)

Spec == Init /\ [][Next]_vars

-----------------------------------------------------------------------------
Modifier(k) == shiftcode(IF k.ext THEN k.code + 128 ELSE k.code)
Held(m) == {k \in down : m \in Modifier(k)}

\* Whatever keys are pressed, repeat and are released in whatever order, no
\* modifier sticks: when the keyboard is quiet, SHIFT, CTL and ALT are set only
\* while one of their keys is down, always so for a modifier with one key in
\* use, and no E0 is pending.  (Of two keys held for one modifier, the release
\* of either clears it.)
NoStuckModifier ==
    /\ shift \subseteq {"SHIFT", "CTL", "ALT", "CAPSLOCK", "NUMLOCK", "SCROLLLOCK", "E0ESC"}
    /\ wire = <<>> =>
        /\ "E0ESC" \notin shift
        /\ \A m \in {"SHIFT", "CTL", "ALT"} :
             /\ m \in shift => Held(m) # {}
             /\ Cardinality({k \in Keys : m \in Modifier(k)}) = 1 /\ Held(m) # {} => m \in shift
=============================================================================
