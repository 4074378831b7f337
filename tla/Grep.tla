-------------------------------- MODULE Grep --------------------------------
(***************************************************************************)
(* The pattern matcher of grep.c, with a reference to check it against.    *)
(* The state is a pattern and a line, which grow a character at a time.    *)
(***************************************************************************)
EXTENDS Integers, Sequences, SequencesExt

CONSTANTS
    Letter,           \* characters without a meaning in patterns
    MaxRe, MaxText    \* bounds on the lengths of pattern and line

VARIABLES re, text

Init == re = <<>> /\ text = <<>>

Grow ==
    \/ Len(re) < MaxRe /\ (\E x \in Letter \cup {"^", "$", ".", "*"} : re' = Append(re, x)) /\ UNCHANGED text
    \/ Len(text) < MaxText /\ (\E x \in Letter : text' = Append(text, x)) /\ UNCHANGED re

RECURSIVE matchhere(_, _), matchstar(_, _, _)

matchhere(e, t) ==
    \/ e = <<>>
    \/ /\ e # <<>>
       /\ IF Len(e) > 1 /\ e[2] = "*" THEN matchstar(e[1], SubSeq(e, 3, Len(e)), t)
          ELSE IF e = <<"$">> THEN t = <<>>
          ELSE t # <<>> /\ e[1] \in {".", t[1]} /\ matchhere(Tail(e), Tail(t))

More(x, t) == t # <<>> /\ (x = t[1] \/ x = ".")

matchstar(x, e, t) == matchhere(e, t) \/ (More(x, t) /\ matchstar(x, e, Tail(t)))

RECURSIVE matchfrom(_, _)
matchfrom(e, t) == matchhere(e, t) \/ (t # <<>> /\ matchfrom(e, Tail(t)))

match(e, t) == IF e # <<>> /\ e[1] = "^" THEN matchhere(Tail(e), t) ELSE matchfrom(e, t)

Spec == Init /\ [][Grow]_<<re, text>>

-----------------------------------------------------------------------------
(***************************************************************************)
(* The reference: a pattern is a sequence of items, a character with or    *)
(* without a star; the positions of the line that a prefix of the items    *)
(* can end at are computed together.                                       *)
(***************************************************************************)
RECURSIVE Items(_)
Items(e) ==
    IF e = <<>> THEN <<>>
    ELSE IF Len(e) > 1 /\ e[2] = "*" THEN <<[ch |-> e[1], star |-> TRUE]>> \o Items(SubSeq(e, 3, Len(e)))
    ELSE <<[ch |-> e[1], star |-> FALSE]>> \o Items(Tail(e))

Fits(x, k) == x = "." \/ text[k] = x

Positions == 0..Len(text)
After(S, item, end) ==
    IF item.star THEN {j \in Positions : \E i \in S : i <= j /\ \A k \in i + 1..j : Fits(item.ch, k)}
    ELSE IF end /\ item.ch = "$" THEN S \cap {Len(text)}
    ELSE {j \in Positions : \E i \in S : j = i + 1 /\ Fits(item.ch, j)}

RECURSIVE Ends(_, _)
Ends(S, items) ==
    IF items = <<>> THEN S ELSE Ends(After(S, Head(items), Len(items) = 1), Tail(items))

Matches ==
    IF re # <<>> /\ re[1] = "^" THEN Ends({0}, Items(Tail(re))) # {}
    ELSE Ends(Positions, Items(re)) # {}

\* match, matchhere and matchstar, which try a star's repetitions from the
\* fewest on and give up where they must, find a match exactly when there is
\* one.
FindsMatches == match(re, text) <=> Matches
=============================================================================
