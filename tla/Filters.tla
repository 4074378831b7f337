------------------------------ MODULE Filters ------------------------------
(***************************************************************************)
(* The loops of wc, cat and gets around read.  The state is the input, cut *)
(* into what each read returns: pipes and the console return less than was *)
(* asked for, at any place.                                                *)
(***************************************************************************)
EXTENDS Integers, Sequences, SequencesExt, FiniteSets

CONSTANTS
    Chars,     \* the characters of the input
    BufSize,   \* sizeof(buf)
    MaxInput   \* bound on the length of the input

VARIABLE reads

Input == FlattenSeq(reads)

Init == reads = <<>>
Read(chunk) == Len(Input) + Len(chunk) <= MaxInput /\ reads' = Append(reads, chunk)
Next == \E k \in 1..BufSize : \E chunk \in [1..k -> Chars] : Read(chunk)
Spec == Init /\ [][Next]_reads

Space == {" ", "\r", "\t", "\n", "vt"}

\* One character in wc's inner loop, and the whole of wc.
Count(t, ch) ==
    [l |-> IF ch = "\n" THEN t.l + 1 ELSE t.l,
     w |-> IF ch \notin Space /\ ~t.inword THEN t.w + 1 ELSE t.w,
     c |-> t.c + 1,
     inword |-> ch \notin Space]
wc(chunks) ==
    LET Loop(t, buf) == FoldLeft(Count, t, buf)
    IN FoldLeft(Loop, [l |-> 0, w |-> 0, c |-> 0, inword |-> FALSE], chunks)

\* cat: a read fills the front of buf, and as much of it is written.
Copy(t, chunk) ==
    LET buf == chunk \o SubSeq(t.buf, Len(chunk) + 1, BufSize)
    IN [buf |-> buf, out |-> t.out \o SubSeq(buf, 1, Len(chunk))]
cat(chunks) == FoldLeft(Copy, [buf |-> [k \in 1..BufSize |-> "nul"], out |-> <<>>], chunks).out

\* gets with room for max characters, a read of one character each.
EndsLine(ch) == ch \in {"\n", "\r"}
RECURSIVE gets(_, _, _)
gets(s, i, max) ==
    IF i + 1 >= max \/ s = <<>> THEN <<>>
    ELSE <<Head(s)>> \o (IF EndsLine(Head(s)) THEN <<>> ELSE gets(Tail(s), i + 1, max))

\* getcmd of the shell, called until it returns nothing.
RECURSIVE LinesOf(_, _)
LinesOf(s, max) ==
    LET line == gets(s, 0, max)
    IN IF line = <<>> THEN <<>> ELSE <<line>> \o LinesOf(SubSeq(s, Len(line) + 1, Len(s)), max)

-----------------------------------------------------------------------------
WordStarts == {k \in 1..Len(Input) : Input[k] \notin Space /\ (k = 1 \/ Input[k - 1] \in Space)}

\* However the reads cut the input, wc counts the lines, words and characters
\* of the whole, a word that spans two reads once, and cat copies it; gets
\* returns it line by line, a line too long for its buffer in pieces that are
\* all full but the last, and loses nothing.
CutsDoNotMatter ==
    /\ wc(reads).c = Len(Input)
    /\ wc(reads).l = Cardinality({k \in 1..Len(Input) : Input[k] = "\n"})
    /\ wc(reads).w = Cardinality(WordStarts)
    /\ cat(reads) = Input
    /\ \A max \in 2..BufSize + 1 :
        LET lines == LinesOf(Input, max)
        IN  /\ FlattenSeq(lines) = Input
            /\ \A k \in DOMAIN lines :
                /\ Len(lines[k]) < max
                /\ \A j \in 1..Len(lines[k]) - 1 : ~EndsLine(lines[k][j])
                /\ Len(lines[k]) = max - 1 \/ k = Len(lines) \/ EndsLine(Last(lines[k]))
=============================================================================
