----------------------------- MODULE StringLib -----------------------------
(***************************************************************************)
(* Memory and number functions of string.c, ulib.c, printf.c and console.c *)
(* with references to check them against.  Memory maps addresses to bytes, *)
(* and an operator returns the memory its C function leaves.  The state is *)
(* the arguments of one call.                                              *)
(***************************************************************************)
EXTENDS Integers, Sequences, SequencesExt, FiniteSets, FiniteSetsExt

CONSTANTS
    Size,      \* addresses are 0..Size - 1
    Byte,      \* values of bytes; 0 ends a string
    Bits,      \* width of int
    Slash,     \* the byte '/'
    DIRSIZ

VARIABLES
    mem, dst, src, n,   \* arguments of the memory functions
    x,                  \* argument of printint
    called

svars == <<mem, dst, src, n, x, called>>

Init ==
    /\ mem = [a \in 0..Size - 1 |-> 0] /\ dst = 0 /\ src = 0 /\ n = 0
    /\ x = 0 /\ called = FALSE

CallMemory ==
    /\ ~called /\ called' = TRUE
    /\ mem' \in [0..Size - 1 -> Byte]
    /\ n' \in 0..Size /\ dst' \in 0..Size - n' /\ src' \in 0..Size - n'
    /\ UNCHANGED x

CallNumber ==
    /\ ~called /\ called' = TRUE
    /\ x' \in -(2 ^ (Bits - 1))..2 ^ (Bits - 1) - 1
    /\ UNCHANGED <<mem, dst, src, n>>

Next == CallMemory \/ CallNumber

\* Definitions named F_... are faulty variants of the definition that follows
\* them; each shows that some property below can tell the code from a
\* plausible bug.  They are not part of the specification.

RECURSIVE Up(_, _, _, _), Down(_, _, _, _)
Up(m, d, s, k) == IF k = 0 THEN m ELSE Up([m EXCEPT ![d] = m[s]], d + 1, s + 1, k - 1)
Down(m, d, s, k) == IF k = 0 THEN m ELSE Down([m EXCEPT ![d - 1] = m[s - 1]], d - 1, s - 1, k - 1)

F_Overlaps(d, s, k) == s < d /\ s + k < d
Overlaps(d, s, k) == s < d /\ s + k > d

memmove(m, d, s, k) == IF Overlaps(d, s, k) THEN Down(m, d + k, s + k, k) ELSE Up(m, d, s, k)

\* memmove of ulib.c, which user programs have, only goes up.
ulib_memmove(m, d, s, k) == Up(m, d, s, k)

\* Copies up to k bytes until a 0 is copied: the memory, where s stands then
\* and what is left of k.
RECURSIVE CopyString(_, _, _, _)
CopyString(m, s, t, k) ==
    IF k = 0 THEN <<m, s, 0>>
    ELSE IF m[t] = 0 THEN <<[m EXCEPT ![s] = 0], s + 1, k - 1>>
    ELSE CopyString([m EXCEPT ![s] = m[t]], s + 1, t + 1, k - 1)

strncpy(m, s, t, k) ==
    LET c == CopyString(m, s, t, k)
    IN [a \in DOMAIN m |-> IF a \in c[2]..c[2] + c[3] - 1 THEN 0 ELSE c[1][a]]

safestrcpy(m, s, t, k) ==
    IF k = 0 THEN m ELSE LET c == CopyString(m, s, t, k - 1) IN [c[1] EXCEPT ![c[2]] = 0]

RECURSIVE memcmp(_, _, _, _), strncmp(_, _, _, _)
memcmp(m, p, q, k) ==
    IF k = 0 THEN 0 ELSE IF m[p] # m[q] THEN m[p] - m[q] ELSE memcmp(m, p + 1, q + 1, k - 1)
strncmp(m, p, q, k) ==
    IF k = 0 THEN 0 ELSE IF m[p] = 0 \/ m[p] # m[q] THEN m[p] - m[q] ELSE strncmp(m, p + 1, q + 1, k - 1)

\* printint: a sign, and the digits from the first on
Uint(k) == k % (2 ^ Bits)
RECURSIVE Digits(_, _)
Digits(u, base) == (IF u \div base = 0 THEN <<>> ELSE Digits(u \div base, base)) \o <<u % base>>
printint(xx, base, sgn) ==
    [neg |-> sgn /\ xx < 0, digits |-> Digits(IF sgn /\ xx < 0 THEN Uint(-xx) ELSE Uint(xx), base)]

atoi(digits) == FoldLeft(LAMBDA k, d : Uint(k * 10 + d), 0, digits)

\* skipelem on the path at a, where the byte Slash is '/' and the memory's end is
\* a 0: where the next element starts and the name found, or NoElem.
Byte0(m, a) == IF a \in DOMAIN m THEN m[a] ELSE 0
RECURSIVE SkipSlashes(_, _), ElemEnd(_, _)
SkipSlashes(m, a) == IF Byte0(m, a) = Slash THEN SkipSlashes(m, a + 1) ELSE a
ElemEnd(m, a) == IF Byte0(m, a) \in {Slash, 0} THEN a ELSE ElemEnd(m, a + 1)
NoElem == [path |-> -1, name |-> <<>>]
skipelem(m, a) ==
    LET s == SkipSlashes(m, a)
        e == ElemEnd(m, s)
        len == Min({e - s, DIRSIZ})
    IN IF Byte0(m, s) = 0 THEN NoElem
       ELSE [path |-> SkipSlashes(m, e), name |-> [k \in 1..len |-> m[s + k - 1]]]

\* namex's loop: the names looked up, and for each whether it is the last,
\* where nameiparent stops.
RECURSIVE Walk(_, _)
Walk(m, a) ==
    LET r == skipelem(m, a)
    IN IF r = NoElem THEN <<>>
       ELSE <<[name |-> r.name, last |-> Byte0(m, r.path) = 0]>> \o Walk(m, r.path)

-----------------------------------------------------------------------------
Dst == dst..dst + n - 1
Disjoint == Dst \cap (src..src + n - 1) = {}
Moved == [a \in DOMAIN mem |-> IF a \in Dst THEN mem[a - dst + src] ELSE mem[a]]
Nuls == {k \in 0..n - 1 : mem[src + k] = 0}
Diffs == {k \in 0..n - 1 : mem[src + k] # mem[dst + k]}
Diff(S) == IF S = {} THEN 0 ELSE mem[src + Min(S)] - mem[dst + Min(S)]
\* The maximal runs of bytes other than '/' and 0 in the string at src, cut to DIRSIZ.
Elements ==
    LET end == Min({a \in src..Size : Byte0(mem, a) = 0})
        Starts == {a \in src..end - 1 : mem[a] # Slash /\ (a = src \/ mem[a - 1] = Slash)}
        Stop(a) == Min({b \in a..end : b = end \/ mem[b] = Slash})
        Name(a) == SubSeq([k \in 1..Stop(a) - a |-> mem[a + k - 1]], 1, Min({DIRSIZ, Stop(a) - a}))
    IN [i \in 1..Cardinality(Starts) |->
           LET a == CHOOSE s \in Starts : Cardinality({t \in Starts : t < s}) = i - 1
           IN [name |-> Name(a), last |-> i = Cardinality(Starts)]]
Value(digits, base) == FoldLeft(LAMBDA k, d : k * base + d, 0, digits)

\* memmove moves the bytes the source had before the call, however the two
\* ranges overlap, and that of ulib.c when the destination does not begin
\* inside the source, as in grep, its only overlapping use; strncpy pads with zeros, and safestrcpy keeps all of the
\* string that fits and always ends it, neither beyond n bytes; comparisons
\* return the first difference, strncmp none behind the end of the strings;
\* printint's digits denote the number, the least int included, and atoi
\* reads them back; namex's walk meets every element of a path in order and
\* takes only the last one for the last, trailing slashes or not.
LibraryRight ==
    /\ Walk(mem, src) = Elements
    /\ memmove(mem, dst, src, n) = Moved
    /\ dst <= src \/ Disjoint => ulib_memmove(mem, dst, src, n) = Moved
    /\ Disjoint => strncpy(mem, dst, src, n) =
         [a \in DOMAIN mem |-> IF a \notin Dst THEN mem[a]
                               ELSE IF \E k \in Nuls : k <= a - dst THEN 0 ELSE mem[a - dst + src]]
    /\ Disjoint /\ n > 0 =>
         LET r == safestrcpy(mem, dst, src, n)
             len == Min(Nuls \cup {n - 1})
         IN /\ r[dst + len] = 0 /\ \A k \in 0..len - 1 : r[dst + k] = mem[src + k]
            /\ \A a \in DOMAIN mem \ Dst : r[a] = mem[a]
    /\ memcmp(mem, src, dst, n) = Diff(Diffs)
    /\ strncmp(mem, src, dst, n) = Diff({k \in Diffs : \A j \in Nuls : k <= j})
    /\ LET dec == printint(x, 10, TRUE)
           hex == printint(x, 16, FALSE)
       IN /\ Value(dec.digits, 10) = (IF dec.neg THEN -x ELSE x) /\ (dec.neg <=> x < 0)
          /\ Value(hex.digits, 16) = Uint(x)
          /\ x >= 0 => atoi(dec.digits) = x
          /\ \A r \in {dec, hex} : Len(r.digits) > 1 => r.digits[1] # 0
=============================================================================
