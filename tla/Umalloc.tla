------------------------------ MODULE Umalloc ------------------------------
(***************************************************************************)
(* The user-level allocator of umalloc.c: a circular free list of blocks   *)
(* kept in the order of their addresses.  An address counts units of       *)
(* sizeof(Header); base is at address 0, below the heap.  The operators    *)
(* map the heap h to a new one.                                            *)
(***************************************************************************)
EXTENDS Integers, FiniteSets, FiniteSetsExt

CONSTANTS
    MaxUnit,   \* last unit of memory the kernel can give
    MinCore,   \* 4096 in morecore
    Header,    \* sizeof(Header)
    Sizes      \* the values of nbytes in malloc

VARIABLES
    h,      \* ptr and size of the headers, freep, and the program break; history:
            \* core, the units sbrk has given
    used    \* what the program has: header addresses, with the bytes asked for

vars == <<h, used>>

base == 0
Null == -1

Init ==
    /\ h = [ptr |-> [a \in 0..MaxUnit |-> Null], size |-> [a \in 0..MaxUnit |-> 0], freep |-> Null, brk |-> 1, core |-> 0]
    /\ used = {}

\* Definitions named F_... are faulty variants of the definition that follows
\* them; each shows that some property below can tell the code from a
\* plausible bug.  They are not part of the specification.

(***************************************************************************)
(* free(): bp goes after the block p of the list, joined with the block    *)
(* above and the block below where they touch.                             *)
(***************************************************************************)
Between(g, bp, p) ==
    \/ bp > p /\ bp < g.ptr[p]
    \/ p >= g.ptr[p] /\ (bp > p \/ bp < g.ptr[p])

RECURSIVE Place(_, _, _)
Place(g, bp, p) == IF Between(g, bp, p) THEN p ELSE Place(g, bp, g.ptr[p])

\* A header that has become part of a block is not read again; the model
\* clears it.
Forget(g, a) == [g EXCEPT !.size[a] = 0, !.ptr[a] = Null]

JoinUp(g, bp, p) ==
    LET q == g.ptr[p] IN
    IF bp + g.size[bp] = q
    THEN Forget([g EXCEPT !.size[bp] = @ + g.size[q], !.ptr[bp] = g.ptr[q]], q)
    ELSE [g EXCEPT !.ptr[bp] = q]

F_JoinDown(g, bp, p) == [g EXCEPT !.ptr[p] = bp]
JoinDown(g, bp, p) ==
    IF p + g.size[p] = bp
    THEN Forget([g EXCEPT !.size[p] = @ + g.size[bp], !.ptr[p] = g.ptr[bp]], bp)
    ELSE [g EXCEPT !.ptr[p] = bp]

free(g, bp) ==
    LET p == Place(g, bp, g.freep)
    IN [JoinDown(JoinUp(g, bp, p), bp, p) EXCEPT !.freep = p]

(***************************************************************************)
(* morecore(): sbrk moves the break by n, or by 2n after sys_sbrk has      *)
(* counted n twice; then there is a gap before the next block.             *)
(***************************************************************************)
Core(nu) == IF nu < MinCore THEN MinCore ELSE nu

CanGrow(g, nu) == g.brk + Core(nu) - 1 <= MaxUnit

morecore(g, nu, gap) ==
    LET hp == g.brk
        n == Core(nu)
    IN free([g EXCEPT !.size[hp] = n, !.core = @ + n, !.brk = hp + n + (IF gap THEN n ELSE 0)], hp)

(***************************************************************************)
(* malloc(): first fit from freep; the tail of a larger block is cut off.  *)
(* The result is the heap and the header's address.                        *)
(***************************************************************************)
Units(nbytes) == (nbytes + Header - 1) \div Header + 1

Carve(g, nu, prevp, p) ==
    LET q == p + g.size[p] - nu IN
    IF g.size[p] = nu
    THEN <<[g EXCEPT !.ptr[prevp] = g.ptr[p], !.ptr[p] = Null, !.freep = prevp], p>>
    ELSE <<[g EXCEPT !.size[p] = @ - nu, !.size[q] = nu, !.freep = prevp], q>>

RECURSIVE Search(_, _, _, _, _, _)
Search(g, nu, prevp, p, ok, gap) ==
    IF g.size[p] >= nu THEN Carve(g, nu, prevp, p)
    ELSE IF p # g.freep THEN Search(g, nu, p, g.ptr[p], ok, gap)
    ELSE IF ~ok \/ ~CanGrow(g, nu) THEN <<g, Null>>
    ELSE LET more == morecore(g, nu, gap)
         IN Search(more, nu, more.freep, more.ptr[more.freep], ok, gap)

Started(g) == IF g.freep = Null THEN [g EXCEPT !.ptr[base] = base, !.freep = base] ELSE g

\* A call; ok and gap are the kernel's choices should sbrk be called.
Malloc(nbytes, ok, gap) ==
    LET g == Started(h)
        found == Search(g, Units(nbytes), g.freep, g.ptr[g.freep], ok, gap)
    IN /\ h' = found[1]
       /\ used' = IF found[2] = Null THEN used ELSE used \cup {<<found[2], nbytes>>}

Free(b) == h' = free(h, b[1]) /\ used' = used \ {b}

Next ==
    \/ \E nbytes \in Sizes, ok, gap \in BOOLEAN : Malloc(nbytes, ok, gap)
    \/ \E b \in used : Free(b)

Spec == Init /\ [][Next]_vars

-----------------------------------------------------------------------------
RECURSIVE Chain(_, _)
Chain(p, seen) == IF p \in seen THEN seen ELSE Chain(h.ptr[p], seen \cup {p})

FreeBlocks == IF h.freep = Null THEN {} ELSE Chain(h.ptr[base], {base}) \ {base}
Extent(a) == a..a + h.size[a] - 1

Blocks == FreeBlocks \cup {u[1] : u \in used}

\* After any sequence of malloc and free, the free list is one circle in the
\* order of the addresses; free blocks and blocks in use do not overlap and
\* are together all that sbrk has given, no two free blocks touch (free() has
\* joined them), and a block in use still has the room that was asked for.
HeapSound ==
    /\ \A a, b \in Blocks : a # b => Extent(a) \cap Extent(b) = {}
    /\ FreeBlocks \cap {u[1] : u \in used} = {}
    /\ Cardinality(UNION {Extent(a) : a \in Blocks}) = h.core
    /\ \A a, b \in FreeBlocks : a + h.size[a] # b
    /\ Cardinality({a \in FreeBlocks \cup {base} : h.ptr[a] <= a}) <= 1
    /\ h.freep \in FreeBlocks \cup {base, Null}
    /\ \A u \in used : (h.size[u[1]] - 1) * Header >= u[2]
=============================================================================
