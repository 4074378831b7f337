--------------------------------- MODULE Vm ---------------------------------
(***************************************************************************)
(* Physical pages and user address spaces: kalloc.c, the user half of      *)
(* vm.c, growproc and the memory of fork and wait in proc.c, sys_sbrk, the *)
(* page fault in trap.c and the memory of exec.c.                          *)
(*                                                                         *)
(* An operation touches one page table, its process's own, and the free    *)
(* list, so each is one step; the rest of the kernel takes and returns     *)
(* pages (stacks, pipes) at any time, so that any allocation may fail.     *)
(* The operators map e (free list, memory, one page table) to a new e, a C *)
(* function's result in e.r.                                               *)
(*                                                                         *)
(* Three places of the code leave what a model can follow: the kernel      *)
(* frees the frames it maps for itself, writes through a null pointer, or  *)
(* faults inside its fault handler.  The step that does so is modelled and *)
(* recorded in lost, and the behaviour ends there.                         *)
(***************************************************************************)
EXTENDS Integers, FiniteSets, FiniteSetsExt, SequencesExt

CONSTANTS
    Proc, initproc,
    NFRAME,        \* physical pages
    PGSIZE,        \* bytes of a page
    KPAGES,        \* pages below KERNBASE
    NPTENTRIES,    \* pages that one page table page maps
    Width,         \* bits of an address; the pages above KERNBASE are the kernel's
    Jobs           \* what the machine has and what its processes do, see job

Frame == 1..NFRAME
Page == 0..KPAGES - 1
Dir == 0..(KPAGES - 1) \div NPTENTRIES
KERNBASE == KPAGES * PGSIZE
NPAGE == 2 ^ Width \div PGSIZE
Uint(n) == n % (2 ^ Width)
PGROUNDUP(n) == Uint(n + PGSIZE - 1) \div PGSIZE   \* as a page number
Junk == 1

\* v2p(0), where the machine has no memory.  p2v of it is address 0.
Nowhere == NFRAME + 1

ASSUME VmAssumption ==
    /\ NFRAME \in Nat /\ PGSIZE \in Nat \ {0} /\ KPAGES \in Nat \ {0} /\ NPTENTRIES \in Nat \ {0}
    /\ initproc \in Proc /\ Width \in Nat /\ 2 ^ Width % PGSIZE = 0
    /\ KPAGES % NPTENTRIES = 0 /\ KPAGES + NFRAME + 1 < NPAGE
    /\ \A j \in Jobs : j.procs \subseteq Proc /\ j.frames \in 4..NFRAME /\ j.touch \subseteq 0..KPAGES

VARIABLES
    free,     \* the pages on kmem.freelist
    data,     \* what each page holds: 0, Junk or a value stored by a process
    mem,      \* each process's page table and size
    other,    \* pages held by the rest of the kernel
    expect,   \* what each process should read from each of its pages
    starved,  \* processes that have had a page fault without memory for it
    resized,  \* processes that have changed their size with sbrk since they exec'd
    panic,
    lost,     \* the function that left what is modelled, or "none"
    job       \* one of Jobs, the same throughout a behaviour: the slots in use
              \* (procs), the number of physical pages (frames), arguments of
              \* sbrk (sbrks), sizes of programs (images), pages that processes
              \* use (touch; KPAGES is any of the kernel's), bound on the pages
              \* that the rest of the kernel holds (other)

vars == <<free, data, mem, other, expect, starved, resized, panic, lost, job>>

\* dir is the page directory (0 for none), ktab the kernel's page table page,
\* tab the other ones, pte the mapped page, user those with PTE_U.
NoMem == [dir |-> 0, ktab |-> 0, tab |-> [k \in Dir |-> 0], pte |-> [v \in Page |-> 0], user |-> {}, sz |-> 0]

\* userinit: one page at address 0.
\* kinit1 and kinit2: every frame the kernel's own start does not take is free.
freerange(first, last) == first..last

Init ==
    /\ job \in Jobs
    /\ free = freerange(5, job.frames)
    /\ data = [f \in Frame |-> IF f > 4 THEN Junk ELSE 0]
    /\ mem = [p \in Proc |-> IF p = initproc
                THEN [dir |-> 1, ktab |-> 2, tab |-> [NoMem.tab EXCEPT ![0] = 3],
                      pte |-> [NoMem.pte EXCEPT ![0] = 4], user |-> {0}, sz |-> PGSIZE]
                ELSE NoMem]
    /\ other = {}
    /\ expect = [p \in Proc |-> [v \in Page |-> 0]]
    /\ starved = {} /\ resized = {}
    /\ panic = "none" /\ lost = "none"

\* Definitions named F_... are faulty variants of the definition that follows
\* them; each shows that some property below can tell the code from a
\* plausible bug.  They are not part of the specification.

E(m) == [free |-> free, data |-> data, m |-> m, r |-> 0, stop |-> FALSE, panic |-> "none", lost |-> "none"]
Fails(e) == [e EXCEPT !.r = -1]

(***************************************************************************)
(* kalloc.c                                                                *)
(***************************************************************************)
kalloc(e) ==
    IF e.free = {} THEN [e EXCEPT !.r = 0]
    ELSE [e EXCEPT !.r = Min(e.free), !.free = @ \ {Min(e.free)}]

\* kfree panics below end, where the kernel itself is, and from PHYSTOP on.
kfree(e, f) ==
    IF f \notin 1..job.frames THEN [e EXCEPT !.panic = "kfree"]
    ELSE [e EXCEPT !.free = @ \cup {f}, !.data[f] = Junk]

F_Zero(e, f) == e
Zero(e, f) == [e EXCEPT !.data[f] = 0]

(***************************************************************************)
(* vm.c                                                                    *)
(***************************************************************************)
\* mappages of one page, with walkpgdir; -1 when there is no page table page.
mappages(e, v, f, user) ==
    LET k == v \div NPTENTRIES
        t == IF e.m.tab[k] # 0 THEN [e EXCEPT !.r = e.m.tab[k]] ELSE kalloc(e)
    IN  IF t.r = 0 THEN Fails(e)
        ELSE IF e.m.pte[v] # 0 THEN [e EXCEPT !.panic = "remap"]
        ELSE [t EXCEPT !.m.tab[k] = t.r, !.m.pte[v] = f, !.r = 0,
                       !.m.user = IF user THEN @ \cup {v} ELSE @ \ {v}]

Unmapped(e, v) == [e.m EXCEPT !.pte[v] = 0, !.user = @ \ {v}]

\* kmap: the kernel's half maps the kernel itself (as frame 0) and then every
\* frame in order; the last page is a device.
Direct(v) == v - KPAGES \in 0..job.frames \/ v = NPAGE - 1

\* walkpgdir without alloc: whether there is a page table page for v.
HasTable(m, v) ==
    LET k == v \div NPTENTRIES IN
    IF v < KPAGES THEN m.tab[k] # 0 ELSE \E u \in 0..NPTENTRIES - 1 : Direct(k * NPTENTRIES + u)

Present(m, v) == IF v < KPAGES THEN m.pte[v] # 0 ELSE Direct(v)
FrameAt(m, v) == IF v < KPAGES THEN m.pte[v] ELSE v - KPAGES

\* deallocuvm skips NPTENTRIES pages where there is no page table page.  It
\* runs up to oldsz, wherever that is.
deallocuvm(e, oldsz, newsz) ==
    LET Visit[v \in 0..NPAGE + NPTENTRIES] ==
            IF v * PGSIZE >= oldsz THEN {}
            ELSE IF ~HasTable(e.m, v) THEN Visit[v + NPTENTRIES]
            ELSE {v} \cup Visit[v + 1]
        present == {v \in Visit[PGROUNDUP(newsz)] : Present(e.m, v)}
        Drop(v, g) ==
            LET h == kfree(g, FrameAt(g.m, v)) IN
            IF v < KPAGES THEN [h EXCEPT !.m = Unmapped(g, v)] ELSE [h EXCEPT !.lost = "deallocuvm"]
    IN  IF newsz >= oldsz THEN [e EXCEPT !.r = oldsz]
        ELSE [FoldSet(Drop, e, present) EXCEPT !.r = newsz]

Pages(from, to) == [k \in 1..(IF to > from THEN to - from ELSE 0) |-> from + k - 1]

\* One turn of the loop in allocuvm; the result of mappages is not looked at.
AllocPage(e, v, oldsz, newsz) ==
    LET g == kalloc(e) IN
    IF e.stop \/ e.panic # "none" THEN e
    ELSE IF g.r = 0 THEN [deallocuvm(g, newsz, oldsz) EXCEPT !.stop = TRUE]
    ELSE mappages(Zero(g, g.r), v, g.r, TRUE)

allocuvm(e, oldsz, newsz) ==
    LET g == FoldLeft(LAMBDA h, v : AllocPage(h, v, oldsz, newsz), [e EXCEPT !.stop = FALSE],
                      Pages(PGROUNDUP(oldsz), PGROUNDUP(newsz)))
    IN  IF newsz >= KERNBASE THEN [e EXCEPT !.r = 0]
        ELSE IF newsz < oldsz THEN [e EXCEPT !.r = oldsz]
        ELSE [g EXCEPT !.r = IF g.stop THEN 0 ELSE newsz]

\* A page directory and the kernel's page table page; what was allocated is
\* not freed on failure.
setupkvm(e) ==
    LET g == kalloc([e EXCEPT !.m = NoMem])
        h == kalloc(g)
    IN  IF g.r = 0 THEN Fails(g)
        ELSE IF h.r = 0 THEN Fails(h)
        ELSE [h EXCEPT !.m.dir = g.r, !.m.ktab = h.r, !.r = 0]

Tables(m) == {m.dir, m.ktab} \cup {m.tab[k] : k \in Dir}

freevm(e) ==
    [FoldSet(LAMBDA f, g : kfree(g, f), deallocuvm(e, KERNBASE, 0), Tables(e.m) \ {0}) EXCEPT !.m = NoMem]

\* What is read at p2v of the frame of v; p2v(Nowhere) is address 0 of m.
Contents(e, m, v) == e.data[IF m.pte[v] = Nowhere THEN m.pte[0] ELSE m.pte[v]]

\* One turn of the loop in copyuvm: from the page table m.  From KERNBASE on
\* the new page table has the kernel's pages already.
CopyPage(e, m, v) ==
    LET g == kalloc(e) IN
    IF e.r = -1 \/ e.panic # "none" THEN e
    ELSE IF ~Present(m, v) THEN [e EXCEPT !.panic = "copyuvm: page not present"]
    ELSE IF g.r = 0 THEN Fails(g)
    ELSE IF v >= KPAGES THEN [g EXCEPT !.panic = "remap"]
    ELSE mappages([g EXCEPT !.data[g.r] = Contents(g, m, v)], v, g.r, v \in m.user)

copyuvm(e, m) ==
    LET g == FoldLeft(LAMBDA h, v : CopyPage(h, m, v), setupkvm(e), Pages(0, PGROUNDUP(m.sz)))
    IN  IF g.r = -1 /\ g.m.dir # 0 THEN Fails(freevm(g)) ELSE g

(***************************************************************************)
(* Transitions.  A panic stops the system where it is.                     *)
(***************************************************************************)
Running == panic = "none" /\ lost = "none"
Alive(p) == Running /\ mem[p].dir # 0

\* e is the memory after an operation on q's page table.
Apply(e, q, sz) ==
    IF e.panic # "none"
    THEN panic' = e.panic /\ UNCHANGED <<free, data, mem, other, lost>>
    ELSE /\ free' = e.free /\ data' = e.data
         /\ mem' = [mem EXCEPT ![q] = [e.m EXCEPT !.sz = sz]]
         /\ lost' = e.lost
         /\ UNCHANGED <<other, panic>>

\* The pages e maps for q that were not mapped read as 0.
Fresh(q, m) == [expect EXCEPT ![q] = [v \in Page |-> IF mem[q].pte[v] = 0 \/ m.pte[v] = 0 THEN 0 ELSE @[v]]]

\* p has no memory of its own any more, or that of a new program.
Renewed(p, e) ==
    /\ expect' = IF e.panic = "none" THEN [expect EXCEPT ![p] = [v \in Page |-> 0]] ELSE expect
    /\ starved' = IF e.panic = "none" THEN starved \ {p} ELSE starved
    /\ resized' = IF e.panic = "none" THEN resized \ {p} ELSE resized

\* sys_sbrk and growproc: both add n to the size.
Sbrk(p, n) ==
    LET m == mem[p]
        new == Uint(m.sz + n)
        e == [E(m) EXCEPT !.r = m.sz]
    IN
    /\ Alive(p)
    /\ \E g \in {IF n > 0 THEN allocuvm(e, m.sz, new) ELSE IF n < 0 THEN deallocuvm(e, m.sz, new) ELSE e} :
        /\ Apply(g, p, IF g.r = 0 /\ n # 0 THEN m.sz ELSE Uint(g.r + n))
        /\ expect' = IF g.panic = "none" THEN Fresh(p, g.m) ELSE expect
    /\ resized' = IF mem'[p] # mem[p] THEN resized \cup {p} ELSE resized
    /\ UNCHANGED starved

\* fork: q's slot is free.
Fork(p, q) ==
    /\ Alive(p) /\ mem[q].dir = 0
    /\ \E g \in {copyuvm(E(NoMem), mem[p])} :
        /\ Apply(g, q, IF g.r = -1 THEN 0 ELSE mem[p].sz)
        /\ expect' = [expect EXCEPT ![q] = IF g.r = -1 \/ g.panic # "none" THEN @
                        ELSE [v \in Page |-> IF g.m.pte[v] = 0 THEN 0 ELSE expect[p][v]]]
    /\ starved' = IF p \in starved /\ mem'[q].dir # 0 THEN starved \cup {q} ELSE starved
    /\ resized' = IF p \in resized /\ mem'[q].dir # 0 THEN resized \cup {q} ELSE resized

\* loaduvm into the pages of a program of sz bytes.
loaduvm(e, sz) ==
    IF \E v \in Page : v * PGSIZE < sz /\ e.m.tab[v \div NPTENTRIES] = 0
    THEN [e EXCEPT !.panic = "loaduvm: address should exist"]
    ELSE e

\* The stack above a program of sz bytes: two pages, the lower one without
\* PTE_U, and the arguments copied to the upper one.  allocuvm does not notice
\* that it had no page table page for the upper one; uva2ka then takes what
\* it reads at address 0 for the pte: the arguments go where that word says
\* when it has PTE_P and PTE_U set (stray), and exec fails when it has not.
Pushed(g, low, stray) ==
    LET h == [g EXCEPT !.m.user = @ \ {low}]
    IN  IF g.r = 0 \/ g.panic # "none" THEN g
        ELSE IF ~HasTable(g.m, low) THEN [g EXCEPT !.panic = "clearpteu"]
        ELSE IF HasTable(g.m, low + 1) THEN h
        ELSE IF stray THEN [h EXCEPT !.lost = "uva2ka"]
        ELSE [h EXCEPT !.r = 0]

Stack(e, sz, stray) ==
    LET low == PGROUNDUP(sz) IN Pushed(allocuvm(e, low * PGSIZE, (low + 2) * PGSIZE), low, stray)

\* exec of a program of sz bytes; read says whether the file can be read.
\* On failure the new page table is freed and the process keeps its own.
OrFreed(e) == IF e.r = 0 /\ e.panic = "none" THEN Fails(freevm(e)) ELSE e

Loaded(e, sz, read, stray) ==
    IF e.panic # "none" THEN e
    ELSE IF read THEN OrFreed(Stack(e, sz, stray))
    ELSE Fails(freevm(e))

NewImage(sz, read, stray) ==
    LET k == setupkvm(E(NoMem))
        g == allocuvm(k, 0, sz)
    IN  IF k.r = -1 THEN k
        ELSE IF g.r = 0 THEN OrFreed(g)
        ELSE Loaded(loaduvm(g, sz), sz, read, stray)

KeepsOld(e, old) == [e EXCEPT !.m = old]

Exec(p, sz, read, stray) ==
    /\ Alive(p)
    /\ \E e \in {NewImage(sz, read, stray \/ mem[p].pte[0] = 0)} :
        IF e.panic # "none" THEN Apply(e, p, 0) /\ UNCHANGED <<expect, starved, resized>>
        ELSE IF e.r = -1
        THEN Apply(KeepsOld(e, mem[p]), p, mem[p].sz) /\ UNCHANGED <<expect, starved, resized>>
        ELSE \E old \in {freevm([e EXCEPT !.m = mem[p]])} :
                Apply([old EXCEPT !.m = e.m], p, e.r) /\ Renewed(p, old)

\* wait() frees the memory of a zombie.
Reap(p) ==
    /\ Alive(p) /\ p # initproc
    /\ \E e \in {freevm(E(mem[p]))} : Apply(e, p, 0) /\ Renewed(p, e)

\* T_PGFLT: the process touches a page that it may not use; KPAGES stands for
\* the kernel's pages, which are mapped.  The result of kalloc is not looked
\* at: without memory, memset clears the process's own page at address 0 (or
\* faults again, and again) and the page that is mapped is Nowhere.
Fault(p, v) ==
    LET g == kalloc(E(mem[p]))
        zero == mem[p].pte[0]
        z == IF g.r # 0 THEN Zero(g, g.r) ELSE IF zero = 0 THEN [g EXCEPT !.lost = "trap"] ELSE Zero(g, zero)
        h == mappages(z, v, IF g.r = 0 THEN Nowhere ELSE g.r, TRUE)
    IN
    /\ Alive(p) /\ v \notin mem[p].user
    /\ IF z.lost # "none" THEN Apply(z, p, mem[p].sz) /\ UNCHANGED expect
       ELSE IF v = KPAGES THEN Apply([z EXCEPT !.panic = "remap"], p, mem[p].sz) /\ UNCHANGED expect
       ELSE Apply(h, p, mem[p].sz) /\ expect' = Fresh(p, h.m)
    /\ starved' = IF g.r = 0 THEN starved \cup {p} ELSE starved
    /\ UNCHANGED resized

\* The process writes to one of its pages.
Store(p, v) ==
    /\ Alive(p) /\ v \in mem[p].user
    /\ data' = IF mem[p].pte[v] = Nowhere THEN data ELSE [data EXCEPT ![mem[p].pte[v]] = 2]
    /\ expect' = [expect EXCEPT ![p][v] = 2]
    /\ UNCHANGED <<free, mem, other, starved, resized, panic, lost>>

\* A kernel stack or a pipe takes a page, and gives it back.
Take ==
    /\ Running /\ Cardinality(other) < job.other /\ free # {}
    /\ other' = other \cup {Min(free)} /\ free' = free \ {Min(free)}
    /\ UNCHANGED <<data, mem, expect, starved, resized, panic, lost>>

Give(f) ==
    /\ Running /\ f \in other
    /\ other' = other \ {f} /\ free' = free \cup {f} /\ data' = [data EXCEPT ![f] = Junk]
    /\ UNCHANGED <<mem, expect, starved, resized, panic, lost>>

Halted == ~Running /\ UNCHANGED <<free, data, mem, other, expect, starved, resized, panic, lost>>

Step ==
    \/ \E p \in job.procs :
        \/ \E n \in job.sbrks : Sbrk(p, n)
        \/ \E q \in job.procs : Fork(p, q)
        \/ \E sz \in job.images, read, stray \in BOOLEAN : Exec(p, sz, read, stray)
        \/ Reap(p)
        \/ \E v \in job.touch : Fault(p, v)
        \/ \E v \in job.touch : Store(p, v)
    \/ Take
    \/ \E f \in Frame : Give(f)
    \/ Halted

Next == Step /\ UNCHANGED job

Spec == Init /\ [][Next]_vars

-----------------------------------------------------------------------------
(***************************************************************************)
(* Properties.                                                             *)
(***************************************************************************)
\* Page tables map pages to frames, and a page with PTE_U is present.
TypeOK ==
    /\ free \subseteq Frame /\ other \subseteq Frame
    /\ data \in [Frame -> {0, Junk, 2}]
    /\ \A p \in Proc :
        /\ mem[p].tab \in [Dir -> Frame \cup {0}] /\ mem[p].pte \in [Page -> Frame \cup {0, Nowhere}]
        /\ \A v \in mem[p].user : mem[p].pte[v] # 0
        /\ \A v \in Page : mem[p].pte[v] # 0 => mem[p].tab[v \div NPTENTRIES] # 0
        /\ mem[p].sz \in 0..2 ^ Width - 1

\* A physical page has one use: it is free, held by the kernel, a page table
\* page of one process, or one page of one process.  In particular nothing
\* is freed twice or while it is mapped, whichever allocation failed.  It
\* holds as far as behaviours are followed: deallocuvm frees the kernel's own
\* frames for a process whose size sys_sbrk has taken past KERNBASE (lost).
\* kfree panics only for such a process, or one that was given Nowhere; and
\* fork finds every page below the size of a process that has not used sbrk
\* since its exec, while one that has may make copyuvm panic.
Uses ==
    {<<f, "free">> : f \in free} \cup {<<f, "other">> : f \in other}
    \cup UNION {{<<mem[p].dir, p, "dir">>, <<mem[p].ktab, p, "ktab">>} : p \in Proc}
    \cup UNION {{<<mem[p].tab[k], p, "tab", k>> : k \in Dir} : p \in Proc}
    \cup UNION {{<<mem[p].pte[v], p, "page", v>> : v \in Page} : p \in Proc}

\* A process reads from its memory what it wrote there, what its parent had
\* there when it was forked, or 0 in a page it has not written: no other
\* process's writes and no left-over contents.  A process that had a page
\* fault when no memory was left, and its children, are excepted: trap() has
\* cleared their page at address 0.
MemoryPrivate ==
    lost = "none" => \A p \in Proc \ starved, v \in Page :
        mem[p].pte[v] # 0 => data[mem[p].pte[v]] = expect[p][v]

=============================================================================
