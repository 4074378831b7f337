------------------------------- MODULE SysArg -------------------------------
(***************************************************************************)
(* The arguments of system calls: syscall.c, argfd and sys_exec's loop.    *)
(* The state is the size of a process, what the addresses hold, its stack  *)
(* pointer and its descriptors when it traps; addresses and sizes are      *)
(* uints, which wrap around.  sys_sbrk may take the size past KERNBASE,    *)
(* where the addresses below it are not all the process's own.             *)
(***************************************************************************)
EXTENDS Integers, FiniteSetsExt

CONSTANTS
    UintRange,  \* 2^32
    KERNBASE,   \* 2^31, where the kernel begins
    WORD,       \* 4: bytes of an int
    Byte,       \* values of a byte
    Decode,     \* the uint that WORD bytes stand for
    NOFILE, MAXARG,
    MemSizes,   \* bound: the sizes of processes to consider
    Memories    \* bound: the contents of the address space to consider

SysArgAssumption ==
    /\ KERNBASE \in Nat /\ UintRange \in Nat /\ KERNBASE > 0 /\ 2 * KERNBASE <= UintRange
    /\ WORD \in 1..KERNBASE /\ NOFILE \in Nat /\ MAXARG \in Nat \ {0}
    /\ 0 \in Byte /\ Decode \in [[0..WORD - 1 -> Byte] -> 0..UintRange - 1]
    /\ MemSizes \subseteq 0..UintRange - 1 /\ Memories \subseteq [0..UintRange - 1 -> Byte]

VARIABLES
    sz,        \* proc->sz
    user,      \* the bytes at all addresses
    esp,       \* proc->tf->esp
    ofile      \* the descriptors that are open

args == <<sz, user, esp, ofile>>

Fail == -1
Addr == 0..UintRange - 1
Uint(x) == x % UintRange
AsInt(x) == IF 2 * x < UintRange THEN x ELSE x - UintRange

Init ==
    /\ sz \in MemSizes /\ user \in Memories /\ ofile = {}
    /\ esp \in Addr

\* The process opens and closes files between its calls.
Open(fd) == ofile' = ofile \cup {fd} /\ UNCHANGED <<sz, user, esp>>
Close(fd) == ofile' = ofile \ {fd} /\ UNCHANGED <<sz, user, esp>>
Next == \E fd \in 0..NOFILE - 1 : Open(fd) \/ Close(fd)

Spec == Init /\ [][Next]_args

\* Definitions named F_... are faulty variants of the definition that follows
\* them; each shows that some property below can tell the code from a
\* plausible bug.  They are not part of the specification.

\* The test of fetchint and argptr.
InRange(addr, size) == ~(addr >= sz \/ Uint(addr + size) > sz)

WordAt(addr) == Decode[[k \in 0..WORD - 1 |-> user[Uint(addr + k)]]]

fetchint(addr) == IF InRange(addr, WORD) THEN WordAt(addr) ELSE Fail

Nuls(addr) == {s \in addr..sz - 1 : user[s] = 0}
fetchstr(addr) == IF addr >= sz \/ Nuls(addr) = {} THEN Fail ELSE Min(Nuls(addr)) - addr

argint(n) == fetchint(Uint(esp + WORD + WORD * n))
F_Fits(i, size) == Uint(i + size) <= sz
Fits(i, size) == InRange(i, size)
argptr(n, size) == LET i == argint(n) IN IF i # Fail /\ Fits(i, size) THEN i ELSE Fail
argstr(n) == LET addr == argint(n) IN IF addr = Fail THEN Fail ELSE fetchstr(addr)
argfd(n) ==
    LET fd == AsInt(argint(n))
    IN IF argint(n) # Fail /\ fd \in 0..NOFILE - 1 /\ fd \in ofile THEN fd ELSE Fail

\* sys_read and sys_write: the buffer, if the call goes ahead.
Buffer == IF argfd(0) = Fail \/ argint(2) = Fail THEN Fail ELSE argptr(1, argint(2))

\* sys_exec: word i of argv; the loop gets to word k, and ends with the word 0
\* there; the outcome is the number of arguments.
argv(i) == fetchint(Uint(argint(1) + WORD * i))
Reaches(k) == \A i \in 0..k - 1 : argv(i) \notin {Fail, 0} /\ fetchstr(argv(i)) # Fail
EndsAt(k) == Reaches(k) /\ argv(k) = 0
Arguments ==
    IF argstr(0) # Fail /\ argint(1) # Fail /\ \E k \in 0..MAXARG - 1 : EndsAt(k)
    THEN CHOOSE k \in 0..MAXARG - 1 : EndsAt(k)
    ELSE Fail

-----------------------------------------------------------------------------
Mem == 0..sz - 1
IsString(a) == \E e \in Mem : a <= e /\ user[e] = 0

\* k bytes at a end at most at sz; or else the size of the process is past
\* KERNBASE and they run over the end of the address space.
Covered(a, k) == a \in Mem /\ (a + k <= sz \/ (sz > KERNBASE /\ a + k >= UintRange))

TypeOK ==
    /\ sz \in Addr /\ user \in [Addr -> Byte] /\ esp \in Addr
    /\ ofile \subseteq 0..NOFILE - 1

\* What the kernel goes on to use lies below the size of the process, although
\* every sum of the checks wraps around: the words of the arguments, the
\* buffer of read and write for a positive length, path, argv and all its
\* strings in exec; and nothing that does is refused.  Once sys_sbrk has taken
\* the size past KERNBASE the checks let the kernel's addresses below it
\* through, and ranges that begin below it and wrap around, but no others.
ArgumentsInside ==
    /\ TypeOK
    /\ \A a \in Addr : fetchint(a) # Fail <=> Covered(a, WORD)
    /\ \A a \in Addr : fetchstr(a) # Fail <=> a \in Mem /\ IsString(a)
    /\ \A a \in Addr : fetchstr(a) # Fail =>
          a + fetchstr(a) \in Mem /\ user[a + fetchstr(a)] = 0 /\ \A k \in 0..fetchstr(a) - 1 : user[a + k] # 0
    /\ LET n == AsInt(argint(2))
       IN  Buffer # Fail /\ n > 0 => argfd(0) \in ofile /\ Covered(Buffer, n)
    /\ Arguments # Fail =>
          /\ Arguments < MAXARG /\ IsString(argint(0))
          /\ \A i \in 0..Arguments - 1 :
                LET w == Uint(argint(1) + WORD * i)
                IN  Covered(w, WORD) /\ WordAt(w) # 0 /\ argv(i) \in Mem /\ IsString(argv(i))
=============================================================================
