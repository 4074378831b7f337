---------------------------- MODULE SysArgProofs ----------------------------
(***************************************************************************)
(* The checks of syscall.c, for every size of memory, of an int and of the *)
(* address space: proofs about SysArg.                                     *)
(***************************************************************************)
EXTENDS SysArg, Modular, WellFoundedInduction

\* A set of numbers has a least one: the first NUL that fetchstr's loop meets.
LEMMA Least ==
    ASSUME NEW S \in SUBSET Nat, S # {}
    PROVE  Min(S) \in S /\ \A y \in S : Min(S) <= y
<1>1. PICK x \in S : \A y \in S : ~(<<y, x>> \in OpToRel(<, Nat))
  BY WFMin, NatLessThanWellFounded
<1>2. \A y \in S : ~(<<y, x>> \in {ss \in Nat \X Nat : ss[1] < ss[2]})
  BY <1>1 DEF OpToRel
<1>3. ASSUME NEW y \in S PROVE x <= y
  <2>1. x \in Nat /\ y \in Nat /\ <<y, x>> \in Nat \X Nat
    OBVIOUS
  <2>2. ~(<<y, x>>[1] < <<y, x>>[2])
    BY <1>2, <2>1
  <2> QED
    BY <2>1, <2>2
<1> QED
  BY <1>3 DEF Min

\* The sums of the checks are uints.
LEMMA UintType ==
    ASSUME SysArgAssumption, NEW x \in Int
    PROVE  Uint(x) \in Addr
<1>1. UintRange \in Nat /\ UintRange > 0
  BY DEF SysArgAssumption
<1>2. PICK q \in Int, r \in 0..UintRange - 1 : x = UintRange * q + r
  BY <1>1, DivMod
<1>3. x % UintRange = r
  BY <1>1, <1>2, ModUnique
<1> QED
  BY <1>3 DEF Uint, Addr

\* The test of fetchint and argptr: a range that does not count more than half
\* of the address space passes exactly when it starts below sz and ends at
\* most there, or when it runs over the end of the address space, which takes
\* a size past KERNBASE.
LEMMA RangeInside ==
    ASSUME SysArgAssumption, TypeOK, NEW addr \in Addr, NEW size \in Nat, 2 * size <= UintRange
    PROVE  InRange(addr, size) <=> Covered(addr, size)
<1>1. UintRange \in Nat /\ UintRange > 0 /\ sz \in 0..UintRange - 1 /\ KERNBASE \in Nat /\ 2 * KERNBASE <= UintRange
  BY DEF SysArgAssumption, TypeOK, Addr
<1>2. addr \in Mem <=> addr < sz
  BY <1>1 DEF Mem, Addr
<1>3. CASE addr >= sz
  BY <1>1, <1>2, <1>3 DEF InRange, Covered, Addr
<1>4. CASE addr < sz /\ addr + size < UintRange
  <2>1. PICK y \in 0..UintRange - 1 : y = addr + size
    BY <1>1, <1>4 DEF Addr
  <2>2. y % UintRange = y
    BY <1>1, ModSmall
  <2>3. Uint(addr + size) = addr + size
    BY <2>1, <2>2 DEF Uint
  <2> QED
    BY <1>1, <1>2, <1>4, <2>3 DEF InRange, Covered, Addr
<1>5. CASE addr < sz /\ addr + size >= UintRange
  <2>1. PICK y \in Int, r \in 0..UintRange - 1 : y = addr + size /\ r = y - UintRange /\ r <= sz
    BY <1>1, <1>5 DEF Addr
  <2>2. y = UintRange * 1 + r
    BY <1>1, <2>1
  <2>3. y % UintRange = r
    BY <1>1, <2>2, ModUnique
  <2>4. Uint(addr + size) = r /\ r <= sz
    BY <2>1, <2>3 DEF Uint
  <2>5. sz > KERNBASE
    BY <1>1, <1>5 DEF Addr
  <2> QED
    BY <1>1, <1>2, <1>5, <2>4, <2>5 DEF InRange, Covered, Addr
<1> QED
  BY <1>1, <1>3, <1>4, <1>5 DEF Addr

\* fetchint: exactly the words that are covered.
LEMMA FetchInt ==
    ASSUME SysArgAssumption, TypeOK, NEW a \in Addr
    PROVE  /\ fetchint(a) # Fail <=> Covered(a, WORD)
           /\ fetchint(a) # Fail => fetchint(a) \in Addr /\ fetchint(a) = WordAt(a)
<1>1. WORD \in Nat /\ WORD > 0 /\ 2 * WORD <= UintRange /\ UintRange \in Nat
  BY DEF SysArgAssumption
<1>2. InRange(a, WORD) <=> Covered(a, WORD)
  BY <1>1, RangeInside
<1>3. WordAt(a) \in Addr
  <2>1. ASSUME NEW k \in 0..WORD - 1 PROVE Uint(a + k) \in Addr
    <3>1. PICK x \in Int : x = a + k
      BY <1>1 DEF Addr
    <3> QED
      BY <3>1, UintType
  <2>2. [k \in 0..WORD - 1 |-> user[Uint(a + k)]] \in [0..WORD - 1 -> Byte]
    BY <2>1 DEF TypeOK
  <2> QED
    BY <2>2 DEF WordAt, SysArgAssumption, Addr
<1> QED
  BY <1>1, <1>2, <1>3 DEF fetchint, Fail, Addr

\* fetchstr: exactly the strings inside the memory, up to their first NUL.
LEMMA FetchStr ==
    ASSUME SysArgAssumption, TypeOK, NEW a \in Addr
    PROVE  /\ fetchstr(a) # Fail <=> a \in Mem /\ IsString(a)
           /\ fetchstr(a) # Fail =>
                /\ a + fetchstr(a) \in Mem /\ user[a + fetchstr(a)] = 0
                /\ \A k \in 0..fetchstr(a) - 1 : user[a + k] # 0
<1>1. a \in Nat /\ sz \in Nat
  BY DEF Addr, TypeOK, SysArgAssumption
<1>2. CASE a >= sz
  BY <1>1, <1>2 DEF fetchstr, Mem, Fail
<1>3. CASE a < sz /\ Nuls(a) = {}
  <2>1. fetchstr(a) = Fail
    BY <1>3 DEF fetchstr
  <2>2. ~IsString(a)
    BY <1>1, <1>3 DEF IsString, Nuls, Mem
  <2> QED
    BY <2>1, <2>2
<1>4. CASE a < sz /\ Nuls(a) # {}
  <2>1. Nuls(a) \in SUBSET Nat
    BY <1>1 DEF Nuls
  <2>2. PICK m : m = Min(Nuls(a))
    OBVIOUS
  <2>3. m \in Nuls(a) /\ \A y \in Nuls(a) : m <= y
    BY <1>4, <2>1, <2>2, Least
  <2>4. m \in a..sz - 1 /\ user[m] = 0
    BY <2>3 DEF Nuls
  <2>5. fetchstr(a) = m - a
    BY <1>1, <1>4, <2>2 DEF fetchstr
  <2>6. fetchstr(a) \in Nat /\ a + fetchstr(a) = m /\ fetchstr(a) # Fail
    BY <1>1, <2>4, <2>5 DEF Fail
  <2>7. a \in Mem /\ m \in Mem /\ IsString(a)
    BY <1>1, <2>4 DEF Mem, IsString
  <2>8. ASSUME NEW k \in 0..fetchstr(a) - 1 PROVE user[a + k] # 0
    <3>1. a + k \in a..sz - 1 /\ a + k < m
      BY <1>1, <2>4, <2>5
    <3> QED
      BY <2>3, <3>1 DEF Nuls
  <2> QED
    BY <2>4, <2>6, <2>7, <2>8
<1> QED
  BY <1>1, <1>2, <1>3, <1>4

\* The words of the arguments are uints.
LEMMA ArgInt ==
    ASSUME SysArgAssumption, TypeOK, NEW n \in 0..2, argint(n) # Fail
    PROVE  argint(n) \in Addr
<1>1. esp + WORD + WORD * n \in Int
  BY DEF SysArgAssumption, TypeOK, Addr
<1>2. PICK x \in Int : x = esp + WORD + WORD * n
  BY <1>1
<1>3. PICK a \in Addr : a = Uint(x)
  BY UintType
<1>4. argint(n) = fetchint(a)
  BY <1>2, <1>3 DEF argint
<1> QED
  BY <1>4, FetchInt

\* read and write: the whole buffer is covered when the length is positive,
\* and the descriptor is open.
LEMMA BufferInside ==
    ASSUME SysArgAssumption, TypeOK, Buffer # Fail, AsInt(argint(2)) > 0
    PROVE  argfd(0) \in ofile /\ Covered(Buffer, AsInt(argint(2)))
<1>1. argfd(0) # Fail /\ argint(2) # Fail /\ argptr(1, argint(2)) # Fail /\ Buffer = argptr(1, argint(2))
  BY DEF Buffer
<1>2. argfd(0) \in ofile
  BY <1>1 DEF argfd, Fail
<1>3. PICK n \in Addr : n = argint(2)
  BY <1>1, ArgInt
<1>4. argint(1) # Fail /\ InRange(argint(1), n) /\ Buffer = argint(1)
  BY <1>1, <1>3 DEF argptr, Fits
<1>5. PICK i \in Addr : i = argint(1)
  BY <1>4, ArgInt
<1>6. UintRange \in Nat
  BY DEF SysArgAssumption
<1>7. AsInt(argint(2)) = n /\ 2 * n <= UintRange /\ n > 0 /\ n \in Nat
  BY <1>3, <1>6 DEF AsInt, Addr
<1>8. Covered(i, n)
  BY <1>4, <1>5, <1>7, RangeInside
<1> QED
  BY <1>2, <1>4, <1>5, <1>7, <1>8

\* exec: argv ends inside its array, the words of argv are covered, and the
\* path and the strings they name lie below the size of the process.
LEMMA ArgumentsOfExec ==
    ASSUME SysArgAssumption, TypeOK, Arguments # Fail
    PROVE  /\ Arguments < MAXARG /\ IsString(argint(0))
           /\ \A i \in 0..Arguments - 1 :
                LET w == Uint(argint(1) + WORD * i)
                IN  Covered(w, WORD) /\ WordAt(w) # 0 /\ argv(i) \in Mem /\ IsString(argv(i))
<1>1. argstr(0) # Fail /\ argint(1) # Fail /\ Arguments \in 0..MAXARG - 1 /\ EndsAt(Arguments)
  BY DEF Arguments
<1>2. argint(0) # Fail /\ fetchstr(argint(0)) # Fail
  BY <1>1 DEF argstr
<1>3. IsString(argint(0))
  BY <1>2, ArgInt, FetchStr
<1>4. ASSUME NEW i \in 0..Arguments - 1, NEW w, w = Uint(argint(1) + WORD * i)
      PROVE  Covered(w, WORD) /\ WordAt(w) # 0 /\ argv(i) \in Mem /\ IsString(argv(i))
  <2>1. PICK b \in Addr : b = argint(1)
    BY <1>1, ArgInt
  <2>2. b + WORD * i \in Int
    BY <1>1, <2>1 DEF SysArgAssumption, Addr
  <2>3. PICK x \in Int : x = b + WORD * i
    BY <2>2
  <2>4. w \in Addr /\ argv(i) = fetchint(w)
    BY <1>4, <2>1, <2>3, UintType DEF argv
  <2>5. argv(i) # Fail /\ argv(i) # 0 /\ fetchstr(argv(i)) # Fail
    BY <1>1, <1>4 DEF EndsAt, Reaches
  <2>6. argv(i) \in Addr /\ argv(i) = WordAt(w) /\ Covered(w, WORD)
    BY <2>4, <2>5, FetchInt
  <2>7. argv(i) \in Mem /\ IsString(argv(i))
    BY <2>5, <2>6, FetchStr
  <2> QED
    BY <2>5, <2>6, <2>7
<1>5. Arguments < MAXARG
  BY <1>1 DEF SysArgAssumption
<1> QED
  BY <1>3, <1>4, <1>5

\* The checks of syscall.c, whatever the size of the process, of an int and of
\* the address space: for a size up to KERNBASE they let through exactly the
\* ranges inside the process, no sum that wraps around among them; for the
\* larger ones that sys_sbrk can make, only ranges below the size and ranges
\* that run over the end of the address space.
THEOREM CheckedArguments ==
    ASSUME SysArgAssumption
    PROVE  Spec => []ArgumentsInside
<1>1. Init => TypeOK
  BY DEF Init, TypeOK, SysArgAssumption, Addr
<1>2. TypeOK /\ [Next]_args => TypeOK'
  BY DEF TypeOK, Next, Open, Close, args, Addr
<1>3. TypeOK => ArgumentsInside
  <2> SUFFICES ASSUME TypeOK PROVE ArgumentsInside
    OBVIOUS
  <2>1. \A a \in Addr : fetchint(a) # Fail <=> Covered(a, WORD)
    BY FetchInt
  <2>2. \A a \in Addr : fetchstr(a) # Fail <=> a \in Mem /\ IsString(a)
    BY FetchStr
  <2>3. \A a \in Addr : fetchstr(a) # Fail =>
           a + fetchstr(a) \in Mem /\ user[a + fetchstr(a)] = 0 /\ \A k \in 0..fetchstr(a) - 1 : user[a + k] # 0
    BY FetchStr
  <2> QED
    BY <2>1, <2>2, <2>3, BufferInside, ArgumentsOfExec DEF ArgumentsInside
<1> QED
  BY <1>1, <1>2, <1>3, PTL DEF Spec
=============================================================================
