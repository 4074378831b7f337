------------------------------ MODULE Modular ------------------------------
(***************************************************************************)
(* Remainders, for the counters of the kernel that run freely in a uint    *)
(* and index a ring: what the proofs about pipe.c use.                     *)
(***************************************************************************)
EXTENDS Integers, TLAPS

\* A number below the modulus is its own remainder.
LEMMA ModSmall ==
    ASSUME NEW m \in Nat, m > 0, NEW x \in 0..m - 1
    PROVE  x % m = x
BY SMT

\* One wrap-around, upwards or downwards.
LEMMA ModWrap ==
    ASSUME NEW m \in Nat, m > 0, NEW x \in -m..2 * m - 1
    PROVE  x % m = IF x < 0 THEN x + m ELSE IF x < m THEN x ELSE x - m
BY SMT

\* The remainder is determined by any quotient.
LEMMA ModUnique ==
    ASSUME NEW m \in Nat, m > 0, NEW q \in Int, NEW r \in 0..m - 1
    PROVE  (m * q + r) % m = r
BY SMT

\* Division with remainder.
LEMMA DivMod ==
    ASSUME NEW m \in Nat, m > 0, NEW x \in Int
    PROVE  \E q \in Int, r \in 0..m - 1 : x = m * q + r
<1>1. x \div m \in Int
  BY SMT
<1>2. m * (x \div m) <= x
  BY SMT
<1>3. x < m * (x \div m) + m
  BY SMT
<1>4. PICK q \in Int : m * q <= x /\ x < m * q + m
  BY <1>1, <1>2, <1>3
<1>5. m * q \in Int
  BY SMT
<1>6. x - m * q \in 0..m - 1 /\ x = m * q + (x - m * q)
  BY <1>4, <1>5, SMT
<1> QED
  BY <1>6

\* Adding a multiple of the modulus changes nothing.
LEMMA ModShift ==
    ASSUME NEW m \in Nat, m > 0, NEW x \in Int, NEW k \in Int
    PROVE  (x + m * k) % m = x % m
<1>1. PICK q \in Int, r \in 0..m - 1 : x = m * q + r
  BY DivMod
<1>2. x + m * k = m * (q + k) + r
  BY <1>1, SMT
<1>3. q + k \in Int
  OBVIOUS
<1> QED
  BY <1>1, <1>2, <1>3, ModUnique

\* Numbers that are less than the modulus apart have different remainders: a
\* window of the ring no longer than the ring has no slot twice.
LEMMA ModApart ==
    ASSUME NEW m \in Nat, m > 0, NEW x \in Int, NEW y \in Int, x < y, y < x + m
    PROVE  x % m # y % m
<1>1. PICK q1 \in Int, r1 \in 0..m - 1 : x = m * q1 + r1
  BY DivMod
<1>2. PICK q2 \in Int, r2 \in 0..m - 1 : y = m * q2 + r2
  BY DivMod
<1>3. x % m = r1 /\ y % m = r2
  BY <1>1, <1>2, ModUnique
<1>4. ASSUME r1 = r2 PROVE FALSE
  <2>1. m * q1 < m * q2 /\ m * q2 < m * q1 + m
    BY <1>1, <1>2, <1>4, SMT
  <2>2. CASE q2 <= q1
    BY <2>1, <2>2, SMT
  <2>3. CASE q2 >= q1 + 1
    BY <2>1, <2>3, SMT
  <2> QED
    BY <2>2, <2>3
<1> QED
  BY <1>3, <1>4

\* A counter that wraps at a multiple u of the ring's size m indexes the same
\* slot as one that never wraps: why pipe.c may compute nwrite % PIPESIZE.
LEMMA ModOfWrapped ==
    ASSUME NEW m \in Nat, m > 0, NEW u \in Nat, u > 0, u % m = 0, NEW x \in 0..2 * u - 1
    PROVE  (x % u) % m = x % m
<1>1. PICK q \in Int, r \in 0..m - 1 : u = m * q + r
  BY DivMod
<1>2. u % m = r
  BY <1>1, ModUnique
<1>3. u = m * q
  BY <1>1, <1>2, SMT
<1>0. x % u = IF x < 0 THEN x + u ELSE IF x < u THEN x ELSE x - u
  <2>1. x \in -u..2 * u - 1
    OBVIOUS
  <2> QED
    BY <2>1, ModWrap
<1>4. CASE x < u
  BY <1>4, <1>0
<1>5. CASE x >= u
  <2>1. x % u = x - u
    <3>1. ~(x < 0) /\ ~(x < u)
      BY <1>5, SMT
    <3> QED
      BY <1>0, <3>1, Zenon
  <2>2. ((x - u) + m * q) % m = (x - u) % m
    <3>1. x - u \in Int
      OBVIOUS
    <3> QED
      BY <3>1, ModShift, Zenon
  <2>3. (x - u) + m * q = x
    BY <1>3, SMT
  <2> QED
    BY <2>1, <2>2, <2>3
<1> QED
  BY <1>4, <1>5
=============================================================================
