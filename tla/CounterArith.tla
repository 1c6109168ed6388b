---------------------------- MODULE CounterArith ----------------------------
(***************************************************************************)
(* Facts about wrapping counters and power-of-two rings, proved once for   *)
(* the queue modules: x % M is what a counter of modulus M holds, x % N    *)
(* with N dividing M is the ring slot (POW2MOD) it addresses.              *)
(***************************************************************************)
EXTENDS Integers, TLAPS, WellFoundedInduction

\* Quotient and remainder of a counter.
LEMMA DivMod ==
  ASSUME NEW M \in Nat \ {0}, NEW a \in Int
  PROVE  \E d \in Int, r \in 0 .. M - 1 : /\ a = M * d + r
                                          /\ d = a \div M
                                          /\ r = a % M
<1>1. a \div M \in Int /\ a % M \in 0 .. M - 1
  BY Z3
<1>2. a = M * (a \div M) + (a % M)
  BY Z3
<1> QED
  BY <1>1, <1>2

\* Any decomposition into laps and position is that of \div and %.
LEMMA ModUnique ==
  ASSUME NEW M \in Nat \ {0}, NEW a \in Int, NEW q \in Int, NEW r \in 0 .. M - 1,
         a = M * q + r
  PROVE  a % M = r /\ a \div M = q
<1>1. a % M = r
  BY Z3
<1>2. a \div M = q
  BY Z3
<1> QED
  BY <1>1, <1>2

\* Two counters with the same remainder differ by whole laps, and back.
LEMMA ModLaps ==
  ASSUME NEW M \in Nat \ {0}, NEW a \in Int, NEW b \in Int, NEW q \in Int,
         b = a + M * q
  PROVE  b % M = a % M
<1>1. PICK d \in Int, r \in 0 .. M - 1 : a = M * d + r /\ r = a % M
  BY DivMod
<1>2. PICK e \in Int : e = d + q
  OBVIOUS
<1>3. a = M * d + r
  BY <1>1
<1>4. b = M * e + r
  BY <1>2, <1>3, Z3
<1>5. b % M = r
  BY <1>4, ModUnique
<1> QED
  BY <1>1, <1>5

\* A counter inside its range, one lap above it and one lap below it.
LEMMA ModNear ==
  ASSUME NEW M \in Nat \ {0}, NEW a \in Int
  PROVE  /\ a \in 0 .. M - 1 => a % M = a
         /\ a \in M .. 2 * M - 1 => a % M = a - M
         /\ a \in -M .. -1 => a % M = a + M
<1>1. a \in 0 .. M - 1 => a % M = a
  BY Z3
<1>2. a \in M .. 2 * M - 1 => a % M = a - M
  BY Z3
<1>3. a \in -M .. -1 => a % M = a + M
  BY Z3
<1> QED
  BY <1>1, <1>2, <1>3

\* Wrapping early or late is the same.
LEMMA ModAdd ==
  ASSUME NEW M \in Nat \ {0}, NEW a \in Int, NEW b \in Int
  PROVE  ((a % M) + b) % M = (a + b) % M
<1>1. PICK d \in Int, r \in 0 .. M - 1 : a = M * d + r /\ r = a % M
  BY DivMod
<1>2. a = M * d + r
  BY <1>1
<1>3. PICK x \in Int, y \in Int : x = r + b /\ y = a + b
  OBVIOUS
<1>4. y = x + M * d
  BY <1>2, <1>3, Z3
<1>5. y % M = x % M
  BY <1>4, ModLaps
<1> QED
  BY <1>1, <1>3, <1>5

\* The slot a wrapped counter addresses is that of the unwrapped one.
LEMMA ModOfMod ==
  ASSUME NEW M \in Nat \ {0}, NEW N \in Nat \ {0}, M % N = 0, NEW a \in Int
  PROVE  (a % M) % N = a % N
<1>1. PICK d \in Int, r \in 0 .. M - 1 : a = M * d + r /\ r = a % M
  BY DivMod
<1>2. PICK k \in Int : M = N * k
  BY DivMod
<1>3. PICK j \in Int : j = k * d
  BY Z3
<1>4. M * d = N * j
  BY <1>2, <1>3, Z3
<1>5. a = M * d + r /\ r \in Int
  BY <1>1
<1>6. a = r + N * j
  BY <1>4, <1>5, Z3
<1>7. a % N = r % N
  BY <1>5, <1>6, ModLaps, ZenonT(40)
<1> QED
  BY <1>1, <1>7

\* Two counters less than a ring apart never share a slot.
LEMMA ModDistinct ==
  ASSUME NEW N \in Nat \ {0}, NEW a \in Int, NEW b \in Int,
         a < b, b < a + N
  PROVE  a % N # b % N
<1> SUFFICES ASSUME a % N = b % N PROVE FALSE
  OBVIOUS
<1>1. PICK p \in Int, r \in 0 .. N - 1 : a = N * p + r /\ r = a % N
  BY DivMod
<1>2. PICK q \in Int, s \in 0 .. N - 1 : b = N * q + s /\ s = b % N
  BY DivMod
<1>3. r = s
  BY <1>1, <1>2
<1>4. PICK k \in Int : k = q - p
  OBVIOUS
<1>5. N * k = b - a
  <2>1. a = N * p + r /\ b = N * q + r
    BY <1>1, <1>2, <1>3
  <2> QED
    BY <2>1, <1>4, Z3
<1>6. k >= 1
  BY <1>5, Z3
<1>7. N * k >= N
  BY <1>6, Z3
<1> QED
  BY <1>5, <1>7, Z3

\* One lap later the lap number is one higher.
LEMMA DivLap ==
  ASSUME NEW N \in Nat \ {0}, NEW a \in Int
  PROVE  (a + N) \div N = (a \div N) + 1 /\ (a + N) % N = a % N
<1>1. PICK d \in Int, r \in 0 .. N - 1 : a = N * d + r /\ d = a \div N /\ r = a % N
  BY DivMod
<1>2. PICK e \in Int, b \in Int : e = d + 1 /\ b = a + N
  OBVIOUS
<1>3. a = N * d + r
  BY <1>1
<1>4. b = N * e + r
  BY <1>2, <1>3, Z3
<1>5. b \div N = e /\ b % N = r
  BY <1>4, ModUnique
<1> QED
  BY <1>1, <1>2, <1>5

\* Lap parity survives the wrap of a counter that holds an even number of laps.
LEMMA ParityOfMod ==
  ASSUME NEW M \in Nat \ {0}, NEW N \in Nat \ {0}, M % (2 * N) = 0, NEW a \in Int
  PROVE  ((a % M) \div N) % 2 = (a \div N) % 2
<1>1. PICK d \in Int, r \in 0 .. M - 1 : a = M * d + r /\ r = a % M
  BY DivMod
<1>2. PICK L \in Nat \ {0} : L = 2 * N
  OBVIOUS
<1>3. PICK k \in Int : M = L * k
  BY <1>2, DivMod
<1>4. r \in Int /\ a = M * d + r
  BY <1>1
<1>5. PICK e \in Int, s \in 0 .. N - 1 : r = N * e + s /\ e = r \div N
  BY <1>4, DivMod
<1>6. PICK j \in Int : j = k * d
  BY Z3
<1>7. PICK q \in Int : q = e + 2 * j
  OBVIOUS
<1>8. M * d = N * (2 * j)
  BY <1>2, <1>3, <1>6, Z3
<1>9. a = N * q + s
  <2>1. r = N * e + s
    BY <1>5
  <2> QED
    BY <2>1, <1>4, <1>7, <1>8, Z3
<1>10. a \div N = q
  BY <1>9, ModUnique
<1>11. q % 2 = e % 2
  BY <1>7, ModLaps
<1> QED
  BY <1>1, <1>5, <1>10, <1>11

\* A ring that divides a counter that divides a wider one divides the wider one.
LEMMA DivTrans ==
  ASSUME NEW A \in Nat \ {0}, NEW B \in Nat \ {0}, NEW C \in Nat \ {0},
         A % B = 0, B % C = 0
  PROVE  A % C = 0
<1>1. PICK k \in Int : A = B * k
  BY DivMod
<1>2. PICK j \in Int : B = C * j
  BY DivMod
<1>3. PICK q \in Int : q = j * k
  BY Z3
<1>4. A = C * q + 0
  BY <1>1, <1>2, <1>3, Z3
<1>5. 0 \in 0 .. C - 1
  OBVIOUS
<1> QED
  BY <1>4, <1>5, ModUnique

\* A divisor is no larger than what it divides.
LEMMA DivLeq ==
  ASSUME NEW A \in Nat \ {0}, NEW B \in Nat \ {0}, A % B = 0
  PROVE  B <= A
<1>1. PICK k \in Int : A = B * k
  BY DivMod
<1>2. k >= 1
  BY <1>1, Z3
<1> QED
  BY <1>1, <1>2, Z3

\* A counter that holds an even number of laps holds whole laps.
LEMMA EvenLaps ==
  ASSUME NEW M \in Nat \ {0}, NEW N \in Nat \ {0}, M % (2 * N) = 0
  PROVE  M % N = 0 /\ 2 * N <= M
<1>1. PICK L \in Nat \ {0} : L = 2 * N
  OBVIOUS
<1>2. M % L = 0
  BY <1>1
<1>3. L <= M
  BY <1>2, DivLeq
<1>4. PICK k \in Int : M = L * k
  BY <1>1, DivMod
<1>5. PICK j \in Int : j = 2 * k
  OBVIOUS
<1>6. M = N * j + 0 /\ 0 \in 0 .. N - 1
  BY <1>1, <1>4, <1>5, Z3
<1>7. M % N = 0
  BY <1>6, ModUnique
<1> QED
  BY <1>1, <1>3, <1>7

\* Counter arithmetic on values already in range: at most one wrap.
LEMMA AddNear ==
  ASSUME NEW M \in Nat \ {0}, NEW x \in 0 .. M - 1, NEW n \in 0 .. M
  PROVE  (x + n) % M = IF x + n < M THEN x + n ELSE x + n - M
<1>1. CASE x + n < M
  <2>1. x + n \in 0 .. M - 1
    BY <1>1
  <2>2. (x + n) % M = x + n
    BY <2>1, Z3
  <2> QED
    BY <1>1, <2>2
<1>2. CASE ~(x + n < M)
  <2>1. x + n \in M .. 2 * M - 1
    BY <1>2
  <2>2. (x + n) % M = x + n - M
    BY <2>1, ModNear
  <2> QED
    BY <1>2, <2>2
<1> QED
  BY <1>1, <1>2

\* Counter differences on values already in range.
LEMMA SubNear ==
  ASSUME NEW M \in Nat \ {0}, NEW x \in 0 .. M - 1, NEW y \in 0 .. M - 1
  PROVE  (x - y) % M = IF x >= y THEN x - y ELSE x - y + M
<1>1. CASE x >= y
  <2>1. x - y \in 0 .. M - 1
    BY <1>1
  <2>2. (x - y) % M = x - y
    BY <2>1, ModNear
  <2> QED
    BY <1>1, <2>2
<1>2. CASE ~(x >= y)
  <2>1. x - y \in -M .. -1
    BY <1>2
  <2>2. (x - y) % M = x - y + M
    BY <2>1, ModNear
  <2> QED
    BY <1>2, <2>2
<1> QED
  BY <1>1, <1>2

---------------------------------------------------------------------------
\* Induction and recursion, stated with sets, so that they can be cited.

\* A set of natural numbers has a smallest element.
LEMMA NatMin ==
  ASSUME NEW T, T \subseteq Nat, T # {}
  PROVE  \E x \in T : \A y \in T : x <= y
<1>1. \E x \in T : \A y \in T : ~ (<<y, x>> \in OpToRel(<, Nat))
  BY WFMin, NatLessThanWellFounded, Zenon
<1>2. PICK x \in T : \A y \in T : ~ (<<y, x>> \in OpToRel(<, Nat))
  BY <1>1, Zenon
<1>3. ASSUME NEW y \in T PROVE x <= y
  <2>1. x \in Nat /\ y \in Nat
    OBVIOUS
  <2>2. ~ (<<y, x>> \in OpToRel(<, Nat))
    BY <1>2, Zenon
  <2>3. ~ (y < x)
    BY <2>1, <2>2, Zenon DEF OpToRel
  <2> QED
    BY <2>1, <2>3
<1> QED
  BY <1>3

\* What holds of 0 and passes from a number to the next holds of them all.
LEMMA NatSet ==
  ASSUME NEW S, 0 \in S, \A n \in Nat : n \in S => n + 1 \in S
  PROVE  \A n \in Nat : n \in S
<1> SUFFICES ASSUME NEW k \in Nat, k \notin S PROVE FALSE
  OBVIOUS
<1> DEFINE T == {n \in Nat : n \notin S}
<1>1. PICK m \in T : \A y \in T : m <= y
  <2>1. T \subseteq Nat /\ T # {}
    OBVIOUS
  <2> HIDE DEF T
  <2> QED
    BY <2>1, NatMin
<1>2. m # 0 /\ m - 1 \in Nat /\ m - 1 \notin T
  BY <1>1
<1>3. m - 1 \in S
  BY <1>2
<1> QED
  BY <1>1, <1>2, <1>3

\* The same up to a bound.
LEMMA UpTo ==
  ASSUME NEW N \in Nat, NEW S, 0 \in S, \A n \in 0 .. N - 1 : n \in S => n + 1 \in S
  PROVE  \A n \in 0 .. N : n \in S
<1> DEFINE T == {n \in Nat : n <= N => n \in S}
<1>1. 0 \in T
  OBVIOUS
<1>2. ASSUME NEW n \in Nat, n \in T PROVE n + 1 \in T
  <2>1. CASE n + 1 <= N
    <3>1. n \in 0 .. N - 1 /\ n \in S
      BY <1>2, <2>1
    <3> QED
      BY <3>1
  <2>2. CASE ~ (n + 1 <= N)
    BY <2>2
  <2> QED
    BY <2>1, <2>2
<1>3. \A n \in Nat : n \in T
  <2> HIDE DEF T
  <2> QED
    BY <1>1, <1>2, NatSet
<1> QED
  BY <1>3

\* The functions whose value at 0 is base, and at i what next makes of the one
\* before.
Recursive(N, V, base, next) ==
    {g \in [0 .. N -> V] : g[0] = base /\ \A i \in 1 .. N : g[i] = next[<<i, g[i - 1]>>]}

\* There is such a function.
LEMMA Recursion ==
  ASSUME NEW N \in Nat, NEW V, NEW base \in V, NEW next \in [(1 .. N) \X V -> V]
  PROVE  \E g : g \in Recursive(N, V, base, next)
<1> DEFINE Upto(n) == {f \in [0 .. n -> V] : f[0] = base /\ \A i \in 1 .. n : f[i] = next[<<i, f[i - 1]>>]}
           S == {n \in 0 .. N : Upto(n) # {}}
<1>1. 0 \in S
  <2>1. [i \in 0 .. 0 |-> base] \in Upto(0)
    OBVIOUS
  <2> QED
    BY <2>1
<1>2. ASSUME NEW n \in 0 .. N - 1, n \in S PROVE n + 1 \in S
  <2>1. PICK f \in [0 .. n -> V] : f[0] = base /\ \A i \in 1 .. n : f[i] = next[<<i, f[i - 1]>>]
    BY <1>2
  <2>2. PICK v \in V : v = next[<<n + 1, f[n]>>]
    <3>1. <<n + 1, f[n]>> \in (1 .. N) \X V
      BY <2>1
    <3> QED
      BY <3>1
  <2>3. PICK h : h = [i \in 0 .. n + 1 |-> IF i <= n THEN f[i] ELSE v]
    OBVIOUS
  <2>4. h \in [0 .. n + 1 -> V]
    BY <2>1, <2>3
  <2>5. \A i \in 0 .. n : h[i] = f[i]
    BY <2>3
  <2>6. h[n + 1] = v
    BY <2>3
  <2>7. ASSUME NEW i \in 1 .. n + 1 PROVE h[i] = next[<<i, h[i - 1]>>]
    <3>1. CASE i = n + 1
      BY <2>2, <2>5, <2>6, <3>1
    <3>2. CASE i \in 1 .. n
      BY <2>1, <2>5, <3>2
    <3> QED
      BY <3>1, <3>2
  <2>8. h \in Upto(n + 1)
    BY <2>1, <2>4, <2>5, <2>7
  <2> QED
    BY <2>8
<1>3. N \in S
  <2> HIDE DEF S
  <2> QED
    BY <1>1, <1>2, UpTo
<1> QED
  BY <1>3 DEF Recursive
=============================================================================
