--------------------------- MODULE HashingProofs ---------------------------
(***************************************************************************)
(* Proofs about the hasher, its front ends and the fold, for every block   *)
(* and chunk size, window, stack budget, agent, input, kernel and dial.    *)
(* First the counters and the stack's height, from what update() and       *)
(* push_subtree_cv() do to the open chunk whatever the values are. Then    *)
(* the values: the open chunk holds the message's units, the stack the     *)
(* message's complete subtrees, the table of a job the subtrees of its     *)
(* parts, and what finalize_xof() collapses is the root of the reference.  *)
(* Then the kernels under them: the shuffle networks transpose, so batches *)
(* keep their lanes apart, the staged rounds are the plain ones, and the   *)
(* fold and the recursion over batches leave the reference's value. The    *)
(* recursive functions of the model are functions on 0 .. n or 1 .. n:     *)
(* that they exist and what they preserve is shown by induction over a set *)
(* of naturals.                                                            *)
(***************************************************************************)
EXTENDS Hashing, WellFoundedInduction, TLAPS

-----------------------------------------------------------------------------
(* Induction and division *)

\* A set that has 0 and with every number its successor has all of them.
LEMMA Induction ==
  ASSUME NEW S, 0 \in S, \A n \in Nat : n \in S => n + 1 \in S
  PROVE  Nat \subseteq S
<1> DEFINE R == OpToRel(<, Nat)
<1> DEFINE Out == Nat \ S
<1>1. IsWellFoundedOn(R, Nat)
  BY NatLessThanWellFounded
<1>2. \A x, y \in Nat : y < x => <<y, x>> \in R
  BY DEF OpToRel
<1> HIDE DEF R
<1> SUFFICES ASSUME Out # {} PROVE FALSE
  OBVIOUS
<1>3. Out \subseteq Nat
  OBVIOUS
<1>4. PICK x \in Out : \A y \in Out : ~(<<y, x>> \in R)
  BY <1>1, <1>3, WFMin, Zenon
<1>5. x \in Nat /\ x # 0 /\ x - 1 \in Nat /\ x - 1 < x /\ x = (x - 1) + 1
  OBVIOUS
<1>6. x - 1 \in Out
  BY <1>5
<1> QED
  BY <1>2, <1>4, <1>5, <1>6

\* The sizes the hasher is built with are positive.
LEMMA LensArePositive ==
  /\ BlockLen \in Nat \ {0} /\ BlocksPerChunk \in Nat \ {0}
  /\ ChunkLen \in Nat \ {0}
<1>1. BlockLen \in Nat \ {0} /\ BlocksPerChunk \in Nat \ {0}
  BY BlockAssumption
<1>2. \A a, b \in Nat \ {0} : a * b \in Nat \ {0}
  OBVIOUS
<1> QED
  BY <1>1, <1>2 DEF ChunkLen

\* Every number is a quotient and a rest.
LEMMA DivMod ==
  ASSUME NEW a \in Nat, NEW b \in Nat \ {0}
  PROVE  /\ a \div b \in Nat /\ a % b \in 0 .. b - 1
         /\ a = (a \div b) * b + (a % b)
OBVIOUS

\* A bounded set of naturals has a greatest element.
LEMMA Greatest ==
  ASSUME NEW n \in Nat, NEW T, T \subseteq 0 .. n, T # {}
  PROVE  \E p \in T : \A q \in T : q <= p
<1> DEFINE S == {k \in Nat : \A U \in SUBSET (0 .. k) :
                   U # {} => \E p \in U : \A q \in U : q <= p}
<1>1. 0 \in S
  <2> SUFFICES ASSUME NEW U \in SUBSET (0 .. 0), U # {}
               PROVE  \E p \in U : \A q \in U : q <= p
    OBVIOUS
  <2>1. \A u \in U : u = 0
    OBVIOUS
  <2>2. PICK p \in U : TRUE
    OBVIOUS
  <2>3. p \in U /\ \A q \in U : q <= p
    BY <2>1
  <2> QED
    BY <2>3
<1>2. ASSUME NEW k \in Nat, k \in S PROVE k + 1 \in S
  <2> SUFFICES ASSUME NEW U \in SUBSET (0 .. k + 1), U # {}
               PROVE  \E p \in U : \A q \in U : q <= p
    OBVIOUS
  <2>1. CASE k + 1 \in U
    <3>1. \A q \in U : q <= k + 1
      OBVIOUS
    <3> QED
      BY <2>1, <3>1
  <2>2. CASE k + 1 \notin U
    <3>1. U \in SUBSET (0 .. k)
      BY <2>2
    <3> QED
      BY <1>2, <3>1
  <2> QED
    BY <2>1, <2>2
<1>3. n \in S
  <2> HIDE DEF S
  <2> QED
    BY <1>1, <1>2, Induction
<1> QED
  BY <1>3

-----------------------------------------------------------------------------
(* Powers of two *)

Powers == {1, 2, 4, 8, 16, 32, 64, 128, 256, 512, 1024, 2048, 4096, 8192, 16384, 32768,
           65536, 131072, 262144, 524288, 1048576}

\* The powers of two the model's sizes are taken from.
LEMMA PowersAre == \A n : IsPow2(n) <=> n \in Powers
<1>1. 0 .. MaxHeight =
        {0, 1, 2, 3, 4, 5, 6, 7, 8, 9, 10, 11, 12, 13, 14, 15, 16, 17, 18, 19, 20}
  BY DEF MaxHeight
<1>2. \A n : IsPow2(n) <=> n \in {2^0, 2^1, 2^2, 2^3, 2^4, 2^5, 2^6, 2^7, 2^8, 2^9, 2^10,
        2^11, 2^12, 2^13, 2^14, 2^15, 2^16, 2^17, 2^18, 2^19, 2^20}
  BY <1>1 DEF IsPow2
<1>3. /\ 2^0 = 1 /\ 2^1 = 2 /\ 2^2 = 4 /\ 2^3 = 8 /\ 2^4 = 16 /\ 2^5 = 32 /\ 2^6 = 64
      /\ 2^7 = 128 /\ 2^8 = 256 /\ 2^9 = 512 /\ 2^10 = 1024
  OBVIOUS
<1>4. /\ 2^11 = 2048 /\ 2^12 = 4096 /\ 2^13 = 8192 /\ 2^14 = 16384 /\ 2^15 = 32768
      /\ 2^16 = 65536 /\ 2^17 = 131072 /\ 2^18 = 262144 /\ 2^19 = 524288
      /\ 2^20 = 1048576
  OBVIOUS
<1> QED
  BY <1>2, <1>3, <1>4 DEF Powers

\* Of two powers of two the smaller divides the larger.
LEMMA PowersDivide ==
  ASSUME NEW p \in Powers, NEW q \in Powers, p <= q
  PROVE  q % p = 0 /\ q = p * (q \div p) /\ q \div p \in Nat \ {0}
BY DEF Powers

\* A power of two above a number that one of them bounds.
LEMMA BitCeilIs ==
  ASSUME NEW n \in Nat \ {0}, NEW q \in Powers, n <= q
  PROVE  BitCeil(n) \in Powers /\ n <= BitCeil(n) /\ BitCeil(n) <= q
<1>1. \E p \in Powers : p >= n /\ p < 2 * n
  BY DEF Powers
<1>2. PICK p \in 1 .. 2 * n : IsPow2(p) /\ p >= n /\ p < 2 * n
  BY <1>1, PowersAre DEF Powers
<1>3. BitCeil(n) \in 1 .. 2 * n /\ IsPow2(BitCeil(n)) /\ BitCeil(n) >= n /\ BitCeil(n) < 2 * n
  BY <1>2 DEF BitCeil
<1>4. BitCeil(n) \in Powers
  BY <1>3, PowersAre
<1>5. \A r \in Powers : r >= n /\ r < 2 * n => r <= q
  BY DEF Powers
<1> QED
  BY <1>3, <1>4, <1>5

-----------------------------------------------------------------------------
(* Ones and trailing zeros *)

\* The table behind PopCount.
Ones(f, n) == f = [m \in 0 .. n |-> IF m = 0 THEN 0 ELSE (m % 2) + f[m \div 2]]

\* Half of a number is a smaller number.
LEMMA Halves ==
  ASSUME NEW m \in Nat
  PROVE  /\ m \div 2 \in Nat /\ m % 2 \in {0, 1} /\ m = 2 * (m \div 2) + (m % 2)
         /\ m # 0 => m \div 2 < m
OBVIOUS

\* The function that counts the ones of every number up to one exists.
LEMMA OnesExist ==
  ASSUME NEW n \in Nat
  PROVE  \E f : Ones(f, n)
<1> DEFINE S == {k \in Nat : \E f : Ones(f, k)}
<1>1. 0 \in S
  <2> DEFINE f == [m \in 0 .. 0 |-> 0]
  <2>1. Ones(f, 0)
    BY DEF Ones
  <2> QED
    BY <2>1
<1>2. ASSUME NEW k \in Nat, k \in S PROVE k + 1 \in S
  <2>1. PICK f : Ones(f, k)
    BY <1>2
  <2> DEFINE top == ((k + 1) % 2) + f[(k + 1) \div 2]
             g == [m \in 0 .. k + 1 |-> IF m = k + 1 THEN top ELSE f[m]]
             e == [m \in 0 .. k + 1 |-> IF m = 0 THEN 0 ELSE (m % 2) + g[m \div 2]]
  <2>2. ASSUME NEW m \in 0 .. k + 1 PROVE g[m] = e[m]
    <3>1. m # 0 => m \div 2 \in 0 .. k /\ m \div 2 # k + 1
      <4>1. m \in Nat /\ m <= k + 1
        OBVIOUS
      <4>2. m \div 2 \in Nat /\ (m # 0 => m \div 2 < m)
        BY <4>1, Halves
      <4> QED
        BY <4>1, <4>2
    <3>2. m # 0 => g[m \div 2] = f[m \div 2]
      BY <3>1
    <3>3. CASE m = k + 1
      <4>1. g[m] = top /\ m # 0
        BY <3>3
      <4>2. top = (m % 2) + f[m \div 2]
        BY <3>3
      <4> HIDE DEF g, top
      <4> QED
        BY <3>2, <4>1, <4>2
    <3>4. CASE m # k + 1
      <4>1. m \in 0 .. k /\ g[m] = f[m]
        BY <3>4
      <4>2. f[m] = IF m = 0 THEN 0 ELSE (m % 2) + f[m \div 2]
        BY <2>1, <4>1 DEF Ones
      <4> HIDE DEF g
      <4> QED
        BY <3>2, <4>1, <4>2
    <3> QED
      BY <3>3, <3>4
  <2>3. g = e
    <3>1. g = [m \in 0 .. k + 1 |-> g[m]] /\ e = [m \in 0 .. k + 1 |-> e[m]]
      OBVIOUS
    <3> HIDE DEF g, e
    <3> QED
      BY <2>2, <3>1
  <2>4. Ones(g, k + 1)
    BY <2>3 DEF Ones
  <2> QED
    BY <2>4
<1>3. Nat \subseteq S
  <2> HIDE DEF S
  <2> QED
    BY <1>1, <1>2, Induction
<1> QED
  BY <1>3

\* PopCount() is what any such function gives.
LEMMA PopCountIs ==
  ASSUME NEW n \in Nat
  PROVE  \E f : Ones(f, n) /\ PopCount(n) = f[n]
<1> DEFINE g == CHOOSE f : Ones(f, n)
<1>1. Ones(g, n)
  BY OnesExist
<1>2. PopCount(n) = g[n]
  BY DEF PopCount, Ones
<1> QED
  BY <1>1, <1>2

\* An entry does not depend on the size of its table.
LEMMA OnesAgree ==
  ASSUME NEW k \in Nat
  PROVE  \A m \in 0 .. k : /\ PopCount(m) \in Nat
                           /\ \A n \in Nat : \A f : Ones(f, n) /\ m <= n => f[m] = PopCount(m)
<1> DEFINE Good(m) == /\ PopCount(m) \in Nat
                      /\ \A n \in Nat : \A f : Ones(f, n) /\ m <= n => f[m] = PopCount(m)
           S == {j \in Nat : \A m \in 0 .. j : Good(m)}
<1>1. ASSUME NEW n \in Nat, NEW f, Ones(f, n), NEW m \in 0 .. n
      PROVE  f[m] = IF m = 0 THEN 0 ELSE (m % 2) + f[m \div 2]
  BY <1>1 DEF Ones
<1>2. 0 \in S
  <2>1. PICK h : Ones(h, 0) /\ PopCount(0) = h[0]
    BY PopCountIs
  <2>2. PopCount(0) = 0
    BY <2>1, <1>1
  <2>3. \A n \in Nat : \A f : Ones(f, n) => f[0] = 0
    BY <1>1
  <2>4. Good(0)
    BY <2>2, <2>3
  <2> QED
    BY <2>4
<1>3. ASSUME NEW j \in Nat, j \in S PROVE j + 1 \in S
  <2> DEFINE m == j + 1
             half == m \div 2
  <2>1. m \in Nat /\ m # 0 /\ half \in 0 .. j /\ half \in Nat /\ half < m /\ m % 2 \in Nat
    <3>1. m \in Nat /\ m # 0
      OBVIOUS
    <3>2. m \div 2 \in Nat /\ m % 2 \in {0, 1} /\ (m # 0 => m \div 2 < m)
      BY <3>1, Halves
    <3> QED
      BY <3>1, <3>2
  <2>2. Good(half)
    BY <1>3, <2>1
  <2>3. \A n \in Nat : \A f : Ones(f, n) /\ m <= n => f[m] = (m % 2) + PopCount(half)
    <3> SUFFICES ASSUME NEW n \in Nat, NEW f, Ones(f, n), m <= n
                 PROVE  f[m] = (m % 2) + PopCount(half)
      OBVIOUS
    <3>1. f[m] = (m % 2) + f[half]
      BY <1>1, <2>1
    <3>2. half <= n
      BY <2>1
    <3>3. f[half] = PopCount(half)
      BY <2>1, <2>2, <3>2
    <3> QED
      BY <3>1, <3>3
  <2>4. PICK h : Ones(h, m) /\ PopCount(m) = h[m]
    BY <2>1, PopCountIs
  <2>5. PopCount(m) = (m % 2) + PopCount(half)
    BY <2>1, <2>3, <2>4
  <2>6. Good(m)
    BY <2>1, <2>2, <2>3, <2>5
  <2>7. \A i \in 0 .. j + 1 : i \in 0 .. j \/ i = m
    OBVIOUS
  <2> HIDE DEF Good, m
  <2> QED
    BY <1>3, <2>6, <2>7
<1>4. k \in S
  <2> HIDE DEF S
  <2> QED
    BY <1>2, <1>3, Induction
<1> QED
  BY <1>4

\* The ones of a number by its halves.
LEMMA PopCounts ==
  /\ PopCount(0) = 0
  /\ \A n \in Nat : PopCount(n) \in Nat /\ PopCount(2 * n) = PopCount(n)
                    /\ PopCount(2 * n + 1) = PopCount(n) + 1
<1>1. ASSUME NEW n \in Nat PROVE PopCount(n) \in Nat
  BY OnesAgree
<1>2. ASSUME NEW n \in Nat
      PROVE  PopCount(n) = IF n = 0 THEN 0 ELSE (n % 2) + PopCount(n \div 2)
  <2>1. PICK h : Ones(h, n) /\ PopCount(n) = h[n]
    BY PopCountIs
  <2>2. h[n] = IF n = 0 THEN 0 ELSE (n % 2) + h[n \div 2]
    BY <2>1 DEF Ones
  <2>3. n # 0 => n \div 2 \in 0 .. n /\ n \div 2 \in Nat /\ n \div 2 <= n
    <3>1. n \div 2 \in Nat /\ (n # 0 => n \div 2 < n)
      BY Halves
    <3> QED
      BY <3>1
  <2>4. n # 0 => h[n \div 2] = PopCount(n \div 2)
    BY <2>1, <2>3, OnesAgree
  <2> QED
    BY <2>1, <2>2, <2>4
<1>3. PopCount(0) = 0
  BY <1>2
<1>4. ASSUME NEW n \in Nat
      PROVE  PopCount(2 * n) = PopCount(n) /\ PopCount(2 * n + 1) = PopCount(n) + 1
  <2>1. /\ 2 * n \in Nat /\ (2 * n) % 2 = 0 /\ (2 * n) \div 2 = n
        /\ 2 * n + 1 \in Nat /\ (2 * n + 1) % 2 = 1 /\ (2 * n + 1) \div 2 = n /\ 2 * n + 1 # 0
    OBVIOUS
  <2>2. PopCount(n) \in Nat
    BY <1>1
  <2>3. PopCount(2 * n) = PopCount(n)
    BY <1>2, <1>3, <2>1, <2>2
  <2>4. PopCount(2 * n + 1) = 1 + PopCount(n)
    BY <1>2, <2>1
  <2> QED
    BY <2>2, <2>3, <2>4
<1> QED
  BY <1>1, <1>3, <1>4

\* A power of two is 2 to one of the heights of a tree.
LEMMA Exponents ==
  /\ 2^0 = 1 /\ 2^1 = 2 /\ 2^2 = 4 /\ 2^3 = 8 /\ 2^4 = 16 /\ 2^5 = 32 /\ 2^6 = 64
  /\ 2^7 = 128 /\ 2^8 = 256 /\ 2^9 = 512 /\ 2^10 = 1024 /\ 2^11 = 2048
  /\ 2^12 = 4096 /\ 2^13 = 8192 /\ 2^14 = 16384 /\ 2^15 = 32768 /\ 2^16 = 65536
  /\ 2^17 = 131072 /\ 2^18 = 262144 /\ 2^19 = 524288 /\ 2^20 = 1048576
  /\ 2^21 = 2097152
OBVIOUS

\* k zeros end the number n.
EndsIn(n, k) == k \in 0 .. MaxHeight /\ n % 2^k = 0 /\ n % 2^(k + 1) # 0

\* An exponent is 0 or the successor of one.
LEMMA ExponentCases == \A k \in 0 .. MaxHeight :
   k \in {0, 1, 2, 3, 4, 5, 6, 7, 8, 9, 10, 11, 12, 13, 14, 15, 16, 17, 18, 19, 20}
BY DEF MaxHeight

\* The next power is twice the one before.
LEMMA Doubled ==
  /\ \A k \in 0 .. MaxHeight : 2^k \in Nat \ {0} /\ 2^(k + 1) = 2 * 2^k
<1> SUFFICES ASSUME NEW k \in 0 .. MaxHeight PROVE 2^k \in Nat \ {0} /\ 2^(k + 1) = 2 * 2^k
  OBVIOUS
<1> DEFINE Good(j) == 2^j \in Nat \ {0} /\ 2^(j + 1) = 2 * 2^j
<1>1. Good(0) /\ Good(1) /\ Good(2) /\ Good(3) /\ Good(4) /\ Good(5) /\ Good(6)
  BY Exponents
<1>2. Good(7) /\ Good(8) /\ Good(9) /\ Good(10) /\ Good(11) /\ Good(12) /\ Good(13)
  BY Exponents
<1>3. Good(14) /\ Good(15) /\ Good(16) /\ Good(17) /\ Good(18) /\ Good(19) /\ Good(20)
  BY Exponents
<1> HIDE DEF Good
<1>4. Good(k)
  BY <1>1, <1>2, <1>3, ExponentCases
<1> QED
  BY <1>4 DEF Good

\* Quotient and rest are the only pair of their kind.
LEMMA DivModUnique ==
  ASSUME NEW a \in Nat, NEW b \in Nat \ {0}, NEW q \in Int, NEW r \in 0 .. b - 1, a = q * b + r
  PROVE  a \div b = q /\ a % b = r
<1>1. PICK p \in Nat : p = a \div b
  BY DivMod
<1>2. PICK s \in 0 .. b - 1 : s = a % b
  BY DivMod
<1>3. a = p * b + s
  BY <1>1, <1>2, DivMod
<1>4. ASSUME p < q PROVE FALSE
  <2>1. (q - p) * b >= b
    BY <1>4
  <2>2. (q - p) * b = q * b - p * b
    OBVIOUS
  <2> QED
    BY <1>3, <2>1, <2>2
<1>5. ASSUME q < p PROVE FALSE
  <2>1. (p - q) * b >= b
    BY <1>5
  <2>2. (p - q) * b = p * b - q * b
    OBVIOUS
  <2> QED
    BY <1>3, <2>1, <2>2
<1>6. p = q
  BY <1>4, <1>5
<1> QED
  BY <1>1, <1>2, <1>3, <1>6

\* Doubling a number and a divisor doubles the rest.
LEMMA DoubledRest ==
  ASSUME NEW n \in Nat, NEW d \in Nat \ {0}
  PROVE  (2 * n) % (2 * d) = 2 * (n % d)
<1>1. PICK q \in Nat, r \in 0 .. d - 1 : n = q * d + r /\ r = n % d
  BY DivMod
<1>2. 2 * n = q * (2 * d) + 2 * r
  <2>1. PICK x \in Nat : x = q * d /\ q * (2 * d) = 2 * x
    OBVIOUS
  <2> QED
    BY <1>1, <2>1
<1>3. 2 * n \in Nat /\ 2 * d \in Nat \ {0} /\ 2 * r \in 0 .. 2 * d - 1 /\ q \in Int
  OBVIOUS
<1>4. (2 * n) % (2 * d) = 2 * r
  BY <1>2, <1>3, DivModUnique
<1> QED
  BY <1>1, <1>4

\* An odd number ends in no zero.
LEMMA OddEnds ==
  ASSUME NEW n \in Nat, n % 2 = 1
  PROVE  EndsIn(n, 0) /\ \A k : EndsIn(n, k) => k = 0
<1>1. 0 \in 0 .. MaxHeight /\ 2^0 = 1 /\ 2^(0 + 1) = 2
  BY Exponents DEF MaxHeight
<1>2. n % 1 = 0
  OBVIOUS
<1>3. ASSUME NEW k, EndsIn(n, k), k # 0 PROVE FALSE
  <2>1. k \in 0 .. MaxHeight /\ k - 1 \in 0 .. MaxHeight /\ (k - 1) + 1 = k
    BY <1>3 DEF EndsIn, MaxHeight
  <2>2. 2^(k - 1) \in Nat \ {0} /\ 2^k = 2 * 2^(k - 1)
    BY <2>1, Doubled
  <2>3. PICK d \in Nat \ {0} : d = 2^(k - 1)
    BY <2>2
  <2>4. n % (2 * d) = 0
    BY <1>3, <2>2, <2>3 DEF EndsIn
  <2>5. PICK q \in Nat : n = q * (2 * d) + 0
    <3>1. PICK e \in Nat \ {0} : e = 2 * d
      OBVIOUS
    <3>2. n = (n \div e) * e + (n % e) /\ n \div e \in Nat
      BY <3>1, DivMod
    <3>3. PICK q \in Nat : q = n \div e
      BY <3>2
    <3>4. n = q * e + 0
      BY <2>4, <3>1, <3>2, <3>3
    <3> QED
      BY <3>1, <3>4
  <2>6. n = 2 * (q * d) /\ q * d \in Nat
    BY <2>5
  <2> QED
    BY <2>6
<1> QED
  BY <1>1, <1>2, <1>3 DEF EndsIn

\* A doubled number ends in one more zero.
LEMMA EvenEnds ==
  ASSUME NEW n \in Nat
  PROVE  /\ \A k \in Nat : EndsIn(n, k) /\ k < MaxHeight => EndsIn(2 * n, k + 1)
         /\ \A k : EndsIn(2 * n, k) => k \in Nat \ {0} /\ EndsIn(n, k - 1)
<1>1. ASSUME NEW k \in Nat, EndsIn(n, k), k < MaxHeight PROVE EndsIn(2 * n, k + 1)
  <2>1. k \in 0 .. MaxHeight /\ k + 1 \in 0 .. MaxHeight
    BY <1>1 DEF MaxHeight
  <2>2. 2^k \in Nat \ {0} /\ 2^(k + 1) = 2 * 2^k /\ 2^((k + 1) + 1) = 2 * 2^(k + 1)
        /\ 2^(k + 1) \in Nat \ {0}
    BY <2>1, Doubled
  <2>3. /\ (2 * n) % (2 * 2^k) = 2 * (n % 2^k)
        /\ (2 * n) % (2 * 2^(k + 1)) = 2 * (n % 2^(k + 1))
    BY <2>2, DoubledRest
  <2>4. n % 2^k = 0 /\ n % 2^(k + 1) # 0 /\ n % 2^(k + 1) \in Nat
    <3>1. n % 2^k = 0 /\ n % 2^(k + 1) # 0
      BY <1>1 DEF EndsIn
    <3>2. n % 2^(k + 1) \in 0 .. 2^(k + 1) - 1
      BY <2>2, DivMod
    <3> QED
      BY <2>2, <3>1, <3>2
  <2>5. (2 * n) % 2^(k + 1) = 0 /\ (2 * n) % 2^((k + 1) + 1) # 0
    BY <2>2, <2>3, <2>4
  <2> QED
    BY <2>1, <2>5 DEF EndsIn
<1>2. ASSUME NEW k, EndsIn(2 * n, k) PROVE k \in Nat \ {0} /\ EndsIn(n, k - 1)
  <2>1. k \in 0 .. MaxHeight /\ k \in Nat
    BY <1>2 DEF EndsIn, MaxHeight
  <2>2. k # 0
    <3> SUFFICES ASSUME k = 0 PROVE FALSE
      OBVIOUS
    <3>1. (2 * n) % 2^(0 + 1) # 0 /\ 2^(0 + 1) = 2
      BY <1>2, Exponents DEF EndsIn
    <3>2. (2 * n) % 2 = 0
      OBVIOUS
    <3> QED
      BY <3>1, <3>2
  <2>3. k - 1 \in 0 .. MaxHeight /\ (k - 1) + 1 = k
    BY <2>1, <2>2 DEF MaxHeight
  <2>4. 2^(k - 1) \in Nat \ {0} /\ 2^k = 2 * 2^(k - 1) /\ 2^(k + 1) = 2 * 2^k
        /\ 2^k \in Nat \ {0}
    BY <2>1, <2>3, Doubled
  <2>5. /\ (2 * n) % (2 * 2^(k - 1)) = 2 * (n % 2^(k - 1))
        /\ (2 * n) % (2 * 2^k) = 2 * (n % 2^k)
    BY <2>4, DoubledRest
  <2>6. (2 * n) % 2^k = 0 /\ (2 * n) % 2^(k + 1) # 0
    BY <1>2 DEF EndsIn
  <2>7. n % 2^(k - 1) \in Nat
    <3>1. n % 2^(k - 1) \in 0 .. 2^(k - 1) - 1
      BY <2>4, DivMod
    <3> QED
      BY <2>4, <3>1
  <2>8. 2 * (n % 2^(k - 1)) = 0 /\ 2 * (n % 2^k) # 0
    BY <2>4, <2>5, <2>6
  <2>9. n % 2^(k - 1) = 0 /\ n % 2^k # 0
    BY <2>7, <2>8
  <2> QED
    BY <2>1, <2>2, <2>3, <2>9 DEF EndsIn
<1> QED
  BY <1>1, <1>2

\* A carry clears the trailing ones of the number below and sets one more.
LEMMA CarryCounts ==
  ASSUME NEW top \in Nat \ {0}
  PROVE  \A n \in 1 .. top : \A k : EndsIn(n, k) =>
           k \in Nat /\ PopCount(n) = PopCount(n - 1) + 1 - k
<1> DEFINE Good(n) == \A k : EndsIn(n, k) => k \in Nat /\ PopCount(n) = PopCount(n - 1) + 1 - k
           S == {m \in Nat : \A n \in 1 .. m : Good(n)}
<1>1. 0 \in S
  OBVIOUS
<1>2. ASSUME NEW m \in Nat, m \in S PROVE m + 1 \in S
  <2> DEFINE n == m + 1
  <2>1. n \in Nat /\ n # 0
    OBVIOUS
  <2>2. PICK y \in Nat, r \in {0, 1} : n = 2 * y + r
    BY <2>1, Halves
  <2> HIDE DEF n
  <2>3. ASSUME NEW k, EndsIn(n, k) PROVE k \in Nat /\ PopCount(n) = PopCount(n - 1) + 1 - k
    <3>1. CASE r = 1
      <4>1. n % 2 = 1 /\ n - 1 = 2 * y
        BY <2>2, <3>1
      <4>2. k = 0
        BY <2>1, <2>3, <4>1, OddEnds
      <4>3. PopCount(n) = PopCount(y) + 1 /\ PopCount(n - 1) = PopCount(y) /\ PopCount(y) \in Nat
        BY <2>2, <3>1, <4>1, PopCounts
      <4> QED
        BY <4>2, <4>3
    <3>2. CASE r = 0
      <4>1. n = 2 * y /\ y \in 1 .. m /\ y - 1 \in Nat /\ n - 1 = 2 * (y - 1) + 1
        BY <2>1, <2>2, <3>2 DEF n
      <4>2. k \in Nat \ {0} /\ EndsIn(y, k - 1)
        BY <2>3, <4>1, EvenEnds
      <4>3. PopCount(y) = PopCount(y - 1) + 1 - (k - 1)
        BY <1>2, <4>1, <4>2
      <4>4. /\ PopCount(n) = PopCount(y) /\ PopCount(n - 1) = PopCount(y - 1) + 1
            /\ PopCount(y - 1) \in Nat
        BY <4>1, PopCounts
      <4> QED
        BY <4>2, <4>3, <4>4
    <3> QED
      BY <3>1, <3>2
  <2>4. Good(n)
    BY <2>3
  <2>5. \A i \in 1 .. m + 1 : i \in 1 .. m \/ i = n
    BY DEF n
  <2> HIDE DEF Good
  <2> QED
    BY <1>2, <2>4, <2>5
<1>3. top \in S
  <2> HIDE DEF S
  <2> QED
    BY <1>1, <1>2, Induction
<1> QED
  BY <1>3

\* The greatest number of chunks considered.
MaxTotal == 2^MaxHeight

\* The bound on chunks is a number.
LEMMA MaxTotalIsNat == MaxTotal \in Nat \ {0}
BY Doubled DEF MaxTotal, MaxHeight

\* A positive number within the bound ends in some number of zeros.
LEMMA EndsSomewhere ==
  \A n \in 1 .. MaxTotal : \E k : EndsIn(n, k) /\ 2^k <= n
<1> DEFINE Good(n) == \E k : EndsIn(n, k) /\ 2^k <= n
           S == {m \in Nat : m <= MaxTotal => \A n \in 1 .. m : Good(n)}
<1>1. 0 \in S
  OBVIOUS
<1>2. ASSUME NEW m \in Nat, m \in S PROVE m + 1 \in S
  <2> SUFFICES ASSUME m + 1 <= MaxTotal PROVE Good(m + 1)
    <3>1. m + 1 <= MaxTotal => m <= MaxTotal
      BY MaxTotalIsNat
    <3>2. \A i \in 1 .. m + 1 : i \in 1 .. m \/ i = m + 1
      OBVIOUS
    <3> HIDE DEF Good
    <3> QED
      BY <1>2, <3>1, <3>2
  <2> DEFINE n == m + 1
  <2>1. n \in Nat /\ n # 0
    OBVIOUS
  <2>2. PICK y \in Nat, r \in {0, 1} : n = 2 * y + r
    BY <2>1, Halves
  <2>3. CASE r = 1
    <3>1. n % 2 = 1
      BY <2>2, <2>3
    <3>2. EndsIn(n, 0)
      BY <2>1, <3>1, OddEnds
    <3>3. 2^0 <= n
      BY <2>1, Exponents
    <3> QED
      BY <3>2, <3>3
  <2>4. CASE r = 0
    <3>1. n = 2 * y /\ y \in 1 .. m
      BY <2>1, <2>2, <2>4
    <3>2. m <= MaxTotal
      BY MaxTotalIsNat
    <3>3. PICK k : EndsIn(y, k) /\ 2^k <= y
      BY <1>2, <3>1, <3>2
    <3>4. k \in 0 .. MaxHeight /\ k \in Nat
      BY <3>3 DEF EndsIn, MaxHeight
    <3>5. 2^k \in Nat \ {0} /\ 2^(k + 1) = 2 * 2^k
      BY <3>4, Doubled
    <3>6. 2^(k + 1) <= n
      BY <3>1, <3>3, <3>5
    <3>7. k # MaxHeight
      <4> SUFFICES ASSUME k = MaxHeight PROVE FALSE
        OBVIOUS
      <4>1. 2^k = MaxTotal
        BY DEF MaxTotal
      <4> QED
        BY <2>1, <3>5, <3>6, <4>1, MaxTotalIsNat
    <3>8. EndsIn(n, k + 1)
      <4>1. k < MaxHeight
        BY <3>4, <3>7 DEF MaxHeight
      <4> QED
        BY <3>1, <3>3, <3>4, <4>1, EvenEnds
    <3> QED
      BY <3>6, <3>8
  <2> QED
    BY <2>3, <2>4
<1>3. MaxTotal \in S
  <2> HIDE DEF S
  <2> QED
    BY <1>1, <1>2, MaxTotalIsNat, Induction
<1>4. \A n \in 1 .. MaxTotal : Good(n)
  <2> HIDE DEF Good
  <2> QED
    BY <1>3, MaxTotalIsNat
<1> QED
  BY <1>4

\* A positive number has a one.
LEMMA SomeOnes ==
  ASSUME NEW n \in Nat \ {0}
  PROVE  PopCount(n) \in Nat \ {0}
<1> DEFINE S == {m \in Nat : \A i \in 1 .. m : PopCount(i) \in Nat \ {0}}
<1>1. 0 \in S
  OBVIOUS
<1>2. ASSUME NEW m \in Nat, m \in S PROVE m + 1 \in S
  <2>1. PICK y \in Nat, r \in {0, 1} : m + 1 = 2 * y + r
    BY Halves
  <2>2. PopCount(y) \in Nat
    BY PopCounts
  <2>3. PopCount(m + 1) \in Nat \ {0}
    <3>1. CASE r = 1
      <4>1. PopCount(m + 1) = PopCount(y) + 1
        BY <2>1, <3>1, PopCounts
      <4> QED
        BY <2>2, <4>1
    <3>2. CASE r = 0
      <4>1. PopCount(m + 1) = PopCount(y)
        BY <2>1, <3>2, PopCounts
      <4>2. y \in 1 .. m
        BY <2>1, <3>2
      <4> QED
        BY <1>2, <4>1, <4>2
    <3> QED
      BY <3>1, <3>2
  <2>4. \A i \in 1 .. m + 1 : i \in 1 .. m \/ i = m + 1
    OBVIOUS
  <2> QED
    BY <1>2, <2>3, <2>4
<1>3. n \in S
  <2> HIDE DEF S
  <2> QED
    BY <1>1, <1>2, Induction
<1> QED
  BY <1>3

\* Powers of two grow with their exponent.
LEMMA PowersGrow ==
  ASSUME NEW j \in 0 .. MaxHeight
  PROVE  \A k \in 0 .. j : 2^k <= 2^j
<1> DEFINE S == {m \in Nat : m <= MaxHeight => \A k \in 0 .. m : 2^k <= 2^m}
<1>1. 0 \in S
  <2>1. \A k \in 0 .. 0 : k = 0
    OBVIOUS
  <2>2. 2^0 <= 2^0
    <3>1. 2^0 = 1 /\ 1 <= 1
      BY Exponents
    <3> QED
      BY <3>1, Zenon
  <2>3. ASSUME NEW k \in 0 .. 0 PROVE 2^k <= 2^0
    <3>1. k = 0
      BY <2>1
    <3> QED
      BY <2>2, <3>1, Zenon
  <2> QED
    BY <2>3
<1>2. ASSUME NEW m \in Nat, m \in S PROVE m + 1 \in S
  <2> SUFFICES ASSUME m + 1 <= MaxHeight, NEW k \in 0 .. m + 1
               PROVE  2^k <= 2^(m + 1)
    OBVIOUS
  <2>1. m \in 0 .. MaxHeight /\ m <= MaxHeight
    BY DEF MaxHeight
  <2>2. 2^m \in Nat /\ 2^(m + 1) = 2 * 2^m
    BY <2>1, Doubled
  <2>3. CASE k = m + 1
    BY <2>2, <2>3
  <2>4. CASE k \in 0 .. m
    <3>1. 2^k <= 2^m
      BY <1>2, <2>1, <2>4
    <3>2. 2^k \in Nat
      <4>1. k \in 0 .. MaxHeight
        BY <2>1, <2>4 DEF MaxHeight
      <4> QED
        BY <4>1, Doubled
    <3> QED
      BY <2>2, <3>1, <3>2
  <2> QED
    BY <2>3, <2>4
<1>3. j \in Nat /\ j <= MaxHeight
  BY DEF MaxHeight
<1>4. j \in S
  <2> HIDE DEF S
  <2> QED
    BY <1>1, <1>2, <1>3, Induction
<1> QED
  BY <1>3, <1>4

\* k ones take a number of at least 2^k - 1.
LEMMA FewOnes ==
  ASSUME NEW n \in Nat, n < MaxTotal
  PROVE  PopCount(n) \in 0 .. MaxHeight /\ 2^PopCount(n) <= n + 1
<1> DEFINE Good(i) == PopCount(i) \in 0 .. MaxHeight /\ 2^PopCount(i) <= i + 1
           S == {m \in Nat : \A i \in 0 .. m : i < MaxTotal => Good(i)}
<1>1. 0 \in S
  <2>1. PopCount(0) = 0 /\ 2^0 = 1 /\ 0 \in 0 .. MaxHeight
    BY PopCounts, Exponents DEF MaxHeight
  <2>2. Good(0)
    <3>1. 2^PopCount(0) = 1 /\ PopCount(0) \in 0 .. MaxHeight
      BY <2>1, Zenon
    <3>2. 2^PopCount(0) <= 0 + 1
      BY <3>1
    <3> QED
      BY <3>1, <3>2
  <2>3. \A i \in 0 .. 0 : i = 0
    OBVIOUS
  <2> HIDE DEF Good
  <2> QED
    BY <2>2, <2>3
<1>2. ASSUME NEW m \in Nat, m \in S PROVE m + 1 \in S
  <2> DEFINE k == m + 1
  <2>1. ASSUME k < MaxTotal PROVE Good(k)
    <3>1. k \in Nat
      OBVIOUS
    <3>2. PICK y \in Nat, r \in {0, 1} : k = 2 * y + r
      BY <3>1, Halves
    <3>3. y \in 0 .. m /\ y < MaxTotal
      BY <2>1, <3>2, MaxTotalIsNat
    <3>4. PopCount(y) \in 0 .. MaxHeight /\ 2^PopCount(y) <= y + 1
      BY <1>2, <3>3
    <3> DEFINE o == PopCount(y)
    <3>5. o \in 0 .. MaxHeight /\ o \in Nat /\ 2^o <= y + 1
      BY <3>4 DEF MaxHeight
    <3> HIDE DEF o, k
    <3>6. 2^o \in Nat /\ 2^(o + 1) = 2 * 2^o
      BY <3>5, Doubled
    <3>7. CASE r = 0
      <4>1. PopCount(k) = o
        BY <3>2, <3>7, PopCounts DEF o
      <4> QED
        BY <3>2, <3>5, <3>6, <3>7, <4>1
    <3>8. CASE r = 1
      <4>1. PopCount(k) = o + 1
        BY <3>2, <3>8, PopCounts DEF o
      <4>2. o # MaxHeight
        <5> SUFFICES ASSUME o = MaxHeight PROVE FALSE
          OBVIOUS
        <5>1. 2^o = MaxTotal
          BY DEF MaxTotal
        <5> QED
          BY <2>1, <3>2, <3>5, <3>8, <5>1, MaxTotalIsNat DEF k
      <4>3. o + 1 \in 0 .. MaxHeight
        BY <3>5, <4>2 DEF MaxHeight
      <4>4. 2^(o + 1) <= k + 1
        BY <3>2, <3>5, <3>6, <3>8
      <4> QED
        BY <4>1, <4>3, <4>4
    <3> QED
      BY <3>7, <3>8
  <2>2. \A i \in 0 .. m + 1 : i \in 0 .. m \/ i = k
    OBVIOUS
  <2> HIDE DEF Good, k
  <2> QED
    BY <1>2, <2>1, <2>2
<1>3. n \in S
  <2> HIDE DEF S
  <2> QED
    BY <1>1, <1>2, Induction
<1> QED
  BY <1>3

\* What push_cv() merges: as many entries as the total has zeros at its end.
LEMMA Merges ==
  ASSUME NEW n \in 1 .. MaxTotal
  PROVE  /\ TrailingZeros(n) \in Nat /\ PopCount(n - 1) \in Nat
         /\ TrailingZeros(n) <= PopCount(n - 1)
         /\ PopCount(n) = PopCount(n - 1) + 1 - TrailingZeros(n)
<1>1. n \in Nat \ {0} /\ n - 1 \in Nat
  BY MaxTotalIsNat
<1>2. PICK k : EndsIn(n, k)
  BY EndsSomewhere
<1> DEFINE z == TrailingZeros(n)
<1>3. EndsIn(n, z)
  BY <1>2 DEF TrailingZeros, EndsIn
<1> HIDE DEF z
<1>4. z \in Nat /\ PopCount(n) = PopCount(n - 1) + 1 - z
  BY <1>1, <1>3, CarryCounts
<1>5. PopCount(n - 1) \in Nat
  BY <1>1, PopCounts
<1>6. PopCount(n) >= 1 /\ PopCount(n) \in Nat
  BY <1>1, SomeOnes
<1> QED
  BY <1>4, <1>5, <1>6 DEF z

\* Shifting a number moves its ones and adds none.
LEMMA ScaledOnes ==
  ASSUME NEW n \in Powers, NEW q \in Nat
  PROVE  PopCount(n * q) = PopCount(q)
<1> DEFINE Good(k) == \A x \in Nat : PopCount(2^k * x) = PopCount(x)
           S == {k \in Nat : k <= MaxHeight => Good(k)}
<1>1. 0 \in S
  BY Exponents
<1>2. ASSUME NEW k \in Nat, k \in S PROVE k + 1 \in S
  <2> SUFFICES ASSUME k + 1 <= MaxHeight, NEW x \in Nat
               PROVE  PopCount(2^(k + 1) * x) = PopCount(x)
    OBVIOUS
  <2>1. k \in 0 .. MaxHeight
    BY DEF MaxHeight
  <2>2. PICK d \in Nat \ {0} : d = 2^k /\ 2^(k + 1) = 2 * d
    BY <2>1, Doubled
  <2>3. PICK y \in Nat : y = d * x /\ (2 * d) * x = 2 * y
    OBVIOUS
  <2>4. PopCount(2 * y) = PopCount(y)
    BY PopCounts
  <2>5. PopCount(d * x) = PopCount(x)
    BY <1>2, <2>1, <2>2
  <2> QED
    BY <2>2, <2>3, <2>4, <2>5
<1>3. PICK k \in 0 .. MaxHeight : n = 2^k
  BY PowersAre DEF IsPow2
<1>4. k \in Nat /\ k <= MaxHeight
  BY DEF MaxHeight
<1>5. k \in S
  <2> HIDE DEF S
  <2> QED
    BY <1>1, <1>2, <1>4, Induction
<1> QED
  BY <1>3, <1>4, <1>5

-----------------------------------------------------------------------------
(* The open chunk *)

\* A chunk state: its fields, and no more units than a chunk holds.
IsChunk(c) ==
  /\ c = [cv |-> c.cv, counter |-> c.counter, block |-> c.block,
          compressed |-> c.compressed]
  /\ c.counter \in Nat /\ c.compressed \in Nat
  /\ c.block \in Seq(Nat) /\ Len(c.block) <= BlockLen
  /\ ChunkFill(c) <= ChunkLen

\* What an open chunk holds is a number of units.
LEMMA FillIsNat == ASSUME NEW c, IsChunk(c) PROVE ChunkFill(c) \in Nat
<1>1. BlockLen \in Nat /\ c.compressed \in Nat /\ Len(c.block) \in Nat
  BY LensArePositive DEF IsChunk
<1>2. BlockLen * c.compressed \in Nat
  BY <1>1
<1> QED
  BY <1>1, <1>2 DEF ChunkFill

\* A new chunk is empty.
LEMMA NewChunk ==
  ASSUME NEW n \in Nat
  PROVE  IsChunk(ChunkInit(n)) /\ ChunkInit(n).counter = n /\ ChunkFill(ChunkInit(n)) = 0
<1> DEFINE c == ChunkInit(n)
<1>1. /\ c.cv = Key /\ c.counter = n /\ c.block = << >> /\ c.compressed = 0
      /\ c = [cv |-> c.cv, counter |-> c.counter, block |-> c.block,
              compressed |-> c.compressed]
  BY DEF ChunkInit
<1> HIDE DEF c
<1>2. ChunkFill(c) = 0
  BY <1>1, LensArePositive DEF ChunkFill
<1> QED
  BY <1>1, <1>2, LensArePositive DEF IsChunk, c

\* A unit more, and the same chunk.
LEMMA OneMoreUnit ==
  ASSUME NEW c, IsChunk(c), ChunkFill(c) < ChunkLen, NEW u \in Nat
  PROVE  /\ IsChunk(ChunkAdd(c, u))
         /\ ChunkAdd(c, u).counter = c.counter
         /\ ChunkFill(ChunkAdd(c, u)) = ChunkFill(c) + 1
<1> DEFINE d == ChunkAdd(c, u)
<1>1. CASE Len(c.block) = BlockLen
  <2>1. /\ d.counter = c.counter /\ d.block = <<u>> /\ d.compressed = c.compressed + 1
        /\ d = [cv |-> d.cv, counter |-> d.counter, block |-> d.block,
                compressed |-> d.compressed]
    BY <1>1 DEF ChunkAdd, IsChunk
  <2> HIDE DEF d
  <2>2. \A a, b \in Nat : a * (b + 1) = a * b + a /\ a * b \in Nat
    OBVIOUS
  <2>3. /\ BlockLen * (c.compressed + 1) = BlockLen * c.compressed + BlockLen
        /\ BlockLen * c.compressed \in Nat
    BY <2>2, LensArePositive DEF IsChunk
  <2>4. ChunkFill(d) = ChunkFill(c) + 1
    BY <1>1, <2>1, <2>3, LensArePositive DEF ChunkFill
  <2>5. <<u>> \in Seq(Nat) /\ Len(<<u>>) = 1
    OBVIOUS
  <2>6. ChunkFill(d) <= ChunkLen
    BY <2>4, FillIsNat, LensArePositive
  <2> QED
    BY <2>1, <2>4, <2>5, <2>6, LensArePositive DEF IsChunk, d
<1>2. CASE Len(c.block) # BlockLen
  <2>1. /\ d.counter = c.counter /\ d.block = Append(c.block, u)
        /\ d.compressed = c.compressed
        /\ d = [cv |-> d.cv, counter |-> d.counter, block |-> d.block,
                compressed |-> d.compressed]
    BY <1>2 DEF ChunkAdd, IsChunk
  <2> HIDE DEF d
  <2>2. Append(c.block, u) \in Seq(Nat) /\ Len(Append(c.block, u)) = Len(c.block) + 1
    BY DEF IsChunk
  <2>3. \A a, b \in Nat : a * b \in Nat
    OBVIOUS
  <2>4. BlockLen * c.compressed \in Nat /\ Len(c.block) \in Nat
    BY <2>3, LensArePositive DEF IsChunk
  <2>5. ChunkFill(d) = ChunkFill(c) + 1
    <3>1. ChunkFill(d) = BlockLen * c.compressed + Len(Append(c.block, u))
      BY <2>1 DEF ChunkFill
    <3>2. ChunkFill(c) = BlockLen * c.compressed + Len(c.block)
      BY DEF ChunkFill
    <3> QED
      BY <2>2, <2>4, <3>1, <3>2
  <2>6. ChunkFill(d) <= ChunkLen
    BY <2>5, FillIsNat, LensArePositive
  <2>7. Len(d.block) <= BlockLen
    BY <1>2, <2>1, <2>2, <2>4, LensArePositive DEF IsChunk
  <2> QED
    BY <2>1, <2>2, <2>5, <2>6, <2>7 DEF IsChunk, d
<1> QED
  BY <1>1, <1>2

\* chunk_update() of the units from .. from + n - 1, unit by unit.
Feeds(f, c, from, n) ==
  f = [i \in 0 .. n |-> IF i = 0 THEN c ELSE ChunkAdd(f[i - 1], from + i - 1)]

\* The turns of chunk_state::update() are a function of their number.
LEMMA FeedExists ==
  ASSUME NEW c, NEW from, NEW n \in Nat
  PROVE  \E f : Feeds(f, c, from, n)
<1> DEFINE S == {m \in Nat : \E f : Feeds(f, c, from, m)}
<1>1. 0 \in S
  <2> DEFINE f == [i \in 0 .. 0 |-> c]
  <2>1. Feeds(f, c, from, 0)
    BY DEF Feeds
  <2> QED
    BY <2>1
<1>2. ASSUME NEW m \in Nat, m \in S PROVE m + 1 \in S
  <2>1. PICK f : Feeds(f, c, from, m)
    BY <1>2
  <2> DEFINE g == [i \in 0 .. m + 1 |->
                     IF i = m + 1 THEN ChunkAdd(f[m], from + (m + 1) - 1) ELSE f[i]]
  <2>2. ASSUME NEW i \in 0 .. m + 1
        PROVE  g[i] = IF i = 0 THEN c ELSE ChunkAdd(g[i - 1], from + i - 1)
    <3>1. CASE i = m + 1
      <4>1. i # 0 /\ i - 1 = m /\ m \in 0 .. m + 1 /\ m # m + 1
        BY <3>1
      <4>2. g[m] = f[m]
        BY <4>1
      <4>3. g[i] = ChunkAdd(f[m], from + i - 1)
        BY <3>1
      <4> QED
        BY <4>1, <4>2, <4>3
    <3>2. CASE i # m + 1
      <4>1. i \in 0 .. m /\ (i # 0 => i - 1 \in 0 .. m + 1 /\ i - 1 # m + 1)
        BY <3>2
      <4>2. g[i] = f[i] /\ (i # 0 => g[i - 1] = f[i - 1])
        BY <3>2, <4>1
      <4>3. f[i] = IF i = 0 THEN c ELSE ChunkAdd(f[i - 1], from + i - 1)
        BY <2>1, <4>1 DEF Feeds
      <4> QED
        BY <4>2, <4>3
    <3> QED
      BY <3>1, <3>2
  <2>3. Feeds(g, c, from, m + 1)
    <3> DEFINE h == [i \in 0 .. m + 1 |->
                       IF i = 0 THEN c ELSE ChunkAdd(g[i - 1], from + i - 1)]
    <3>1. DOMAIN g = DOMAIN h /\ DOMAIN g = 0 .. m + 1
      OBVIOUS
    <3>2. \A i \in 0 .. m + 1 : g[i] = h[i]
      BY <2>2
    <3>3. g = h
      <4> HIDE DEF g
      <4> SUFFICES g = [i \in DOMAIN g |-> g[i]]
        BY <3>1, <3>2
      <4> QED
        BY DEF g
    <3> QED
      BY <3>3 DEF Feeds
  <2> QED
    BY <2>3
<1>3. Nat \subseteq S
  <2> HIDE DEF S
  <2> QED
    BY <1>1, <1>2, Induction
<1> QED
  BY <1>3

\* chunk_state::update() is any such function's last turn.
LEMMA ChunkUpdateIs ==
  ASSUME NEW c, NEW from, NEW n \in Nat
  PROVE  \E f : Feeds(f, c, from, n) /\ ChunkUpdate(c, from, n) = f[n]
<1> DEFINE g == CHOOSE f : Feeds(f, c, from, n)
<1>1. Feeds(g, c, from, n)
  BY FeedExists
<1>2. ChunkUpdate(c, from, n) = g[n]
  BY DEF ChunkUpdate, Feeds
<1> QED
  BY <1>1, <1>2

\* Any number of units that still fit.
LEMMA MoreUnits ==
  ASSUME NEW c, IsChunk(c), NEW from \in Nat, NEW n \in Nat, ChunkFill(c) + n <= ChunkLen
  PROVE  /\ IsChunk(ChunkUpdate(c, from, n))
         /\ ChunkUpdate(c, from, n).counter = c.counter
         /\ ChunkFill(ChunkUpdate(c, from, n)) = ChunkFill(c) + n
<1>1. PICK f : Feeds(f, c, from, n) /\ ChunkUpdate(c, from, n) = f[n]
  BY ChunkUpdateIs
<1> DEFINE Good(i) ==
      IsChunk(f[i]) /\ f[i].counter = c.counter /\ ChunkFill(f[i]) = ChunkFill(c) + i
<1> DEFINE S == {i \in Nat : i <= n => Good(i)}
<1>2. ChunkFill(c) \in Nat /\ ChunkLen \in Nat
  BY FillIsNat, LensArePositive
<1>3. 0 \in S
  <2>1. f[0] = c
    BY <1>1 DEF Feeds
  <2> QED
    BY <1>2, <2>1
<1>4. ASSUME NEW i \in Nat, i \in S PROVE i + 1 \in S
  <2> SUFFICES ASSUME i + 1 <= n PROVE Good(i + 1)
    OBVIOUS
  <2>1. Good(i)
    BY <1>4
  <2>2. f[i + 1] = ChunkAdd(f[i], from + i)
    <3>1. i + 1 \in 0 .. n /\ i + 1 # 0 /\ (i + 1) - 1 = i /\ from + (i + 1) - 1 = from + i
      OBVIOUS
    <3>2. f[i + 1] = IF i + 1 = 0 THEN c ELSE ChunkAdd(f[(i + 1) - 1], from + (i + 1) - 1)
      BY <1>1, <3>1 DEF Feeds
    <3> QED
      BY <3>1, <3>2
  <2>3. ChunkFill(f[i]) < ChunkLen /\ from + i \in Nat
    BY <1>2, <2>1
  <2>4. /\ IsChunk(f[i + 1]) /\ f[i + 1].counter = f[i].counter
        /\ ChunkFill(f[i + 1]) = ChunkFill(f[i]) + 1
    BY <2>1, <2>2, <2>3, OneMoreUnit
  <2> QED
    BY <1>2, <2>1, <2>4
<1>5. n \in S
  <2> HIDE DEF S
  <2> QED
    BY <1>3, <1>4, Induction
<1> QED
  BY <1>1, <1>5

-----------------------------------------------------------------------------
(* The hasher *)

IsHasher(h) ==
  /\ h = [chunk |-> h.chunk, stack |-> h.stack, failed |-> h.failed]
  /\ IsChunk(h.chunk)

\* count() is a number.
LEMMA CountIsNat == ASSUME NEW h, IsHasher(h) PROVE Count(h) \in Nat
<1>1. h.chunk.counter \in Nat /\ ChunkLen \in Nat /\ ChunkFill(h.chunk) \in Nat
  BY FillIsNat, LensArePositive DEF IsHasher, IsChunk
<1>2. \A a, b \in Nat : a * b \in Nat
  OBVIOUS
<1> QED
  BY <1>1, <1>2 DEF Count

\* A new hasher has counted nothing.
LEMMA NewHasherIs == IsHasher(NewHasher) /\ Count(NewHasher) = 0
<1>1. NewHasher.chunk = ChunkInit(0) /\ IsHasher(NewHasher)
  BY NewChunk DEF NewHasher, IsHasher
<1> QED
  BY <1>1, NewChunk, LensArePositive DEF Count

\* reset() counts nothing again.
LEMMA ResetIs ==
  ASSUME NEW h, IsHasher(h)
  PROVE  IsHasher(Reset(h)) /\ Count(Reset(h)) = 0
<1> DEFINE c == ChunkInit(0)
           g == [h EXCEPT !.chunk = c]
<1>1. IsChunk(c)
  BY NewChunk
<1> HIDE DEF c
<1>2. IsHasher(g) /\ g.chunk = c
  BY <1>1 DEF IsHasher
<1>3. Reset(h) = [g EXCEPT !.stack = << >>]
  BY DEF Reset, c
<1> HIDE DEF g
<1>4. IsHasher(Reset(h)) /\ Reset(h).chunk = c
  BY <1>2, <1>3 DEF IsHasher
<1>5. Reset(h).chunk = ChunkInit(0) /\ IsHasher(Reset(h))
  BY <1>4 DEF c
<1> QED
  BY <1>5, NewChunk, LensArePositive DEF Count

\* push_cv() leaves the open chunk alone.
LEMMA PushKeepsChunk ==
  ASSUME NEW h, IsHasher(h), NEW cv, NEW total, NEW subtree
  PROVE  IsHasher(PushCV(h, cv, total, subtree)) /\ PushCV(h, cv, total, subtree).chunk = h.chunk
<1>1. \E s : PushCV(h, cv, total, subtree) \in {[h EXCEPT !.failed = TRUE], [h EXCEPT !.stack = s]}
  BY Zenon DEF PushCV
<1>2. ASSUME NEW s, NEW g \in {[h EXCEPT !.failed = TRUE], [h EXCEPT !.stack = s]}
      PROVE  IsHasher(g) /\ g.chunk = h.chunk
  BY DEF IsHasher
<1> QED
  BY <1>1, <1>2

\* CloseFullChunk() counts no unit and leaves room for one.
LEMMA CloseKeepsCount ==
  ASSUME NEW h, IsHasher(h)
  PROVE  /\ IsHasher(CloseFullChunk(h)) /\ Count(CloseFullChunk(h)) = Count(h)
         /\ ChunkFill(CloseFullChunk(h).chunk) < ChunkLen
         /\ ChunkFill(h.chunk) # ChunkLen => CloseFullChunk(h) = h
         /\ ChunkFill(h.chunk) = ChunkLen =>
              /\ ChunkFill(CloseFullChunk(h).chunk) = 0
              /\ CloseFullChunk(h).chunk.counter = h.chunk.counter + 1
<1>1. /\ h.chunk.counter \in Nat /\ ChunkLen \in Nat \ {0} /\ ChunkFill(h.chunk) \in Nat
      /\ ChunkFill(h.chunk) <= ChunkLen
  BY FillIsNat, LensArePositive DEF IsHasher, IsChunk
<1>2. CASE ChunkFill(h.chunk) # ChunkLen
  BY <1>1, <1>2 DEF CloseFullChunk
<1>3. CASE ChunkFill(h.chunk) = ChunkLen
  <2> DEFINE c == ChunkInit(h.chunk.counter + 1)
             p == PushCV(h, ChunkOutput(h.chunk), h.chunk.counter + 1, 1)
  <2>1. IsHasher(p)
    BY PushKeepsChunk
  <2>2. IsChunk(c) /\ c.counter = h.chunk.counter + 1 /\ ChunkFill(c) = 0
    BY <1>1, NewChunk
  <2>3. CloseFullChunk(h) = [p EXCEPT !.chunk = c]
    BY <1>3 DEF CloseFullChunk
  <2> HIDE DEF p, c
  <2>4. IsHasher(CloseFullChunk(h)) /\ CloseFullChunk(h).chunk = c
    BY <2>1, <2>2, <2>3 DEF IsHasher
  <2>5. Count(CloseFullChunk(h)) = (h.chunk.counter + 1) * ChunkLen + 0
    BY <2>2, <2>4 DEF Count
  <2>6. \A a, b \in Nat : (a + 1) * b + 0 = a * b + b
    OBVIOUS
  <2>7. Count(h) = h.chunk.counter * ChunkLen + ChunkLen
    BY <1>3 DEF Count
  <2>8. Count(CloseFullChunk(h)) = Count(h)
    BY <1>1, <2>5, <2>6, <2>7
  <2> QED
    BY <1>1, <1>3, <2>2, <2>4, <2>8
<1> QED
  BY <1>2, <1>3

\* push_cv() of n chunks and the advance of the counter over them.
Absorb(h, cv, total, n) == [PushCV(h, cv, total, n) EXCEPT !.chunk.counter = @ + n]

\* Chunks pushed as a subtree count, and the open chunk keeps its units.
LEMMA AbsorbCounts ==
  ASSUME NEW h, IsHasher(h), NEW cv, NEW total, NEW n \in Nat
  PROVE  /\ IsHasher(Absorb(h, cv, total, n))
         /\ Count(Absorb(h, cv, total, n)) = Count(h) + n * ChunkLen
         /\ Absorb(h, cv, total, n).chunk.counter = h.chunk.counter + n
         /\ ChunkFill(Absorb(h, cv, total, n).chunk) = ChunkFill(h.chunk)
<1> DEFINE p == PushCV(h, cv, total, n)
           g == [p EXCEPT !.chunk.counter = @ + n]
<1>1. IsHasher(p) /\ p.chunk = h.chunk
  BY PushKeepsChunk
<1> HIDE DEF p
<1>2. /\ g.chunk = [h.chunk EXCEPT !.counter = @ + n]
      /\ g = [chunk |-> g.chunk, stack |-> g.stack, failed |-> g.failed]
  BY <1>1 DEF IsHasher
<1> HIDE DEF g
<1> DEFINE c == h.chunk
           d == g.chunk
<1>3. IsChunk(c) /\ d = [c EXCEPT !.counter = @ + n]
  BY <1>2 DEF IsHasher
<1> HIDE DEF c, d
<1>4. /\ d.counter = c.counter + n /\ d.block = c.block /\ d.compressed = c.compressed
      /\ d = [cv |-> d.cv, counter |-> d.counter, block |-> d.block,
              compressed |-> d.compressed]
  BY <1>3 DEF IsChunk
<1>5. ChunkFill(d) = ChunkFill(c)
  BY <1>4 DEF ChunkFill
<1>6. IsChunk(d)
  BY <1>3, <1>4, <1>5 DEF IsChunk
<1>7. \A a, b, k \in Nat : (a + k) * b = a * b + k * b /\ a * b \in Nat /\ k * b \in Nat
  OBVIOUS
<1>8. c.counter \in Nat /\ ChunkLen \in Nat /\ ChunkFill(c) \in Nat
  BY <1>3, FillIsNat, LensArePositive DEF IsChunk
<1>9. /\ (c.counter + n) * ChunkLen = c.counter * ChunkLen + n * ChunkLen
      /\ c.counter * ChunkLen \in Nat /\ n * ChunkLen \in Nat
  BY <1>7, <1>8
<1>10. Count(g) = (c.counter + n) * ChunkLen + ChunkFill(c)
  BY <1>4, <1>5 DEF Count, d
<1>11. Count(h) = c.counter * ChunkLen + ChunkFill(c)
  BY DEF Count, c
<1>12. Count(g) = Count(h) + n * ChunkLen
  BY <1>8, <1>9, <1>10, <1>11
<1>13. IsHasher(g) /\ g.chunk.counter = h.chunk.counter + n
       /\ ChunkFill(g.chunk) = ChunkFill(h.chunk)
  BY <1>2, <1>4, <1>5, <1>6 DEF IsHasher, c, d
<1>14. g = Absorb(h, cv, total, n)
  BY DEF g, p, Absorb
<1> QED
  BY <1>12, <1>13, <1>14

\* push_subtree_cv() counts its subtree's chunks.
LEMMA SubtreeCounts ==
  ASSUME NEW h, IsHasher(h), NEW cv, NEW n \in Nat
  PROVE  /\ IsHasher(PushSubtreeCV(h, cv, n))
         /\ Count(PushSubtreeCV(h, cv, n)) = Count(h) + n * ChunkLen
<1> DEFINE closed == CloseFullChunk(h)
<1>1. IsHasher(closed) /\ Count(closed) = Count(h)
  BY CloseKeepsCount
<1>2. PushSubtreeCV(h, cv, n) = Absorb(closed, cv, closed.chunk.counter + n, n)
  BY DEF PushSubtreeCV, Absorb
<1> HIDE DEF closed
<1> QED
  BY <1>1, <1>2, AbsorbCounts

-----------------------------------------------------------------------------
(* The stack of chaining values *)

\* The greatest message considered.
Limit == MaxTotal * ChunkLen

\* The bound on units is a number.
LEMMA LimitIsNat == Limit \in Nat
<1>1. \A a, b \in Nat : a * b \in Nat
  OBVIOUS
<1> QED
  BY <1>1, MaxTotalIsNat, LensArePositive DEF Limit

\* The stack that stands for so many chunks, with every assertion held.
Carried(h, total) ==
  /\ h.failed = FALSE
  /\ \E T : h.stack \in Seq(T)
  /\ Len(h.stack) = PopCount(total)

Sound(h) == IsHasher(h) /\ Carried(h, h.chunk.counter)

\* An aligned push finds the entries it merges and leaves one per one bit.
LEMMA PushCarries ==
  ASSUME NEW h, Sound(h), NEW cv, NEW n \in Powers,
         h.chunk.counter % n = 0, h.chunk.counter + n <= MaxTotal
  PROVE  Carried(PushCV(h, cv, h.chunk.counter + n, n), h.chunk.counter + n)
<1>1. PICK c \in Nat : c = h.chunk.counter
  BY DEF Sound, IsHasher, IsChunk
<1>2. n \in Nat \ {0}
  BY DEF Powers
<1>3. PICK q \in Nat : c = q * n
  <2>1. c = (c \div n) * n + (c % n) /\ c \div n \in Nat
    BY <1>1, <1>2, DivMod
  <2>2. PICK q \in Nat : q = c \div n
    BY <2>1
  <2>3. c % n = 0
    BY <1>1
  <2>4. q * n \in Nat
    BY <1>2
  <2>5. c = q * n
    BY <2>1, <2>2, <2>3, <2>4
  <2> QED
    BY <2>5
<1>4. c + n = (q + 1) * n + 0 /\ c = n * q /\ c + n = n * (q + 1)
  <2>1. \A a, b \in Nat : a * b + b = (a + 1) * b + 0 /\ a * b = b * a /\ a * b + b = b * (a + 1)
    OBVIOUS
  <2> QED
    BY <1>2, <1>3, <2>1
<1>5. (c + n) \div n = q + 1 /\ (c + n) % n = 0
  <2>1. c + n \in Nat /\ q + 1 \in Int /\ 0 \in 0 .. n - 1
    BY <1>2
  <2> QED
    BY <1>2, <1>4, <2>1, DivModUnique
<1>6. q + 1 \in 1 .. MaxTotal
  <2>1. \A a, b \in Nat \ {0} : a <= b * a
    OBVIOUS
  <2>2. q + 1 <= n * (q + 1)
    BY <1>2, <2>1
  <2>3. c + n <= MaxTotal
    BY <1>1
  <2> QED
    BY <1>2, <1>4, <2>2, <2>3, MaxTotalIsNat
<1>7. PopCount(c) = PopCount(q) /\ PopCount(c + n) = PopCount(q + 1)
  BY <1>4, ScaledOnes
<1> DEFINE merges == TrailingZeros(q + 1)
           depth == Len(h.stack)
           merged == CHOOSE f : f = [k \in 0 .. merges |->
                       IF k = 0 THEN cv ELSE Parent(h.stack[depth - k + 1], f[k - 1])]
           p == PushCV(h, cv, c + n, n)
           e == merged[merges]
<1>8. /\ merges \in Nat /\ PopCount(q) \in Nat /\ merges <= PopCount(q)
      /\ PopCount(q + 1) = PopCount(q) + 1 - merges
  BY <1>6, Merges
<1>9. depth = PopCount(q)
  BY <1>1, <1>7 DEF Sound, Carried
<1>10. IsPow2(n) /\ ~(merges > depth)
  BY <1>8, <1>9, PowersAre
<1>11. p = [h EXCEPT !.stack = Append(SubSeq(@, 1, depth - merges), e)]
  BY <1>5, <1>10, Zenon DEF PushCV
<1> HIDE DEF merges, e
<1> DEFINE s == Append(SubSeq(h.stack, 1, depth - merges), e)
<1>12. PICK T : h.stack \in Seq(T)
  BY DEF Sound, Carried
<1>13. s \in Seq(T \cup {e}) /\ Len(s) = depth - merges + 1
  <2>1. depth - merges \in Nat /\ depth - merges <= depth /\ depth \in Nat
    BY <1>8, <1>9
  <2>2. SubSeq(h.stack, 1, depth - merges) \in Seq(T) /\ Len(SubSeq(h.stack, 1, depth - merges)) = depth - merges
    BY <1>12, <2>1
  <2>3. SubSeq(h.stack, 1, depth - merges) \in Seq(T \cup {e})
    BY <2>2
  <2> QED
    BY <2>2, <2>3
<1> HIDE DEF s
<1>14. p = [h EXCEPT !.stack = s]
  BY <1>11 DEF s
<1> HIDE DEF p
<1>15. p.failed = FALSE /\ p.stack = s
  BY <1>14 DEF Sound, IsHasher, Carried
<1>16. Len(p.stack) = PopCount(c + n)
  BY <1>7, <1>8, <1>9, <1>13, <1>15
<1>17. \E U : p.stack \in Seq(U)
  BY <1>13, <1>15
<1>18. Carried(p, c + n)
  BY <1>15, <1>16, <1>17 DEF Carried
<1> QED
  BY <1>1, <1>18 DEF p

\* The same with the counter's advance.
LEMMA AbsorbSound ==
  ASSUME NEW h, Sound(h), NEW cv, NEW n \in Powers,
         h.chunk.counter % n = 0, h.chunk.counter + n <= MaxTotal
  PROVE  Sound(Absorb(h, cv, h.chunk.counter + n, n))
<1> DEFINE p == PushCV(h, cv, h.chunk.counter + n, n)
           g == Absorb(h, cv, h.chunk.counter + n, n)
<1>1. IsHasher(h) /\ n \in Nat
  BY DEF Sound, Powers
<1>2. IsHasher(g) /\ g.chunk.counter = h.chunk.counter + n
  BY <1>1, AbsorbCounts
<1>3. Carried(p, h.chunk.counter + n) /\ IsHasher(p)
  BY <1>1, PushCarries, PushKeepsChunk
<1>4. g = [p EXCEPT !.chunk.counter = @ + n]
  BY DEF Absorb
<1> HIDE DEF p
<1>5. g.stack = p.stack /\ g.failed = p.failed
  BY <1>3, <1>4 DEF IsHasher
<1> HIDE DEF g
<1>6. Carried(g, h.chunk.counter + n)
  BY <1>3, <1>5 DEF Carried
<1>7. Sound(g)
  BY <1>2, <1>6 DEF Sound
<1> QED
  BY <1>7 DEF g

\* A new hasher is sound.
LEMMA NewIsSound == Sound(NewHasher)
<1>1. /\ NewHasher.chunk = ChunkInit(0) /\ NewHasher.failed = FALSE
      /\ NewHasher.stack = << >> /\ ChunkInit(0).counter = 0
  BY DEF NewHasher, ChunkInit
<1>2. << >> \in Seq({}) /\ Len(<< >>) = 0
  OBVIOUS
<1> QED
  BY <1>1, <1>2, NewHasherIs, PopCounts DEF Sound, Carried

\* reset() leaves a sound hasher.
LEMMA ResetIsSound ==
  ASSUME NEW h, Sound(h)
  PROVE  Sound(Reset(h))
<1>1. IsHasher(h) /\ h.failed = FALSE
  BY DEF Sound, Carried
<1> DEFINE c == ChunkInit(0)
           g == [h EXCEPT !.chunk = c]
<1>2. g.failed = FALSE /\ g.chunk = c /\ g = [chunk |-> g.chunk, stack |-> g.stack, failed |-> g.failed]
  <2> HIDE DEF c
  <2> QED
    BY <1>1 DEF IsHasher
<1>3. Reset(h) = [g EXCEPT !.stack = << >>]
  BY DEF Reset, c
<1> HIDE DEF g
<1>4. Reset(h).failed = FALSE /\ Reset(h).stack = << >> /\ Reset(h).chunk = c
  BY <1>2, <1>3
<1>5. << >> \in Seq({}) /\ Len(<< >>) = 0
  OBVIOUS
<1>6. c.counter = 0
  BY DEF ChunkInit
<1> QED
  BY <1>1, <1>4, <1>5, <1>6, ResetIs, PopCounts DEF Sound, Carried

\* A message within the limit has its chunks below the greatest number.
LEMMA WithinLimit ==
  ASSUME NEW c \in Nat, c * ChunkLen <= Limit
  PROVE  c <= MaxTotal
<1> SUFFICES ASSUME c >= MaxTotal + 1 PROVE FALSE
  BY MaxTotalIsNat
<1>1. \A a, b, l \in Nat : a >= b + 1 => a * l >= b * l + l /\ a * l \in Nat /\ b * l \in Nat
  OBVIOUS
<1>2. c * ChunkLen >= MaxTotal * ChunkLen + ChunkLen /\ c * ChunkLen \in Nat /\ MaxTotal * ChunkLen \in Nat
  BY <1>1, MaxTotalIsNat, LensArePositive
<1> QED
  BY <1>2, LensArePositive DEF Limit

\* The chunk that CloseFullChunk() closes is pushed as a subtree of its own.
LEMMA CloseSound ==
  ASSUME NEW h, Sound(h), Count(h) <= Limit
  PROVE  Sound(CloseFullChunk(h))
<1> DEFINE g == CloseFullChunk(h)
           p == PushCV(h, ChunkOutput(h.chunk), h.chunk.counter + 1, 1)
           d == ChunkInit(h.chunk.counter + 1)
<1>1. IsHasher(h) /\ h.chunk.counter \in Nat
  BY DEF Sound, IsHasher, IsChunk
<1>2. CASE ChunkFill(h.chunk) # ChunkLen
  BY <1>2 DEF CloseFullChunk
<1>3. CASE ChunkFill(h.chunk) = ChunkLen
  <2>1. (h.chunk.counter + 1) * ChunkLen <= Limit
    <3>1. \A a, b \in Nat : (a + 1) * b = a * b + b
      OBVIOUS
    <3> QED
      BY <1>1, <1>3, <3>1, LensArePositive DEF Count
  <2>2. h.chunk.counter + 1 <= MaxTotal
    BY <1>1, <2>1, WithinLimit
  <2>3. 1 \in Powers /\ h.chunk.counter % 1 = 0
    BY <1>1 DEF Powers
  <2>4. Carried(p, h.chunk.counter + 1) /\ IsHasher(p)
    BY <1>1, <2>2, <2>3, PushCarries, PushKeepsChunk
  <2>5. g = [p EXCEPT !.chunk = d]
    BY <1>3 DEF CloseFullChunk
  <2>6. IsHasher(g) /\ g.chunk.counter = h.chunk.counter + 1
    BY <1>1, <1>3, CloseKeepsCount
  <2> HIDE DEF p, d
  <2>7. g.stack = p.stack /\ g.failed = p.failed
    BY <2>4, <2>5 DEF IsHasher
  <2> HIDE DEF g
  <2>8. Carried(g, g.chunk.counter)
    BY <2>4, <2>6, <2>7 DEF Carried
  <2>9. Sound(g)
    BY <2>6, <2>8 DEF Sound
  <2> QED
    BY <2>9 DEF g
<1> QED
  BY <1>2, <1>3

\* Units in the open chunk are no matter of the stack.
LEMMA ChunkSound ==
  ASSUME NEW h, Sound(h), NEW c, IsChunk(c), c.counter = h.chunk.counter
  PROVE  Sound([h EXCEPT !.chunk = c])
<1> DEFINE g == [h EXCEPT !.chunk = c]
<1>1. /\ g.chunk = c /\ g.stack = h.stack /\ g.failed = h.failed
      /\ g = [chunk |-> g.chunk, stack |-> g.stack, failed |-> g.failed]
  BY DEF Sound, IsHasher
<1> HIDE DEF g
<1>2. Sound(g)
  BY <1>1 DEF Sound, IsHasher, Carried
<1> QED
  BY <1>2 DEF g

\* push_subtree_cv() on a chunk boundary, at a multiple of what it pushes.
Multiple(u, size) == \E q \in Nat : u = q * size

\* push_subtree_cv() of an aligned subtree keeps a hasher sound.
LEMMA SubtreeSound ==
  ASSUME NEW h, Sound(h), NEW cv, NEW n \in Powers,
         Multiple(Count(h), n * ChunkLen), Count(h) + n * ChunkLen <= Limit
  PROVE  Sound(PushSubtreeCV(h, cv, n))
<1> DEFINE g == CloseFullChunk(h)
<1>1. IsHasher(h) /\ Count(h) \in Nat /\ ChunkLen \in Nat \ {0} /\ n \in Nat \ {0}
  BY CountIsNat, LensArePositive DEF Sound, Powers
<1>2. n * ChunkLen \in Nat
  <2>1. \A a, b \in Nat : a * b \in Nat
    OBVIOUS
  <2> QED
    BY <1>1, <2>1
<1>3. Sound(g) /\ IsHasher(g) /\ Count(g) = Count(h) /\ ChunkFill(g.chunk) < ChunkLen
  <2>1. Count(h) <= Limit
    BY <1>1, <1>2, LimitIsNat
  <2> QED
    BY <1>1, <2>1, CloseSound, CloseKeepsCount
<1>4. PushSubtreeCV(h, cv, n) = Absorb(g, cv, g.chunk.counter + n, n)
  BY DEF PushSubtreeCV, Absorb
<1> HIDE DEF g
<1>5. PICK c \in Nat, f \in 0 .. ChunkLen - 1 : c = g.chunk.counter /\ f = ChunkFill(g.chunk)
  BY <1>1, <1>3, FillIsNat DEF IsHasher, IsChunk
<1>6. PICK q \in Nat : Count(h) = q * (n * ChunkLen)
  BY DEF Multiple
<1>7. Count(h) = c * ChunkLen + f
  BY <1>3, <1>5 DEF Count
<1>8. Count(h) = (q * n) * ChunkLen + 0 /\ q * n \in Nat
  <2>1. \A a, b, l \in Nat : a * (b * l) = (a * b) * l + 0 /\ a * b \in Nat
    OBVIOUS
  <2> QED
    BY <1>1, <1>6, <2>1
<1>9. c = q * n
  <2>1. Count(h) \div ChunkLen = c
    BY <1>1, <1>7, DivModUnique
  <2>2. 0 \in 0 .. ChunkLen - 1 /\ q * n \in Int
    BY <1>1, <1>8
  <2>3. Count(h) \div ChunkLen = q * n
    BY <1>1, <1>8, <2>2, DivModUnique
  <2> QED
    BY <2>1, <2>3
<1>10. c % n = 0
  <2>1. c = q * n + 0 /\ 0 \in 0 .. n - 1 /\ q \in Int
    BY <1>1, <1>8, <1>9
  <2> QED
    BY <1>1, <2>1, DivModUnique
<1>11. c + n <= MaxTotal
  <2>1. \A a, b, l \in Nat : (a + b) * l = a * l + b * l /\ a * l \in Nat
    OBVIOUS
  <2>2. (c + n) * ChunkLen = c * ChunkLen + n * ChunkLen /\ c * ChunkLen \in Nat
    BY <1>1, <2>1
  <2>3. c * ChunkLen + n * ChunkLen <= Limit
    BY <1>2, <1>7, <2>2, LimitIsNat
  <2> QED
    BY <1>1, <2>2, <2>3, WithinLimit
<1>12. Sound(Absorb(g, cv, g.chunk.counter + n, n))
  BY <1>3, <1>5, <1>10, <1>11, AbsorbSound
<1> QED
  BY <1>4, <1>12

-----------------------------------------------------------------------------
(* update() *)

\* The fast path takes an aligned power of two of chunks, and not the last unit.
LEMMA FastSubtreeIs ==
  ASSUME NEW h, IsHasher(h), NEW rest \in Nat, rest > ChunkLen
  PROVE  LET n == FastSubtree(h, rest)
         IN  /\ n \in Nat \ {0} /\ n \in Powers /\ h.chunk.counter % n = 0
             /\ n * ChunkLen < rest
<1> DEFINE safe == (rest - 1) \div ChunkLen
           aligned == {p \in 1 .. safe : IsPow2(p) /\ h.chunk.counter % p = 0}
<1>1. ChunkLen \in Nat \ {0} /\ h.chunk.counter \in Nat
  BY LensArePositive DEF IsHasher, IsChunk
<1>2. /\ safe \in Nat /\ safe * ChunkLen <= rest - 1
      /\ rest - 1 < safe * ChunkLen + ChunkLen
  <2>1. PICK a \in Nat : a = rest - 1
    BY <1>1
  <2>2. /\ a \div ChunkLen \in Nat /\ a % ChunkLen \in 0 .. ChunkLen - 1
        /\ a = (a \div ChunkLen) * ChunkLen + (a % ChunkLen)
    BY <1>1, DivMod
  <2>3. safe = a \div ChunkLen
    BY <2>1, Zenon
  <2> HIDE DEF safe
  <2>4. safe \in Nat /\ a = safe * ChunkLen + (a % ChunkLen)
    BY <2>2, <2>3
  <2>5. safe * ChunkLen \in Nat
    BY <1>1, <2>4
  <2>6. PICK r \in 0 .. ChunkLen - 1 : a = safe * ChunkLen + r
    BY <2>2, <2>4
  <2>7. PICK m \in Nat : m = safe * ChunkLen
    BY <2>5
  <2> QED
    BY <1>1, <2>1, <2>4, <2>6, <2>7
<1> HIDE DEF safe
<1>3. safe >= 1
  <2>1. safe = 0 => safe * ChunkLen = 0
    BY <1>1
  <2> QED
    BY <1>1, <1>2, <2>1
<1>4. 1 \in aligned
  <2>1. IsPow2(1)
    BY PowersAre DEF Powers
  <2>2. h.chunk.counter % 1 = 0
    BY <1>1
  <2> QED
    BY <1>2, <1>3, <2>1, <2>2
<1>5. \E p \in aligned : \A q \in aligned : q <= p
  <2>1. aligned \subseteq 0 .. safe
    BY <1>2
  <2> HIDE DEF aligned
  <2> QED
    BY <1>2, <1>4, <2>1, Greatest
<1> DEFINE n == FastSubtree(h, rest)
<1>6. n = CHOOSE p \in aligned : \A q \in aligned : q <= p
  BY DEF FastSubtree, safe
<1>7. n \in aligned
  <2> HIDE DEF aligned, n
  <2> QED
    BY <1>5, <1>6
<1> HIDE DEF n
<1>8. n \in 1 .. safe /\ n \in Powers /\ h.chunk.counter % n = 0
  BY <1>7, PowersAre
<1>9. n * ChunkLen <= safe * ChunkLen
  <2>1. \A a, b, c \in Nat : a <= b => a * c <= b * c
    OBVIOUS
  <2> QED
    BY <1>1, <1>2, <1>8, <2>1
<1>10. n * ChunkLen \in Nat /\ safe * ChunkLen \in Nat
  BY <1>1, <1>2, <1>8
<1>11. n * ChunkLen < rest
  BY <1>1, <1>2, <1>9, <1>10
<1> QED
  BY <1>8, <1>11 DEF n

\* Between two turns of the loop over an input.
IsTurn(st) == IsHasher(st.h) /\ st.at \in Nat /\ st.left \in Nat

AtBoundary(h) == ChunkFill(h.chunk) \in {0, ChunkLen}

\* A turn moves units from the input into the hasher, at least one and from
\* a chunk's boundary a chunk, leaves the last unit in the open chunk, and
\* keeps the stack sound.
Advances(st, new) ==
  /\ IsTurn(new)
  /\ Count(new.h) + new.left = Count(st.h) + st.left
  /\ Sound(st.h) /\ Count(st.h) + st.left <= Limit => Sound(new.h)
  /\ st.left = 0 => new = st
  /\ st.left > 0 =>
       /\ new.left < st.left
       /\ new.left = 0 => ChunkFill(new.h.chunk) > 0
       /\ new.left > 0 => AtBoundary(new.h)
       /\ new.left > 0 /\ AtBoundary(st.h) => new.left + ChunkLen <= st.left

\* A turn of update() absorbs some of what is left, keeps the hasher sound and ends
\* at a chunk's boundary or with everything absorbed.
LEMMA TurnAdvances ==
  ASSUME NEW st, IsTurn(st)
  PROVE  Advances(st, UpdateTurn(st))
<1> DEFINE new == UpdateTurn(st)
           h == CloseFullChunk(st.h)
           n == FastSubtree(h, st.left)
           take == Lesser(st.left, ChunkLen - ChunkFill(h.chunk))
           fast == Absorb(h, SubtreeCV(st.at, n, h.chunk.counter), h.chunk.counter + n, n)
           slow == [h EXCEPT !.chunk = ChunkUpdate(@, st.at, take)]
<1>1. /\ st.at \in Nat /\ st.left \in Nat /\ IsHasher(st.h)
      /\ ChunkLen \in Nat \ {0}
  BY LensArePositive DEF IsTurn
<1>2. /\ IsHasher(h) /\ Count(h) = Count(st.h) /\ ChunkFill(h.chunk) < ChunkLen
      /\ AtBoundary(st.h) => ChunkFill(h.chunk) = 0
  BY <1>1, CloseKeepsCount DEF AtBoundary
<1>3. ChunkFill(h.chunk) \in Nat /\ Count(h) \in Nat
  BY <1>2, FillIsNat, CountIsNat DEF IsHasher
<1> DEFINE Within == Sound(st.h) /\ Count(st.h) + st.left <= Limit
<1>7. Within => Sound(h) /\ Count(h) + st.left <= Limit
  <2>1. Within => Count(st.h) <= Limit
    BY <1>1, <1>2, <1>3, LimitIsNat
  <2> QED
    BY <1>2, <2>1, CloseSound
<1>4. CASE st.left = 0
  <2>1. new = st
    BY <1>4 DEF UpdateTurn
  <2> QED
    BY <1>1, <1>4, <2>1 DEF Advances
<1>5. CASE st.left > 0 /\ FastPath(h, st.left)
  <2>1. st.left # 0 /\ ChunkFill(h.chunk) = 0 /\ st.left > ChunkLen
    BY <1>1, <1>5 DEF FastPath
  <2>2. new = [h |-> fast, at |-> st.at + n * ChunkLen, left |-> st.left - n * ChunkLen]
    BY <1>5, <2>1 DEF UpdateTurn, Absorb
  <2>3. /\ n \in Nat \ {0} /\ n * ChunkLen < st.left
        /\ n \in Powers /\ h.chunk.counter % n = 0
    BY <1>1, <1>2, <2>1, FastSubtreeIs
  <2> HIDE DEF n, h
  <2>11. Within => h.chunk.counter + n <= MaxTotal
    <3> SUFFICES ASSUME Within PROVE h.chunk.counter + n <= MaxTotal
      OBVIOUS
    <3>1. PICK c \in Nat : c = h.chunk.counter
      BY <1>2 DEF IsHasher, IsChunk
    <3>2. \A a, b, l \in Nat : (a + b) * l = a * l + b * l /\ a * l \in Nat /\ b * l \in Nat
      OBVIOUS
    <3>3. /\ (c + n) * ChunkLen = c * ChunkLen + n * ChunkLen
          /\ c * ChunkLen \in Nat /\ n * ChunkLen \in Nat
      BY <1>1, <2>3, <3>2
    <3>4. Count(h) = c * ChunkLen
      BY <1>3, <2>1, <3>1, <3>3 DEF Count
    <3>5. (c + n) * ChunkLen <= Limit
      BY <1>1, <1>7, <2>3, <3>3, <3>4, LimitIsNat
    <3> QED
      BY <2>3, <3>1, <3>5, WithinLimit
  <2>12. Within => Sound(fast)
    BY <1>7, <2>3, <2>11, AbsorbSound
  <2>4. IsHasher(fast) /\ Count(fast) = Count(h) + n * ChunkLen /\ ChunkFill(fast.chunk) = 0
    BY <1>2, <2>1, <2>3, AbsorbCounts
  <2> HIDE DEF fast
  <2>5. n * ChunkLen \in Nat /\ n * ChunkLen >= ChunkLen
    <3>1. \A a, b \in Nat \ {0} : a * b \in Nat /\ a * b >= b
      OBVIOUS
    <3> QED
      BY <1>1, <2>3, <3>1
  <2>6. new.h = fast /\ new.at = st.at + n * ChunkLen /\ new.left = st.left - n * ChunkLen
    BY <2>2
  <2> HIDE DEF new
  <2>7. IsTurn(new)
    BY <1>1, <2>3, <2>4, <2>5, <2>6 DEF IsTurn
  <2>8. Count(new.h) + new.left = Count(st.h) + st.left
    BY <1>1, <1>2, <1>3, <2>4, <2>5, <2>6
  <2>9. new.left > 0 /\ new.left + ChunkLen <= st.left /\ AtBoundary(new.h)
    BY <1>1, <2>3, <2>4, <2>5, <2>6 DEF AtBoundary
  <2>10. Advances(st, new)
    BY <1>1, <1>5, <2>6, <2>7, <2>8, <2>9, <2>12 DEF Advances, IsTurn
  <2> QED
    BY <2>10 DEF new
<1>6. CASE st.left > 0 /\ ~FastPath(h, st.left)
  <2>1. new = [h |-> slow, at |-> st.at + take, left |-> st.left - take]
    BY <1>1, <1>6 DEF UpdateTurn
  <2>2. /\ take \in Nat \ {0} /\ take <= st.left /\ ChunkFill(h.chunk) + take <= ChunkLen
        /\ take < st.left => ChunkFill(h.chunk) + take = ChunkLen
    BY <1>1, <1>2, <1>3, <1>6 DEF Lesser
  <2> HIDE DEF h, take
  <2> DEFINE c == ChunkUpdate(h.chunk, st.at, take)
  <2>3. /\ IsChunk(c) /\ c.counter = h.chunk.counter
        /\ ChunkFill(c) = ChunkFill(h.chunk) + take
    BY <1>1, <1>2, <2>2, MoreUnits DEF IsHasher
  <2>4. slow = [h EXCEPT !.chunk = c]
    OBVIOUS
  <2>16. Within => Sound(slow)
    <3> HIDE DEF c, slow
    <3> QED
      BY <1>7, <2>3, <2>4, ChunkSound
  <2> HIDE DEF c, slow
  <2>5. IsHasher(slow) /\ slow.chunk = c
    BY <1>2, <2>3, <2>4 DEF IsHasher
  <2>6. Count(slow) = h.chunk.counter * ChunkLen + (ChunkFill(h.chunk) + take)
    BY <2>3, <2>5 DEF Count
  <2>7. Count(h) = h.chunk.counter * ChunkLen + ChunkFill(h.chunk)
    BY DEF Count
  <2>8. h.chunk.counter * ChunkLen \in Nat
    <3>1. \A a, b \in Nat : a * b \in Nat
      OBVIOUS
    <3>2. h.chunk.counter \in Nat
      BY <1>2 DEF IsHasher, IsChunk
    <3> QED
      BY <1>1, <3>1, <3>2
  <2>9. Count(slow) = Count(h) + take
    BY <1>3, <2>2, <2>6, <2>7, <2>8
  <2>10. new.h = slow /\ new.at = st.at + take /\ new.left = st.left - take
    BY <2>1
  <2> HIDE DEF new
  <2>11. IsTurn(new)
    BY <1>1, <2>2, <2>5, <2>10 DEF IsTurn
  <2>12. Count(new.h) + new.left = Count(st.h) + st.left
    BY <1>1, <1>2, <1>3, <2>2, <2>9, <2>10
  <2>13. /\ new.left < st.left /\ ChunkFill(new.h.chunk) > 0
         /\ new.left > 0 => AtBoundary(new.h)
    BY <1>1, <1>3, <2>2, <2>3, <2>5, <2>10 DEF AtBoundary
  <2>14. new.left > 0 /\ AtBoundary(st.h) => new.left + ChunkLen <= st.left
    BY <1>1, <1>2, <1>3, <2>2, <2>10
  <2>15. Advances(st, new)
    BY <1>6, <2>10, <2>11, <2>12, <2>13, <2>14, <2>16 DEF Advances, IsTurn
  <2> QED
    BY <2>15 DEF new
<1> QED
  BY <1>1, <1>4, <1>5, <1>6

\* The states of update()'s loop.
Turns(t, h, from, n, k) ==
  t = [i \in 0 .. k |->
         IF i = 0 THEN [h |-> h, at |-> from, left |-> n] ELSE UpdateTurn(t[i - 1])]

\* The turns of update() are a function of their number.
LEMMA TurnsExist ==
  ASSUME NEW h, NEW from, NEW n, NEW k \in Nat
  PROVE  \E t : Turns(t, h, from, n, k)
<1> DEFINE first == [h |-> h, at |-> from, left |-> n]
           S == {m \in Nat : \E t : Turns(t, h, from, n, m)}
<1>1. 0 \in S
  <2> DEFINE t == [i \in 0 .. 0 |-> first]
  <2>1. Turns(t, h, from, n, 0)
    BY DEF Turns
  <2> QED
    BY <2>1
<1>2. ASSUME NEW m \in Nat, m \in S PROVE m + 1 \in S
  <2>1. PICK t : Turns(t, h, from, n, m)
    BY <1>2
  <2> DEFINE g == [i \in 0 .. m + 1 |-> IF i = m + 1 THEN UpdateTurn(t[m]) ELSE t[i]]
             e == [i \in 0 .. m + 1 |-> IF i = 0 THEN first ELSE UpdateTurn(g[i - 1])]
  <2>2. ASSUME NEW i \in 0 .. m + 1 PROVE g[i] = e[i]
    <3>1. CASE i = m + 1
      <4>1. i # 0 /\ i - 1 = m /\ m \in 0 .. m + 1 /\ m # m + 1
        BY <3>1
      <4>2. g[m] = t[m] /\ g[i] = UpdateTurn(t[m])
        BY <3>1, <4>1
      <4> HIDE DEF g
      <4> QED
        BY <4>1, <4>2
    <3>2. CASE i # m + 1
      <4>1. i \in 0 .. m /\ (i # 0 => i - 1 \in 0 .. m + 1 /\ i - 1 # m + 1)
        BY <3>2
      <4>2. g[i] = t[i] /\ (i # 0 => g[i - 1] = t[i - 1])
        BY <3>2, <4>1
      <4>3. t[i] = IF i = 0 THEN first ELSE UpdateTurn(t[i - 1])
        BY <2>1, <4>1 DEF Turns
      <4> HIDE DEF g, first
      <4> QED
        BY <4>2, <4>3
    <3> QED
      BY <3>1, <3>2
  <2>3. g = e
    <3>1. g = [i \in 0 .. m + 1 |-> g[i]] /\ e = [i \in 0 .. m + 1 |-> e[i]]
      OBVIOUS
    <3> HIDE DEF g, e
    <3> QED
      BY <2>2, <3>1
  <2>4. Turns(g, h, from, n, m + 1)
    BY <2>3 DEF Turns
  <2> QED
    BY <2>4
<1>3. Nat \subseteq S
  <2> HIDE DEF S
  <2> QED
    BY <1>1, <1>2, Induction
<1> QED
  BY <1>3

\* update() is any such function's last turn.
LEMMA UpdateIs ==
  ASSUME NEW h, NEW from, NEW n, Chunks(n) + 1 \in Nat
  PROVE  \E t : Turns(t, h, from, n, Chunks(n) + 1) /\ Update(h, from, n) = t[Chunks(n) + 1].h
<1> DEFINE g == CHOOSE t : Turns(t, h, from, n, Chunks(n) + 1)
<1>1. Turns(g, h, from, n, Chunks(n) + 1)
  BY TurnsExist
<1>2. Update(h, from, n) = g[Chunks(n) + 1].h
  BY DEF Update, Turns
<1> QED
  BY <1>1, <1>2

\* A turn of update() for each chunk is enough for all of the input.
LEMMA ChunksCover ==
  ASSUME NEW n \in Nat
  PROVE  Chunks(n) \in Nat \ {0} /\ n <= Chunks(n) * ChunkLen
<1>1. ChunkLen \in Nat \ {0}
  BY LensArePositive
<1>2. CASE n = 0
  BY <1>1, <1>2 DEF Chunks
<1>3. CASE n # 0
  <2>1. PICK a \in Nat : a = n + ChunkLen - 1
    BY <1>1, <1>3
  <2>2. Chunks(n) = a \div ChunkLen
    BY <1>3, <2>1 DEF Chunks
  <2>3. PICK q \in Nat : q = a \div ChunkLen /\ a < q * ChunkLen + ChunkLen
    <3>1. /\ a \div ChunkLen \in Nat /\ a % ChunkLen \in 0 .. ChunkLen - 1
          /\ a = (a \div ChunkLen) * ChunkLen + (a % ChunkLen)
      BY <1>1, DivMod
    <3>2. (a \div ChunkLen) * ChunkLen \in Nat
      BY <1>1, <3>1
    <3> QED
      BY <1>1, <3>1, <3>2
  <2>4. q * ChunkLen \in Nat /\ (q = 0 => q * ChunkLen = 0)
    BY <1>1, <2>3
  <2>5. q # 0 /\ n <= q * ChunkLen
    BY <1>1, <1>3, <2>1, <2>3, <2>4
  <2> QED
    BY <2>2, <2>3, <2>5
<1> QED
  BY <1>2, <1>3

\* update() counts its input whole, an input leaves a unit in the open chunk
\* and an empty one everything as it is, and the stack stays sound.
LEMMA UpdateCounts ==
  ASSUME NEW h, IsHasher(h), NEW from \in Nat, NEW n \in Nat
  PROVE  /\ IsHasher(Update(h, from, n))
         /\ Count(Update(h, from, n)) = Count(h) + n
         /\ n > 0 => ChunkFill(Update(h, from, n).chunk) > 0
         /\ n = 0 => Update(h, from, n) = h
         /\ Sound(h) /\ Count(h) + n <= Limit => Sound(Update(h, from, n))
<1> DEFINE k == Chunks(n) + 1
<1>1. /\ ChunkLen \in Nat \ {0} /\ Count(h) \in Nat
      /\ Chunks(n) \in Nat \ {0} /\ n <= Chunks(n) * ChunkLen
  BY LensArePositive, CountIsNat, ChunksCover
<1>2. k \in Nat
  BY <1>1
<1>3. PICK t : Turns(t, h, from, n, k) /\ Update(h, from, n) = t[k].h
  BY <1>2, UpdateIs
<1> HIDE DEF k
<1> DEFINE Good(i) ==
      /\ IsTurn(t[i]) /\ Count(t[i].h) + t[i].left = Count(h) + n
      /\ i > 0 /\ t[i].left > 0 =>
           AtBoundary(t[i].h) /\ t[i].left + (i - 1) * ChunkLen < n
      /\ t[i].left = 0 /\ n > 0 => ChunkFill(t[i].h.chunk) > 0
      /\ n = 0 => t[i].left = 0 /\ t[i].h = h
      /\ Sound(h) /\ Count(h) + n <= Limit => Sound(t[i].h)
           S == {i \in Nat : i <= k => Good(i)}
<1>4. 0 \in S
  <2>1. t[0] = [h |-> h, at |-> from, left |-> n]
    BY <1>2, <1>3 DEF Turns
  <2>2. t[0].h = h /\ t[0].at = from /\ t[0].left = n
    BY <2>1
  <2> QED
    BY <2>2 DEF IsTurn
<1>5. ASSUME NEW i \in Nat, i \in S PROVE i + 1 \in S
  <2> SUFFICES ASSUME i + 1 <= k PROVE Good(i + 1)
    OBVIOUS
  <2>1. Good(i)
    BY <1>2, <1>5
  <2>2. t[i + 1] = UpdateTurn(t[i])
    <3>1. i + 1 \in 0 .. k /\ i + 1 # 0 /\ (i + 1) - 1 = i
      BY <1>2
    <3> QED
      BY <1>3, <3>1 DEF Turns
  <2>3. Advances(t[i], t[i + 1])
    BY <2>1, <2>2, TurnAdvances
  <2> DEFINE a == t[i]
             b == t[i + 1]
  <2>4. /\ a.left \in Nat /\ b.left \in Nat /\ IsTurn(b)
        /\ Count(b.h) + b.left = Count(h) + n
        /\ Sound(h) /\ Count(h) + n <= Limit => Sound(b.h)
    BY <2>1, <2>3 DEF Advances, IsTurn
  <2>5. CASE a.left = 0
    <3>1. b = a
      BY <2>3, <2>5 DEF Advances
    <3> QED
      BY <2>1, <2>5, <3>1
  <2>6. CASE a.left > 0
    <3>1. /\ b.left < a.left /\ (b.left = 0 => ChunkFill(b.h.chunk) > 0)
          /\ (b.left > 0 => AtBoundary(b.h))
          /\ (b.left > 0 /\ AtBoundary(a.h) => b.left + ChunkLen <= a.left)
      BY <2>3, <2>6 DEF Advances
    <3>2. ASSUME b.left > 0 PROVE b.left + ((i + 1) - 1) * ChunkLen < n
      <4>1. CASE i = 0
        <5>1. a.left = n
          BY <1>2, <1>3, <4>1 DEF Turns
        <5>2. ((i + 1) - 1) * ChunkLen = 0
          BY <1>1, <4>1
        <5> QED
          BY <2>4, <3>1, <5>1, <5>2
      <4>2. CASE i > 0
        <5>1. AtBoundary(a.h) /\ a.left + (i - 1) * ChunkLen < n
          BY <2>1, <2>6, <4>2
        <5>2. b.left + ChunkLen <= a.left
          BY <3>1, <3>2, <5>1
        <5>3. \A x, c \in Nat : x > 0 => ((x + 1) - 1) * c = (x - 1) * c + c /\ (x - 1) * c \in Nat
          OBVIOUS
        <5>4. ((i + 1) - 1) * ChunkLen = (i - 1) * ChunkLen + ChunkLen /\ (i - 1) * ChunkLen \in Nat
          BY <1>1, <4>2, <5>3
        <5> QED
          BY <1>1, <2>4, <5>1, <5>2, <5>4
      <4> QED
        BY <4>1, <4>2
    <3>3. n # 0
      BY <2>1, <2>6
    <3> QED
      BY <2>4, <3>1, <3>2, <3>3
  <2> QED
    BY <2>4, <2>5, <2>6
<1>6. k \in S
  <2> HIDE DEF S
  <2> QED
    BY <1>2, <1>4, <1>5, Induction
<1>7. Good(k)
  BY <1>2, <1>6
<1>8. t[k].left \in Nat /\ IsHasher(t[k].h)
  BY <1>7 DEF IsTurn
<1>9. t[k].left = 0
  <2> SUFFICES ASSUME t[k].left > 0 PROVE FALSE
    BY <1>8
  <2>1. t[k].left + (k - 1) * ChunkLen < n
    BY <1>1, <1>7 DEF k
  <2>2. (k - 1) = Chunks(n)
    BY <1>1 DEF k
  <2>3. Chunks(n) * ChunkLen \in Nat
    BY <1>1
  <2> QED
    BY <1>1, <1>8, <2>1, <2>2, <2>3
<1>10. Count(t[k].h) \in Nat
  BY <1>8, CountIsNat
<1> QED
  BY <1>1, <1>3, <1>7, <1>8, <1>9, <1>10

-----------------------------------------------------------------------------
(* The parts of a window *)

\* The sizes of windows and inputs are numbers.
LEMMA BoundsAre ==
  /\ ChunkLen \in Nat \ {0} /\ WindowUnits \in Nat \ {0} /\ WindowUnits = Window * ChunkLen
  /\ Window \in Powers /\ Window \in Nat \ {0}
  /\ MinPart \in Powers /\ MinPart \in Nat \ {0} /\ MinPart <= Window
  /\ Limit \in Nat /\ MaxUnits \in Nat /\ MaxPlain \in Nat
  /\ MaxUnits <= Limit /\ MaxPlain <= Limit /\ Inputs \subseteq 0 .. MaxUnits
<1>1. /\ Window \in Powers /\ MinPart \in Powers /\ 2 * MinPart <= Window
      /\ MaxUnits \in Nat /\ MaxPlain \in Nat /\ Inputs \subseteq 0 .. MaxUnits
  BY PartsAssumption, PowersAre
<1>2. Window \in Nat \ {0} /\ MinPart \in Nat \ {0}
  BY <1>1 DEF Powers
<1>3. \A a, b \in Nat \ {0} : a * b \in Nat \ {0}
  OBVIOUS
<1>4. WindowUnits \in Nat \ {0} /\ WindowUnits = Window * ChunkLen
  BY <1>2, <1>3, LensArePositive DEF WindowUnits
<1>5. MaxUnits <= Limit /\ MaxPlain <= Limit
  BY HeightAssumption DEF Limit, MaxTotal
<1> QED
  BY <1>1, <1>2, <1>4, <1>5, LensArePositive, LimitIsNat

\* A part is a power of two, and none above what the chunks fit in.
LEMMA PartIsPower ==
  ASSUME budget \in Budgets, NEW c \in Nat, MinPart <= c, NEW q \in Powers, c <= q
  PROVE  PartChunks(c) \in Powers /\ PartChunks(c) <= q
<1>1. /\ MinPart \in Nat \ {0} /\ budget \in Nat \ {0} /\ q \in Nat /\ c \in Nat \ {0}
  <2>1. MinPart \in Powers /\ budget \in Nat \ {0}
    BY PartsAssumption, PowersAre
  <2>2. Powers \subseteq Nat \ {0}
    BY DEF Powers
  <2> QED
    BY <2>1, <2>2
<1> DEFINE each == (c + budget - 1) \div budget
<1>2. each \in Nat /\ each <= c
  <2>1. PICK a \in Nat : a = c + budget - 1
    BY <1>1
  <2>2. each = a \div budget
    BY <2>1, Zenon
  <2>3. /\ a \div budget \in Nat /\ a % budget \in 0 .. budget - 1
        /\ a = (a \div budget) * budget + (a % budget)
    BY <1>1, DivMod
  <2> HIDE DEF each
  <2>4. each \in Nat /\ a >= each * budget
    <3>1. PICK r \in 0 .. budget - 1 : a = each * budget + r
      BY <2>2, <2>3
    <3>2. each \in Nat /\ each * budget \in Nat
      BY <1>1, <2>2, <2>3
    <3> QED
      BY <1>1, <3>1, <3>2
  <2>5. ASSUME each > c PROVE FALSE
    <3>1. \A e, w, b \in Nat : e > w => e * b >= w * b + b
      OBVIOUS
    <3>2. each * budget >= c * budget + budget
      BY <1>1, <2>4, <2>5, <3>1
    <3>3. \A w, b \in Nat \ {0} : w * b >= w /\ w * b \in Nat
      OBVIOUS
    <3>4. c * budget >= c /\ c * budget \in Nat
      BY <1>1, <3>3
    <3>5. each * budget \in Nat
      BY <1>1, <2>4
    <3> QED
      BY <1>1, <2>1, <2>4, <3>2, <3>4, <3>5
  <2> QED
    BY <1>1, <2>4, <2>5
<1> DEFINE size == Greater(each, MinPart)
           part == PartChunks(c)
<1>3. part = BitCeil(size)
  BY DEF PartChunks
<1> HIDE DEF each
<1>4. size \in Nat \ {0} /\ size <= q
  BY <1>1, <1>2 DEF Greater
<1> HIDE DEF size, part
<1>5. part \in Powers /\ part <= q
  BY <1>1, <1>3, <1>4, BitCeilIs
<1> QED
  BY <1>5 DEF part

\* A window is cut into equal parts that cover it, whatever the stack budget.
LEMMA WindowSplits ==
  ASSUME budget \in Budgets
  PROVE  LET part == PartChunks(Window)
         IN  /\ part \in Powers /\ Window \div part \in Nat
             /\ (Window \div part) * part = Window
<1> DEFINE part == PartChunks(Window)
<1>1. Window \in Powers /\ Window \in Nat /\ MinPart <= Window
  BY BoundsAre
<1>2. part \in Powers /\ part <= Window
  BY <1>1, PartIsPower
<1> HIDE DEF part
<1>3. Window = part * (Window \div part) /\ Window \div part \in Nat \ {0}
  BY <1>1, <1>2, PowersDivide
<1>4. part \in Nat
  BY <1>2 DEF Powers
<1>5. \A a, b \in Nat : a * b = b * a
  OBVIOUS
<1>6. (Window \div part) * part = Window
  BY <1>3, <1>4, <1>5
<1> QED
  BY <1>2, <1>3, <1>6 DEF part

\* The parts of hash_into() end before the input does.
LEMMA InputSplits ==
  ASSUME budget \in Budgets, NEW n \in 0 .. MaxUnits, SafeChunks(n) >= 2 * MinPart
  PROVE  LET part == PartChunks(SafeChunks(n))
         IN  /\ part \in Powers /\ SafeChunks(n) \div part \in Nat
             /\ (SafeChunks(n) \div part) * part * ChunkLen < n
<1> DEFINE c == SafeChunks(n)
           part == PartChunks(c)
<1>1. ChunkLen \in Nat \ {0} /\ MinPart \in Nat \ {0} /\ n \in Nat /\ n <= Limit
  BY BoundsAre
<1>2. c \in Nat /\ MinPart <= c /\ c * ChunkLen < n
  <2>1. n > ChunkLen
    BY <1>1 DEF SafeChunks
  <2>2. PICK a \in Nat : a = n - 1
    BY <1>1, <2>1
  <2>3. c = a \div ChunkLen
    BY <2>1, <2>2 DEF SafeChunks
  <2>4. /\ a \div ChunkLen \in Nat /\ a % ChunkLen \in 0 .. ChunkLen - 1
        /\ a = (a \div ChunkLen) * ChunkLen + (a % ChunkLen)
    BY <1>1, DivMod
  <2>5. c >= 2 * MinPart
    OBVIOUS
  <2> HIDE DEF c
  <2>8. c \in Nat
    BY <2>3, <2>4
  <2>9. MinPart <= c
    BY <1>1, <2>5, <2>8
  <2>6. PICK r \in 0 .. ChunkLen - 1 : a = c * ChunkLen + r
    BY <2>3, <2>4
  <2>7. c \in Nat /\ c * ChunkLen \in Nat
    BY <1>1, <2>3, <2>4
  <2>10. c * ChunkLen < n
    BY <1>1, <2>2, <2>6, <2>7
  <2> QED
    BY <2>8, <2>9, <2>10
<1> HIDE DEF c
<1>3. c <= MaxTotal
  <2>1. c * ChunkLen \in Nat
    BY <1>1, <1>2
  <2>2. c * ChunkLen <= Limit
    BY <1>1, <1>2, <2>1, LimitIsNat
  <2> QED
    BY <1>2, <2>2, WithinLimit
<1>4. MaxTotal \in Powers
  BY PowersAre DEF IsPow2, MaxTotal, MaxHeight
<1>5. part \in Powers
  BY <1>2, <1>3, <1>4, PartIsPower
<1> HIDE DEF part
<1>6. part \in Nat \ {0}
  BY <1>5 DEF Powers
<1>7. PICK k \in Nat : k = c \div part /\ k * part <= c
  <2>1. c = (c \div part) * part + (c % part) /\ c \div part \in Nat /\ c % part \in 0 .. part - 1
    BY <1>2, <1>6, DivMod
  <2>2. PICK k \in Nat : k = c \div part
    BY <2>1
  <2>3. PICK r \in Nat : r = c % part
    BY <1>6, <2>1
  <2>4. c = k * part + r
    BY <2>1, <2>2, <2>3, Zenon
  <2>6. k * part \in Nat
    BY <1>6
  <2>5. k * part <= c
    BY <1>2, <2>4, <2>6
  <2> QED
    BY <2>2, <2>5
<1>8. k * part * ChunkLen <= c * ChunkLen /\ k * part * ChunkLen \in Nat /\ c * ChunkLen \in Nat
  <2>1. \A a, b, l \in Nat : a <= b => a * l <= b * l /\ a * l \in Nat /\ b * l \in Nat
    OBVIOUS
  <2>2. k * part \in Nat
    BY <1>6
  <2> QED
    BY <1>1, <1>2, <1>7, <2>1, <2>2
<1>9. (c \div part) * part * ChunkLen < n
  BY <1>1, <1>2, <1>7, <1>8
<1> QED
  BY <1>5, <1>7, <1>9 DEF c, part

\* The hasher after each of the pushes of a job's chaining values.
Pushes(f, h, values, part, k) ==
  f = [i \in 0 .. k |->
         IF i = 0 THEN h ELSE PushSubtreeCV(f[i - 1], values[i - 1], part)]

\* The pushes of a finished job are a function of their number.
LEMMA PushesExist ==
  ASSUME NEW h, NEW values, NEW part, NEW k \in Nat
  PROVE  \E f : Pushes(f, h, values, part, k)
<1> DEFINE S == {m \in Nat : \E f : Pushes(f, h, values, part, m)}
<1>1. 0 \in S
  <2> DEFINE f == [i \in 0 .. 0 |-> h]
  <2>1. Pushes(f, h, values, part, 0)
    BY DEF Pushes
  <2> QED
    BY <2>1
<1>2. ASSUME NEW m \in Nat, m \in S PROVE m + 1 \in S
  <2>1. PICK f : Pushes(f, h, values, part, m)
    BY <1>2
  <2> DEFINE g == [i \in 0 .. m + 1 |->
                     IF i = m + 1 THEN PushSubtreeCV(f[m], values[m], part) ELSE f[i]]
             e == [i \in 0 .. m + 1 |->
                     IF i = 0 THEN h ELSE PushSubtreeCV(g[i - 1], values[i - 1], part)]
  <2>2. ASSUME NEW i \in 0 .. m + 1 PROVE g[i] = e[i]
    <3>1. CASE i = m + 1
      <4>1. i # 0 /\ i - 1 = m /\ m \in 0 .. m + 1 /\ m # m + 1
        BY <3>1
      <4>2. g[m] = f[m] /\ g[i] = PushSubtreeCV(f[m], values[m], part)
        BY <3>1, <4>1
      <4> HIDE DEF g
      <4> QED
        BY <4>1, <4>2
    <3>2. CASE i # m + 1
      <4>1. i \in 0 .. m /\ (i # 0 => i - 1 \in 0 .. m + 1 /\ i - 1 # m + 1)
        BY <3>2
      <4>2. g[i] = f[i] /\ (i # 0 => g[i - 1] = f[i - 1])
        BY <3>2, <4>1
      <4>3. f[i] = IF i = 0 THEN h ELSE PushSubtreeCV(f[i - 1], values[i - 1], part)
        BY <2>1, <4>1 DEF Pushes
      <4> HIDE DEF g
      <4> QED
        BY <4>2, <4>3
    <3> QED
      BY <3>1, <3>2
  <2>3. g = e
    <3>1. g = [i \in 0 .. m + 1 |-> g[i]] /\ e = [i \in 0 .. m + 1 |-> e[i]]
      OBVIOUS
    <3> HIDE DEF g, e
    <3> QED
      BY <2>2, <3>1
  <2>4. Pushes(g, h, values, part, m + 1)
    BY <2>3 DEF Pushes
  <2> QED
    BY <2>4
<1>3. Nat \subseteq S
  <2> HIDE DEF S
  <2> QED
    BY <1>1, <1>2, Induction
<1> QED
  BY <1>3

\* The join counts the job's units and keeps the stack sound when the job
\* starts at a multiple of its part, whatever the agents left in the table.
LEMMA PushedCounts ==
  ASSUME Sound(hasher), job.part \in Powers, job.parts \in Nat,
         Multiple(Count(hasher), job.part * ChunkLen), Count(hasher) + JobUnits <= Limit
  PROVE  Sound(Pushed) /\ Count(Pushed) = Count(hasher) + JobUnits
<1> DEFINE k == job.parts
           g == CHOOSE f : Pushes(f, hasher, cvs, job.part, k)
<1>1. Pushes(g, hasher, cvs, job.part, k)
  BY PushesExist
<1>2. Pushed = g[k]
  BY DEF Pushed, Pushes
<1> DEFINE size == job.part * ChunkLen
<1>3. Count(hasher) \in Nat /\ size \in Nat /\ JobUnits = k * size
  <2>1. ChunkLen \in Nat /\ Count(hasher) \in Nat /\ job.part \in Nat
    BY LensArePositive, CountIsNat DEF Sound, Powers
  <2>2. \A a, b, c \in Nat : a * (b * c) = a * b * c /\ b * c \in Nat
    OBVIOUS
  <2> QED
    BY <2>1, <2>2 DEF JobUnits
<1>9. PICK q \in Nat : Count(hasher) = q * size
  BY DEF Multiple
<1>10. Count(hasher) + k * size <= Limit
  BY <1>3
<1> HIDE DEF g, size
<1>4. \A i \in Nat : i * size \in Nat /\ (i + 1) * size = i * size + size /\ 0 * size = 0
  BY <1>3
<1> DEFINE Good(i) == Sound(g[i]) /\ Count(g[i]) = Count(hasher) + i * size
           S == {i \in Nat : i <= k => Good(i)}
<1>5. 0 \in S
  <2>1. g[0] = hasher
    BY <1>1 DEF Pushes
  <2> QED
    BY <1>3, <1>4, <2>1
<1>6. ASSUME NEW i \in Nat, i \in S PROVE i + 1 \in S
  <2> SUFFICES ASSUME i + 1 <= k PROVE Good(i + 1)
    OBVIOUS
  <2>1. Good(i)
    BY <1>6
  <2>2. g[i + 1] = PushSubtreeCV(g[i], cvs[i], job.part)
    <3>1. i + 1 \in 0 .. k /\ i + 1 # 0 /\ (i + 1) - 1 = i
      OBVIOUS
    <3> HIDE DEF k
    <3> QED
      BY <1>1, <3>1 DEF Pushes
  <2>3. Count(g[i + 1]) = Count(g[i]) + size
    <3>1. IsHasher(g[i]) /\ job.part \in Nat
      BY <2>1 DEF Sound, Powers
    <3> QED
      BY <2>2, <3>1, SubtreeCounts DEF size
  <2>4. Multiple(Count(g[i]), size)
    <3>1. \A a, b, c \in Nat : a * c + b * c = (a + b) * c /\ a + b \in Nat
      OBVIOUS
    <3>2. Count(g[i]) = (q + i) * size /\ q + i \in Nat
      BY <1>3, <1>9, <2>1, <3>1
    <3> QED
      BY <3>2 DEF Multiple
  <2>5. Count(g[i]) + size <= Limit
    <3>1. \A a, b, c \in Nat : a <= b => a * c <= b * c /\ a * c \in Nat /\ b * c \in Nat
      OBVIOUS
    <3>2. (i + 1) * size <= k * size /\ k * size \in Nat /\ (i + 1) * size \in Nat
      BY <1>3, <3>1
    <3>3. Count(g[i]) + size = Count(hasher) + (i + 1) * size
      BY <1>3, <1>4, <2>1
    <3> HIDE DEF k
    <3> QED
      BY <1>3, <1>10, <3>2, <3>3, LimitIsNat
  <2>6. Sound(g[i + 1])
    BY <2>1, <2>2, <2>4, <2>5, SubtreeSound DEF size
  <2> QED
    BY <1>3, <1>4, <2>1, <2>3, <2>6
<1>7. k \in S
  <2> HIDE DEF S
  <2> QED
    BY <1>5, <1>6, Induction
<1>8. Sound(g[k]) /\ Count(g[k]) = Count(hasher) + k * size
  BY <1>7
<1> QED
  BY <1>2, <1>3, <1>8

-----------------------------------------------------------------------------
(* The invariant of the front ends *)

OpenTail == ChunkFill(hasher.chunk) > 0

\* The parts of the job at hand are aligned where the hasher stands.
JobFits ==
  /\ job.part \in Powers /\ job.parts \in Nat
  /\ Multiple(Count(hasher), job.part * ChunkLen)

\* A job of the window's size.
WholeWindow == job.parts * job.part = Window

\* What every interface keeps: the hasher stands at the absorbed prefix
\* without the buffered units, and its stack is sound.
Shared ==
  /\ kind \in Interfaces /\ budget \in Budgets
  /\ Sound(hasher)
  /\ filled \in 0 .. WindowUnits /\ counter \in Nat
  /\ left \in Nat /\ absorbed \in Nat /\ base \in Nat
  /\ absorbed + left <= Limit
  /\ Count(hasher) + filled = absorbed
  /\ kind # "parallel_hasher" => filled = 0
  /\ pc = "idle" => left = 0
  /\ pc = "parts" => JobFits

PlainInv ==
  /\ pc = "idle"
  /\ ~owing /\ absorbed > 0 => OpenTail

FileInv ==
  /\ pc \in {"idle", "file"}
  /\ absorbed > 0 => OpenTail

HashIntoInv ==
  /\ pc \in {"idle", "parts"}
  /\ pc = "idle" /\ absorbed > 0 => OpenTail
  /\ pc = "parts" => absorbed = 0 /\ JobUnits < left

\* The hasher stands at a multiple of the window, and the last of the input
\* is in the buffer.
ParallelInv ==
  /\ pc \in {"idle", "update", "parts"}
  /\ counter * ChunkLen = Count(hasher)
  /\ Multiple(Count(hasher), WindowUnits)
  /\ absorbed > 0 /\ left = 0 => filled > 0
  /\ pc = "parts" => filled = WindowUnits /\ left > 0 /\ WholeWindow

\* While input is left, whole windows of it have been absorbed.
UpdateFileInv ==
  /\ pc \in {"idle", "file", "parts"}
  /\ pc # "parts" /\ left = 0 /\ ~owing /\ absorbed > 0 => OpenTail
  /\ left > 0 => base <= absorbed /\ Multiple(absorbed - base, WindowUnits)
  /\ pc = "parts" => left > WindowUnits /\ WholeWindow

HashingInv ==
  /\ Shared
  /\ kind = "hasher" => PlainInv
  /\ kind = "file" => FileInv
  /\ kind = "hash_into" => HashIntoInv
  /\ kind = "parallel_hasher" => ParallelInv
  /\ kind = "update_file" => UpdateFileInv

\* The invariant holds before the first call.
LEMMA StartsHashing == Init => HashingInv
<1> SUFFICES ASSUME Init PROVE HashingInv
  OBVIOUS
<1>1. /\ kind \in Interfaces /\ budget \in Budgets /\ hasher = NewHasher /\ filled = 0
      /\ counter = 0 /\ pc = "idle" /\ left = 0 /\ base = 0 /\ absorbed = 0 /\ owing = FALSE
  BY DEF Init
<1>2. Sound(hasher) /\ Count(hasher) = 0
  BY <1>1, NewIsSound, NewHasherIs
<1>3. Shared
  BY <1>1, <1>2, BoundsAre DEF Shared
<1>4. 0 * ChunkLen = 0 /\ 0 = 0 * WindowUnits
  BY BoundsAre
<1>5. PlainInv /\ FileInv /\ HashIntoInv /\ UpdateFileInv
  BY <1>1 DEF PlainInv, FileInv, HashIntoInv, UpdateFileInv
<1>6. Multiple(Count(hasher), WindowUnits)
  BY <1>2, <1>4 DEF Multiple
<1>7. ParallelInv
  BY <1>1, <1>2, <1>4, <1>6 DEF ParallelInv
<1> QED
  BY <1>3, <1>5, <1>7 DEF HashingInv

\* The agents fill the table and touch nothing the invariant is about.
LEMMA SchedulerKeeps ==
  ASSUME HashingInv,
         UNCHANGED <<callerVars, hasher, filled, counter, pc, left, base, job, absorbed, owing>>
  PROVE  HashingInv'
<1>1. /\ kind' = kind /\ budget' = budget /\ hasher' = hasher /\ filled' = filled
      /\ counter' = counter /\ pc' = pc /\ left' = left /\ base' = base /\ job' = job
      /\ absorbed' = absorbed /\ owing' = owing
  BY DEF callerVars
<1> QED
  BY <1>1 DEF HashingInv, Shared, JobFits, PlainInv, FileInv, HashIntoInv, ParallelInv,
       UpdateFileInv, OpenTail, WholeWindow, JobUnits

\* A call of update() starts with the window as it was.
LEMMA CallUpdateKeeps ==
  ASSUME HashingInv, NEW n \in Inputs, CallUpdate(n)
  PROVE  HashingInv'
<1>1. /\ kind \in Files \cup {"parallel_hasher"} /\ pc = "idle" /\ absorbed + n <= MaxUnits
      /\ left' = n /\ base' = Count(hasher)
      /\ pc' = IF kind \in Files THEN "file" ELSE "update"
      /\ kind' = kind /\ budget' = budget /\ hasher' = hasher /\ filled' = filled
      /\ counter' = counter /\ absorbed' = absorbed /\ owing' = owing
  BY DEF CallUpdate, callerVars
<1>2. Shared /\ n \in Nat /\ left = 0
  BY <1>1, BoundsAre DEF HashingInv, Shared
<1>3. Count(hasher) \in Nat
  BY <1>2, CountIsNat DEF Shared, Sound
<1>4. Shared'
  BY <1>1, <1>2, <1>3, BoundsAre DEF Shared, Files
<1>5. CASE kind = "file"
  BY <1>1, <1>4, <1>5 DEF HashingInv, FileInv, OpenTail, Files
<1>6. CASE kind = "parallel_hasher"
  BY <1>1, <1>2, <1>4, <1>6 DEF HashingInv, ParallelInv, Files
<1>7. CASE kind = "update_file"
  <2>1. base' = absorbed /\ absorbed \in Nat
    BY <1>1, <1>2, <1>3, <1>7 DEF Shared
  <2>2. absorbed - base' = 0 * WindowUnits
    BY <2>1, BoundsAre
  <2>3. Multiple(absorbed - base', WindowUnits)
    BY <2>2 DEF Multiple
  <2>4. UpdateFileInv'
    BY <1>1, <1>2, <1>7, <2>1, <2>3 DEF HashingInv, UpdateFileInv, OpenTail, Files
  <2> QED
    BY <1>1, <1>4, <1>7, <2>4 DEF HashingInv
<1> QED
  BY <1>1, <1>5, <1>6, <1>7 DEF Files

\* reset() empties the hasher and the window.
LEMMA CallResetKeeps ==
  ASSUME HashingInv, CallReset
  PROVE  HashingInv'
<1>1. /\ pc = "idle" /\ hasher' = Reset(hasher) /\ counter' = 0 /\ filled' = 0
      /\ absorbed' = 0 /\ kind' = kind /\ budget' = budget /\ pc' = pc /\ left' = left
      /\ base' = base
  BY DEF CallReset, ResetAll, callerVars
<1>2. Shared /\ left = 0
  BY <1>1 DEF HashingInv, Shared
<1>3. Sound(hasher') /\ Count(hasher') = 0
  BY <1>1, <1>2, ResetIsSound, ResetIs DEF Shared, Sound
<1>4. Shared'
  BY <1>1, <1>2, <1>3, BoundsAre DEF Shared
<1>5. 0 * ChunkLen = 0 /\ 0 = 0 * WindowUnits
  BY BoundsAre
<1>6. PlainInv' /\ FileInv' /\ HashIntoInv' /\ UpdateFileInv'
  BY <1>1, <1>2 DEF PlainInv, FileInv, HashIntoInv, UpdateFileInv
<1>7. Multiple(Count(hasher'), WindowUnits)
  BY <1>3, <1>5 DEF Multiple
<1>8. ParallelInv'
  BY <1>1, <1>3, <1>5, <1>7 DEF ParallelInv
<1> QED
  BY <1>4, <1>6, <1>8 DEF HashingInv

\* update() returns with all of its input absorbed.
LEMMA UpdateReturnsKeeps ==
  ASSUME HashingInv, UpdateReturns
  PROVE  HashingInv'
<1>1. /\ pc \in {"update", "file"} /\ left = 0 /\ pc' = "idle"
      /\ kind' = kind /\ budget' = budget /\ hasher' = hasher /\ filled' = filled
      /\ counter' = counter /\ left' = left /\ base' = base
      /\ absorbed' = absorbed /\ owing' = owing
  BY DEF UpdateReturns, callerVars
<1>2. Shared'
  BY <1>1 DEF HashingInv, Shared
<1> QED
  BY <1>1, <1>2 DEF HashingInv, PlainInv, FileInv, HashIntoInv, ParallelInv, UpdateFileInv,
       OpenTail

\* A read that fails leaves what was absorbed before it.
LEMMA ReadFailsKeeps ==
  ASSUME HashingInv, ReadFails
  PROVE  HashingInv'
<1>1. /\ pc = "file" /\ pc' = "idle" /\ left' = 0 /\ owing' = (kind = "update_file")
      /\ kind' = kind /\ budget' = budget /\ hasher' = hasher /\ filled' = filled
      /\ counter' = counter /\ base' = base /\ absorbed' = absorbed
  BY DEF ReadFails, callerVars
<1>2. Shared /\ absorbed + 0 <= Limit
  BY BoundsAre DEF HashingInv, Shared
<1>3. Shared'
  BY <1>1, <1>2 DEF Shared
<1>4. kind \in {"file", "update_file"}
  BY <1>1, <1>2 DEF HashingInv, PlainInv, HashIntoInv, ParallelInv, Shared, Interfaces
<1>5. CASE kind = "file"
  BY <1>1, <1>3, <1>5 DEF HashingInv, FileInv, OpenTail
<1>6. CASE kind = "update_file"
  <2>1. owing'
    BY <1>1, <1>6, Zenon
  <2>2. ~(left' > 0)
    BY <1>1
  <2> QED
    BY <1>1, <1>3, <1>6, <2>1, <2>2 DEF HashingInv, UpdateFileInv
<1> QED
  BY <1>4, <1>5, <1>6

\* A call that is given up keeps what was absorbed, and the buffered window.
LEMMA StoppedKeeps ==
  ASSUME HashingInv, Stopped
  PROVE  HashingInv'
<1>1. /\ pc = "parts" /\ pc' = "idle" /\ left' = 0 /\ owing' = (kind = "update_file")
      /\ kind' = kind /\ budget' = budget /\ hasher' = hasher /\ filled' = filled
      /\ counter' = counter /\ base' = base /\ absorbed' = absorbed
  BY DEF Stopped, callerVars
<1>2. Shared /\ absorbed + 0 <= Limit
  BY BoundsAre DEF HashingInv, Shared
<1>3. Shared'
  BY <1>1, <1>2 DEF Shared
<1>4. kind \in {"hash_into", "parallel_hasher", "update_file"}
  BY <1>1, <1>2 DEF HashingInv, PlainInv, FileInv, Shared, Interfaces
<1>5. CASE kind = "hash_into"
  BY <1>1, <1>3, <1>5 DEF HashingInv, HashIntoInv
<1>6. CASE kind = "parallel_hasher"
  <2>1. ParallelInv /\ filled > 0
    BY <1>1, <1>6, BoundsAre DEF HashingInv, ParallelInv
  <2> QED
    BY <1>1, <1>3, <1>6, <2>1 DEF HashingInv, ParallelInv
<1>7. CASE kind = "update_file"
  <2>1. owing'
    BY <1>1, <1>7, Zenon
  <2>2. ~(left' > 0)
    BY <1>1
  <2> QED
    BY <1>1, <1>3, <1>7, <2>1, <2>2 DEF HashingInv, UpdateFileInv
<1> QED
  BY <1>4, <1>5, <1>6, <1>7

\* update() copies into the window what fits.
LEMMA CopyInKeeps ==
  ASSUME HashingInv, CopyIn
  PROVE  HashingInv'
<1> DEFINE take == Lesser(WindowUnits - filled, left)
<1>1. /\ pc = "update" /\ left > 0 /\ ~FlushDue
      /\ filled' = filled + take /\ absorbed' = absorbed + take /\ left' = left - take
      /\ kind' = kind /\ budget' = budget /\ hasher' = hasher /\ counter' = counter
      /\ pc' = pc /\ base' = base
  BY DEF CopyIn, callerVars
<1>2. Shared /\ kind = "parallel_hasher" /\ ParallelInv
  BY <1>1 DEF HashingInv, PlainInv, FileInv, HashIntoInv, UpdateFileInv, Shared, Interfaces
<1>3. filled \in 0 .. WindowUnits /\ filled # WindowUnits /\ left \in Nat \ {0}
  BY <1>1, <1>2 DEF Shared, FlushDue
<1>4. take \in Nat \ {0} /\ take <= left /\ filled + take <= WindowUnits
  BY <1>3, BoundsAre DEF Lesser
<1> HIDE DEF take
<1>5. Count(hasher) \in Nat
  BY <1>2, CountIsNat DEF Shared, Sound
<1>6. Shared'
  BY <1>1, <1>2, <1>3, <1>4, <1>5, BoundsAre DEF Shared
<1>7. ParallelInv'
  BY <1>1, <1>2, <1>3, <1>4 DEF ParallelInv
<1> QED
  BY <1>1, <1>2, <1>6, <1>7 DEF HashingInv

\* hasher::update() absorbs its input at once.
LEMMA CallHasherUpdateKeeps ==
  ASSUME HashingInv, NEW n \in InputsOf(kind), CallHasherUpdate(n)
  PROVE  HashingInv'
<1>1. /\ kind \in Files \cup {"hasher"} /\ pc = "idle" /\ absorbed + n <= BoundOf(kind)
      /\ hasher' = Update(hasher, absorbed, n) /\ absorbed' = absorbed + n
      /\ owing' = (owing /\ n = 0)
      /\ kind' = kind /\ budget' = budget /\ filled' = filled /\ counter' = counter
      /\ pc' = pc /\ left' = left /\ base' = base
  BY DEF CallHasherUpdate, callerVars
<1>2. Shared /\ left = 0 /\ filled = 0 /\ n \in Nat /\ absorbed + n <= Limit
  <2>1. n \in Nat
    BY BoundsAre DEF InputsOf
  <2>2. BoundOf(kind) <= Limit /\ BoundOf(kind) \in Nat
    BY BoundsAre DEF BoundOf
  <2>3. Shared /\ left = 0 /\ filled = 0
    BY <1>1 DEF HashingInv, Shared, Files
  <2> QED
    BY <1>1, <2>1, <2>2, <2>3, BoundsAre DEF Shared
<1>3. IsHasher(hasher) /\ Sound(hasher) /\ absorbed \in Nat /\ Count(hasher) = absorbed
  <2>1. Count(hasher) \in Nat
    BY <1>2, CountIsNat DEF Shared, Sound
  <2> QED
    BY <1>2, <2>1 DEF Shared, Sound
<1>4. /\ Sound(hasher') /\ Count(hasher') = absorbed'
      /\ n > 0 => OpenTail'
      /\ n = 0 => hasher' = hasher
  BY <1>1, <1>2, <1>3, UpdateCounts DEF OpenTail
<1>5. Shared'
  BY <1>1, <1>2, <1>3, <1>4 DEF Shared
<1>6. CASE n > 0
  BY <1>1, <1>2, <1>4, <1>5, <1>6
     DEF HashingInv, PlainInv, FileInv, UpdateFileInv, Files
<1>7. CASE n = 0
  <2>1. hasher' = hasher /\ absorbed' = absorbed /\ (OpenTail' <=> OpenTail)
    BY <1>1, <1>3, <1>4, <1>7 DEF OpenTail
  <2>2. owing => owing'
    BY <1>1, <1>7, Zenon
  <2> QED
    BY <1>1, <1>2, <1>5, <2>1, <2>2
       DEF HashingInv, PlainInv, FileInv, UpdateFileInv, Files
<1> QED
  BY <1>2, <1>6, <1>7

\* A caller's push_subtree_cv() keeps to the alignment it is documented with.
LEMMA CallPushSubtreeKeeps ==
  ASSUME HashingInv, NEW n \in 1 .. MaxPlain \div ChunkLen, CallPushSubtree(n)
  PROVE  HashingInv'
<1>1. /\ kind = "hasher" /\ IsPow2(n)
      /\ Count(hasher) % ChunkLen = 0 /\ (Count(hasher) \div ChunkLen) % n = 0
      /\ absorbed + n * ChunkLen < MaxPlain
      /\ absorbed' = absorbed + n * ChunkLen /\ owing' = TRUE
      /\ kind' = kind /\ budget' = budget /\ filled' = filled /\ counter' = counter
      /\ pc' = pc /\ left' = left /\ base' = base
  BY DEF CallPushSubtree, callerVars
<1>2. PICK cv : hasher' = PushSubtreeCV(hasher, cv, n)
  BY DEF CallPushSubtree
<1>3. /\ Shared /\ PlainInv /\ left = 0 /\ filled = 0 /\ n \in Powers /\ n \in Nat \ {0}
      /\ ChunkLen \in Nat \ {0}
  BY <1>1, PowersAre, LensArePositive DEF HashingInv, Shared, PlainInv, Powers
<1>4. IsHasher(hasher) /\ Sound(hasher) /\ absorbed \in Nat /\ Count(hasher) = absorbed
  <2>1. Count(hasher) \in Nat
    BY <1>3, CountIsNat DEF Shared, Sound
  <2> QED
    BY <1>3, <2>1 DEF Shared, Sound
<1>5. Multiple(Count(hasher), n * ChunkLen)
  <2>1. PICK c \in Nat : c = Count(hasher) \div ChunkLen /\ Count(hasher) = c * ChunkLen
    <3>1. /\ absorbed = (absorbed \div ChunkLen) * ChunkLen + (absorbed % ChunkLen)
          /\ absorbed \div ChunkLen \in Nat
      BY <1>3, <1>4, DivMod
    <3>2. PICK c \in Nat : c = absorbed \div ChunkLen
      BY <3>1
    <3>3. absorbed % ChunkLen = 0
      BY <1>1, <1>4
    <3>4. absorbed = c * ChunkLen + 0
      BY <3>1, <3>2, <3>3, Zenon
    <3>5. c * ChunkLen \in Nat
      BY <1>3
    <3>6. absorbed = c * ChunkLen
      BY <3>4, <3>5
    <3> QED
      BY <1>4, <3>2, <3>6
  <2>2. PICK q \in Nat : c = q * n
    <3>1. c = (c \div n) * n + (c % n) /\ c \div n \in Nat
      BY <1>3, DivMod
    <3>2. PICK q \in Nat : q = c \div n
      BY <3>1
    <3>3. c % n = 0
      BY <1>1, <2>1
    <3>4. c = q * n + 0
      BY <3>1, <3>2, <3>3, Zenon
    <3>5. q * n \in Nat
      BY <1>3
    <3>6. c = q * n
      BY <3>4, <3>5
    <3> QED
      BY <3>6
  <2>3. \A a, b, l \in Nat : (a * b) * l = a * (b * l)
    OBVIOUS
  <2>4. Count(hasher) = q * (n * ChunkLen)
    BY <1>3, <2>1, <2>2, <2>3
  <2> QED
    BY <2>4 DEF Multiple
<1>6. n * ChunkLen \in Nat
  <2>1. \A a, b \in Nat : a * b \in Nat
    OBVIOUS
  <2> QED
    BY <1>3, <2>1
<1>7. absorbed + n * ChunkLen <= Limit
  BY <1>1, <1>4, <1>6, BoundsAre
<1>8. Sound(hasher') /\ Count(hasher') = absorbed'
  BY <1>1, <1>2, <1>3, <1>4, <1>5, <1>7, SubtreeSound, SubtreeCounts
<1>9. Shared'
  BY <1>1, <1>3, <1>4, <1>6, <1>7, <1>8 DEF Shared, PlainInv
<1> QED
  BY <1>1, <1>3, <1>9 DEF HashingInv, PlainInv

\* A window that goes through update() leaves a unit in the open chunk.
LEMMA UpdateWindowKeeps ==
  ASSUME HashingInv, UpdateWindow
  PROVE  HashingInv'
<1> DEFINE take == Lesser(WindowUnits, left)
<1>1. /\ pc = "file" /\ left > 0
      /\ hasher' = Update(hasher, absorbed, take) /\ absorbed' = absorbed + take
      /\ left' = left - take
      /\ kind' = kind /\ budget' = budget /\ filled' = filled /\ counter' = counter
      /\ pc' = pc /\ base' = base
  BY DEF UpdateWindow, callerVars
<1>2. Shared /\ kind \in Files
  BY <1>1 DEF HashingInv, PlainInv, HashIntoInv, ParallelInv, Shared, Interfaces, Files
<1>3. filled = 0 /\ left \in Nat \ {0} /\ absorbed \in Nat /\ absorbed + left <= Limit
  BY <1>1, <1>2 DEF Shared, Files
<1>4. take \in Nat \ {0} /\ take <= left /\ (left - take > 0 => take = WindowUnits)
  BY <1>3, BoundsAre DEF Lesser
<1> HIDE DEF take
<1>5. IsHasher(hasher) /\ Sound(hasher) /\ Count(hasher) = absorbed
  <2>1. Count(hasher) \in Nat
    BY <1>2, CountIsNat DEF Shared, Sound
  <2> QED
    BY <1>2, <1>3, <2>1 DEF Shared, Sound
<1>6. Count(hasher) + take <= Limit
  BY <1>3, <1>4, <1>5, BoundsAre
<1>7. Sound(hasher') /\ Count(hasher') = absorbed' /\ OpenTail'
  <2> DEFINE new == Update(hasher, absorbed, take)
  <2>1. take \in Nat /\ take > 0
    BY <1>4
  <2>2. Sound(new) /\ Count(new) = absorbed + take /\ ChunkFill(new.chunk) > 0
    BY <1>3, <1>5, <1>6, <2>1, UpdateCounts
  <2>3. hasher' = new
    BY <1>1
  <2> HIDE DEF new
  <2> QED
    BY <1>1, <2>2, <2>3 DEF OpenTail
<1>8. Shared'
  BY <1>1, <1>2, <1>3, <1>4, <1>7 DEF Shared
<1>9. CASE kind = "file"
  BY <1>1, <1>7, <1>8, <1>9 DEF HashingInv, FileInv
<1>10. CASE kind = "update_file"
  <2>1. base <= absorbed /\ Multiple(absorbed - base, WindowUnits) /\ base \in Nat
    BY <1>1, <1>2, <1>10 DEF HashingInv, UpdateFileInv, Shared
  <2>2. ASSUME left' > 0 PROVE Multiple(absorbed' - base, WindowUnits)
    <3>1. PICK o \in Nat : absorbed - base = o * WindowUnits
      BY <2>1 DEF Multiple
    <3>2. take = WindowUnits
      BY <1>1, <1>4, <2>2
    <3>3. o * WindowUnits + WindowUnits = (o + 1) * WindowUnits /\ o * WindowUnits \in Nat
      <4>1. \A a, b \in Nat : a * b + b = (a + 1) * b /\ a * b \in Nat
        OBVIOUS
      <4> QED
        BY <4>1, BoundsAre
    <3>4. absorbed' - base = (o + 1) * WindowUnits
      BY <1>1, <1>3, <2>1, <3>1, <3>2, <3>3, BoundsAre
    <3> QED
      BY <3>4 DEF Multiple
  <2>3. base <= absorbed'
    BY <1>1, <1>3, <1>4, <2>1
  <2>4. UpdateFileInv'
    BY <1>1, <1>7, <2>2, <2>3 DEF UpdateFileInv
  <2> QED
    BY <1>1, <1>8, <1>10, <2>4 DEF HashingInv
<1> QED
  BY <1>2, <1>9, <1>10 DEF Files

\* The parts of a window fit wherever a window does.
LEMMA WindowFits ==
  ASSUME budget \in Budgets, Multiple(Count(hasher), WindowUnits), NEW from, NEW first,
         FanOut(from, Window, first), hasher' = hasher
  PROVE  JobFits' /\ WholeWindow' /\ pc' = "parts"
<1> DEFINE part == PartChunks(Window)
           parts == Window \div part
<1>1. part \in Powers /\ parts \in Nat /\ parts * part = Window
  BY WindowSplits
<1>2. job'.part = part /\ job'.parts = parts /\ pc' = "parts"
  BY DEF FanOut
<1> HIDE DEF part, parts
<1>3. PICK q \in Nat : Count(hasher) = q * WindowUnits
  BY DEF Multiple
<1>4. part \in Nat /\ ChunkLen \in Nat
  BY <1>1, LensArePositive DEF Powers
<1>5. \A a, b, c, d \in Nat : a * ((b * c) * d) = (a * b) * (c * d) /\ a * b \in Nat
  OBVIOUS
<1>6. Count(hasher) = (q * parts) * (part * ChunkLen) /\ q * parts \in Nat
  BY <1>1, <1>3, <1>4, <1>5, BoundsAre
<1>7. Multiple(Count(hasher), part * ChunkLen)
  BY <1>6 DEF Multiple
<1> QED
  BY <1>1, <1>2, <1>7 DEF JobFits, WholeWindow

\* A full window is offloaded where the hasher stands.
LEMMA FlushKeeps ==
  ASSUME HashingInv, Flush
  PROVE  HashingInv'
<1>1. /\ pc = "update" /\ left > 0 /\ filled = WindowUnits
      /\ FanOut(absorbed - filled, Window, counter)
      /\ kind' = kind /\ budget' = budget /\ hasher' = hasher /\ filled' = filled
      /\ counter' = counter /\ left' = left /\ base' = base /\ absorbed' = absorbed
  BY DEF Flush, FlushDue, callerVars
<1>2. Shared /\ kind = "parallel_hasher" /\ ParallelInv
  BY <1>1 DEF HashingInv, PlainInv, FileInv, HashIntoInv, UpdateFileInv, Shared, Interfaces
<1>3. JobFits' /\ WholeWindow' /\ pc' = "parts"
  BY <1>1, <1>2, WindowFits DEF Shared, ParallelInv
<1>4. Shared'
  BY <1>1, <1>2, <1>3 DEF Shared
<1>5. ParallelInv'
  BY <1>1, <1>2, <1>3 DEF ParallelInv
<1> QED
  BY <1>1, <1>2, <1>4, <1>5 DEF HashingInv

\* update_file()'s counter is the number of the window's first chunk.
LEMMA FileCounterIs ==
  ASSUME base \in Nat, absorbed \in Nat, base <= absorbed, base % ChunkLen = 0,
         Multiple(absorbed - base, WindowUnits)
  PROVE  FileCounter \in Nat /\ FileCounter * ChunkLen = absorbed
<1>1. ChunkLen \in Nat \ {0} /\ Window \in Nat \ {0} /\ WindowUnits = Window * ChunkLen
  BY BoundsAre
<1>2. PICK b \in Nat : b = base \div ChunkLen /\ base = b * ChunkLen
  <2>1. PICK b \in Nat, r \in 0 .. ChunkLen - 1 :
          b = base \div ChunkLen /\ base = b * ChunkLen + r /\ r = base % ChunkLen
    BY <1>1, DivMod
  <2>2. PICK w \in Nat : w = b * ChunkLen
    BY <1>1
  <2>3. base = w + r
    BY <2>1, <2>2
  <2>4. r = 0
    BY <2>1
  <2>5. base = w
    BY <2>3, <2>4
  <2> QED
    BY <2>1, <2>2, <2>5
<1>3. PICK o \in Nat : absorbed - base = o * WindowUnits
  BY DEF Multiple
<1>4. PICK w \in Nat : w = o * Window /\ absorbed - base = w * ChunkLen
  <2>1. \A x, y, z \in Nat : x * (y * z) = (x * y) * z /\ x * y \in Nat
    OBVIOUS
  <2> QED
    BY <1>1, <1>3, <2>1
<1>5. FileCounter = b + w
  <2>1. absorbed - base \in Nat /\ absorbed - base = w * ChunkLen + 0
        /\ 0 \in 0 .. ChunkLen - 1 /\ w \in Int
    BY <1>1, <1>4
  <2>2. (absorbed - base) \div ChunkLen = w
    BY <1>1, <2>1, DivModUnique
  <2> QED
    BY <1>2, <2>2 DEF FileCounter, Offset
<1>6. (b + w) * ChunkLen = b * ChunkLen + w * ChunkLen
  <2>1. \A x, y, z \in Nat : (x + y) * z = x * z + y * z
    OBVIOUS
  <2> QED
    BY <1>1, <2>1
<1>7. (b + w) * ChunkLen = absorbed
  BY <1>2, <1>4, <1>6
<1> QED
  BY <1>5, <1>7

\* What is offloaded lies at a multiple of the window in the message.
LEMMA OffloadKeeps ==
  ASSUME HashingInv, OffloadWindow
  PROVE  HashingInv'
<1>1. /\ pc = "file" /\ kind = "update_file" /\ left > WindowUnits
      /\ base % ChunkLen = 0 /\ FileCounter % Window = 0
      /\ FanOut(absorbed, Window, FileCounter)
      /\ kind' = kind /\ budget' = budget /\ hasher' = hasher /\ filled' = filled
      /\ counter' = counter /\ left' = left /\ base' = base /\ absorbed' = absorbed
  BY DEF OffloadWindow, Offloads, callerVars
<1>2. Shared /\ UpdateFileInv /\ filled = 0 /\ left \in Nat /\ left > 0
  BY <1>1, BoundsAre DEF HashingInv, Shared
<1>3. /\ base \in Nat /\ absorbed \in Nat /\ base <= absorbed
      /\ Multiple(absorbed - base, WindowUnits)
  BY <1>2 DEF Shared, UpdateFileInv
<1>4. Count(hasher) = absorbed
  <2>1. Count(hasher) \in Nat
    BY <1>2, CountIsNat DEF Shared, Sound
  <2> QED
    BY <1>2, <2>1 DEF Shared
<1>5. ChunkLen \in Nat \ {0} /\ Window \in Nat \ {0} /\ WindowUnits = Window * ChunkLen
  BY BoundsAre
<1>6. PICK c \in Nat : c = FileCounter /\ c * ChunkLen = absorbed
  BY <1>1, <1>3, FileCounterIs
<1>7. PICK v \in Nat : c = v * Window
  <2>1. PICK v \in Nat, r \in 0 .. Window - 1 :
          v = c \div Window /\ c = v * Window + r /\ r = c % Window
    BY <1>5, DivMod
  <2>2. PICK w \in Nat : w = v * Window
    BY <1>5
  <2>3. c = w + r
    BY <2>1, <2>2
  <2>4. r = 0
    BY <1>1, <1>6, <2>1
  <2>5. c = w
    BY <2>3, <2>4
  <2> QED
    BY <2>2, <2>5
<1>8. absorbed = v * WindowUnits
  <2>1. \A x, y, z \in Nat : (x * y) * z = x * (y * z)
    OBVIOUS
  <2> QED
    BY <1>5, <1>6, <1>7, <2>1
<1>9. Multiple(Count(hasher), WindowUnits)
  BY <1>4, <1>8 DEF Multiple
<1>10. JobFits' /\ WholeWindow' /\ pc' = "parts"
  BY <1>1, <1>2, <1>9, WindowFits DEF Shared
<1>11. Shared'
  BY <1>1, <1>2, <1>10 DEF Shared
<1>12. UpdateFileInv'
  BY <1>1, <1>2, <1>10 DEF UpdateFileInv
<1> QED
  BY <1>1, <1>11, <1>12 DEF HashingInv

\* A file or a span starts from what was absorbed before it.
LEMMA CallHashKeeps ==
  ASSUME HashingInv, NEW n \in Inputs, CallHash(n)
  PROVE  HashingInv'
<1>1. /\ kind = "hash_into" /\ pc = "idle" /\ absorbed = 0 /\ n <= MaxUnits
      /\ kind' = kind /\ budget' = budget /\ filled' = filled /\ counter' = counter
      /\ base' = base
  BY DEF CallHash, callerVars
<1>2. Shared /\ left = 0 /\ filled = 0 /\ n \in 0 .. MaxUnits /\ n <= Limit
  BY <1>1, BoundsAre DEF HashingInv, Shared
<1>3. IsHasher(hasher) /\ Sound(hasher) /\ Count(hasher) = 0
  <2>1. Count(hasher) \in Nat
    BY <1>2, CountIsNat DEF Shared, Sound
  <2> QED
    BY <1>1, <1>2, <2>1 DEF Shared, Sound
<1>4. CASE SafeChunks(n) >= 2 * MinPart
  <2> DEFINE chunks == SafeChunks(n)
             part == PartChunks(chunks)
             parts == chunks \div part
  <2>1. FanOut(0, chunks, 0) /\ left' = n /\ hasher' = hasher /\ absorbed' = absorbed
    BY <1>4 DEF CallHash
  <2>2. part \in Powers /\ parts \in Nat /\ parts * part * ChunkLen < n
    BY <1>2, <1>4, InputSplits DEF Shared
  <2>3. job'.part = part /\ job'.parts = parts /\ pc' = "parts"
    BY <2>1 DEF FanOut
  <2> HIDE DEF chunks, part, parts
  <2>4. part * ChunkLen \in Nat
    <3>1. \A a, b \in Nat : a * b \in Nat
      OBVIOUS
    <3>2. part \in Nat
      BY <2>2 DEF Powers
    <3> QED
      BY <3>1, <3>2, LensArePositive
  <2>5. Count(hasher) = 0 * (part * ChunkLen)
    BY <1>3, <2>4
  <2>6. JobFits'
    BY <2>1, <2>2, <2>3, <2>5 DEF JobFits, Multiple
  <2>7. Shared'
    BY <1>1, <1>2, <2>1, <2>3, <2>6, BoundsAre DEF Shared
  <2>8. JobUnits' < left'
    BY <2>1, <2>2, <2>3 DEF JobUnits
  <2> QED
    BY <1>1, <2>1, <2>3, <2>7, <2>8 DEF HashingInv, HashIntoInv
<1>5. CASE ~(SafeChunks(n) >= 2 * MinPart)
  <2>1. hasher' = Update(hasher, 0, n) /\ absorbed' = n /\ pc' = pc /\ left' = left
    BY <1>5 DEF CallHash
  <2>2. Sound(hasher') /\ Count(hasher') = n /\ (n > 0 => OpenTail')
    BY <1>2, <1>3, <2>1, UpdateCounts DEF OpenTail
  <2>3. Shared'
    BY <1>1, <1>2, <2>1, <2>2, BoundsAre DEF Shared
  <2> QED
    BY <1>1, <2>1, <2>2, <2>3 DEF HashingInv, HashIntoInv
<1> QED
  BY <1>4, <1>5

\* The chaining values of a job stand for the units that its parts cover.
LEMMA JoinKeeps ==
  ASSUME HashingInv, Join
  PROVE  HashingInv'
<1>1. /\ pc = "parts" /\ Absorbs /\ owing' = FALSE
      /\ kind' = kind /\ budget' = budget /\ base' = base
  BY DEF Join, callerVars
<1>2. Shared /\ JobFits /\ kind \in {"hash_into", "parallel_hasher", "update_file"}
  BY <1>1 DEF HashingInv, PlainInv, FileInv, Shared, Interfaces
<1>3. /\ IsHasher(hasher) /\ Sound(hasher) /\ Count(hasher) \in Nat
      /\ absorbed \in Nat /\ left \in Nat /\ absorbed + left <= Limit
      /\ Count(hasher) + filled = absorbed /\ filled \in Nat
  <2>1. Count(hasher) \in Nat /\ IsHasher(hasher)
    BY <1>2, CountIsNat DEF Shared, Sound
  <2> QED
    BY <1>2, <2>1, BoundsAre DEF Shared
<1>4. JobUnits \in Nat /\ (WholeWindow => JobUnits = WindowUnits)
  <2>1. \A a, b, c \in Nat : a * b * c \in Nat
    OBVIOUS
  <2>2. job.parts \in Nat /\ job.part \in Nat /\ ChunkLen \in Nat
    BY <1>2, LensArePositive DEF JobFits, Powers
  <2> QED
    BY <2>1, <2>2, BoundsAre DEF JobUnits, WholeWindow
<1>5. ASSUME Count(hasher) + JobUnits <= Limit
      PROVE  Sound(Pushed) /\ Count(Pushed) = Count(hasher) + JobUnits
  BY <1>2, <1>3, <1>5, PushedCounts DEF JobFits
<1>6. CASE kind = "parallel_hasher"
  <2>1. /\ hasher' = Pushed /\ counter' = counter + Window /\ filled' = 0 /\ pc' = "update"
        /\ left' = left /\ absorbed' = absorbed
    BY <1>1, <1>6 DEF Absorbs, WindowFlushed
  <2>2. ParallelInv /\ filled = WindowUnits /\ left > 0 /\ JobUnits = WindowUnits
    BY <1>1, <1>4, <1>6 DEF HashingInv, ParallelInv
  <2>3. Count(hasher) + JobUnits = absorbed /\ absorbed <= Limit
    BY <1>3, <2>2, BoundsAre
  <2>4. Sound(hasher') /\ Count(hasher') = absorbed'
    BY <1>5, <2>1, <2>3
  <2>5. Shared'
    BY <1>1, <1>2, <1>3, <2>1, <2>4, BoundsAre DEF Shared
  <2>6. counter' * ChunkLen = Count(hasher')
    <3>1. \A a, b, c \in Nat : (a + b) * c = a * c + b * c /\ a * c \in Nat /\ b * c \in Nat
      OBVIOUS
    <3>2. counter \in Nat /\ counter * ChunkLen = Count(hasher)
      BY <1>2, <2>2 DEF Shared, ParallelInv
    <3>3. (counter + Window) * ChunkLen = counter * ChunkLen + Window * ChunkLen
      BY <3>1, <3>2, BoundsAre
    <3> QED
      BY <1>3, <2>1, <2>2, <2>3, <2>4, <3>2, <3>3, BoundsAre
  <2>7. Multiple(Count(hasher'), WindowUnits)
    <3>1. PICK q \in Nat : Count(hasher) = q * WindowUnits
      BY <2>2 DEF ParallelInv, Multiple
    <3>2. \A a, b \in Nat : a * b + b = (a + 1) * b
      OBVIOUS
    <3>3. q * WindowUnits + WindowUnits = (q + 1) * WindowUnits
      BY <3>2, BoundsAre
    <3>4. Count(hasher') = (q + 1) * WindowUnits
      BY <2>1, <2>2, <2>3, <2>4, <3>1, <3>3
    <3> QED
      BY <3>4 DEF Multiple
  <2>8. ParallelInv'
    BY <2>1, <2>2, <2>6, <2>7 DEF ParallelInv
  <2> QED
    BY <1>1, <1>6, <2>5, <2>8 DEF HashingInv
<1>7. CASE kind = "hash_into"
  <2>1. /\ hasher' = Update(Pushed, JobUnits, left - JobUnits) /\ absorbed' = left
        /\ left' = 0 /\ pc' = "idle" /\ counter' = counter /\ filled' = filled
    BY <1>1, <1>7 DEF Absorbs, InputHashed
  <2>2. absorbed = 0 /\ JobUnits < left /\ filled = 0
    BY <1>1, <1>2, <1>7 DEF HashingInv, HashIntoInv, Shared
  <2>3. Count(hasher) = 0 /\ Count(hasher) + JobUnits <= Limit /\ left <= Limit
    BY <1>3, <1>4, <2>2, BoundsAre
  <2>4. Sound(Pushed) /\ IsHasher(Pushed) /\ Count(Pushed) = JobUnits
    BY <1>4, <1>5, <2>3 DEF Sound
  <2>5. PICK rest \in Nat : rest = left - JobUnits /\ rest > 0 /\ JobUnits + rest = left
    BY <1>3, <1>4, <2>2
  <2>6. Sound(hasher') /\ Count(hasher') = left /\ OpenTail'
    BY <1>4, <2>1, <2>3, <2>4, <2>5, UpdateCounts DEF OpenTail
  <2>7. Shared'
    BY <1>1, <1>2, <1>3, <2>1, <2>2, <2>3, <2>6 DEF Shared
  <2> QED
    BY <1>1, <1>7, <2>1, <2>6, <2>7 DEF HashingInv, HashIntoInv
<1>8. CASE kind = "update_file"
  <2>1. /\ hasher' = Pushed /\ absorbed' = absorbed + JobUnits /\ left' = left - JobUnits
        /\ pc' = "file" /\ counter' = counter /\ filled' = filled
    BY <1>1, <1>8 DEF Absorbs, FileWindowAbsorbed
  <2>2. /\ UpdateFileInv /\ filled = 0 /\ left > WindowUnits /\ JobUnits = WindowUnits
        /\ base \in Nat /\ base <= absorbed /\ Multiple(absorbed - base, WindowUnits)
    BY <1>1, <1>2, <1>3, <1>4, <1>8, BoundsAre DEF HashingInv, UpdateFileInv, Shared
  <2>3. Count(hasher) + JobUnits = absorbed' /\ Count(hasher) + JobUnits <= Limit
    BY <1>3, <2>1, <2>2, BoundsAre
  <2>4. Sound(hasher') /\ Count(hasher') = absorbed'
    BY <1>5, <2>1, <2>3
  <2>5. absorbed' \in Nat /\ left' \in Nat /\ left' > 0 /\ absorbed' + left' <= Limit
        /\ base <= absorbed'
    BY <1>3, <2>1, <2>2, BoundsAre
  <2>6. Shared'
    BY <1>1, <1>2, <1>3, <2>1, <2>2, <2>4, <2>5 DEF Shared
  <2>7. Multiple(absorbed' - base, WindowUnits)
    <3>1. PICK o \in Nat : absorbed - base = o * WindowUnits
      BY <2>2 DEF Multiple
    <3>2. \A a, b \in Nat : a * b + b = (a + 1) * b /\ a * b \in Nat
      OBVIOUS
    <3>3. o * WindowUnits + WindowUnits = (o + 1) * WindowUnits /\ o * WindowUnits \in Nat
      BY <3>2, BoundsAre
    <3>4. absorbed' - base = (o + 1) * WindowUnits
      BY <1>3, <2>1, <2>2, <3>1, <3>3, BoundsAre
    <3> QED
      BY <3>4 DEF Multiple
  <2>8. UpdateFileInv'
    BY <1>1, <2>1, <2>5, <2>7 DEF UpdateFileInv
  <2> QED
    BY <1>1, <1>8, <2>6, <2>8 DEF HashingInv
<1> QED
  BY <1>2, <1>6, <1>7, <1>8

-----------------------------------------------------------------------------
(* The fold *)

\* The stack after each of a group's carries.
Merging(f, st, cv, k) ==
  f = [c \in 0 .. k |-> IF c = 0 THEN Append(st, cv) ELSE Carry(f[c - 1])]

\* The merges of the fold are a function of their number.
LEMMA MergingExists ==
  ASSUME NEW st, NEW cv, NEW k \in Nat
  PROVE  \E f : Merging(f, st, cv, k)
<1> DEFINE S == {m \in Nat : \E f : Merging(f, st, cv, m)}
<1>1. 0 \in S
  <2> DEFINE f == [c \in 0 .. 0 |-> Append(st, cv)]
  <2>1. Merging(f, st, cv, 0)
    BY DEF Merging
  <2> QED
    BY <2>1
<1>2. ASSUME NEW m \in Nat, m \in S PROVE m + 1 \in S
  <2>1. PICK f : Merging(f, st, cv, m)
    BY <1>2
  <2> DEFINE g == [c \in 0 .. m + 1 |-> IF c = m + 1 THEN Carry(f[m]) ELSE f[c]]
             e == [c \in 0 .. m + 1 |-> IF c = 0 THEN Append(st, cv) ELSE Carry(g[c - 1])]
  <2>2. ASSUME NEW c \in 0 .. m + 1 PROVE g[c] = e[c]
    <3>1. CASE c = m + 1
      <4>1. c # 0 /\ c - 1 = m /\ m \in 0 .. m + 1 /\ m # m + 1
        BY <3>1
      <4>2. g[m] = f[m] /\ g[c] = Carry(f[m])
        BY <3>1, <4>1
      <4> HIDE DEF g
      <4> QED
        BY <4>1, <4>2
    <3>2. CASE c # m + 1
      <4>1. c \in 0 .. m /\ (c # 0 => c - 1 \in 0 .. m + 1 /\ c - 1 # m + 1)
        BY <3>2
      <4>2. g[c] = f[c] /\ (c # 0 => g[c - 1] = f[c - 1])
        BY <3>2, <4>1
      <4>3. f[c] = IF c = 0 THEN Append(st, cv) ELSE Carry(f[c - 1])
        BY <2>1, <4>1 DEF Merging
      <4> HIDE DEF g
      <4> QED
        BY <4>2, <4>3
    <3> QED
      BY <3>1, <3>2
  <2>3. g = e
    <3>1. g = [c \in 0 .. m + 1 |-> g[c]] /\ e = [c \in 0 .. m + 1 |-> e[c]]
      OBVIOUS
    <3> HIDE DEF g, e
    <3> QED
      BY <2>2, <3>1
  <2>4. Merging(g, st, cv, m + 1)
    BY <2>3 DEF Merging
  <2> QED
    BY <2>4
<1>3. Nat \subseteq S
  <2> HIDE DEF S
  <2> QED
    BY <1>1, <1>2, Induction
<1> QED
  BY <1>3

\* No power of two considered is above the greatest.
LEMMA HeightIs == \A n \in Powers : n <= MaxTotal
<1> SUFFICES ASSUME NEW n \in Powers PROVE n <= MaxTotal
  OBVIOUS
<1>1. PICK k \in 0 .. MaxHeight : n = 2^k
  BY PowersAre DEF IsPow2
<1>2. MaxHeight \in 0 .. MaxHeight
  BY DEF MaxHeight
<1> QED
  BY <1>1, <1>2, PowersGrow DEF MaxTotal

\* A stack with so many entries.
Stacked(st, n) == (\E T : st \in Seq(T)) /\ Len(st) = n

\* Every carry takes one entry off the stack.
LEMMA CarriesShrink ==
  ASSUME NEW st, NEW depth \in Nat, Stacked(st, depth), NEW cv, NEW k \in 0 .. depth,
         NEW f, Merging(f, st, cv, k)
  PROVE  Stacked(f[k], depth + 1 - k)
<1> DEFINE S == {c \in Nat : c <= k => Stacked(f[c], depth + 1 - c)}
<1>1. 0 \in S
  <2>1. f[0] = Append(st, cv)
    BY DEF Merging
  <2>2. PICK T : st \in Seq(T)
    BY DEF Stacked
  <2>3. Append(st, cv) \in Seq(T \cup {cv}) /\ Len(Append(st, cv)) = depth + 1
    <3>1. st \in Seq(T \cup {cv}) /\ Len(st) = depth
      BY <2>2 DEF Stacked
    <3> QED
      BY <3>1
  <2>4. Stacked(f[0], depth + 1 - 0)
    BY <2>1, <2>3 DEF Stacked
  <2> QED
    BY <2>4
<1>2. ASSUME NEW c \in Nat, c \in S PROVE c + 1 \in S
  <2> SUFFICES ASSUME c + 1 <= k PROVE Stacked(f[c + 1], depth + 1 - (c + 1))
    OBVIOUS
  <2>1. Stacked(f[c], depth + 1 - c) /\ depth + 1 - c \in Nat /\ depth + 1 - c >= 2
    BY <1>2
  <2> DEFINE s == f[c]
             top == Len(s)
             e == Parent(s[top - 1], s[top])
  <2>2. f[c + 1] = Carry(s)
    <3>1. c + 1 \in 0 .. k /\ c + 1 # 0 /\ (c + 1) - 1 = c
      OBVIOUS
    <3> QED
      BY <3>1 DEF Merging
  <2>3. Carry(s) = Append(SubSeq(s, 1, top - 2), e)
    BY DEF Carry
  <2>4. top = depth + 1 - c
    BY <2>1 DEF Stacked
  <2>5. PICK T : s \in Seq(T)
    BY <2>1 DEF Stacked
  <2> HIDE DEF s, e, top
  <2>6. top = Len(s) /\ top - 2 \in Nat /\ top - 2 <= top /\ top \in Nat
    BY <2>1, <2>4 DEF top
  <2>7. SubSeq(s, 1, top - 2) \in Seq(T) /\ Len(SubSeq(s, 1, top - 2)) = top - 2
    BY <2>5, <2>6
  <2>8. SubSeq(s, 1, top - 2) \in Seq(T \cup {e})
    BY <2>7
  <2>9. Carry(s) \in Seq(T \cup {e}) /\ Len(Carry(s)) = top - 2 + 1
    BY <2>3, <2>6, <2>7, <2>8
  <2>10. Len(Carry(s)) = depth + 1 - (c + 1)
    BY <2>4, <2>6, <2>9
  <2>11. Stacked(Carry(s), depth + 1 - (c + 1))
    BY <2>9, <2>10 DEF Stacked
  <2> QED
    BY <2>2, <2>11
<1>3. k \in S
  <2> HIDE DEF S
  <2> QED
    BY <1>1, <1>2, Induction
<1> QED
  BY <1>3

\* As many entries as the group counter has ones, and every group before the
\* end of the subtree is a whole one.
FoldInv ==
  /\ running \in Kernels
  /\ numChunks \in Powers /\ numChunks <= MaxChunks
  /\ groups \in Nat /\ done = groups * Group
  /\ groups <= Greater(numChunks \div Group, 1)
  /\ failed = FALSE
  /\ Stacked(stack, PopCount(groups))

\* The sizes of a group and of the subtree in groups.
LEMMA GroupIs ==
  ASSUME FoldInv
  PROVE  /\ Group \in Powers /\ Group \in Nat \ {0, 1} /\ numChunks \in Nat \ {0}
         /\ numChunks \div Group \in Nat /\ 2 * (numChunks \div Group) <= numChunks
         /\ Group <= numChunks => numChunks = (numChunks \div Group) * Group
         /\ numChunks < Group => numChunks \div Group = 0
         /\ numChunks <= MaxTotal
<1>1. running.width \in {1, 4, 8, 16}
  BY KernelAssumption DEF FoldInv, KernelSet
<1>2. Group \in Powers /\ Group \in Nat \ {0, 1}
  BY <1>1 DEF Group, Powers
<1>3. numChunks \in Powers /\ numChunks \in Nat \ {0}
  BY DEF FoldInv, Powers
<1>4. PICK g \in Powers : g = Group /\ g \in Nat \ {0, 1}
  BY <1>2
<1>5. CASE g <= numChunks
  <2>1. numChunks = g * (numChunks \div g) /\ numChunks \div g \in Nat \ {0}
    BY <1>3, <1>5, PowersDivide
  <2>2. PICK q \in Nat : q = numChunks \div g /\ numChunks = g * q
    BY <2>1
  <2>3. g * q = q * g /\ 2 * q <= g * q
    <3>1. \A a, b \in Nat : a >= 2 => a * b = b * a /\ 2 * b <= a * b
      OBVIOUS
    <3> QED
      BY <1>4, <3>1
  <2> QED
    BY <1>2, <1>3, <1>4, <1>5, <2>2, <2>3, HeightIs
<1>6. CASE numChunks < g
  <2>1. numChunks = 0 * g + numChunks /\ numChunks \in 0 .. g - 1 /\ 0 \in Int
    BY <1>3, <1>4, <1>6
  <2>2. numChunks \div g = 0
    BY <1>3, <1>4, <2>1, DivModUnique
  <2> QED
    BY <1>2, <1>3, <1>4, <1>6, <2>2, HeightIs
<1> QED
  BY <1>3, <1>4, <1>5, <1>6

\* The fold starts with an empty stack.
LEMMA StartsFolding == FoldInit => FoldInv
<1> SUFFICES ASSUME FoldInit PROVE FoldInv
  OBVIOUS
<1>1. /\ running \in Kernels /\ numChunks \in 1 .. MaxChunks /\ IsPow2(numChunks)
      /\ done = 0 /\ groups = 0 /\ stack = << >> /\ failed = FALSE
  BY DEF FoldInit
<1>2. numChunks \in Powers /\ numChunks <= MaxChunks
  BY <1>1, PowersAre, StackAssumption
<1>3. Group \in Nat \ {0}
  BY <1>1, KernelAssumption DEF Group, KernelSet
<1>4. 0 <= Greater(numChunks \div Group, 1)
  <2>1. PICK m \in Nat, g \in Nat \ {0} : m = numChunks /\ g = Group
    BY <1>1, <1>3, StackAssumption
  <2>2. m \div g \in Nat
    BY DivMod
  <2>3. numChunks \div Group \in Nat
    BY <2>1, <2>2, Zenon
  <2> QED
    BY <2>3 DEF Greater
<1>5. << >> \in Seq({}) /\ Len(<< >>) = 0
  OBVIOUS
<1>6. Stacked(stack, PopCount(groups))
  BY <1>1, <1>5, PopCounts DEF Stacked
<1>7. done = groups * Group
  BY <1>1, <1>3
<1> QED
  BY <1>1, <1>2, <1>4, <1>6, <1>7 DEF FoldInv

\* Before a group there is room on the stack, and what its carries merge.
LEMMA FoldHasRoom ==
  ASSUME FoldInv, done < numChunks
  PROVE  /\ groups + 1 <= Greater(numChunks \div Group, 1) /\ groups + 1 \in 1 .. MaxTotal
         /\ Len(stack) \in Nat /\ Len(stack) < MaxStack
         /\ TrailingZeros(groups + 1) \in 0 .. Len(stack)
         /\ PopCount(groups + 1) = Len(stack) + 1 - TrailingZeros(groups + 1)
<1>1. PICK g \in Nat, q \in Nat :
        /\ g = Group /\ q = numChunks \div Group
        /\ g >= 2 /\ 2 * q <= numChunks /\ numChunks <= MaxTotal
        /\ g <= numChunks => numChunks = q * g
        /\ numChunks < g => q = 0
  BY GroupIs
<1>2. groups \in Nat /\ done = groups * g /\ numChunks \in Nat \ {0} /\ Len(stack) = PopCount(groups)
  BY <1>1, GroupIs DEF FoldInv, Stacked
<1>3. groups + 1 <= Greater(q, 1)
  <2>1. CASE g <= numChunks
    <3>1. groups * g < q * g
      BY <1>1, <1>2, <2>1
    <3>2. \A a, b, c \in Nat : a >= b => a * c >= b * c /\ a * c \in Nat /\ b * c \in Nat
      OBVIOUS
    <3>3. groups < q
      BY <1>2, <3>1, <3>2
    <3> QED
      BY <1>2, <3>3 DEF Greater
  <2>2. CASE numChunks < g
    <3>1. \A a, b \in Nat : a >= 1 => a * b >= b /\ a * b \in Nat
      OBVIOUS
    <3>2. groups = 0
      BY <1>2, <2>2, <3>1
    <3> QED
      BY <1>1, <2>2, <3>2 DEF Greater
  <2> QED
    BY <1>1, <1>2, <2>1, <2>2
<1>4. groups + 1 \in 1 .. MaxTotal /\ groups < MaxTotal
  <2>1. q <= MaxTotal /\ 1 <= MaxTotal
    BY <1>1, <1>2, MaxTotalIsNat
  <2> QED
    BY <1>2, <1>3, <2>1, MaxTotalIsNat DEF Greater
<1>5. /\ TrailingZeros(groups + 1) \in Nat /\ TrailingZeros(groups + 1) <= PopCount(groups)
      /\ PopCount(groups + 1) = PopCount(groups) + 1 - TrailingZeros(groups + 1)
      /\ PopCount(groups) \in Nat
  <2>1. (groups + 1) - 1 = groups
    BY <1>2
  <2> QED
    BY <1>4, <2>1, Merges
<1>6. Len(stack) < MaxStack
  <2>1. PICK k \in 0 .. MaxHeight : k <= MaxStack /\ MaxChunks <= 2^k
    BY StackAssumption
  <2>2. PICK d \in 0 .. MaxHeight : d = PopCount(groups) /\ 2^d <= groups + 1
    BY <1>2, <1>4, FewOnes
  <2>3. d \in Nat /\ k \in Nat /\ MaxStack \in Nat /\ MaxChunks \in Nat
        /\ 2^d \in Nat \ {0} /\ 2^k \in Nat
    <3>1. d \in Nat /\ k \in Nat
      BY DEF MaxHeight
    <3>2. 2^d \in Nat \ {0} /\ 2^k \in Nat \ {0}
      BY Doubled, Zenon
    <3>3. MaxStack \in Nat /\ MaxChunks \in Nat
      BY StackAssumption
    <3> QED
      BY <3>1, <3>2, <3>3
  <2>4. CASE numChunks < g
    <3>1. groups = 0
      BY <1>1, <1>2, <1>3, <2>4 DEF Greater
    <3>2. d = 0
      BY <2>2, <3>1, PopCounts
    <3>3. MaxStack # 0
      BY StackAssumption
    <3> QED
      BY <1>2, <2>2, <2>3, <3>2, <3>3
  <2>5. CASE g <= numChunks
    <3>1. q >= 1
      <4>1. 0 * g = 0
        BY <1>1
      <4> QED
        BY <1>1, <1>2, <2>5, <4>1
    <3>2. groups + 1 <= q
      BY <1>2, <1>3, <3>1 DEF Greater
    <3>3. 2 * 2^d <= 2^k
      <4>1. numChunks <= MaxChunks
        BY DEF FoldInv
      <4>2. 2 * 2^d <= 2 * q
        BY <1>2, <2>2, <2>3, <3>2
      <4> QED
        BY <1>1, <1>2, <2>1, <2>3, <4>1, <4>2
    <3>4. ASSUME d >= k PROVE FALSE
      <4>1. k \in 0 .. d
        BY <2>3, <3>4
      <4>2. 2^k <= 2^d
        BY <4>1, PowersGrow
      <4> QED
        BY <2>3, <3>3, <4>2
    <3> QED
      BY <1>2, <2>1, <2>2, <2>3, <3>4
  <2> QED
    BY <1>1, <1>2, <2>4, <2>5
<1> QED
  BY <1>1, <1>2, <1>3, <1>4, <1>5, <1>6

\* Folding in a group leaves an entry per one bit of the groups done.
LEMMA FoldGroupKeeps ==
  ASSUME FoldInv, NEW modes, FoldGroup(modes)
  PROVE  FoldInv'
<1> DEFINE n == Lesser(Group, numChunks - done)
           carries == TrailingZeros(groups + 1)
           cv == GroupCV(n, modes)
           f == CHOOSE h : Merging(h, stack, cv, carries)
<1>1. /\ done < numChunks /\ done' = done + Group /\ groups' = groups + 1
      /\ running' = running /\ numChunks' = numChunks
  BY DEF FoldGroup, GroupCounted
<1>2. /\ groups + 1 <= Greater(numChunks \div Group, 1)
      /\ Len(stack) \in Nat /\ Len(stack) < MaxStack /\ carries \in 0 .. Len(stack)
      /\ PopCount(groups + 1) = Len(stack) + 1 - carries
  BY <1>1, FoldHasRoom
<1>3. MaxStack \in Nat /\ carries \in Nat /\ ~(Len(stack) >= MaxStack \/ carries > Len(stack))
  BY <1>2, StackAssumption
<1>4. Merging(f, stack, cv, carries)
  BY <1>3, MergingExists
<1>5. stack' = f[carries] /\ failed' = failed
  BY <1>3, Zenon DEF FoldGroup, Merging, Carries, GroupCounted
<1> HIDE DEF f, cv, carries
<1>6. Stacked(stack, Len(stack))
  BY DEF FoldInv, Stacked
<1>7. Stacked(stack', PopCount(groups'))
  BY <1>1, <1>2, <1>4, <1>5, <1>6, CarriesShrink
<1>8. Group' = Group /\ Group \in Nat /\ groups \in Nat
  BY <1>1, GroupIs DEF Group, FoldInv
<1>9. done' = groups' * Group'
  <2>1. \A a, b \in Nat : (a + 1) * b = a * b + b
    OBVIOUS
  <2> QED
    BY <1>1, <1>8, <2>1 DEF FoldInv
<1> QED
  BY <1>1, <1>2, <1>5, <1>7, <1>8, <1>9 DEF FoldInv

\* A stack with an entry per one bit fits the levels of the subtree.
LEMMA FoldStackSuffices == FoldInv => StackSuffices
<1> SUFFICES ASSUME FoldInv PROVE StackSuffices
  OBVIOUS
<1>1. PICK q \in Nat : q = numChunks \div Group /\ 2 * q <= numChunks /\ numChunks <= MaxTotal
                       /\ numChunks \in Nat \ {0}
  BY GroupIs
<1>2. groups \in Nat /\ groups <= Greater(q, 1) /\ Len(stack) = PopCount(groups)
  BY <1>1 DEF FoldInv, Stacked
<1>3. groups < MaxTotal
  <2>1. 1 < MaxTotal
    BY Exponents DEF MaxTotal, MaxHeight
  <2> QED
    BY <1>1, <1>2, <2>1, MaxTotalIsNat DEF Greater
<1>4. PICK d \in 0 .. MaxHeight : d = PopCount(groups) /\ 2^d <= groups + 1
  BY <1>2, <1>3, FewOnes
<1>5. 2^d \in Nat
  BY <1>4, Doubled
<1>6. 2^d <= Greater(2 * q, 2)
  BY <1>1, <1>2, <1>4, <1>5 DEF Greater
<1> QED
  BY <1>1, <1>2, <1>4, <1>6 DEF StackSuffices, FoldInv

-----------------------------------------------------------------------------
(* The theorems *)

\* Every step keeps the invariant of the front ends.
LEMMA NextKeepsHashing ==
  ASSUME HashingInv, [Next]_vars
  PROVE  HashingInv'
<1>1. ASSUME NEW n \in Inputs, CallUpdate(n) \/ CallHash(n)
      PROVE  HashingInv'
  BY <1>1, CallUpdateKeeps, CallHashKeeps
<1>2. ASSUME NEW n \in InputsOf(kind), CallHasherUpdate(n)
      PROVE  HashingInv'
  BY <1>2, CallHasherUpdateKeeps
<1>3. ASSUME NEW n \in 1 .. MaxPlain \div ChunkLen, CallPushSubtree(n)
      PROVE  HashingInv'
  BY <1>3, CallPushSubtreeKeeps
<1>4. ASSUME CallReset \/ ReadFails \/ Stopped
      PROVE  HashingInv'
  BY <1>4, CallResetKeeps, ReadFailsKeeps, StoppedKeeps
<1>5. ASSUME InCall
      PROVE  HashingInv'
  BY <1>5, FlushKeeps, CopyInKeeps, UpdateReturnsKeeps, OffloadKeeps, UpdateWindowKeeps,
     JoinKeeps DEF InCall
<1>6. ASSUME NEW a \in Agents, BeginCall(a) \/ Pull(a) \/ Body(a)
      PROVE  HashingInv'
  BY <1>6, SchedulerKeeps DEF BeginCall, Pull, Body
<1>7. ASSUME UNCHANGED vars
      PROVE  HashingInv'
  BY <1>7, SchedulerKeeps DEF vars, jobVars
<1> QED
  BY <1>1, <1>2, <1>3, <1>4, <1>5, <1>6, <1>7 DEF Next, Scheduler

\* The invariant of the front ends holds in every behaviour of them.
THEOREM HashingInvariant == Spec => []HashingInv
<1>1. Init => HashingInv
  BY StartsHashing
<1>2. HashingInv /\ [Next]_vars => HashingInv'
  BY NextKeepsHashing
<1> QED
  BY <1>1, <1>2, PTL DEF Spec

\* The invariant has both counters agree.
LEMMA InvariantCounts == HashingInv => CountersAgree
BY DEF HashingInv, Shared, ParallelInv, CountersAgree

\* The invariant has every push sound, and a unit for finalize_xof().
LEMMA InvariantIsSound == HashingInv => PushesSound
<1> SUFFICES ASSUME HashingInv PROVE PushesSound
  OBVIOUS
<1>1. Shared /\ hasher.failed = FALSE /\ Len(hasher.stack) = PopCount(hasher.chunk.counter)
  BY DEF HashingInv, Shared, Sound, Carried
<1>2. ASSUME pc = "idle", ~owing, absorbed > 0 PROVE ChunkFill(Drained.chunk) > 0
  <2>1. /\ IsHasher(hasher) /\ Count(hasher) \in Nat /\ filled \in Nat /\ absorbed \in Nat
        /\ Count(hasher) + filled = absorbed /\ left = 0
    BY <1>1, <1>2, CountIsNat, BoundsAre DEF Shared, Sound
  <2>2. PICK from \in Nat : from = absorbed - filled
    BY <2>1
  <2>3. Drained = Update(hasher, from, filled)
    BY <2>2 DEF Drained
  <2>4. CASE filled > 0
    BY <2>1, <2>3, <2>4, UpdateCounts
  <2>5. CASE filled = 0
    <3>1. Drained = hasher
      BY <2>1, <2>3, <2>5, UpdateCounts
    <3>2. OpenTail
      BY <1>1, <1>2, <2>1, <2>5 DEF HashingInv, Shared, Interfaces, PlainInv, FileInv,
           HashIntoInv, ParallelInv, UpdateFileInv
    <3> QED
      BY <3>1, <3>2 DEF OpenTail
  <2> QED
    BY <2>1, <2>4, <2>5
<1> QED
  BY <1>1, <1>2 DEF PushesSound

(***************************************************************************)
(* count() is the absorbed prefix without what the window buffers, at      *)
(* every moment of every call, and parallel_hasher's chunk_counter_ is its *)
(* hasher's: whatever the sizes of block, chunk and window, the stack      *)
(* budget, the inputs and the number of agents, and wherever the scheduler *)
(* stops the work.                                                         *)
(***************************************************************************)
THEOREM CountersStayInAgreement == Spec => []CountersAgree
<1> QED
  BY HashingInvariant, InvariantCounts, PTL

(***************************************************************************)
(* No assertion of push_cv() fails, the stack has an entry per one bit of  *)
(* the chunk counter, and what is finalized has a unit in its open chunk,  *)
(* in every behaviour of the front ends.                                   *)
(***************************************************************************)
THEOREM PushesStaySound == Spec => []PushesSound
<1> QED
  BY HashingInvariant, InvariantIsSound, PTL

-----------------------------------------------------------------------------
(* Powers of two and the tree's shape *)

\* What holds of 1 and with a power of its double holds of every power.
LEMMA PowerInduction ==
  ASSUME NEW S, 1 \in S, \A p \in Powers : p \in S /\ 2 * p \in Powers => 2 * p \in S
  PROVE  Powers \subseteq S
<1>1. 2 \in S /\ 4 \in S /\ 8 \in S /\ 16 \in S /\ 32 \in S
  BY DEF Powers
<1>2. 64 \in S /\ 128 \in S /\ 256 \in S /\ 512 \in S /\ 1024 \in S
  BY <1>1 DEF Powers
<1>3. 2048 \in S /\ 4096 \in S /\ 8192 \in S /\ 16384 \in S /\ 32768 \in S
  BY <1>2 DEF Powers
<1>4. 65536 \in S /\ 131072 \in S /\ 262144 \in S /\ 524288 \in S /\ 1048576 \in S
  BY <1>3 DEF Powers
<1> QED
  BY <1>1, <1>2, <1>3, <1>4 DEF Powers

\* A power of two is positive.
LEMMA PowersAreNat == Powers \subseteq Nat \ {0}
BY DEF Powers

\* The next power up is no greater than any greater one.
LEMMA PowersDouble ==
  ASSUME NEW p \in Powers, NEW q \in Powers, p < q
  PROVE  2 * p \in Powers /\ 2 * p <= q
BY DEF Powers

\* A number is an odd multiple of one power of two only.
LEMMA LowestBit ==
  ASSUME NEW p \in Powers, NEW q \in Powers, NEW a \in Nat, NEW b \in Nat,
         p * (2 * a + 1) = q * (2 * b + 1)
  PROVE  p = q
<1>1. ASSUME NEW r \in Powers, NEW s \in Powers, r < s, NEW x \in Nat, NEW y \in Nat,
             r * (2 * x + 1) = s * (2 * y + 1)
      PROVE  FALSE
  <2>1. 2 * r \in Powers /\ 2 * r <= s /\ r \in Nat \ {0} /\ s \in Nat
    BY <1>1, PowersDouble, PowersAreNat
  <2>2. PICK k \in Nat : s = (2 * r) * k
    BY <2>1, PowersDivide
  <2>3. \A u, v, w \in Nat : ((2 * u) * v) * w = u * (2 * (v * w)) /\ v * w \in Nat
    OBVIOUS
  <2>4. PICK m \in Nat : m = k * (2 * y + 1) /\ s * (2 * y + 1) = r * (2 * m)
    BY <2>1, <2>2, <2>3
  <2>5. \A u \in Nat \ {0} : \A v, w \in Nat : u * v = u * w => v = w
    OBVIOUS
  <2>6. r * (2 * x + 1) = r * (2 * m)
    BY <1>1, <2>4
  <2>7. 2 * x + 1 = 2 * m
    BY <2>1, <2>5, <2>6
  <2> QED
    BY <2>7
<1>2. p \in Nat /\ q \in Nat
  BY PowersAreNat
<1>3. ~(p < q)
  BY <1>1
<1>4. q * (2 * b + 1) = p * (2 * a + 1)
  OBVIOUS
<1>5. ~(q < p)
  BY <1>1, <1>4
<1> QED
  BY <1>2, <1>3, <1>5

\* The largest power of two of a number is the one it is less than double of.
LEMMA BitFloorIs ==
  ASSUME NEW p \in Powers, NEW r \in Nat, r < p
  PROVE  BitFloor(p + r) = p
<1>1. p \in Nat \ {0}
  BY PowersAreNat
<1> DEFINE Fits(x) == x \in 1 .. p + r /\ IsPow2(x) /\ 2 * x > p + r
<1>2. Fits(p)
  BY <1>1, PowersAre
<1>3. ASSUME NEW x, Fits(x) PROVE x = p
  <2>1. x \in Powers /\ x \in Nat
    BY <1>3, PowersAre, PowersAreNat
  <2>2. x < p => 2 * x <= p
    BY <2>1, PowersDouble
  <2>3. p < x => 2 * p <= x
    BY <2>1, PowersDouble
  <2> QED
    BY <1>1, <1>3, <2>1, <2>2, <2>3
<1>4. BitFloor(p + r) = CHOOSE x \in 1 .. p + r : IsPow2(x) /\ 2 * x > p + r
  BY DEF BitFloor
<1>5. Fits(BitFloor(p + r))
  BY <1>2, <1>4
<1> QED
  BY <1>3, <1>5

\* The largest power of two of a number within the bound is no greater than it.
LEMMA BitFloorBounds ==
  ASSUME NEW n \in 1 .. MaxTotal
  PROVE  BitFloor(n) \in 1 .. n
<1>1. MaxTotal \in Powers /\ MaxTotal \in Nat /\ n \in Nat \ {0} /\ n <= MaxTotal
  <2>1. MaxHeight \in 0 .. MaxHeight
    BY DEF MaxHeight
  <2>2. IsPow2(MaxTotal)
    BY <2>1 DEF IsPow2, MaxTotal
  <2> QED
    BY <2>2, PowersAre, MaxTotalIsNat
<1> DEFINE T == {q \in Powers : q <= n}
<1>2. 1 \in T /\ T \subseteq 0 .. n
  BY <1>1, PowersAreNat DEF Powers
<1>3. PICK p \in T : \A q \in T : q <= p
  <2> HIDE DEF T
  <2> QED
    BY <1>1, <1>2, Greatest
<1>4. p \in Nat \ {0} /\ p <= n /\ p \in Powers
  BY PowersAreNat
<1>5. 2 * p > n
  <2> SUFFICES ASSUME 2 * p <= n PROVE FALSE
    BY <1>1, <1>4
  <2>1. p < MaxTotal
    BY <1>1, <1>4
  <2>2. 2 * p \in Powers
    BY <1>1, <1>4, <2>1, PowersDouble
  <2>3. 2 * p <= p
    BY <1>3, <2>2
  <2> QED
    BY <1>4, <2>3
<1>6. n - p \in Nat /\ n - p < p /\ p + (n - p) = n
  BY <1>1, <1>4, <1>5
<1>7. BitFloor(p + (n - p)) = p
  BY <1>4, <1>6, BitFloorIs
<1> QED
  BY <1>1, <1>4, <1>6, <1>7

-----------------------------------------------------------------------------
(* Subtrees: the function of SubtreeCV() and what its nodes are *)

\* The nodes over "size" chunks each.
Level(t, from, n, c, size) ==
  [i \in 0 .. n - size |->
     IF size = 1 THEN ChunkCV(from + i * ChunkLen, ChunkLen, c + i)
     ELSE LET half == size \div 2 IN Parent(t[half][i], t[half][i + half])]

Trees(t, from, n, c, m) == t = [size \in 1 .. m |-> Level(t, from, n, c, size)]

\* Two of the functions of SubtreeCV() agree on the sizes both have.
LEMMA LevelsAgree ==
  ASSUME NEW t, NEW g, NEW from, NEW n, NEW c, NEW size,
         size = 1 \/ t[size \div 2] = g[size \div 2]
  PROVE  Level(t, from, n, c, size) = Level(g, from, n, c, size)
<1>1. CASE size = 1
  BY <1>1 DEF Level
<1>2. CASE size # 1
  <2>1. t[size \div 2] = g[size \div 2]
    BY <1>2
  <2> QED
    BY <1>2, <2>1, Zenon DEF Level
<1> QED
  BY <1>1, <1>2

\* The function SubtreeCV() is defined with exists.
LEMMA TreesExist ==
  ASSUME NEW from, NEW n, NEW c, NEW k \in Nat
  PROVE  \E t : Trees(t, from, n, c, k)
<1> DEFINE S == {m \in Nat : \E t : Trees(t, from, n, c, m)}
<1>1. 0 \in S
  <2> DEFINE t == [i \in 1 .. 0 |-> 0]
             e == [i \in 1 .. 0 |-> Level(t, from, n, c, i)]
  <2>1. t = e
    <3>1. 1 .. 0 = {}
      OBVIOUS
    <3> HIDE DEF t
    <3>2. e = [i \in {} |-> Level(t, from, n, c, i)]
      BY <3>1
    <3>3. t = [i \in {} |-> 0]
      BY <3>1 DEF t
    <3> QED
      BY <3>2, <3>3
  <2>2. Trees(t, from, n, c, 0)
    BY <2>1 DEF Trees
  <2> QED
    BY <2>2
<1>2. ASSUME NEW m \in Nat, m \in S PROVE m + 1 \in S
  <2>1. PICK t : Trees(t, from, n, c, m)
    BY <1>2
  <2> DEFINE g == [i \in 1 .. m + 1 |->
                     IF i = m + 1 THEN Level(t, from, n, c, m + 1) ELSE t[i]]
             e == [i \in 1 .. m + 1 |-> Level(g, from, n, c, i)]
  <2>2. ASSUME NEW i \in 1 .. m + 1 PROVE g[i] = e[i]
    <3>1. i = 1 \/ t[i \div 2] = g[i \div 2]
      <4> SUFFICES ASSUME i # 1 PROVE t[i \div 2] = g[i \div 2]
        OBVIOUS
      <4>1. PICK half \in 1 .. m : half = i \div 2
        OBVIOUS
      <4>2. half \in 1 .. m + 1 /\ half # m + 1
        BY <4>1
      <4>3. g[half] = t[half]
        BY <4>2
      <4> HIDE DEF g
      <4> QED
        BY <4>1, <4>3
    <3>2. Level(t, from, n, c, i) = Level(g, from, n, c, i)
      <4> HIDE DEF g
      <4> QED
        BY <3>1, LevelsAgree
    <3>3. CASE i = m + 1
      <4>1. g[i] = Level(t, from, n, c, i)
        BY <3>3
      <4> HIDE DEF g
      <4> QED
        BY <3>2, <4>1
    <3>4. CASE i # m + 1
      <4>1. i \in 1 .. m
        BY <3>4
      <4>2. g[i] = t[i]
        BY <3>4
      <4>3. t[i] = Level(t, from, n, c, i)
        BY <2>1, <4>1 DEF Trees
      <4> HIDE DEF g
      <4> QED
        BY <3>2, <4>2, <4>3
    <3> QED
      BY <3>3, <3>4
  <2>3. g = e
    <3>1. g = [i \in 1 .. m + 1 |-> g[i]] /\ e = [i \in 1 .. m + 1 |-> e[i]]
      OBVIOUS
    <3> HIDE DEF g, e
    <3> QED
      BY <2>2, <3>1
  <2>4. Trees(g, from, n, c, m + 1)
    BY <2>3 DEF Trees
  <2> QED
    BY <2>4
<1>3. Nat \subseteq S
  <2> HIDE DEF S
  <2> QED
    BY <1>1, <1>2, Induction
<1> QED
  BY <1>3

\* SubtreeCV() is what any such function gives.
LEMMA SubtreeIs ==
  ASSUME NEW from, NEW n \in Nat, NEW c
  PROVE  \E t : Trees(t, from, n, c, n) /\ SubtreeCV(from, n, c) = t[n][0]
<1> DEFINE g == CHOOSE t : Trees(t, from, n, c, n)
<1>1. Trees(g, from, n, c, n)
  BY TreesExist
<1>2. SubtreeCV(from, n, c) = g[n][0]
  BY Zenon DEF SubtreeCV, Trees, Level
<1> QED
  BY <1>1, <1>2

\* The node of a subtree at a place is the subtree of that place.
LEMMA NodeAt ==
  ASSUME NEW t, NEW from, NEW n, NEW c, NEW m, Trees(t, from, n, c, m),
         NEW size \in 1 .. m, NEW i \in 0 .. n - size
  PROVE  /\ size = 1 => t[size][i] = ChunkCV(from + i * ChunkLen, ChunkLen, c + i)
         /\ \A half : size # 1 /\ half = size \div 2 =>
              t[size][i] = Parent(t[half][i], t[half][i + half])
<1>1. t[size] = Level(t, from, n, c, size)
  BY DEF Trees
<1>2. t[size][i] = IF size = 1 THEN ChunkCV(from + i * ChunkLen, ChunkLen, c + i)
                   ELSE LET half == size \div 2 IN Parent(t[half][i], t[half][i + half])
  BY <1>1, Zenon DEF Level
<1> QED
  BY <1>2, Zenon

\* The chaining value of p complete chunks from the data's chunk lo on, where
\* the data's first chunk is number origin of the message.
Tree(origin, lo, p) == SubtreeCV(lo * ChunkLen, p, origin + lo)

\* The message itself starts with chunk 0.
LEMMA TreeFromZero ==
  ASSUME NEW lo \in Nat, NEW p
  PROVE  Tree(0, lo, p) = SubtreeCV(lo * ChunkLen, p, lo)
<1>1. 0 + lo = lo
  OBVIOUS
<1> QED
  BY <1>1, Zenon DEF Tree

\* A subtree of one chunk is the chunk's chaining value.
LEMMA TreeOfOne ==
  ASSUME NEW origin \in Nat, NEW lo \in Nat
  PROVE  Tree(origin, lo, 1) = ChunkCV(lo * ChunkLen, ChunkLen, origin + lo)
<1>1. PICK t : /\ Trees(t, lo * ChunkLen, 1, origin + lo, 1)
               /\ Tree(origin, lo, 1) = t[1][0]
  BY SubtreeIs DEF Tree
<1>2. 1 \in 1 .. 1 /\ 0 \in 0 .. 1 - 1
  OBVIOUS
<1>3. t[1][0] = ChunkCV(lo * ChunkLen + 0 * ChunkLen, ChunkLen, origin + lo + 0)
  BY <1>1, <1>2, NodeAt
<1>4. origin + lo + 0 = origin + lo
  OBVIOUS
<1>5. lo * ChunkLen + 0 * ChunkLen = lo * ChunkLen
  <2>1. \A a, b \in Nat : a * b + 0 * b = a * b
    OBVIOUS
  <2> QED
    BY <2>1, LensArePositive
<1> QED
  BY <1>1, <1>3, <1>4, <1>5, Zenon

\* Every node of a subtree is the subtree of its chunks.
NodesOf(p) ==
  \A n, origin, lo \in Nat : \A t : Trees(t, lo * ChunkLen, n, origin + lo, n) =>
    \A i \in 0 .. n - p : p <= n => t[p][i] = Tree(origin, lo + i, p)

\* What the nodes of a subtree of a power of two are.
LEMMA NodesAreTrees == \A p \in Powers : NodesOf(p)
<1> DEFINE S == {p \in Powers : NodesOf(p)}
<1>1. 1 \in S
  <2> SUFFICES ASSUME NEW n \in Nat, NEW origin \in Nat, NEW lo \in Nat, NEW t,
                      Trees(t, lo * ChunkLen, n, origin + lo, n), NEW i \in 0 .. n - 1, 1 <= n
               PROVE  t[1][i] = Tree(origin, lo + i, 1)
    BY DEF NodesOf, Powers
  <2>1. 1 \in 1 .. n
    OBVIOUS
  <2>2. t[1][i] = ChunkCV(lo * ChunkLen + i * ChunkLen, ChunkLen, origin + lo + i)
    BY <2>1, NodeAt
  <2>3. (lo + i) * ChunkLen = lo * ChunkLen + i * ChunkLen
    <3>1. \A a, b, c \in Nat : (a + b) * c = a * c + b * c
      OBVIOUS
    <3> QED
      BY <3>1, LensArePositive
  <2>4. lo + i \in Nat /\ origin + (lo + i) = origin + lo + i
    OBVIOUS
  <2>5. Tree(origin, lo + i, 1) = ChunkCV((lo + i) * ChunkLen, ChunkLen, origin + (lo + i))
    BY <2>4, TreeOfOne
  <2> QED
    BY <2>2, <2>3, <2>4, <2>5, Zenon
<1>2. ASSUME NEW p \in Powers, p \in S, 2 * p \in Powers PROVE 2 * p \in S
  <2> DEFINE q == 2 * p
  <2>1. p \in Nat \ {0} /\ q \in Nat /\ q # 1 /\ p = q \div 2 /\ q = p + p
    BY PowersAreNat
  <2>2. ASSUME NEW n \in Nat, NEW origin \in Nat, NEW lo \in Nat, NEW t,
               Trees(t, lo * ChunkLen, n, origin + lo, n), NEW i \in 0 .. n - q, q <= n
        PROVE  t[q][i] = Parent(Tree(origin, lo + i, p), Tree(origin, lo + i + p, p))
    <3>1. q \in 1 .. n /\ i \in 0 .. n - p /\ i + p \in 0 .. n - p /\ p <= n
          /\ lo + (i + p) = lo + i + p
      BY <2>1, <2>2
    <3>2. t[q][i] = Parent(t[p][i], t[p][i + p])
      <4>1. PICK size \in 1 .. n : size = q
        BY <3>1
      <4>2. i \in 0 .. n - size /\ size # 1 /\ p = size \div 2
        BY <2>1, <4>1
      <4>3. i \in 0 .. n - size /\ Trees(t, lo * ChunkLen, n, origin + lo, n)
        BY <2>2, <4>2
      <4> HIDE DEF S, q
      <4>4. \A half : size # 1 /\ half = size \div 2 =>
              t[size][i] = Parent(t[half][i], t[half][i + half])
        BY <4>3, NodeAt
      <4>5. t[size][i] = Parent(t[p][i], t[p][i + p])
        BY <4>2, <4>4
      <4> QED
        BY <4>1, <4>5
    <3>3. t[p][i] = Tree(origin, lo + i, p) /\ t[p][i + p] = Tree(origin, lo + (i + p), p)
      BY <1>2, <2>2, <3>1 DEF NodesOf
    <3> QED
      BY <3>1, <3>2, <3>3, Zenon
  <2> SUFFICES ASSUME NEW n \in Nat, NEW origin \in Nat, NEW lo \in Nat, NEW t,
                      Trees(t, lo * ChunkLen, n, origin + lo, n), NEW i \in 0 .. n - q, q <= n
               PROVE  t[q][i] = Tree(origin, lo + i, q)
    BY <1>2 DEF NodesOf
  <2>3. t[q][i] = Parent(Tree(origin, lo + i, p), Tree(origin, lo + i + p, p))
    BY <2>2
  <2>4. /\ lo + i \in Nat /\ 0 \in 0 .. q - q /\ q <= q /\ lo + i + 0 = lo + i
        /\ origin + (lo + i) = origin + lo + i
    BY <2>1
  <2> HIDE DEF q
  <2>5. PICK u : /\ Trees(u, (lo + i) * ChunkLen, q, origin + (lo + i), q)
                 /\ Tree(origin, lo + i, q) = u[q][0]
    BY <2>1, SubtreeIs DEF Tree
  <2>6. u[q][0] = Parent(Tree(origin, lo + i + 0, p), Tree(origin, lo + i + 0 + p, p))
    BY <2>1, <2>2, <2>4, <2>5
  <2> QED
    BY <2>3, <2>4, <2>5, <2>6, Zenon
<1> HIDE DEF S
<1>3. Powers \subseteq S
  BY <1>1, <1>2, PowerInduction
<1> QED
  BY <1>3 DEF S

\* Two neighbours of one size are the halves of a subtree of twice the size.
LEMMA TreeOfHalves ==
  ASSUME NEW origin \in Nat, NEW lo \in Nat, NEW p \in Powers, 2 * p \in Powers
  PROVE  Tree(origin, lo, 2 * p) = Parent(Tree(origin, lo, p), Tree(origin, lo + p, p))
<1>1. PICK q \in Powers : q = 2 * p
  OBVIOUS
<1>2. p \in Nat \ {0} /\ q \in Nat \ {0} /\ q # 1 /\ p = q \div 2
  BY <1>1, PowersAreNat
<1>3. PICK t : Trees(t, lo * ChunkLen, q, origin + lo, q) /\ Tree(origin, lo, q) = t[q][0]
  BY <1>2, SubtreeIs DEF Tree
<1>4. q \in 1 .. q /\ 0 \in 0 .. q - q /\ 0 + p = p /\ lo + 0 = lo
      /\ 0 \in 0 .. q - p /\ p \in 0 .. q - p /\ p <= q
  BY <1>1, <1>2
<1>5. t[q][0] = Parent(t[p][0], t[p][0 + p])
  BY <1>2, <1>3, <1>4, NodeAt
<1>6. NodesOf(p)
  BY NodesAreTrees
<1>7. t[p][0] = Tree(origin, lo + 0, p) /\ t[p][p] = Tree(origin, lo + p, p)
  BY <1>2, <1>3, <1>4, <1>6 DEF NodesOf
<1> QED
  BY <1>1, <1>3, <1>4, <1>5, <1>7, Zenon

-----------------------------------------------------------------------------
(* The reference: the function of RootNode() and what its nodes are *)

RootLevel(t, n, size) ==
  [lo \in 0 .. Chunks(n) - size |->
     IF size = 1
     THEN ChunkCV(lo * ChunkLen, Lesser(ChunkLen, n - lo * ChunkLen), lo)
     ELSE LET near == BitFloor(size - 1)
          IN Parent(t[near][lo], t[size - near][lo + near])]

Roots(t, n, m) == t = [size \in 1 .. m |-> RootLevel(t, n, size)]

\* Two of the functions of RootNode() agree on the sizes both have.
LEMMA RootLevelsAgree ==
  ASSUME NEW t, NEW g, NEW n, NEW size,
         size = 1 \/ (/\ t[BitFloor(size - 1)] = g[BitFloor(size - 1)]
                      /\ t[size - BitFloor(size - 1)] = g[size - BitFloor(size - 1)])
  PROVE  RootLevel(t, n, size) = RootLevel(g, n, size)
<1>1. CASE size = 1
  BY <1>1 DEF RootLevel
<1>2. CASE size # 1
  <2>1. /\ t[BitFloor(size - 1)] = g[BitFloor(size - 1)]
        /\ t[size - BitFloor(size - 1)] = g[size - BitFloor(size - 1)]
    BY <1>2
  <2> QED
    BY <1>2, <2>1, Zenon DEF RootLevel
<1> QED
  BY <1>1, <1>2

\* The function RootNode() is defined with exists.
LEMMA RootsExist ==
  ASSUME NEW n
  PROVE  \A k \in Nat : k <= MaxTotal + 1 => \E t : Roots(t, n, k)
<1> DEFINE S == {m \in Nat : m <= MaxTotal + 1 => \E t : Roots(t, n, m)}
<1>1. 0 \in S
  <2> DEFINE t == [i \in 1 .. 0 |-> 0]
             e == [i \in 1 .. 0 |-> RootLevel(t, n, i)]
  <2>1. t = e
    <3>1. 1 .. 0 = {}
      OBVIOUS
    <3> HIDE DEF t
    <3>2. e = [i \in {} |-> RootLevel(t, n, i)]
      BY <3>1
    <3>3. t = [i \in {} |-> 0]
      BY <3>1 DEF t
    <3> QED
      BY <3>2, <3>3
  <2>2. Roots(t, n, 0)
    BY <2>1 DEF Roots
  <2> QED
    BY <2>2
<1>2. ASSUME NEW m \in Nat, m \in S PROVE m + 1 \in S
  <2> SUFFICES ASSUME m + 1 <= MaxTotal + 1 PROVE \E t : Roots(t, n, m + 1)
    OBVIOUS
  <2>1. PICK t : Roots(t, n, m)
    BY <1>2, MaxTotalIsNat
  <2> DEFINE g == [i \in 1 .. m + 1 |->
                     IF i = m + 1 THEN RootLevel(t, n, m + 1) ELSE t[i]]
             e == [i \in 1 .. m + 1 |-> RootLevel(g, n, i)]
  <2>5. \A i \in 1 .. m : g[i] = t[i]
    <3> SUFFICES ASSUME NEW i \in 1 .. m PROVE g[i] = t[i]
      OBVIOUS
    <3>1. i \in 1 .. m + 1 /\ i # m + 1
      OBVIOUS
    <3> QED
      BY <3>1
  <2>2. ASSUME NEW i \in 1 .. m + 1 PROVE g[i] = e[i]
    <3>1. i = 1 \/ (/\ t[BitFloor(i - 1)] = g[BitFloor(i - 1)]
                    /\ t[i - BitFloor(i - 1)] = g[i - BitFloor(i - 1)])
      <4> SUFFICES ASSUME i # 1
                   PROVE  /\ t[BitFloor(i - 1)] = g[BitFloor(i - 1)]
                          /\ t[i - BitFloor(i - 1)] = g[i - BitFloor(i - 1)]
        OBVIOUS
      <4>1. i - 1 \in 1 .. MaxTotal
        BY MaxTotalIsNat
      <4>2. PICK near \in 1 .. i - 1 : near = BitFloor(i - 1)
        BY <4>1, BitFloorBounds
      <4>3. near \in 1 .. m /\ i - near \in 1 .. m
        BY <4>2
      <4> HIDE DEF g
      <4> QED
        BY <2>5, <4>2, <4>3
    <3>2. RootLevel(t, n, i) = RootLevel(g, n, i)
      <4> HIDE DEF g
      <4> QED
        BY <3>1, RootLevelsAgree
    <3>3. CASE i = m + 1
      <4>1. g[i] = RootLevel(t, n, i)
        BY <3>3
      <4> HIDE DEF g
      <4> QED
        BY <3>2, <4>1
    <3>4. CASE i # m + 1
      <4>1. i \in 1 .. m
        BY <3>4
      <4>2. g[i] = t[i]
        BY <3>4
      <4>3. t[i] = RootLevel(t, n, i)
        BY <2>1, <4>1 DEF Roots
      <4> HIDE DEF g
      <4> QED
        BY <3>2, <4>2, <4>3
    <3> QED
      BY <3>3, <3>4
  <2>3. g = e
    <3>1. g = [i \in 1 .. m + 1 |-> g[i]] /\ e = [i \in 1 .. m + 1 |-> e[i]]
      OBVIOUS
    <3> HIDE DEF g, e
    <3> QED
      BY <2>2, <3>1
  <2>4. Roots(g, n, m + 1)
    BY <2>3 DEF Roots
  <2> QED
    BY <2>4
<1> HIDE DEF S
<1>3. Nat \subseteq S
  BY <1>1, <1>2, Induction
<1> QED
  BY <1>3 DEF S

\* RootNode() is what any such function gives.
LEMMA RootIs ==
  ASSUME NEW n, Chunks(n) \in Nat, Chunks(n) <= MaxTotal + 1
  PROVE  \E t : Roots(t, n, Chunks(n)) /\ RootNode(n) = Root(t[Chunks(n)][0])
<1> DEFINE g == CHOOSE t : Roots(t, n, Chunks(n))
<1>1. Roots(g, n, Chunks(n))
  BY RootsExist
<1>2. RootNode(n) = Root(g[Chunks(n)][0])
  BY Zenon DEF RootNode, Roots, RootLevel
<1> QED
  BY <1>1, <1>2

\* A node of the reference joins the two left_len() splits it into.
LEMMA RootAt ==
  ASSUME NEW t, NEW n, Roots(t, n, Chunks(n)),
         NEW size \in 1 .. Chunks(n), NEW lo \in 0 .. Chunks(n) - size
  PROVE  /\ size = 1 =>
              t[size][lo] = ChunkCV(lo * ChunkLen, Lesser(ChunkLen, n - lo * ChunkLen), lo)
         /\ \A near : size # 1 /\ near = BitFloor(size - 1) =>
              t[size][lo] = Parent(t[near][lo], t[size - near][lo + near])
<1>1. t[size] = RootLevel(t, n, size)
  BY DEF Roots
<1>2. t[size][lo] = IF size = 1
                    THEN ChunkCV(lo * ChunkLen, Lesser(ChunkLen, n - lo * ChunkLen), lo)
                    ELSE LET near == BitFloor(size - 1)
                         IN Parent(t[near][lo], t[size - near][lo + near])
  BY <1>1, Zenon DEF RootLevel
<1> QED
  BY <1>2, Zenon

\* A node over complete chunks, a power of two of them, is their subtree.
LEMMA CompleteNodes ==
  ASSUME NEW n \in Nat, NEW N \in Nat, N * ChunkLen <= n, N <= Chunks(n), Chunks(n) \in Nat,
         NEW t, Roots(t, n, Chunks(n))
  PROVE  \A p \in Powers : \A lo \in Nat : lo + p <= N => t[p][lo] = Tree(0, lo, p)
<1> DEFINE Good(p) == \A lo \in Nat : lo + p <= N => t[p][lo] = Tree(0, lo, p)
           S == {p \in Powers : Good(p)}
<1>1. 1 \in S
  <2> SUFFICES ASSUME NEW lo \in Nat, lo + 1 <= N PROVE t[1][lo] = Tree(0, lo, 1)
    BY DEF Powers
  <2>1. 1 \in 1 .. Chunks(n) /\ lo \in 0 .. Chunks(n) - 1
    OBVIOUS
  <2>2. t[1][lo] = ChunkCV(lo * ChunkLen, Lesser(ChunkLen, n - lo * ChunkLen), lo)
    BY <2>1, RootAt
  <2>3. Lesser(ChunkLen, n - lo * ChunkLen) = ChunkLen
    <3>1. \A a, b \in Nat : \A c \in Nat : a + 1 <= b => a * c \in Nat /\ b * c \in Nat /\ a * c + c <= b * c
      OBVIOUS
    <3>2. ChunkLen \in Nat
      BY LensArePositive
    <3>3. PICK x \in Nat : x = lo * ChunkLen /\ x + ChunkLen <= n
      <4>1. lo * ChunkLen \in Nat /\ N * ChunkLen \in Nat
            /\ lo * ChunkLen + ChunkLen <= N * ChunkLen
        BY <3>1, <3>2
      <4> QED
        BY <3>2, <4>1
    <3>4. Lesser(ChunkLen, n - x) = ChunkLen
      BY <3>2, <3>3 DEF Lesser
    <3> QED
      BY <3>3, <3>4
  <2>4. Tree(0, lo, 1) = ChunkCV(lo * ChunkLen, ChunkLen, lo)
    BY TreeOfOne
  <2> QED
    BY <2>2, <2>3, <2>4, Zenon
<1>2. ASSUME NEW p \in Powers, p \in S, 2 * p \in Powers PROVE 2 * p \in S
  <2> SUFFICES ASSUME NEW lo \in Nat, lo + 2 * p <= N PROVE t[2 * p][lo] = Tree(0, lo, 2 * p)
    BY <1>2
  <2>1. PICK q \in Powers : q = 2 * p
    BY <1>2
  <2>2. /\ p \in Nat \ {0} /\ q \in 1 .. Chunks(n) /\ lo \in 0 .. Chunks(n) - q /\ q # 1
        /\ q - p = p /\ q - 1 = p + (p - 1) /\ p - 1 \in Nat /\ p - 1 < p
        /\ lo + p \in Nat /\ lo + p <= N /\ lo + p + p <= N
    BY <2>1, PowersAreNat
  <2>3. p = BitFloor(q - 1)
    BY <2>2, BitFloorIs
  <2>4. t[q][lo] = Parent(t[p][lo], t[q - p][lo + p])
    BY <2>2, <2>3, RootAt
  <2>5. Good(p)
    BY <1>2
  <2>6. t[p][lo] = Tree(0, lo, p) /\ t[p][lo + p] = Tree(0, lo + p, p)
    BY <2>2, <2>5
  <2>7. Tree(0, lo, 2 * p) = Parent(Tree(0, lo, p), Tree(0, lo + p, p))
    BY <1>2, TreeOfHalves
  <2> QED
    BY <2>1, <2>2, <2>4, <2>6, <2>7, Zenon
<1> HIDE DEF S
<1>3. Powers \subseteq S
  BY <1>1, <1>2, PowerInduction
<1> QED
  BY <1>3 DEF S

-----------------------------------------------------------------------------
(* The open chunk holds the message's units *)

\* The first k units of block m of chunk number c of the message.
Units(c, m, k) == [i \in 1 .. k |-> c * ChunkLen + m * BlockLen + i - 1]

StartOf(m) == IF m = 0 THEN {"start"} ELSE {}

\* The chaining values before each of the blocks 0 .. m of chunk number c.
Chain(f, c, m) ==
  /\ f[0] = Key
  /\ \A b \in 0 .. m - 1 : f[b + 1] = Compress(f[b], Data(Units(c, b, BlockLen)), c, StartOf(b))

Chained(cv, c, m) == \E f : Chain(f, c, m) /\ cv = f[m]

\* A chunk's chain starts with its key.
LEMMA ChainStarts ==
  ASSUME NEW c
  PROVE  Chained(Key, c, 0)
<1> DEFINE f == [b \in 0 .. 0 |-> Key]
<1>1. f[0] = Key
  OBVIOUS
<1>2. 0 .. 0 - 1 = {}
  OBVIOUS
<1> HIDE DEF f
<1>3. Chain(f, c, 0)
  BY <1>1, <1>2 DEF Chain
<1> QED
  BY <1>1, <1>3 DEF Chained

\* A chain goes on by a block of the message.
LEMMA ChainGrows ==
  ASSUME NEW c, NEW m \in Nat, NEW cv, Chained(cv, c, m)
  PROVE  Chained(Compress(cv, Data(Units(c, m, BlockLen)), c, StartOf(m)), c, m + 1)
<1>1. PICK f : Chain(f, c, m) /\ cv = f[m]
  BY DEF Chained
<1> DEFINE new == Compress(cv, Data(Units(c, m, BlockLen)), c, StartOf(m))
<1> HIDE DEF new
<1> DEFINE g == [b \in 0 .. m + 1 |-> IF b = m + 1 THEN new ELSE f[b]]
<1>2. g[m + 1] = new
  OBVIOUS
<1>3. \A b \in 0 .. m : g[b] = f[b]
  <2> SUFFICES ASSUME NEW b \in 0 .. m PROVE g[b] = f[b]
    OBVIOUS
  <2>1. b \in 0 .. m + 1 /\ b # m + 1
    OBVIOUS
  <2> QED
    BY <2>1
<1> HIDE DEF g
<1>4. ASSUME NEW b \in 0 .. (m + 1) - 1
      PROVE  g[b + 1] = Compress(g[b], Data(Units(c, b, BlockLen)), c, StartOf(b))
  <2>1. CASE b = m
    <3>1. g[b] = cv /\ g[b + 1] = new
      BY <1>1, <1>2, <1>3, <2>1
    <3> QED
      BY <2>1, <3>1, Zenon DEF new
  <2>2. CASE b # m
    <3>1. b \in 0 .. m - 1 /\ b \in 0 .. m /\ b + 1 \in 0 .. m
      BY <2>2
    <3>2. g[b] = f[b] /\ g[b + 1] = f[b + 1]
      BY <1>3, <3>1
    <3>3. f[b + 1] = Compress(f[b], Data(Units(c, b, BlockLen)), c, StartOf(b))
      BY <1>1, <3>1 DEF Chain
    <3> QED
      BY <3>2, <3>3, Zenon
  <2> QED
    BY <2>1, <2>2
<1>5. g[0] = Key
  BY <1>1, <1>3 DEF Chain
<1>6. Chain(g, c, m + 1)
  BY <1>4, <1>5 DEF Chain
<1>7. Chained(new, c, m + 1)
  BY <1>2, <1>6 DEF Chained
<1> QED
  BY <1>7 DEF new

\* The number of blocks of a chunk with m full ones before the last.
LEMMA LastBlock ==
  ASSUME NEW m \in Nat, NEW k \in 0 .. BlockLen, k > 0 \/ m = 0
  PROVE  /\ BlockLen * m + k \in Nat /\ BlockCount(BlockLen * m + k) - 1 = m
         /\ Lesser(BlockLen, (BlockLen * m + k) - m * BlockLen) = k
         /\ \A b \in 0 .. m - 1 : Lesser(BlockLen, (BlockLen * m + k) - b * BlockLen) = BlockLen
<1>1. BlockLen \in Nat \ {0}
  BY LensArePositive
<1>2. PICK x \in Nat : x = BlockLen * m /\ x = m * BlockLen /\ (m + 1) * BlockLen = x + BlockLen
  BY <1>1
<1>3. Lesser(BlockLen, (BlockLen * m + k) - m * BlockLen) = k
  <2>1. (BlockLen * m + k) - m * BlockLen = k
    BY <1>1, <1>2
  <2> HIDE DEF Lesser
  <2>2. Lesser(BlockLen, k) = k
    BY <1>1 DEF Lesser
  <2> QED
    BY <2>1, <2>2
<1>4. ASSUME NEW b \in 0 .. m - 1
      PROVE  Lesser(BlockLen, (BlockLen * m + k) - b * BlockLen) = BlockLen
  <2>1. \A u, v, w \in Nat : u + 1 <= v => u * w \in Nat /\ u * w + w <= v * w
    OBVIOUS
  <2>2. PICK y \in Nat : y = b * BlockLen /\ y + BlockLen <= x
    <3>1. b * BlockLen \in Nat /\ b * BlockLen + BlockLen <= m * BlockLen
      BY <1>1, <2>1
    <3> QED
      BY <1>2, <3>1
  <2>3. Lesser(BlockLen, (x + k) - y) = BlockLen
    BY <1>1, <2>2 DEF Lesser
  <2> QED
    BY <1>2, <2>2, <2>3
<1>5. BlockCount(BlockLen * m + k) - 1 = m
  <2>1. CASE x + k = 0
    <3>1. BlockCount(x + k) = 1
      BY <2>1 DEF BlockCount
    <3>2. k = 0 /\ m = 0
      BY <1>2, <2>1
    <3> QED
      BY <1>2, <3>1, <3>2
  <2>2. CASE x + k # 0
    <3>1. k > 0
      BY <1>1, <1>2, <2>2
    <3>2. PICK a \in Nat : a = x + k + BlockLen - 1
      BY <1>1, <1>2, <2>2
    <3>3. a = (m + 1) * BlockLen + (k - 1) /\ k - 1 \in 0 .. BlockLen - 1 /\ m + 1 \in Int
      BY <1>1, <1>2, <3>1, <3>2
    <3>4. a \div BlockLen = m + 1
      BY <1>1, <3>3, DivModUnique
    <3>5. BlockCount(x + k) = a \div BlockLen
      BY <2>2, <3>2, Zenon DEF BlockCount
    <3> QED
      BY <1>2, <3>4, <3>5
  <2> QED
    BY <2>1, <2>2
<1> QED
  BY <1>1, <1>2, <1>3, <1>4, <1>5

\* The value after each block of a chunk of len units.
AfterOf(a, from, len, c, last, b) ==
  Compress(IF b = 0 THEN Key ELSE a[b - 1], Data(ChunkBlock(from, len, b)), c,
           StartOf(b) \cup (IF b = last THEN {"end"} ELSE {}))

Afters(a, from, len, c, last) == a = [b \in 0 .. last |-> AfterOf(a, from, len, c, last, b)]

\* The chunk's value from the one before its last block.
LEMMA ChunkCVIs ==
  ASSUME NEW c \in Nat, NEW m \in Nat, NEW k \in 0 .. BlockLen, k > 0 \/ m = 0,
         NEW cv, Chained(cv, c, m)
  PROVE  ChunkCV(c * ChunkLen, BlockLen * m + k, c)
           = Compress(cv, Data(Units(c, m, k)), c, StartOf(m) \cup {"end"})
<1> DEFINE from == c * ChunkLen
           len == BlockLen * m + k
<1>1. /\ len \in Nat /\ BlockCount(len) - 1 = m
      /\ Lesser(BlockLen, len - m * BlockLen) = k
      /\ \A b \in 0 .. m - 1 : Lesser(BlockLen, len - b * BlockLen) = BlockLen
  BY LastBlock
<1> HIDE DEF from, len
<1>2. ChunkBlock(from, len, m) = Units(c, m, k)
  BY <1>1, Zenon DEF ChunkBlock, Units, from
<1>3. \A b \in 0 .. m - 1 : ChunkBlock(from, len, b) = Units(c, b, BlockLen)
  BY <1>1, Zenon DEF ChunkBlock, Units, from
<1>4. PICK f : Chain(f, c, m) /\ cv = f[m]
  BY DEF Chained
<1> DEFINE end == Compress(cv, Data(Units(c, m, k)), c, StartOf(m) \cup {"end"})
<1>5. \A a : AfterOf(a, from, len, c, m, m)
               = Compress(IF m = 0 THEN Key ELSE a[m - 1], Data(Units(c, m, k)), c,
                          StartOf(m) \cup {"end"})
  BY <1>2, Zenon DEF AfterOf
<1>6. ASSUME NEW a, NEW b \in 0 .. m - 1, b = 0 \/ a[b - 1] = f[b]
      PROVE  AfterOf(a, from, len, c, m, b) = f[b + 1]
  <2>1. b # m
    OBVIOUS
  <2>2. AfterOf(a, from, len, c, m, b)
          = Compress(IF b = 0 THEN Key ELSE a[b - 1], Data(Units(c, b, BlockLen)), c,
                     StartOf(b) \cup {})
    BY <1>3, <2>1, Zenon DEF AfterOf
  <2>3. StartOf(b) \cup {} = StartOf(b)
    OBVIOUS
  <2>4. (IF b = 0 THEN Key ELSE a[b - 1]) = f[b]
    BY <1>4, <1>6 DEF Chain
  <2>5. f[b + 1] = Compress(f[b], Data(Units(c, b, BlockLen)), c, StartOf(b))
    BY <1>4 DEF Chain
  <2> QED
    BY <2>2, <2>3, <2>4, <2>5, Zenon
<1>7. ASSUME NEW a, m = 0 \/ a[m - 1] = f[m]
      PROVE  AfterOf(a, from, len, c, m, m) = end
  <2>1. (IF m = 0 THEN Key ELSE a[m - 1]) = cv
    BY <1>4, <1>7 DEF Chain
  <2> QED
    BY <1>5, <2>1, Zenon
<1> HIDE DEF end
<1>8. \E a : Afters(a, from, len, c, m)
  <2> DEFINE a == [b \in 0 .. m |-> IF b = m THEN end ELSE f[b + 1]]
             e == [b \in 0 .. m |-> AfterOf(a, from, len, c, m, b)]
  <2>1. ASSUME NEW b \in 0 .. m PROVE a[b] = e[b]
    <3>1. b = 0 \/ a[b - 1] = f[b]
      <4> SUFFICES ASSUME b # 0 PROVE a[b - 1] = f[b]
        OBVIOUS
      <4>1. b - 1 \in 0 .. m /\ b - 1 # m /\ (b - 1) + 1 = b
        OBVIOUS
      <4>2. a[b - 1] = f[(b - 1) + 1]
        BY <4>1
      <4> QED
        BY <4>1, <4>2
    <3>2. a[b] = IF b = m THEN end ELSE f[b + 1]
      OBVIOUS
    <3>3. e[b] = AfterOf(a, from, len, c, m, b)
      OBVIOUS
    <3> HIDE DEF a, e
    <3>4. CASE b = m
      BY <1>7, <3>1, <3>2, <3>3, <3>4
    <3>5. CASE b # m
      <4>1. b \in 0 .. m - 1
        BY <3>5
      <4> QED
        BY <1>6, <3>1, <3>2, <3>3, <3>5, <4>1
    <3> QED
      BY <3>4, <3>5
  <2>2. a = e
    <3>1. a = [b \in 0 .. m |-> a[b]] /\ e = [b \in 0 .. m |-> e[b]]
      OBVIOUS
    <3> HIDE DEF a, e
    <3> QED
      BY <2>1, <3>1
  <2>3. Afters(a, from, len, c, m)
    BY <2>2 DEF Afters
  <2> QED
    BY <2>3
<1> DEFINE a == CHOOSE x : Afters(x, from, len, c, m)
<1>9. Afters(a, from, len, c, m)
  BY <1>8
<1>10. ChunkCV(from, len, c) = a[m]
  BY <1>1, Zenon DEF ChunkCV, Afters, AfterOf, StartOf
<1> HIDE DEF a
<1>11. \A b \in 0 .. m : a[b] = AfterOf(a, from, len, c, m, b)
  BY <1>9 DEF Afters
<1> DEFINE S == {b \in Nat : b < m => a[b] = f[b + 1]}
<1>12. 0 \in S
  <2> SUFFICES ASSUME 0 < m PROVE a[0] = f[0 + 1]
    OBVIOUS
  <2>1. 0 \in 0 .. m - 1 /\ 0 \in 0 .. m
    OBVIOUS
  <2>2. AfterOf(a, from, len, c, m, 0) = f[0 + 1]
    BY <1>6, <2>1
  <2> QED
    BY <1>11, <2>1, <2>2
<1>13. ASSUME NEW b \in Nat, b \in S PROVE b + 1 \in S
  <2> SUFFICES ASSUME b + 1 < m PROVE a[b + 1] = f[(b + 1) + 1]
    OBVIOUS
  <2>1. b + 1 \in 0 .. m - 1 /\ b + 1 \in 0 .. m /\ (b + 1) - 1 = b /\ b < m
    OBVIOUS
  <2>2. a[(b + 1) - 1] = f[b + 1]
    BY <1>13, <2>1
  <2>3. AfterOf(a, from, len, c, m, b + 1) = f[(b + 1) + 1]
    BY <1>6, <2>1, <2>2
  <2> QED
    BY <1>11, <2>1, <2>3
<1>14. Nat \subseteq S
  <2> HIDE DEF S
  <2> QED
    BY <1>12, <1>13, Induction
<1>15. m = 0 \/ a[m - 1] = f[m]
  <2> SUFFICES ASSUME m # 0 PROVE a[m - 1] = f[m]
    OBVIOUS
  <2>1. m - 1 \in Nat /\ m - 1 < m /\ (m - 1) + 1 = m
    OBVIOUS
  <2>2. m - 1 \in S
    BY <1>14, <2>1
  <2>3. a[m - 1] = f[(m - 1) + 1]
    BY <2>1, <2>2
  <2> QED
    BY <2>1, <2>3
<1>16. AfterOf(a, from, len, c, m, m) = end
  BY <1>7, <1>15
<1>17. ChunkCV(from, len, c) = end
  BY <1>10, <1>11, <1>16
<1> QED
  BY <1>17 DEF from, len, end

-----------------------------------------------------------------------------

\* The open chunk: its units are the message's from its own place on.
ChunkTrue(ch) ==
  /\ ch.block = Units(ch.counter, ch.compressed, Len(ch.block))
  /\ Chained(ch.cv, ch.counter, ch.compressed)
  /\ Len(ch.block) > 0 \/ ch.compressed = 0

\* A new chunk has the units of none.
LEMMA NewChunkTrue ==
  ASSUME NEW n \in Nat
  PROVE  ChunkTrue(ChunkInit(n))
<1> DEFINE c == ChunkInit(n)
<1>1. c.cv = Key /\ c.counter = n /\ c.block = << >> /\ c.compressed = 0
  BY DEF ChunkInit
<1> HIDE DEF c
<1>2. Units(n, 0, 0) = << >>
  BY DEF Units
<1>3. Len(c.block) = 0
  BY <1>1
<1>4. Chained(c.cv, c.counter, c.compressed)
  BY <1>1, ChainStarts
<1> QED
  BY <1>1, <1>2, <1>3, <1>4 DEF ChunkTrue, c

\* What add() appends is the message's next unit.
LEMMA AddTrue ==
  ASSUME NEW c, IsChunk(c), ChunkTrue(c), ChunkFill(c) < ChunkLen
  PROVE  ChunkTrue(ChunkAdd(c, c.counter * ChunkLen + ChunkFill(c)))
<1> DEFINE u == c.counter * ChunkLen + ChunkFill(c)
           d == ChunkAdd(c, u)
<1>1. /\ BlockLen \in Nat \ {0} /\ ChunkLen \in Nat \ {0}
      /\ c.counter \in Nat /\ c.compressed \in Nat /\ Len(c.block) \in 0 .. BlockLen
      /\ c.block = Units(c.counter, c.compressed, Len(c.block))
  BY LensArePositive DEF IsChunk, ChunkTrue
<1>2. PICK w \in Nat : w = c.counter * ChunkLen
  BY <1>1
<1>3. PICK x \in Nat : x = BlockLen * c.compressed /\ x = c.compressed * BlockLen
  BY <1>1
<1>4. u = w + x + Len(c.block)
  <2>1. ChunkFill(c) = x + Len(c.block)
    BY <1>3 DEF ChunkFill
  <2>2. PICK k \in Nat : k = Len(c.block)
    BY <1>1
  <2>3. u = w + (x + k)
    BY <1>2, <2>1, <2>2
  <2>4. w + x + k = w + (x + k)
    OBVIOUS
  <2> HIDE DEF u
  <2> QED
    BY <2>2, <2>3, <2>4, Zenon
<1>5. CASE Len(c.block) = BlockLen
  <2>1. /\ d.counter = c.counter /\ d.block = <<u>> /\ d.compressed = c.compressed + 1
        /\ d.cv = Compress(c.cv, Data(c.block), c.counter, StartFlag(c))
    BY <1>5 DEF ChunkAdd, IsChunk
  <2> HIDE DEF d, u
  <2>2. StartFlag(c) = StartOf(c.compressed)
    BY DEF StartFlag, StartOf
  <2>3. c.block = Units(c.counter, c.compressed, BlockLen)
    BY <1>1, <1>5
  <2>4. Chained(d.cv, d.counter, d.compressed)
    <3>1. Chained(Compress(c.cv, Data(Units(c.counter, c.compressed, BlockLen)), c.counter,
                           StartOf(c.compressed)), c.counter, c.compressed + 1)
      BY <1>1, ChainGrows DEF ChunkTrue
    <3> QED
      BY <2>1, <2>2, <2>3, <3>1, Zenon
  <2>5. (c.compressed + 1) * BlockLen = x + BlockLen
    BY <1>1, <1>3
  <2>6. Units(c.counter, c.compressed + 1, 1) = <<u>>
    <3>1. Units(c.counter, c.compressed + 1, 1)
            = [i \in 1 .. 1 |-> c.counter * ChunkLen + (c.compressed + 1) * BlockLen + i - 1]
      BY DEF Units
    <3>2. PICK y \in Nat : y = (c.compressed + 1) * BlockLen
      BY <1>1
    <3>3. Units(c.counter, c.compressed + 1, 1) = [i \in 1 .. 1 |-> w + y + i - 1]
      BY <1>2, <3>1, <3>2
    <3>4. u = w + y + 1 - 1
      BY <1>1, <1>4, <1>5, <2>5, <3>2
    <3> QED
      BY <3>3, <3>4
  <2>7. Len(d.block) = 1
    BY <2>1
  <2>8. ChunkTrue(d)
    BY <2>1, <2>4, <2>6, <2>7 DEF ChunkTrue
  <2> QED
    BY <2>8 DEF d, u
<1>6. CASE Len(c.block) # BlockLen
  <2>1. /\ d.counter = c.counter /\ d.block = Append(c.block, u)
        /\ d.compressed = c.compressed /\ d.cv = c.cv
    BY <1>6 DEF ChunkAdd, IsChunk
  <2> HIDE DEF d, u
  <2>2. PICK k \in Nat : k = Len(c.block)
    BY <1>1
  <2>3. c.block = [i \in 1 .. k |-> w + x + i - 1]
    <3>1. c.block = [i \in 1 .. k |-> c.counter * ChunkLen + c.compressed * BlockLen + i - 1]
      BY <1>1, <2>2 DEF Units
    <3> QED
      BY <1>2, <1>3, <3>1
  <2>4. Append(c.block, u) = [i \in 1 .. k + 1 |-> w + x + i - 1]
    BY <1>4, <2>2, <2>3
  <2>5. Units(c.counter, c.compressed, k + 1) = [i \in 1 .. k + 1 |-> w + x + i - 1]
    BY <1>2, <1>3 DEF Units
  <2>6. Len(d.block) = k + 1
    BY <2>1, <2>2, <2>3, <2>4
  <2>7. d.block = Units(d.counter, d.compressed, Len(d.block))
    BY <2>1, <2>4, <2>5, <2>6
  <2>8. Chained(d.cv, d.counter, d.compressed)
    BY <2>1 DEF ChunkTrue
  <2>9. ChunkTrue(d)
    BY <2>6, <2>7, <2>8 DEF ChunkTrue
  <2> QED
    BY <2>9 DEF d, u
<1> QED
  BY <1>1, <1>5, <1>6

\* chunk_update() with the units that follow.
LEMMA MoreUnitsTrue ==
  ASSUME NEW c, IsChunk(c), ChunkTrue(c), NEW from \in Nat,
         from = c.counter * ChunkLen + ChunkFill(c), NEW n \in Nat, ChunkFill(c) + n <= ChunkLen
  PROVE  ChunkTrue(ChunkUpdate(c, from, n))
<1>1. PICK f : Feeds(f, c, from, n) /\ ChunkUpdate(c, from, n) = f[n]
  BY ChunkUpdateIs
<1> DEFINE Good(i) ==
      /\ IsChunk(f[i]) /\ f[i].counter = c.counter /\ ChunkFill(f[i]) = ChunkFill(c) + i
      /\ ChunkTrue(f[i])
<1> DEFINE S == {i \in Nat : i <= n => Good(i)}
<1>2. ChunkFill(c) \in Nat /\ ChunkLen \in Nat
  BY FillIsNat, LensArePositive
<1>3. 0 \in S
  <2>1. f[0] = c
    BY <1>1 DEF Feeds
  <2> QED
    BY <1>2, <2>1
<1>4. ASSUME NEW i \in Nat, i \in S PROVE i + 1 \in S
  <2> SUFFICES ASSUME i + 1 <= n PROVE Good(i + 1)
    OBVIOUS
  <2>1. Good(i)
    BY <1>4
  <2>2. f[i + 1] = ChunkAdd(f[i], from + i)
    <3>1. i + 1 \in 0 .. n /\ i + 1 # 0 /\ (i + 1) - 1 = i /\ from + (i + 1) - 1 = from + i
      OBVIOUS
    <3>2. f[i + 1] = IF i + 1 = 0 THEN c ELSE ChunkAdd(f[(i + 1) - 1], from + (i + 1) - 1)
      BY <1>1, <3>1 DEF Feeds
    <3> QED
      BY <3>1, <3>2
  <2>3. ChunkFill(f[i]) < ChunkLen /\ from + i \in Nat
    BY <1>2, <2>1
  <2>4. /\ IsChunk(f[i + 1]) /\ f[i + 1].counter = f[i].counter
        /\ ChunkFill(f[i + 1]) = ChunkFill(f[i]) + 1
    BY <2>1, <2>2, <2>3, OneMoreUnit
  <2>5. from + i = f[i].counter * ChunkLen + ChunkFill(f[i])
    <3>1. PICK w \in Nat : w = c.counter * ChunkLen
      BY <1>2 DEF IsChunk
    <3>2. from + i = w + (ChunkFill(c) + i)
      BY <1>2, <3>1
    <3> QED
      BY <2>1, <3>1, <3>2
  <2>6. ChunkTrue(f[i + 1])
    BY <2>1, <2>2, <2>3, <2>5, AddTrue
  <2> QED
    BY <1>2, <2>1, <2>4, <2>6
<1>5. n \in S
  <2> HIDE DEF S
  <2> QED
    BY <1>3, <1>4, Induction
<1> QED
  BY <1>1, <1>5

\* What the open chunk compresses to is the reference's chunk.
LEMMA OutputTrue ==
  ASSUME NEW c, IsChunk(c), ChunkTrue(c)
  PROVE  ChunkOutput(c) = ChunkCV(c.counter * ChunkLen, ChunkFill(c), c.counter)
<1>1. PICK k \in 0 .. BlockLen : k = Len(c.block) /\ (k > 0 \/ c.compressed = 0)
  BY LensArePositive DEF IsChunk, ChunkTrue
<1>2. c.counter \in Nat /\ c.compressed \in Nat /\ Chained(c.cv, c.counter, c.compressed)
  BY DEF IsChunk, ChunkTrue
<1>3. ChunkCV(c.counter * ChunkLen, BlockLen * c.compressed + k, c.counter)
        = Compress(c.cv, Data(Units(c.counter, c.compressed, k)), c.counter,
                   StartOf(c.compressed) \cup {"end"})
  BY <1>1, <1>2, ChunkCVIs
<1>4. StartFlag(c) = StartOf(c.compressed)
  BY DEF StartFlag, StartOf
<1>5. ChunkFill(c) = BlockLen * c.compressed + k
  BY <1>1 DEF ChunkFill
<1>6. c.block = Units(c.counter, c.compressed, k)
  BY <1>1 DEF ChunkTrue
<1> QED
  BY <1>3, <1>4, <1>5, <1>6, Zenon DEF ChunkOutput

-----------------------------------------------------------------------------
(* The stack holds the message's complete subtrees *)

\* x is an odd, or an even, number of times d.
OddTimes(x, d) == \E o \in Nat : x = d * (2 * o + 1)
EvenTimes(x, d) == \E q \in Nat : x = d * (2 * q)

\* A chaining value for the chunks lo .. hi - 1, which are the left half of a
\* subtree of twice their number.
Entry(origin, lo, hi, cv) ==
  \E p \in Powers : /\ hi = lo + p /\ EvenTimes(lo, p) /\ cv = Tree(origin, lo, p)

\* b[j] is where the j-th entry ends: together they are the first N chunks.
Standing(origin, b, st, N) ==
  /\ b[0] = 0 /\ b[Len(st)] = N
  /\ \A j \in 0 .. Len(st) : b[j] \in Nat
  /\ \A j \in 1 .. Len(st) : Entry(origin, b[j - 1], b[j], st[j])

StackTrue(origin, st, N) == \E b : Standing(origin, b, st, N)

\* The bound on chunks is a power of two.
LEMMA MaxTotalIsPower == MaxTotal \in Powers
<1>1. MaxHeight \in 0 .. MaxHeight
  BY DEF MaxHeight
<1>2. IsPow2(MaxTotal)
  BY <1>1 DEF IsPow2, MaxTotal
<1> QED
  BY <1>2, PowersAre

\* What ends in z zeros is an odd multiple of 2^z, and an even one of every
\* lesser power.
LEMMA OddPart ==
  ASSUME NEW x \in Nat, NEW z \in Nat, EndsIn(x, z)
  PROVE  OddTimes(x, 2^z)
<1>1. z \in 0 .. MaxHeight /\ x % 2^z = 0 /\ x % 2^(z + 1) # 0
  BY DEF EndsIn
<1>2. PICK d \in Nat \ {0} : d = 2^z /\ 2^(z + 1) = 2 * d
  BY <1>1, Doubled
<1>3. PICK e \in Nat : x = e * d
  <2>1. PICK e \in Nat, r \in 0 .. d - 1 : x = e * d + r /\ r = x % d
    BY DivMod
  <2>2. r = 0 /\ e * d \in Nat
    BY <1>1, <1>2, <2>1
  <2>3. PICK w \in Nat : w = e * d
    BY <2>2
  <2>4. x = w + r
    BY <2>1, <2>3
  <2>5. r = 0
    BY <2>2
  <2>6. x = w
    BY <2>4, <2>5
  <2> QED
    BY <2>3, <2>6
<1>4. ASSUME NEW m \in Nat, e = 2 * m PROVE FALSE
  <2>1. \A a, b \in Nat : (2 * a) * b = a * (2 * b) + 0
    OBVIOUS
  <2>2. x = m * (2 * d) + 0
    BY <1>3, <1>4, <2>1
  <2>3. 0 \in 0 .. 2 * d - 1 /\ m \in Int /\ 2 * d \in Nat \ {0}
    BY <1>2
  <2>4. x % (2 * d) = 0
    BY <2>2, <2>3, DivModUnique
  <2> QED
    BY <1>1, <1>2, <2>4
<1>5. PICK o \in Nat, r \in {0, 1} : e = 2 * o + r
  BY Halves
<1>6. r = 1
  BY <1>4, <1>5
<1>7. x = d * (2 * o + 1)
  <2>1. \A a, b \in Nat : a * b = b * a
    OBVIOUS
  <2>2. e = 2 * o + 1
    BY <1>5, <1>6
  <2> QED
    BY <1>3, <2>1, <2>2
<1> QED
  BY <1>2, <1>7 DEF OddTimes

\* An even multiple of a power is a multiple of the next.
LEMMA EvenPart ==
  ASSUME NEW x \in Nat, NEW z \in Nat, EndsIn(x, z), NEW k \in Nat, k < z
  PROVE  EvenTimes(x, 2^k)
<1>1. PICK o \in Nat : x = 2^z * (2 * o + 1)
  BY OddPart DEF OddTimes
<1>2. z \in 0 .. MaxHeight /\ z \in Nat /\ k \in 0 .. MaxHeight /\ k + 1 \in 0 .. z
      /\ k + 1 \in 0 .. MaxHeight
  BY DEF EndsIn, MaxHeight
<1>3. PICK c \in Powers : c = 2^(k + 1)
  BY <1>2, PowersAre DEF IsPow2
<1>4. PICK d \in Powers : d = 2^z
  BY <1>2, PowersAre DEF IsPow2
<1>5. c <= d
  BY <1>2, <1>3, <1>4, PowersGrow
<1>6. PICK j \in Nat : d = c * j
  BY <1>5, PowersDivide
<1>7. PICK a \in Nat : a = 2^k /\ c = 2 * a
  BY <1>2, <1>3, Doubled
<1>8. \A u, v, w \in Nat : ((2 * u) * v) * w = u * (2 * (v * w)) /\ v * w \in Nat
  OBVIOUS
<1>9. 2 * o + 1 \in Nat
  OBVIOUS
<1>10. x = ((2 * a) * j) * (2 * o + 1)
  BY <1>1, <1>4, <1>6, <1>7
<1>11. ((2 * a) * j) * (2 * o + 1) = a * (2 * (j * (2 * o + 1))) /\ j * (2 * o + 1) \in Nat
  BY <1>8, <1>9
<1> QED
  BY <1>7, <1>10, <1>11 DEF EvenTimes

\* Two entries that meet in the middle of a subtree merge into it.
LEMMA MergeStep ==
  ASSUME NEW origin \in Nat,
         NEW s \in Powers, NEW X \in Nat, X <= MaxTotal, X > 0, EvenTimes(X, s),
         NEW hi \in Nat, hi + s = X, NEW lo \in Nat, NEW top, Entry(origin, lo, hi, top)
  PROVE  2 * s \in Powers /\ lo + 2 * s = X /\ Parent(top, Tree(origin, hi, s)) = Tree(origin, lo, 2 * s)
<1>1. PICK p \in Powers, q \in Nat : hi = lo + p /\ lo = p * (2 * q) /\ top = Tree(origin, lo, p)
  BY DEF Entry, EvenTimes
<1>2. s \in Nat \ {0} /\ p \in Nat \ {0} /\ MaxTotal \in Nat
  BY PowersAreNat, MaxTotalIsNat
<1>10. PICK e \in Nat : X = s * (2 * e)
  BY DEF EvenTimes
<1>3. e # 0
  BY <1>2, <1>10
<1>4. PICK f \in Nat : e = f + 1
  <2>1. e - 1 \in Nat /\ e = (e - 1) + 1
    BY <1>3
  <2> QED
    BY <2>1
<1>5. p * (2 * q + 1) = s * (2 * f + 1)
  <2>1. \A a, b \in Nat : a * (2 * b + 1) = a * (2 * b) + a /\ a * (2 * b) \in Nat
    OBVIOUS
  <2>2. p * (2 * q + 1) = hi
    BY <1>1, <1>2, <2>1
  <2>3. \A a, b \in Nat : a * (2 * (b + 1)) = a * (2 * b + 1) + a /\ a * (2 * b + 1) \in Nat
    OBVIOUS
  <2>4. s * (2 * e) = s * (2 * f + 1) + s /\ s * (2 * f + 1) \in Nat
    BY <1>2, <1>4, <2>3
  <2>5. hi = s * (2 * f + 1)
    BY <1>2, <1>10, <2>4
  <2> QED
    BY <2>2, <2>5
<1>6. p = s
  BY <1>5, LowestBit
<1>7. lo + 2 * s = X
  BY <1>1, <1>2, <1>6
<1>8. 2 * s \in Powers
  <2>1. s < MaxTotal
    BY <1>2, <1>7
  <2> QED
    BY <2>1, MaxTotalIsPower, PowersDouble
<1>9. Tree(origin, lo, 2 * s) = Parent(Tree(origin, lo, s), Tree(origin, lo + s, s))
  BY <1>8, TreeOfHalves
<1> QED
  BY <1>1, <1>6, <1>7, <1>8, <1>9, Zenon

\* The stack's top k entries collapse onto a chaining value, top first.
Collapse(f, st, cv, k) ==
  f = [i \in 0 .. k |-> IF i = 0 THEN cv ELSE Parent(st[Len(st) - i + 1], f[i - 1])]

\* The merges of push_cv() are a function of their number.
LEMMA CollapseExists ==
  ASSUME NEW st, NEW cv, NEW k \in Nat
  PROVE  \E f : Collapse(f, st, cv, k)
<1> DEFINE S == {m \in Nat : \E f : Collapse(f, st, cv, m)}
<1>1. 0 \in S
  <2> DEFINE f == [i \in 0 .. 0 |-> cv]
  <2>1. Collapse(f, st, cv, 0)
    BY DEF Collapse
  <2> QED
    BY <2>1
<1>2. ASSUME NEW m \in Nat, m \in S PROVE m + 1 \in S
  <2>1. PICK f : Collapse(f, st, cv, m)
    BY <1>2
  <2> DEFINE g == [i \in 0 .. m + 1 |->
                     IF i = m + 1 THEN Parent(st[Len(st) - (m + 1) + 1], f[m]) ELSE f[i]]
             e == [i \in 0 .. m + 1 |->
                     IF i = 0 THEN cv ELSE Parent(st[Len(st) - i + 1], g[i - 1])]
  <2>2. ASSUME NEW i \in 0 .. m + 1 PROVE g[i] = e[i]
    <3>1. CASE i = m + 1
      <4>1. i # 0 /\ i - 1 = m /\ m \in 0 .. m + 1 /\ m # m + 1
        BY <3>1
      <4>2. g[m] = f[m] /\ g[i] = Parent(st[Len(st) - i + 1], f[m])
        BY <3>1, <4>1
      <4>3. e[i] = Parent(st[Len(st) - i + 1], g[m])
        BY <4>1
      <4> HIDE DEF g, e
      <4> QED
        BY <4>2, <4>3
    <3>2. CASE i # m + 1
      <4>1. i \in 0 .. m /\ (i # 0 => i - 1 \in 0 .. m + 1 /\ i - 1 # m + 1)
        BY <3>2
      <4>2. g[i] = f[i] /\ (i # 0 => g[i - 1] = f[i - 1])
        BY <3>2, <4>1
      <4>3. f[i] = IF i = 0 THEN cv ELSE Parent(st[Len(st) - i + 1], f[i - 1])
        BY <2>1, <4>1 DEF Collapse
      <4>4. e[i] = IF i = 0 THEN cv ELSE Parent(st[Len(st) - i + 1], g[i - 1])
        OBVIOUS
      <4> HIDE DEF g, e
      <4> QED
        BY <4>2, <4>3, <4>4
    <3> QED
      BY <3>1, <3>2
  <2>3. g = e
    <3>1. g = [i \in 0 .. m + 1 |-> g[i]] /\ e = [i \in 0 .. m + 1 |-> e[i]]
      OBVIOUS
    <3> HIDE DEF g, e
    <3> QED
      BY <2>2, <3>1
  <2>4. Collapse(g, st, cv, m + 1)
    BY <2>3 DEF Collapse
  <2> QED
    BY <2>4
<1>3. Nat \subseteq S
  <2> HIDE DEF S
  <2> QED
    BY <1>1, <1>2, Induction
<1> QED
  BY <1>3

\* The merges of push_cv() are any such function's.
LEMMA CollapseAt ==
  ASSUME NEW f, NEW st, Len(st) \in Nat, NEW cv, NEW k \in Nat, Collapse(f, st, cv, k)
  PROVE  /\ f[0] = cv
         /\ \A i \in 0 .. k - 1 : f[i + 1] = Parent(st[Len(st) - i], f[i])
<1>1. f[0] = cv
  BY DEF Collapse
<1>2. ASSUME NEW i \in 0 .. k - 1
      PROVE  f[i + 1] = Parent(st[Len(st) - i], f[i])
  <2>1. i + 1 \in 0 .. k /\ i + 1 # 0 /\ (i + 1) - 1 = i /\ Len(st) - (i + 1) + 1 = Len(st) - i
    OBVIOUS
  <2>2. f[i + 1] = IF i + 1 = 0 THEN cv
                   ELSE Parent(st[Len(st) - (i + 1) + 1], f[(i + 1) - 1])
    BY <2>1 DEF Collapse
  <2> QED
    BY <2>1, <2>2
<1> QED
  BY <1>1, <1>2

\* A push of n chunks that end at chunk x * n collapses z entries onto cv.
PushedAs(h, cv, end, n) ==
  \E x, z \in Nat : \E f :
    /\ end = n * x /\ EndsIn(x, z)
    /\ z <= Len(h.stack) /\ Collapse(f, h.stack, cv, z)
    /\ PushCV(h, cv, end, n) = [h EXCEPT !.stack = Append(SubSeq(@, 1, Len(h.stack) - z), f[z])]

\* The entries from the m-th on merge into the subtree of the chunks up to end.
MergedAs(origin, from, end, cv) ==
  \E s \in Powers : from + s = end /\ OddTimes(end, s) /\ cv = Tree(origin, from, s)

\* push_cv() of an aligned subtree: so many entries collapse onto it.
LEMMA PushIs ==
  ASSUME NEW h, Sound(h), NEW cv, NEW n \in Powers, NEW c \in Nat, c = h.chunk.counter,
         c % n = 0, c + n <= MaxTotal
  PROVE  PushedAs(h, cv, c + n, n)
<1>2. n \in Nat \ {0}
  BY PowersAreNat
<1>3. PICK q \in Nat : c = q * n
  <2>1. PICK q \in Nat, r \in 0 .. n - 1 : c = q * n + r /\ r = c % n
    BY <1>2, DivMod
  <2>2. r = 0 /\ q * n \in Nat
    BY <1>2, <2>1
  <2>3. c = q * n
    BY <2>1, <2>2
  <2> QED
    BY <2>3
<1>4. c + n = (q + 1) * n + 0 /\ c = n * q /\ c + n = n * (q + 1)
  <2>1. \A a, b \in Nat : a * b + b = (a + 1) * b + 0 /\ a * b = b * a /\ a * b + b = b * (a + 1)
    OBVIOUS
  <2> QED
    BY <1>2, <1>3, <2>1
<1>5. (c + n) \div n = q + 1 /\ (c + n) % n = 0
  <2>1. c + n \in Nat /\ q + 1 \in Int /\ 0 \in 0 .. n - 1
    BY <1>2
  <2> QED
    BY <1>2, <1>4, <2>1, DivModUnique
<1>6. q + 1 \in 1 .. MaxTotal
  <2>1. \A a, b \in Nat \ {0} : a <= b * a
    OBVIOUS
  <2>2. q + 1 <= n * (q + 1)
    BY <1>2, <2>1
  <2> QED
    BY <1>2, <1>4, <2>2, MaxTotalIsNat
<1>7. PopCount(c) = PopCount(q)
  BY <1>4, ScaledOnes
<1> DEFINE z == TrailingZeros(q + 1)
           f == CHOOSE g : Collapse(g, h.stack, cv, z)
<1>8. z \in Nat /\ z <= PopCount(q)
  BY <1>6, Merges
<1>9. Len(h.stack) = PopCount(q)
  BY <1>7 DEF Sound, Carried
<1>10. IsPow2(n) /\ ~(z > Len(h.stack))
  <2>1. PopCount(q) \in Nat
    BY PopCounts
  <2> QED
    BY <1>8, <1>9, <2>1, PowersAre
<1>11. PushCV(h, cv, c + n, n) = [h EXCEPT !.stack = Append(SubSeq(@, 1, Len(h.stack) - z), f[z])]
  BY <1>5, <1>10, Zenon DEF PushCV, Collapse
<1>12. EndsIn(q + 1, z)
  <2>1. \E k : EndsIn(q + 1, k)
    BY <1>6, EndsSomewhere
  <2> QED
    BY <2>1 DEF TrailingZeros, EndsIn
<1>13. Collapse(f, h.stack, cv, z)
  BY <1>8, CollapseExists
<1> HIDE DEF z, f
<1>14. z <= Len(h.stack)
  BY <1>8, <1>9
<1>15. PICK x \in Nat : x = q + 1
  OBVIOUS
<1> QED
  BY <1>4, <1>8, <1>11, <1>12, <1>13, <1>14, <1>15 DEF PushedAs

\* Each merged entry is the subtree of the chunks up to the pushed one's end.
LEMMA CollapseMerges ==
  ASSUME NEW origin \in Nat,
         NEW st, Len(st) \in Nat, NEW b, NEW N \in Nat, Standing(origin, b, st, N),
         NEW n \in Powers, N + n <= MaxTotal,
         NEW x \in Nat, NEW z \in Nat, N + n = n * x, EndsIn(x, z), z <= Len(st),
         NEW f, Collapse(f, st, Tree(origin, N, n), z)
  PROVE  MergedAs(origin, b[Len(st) - z], N + n, f[z])
<1> DEFINE d == Len(st)
           X == N + n
           Good(k) == \E s \in Powers : /\ s = n * 2^k /\ b[d - k] + s = X
                                        /\ f[k] = Tree(origin, b[d - k], s)
           S == {k \in Nat : k <= z => Good(k)}
<1>1. n \in Nat \ {0} /\ X \in Nat \ {0} /\ MaxTotal \in Nat
  BY PowersAreNat, MaxTotalIsNat
<1>2. z \in 0 .. MaxHeight
  BY DEF EndsIn
<1>3. /\ f[0] = Tree(origin, N, n)
      /\ \A i \in 0 .. z - 1 : f[i + 1] = Parent(st[d - i], f[i])
  BY CollapseAt
<1>4. 0 \in S
  <2>1. n * 2^0 = n
    <3>1. 2^0 = 1
      BY Exponents
    <3> QED
      BY <1>1, <3>1
  <2>2. b[d - 0] = N
    BY DEF Standing
  <2>3. Good(0)
    BY <1>3, <2>1, <2>2
  <2> QED
    BY <2>3
<1>5. ASSUME NEW k \in Nat, k \in S PROVE k + 1 \in S
  <2> SUFFICES ASSUME k + 1 <= z PROVE Good(k + 1)
    OBVIOUS
  <2>1. PICK s \in Powers : s = n * 2^k /\ b[d - k] + s = X /\ f[k] = Tree(origin, b[d - k], s)
    BY <1>5
  <2> HIDE DEF Good, S
  <2>2. k \in 0 .. z - 1 /\ k < z /\ k \in 0 .. MaxHeight
    BY <1>2 DEF MaxHeight
  <2>3. PICK e \in Nat : x = 2^k * (2 * e)
    <3>1. EvenTimes(x, 2^k)
      BY <2>2, EvenPart
    <3> QED
      BY <3>1 DEF EvenTimes
  <2>4. PICK a \in Nat \ {0} : a = 2^k /\ 2^(k + 1) = 2 * a
    BY <2>2, Doubled
  <2>5. X = s * (2 * e)
    <3>1. \A u, v, w \in Nat : u * (v * w) = (u * v) * w
      OBVIOUS
    <3>2. n * (a * (2 * e)) = (n * a) * (2 * e)
      BY <1>1, <3>1
    <3> QED
      BY <2>1, <2>3, <2>4, <3>2
  <2>6. n * 2^(k + 1) = 2 * s
    <3>1. \A u, v \in Nat : u * (2 * v) = 2 * (u * v)
      OBVIOUS
    <3>2. n * (2 * a) = 2 * (n * a)
      BY <1>1, <3>1
    <3> QED
      BY <2>1, <2>4, <3>2
  <2>7. PICK j \in 1 .. d : j = d - k /\ j - 1 = d - (k + 1)
    <3>1. d - k \in 1 .. d /\ (d - k) - 1 = d - (k + 1)
      BY <2>2
    <3> QED
      BY <3>1
  <2>8. b[j] \in Nat /\ b[j - 1] \in Nat /\ Entry(origin, b[j - 1], b[j], st[j])
    BY <2>7 DEF Standing
  <2>9. f[k + 1] = Parent(st[j], f[k])
    BY <1>3, <2>2, <2>7
  <2>10. b[j] + s = X /\ f[k] = Tree(origin, b[j], s)
    BY <2>1, <2>7
  <2>11. PICK lo \in Nat, hi \in Nat :
           lo = b[j - 1] /\ hi = b[j] /\ Entry(origin, lo, hi, st[j]) /\ hi + s = X
    BY <2>8, <2>10
  <2>12. 2 * s \in Powers /\ lo + 2 * s = X /\ Parent(st[j], Tree(origin, hi, s)) = Tree(origin, lo, 2 * s)
    <3>0. EvenTimes(X, s)
      BY <2>5 DEF EvenTimes
    <3>1. PICK y \in Nat : y = X /\ y <= MaxTotal /\ y > 0 /\ EvenTimes(y, s) /\ hi + s = y
      <4>1. X \in Nat /\ X <= MaxTotal /\ X > 0 /\ hi + s = X
        BY <1>1, <2>11
      <4> HIDE DEF X
      <4> QED
        BY <3>0, <4>1
    <3>2. 2 * s \in Powers /\ lo + 2 * s = y /\ Parent(st[j], Tree(origin, hi, s)) = Tree(origin, lo, 2 * s)
      <4> HIDE DEF X, d
      <4> QED
        BY <2>11, <3>1, MergeStep
    <3> QED
      BY <3>1, <3>2
  <2>13. b[d - (k + 1)] = lo
    BY <2>7, <2>11
  <2>14. f[k + 1] = Tree(origin, lo, 2 * s)
    BY <2>9, <2>10, <2>11, <2>12, Zenon
  <2> QED
    BY <2>6, <2>12, <2>13, <2>14 DEF Good
<1>6. z \in S
  <2> HIDE DEF S
  <2> QED
    BY <1>4, <1>5, Induction
<1>7. PICK s \in Powers : s = n * 2^z /\ b[d - z] + s = X /\ f[z] = Tree(origin, b[d - z], s)
  BY <1>6
<1>8. PICK o \in Nat : x = 2^z * (2 * o + 1)
  <2>1. OddTimes(x, 2^z)
    BY OddPart
  <2> QED
    BY <2>1 DEF OddTimes
<1>9. X = s * (2 * o + 1)
  <2>1. \A u, v, w \in Nat : u * (v * w) = (u * v) * w
    OBVIOUS
  <2>2. PICK a \in Nat \ {0} : a = 2^z
    BY <1>2, Doubled
  <2>3. n * (a * (2 * o + 1)) = (n * a) * (2 * o + 1)
    BY <1>1, <2>1
  <2> QED
    BY <1>7, <1>8, <2>2, <2>3
<1>10. OddTimes(X, s)
  BY <1>9 DEF OddTimes
<1> QED
  BY <1>7, <1>10 DEF MergedAs

\* What collapses onto a subtree that follows the stack's stands on the rest of
\* the stack.
LEMMA StackGrows ==
  ASSUME NEW origin \in Nat, NEW T, NEW st \in Seq(T), NEW N \in Nat, StackTrue(origin, st, N),
         NEW n \in Powers, N + n <= MaxTotal,
         NEW x \in Nat, NEW z \in Nat, N + n = n * x, EndsIn(x, z), z <= Len(st),
         NEW f, Collapse(f, st, Tree(origin, N, n), z)
  PROVE  StackTrue(origin, Append(SubSeq(st, 1, Len(st) - z), f[z]), N + n)
<1> DEFINE d == Len(st)
<1>3. d \in Nat /\ d - z \in Nat /\ d - z <= d
  OBVIOUS
<1>4. PICK b : Standing(origin, b, st, N)
  BY DEF StackTrue
<1>5. PICK s \in Powers : /\ b[d - z] + s = N + n
                          /\ OddTimes(N + n, s)
                          /\ f[z] = Tree(origin, b[d - z], s)
  <2>1. MergedAs(origin, b[Len(st) - z], N + n, f[z])
    BY <1>3, <1>4, CollapseMerges
  <2> QED
    BY <2>1 DEF MergedAs
<1> DEFINE m == d - z
           new == Append(SubSeq(st, 1, m), f[z])
           X == N + n
<1>7. m \in Nat /\ m \in 0 .. d /\ X \in Nat
  BY <1>3, PowersAreNat
<1>8. Len(new) = m + 1 /\ new[m + 1] = f[z] /\ \A j \in 1 .. m : new[j] = st[j]
  <2>1. SubSeq(st, 1, m) \in Seq(T) /\ Len(SubSeq(st, 1, m)) = m
    BY <1>7
  <2>2. \A j \in 1 .. m : SubSeq(st, 1, m)[j] = st[j]
    BY <1>7
  <2> QED
    BY <1>7, <2>1, <2>2
<1>9. Entry(origin, b[m], X, f[z])
  <2>1. b[m] \in Nat
    BY <1>4, <1>7 DEF Standing
  <2>2. PICK o \in Nat : X = s * (2 * o + 1)
    BY <1>5 DEF OddTimes
  <2>3. s * (2 * o + 1) = s * (2 * o) + s /\ s * (2 * o) \in Nat /\ s \in Nat
    <3>1. \A u, v \in Nat : u * (2 * v + 1) = u * (2 * v) + u /\ u * (2 * v) \in Nat
      OBVIOUS
    <3> QED
      BY <3>1, PowersAreNat
  <2>4. b[m] = s * (2 * o)
    <3>1. PICK y \in Nat, w \in Nat, v \in Nat : y = b[m] /\ w = s * (2 * o) /\ v = s
      BY <2>1, <2>3
    <3>2. y + v = w + v
      BY <1>5, <2>2, <2>3, <3>1
    <3>3. y = w
      BY <3>2
    <3> QED
      BY <3>1, <3>3
  <2>5. X = b[m] + s /\ f[z] = Tree(origin, b[m], s)
    BY <1>5
  <2> HIDE DEF m, X
  <2> QED
    BY <2>4, <2>5 DEF Entry, EvenTimes
<1> HIDE DEF m, new, X
<1> DEFINE g == [j \in 0 .. m + 1 |-> IF j = m + 1 THEN X ELSE b[j]]
<1>10. g[m + 1] = X /\ \A j \in 0 .. m : g[j] = b[j]
  BY <1>7
<1> HIDE DEF g
<1>11. g[0] = 0 /\ \A j \in 0 .. m + 1 : g[j] \in Nat
  <2>1. \A j \in 0 .. m : g[j] = b[j] /\ b[j] \in Nat
    BY <1>4, <1>7, <1>10 DEF Standing
  <2>2. g[0] = 0
    BY <1>4, <1>7, <1>10 DEF Standing
  <2>3. \A j \in 0 .. m + 1 : j \in 0 .. m \/ j = m + 1
    BY <1>7
  <2> QED
    BY <1>7, <1>10, <2>1, <2>2, <2>3
<1>12. ASSUME NEW j \in 1 .. m + 1 PROVE Entry(origin, g[j - 1], g[j], new[j])
  <2>1. CASE j = m + 1
    <3>1. g[j - 1] = b[m] /\ g[j] = X /\ new[j] = f[z]
      BY <1>7, <1>8, <1>10, <2>1
    <3> QED
      BY <1>9, <3>1
  <2>2. CASE j # m + 1
    <3>1. j \in 1 .. m /\ j - 1 \in 0 .. m /\ j \in 0 .. m /\ j \in 1 .. d
      BY <1>7, <2>2
    <3>2. g[j - 1] = b[j - 1] /\ g[j] = b[j] /\ new[j] = st[j]
      BY <1>8, <1>10, <3>1
    <3>3. Entry(origin, b[j - 1], b[j], st[j])
      BY <1>4, <3>1 DEF Standing
    <3> QED
      BY <3>2, <3>3
  <2> QED
    BY <2>1, <2>2
<1>13. Standing(origin, g, new, X)
  BY <1>8, <1>10, <1>11, <1>12 DEF Standing
<1>14. StackTrue(origin, new, X)
  BY <1>13 DEF StackTrue
<1> QED
  BY <1>14 DEF new, m, X

\* push_cv() keeps the stack the message's.
LEMMA PushTrue ==
  ASSUME NEW h, Sound(h), NEW n \in Powers, NEW N \in Nat, N = h.chunk.counter,
         StackTrue(0, h.stack, N), N % n = 0, N + n <= MaxTotal
  PROVE  StackTrue(0, PushCV(h, Tree(0, N, n), N + n, n).stack, N + n)
<1> DEFINE cv == Tree(0, N, n)
           st == h.stack
           d == Len(st)
           p == PushCV(h, cv, N + n, n)
<1> HIDE DEF cv
<1>0. PICK x \in Nat, z \in Nat : \E f :
        /\ N + n = n * x /\ EndsIn(x, z) /\ z <= d
        /\ Collapse(f, st, cv, z)
        /\ p = [h EXCEPT !.stack = Append(SubSeq(@, 1, d - z), f[z])]
  <2>1. N \in Nat
    OBVIOUS
  <2>2. PushedAs(h, cv, N + n, n)
    BY PushIs
  <2> QED
    BY <2>2 DEF PushedAs
<1> HIDE DEF p
<1>1. PICK f :
        /\ N + n = n * x /\ EndsIn(x, z) /\ z <= d
        /\ Collapse(f, st, cv, z)
        /\ p = [h EXCEPT !.stack = Append(SubSeq(@, 1, d - z), f[z])]
  BY <1>0
<1>2. PICK T : st \in Seq(T)
  BY DEF Sound, Carried
<1>3. p.stack = Append(SubSeq(st, 1, Len(st) - z), f[z])
  BY <1>1 DEF Sound, IsHasher
<1>4. StackTrue(0, Append(SubSeq(st, 1, Len(st) - z), f[z]), N + n)
  <2>1. Collapse(f, st, Tree(0, N, n), z) /\ 0 \in Nat
    BY <1>1 DEF cv
  <2>2. N + n = n * x /\ EndsIn(x, z) /\ z <= Len(st) /\ StackTrue(0, st, N)
    BY <1>1
  <2>3. PICK q \in Seq(T) : q = st
    BY <1>2
  <2> HIDE DEF st, d
  <2> QED
    BY <2>1, <2>2, <2>3, StackGrows
<1> QED
  BY <1>3, <1>4 DEF p, cv

-----------------------------------------------------------------------------
(* finalize_xof() gives the root *)

\* Only lesser powers divide x evenly when p divides it oddly.
LEMMA OddAboveEven ==
  ASSUME NEW x \in Nat, NEW p \in Powers, NEW q \in Powers, EvenTimes(x, p), OddTimes(x, q)
  PROVE  2 * p <= q
<1>1. p \in Nat \ {0} /\ q \in Nat \ {0}
  BY PowersAreNat
<1>2. PICK e \in Nat : x = p * (2 * e)
  BY DEF EvenTimes
<1>3. PICK o \in Nat : x = q * (2 * o + 1)
  BY DEF OddTimes
<1>4. ASSUME q <= p PROVE FALSE
  <2>1. PICK k \in Nat : p = q * k
    BY <1>4, PowersDivide
  <2>2. \A a, b, c \in Nat : (a * b) * (2 * c) = a * (2 * (b * c)) /\ b * c \in Nat
    OBVIOUS
  <2>3. (q * k) * (2 * e) = q * (2 * (k * e)) /\ k * e \in Nat
    BY <1>1, <2>2
  <2>4. PICK w \in Nat : w = k * e
    BY <2>3
  <2>5. q * (2 * w) = q * (2 * o + 1)
    BY <1>2, <1>3, <2>1, <2>3, <2>4
  <2>6. \A a \in Nat \ {0} : \A b, c \in Nat : a * b = a * c => b = c
    OBVIOUS
  <2>7. 2 * w \in Nat /\ 2 * o + 1 \in Nat /\ 2 * w # 2 * o + 1
    OBVIOUS
  <2> QED
    BY <1>1, <2>5, <2>6, <2>7
<1>5. p < q
  BY <1>1, <1>4
<1> QED
  BY <1>5, PowersDouble

\* What is left of N chunks after x of them is less than x's lowest one bit.
Slack(x, N) == \A p \in Powers : OddTimes(x, p) => N - x < p

\* The open chunk holds the last of the message's chunks.
LEMMA LastChunk ==
  ASSUME NEW N \in Nat, NEW fill \in 0 .. ChunkLen, fill > 0 \/ N = 0
  PROVE  Chunks(N * ChunkLen + fill) = N + 1
<1>1. ChunkLen \in Nat \ {0} /\ N * ChunkLen \in Nat
  <2>1. \A a, b \in Nat : a * b \in Nat
    OBVIOUS
  <2> QED
    BY <2>1, LensArePositive
<1>2. PICK n \in Nat : n = N * ChunkLen + fill
  BY <1>1
<1>3. CASE n = 0
  <2>1. fill = 0 /\ N = 0
    BY <1>1, <1>2, <1>3
  <2> QED
    BY <1>2, <1>3, <2>1 DEF Chunks
<1>4. CASE n # 0
  <2>1. fill > 0
    <3>1. ASSUME N = 0 PROVE N * ChunkLen = 0
      BY <1>1, <3>1
    <3> QED
      BY <1>1, <1>2, <1>4, <3>1
  <2>2. fill - 1 \in 0 .. ChunkLen - 1 /\ N + 1 \in Int /\ n + ChunkLen - 1 \in Nat
    BY <1>1, <1>2, <2>1
  <2>3. (N + 1) * ChunkLen = N * ChunkLen + ChunkLen
    <3>1. \A a, b \in Nat : (a + 1) * b = a * b + b
      OBVIOUS
    <3> QED
      BY <1>1, <3>1
  <2>4. n + ChunkLen - 1 = (N + 1) * ChunkLen + (fill - 1)
    BY <1>1, <1>2, <2>3
  <2>5. (n + ChunkLen - 1) \div ChunkLen = N + 1
    BY <1>1, <2>2, <2>4, DivModUnique
  <2> QED
    BY <1>2, <1>4, <2>5 DEF Chunks
<1> QED
  BY <1>3, <1>4

\* An entry joins what stands after it to the node that covers both.
LEMMA RootStep ==
  ASSUME NEW n \in Nat, NEW N \in Nat, N * ChunkLen <= n, Chunks(n) = N + 1,
         NEW t, Roots(t, n, Chunks(n)),
         NEW lo \in Nat, NEW hi \in Nat, hi <= N, Slack(hi, N),
         NEW cv, Entry(0, lo, hi, cv)
  PROVE  /\ Parent(cv, t[N + 1 - hi][hi]) = t[N + 1 - lo][lo]
         /\ lo <= N /\ Slack(lo, N)
<1>1. PICK p \in Powers : hi = lo + p /\ EvenTimes(lo, p) /\ cv = Tree(0, lo, p)
  BY DEF Entry
<1>2. p \in Nat \ {0}
  BY PowersAreNat
<1>3. OddTimes(hi, p)
  <2>1. PICK q \in Nat : lo = p * (2 * q)
    BY <1>1 DEF EvenTimes
  <2>2. \A a, b \in Nat : a * (2 * b) + a = a * (2 * b + 1)
    OBVIOUS
  <2>3. p * (2 * q) + p = p * (2 * q + 1)
    BY <1>2, <2>2
  <2>4. hi = p * (2 * q + 1)
    BY <1>1, <2>1, <2>3
  <2> QED
    BY <2>4 DEF OddTimes
<1>4. N - hi < p
  BY <1>3 DEF Slack
<1>5. PICK size \in Nat : size = N + 1 - lo
  BY <1>1, <1>2
<1>6. /\ size \in 1 .. Chunks(n) /\ lo \in 0 .. Chunks(n) - size /\ size # 1
      /\ size - 1 = p + (N - hi) /\ N - hi \in Nat
      /\ size - p = N + 1 - hi /\ lo + p = hi /\ lo + p <= N
  BY <1>1, <1>2, <1>5
<1>7. p = BitFloor(size - 1)
  BY <1>4, <1>6, BitFloorIs
<1>8. t[size][lo] = Parent(t[p][lo], t[size - p][lo + p])
  BY <1>6, <1>7, RootAt
<1>9. t[p][lo] = Tree(0, lo, p)
  <2>1. N <= Chunks(n) /\ Chunks(n) \in Nat
    OBVIOUS
  <2>2. \A q \in Powers : \A l \in Nat : l + q <= N => t[q][l] = Tree(0, l, q)
    BY <2>1, CompleteNodes
  <2> QED
    BY <1>6, <2>2
<1>10. Parent(cv, t[N + 1 - hi][hi]) = t[N + 1 - lo][lo]
  BY <1>1, <1>5, <1>6, <1>8, <1>9, Zenon
<1>11. ASSUME NEW q \in Powers, OddTimes(lo, q) PROVE N - lo < q
  <2>1. 2 * p <= q
    BY <1>1, <1>11, OddAboveEven
  <2>2. q \in Nat
    BY PowersAreNat
  <2> QED
    BY <1>1, <1>2, <1>4, <2>1, <2>2
<1>12. lo <= N
  BY <1>1, <1>2
<1> QED
  BY <1>10, <1>11, <1>12 DEF Slack

\* finalize_xof() of a hasher that holds the message's prefix gives the reference's root.
LEMMA FinalIsRoot ==
  ASSUME NEW h, Sound(h), ChunkTrue(h.chunk), StackTrue(0, h.stack, h.chunk.counter),
         Count(h) <= Limit, ChunkFill(h.chunk) > 0 \/ Count(h) = 0
  PROVE  FinalizeXof(h) = RootNode(Count(h))
<1> DEFINE c == h.chunk
           st == h.stack
           d == Len(st)
<1>1. PICK N \in Nat : N = h.chunk.counter
  BY DEF Sound, IsHasher, IsChunk
<1>2. PICK fill \in Nat : fill = ChunkFill(h.chunk) /\ fill <= ChunkLen
  BY FillIsNat DEF Sound, IsHasher, IsChunk
<1>3. ChunkLen \in Nat \ {0} /\ N * ChunkLen \in Nat
  <2>1. \A a, b \in Nat : a * b \in Nat
    OBVIOUS
  <2> QED
    BY <2>1, LensArePositive
<1>4. PICK n \in Nat : n = Count(h) /\ n = N * ChunkLen + fill
  BY <1>1, <1>2, <1>3 DEF Count
<1>5. fill > 0 \/ N = 0
  <2>1. ASSUME N # 0 PROVE N * ChunkLen > 0
    <3>1. \A a, b \in Nat \ {0} : a * b > 0
      OBVIOUS
    <3> QED
      BY <1>3, <2>1, <3>1
  <2> QED
    BY <1>2, <1>3, <1>4, <2>1
<1>6. Chunks(n) = N + 1
  <2>1. fill \in 0 .. ChunkLen
    BY <1>2, <1>3
  <2> QED
    BY <1>4, <1>5, <2>1, LastChunk
<1>7. N <= MaxTotal /\ MaxTotal \in Nat /\ N * ChunkLen <= n
  <2>1. N * ChunkLen <= Limit
    BY <1>2, <1>3, <1>4, LimitIsNat
  <2> QED
    BY <1>2, <1>3, <1>4, <2>1, WithinLimit, MaxTotalIsNat
<1>8. PICK R : Roots(R, n, Chunks(n)) /\ RootNode(n) = Root(R[Chunks(n)][0])
  <2>1. Chunks(n) \in Nat /\ Chunks(n) <= MaxTotal + 1
    BY <1>6, <1>7
  <2> QED
    BY <2>1, RootIs
<1>9. d \in Nat
  BY DEF Sound, Carried
<1> DEFINE f == CHOOSE g : Collapse(g, st, ChunkOutput(c), d)
<1>10. Collapse(f, st, ChunkOutput(c), d)
  BY <1>9, CollapseExists
<1>11. FinalizeXof(h) = Root(f[d])
  BY Zenon DEF FinalizeXof, Collapse
<1> HIDE DEF f
<1>12. PICK b : Standing(0, b, st, N)
  BY <1>1 DEF StackTrue
<1>13. /\ f[0] = ChunkOutput(c)
       /\ \A i \in 0 .. d - 1 : f[i + 1] = Parent(st[d - i], f[i])
  BY <1>9, <1>10, CollapseAt
<1> DEFINE Good(i) == /\ f[i] = R[N + 1 - b[d - i]][b[d - i]]
                      /\ b[d - i] <= N /\ Slack(b[d - i], N)
           S == {i \in Nat : i <= d => Good(i)}
<1>14. 0 \in S
  <2>1. b[d - 0] = N
    BY <1>9, <1>12 DEF Standing
  <2>2. Slack(N, N)
    <3>1. ASSUME NEW p \in Powers PROVE N - N < p
      BY PowersAreNat
    <3> QED
      BY <3>1 DEF Slack
  <2>3. R[1][N] = ChunkCV(N * ChunkLen, Lesser(ChunkLen, n - N * ChunkLen), N)
    <3>1. 1 \in 1 .. Chunks(n) /\ N \in 0 .. Chunks(n) - 1
      BY <1>6
    <3> QED
      BY <1>8, <3>1, RootAt
  <2>4. n - N * ChunkLen = fill
    BY <1>3, <1>4
  <2>5. Lesser(ChunkLen, fill) = fill
    BY <1>2, <1>3 DEF Lesser
  <2>6. ChunkOutput(c) = ChunkCV(N * ChunkLen, fill, N)
    BY <1>1, <1>2, OutputTrue DEF Sound, IsHasher
  <2>7. f[0] = R[1][N]
    BY <1>13, <2>3, <2>4, <2>5, <2>6
  <2>8. N + 1 - N = 1
    OBVIOUS
  <2>9. Good(0)
    BY <2>1, <2>2, <2>7, <2>8
  <2> QED
    BY <2>9
<1>15. ASSUME NEW i \in Nat, i \in S PROVE i + 1 \in S
  <2> SUFFICES ASSUME i + 1 <= d PROVE Good(i + 1)
    OBVIOUS
  <2>1. Good(i)
    BY <1>9, <1>15
  <2>2. PICK j \in 1 .. d : j = d - i /\ j - 1 = d - (i + 1)
    <3>1. d - i \in 1 .. d /\ (d - i) - 1 = d - (i + 1)
      BY <1>9
    <3> QED
      BY <3>1
  <2>3. f[i + 1] = Parent(st[j], f[i])
    <3>1. i \in 0 .. d - 1
      BY <1>9
    <3> QED
      BY <1>13, <2>2, <3>1
  <2>4. PICK lo \in Nat, hi \in Nat :
          lo = b[j - 1] /\ hi = b[j] /\ Entry(0, lo, hi, st[j])
    <3>1. j \in 0 .. d /\ j - 1 \in 0 .. d
      BY <1>9, <2>2
    <3> QED
      BY <1>12, <2>2, <3>1 DEF Standing
  <2>5. f[i] = R[N + 1 - hi][hi] /\ hi <= N /\ Slack(hi, N)
    BY <2>1, <2>2, <2>4
  <2>6. /\ Parent(st[j], R[N + 1 - hi][hi]) = R[N + 1 - lo][lo]
        /\ lo <= N /\ Slack(lo, N)
    <3>1. N * ChunkLen <= n /\ Chunks(n) = N + 1 /\ Roots(R, n, Chunks(n))
      BY <1>6, <1>7, <1>8
    <3>2. Entry(0, lo, hi, st[j]) /\ hi <= N /\ Slack(hi, N)
      BY <2>4, <2>5
    <3> HIDE DEF st, d, S, f
    <3> QED
      BY <3>1, <3>2, RootStep
  <2>7. b[d - (i + 1)] = lo
    BY <2>2, <2>4
  <2> HIDE DEF f, S, d, st
  <2>8. f[i + 1] = R[N + 1 - lo][lo]
    BY <2>3, <2>5, <2>6, Zenon
  <2> QED
    BY <2>6, <2>7, <2>8
<1>16. d \in S
  <2> HIDE DEF S
  <2> QED
    BY <1>9, <1>14, <1>15, Induction
<1>17. b[d - d] = 0
  <2>1. d - d = 0
    BY <1>9
  <2> QED
    BY <1>12, <2>1 DEF Standing
<1>18. f[d] = R[N + 1][0]
  <2>1. N + 1 - 0 = N + 1
    OBVIOUS
  <2> QED
    BY <1>9, <1>16, <1>17, <2>1
<1> QED
  BY <1>4, <1>6, <1>8, <1>11, <1>18

-----------------------------------------------------------------------------
(* The hasher holds the message *)

\* The open chunk and the stack are those of the first Count(h) units.
TrueHasher(h) == Sound(h) /\ ChunkTrue(h.chunk) /\ StackTrue(0, h.stack, h.chunk.counter)

\* Nothing was pushed yet.
LEMMA EmptyStackTrue == \A origin : StackTrue(origin, << >>, 0)
<1> SUFFICES ASSUME NEW origin PROVE StackTrue(origin, << >>, 0)
  OBVIOUS
<1> DEFINE b == [j \in 0 .. 0 |-> 0]
<1>1. b[0] = 0 /\ Len(<< >>) = 0
  OBVIOUS
<1> HIDE DEF b
<1>2. \A j \in 0 .. 0 : b[j] \in Nat
  BY <1>1
<1>3. \A j \in 1 .. 0 : FALSE
  OBVIOUS
<1>4. Standing(origin, b, << >>, 0)
  BY <1>1, <1>2, <1>3 DEF Standing
<1> QED
  BY <1>4 DEF StackTrue

\* A new hasher holds the empty message.
LEMMA NewIsTrue == TrueHasher(NewHasher)
<1>1. NewHasher.chunk = ChunkInit(0) /\ NewHasher.stack = << >> /\ ChunkInit(0).counter = 0
  BY DEF NewHasher, ChunkInit
<1>2. ChunkTrue(ChunkInit(0))
  BY NewChunkTrue
<1> QED
  BY <1>1, <1>2, NewIsSound, EmptyStackTrue DEF TrueHasher

\* reset() leaves a hasher of the empty message.
LEMMA ResetIsTrue ==
  ASSUME NEW h, Sound(h)
  PROVE  TrueHasher(Reset(h))
<1> DEFINE c == ChunkInit(0)
           g == [h EXCEPT !.chunk = c]
<1>1. IsHasher(h)
  BY DEF Sound
<1>2. g.chunk = c /\ g = [chunk |-> g.chunk, stack |-> g.stack, failed |-> g.failed]
  <2> HIDE DEF c
  <2> QED
    BY <1>1 DEF IsHasher
<1>3. Reset(h) = [g EXCEPT !.stack = << >>]
  BY DEF Reset, c
<1> HIDE DEF g
<1>4. Reset(h).stack = << >> /\ Reset(h).chunk = c
  BY <1>2, <1>3
<1>5. c.counter = 0
  BY DEF ChunkInit
<1>6. ChunkTrue(c)
  BY NewChunkTrue
<1> HIDE DEF c
<1> QED
  BY <1>4, <1>5, <1>6, ResetIsSound, EmptyStackTrue DEF TrueHasher

\* A chunk that is closed is the subtree of one chunk.
LEMMA CloseTrue ==
  ASSUME NEW h, TrueHasher(h), Count(h) <= Limit
  PROVE  TrueHasher(CloseFullChunk(h))
<1> DEFINE g == CloseFullChunk(h)
           p == PushCV(h, ChunkOutput(h.chunk), h.chunk.counter + 1, 1)
           d == ChunkInit(h.chunk.counter + 1)
<1>1. Sound(h) /\ IsHasher(h) /\ h.chunk.counter \in Nat /\ ChunkTrue(h.chunk) /\ IsChunk(h.chunk)
  BY DEF TrueHasher, Sound, IsHasher, IsChunk
<1>2. CASE ChunkFill(h.chunk) # ChunkLen
  BY <1>2 DEF CloseFullChunk
<1>3. CASE ChunkFill(h.chunk) = ChunkLen
  <2>1. (h.chunk.counter + 1) * ChunkLen <= Limit
    <3>1. \A a, b \in Nat : (a + 1) * b = a * b + b
      OBVIOUS
    <3> QED
      BY <1>1, <1>3, <3>1, LensArePositive DEF Count
  <2>2. PICK N \in Nat : N = h.chunk.counter /\ N + 1 <= MaxTotal
    BY <1>1, <2>1, WithinLimit
  <2>3. 1 \in Powers /\ N % 1 = 0
    BY DEF Powers
  <2>4. ChunkOutput(h.chunk) = Tree(0, N, 1)
    <3>1. ChunkOutput(h.chunk) = ChunkCV(N * ChunkLen, ChunkLen, N)
      BY <1>1, <1>3, <2>2, OutputTrue
    <3> QED
      BY <3>1, TreeOfOne
  <2>5. p = PushCV(h, Tree(0, N, 1), N + 1, 1)
    BY <2>2, <2>4
  <2>6. StackTrue(0, PushCV(h, Tree(0, N, 1), N + 1, 1).stack, N + 1)
    <3>1. StackTrue(0, h.stack, N)
      BY <2>2 DEF TrueHasher
    <3> QED
      BY <1>1, <2>2, <2>3, <3>1, PushTrue
  <2>7. g = [p EXCEPT !.chunk = d]
    BY <1>3 DEF CloseFullChunk
  <2>8. IsHasher(p)
    BY <1>1, PushKeepsChunk
  <2>9. Sound(g)
    BY <1>1, CloseSound
  <2>10. ChunkTrue(d) /\ d.counter = N + 1
    BY <2>2, NewChunk, NewChunkTrue
  <2> HIDE DEF p, d
  <2>11. g.stack = p.stack /\ g.chunk = d
    BY <2>7, <2>8 DEF IsHasher
  <2> HIDE DEF g
  <2>12. StackTrue(0, g.stack, N + 1)
    BY <2>5, <2>6, <2>11
  <2>13. TrueHasher(g)
    BY <2>9, <2>10, <2>11, <2>12 DEF TrueHasher
  <2> QED
    BY <2>13 DEF g
<1> QED
  BY <1>2, <1>3

\* An open chunk with nothing in it may be any chunk.
LEMMA EmptyChunkTrue ==
  ASSUME NEW c, IsChunk(c), ChunkTrue(c), ChunkFill(c) = 0, NEW N
  PROVE  ChunkTrue([c EXCEPT !.counter = N])
<1> DEFINE d == [c EXCEPT !.counter = N]
<1>1. d.counter = N /\ d.block = c.block /\ d.cv = c.cv /\ d.compressed = c.compressed
  BY DEF IsChunk
<1>2. c.compressed = 0 /\ Len(c.block) = 0
  <2>1. PICK a \in Nat, l \in Nat : a = c.compressed /\ l = Len(c.block)
    BY DEF IsChunk
  <2>2. BlockLen * a + l = 0
    BY <2>1 DEF ChunkFill
  <2>3. \A x \in Nat \ {0} : \A y, z \in Nat : x * y + z = 0 => y = 0 /\ z = 0
    OBVIOUS
  <2>4. a = 0 /\ l = 0
    BY <2>2, <2>3, LensArePositive
  <2> QED
    BY <2>1, <2>4
<1>3. c.block = Units(N, 0, 0)
  <2>1. c.block = Units(c.counter, 0, 0)
    BY <1>2 DEF ChunkTrue
  <2>2. Units(c.counter, 0, 0) = Units(N, 0, 0)
    <3>1. \A i \in 1 .. 0 : FALSE
      OBVIOUS
    <3> QED
      BY <3>1 DEF Units
  <2> QED
    BY <2>1, <2>2
<1>4. c.cv = Key
  <2>1. Chained(c.cv, c.counter, 0)
    BY <1>2 DEF ChunkTrue
  <2> QED
    BY <2>1 DEF Chained, Chain
<1>5. Chained(Key, N, 0)
  BY ChainStarts
<1> HIDE DEF d
<1>6. ChunkTrue(d)
  BY <1>1, <1>2, <1>3, <1>4, <1>5 DEF ChunkTrue
<1> QED
  BY <1>6 DEF d

\* A subtree of the message that follows the hasher's units is absorbed.
LEMMA AbsorbTrue ==
  ASSUME NEW h, TrueHasher(h), ChunkFill(h.chunk) = 0, NEW n \in Powers,
         NEW N \in Nat, N = h.chunk.counter, N % n = 0, N + n <= MaxTotal
  PROVE  TrueHasher(Absorb(h, Tree(0, N, n), N + n, n))
<1> DEFINE p == PushCV(h, Tree(0, N, n), N + n, n)
           g == Absorb(h, Tree(0, N, n), N + n, n)
           d == [h.chunk EXCEPT !.counter = N + n]
<1>1. Sound(h) /\ IsHasher(h) /\ ChunkTrue(h.chunk) /\ IsChunk(h.chunk) /\ StackTrue(0, h.stack, N)
  BY DEF TrueHasher, Sound, IsHasher
<1>2. n \in Nat \ {0}
  BY PowersAreNat
<1>3. StackTrue(0, p.stack, N + n)
  BY <1>1, PushTrue
<1>4. Sound(g)
  BY <1>1, AbsorbSound
<1>5. IsHasher(p) /\ p.chunk = h.chunk
  BY <1>1, PushKeepsChunk
<1>6. g = [p EXCEPT !.chunk.counter = @ + n]
  BY DEF Absorb
<1> HIDE DEF p
<1>7. g.stack = p.stack /\ g.chunk = [p.chunk EXCEPT !.counter = @ + n]
  BY <1>5, <1>6 DEF IsHasher
<1>8. g.chunk = d
  BY <1>5, <1>7
<1>9. ChunkTrue(d) /\ d.counter = N + n
  <2>1. d.counter = N + n
    BY <1>1 DEF IsChunk
  <2> QED
    BY <1>1, <2>1, EmptyChunkTrue
<1> HIDE DEF g, d
<1>10. TrueHasher(g)
  BY <1>3, <1>4, <1>7, <1>8, <1>9 DEF TrueHasher
<1> QED
  BY <1>10 DEF g

\* A turn of update() over the units that follow.
LEMMA TurnTrue ==
  ASSUME NEW st, IsTurn(st), TrueHasher(st.h), st.at = Count(st.h), Count(st.h) + st.left <= Limit
  PROVE  TrueHasher(UpdateTurn(st).h) /\ UpdateTurn(st).at = Count(UpdateTurn(st).h)
<1> DEFINE new == UpdateTurn(st)
           h == CloseFullChunk(st.h)
           n == FastSubtree(h, st.left)
           take == Lesser(st.left, ChunkLen - ChunkFill(h.chunk))
           fast == Absorb(h, SubtreeCV(st.at, n, h.chunk.counter), h.chunk.counter + n, n)
           slow == [h EXCEPT !.chunk = ChunkUpdate(@, st.at, take)]
<1>1. /\ st.at \in Nat /\ st.left \in Nat /\ IsHasher(st.h) /\ Sound(st.h)
      /\ ChunkLen \in Nat \ {0}
  BY LensArePositive DEF IsTurn, TrueHasher
<1>2. /\ IsHasher(h) /\ Count(h) = Count(st.h) /\ ChunkFill(h.chunk) < ChunkLen
  BY <1>1, CloseKeepsCount
<1>3. ChunkFill(h.chunk) \in Nat /\ Count(h) \in Nat
  BY <1>2, FillIsNat, CountIsNat DEF IsHasher
<1>4. TrueHasher(h)
  <2>1. Count(st.h) <= Limit
    BY <1>1, <1>2, <1>3, LimitIsNat
  <2> QED
    BY <2>1, CloseTrue
<1>5. Advances(st, new)
  BY TurnAdvances
<1>6. ASSUME new.at + new.left = st.at + st.left PROVE new.at = Count(new.h)
  <2>1. Count(new.h) + new.left = st.at + st.left /\ new.left \in Nat /\ new.at \in Nat
    BY <1>5 DEF Advances, IsTurn
  <2>2. Count(new.h) \in Nat
    BY <1>5, CountIsNat DEF Advances, IsTurn
  <2> HIDE DEF new
  <2> QED
    BY <1>1, <1>6, <2>1, <2>2
<1>7. CASE st.left = 0
  <2>1. new = st
    BY <1>7 DEF UpdateTurn
  <2> QED
    BY <2>1
<1>8. CASE st.left > 0 /\ FastPath(h, st.left)
  <2>1. st.left # 0 /\ ChunkFill(h.chunk) = 0 /\ st.left > ChunkLen
    BY <1>1, <1>8 DEF FastPath
  <2>2. new = [h |-> fast, at |-> st.at + n * ChunkLen, left |-> st.left - n * ChunkLen]
    BY <1>8, <2>1 DEF UpdateTurn, Absorb
  <2>3. /\ n \in Nat \ {0} /\ n * ChunkLen < st.left
        /\ n \in Powers /\ h.chunk.counter % n = 0
    BY <1>1, <1>2, <2>1, FastSubtreeIs
  <2> HIDE DEF n, h
  <2>4. PICK N \in Nat : N = h.chunk.counter
    BY <1>2 DEF IsHasher, IsChunk
  <2>5. \A a, b, l \in Nat : (a + b) * l = a * l + b * l /\ a * l \in Nat /\ b * l \in Nat
    OBVIOUS
  <2>6. /\ (N + n) * ChunkLen = N * ChunkLen + n * ChunkLen
        /\ N * ChunkLen \in Nat /\ n * ChunkLen \in Nat
    BY <1>1, <2>3, <2>5
  <2>7. st.at = N * ChunkLen
    BY <1>2, <1>3, <2>1, <2>4, <2>6 DEF Count
  <2>8. N + n <= MaxTotal
    <3>1. (N + n) * ChunkLen <= Limit
      BY <1>1, <1>2, <2>3, <2>6, <2>7, LimitIsNat
    <3> QED
      BY <2>3, <3>1, WithinLimit
  <2>9. SubtreeCV(st.at, n, h.chunk.counter) = Tree(0, N, n)
    BY <2>4, <2>7, TreeFromZero
  <2>10. fast = Absorb(h, Tree(0, N, n), N + n, n)
    BY <2>4, <2>9
  <2>11. TrueHasher(Absorb(h, Tree(0, N, n), N + n, n))
    BY <1>4, <2>1, <2>3, <2>4, <2>8, AbsorbTrue
  <2> HIDE DEF fast
  <2>12. new.h = fast /\ new.at = st.at + n * ChunkLen /\ new.left = st.left - n * ChunkLen
    BY <2>2
  <2>13. new.at + new.left = st.at + st.left
    BY <1>1, <2>6, <2>12
  <2>14. TrueHasher(new.h)
    BY <2>10, <2>11, <2>12
  <2> QED
    BY <1>6, <2>13, <2>14
<1>9. CASE st.left > 0 /\ ~FastPath(h, st.left)
  <2>1. new = [h |-> slow, at |-> st.at + take, left |-> st.left - take]
    BY <1>1, <1>9 DEF UpdateTurn
  <2>2. /\ take \in Nat \ {0} /\ take <= st.left /\ ChunkFill(h.chunk) + take <= ChunkLen
    BY <1>1, <1>2, <1>3, <1>9 DEF Lesser
  <2> HIDE DEF h, take
  <2> DEFINE c == ChunkUpdate(h.chunk, st.at, take)
  <2>3. /\ IsChunk(c) /\ c.counter = h.chunk.counter
    BY <1>1, <1>2, <2>2, MoreUnits DEF IsHasher
  <2>4. st.at = h.chunk.counter * ChunkLen + ChunkFill(h.chunk)
    BY <1>2 DEF Count
  <2>5. ChunkTrue(c)
    <3>1. IsChunk(h.chunk) /\ ChunkTrue(h.chunk)
      BY <1>2, <1>4 DEF IsHasher, TrueHasher
    <3> QED
      BY <1>1, <2>2, <2>4, <3>1, MoreUnitsTrue
  <2>6. slow = [h EXCEPT !.chunk = c]
    OBVIOUS
  <2> HIDE DEF c, slow
  <2>7. Sound(slow)
    BY <1>4, <2>3, <2>6, ChunkSound DEF TrueHasher
  <2>8. slow.chunk = c /\ slow.stack = h.stack
    BY <1>2, <2>6 DEF IsHasher
  <2>9. TrueHasher(slow)
    BY <1>4, <2>3, <2>5, <2>7, <2>8 DEF TrueHasher
  <2>10. new.h = slow /\ new.at = st.at + take /\ new.left = st.left - take
    BY <2>1
  <2>11. new.at + new.left = st.at + st.left
    BY <1>1, <2>2, <2>10
  <2> QED
    BY <1>6, <2>9, <2>10, <2>11
<1> QED
  BY <1>1, <1>7, <1>8, <1>9

\* update() with the units that follow.
LEMMA UpdateTrue ==
  ASSUME NEW h, TrueHasher(h), NEW n \in Nat, Count(h) + n <= Limit
  PROVE  TrueHasher(Update(h, Count(h), n))
<1> DEFINE k == Chunks(n) + 1
           from == Count(h)
<1>1. /\ Sound(h) /\ IsHasher(h) /\ from \in Nat /\ k \in Nat
  <2>1. Sound(h) /\ IsHasher(h)
    BY DEF TrueHasher, Sound
  <2> QED
    BY <2>1, CountIsNat, ChunksCover
<1>2. PICK t : Turns(t, h, from, n, k) /\ Update(h, from, n) = t[k].h
  BY <1>1, UpdateIs
<1> HIDE DEF k
<1> DEFINE Good(i) == /\ IsTurn(t[i]) /\ TrueHasher(t[i].h) /\ t[i].at = Count(t[i].h)
                      /\ Count(t[i].h) + t[i].left = from + n
           S == {i \in Nat : i <= k => Good(i)}
<1>3. 0 \in S
  <2>1. t[0] = [h |-> h, at |-> from, left |-> n]
    BY <1>1, <1>2 DEF Turns
  <2>2. t[0].h = h /\ t[0].at = from /\ t[0].left = n
    BY <2>1
  <2> QED
    BY <1>1, <2>2 DEF IsTurn
<1>4. ASSUME NEW i \in Nat, i \in S PROVE i + 1 \in S
  <2> SUFFICES ASSUME i + 1 <= k PROVE Good(i + 1)
    OBVIOUS
  <2>1. Good(i)
    BY <1>1, <1>4
  <2>2. t[i + 1] = UpdateTurn(t[i])
    <3>1. i + 1 \in 0 .. k /\ i + 1 # 0 /\ (i + 1) - 1 = i
      BY <1>1
    <3> QED
      BY <1>2, <3>1 DEF Turns
  <2> DEFINE a == t[i]
             b == t[i + 1]
  <2>3. Advances(a, b)
    BY <2>1, <2>2, TurnAdvances
  <2>4. TrueHasher(b.h) /\ b.at = Count(b.h)
    BY <2>1, <2>2, TurnTrue
  <2>5. IsTurn(b) /\ Count(b.h) + b.left = from + n
    BY <2>1, <2>3 DEF Advances
  <2> QED
    BY <2>4, <2>5
<1>5. k \in S
  <2> HIDE DEF S
  <2> QED
    BY <1>1, <1>3, <1>4, Induction
<1>6. TrueHasher(t[k].h)
  BY <1>1, <1>5
<1> QED
  BY <1>2, <1>6

\* push_subtree_cv() with the subtree that follows.
LEMMA SubtreeTrue ==
  ASSUME NEW h, TrueHasher(h), NEW n \in Powers, NEW k \in Nat, Count(h) = k * ChunkLen,
         k % n = 0, (k + n) * ChunkLen <= Limit
  PROVE  TrueHasher(PushSubtreeCV(h, Tree(0, k, n), n))
<1> DEFINE g == CloseFullChunk(h)
<1>1. /\ Sound(h) /\ IsHasher(h) /\ Count(h) \in Nat /\ ChunkLen \in Nat \ {0}
      /\ n \in Nat \ {0}
  BY CountIsNat, LensArePositive, PowersAreNat DEF TrueHasher, Sound
<1>2. k + n <= MaxTotal
  <2>1. k + n \in Nat
    BY <1>1
  <2> QED
    BY <2>1, WithinLimit
<1>3. k * ChunkLen <= Limit
  <2>1. \A a, b, l \in Nat : (a + b) * l = a * l + b * l /\ a * l \in Nat /\ b * l \in Nat
    OBVIOUS
  <2>2. (k + n) * ChunkLen = k * ChunkLen + n * ChunkLen
        /\ k * ChunkLen \in Nat /\ n * ChunkLen \in Nat
    BY <1>1, <2>1
  <2> QED
    BY <2>2, LimitIsNat
<1>4. TrueHasher(g) /\ IsHasher(g) /\ Count(g) = Count(h) /\ ChunkFill(g.chunk) < ChunkLen
  BY <1>1, <1>3, CloseTrue, CloseKeepsCount
<1>5. PushSubtreeCV(h, Tree(0, k, n), n) = Absorb(g, Tree(0, k, n), g.chunk.counter + n, n)
  BY DEF PushSubtreeCV, Absorb
<1> HIDE DEF g
<1>6. PICK c \in Nat, f \in 0 .. ChunkLen - 1 : c = g.chunk.counter /\ f = ChunkFill(g.chunk)
  BY <1>1, <1>4, FillIsNat DEF IsHasher, IsChunk
<1>7. Count(h) = c * ChunkLen + f
  BY <1>4, <1>6 DEF Count
<1>8. Count(h) = k * ChunkLen + 0
  BY <1>1
<1>9. c = k /\ f = 0
  <2>1. PICK x \in Nat : x = Count(h)
    BY <1>1
  <2>2. x = c * ChunkLen + f
    BY <1>7, <2>1
  <2>3. x = k * ChunkLen + 0 /\ k \in Int /\ 0 \in 0 .. ChunkLen - 1
    BY <1>1, <1>8, <2>1
  <2>4. x \div ChunkLen = c /\ x % ChunkLen = f
    <3>1. c \in Int /\ ChunkLen \in Nat \ {0}
      BY <1>1
    <3> QED
      BY <2>2, <3>1, DivModUnique
  <2>5. x \div ChunkLen = k /\ x % ChunkLen = 0
    BY <1>1, <2>3, DivModUnique
  <2> QED
    BY <2>4, <2>5
<1>10. TrueHasher(Absorb(g, Tree(0, k, n), k + n, n))
  BY <1>2, <1>4, <1>6, <1>9, AbsorbTrue
<1> QED
  BY <1>5, <1>6, <1>9, <1>10

\* The table of a job that starts at chunk k holds the message's subtrees.
TrueTable(k) == \A i \in 0 .. job.parts - 1 : cvs[i] = Tree(0, k + i * job.part, job.part)

\* The join absorbs the job's chunks when its table is true.
LEMMA PushedTrue ==
  ASSUME TrueHasher(hasher), job.part \in Powers, job.parts \in Nat,
         NEW k \in Nat, Count(hasher) = k * ChunkLen, k % job.part = 0,
         Count(hasher) + JobUnits <= Limit, TrueTable(k)
  PROVE  TrueHasher(Pushed)
<1> DEFINE top == job.parts
           g == CHOOSE f : Pushes(f, hasher, cvs, job.part, top)
<1>1. Pushes(g, hasher, cvs, job.part, top)
  BY PushesExist
<1>2. Pushed = g[top]
  BY DEF Pushed, Pushes
<1>3. PICK p \in Powers : p = job.part
  OBVIOUS
<1>4. p \in Nat \ {0} /\ ChunkLen \in Nat \ {0}
  BY PowersAreNat, LensArePositive
<1>5. PICK q \in Nat : k = q * p
  <2>1. PICK q \in Nat, r \in 0 .. p - 1 : k = q * p + r /\ r = k % p
    BY <1>4, DivMod
  <2>2. PICK w \in Nat : w = q * p
    BY <1>4
  <2>3. k = w + r
    BY <2>1, <2>2
  <2>4. r = 0
    BY <1>3, <2>1
  <2>5. k = w
    BY <2>3, <2>4
  <2> QED
    BY <2>2, <2>5
<1> HIDE DEF g
<1> DEFINE Good(i) == TrueHasher(g[i]) /\ Count(g[i]) = (k + i * p) * ChunkLen
           S == {i \in Nat : i <= top => Good(i)}
<1>6. 0 \in S
  <2>1. g[0] = hasher
    BY <1>1 DEF Pushes
  <2>2. k + 0 * p = k
    BY <1>4
  <2> QED
    BY <2>1, <2>2
<1>7. ASSUME NEW i \in Nat, i \in S PROVE i + 1 \in S
  <2> SUFFICES ASSUME i + 1 <= top PROVE Good(i + 1)
    OBVIOUS
  <2>1. Good(i)
    BY <1>7
  <2>2. i \in 0 .. top - 1
    OBVIOUS
  <2>3. g[i + 1] = PushSubtreeCV(g[i], cvs[i], p)
    <3>1. i + 1 \in 0 .. top /\ i + 1 # 0 /\ (i + 1) - 1 = i
      OBVIOUS
    <3> HIDE DEF top
    <3> QED
      BY <1>1, <1>3, <3>1 DEF Pushes
  <2>4. PICK m \in Nat : m = k + i * p
    <3>1. \A a, b \in Nat : a * b \in Nat
      OBVIOUS
    <3>2. i * p \in Nat
      BY <1>4, <3>1
    <3> QED
      BY <3>2
  <2>5. cvs[i] = Tree(0, m, p)
    BY <1>3, <2>2, <2>4 DEF TrueTable
  <2>6. m % p = 0 /\ m + p = k + (i + 1) * p
    <3>1. \A a, b, c \in Nat : a * c + b * c = (a + b) * c + 0 /\ a * c \in Nat /\ (b + 1) * c = b * c + c
      OBVIOUS
    <3>2. /\ q * p + i * p = (q + i) * p + 0 /\ q * p \in Nat /\ i * p \in Nat
          /\ (i + 1) * p = i * p + p
      BY <1>4, <3>1
    <3>3. m = (q + i) * p + 0
      BY <1>5, <2>4, <3>2
    <3>4. PICK s \in Int : s = q + i
      OBVIOUS
    <3>5. m % p = 0
      <4>1. m = s * p + 0 /\ 0 \in 0 .. p - 1
        BY <1>4, <3>3, <3>4
      <4> QED
        BY <1>4, <4>1, DivModUnique
    <3>6. m + p = k + (i + 1) * p
      BY <1>4, <2>4, <3>2
    <3> QED
      BY <3>5, <3>6
  <2>7. (m + p) * ChunkLen <= Limit
    <3>1. JobUnits = (top * p) * ChunkLen /\ top * p \in Nat
      <4>1. \A a, b \in Nat : a * b \in Nat
        OBVIOUS
      <4> QED
        BY <1>3, <1>4, <4>1 DEF JobUnits
    <3>2. (k + top * p) * ChunkLen <= Limit
      <4>1. \A a, b, l \in Nat : a * l + b * l = (a + b) * l
        OBVIOUS
      <4>2. k * ChunkLen + (top * p) * ChunkLen = (k + top * p) * ChunkLen
        BY <1>4, <3>1, <4>1
      <4> QED
        BY <3>1, <4>2
    <3>3. (i + 1) * p <= top * p /\ (i + 1) * p \in Nat
      <4>1. \A a, b, l \in Nat : a <= b => a * l <= b * l /\ a * l \in Nat
        OBVIOUS
      <4> QED
        BY <1>4, <4>1
    <3>4. PICK u \in Nat, v \in Nat : u = m + p /\ v = k + top * p /\ u <= v
      <4>1. PICK x \in Nat, y \in Nat : x = (i + 1) * p /\ y = top * p /\ x <= y
        BY <3>1, <3>3
      <4>2. m + p = k + x /\ k + top * p = k + y /\ k + x <= k + y
        BY <2>6, <4>1
      <4>3. k + x \in Nat /\ k + y \in Nat
        OBVIOUS
      <4> QED
        BY <4>2, <4>3
    <3>5. u * ChunkLen <= v * ChunkLen /\ u * ChunkLen \in Nat /\ v * ChunkLen \in Nat
      <4>1. \A a, b, l \in Nat : a <= b => a * l <= b * l /\ a * l \in Nat /\ b * l \in Nat
        OBVIOUS
      <4> QED
        BY <1>4, <3>4, <4>1
    <3>6. v * ChunkLen <= Limit
      BY <3>2, <3>4
    <3> QED
      BY <3>4, <3>5, <3>6, LimitIsNat
  <2>8. TrueHasher(g[i + 1])
    <3>1. TrueHasher(g[i]) /\ Count(g[i]) = m * ChunkLen
      BY <2>1, <2>4
    <3>2. TrueHasher(PushSubtreeCV(g[i], Tree(0, m, p), p))
      BY <2>6, <2>7, <3>1, SubtreeTrue
    <3> QED
      BY <2>3, <2>5, <3>2
  <2>9. Count(g[i + 1]) = (k + (i + 1) * p) * ChunkLen
    <3>1. IsHasher(g[i]) /\ p \in Nat
      BY <1>4, <2>1 DEF TrueHasher, Sound
    <3>2. Count(g[i + 1]) = Count(g[i]) + p * ChunkLen
      BY <2>3, <3>1, SubtreeCounts
    <3>3. \A a, b, l \in Nat : a * l + b * l = (a + b) * l
      OBVIOUS
    <3>4. m * ChunkLen + p * ChunkLen = (m + p) * ChunkLen
      BY <1>4, <3>3
    <3> QED
      BY <2>1, <2>4, <2>6, <3>2, <3>4
  <2> QED
    BY <2>8, <2>9
<1>8. top \in S
  <2> HIDE DEF S
  <2> QED
    BY <1>6, <1>7, Induction
<1>9. TrueHasher(g[top])
  BY <1>8
<1> QED
  BY <1>2, <1>9

-----------------------------------------------------------------------------
(* The table of a job fills with the message's subtrees *)

Pulling == [pc |-> "pull"]
Reducing(i) == [pc |-> "body", index |-> i]

\* What an agent of the job may be doing.
AtWork(a) ==
  \/ agent[a] \in {Idle, Pulling}
  \/ \E i \in 0 .. job.parts - 1 : i < next /\ agent[a] = Reducing(i)

\* A part that was taken is in the table or with the agent that took it.
Accounted(i) == cvs[i] = PartCV(i) \/ \E a \in Agents : agent[a] = Reducing(i)

\* The job lies where the hasher stands, each part that was taken is accounted
\* for, and while parts are left so is somebody to take them.
TableInv ==
  /\ job.counter \in Nat /\ job.from = Count(hasher)
  /\ job.counter * ChunkLen = Count(hasher)
  /\ next \in Nat /\ calls \in Nat
  /\ agent = [a \in Agents |-> agent[a]]
  /\ cvs = [i \in 0 .. job.parts - 1 |-> cvs[i]]
  /\ \A a \in Agents : AtWork(a)
  /\ \A i \in 0 .. job.parts - 1 : i < next => Accounted(i)
  /\ next < job.parts => calls > 0 \/ \E a \in Agents : agent[a] # Idle

DigestInv ==
  /\ TrueHasher(hasher)
  /\ pc = "parts" => TableInv

\* A job begins with nothing taken.
LEMMA FanOutTrue ==
  ASSUME TrueHasher(hasher), NEW from, from = Count(hasher), NEW first \in Nat,
         first * ChunkLen = Count(hasher), NEW chunks, FanOut(from, chunks, first),
         hasher' = hasher, job'.parts \in Nat
  PROVE  DigestInv'
<1> DEFINE part == PartChunks(chunks)
           parts == chunks \div part
<1>1. /\ job' = [from |-> from, part |-> part, parts |-> parts, counter |-> first]
      /\ next' = 0 /\ calls' = parts
      /\ agent' = [a \in Agents |-> Idle]
      /\ cvs' = [i \in 0 .. parts - 1 |-> Unset]
  BY DEF FanOut
<1> HIDE DEF part, parts
<1>2. job'.from = from /\ job'.parts = parts /\ job'.counter = first /\ parts \in Nat
  BY <1>1
<1>3. agent' = [a \in Agents |-> agent'[a]]
  BY <1>1
<1>4. cvs' = [i \in 0 .. job'.parts - 1 |-> cvs'[i]]
  BY <1>1, <1>2
<1>5. \A a \in Agents : AtWork(a)'
  BY <1>1 DEF AtWork
<1>6. \A i \in 0 .. job'.parts - 1 : ~(i < next')
  BY <1>1
<1>7. next' < job'.parts => calls' > 0
  BY <1>1, <1>2
<1>8. TableInv'
  BY <1>1, <1>2, <1>3, <1>4, <1>5, <1>6, <1>7 DEF TableInv
<1>9. TrueHasher(hasher')
  OBVIOUS
<1> QED
  BY <1>8, <1>9 DEF DigestInv

\* An agent's step in a job.
LEMMA BeginCallTrue ==
  ASSUME DigestInv, NEW b \in Agents, BeginCall(b)
  PROVE  DigestInv'
<1>1. /\ calls > 0 /\ calls' = calls - 1 /\ pc = "parts"
      /\ agent' = [agent EXCEPT ![b] = Pulling]
      /\ hasher' = hasher /\ pc' = pc /\ job' = job /\ next' = next /\ cvs' = cvs
  BY DEF BeginCall, Pulling
<1>2. TableInv /\ TrueHasher(hasher')
  BY <1>1 DEF DigestInv
<1>3. agent = [a \in Agents |-> agent[a]] /\ calls \in Nat /\ agent[b] = Idle
  BY <1>2 DEF TableInv, BeginCall
<1>4. /\ agent' = [a \in Agents |-> agent'[a]]
      /\ agent'[b] = Pulling /\ \A a \in Agents : a # b => agent'[a] = agent[a]
  BY <1>1, <1>3
<1>5. \A a \in Agents : AtWork(a)'
  <2>1. ASSUME NEW a \in Agents PROVE AtWork(a)'
    <3>1. AtWork(a)
      BY <1>2 DEF TableInv
    <3> QED
      BY <1>1, <1>4, <3>1 DEF AtWork
  <2> QED
    BY <2>1
<1>6. ASSUME NEW i \in 0 .. job.parts - 1, i < next PROVE Accounted(i)'
  <2>1. Accounted(i)
    BY <1>2, <1>6 DEF TableInv
  <2>2. PartCV(i)' = PartCV(i)
    BY <1>1 DEF PartCV
  <2>3. \A a \in Agents : agent[a] = Reducing(i) => agent'[a] = Reducing(i)
    BY <1>3, <1>4 DEF Idle, Reducing
  <2> QED
    BY <1>1, <2>1, <2>2, <2>3 DEF Accounted
<1>7. agent'[b] # Idle
  BY <1>4 DEF Pulling, Idle
<1>8. calls' \in Nat
  BY <1>1, <1>3
<1>9. TableInv'
  BY <1>1, <1>2, <1>4, <1>5, <1>6, <1>7, <1>8 DEF TableInv
<1> QED
  BY <1>2, <1>9 DEF DigestInv

\* An agent that takes a part is accounted for it, and one leaves when none is left.
LEMMA PullTrue ==
  ASSUME DigestInv, NEW b \in Agents, Pull(b), pc = "parts" => job.parts \in Nat
  PROVE  DigestInv'
<1>1. /\ next' = next + 1
      /\ agent' = [agent EXCEPT ![b] = IF next < job.parts THEN Reducing(next) ELSE Idle]
      /\ hasher' = hasher /\ pc' = pc /\ job' = job /\ calls' = calls /\ cvs' = cvs
      /\ agent[b].pc = "pull"
  BY DEF Pull, Reducing
<1>2. TrueHasher(hasher')
  BY <1>1 DEF DigestInv
<1>3. CASE pc # "parts"
  BY <1>1, <1>2, <1>3 DEF DigestInv
<1>4. CASE pc = "parts"
  <2>1. TableInv /\ job.parts \in Nat
    BY <1>4 DEF DigestInv
  <2>2. agent = [a \in Agents |-> agent[a]] /\ next \in Nat
    BY <2>1 DEF TableInv
  <2> DEFINE new == IF next < job.parts THEN Reducing(next) ELSE Idle
  <2>3. /\ agent' = [a \in Agents |-> agent'[a]]
        /\ agent'[b] = new /\ \A a \in Agents : a # b => agent'[a] = agent[a]
    BY <1>1, <2>2
  <2>4. \A a \in Agents : AtWork(a)'
    <3>1. ASSUME NEW a \in Agents, a # b PROVE AtWork(a)'
      <4>1. AtWork(a) /\ agent'[a] = agent[a]
        BY <2>1, <2>3, <3>1 DEF TableInv
      <4>2. \A i \in 0 .. job.parts - 1 : i < next => i < next'
        BY <1>1, <2>2
      <4> QED
        BY <1>1, <4>1, <4>2 DEF AtWork
    <3>2. AtWork(b)'
      <4>1. CASE next < job.parts
        <5>1. next \in 0 .. job.parts - 1 /\ next < next' /\ agent'[b] = Reducing(next)
          BY <1>1, <2>1, <2>2, <2>3, <4>1
        <5> QED
          BY <1>1, <5>1 DEF AtWork
      <4>2. CASE ~(next < job.parts)
        BY <1>1, <2>3, <4>2 DEF AtWork
      <4> QED
        BY <4>1, <4>2
    <3> QED
      BY <3>1, <3>2
  <2>5. ASSUME NEW i \in 0 .. job.parts - 1, i < next' PROVE Accounted(i)'
    <3>1. CASE i < next
      <4>1. Accounted(i)
        BY <2>1, <3>1 DEF TableInv
      <4>2. PartCV(i)' = PartCV(i)
        BY <1>1 DEF PartCV
      <4>3. \A a \in Agents : agent[a] = Reducing(i) => agent'[a] = Reducing(i)
        BY <1>1, <2>3 DEF Reducing
      <4> QED
        BY <1>1, <4>1, <4>2, <4>3 DEF Accounted
    <3>2. CASE ~(i < next)
      <4>1. i = next /\ next < job.parts
        BY <1>1, <2>1, <2>2, <2>5, <3>2
      <4>2. agent'[b] = Reducing(i)
        BY <2>3, <4>1
      <4> QED
        BY <4>2 DEF Accounted
    <3> QED
      BY <3>1, <3>2
  <2>6. ASSUME next' < job.parts PROVE agent'[b] # Idle
    <3>1. next < job.parts
      BY <1>1, <2>1, <2>2, <2>6
    <3> QED
      BY <2>3, <3>1 DEF Reducing, Idle
  <2> HIDE DEF new
  <2>7. next' \in Nat
    BY <1>1, <2>2
  <2>8. TableInv'
    BY <1>1, <2>1, <2>3, <2>4, <2>5, <2>6, <2>7 DEF TableInv
  <2> QED
    BY <1>2, <2>8 DEF DigestInv
<1> QED
  BY <1>3, <1>4

\* A part's value is stored before the agent that took it goes on.
LEMMA BodyTrue ==
  ASSUME DigestInv, NEW b \in Agents, Body(b)
  PROVE  DigestInv'
<1>1. /\ agent[b].pc = "body"
      /\ cvs' = [cvs EXCEPT ![agent[b].index] = PartCV(agent[b].index)]
      /\ agent' = [agent EXCEPT ![b] = Pulling]
      /\ hasher' = hasher /\ pc' = pc /\ job' = job /\ next' = next /\ calls' = calls
  BY DEF Body, Pulling
<1>2. TrueHasher(hasher')
  BY <1>1 DEF DigestInv
<1>3. CASE pc # "parts"
  BY <1>1, <1>2, <1>3 DEF DigestInv
<1>4. CASE pc = "parts"
  <2>1. TableInv
    BY <1>4 DEF DigestInv
  <2>2. agent = [a \in Agents |-> agent[a]] /\ cvs = [i \in 0 .. job.parts - 1 |-> cvs[i]]
    BY <2>1 DEF TableInv
  <2>3. PICK k \in 0 .. job.parts - 1 : k < next /\ agent[b] = Reducing(k)
    <3>1. AtWork(b)
      BY <2>1 DEF TableInv
    <3> QED
      BY <1>1, <3>1 DEF AtWork, Idle, Pulling
  <2>4. agent[b].index = k
    BY <2>3 DEF Reducing
  <2>5. cvs' = [cvs EXCEPT ![k] = PartCV(k)]
    BY <1>1, <2>4
  <2>6. /\ cvs' = [i \in 0 .. job.parts - 1 |-> cvs'[i]]
        /\ cvs'[k] = PartCV(k) /\ \A i \in 0 .. job.parts - 1 : i # k => cvs'[i] = cvs[i]
    <3> DEFINE v == PartCV(k)
    <3>1. cvs' = [cvs EXCEPT ![k] = v]
      BY <2>5
    <3> HIDE DEF v
    <3>2. /\ cvs' = [i \in 0 .. job.parts - 1 |-> cvs'[i]]
          /\ cvs'[k] = v /\ \A i \in 0 .. job.parts - 1 : i # k => cvs'[i] = cvs[i]
      BY <2>2, <3>1
    <3> QED
      BY <3>2 DEF v
  <2>7. /\ agent' = [a \in Agents |-> agent'[a]]
        /\ agent'[b] = Pulling /\ \A a \in Agents : a # b => agent'[a] = agent[a]
    BY <1>1, <2>2
  <2>8. \A a \in Agents : AtWork(a)'
    <3>1. ASSUME NEW a \in Agents PROVE AtWork(a)'
      <4>1. AtWork(a)
        BY <2>1 DEF TableInv
      <4> QED
        BY <1>1, <2>7, <4>1 DEF AtWork
    <3> QED
      BY <3>1
  <2>9. ASSUME NEW i \in 0 .. job.parts - 1, i < next PROVE Accounted(i)'
    <3>1. PartCV(i)' = PartCV(i)
      BY <1>1 DEF PartCV
    <3>2. CASE i = k
      BY <2>6, <3>1, <3>2 DEF Accounted
    <3>3. CASE i # k
      <4>1. Accounted(i)
        BY <2>1, <2>9 DEF TableInv
      <4>2. Reducing(i) # Reducing(k)
        <5>1. Reducing(i).index = i /\ Reducing(k).index = k
          BY DEF Reducing
        <5> QED
          BY <3>3, <5>1
      <4>3. \A a \in Agents : agent[a] = Reducing(i) => agent'[a] = Reducing(i)
        BY <2>3, <2>7, <4>2
      <4>4. cvs'[i] = cvs[i]
        BY <2>6, <3>3
      <4> QED
        BY <3>1, <4>1, <4>3, <4>4 DEF Accounted
    <3> QED
      BY <3>2, <3>3
  <2>10. agent'[b] # Idle
    BY <2>7 DEF Pulling, Idle
  <2>11. TableInv'
    BY <1>1, <2>1, <2>6, <2>7, <2>8, <2>9, <2>10 DEF TableInv
  <2> QED
    BY <1>2, <2>11 DEF DigestInv
<1> QED
  BY <1>3, <1>4

-----------------------------------------------------------------------------
(* The hasher is true in every behaviour *)

\* Where the hasher stands in the message.
LEMMA HasherStands ==
  ASSUME HashingInv
  PROVE  /\ IsHasher(hasher) /\ Count(hasher) \in Nat /\ filled \in Nat /\ absorbed \in Nat
         /\ left \in Nat /\ absorbed + left <= Limit /\ absorbed <= Limit
         /\ Count(hasher) = absorbed - filled
         /\ kind # "parallel_hasher" => filled = 0 /\ Count(hasher) = absorbed
<1>1. Shared
  BY DEF HashingInv
<1>2. IsHasher(hasher) /\ Count(hasher) \in Nat
  BY <1>1, CountIsNat DEF Shared, Sound
<1>3. filled \in Nat /\ absorbed \in Nat /\ left \in Nat
  BY <1>1, BoundsAre DEF Shared
<1> QED
  BY <1>1, <1>2, <1>3, LimitIsNat DEF Shared

\* The part's number places it where its data starts.
LEMMA PartIsTree ==
  ASSUME NEW k \in Nat, job.counter = k, job.from = k * ChunkLen, job.part \in Nat, NEW i \in Nat
  PROVE  PartCV(i) = Tree(0, k + i * job.part, job.part)
<1>1. PICK p \in Nat : p = job.part
  OBVIOUS
<1>2. \A a, b, l \in Nat : (a + b) * l = a * l + b * l /\ a * l \in Nat
  OBVIOUS
<1>3. i * p \in Nat /\ ChunkLen \in Nat
  BY <1>2, LensArePositive
<1>4. (k + i * p) * ChunkLen = k * ChunkLen + i * p * ChunkLen
  BY <1>2, <1>3
<1>5. PartCV(i) = SubtreeCV(k * ChunkLen + i * p * ChunkLen, p, k + i * p)
  BY <1>1 DEF PartCV
<1>6. k + i * p \in Nat
  BY <1>3
<1>7. Tree(0, k + i * p, p) = SubtreeCV((k + i * p) * ChunkLen, p, k + i * p)
  BY <1>6, TreeFromZero
<1> QED
  BY <1>1, <1>4, <1>5, <1>7

\* With every call returned the whole table is true.
LEMMA JoinedTable ==
  ASSUME TableInv, JobFits, calls = 0, Quiet
  PROVE  TrueTable(job.counter)
<1>1. next \in Nat /\ job.parts \in Nat /\ job.part \in Nat /\ job.counter \in Nat
  BY PowersAreNat DEF TableInv, JobFits
<1>2. ~(next < job.parts)
  BY DEF TableInv, Quiet
<1>3. ASSUME NEW i \in 0 .. job.parts - 1
      PROVE  cvs[i] = Tree(0, job.counter + i * job.part, job.part)
  <2>1. i < next /\ i \in Nat
    BY <1>1, <1>2
  <2>2. Accounted(i)
    BY <2>1 DEF TableInv
  <2>3. \A a \in Agents : agent[a] # Reducing(i)
    BY DEF Quiet, Idle, Reducing
  <2>4. cvs[i] = PartCV(i)
    BY <2>2, <2>3 DEF Accounted
  <2>5. job.from = job.counter * ChunkLen
    BY DEF TableInv
  <2>6. PartCV(i) = Tree(0, job.counter + i * job.part, job.part)
    BY <1>1, <2>1, <2>5, PartIsTree
  <2> QED
    BY <2>4, <2>6
<1> QED
  BY <1>3 DEF TrueTable

\* A job is aligned in the message.
LEMMA JobIsAligned ==
  ASSUME TableInv, JobFits
  PROVE  job.counter % job.part = 0
<1>1. PICK k \in Nat, p \in Nat \ {0}, l \in Nat \ {0} :
        k = job.counter /\ p = job.part /\ l = ChunkLen
  BY PowersAreNat, LensArePositive DEF TableInv, JobFits
<1>2. PICK q \in Nat : k * l = q * (p * l)
  BY <1>1 DEF TableInv, JobFits, Multiple
<1>3. \A a, b, c \in Nat : a * (b * c) = (a * b) * c /\ a * b \in Nat
  OBVIOUS
<1>4. PICK m \in Nat : m = q * p /\ k * l = m * l
  BY <1>1, <1>2, <1>3
<1>5. \A a, b \in Nat : \A c \in Nat \ {0} : a * c = b * c => a = b
  OBVIOUS
<1>6. k = m
  BY <1>4, <1>5
<1>7. k = q * p + 0 /\ 0 \in 0 .. p - 1 /\ q \in Int
  BY <1>4, <1>6
<1>8. k % p = 0
  BY <1>7, DivModUnique
<1> QED
  BY <1>1, <1>8

\* A job's units are units of the message.
LEMMA JobIsWithin ==
  ASSUME HashingInv, pc = "parts"
  PROVE  /\ Count(hasher) + JobUnits <= Limit /\ JobUnits \in Nat /\ JobFits
         /\ kind \in {"hash_into", "parallel_hasher", "update_file"}
         /\ kind = "hash_into" => Count(hasher) = 0 /\ JobUnits < left /\ left <= Limit
<1>1. Shared /\ JobFits /\ kind \in {"hash_into", "parallel_hasher", "update_file"}
  BY DEF HashingInv, PlainInv, FileInv, Shared, Interfaces
<1>2. JobUnits \in Nat /\ (WholeWindow => JobUnits = WindowUnits)
  <2>1. \A a, b, c \in Nat : a * b * c \in Nat
    OBVIOUS
  <2>2. job.parts \in Nat /\ job.part \in Nat /\ ChunkLen \in Nat
    BY <1>1, LensArePositive, PowersAreNat DEF JobFits
  <2> QED
    BY <2>1, <2>2, BoundsAre DEF JobUnits, WholeWindow
<1>3. CASE kind = "parallel_hasher"
  <2>1. filled = WindowUnits /\ JobUnits = WindowUnits
    BY <1>2, <1>3 DEF HashingInv, ParallelInv
  <2> QED
    BY <1>1, <1>2, <1>3, <2>1, HasherStands
<1>4. CASE kind = "hash_into"
  <2>1. absorbed = 0 /\ JobUnits < left
    BY <1>4 DEF HashingInv, HashIntoInv
  <2> QED
    BY <1>1, <1>2, <1>4, <2>1, HasherStands, LimitIsNat
<1>5. CASE kind = "update_file"
  <2>1. left > WindowUnits /\ JobUnits = WindowUnits
    BY <1>2, <1>5 DEF HashingInv, UpdateFileInv
  <2> QED
    BY <1>1, <1>2, <1>5, <2>1, HasherStands, LimitIsNat, BoundsAre
<1> QED
  BY <1>1, <1>3, <1>4, <1>5

\* When all have left, every value of the table is a subtree of the message.
LEMMA JoinTrue ==
  ASSUME HashingInv, DigestInv, Join
  PROVE  DigestInv'
<1>1. pc = "parts" /\ calls = 0 /\ Quiet /\ Absorbs
  BY DEF Join
<1>2. TableInv /\ TrueHasher(hasher) /\ Sound(hasher)
  BY <1>1 DEF DigestInv, TrueHasher
<1>3. /\ Count(hasher) + JobUnits <= Limit /\ JobUnits \in Nat /\ JobFits
      /\ kind \in {"hash_into", "parallel_hasher", "update_file"}
      /\ kind = "hash_into" => Count(hasher) = 0 /\ JobUnits < left /\ left <= Limit
  BY <1>1, JobIsWithin
<1>4. TrueTable(job.counter) /\ job.counter % job.part = 0
  BY <1>1, <1>2, <1>3, JoinedTable, JobIsAligned
<1>5. TrueHasher(Pushed)
  <2>1. /\ job.counter \in Nat /\ Count(hasher) = job.counter * ChunkLen
        /\ job.part \in Powers /\ job.parts \in Nat
    BY <1>2, <1>3 DEF TableInv, JobFits
  <2> QED
    BY <1>2, <1>3, <1>4, <2>1, PushedTrue
<1>6. CASE kind = "parallel_hasher"
  <2>1. hasher' = Pushed /\ pc' = "update"
    BY <1>1, <1>6 DEF Absorbs, WindowFlushed
  <2> QED
    BY <1>5, <2>1 DEF DigestInv
<1>7. CASE kind = "update_file"
  <2>1. hasher' = Pushed /\ pc' = "file"
    BY <1>1, <1>7 DEF Absorbs, FileWindowAbsorbed
  <2> QED
    BY <1>5, <2>1 DEF DigestInv
<1>8. CASE kind = "hash_into"
  <2>1. hasher' = Update(Pushed, JobUnits, left - JobUnits) /\ pc' = "idle"
    BY <1>1, <1>8 DEF Absorbs, InputHashed
  <2>2. left \in Nat
    BY HasherStands
  <2>3. PICK rest \in Nat : rest = left - JobUnits /\ JobUnits + rest = left
    BY <1>3, <1>8, <2>2
  <2>4. Count(Pushed) = JobUnits
    <3>1. Count(Pushed) = Count(hasher) + JobUnits
      BY <1>2, <1>3, PushedCounts DEF JobFits
    <3> QED
      BY <1>3, <1>8, <3>1
  <2>5. TrueHasher(Update(Pushed, Count(Pushed), rest))
    <3>1. Count(Pushed) + rest <= Limit
      BY <1>3, <1>8, <2>3, <2>4
    <3> QED
      BY <1>5, <3>1, UpdateTrue
  <2>6. hasher' = Update(Pushed, Count(Pushed), rest)
    BY <2>1, <2>3, <2>4
  <2> QED
    BY <2>1, <2>5, <2>6 DEF DigestInv
<1> QED
  BY <1>3, <1>6, <1>7, <1>8

\* push_subtree_cv() of the caller's.
LEMMA CallPushSubtreeTrue ==
  ASSUME HashingInv, DigestInv, NEW n \in 1 .. MaxPlain \div ChunkLen, CallPushSubtree(n)
  PROVE  DigestInv'
<1>1. /\ kind = "hasher" /\ IsPow2(n) /\ pc' = pc
      /\ Count(hasher) % ChunkLen = 0 /\ (Count(hasher) \div ChunkLen) % n = 0
      /\ absorbed + n * ChunkLen < MaxPlain
      /\ hasher' = PushSubtreeCV(hasher, SubtreeCV(absorbed, n, absorbed \div ChunkLen), n)
  BY DEF CallPushSubtree
<1>2. /\ pc = "idle" /\ n \in Powers /\ n \in Nat \ {0} /\ ChunkLen \in Nat \ {0}
      /\ Count(hasher) = absorbed /\ absorbed \in Nat
  BY <1>1, PowersAre, PowersAreNat, LensArePositive, HasherStands DEF HashingInv, PlainInv
<1>3. PICK k \in Nat : k = absorbed \div ChunkLen /\ absorbed = k * ChunkLen
  <2>1. PICK k \in Nat, r \in 0 .. ChunkLen - 1 :
          k = absorbed \div ChunkLen /\ absorbed = k * ChunkLen + r /\ r = absorbed % ChunkLen
    BY <1>2, DivMod
  <2>2. PICK w \in Nat : w = k * ChunkLen
    BY <1>2
  <2>3. absorbed = w + r
    BY <2>1, <2>2
  <2>4. r = 0
    BY <1>1, <1>2, <2>1
  <2>5. absorbed = w
    BY <2>3, <2>4
  <2> QED
    BY <2>1, <2>2, <2>5
<1>4. k % n = 0
  BY <1>1, <1>2, <1>3
<1>5. (k + n) * ChunkLen <= Limit
  <2>1. \A a, b, l \in Nat : (a + b) * l = a * l + b * l /\ a * l \in Nat /\ b * l \in Nat
    OBVIOUS
  <2>2. (k + n) * ChunkLen = k * ChunkLen + n * ChunkLen
        /\ k * ChunkLen \in Nat /\ n * ChunkLen \in Nat
    BY <1>2, <2>1
  <2> QED
    BY <1>1, <1>3, <2>2, BoundsAre
<1>6. hasher' = PushSubtreeCV(hasher, Tree(0, k, n), n)
  BY <1>1, <1>3, TreeFromZero
<1>7. TrueHasher(PushSubtreeCV(hasher, Tree(0, k, n), n))
  <2>1. TrueHasher(hasher) /\ Count(hasher) = k * ChunkLen
    BY <1>2, <1>3 DEF DigestInv
  <2> QED
    BY <1>2, <1>4, <1>5, <2>1, SubtreeTrue
<1> QED
  BY <1>1, <1>2, <1>6, <1>7 DEF DigestInv

\* update() with what follows in the message.
LEMMA FollowingTrue ==
  ASSUME HashingInv, DigestInv, kind # "parallel_hasher", NEW n \in Nat, absorbed + n <= Limit,
         hasher' = Update(hasher, absorbed, n)
  PROVE  TrueHasher(hasher')
<1>1. Count(hasher) = absorbed /\ Count(hasher) + n <= Limit
  BY HasherStands
<1>2. TrueHasher(Update(hasher, Count(hasher), n))
  BY <1>1, UpdateTrue DEF DigestInv
<1> QED
  BY <1>1, <1>2

\* A span or a file goes on from a true hasher.
LEMMA CallHashTrue ==
  ASSUME HashingInv, DigestInv, NEW n \in Inputs, CallHash(n), HashingInv'
  PROVE  DigestInv'
<1>1. kind = "hash_into" /\ pc = "idle" /\ absorbed = 0 /\ n <= MaxUnits
  BY DEF CallHash
<1>2. Count(hasher) = 0 /\ n \in Nat /\ n <= Limit
  BY <1>1, HasherStands, BoundsAre
<1>3. CASE SafeChunks(n) >= 2 * MinPart
  <2>1. FanOut(0, SafeChunks(n), 0) /\ hasher' = hasher
    BY <1>3 DEF CallHash
  <2>2. job'.parts \in Nat
    BY <2>1 DEF HashingInv, Shared, JobFits, FanOut
  <2>3. 0 * ChunkLen = 0
    BY LensArePositive
  <2> QED
    BY <1>2, <2>1, <2>2, <2>3, FanOutTrue DEF DigestInv
<1>4. CASE ~(SafeChunks(n) >= 2 * MinPart)
  <2>1. hasher' = Update(hasher, absorbed, n) /\ pc' = pc
    BY <1>1, <1>4 DEF CallHash
  <2>2. TrueHasher(hasher')
    BY <1>1, <1>2, <2>1, FollowingTrue
  <2> QED
    BY <1>1, <2>1, <2>2 DEF DigestInv
<1> QED
  BY <1>3, <1>4

\* hasher::update() of the units that follow keeps it true.
LEMMA CallHasherUpdateTrue ==
  ASSUME HashingInv, DigestInv, NEW n \in InputsOf(kind), CallHasherUpdate(n)
  PROVE  DigestInv'
<1>1. /\ kind \in Files \cup {"hasher"} /\ pc = "idle" /\ absorbed + n <= BoundOf(kind)
      /\ hasher' = Update(hasher, absorbed, n) /\ pc' = pc
  BY DEF CallHasherUpdate
<1>2. n \in Nat /\ absorbed + n <= Limit
  <2>1. n \in Nat
    BY BoundsAre DEF InputsOf
  <2>2. BoundOf(kind) <= Limit /\ BoundOf(kind) \in Nat
    BY BoundsAre DEF BoundOf
  <2> QED
    BY <1>1, <2>1, <2>2, BoundsAre, HasherStands
<1>3. TrueHasher(hasher')
  BY <1>1, <1>2, FollowingTrue DEF Files
<1> QED
  BY <1>1, <1>3 DEF DigestInv

\* A window hashed serially keeps the hasher true.
LEMMA UpdateWindowTrue ==
  ASSUME HashingInv, DigestInv, UpdateWindow
  PROVE  DigestInv'
<1> DEFINE take == Lesser(WindowUnits, left)
<1>1. pc = "file" /\ left > 0 /\ hasher' = Update(hasher, absorbed, take) /\ pc' = pc
  BY DEF UpdateWindow
<1>2. kind # "parallel_hasher"
  BY <1>1 DEF HashingInv, ParallelInv
<1>3. take \in Nat /\ take <= left
  BY HasherStands, BoundsAre DEF Lesser
<1> HIDE DEF take
<1>4. absorbed + take <= Limit
  BY <1>3, HasherStands, LimitIsNat
<1>5. TrueHasher(hasher')
  BY <1>1, <1>2, <1>3, <1>4, FollowingTrue
<1> QED
  BY <1>1, <1>5 DEF DigestInv

\* A full window is offloaded at the chunk the hasher stands at.
LEMMA FlushTrue ==
  ASSUME HashingInv, DigestInv, Flush, HashingInv'
  PROVE  DigestInv'
<1>1. pc = "update" /\ FanOut(absorbed - filled, Window, counter) /\ hasher' = hasher
  BY DEF Flush
<1>2. kind = "parallel_hasher"
  BY <1>1 DEF HashingInv, PlainInv, FileInv, HashIntoInv, UpdateFileInv, Shared, Interfaces
<1>3. counter \in Nat /\ counter * ChunkLen = Count(hasher)
  BY <1>2 DEF HashingInv, Shared, ParallelInv
<1>4. absorbed - filled = Count(hasher)
  BY HasherStands
<1>5. job'.parts \in Nat
  BY <1>1 DEF HashingInv, Shared, JobFits, FanOut
<1> QED
  BY <1>1, <1>3, <1>4, <1>5, FanOutTrue DEF DigestInv

\* A file's window is offloaded at the chunk the hasher stands at.
LEMMA OffloadTrue ==
  ASSUME HashingInv, DigestInv, OffloadWindow, HashingInv'
  PROVE  DigestInv'
<1>1. /\ kind = "update_file" /\ left > WindowUnits /\ base % ChunkLen = 0
      /\ FanOut(absorbed, Window, FileCounter) /\ hasher' = hasher
  BY DEF OffloadWindow, Offloads
<1>2. /\ base \in Nat /\ absorbed \in Nat /\ base <= absorbed
      /\ Multiple(absorbed - base, WindowUnits)
  BY <1>1, HasherStands, BoundsAre DEF HashingInv, Shared, UpdateFileInv
<1>3. FileCounter \in Nat /\ FileCounter * ChunkLen = absorbed
  BY <1>1, <1>2, FileCounterIs
<1>4. Count(hasher) = absorbed
  BY <1>1, HasherStands
<1>5. job'.parts \in Nat
  BY <1>1 DEF HashingInv, Shared, JobFits, FanOut
<1> QED
  BY <1>1, <1>3, <1>4, <1>5, FanOutTrue DEF DigestInv

\* Every step keeps the hasher true and the table accounted for.
LEMMA NextKeepsDigest ==
  ASSUME HashingInv, DigestInv, [Next]_vars, HashingInv'
  PROVE  DigestInv'
<1>1. ASSUME NEW n \in Inputs, CallUpdate(n)
      PROVE  DigestInv'
  BY <1>1 DEF CallUpdate, DigestInv
<1>2. ASSUME NEW n \in Inputs, CallHash(n)
      PROVE  DigestInv'
  BY <1>2, CallHashTrue
<1>3. ASSUME NEW n \in InputsOf(kind), CallHasherUpdate(n)
      PROVE  DigestInv'
  BY <1>3, CallHasherUpdateTrue
<1>4. ASSUME NEW n \in 1 .. MaxPlain \div ChunkLen, CallPushSubtree(n)
      PROVE  DigestInv'
  BY <1>4, CallPushSubtreeTrue
<1>5. ASSUME CallReset
      PROVE  DigestInv'
  <2>1. pc = "idle" /\ pc' = pc /\ hasher' = Reset(hasher)
    BY <1>5 DEF CallReset, ResetAll
  <2>2. TrueHasher(hasher')
    BY <2>1, ResetIsTrue DEF DigestInv, TrueHasher
  <2> QED
    BY <2>1, <2>2 DEF DigestInv
<1>6. ASSUME ReadFails \/ Stopped
      PROVE  DigestInv'
  BY <1>6 DEF ReadFails, Stopped, DigestInv
<1>7. ASSUME CopyIn \/ UpdateReturns
      PROVE  DigestInv'
  BY <1>7 DEF CopyIn, UpdateReturns, DigestInv
<1>8. ASSUME Flush \/ OffloadWindow \/ UpdateWindow \/ Join
      PROVE  DigestInv'
  BY <1>8, FlushTrue, OffloadTrue, UpdateWindowTrue, JoinTrue
<1>9. ASSUME NEW a \in Agents, BeginCall(a) \/ Pull(a) \/ Body(a)
      PROVE  DigestInv'
  <2>1. pc = "parts" => job.parts \in Nat
    BY DEF HashingInv, Shared, JobFits
  <2> QED
    BY <1>9, <2>1, BeginCallTrue, PullTrue, BodyTrue
<1>10. ASSUME UNCHANGED vars
       PROVE  DigestInv'
  <2>1. /\ hasher' = hasher /\ pc' = pc /\ job' = job /\ next' = next /\ calls' = calls
        /\ agent' = agent /\ cvs' = cvs
    BY <1>10 DEF vars, jobVars
  <2> QED
    BY <2>1 DEF DigestInv, TableInv, AtWork, Accounted, PartCV
<1> QED
  BY <1>1, <1>2, <1>3, <1>4, <1>5, <1>6, <1>7, <1>8, <1>9, <1>10
     DEF Next, InCall, Scheduler

(***************************************************************************)
(* In every behaviour of the front ends the hasher holds the message: its  *)
(* open chunk the units that follow the last boundary, its stack the       *)
(* message's complete subtrees; and while a job runs, every part that was  *)
(* taken is in the table with its subtree's value, or with an agent.       *)
(***************************************************************************)
THEOREM DigestInvariant == Spec => []DigestInv
<1>1. Init => DigestInv
  <2> SUFFICES ASSUME Init PROVE DigestInv
    OBVIOUS
  <2>1. hasher = NewHasher /\ pc = "idle"
    BY DEF Init
  <2> QED
    BY <2>1, NewIsTrue DEF DigestInv
<1>2. HashingInv /\ HashingInv' /\ DigestInv /\ [Next]_vars => DigestInv'
  BY NextKeepsDigest
<1> QED
  BY <1>1, <1>2, HashingInvariant, PTL DEF Spec

\* What finalize() collapses is a true hasher of the whole message.
LEMMA InvariantDigest == HashingInv /\ DigestInv => DigestIsReference
<1> SUFFICES ASSUME HashingInv, DigestInv, pc = "idle", ~owing
             PROVE  FinalizeXof(Drained) = RootNode(absorbed)
  BY DEF DigestIsReference
<1>1. /\ IsHasher(hasher) /\ Count(hasher) \in Nat /\ filled \in Nat /\ absorbed \in Nat
      /\ absorbed <= Limit /\ Count(hasher) = absorbed - filled
  BY HasherStands
<1>2. Drained = Update(hasher, Count(hasher), filled) /\ Count(hasher) + filled = absorbed
  BY <1>1 DEF Drained
<1>3. TrueHasher(Drained)
  BY <1>1, <1>2, UpdateTrue DEF DigestInv
<1>4. Count(Drained) = absorbed
  BY <1>1, <1>2, UpdateCounts
<1>5. absorbed > 0 => ChunkFill(Drained.chunk) > 0
  BY InvariantIsSound DEF PushesSound
<1> QED
  BY <1>1, <1>3, <1>4, <1>5, FinalIsRoot DEF TrueHasher

(***************************************************************************)
(* Whatever was pushed, copied, offloaded, reduced in any order and joined,*)
(* and wherever a scheduler stopped, finalize_xof() gives the root of the  *)
(* sequential reference over all that was absorbed: for every size of      *)
(* block, chunk, window and stack budget, and any number of agents.        *)
(***************************************************************************)
THEOREM DigestStaysReference == Spec => []DigestIsReference
<1> QED
  BY HashingInvariant, DigestInvariant, InvariantDigest, PTL

-----------------------------------------------------------------------------
(* The shuffle networks *)

\* A list is a sequence of its elements.
LEMMA ListIsSeq ==
  ASSUME NEW w \in Nat, NEW s, s = [i \in 1 .. w |-> s[i]]
  PROVE  s \in Seq({s[i] : i \in 1 .. w})
<1>1. s \in [1 .. w -> {s[i] : i \in 1 .. w}]
  OBVIOUS
<1> QED
  BY <1>1

\* A list over 1 .. w has w members.
LEMMA LenOfList ==
  ASSUME NEW w \in Nat, NEW s, s = [i \in 1 .. w |-> s[i]]
  PROVE  Len(s) = w /\ DOMAIN s = 1 .. w
<1>1. s \in Seq({s[i] : i \in 1 .. w})
  BY ListIsSeq
<1>2. DOMAIN s = 1 .. Len(s) /\ Len(s) \in Nat
  BY <1>1
<1>3. DOMAIN s = 1 .. w
  OBVIOUS
<1> QED
  BY <1>2, <1>3

\* A list of places, one per word of a vector of w.
IsList(w, s) == s = [i \in 1 .. w |-> s[i]]

\* The list's i-th place is place p of the first or of the second source.
First(w, s, i, p) == i \in 1 .. w /\ p \in 0 .. w - 1 /\ s[i] = p
Second(w, s, i, p) == i \in 1 .. w /\ p \in 0 .. w - 1 /\ s[i] = p + w

\* What a shuffle then takes, whatever the two sources.
TakesFirst(s, i, p) == \A a, b : Shuf(s, a, b)[i] = a[p + 1]
TakesSecond(s, i, p) == \A a, b : Shuf(s, a, b)[i] = b[p + 1]

\* A shuffle takes from the first source below w, else from the second.
LEMMA ShufAt ==
  ASSUME NEW w \in Nat, NEW s, IsList(w, s), NEW i, NEW p
  PROVE  /\ First(w, s, i, p) => TakesFirst(s, i, p)
         /\ Second(w, s, i, p) => TakesSecond(s, i, p)
<1>1. Len(s) = w /\ DOMAIN s = 1 .. w
  BY LenOfList DEF IsList
<1>2. i \in 1 .. w => \A a, b : Shuf(s, a, b)[i] = IF s[i] < w THEN a[s[i] + 1] ELSE b[s[i] - w + 1]
  BY <1>1 DEF Shuf
<1>3. p \in 0 .. w - 1 => p < w /\ ~(p + w < w) /\ (p + w) - w + 1 = p + 1
  OBVIOUS
<1>4. First(w, s, i, p) => TakesFirst(s, i, p)
  BY <1>2, <1>3 DEF First, TakesFirst
<1>5. Second(w, s, i, p) => TakesSecond(s, i, p)
  BY <1>2, <1>3 DEF Second, TakesSecond
<1> QED
  BY <1>4, <1>5

\* The widths a kernel shuffles at, and a bit of a place.
Widths == {4, 8, 16}
Bit == {0, 1}

\* Place n by its group of four and its two bits in it.
Bits(n, q, e, f) == q \in Nat /\ e \in Bit /\ f \in Bit /\ n = 4 * q + 2 * e + f

\* Place 4q + 2e + f by its bits.
LEMMA Place ==
  ASSUME NEW n, NEW q, NEW e, NEW f, Bits(n, q, e, f)
  PROVE  n \in Nat /\ n \div 4 = q /\ n % 4 = 2 * e + f /\ (n % 4) \div 2 = e /\ n % 2 = f
<1>0. q \in Nat /\ e \in Bit /\ f \in Bit /\ n = 4 * q + 2 * e + f
  BY DEF Bits
<1>1. PICK t \in 0 .. 3 : t = 2 * e + f /\ t \div 2 = e /\ t % 2 = f
  BY <1>0 DEF Bit
<1>2. n = 4 * q + t /\ n \in Nat
  BY <1>0, <1>1 DEF Bit
<1>3. n \div 4 = q /\ n % 4 = t
  BY <1>0, <1>2
<1>4. n % 2 = f
  BY <1>0 DEF Bit
<1> QED
  BY <1>0, <1>1, <1>2, <1>3, <1>4

\* Such a place is one of the vector's.
LEMMA PlaceFits ==
  ASSUME NEW q \in Nat, NEW e \in Bit, NEW f \in Bit, NEW w \in Widths, 4 * q + 3 < w
  PROVE  4 * q + 2 * e + f + 1 \in 1 .. w /\ 4 * q + 2 * e + f \in 0 .. w - 1 /\ w \in Nat
BY DEF Bit, Widths

\* unpack_lo32/hi32: words of the two sources alternate.
LEMMA Unpack32At ==
  ASSUME NEW w \in Widths, NEW h \in Bit, NEW a, NEW b,
         NEW q \in Nat, 4 * q + 3 < w, NEW e \in Bit, NEW f \in Bit
  PROVE  Shuf(Unpack32(w, h), a, b)[4 * q + 2 * e + f + 1]
           = IF f = 0 THEN a[4 * q + 2 * h + e + 1] ELSE b[4 * q + 2 * h + e + 1]
<1> DEFINE u == Unpack32(w, h)
<1>1. PICK n : n = 4 * q + 2 * e + f
  OBVIOUS
<1>2. n \in Nat /\ n \div 4 = q /\ (n % 4) \div 2 = e /\ n % 2 = f
  <2>1. Bits(n, q, e, f)
    BY <1>1 DEF Bits
  <2> QED
    BY <2>1, Place
<1>3. n + 1 \in 1 .. w /\ w \in Nat
  BY <1>1, PlaceFits
<1>4. PICK p \in 0 .. w - 1 : p = 4 * q + 2 * h + e
  BY <1>3, PlaceFits DEF Bit, Widths
<1>5. IsList(w, u)
  BY DEF IsList, Unpack32, Indices
<1>6. u[n + 1] = 4 * (((n + 1) - 1) \div 4) + 2 * h + ((((n + 1) - 1) % 4) \div 2)
                  + w * (((n + 1) - 1) % 2)
  BY <1>3 DEF Unpack32, Indices
<1>7. (n + 1) - 1 = n
  BY <1>2
<1>8. u[n + 1] = p + w * f
  BY <1>2, <1>4, <1>6, <1>7
<1> HIDE DEF u
<1>9. Shuf(u, a, b)[n + 1] = IF f = 0 THEN a[p + 1] ELSE b[p + 1]
  <2>1. CASE f = 0
    <3>1. First(w, u, n + 1, p)
      BY <1>3, <1>8, <2>1 DEF First
    <3>2. TakesFirst(u, n + 1, p)
      BY <1>3, <1>5, <3>1, ShufAt
    <3> QED
      BY <2>1, <3>2 DEF TakesFirst
  <2>2. CASE f = 1
    <3>1. Second(w, u, n + 1, p)
      BY <1>3, <1>8, <2>2 DEF Second
    <3>2. TakesSecond(u, n + 1, p)
      BY <1>3, <1>5, <3>1, ShufAt
    <3> QED
      BY <2>2, <3>2 DEF TakesSecond
  <2> QED
    BY <2>1, <2>2 DEF Bit
<1> QED
  BY <1>1, <1>4, <1>9 DEF u

\* unpack_lo64/hi64: pairs of words of the two sources alternate.
LEMMA Unpack64At ==
  ASSUME NEW w \in Widths, NEW h \in Bit, NEW a, NEW b,
         NEW q \in Nat, 4 * q + 3 < w, NEW e \in Bit, NEW f \in Bit
  PROVE  Shuf(Unpack64(w, h), a, b)[4 * q + 2 * e + f + 1]
           = IF e = 0 THEN a[4 * q + 2 * h + f + 1] ELSE b[4 * q + 2 * h + f + 1]
<1> DEFINE u == Unpack64(w, h)
<1>1. PICK n : n = 4 * q + 2 * e + f
  OBVIOUS
<1>2. n \in Nat /\ n \div 4 = q /\ (n % 4) \div 2 = e /\ n % 2 = f
  <2>1. Bits(n, q, e, f)
    BY <1>1 DEF Bits
  <2> QED
    BY <2>1, Place
<1>3. n + 1 \in 1 .. w /\ w \in Nat
  BY <1>1, PlaceFits
<1>4. PICK p \in 0 .. w - 1 : p = 4 * q + 2 * h + f
  BY <1>3, PlaceFits DEF Bit, Widths
<1>5. IsList(w, u)
  BY DEF IsList, Unpack64, Indices
<1>6. u[n + 1] = 4 * (((n + 1) - 1) \div 4) + 2 * h + (((n + 1) - 1) % 2)
                  + w * ((((n + 1) - 1) % 4) \div 2)
  BY <1>3 DEF Unpack64, Indices
<1>7. (n + 1) - 1 = n
  BY <1>2
<1>8. u[n + 1] = p + w * e
  BY <1>2, <1>4, <1>6, <1>7
<1> HIDE DEF u
<1>9. Shuf(u, a, b)[n + 1] = IF e = 0 THEN a[p + 1] ELSE b[p + 1]
  <2>1. CASE e = 0
    <3>1. First(w, u, n + 1, p)
      BY <1>3, <1>8, <2>1 DEF First
    <3>2. TakesFirst(u, n + 1, p)
      BY <1>3, <1>5, <3>1, ShufAt
    <3> QED
      BY <2>1, <3>2 DEF TakesFirst
  <2>2. CASE e = 1
    <3>1. Second(w, u, n + 1, p)
      BY <1>3, <1>8, <2>2 DEF Second
    <3>2. TakesSecond(u, n + 1, p)
      BY <1>3, <1>5, <3>1, ShufAt
    <3> QED
      BY <2>2, <3>2 DEF TakesSecond
  <2> QED
    BY <2>1, <2>2 DEF Bit
<1> QED
  BY <1>1, <1>4, <1>9 DEF u

\* Word 2e + f of group q of register 2x + y is word 2x + y of register 2e + f.
InlaneBits(w, r, m, x, y, q, e, f) ==
  Inlane4x4(w, r)[4 * m + 2 * x + y][4 * q + 2 * e + f + 1]
    = r[4 * m + 2 * e + f][4 * q + 2 * x + y + 1]

\* inlane_4x4() transposes each four by four words of four registers.
LEMMA InlaneAt ==
  ASSUME NEW w \in Widths, NEW n \in Widths, NEW r, DOMAIN r = 0 .. n - 1,
         NEW m \in Nat, 4 * m + 3 < n, NEW x \in Bit, NEW y \in Bit,
         NEW q \in Nat, 4 * q + 3 < w, NEW e \in Bit, NEW f \in Bit
  PROVE  /\ InlaneBits(w, r, m, x, y, q, e, f)
         /\ DOMAIN Inlane4x4(w, r) = 0 .. n - 1
<1> DEFINE a == UnpackStage32(w, r)
<1>1. DOMAIN a = 0 .. n - 1
  BY DEF UnpackStage32
<1>2. ASSUME NEW i \in Bit, NEW j \in Bit, NEW k \in Bit, NEW l \in Bit
      PROVE  a[4 * m + 2 * i + j][4 * q + 2 * k + l + 1]
               = r[4 * m + 2 * i + l][4 * q + 2 * j + k + 1]
  <2>1. PICK at : at = 4 * m + 2 * i + j
    OBVIOUS
  <2>2. at % 2 = j /\ at \in Nat
    <3>1. Bits(at, m, i, j)
      BY <2>1 DEF Bits
    <3> QED
      BY <3>1, Place
  <2>3. at \in 0 .. n - 1
    BY <2>1, PlaceFits
  <2>4. PICK lo \in Nat : lo = 4 * m + 2 * i /\ at - j = lo
    BY <2>1 DEF Bit
  <2>5. a[at] = Shuf(Unpack32(w, at % 2), r[at - (at % 2)], r[at - (at % 2) + 1])
    BY <2>3 DEF UnpackStage32
  <2>6. a[at] = Shuf(Unpack32(w, j), r[lo], r[lo + 1])
    BY <2>2, <2>4, <2>5
  <2>7. a[at][4 * q + 2 * k + l + 1]
          = IF l = 0 THEN r[lo][4 * q + 2 * j + k + 1] ELSE r[lo + 1][4 * q + 2 * j + k + 1]
    BY <2>6, Unpack32At
  <2>8. (l = 0 => lo + l = lo) /\ (l # 0 => l = 1 /\ lo + l = lo + 1)
    BY <2>4 DEF Bit
  <2>9. a[at][4 * q + 2 * k + l + 1] = r[lo + l][4 * q + 2 * j + k + 1]
    BY <2>7, <2>8
  <2> QED
    BY <2>1, <2>4, <2>9
<1> HIDE DEF a
<1>3. PICK at : at = 4 * m + 2 * x + y
  OBVIOUS
<1>4. at % 2 = y /\ at % 4 = 2 * x + y /\ (at % 4) \div 2 = x /\ at \in Nat
  <2>1. Bits(at, m, x, y)
    BY <1>3 DEF Bits
  <2> QED
    BY <2>1, Place
<1>5. at \in 0 .. n - 1
  BY <1>3, PlaceFits
<1>6. PICK lo \in Nat : lo = 4 * m + x /\ at - (2 * x + y) + x = lo
  BY <1>3 DEF Bit
<1>7. Inlane4x4(w, r)[at]
        = Shuf(Unpack64(w, at % 2), a[at - (at % 4) + ((at % 4) \div 2)],
               a[at - (at % 4) + ((at % 4) \div 2) + 2])
  BY <1>1, <1>5 DEF Inlane4x4, UnpackStage64, a
<1>8. Inlane4x4(w, r)[at] = Shuf(Unpack64(w, y), a[lo], a[lo + 2])
  BY <1>4, <1>6, <1>7
<1>9. Inlane4x4(w, r)[at][4 * q + 2 * e + f + 1]
        = IF e = 0 THEN a[lo][4 * q + 2 * y + f + 1] ELSE a[lo + 2][4 * q + 2 * y + f + 1]
  BY <1>8, Unpack64At
<1>10. (e = 0 => 4 * m + 2 * e + x = lo) /\ (e # 0 => 4 * m + 2 * e + x = lo + 2)
  BY <1>6 DEF Bit
<1>11. Inlane4x4(w, r)[at][4 * q + 2 * e + f + 1] = a[4 * m + 2 * e + x][4 * q + 2 * y + f + 1]
  BY <1>9, <1>10
<1>12. DOMAIN Inlane4x4(w, r) = 0 .. n - 1
  BY <1>1 DEF Inlane4x4, UnpackStage64, a
<1> QED
  BY <1>2, <1>3, <1>11, <1>12 DEF InlaneBits

\* Place n by its group of eight, its half in it and its place there.
Octet(n, g, u, t) == g \in Nat /\ u \in Bit /\ t \in 0 .. 3 /\ n = 8 * g + 4 * u + t

\* The quotients and remainders of such a place.
LEMMA OctetIs ==
  ASSUME NEW n, NEW g, NEW u, NEW t, Octet(n, g, u, t)
  PROVE  /\ n \in Nat /\ n \div 8 = g /\ n % 8 = 4 * u + t /\ n % 4 = t /\ (n \div 4) % 2 = u
<1>0. g \in Nat /\ u \in Bit /\ t \in 0 .. 3 /\ n = 8 * g + 4 * u + t
  BY DEF Octet
<1>1. PICK v \in 0 .. 7 : v = 4 * u + t
  BY <1>0 DEF Bit
<1>2. n = 8 * g + v /\ n \in Nat
  BY <1>0, <1>1 DEF Bit
<1>3. n \div 8 = g /\ n % 8 = v
  BY <1>0, <1>2
<1>4. PICK d \in Nat : d = 2 * g + u
  BY <1>0 DEF Bit
<1>5. n = 4 * d + t
  BY <1>0, <1>4 DEF Bit
<1>6. n \div 4 = d /\ n % 4 = t
  BY <1>0, <1>5
<1>7. d % 2 = u
  BY <1>0, <1>4 DEF Bit
<1> QED
  BY <1>1, <1>2, <1>3, <1>6, <1>7

\* Half u of register 4h + s is what half h of register 4u + s was.
GroupMoves(b, m, h, s, g, u, t) ==
  GroupStage(b)[8 * m + 4 * h + s][8 * g + 4 * u + t + 1] = b[8 * m + 4 * u + s][8 * g + 4 * h + t + 1]

\* The stage that merges groups of four words exchanges them between groups.
LEMMA GroupAt ==
  ASSUME NEW b, DOMAIN b = 0 .. 15, NEW m \in Bit, NEW h \in Bit, NEW s \in 0 .. 3,
         NEW g \in Bit, NEW u \in Bit, NEW t \in 0 .. 3
  PROVE  /\ GroupMoves(b, m, h, s, g, u, t)
         /\ DOMAIN GroupStage(b) = 0 .. 15
<1>1. PICK k : k = 8 * m + 4 * h + s
  OBVIOUS
<1>2. Octet(k, m, h, s)
  BY <1>1 DEF Octet, Bit
<1>3. k \in Nat /\ k % 8 = 4 * h + s /\ k % 4 = s /\ (k \div 4) % 2 = h
  BY <1>2, OctetIs
<1>4. k \in 0 .. 15
  BY <1>1 DEF Bit
<1>5. PICK lo \in Nat : lo = 8 * m + s /\ k - (4 * h + s) + s = lo
  BY <1>1 DEF Bit
<1>6. GroupStage(b)[k] = Shuf(MergeGroups(16, (k \div 4) % 2), b[k - (k % 8) + (k % 4)],
                              b[k - (k % 8) + (k % 4) + 4])
  BY <1>4 DEF GroupStage
<1>7. GroupStage(b)[k] = Shuf(MergeGroups(16, h), b[lo], b[lo + 4])
  BY <1>3, <1>5, <1>6
<1>8. PICK n : n = 8 * g + 4 * u + t
  OBVIOUS
<1>9. Octet(n, g, u, t)
  BY <1>8 DEF Octet, Bit
<1>10. n \in Nat /\ n \div 8 = g /\ n % 4 = t /\ (n \div 4) % 2 = u
  BY <1>9, OctetIs
<1>11. n + 1 \in 1 .. 16 /\ (n + 1) - 1 = n
  BY <1>8, <1>10 DEF Bit
<1> DEFINE l == MergeGroups(16, h)
<1>12. IsList(16, l)
  BY DEF IsList, MergeGroups, Indices
<1>13. l[n + 1] = 8 * (((n + 1) - 1) \div 8) + 4 * h + (((n + 1) - 1) % 4)
                   + 16 * ((((n + 1) - 1) \div 4) % 2)
  BY <1>11 DEF MergeGroups, Indices
<1>14. PICK p \in 0 .. 15 : p = 8 * g + 4 * h + t
  BY DEF Bit
<1>15. l[n + 1] = p + 16 * u
  BY <1>10, <1>11, <1>13, <1>14
<1> HIDE DEF l
<1>16. Shuf(l, b[lo], b[lo + 4])[n + 1] = IF u = 0 THEN b[lo][p + 1] ELSE b[lo + 4][p + 1]
  <2>1. CASE u = 0
    <3>1. First(16, l, n + 1, p)
      BY <1>11, <1>15, <2>1 DEF First
    <3>2. TakesFirst(l, n + 1, p)
      BY <1>12, <3>1, ShufAt
    <3> QED
      BY <2>1, <3>2 DEF TakesFirst
  <2>2. CASE u = 1
    <3>1. Second(16, l, n + 1, p)
      BY <1>11, <1>15, <2>2 DEF Second
    <3>2. TakesSecond(l, n + 1, p)
      BY <1>12, <3>1, ShufAt
    <3> QED
      BY <2>2, <3>2 DEF TakesSecond
  <2> QED
    BY <2>1, <2>2 DEF Bit
<1>17. (u = 0 => 8 * m + 4 * u + s = lo) /\ (u # 0 => 8 * m + 4 * u + s = lo + 4)
  BY <1>5 DEF Bit
<1>18. Shuf(l, b[lo], b[lo + 4])[n + 1] = b[8 * m + 4 * u + s][p + 1]
  BY <1>16, <1>17
<1>19. DOMAIN GroupStage(b) = 0 .. 15
  BY DEF GroupStage
<1> QED
  BY <1>1, <1>7, <1>8, <1>14, <1>18, <1>19 DEF l, GroupMoves

\* Place n by its half of the vector and its place there.
Halved(n, half, g, t) == g \in Bit /\ t \in 0 .. half - 1 /\ n = half * g + t

\* The quotient and remainder of such a place.
LEMMA HalvedIs ==
  ASSUME NEW half \in {4, 8}, NEW n, NEW g, NEW t, Halved(n, half, g, t)
  PROVE  n \in 0 .. 2 * half - 1 /\ n \div half = g /\ n % half = t
<1>0. g \in Bit /\ t \in 0 .. half - 1 /\ n = half * g + t
  BY DEF Halved
<1>1. CASE half = 4
  BY <1>0, <1>1 DEF Bit
<1>2. CASE half = 8
  BY <1>0, <1>2 DEF Bit
<1> QED
  BY <1>1, <1>2

\* Half u of register k in half h is what half h of register s in half u was.
HalfMoves(half, c, k, h, s, n, u, t) ==
  HalfStage(2 * half, c)[k][n + 1] = c[half * u + s][half * h + t + 1]

\* The stage that merges halves exchanges them.
LEMMA HalfAt ==
  ASSUME NEW half \in {4, 8}, NEW c, DOMAIN c = 0 .. 2 * half - 1,
         NEW k, NEW h, NEW s, Halved(k, half, h, s), NEW n, NEW u, NEW t, Halved(n, half, u, t)
  PROVE  HalfMoves(half, c, k, h, s, n, u, t)
<1>0. /\ h \in Bit /\ s \in 0 .. half - 1 /\ k = half * h + s
      /\ u \in Bit /\ t \in 0 .. half - 1 /\ n = half * u + t
  BY DEF Halved
<1>1. k \in 0 .. 2 * half - 1 /\ k \div half = h /\ k % half = s
  BY HalvedIs
<1>2. n \in 0 .. 2 * half - 1 /\ n \div half = u /\ n % half = t
  BY HalvedIs
<1>3. PICK w \in Nat : w = 2 * half /\ w \div 2 = half
  OBVIOUS
<1>4. HalfStage(w, c)[k] = Shuf(MergeHalves(w, h), c[s], c[s + half])
  BY <1>1, <1>3 DEF HalfStage
<1>5. n + 1 \in 1 .. w /\ (n + 1) - 1 = n
  BY <1>2, <1>3
<1> DEFINE l == MergeHalves(w, h)
<1>6. IsList(w, l)
  BY DEF IsList, MergeHalves, Indices
<1>7. l[n + 1] = (w \div 2) * h + (((n + 1) - 1) % (w \div 2)) + w * (((n + 1) - 1) \div (w \div 2))
  BY <1>5 DEF MergeHalves, Indices
<1>8. PICK p \in 0 .. w - 1 : p = half * h + t
  <2>1. half * h + t \in 0 .. 2 * half - 1
    <3>1. CASE half = 4
      BY <1>0, <3>1 DEF Bit
    <3>2. CASE half = 8
      BY <1>0, <3>2 DEF Bit
    <3> QED
      BY <3>1, <3>2
  <2> QED
    BY <1>3, <2>1
<1>9. l[n + 1] = p + w * u
  BY <1>2, <1>3, <1>5, <1>7, <1>8
<1> HIDE DEF l
<1>10. CASE u = 0
  <2>1. First(w, l, n + 1, p)
    BY <1>3, <1>5, <1>8, <1>9, <1>10 DEF First
  <2>2. Shuf(l, c[s], c[s + half])[n + 1] = c[s][p + 1]
    <3>1. TakesFirst(l, n + 1, p)
      BY <1>3, <1>6, <2>1, ShufAt
    <3> QED
      BY <3>1 DEF TakesFirst
  <2>3. half * u + s = s
    BY <1>0, <1>10
  <2> QED
    BY <1>3, <1>4, <1>8, <2>2, <2>3 DEF l, HalfMoves
<1>11. CASE u = 1
  <2>1. Second(w, l, n + 1, p)
    BY <1>3, <1>5, <1>8, <1>9, <1>11 DEF Second
  <2>2. Shuf(l, c[s], c[s + half])[n + 1] = c[s + half][p + 1]
    <3>1. TakesSecond(l, n + 1, p)
      BY <1>3, <1>6, <2>1, ShufAt
    <3> QED
      BY <3>1 DEF TakesSecond
  <2>3. half * u + s = s + half
    BY <1>0, <1>11
  <2> QED
    BY <1>3, <1>4, <1>8, <2>2, <2>3 DEF l, HalfMoves
<1> QED
  BY <1>0, <1>10, <1>11 DEF Bit

\* Word i of register k is what word k of register i was.
Transposes(w, r) == \A k, i \in 0 .. w - 1 : TransposeNet(w, r)[k][i + 1] = r[i][k + 1]

\* Words 4q .. 4q + 3 of w, or registers.
Room(q, w) == q \in Nat /\ 4 * q + 3 < w

\* Word t of group q of register s is what word s of register t was.
InlaneMoves(w, r, m, s, q, t) ==
  Inlane4x4(w, r)[4 * m + s][4 * q + t + 1] = r[4 * m + t][4 * q + s + 1]

\* inlane_4x4() by the numbers of words.
LEMMA InlaneIs ==
  ASSUME NEW w \in Widths, NEW n \in Widths, NEW r, DOMAIN r = 0 .. n - 1,
         NEW m, Room(m, n), NEW s \in 0 .. 3, NEW q, Room(q, w), NEW t \in 0 .. 3
  PROVE  InlaneMoves(w, r, m, s, q, t) /\ DOMAIN Inlane4x4(w, r) = 0 .. n - 1
<1>0. m \in Nat /\ 4 * m + 3 < n /\ q \in Nat /\ 4 * q + 3 < w
  BY DEF Room
<1>1. PICK x \in Bit, y \in Bit : s = 2 * x + y
  BY DEF Bit
<1>2. PICK e \in Bit, f \in Bit : t = 2 * e + f
  BY DEF Bit
<1>3. /\ 4 * m + 2 * x + y = 4 * m + s /\ 4 * q + 2 * e + f + 1 = 4 * q + t + 1
      /\ 4 * m + 2 * e + f = 4 * m + t /\ 4 * q + 2 * x + y + 1 = 4 * q + s + 1
  BY <1>0, <1>1, <1>2 DEF Bit
<1>4. InlaneBits(w, r, m, x, y, q, e, f) /\ DOMAIN Inlane4x4(w, r) = 0 .. n - 1
  BY <1>0, InlaneAt
<1> QED
  BY <1>3, <1>4 DEF InlaneMoves, InlaneBits

\* transpose_net() transposes at every width it has.
LEMMA NetTransposes ==
  ASSUME NEW w \in Widths, NEW r, DOMAIN r = 0 .. w - 1
  PROVE  Transposes(w, r)
<1> DEFINE b == Inlane4x4(w, r)
<1>0. DOMAIN b = 0 .. w - 1
  BY DEF Inlane4x4, UnpackStage64, UnpackStage32
<1>1. CASE w = 4
  <2> SUFFICES ASSUME NEW k \in 0 .. 3, NEW i \in 0 .. 3
               PROVE  TransposeNet(4, r)[k][i + 1] = r[i][k + 1]
    BY <1>1 DEF Transposes
  <2>1. b[4 * 0 + k][4 * 0 + i + 1] = r[4 * 0 + i][4 * 0 + k + 1]
    <3>1. Room(0, w)
      BY <1>1 DEF Room
    <3>2. InlaneMoves(w, r, 0, k, 0, i)
      BY <3>1, InlaneIs
    <3> QED
      BY <3>2 DEF InlaneMoves
  <2>2. 4 * 0 + k = k /\ 4 * 0 + i = i
    OBVIOUS
  <2> QED
    BY <1>1, <2>1, <2>2 DEF TransposeNet
<1>2. CASE w = 8
  <2> SUFFICES ASSUME NEW k \in 0 .. 7, NEW i \in 0 .. 7
               PROVE  TransposeNet(8, r)[k][i + 1] = r[i][k + 1]
    BY <1>2 DEF Transposes
  <2>1. PICK h \in Bit, s \in 0 .. 3 : k = 4 * h + s
    BY DEF Bit
  <2>2. PICK u \in Bit, t \in 0 .. 3 : i = 4 * u + t
    BY DEF Bit
  <2>3. Halved(k, 4, h, s) /\ Halved(i, 4, u, t)
    BY <2>1, <2>2 DEF Halved
  <2>4. HalfStage(2 * 4, b)[k][i + 1] = b[4 * u + s][4 * h + t + 1]
    <3>1. HalfMoves(4, b, k, h, s, i, u, t)
      BY <1>0, <1>2, <2>3, HalfAt
    <3> QED
      BY <3>1 DEF HalfMoves
  <2>5. b[4 * u + s][4 * h + t + 1] = r[4 * u + t][4 * h + s + 1]
    <3>1. Room(h, w) /\ Room(u, w)
      BY <1>2 DEF Bit, Room
    <3>2. InlaneMoves(w, r, u, s, h, t)
      BY <3>1, InlaneIs
    <3> QED
      BY <3>2 DEF InlaneMoves
  <2>6. TransposeNet(8, r) = HalfStage(2 * 4, b)
    BY <1>2 DEF TransposeNet
  <2> QED
    BY <2>1, <2>2, <2>4, <2>5, <2>6
<1>3. CASE w = 16
  <2> SUFFICES ASSUME NEW k \in 0 .. 15, NEW i \in 0 .. 15
               PROVE  TransposeNet(16, r)[k][i + 1] = r[i][k + 1]
    BY <1>3 DEF Transposes
  <2> DEFINE c == GroupStage(b)
  <2>1. PICK h \in Bit, g \in Bit, s \in 0 .. 3 : k = 8 * h + 4 * g + s
    BY DEF Bit
  <2>2. PICK u \in Bit, v \in Bit, t \in 0 .. 3 : i = 8 * u + 4 * v + t
    BY DEF Bit
  <2>3. PICK x \in 0 .. 7, y \in 0 .. 7 : x = 4 * g + s /\ y = 4 * v + t
    BY DEF Bit
  <2>4. Halved(k, 8, h, x) /\ Halved(i, 8, u, y)
    BY <2>1, <2>2, <2>3 DEF Halved, Bit
  <2>5. DOMAIN c = 0 .. 15
    BY <1>0, <1>3 DEF GroupStage
  <2> HIDE DEF c
  <2>6. HalfStage(2 * 8, c)[k][i + 1] = c[8 * u + x][8 * h + y + 1]
    <3>1. HalfMoves(8, c, k, h, x, i, u, y)
      BY <2>4, <2>5, HalfAt
    <3> QED
      BY <3>1 DEF HalfMoves
  <2>7. c[8 * u + 4 * g + s][8 * h + 4 * v + t + 1] = b[8 * u + 4 * v + s][8 * h + 4 * g + t + 1]
    <3>1. GroupMoves(b, u, g, s, h, v, t)
      BY <1>0, <1>3, GroupAt
    <3> QED
      BY <3>1 DEF c, GroupMoves
  <2>8. 8 * u + x = 8 * u + 4 * g + s /\ 8 * h + y + 1 = 8 * h + 4 * v + t + 1
    BY <2>3 DEF Bit
  <2>9. PICK m \in 0 .. 3, q \in 0 .. 3 : m = 2 * u + v /\ q = 2 * h + g
    BY DEF Bit
  <2>10. b[4 * m + s][4 * q + t + 1] = r[4 * m + t][4 * q + s + 1]
    <3>1. Room(m, w) /\ Room(q, w)
      BY <1>3 DEF Room
    <3>2. InlaneMoves(w, r, m, s, q, t)
      BY <3>1, InlaneIs
    <3> QED
      BY <3>2 DEF InlaneMoves
  <2>11. /\ 4 * m + s = 8 * u + 4 * v + s /\ 4 * q + t + 1 = 8 * h + 4 * g + t + 1
         /\ 4 * m + t = i /\ 4 * q + s + 1 = k + 1
    BY <2>1, <2>2, <2>9 DEF Bit
  <2>12. TransposeNet(16, r) = HalfStage(2 * 8, c)
    BY <1>3 DEF TransposeNet, c
  <2> HIDE DEF b
  <2>13. c[8 * u + x][8 * h + y + 1] = r[i][k + 1]
    BY <2>7, <2>8, <2>10, <2>11
  <2> QED
    BY <2>6, <2>12, <2>13
<1> QED
  BY <1>1, <1>2, <1>3 DEF Widths

-----------------------------------------------------------------------------
(* Loads and stores *)

\* n vectors from vector g * n on, every word where the compression left it.
Vectors(w, g, n) == [j \in 0 .. n - 1 |-> [l \in 1 .. w |-> <<l - 1, g * n + j>>]]

\* Lane l of vector j is word j of input l, and word j of block l is of lane l.
LoadsAt(kernel, mode, l, j) == LoadTransposed(kernel, mode)[j][l + 1] = <<l, j>>
StoresAt(kernel, mode, l, j) == StoreTransposed(kernel, mode)[l][j] = <<l, j>>

\* A word's place in a list of w at a time.
LEMMA WordAt ==
  ASSUME NEW w \in Widths, NEW j \in Words
  PROVE  \E d \in Nat, s \in 0 .. w - 1 : d = j \div w /\ s = j % w /\ j = d * w + s
<1>1. j \in Nat /\ w \in Nat \ {0}
  BY DEF Words, Widths
<1> QED
  BY <1>1, DivMod

\* A kernel's shuffles are of the widths there are.
LEMMA ShuffledWidth ==
  ASSUME NEW kernel \in Kernels, NEW mode, ~Staging(kernel, mode)
  PROVE  kernel.width \in Widths
BY KernelAssumption DEF Staging, KernelSet, Widths

\* The vectors a batch is loaded into hold word j of lane l in place.
LEMMA LoadsInPlace ==
  ASSUME NEW kernel \in Kernels, NEW mode \in Modes, NEW l \in LanesOf(kernel.width), NEW j \in Words
  PROVE  LoadsAt(kernel, mode, l, j)
<1>1. PICK w \in {1, 4, 8, 16} : w = kernel.width
  BY KernelAssumption DEF KernelSet
<1>2. l \in 0 .. w - 1
  BY <1>1 DEF LanesOf
<1>3. CASE Staging(kernel, mode)
  <2>1. LoadTransposed(kernel, mode) = Gathered(w)
    BY <1>1, <1>3 DEF LoadTransposed
  <2>2. l + 1 \in 1 .. w /\ (l + 1) - 1 = l
    BY <1>1, <1>2
  <2>3. Gathered(w)[j][l + 1] = <<(l + 1) - 1, j>>
    BY <2>2 DEF Gathered
  <2> QED
    BY <2>1, <2>2, <2>3 DEF LoadsAt
<1>4. CASE ~Staging(kernel, mode) /\ w = 16 /\ mode = "quartered"
  <2>1. 16 \in Widths /\ 4 \in Widths /\ l \in 0 .. 15
    BY <1>2, <1>4 DEF Widths
  <2>2. PICK d \in Nat, s \in 0 .. 3 : d = j \div 4 /\ s = j % 4 /\ j = d * 4 + s
    BY DEF Words
  <2>3. PICK q \in 0 .. 3, t \in 0 .. 3 : l = 4 * q + t
    BY <2>1
  <2> DEFINE r == Quarter(d)
  <2>4. DOMAIN r = 0 .. 4 - 1
    BY DEF Quarter
  <2>5. LoadTransposed(kernel, mode)[j] = Inlane4x4(16, r)[s]
    BY <1>1, <1>4, <2>2 DEF LoadTransposed
  <2>6. PICK p : p = 4 * q + s
    OBVIOUS
  <2>7. p + 1 \in 1 .. 16 /\ (p + 1) - 1 = p /\ p \div 4 = q /\ p % 4 = s
    BY <2>6
  <2>8. r[t][p + 1] = <<4 * (((p + 1) - 1) \div 4) + t, 4 * d + (((p + 1) - 1) % 4)>>
    BY <2>7 DEF Quarter
  <2>9. 4 * q + t = l /\ 4 * d + s = j
    BY <2>2, <2>3
  <2>10. r[t][p + 1] = <<l, j>>
    BY <2>7, <2>8, <2>9
  <2>11. InlaneMoves(16, r, 0, s, q, t)
    <3>1. Room(0, 4) /\ Room(q, 16)
      BY DEF Room
    <3> HIDE DEF r
    <3> QED
      BY <2>1, <2>4, <3>1, InlaneIs
  <2> HIDE DEF r
  <2>12. 4 * 0 + s = s /\ 4 * 0 + t = t /\ 4 * q + t + 1 = l + 1 /\ 4 * q + s + 1 = p + 1
    BY <2>3, <2>6
  <2>13. Inlane4x4(16, r)[s][l + 1] = r[t][p + 1]
    BY <2>11, <2>12 DEF InlaneMoves
  <2> QED
    BY <2>5, <2>10, <2>13 DEF LoadsAt
<1>5. CASE ~Staging(kernel, mode) /\ ~(w = 16 /\ mode = "quartered")
  <2>1. w \in Widths
    BY <1>1, <1>5, ShuffledWidth
  <2>2. PICK d \in Nat, s \in 0 .. w - 1 : d = j \div w /\ s = j % w /\ j = d * w + s
    BY <2>1, WordAt
  <2> DEFINE r == Group16(w, d)
  <2>3. DOMAIN r = 0 .. w - 1
    BY DEF Group16, LanesOf
  <2>4. LoadTransposed(kernel, mode)[j] = TransposeNet(w, r)[s]
    BY <1>1, <1>5, <2>2 DEF LoadTransposed
  <2>5. Transposes(w, r)
    <3> HIDE DEF r
    <3> QED
      BY <2>1, <2>3, NetTransposes
  <2>6. TransposeNet(w, r)[s][l + 1] = r[l][s + 1]
    BY <1>2, <2>2, <2>5 DEF Transposes
  <2>7. s + 1 \in 1 .. w
    BY <2>1, <2>2 DEF Widths
  <2>8. r[l][s + 1] = <<l, d * w + (s + 1) - 1>>
    BY <1>2, <2>7 DEF Group16, LanesOf
  <2>9. PICK e \in Nat : e = d * w
    BY <2>1, <2>2 DEF Widths
  <2>10. d * w + (s + 1) - 1 = j
    <3>1. j = e + s
      BY <2>2, <2>9
    <3> QED
      BY <2>2, <2>9, <3>1
  <2> QED
    BY <2>4, <2>6, <2>8, <2>10 DEF LoadsAt
<1> QED
  BY <1>3, <1>4, <1>5

\* The blocks a batch is stored to hold word j of lane l in place.
LEMMA StoresInPlace ==
  ASSUME NEW kernel \in Kernels, NEW mode \in Modes, NEW l \in LanesOf(kernel.width), NEW j \in Words
  PROVE  StoresAt(kernel, mode, l, j)
<1>1. PICK w \in {1, 4, 8, 16} : w = kernel.width
  BY KernelAssumption DEF KernelSet
<1>2. l \in 0 .. w - 1
  BY <1>1 DEF LanesOf
<1>3. CASE Staging(kernel, mode)
  <2>1. StoreTransposed(kernel, mode)[l][j] = Gathered(w)[j][l + 1]
    BY <1>1, <1>3 DEF StoreTransposed
  <2>2. l + 1 \in 1 .. w /\ (l + 1) - 1 = l
    BY <1>1, <1>2
  <2>3. Gathered(w)[j][l + 1] = <<(l + 1) - 1, j>>
    BY <2>2 DEF Gathered
  <2> QED
    BY <2>1, <2>2, <2>3 DEF StoresAt
<1>4. CASE ~Staging(kernel, mode) /\ w = 16 /\ mode = "quartered"
  <2>1. 16 \in Widths /\ 4 \in Widths /\ l \in 0 .. 15
    BY <1>2, <1>4 DEF Widths
  <2>2. PICK d \in Nat, s \in 0 .. 3 : d = j \div 4 /\ s = j % 4 /\ j = d * 4 + s
    BY DEF Words
  <2>3. PICK q \in 0 .. 3, t \in 0 .. 3 : q = l \div 4 /\ t = l % 4 /\ l = 4 * q + t
    BY <2>1
  <2> DEFINE r == Vectors(16, d, 4)
  <2>4. DOMAIN r = 0 .. 4 - 1
    BY DEF Vectors
  <2>5. StoreTransposed(kernel, mode)[l][j] = Inlane4x4(16, r)[t][4 * q + s + 1]
    BY <1>1, <1>4, <2>2, <2>3 DEF StoreTransposed, Vectors
  <2>6. l + 1 \in 1 .. 16 /\ (l + 1) - 1 = l
    BY <2>1
  <2>7. r[s][l + 1] = <<(l + 1) - 1, d * 4 + s>>
    BY <2>6 DEF Vectors
  <2>8. r[s][l + 1] = <<l, j>>
    BY <2>2, <2>6, <2>7
  <2>9. InlaneMoves(16, r, 0, t, q, s)
    <3>1. Room(0, 4) /\ Room(q, 16)
      BY DEF Room
    <3> HIDE DEF r
    <3> QED
      BY <2>1, <2>4, <3>1, InlaneIs
  <2> HIDE DEF r
  <2>10. 4 * 0 + t = t /\ 4 * 0 + s = s /\ 4 * q + t + 1 = l + 1
    BY <2>3
  <2>11. Inlane4x4(16, r)[t][4 * q + s + 1] = r[s][l + 1]
    BY <2>9, <2>10 DEF InlaneMoves
  <2> QED
    BY <2>5, <2>8, <2>11 DEF StoresAt
<1>5. CASE ~Staging(kernel, mode) /\ ~(w = 16 /\ mode = "quartered")
  <2>1. w \in Widths
    BY <1>1, <1>5, ShuffledWidth
  <2>2. PICK d \in Nat, s \in 0 .. w - 1 : d = j \div w /\ s = j % w /\ j = d * w + s
    BY <2>1, WordAt
  <2> DEFINE r == Vectors(w, d, w)
  <2>3. DOMAIN r = 0 .. w - 1
    BY DEF Vectors
  <2>4. StoreTransposed(kernel, mode)[l][j] = TransposeNet(w, r)[l][s + 1]
    BY <1>1, <1>5, <2>2 DEF StoreTransposed, Vectors
  <2>5. Transposes(w, r)
    <3> HIDE DEF r
    <3> QED
      BY <2>1, <2>3, NetTransposes
  <2>6. TransposeNet(w, r)[l][s + 1] = r[s][l + 1]
    BY <1>2, <2>2, <2>5 DEF Transposes
  <2>7. l + 1 \in 1 .. w /\ (l + 1) - 1 = l
    BY <1>1, <1>2
  <2>8. r[s][l + 1] = <<(l + 1) - 1, d * w + s>>
    BY <2>2, <2>7 DEF Vectors
  <2> QED
    BY <2>2, <2>4, <2>6, <2>7, <2>8 DEF StoresAt
<1> QED
  BY <1>3, <1>4, <1>5

\* Lane l compresses input l, and block l is what lane l computed.
FromLane(kernel, mode, l) == LoadedFrom[kernel][mode][l] = l /\ StoredFrom[kernel][mode][l] = l

\* So every lane compresses its own input, and its output is stored as its block.
LEMMA LanesKeepTheirInputs ==
  ASSUME NEW kernel \in Kernels, NEW mode \in Modes, NEW l \in LanesOf(kernel.width)
  PROVE  FromLane(kernel, mode, l)
<1>1. LoadedFrom[kernel][mode][l] = l
  <2> DEFINE m == LoadTransposed(kernel, mode)
  <2>1. LoadedFrom[kernel][mode][l]
          = LET from == m[0][l + 1][1]
            IN IF \A j \in Words : m[j][l + 1] = <<from, j>> THEN from ELSE Scrambled
    BY DEF LoadedFrom
  <2>2. \A j \in Words : m[j][l + 1] = <<l, j>>
    BY LoadsInPlace DEF LoadsAt
  <2>3. 0 \in Words
    BY DEF Words
  <2> HIDE DEF m
  <2>4. m[0][l + 1][1] = l
    BY <2>2, <2>3
  <2> QED
    BY <2>1, <2>2, <2>4
<1>2. StoredFrom[kernel][mode][l] = l
  <2> DEFINE s == StoreTransposed(kernel, mode)
  <2>1. StoredFrom[kernel][mode][l]
          = LET from == s[l][0][1]
            IN IF \A j \in Words : s[l][j] = <<from, j>> THEN from ELSE Scrambled
    BY DEF StoredFrom
  <2>2. \A j \in Words : s[l][j] = <<l, j>>
    BY StoresInPlace DEF StoresAt
  <2>3. 0 \in Words
    BY DEF Words
  <2> HIDE DEF s
  <2>4. s[l][0][1] = l
    BY <2>2, <2>3
  <2> QED
    BY <2>1, <2>2, <2>4
<1> QED
  BY <1>1, <1>2 DEF FromLane

-----------------------------------------------------------------------------
(* hash_many() and xof_many() *)

\* counter_lanes() adds, for counters that two words hold.
LEMMA LanesCount ==
  ASSUME NEW c \in Nat, NEW l \in Nat, c + l < Word * Word
  PROVE  CounterLanes(c, l) = c + l
<1>1. Word \in Nat \ {0}
  BY KernelAssumption
<1>2. PICK s \in Nat : s = c + l
  OBVIOUS
<1>3. PICK q \in Nat, r \in 0 .. Word - 1 : q = s \div Word /\ r = s % Word /\ s = q * Word + r
  BY <1>1, DivMod
<1>4. q < Word
  <2>1. \A a, b \in Nat : a >= b => a * b >= b * b
    OBVIOUS
  <2>2. PICK p \in Nat : p = q * Word
    BY <1>1
  <2>3. PICK t \in Nat : t = Word * Word
    BY <1>1
  <2>4. s = p + r /\ s < t
    BY <1>2, <1>3, <2>2, <2>3
  <2>5. q >= Word => p >= t
    BY <1>1, <2>1, <2>2, <2>3
  <2> QED
    BY <1>1, <2>4, <2>5
<1>5. q % Word = q
  BY <1>1, <1>4
<1>6. CounterLanes(c, l) = Word * ((s \div Word) % Word) + (s % Word)
  BY <1>2 DEF CounterLanes
<1>7. CounterLanes(c, l) = Word * q + r
  BY <1>3, <1>5, <1>6
<1>8. Word * q = q * Word
  BY <1>1
<1> QED
  BY <1>2, <1>3, <1>7, <1>8

\* hash_many() gives every input the chaining value of its blocks.
HashedAs(kernel, modes, inputs, ctr, increment, flags, first, last) ==
  HashMany(kernel, modes, inputs, ctr, increment, flags, first, last)
    = [i \in 1 .. Len(inputs) |->
         ChainOf(inputs[i], ctr + (IF increment THEN i - 1 ELSE 0), flags, first, last)]

\* hash_many() hashes every input with its ctr, batched or not.
LEMMA HashManyIs ==
  ASSUME NEW kernel \in Kernels, NEW modes, modes[1] \in Modes, modes[2] \in Modes,
         NEW inputs, Len(inputs) \in Nat, NEW ctr \in Nat, NEW increment \in BOOLEAN,
         ctr + (IF increment THEN Len(inputs) ELSE 1) <= Word * Word,
         NEW flags, NEW first, NEW last
  PROVE  HashedAs(kernel, modes, inputs, ctr, increment, flags, first, last)
<1> DEFINE n == Len(inputs)
           h == HashMany(kernel, modes, inputs, ctr, increment, flags, first, last)
           plain(i) == ChainOf(inputs[i], ctr + (IF increment THEN i - 1 ELSE 0), flags, first, last)
<1>1. PICK w \in {1, 4, 8, 16} : w = kernel.width
  BY KernelAssumption DEF KernelSet
<1>2. h = [i \in 1 .. n |-> h[i]]
  BY DEF HashMany
<1>3. ASSUME NEW i \in 1 .. n PROVE h[i] = plain(i)
  <2>1. CASE ~InBatch(kernel, n, i)
    BY <1>3, <2>1 DEF HashMany
  <2>2. CASE InBatch(kernel, n, i)
    <3>1. PICK q \in Nat, l \in 0 .. w - 1 : q = (i - 1) \div w /\ l = (i - 1) % w /\ i - 1 = q * w + l
      <4>1. PICK j \in Nat : j = i - 1
        BY <1>3
      <4>2. w \in Nat \ {0}
        BY <1>1
      <4>3. PICK q \in Nat, l \in 0 .. w - 1 : j = q * w + l /\ q = j \div w /\ l = j % w
        BY <4>1, <4>2, DivMod
      <4> QED
        BY <4>1, <4>3
    <3>2. modes[(q % 2) + 1] \in Modes
      <4>1. q % 2 \in {0, 1}
        OBVIOUS
      <4> QED
        BY <4>1
    <3>3. LoadedFrom[kernel][modes[(q % 2) + 1]][l] = l
      <4>1. l \in LanesOf(kernel.width)
        BY <1>1, <3>1 DEF LanesOf
      <4>2. FromLane(kernel, modes[(q % 2) + 1], l)
        BY <3>2, <4>1, LanesKeepTheirInputs
      <4> QED
        BY <4>2 DEF FromLane
    <3>4. l # Scrambled
      BY <3>1 DEF Scrambled
    <3>5. PICK p \in Nat : p = q * w
      BY <1>1
    <3>6. i - 1 = p + l /\ p + l + 1 = i
      BY <1>3, <3>1, <3>5
    <3>7. h[i] = ChainOf(inputs[p + l + 1],
                         CounterLanes(ctr + (IF increment THEN p ELSE 0), IF increment THEN l ELSE 0),
                         flags, first, last)
      BY <1>1, <1>3, <2>2, <3>1, <3>3, <3>4, <3>5 DEF HashMany
    <3>8. CounterLanes(ctr + (IF increment THEN p ELSE 0), IF increment THEN l ELSE 0)
            = ctr + (IF increment THEN i - 1 ELSE 0)
      <4>1. PICK t \in Nat : t = Word * Word
        BY KernelAssumption
      <4>2. CASE increment
        <5>1. PICK c \in Nat : c = ctr + p
          BY <3>5
        <5>2. c + l < Word * Word /\ c + l = ctr + (i - 1) /\ l \in Nat
          BY <1>3, <3>1, <3>6, <4>1, <4>2, <5>1
        <5> QED
          BY <4>2, <5>1, <5>2, LanesCount
      <4>3. CASE ~increment
        <5>1. ctr + 0 < Word * Word /\ ctr + 0 = ctr
          BY <4>1, <4>3
        <5>2. CounterLanes(ctr, 0) = ctr
          BY <5>1, LanesCount
        <5> QED
          BY <4>3, <5>1, <5>2
      <4> QED
        BY <4>2, <4>3
    <3> QED
      BY <3>6, <3>7, <3>8
  <2> QED
    BY <2>1, <2>2
<1> HIDE DEF h
<1> QED
  BY <1>2, <1>3 DEF h, HashedAs

\* xof_many() fills its blocks with consecutive counters.
LEMMA XofManyIs ==
  ASSUME NEW kernel \in Kernels, NEW mode \in Modes, NEW ctr \in Nat, NEW n \in Nat,
         ctr + n <= Word * Word
  PROVE  XofMany(kernel, mode, ctr, n) = [i \in 1 .. n |-> ctr + i - 1]
<1> DEFINE x == XofMany(kernel, mode, ctr, n)
<1>1. PICK w \in {1, 4, 8, 16} : w = kernel.width
  BY KernelAssumption DEF KernelSet
<1>2. x = [i \in 1 .. n |-> x[i]]
  BY DEF XofMany
<1>3. ASSUME NEW i \in 1 .. n PROVE x[i] = ctr + i - 1
  <2>1. CASE ~InBatch(kernel, n, i)
    BY <1>3, <2>1 DEF XofMany
  <2>2. CASE InBatch(kernel, n, i)
    <3>1. PICK q \in Nat, l \in 0 .. w - 1 : q = (i - 1) \div w /\ l = (i - 1) % w /\ i - 1 = q * w + l
      <4>1. PICK j \in Nat : j = i - 1
        BY <1>3
      <4>2. w \in Nat \ {0}
        BY <1>1
      <4>3. PICK q \in Nat, l \in 0 .. w - 1 : j = q * w + l /\ q = j \div w /\ l = j % w
        BY <4>1, <4>2, DivMod
      <4> QED
        BY <4>1, <4>3
    <3>2. StoredFrom[kernel][mode][l] = l
      <4>1. l \in LanesOf(kernel.width)
        BY <1>1, <3>1 DEF LanesOf
      <4>2. FromLane(kernel, mode, l)
        BY <4>1, LanesKeepTheirInputs
      <4> QED
        BY <4>2 DEF FromLane
    <3>3. l # Scrambled
      BY <3>1 DEF Scrambled
    <3>4. PICK p \in Nat : p = q * w
      BY <1>1
    <3>5. x[i] = CounterLanes(ctr + p, l)
      BY <1>1, <1>3, <2>2, <3>1, <3>2, <3>3, <3>4 DEF XofMany
    <3>6. PICK t \in Nat : t = Word * Word
      BY KernelAssumption
    <3>7. PICK c \in Nat : c = ctr + p
      BY <3>4
    <3>8. c + l < Word * Word /\ c + l = ctr + i - 1 /\ l \in Nat
      BY <1>3, <3>1, <3>4, <3>6, <3>7
    <3> QED
      BY <3>5, <3>7, <3>8, LanesCount
  <2> QED
    BY <2>1, <2>2
<1> HIDE DEF x
<1> QED
  BY <1>2, <1>3 DEF x

-----------------------------------------------------------------------------
(* The rounds *)

\* The quartets of a half round, and the words of a quartet.
Quads == 0 .. 3
Parts == {1, 2, 3, 4}

\* Four quartets hold every word of the state once.
Apart(q) == \A i, j \in Quads, t, u \in Parts : q[i][t] = q[j][u] => i = j /\ t = u
Inside(q) == \A i \in Quads, t \in Parts : q[i][t] \in Words
Covering(q) == \A w \in Words : \E i \in Quads, t \in Parts : w = q[i][t]
Quartets(q) == Apart(q) /\ Inside(q) /\ Covering(q)

\* So do the columns.
LEMMA ColumnsCover == Quartets([i \in 0 .. 3 |-> Column(i)])
<1> DEFINE q == [i \in 0 .. 3 |-> Column(i)]
<1>1. \A i \in Quads : /\ q[i][1] = i /\ q[i][2] = 4 + i
                       /\ q[i][3] = 8 + i /\ q[i][4] = 12 + i
  BY DEF Column, Quads
<1> HIDE DEF q
<1>2. Apart(q)
  BY <1>1 DEF Apart, Quads, Parts
<1>3. Inside(q)
  BY <1>1 DEF Inside, Quads, Parts, Words
<1>4. Covering(q)
  <2> SUFFICES ASSUME NEW w \in Words PROVE \E i \in Quads, t \in Parts : w = q[i][t]
    BY DEF Covering
  <2>1. w \in 0 .. 15
    BY DEF Words
  <2>2. CASE w \in 0 .. 3
    BY <1>1, <2>2 DEF Quads, Parts
  <2>3. CASE w \in 4 .. 7
    <3>1. w - 4 \in Quads /\ 4 + (w - 4) = w
      BY <2>3 DEF Quads
    <3>2. q[w - 4][2] = w
      BY <1>1, <3>1
    <3> QED
      BY <3>1, <3>2 DEF Parts
  <2>4. CASE w \in 8 .. 11
    <3>1. w - 8 \in Quads /\ 8 + (w - 8) = w
      BY <2>4 DEF Quads
    <3>2. q[w - 8][3] = w
      BY <1>1, <3>1
    <3> QED
      BY <3>1, <3>2 DEF Parts
  <2>5. CASE w \in 12 .. 15
    <3>1. w - 12 \in Quads /\ 12 + (w - 12) = w
      BY <2>5 DEF Quads
    <3>2. q[w - 12][4] = w
      BY <1>1, <3>1
    <3> QED
      BY <3>1, <3>2 DEF Parts
  <2> QED
    BY <2>1, <2>2, <2>3, <2>4, <2>5
<1> QED
  BY <1>2, <1>3, <1>4 DEF Quartets, q

\* And the diagonals.
LEMMA DiagonalsCover == Quartets([i \in 0 .. 3 |-> Diagonal(i)])
<1> DEFINE q == [i \in 0 .. 3 |-> Diagonal(i)]
<1>1. \A i \in Quads : /\ q[i][1] = i /\ q[i][2] = 4 + ((i + 1) % 4)
                       /\ q[i][3] = 8 + ((i + 2) % 4) /\ q[i][4] = 12 + ((i + 3) % 4)
  BY DEF Diagonal, Quads
<1> HIDE DEF q
<1>2. /\ q[0][1] = 0 /\ q[0][2] = 5 /\ q[0][3] = 10 /\ q[0][4] = 15
      /\ q[1][1] = 1 /\ q[1][2] = 6 /\ q[1][3] = 11 /\ q[1][4] = 12
      /\ q[2][1] = 2 /\ q[2][2] = 7 /\ q[2][3] = 8 /\ q[2][4] = 13
      /\ q[3][1] = 3 /\ q[3][2] = 4 /\ q[3][3] = 9 /\ q[3][4] = 14
  BY <1>1 DEF Quads
<1>3. Quads = {0, 1, 2, 3}
  BY DEF Quads
<1>4. Apart(q)
  BY <1>2, <1>3 DEF Apart, Parts
<1>5. Inside(q)
  BY <1>2, <1>3 DEF Inside, Parts, Words
<1>6. Covering(q)
  <2>1. Words = {0, 1, 2, 3, 4, 5, 6, 7, 8, 9, 10, 11, 12, 13, 14, 15}
    BY DEF Words
  <2> QED
    BY <1>2, <1>3, <2>1 DEF Covering, Parts
<1> QED
  BY <1>4, <1>5, <1>6 DEF Quartets, q

\* The words of a quarter round, a tuple.
Mixed(a, b, c, d, mx, my) ==
  LET a1 == Plus(Plus(a, b), mx)
      d1 == XorRot(16, d, a1)
      c1 == Plus(c, d1)
      b1 == XorRot(12, b, c1)
      a2 == Plus(Plus(a1, b1), my)
      d2 == XorRot(8, d1, a2)
      c2 == Plus(c1, d2)
  IN <<a2, XorRot(7, b1, c2), c2, d2>>

\* A function on the words of the state.
IsState(v) == v = [w \in Words |-> v[w]]

\* The quarter round of the quartet q of v.
MixedAt(v, q, mx, my) == Mixed(v[q[1]], v[q[2]], v[q[3]], v[q[4]], mx, my)

\* A quarter round of G() replaces its quartet and nothing else.
LEMMA GIs ==
  ASSUME NEW v, IsState(v), NEW q, NEW mx, NEW my,
         \A t \in Parts : q[t] \in Words, \A t, u \in Parts : q[t] = q[u] => t = u
  PROVE  /\ IsState(G(v, q, mx, my))
         /\ \A t \in Parts : G(v, q, mx, my)[q[t]] = MixedAt(v, q, mx, my)[t]
         /\ \A w \in Words : (\A t \in Parts : q[t] # w) => G(v, q, mx, my)[w] = v[w]
<1> DEFINE m == MixedAt(v, q, mx, my)
           g == G(v, q, mx, my)
<1>1. g = [v EXCEPT ![q[1]] = m[1], ![q[2]] = m[2], ![q[3]] = m[3], ![q[4]] = m[4]]
  BY DEF G, MixedAt, Mixed
<1>2. DOMAIN v = Words
  BY DEF IsState
<1>3. 1 \in Parts /\ 2 \in Parts /\ 3 \in Parts /\ 4 \in Parts
  BY DEF Parts
<1>4. g = [w \in Words |-> IF w = q[4] THEN m[4] ELSE IF w = q[3] THEN m[3]
                           ELSE IF w = q[2] THEN m[2] ELSE IF w = q[1] THEN m[1] ELSE v[w]]
  <2> HIDE DEF m, g
  <2> DEFINE v1 == [v EXCEPT ![q[1]] = m[1]]
             v2 == [v1 EXCEPT ![q[2]] = m[2]]
             v3 == [v2 EXCEPT ![q[3]] = m[3]]
  <2>1. g = [v3 EXCEPT ![q[4]] = m[4]]
    BY <1>1
  <2>2. v1 = [w \in Words |-> IF w = q[1] THEN m[1] ELSE v[w]]
    BY <1>2
  <2> HIDE DEF v1
  <2>3. v2 = [w \in Words |-> IF w = q[2] THEN m[2] ELSE v1[w]]
    BY <2>2
  <2> HIDE DEF v2
  <2>4. v3 = [w \in Words |-> IF w = q[3] THEN m[3] ELSE v2[w]]
    BY <2>3
  <2> HIDE DEF v3
  <2>5. g = [w \in Words |-> IF w = q[4] THEN m[4] ELSE v3[w]]
    BY <2>1, <2>4
  <2> QED
    BY <2>2, <2>3, <2>4, <2>5
<1> HIDE DEF m, g
<1>5. IsState(g)
  BY <1>4 DEF IsState
<1>6. g[q[1]] = m[1] /\ g[q[2]] = m[2] /\ g[q[3]] = m[3] /\ g[q[4]] = m[4]
  BY <1>3, <1>4
<1>7. \A t \in Parts : g[q[t]] = m[t]
  BY <1>6 DEF Parts
<1>8. \A w \in Words : (\A t \in Parts : q[t] # w) => g[w] = v[w]
  BY <1>3, <1>4
<1> QED
  BY <1>5, <1>7, <1>8 DEF g, m

\* State "new" is "v" after a quarter round on every quartet.
Rounded(v, new, q, mx, my) ==
  /\ IsState(new)
  /\ \A i \in Quads, t \in Parts : new[q[i][t]] = MixedAt(v, q[i], mx[i], my[i])[t]

\* Quarter round i of four.
Turned(v, q, mx, my, i) == G(v, q[i], mx[i], my[i])

\* One after the other, four quarter rounds on quartets apart turn each of them.
LEMMA FourRounds ==
  ASSUME NEW v, IsState(v), NEW q, Quartets(q), NEW mx, NEW my
  PROVE  Rounded(v, Turned(Turned(Turned(Turned(v, q, mx, my, 0), q, mx, my, 1), q, mx, my, 2),
                           q, mx, my, 3), q, mx, my)
<1> DEFINE x1 == Turned(v, q, mx, my, 0)
           x2 == Turned(x1, q, mx, my, 1)
           x3 == Turned(x2, q, mx, my, 2)
           x4 == Turned(x3, q, mx, my, 3)
<1>1. ASSUME NEW i \in Quads, NEW x, IsState(x)
      PROVE  /\ IsState(Turned(x, q, mx, my, i))
             /\ \A t \in Parts : Turned(x, q, mx, my, i)[q[i][t]] = MixedAt(x, q[i], mx[i], my[i])[t]
             /\ \A j \in Quads, t \in Parts : j # i =>
                  Turned(x, q, mx, my, i)[q[j][t]] = x[q[j][t]]
  <2>1. \A t \in Parts : q[i][t] \in Words
    BY DEF Quartets, Inside
  <2>2. \A t, u \in Parts : q[i][t] = q[i][u] => t = u
    BY DEF Quartets, Apart
  <2>3. /\ IsState(G(x, q[i], mx[i], my[i]))
        /\ \A t \in Parts : G(x, q[i], mx[i], my[i])[q[i][t]] = MixedAt(x, q[i], mx[i], my[i])[t]
        /\ \A w \in Words : (\A t \in Parts : q[i][t] # w) => G(x, q[i], mx[i], my[i])[w] = x[w]
    BY <1>1, <2>1, <2>2, GIs
  <2>4. ASSUME NEW j \in Quads, NEW t \in Parts, j # i
        PROVE  q[j][t] \in Words /\ \A u \in Parts : q[i][u] # q[j][t]
    BY <2>4 DEF Quartets, Inside, Apart
  <2> QED
    BY <2>3, <2>4 DEF Turned
<1>2. 0 \in Quads /\ 1 \in Quads /\ 2 \in Quads /\ 3 \in Quads
  BY DEF Quads
<1>3. 1 \in Parts /\ 2 \in Parts /\ 3 \in Parts /\ 4 \in Parts
  BY DEF Parts
<1>4. ASSUME NEW x, NEW y, NEW i, \A t \in Parts : x[q[i][t]] = y[q[i][t]]
      PROVE  MixedAt(x, q[i], mx[i], my[i]) = MixedAt(y, q[i], mx[i], my[i])
  BY <1>3, <1>4 DEF MixedAt
<1>5. IsState(x1) /\ IsState(x2) /\ IsState(x3) /\ IsState(x4)
  <2>1. IsState(x1)
    BY <1>1, <1>2
  <2>2. IsState(x2)
    BY <1>1, <1>2, <2>1
  <2>3. IsState(x3)
    BY <1>1, <1>2, <2>2
  <2>4. IsState(x4)
    BY <1>1, <1>2, <2>3
  <2> QED
    BY <2>1, <2>2, <2>3, <2>4
<1>6. /\ \A t \in Parts : x1[q[0][t]] = MixedAt(v, q[0], mx[0], my[0])[t]
      /\ \A j \in Quads, t \in Parts : j # 0 => x1[q[j][t]] = v[q[j][t]]
  BY <1>1, <1>2
<1>7. /\ \A t \in Parts : x2[q[1][t]] = MixedAt(x1, q[1], mx[1], my[1])[t]
      /\ \A j \in Quads, t \in Parts : j # 1 => x2[q[j][t]] = x1[q[j][t]]
  BY <1>1, <1>2, <1>5
<1>8. /\ \A t \in Parts : x3[q[2][t]] = MixedAt(x2, q[2], mx[2], my[2])[t]
      /\ \A j \in Quads, t \in Parts : j # 2 => x3[q[j][t]] = x2[q[j][t]]
  BY <1>1, <1>2, <1>5
<1>9. /\ \A t \in Parts : x4[q[3][t]] = MixedAt(x3, q[3], mx[3], my[3])[t]
      /\ \A j \in Quads, t \in Parts : j # 3 => x4[q[j][t]] = x3[q[j][t]]
  BY <1>1, <1>2, <1>5
<1> HIDE DEF x1, x2, x3, x4
<1>10. MixedAt(x1, q[1], mx[1], my[1]) = MixedAt(v, q[1], mx[1], my[1])
  <2>1. \A t \in Parts : x1[q[1][t]] = v[q[1][t]]
    BY <1>2, <1>6
  <2> QED
    BY <1>4, <2>1
<1>11. MixedAt(x2, q[2], mx[2], my[2]) = MixedAt(v, q[2], mx[2], my[2])
  <2>1. \A t \in Parts : x2[q[2][t]] = v[q[2][t]]
    BY <1>2, <1>6, <1>7
  <2> QED
    BY <1>4, <2>1
<1>12. MixedAt(x3, q[3], mx[3], my[3]) = MixedAt(v, q[3], mx[3], my[3])
  <2>1. \A t \in Parts : x3[q[3][t]] = v[q[3][t]]
    BY <1>2, <1>6, <1>7, <1>8
  <2> QED
    BY <1>4, <2>1
<1>13. \A t \in Parts : x4[q[0][t]] = MixedAt(v, q[0], mx[0], my[0])[t]
  BY <1>2, <1>6, <1>7, <1>8, <1>9
<1>14. \A t \in Parts : x4[q[1][t]] = MixedAt(v, q[1], mx[1], my[1])[t]
  BY <1>2, <1>7, <1>8, <1>9, <1>10
<1>15. \A t \in Parts : x4[q[2][t]] = MixedAt(v, q[2], mx[2], my[2])[t]
  BY <1>2, <1>8, <1>9, <1>11
<1>16. \A t \in Parts : x4[q[3][t]] = MixedAt(v, q[3], mx[3], my[3])[t]
  BY <1>2, <1>9, <1>12
<1>17. \A i \in Quads, t \in Parts : x4[q[i][t]] = MixedAt(v, q[i], mx[i], my[i])[t]
  <2>1. Quads = {0, 1, 2, 3}
    BY DEF Quads
  <2> QED
    BY <1>13, <1>14, <1>15, <1>16, <2>1
<1>18. Rounded(v, x4, q, mx, my)
  BY <1>5, <1>17 DEF Rounded
<1> QED
  BY <1>18 DEF x1, x2, x3, x4

\* What the quartets hold after their quarter rounds, they hold once.
LEMMA RoundedOnce ==
  ASSUME NEW v, NEW q, Quartets(q), NEW mx, NEW my, NEW x, NEW y,
         Rounded(v, x, q, mx, my), Rounded(v, y, q, mx, my)
  PROVE  x = y
<1>1. ASSUME NEW w \in Words PROVE x[w] = y[w]
  <2>1. PICK i \in Quads, t \in Parts : w = q[i][t]
    BY DEF Quartets, Covering
  <2> QED
    BY <2>1 DEF Rounded
<1> QED
  BY <1>1 DEF Rounded, IsState

\* State "new" is "v" with word t of every quartet replaced.
Stepped(v, new, q, t, words) ==
  /\ IsState(new)
  /\ \A i \in Quads : new[q[i][t]] = words[i]
  /\ \A i \in Quads, u \in Parts : u # t => new[q[i][u]] = v[q[i][u]]

\* A micro-step of four words replaces them and nothing else.
LEMMA StepIs ==
  ASSUME NEW v, NEW q, Quartets(q), NEW t \in Parts, NEW words
  PROVE  Stepped(v, Micro(v, q, t, words), q, t, words)
<1> DEFINE new == Micro(v, q, t, words)
<1>a. new = [w \in Words |->
               IF \E i \in 0 .. 3 : q[i][t] = w
               THEN words[CHOOSE i \in 0 .. 3 : q[i][t] = w] ELSE v[w]]
  BY DEF Micro
<1> HIDE DEF new
<1>1. IsState(new)
  BY <1>a DEF IsState
<1>2. ASSUME NEW i \in Quads PROVE new[q[i][t]] = words[i]
  <2>1. q[i][t] \in Words
    BY DEF Quartets, Inside
  <2>2. (CHOOSE j \in 0 .. 3 : q[j][t] = q[i][t]) = i
    BY DEF Quartets, Apart, Quads
  <2> QED
    BY <1>a, <2>1, <2>2 DEF Quads
<1>3. ASSUME NEW i \in Quads, NEW u \in Parts, u # t PROVE new[q[i][u]] = v[q[i][u]]
  <2>1. q[i][u] \in Words
    BY DEF Quartets, Inside
  <2>2. ~ \E j \in 0 .. 3 : q[j][t] = q[i][u]
    BY <1>3 DEF Quartets, Apart, Quads
  <2> QED
    BY <1>a, <2>1, <2>2
<1> QED
  BY <1>1, <1>2, <1>3 DEF Stepped, new

\* The words the micro-steps write.
Adding(v, q, m) == [i \in 0 .. 3 |-> Plus(Plus(v[q[i][1]], v[q[i][2]]), m[i])]
Rotating(v, q, t, u, n) == [i \in 0 .. 3 |-> XorRot(n, v[q[i][t]], v[q[i][u]])]
Summing(v, q) == [i \in 0 .. 3 |-> Plus(v[q[i][3]], v[q[i][4]])]

\* The message words of one half of four quarter rounds.
MessagesAt(s, at, half) == [i \in 0 .. 3 |-> MessageAt(s, at, i, half)]

\* Half a quarter round of four words.
HalfMixed(a, b, c, d, m, far, near) ==
  LET a1 == Plus(Plus(a, b), m)
      d1 == XorRot(far, d, a1)
      c1 == Plus(c, d1)
  IN <<a1, XorRot(near, b, c1), c1, d1>>

\* Four micro-steps on every quartet are half a quarter round on each.
LEMMA HalfStagedIs ==
  ASSUME NEW v, NEW q, Quartets(q), NEW m, NEW far, NEW near
  PROVE  /\ IsState(HalfStaged(v, q, m, far, near))
         /\ \A i \in Quads, t \in Parts :
              HalfStaged(v, q, m, far, near)[q[i][t]]
                = HalfMixed(v[q[i][1]], v[q[i][2]], v[q[i][3]], v[q[i][4]], m[i], far, near)[t]
<1> DEFINE x1 == Micro(v, q, 1, Adding(v, q, m))
           x2 == Micro(x1, q, 4, Rotating(x1, q, 4, 1, far))
           x3 == Micro(x2, q, 3, Summing(x2, q))
           x4 == Micro(x3, q, 2, Rotating(x3, q, 2, 3, near))
<1>1. 1 \in Parts /\ 2 \in Parts /\ 3 \in Parts /\ 4 \in Parts
  BY DEF Parts
<1>2. \A x, words : \A t \in Parts : Stepped(x, Micro(x, q, t, words), q, t, words)
  BY StepIs
<1>3. Stepped(v, x1, q, 1, Adding(v, q, m))
  BY <1>1, <1>2
<1>4. Stepped(x1, x2, q, 4, Rotating(x1, q, 4, 1, far))
  BY <1>1, <1>2
<1>5. Stepped(x2, x3, q, 3, Summing(x2, q))
  BY <1>1, <1>2
<1>6. Stepped(x3, x4, q, 2, Rotating(x3, q, 2, 3, near))
  BY <1>1, <1>2
<1> HIDE DEF x1, x2, x3, x4
<1>7. ASSUME NEW i \in Quads
      PROVE  /\ x4[q[i][1]] = Plus(Plus(v[q[i][1]], v[q[i][2]]), m[i])
             /\ x4[q[i][4]] = XorRot(far, v[q[i][4]], x4[q[i][1]])
             /\ x4[q[i][3]] = Plus(v[q[i][3]], x4[q[i][4]])
             /\ x4[q[i][2]] = XorRot(near, v[q[i][2]], x4[q[i][3]])
  <2>1. /\ x1[q[i][1]] = Plus(Plus(v[q[i][1]], v[q[i][2]]), m[i])
        /\ x1[q[i][2]] = v[q[i][2]] /\ x1[q[i][3]] = v[q[i][3]] /\ x1[q[i][4]] = v[q[i][4]]
    BY <1>1, <1>3 DEF Stepped, Adding, Quads
  <2>2. /\ x2[q[i][4]] = XorRot(far, x1[q[i][4]], x1[q[i][1]])
        /\ x2[q[i][1]] = x1[q[i][1]] /\ x2[q[i][2]] = x1[q[i][2]] /\ x2[q[i][3]] = x1[q[i][3]]
    BY <1>1, <1>4 DEF Stepped, Rotating, Quads
  <2>3. /\ x3[q[i][3]] = Plus(x2[q[i][3]], x2[q[i][4]])
        /\ x3[q[i][1]] = x2[q[i][1]] /\ x3[q[i][2]] = x2[q[i][2]] /\ x3[q[i][4]] = x2[q[i][4]]
    BY <1>1, <1>5 DEF Stepped, Summing, Quads
  <2>4. /\ x4[q[i][2]] = XorRot(near, x3[q[i][2]], x3[q[i][3]])
        /\ x4[q[i][1]] = x3[q[i][1]] /\ x4[q[i][3]] = x3[q[i][3]] /\ x4[q[i][4]] = x3[q[i][4]]
    BY <1>1, <1>6 DEF Stepped, Rotating, Quads
  <2> QED
    BY <2>1, <2>2, <2>3, <2>4
<1>8. ASSUME NEW i \in Quads, NEW t \in Parts
      PROVE  x4[q[i][t]] = HalfMixed(v[q[i][1]], v[q[i][2]], v[q[i][3]], v[q[i][4]], m[i], far, near)[t]
  BY <1>7 DEF HalfMixed, Parts
<1>9. HalfStaged(v, q, m, far, near) = x4
  BY DEF HalfStaged, x1, x2, x3, x4, Adding, Rotating, Summing
<1>10. IsState(x4)
  BY <1>6 DEF Stepped
<1> QED
  BY <1>8, <1>9, <1>10

\* And eight are a quarter round on each.
LEMMA StagedIs ==
  ASSUME NEW v, NEW q, Quartets(q), NEW s, NEW at
  PROVE  Rounded(v, StagedQuartets(s, v, q, at), q, MessagesAt(s, at, 0), MessagesAt(s, at, 1))
<1> DEFINE mx == MessagesAt(s, at, 0)
           my == MessagesAt(s, at, 1)
           half == HalfStaged(v, q, mx, 16, 12)
           full == HalfStaged(half, q, my, 8, 7)
<1>1. StagedQuartets(s, v, q, at) = full
  BY DEF StagedQuartets, MessagesAt
<1> HIDE DEF mx, my
<1>2. \A i \in Quads, t \in Parts :
        half[q[i][t]] = HalfMixed(v[q[i][1]], v[q[i][2]], v[q[i][3]], v[q[i][4]], mx[i], 16, 12)[t]
  BY HalfStagedIs
<1>3. IsState(full) /\ \A i \in Quads, t \in Parts :
        full[q[i][t]] = HalfMixed(half[q[i][1]], half[q[i][2]], half[q[i][3]], half[q[i][4]],
                                  my[i], 8, 7)[t]
  BY HalfStagedIs
<1> HIDE DEF half, full
<1>4. ASSUME NEW i \in Quads, NEW t \in Parts
      PROVE  full[q[i][t]] = MixedAt(v, q[i], mx[i], my[i])[t]
  <2> DEFINE h == HalfMixed(v[q[i][1]], v[q[i][2]], v[q[i][3]], v[q[i][4]], mx[i], 16, 12)
             f == HalfMixed(h[1], h[2], h[3], h[4], my[i], 8, 7)
  <2>1. 1 \in Parts /\ 2 \in Parts /\ 3 \in Parts /\ 4 \in Parts
    BY DEF Parts
  <2>2. full[q[i][t]] = f[t]
    BY <1>2, <1>3, <2>1
  <2>3. f = MixedAt(v, q[i], mx[i], my[i])
    BY DEF HalfMixed, MixedAt, Mixed
  <2> QED
    BY <2>2, <2>3
<1>5. Rounded(v, full, q, mx, my)
  BY <1>3, <1>4 DEF Rounded
<1> QED
  BY <1>1, <1>5 DEF mx, my

\* The quarter rounds of round_fn(), one after the other.
Quarter8(s, x, k) ==
  G(x, IF k <= 4 THEN Column(k - 1) ELSE Diagonal(k - 5), Message(s[2 * k - 2]), Message(s[2 * k - 1]))

\* The function RoundFn() is defined with.
Quarters(s, v, f) == f = [k \in 0 .. 8 |-> IF k = 0 THEN v ELSE Quarter8(s, f[k - 1], k)]

\* It exists.
LEMMA QuartersExist == \A s, v : \E f : Quarters(s, v, f)
<1> SUFFICES ASSUME NEW s, NEW v PROVE \E f : Quarters(s, v, f)
  OBVIOUS
<1> DEFINE x1 == Quarter8(s, v, 1)
           x2 == Quarter8(s, x1, 2)
           x3 == Quarter8(s, x2, 3)
           x4 == Quarter8(s, x3, 4)
           x5 == Quarter8(s, x4, 5)
           x6 == Quarter8(s, x5, 6)
           x7 == Quarter8(s, x6, 7)
           x8 == Quarter8(s, x7, 8)
<1> HIDE DEF x1, x2, x3, x4, x5, x6, x7, x8
<1> DEFINE f == [k \in 0 .. 8 |-> IF k = 0 THEN v ELSE IF k = 1 THEN x1 ELSE IF k = 2 THEN x2
                                  ELSE IF k = 3 THEN x3 ELSE IF k = 4 THEN x4 ELSE IF k = 5 THEN x5
                                  ELSE IF k = 6 THEN x6 ELSE IF k = 7 THEN x7 ELSE x8]
<1>1. /\ f[0] = v /\ f[1] = x1 /\ f[2] = x2 /\ f[3] = x3 /\ f[4] = x4
      /\ f[5] = x5 /\ f[6] = x6 /\ f[7] = x7 /\ f[8] = x8
  OBVIOUS
<1>2. f = [k \in 0 .. 8 |-> f[k]]
  OBVIOUS
<1> HIDE DEF f
<1>3. ASSUME NEW k \in 0 .. 8 PROVE f[k] = IF k = 0 THEN v ELSE Quarter8(s, f[k - 1], k)
  <2>1. f[1] = Quarter8(s, f[0], 1) /\ f[2] = Quarter8(s, f[1], 2)
    BY <1>1 DEF x1, x2
  <2>2. f[3] = Quarter8(s, f[2], 3) /\ f[4] = Quarter8(s, f[3], 4)
    BY <1>1 DEF x3, x4
  <2>3. f[5] = Quarter8(s, f[4], 5) /\ f[6] = Quarter8(s, f[5], 6)
    BY <1>1 DEF x5, x6
  <2>4. f[7] = Quarter8(s, f[6], 7) /\ f[8] = Quarter8(s, f[7], 8)
    BY <1>1 DEF x7, x8
  <2>5. k \in {0, 1, 2, 3, 4, 5, 6, 7, 8}
    OBVIOUS
  <2>6. /\ 1 - 1 = 0 /\ 2 - 1 = 1 /\ 3 - 1 = 2 /\ 4 - 1 = 3
        /\ 5 - 1 = 4 /\ 6 - 1 = 5 /\ 7 - 1 = 6 /\ 8 - 1 = 7
    OBVIOUS
  <2> QED
    BY <1>1, <2>1, <2>2, <2>3, <2>4, <2>5, <2>6
<1>4. Quarters(s, v, f)
  BY <1>2, <1>3 DEF Quarters
<1> QED
  BY <1>4

\* A quarter round of round_fn() is a turn of its quartets.
LEMMA QuarterIsTurn ==
  ASSUME NEW s, NEW x, NEW i \in Quads
  PROVE  /\ Quarter8(s, x, i + 1)
              = Turned(x, [j \in 0 .. 3 |-> Column(j)], MessagesAt(s, 0, 0), MessagesAt(s, 0, 1), i)
         /\ Quarter8(s, x, i + 5)
              = Turned(x, [j \in 0 .. 3 |-> Diagonal(j)], MessagesAt(s, 8, 0), MessagesAt(s, 8, 1), i)
<1>1. i \in 0 .. 3
  BY DEF Quads
<1>2. /\ i + 1 <= 4 /\ (i + 1) - 1 = i /\ 2 * (i + 1) - 2 = 0 + 2 * i + 0
      /\ 2 * (i + 1) - 1 = 0 + 2 * i + 1
  BY <1>1
<1>3. /\ ~(i + 5 <= 4) /\ (i + 5) - 5 = i /\ 2 * (i + 5) - 2 = 8 + 2 * i + 0
      /\ 2 * (i + 5) - 1 = 8 + 2 * i + 1
  BY <1>1
<1>4. /\ MessagesAt(s, 0, 0)[i] = Message(s[0 + 2 * i + 0])
      /\ MessagesAt(s, 0, 1)[i] = Message(s[0 + 2 * i + 1])
      /\ MessagesAt(s, 8, 0)[i] = Message(s[8 + 2 * i + 0])
      /\ MessagesAt(s, 8, 1)[i] = Message(s[8 + 2 * i + 1])
  BY <1>1 DEF MessagesAt, MessageAt
<1>5. /\ [j \in 0 .. 3 |-> Column(j)][i] = Column(i)
      /\ [j \in 0 .. 3 |-> Diagonal(j)][i] = Diagonal(i)
  BY <1>1
<1>6. Quarter8(s, x, i + 1) = G(x, Column(i), Message(s[0 + 2 * i + 0]), Message(s[0 + 2 * i + 1]))
  BY <1>2 DEF Quarter8
<1>7. Quarter8(s, x, i + 5) = G(x, Diagonal(i), Message(s[8 + 2 * i + 0]), Message(s[8 + 2 * i + 1]))
  BY <1>3 DEF Quarter8
<1> QED
  BY <1>4, <1>5, <1>6, <1>7 DEF Turned

\* round_fn_staged() computes what round_fn() does, whatever the schedule.
LEMMA RoundsAreAlike == RoundsAgree
<1> DEFINE v == [i \in Words |-> <<"v", i>>]
<1> SUFFICES ASSUME NEW r \in 0 .. 6 PROVE RoundFnStaged(r, v) = RoundFn(r, v)
  BY DEF RoundsAgree
<1> DEFINE s == MsgSchedule[r]
           column == [i \in 0 .. 3 |-> Column(i)]
           diagonal == [i \in 0 .. 3 |-> Diagonal(i)]
           f == CHOOSE f : Quarters(s, v, f)
<1>1. RoundFn(r, v) = f[8]
  BY DEF RoundFn, Quarters, Quarter8
<1>2. IsState(v)
  BY DEF IsState
<1> HIDE DEF s, v
<1>3. Quarters(s, v, f)
  BY QuartersExist
<1>4. Quartets(column) /\ Quartets(diagonal)
  BY ColumnsCover, DiagonalsCover
<1>5. RoundFnStaged(r, v) = StagedQuartets(s, StagedQuartets(s, v, column, 0), diagonal, 8)
  BY DEF RoundFnStaged, s
<1> HIDE DEF column, diagonal, f
<1>6. /\ f[0] = v /\ f[1] = Quarter8(s, f[0], 1) /\ f[2] = Quarter8(s, f[1], 2)
      /\ f[3] = Quarter8(s, f[2], 3) /\ f[4] = Quarter8(s, f[3], 4)
      /\ f[5] = Quarter8(s, f[4], 5) /\ f[6] = Quarter8(s, f[5], 6)
      /\ f[7] = Quarter8(s, f[6], 7) /\ f[8] = Quarter8(s, f[7], 8)
  <2>1. \A k \in 0 .. 8 : f[k] = IF k = 0 THEN v ELSE Quarter8(s, f[k - 1], k)
    BY <1>3 DEF Quarters
  <2> QED
    BY <2>1
<1> DEFINE mx == MessagesAt(s, 0, 0)
           my == MessagesAt(s, 0, 1)
           nx == MessagesAt(s, 8, 0)
           ny == MessagesAt(s, 8, 1)
<1>7. \A x : /\ Quarter8(s, x, 1) = Turned(x, column, mx, my, 0)
             /\ Quarter8(s, x, 2) = Turned(x, column, mx, my, 1)
             /\ Quarter8(s, x, 3) = Turned(x, column, mx, my, 2)
             /\ Quarter8(s, x, 4) = Turned(x, column, mx, my, 3)
             /\ Quarter8(s, x, 5) = Turned(x, diagonal, nx, ny, 0)
             /\ Quarter8(s, x, 6) = Turned(x, diagonal, nx, ny, 1)
             /\ Quarter8(s, x, 7) = Turned(x, diagonal, nx, ny, 2)
             /\ Quarter8(s, x, 8) = Turned(x, diagonal, nx, ny, 3)
  <2> SUFFICES ASSUME NEW x
               PROVE  \A i \in Quads : /\ Quarter8(s, x, i + 1) = Turned(x, column, mx, my, i)
                                       /\ Quarter8(s, x, i + 5) = Turned(x, diagonal, nx, ny, i)
    <3>1. /\ 0 + 1 = 1 /\ 1 + 1 = 2 /\ 2 + 1 = 3 /\ 3 + 1 = 4
          /\ 0 + 5 = 5 /\ 1 + 5 = 6 /\ 2 + 5 = 7 /\ 3 + 5 = 8
      OBVIOUS
    <3>2. 0 \in Quads /\ 1 \in Quads /\ 2 \in Quads /\ 3 \in Quads
      BY DEF Quads
    <3> HIDE DEF mx, my, nx, ny
    <3> QED
      BY <3>1, <3>2
  <2> QED
    BY QuarterIsTurn DEF column, diagonal
<1>8. Rounded(v, f[4], column, mx, my)
  <2>1. Rounded(v, Turned(Turned(Turned(Turned(v, column, mx, my, 0), column, mx, my, 1),
                          column, mx, my, 2), column, mx, my, 3), column, mx, my)
    BY <1>2, <1>4, FourRounds
  <2> HIDE DEF mx, my, nx, ny
  <2> QED
    BY <1>6, <1>7, <2>1
<1>9. Rounded(f[4], f[8], diagonal, nx, ny)
  <2>1. IsState(f[4])
    BY <1>8 DEF Rounded
  <2>2. Rounded(f[4], Turned(Turned(Turned(Turned(f[4], diagonal, nx, ny, 0), diagonal, nx, ny, 1),
                             diagonal, nx, ny, 2), diagonal, nx, ny, 3), diagonal, nx, ny)
    BY <1>4, <2>1, FourRounds
  <2> HIDE DEF mx, my, nx, ny
  <2> QED
    BY <1>6, <1>7, <2>2
<1>10. f[4] = StagedQuartets(s, v, column, 0)
  <2>1. Rounded(v, StagedQuartets(s, v, column, 0), column, mx, my)
    BY <1>4, StagedIs
  <2> HIDE DEF mx, my
  <2> QED
    BY <1>4, <1>8, <2>1, RoundedOnce
<1>11. f[8] = StagedQuartets(s, f[4], diagonal, 8)
  <2>1. Rounded(f[4], StagedQuartets(s, f[4], diagonal, 8), diagonal, nx, ny)
    BY <1>4, StagedIs
  <2> HIDE DEF nx, ny
  <2> QED
    BY <1>4, <1>9, <2>1, RoundedOnce
<1> QED
  BY <1>1, <1>5, <1>10, <1>11

-----------------------------------------------------------------------------
(* Chaining values of chunks and parents *)

\* The value after block b, from the one before.
LinkOf(a, blocks, c, flags, first, last, b) ==
  Compress(IF b = 1 THEN Key ELSE a[b - 1], blocks[b], c,
           flags \cup (IF b = 1 THEN first ELSE {}) \cup (IF b = Len(blocks) THEN last ELSE {}))

\* The function ChainOf() is defined with, over the first n blocks.
Links(a, blocks, c, flags, first, last, n) ==
  a = [b \in 1 .. n |-> LinkOf(a, blocks, c, flags, first, last, b)]

\* The function ChainOf() is defined with exists.
LEMMA LinksExist ==
  ASSUME NEW blocks, NEW c, NEW flags, NEW first, NEW last, NEW k \in Nat
  PROVE  \E a : Links(a, blocks, c, flags, first, last, k)
<1> DEFINE L(a, b) == LinkOf(a, blocks, c, flags, first, last, b)
           S == {n \in Nat : \E a : Links(a, blocks, c, flags, first, last, n)}
<1>1. 0 \in S
  <2> DEFINE a == [b \in 1 .. 0 |-> 0]
             e == [b \in 1 .. 0 |-> L(a, b)]
  <2>1. a = e
    <3>1. 1 .. 0 = {}
      OBVIOUS
    <3> HIDE DEF a
    <3>2. e = [b \in {} |-> L(a, b)]
      BY <3>1
    <3>3. a = [b \in {} |-> 0]
      BY <3>1 DEF a
    <3> QED
      BY <3>2, <3>3
  <2>2. Links(a, blocks, c, flags, first, last, 0)
    BY <2>1 DEF Links
  <2> QED
    BY <2>2
<1>2. ASSUME NEW n \in Nat, n \in S PROVE n + 1 \in S
  <2>1. PICK a : Links(a, blocks, c, flags, first, last, n)
    BY <1>2
  <2> HIDE DEF S
  <2> DEFINE g == [b \in 1 .. n + 1 |-> IF b = n + 1 THEN L(a, b) ELSE a[b]]
             e == [b \in 1 .. n + 1 |-> L(g, b)]
  <2>2. ASSUME NEW b \in 1 .. n + 1 PROVE g[b] = e[b]
    <3>1. b = 1 \/ a[b - 1] = g[b - 1]
      BY <2>2
    <3> HIDE DEF g
    <3>2. L(a, b) = L(g, b)
      <4>1. CASE b = 1
        BY <4>1, Zenon DEF LinkOf
      <4>2. CASE b # 1
        <5>1. a[b - 1] = g[b - 1]
          BY <3>1, <4>2
        <5> QED
          BY <5>1, Zenon DEF LinkOf
      <4> QED
        BY <4>1, <4>2
    <3>3. CASE b = n + 1
      <4>1. g[b] = L(a, b)
        BY <3>3 DEF g
      <4> QED
        BY <3>2, <4>1
    <3>4. CASE b # n + 1
      <4>1. b \in 1 .. n
        BY <3>4
      <4>2. g[b] = a[b]
        BY <3>4 DEF g
      <4>3. a[b] = L(a, b)
        BY <2>1, <4>1 DEF Links
      <4> QED
        BY <3>2, <4>2, <4>3
    <3> QED
      BY <3>3, <3>4
  <2>3. g = e
    <3>1. g = [b \in 1 .. n + 1 |-> g[b]] /\ e = [b \in 1 .. n + 1 |-> e[b]]
      OBVIOUS
    <3> HIDE DEF g, e
    <3> QED
      BY <2>2, <3>1
  <2>4. Links(g, blocks, c, flags, first, last, n + 1)
    BY <2>3 DEF Links
  <2> QED
    BY <2>4 DEF S
<1>3. Nat \subseteq S
  <2> HIDE DEF S
  <2> QED
    BY <1>1, <1>2, Induction
<1> QED
  BY <1>3

\* ChainOf() is what any such function gives.
LEMMA ChainIs ==
  ASSUME NEW blocks, Len(blocks) \in Nat, NEW c, NEW flags, NEW first, NEW last
  PROVE  \E a : /\ Links(a, blocks, c, flags, first, last, Len(blocks))
                /\ ChainOf(blocks, c, flags, first, last) = a[Len(blocks)]
<1> DEFINE g == CHOOSE a : Links(a, blocks, c, flags, first, last, Len(blocks))
<1>1. Links(g, blocks, c, flags, first, last, Len(blocks))
  BY LinksExist
<1>2. ChainOf(blocks, c, flags, first, last) = g[Len(blocks)]
  BY Zenon DEF ChainOf, Links, LinkOf
<1> QED
  BY <1>1, <1>2

\* hash_many() of two chaining values with the flag of a parent.
LEMMA ChainOfParent ==
  ASSUME NEW near, NEW far
  PROVE  ChainOf(<<Children(near, far)>>, 0, {"parent"}, {}, {}) = Parent(near, far)
<1> DEFINE blocks == <<Children(near, far)>>
<1>1. Len(blocks) = 1 /\ Len(blocks) \in Nat /\ blocks[1] = Children(near, far)
  OBVIOUS
<1> HIDE DEF blocks
<1>2. PICK flags, none : flags = {"parent"} /\ none = {}
  OBVIOUS
<1>3. PICK a : /\ Links(a, blocks, 0, flags, none, none, Len(blocks))
               /\ ChainOf(blocks, 0, flags, none, none) = a[Len(blocks)]
  BY <1>1, ChainIs
<1>4. a[1] = LinkOf(a, blocks, 0, flags, none, none, 1)
  BY <1>1, <1>3 DEF Links
<1>5. LinkOf(a, blocks, 0, flags, none, none, 1) = Parent(near, far)
  <2>1. flags \cup none \cup none = {"parent"}
    BY <1>2
  <2> QED
    BY <1>1, <2>1 DEF LinkOf, Parent
<1> QED
  BY <1>1, <1>2, <1>3, <1>4, <1>5 DEF blocks

\* Complete chunks have their number of blocks.
LEMMA FullChunk == BlockCount(ChunkLen) - 1 = BlocksPerChunk - 1
<1>1. PICK m \in Nat : BlocksPerChunk = m + 1
  <2>1. BlocksPerChunk - 1 \in Nat /\ BlocksPerChunk = (BlocksPerChunk - 1) + 1
    BY LensArePositive
  <2> QED
    BY <2>1
<1>2. BlockLen * m + BlockLen = ChunkLen
  <2>1. \A a, b \in Nat : a * b + a = a * (b + 1)
    OBVIOUS
  <2> QED
    BY <1>1, <2>1, LensArePositive DEF ChunkLen
<1>3. BlockLen \in 0 .. BlockLen /\ BlockLen > 0
  BY LensArePositive
<1>4. BlockCount(BlockLen * m + BlockLen) - 1 = m
  BY <1>3, LastBlock
<1> QED
  BY <1>1, <1>2, <1>4

\* The function ChunkCV() is defined with exists for complete chunks, and
\* hash_many()'s chain over the chunk's blocks is that function.
LEMMA ChainOfChunk ==
  ASSUME NEW from, NEW c
  PROVE  ChainOf(ChunkBlocks(from), c, {}, {"start"}, {"end"}) = ChunkCV(from, ChunkLen, c)
<1> DEFINE n == BlocksPerChunk
           blocks == ChunkBlocks(from)
           A == CHOOSE a : Afters(a, from, ChunkLen, c, n - 1)
<1>1. n \in Nat \ {0}
  BY LensArePositive
<1>2. Len(blocks) = n /\ \A b \in 1 .. n : blocks[b] = Data(ChunkBlock(from, ChunkLen, b - 1))
  BY <1>1, LenOfList DEF ChunkBlocks
<1> HIDE DEF blocks
<1>3. PICK l : /\ Links(l, blocks, c, {}, {"start"}, {"end"}, n)
               /\ ChainOf(blocks, c, {}, {"start"}, {"end"}) = l[n]
  BY <1>1, <1>2, ChainIs
<1>4. ASSUME NEW a, NEW b \in 0 .. n - 1, b = 0 \/ a[b - 1] = l[b]
      PROVE  AfterOf(a, from, ChunkLen, c, n - 1, b) = l[b + 1]
  <2>1. b + 1 \in 1 .. n /\ (b + 1) - 1 = b /\ (b + 1 = 1 <=> b = 0) /\ (b + 1 = n <=> b = n - 1)
    BY <1>1
  <2>2. l[b + 1] = LinkOf(l, blocks, c, {}, {"start"}, {"end"}, b + 1)
    BY <1>3, <2>1 DEF Links
  <2>3. blocks[b + 1] = Data(ChunkBlock(from, ChunkLen, b))
    BY <1>2, <2>1
  <2>4. (IF b + 1 = 1 THEN Key ELSE l[(b + 1) - 1]) = (IF b = 0 THEN Key ELSE a[b - 1])
    BY <1>4, <2>1
  <2>5. {} \cup (IF b + 1 = 1 THEN {"start"} ELSE {}) \cup (IF b + 1 = Len(blocks) THEN {"end"} ELSE {})
          = StartOf(b) \cup (IF b = n - 1 THEN {"end"} ELSE {})
    BY <1>2, <2>1 DEF StartOf
  <2> QED
    BY <2>2, <2>3, <2>4, <2>5, Zenon DEF LinkOf, AfterOf
<1>5. Afters(A, from, ChunkLen, c, n - 1)
  <2> DEFINE a == [b \in 0 .. n - 1 |-> l[b + 1]]
             e == [b \in 0 .. n - 1 |-> AfterOf(a, from, ChunkLen, c, n - 1, b)]
  <2>1. ASSUME NEW b \in 0 .. n - 1 PROVE a[b] = e[b]
    <3>1. b = 0 \/ a[b - 1] = l[b]
      <4> SUFFICES ASSUME b # 0 PROVE a[b - 1] = l[b]
        OBVIOUS
      <4>1. b - 1 \in 0 .. n - 1 /\ (b - 1) + 1 = b
        BY <1>1
      <4> QED
        BY <4>1
    <3>2. a[b] = l[b + 1] /\ e[b] = AfterOf(a, from, ChunkLen, c, n - 1, b)
      OBVIOUS
    <3> HIDE DEF a, e
    <3>3. AfterOf(a, from, ChunkLen, c, n - 1, b) = l[b + 1]
      BY <1>4, <3>1
    <3> QED
      BY <3>2, <3>3
  <2>2. a = e
    <3>1. a = [b \in 0 .. n - 1 |-> a[b]] /\ e = [b \in 0 .. n - 1 |-> e[b]]
      OBVIOUS
    <3> HIDE DEF a, e
    <3> QED
      BY <2>1, <3>1
  <2>3. Afters(a, from, ChunkLen, c, n - 1)
    BY <2>2 DEF Afters
  <2> HIDE DEF a, e
  <2> QED
    BY <2>3
<1>6. ChunkCV(from, ChunkLen, c) = A[n - 1]
  BY FullChunk, Zenon DEF ChunkCV, Afters, AfterOf, StartOf
<1> HIDE DEF A
<1> DEFINE S == {b \in Nat : b < n => A[b] = l[b + 1]}
<1>7. 0 \in S
  <2>1. 0 \in 0 .. n - 1
    BY <1>1
  <2>2. A[0] = AfterOf(A, from, ChunkLen, c, n - 1, 0)
    BY <1>5, <2>1 DEF Afters
  <2>3. AfterOf(A, from, ChunkLen, c, n - 1, 0) = l[0 + 1]
    BY <1>4, <2>1
  <2> QED
    BY <2>2, <2>3
<1>8. ASSUME NEW b \in Nat, b \in S PROVE b + 1 \in S
  <2> SUFFICES ASSUME b + 1 < n PROVE A[b + 1] = l[(b + 1) + 1]
    OBVIOUS
  <2>1. b + 1 \in 0 .. n - 1 /\ (b + 1) - 1 = b /\ b < n
    BY <1>1
  <2>2. A[(b + 1) - 1] = l[b + 1]
    BY <1>8, <2>1
  <2> HIDE DEF S
  <2>3. A[b + 1] = AfterOf(A, from, ChunkLen, c, n - 1, b + 1)
    BY <1>5, <2>1 DEF Afters
  <2>4. AfterOf(A, from, ChunkLen, c, n - 1, b + 1) = l[(b + 1) + 1]
    BY <1>4, <2>1, <2>2
  <2> QED
    BY <2>3, <2>4
<1>9. Nat \subseteq S
  <2> HIDE DEF S
  <2> QED
    BY <1>7, <1>8, Induction
<1>10. A[n - 1] = l[n]
  <2>1. n - 1 \in Nat /\ n - 1 < n /\ (n - 1) + 1 = n
    BY <1>1
  <2>2. n - 1 \in S
    BY <1>9, <2>1
  <2> QED
    BY <2>1, <2>2
<1> QED
  BY <1>3, <1>6, <1>10 DEF blocks

-----------------------------------------------------------------------------
(* Rows of subtrees *)

\* q neighbouring subtrees of p chunks each, from chunk lo on.
Row(origin, lo, p, q) == [i \in 1 .. q |-> Tree(origin, lo + (i - 1) * p, p)]

\* What the batches of a running kernel find in the dial.
DialsOf(modes) == modes[1] \in Modes /\ modes[2] \in Modes

\* A list followed by nothing is the list.
LEMMA ListKeeps ==
  ASSUME NEW w \in Nat, NEW s, s = [i \in 1 .. w |-> s[i]]
  PROVE  s \o << >> = s
<1>1. s \in Seq({s[i] : i \in 1 .. w})
  BY ListIsSeq
<1> QED
  BY <1>1

\* Two lists, one after the other.
LEMMA ListsJoin ==
  ASSUME NEW v \in Nat, NEW w \in Nat, NEW s, NEW t,
         s = [i \in 1 .. v |-> s[i]], t = [i \in 1 .. w |-> t[i]]
  PROVE  s \o t = [i \in 1 .. v + w |-> IF i <= v THEN s[i] ELSE t[i - v]]
<1>1. s \in Seq({s[i] : i \in 1 .. v}) /\ t \in Seq({t[i] : i \in 1 .. w})
  BY ListIsSeq
<1>2. Len(s) = v /\ Len(t) = w
  BY LenOfList
<1> QED
  BY <1>1, <1>2

\* Two rows of one size are the row of twice as many.
LEMMA RowsJoin ==
  ASSUME NEW origin, NEW lo \in Nat, NEW p \in Nat, NEW q \in Nat
  PROVE  Row(origin, lo, p, q) \o Row(origin, lo + q * p, p, q) = Row(origin, lo, p, 2 * q)
<1> DEFINE s == Row(origin, lo, p, q)
           t == Row(origin, lo + q * p, p, q)
<1>1. s = [i \in 1 .. q |-> s[i]] /\ t = [i \in 1 .. q |-> t[i]]
  BY DEF Row
<1>2. /\ \A i \in 1 .. q : s[i] = Tree(origin, lo + (i - 1) * p, p)
      /\ \A i \in 1 .. q : t[i] = Tree(origin, lo + q * p + (i - 1) * p, p)
  BY DEF Row
<1> HIDE DEF s, t
<1>3. s \o t = [i \in 1 .. q + q |-> IF i <= q THEN s[i] ELSE t[i - q]]
  BY <1>1, ListsJoin
<1>4. ASSUME NEW i \in 1 .. q + q
      PROVE  (IF i <= q THEN s[i] ELSE t[i - q]) = Tree(origin, lo + (i - 1) * p, p)
  <2>1. CASE i <= q
    BY <1>2, <2>1
  <2>2. CASE ~(i <= q)
    <3>1. i - q \in 1 .. q
      BY <2>2
    <3>2. t[i - q] = Tree(origin, lo + q * p + (i - q - 1) * p, p)
      BY <1>2, <3>1
    <3>3. PICK j \in Nat : j = i - q - 1 /\ i - 1 = q + j
      BY <3>1
    <3>4. lo + q * p + j * p = lo + (q + j) * p
      <4>1. \A a, b, c, d \in Nat : a + b * d + c * d = a + (b + c) * d
        OBVIOUS
      <4> QED
        BY <4>1
    <3> QED
      BY <2>2, <3>2, <3>3, <3>4
  <2> QED
    BY <2>1, <2>2
<1>5. q + q = 2 * q
  OBVIOUS
<1>6. s \o t = [i \in 1 .. 2 * q |-> Tree(origin, lo + (i - 1) * p, p)]
  BY <1>3, <1>4, <1>5, Zenon
<1> QED
  BY <1>6 DEF Row, s, t

\* Chunks hashed in a row are the subtrees of one chunk.
LEMMA HashChunksIs ==
  ASSUME NEW kernel \in Kernels, NEW modes, DialsOf(modes),
         NEW origin \in Nat, NEW lo \in Nat, NEW n \in Nat, origin + lo + n <= Word * Word
  PROVE  HashChunks(kernel, modes, lo * ChunkLen, n, origin + lo) = Row(origin, lo, 1, n)
<1> DEFINE inputs == [i \in 1 .. n |-> ChunkBlocks(lo * ChunkLen + (i - 1) * ChunkLen)]
<1>1. inputs = [i \in 1 .. n |-> inputs[i]]
  OBVIOUS
<1>2. \A i \in 1 .. n : inputs[i] = ChunkBlocks(lo * ChunkLen + (i - 1) * ChunkLen)
  OBVIOUS
<1>3. HashChunks(kernel, modes, lo * ChunkLen, n, origin + lo)
        = HashMany(kernel, modes, inputs, origin + lo, TRUE, {}, {"start"}, {"end"})
  BY DEF HashChunks
<1> HIDE DEF inputs
<1>4. Len(inputs) = n
  BY <1>1, LenOfList
<1>5. PICK ctr \in Nat : ctr = origin + lo
  OBVIOUS
<1>6. HashedAs(kernel, modes, inputs, ctr, TRUE, {}, {"start"}, {"end"})
  <2>1. modes[1] \in Modes /\ modes[2] \in Modes
    BY DEF DialsOf
  <2>2. PICK t \in Nat : t = Word * Word
    BY KernelAssumption
  <2>3. Len(inputs) \in Nat /\ TRUE \in BOOLEAN
    BY <1>4
  <2>4. ctr + (IF TRUE THEN Len(inputs) ELSE 1) <= Word * Word
    BY <1>4, <1>5, <2>2
  <2>5. \A increment \in BOOLEAN : \A flags, first, last :
          ctr + (IF increment THEN Len(inputs) ELSE 1) <= Word * Word
            => HashedAs(kernel, modes, inputs, ctr, increment, flags, first, last)
    BY <2>1, <2>3, HashManyIs
  <2> QED
    BY <2>3, <2>4, <2>5
<1>7. ASSUME NEW i \in 1 .. n
      PROVE  ChainOf(inputs[i], ctr + (IF TRUE THEN i - 1 ELSE 0), {}, {"start"}, {"end"})
               = Tree(origin, lo + (i - 1) * 1, 1)
  <2>1. PICK j \in Nat : j = i - 1
    OBVIOUS
  <2>2. lo * ChunkLen + j * ChunkLen = (lo + j) * ChunkLen
    <3>1. \A a, b, c \in Nat : a * c + b * c = (a + b) * c
      OBVIOUS
    <3> QED
      BY <3>1, LensArePositive
  <2>3. inputs[i] = ChunkBlocks((lo + j) * ChunkLen)
    BY <1>2, <2>1, <2>2
  <2>4. ctr + (IF TRUE THEN i - 1 ELSE 0) = origin + (lo + j)
    BY <1>5, <2>1
  <2>5. ChainOf(ChunkBlocks((lo + j) * ChunkLen), origin + (lo + j), {}, {"start"}, {"end"})
          = ChunkCV((lo + j) * ChunkLen, ChunkLen, origin + (lo + j))
    BY ChainOfChunk
  <2>6. Tree(origin, lo + j, 1) = ChunkCV((lo + j) * ChunkLen, ChunkLen, origin + (lo + j))
    <3>1. lo + j \in Nat
      OBVIOUS
    <3> QED
      BY <3>1, TreeOfOne
  <2>7. lo + (i - 1) * 1 = lo + j
    BY <2>1
  <2> QED
    BY <2>3, <2>4, <2>5, <2>6, <2>7, Zenon
<1>8. HashMany(kernel, modes, inputs, ctr, TRUE, {}, {"start"}, {"end"})
        = [i \in 1 .. n |->
             ChainOf(inputs[i], ctr + (IF TRUE THEN i - 1 ELSE 0), {}, {"start"}, {"end"})]
  BY <1>4, <1>6, Zenon DEF HashedAs
<1>9. HashMany(kernel, modes, inputs, ctr, TRUE, {}, {"start"}, {"end"})
        = [i \in 1 .. n |-> Tree(origin, lo + (i - 1) * 1, 1)]
  BY <1>7, <1>8, Zenon
<1> QED
  BY <1>3, <1>5, <1>9 DEF Row

\* One generation of parents over an even row is the row of twice the size.
LEMMA ParentsOfRow ==
  ASSUME NEW kernel \in Kernels, NEW modes, DialsOf(modes),
         NEW origin \in Nat, NEW lo \in Nat, NEW p \in Powers, 2 * p \in Powers, NEW q \in Nat
  PROVE  ParentsWide(kernel, modes, Row(origin, lo, p, 2 * q)) = Row(origin, lo, 2 * p, q)
<1> DEFINE row == Row(origin, lo, p, 2 * q)
<1>1. row = [i \in 1 .. 2 * q |-> row[i]]
  BY DEF Row
<1>2. \A i \in 1 .. 2 * q : row[i] = Tree(origin, lo + (i - 1) * p, p)
  BY DEF Row
<1> HIDE DEF row
<1>3. Len(row) = 2 * q
  BY <1>1, LenOfList
<1>4. Len(row) \div 2 = q /\ Len(row) % 2 = 0
  BY <1>3
<1> DEFINE pairs == [i \in 1 .. q |-> <<Children(row[2 * i - 1], row[2 * i])>>]
           h == HashMany(kernel, modes, pairs, 0, FALSE, {"parent"}, {}, {})
<1>5. ParentsWide(kernel, modes, row) = h \o << >>
  BY <1>4, Zenon DEF ParentsWide
<1>6. pairs = [i \in 1 .. q |-> pairs[i]]
      /\ \A i \in 1 .. q : pairs[i] = <<Children(row[2 * i - 1], row[2 * i])>>
  OBVIOUS
<1> HIDE DEF pairs
<1>7. Len(pairs) = q
  BY <1>6, LenOfList
<1>8. HashedAs(kernel, modes, pairs, 0, FALSE, {"parent"}, {}, {})
  <2>1. modes[1] \in Modes /\ modes[2] \in Modes
    BY DEF DialsOf
  <2>2. PICK t \in Nat : t = Word * Word /\ t >= 1
    <3>1. \A a \in Nat \ {0} : a * a \in Nat /\ a * a >= 1
      OBVIOUS
    <3> QED
      BY <3>1, KernelAssumption
  <2>3. Len(pairs) \in Nat /\ FALSE \in BOOLEAN /\ 0 \in Nat
    BY <1>7
  <2>4. 0 + (IF FALSE THEN Len(pairs) ELSE 1) <= Word * Word
    BY <2>2
  <2>5. \A increment \in BOOLEAN : \A flags, first, last :
          0 + (IF increment THEN Len(pairs) ELSE 1) <= Word * Word
            => HashedAs(kernel, modes, pairs, 0, increment, flags, first, last)
    BY <2>1, <2>3, HashManyIs
  <2> QED
    BY <2>3, <2>4, <2>5
<1>9. ASSUME NEW i \in 1 .. q
      PROVE  ChainOf(pairs[i], 0 + (IF FALSE THEN i - 1 ELSE 0), {"parent"}, {}, {})
               = Tree(origin, lo + (i - 1) * (2 * p), 2 * p)
  <2>1. PICK j \in Nat : j = i - 1
    OBVIOUS
  <2>2. PICK m \in Nat : m = lo + j * (2 * p)
    <3>1. \A a, b, c \in Nat : a + b * c \in Nat
      OBVIOUS
    <3>2. 2 * p \in Nat
      BY PowersAreNat
    <3> QED
      BY <3>1, <3>2
  <2>3. 2 * i - 1 \in 1 .. 2 * q /\ 2 * i \in 1 .. 2 * q /\ 2 * i - 1 - 1 = 2 * j /\ 2 * i - 1 = 2 * j + 1
    BY <2>1
  <2>4. lo + (2 * j) * p = m /\ lo + (2 * j + 1) * p = m + p
    <3>1. \A a, b, c \in Nat : a + (2 * b) * c = a + b * (2 * c)
                               /\ a + (2 * b + 1) * c = (a + b * (2 * c)) + c
      OBVIOUS
    <3> QED
      BY <2>2, <3>1, PowersAreNat
  <2>5. row[2 * i - 1] = Tree(origin, m, p) /\ row[2 * i] = Tree(origin, m + p, p)
    BY <1>2, <2>3, <2>4
  <2>6. pairs[i] = <<Children(Tree(origin, m, p), Tree(origin, m + p, p))>>
    BY <1>6, <2>5
  <2>7. 0 + (IF FALSE THEN i - 1 ELSE 0) = 0
    OBVIOUS
  <2>8. Tree(origin, m, 2 * p) = Parent(Tree(origin, m, p), Tree(origin, m + p, p))
    BY TreeOfHalves
  <2>9. ChainOf(<<Children(Tree(origin, m, p), Tree(origin, m + p, p))>>, 0, {"parent"}, {}, {})
          = Parent(Tree(origin, m, p), Tree(origin, m + p, p))
    BY ChainOfParent
  <2>10. lo + (i - 1) * (2 * p) = m
    BY <2>1, <2>2
  <2> QED
    BY <2>6, <2>7, <2>8, <2>9, <2>10, Zenon
<1>10. h = [i \in 1 .. q |->
              ChainOf(pairs[i], 0 + (IF FALSE THEN i - 1 ELSE 0), {"parent"}, {}, {})]
  BY <1>7, <1>8, Zenon DEF HashedAs
<1> HIDE DEF h
<1>11. h = [i \in 1 .. q |-> Tree(origin, lo + (i - 1) * (2 * p), 2 * p)]
  BY <1>9, <1>10, Zenon
<1>12. h \o << >> = h
  <2>1. h = [i \in 1 .. q |-> h[i]]
    BY <1>11
  <2> QED
    BY <2>1, ListKeeps
<1> QED
  BY <1>5, <1>11, <1>12 DEF Row, row

-----------------------------------------------------------------------------
(* compress_subtree_wide() and its recursion *)

\* Generation g, from the one before.
GenerationOf(a, kernel, modes, row, g) ==
  IF g = 0 THEN row
  ELSE LET previous == a[g - 1]
       IN IF Len(previous) = 1 THEN previous ELSE ParentsWide(kernel, modes, previous)

\* The function Reduce() is defined with, up to generation n.
Generations(a, kernel, modes, row, n) ==
  a = [g \in 0 .. n |-> GenerationOf(a, kernel, modes, row, g)]

\* A generation depends on the one before only.
LEMMA GenerationsAgree ==
  ASSUME NEW a, NEW f, NEW kernel, NEW modes, NEW row, NEW g, g = 0 \/ a[g - 1] = f[g - 1]
  PROVE  GenerationOf(a, kernel, modes, row, g) = GenerationOf(f, kernel, modes, row, g)
<1>1. CASE g = 0
  BY <1>1 DEF GenerationOf
<1>2. CASE g # 0
  <2>1. a[g - 1] = f[g - 1]
    BY <1>2
  <2> QED
    BY <1>2, <2>1, Zenon DEF GenerationOf
<1> QED
  BY <1>1, <1>2

\* The function Reduce() is defined with exists.
LEMMA GenerationsExist ==
  ASSUME NEW kernel, NEW modes, NEW row, NEW k \in Nat
  PROVE  \E a : Generations(a, kernel, modes, row, k)
<1> DEFINE Gen(a, g) == GenerationOf(a, kernel, modes, row, g)
           S == {n \in Nat : \E a : Generations(a, kernel, modes, row, n)}
<1>1. 0 \in S
  <2> DEFINE a == [g \in 0 .. 0 |-> row]
             e == [g \in 0 .. 0 |-> Gen(a, g)]
  <2>1. a = e
    <3>1. ASSUME NEW g \in 0 .. 0 PROVE Gen(a, g) = row
      <4>1. g = 0
        OBVIOUS
      <4> HIDE DEF a
      <4> QED
        BY <4>1, Zenon DEF GenerationOf
    <3> HIDE DEF Gen
    <3> QED
      BY <3>1
  <2>2. Generations(a, kernel, modes, row, 0)
    BY <2>1 DEF Generations
  <2> QED
    BY <2>2
<1>2. ASSUME NEW n \in Nat, n \in S PROVE n + 1 \in S
  <2>1. PICK a : Generations(a, kernel, modes, row, n)
    BY <1>2
  <2> HIDE DEF S
  <2> DEFINE f == [g \in 0 .. n + 1 |-> IF g = n + 1 THEN Gen(a, g) ELSE a[g]]
             e == [g \in 0 .. n + 1 |-> Gen(f, g)]
  <2>2. ASSUME NEW g \in 0 .. n + 1 PROVE f[g] = e[g]
    <3>1. g = 0 \/ a[g - 1] = f[g - 1]
      BY <2>2
    <3> HIDE DEF f
    <3>2. Gen(a, g) = Gen(f, g)
      BY <3>1, GenerationsAgree
    <3>3. CASE g = n + 1
      <4>1. f[g] = Gen(a, g)
        BY <3>3 DEF f
      <4> QED
        BY <3>2, <4>1
    <3>4. CASE g # n + 1
      <4>1. g \in 0 .. n
        BY <3>4
      <4>2. f[g] = a[g]
        BY <3>4 DEF f
      <4>3. a[g] = Gen(a, g)
        BY <2>1, <4>1 DEF Generations
      <4> QED
        BY <3>2, <4>2, <4>3
    <3> QED
      BY <3>3, <3>4
  <2>3. f = e
    <3>1. f = [g \in 0 .. n + 1 |-> f[g]] /\ e = [g \in 0 .. n + 1 |-> e[g]]
      OBVIOUS
    <3> HIDE DEF f, e
    <3> QED
      BY <2>2, <3>1
  <2>4. Generations(f, kernel, modes, row, n + 1)
    BY <2>3 DEF Generations
  <2> QED
    BY <2>4 DEF S
<1>3. Nat \subseteq S
  <2> HIDE DEF S
  <2> QED
    BY <1>1, <1>2, Induction
<1> QED
  BY <1>3

\* A greater power of two is twice another.
LEMMA PowersHalve ==
  ASSUME NEW q \in Powers, q # 1
  PROVE  \E h \in Powers : q = 2 * h
BY DEF Powers

\* A row has its length.
LEMMA RowLen ==
  ASSUME NEW origin, NEW lo, NEW p, NEW q \in Nat
  PROVE  Len(Row(origin, lo, p, q)) = q
<1> DEFINE s == Row(origin, lo, p, q)
<1>1. s = [i \in 1 .. q |-> s[i]]
  BY DEF Row
<1> HIDE DEF s
<1>2. Len(s) = q
  BY <1>1, LenOfList
<1> QED
  BY <1>2 DEF s

\* A row of so many subtrees over total chunks.
Rowed(row, origin, lo, total) ==
  \E p, q \in Powers : p * q = total /\ row = Row(origin, lo, p, q)

\* Generations of parents reduce a row to the subtree of all its chunks.
LEMMA ReduceIs ==
  ASSUME NEW kernel \in Kernels, NEW modes, DialsOf(modes),
         NEW origin \in Nat, NEW lo \in Nat, NEW total \in Powers, NEW row,
         Rowed(row, origin, lo, total)
  PROVE  Reduce(kernel, modes, row) = Tree(origin, lo, total)
<1>1. PICK p \in Powers, q \in Powers : p * q = total /\ row = Row(origin, lo, p, q)
  BY DEF Rowed
<1>2. q \in Nat \ {0} /\ Len(row) = q
  BY <1>1, PowersAreNat, RowLen
<1> DEFINE a == CHOOSE f : Generations(f, kernel, modes, row, q)
<1>3. Generations(a, kernel, modes, row, q)
  BY <1>2, GenerationsExist
<1>4. Reduce(kernel, modes, row) = a[q][1]
  BY <1>2, Zenon DEF Reduce, Generations, GenerationOf
<1> HIDE DEF a
<1> DEFINE Good(g) == \E s, r \in Powers : /\ s * r = total /\ a[g] = Row(origin, lo, s, r)
                                           /\ r = 1 \/ r + g <= q
           S == {g \in Nat : g <= q => Good(g)}
<1>5. 0 \in S
  <2>1. a[0] = row
    <3>1. a[0] = GenerationOf(a, kernel, modes, row, 0)
      BY <1>2, <1>3 DEF Generations
    <3> QED
      BY <3>1 DEF GenerationOf
  <2>2. q + 0 <= q
    BY <1>2
  <2> QED
    BY <1>1, <2>1, <2>2
<1>6. ASSUME NEW g \in Nat, g \in S PROVE g + 1 \in S
  <2> SUFFICES ASSUME g + 1 <= q PROVE Good(g + 1)
    OBVIOUS
  <2>1. g <= q /\ g + 1 \in 0 .. q /\ (g + 1) - 1 = g /\ g + 1 # 0
    BY <1>2
  <2>2. PICK s \in Powers, r \in Powers : /\ s * r = total /\ a[g] = Row(origin, lo, s, r)
                                          /\ r = 1 \/ r + g <= q
    BY <1>6, <2>1
  <2> HIDE DEF S
  <2>3. r \in Nat \ {0} /\ s \in Nat \ {0} /\ Len(a[g]) = r
    BY <2>2, PowersAreNat, RowLen
  <2>4. a[g + 1] = IF Len(a[g]) = 1 THEN a[g] ELSE ParentsWide(kernel, modes, a[g])
    <3>1. a[g + 1] = GenerationOf(a, kernel, modes, row, g + 1)
      BY <1>3, <2>1 DEF Generations
    <3> QED
      BY <2>1, <3>1, Zenon DEF GenerationOf
  <2>5. CASE r = 1
    <3>1. a[g + 1] = a[g]
      BY <2>3, <2>4, <2>5
    <3> QED
      BY <2>2, <2>5, <3>1
  <2>6. CASE r # 1
    <3>1. PICK h \in Powers : r = 2 * h
      BY <2>6, PowersHalve
    <3>2. h \in Nat \ {0} /\ h + (g + 1) <= q
      BY <2>2, <2>6, <3>1, PowersAreNat
    <3>3. (2 * s) * h = total /\ s < total
      <4>1. \A x \in Nat \ {0}, y \in Nat \ {0} : x * (2 * y) = (2 * x) * y /\ x < x * (2 * y)
        OBVIOUS
      <4> QED
        BY <2>2, <2>3, <3>1, <3>2, <4>1
    <3>4. 2 * s \in Powers
      BY <3>3, PowersDouble
    <3>5. ParentsWide(kernel, modes, Row(origin, lo, s, 2 * h)) = Row(origin, lo, 2 * s, h)
      BY <3>2, <3>4, ParentsOfRow
    <3>6. a[g + 1] = Row(origin, lo, 2 * s, h)
      BY <2>2, <2>3, <2>4, <2>6, <3>1, <3>5
    <3> QED
      BY <3>2, <3>3, <3>4, <3>6
  <2> QED
    BY <2>5, <2>6
<1>7. Nat \subseteq S
  <2> HIDE DEF S
  <2> QED
    BY <1>5, <1>6, Induction
<1>8. PICK s \in Powers, r \in Powers : /\ s * r = total /\ a[q] = Row(origin, lo, s, r)
                                        /\ r = 1 \/ r + q <= q
  BY <1>2, <1>7
<1>9. r = 1 /\ s = total
  <2>1. r \in Nat \ {0} /\ s \in Nat \ {0}
    BY PowersAreNat
  <2>2. r = 1
    BY <1>2, <1>8, <2>1
  <2> QED
    BY <1>8, <2>1, <2>2
<1>10. a[q][1] = Tree(origin, lo + (1 - 1) * s, s)
  BY <1>8, <1>9 DEF Row
<1>11. lo + (1 - 1) * s = lo
  BY <1>9, PowersAreNat
<1> QED
  BY <1>4, <1>9, <1>10, <1>11

\* The values of compress_subtree_wide() over n chunks each.
WideLevel(t, kernel, modes, from, num, first, n) ==
  [lo \in 0 .. num - n |->
     IF n <= 2 * kernel.width
     THEN HashChunks(kernel, modes, from + lo * ChunkLen, n, first + lo)
     ELSE LET half == n \div 2
          IN ParentsWide(kernel, modes, t[half][lo] \o t[half][lo + half])]

\* The function SubtreeWide() is defined with, on sizes up to m.
Wides(t, kernel, modes, from, num, first, m) ==
  t = [n \in 1 .. m |-> WideLevel(t, kernel, modes, from, num, first, n)]

\* Two of those functions agree on the sizes both have.
LEMMA WideLevelsAgree ==
  ASSUME NEW t, NEW g, NEW kernel, NEW modes, NEW from, NEW num, NEW first, NEW n,
         n <= 2 * kernel.width \/ t[n \div 2] = g[n \div 2]
  PROVE  WideLevel(t, kernel, modes, from, num, first, n) = WideLevel(g, kernel, modes, from, num, first, n)
<1>1. CASE n <= 2 * kernel.width
  BY <1>1 DEF WideLevel
<1>2. CASE ~(n <= 2 * kernel.width)
  <2>1. t[n \div 2] = g[n \div 2]
    BY <1>2
  <2> QED
    BY <1>2, <2>1, Zenon DEF WideLevel
<1> QED
  BY <1>1, <1>2

\* The function SubtreeWide() is defined with exists.
LEMMA WidesExist ==
  ASSUME NEW kernel \in Kernels, NEW modes, NEW from, NEW num, NEW first, NEW k \in Nat
  PROVE  \E t : Wides(t, kernel, modes, from, num, first, k)
<1> DEFINE L(t, n) == WideLevel(t, kernel, modes, from, num, first, n)
           S == {m \in Nat : \E t : Wides(t, kernel, modes, from, num, first, m)}
<1>0. 2 * kernel.width \in Nat /\ 2 * kernel.width >= 2
  <2>1. kernel.width \in {1, 4, 8, 16}
    BY KernelAssumption DEF KernelSet
  <2> QED
    BY <2>1
<1>1. 0 \in S
  <2> DEFINE t == [n \in 1 .. 0 |-> 0]
             e == [n \in 1 .. 0 |-> L(t, n)]
  <2>1. t = e
    <3>1. 1 .. 0 = {}
      OBVIOUS
    <3> HIDE DEF t, L
    <3>2. e = [n \in {} |-> L(t, n)]
      BY <3>1
    <3>3. t = [n \in {} |-> 0]
      BY <3>1 DEF t
    <3> QED
      BY <3>2, <3>3
  <2>2. Wides(t, kernel, modes, from, num, first, 0)
    BY <2>1 DEF Wides
  <2> QED
    BY <2>2
<1>2. ASSUME NEW m \in Nat, m \in S PROVE m + 1 \in S
  <2>1. PICK t : Wides(t, kernel, modes, from, num, first, m)
    BY <1>2
  <2> HIDE DEF S
  <2> DEFINE g == [n \in 1 .. m + 1 |-> IF n = m + 1 THEN L(t, n) ELSE t[n]]
             e == [n \in 1 .. m + 1 |-> L(g, n)]
  <2>2. ASSUME NEW n \in 1 .. m + 1 PROVE g[n] = e[n]
    <3>1. n <= 2 * kernel.width \/ t[n \div 2] = g[n \div 2]
      <4> SUFFICES ASSUME ~(n <= 2 * kernel.width) PROVE t[n \div 2] = g[n \div 2]
        OBVIOUS
      <4>1. n > 1
        BY <1>0
      <4>2. PICK half \in 1 .. m : half = n \div 2
        BY <4>1
      <4>3. half \in 1 .. m + 1 /\ half # m + 1
        BY <4>2
      <4>4. g[half] = t[half]
        BY <4>3
      <4> HIDE DEF g
      <4> QED
        BY <4>2, <4>4
    <3> HIDE DEF g
    <3>2. L(t, n) = L(g, n)
      BY <3>1, WideLevelsAgree
    <3> HIDE DEF L
    <3>3. CASE n = m + 1
      <4>1. g[n] = L(t, n)
        BY <3>3 DEF g
      <4> QED
        BY <3>2, <4>1
    <3>4. CASE n # m + 1
      <4>1. n \in 1 .. m
        BY <3>4
      <4>2. g[n] = t[n]
        BY <3>4 DEF g
      <4>3. t[n] = L(t, n)
        BY <2>1, <4>1 DEF Wides, L
      <4> QED
        BY <3>2, <4>2, <4>3
    <3> QED
      BY <3>3, <3>4
  <2>3. g = e
    <3>1. g = [n \in 1 .. m + 1 |-> g[n]] /\ e = [n \in 1 .. m + 1 |-> e[n]]
      OBVIOUS
    <3> HIDE DEF g, e
    <3> QED
      BY <2>2, <3>1
  <2>4. Wides(g, kernel, modes, from, num, first, m + 1)
    BY <2>3 DEF Wides
  <2> QED
    BY <2>4 DEF S
<1>3. Nat \subseteq S
  <2> HIDE DEF S
  <2> QED
    BY <1>1, <1>2, Induction
<1> QED
  BY <1>3

\* Every value over n chunks is a row, of one shape wherever it starts.
WideRows(t, at, num, origin, n) ==
  \E p, q \in Powers :
    p * q = n /\ \A lo \in 0 .. num - n : t[n][lo] = Row(origin, at + lo, p, q)

\* compress_subtree_wide() over a power of two of chunks, from chunk "at" on.
LEMMA WideIs ==
  ASSUME NEW kernel \in Kernels, NEW modes, DialsOf(modes), NEW origin \in Nat, NEW at \in Nat,
         NEW num \in Powers, origin + at + num <= Word * Word,
         NEW t, Wides(t, kernel, modes, at * ChunkLen, num, origin + at, num)
  PROVE  \A n \in Powers : n <= num => WideRows(t, at, num, origin, n)
<1> DEFINE S == {n \in Powers : n <= num => WideRows(t, at, num, origin, n)}
<1>0. num \in Nat \ {0}
  BY PowersAreNat
<1>1. ASSUME NEW n \in Powers, n <= num, NEW lo \in 0 .. num - n
      PROVE  t[n][lo] = IF n <= 2 * kernel.width
                        THEN HashChunks(kernel, modes, at * ChunkLen + lo * ChunkLen, n,
                                        origin + at + lo)
                        ELSE LET half == n \div 2
                             IN ParentsWide(kernel, modes, t[half][lo] \o t[half][lo + half])
  <2>1. n \in 1 .. num
    BY <1>0, <1>1, PowersAreNat
  <2>2. t[n] = WideLevel(t, kernel, modes, at * ChunkLen, num, origin + at, n)
    BY <2>1 DEF Wides
  <2> QED
    BY <2>2, Zenon DEF WideLevel
<1>2. ASSUME NEW n \in Powers, n <= num, n <= 2 * kernel.width
      PROVE  WideRows(t, at, num, origin, n)
  <2>1. n \in Nat \ {0} /\ 1 \in Powers /\ 1 * n = n
    BY PowersAreNat DEF Powers
  <2>2. ASSUME NEW lo \in 0 .. num - n PROVE t[n][lo] = Row(origin, at + lo, 1, n)
    <3>1. t[n][lo] = HashChunks(kernel, modes, at * ChunkLen + lo * ChunkLen, n, origin + at + lo)
      BY <1>1, <1>2
    <3>2. at * ChunkLen + lo * ChunkLen = (at + lo) * ChunkLen
      <4>1. \A a, b, c \in Nat : a * c + b * c = (a + b) * c
        OBVIOUS
      <4> QED
        BY <4>1, LensArePositive
    <3>3. PICK m \in Nat : m = at + lo
      OBVIOUS
    <3>4. n \in Nat /\ origin + at + lo = origin + m /\ origin + m + n <= Word * Word
      <4>1. PICK w \in Nat : w = Word * Word
        BY KernelAssumption
      <4> QED
        BY <1>0, <2>1, <3>3, <4>1
    <3>5. HashChunks(kernel, modes, m * ChunkLen, n, origin + m) = Row(origin, m, 1, n)
      BY <3>4, HashChunksIs
    <3> QED
      BY <3>1, <3>2, <3>3, <3>4, <3>5
  <2> QED
    BY <2>1, <2>2 DEF WideRows
<1>3. 1 \in S
  <2>1. 1 <= 2 * kernel.width
    <3>1. kernel.width \in {1, 4, 8, 16}
      BY KernelAssumption DEF KernelSet
    <3> QED
      BY <3>1
  <2>2. 1 \in Powers
    BY DEF Powers
  <2> QED
    BY <1>2, <2>1, <2>2
<1>4. ASSUME NEW h \in Powers, h \in S, 2 * h \in Powers PROVE 2 * h \in S
  <2> SUFFICES ASSUME 2 * h <= num PROVE WideRows(t, at, num, origin, 2 * h)
    BY <1>4
  <2>1. CASE 2 * h <= 2 * kernel.width
    BY <1>2, <1>4, <2>1
  <2>2. CASE ~(2 * h <= 2 * kernel.width)
    <3>1. h \in Nat \ {0} /\ h <= num
      BY <1>0, PowersAreNat
    <3>2. PICK p \in Powers, q \in Powers :
            p * q = h /\ \A lo \in 0 .. num - h : t[h][lo] = Row(origin, at + lo, p, q)
      BY <1>4, <3>1 DEF WideRows
    <3> HIDE DEF S
    <3>3. p \in Nat \ {0} /\ q \in Nat \ {0} /\ p * q = h
      BY <3>2, PowersAreNat
    <3>4. q * p = h /\ (2 * p) * q = 2 * h /\ p < 2 * h
      <4>1. \A x \in Nat \ {0}, y \in Nat \ {0} :
              y * x = x * y /\ (2 * x) * y = 2 * (x * y) /\ x < 2 * (x * y)
        OBVIOUS
      <4> QED
        BY <3>3, <4>1
    <3>5. 2 * p \in Powers
      BY <1>4, <3>4, PowersDouble
    <3>6. PICK n \in Powers : n = 2 * h
      BY <1>4
    <3>7. n \div 2 = h /\ ~(n <= 2 * kernel.width) /\ n <= num
      BY <2>2, <3>1, <3>6
    <3>8. ASSUME NEW lo \in 0 .. num - n PROVE t[n][lo] = Row(origin, at + lo, 2 * p, q)
      <4>1. t[n][lo] = ParentsWide(kernel, modes, t[h][lo] \o t[h][lo + h])
        <5>1. t[n][lo] = IF n <= 2 * kernel.width
                         THEN HashChunks(kernel, modes, at * ChunkLen + lo * ChunkLen, n,
                                         origin + at + lo)
                         ELSE LET half == n \div 2
                              IN ParentsWide(kernel, modes, t[half][lo] \o t[half][lo + half])
          BY <1>1, <3>7
        <5> QED
          BY <3>7, <5>1, Zenon
      <4>2. lo \in Nat /\ lo \in 0 .. num - h /\ lo + h \in 0 .. num - h
        BY <1>0, <3>1, <3>6
      <4>3. t[h][lo] = Row(origin, at + lo, p, q) /\ t[h][lo + h] = Row(origin, at + (lo + h), p, q)
        BY <3>2, <4>2
      <4>4. PICK m \in Nat : m = at + lo /\ m + h = at + (lo + h)
        BY <3>1, <4>2
      <4>5. Row(origin, m, p, q) \o Row(origin, m + q * p, p, q) = Row(origin, m, p, 2 * q)
        BY <3>3, RowsJoin
      <4>6. ParentsWide(kernel, modes, Row(origin, m, p, 2 * q)) = Row(origin, m, 2 * p, q)
        BY <3>3, <3>5, ParentsOfRow
      <4> QED
        BY <3>4, <4>1, <4>3, <4>4, <4>5, <4>6
    <3>9. WideRows(t, at, num, origin, n)
      BY <3>4, <3>5, <3>6, <3>8 DEF WideRows
    <3> QED
      BY <3>6, <3>9
  <2> QED
    BY <2>1, <2>2
<1> HIDE DEF S
<1>5. Powers \subseteq S
  BY <1>3, <1>4, PowerInduction
<1> QED
  BY <1>5 DEF S

\* The recursion gives the subtree, wherever in its data it starts.
LEMMA SubtreeToCVIs ==
  ASSUME NEW kernel \in Kernels, NEW modes, DialsOf(modes), NEW origin \in Nat, NEW at \in Nat,
         NEW num \in Powers, origin + at + num <= Word * Word
  PROVE  SubtreeToCV(kernel, modes, at * ChunkLen, num, origin + at) = Tree(origin, at, num)
<1> DEFINE t == CHOOSE u : Wides(u, kernel, modes, at * ChunkLen, num, origin + at, num)
           row == SubtreeWide(kernel, modes, at * ChunkLen, num, origin + at)
<1>1. num \in Nat \ {0}
  BY PowersAreNat
<1>2. Wides(t, kernel, modes, at * ChunkLen, num, origin + at, num)
  BY <1>1, WidesExist
<1>3. row = t[num][0]
  BY Zenon DEF SubtreeWide, Wides, WideLevel
<1> HIDE DEF t
<1>4. WideRows(t, at, num, origin, num)
  <2>1. \A n \in Powers : n <= num => WideRows(t, at, num, origin, n)
    BY <1>2, WideIs
  <2>2. num <= num
    BY <1>1
  <2> QED
    BY <2>1, <2>2
<1>5. Rowed(row, origin, at, num)
  <2>1. 0 \in 0 .. num - num /\ at + 0 = at
    BY <1>1
  <2> QED
    BY <1>3, <1>4, <2>1 DEF WideRows, Rowed
<1>6. Reduce(kernel, modes, row) = Tree(origin, at, num)
  <2> HIDE DEF row
  <2> QED
    BY <1>5, ReduceIs
<1> QED
  BY <1>6 DEF SubtreeToCV

\* A subtree at the start of its data is the reference's.
LEMMA TreeAtZero ==
  ASSUME NEW origin \in Nat, NEW p
  PROVE  Tree(origin, 0, p) = SubtreeCV(0, p, origin)
<1>1. origin + 0 = origin /\ 0 * ChunkLen = 0
  BY LensArePositive
<1> QED
  BY <1>1 DEF Tree

-----------------------------------------------------------------------------
(* The values on the fold's stack *)

\* The counters of the subtree fit.
FoldFits ==
  /\ chunkCounter \in Nat
  /\ chunkCounter + numChunks <= Word * Word

\* The stack is true of the chunks folded so far.
FoldTrue == StackTrue(chunkCounter, stack, Lesser(done, numChunks))

\* The fold of a group gives its subtree.
LEMMA GroupCVIs ==
  ASSUME NEW modes, running \in Kernels, DialsOf(modes), chunkCounter \in Nat, done \in Nat,
         NEW n \in Powers, chunkCounter + done + n <= Word * Word
  PROVE  GroupCV(n, modes) = Tree(chunkCounter, done, n)
<1> DEFINE row == HashChunks(running, modes, done * ChunkLen, n, chunkCounter + done)
<1>1. n \in Nat /\ 1 \in Powers /\ 1 * n = n
  BY PowersAreNat DEF Powers
<1>2. row = Row(chunkCounter, done, 1, n)
  BY <1>1, HashChunksIs
<1>3. Rowed(row, chunkCounter, done, n)
  BY <1>1, <1>2 DEF Rowed
<1>4. Reduce(running, modes, row) = Tree(chunkCounter, done, n)
  <2> HIDE DEF row
  <2> QED
    BY <1>3, ReduceIs
<1> QED
  BY <1>4 DEF GroupCV

\* Carries merge the stack's top entries onto the new one, as push_cv() does.
LEMMA CarriesCollapse ==
  ASSUME NEW T, NEW st \in Seq(T), NEW cv, NEW k \in Nat, k <= Len(st),
         NEW f, Merging(f, st, cv, k), NEW g, Collapse(g, st, cv, k)
  PROVE  f[k] = Append(SubSeq(st, 1, Len(st) - k), g[k])
<1> DEFINE n == Len(st)
           S == {c \in Nat : c <= k => f[c] = Append(SubSeq(st, 1, n - c), g[c])}
<1>1. n \in Nat
  OBVIOUS
<1>2. 0 \in S
  <2>1. f[0] = Append(st, cv) /\ g[0] = cv
    BY DEF Merging, Collapse
  <2>2. SubSeq(st, 1, n - 0) = st
    BY <1>1
  <2> QED
    BY <2>1, <2>2
<1>3. ASSUME NEW c \in Nat, c \in S PROVE c + 1 \in S
  <2> SUFFICES ASSUME c + 1 <= k PROVE f[c + 1] = Append(SubSeq(st, 1, n - (c + 1)), g[c + 1])
    OBVIOUS
  <2>1. f[c] = Append(SubSeq(st, 1, n - c), g[c])
    BY <1>3
  <2> HIDE DEF S
  <2>2. c + 1 \in 0 .. k /\ (c + 1) - 1 = c /\ c + 1 # 0
    OBVIOUS
  <2>3. f[c + 1] = Carry(f[c])
    BY <2>2 DEF Merging
  <2>4. g[c + 1] = Parent(st[n - (c + 1) + 1], g[c])
    BY <2>2 DEF Collapse
  <2>5. PICK m \in Nat : m = n - c /\ m >= 1 /\ m <= n /\ n - (c + 1) = m - 1 /\ n - (c + 1) + 1 = m
    BY <1>1
  <2> DEFINE s == SubSeq(st, 1, m)
  <2>6. s \in Seq(T) /\ Len(s) = m /\ \A i \in 1 .. m : s[i] = st[i]
    BY <1>1, <2>5
  <2> DEFINE u == Append(s, g[c])
  <2>7. u \in Seq(T \cup {g[c]}) /\ Len(u) = m + 1 /\ u[m + 1] = g[c] /\ u[m] = st[m]
        /\ \A i \in 1 .. m : u[i] = st[i]
    <3>1. PICK e, U : e = g[c] /\ U = T \cup {g[c]}
      OBVIOUS
    <3>2. s \in Seq(U) /\ e \in U
      BY <2>6, <3>1
    <3> HIDE DEF s
    <3>3. Append(s, e) \in Seq(U) /\ Len(Append(s, e)) = m + 1 /\ Append(s, e)[m + 1] = e
      BY <2>6, <3>2
    <3>4. \A i \in 1 .. m : Append(s, e)[i] = s[i]
      BY <2>6, <3>2
    <3>5. m \in 1 .. m
      BY <2>5
    <3> QED
      BY <2>6, <3>1, <3>3, <3>4, <3>5
  <2>8. f[c] = u
    BY <2>1, <2>5
  <2> HIDE DEF s, u
  <2>9. Carry(u) = Append(SubSeq(u, 1, m + 1 - 2), Parent(u[m + 1 - 1], u[m + 1]))
    BY <2>7 DEF Carry
  <2>10. m + 1 - 2 = m - 1 /\ m + 1 - 1 = m
    BY <2>5
  <2>11. SubSeq(u, 1, m - 1) = SubSeq(st, 1, m - 1)
    <3>1. m - 1 \in Nat /\ m - 1 <= n /\ m - 1 <= m + 1
      BY <2>5
    <3> QED
      BY <1>1, <2>5, <2>7, <3>1
  <2>12. Carry(u) = Append(SubSeq(st, 1, m - 1), Parent(st[m], g[c]))
    BY <2>7, <2>9, <2>10, <2>11
  <2> QED
    BY <2>3, <2>4, <2>5, <2>8, <2>12
<1>4. Nat \subseteq S
  <2> HIDE DEF S
  <2> QED
    BY <1>2, <1>3, Induction
<1> QED
  BY <1>4

\* The fold's stack is true and its counters fit.
FoldTrueInv == FoldFits /\ FoldTrue

\* A fold starts with nothing folded.
LEMMA StartsFoldTrue == FoldInit => FoldTrueInv
<1> SUFFICES ASSUME FoldInit PROVE FoldTrueInv
  OBVIOUS
<1>1. numChunks \in Nat /\ numChunks <= MaxChunks /\ done = 0 /\ stack = << >>
      /\ MaxChunks \in Nat
  BY StackAssumption DEF FoldInit
<1>2. PICK k \in 0 .. 2 : chunkCounter = k * numChunks
  BY DEF FoldInit
<1>3. chunkCounter \in Nat /\ chunkCounter <= 2 * numChunks
  <2>1. CASE k = 0
    BY <1>1, <1>2, <2>1
  <2>2. CASE k = 1
    BY <1>1, <1>2, <2>2
  <2>3. CASE k = 2
    BY <1>1, <1>2, <2>3
  <2> QED
    BY <2>1, <2>2, <2>3
<1>4. FoldFits
  <2>1. PICK w \in Nat : w = Word * Word
    BY KernelAssumption
  <2>2. 3 * MaxChunks <= w
    BY <2>1, CounterAssumption
  <2> QED
    BY <1>1, <1>3, <2>1, <2>2 DEF FoldFits
<1>5. FoldTrue
  <2>1. Lesser(done, numChunks) = 0
    BY <1>1 DEF Lesser
  <2>2. StackTrue(chunkCounter, << >>, 0)
    BY EmptyStackTrue
  <2> QED
    BY <1>1, <2>1, <2>2 DEF FoldTrue
<1> QED
  BY <1>4, <1>5 DEF FoldTrueInv

\* The chunks of the next group: a power of two of them, and where it ends.
NextGroup(n) ==
  /\ n = Lesser(Group, numChunks - done) /\ n \in Powers
  /\ done + n = n * (groups + 1) /\ done + n <= numChunks
  /\ Lesser(done + Group, numChunks) = done + n

\* There is one until all is folded.
LEMMA NextGroupIs ==
  ASSUME FoldInv, done < numChunks
  PROVE  \E n \in Powers : NextGroup(n)
<1>1. PICK g \in Powers, q \in Nat :
        /\ g = Group /\ q = numChunks \div Group /\ g \in Nat \ {0, 1}
        /\ g <= numChunks => numChunks = q * g
  BY GroupIs
<1>2. groups \in Nat /\ done = groups * g /\ numChunks \in Nat \ {0} /\ numChunks \in Powers
  BY <1>1, GroupIs DEF FoldInv
<1>3. PICK d \in Nat : d = done /\ d = groups * g /\ (groups + 1) * g = d + g
                       /\ g * (groups + 1) = d + g
  <2>1. \A a, b \in Nat : a * b \in Nat /\ (a + 1) * b = a * b + b /\ b * (a + 1) = a * b + b
    OBVIOUS
  <2> QED
    BY <1>1, <1>2, <2>1
<1>4. CASE g <= numChunks
  <2>1. groups < q
    <3>1. \A a, b, c \in Nat : a >= b => a * c >= b * c /\ a * c \in Nat /\ b * c \in Nat
      OBVIOUS
    <3> QED
      BY <1>1, <1>2, <1>4, <3>1
  <2>2. d + g <= numChunks
    <3>1. \A a, b, c \in Nat : a <= b => a * c <= b * c
      OBVIOUS
    <3>2. (groups + 1) * g <= q * g
      BY <1>1, <1>2, <2>1, <3>1
    <3> QED
      BY <1>1, <1>3, <1>4, <3>2
  <2>3. Lesser(g, numChunks - d) = g /\ Lesser(d + g, numChunks) = d + g
    BY <1>1, <1>2, <2>2 DEF Lesser
  <2>4. NextGroup(g)
    BY <1>1, <1>3, <2>2, <2>3 DEF NextGroup
  <2> QED
    BY <2>4
<1>5. CASE numChunks < g
  <2>1. groups = 0
    <3>1. \A a, b \in Nat : a >= 1 => a * b >= b /\ a * b \in Nat
      OBVIOUS
    <3> QED
      BY <1>1, <1>2, <1>5, <3>1
  <2>2. d = 0
    BY <1>1, <1>3, <2>1
  <2>3. Lesser(g, numChunks - d) = numChunks /\ Lesser(d + g, numChunks) = numChunks
        /\ d + numChunks = numChunks * (groups + 1) /\ d + numChunks <= numChunks
        /\ d + numChunks = numChunks
    BY <1>1, <1>2, <1>5, <2>1, <2>2 DEF Lesser
  <2>4. NextGroup(numChunks)
    BY <1>1, <1>2, <1>3, <2>3 DEF NextGroup
  <2> QED
    BY <1>2, <2>4
<1> QED
  BY <1>1, <1>2, <1>4, <1>5

\* What a batch may find in the dial.
LEMMA DialsAre == ASSUME NEW modes \in Dials PROVE DialsOf(modes)
<1>1. CASE running.width = 16
  BY <1>1 DEF Dials, DialsOf
<1>2. CASE running.width # 16
  <2>1. modes = <<"quartered", "quartered">>
    BY <1>2 DEF Dials
  <2> QED
    BY <2>1 DEF DialsOf, Modes
<1> QED
  BY <1>1, <1>2

\* A group folded in keeps the stack true.
LEMMA FoldGroupTrue ==
  ASSUME FoldInv, FoldTrueInv, NEW modes \in Dials, FoldGroup(modes)
  PROVE  FoldTrueInv'
<1> DEFINE z == TrailingZeros(groups + 1)
           cv == GroupCV(Lesser(Group, numChunks - done), modes)
           f == CHOOSE h : Merging(h, stack, cv, z)
           e == CHOOSE h : Collapse(h, stack, cv, z)
<1>1. /\ done < numChunks /\ done' = done + Group /\ groups' = groups + 1
      /\ running' = running /\ numChunks' = numChunks /\ chunkCounter' = chunkCounter
  BY DEF FoldGroup, GroupCounted
<1>2. /\ groups + 1 \in 1 .. MaxTotal
      /\ Len(stack) \in Nat /\ Len(stack) < MaxStack /\ z \in 0 .. Len(stack)
  BY <1>1, FoldHasRoom
<1>3. z \in Nat /\ MaxStack \in Nat /\ ~(Len(stack) >= MaxStack \/ z > Len(stack))
  BY <1>2, StackAssumption
<1>4. Merging(f, stack, cv, z) /\ Collapse(e, stack, cv, z)
  BY <1>3, MergingExists, CollapseExists
<1>5. stack' = f[z]
  BY <1>3, Zenon DEF FoldGroup, Merging, Carries, GroupCounted
<1>6. EndsIn(groups + 1, z)
  <2>1. \E k : EndsIn(groups + 1, k)
    BY <1>2, EndsSomewhere
  <2> QED
    BY <2>1 DEF TrailingZeros, EndsIn
<1> HIDE DEF f, e, cv, z
<1>7. PICK T : stack \in Seq(T)
  BY DEF FoldInv, Stacked
<1>8. z <= Len(stack)
  BY <1>2
<1>9. stack' = Append(SubSeq(stack, 1, Len(stack) - z), e[z])
  BY <1>3, <1>4, <1>5, <1>7, <1>8, CarriesCollapse, Zenon
<1>10. PICK n \in Powers : NextGroup(n)
  BY <1>1, NextGroupIs
<1>11. /\ done \in Nat /\ n \in Nat /\ numChunks \in Nat /\ groups \in Nat /\ running \in Kernels
       /\ numChunks <= MaxTotal /\ done + n <= numChunks /\ groups + 1 \in Nat
  <2>1. groups \in Nat /\ Group \in Nat /\ done = groups * Group
    BY GroupIs DEF FoldInv
  <2>2. done \in Nat
    BY <2>1
  <2>3. done + n <= numChunks
    BY <1>10 DEF NextGroup
  <2>4. numChunks \in Nat /\ numChunks <= MaxTotal
    BY GroupIs
  <2>5. running \in Kernels
    BY DEF FoldInv
  <2>6. groups + 1 \in Nat
    BY <2>1
  <2>7. n \in Nat
    BY PowersAreNat
  <2> QED
    BY <2>1, <2>2, <2>3, <2>4, <2>5, <2>6, <2>7, Zenon
<1>12. cv = Tree(chunkCounter, done, n)
  <2>1. cv = GroupCV(n, modes)
    BY <1>10 DEF NextGroup, cv
  <2>2. chunkCounter \in Nat /\ chunkCounter + done + n <= Word * Word
    <3>1. PICK w \in Nat : w = Word * Word
      BY KernelAssumption
    <3> QED
      BY <1>11, <3>1 DEF FoldTrueInv, FoldFits
  <2>3. DialsOf(modes)
    BY DialsAre
  <2> QED
    BY <1>11, <2>1, <2>2, <2>3, GroupCVIs
<1>13. StackTrue(chunkCounter, stack, done)
  <2>1. Lesser(done, numChunks) = done
    BY <1>1 DEF Lesser
  <2> QED
    BY <2>1 DEF FoldTrueInv, FoldTrue
<1>14. StackTrue(chunkCounter, Append(SubSeq(stack, 1, Len(stack) - z), e[z]), done + n)
  <2>1. PICK x \in Nat : x = groups + 1
    BY <1>11
  <2>2. done + n = n * x /\ EndsIn(x, z) /\ done + n <= MaxTotal
    BY <1>6, <1>10, <1>11, <2>1, MaxTotalIsNat DEF NextGroup
  <2>3. Collapse(e, stack, Tree(chunkCounter, done, n), z) /\ chunkCounter \in Nat
    BY <1>4, <1>12 DEF FoldTrueInv, FoldFits
  <2> QED
    BY <1>3, <1>7, <1>8, <1>11, <1>13, <2>2, <2>3, StackGrows
<1>15. Lesser(done', numChunks') = done + n
  BY <1>1, <1>10 DEF NextGroup
<1>16. FoldTrue'
  BY <1>1, <1>9, <1>14, <1>15 DEF FoldTrue
<1>17. FoldFits'
  BY <1>1 DEF FoldTrueInv, FoldFits
<1> QED
  BY <1>16, <1>17 DEF FoldTrueInv

\* The groups of a folded subtree are a power of two: one entry is left.
LEMMA OneEntry ==
  ASSUME FoldInv, done >= numChunks
  PROVE  Len(stack) = 1
<1>1. PICK g \in Powers, q \in Nat :
        /\ g = Group /\ q = numChunks \div Group /\ g \in Nat \ {0, 1}
        /\ g <= numChunks => numChunks = q * g
        /\ numChunks < g => q = 0
  BY GroupIs
<1>2. /\ groups \in Nat /\ done = groups * g /\ numChunks \in Nat \ {0} /\ numChunks \in Powers
      /\ groups <= Greater(q, 1) /\ Len(stack) = PopCount(groups)
  BY <1>1, GroupIs DEF FoldInv, Stacked
<1>3. PopCount(1) = 1
  <2>1. PopCount(2 * 0 + 1) = PopCount(0) + 1 /\ PopCount(0) = 0
    BY PopCounts
  <2> QED
    BY <2>1
<1>4. CASE g <= numChunks
  <2>1. q >= 1
    <3>1. 0 * g = 0
      BY <1>1
    <3> QED
      BY <1>1, <1>2, <1>4, <3>1
  <2>2. groups = q
    <3>1. \A a, b, c \in Nat : a < b /\ c > 0 => a * c < b * c /\ a * c \in Nat /\ b * c \in Nat
      OBVIOUS
    <3>2. ~(groups < q)
      BY <1>1, <1>2, <1>4, <3>1
    <3> QED
      BY <1>1, <1>2, <2>1, <3>2 DEF Greater
  <2>3. PopCount(g * q) = PopCount(q)
    BY ScaledOnes
  <2>4. PopCount(numChunks * 1) = PopCount(1)
    BY <1>2, ScaledOnes
  <2>5. g * q = numChunks /\ numChunks * 1 = numChunks
    <3>1. \A a, b \in Nat : a * b = b * a /\ a * 1 = a
      OBVIOUS
    <3> QED
      BY <1>1, <1>2, <1>4, <3>1
  <2> QED
    BY <1>2, <1>3, <2>2, <2>3, <2>4, <2>5
<1>5. CASE numChunks < g
  <2>1. groups # 0
    <3>1. 0 * g = 0
      BY <1>1
    <3> QED
      BY <1>2, <3>1
  <2>2. groups = 1
    BY <1>1, <1>2, <1>5, <2>1 DEF Greater
  <2> QED
    BY <1>2, <1>3, <2>2
<1> QED
  BY <1>1, <1>2, <1>4, <1>5

\* When all is folded the entry left is the subtree.
LEMMA FoldTrueIsReference == FoldInv /\ FoldTrueInv => FoldedIsReference
<1> SUFFICES ASSUME FoldInv, FoldTrueInv, done >= numChunks
             PROVE  stack = <<SubtreeCV(0, numChunks, chunkCounter)>>
  BY DEF FoldedIsReference
<1>1. Len(stack) = 1 /\ numChunks \in Nat /\ done \in Nat
  <2>1. groups \in Nat /\ Group \in Nat /\ done = groups * Group
    BY GroupIs DEF FoldInv
  <2>2. done \in Nat
    BY <2>1
  <2> QED
    BY <2>2, OneEntry, GroupIs
<1>2. Lesser(done, numChunks) = numChunks
  BY <1>1 DEF Lesser
<1>3. PICK b : Standing(chunkCounter, b, stack, numChunks)
  BY <1>2 DEF FoldTrueInv, FoldTrue, StackTrue
<1>4. b[0] = 0 /\ b[1] = numChunks /\ Entry(chunkCounter, b[1 - 1], b[1], stack[1])
  BY <1>1, <1>3 DEF Standing
<1>5. PICK p \in Powers : numChunks = 0 + p /\ stack[1] = Tree(chunkCounter, 0, p)
  BY <1>4 DEF Entry
<1>6. stack[1] = SubtreeCV(0, numChunks, chunkCounter)
  <2>1. numChunks = p /\ chunkCounter \in Nat
    BY <1>5, PowersAreNat DEF FoldTrueInv, FoldFits
  <2> QED
    BY <1>5, <2>1, TreeAtZero
<1>7. stack = <<stack[1]>>
  <2>1. PICK T : stack \in Seq(T)
    BY DEF FoldInv, Stacked
  <2> QED
    BY <1>1, <2>1
<1> QED
  BY <1>6, <1>7

\* So does the recursion, over the same subtree.
LEMMA RecursionIsReference == FoldInv /\ FoldTrueInv => RecursiveIsReference
<1> SUFFICES ASSUME FoldInv, FoldTrueInv, NEW modes \in Dials
             PROVE  SubtreeToCV(running, modes, 0, numChunks, chunkCounter)
                      = SubtreeCV(0, numChunks, chunkCounter)
  BY DEF RecursiveIsReference
<1>1. DialsOf(modes) /\ running \in Kernels /\ numChunks \in Powers
  BY DialsAre DEF FoldInv
<1>2. chunkCounter \in Nat /\ chunkCounter + numChunks <= Word * Word
  BY DEF FoldTrueInv, FoldFits
<1>3. SubtreeToCV(running, modes, 0, numChunks, chunkCounter) = Tree(chunkCounter, 0, numChunks)
  <2>1. PICK at \in Nat : at = 0 /\ at * ChunkLen = 0 /\ chunkCounter + at = chunkCounter
    BY <1>2, LensArePositive
  <2>2. chunkCounter + at + numChunks <= Word * Word
    BY <1>2, <2>1
  <2>3. SubtreeToCV(running, modes, at * ChunkLen, numChunks, chunkCounter + at)
          = Tree(chunkCounter, at, numChunks)
    BY <1>1, <1>2, <2>2, SubtreeToCVIs
  <2> QED
    BY <2>1, <2>3
<1>4. Tree(chunkCounter, 0, numChunks) = SubtreeCV(0, numChunks, chunkCounter)
  BY <1>2, TreeAtZero
<1> QED
  BY <1>3, <1>4

\* The kernels' blocks are those of consecutive counters.
LEMMA RunningXofIs ==
  FoldInv => \A mode \in Modes, from \in 0 .. Word, n \in 0 .. running.width + 1 :
               XofMany(running, mode, from, n) = [i \in 1 .. n |-> from + i - 1]
<1> SUFFICES ASSUME FoldInv, NEW mode \in Modes, NEW from \in 0 .. Word,
                    NEW n \in 0 .. running.width + 1
             PROVE  XofMany(running, mode, from, n) = [i \in 1 .. n |-> from + i - 1]
  OBVIOUS
<1>1. running \in Kernels
  BY DEF FoldInv
<1>2. n \in Nat /\ n <= 17
  <2>1. running.width \in {1, 4, 8, 16}
    BY <1>1, KernelAssumption DEF KernelSet
  <2> QED
    BY <2>1
<1>3. Word \in Nat /\ from \in Nat /\ Word + 17 <= Word * Word
  <2>1. \A a \in Nat : a > 8 => a + 17 <= a * a
    <3> SUFFICES ASSUME NEW a \in Nat, a > 8 PROVE a + 17 <= a * a
      OBVIOUS
    <3>1. \A c, d \in Nat : c > 8 => c * d >= 9 * d
      OBVIOUS
    <3>2. a * a >= 9 * a
      BY <3>1
    <3> QED
      BY <3>2
  <2> QED
    BY <2>1, KernelAssumption, CounterAssumption
<1>4. from + n <= Word * Word
  <2>1. PICK w \in Nat : w = Word * Word
    BY <1>3
  <2> QED
    BY <1>2, <1>3, <2>1
<1> QED
  BY <1>1, <1>2, <1>3, <1>4, XofManyIs

-----------------------------------------------------------------------------
(* What the front ends take from the kernels *)

\* The message and what a call still brings of it fit the bound.
Bounded == kind # "hasher" => absorbed + left <= MaxUnits

\* A window's job is part of what is buffered or still to come.
LEMMA JobIsBounded ==
  ASSUME HashingInv, Bounded, pc = "parts"
  PROVE  Count(hasher) + JobUnits <= MaxUnits
<1>1. /\ JobUnits \in Nat /\ JobFits /\ Shared
      /\ kind \in {"hash_into", "parallel_hasher", "update_file"}
      /\ kind = "hash_into" => Count(hasher) = 0 /\ JobUnits < left
  BY JobIsWithin DEF HashingInv
<1>2. /\ absorbed + left <= MaxUnits /\ MaxUnits \in Nat
      /\ Count(hasher) \in Nat /\ absorbed \in Nat /\ left \in Nat /\ filled \in Nat
      /\ Count(hasher) = absorbed - filled
      /\ kind # "parallel_hasher" => Count(hasher) = absorbed
  BY <1>1, HasherStands, BoundsAre DEF Bounded
<1>3. WholeWindow => JobUnits = WindowUnits
  <2>1. job.parts \in Nat /\ job.part \in Nat
    BY <1>1, PowersAreNat DEF JobFits
  <2> QED
    BY <2>1, BoundsAre DEF JobUnits, WholeWindow
<1>4. CASE kind = "parallel_hasher"
  <2>1. filled = WindowUnits /\ JobUnits = WindowUnits
    BY <1>3, <1>4 DEF HashingInv, ParallelInv
  <2> QED
    BY <1>1, <1>2, <2>1
<1>5. CASE kind = "hash_into"
  BY <1>1, <1>2, <1>5
<1>6. CASE kind = "update_file"
  <2>1. left > WindowUnits /\ JobUnits = WindowUnits
    BY <1>3, <1>6 DEF HashingInv, UpdateFileInv
  <2> QED
    BY <1>1, <1>2, <1>6, <2>1, BoundsAre
<1> QED
  BY <1>1, <1>4, <1>5, <1>6

\* No call brings more than the bound leaves room for.
LEMMA CallKeepsBounded ==
  ASSUME HashingInv, Bounded,
         \/ \E n \in Inputs : CallUpdate(n) \/ CallHash(n)
         \/ \E n \in InputsOf(kind) : CallHasherUpdate(n)
         \/ CallReset
  PROVE  Bounded'
<1>1. kind' = kind /\ pc = "idle" /\ left = 0
  <2>1. pc = "idle" /\ kind' = kind
    BY DEF CallUpdate, CallHash, CallHasherUpdate, CallReset, callerVars
  <2> QED
    BY <2>1 DEF HashingInv, Shared
<1>2. /\ absorbed \in Nat /\ left \in Nat /\ MaxUnits \in Nat /\ Inputs \subseteq Nat
      /\ \A n \in Inputs : n <= MaxUnits
  BY HasherStands, BoundsAre
<1>3. ASSUME NEW n \in Inputs, CallUpdate(n) PROVE Bounded'
  <2>1. absorbed + n <= MaxUnits /\ left' = n /\ absorbed' = absorbed
    BY <1>3 DEF CallUpdate
  <2> QED
    BY <2>1 DEF Bounded
<1>4. ASSUME NEW n \in Inputs, CallHash(n) PROVE Bounded'
  <2>1. absorbed = 0 /\ n <= MaxUnits /\ n \in Nat
    BY <1>2, <1>4 DEF CallHash
  <2>2. absorbed' + left' = n
    <3>1. (left' = n /\ absorbed' = absorbed) \/ (absorbed' = n /\ left' = left)
      BY <1>4 DEF CallHash
    <3> QED
      BY <1>1, <2>1, <3>1
  <2> QED
    BY <2>1, <2>2 DEF Bounded
<1>5. ASSUME NEW n \in InputsOf(kind), CallHasherUpdate(n) PROVE Bounded'
  <2>1. absorbed + n <= BoundOf(kind) /\ absorbed' = absorbed + n /\ left' = left
    BY <1>5 DEF CallHasherUpdate
  <2>2. n \in Nat
    BY <1>2, BoundsAre DEF InputsOf
  <2>3. kind # "hasher" => absorbed' + left' <= MaxUnits
    BY <1>1, <1>2, <2>1, <2>2 DEF BoundOf
  <2> QED
    BY <1>1, <2>3 DEF Bounded
<1>6. CASE CallReset
  <2>1. absorbed' = 0 /\ left' = left
    BY <1>6 DEF CallReset
  <2> QED
    BY <1>1, <1>2, <2>1 DEF Bounded
<1> QED
  BY <1>3, <1>4, <1>5, <1>6

\* Within a call what is absorbed is taken off what is left.
LEMMA MovesKeepBounded ==
  ASSUME HashingInv, Bounded, CopyIn \/ UpdateWindow \/ ReadFails \/ Stopped \/ Join
  PROVE  Bounded'
<1>1. /\ absorbed \in Nat /\ left \in Nat /\ filled \in Nat /\ MaxUnits \in Nat
      /\ WindowUnits \in Nat
  BY HasherStands, BoundsAre
<1>2. kind' = kind
  BY DEF CopyIn, UpdateWindow, ReadFails, Stopped, Join, callerVars
<1>3. ASSUME absorbed' + left' <= absorbed + left, absorbed' + left' \in Int PROVE Bounded'
  BY <1>1, <1>2, <1>3 DEF Bounded
<1>4. CASE CopyIn
  <2>1. PICK take : /\ take = Lesser(WindowUnits - filled, left)
                    /\ absorbed' = absorbed + take /\ left' = left - take
    BY <1>4 DEF CopyIn
  <2>2. take \in Int
    BY <1>1, <2>1 DEF Lesser
  <2> QED
    BY <1>1, <1>3, <2>1, <2>2
<1>5. CASE UpdateWindow
  <2>1. PICK take : /\ take = Lesser(WindowUnits, left)
                    /\ absorbed' = absorbed + take /\ left' = left - take
    BY <1>5 DEF UpdateWindow
  <2>2. take \in Int
    BY <1>1, <2>1 DEF Lesser
  <2> QED
    BY <1>1, <1>3, <2>1, <2>2
<1>6. CASE ReadFails \/ Stopped
  <2>1. left' = 0 /\ absorbed' = absorbed
    BY <1>6 DEF ReadFails, Stopped
  <2> QED
    BY <1>1, <1>3, <2>1
<1>7. CASE Join
  <2>1. pc = "parts" /\ Absorbs
    BY <1>7 DEF Join
  <2>2. JobUnits \in Nat /\ kind \in {"hash_into", "parallel_hasher", "update_file"}
    BY <2>1, JobIsWithin
  <2>3. CASE kind = "parallel_hasher"
    <3>1. absorbed' = absorbed /\ left' = left
      BY <2>1, <2>3 DEF Absorbs, WindowFlushed
    <3> QED
      BY <1>1, <1>3, <3>1
  <2>4. CASE kind = "hash_into"
    <3>1. absorbed' = left /\ left' = 0
      BY <2>1, <2>4 DEF Absorbs, InputHashed
    <3> QED
      BY <1>1, <1>3, <3>1
  <2>5. CASE kind = "update_file"
    <3>1. absorbed' = absorbed + JobUnits /\ left' = left - JobUnits
      BY <2>1, <2>5 DEF Absorbs, FileWindowAbsorbed
    <3> QED
      BY <1>1, <1>3, <2>2, <3>1
  <2> QED
    BY <2>2, <2>3, <2>4, <2>5
<1> QED
  BY <1>4, <1>5, <1>6, <1>7

\* The bound holds at every moment of every call.
LEMMA NextKeepsBounded ==
  ASSUME HashingInv, Bounded, [Next]_vars
  PROVE  Bounded'
<1>1. ASSUME NEW n \in 1 .. MaxPlain \div ChunkLen, CallPushSubtree(n)
      PROVE  Bounded'
  BY <1>1 DEF CallPushSubtree, callerVars, Bounded
<1>2. CASE Flush \/ UpdateReturns \/ OffloadWindow \/ Scheduler \/ UNCHANGED vars
  <2>1. kind' = kind /\ absorbed' = absorbed /\ left' = left
    BY <1>2 DEF Flush, UpdateReturns, OffloadWindow, Scheduler, BeginCall, Pull, Body,
         callerVars, vars
  <2> QED
    BY <2>1 DEF Bounded
<1> QED
  BY <1>1, <1>2, CallKeepsBounded, MovesKeepBounded DEF Next, InCall

\* A kernel's recursion over complete chunks of the message gives their value.
LEMMA KernelsReduce ==
  ASSUME NEW kernel \in Kernels, NEW modes, DialsOf(modes), NEW lo \in Nat, NEW num \in Powers,
         lo + num <= Word * Word
  PROVE  SubtreeToCV(kernel, modes, lo * ChunkLen, num, lo) = Tree(0, lo, num)
<1>1. 0 + lo = lo /\ 0 \in Nat
  OBVIOUS
<1>2. SubtreeToCV(kernel, modes, lo * ChunkLen, num, 0 + lo) = Tree(0, lo, num)
  <2>1. 0 + lo + num <= Word * Word
    BY <1>1
  <2> QED
    BY <1>1, <2>1, SubtreeToCVIs
<1> QED
  BY <1>1, <1>2

\* The chunks of a job have counters of two words.
LEMMA JobCounters ==
  ASSUME HashingInv, DigestInv, Bounded, pc = "parts", NEW i \in 0 .. job.parts - 1
  PROVE  /\ job.counter + i * job.part \in Nat
         /\ job.counter + i * job.part + job.part <= Word * Word
         /\ job.from + i * job.part * ChunkLen = (job.counter + i * job.part) * ChunkLen
         /\ PartCV(i) = Tree(0, job.counter + i * job.part, job.part)
         /\ job.part \in Powers
<1>1. TableInv /\ JobFits /\ JobUnits \in Nat
  BY JobIsWithin DEF DigestInv
<1>2. /\ job.counter \in Nat /\ Count(hasher) = job.counter * ChunkLen
      /\ job.from = job.counter * ChunkLen
      /\ job.part \in Powers /\ job.part \in Nat /\ job.parts \in Nat /\ ChunkLen \in Nat \ {0}
  BY <1>1, PowersAreNat, LensArePositive DEF TableInv, JobFits
<1>3. PICK k \in Nat, p \in Nat, m \in Nat, l \in Nat \ {0} :
        k = job.counter /\ p = job.part /\ m = job.parts /\ l = ChunkLen
  BY <1>2
<1>4. \A a, b, c \in Nat : (a + b) * c = a * c + b * c /\ a * c \in Nat
  OBVIOUS
<1>5. m * p \in Nat /\ i * p \in Nat /\ i \in Nat /\ i + 1 <= m
  BY <1>3, <1>4
<1>6. (k + m * p) * l <= MaxUnits
  <2>1. (k + m * p) * l = k * l + m * p * l
    BY <1>4, <1>5
  <2>2. Count(hasher) + JobUnits <= MaxUnits
    BY JobIsBounded
  <2>3. Count(hasher) = k * l /\ JobUnits = m * p * l
    BY <1>2, <1>3 DEF JobUnits
  <2> QED
    BY <2>1, <2>2, <2>3
<1>7. PICK w \in Nat : w = Word * Word /\ MaxUnits <= w * l
  BY <1>3, MessageAssumption, KernelAssumption
<1>8. k + m * p <= w
  <2>1. \A a, b \in Nat, c \in Nat \ {0} : a * c <= b * c => a <= b
    OBVIOUS
  <2>2. PICK s \in Nat : s = k + m * p
    BY <1>5
  <2>3. s * l <= w * l
    <3>1. s * l \in Nat /\ w * l \in Nat /\ MaxUnits \in Nat
      BY <1>4, BoundsAre
    <3> QED
      BY <1>6, <1>7, <2>2, <3>1
  <2> QED
    BY <2>1, <2>2, <2>3
<1>9. i * p + p <= m * p
  <2>1. (i + 1) * p = i * p + p
    <3>1. \A a, c \in Nat : (a + 1) * c = a * c + c
      OBVIOUS
    <3> QED
      BY <1>3, <1>5, <3>1
  <2>2. \A a, b, c \in Nat : a <= b => a * c <= b * c
    OBVIOUS
  <2>3. (i + 1) * p <= m * p
    BY <1>3, <1>5, <2>2
  <2> QED
    BY <2>1, <2>3
<1>10. (k + i * p) * l = k * l + i * p * l
  BY <1>4, <1>5
<1>11. PartCV(i) = Tree(0, k + i * p, p)
  BY <1>2, <1>3, <1>5, PartIsTree
<1>12. k + i * p \in Nat /\ k + i * p + p <= w
  <2>1. PICK x \in Nat, y \in Nat : x = i * p /\ y = m * p
    BY <1>5
  <2> QED
    BY <1>3, <1>8, <1>9, <2>1
<1> QED
  BY <1>2, <1>3, <1>7, <1>10, <1>11, <1>12

\* What an agent stores for a part is what every kernel computes of it.
LEMMA PartsReduced == HashingInv /\ DigestInv /\ Bounded => KernelsReduceParts
<1> SUFFICES ASSUME HashingInv, DigestInv, Bounded, pc = "parts",
                    NEW i \in 0 .. job.parts - 1, NEW kernel \in Kernels,
                    NEW modes \in Modes \X Modes
             PROVE  SubtreeToCV(kernel, modes, job.from + i * job.part * ChunkLen, job.part,
                                job.counter + i * job.part) = PartCV(i)
  BY DEF KernelsReduceParts
<1>1. PICK k, p, at : /\ k = job.counter + i * job.part /\ p = job.part
                      /\ at = job.from + i * job.part * ChunkLen
  OBVIOUS
<1>2. /\ k \in Nat /\ p \in Powers /\ k + p <= Word * Word /\ at = k * ChunkLen
      /\ PartCV(i) = Tree(0, k, p)
  BY <1>1, JobCounters
<1>3. DialsOf(modes)
  BY DEF DialsOf
<1>4. SubtreeToCV(kernel, modes, k * ChunkLen, p, k) = Tree(0, k, p)
  BY <1>2, <1>3, KernelsReduce
<1> QED
  BY <1>1, <1>2, <1>4

-----------------------------------------------------------------------------
(* The two layers *)

\* The invariant of the fold holds in every behaviour of it.
THEOREM FoldInvariant == FoldSpec => []FoldInv
<1>1. FoldInit => FoldInv
  BY StartsFolding
<1>2. ASSUME FoldInv, [FoldNext]_foldVars PROVE FoldInv'
  <2>1. CASE FoldNext
    BY <1>2, <2>1, FoldGroupKeeps DEF FoldNext
  <2>2. CASE UNCHANGED foldVars
    BY <1>2, <2>2 DEF FoldInv, foldVars, Group, Stacked
  <2> QED
    BY <1>2, <2>1, <2>2
<1> QED
  BY <1>1, <1>2, PTL DEF FoldSpec

(***************************************************************************)
(* The assertions of the fold hold with a stack of the levels of the       *)
(* greatest subtree, and it never holds more than log2(num_chunks / group) *)
(* + 1 entries, for every kernel and subtree.                              *)
(***************************************************************************)
THEOREM FoldStackBounded == FoldSpec => []StackSuffices
<1> QED
  BY FoldInvariant, FoldStackSuffices, PTL

\* The values on the fold's stack, in every behaviour of it.
THEOREM FoldTrueInvariant == FoldSpec => [](FoldInv /\ FoldTrueInv)
<1>1. FoldInit => FoldInv /\ FoldTrueInv
  BY StartsFolding, StartsFoldTrue
<1>2. ASSUME FoldInv /\ FoldTrueInv, [FoldNext]_foldVars PROVE (FoldInv /\ FoldTrueInv)'
  <2>1. CASE FoldNext
    <3>1. PICK modes \in Dials : FoldGroup(modes)
      BY <2>1 DEF FoldNext
    <3>2. FoldInv'
      BY <1>2, <3>1, FoldGroupKeeps
    <3>3. FoldTrueInv'
      BY <1>2, <3>1, FoldGroupTrue
    <3> QED
      BY <3>2, <3>3
  <2>2. CASE UNCHANGED foldVars
    <3>1. FoldInv'
      BY <1>2, <2>2 DEF FoldInv, foldVars, Group, Stacked
    <3>2. FoldTrueInv'
      BY <1>2, <2>2 DEF FoldTrueInv, FoldFits, FoldTrue, foldVars
    <3> QED
      BY <3>1, <3>2
  <2> QED
    BY <1>2, <2>1, <2>2
<1> QED
  BY <1>1, <1>2, PTL DEF FoldSpec

(***************************************************************************)
(* What compress_subtree_wide's fold leaves on its stack is one chaining   *)
(* value, the reference's for the subtree, whatever kernel runs, whatever  *)
(* subtree it is and whatever the dial says at each group.                 *)
(***************************************************************************)
THEOREM FoldedStaysReference == FoldSpec => []FoldedIsReference
<1> QED
  BY FoldTrueInvariant, FoldTrueIsReference, PTL

(***************************************************************************)
(* The recursion over the same subtree, its chunks hashed in batches and   *)
(* their parents reduced generation by generation, gives the reference's   *)
(* value, and so the fold's.                                               *)
(***************************************************************************)
THEOREM RecursionStaysReference == FoldSpec => []RecursiveIsReference
<1> QED
  BY FoldTrueInvariant, RecursionIsReference, PTL

(***************************************************************************)
(* The staged rounds compute what the plain ones do in each of the seven   *)
(* schedules, and xof_many() of the running kernel fills every block with  *)
(* the output of its own counter, through any of its shuffle networks and  *)
(* across the carry of the counter's low word.                             *)
(***************************************************************************)
THEOREM KernelsStayInAgreement == FoldSpec => []KernelsAgree
<1>1. FoldInv => KernelsAgree
  BY RoundsAreAlike, RunningXofIs DEF KernelsAgree
<1> QED
  BY <1>1, FoldInvariant, PTL

(***************************************************************************)
(* Hashing in two layers implements each of them: a behaviour of the       *)
(* composed specification is one of the front ends and one of the fold,    *)
(* the other layer's steps being stuttering, so what holds of either holds *)
(* of both together.                                                       *)
(***************************************************************************)
THEOREM LayersImplementEach == HashingSpec => Spec /\ FoldSpec
<1>1. HashingInit => Init /\ FoldInit
  BY DEF HashingInit
<1>2. [HashingNext]_hashingVars => [Next]_vars
  BY DEF HashingNext, Reduced, hashingVars
<1>3. [HashingNext]_hashingVars => [FoldNext]_foldVars
  BY DEF HashingNext, Reduced, hashingVars
<1> QED
  BY <1>1, <1>2, <1>3, PTL DEF HashingSpec, Spec, FoldSpec

(***************************************************************************)
(* The seam of the two layers: the value that an agent of a front end is   *)
(* taken to store for its part is the one that compress_subtree_wide's     *)
(* recursion computes from the part's data and chunk counter, on every     *)
(* kernel and wherever the transpose dial stands, in every job of          *)
(* hash_into(), parallel_hasher and update_file().                         *)
(***************************************************************************)
THEOREM PartsStayReduced == HashingSpec => []KernelsReduceParts
<1>1. Init => Bounded
  <2>1. Init => absorbed = 0 /\ left = 0
    BY DEF Init
  <2> QED
    BY <2>1, BoundsAre DEF Bounded
<1>2. HashingInv /\ Bounded /\ [Next]_vars => Bounded'
  BY NextKeepsBounded
<1>3. Spec => []Bounded
  BY <1>1, <1>2, HashingInvariant, PTL DEF Spec
<1> QED
  BY <1>3, LayersImplementEach, HashingInvariant, DigestInvariant, PartsReduced, PTL

\* What the run checks of the two layers together.
THEOREM HashingIsSound ==
  HashingSpec => [](/\ DigestIsReference /\ CountersAgree /\ PushesSound
                    /\ StackSuffices /\ FoldedIsReference /\ RecursiveIsReference
                    /\ KernelsAgree)
<1> QED
  BY LayersImplementEach, DigestStaysReference, CountersStayInAgreement, PushesStaySound,
     FoldStackBounded, FoldedStaysReference, RecursionStaysReference,
     KernelsStayInAgreement, PTL
=============================================================================
