---------------------------- MODULE NatRecursion ----------------------------
(***************************************************************************)
(* Induction and recursion over the natural numbers in a form without      *)
(* operator parameters: induction for a set of numbers, and recursion for  *)
(* a step that is given as a function.  The other proof modules use them   *)
(* for what their recursive functions compute.  Facts about division and   *)
(* powers of two follow.                                                   *)
(***************************************************************************)
EXTENDS Powers, WellFoundedInduction, TLAPS

\* A set that contains 0 and the successor of each of its numbers contains
\* every natural number.
LEMMA SetInduction ==
  ASSUME NEW S, 0 \in S, \A n \in Nat : n \in S => n + 1 \in S
  PROVE  Nat \subseteq S
<1> DEFINE R == OpToRel(<, Nat)
<1> DEFINE T == Nat \ S
<1>1. SUFFICES ASSUME T # {} PROVE FALSE
  OBVIOUS
<1>2. IsWellFoundedOn(R, Nat)
  BY NatLessThanWellFounded
<1>3. T \subseteq Nat
  OBVIOUS
<1>4. \E x \in T : \A y \in T : ~ (<<y, x>> \in R)
  <2> HIDE DEF R, T
  <2> QED BY <1>1, <1>2, <1>3, WFMin
<1>5. PICK x \in T : \A y \in T : ~ (<<y, x>> \in R)
  BY <1>4
<1>6. \A y \in T : ~ (y < x)
  BY <1>5 DEF OpToRel
<1>7. x # 0 /\ x - 1 \in Nat /\ x - 1 < x
  OBVIOUS
<1>8. x - 1 \in S
  BY <1>6, <1>7
<1> QED BY <1>7, <1>8

\* Every set of natural numbers that is not empty has a least element.
LEMMA LeastElement ==
  ASSUME NEW S, S \subseteq Nat, S # {}
  PROVE  \E m \in S : \A k \in S : m <= k
<1> DEFINE R == OpToRel(<, Nat)
<1>1. IsWellFoundedOn(R, Nat)
  BY NatLessThanWellFounded
<1>2. \E x \in S : \A y \in S : ~ (<<y, x>> \in R)
  <2> HIDE DEF R
  <2> QED BY <1>1, WFMin
<1>3. PICK x \in S : \A y \in S : ~ (<<y, x>> \in R)
  BY <1>2
<1>4. \A y \in S : ~ (y < x)
  BY <1>3 DEF OpToRel
<1>5. \A y \in S : x <= y
  BY <1>4
<1> QED BY <1>5

\* Steps from a value to the next, and the functions that start with c and
\* follow the step d.
Steps(V) == [Nat \X V -> V]
Follows(g, V, c, d) ==
  g \in [Nat -> V] /\ g[0] = c /\ \A n \in Nat : g[n + 1] = d[<<n, g[n]>>]

\* Functions on 0..n that start with c and follow the step d.
Approximations(V, c, d, n) ==
  {g \in [0..n -> V] : g[0] = c /\ \A i \in 0..(n - 1) : g[i + 1] = d[<<i, g[i]>>]}

\* Approximations agree where both are defined.
LEMMA ApproximationsAgree ==
  ASSUME NEW V, NEW c, c \in V, NEW d, d \in Steps(V)
  PROVE  \A i \in Nat : \A m, n \in Nat :
           \A g \in Approximations(V, c, d, m), h \in Approximations(V, c, d, n) :
             i <= m /\ i <= n => g[i] = h[i]
<1> DEFINE Agree(i) ==
      \A m, n \in Nat :
        \A g \in Approximations(V, c, d, m), h \in Approximations(V, c, d, n) :
          i <= m /\ i <= n => g[i] = h[i]
<1> DEFINE S == {i \in Nat : Agree(i)}
<1>1. 0 \in S
  BY DEF Approximations
<1>2. ASSUME NEW i \in Nat, i \in S PROVE i + 1 \in S
  <2> SUFFICES ASSUME NEW m \in Nat, NEW n \in Nat,
                      NEW g \in Approximations(V, c, d, m),
                      NEW h \in Approximations(V, c, d, n),
                      i + 1 <= m, i + 1 <= n
               PROVE  g[i + 1] = h[i + 1]
    OBVIOUS
  <2>1. g[i] = h[i]
    BY <1>2
  <2>2. i \in 0..(m - 1) /\ i \in 0..(n - 1)
    OBVIOUS
  <2> QED BY <2>1, <2>2 DEF Approximations
<1>3. Nat \subseteq S
  <2> HIDE DEF S
  <2> QED BY <1>1, <1>2, SetInduction
<1> QED BY <1>3

\* There is an approximation of every length.
LEMMA ApproximationsExist ==
  ASSUME NEW V, NEW c, c \in V, NEW d, d \in Steps(V)
  PROVE  \A n \in Nat : Approximations(V, c, d, n) # {}
<1> DEFINE S == {n \in Nat : Approximations(V, c, d, n) # {}}
<1>1. 0 \in S
  <2>1. [i \in 0..0 |-> c] \in Approximations(V, c, d, 0)
    BY DEF Approximations
  <2> QED BY <2>1
<1>2. ASSUME NEW n \in Nat, n \in S PROVE n + 1 \in S
  <2>1. PICK g : g \in Approximations(V, c, d, n)
    BY <1>2
  <2> DEFINE h == [i \in 0..(n + 1) |-> IF i = n + 1 THEN d[<<n, g[n]>>] ELSE g[i]]
  <2>2. g \in [0..n -> V] /\ g[0] = c /\ \A i \in 0..(n - 1) : g[i + 1] = d[<<i, g[i]>>]
    BY <2>1 DEF Approximations
  <2>3. d[<<n, g[n]>>] \in V
    BY <2>2 DEF Steps
  <2>4. h \in [0..(n + 1) -> V] /\ h[0] = c
    BY <2>2, <2>3
  <2>5. ASSUME NEW i \in 0..((n + 1) - 1) PROVE h[i + 1] = d[<<i, h[i]>>]
    <3>1. CASE i = n
      <4>1. n + 1 \in 0..(n + 1) /\ n \in 0..(n + 1) /\ n # n + 1
        OBVIOUS
      <4>2. h[n + 1] = d[<<n, g[n]>>] /\ h[n] = g[n]
        BY <4>1
      <4> QED BY <3>1, <4>2
    <3>2. CASE i # n
      <4>1. i \in 0..(n - 1) /\ i + 1 # n + 1 /\ i # n + 1
        BY <3>2
      <4>2. h[i + 1] = g[i + 1] /\ h[i] = g[i]
        BY <4>1
      <4> QED BY <2>2, <4>1, <4>2
    <3> QED BY <3>1, <3>2
  <2>6. h \in Approximations(V, c, d, n + 1)
    BY <2>4, <2>5 DEF Approximations
  <2> QED BY <2>6
<1>3. Nat \subseteq S
  <2> HIDE DEF S
  <2> QED BY <1>1, <1>2, SetInduction
<1> QED BY <1>3

\* A start and a step define a function on the natural numbers.
THEOREM Recursion ==
  ASSUME NEW V, NEW c, c \in V, NEW d, d \in Steps(V)
  PROVE  \E g : Follows(g, V, c, d)
<1> DEFINE a(n) == CHOOSE g : g \in Approximations(V, c, d, n)
<1> DEFINE f == [n \in Nat |-> a(n)[n]]
<1>1. ASSUME NEW n \in Nat PROVE a(n) \in Approximations(V, c, d, n)
  BY ApproximationsExist
<1> HIDE DEF a
<1>2. ASSUME NEW n \in Nat
      PROVE  /\ a(n) \in [0..n -> V] /\ a(n)[0] = c
             /\ \A i \in 0..(n - 1) : a(n)[i + 1] = d[<<i, a(n)[i]>>]
  BY <1>1 DEF Approximations
<1>3. f \in [Nat -> V] /\ f[0] = c
  BY <1>2
<1>4. ASSUME NEW n \in Nat PROVE f[n + 1] = d[<<n, f[n]>>]
  <2>1. a(n + 1)[n + 1] = d[<<n, a(n + 1)[n]>>]
    BY <1>2
  <2>2. a(n + 1)[n] = a(n)[n]
    <3>1. /\ n + 1 \in Nat /\ n <= n /\ n <= n + 1
          /\ a(n + 1) \in Approximations(V, c, d, n + 1)
          /\ a(n) \in Approximations(V, c, d, n)
      BY <1>1
    <3> QED BY <3>1, ApproximationsAgree
  <2> QED BY <2>1, <2>2
<1>5. Follows(f, V, c, d)
  BY <1>3, <1>4 DEF Follows
<1> QED BY <1>5

\* The same up to a number L.
FollowsUpTo(h, V, c, d, L) ==
  h \in [0..L -> V] /\ h[0] = c /\ \A i \in 0..(L - 1) : h[i + 1] = d[<<i, h[i]>>]

\* A start and a step define a function on the numbers up to L.
LEMMA RecursionUpTo ==
  ASSUME NEW V, NEW c, c \in V, NEW d, d \in Steps(V), NEW L, L \in Nat
  PROVE  \E h : FollowsUpTo(h, V, c, d, L)
<1>1. PICK g : Follows(g, V, c, d)
  BY Recursion
<1> DEFINE h == [i \in 0..L |-> g[i]]
<1>2. h \in [0..L -> V] /\ h[0] = c
  BY <1>1 DEF Follows
<1>3. ASSUME NEW i \in 0..(L - 1) PROVE h[i + 1] = d[<<i, h[i]>>]
  BY <1>1 DEF Follows
<1>4. FollowsUpTo(h, V, c, d, L)
  BY <1>2, <1>3 DEF FollowsUpTo
<1> QED BY <1>4

(***************************************************************************)
(* Division                                                                *)
(***************************************************************************)
\* Quotient and remainder, in the form the next lemmas use them.
LEMMA DivMod ==
  ASSUME NEW n \in Nat \ {0}, NEW i \in Nat
  PROVE  i = n * (i \div n) + (i % n) /\ i \div n \in Nat /\ i % n \in 0..(n-1)
OBVIOUS

\* A positive multiple of n is at least n.
LEMMA MultipleAtLeast ==
  ASSUME NEW n \in Nat \ {0}, NEW d \in Int, d >= 1
  PROVE  n * d >= n
OBVIOUS

\* Quotient and remainder are unique.
LEMMA DivModUnique ==
  ASSUME NEW n \in Nat \ {0}, NEW a \in Int, NEW b \in Int,
         NEW r \in 0..(n-1), NEW s \in 0..(n-1),
         n * a + r = n * b + s
  PROVE  a = b /\ r = s
<1>1. n * (a - b) = s - r
  OBVIOUS
<1>2. ~ (a - b >= 1)
  BY <1>1, MultipleAtLeast
<1>3. ~ (b - a >= 1)
  <2>1. n * (b - a) = r - s
    OBVIOUS
  <2> QED BY <2>1, MultipleAtLeast
<1> QED BY <1>1, <1>2, <1>3

\* Dividing twice is dividing by the product.
LEMMA DivTwice ==
  ASSUME NEW n \in Nat, NEW a \in Nat \ {0}, NEW c \in Nat \ {0}
  PROVE  (n \div a) \div c = n \div (c * a)
<1> DEFINE q == n \div a
<1> DEFINE p == q \div c
<1> DEFINE r == a * (q % c) + (n % a)
<1>1. n = a * q + (n % a) /\ q \in Nat /\ n % a \in 0..(a - 1)
  BY DivMod
<1>2. q = c * p + (q % c) /\ p \in Nat /\ q % c \in 0..(c - 1)
  BY <1>1, DivMod
<1>3. a * q = (c * a) * p + a * (q % c)
  <2> HIDE DEF p, q
  <2>1. ASSUME NEW x \in Nat, NEW y \in Nat, NEW z \in Nat, x = c * y + z
        PROVE  a * x = (c * a) * y + a * z
    BY <2>1
  <2> QED BY <1>1, <1>2, <2>1
<1>4. r \in 0..(c * a - 1)
  <2> HIDE DEF p, q
  <2>1. ASSUME NEW x \in 0..(c - 1), NEW y \in 0..(a - 1) PROVE a * x + y \in 0..(c * a - 1)
    <3>1. a * ((c - 1) - x) >= 0 /\ a * x >= 0
      OBVIOUS
    <3>2. a * ((c - 1) - x) = c * a - a - a * x
      OBVIOUS
    <3>3. a * x \in Int /\ c * a \in Int /\ a \in Int
      OBVIOUS
    <3> QED BY <3>1, <3>2, <3>3
  <2> QED BY <1>1, <1>2, <2>1
<1>5. n = (c * a) * p + r
  <2> DEFINE x == (c * a) * p
  <2> DEFINE y == a * (q % c)
  <2> DEFINE z == n % a
  <2>1. x \in Int /\ y \in Int /\ z \in Int
    <3> HIDE DEF p, q
    <3> QED BY <1>1, <1>2
  <2>2. n = (x + y) + z
    BY <1>1, <1>3
  <2> HIDE DEF x, y, z
  <2>3. n = x + (y + z)
    BY <2>1, <2>2
  <2> QED BY <2>3 DEF x, y, z
<1>6. c * a \in Nat \ {0}
  OBVIOUS
<1> DEFINE m == c * a
<1>7. /\ n = m * (n \div m) + (n % m)
      /\ n \div m \in Nat /\ n % m \in 0..(m - 1)
  BY <1>6, DivMod
<1>8. p = n \div m
  <2> DEFINE d == n \div m
  <2> DEFINE e == n % m
  <2>1. m \in Nat \ {0} /\ p \in Int /\ d \in Int /\ r \in 0..(m - 1) /\ e \in 0..(m - 1)
    BY <1>2, <1>4, <1>6, <1>7
  <2>2. m * p + r = m * d + e
    BY <1>5, <1>7
  <2> HIDE DEF m, d, e, p, r
  <2>3. p = d
    BY <2>1, <2>2, DivModUnique
  <2> QED BY <2>3 DEF d, m
<1> QED BY <1>8

\* Numbers that agree in the digits above a place and in its digit agree from
\* there, for any base.
LEMMA SameDigits ==
  ASSUME NEW u \in Nat, NEW v \in Nat, NEW d \in Nat \ {0}, NEW c \in Nat \ {0},
         u \div (c * d) = v \div (c * d), (u \div d) % c = (v \div d) % c
  PROVE  u \div d = v \div d
<1>1. \A n \in Nat : (n \div d) \div c = n \div (c * d)
  BY DivTwice, Zenon
<1> DEFINE a == u \div d
<1> DEFINE b == v \div d
<1>2. a \div c = b \div c /\ a % c = b % c
  BY <1>1, Zenon
<1>3. a \in Nat /\ b \in Nat
  OBVIOUS
<1> HIDE DEF a, b
<1>4. a = c * (a \div c) + (a % c) /\ b = c * (b \div c) + (b % c)
  BY <1>3, DivMod, Zenon
<1>5. a = b
  BY <1>2, <1>4, Zenon
<1> QED BY <1>5 DEF a, b

\* The next multiple of n after a is no greater than any greater multiple.
LEMMA NextMultiple ==
  ASSUME NEW n \in Nat \ {0}, NEW a \in Nat, NEW b \in Nat, a % n = 0, b % n = 0, a < b
  PROVE  a + n <= b /\ (a + n) % n = 0
<1> DEFINE x == a \div n
<1> DEFINE y == b \div n
<1>1. a = n * x /\ x \in Nat /\ b = n * y /\ y \in Nat
  BY DivMod
<1>2. a + n <= b
  <2> HIDE DEF x, y
  <2>1. n * (y - x) = b - a
    BY <1>1
  <2>2. y - x >= 1
    <3>1. ASSUME y <= x PROVE FALSE
      <4>1. n * (x - y) = a - b /\ n * (x - y) >= 0
        BY <1>1, <3>1
      <4> QED BY <4>1
    <3> QED BY <1>1, <3>1
  <2>3. n * (y - x) >= n
    BY <1>1, <2>2, MultipleAtLeast
  <2> QED BY <2>1, <2>3
<1>3. (a + n) % n = 0
  <2> HIDE DEF x, y
  <2>1. a + n = n * (x + 1) + 0
    BY <1>1
  <2> DEFINE m == a + n
  <2>2. m = n * (m \div n) + (m % n) /\ m \div n \in Nat /\ m % n \in 0..(n - 1)
    <3>1. m \in Nat
      OBVIOUS
    <3> HIDE DEF m
    <3> QED BY <3>1, DivMod, Zenon
  <2> DEFINE q == m \div n
  <2> DEFINE r == m % n
  <2>3. n * q + r = n * (x + 1) + 0 /\ q \in Int /\ r \in 0..(n - 1) /\ 0 \in 0..(n - 1)
        /\ x + 1 \in Int
    BY <1>1, <2>1, <2>2
  <2> HIDE DEF q, r, m
  <2>4. r = 0
    BY <2>3, DivModUnique
  <2> QED BY <2>4 DEF r, m
<1> QED BY <1>2, <1>3

(***************************************************************************)
(* Powers of two                                                           *)
(***************************************************************************)
\* What Pow2 computes.
LEMMA Pow2Unfold == /\ Pow2 \in [Nat -> Nat] /\ Pow2[0] = 1
                    /\ \A n \in Nat : Pow2[n + 1] = 2 * Pow2[n]
<1> DEFINE D == [x \in Nat \X Nat |-> 2 * x[2]]
<1> DEFINE F(g) == [n \in Nat |-> IF n = 0 THEN 1 ELSE 2 * g[n - 1]]
<1>1. D \in Steps(Nat) /\ 1 \in Nat
  BY DEF Steps
<1>2. PICK g : Follows(g, Nat, 1, D)
  <2> HIDE DEF D
  <2> QED BY <1>1, Recursion
<1>3. g \in [Nat -> Nat] /\ g[0] = 1 /\ \A n \in Nat : g[n + 1] = 2 * g[n]
  BY <1>2 DEF Follows
<1>4. g = F(g)
  <2>1. ASSUME NEW n \in Nat PROVE g[n] = IF n = 0 THEN 1 ELSE 2 * g[n - 1]
    <3>1. CASE n = 0
      BY <1>3, <3>1
    <3>2. CASE n # 0
      <4>1. n - 1 \in Nat /\ (n - 1) + 1 = n
        BY <3>2
      <4> QED BY <1>3, <3>2, <4>1
    <3> QED BY <3>1, <3>2
  <2> QED BY <1>3, <2>1
<1>5. Pow2 = F(Pow2)
  <2>1. Pow2 = CHOOSE h : h = F(h)
    BY DEF Pow2
  <2> HIDE DEF F
  <2> QED BY <1>4, <2>1
<1>6. ASSUME NEW n \in Nat PROVE Pow2[n] = IF n = 0 THEN 1 ELSE 2 * Pow2[n - 1]
  BY <1>5, Zenon
<1>7. Pow2[0] = 1
  BY <1>6
<1>8. ASSUME NEW n \in Nat PROVE Pow2[n + 1] = 2 * Pow2[n]
  <2>1. n + 1 \in Nat /\ n + 1 # 0 /\ (n + 1) - 1 = n
    OBVIOUS
  <2> QED BY <1>6, <2>1
<1>9. Pow2 \in [Nat -> Nat]
  <2> DEFINE S == {n \in Nat : Pow2[n] \in Nat}
  <2>1. 0 \in S
    BY <1>7
  <2>2. \A n \in Nat : n \in S => n + 1 \in S
    BY <1>8
  <2>3. Nat \subseteq S
    <3> HIDE DEF S
    <3> QED BY <2>1, <2>2, SetInduction
  <2>4. \A n \in Nat : Pow2[n] \in Nat
    BY <2>3
  <2>5. Pow2 = [n \in Nat |-> Pow2[n]]
    BY <1>5, Zenon
  <2> QED BY <2>4, <2>5
<1> QED BY <1>7, <1>8, <1>9

\* Pow2 is positive, and greater than its argument.
LEMMA Pow2Positive == \A n \in Nat : Pow2[n] \in Nat /\ Pow2[n] >= n + 1
<1> DEFINE S == {n \in Nat : Pow2[n] >= n + 1}
<1>1. 0 \in S
  BY Pow2Unfold
<1>2. ASSUME NEW n \in Nat, n \in S PROVE n + 1 \in S
  <2>1. Pow2[n + 1] = 2 * Pow2[n] /\ Pow2[n] \in Nat
    BY Pow2Unfold
  <2> QED BY <1>2, <2>1
<1>3. Nat \subseteq S
  <2> HIDE DEF S
  <2> QED BY <1>1, <1>2, SetInduction
<1> QED BY <1>3, Pow2Unfold

\* Pow2 is monotonic.
LEMMA Pow2Monotonic == \A m, n \in Nat : m <= n => Pow2[m] <= Pow2[n]
<1> DEFINE S == {k \in Nat : \A m \in Nat : Pow2[m] <= Pow2[m + k]}
<1>0. \A n \in Nat : Pow2[n] \in Nat
  BY Pow2Positive
<1>1. 0 \in S
  BY <1>0
<1>2. ASSUME NEW k \in Nat, k \in S PROVE k + 1 \in S
  <2> SUFFICES ASSUME NEW m \in Nat PROVE Pow2[m] <= Pow2[m + (k + 1)]
    OBVIOUS
  <2>1. Pow2[(m + k) + 1] = 2 * Pow2[m + k]
    BY Pow2Unfold
  <2>2. Pow2[m] <= Pow2[m + k] /\ m + (k + 1) = (m + k) + 1
    BY <1>2
  <2> QED BY <1>0, <2>1, <2>2
<1>3. Nat \subseteq S
  <2> HIDE DEF S
  <2> QED BY <1>1, <1>2, SetInduction
<1>4. ASSUME NEW m \in Nat, NEW n \in Nat, m <= n PROVE Pow2[m] <= Pow2[n]
  <2>1. n - m \in S /\ m + (n - m) = n
    BY <1>3, <1>4
  <2> QED BY <2>1
<1> QED BY <1>4
=============================================================================
