--------------------------- MODULE NumberLemmas ----------------------------
(***************************************************************************)
(* What the proofs share about integers: remainders (counters, sequence    *)
(* numbers and samples have widths), induction on the natural numbers over *)
(* a set, and the recursive function on 0 .. n it defines.  The library    *)
(* states induction for an operator; the loops of the models (the escaped  *)
(* bytes of a frame, the sums over a block) need it for sets and functions *)
(* only.                                                                   *)
(***************************************************************************)
EXTENDS Integers, WellFoundedInduction, TLAPS

-----------------------------------------------------------------------------
(* Arithmetic modulo w.                                                    *)

\* Division with remainder.
LEMMA Division ==
  ASSUME NEW w \in Nat \ {0}, NEW n \in Int
  PROVE  /\ n % w \in 0 .. w - 1
         /\ n \div w \in Int
         /\ n = w * (n \div w) + (n % w)
OBVIOUS

\* A multiple of w between -w and w is 0.
LEMMA NoMultiple ==
  ASSUME NEW w \in Nat \ {0}, NEW k \in Int, w * k < w, -w < w * k
  PROVE  k = 0
<1>1. w * k < w * 1 => k < 1
  OBVIOUS
<1>2. w * (-1) < w * k => -1 < k
  OBVIOUS
<1>. QED
  BY <1>1, <1>2

\* There is one way to divide.
LEMMA DivisionUnique ==
  ASSUME NEW w \in Nat \ {0}, NEW q \in Int, NEW r \in 0 .. w - 1,
         NEW p \in Int, NEW s \in 0 .. w - 1, w * q + r = w * p + s
  PROVE  q = p /\ r = s
<1>1. q - p \in Int /\ w * (q - p) = s - r
  OBVIOUS
<1>2. w * (q - p) < w /\ -w < w * (q - p)
  BY <1>1
<1>3. q - p = 0
  BY <1>1, <1>2, NoMultiple
<1>. QED
  BY <1>3

\* So the remainder is the only one in its range, and the quotient with it.
LEMMA Remainder ==
  ASSUME NEW w \in Nat \ {0}, NEW q \in Int, NEW r \in 0 .. w - 1
  PROVE  (w * q + r) % w = r /\ (w * q + r) \div w = q
<1>. DEFINE n == w * q + r
            p == n \div w
            s == n % w
<1>1. n \in Int
  OBVIOUS
<1>2. p \in Int /\ s \in 0 .. w - 1 /\ n = w * p + s
  <2>. HIDE DEF n
  <2>. QED
    BY <1>1, Division
<1>3. q = p /\ r = s
  <2>1. w * q + r = w * p + s
    BY <1>2
  <2>. HIDE DEF p, s, n
  <2>. QED
    BY <1>2, <2>1, DivisionUnique
<1>. QED
  BY <1>3

\* Multiples of w do not change the remainder.
LEMMA SameRemainder ==
  ASSUME NEW w \in Nat \ {0}, NEW x \in Int, NEW y \in Int, NEW k \in Int,
         x = y + w * k
  PROVE  x % w = y % w
<1>. DEFINE u == y \div w
            r == y % w
<1>1. r \in 0 .. w - 1 /\ u \in Int /\ y = w * u + r
  BY Division
<1>. HIDE DEF u, r
<1>2. x = w * (k + u) + r /\ k + u \in Int
  BY <1>1
<1>3. (w * (k + u) + r) % w = r
  BY <1>1, <1>2, Remainder
<1>. QED
  BY <1>2, <1>3 DEF r

\* Adding to a remainder and taking the remainder is adding to the number.
LEMMA AddRemainder ==
  ASSUME NEW w \in Nat \ {0}, NEW n \in Int, NEW a \in Int
  PROVE  ((n % w) + a) % w = (n + a) % w
<1>. DEFINE r == n % w
            q == n \div w
            t == (r + a) % w
            u == (r + a) \div w
<1>1. r \in 0 .. w - 1 /\ q \in Int /\ n = w * q + r /\ r + a \in Int
  BY Division
<1>2. t \in 0 .. w - 1 /\ u \in Int /\ r + a = w * u + t
  <2>. HIDE DEF r
  <2>. QED
    BY <1>1, Division
<1>3. n + a = w * (q + u) + t /\ q + u \in Int
  <2>. HIDE DEF r, q, t, u
  <2>. QED
    BY <1>1, <1>2
<1>4. (w * (q + u) + t) % w = t
  <2>. HIDE DEF r, q, t, u
  <2>. QED
    BY <1>2, <1>3, Remainder
<1>. QED
  BY <1>3, <1>4

\* So is subtracting one from another.
LEMMA SubtractRemainders ==
  ASSUME NEW w \in Nat \ {0}, NEW n \in Int, NEW m \in Int
  PROVE  ((n % w) - (m % w)) % w = (n - m) % w
<1>. DEFINE r == m % w
            q == m \div w
            t == (n - m) % w
            u == (n - m) \div w
<1>1. n % w \in Int /\ r \in Int /\ q \in Int /\ m = w * q + r
  BY Division
<1>2. ((n % w) - r) % w = (n - r) % w
  <2>1. ((n % w) + (-r)) % w = (n + (-r)) % w
    <3>. HIDE DEF r, q, t, u
    <3>1. -r \in Int
      BY <1>1
    <3>. QED
      BY <3>1, AddRemainder
  <2>2. (n % w) + (-r) = (n % w) - r /\ n + (-r) = n - r
    <3>. HIDE DEF r
    <3>. QED
      BY <1>1
  <2>. QED
    BY <2>1, <2>2
<1>3. t \in 0 .. w - 1 /\ u \in Int /\ n - m = w * u + t
  <2>1. \A d \in Int : d % w \in 0 .. w - 1 /\ d \div w \in Int
                        /\ d = w * (d \div w) + (d % w)
    BY Division
  <2>2. n - m \in Int
    OBVIOUS
  <2>. QED
    BY <2>1, <2>2
<1>4. n - r = w * (q + u) + t /\ q + u \in Int
  <2>. HIDE DEF r, q, t, u
  <2>. QED
    BY <1>1, <1>3
<1>5. (w * (q + u) + t) % w = t
  <2>. HIDE DEF r, q, t, u
  <2>. QED
    BY <1>3, <1>4, Remainder
<1>. QED
  BY <1>2, <1>4, <1>5

\* Dividing twice is dividing by the product.
LEMMA DivisionTwice ==
  ASSUME NEW w \in Nat \ {0}, NEW u \in Nat \ {0}, NEW n \in Int
  PROVE  n \div (w * u) = (n \div w) \div u
<1>. DEFINE q == n \div w
            r == n % w
            p == q \div u
            s == q % u
<1>1. q \in Int /\ r \in 0 .. w - 1 /\ n = w * q + r
  BY Division
<1>2. p \in Int /\ s \in 0 .. u - 1 /\ q = u * p + s
  <2>. HIDE DEF q
  <2>. QED
    BY <1>1, Division
<1>. HIDE DEF q, r, p, s
<1>3. w * s \in Nat /\ w * s <= w * (u - 1) /\ w * (u - 1) = w * u - w
  BY <1>2
<1>4. w * u \in Nat \ {0} /\ w * s + r \in 0 .. (w * u) - 1
  BY <1>1, <1>3
<1>5. n = (w * u) * p + (w * s + r)
  BY <1>1, <1>2
<1>6. ((w * u) * p + (w * s + r)) \div (w * u) = p
  BY <1>2, <1>4, Remainder
<1>. QED
  BY <1>5, <1>6 DEF p, q

-----------------------------------------------------------------------------
(* Induction.                                                              *)

\* A set with 0 and every successor holds every natural number.
LEMMA Induct ==
  ASSUME NEW S, 0 \in S, \A n \in Nat : n \in S => n + 1 \in S
  PROVE  \A n \in Nat : n \in S
<1>. SUFFICES ASSUME Nat \ S # {} PROVE FALSE
  OBVIOUS
<1>. DEFINE R == OpToRel(<, Nat)
<1>1. IsWellFoundedOn(R, Nat)
  BY NatLessThanWellFounded
<1>2. Nat \ S \subseteq Nat
  OBVIOUS
<1>3. \A x, y \in Nat : y < x => <<y, x>> \in R
  BY DEF OpToRel
<1>. HIDE DEF R
<1>4. PICK x \in Nat \ S : \A y \in Nat \ S : ~ (<<y, x>> \in R)
  BY <1>1, <1>2, WFMin
<1>5. x # 0 /\ x - 1 \in Nat \ S
  <2>1. x # 0 /\ x - 1 \in Nat /\ (x - 1) + 1 = x
    BY <1>4
  <2>2. x - 1 \in S => (x - 1) + 1 \in S
    BY <2>1
  <2>. QED
    BY <1>4, <2>1, <2>2
<1>6. <<x - 1, x>> \in R
  BY <1>3, <1>4, <1>5
<1>. QED
  BY <1>4, <1>5, <1>6

\* Up to a bound.
LEMMA InductTo ==
  ASSUME NEW bound \in Nat, NEW S, 0 \in S,
         \A n \in Nat : n < bound /\ n \in S => n + 1 \in S
  PROVE  \A n \in 0 .. bound : n \in S
<1>. DEFINE T == {n \in Nat : n <= bound => n \in S}
<1>1. 0 \in T /\ \A n \in Nat : n \in T => n + 1 \in T
  OBVIOUS
<1>2. \A n \in Nat : n \in T
  <2>. HIDE DEF T
  <2>. QED
    BY <1>1, Induct
<1>. QED
  BY <1>2

\* What a loop keeps from each step to the next, it keeps.
LEMMA LoopKeeps ==
  ASSUME NEW n \in Nat, NEW S, NEW f, f[0] \in S,
         \A k \in 1 .. n : f[k - 1] \in S => f[k] \in S
  PROVE  \A k \in 0 .. n : f[k] \in S
<1>. DEFINE T == {k \in Nat : f[k] \in S}
<1>1. 0 \in T
  OBVIOUS
<1>2. ASSUME NEW k \in Nat, k < n, k \in T
      PROVE  k + 1 \in T
  <2>1. k + 1 \in 1 .. n /\ (k + 1) - 1 = k
    BY <1>2
  <2>2. f[(k + 1) - 1] \in S => f[k + 1] \in S
    BY <2>1
  <2>. QED
    BY <1>2, <2>1, <2>2
<1>3. \A k \in 0 .. n : k \in T
  <2>. HIDE DEF T
  <2>. QED
    BY <1>1, <1>2, InductTo
<1>. QED
  BY <1>3

\* f[0] is base, and f[k] is made of k and f[k - 1].
Recursion(f, n, S, base, step) ==
    /\ f \in [0 .. n -> S]
    /\ f[0] = base
    /\ \A k \in 1 .. n : f[k] = step[<<k, f[k - 1]>>]

\* There is such a function.
LEMMA RecursionTo ==
  ASSUME NEW n \in Nat, NEW S, NEW base \in S,
         NEW step \in [(1 .. n) \X S -> S]
  PROVE  \E f : Recursion(f, n, S, base, step)
<1>. DEFINE Rec(m, f) == Recursion(f, m, S, base, step)
            Done == {m \in Nat : \E f : Rec(m, f)}
<1>1. 0 \in Done
  <2>1. Rec(0, [k \in 0 .. 0 |-> base])
    BY DEF Recursion
  <2>. QED
    BY <2>1
<1>2. ASSUME NEW m \in Nat, m < n, m \in Done
      PROVE  m + 1 \in Done
  <2>1. PICK f : Rec(m, f)
    BY <1>2
  <2>. DEFINE next == step[<<m + 1, f[m]>>]
              g == [k \in 0 .. m + 1 |-> IF k = m + 1 THEN next ELSE f[k]]
  <2>2. f[m] \in S /\ m + 1 \in 1 .. n
    BY <1>2, <2>1 DEF Recursion
  <2>3. next \in S
    BY <2>2
  <2>4. g \in [0 .. m + 1 -> S] /\ g[0] = base
    BY <2>1, <2>3 DEF Recursion
  <2>5. ASSUME NEW k \in 1 .. m + 1
        PROVE  g[k] = step[<<k, g[k - 1]>>]
    <3>1. g[k - 1] = f[k - 1]
      OBVIOUS
    <3>2. CASE k = m + 1
      <4>1. k - 1 = m /\ g[k] = next
        BY <3>2
      <4>. QED
        BY <3>1, <3>2, <4>1
    <3>3. CASE k # m + 1
      BY <2>1, <3>1, <3>3 DEF Recursion
    <3>. QED
      BY <3>2, <3>3
  <2>6. Rec(m + 1, g)
    BY <2>4, <2>5 DEF Recursion
  <2>7. \E h : Rec(m + 1, h)
    BY <2>6, Zenon
  <2>8. m + 1 \in Nat
    OBVIOUS
  <2>. QED
    BY <2>7, <2>8, Zenon
<1>3. n \in Done
  <2>. HIDE DEF Done
  <2>1. \A m \in 0 .. n : m \in Done
    BY <1>1, <1>2, InductTo
  <2>. QED
    BY <2>1
<1>. QED
  BY <1>3

=============================================================================
