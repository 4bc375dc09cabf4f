----------------------------- MODULE SumsProofs -----------------------------
(***************************************************************************)
(* Facts about Sums. They are proved by induction on the number of         *)
(* elements, in the form the provers can instantiate: a set of naturals    *)
(* that has 0, and the successor of each of its elements, is Nat.          *)
(***************************************************************************)
EXTENDS Sums, WellFoundedInduction, TLAPS

\* A set of naturals that is not empty has a least element.
LEMMA LeastNatural ==
    ASSUME NEW T, T \subseteq Nat, T # {}
    PROVE  \E x \in T : \A y \in T : x <= y
<1> DEFINE R == OpToRel(<, Nat)
<1>1. IsWellFoundedOn(R, Nat)
  BY NatLessThanWellFounded, Zenon
<1>2. \A x, y \in Nat : x < y => <<x, y>> \in R
  BY DEF OpToRel
<1> HIDE DEF R
<1>3. PICK x \in T : \A y \in T : <<y, x>> \notin R
  BY <1>1, WFMin
<1>4. ASSUME NEW y \in T
      PROVE  x <= y
  <2>1. x \in Nat /\ y \in Nat /\ <<y, x>> \notin R
    BY <1>3
  <2>2. QED
    BY <1>2, <2>1
<1>5. QED
  BY <1>4

\* Induction, about a set in place of a predicate.
LEMMA Induction ==
    ASSUME NEW S, 0 \in S, \A n \in Nat : n \in S => n + 1 \in S
    PROVE  \A n \in Nat : n \in S
<1> SUFFICES ASSUME Nat \ S # {} PROVE FALSE
  OBVIOUS
<1>1. PICK x \in Nat \ S : \A y \in Nat \ S : x <= y
  BY LeastNatural
<1>2. x # 0 /\ x - 1 \in Nat
  BY <1>1
<1>3. x - 1 \in S
  BY <1>1, <1>2
<1>4. QED
  BY <1>1, <1>2, <1>3

-----------------------------------------------------------------------------
(* The recursive function is what its equation says *)

\* h gives the sums of the first elements of s, up to n.
IsTotals(h, s, n) == h = [k \in 0..n |-> IF k = 0 THEN 0 ELSE h[k - 1] + s[k]]

\* What such a function is worth, element by element.
LEMMA TotalsElements ==
    ASSUME NEW s, NEW n \in Nat, NEW h, IsTotals(h, s, n)
    PROVE  /\ h[0] = 0
           /\ \A k \in 1..n : h[k] = h[k - 1] + s[k]
<1> DEFINE F == [k \in 0..n |-> IF k = 0 THEN 0 ELSE h[k - 1] + s[k]]
<1>1. h = F
  BY DEF IsTotals
<1>2. F[0] = 0
  OBVIOUS
<1>3. ASSUME NEW k \in 1..n PROVE F[k] = h[k - 1] + s[k]
  OBVIOUS
<1> HIDE DEF F
<1>4. QED
  BY <1>1, <1>2, <1>3

\* There are sums of the first n elements, whatever n.
LEMMA TotalsExist ==
    ASSUME NEW s
    PROVE  \A n \in Nat : \E h : IsTotals(h, s, n)
<1> DEFINE S == {n \in Nat : \E h : IsTotals(h, s, n)}
<1>1. 0 \in S
  <2> DEFINE h == [k \in 0..0 |-> 0]
  <2>1. h = [k \in 0..0 |-> IF k = 0 THEN 0 ELSE h[k - 1] + s[k]]
    OBVIOUS
  <2>2. IsTotals(h, s, 0)
    BY <2>1 DEF IsTotals
  <2>3. QED
    BY <2>2
<1>2. ASSUME NEW n \in Nat, n \in S
      PROVE  n + 1 \in S
  <2>1. PICK h : IsTotals(h, s, n)
    BY <1>2
  <2>2. h[0] = 0 /\ \A k \in 1..n : h[k] = h[k - 1] + s[k]
    BY <2>1, TotalsElements
  <2> DEFINE g == [k \in 0..n + 1 |-> IF k = n + 1 THEN h[n] + s[n + 1] ELSE h[k]]
             f == [k \in 0..n + 1 |-> IF k = 0 THEN 0 ELSE g[k - 1] + s[k]]
  <2>3. \A k \in 0..n : g[k] = h[k]
    OBVIOUS
  <2>4. g[n + 1] = h[n] + s[n + 1]
    OBVIOUS
  <2>5. ASSUME NEW k \in 0..n + 1 PROVE g[k] = f[k]
    <3>1. CASE k = 0
      BY <2>2, <2>3, <3>1
    <3>2. CASE k = n + 1
      <4>1. k # 0 /\ k - 1 = n /\ n \in 0..n
        BY <3>2
      <4>2. f[k] = g[k - 1] + s[k]
        BY <4>1
      <4>3. g[k - 1] = h[n]
        BY <2>3, <4>1
      <4>4. QED
        BY <2>4, <3>2, <4>2, <4>3
    <3>3. CASE k \in 1..n
      <4>1. k # 0 /\ k - 1 \in 0..n /\ k \in 0..n
        BY <3>3
      <4>2. f[k] = g[k - 1] + s[k]
        BY <4>1
      <4>3. g[k] = h[k] /\ g[k - 1] = h[k - 1]
        BY <2>3, <4>1
      <4>4. QED
        BY <2>2, <3>3, <4>2, <4>3
    <3>4. QED
      BY <3>1, <3>2, <3>3
  <2>6. g = f
    BY <2>5
  <2>7. IsTotals(g, s, n + 1)
    BY <2>6 DEF IsTotals
  <2>8. QED
    BY <2>7
<1> HIDE DEF S
<1>3. \A n \in Nat : n \in S
  BY <1>1, <1>2, Induction
<1>4. QED
  BY <1>3 DEF S

\* Two of them agree wherever both are defined.
LEMMA TotalsAgree ==
    ASSUME NEW s, NEW m \in Nat, NEW n \in Nat, NEW g, NEW h,
           IsTotals(g, s, m), IsTotals(h, s, n),
           NEW k \in Nat, k <= m, k <= n
    PROVE  g[k] = h[k]
<1> DEFINE S == {i \in Nat : i <= m /\ i <= n => g[i] = h[i]}
<1>1. 0 \in S
  BY TotalsElements
<1>2. ASSUME NEW i \in Nat, i \in S
      PROVE  i + 1 \in S
  <2> SUFFICES ASSUME i + 1 <= m, i + 1 <= n PROVE g[i + 1] = h[i + 1]
    OBVIOUS
  <2>1. i + 1 \in 1..m /\ i + 1 \in 1..n /\ i + 1 - 1 = i /\ g[i] = h[i]
    BY <1>2
  <2>2. g[i + 1] = g[i + 1 - 1] + s[i + 1] /\ h[i + 1] = h[i + 1 - 1] + s[i + 1]
    BY <2>1, TotalsElements
  <2>3. QED
    BY <2>1, <2>2
<1> HIDE DEF S
<1>3. k \in S
  BY <1>1, <1>2, Induction
<1>4. QED
  BY <1>3 DEF S

\* The recursive function satisfies its equation.
LEMMA TotalsEquation ==
    ASSUME NEW s
    PROVE  Totals(s) = [k \in Nat |-> IF k = 0 THEN 0 ELSE Totals(s)[k - 1] + s[k]]
<1> DEFINE H(n) == CHOOSE h : IsTotals(h, s, n)
           g == [k \in Nat |-> H(k)[k]]
           f == [k \in Nat |-> IF k = 0 THEN 0 ELSE g[k - 1] + s[k]]
<1>1. ASSUME NEW n \in Nat PROVE IsTotals(H(n), s, n)
  BY TotalsExist
<1> HIDE DEF H
<1>2. ASSUME NEW k \in Nat PROVE g[k] = f[k]
  <2>1. CASE k = 0
    BY <1>1, <2>1, TotalsElements
  <2>2. CASE k # 0
    <3>1. k - 1 \in Nat /\ k \in 1..k /\ k - 1 <= k
      BY <2>2
    <3>2. g[k] = H(k)[k - 1] + s[k]
      BY <1>1, <3>1, TotalsElements
    <3>3. IsTotals(H(k), s, k) /\ IsTotals(H(k - 1), s, k - 1)
      BY <1>1, <3>1
    <3>4. H(k)[k - 1] = H(k - 1)[k - 1]
      BY <3>1, <3>3, TotalsAgree
    <3>5. QED
      BY <2>2, <3>1, <3>2, <3>4
  <2>3. QED
    BY <2>1, <2>2
<1>3. g = f
  BY <1>2
<1> DEFINE IsFixed(t) == t = [k \in Nat |-> IF k = 0 THEN 0 ELSE t[k - 1] + s[k]]
<1>4. \E t : IsFixed(t)
  BY <1>3
<1>5. Totals(s) = CHOOSE t : IsFixed(t)
  BY DEF Totals
<1> HIDE DEF IsFixed
<1>6. IsFixed(Totals(s))
  BY <1>4, <1>5
<1>7. QED
  BY <1>6 DEF IsFixed

\* The sum of no element, and of one more.
LEMMA TotalStep ==
    ASSUME NEW s
    PROVE  /\ Total(s, 0) = 0
           /\ \A n \in Nat : Total(s, n + 1) = Total(s, n) + s[n + 1]
<1> DEFINE F == [k \in Nat |-> IF k = 0 THEN 0 ELSE Totals(s)[k - 1] + s[k]]
<1>1. Totals(s) = F
  BY TotalsEquation
<1>2. F[0] = 0
  OBVIOUS
<1>3. ASSUME NEW n \in Nat PROVE F[n + 1] = Totals(s)[n] + s[n + 1]
  <2>1. n + 1 \in Nat /\ n + 1 # 0 /\ n + 1 - 1 = n
    OBVIOUS
  <2>2. QED
    BY <2>1
<1> HIDE DEF F
<1>4. QED
  BY <1>1, <1>2, <1>3 DEF Total

-----------------------------------------------------------------------------
(* Sums of integers *)

\* The sum of integers is an integer.
LEMMA TotalIsInt ==
    ASSUME NEW s, NEW n \in Nat, \A k \in 1..n : s[k] \in Int
    PROVE  Total(s, n) \in Int
<1> DEFINE S == {m \in Nat : m <= n => Total(s, m) \in Int}
<1>1. 0 \in S
  BY TotalStep
<1>2. ASSUME NEW m \in Nat, m \in S
      PROVE  m + 1 \in S
  <2> SUFFICES ASSUME m + 1 <= n PROVE Total(s, m + 1) \in Int
    OBVIOUS
  <2>1. s[m + 1] \in Int /\ Total(s, m) \in Int
    BY <1>2
  <2>2. QED
    BY <2>1, TotalStep
<1> HIDE DEF S
<1>3. n \in S
  BY <1>1, <1>2, Induction
<1>4. QED
  BY <1>3 DEF S

\* Equal elements have equal sums.
LEMMA TotalOfEquals ==
    ASSUME NEW r, NEW s, NEW n \in Nat, \A k \in 1..n : r[k] = s[k]
    PROVE  Total(r, n) = Total(s, n)
<1> DEFINE S == {m \in Nat : m <= n => Total(r, m) = Total(s, m)}
<1>1. 0 \in S
  BY TotalStep
<1>2. ASSUME NEW m \in Nat, m \in S
      PROVE  m + 1 \in S
  <2> SUFFICES ASSUME m + 1 <= n PROVE Total(r, m + 1) = Total(s, m + 1)
    OBVIOUS
  <2>1. r[m + 1] = s[m + 1] /\ Total(r, m) = Total(s, m)
    BY <1>2
  <2>2. QED
    BY <2>1, TotalStep
<1> HIDE DEF S
<1>3. n \in S
  BY <1>1, <1>2, Induction
<1>4. QED
  BY <1>3 DEF S

\* The sum without the first element.
LEMMA TotalOfTail ==
    ASSUME NEW r, NEW s, NEW n \in Nat,
           \A k \in 1..n + 1 : s[k] \in Int, \A k \in 1..n : r[k] = s[k + 1]
    PROVE  Total(r, n) = Total(s, n + 1) - s[1]
<1> DEFINE S == {m \in Nat : m <= n => Total(r, m) = Total(s, m + 1) - s[1]}
<1>1. 0 \in S
  <2>1. Total(r, 0) = 0 /\ Total(s, 0) = 0 /\ Total(s, 0 + 1) = Total(s, 0) + s[0 + 1]
    BY TotalStep
  <2>2. s[1] \in Int
    OBVIOUS
  <2>3. QED
    BY <2>1, <2>2
<1>2. ASSUME NEW m \in Nat, m \in S
      PROVE  m + 1 \in S
  <2> SUFFICES ASSUME m + 1 <= n
               PROVE  Total(r, m + 1) = Total(s, m + 1 + 1) - s[1]
    OBVIOUS
  <2>1. m + 1 \in 1..n /\ m + 1 \in Nat
    OBVIOUS
  <2>2. r[m + 1] = s[m + 1 + 1] /\ Total(r, m) = Total(s, m + 1) - s[1]
    BY <1>2, <2>1
  <2>3. /\ Total(r, m + 1) = Total(r, m) + r[m + 1]
        /\ Total(s, m + 1 + 1) = Total(s, m + 1) + s[m + 1 + 1]
    BY <2>1, TotalStep
  <2>4. Total(s, m + 1) \in Int
    <3>1. \A k \in 1..m + 1 : s[k] \in Int
      OBVIOUS
    <3>2. QED
      BY <2>1, <3>1, TotalIsInt
  <2>5. s[1] \in Int /\ s[m + 1 + 1] \in Int
    OBVIOUS
  <2>6. QED
    BY <2>2, <2>3, <2>4, <2>5
<1> HIDE DEF S
<1>3. n \in S
  BY <1>1, <1>2, Induction
<1>4. QED
  BY <1>3 DEF S

\* One more times a number is that number more.
LEMMA OneMoreTimes ==
    ASSUME NEW n \in Int, NEW x \in Int
    PROVE  (n + 1) * x = n * x + x /\ n * x \in Int
OBVIOUS

\* A sum is at least so many times the least element, and at most so many
\* times the greatest.
LEMMA TotalBounds ==
    ASSUME NEW s, NEW n \in Nat, NEW low \in Int, NEW high \in Int,
           \A k \in 1..n : s[k] \in low..high
    PROVE  n * low <= Total(s, n) /\ Total(s, n) <= n * high
<1> DEFINE S == {m \in Nat : m <= n => m * low <= Total(s, m) /\ Total(s, m) <= m * high}
<1>1. 0 \in S
  BY TotalStep
<1>2. ASSUME NEW m \in Nat, m \in S
      PROVE  m + 1 \in S
  <2> SUFFICES ASSUME m + 1 <= n
               PROVE  /\ (m + 1) * low <= Total(s, m + 1)
                      /\ Total(s, m + 1) <= (m + 1) * high
    OBVIOUS
  <2>1. m * low <= Total(s, m) /\ Total(s, m) <= m * high
    BY <1>2
  <2>2. s[m + 1] \in Int /\ low <= s[m + 1] /\ s[m + 1] <= high
    OBVIOUS
  <2>3. Total(s, m) \in Int
    <3>1. \A k \in 1..m : s[k] \in Int
      OBVIOUS
    <3>2. QED
      BY <3>1, TotalIsInt
  <2>4. Total(s, m + 1) = Total(s, m) + s[m + 1]
    BY TotalStep
  <2>5. /\ (m + 1) * low = m * low + low /\ m * low \in Int
        /\ (m + 1) * high = m * high + high /\ m * high \in Int
    BY OneMoreTimes
  <2> DEFINE a == m * low
             b == m * high
             t == Total(s, m)
  <2>6. a \in Int /\ b \in Int /\ t \in Int /\ a <= t /\ t <= b
    BY <2>1, <2>3, <2>5
  <2> HIDE DEF a, b, t
  <2>7. a + low <= t + s[m + 1] /\ t + s[m + 1] <= b + high
    BY <2>2, <2>6
  <2>8. QED
    BY <2>4, <2>5, <2>7 DEF a, b, t
<1> HIDE DEF S
<1>3. n \in S
  BY <1>1, <1>2, Induction
<1>4. QED
  BY <1>3 DEF S

\* A quotient lies where the dividend does.
LEMMA QuotientBounds ==
    ASSUME NEW n \in Nat, n > 0, NEW x \in Int, NEW low \in Int, NEW high \in Int,
           n * low <= x, x <= n * high
    PROVE  low <= x \div n /\ x \div n <= high
OBVIOUS
=============================================================================
