--------------------------- MODULE BillingProofs ---------------------------
(* Theorems about Billing, for every tariff, price, list of offers and     *)
(* request.                                                                *)
EXTENDS AnnualView, FiniteSetTheorems, TLAPS

-----------------------------------------------------------------------------
(* Rounding *)

LEMMA TimesLeq ==
  ASSUME NEW a \in Int, NEW b \in Int, a <= b, NEW k \in Nat PROVE k * a <= k * b
  OBVIOUS

LEMMA Positive ==
  ASSUME NEW a \in Nat \ {0}, NEW b \in Nat \ {0} PROVE a * b \in Nat \ {0}
<1>1. 1 * b <= a * b
  BY TimesLeq
<1> QED
  BY <1>1

LEMMA DivisionBy ==
  ASSUME NEW a \in Int, NEW d \in Nat \ {0}, NEW q, q = a \div d
  PROVE  q \in Int /\ d * q <= a /\ a < d * q + d
  OBVIOUS

LEMMA Division ==
  ASSUME NEW a \in Int, NEW d \in Nat \ {0}
  PROVE  a \div d \in Int /\ d * (a \div d) <= a /\ a < d * (a \div d) + d
  OBVIOUS

(* A rounded amount is within half a cent of the exact one. *)
LEMMA RoundNear ==
  ASSUME NEW n \in Int, NEW d \in Nat \ {0}
  PROVE  /\ Round2(n, d) \in Int
         /\ 2 * (d * Round2(n, d)) - 2 * n <= d /\ -d <= 2 * (d * Round2(n, d)) - 2 * n
<1>1. CASE n >= 0
  <2> DEFINE q == (2 * n + d) \div (2 * d)
  <2>0. 2 * n + d \in Int /\ 2 * d \in Nat \ {0}
    OBVIOUS
  <2>1. q \in Int /\ (2 * d) * q <= 2 * n + d /\ 2 * n + d < (2 * d) * q + 2 * d
    BY <2>0, DivisionBy
  <2>2. Round2(n, d) = q
    BY <1>1 DEF Round2
  <2> HIDE DEF q
  <2> DEFINE y == d * q
  <2>3. y \in Int /\ (2 * d) * q = 2 * y
    BY <2>1
  <2> HIDE DEF y
  <2>4. 2 * y - 2 * n <= d /\ -d <= 2 * y - 2 * n
    BY <2>1, <2>3
  <2> QED
    BY <2>1, <2>2, <2>4 DEF y
<1>2. CASE n < 0
  <2> DEFINE q == (d - 2 * n) \div (2 * d)
  <2>0. d - 2 * n \in Int /\ 2 * d \in Nat \ {0}
    OBVIOUS
  <2>1. q \in Int /\ (2 * d) * q <= d - 2 * n /\ d - 2 * n < (2 * d) * q + 2 * d
    BY <2>0, DivisionBy
  <2>2. Round2(n, d) = -q
    BY <1>2 DEF Round2
  <2> HIDE DEF q
  <2> DEFINE y == d * (-q)
  <2>3. y \in Int /\ (2 * d) * q = -(2 * y)
    BY <2>1
  <2> HIDE DEF y
  <2>4. 2 * y - 2 * n <= d /\ -d <= 2 * y - 2 * n
    BY <2>1, <2>3
  <2> QED
    BY <2>1, <2>2, <2>4 DEF y
<1> QED
  BY <1>1, <1>2

(* The same, over a denominator k times as large. *)
LEMMA RoundScaled ==
  ASSUME NEW n \in Int, NEW d \in Nat \ {0}, NEW k \in Nat \ {0}
  PROVE  /\ 2 * ((d * k) * Round2(n, d)) - 2 * (n * k) <= d * k
         /\ -(d * k) <= 2 * ((d * k) * Round2(n, d)) - 2 * (n * k)
<1> DEFINE q == Round2(n, d)
           x == 2 * (d * q) - 2 * n
<1>1. q \in Int /\ x \in Int /\ x <= d /\ -d <= x
  <2>1. q \in Int /\ 2 * (d * q) - 2 * n <= d /\ -d <= 2 * (d * q) - 2 * n
    BY RoundNear
  <2> HIDE DEF q
  <2>2. d * q \in Int
    BY <2>1
  <2> QED
    BY <2>1, <2>2
<1> HIDE DEF q
<1>2. k * x <= k * d /\ k * (-d) <= k * x
  <2> HIDE DEF x
  <2> QED
    BY <1>1, TimesLeq
<1>3. k * x = 2 * ((d * k) * q) - 2 * (n * k)
  <2>1. k * x = k * (2 * (d * q)) - k * (2 * n)
    BY <1>1
  <2>2. k * (2 * (d * q)) = 2 * ((d * k) * q)
    BY <1>1
  <2>3. k * (2 * n) = 2 * (n * k)
    OBVIOUS
  <2> QED
    BY <2>1, <2>2, <2>3
<1> QED
  BY <1>1, <1>2, <1>3 DEF q

(* Rounding does not reverse an order. *)
LEMMA RoundMonotone ==
  ASSUME NEW n \in Int, NEW m \in Int, n <= m, NEW d \in Nat \ {0}
  PROVE  Round2(n, d) <= Round2(m, d)
<1>1. ASSUME NEW a \in Int, NEW b \in Int, a <= b, NEW c \in Nat \ {0}
      PROVE  a \div c <= b \div c
  <2> DEFINE p == a \div c
             q == b \div c
  <2>1. p \in Int /\ q \in Int /\ c * p <= a /\ b < c * q + c
    BY Division
  <2> HIDE DEF p, q
  <2>2. ASSUME q + 1 <= p PROVE FALSE
    <3>1. c * (q + 1) <= c * p
      BY <2>1, <2>2, TimesLeq
    <3>2. c * (q + 1) = c * q + c
      BY <2>1
    <3> QED
      BY <1>1, <2>1, <3>1, <3>2
  <2> QED
    BY <2>1, <2>2 DEF p, q
<1>2. ASSUME NEW a \in Int, NEW b \in Int, a <= b PROVE a \div (2 * d) <= b \div (2 * d)
  BY <1>1, <1>2
<1>3. \A a \in Int : a \div (2 * d) \in Int
  BY Division
<1>4. CASE n >= 0
  BY <1>2, <1>4 DEF Round2
<1>5. CASE n < 0 /\ m >= 0
  <2>1. 0 \div (2 * d) = 0
    OBVIOUS
  <2>2. 0 <= (2 * m + d) \div (2 * d) /\ 0 <= (d - 2 * n) \div (2 * d)
    BY <1>2, <1>5, <2>1
  <2> QED
    BY <1>3, <1>5, <2>2 DEF Round2
<1>6. CASE m < 0
  <2>1. (d - 2 * m) \div (2 * d) <= (d - 2 * n) \div (2 * d)
    BY <1>2
  <2> QED
    BY <1>3, <1>6, <2>1 DEF Round2
<1> QED
  BY <1>4, <1>5, <1>6
-----------------------------------------------------------------------------
(* Sums *)

LEMMA HasLeast ==
  ASSUME NEW N \in SUBSET Nat, N # {} PROVE \E c \in N : \A d \in N : c <= d
<1> DEFINE R == OpToRel(<, Nat)
<1>1. IsWellFoundedOn(R, Nat)
  BY NatLessThanWellFounded
<1>2. \E c \in N : \A d \in N : <<d, c>> \notin R
  <2> HIDE DEF R
  <2> QED
    BY <1>1, WFMin
<1>3. \A c, d \in N : <<d, c>> \in R <=> d < c
  BY DEF OpToRel
<1> HIDE DEF R
<1>4. PICK c \in N : \A d \in N : ~(d < c)
  BY <1>2, <1>3
<1> QED
  BY <1>4

LEMMA Numbered == ASSUME NEW n \in Nat PROVE IsFiniteSet(1..n) /\ Cardinality(1..n) = n
<1>1. IsFiniteSet(1..n) /\ Cardinality(1..n) = IF 1 > n THEN 0 ELSE n - 1 + 1
  BY FS_Interval
<1> QED
  BY <1>1

(* What holds of a set when it holds of all its proper subsets holds of    *)
(* every finite set.                                                       *)
LEMMA SubsetInduction ==
  ASSUME NEW S, IsFiniteSet(S), NEW B,
         \A T \in SUBSET S : (\A U \in SUBSET T : U # T => U \in B) => T \in B
  PROVE  \A T \in SUBSET S : T \in B
<1> SUFFICES ASSUME NEW X \in SUBSET S, X \notin B PROVE FALSE
  OBVIOUS
<1> DEFINE N == {Cardinality(T) : T \in (SUBSET S) \ B}
<1>1. \A T \in SUBSET S : IsFiniteSet(T) /\ Cardinality(T) \in Nat
  BY FS_Subset, FS_CardinalityType
<1>2. N \in SUBSET Nat /\ N # {}
  BY <1>1
<1>3. PICK c \in N : \A d \in N : c <= d
  <2> HIDE DEF N
  <2> QED
    BY <1>2, HasLeast
<1>4. PICK T \in (SUBSET S) \ B : c = Cardinality(T)
  BY <1>3
<1>5. ASSUME NEW U \in SUBSET T, U # T PROVE U \in B
  <2>1. Cardinality(U) < Cardinality(T)
    BY <1>1, <1>4, <1>5, FS_Subset
  <2>2. U \in SUBSET S /\ Cardinality(U) \in Nat /\ Cardinality(T) \in Nat
    BY <1>1, <1>4
  <2> QED
    BY <1>3, <1>4, <2>1, <2>2
<1> QED
  BY <1>4, <1>5

(* What the fold of Folds computes: the sum over s, one element after the  *)
(* other in the order of Pick.                                             *)
Pick(s) == CHOOSE x \in s : TRUE
IsIter(iter, f, T) ==
  iter = [s \in SUBSET T |-> IF s = {} THEN 0 ELSE f[Pick(s)] + iter[s \ {Pick(s)}]]
Iter(f, T) == CHOOSE iter : IsIter(iter, f, T)

LEMMA SumIsIter ==
  ASSUME NEW f, NEW T PROVE SumFunctionOnSet(f, T) = Iter(f, T)[T]
  BY DEF SumFunctionOnSet, FoldFunctionOnSet, MapThenFoldSet, Iter, IsIter, Pick

LEMMA PickIn == ASSUME NEW s, s # {} PROVE Pick(s) \in s
  BY DEF Pick

LEMMA IterUnique ==
  ASSUME NEW f, NEW T, IsFiniteSet(T), NEW U \in SUBSET T, NEW g, IsIter(g, f, T),
         NEW h, IsIter(h, f, U)
  PROVE  g[U] = h[U]
<1> DEFINE B == {s \in SUBSET U : g[s] = h[s]}
<1>1. ASSUME NEW s \in SUBSET U, \A t \in SUBSET s : t # s => t \in B PROVE s \in B
  <2>1. CASE s = {}
    BY <2>1 DEF IsIter
  <2>2. CASE s # {}
    <3>1. Pick(s) \in s /\ s \ {Pick(s)} \in SUBSET s /\ s \ {Pick(s)} # s
      BY <2>2, PickIn
    <3>2. g[s \ {Pick(s)}] = h[s \ {Pick(s)}]
      BY <1>1, <3>1
    <3> QED
      BY <2>2, <3>2 DEF IsIter
  <2> QED
    BY <2>1, <2>2
<1>2. IsFiniteSet(U)
  BY FS_Subset
<1> HIDE DEF B
<1>3. U \in B
  BY <1>1, <1>2, SubsetInduction
<1> QED
  BY <1>3 DEF B

LEMMA IterExists ==
  ASSUME NEW f, NEW S, IsFiniteSet(S) PROVE \A T \in SUBSET S : IsIter(Iter(f, T), f, T)
<1> DEFINE B == {T \in SUBSET S : IsIter(Iter(f, T), f, T)}
<1>1. ASSUME NEW T \in SUBSET S, \A U \in SUBSET T : U # T => U \in B PROVE T \in B
  <2> DEFINE sum(U) == Iter(f, U)[U]
             g == [s \in SUBSET T |-> IF s = {} THEN 0
                                      ELSE f[Pick(s)] + sum(s \ {Pick(s)})]
  <2>1. ASSUME NEW U \in SUBSET T, U # T PROVE g[U] = sum(U)
    <3>1. IsIter(Iter(f, U), f, U)
      BY <1>1, <2>1
    <3>2. CASE U = {}
      BY <3>1, <3>2 DEF IsIter
    <3>3. CASE U # {}
      <4> DEFINE V == U \ {Pick(U)}
      <4>1. V \in SUBSET U /\ V # T
        BY <2>1
      <4>2. IsIter(Iter(f, V), f, V)
        BY <1>1, <4>1
      <4>3. Iter(f, U)[V] = Iter(f, V)[V]
        <5> IsFiniteSet(U)
          BY FS_Subset
        <5> HIDE DEF V
        <5> QED
          BY <3>1, <4>1, <4>2, IterUnique
      <4>4. sum(U) = f[Pick(U)] + Iter(f, U)[V]
        BY <3>1, <3>3 DEF IsIter
      <4> QED
        BY <3>3, <4>3, <4>4
    <3> QED
      BY <3>2, <3>3
  <2>2. ASSUME NEW s \in SUBSET T, s # {} PROVE g[s \ {Pick(s)}] = sum(s \ {Pick(s)})
    <3>1. s \ {Pick(s)} \in SUBSET T /\ s \ {Pick(s)} # T
      BY <2>2, PickIn
    <3> HIDE DEF g, sum
    <3> QED
      BY <2>1, <3>1
  <2>3. IsIter(g, f, T)
    <3>1. g = [s \in SUBSET T |-> IF s = {} THEN 0 ELSE f[Pick(s)] + g[s \ {Pick(s)}]]
      BY <2>2
    <3> QED
      BY <3>1 DEF IsIter
  <2> HIDE DEF g
  <2> QED
    BY <2>3 DEF Iter
<1> HIDE DEF B
<1>2. \A T \in SUBSET S : T \in B
  BY <1>1, SubsetInduction
<1> QED
  BY <1>2 DEF B

(* The sum over nothing, and over something. *)
LEMMA SumStep ==
  ASSUME NEW f, NEW S, IsFiniteSet(S)
  PROVE  SumFunctionOnSet(f, S) = IF S = {} THEN 0
           ELSE f[Pick(S)] + SumFunctionOnSet(f, S \ {Pick(S)})
<1> DEFINE U == S \ {Pick(S)}
<1>1. IsIter(Iter(f, S), f, S) /\ IsIter(Iter(f, U), f, U) /\ U \in SUBSET S
  BY IterExists
<1>2. Iter(f, S)[U] = Iter(f, U)[U]
  <2> HIDE DEF U
  <2> QED
    BY <1>1, IterUnique
<1> QED
  BY <1>1, <1>2, SumIsIter DEF IsIter

LEMMA SumIsInt ==
  ASSUME NEW f, NEW S, IsFiniteSet(S), \A x \in S : f[x] \in Int
  PROVE  \A T \in SUBSET S : SumFunctionOnSet(f, T) \in Int
<1> DEFINE B == {T \in SUBSET S : SumFunctionOnSet(f, T) \in Int}
<1>1. ASSUME NEW T \in SUBSET S, \A U \in SUBSET T : U # T => U \in B PROVE T \in B
  <2>1. IsFiniteSet(T)
    BY FS_Subset
  <2>2. CASE T = {}
    <3>1. SumFunctionOnSet(f, T) = 0
      BY <2>1, <2>2, SumStep
    <3> QED
      BY <3>1
  <2>3. CASE T # {}
    <3>1. Pick(T) \in T /\ T \ {Pick(T)} \in SUBSET T /\ T \ {Pick(T)} # T
      BY <2>3, PickIn
    <3>2. f[Pick(T)] \in Int /\ SumFunctionOnSet(f, T \ {Pick(T)}) \in Int
      BY <1>1, <3>1
    <3> QED
      BY <2>1, <2>3, <3>2, SumStep
  <2> QED
    BY <2>2, <2>3
<1> HIDE DEF B
<1>2. \A T \in SUBSET S : T \in B
  BY <1>1, SubsetInduction
<1> QED
  BY <1>2 DEF B

(* Any element may come first. *)
LEMMA SumSplit ==
  ASSUME NEW f, NEW S, IsFiniteSet(S), \A x \in S : f[x] \in Int
  PROVE  \A T \in SUBSET S : \A x \in T :
           SumFunctionOnSet(f, T) = f[x] + SumFunctionOnSet(f, T \ {x})
<1> DEFINE Sum(T) == SumFunctionOnSet(f, T)
           B == {T \in SUBSET S : \A x \in T : Sum(T) = f[x] + Sum(T \ {x})}
<1>0. \A T \in SUBSET S : IsFiniteSet(T) /\ Sum(T) \in Int
  BY FS_Subset, SumIsInt
<1>1. ASSUME NEW T \in SUBSET S, \A U \in SUBSET T : U # T => U \in B PROVE T \in B
  <2> SUFFICES ASSUME NEW x \in T PROVE Sum(T) = f[x] + Sum(T \ {x})
    OBVIOUS
  <2> DEFINE p == Pick(T)
             V == T \ {x, p}
  <2>1. p \in T
    BY PickIn
  <2>2. Sum(T) = f[p] + Sum(T \ {p})
    BY <1>0, SumStep
  <2>3. CASE x = p
    BY <2>2, <2>3
  <2>4. CASE x # p
    <3>1. /\ T \ {p} \in SUBSET T /\ T \ {p} # T /\ x \in T \ {p}
          /\ T \ {x} \in SUBSET T /\ T \ {x} # T /\ p \in T \ {x}
          /\ (T \ {p}) \ {x} = V /\ (T \ {x}) \ {p} = V
      BY <2>1, <2>4
    <3>2. Sum(T \ {p}) = f[x] + Sum(V) /\ Sum(T \ {x}) = f[p] + Sum(V)
      BY <1>1, <3>1
    <3>3. f[x] \in Int /\ f[p] \in Int /\ Sum(V) \in Int
      BY <1>0, <2>1
    <3> HIDE DEF Sum, p, V
    <3> QED
      BY <2>2, <3>2, <3>3
  <2> QED
    BY <2>3, <2>4
<1> HIDE DEF B
<1>2. \A T \in SUBSET S : T \in B
  BY <1>1, SubsetInduction
<1> QED
  BY <1>2 DEF B

(* Functions that are proportional up to d at every place have sums that   *)
(* are proportional up to d for every place.                               *)
LEMMA SumsNear ==
  ASSUME NEW f, NEW g, NEW S, IsFiniteSet(S), NEW k \in Int, NEW j \in Int,
         NEW d \in Nat,
         \A x \in S : /\ f[x] \in Int /\ g[x] \in Int
                      /\ k * f[x] - j * g[x] <= d /\ -d <= k * f[x] - j * g[x]
  PROVE  /\ k * SumFunctionOnSet(f, S) - j * SumFunctionOnSet(g, S) <= d * Cardinality(S)
         /\ -(d * Cardinality(S)) <= k * SumFunctionOnSet(f, S) - j * SumFunctionOnSet(g, S)
<1> DEFINE F(T) == SumFunctionOnSet(f, T)
           G(T) == SumFunctionOnSet(g, T)
           Near(T) == /\ k * F(T) - j * G(T) <= d * Cardinality(T)
                      /\ -(d * Cardinality(T)) <= k * F(T) - j * G(T)
           B == {T \in SUBSET S : Near(T)}
<1>0. \A T \in SUBSET S : /\ IsFiniteSet(T) /\ F(T) \in Int /\ G(T) \in Int
                          /\ Cardinality(T) \in Nat
  BY FS_Subset, FS_CardinalityType, SumIsInt
<1>1. ASSUME NEW T \in SUBSET S, \A U \in SUBSET T : U # T => U \in B PROVE T \in B
  <2>1. CASE T = {}
    <3>1. F(T) = 0 /\ G(T) = 0 /\ Cardinality(T) = 0
      BY <1>0, <2>1, SumStep, FS_EmptySet
    <3> QED
      BY <3>1
  <2>2. CASE T # {}
    <3> DEFINE p == Pick(T)
               V == T \ {p}
               c == Cardinality(V)
    <3>1. p \in T /\ V \in SUBSET T /\ V # T /\ V \in SUBSET S
      BY <2>2, PickIn
    <3>2. F(T) = f[p] + F(V) /\ G(T) = g[p] + G(V)
      BY <1>0, <2>2, SumStep
    <3>3. Cardinality(T) = c + 1 /\ c \in Nat
      BY <1>0, <3>1, FS_RemoveElement
    <3>4. Near(V)
      BY <1>1, <3>1
    <3>5. /\ f[p] \in Int /\ g[p] \in Int /\ F(V) \in Int /\ G(V) \in Int
          /\ k * f[p] - j * g[p] <= d /\ -d <= k * f[p] - j * g[p]
      BY <1>0, <3>1
    <3>6. /\ k * (f[p] + F(V)) = k * f[p] + k * F(V)
          /\ j * (g[p] + G(V)) = j * g[p] + j * G(V) /\ d * (c + 1) = d * c + d
          /\ k * f[p] \in Int /\ k * F(V) \in Int /\ d * c \in Int
          /\ j * g[p] \in Int /\ j * G(V) \in Int
      <4> HIDE DEF F, G, p, c
      <4> QED
        BY <3>3, <3>5
    <3>7. /\ k * F(V) - j * G(V) <= d * c /\ -(d * c) <= k * F(V) - j * G(V)
      BY <3>4
    <3>8. /\ k * F(T) = k * f[p] + k * F(V) /\ d * Cardinality(T) = d * c + d
          /\ j * G(T) = j * g[p] + j * G(V)
      BY <3>2, <3>3, <3>6
    <3> DEFINE a == k * f[p]
               b == k * F(V)
               u == j * g[p]
               v == j * G(V)
               e == d * c
    <3>9. Near(T)
      <4>1. /\ a \in Int /\ b \in Int /\ e \in Int /\ u \in Int /\ v \in Int
            /\ a - u <= d /\ -d <= a - u /\ b - v <= e /\ -e <= b - v
        BY <3>5, <3>6, <3>7
      <4>2. k * F(T) = a + b /\ d * Cardinality(T) = e + d /\ j * G(T) = u + v
        BY <3>8
      <4> HIDE DEF a, b, e, u, v, F, G, p, V
      <4> QED
        BY <4>1, <4>2
    <3> QED
      BY <3>9
  <2> QED
    BY <2>1, <2>2
<1> HIDE DEF B
<1>2. S \in B
  BY <1>1, SubsetInduction
<1> QED
  BY <1>2 DEF B
(* Differences add up to that of the ends.                                 *)
LEMMA SumTelescopes ==
  ASSUME NEW n \in Nat, NEW c, NEW f, \A i \in 1..(n + 1) : c[i] \in Int,
         \A i \in 1..n : f[i] = c[i + 1] - c[i]
  PROVE  SumFunctionOnSet(f, 1..n) = c[n + 1] - c[1]
<1> DEFINE N == {k \in 0..n : SumFunctionOnSet(f, 1..k) # c[k + 1] - c[1]}
<1>1. ASSUME N # {} PROVE FALSE
  <2>0. N \in SUBSET Nat
    OBVIOUS
  <2>1. PICK k \in N : \A i \in N : k <= i
    <3> HIDE DEF N
    <3> QED
      BY <1>1, <2>0, HasLeast
  <2>2. k \in 0..n /\ IsFiniteSet(1..k)
    BY Numbered
  <2>3. CASE k = 0
    <3>1. SumFunctionOnSet(f, {}) = 0
      BY SumStep, FS_EmptySet
    <3>2. 1..k = {} /\ c[1] \in Int
      BY <2>3
    <3> QED
      BY <2>3, <3>1, <3>2
  <2>4. CASE k # 0
    <3>1. k \in 1..n /\ k - 1 \in 0..n /\ (1..k) \ {k} = 1..(k - 1) /\ (k - 1) + 1 = k
      BY <2>2, <2>4
    <3>2. SumFunctionOnSet(f, 1..(k - 1)) = c[k] - c[1]
      BY <2>1, <2>2, <3>1
    <3>3. ASSUME NEW i \in 1..k PROVE f[i] \in Int
      <4>1. i \in 1..n /\ i \in 1..(n + 1) /\ i + 1 \in 1..(n + 1)
        BY <2>2
      <4>2. c[i] \in Int /\ c[i + 1] \in Int
        BY <4>1
      <4> QED
        BY <4>1, <4>2
    <3>4. SumFunctionOnSet(f, 1..k) = f[k] + SumFunctionOnSet(f, (1..k) \ {k})
      <4> DEFINE S == 1..k
      <4>1. S \in SUBSET S /\ k \in S
        BY <3>1
      <4>2. \A i \in S : f[i] \in Int
        BY <3>3
      <4>3. IsFiniteSet(S)
        BY <2>2
      <4> HIDE DEF S, N
      <4>4. SumFunctionOnSet(f, S) = f[k] + SumFunctionOnSet(f, S \ {k})
        BY <4>1, <4>2, <4>3, SumSplit
      <4> QED
        BY <4>4 DEF S
    <3>5. c[1] \in Int /\ c[k] \in Int /\ c[k + 1] \in Int /\ f[k] = c[k + 1] - c[k]
      BY <3>1
    <3>6. SumFunctionOnSet(f, 1..k) = f[k] + SumFunctionOnSet(f, 1..(k - 1))
      BY <3>1, <3>4
    <3>7. SumFunctionOnSet(f, 1..k) = c[k + 1] - c[1]
      <4> HIDE DEF N
      <4> QED
        BY <3>2, <3>5, <3>6
    <3> QED
      BY <2>1, <3>7
  <2> QED
    BY <2>3, <2>4
<1> QED
  BY <1>1

LEMMA TwelveTelescope ==
  ASSUME NEW c, NEW f, \A i \in 1..13 : c[i] \in Int,
         \A i \in 1..12 : f[i] = c[i + 1] - c[i]
  PROVE  SumFunctionOnSet(f, 1..12) = c[13] - c[1]
<1> DEFINE n == 12
<1>1. n \in Nat
  OBVIOUS
<1>2. n + 1 = 13
  OBVIOUS
<1>3. (\A i \in 1..(n + 1) : c[i] \in Int) /\ (\A i \in 1..n : f[i] = c[i + 1] - c[i])
  BY <1>2
<1> HIDE DEF n
<1>4. SumFunctionOnSet(f, 1..n) = c[n + 1] - c[1]
  BY <1>1, <1>3, SumTelescopes
<1> QED
  BY <1>2, <1>4 DEF n

-----------------------------------------------------------------------------
(* A bill *)

(* Roundings that differ from nothing by half a cent each. *)
LEMMA HalfCents ==
  ASSUME NEW D \in Nat \ {0}, NEW z \in Int, NEW h \in Nat,
         2 * (D * z) <= h * D, -(h * D) <= 2 * (D * z)
  PROVE  2 * z <= h /\ -h <= 2 * z
<1>1. ASSUME NEW a \in Int, NEW b \in Int, D * a <= D * b PROVE a <= b
  <2>1. ASSUME b + 1 <= a PROVE FALSE
    <3>1. D * (b + 1) <= D * a
      BY <2>1, TimesLeq
    <3>2. D * (b + 1) = D * b + D
      OBVIOUS
    <3>3. D * a \in Int /\ D * b \in Int
      OBVIOUS
    <3> QED
      BY <1>1, <3>1, <3>2, <3>3
  <2> QED
    BY <2>1
<1>2. /\ D * (2 * z) = 2 * (D * z) /\ D * h = h * D /\ D * (-h) = -(h * D)
      /\ 2 * z \in Int /\ h \in Int /\ -h \in Int
  OBVIOUS
<1>3. D * (2 * z) <= D * h /\ D * (-h) <= D * (2 * z)
  BY <1>2
<1> QED
  BY <1>1, <1>2, <1>3

Adds(b) == Abs(b.energy + b.power + b.tax + b.rental - b.surplus + b.iva - b.total) <= 3

LEMMA BillAdds ==
  ASSUME NEW e \in Int, NEW p \in Int, NEW s \in Int, NEW n \in Int, NEW rate \in Int,
         NEW unit \in Nat \ {0}
  PROVE  Adds(Bill(e, p, s, n, rate, unit))
<1> DEFINE c == unit * Ticks
           K == TaxDen * IvaDen
           D == (c * TaxDen) * IvaDen
           sub == Subtotal(e, p, s, n, unit)
           x == (e + p) * TaxNum
           r == Rental * n
           E == Round2(e, c)
           P == Round2(p, c)
           S == Round2(s, c)
           X == Round2(x, c * TaxDen)
           R == Round2(r, Ticks)
           V == Round2(sub * rate, D)
           T == Round2(sub * (IvaDen + rate), D)
<1>0. /\ Ticks \in Nat \ {0} /\ TaxDen \in Nat \ {0} /\ IvaDen \in Nat \ {0}
      /\ TaxNum \in Int /\ Rental \in Int
  BY RatesAssumption
<1>1. /\ c \in Nat \ {0} /\ K \in Nat \ {0} /\ c * TaxDen \in Nat \ {0} /\ D \in Nat \ {0}
      /\ unit * K \in Nat \ {0}
  <2>1. c \in Nat \ {0} /\ K \in Nat \ {0}
    BY <1>0, Positive
  <2>2. c * TaxDen \in Nat \ {0} /\ unit * K \in Nat \ {0}
    <3> HIDE DEF c, K
    <3> QED
      BY <1>0, <2>1, Positive
  <2>3. D \in Nat \ {0}
    <3> HIDE DEF c
    <3> QED
      BY <1>0, <2>2, Positive
  <2> QED
    BY <2>1, <2>2, <2>3
<1>2. sub \in Int /\ x \in Int /\ r \in Int
  BY <1>0 DEF Subtotal
<1>3. /\ E \in Int /\ P \in Int /\ S \in Int /\ X \in Int /\ R \in Int /\ V \in Int /\ T \in Int
  <2> HIDE DEF c, K, D, sub, x, r
  <2> QED
    BY <1>0, <1>1, <1>2, RoundNear
<1>4. c * K = D /\ Ticks * (unit * K) = D
  BY <1>0
(* Every line, over D. *)
<1>5. /\ 2 * (D * E) - 2 * (e * K) <= D /\ -D <= 2 * (D * E) - 2 * (e * K)
      /\ 2 * (D * P) - 2 * (p * K) <= D /\ -D <= 2 * (D * P) - 2 * (p * K)
      /\ 2 * (D * S) - 2 * (s * K) <= D /\ -D <= 2 * (D * S) - 2 * (s * K)
  <2> HIDE DEF c, K, D
  <2> QED
    BY <1>1, <1>4, RoundScaled
<1>6. 2 * (D * X) - 2 * (x * IvaDen) <= D /\ -D <= 2 * (D * X) - 2 * (x * IvaDen)
  <2> HIDE DEF c, x
  <2> QED
    BY <1>0, <1>1, <1>2, RoundScaled
<1>7. 2 * (D * R) - 2 * (r * (unit * K)) <= D /\ -D <= 2 * (D * R) - 2 * (r * (unit * K))
  <2> HIDE DEF K, D, r
  <2> QED
    BY <1>0, <1>1, <1>2, <1>4, RoundScaled
<1>8. /\ 2 * (D * V) - 2 * (sub * rate) <= D /\ -D <= 2 * (D * V) - 2 * (sub * rate)
      /\ 2 * (D * T) - 2 * (sub * (IvaDen + rate)) <= D
      /\ -D <= 2 * (D * T) - 2 * (sub * (IvaDen + rate))
  <2>1. sub * rate \in Int /\ sub * (IvaDen + rate) \in Int
    BY <1>0, <1>2
  <2> HIDE DEF D, sub
  <2> QED
    BY <1>1, <2>1, RoundNear
(* Exactly, the lines are the total. *)
<1>9. e * K + p * K + x * IvaDen + r * (unit * K) - s * K + sub * rate = sub * (IvaDen + rate)
  <2>1. sub * (IvaDen + rate) = sub * IvaDen + sub * rate
    BY <1>0, <1>2
  <2>2. sub * IvaDen = e * K + p * K + x * IvaDen + r * (unit * K) - s * K
    BY <1>0 DEF Subtotal
  <2>3. e * K + p * K + x * IvaDen + r * (unit * K) - s * K \in Int
    BY <1>0
  <2> HIDE DEF sub, K, x, r
  <2> QED
    BY <2>1, <2>2, <2>3, <1>0, <1>2
<1> DEFINE Z == E + P + X + R - S + V - T
<1>10. Z \in Int /\ D * Z = D * E + D * P + D * X + D * R - D * S + D * V - D * T
  <2> HIDE DEF D, E, P, S, X, R, V, T
  <2> QED
    BY <1>1, <1>3
<1>11. 2 * (D * Z) <= 7 * D /\ -(7 * D) <= 2 * (D * Z)
  <2>1. /\ D * E \in Int /\ D * P \in Int /\ D * X \in Int /\ D * R \in Int /\ D * S \in Int
        /\ D * V \in Int /\ D * T \in Int /\ e * K \in Int /\ p * K \in Int /\ s * K \in Int
        /\ x * IvaDen \in Int /\ r * (unit * K) \in Int /\ sub * rate \in Int
        /\ sub * (IvaDen + rate) \in Int
    <3> HIDE DEF K, D, sub, x, r, E, P, S, X, R, V, T
    <3> QED
      BY <1>0, <1>1, <1>2, <1>3
  <2> HIDE DEF K, D, sub, x, r, E, P, S, X, R, V, T, Z
  <2> DEFINE dE == D * E
             dP == D * P
             dX == D * X
             dR == D * R
             dS == D * S
             dV == D * V
             dT == D * T
             eK == e * K
             pK == p * K
             sK == s * K
             xI == x * IvaDen
             rK == r * (unit * K)
             sR == sub * rate
             sT == sub * (IvaDen + rate)
  <2>2. D * Z = dE + dP + dX + dR - dS + dV - dT
    BY <1>10
  <2>3. /\ 2 * dE - 2 * eK <= D /\ -D <= 2 * dE - 2 * eK
        /\ 2 * dP - 2 * pK <= D /\ -D <= 2 * dP - 2 * pK
        /\ 2 * dS - 2 * sK <= D /\ -D <= 2 * dS - 2 * sK
        /\ 2 * dX - 2 * xI <= D /\ -D <= 2 * dX - 2 * xI
        /\ 2 * dR - 2 * rK <= D /\ -D <= 2 * dR - 2 * rK
        /\ 2 * dV - 2 * sR <= D /\ -D <= 2 * dV - 2 * sR
        /\ 2 * dT - 2 * sT <= D /\ -D <= 2 * dT - 2 * sT
        /\ eK + pK + xI + rK - sK + sR = sT
    BY <1>5, <1>6, <1>7, <1>8, <1>9
  <2>4. /\ dE \in Int /\ dP \in Int /\ dX \in Int /\ dR \in Int /\ dS \in Int /\ dV \in Int
        /\ dT \in Int /\ eK \in Int /\ pK \in Int /\ sK \in Int /\ xI \in Int /\ rK \in Int
        /\ sR \in Int /\ sT \in Int /\ D \in Int
    BY <1>1, <2>1
  <2> HIDE DEF dE, dP, dX, dR, dS, dV, dT, eK, pK, sK, xI, rK, sR, sT
  <2> QED
    BY <2>2, <2>3, <2>4
<1>12. 2 * Z <= 7 /\ -7 <= 2 * Z
  <2> HIDE DEF D, Z
  <2> QED
    BY <1>1, <1>10, <1>11, HalfCents
<1>13. Abs(Z) <= 3
  <2> HIDE DEF Z
  <2> QED
    BY <1>10, <1>12 DEF Abs
<1>14. LET b == Bill(e, p, s, n, rate, unit)
       IN  b.energy + b.power + b.tax + b.rental - b.surplus + b.iva - b.total = Z
  BY DEF Bill
<1> QED
  BY <1>13, <1>14 DEF Adds
-----------------------------------------------------------------------------
(* The bill of a month *)

LEMMA OfferFields ==
  ASSUME NEW o \in Offer
  PROVE  /\ o.flat \in BOOLEAN /\ o.same \in BOOLEAN
         /\ o.peak \in Nat /\ o.mid \in Nat /\ o.valley \in Nat
         /\ o.powerPeak \in Nat /\ o.powerValley \in Nat /\ o.surplus \in Nat
  BY DEF Offer

LEMMA MonthFields ==
  ASSUME NEW m \in Month
  PROVE  /\ m.month \in Int /\ m.year \in Int
         /\ m.peak \in Int /\ m.mid \in Int /\ m.valley \in Int
         /\ m.powerPeak \in Int /\ m.powerValley \in Int /\ m.surplus \in Int /\ m.iva \in Int
  BY DEF Month

LEMMA TermsAreInts ==
  ASSUME NEW o \in Offer, NEW m \in Month, NEW n \in Int
  PROVE  /\ Energy(o, m) \in Int /\ Power(o, m, n) \in Int /\ m.surplus * o.surplus \in Int
         /\ Rate(m) \in Int
<1>1. Energy(o, m) \in Int
  BY OfferFields, MonthFields DEF Energy
<1>2. Power(o, m, n) \in Int
  <2>1. (IF o.same THEN (m.powerPeak + m.powerValley) * o.powerPeak
         ELSE m.powerPeak * o.powerPeak + m.powerValley * o.powerValley) \in Int
    BY OfferFields, MonthFields
  <2> QED
    BY <2>1 DEF Power
<1>3. m.surplus * o.surplus \in Int
  BY OfferFields, MonthFields
<1>4. Rate(m) \in Int
  BY RatesAssumption, MonthFields DEF Rate
<1> QED
  BY <1>1, <1>2, <1>3, <1>4

(* When the months of a year begin, and the next year.                     *)
LEMMA FirstDays ==
  ASSUME NEW y \in Int
  PROVE  /\ \A k \in 1..12 :
              BeforeFirst(y, k) = BeforeYear(y) + BeforeMonth[k] + IF k > 2 /\ Leap(y) THEN 1 ELSE 0
         /\ BeforeFirst(y, 13) = BeforeYear(y + 1)
         /\ BeforeYear(y) \in Int
         /\ BeforeYear(y + 1) - BeforeYear(y) = IF Leap(y) THEN 366 ELSE 365
         /\ \A k \in 1..12 : BeforeMonth[k] \in Int
<1>1. ASSUME NEW k \in 1..12
      PROVE  BeforeFirst(y, k) = BeforeYear(y) + BeforeMonth[k] + IF k > 2 /\ Leap(y) THEN 1 ELSE 0
  <2>1. (k - 1) \div 12 = 0 /\ (k - 1) % 12 = k - 1
    OBVIOUS
  <2>2. y + (k - 1) \div 12 = y /\ 1 + ((k - 1) % 12) = k
    BY <2>1
  <2> QED
    BY <2>2 DEF BeforeFirst
<1>2. BeforeFirst(y, 13) = BeforeYear(y + 1)
  <2>1. (13 - 1) \div 12 = 1 /\ 1 + ((13 - 1) % 12) = 1
    OBVIOUS
  <2>2. BeforeFirst(y, 13) = BeforeYear(y + 1) + BeforeMonth[1] + 0
    BY <2>1 DEF BeforeFirst
  <2>3. BeforeMonth[1] = 0 /\ BeforeYear(y + 1) \in Int
    BY DEF BeforeMonth, BeforeYear
  <2> QED
    BY <2>2, <2>3
<1>3. BeforeYear(y) \in Int /\ BeforeYear(y + 1) - BeforeYear(y) = IF Leap(y) THEN 366 ELSE 365
  BY DEF BeforeYear, Leap
<1>4. \A k \in 1..12 : BeforeMonth[k] \in Int
  BY DEF BeforeMonth
<1> QED
  BY <1>1, <1>2, <1>3, <1>4

(* The months of a year have from 28 to 31 days, December's end included.  *)
LEMMA DaysAre ==
  ASSUME NEW m \in Month, ValidMonth(m) PROVE DaysOf(m) \in 28..31
<1> DEFINE y == IF m.year = 0 THEN CurrentYear ELSE m.year
<1>1. y \in Int /\ m.month \in 1..12
  BY RatesAssumption, MonthFields DEF ValidMonth
<1>2. DaysOf(m) = BeforeFirst(y, m.month + 1) - BeforeFirst(y, m.month)
  BY DEF DaysOf
<1> HIDE DEF y
<1>3. /\ \A k \in 1..12 :
           BeforeFirst(y, k) = BeforeYear(y) + BeforeMonth[k] + IF k > 2 /\ Leap(y) THEN 1 ELSE 0
      /\ BeforeFirst(y, 13) = BeforeYear(y + 1)
  BY <1>1, FirstDays
<1>5. BeforeYear(y) \in Int /\ BeforeYear(y + 1) - BeforeYear(y) = IF Leap(y) THEN 366 ELSE 365
  BY <1>1, FirstDays
<1>6. CASE m.month = 12
  <2>1. BeforeMonth[12] = 334
    BY DEF BeforeMonth
  <2>2. DaysOf(m) = BeforeYear(y + 1) - (BeforeYear(y) + 334 + IF Leap(y) THEN 1 ELSE 0)
    BY <1>2, <1>3, <1>6, <2>1
  <2>3. BeforeYear(y + 1) \in Int
    BY <1>1 DEF BeforeYear
  <2> QED
    BY <1>5, <2>2, <2>3
<1>7. CASE m.month \in 1..11
  <2>1. \A k \in 1..12 : BeforeMonth[k] \in Int
    BY DEF BeforeMonth
  <2>2. \A k \in 1..11 : BeforeMonth[k + 1] - BeforeMonth[k] \in 28..31
                         /\ (k = 2 => BeforeMonth[k + 1] - BeforeMonth[k] = 28)
    <3>1. /\ BeforeMonth[1] = 0 /\ BeforeMonth[2] = 31 /\ BeforeMonth[3] = 59
          /\ BeforeMonth[4] = 90 /\ BeforeMonth[5] = 120 /\ BeforeMonth[6] = 151
          /\ BeforeMonth[7] = 181 /\ BeforeMonth[8] = 212 /\ BeforeMonth[9] = 243
          /\ BeforeMonth[10] = 273 /\ BeforeMonth[11] = 304 /\ BeforeMonth[12] = 334
      BY DEF BeforeMonth
    <3>2. ASSUME NEW k \in 1..11
          PROVE  k = 1 \/ k = 2 \/ k = 3 \/ k = 4 \/ k = 5 \/ k = 6 \/ k = 7 \/ k = 8
                 \/ k = 9 \/ k = 10 \/ k = 11
      OBVIOUS
    <3> QED
      BY <3>1, <3>2
  <2>3. /\ BeforeFirst(y, m.month)
             = BeforeYear(y) + BeforeMonth[m.month] + IF m.month > 2 /\ Leap(y) THEN 1 ELSE 0
        /\ BeforeFirst(y, m.month + 1)
             = BeforeYear(y) + BeforeMonth[m.month + 1] + IF m.month + 1 > 2 /\ Leap(y) THEN 1 ELSE 0
    BY <1>3, <1>7
  <2>4. BeforeMonth[m.month] \in Int /\ BeforeMonth[m.month + 1] \in Int
    BY <1>7, <2>1
  <2>5. /\ BeforeMonth[m.month + 1] - BeforeMonth[m.month] \in 28..31
        /\ m.month = 2 => BeforeMonth[m.month + 1] - BeforeMonth[m.month] = 28
    BY <1>7, <2>2
  <2> QED
    BY <1>2, <1>5, <1>7, <2>3, <2>4, <2>5
<1> QED
  BY <1>1, <1>6, <1>7

LEMMA TermsAdd ==
  ASSUME NEW o \in Offer, NEW m \in Month, ValidMonth(m), NEW n \in Int
  PROVE  LET b == MonthlyBill(o, m, n)
         IN  /\ b.terms.peakTerm \in Int /\ b.terms.midTerm \in Int /\ b.terms.valleyTerm \in Int
             /\ Abs(b.terms.peakTerm + b.terms.midTerm + b.terms.valleyTerm - b.bill.energy)
                  <= IF o.flat THEN 0 ELSE 2
<1> DEFINE b == MonthlyBill(o, m, n)
           total == m.peak + m.mid + m.valley
           E == Round2(Energy(o, m), Ticks)
<1>0. Ticks \in Nat \ {0} /\ Energy(o, m) \in Int
  BY RatesAssumption, TermsAreInts
<1>1. b.bill.energy = E /\ b.terms = PeriodTerms(o, m, E) /\ E \in Int
  <2>1. b.bill.energy = Round2(Energy(o, m), 1 * Ticks) /\ b.terms = PeriodTerms(o, m, b.bill.energy)
    BY DEF MonthlyBill, CalculateMonthly, Bill
  <2>2. 1 * Ticks = Ticks
    BY <1>0
  <2> QED
    BY <1>0, <2>1, <2>2, RoundNear
<1>2. CASE o.flat
  <2>1. total \in Nat
    BY MonthFields DEF ValidMonth
  <2>2. \A q \in Int : total # 0 => Round2(q, total) \in Int
    BY <2>1, RoundNear
  <2>3. m.peak * E \in Int /\ m.mid * E \in Int
    BY <1>1, MonthFields
  <2> DEFINE p == IF total = 0 THEN 0 ELSE Round2(m.peak * E, total)
             d == IF total = 0 THEN 0 ELSE Round2(m.mid * E, total)
  <2>4. p \in Int /\ d \in Int
    BY <2>2, <2>3
  <2>5. b.terms.peakTerm = p /\ b.terms.midTerm = d /\ b.terms.valleyTerm = E - p - d
    BY <1>1, <1>2 DEF PeriodTerms
  <2> HIDE DEF b, total, E, p, d
  <2>6. b.terms.peakTerm + b.terms.midTerm + b.terms.valleyTerm - b.bill.energy = 0
    BY <1>1, <2>4, <2>5
  <2>7. b.terms.peakTerm \in Int /\ b.terms.midTerm \in Int /\ b.terms.valleyTerm \in Int
    BY <1>1, <2>4, <2>5
  <2> QED
    BY <1>2, <2>6, <2>7 DEF Abs, b
<1>3. CASE ~o.flat
  <2> DEFINE x == m.peak * o.peak
             y == m.mid * o.mid
             z == m.valley * o.valley
             P == Round2(x, Ticks)
             D == Round2(y, Ticks)
             V == Round2(z, Ticks)
  <2>1. b.terms.peakTerm = P /\ b.terms.midTerm = D /\ b.terms.valleyTerm = V
    BY <1>1, <1>3 DEF PeriodTerms
  <2>2. Energy(o, m) = x + y + z /\ x \in Int /\ y \in Int /\ z \in Int
    BY <1>3, OfferFields, MonthFields DEF Energy
  <2> DEFINE tP == Ticks * P
             tD == Ticks * D
             tV == Ticks * V
             tE == Ticks * E
  <2>3. /\ P \in Int /\ D \in Int /\ V \in Int
        /\ 2 * tP - 2 * x <= Ticks /\ -Ticks <= 2 * tP - 2 * x
        /\ 2 * tD - 2 * y <= Ticks /\ -Ticks <= 2 * tD - 2 * y
        /\ 2 * tV - 2 * z <= Ticks /\ -Ticks <= 2 * tV - 2 * z
        /\ 2 * tE - 2 * (x + y + z) <= Ticks /\ -Ticks <= 2 * tE - 2 * (x + y + z)
    <3> HIDE DEF x, y, z
    <3> QED
      BY <1>0, <2>2, RoundNear
  <2> HIDE DEF b, total, E, P, D, V, x, y, z
  <2>4. /\ tP \in Int /\ tD \in Int /\ tV \in Int /\ tE \in Int
        /\ Ticks * (P + D + V - E) = tP + tD + tV - tE
    BY <1>0, <1>1, <2>3
  <2>5. /\ 2 * (Ticks * (P + D + V - E)) <= 4 * Ticks
        /\ -(4 * Ticks) <= 2 * (Ticks * (P + D + V - E))
    <3> HIDE DEF tP, tD, tV, tE
    <3> QED
      BY <1>0, <2>2, <2>3, <2>4
  <2>6. P + D + V - E \in Int
    BY <1>1, <2>3
  <2>7. 2 * (P + D + V - E) <= 4 /\ -4 <= 2 * (P + D + V - E)
    BY <1>0, <2>5, <2>6, HalfCents
  <2>8. Abs(P + D + V - E) <= 2
    BY <2>6, <2>7 DEF Abs
  <2>9. b.terms.peakTerm + b.terms.midTerm + b.terms.valleyTerm - b.bill.energy = P + D + V - E
    BY <1>1, <2>1
  <2>10. b.terms.peakTerm \in Int /\ b.terms.midTerm \in Int /\ b.terms.valleyTerm \in Int
    BY <2>1, <2>3
  <2> QED
    BY <1>3, <2>8, <2>9, <2>10 DEF b
<1> QED
  BY <1>2, <1>3, OfferFields
-----------------------------------------------------------------------------
(* Using more, and the same prices *)

LEMMA TotalGrows ==
  ASSUME NEW e \in Int, NEW f \in Int, e <= f, NEW p \in Int, NEW q \in Int, p <= q,
         NEW s \in Int, NEW t \in Int, t <= s, NEW n \in Int, NEW rate \in Nat
  PROVE  Bill(e, p, s, n, rate, 1).total <= Bill(f, q, t, n, rate, 1).total
<1> DEFINE a == e + p + Rental * n * 1 - s
           b == f + q + Rental * n * 1 - t
           D == 1 * Ticks * TaxDen * IvaDen
<1>0. Ticks \in Nat \ {0} /\ TaxDen \in Nat \ {0} /\ IvaDen \in Nat \ {0} /\ TaxNum \in Nat
      /\ Rental \in Nat
  BY RatesAssumption
<1>1. D \in Nat \ {0}
  <2>1. 1 * Ticks * TaxDen \in Nat \ {0}
    BY <1>0, Positive
  <2> QED
    BY <1>0, <2>1, Positive
<1>2. a \in Int /\ b \in Int /\ a <= b /\ e + p \in Int /\ f + q \in Int /\ e + p <= f + q
  <2>1. Rental * n * 1 \in Int
    BY <1>0
  <2> QED
    BY <2>1
<1> DEFINE x == Subtotal(e, p, s, n, 1)
           y == Subtotal(f, q, t, n, 1)
<1>3. x \in Int /\ y \in Int /\ x <= y
  <2>1. x = a * TaxDen + (e + p) * TaxNum /\ y = b * TaxDen + (f + q) * TaxNum
    BY DEF Subtotal
  <2>2. TaxDen * a <= TaxDen * b /\ TaxNum * (e + p) <= TaxNum * (f + q)
    <3> HIDE DEF a, b
    <3> QED
      BY <1>0, <1>2, TimesLeq
  <2> HIDE DEF a, b, x, y
  <2>3. /\ a * TaxDen = TaxDen * a /\ b * TaxDen = TaxDen * b
        /\ (e + p) * TaxNum = TaxNum * (e + p) /\ (f + q) * TaxNum = TaxNum * (f + q)
        /\ TaxDen * a \in Int /\ TaxDen * b \in Int
        /\ TaxNum * (e + p) \in Int /\ TaxNum * (f + q) \in Int
    BY <1>0, <1>2
  <2> QED
    BY <2>1, <2>2, <2>3
<1>4. x * (IvaDen + rate) \in Int /\ y * (IvaDen + rate) \in Int
      /\ x * (IvaDen + rate) <= y * (IvaDen + rate)
  <2> HIDE DEF x, y
  <2>1. IvaDen + rate \in Nat
    BY <1>0
  <2>2. (IvaDen + rate) * x <= (IvaDen + rate) * y
    BY <1>3, <2>1, TimesLeq
  <2>3. (IvaDen + rate) * x = x * (IvaDen + rate) /\ (IvaDen + rate) * y = y * (IvaDen + rate)
    BY <1>3, <2>1
  <2> QED
    BY <1>3, <2>1, <2>2, <2>3
<1>5. Round2(x * (IvaDen + rate), D) <= Round2(y * (IvaDen + rate), D)
  <2> HIDE DEF x, y, D
  <2> QED
    BY <1>1, <1>4, RoundMonotone
<1> QED
  BY <1>5 DEF Bill

(* What a month's terms are made of grows with what is used. *)
LEMMA UsageGrows ==
  ASSUME NEW o \in Offer, NEW m \in Month, NEW c \in Month, NEW n \in Nat,
         \A i \in 1..6 : Usage(m)[i] <= Usage(c)[i]
  PROVE  /\ Energy(o, m) <= Energy(o, c) /\ Power(o, m, n) <= Power(o, c, n)
         /\ c.surplus * o.surplus <= m.surplus * o.surplus
<1>0. /\ m.peak \in Int /\ m.mid \in Int /\ m.valley \in Int /\ m.surplus \in Int
      /\ m.powerPeak \in Int /\ m.powerValley \in Int
      /\ c.peak \in Int /\ c.mid \in Int /\ c.valley \in Int /\ c.surplus \in Int
      /\ c.powerPeak \in Int /\ c.powerValley \in Int
  BY MonthFields
<1>1. /\ m.peak <= c.peak /\ m.mid <= c.mid /\ m.valley <= c.valley
      /\ m.powerPeak <= c.powerPeak /\ m.powerValley <= c.powerValley /\ c.surplus <= m.surplus
  <2>1. /\ Usage(m)[1] <= Usage(c)[1] /\ Usage(m)[2] <= Usage(c)[2]
        /\ Usage(m)[3] <= Usage(c)[3] /\ Usage(m)[4] <= Usage(c)[4]
        /\ Usage(m)[5] <= Usage(c)[5] /\ Usage(m)[6] <= Usage(c)[6]
    OBVIOUS
  <2>2. -m.surplus <= -c.surplus
    BY <2>1 DEF Usage
  <2> QED
    BY <1>0, <2>1, <2>2 DEF Usage
<1>2. ASSUME NEW a \in Int, NEW b \in Int, a <= b, NEW k \in Nat
      PROVE  a * k \in Int /\ b * k \in Int /\ a * k <= b * k
  <2>1. k * a <= k * b /\ k * a = a * k /\ k * b = b * k
    BY <1>2, TimesLeq
  <2> QED
    BY <2>1
<1>3. /\ m.peak * o.peak \in Int /\ c.peak * o.peak \in Int
      /\ m.peak * o.peak <= c.peak * o.peak
      /\ m.mid * o.mid \in Int /\ c.mid * o.mid \in Int /\ m.mid * o.mid <= c.mid * o.mid
      /\ m.valley * o.valley \in Int /\ c.valley * o.valley \in Int
      /\ m.valley * o.valley <= c.valley * o.valley
  BY <1>0, <1>1, <1>2, OfferFields
<1>4. (m.peak + m.mid + m.valley) * o.peak <= (c.peak + c.mid + c.valley) * o.peak
  <2>1. m.peak + m.mid + m.valley <= c.peak + c.mid + c.valley
    BY <1>0, <1>1
  <2>2. m.peak + m.mid + m.valley \in Int /\ c.peak + c.mid + c.valley \in Int /\ o.peak \in Nat
    BY <1>0, OfferFields
  <2> QED
    BY <1>2, <2>1, <2>2
<1>5. Energy(o, m) <= Energy(o, c)
  <2>1. CASE o.flat
    BY <1>4, <2>1 DEF Energy
  <2>2. CASE ~o.flat
    <3>1. /\ Energy(o, m) = m.peak * o.peak + m.mid * o.mid + m.valley * o.valley
          /\ Energy(o, c) = c.peak * o.peak + c.mid * o.mid + c.valley * o.valley
      BY <2>2 DEF Energy
    <3> QED
      BY <1>3, <3>1
  <2> QED
    BY <2>1, <2>2
<1> DEFINE w(x) == IF o.same THEN (x.powerPeak + x.powerValley) * o.powerPeak
                   ELSE x.powerPeak * o.powerPeak + x.powerValley * o.powerValley
<1>6. w(m) \in Int /\ w(c) \in Int /\ w(m) <= w(c)
  <2>1. CASE o.same
    <3>1. m.powerPeak + m.powerValley <= c.powerPeak + c.powerValley
      BY <1>0, <1>1
    <3>2. m.powerPeak + m.powerValley \in Int /\ c.powerPeak + c.powerValley \in Int
          /\ o.powerPeak \in Nat
      BY <1>0, OfferFields
    <3>3. (m.powerPeak + m.powerValley) * o.powerPeak <= (c.powerPeak + c.powerValley) * o.powerPeak
          /\ (m.powerPeak + m.powerValley) * o.powerPeak \in Int
          /\ (c.powerPeak + c.powerValley) * o.powerPeak \in Int
      BY <1>2, <3>1, <3>2
    <3> QED
      BY <2>1, <3>3
  <2>2. CASE ~o.same
    <3>1. /\ m.powerPeak * o.powerPeak \in Int /\ c.powerPeak * o.powerPeak \in Int
          /\ m.powerPeak * o.powerPeak <= c.powerPeak * o.powerPeak
          /\ m.powerValley * o.powerValley \in Int /\ c.powerValley * o.powerValley \in Int
          /\ m.powerValley * o.powerValley <= c.powerValley * o.powerValley
      BY <1>0, <1>1, <1>2, OfferFields
    <3> QED
      BY <2>2, <3>1
  <2> QED
    BY <2>1, <2>2
<1>7. Power(o, m, n) <= Power(o, c, n)
  <2>1. Power(o, m, n) = n * w(m) /\ Power(o, c, n) = n * w(c)
    BY DEF Power
  <2> HIDE DEF w
  <2> QED
    BY <1>6, <2>1, TimesLeq
<1>8. c.surplus * o.surplus <= m.surplus * o.surplus
  BY <1>0, <1>1, <1>2, OfferFields
<1> QED
  BY <1>5, <1>7, <1>8

LEMMA MoreCostsMore ==
  ASSUME NEW o \in Offer, NEW m \in Month, NEW c \in Month, NEW n \in Nat,
         \A i \in 1..6 : Usage(m)[i] <= Usage(c)[i], Rate(m) = Rate(c)
  PROVE  CalculateMonthly(o, m, n).total <= CalculateMonthly(o, c, n).total
<1>1. Rate(m) \in Nat
  BY RatesAssumption, MonthFields DEF Rate
<1>2. /\ Energy(o, m) \in Int /\ Power(o, m, n) \in Int /\ m.surplus * o.surplus \in Int
      /\ Energy(o, c) \in Int /\ Power(o, c, n) \in Int /\ c.surplus * o.surplus \in Int
  BY TermsAreInts
<1>3. /\ Energy(o, m) <= Energy(o, c) /\ Power(o, m, n) <= Power(o, c, n)
      /\ c.surplus * o.surplus <= m.surplus * o.surplus
  BY UsageGrows
<1> DEFINE s == m.surplus * o.surplus
           t == c.surplus * o.surplus
           r == Rate(m)
<1>4. Bill(Energy(o, m), Power(o, m, n), s, n, r, 1).total
        <= Bill(Energy(o, c), Power(o, c, n), t, n, r, 1).total
  <2>1. /\ s \in Int /\ t \in Int /\ t <= s /\ r \in Nat /\ n \in Int
    BY <1>1, <1>2, <1>3
  <2> HIDE DEF s, t, r
  <2> QED
    BY <1>2, <1>3, <2>1, TotalGrows
<1> QED
  BY <1>4 DEF CalculateMonthly

(* What is charged at one price is charged alike as a whole and in parts.  *)
LEMMA SamePrices ==
  ASSUME NEW o \in Offer, NEW u \in Offer, Uniform(o), Uniform(u), o.peak = u.peak,
         o.powerPeak = u.powerPeak, o.surplus = u.surplus, NEW m \in Month, NEW n \in Int
  PROVE  CalculateMonthly(o, m, n) = CalculateMonthly(u, m, n)
<1>0. m.peak \in Int /\ m.mid \in Int /\ m.valley \in Int
      /\ m.powerPeak \in Int /\ m.powerValley \in Int
  BY MonthFields
<1>1. ASSUME NEW v \in Offer, Uniform(v)
      PROVE  /\ Energy(v, m) = (m.peak + m.mid + m.valley) * v.peak
             /\ Power(v, m, n) = n * ((m.powerPeak + m.powerValley) * v.powerPeak)
  <2>1. /\ v.mid = v.peak /\ v.valley = v.peak /\ v.powerValley = v.powerPeak
        /\ v.peak \in Int /\ v.powerPeak \in Int /\ v.flat \in BOOLEAN /\ v.same \in BOOLEAN
    BY <1>1, OfferFields DEF Uniform
  <2>2. m.peak * v.peak + m.mid * v.peak + m.valley * v.peak
          = (m.peak + m.mid + m.valley) * v.peak
    BY <1>0, <2>1
  <2>3. m.powerPeak * v.powerPeak + m.powerValley * v.powerPeak
          = (m.powerPeak + m.powerValley) * v.powerPeak
    BY <1>0, <2>1
  <2>4. Energy(v, m) = (m.peak + m.mid + m.valley) * v.peak
    BY <2>1, <2>2 DEF Energy
  <2>5. Power(v, m, n) = n * ((m.powerPeak + m.powerValley) * v.powerPeak)
    BY <2>1, <2>3 DEF Power
  <2> QED
    BY <2>4, <2>5
<1>2. Energy(o, m) = Energy(u, m) /\ Power(o, m, n) = Power(u, m, n)
  BY <1>1
<1> QED
  BY <1>2 DEF CalculateMonthly
-----------------------------------------------------------------------------
(* The inductive invariant *)

IsSeq(s) == s \in Seq({s[i] : i \in DOMAIN s})

(* The days filled in are those of the months validated so far, and all    *)
(* of them are before an offer is billed.                                  *)
RequestInv ==
  /\ pc \in {"idle", "validate", "bill"} /\ at \in Nat \ {0}
  /\ asked \in Seq(Month) /\ days \in Seq(Int) /\ offers \in Seq(Offer)
  /\ Len(days) <= Len(asked)
  /\ \A k \in 1..Len(days) : ValidMonth(asked[k]) /\ days[k] = DaysOf(asked[k])
  /\ pc = "idle" => at = 1 /\ days = <<>>
  /\ pc = "validate" => Len(days) = at - 1
  /\ pc = "bill" => Len(days) = Len(asked)

(* The bills so far are those of the offer whose turn it is, for the       *)
(* months in the order of the request.                                     *)
BillsInv ==
  /\ IsSeq(bills)
  /\ pc # "bill" => bills = <<>>
  /\ pc = "bill" => Len(bills) = at - 1 /\ Len(bills) <= Len(asked)
  /\ \A k \in 1..Len(bills) :
       bills[k] = MonthlyBill(offers[Len(results) + 1], asked[k], days[k])

(* The results are those of the offers before it, in the order of the      *)
(* list, each with the sum of its months.                                  *)
MonthTotals(months) == [k \in 1..Len(months) |-> months[k].bill.total]
ResultsInv ==
  /\ IsSeq(results)
  /\ pc # "bill" => results = <<>>
  /\ Len(results) <= Len(offers)
  /\ \A i \in 1..Len(results) :
       /\ results[i].offer = offers[i] /\ Len(results[i].months) = Len(asked)
       /\ IsSeq(results[i].months)
       /\ results[i].yearTotal = SumFunction(MonthTotals(results[i].months))
       /\ \A k \in 1..Len(asked) :
            results[i].months[k] = MonthlyBill(offers[i], asked[k], days[k])

(* Each answer is one offer's bill for the period. *)
AnswerInv ==
  \A i \in 1..Len(answer) : \E o \in Offer, r \in Period : answer[i] = Calculate(o, r)

BillingInv == RequestInv /\ BillsInv /\ ResultsInv /\ AnswerInv

LEMMA AppendIs ==
  ASSUME NEW S, NEW s \in Seq(S), NEW x \in S
  PROVE  /\ Append(s, x) \in Seq(S) /\ Len(s) \in Nat /\ Len(Append(s, x)) = Len(s) + 1
         /\ \A i \in 1..Len(s) : Append(s, x)[i] = s[i]
         /\ Append(s, x)[Len(s) + 1] = x
  OBVIOUS

LEMMA AppendIsSeq ==
  ASSUME NEW s, IsSeq(s), NEW x
  PROVE  /\ IsSeq(Append(s, x)) /\ Len(s) \in Nat /\ Len(Append(s, x)) = Len(s) + 1
         /\ \A i \in 1..Len(s) : Append(s, x)[i] = s[i]
         /\ Append(s, x)[Len(s) + 1] = x
<1> DEFINE S == {s[i] : i \in DOMAIN s}
           t == Append(s, x)
           T == {t[i] : i \in DOMAIN t}
<1>1. s \in Seq(S \cup {x})
  BY DEF IsSeq
<1>2. /\ t \in Seq(S \cup {x}) /\ Len(s) \in Nat /\ Len(t) = Len(s) + 1
      /\ \A i \in 1..Len(s) : t[i] = s[i]
      /\ t[Len(s) + 1] = x
  <2> HIDE DEF S
  <2> QED
    BY <1>1, AppendIs
<1> HIDE DEF t, S
<1>3. t \in Seq(T)
  BY <1>2
<1> QED
  BY <1>2, <1>3 DEF IsSeq, t

LEMMA EmptyIsSeq == IsSeq(<<>>) /\ Len(<<>>) = 0
  BY DEF IsSeq

-----------------------------------------------------------------------------
(* Every step preserves it *)

LEMMA BillingStart == Init => BillingInv
  BY EmptyIsSeq DEF Init, BillingInv, RequestInv, BillsInv, ResultsInv, AnswerInv

LEMMA Steps ==
  ASSUME [Next]_vars
  PROVE  \/ Simulate \/ SimulateAnnual \/ (ValidateMonth /\ ~Reply) \/ ListOffers
         \/ BillMonth \/ FinishOffer \/ Reply \/ UNCHANGED vars
  BY DEF Next, RefuseLength, AnswerAnnual, Fail, ValidateMonth

LEMMA RequestStep == RequestInv /\ [Next]_vars => RequestInv'
<1> SUFFICES ASSUME RequestInv, [Next]_vars PROVE RequestInv'
  OBVIOUS
<1> USE DEF RequestInv
<1>1. CASE Simulate
  BY <1>1 DEF Simulate
<1>2. CASE SimulateAnnual
  <2>1. asked' \in Seq(Month)
    BY <1>2, InputsAssumption DEF SimulateAnnual
  <2> QED
    BY <1>2, <2>1 DEF SimulateAnnual
<1>3. CASE ValidateMonth /\ ~Reply
  <2> DEFINE m == asked[at]
  <2>1. /\ pc = "validate" /\ at <= Len(asked) /\ ValidMonth(m)
        /\ days' = Append(days, DaysOf(m)) /\ at' = at + 1
        /\ UNCHANGED <<pc, asked, offers>>
    BY <1>3 DEF ValidateMonth
  <2>2. m \in Month
    BY <2>1
  <2>3. DaysOf(m) \in Int
    BY <2>1, <2>2, DaysAre
  <2> HIDE DEF m
  <2>4. /\ days' \in Seq(Int) /\ Len(days) \in Nat /\ Len(days') = Len(days) + 1
        /\ \A k \in 1..Len(days) : days'[k] = days[k]
        /\ days'[Len(days) + 1] = DaysOf(m)
    BY <2>1, <2>3, AppendIs
  <2>5. Len(days) + 1 = at
    BY <2>1, <2>4
  <2>6. \A k \in 1..Len(days') : ValidMonth(asked[k]) /\ days'[k] = DaysOf(asked[k])
    <3> TAKE k \in 1..Len(days')
    <3>1. CASE k = at
      BY <2>1, <2>4, <2>5, <3>1 DEF m
    <3>2. CASE k # at
      <4>1. k \in 1..Len(days)
        BY <2>4, <2>5, <3>2
      <4> QED
        BY <2>4, <4>1
    <3> QED
      BY <3>1, <3>2
  <2> QED
    BY <2>1, <2>4, <2>5, <2>6
<1>4. CASE ListOffers
  <2>1. offers' \in Seq(Offer)
    BY <1>4, InputsAssumption DEF ListOffers
  <2>2. Len(days) \in Nat /\ Len(asked) \in Nat
    OBVIOUS
  <2> QED
    BY <1>4, <2>1, <2>2 DEF ListOffers
<1>5. CASE BillMonth
  BY <1>5 DEF BillMonth
<1>6. CASE FinishOffer
  BY <1>6 DEF FinishOffer
<1>7. CASE Reply
  BY <1>7 DEF Reply
<1>8. CASE UNCHANGED vars
  BY <1>8 DEF vars
<1> QED
  BY <1>1, <1>2, <1>3, <1>4, <1>5, <1>6, <1>7, <1>8, Steps

LEMMA BillsStep == BillingInv /\ [Next]_vars => BillsInv'
<1> SUFFICES ASSUME BillingInv, [Next]_vars PROVE BillsInv'
  OBVIOUS
<1> USE DEF BillsInv, BillingInv
<1>1. CASE Simulate
  BY <1>1 DEF Simulate
<1>2. CASE SimulateAnnual
  BY <1>2, EmptyIsSeq DEF SimulateAnnual
<1>3. CASE ValidateMonth /\ ~Reply
  BY <1>3, EmptyIsSeq DEF ValidateMonth
<1>4. CASE ListOffers
  <2>1. bills' = <<>> /\ at' = 1
    BY <1>4 DEF ListOffers
  <2>2. Len(asked') \in Nat
    BY <1>4 DEF ListOffers, RequestInv
  <2> QED
    BY <2>1, <2>2, EmptyIsSeq
<1>5. CASE BillMonth
  <2> DEFINE b == MonthlyBill(offers[Len(results) + 1], asked[at], days[at])
  <2>1. /\ pc = "bill" /\ at <= Len(asked) /\ bills' = Append(bills, b) /\ at' = at + 1
        /\ UNCHANGED <<pc, asked, days, offers, results>>
    BY <1>5 DEF BillMonth
  <2> HIDE DEF b
  <2>2. /\ IsSeq(bills') /\ Len(bills) \in Nat /\ Len(bills') = Len(bills) + 1
        /\ \A i \in 1..Len(bills) : bills'[i] = bills[i]
        /\ bills'[Len(bills) + 1] = b
    BY <2>1, AppendIsSeq
  <2>3. Len(bills) + 1 = at /\ at \in Nat /\ Len(asked) \in Nat
    BY <2>1, <2>2 DEF RequestInv
  <2>4. \A k \in 1..Len(bills') :
          bills'[k] = MonthlyBill(offers[Len(results) + 1], asked[k], days[k])
    <3> TAKE k \in 1..Len(bills')
    <3>1. CASE k = at
      BY <2>2, <2>3, <3>1 DEF b
    <3>2. CASE k # at
      <4>1. k \in 1..Len(bills)
        BY <2>2, <2>3, <3>2
      <4> QED
        BY <2>2, <4>1
    <3> QED
      BY <3>1, <3>2
  <2> QED
    BY <2>1, <2>2, <2>3, <2>4
<1>6. CASE FinishOffer
  <2>1. bills' = <<>> /\ at' = 1 /\ Len(asked') \in Nat
    BY <1>6 DEF FinishOffer, RequestInv
  <2> QED
    BY <2>1, EmptyIsSeq
<1>7. CASE Reply
  <2>1. bills' = <<>> /\ pc' = "idle"
    BY <1>7 DEF Reply
  <2> QED
    BY <2>1, EmptyIsSeq
<1>8. CASE UNCHANGED vars
  BY <1>8 DEF vars
<1> QED
  BY <1>1, <1>2, <1>3, <1>4, <1>5, <1>6, <1>7, <1>8, Steps

LEMMA ResultsStep == BillingInv /\ [Next]_vars => ResultsInv'
<1> SUFFICES ASSUME BillingInv, [Next]_vars PROVE ResultsInv'
  OBVIOUS
<1> USE DEF ResultsInv, BillingInv
<1>1. CASE Simulate
  BY <1>1 DEF Simulate
<1>2. CASE results' = <<>> /\ Len(offers') \in Nat
  BY <1>2, EmptyIsSeq
<1>3. CASE SimulateAnnual \/ (ValidateMonth /\ ~Reply) \/ ListOffers
  <2>1. results' = <<>>
    BY <1>3 DEF SimulateAnnual, ValidateMonth, ListOffers
  <2>2. RequestInv'
    BY RequestStep
  <2> QED
    BY <1>2, <2>1, <2>2 DEF RequestInv
<1>4. CASE BillMonth
  BY <1>4 DEF BillMonth
<1>5. CASE FinishOffer
  <2> DEFINE o == offers[Len(results) + 1]
             t == SumFunction(MonthTotals(bills))
             r == [offer |-> o, months |-> bills, yearTotal |-> t]
  <2>1. /\ pc = "bill" /\ Len(results) < Len(offers) /\ at > Len(asked)
        /\ results' = Append(results, r) /\ UNCHANGED <<pc, asked, days, offers>>
    BY <1>5 DEF FinishOffer, MonthTotals
  <2>2. r.offer = o /\ r.months = bills /\ r.yearTotal = t
    OBVIOUS
  <2> HIDE DEF r
  <2>3. /\ IsSeq(results') /\ Len(results) \in Nat /\ Len(results') = Len(results) + 1
        /\ \A i \in 1..Len(results) : results'[i] = results[i]
        /\ results'[Len(results) + 1] = r
    BY <2>1, AppendIsSeq
  <2>4. Len(bills) = Len(asked)
    <3>1. at \in Nat /\ Len(asked) \in Nat /\ Len(bills) = at - 1 /\ Len(bills) <= Len(asked)
      BY <2>1 DEF RequestInv, BillsInv
    <3> QED
      BY <2>1, <3>1
  <2>5. \A k \in 1..Len(asked) : bills[k] = MonthlyBill(o, asked[k], days[k])
    BY <2>4 DEF BillsInv
  <2>6. Len(offers) \in Nat
    BY DEF RequestInv
  <2>7. ASSUME NEW i \in 1..Len(results')
        PROVE  /\ results'[i].offer = offers[i] /\ Len(results'[i].months) = Len(asked)
               /\ IsSeq(results'[i].months)
               /\ results'[i].yearTotal = SumFunction(MonthTotals(results'[i].months))
               /\ \A k \in 1..Len(asked) :
                    results'[i].months[k] = MonthlyBill(offers[i], asked[k], days[k])
    <3>1. CASE i = Len(results) + 1
      <4>1. IsSeq(bills)
        BY DEF BillsInv
      <4> QED
        BY <2>2, <2>3, <2>4, <2>5, <3>1, <4>1
    <3>2. CASE i # Len(results) + 1
      <4>1. i \in 1..Len(results)
        BY <2>3, <3>2
      <4> QED
        BY <2>3, <4>1
    <3> QED
      BY <3>1, <3>2
  <2> QED
    BY <2>1, <2>3, <2>6, <2>7
<1>6. CASE Reply
  BY <1>2, <1>6 DEF Reply
<1>7. CASE UNCHANGED vars
  BY <1>7 DEF vars
<1> QED
  BY <1>1, <1>3, <1>4, <1>5, <1>6, <1>7, Steps

LEMMA AnswerStep == BillingInv /\ [Next]_vars => AnswerInv'
<1> SUFFICES ASSUME BillingInv, [Next]_vars PROVE AnswerInv'
  OBVIOUS
<1> USE DEF AnswerInv, BillingInv
<1>1. CASE Simulate
  <2>1. PICK r \in Periods, os \in OfferLists :
          answer' = IF ValidPeriod(r)
                      THEN [i \in 1..Len(os) |-> Calculate(os[i], r)] ELSE <<>>
    BY <1>1 DEF Simulate
  <2>2. CASE ValidPeriod(r)
    <3>1. os \in Seq(Offer) /\ Len(os) \in Nat /\ r \in Period
      BY <2>1, InputsAssumption
    <3>2. answer' = [i \in 1..Len(os) |-> Calculate(os[i], r)]
      BY <2>1, <2>2
    <3>3. Len(answer') = Len(os)
      BY <3>1, <3>2
    <3>4. \A i \in 1..Len(os) : os[i] \in Offer
      BY <3>1
    <3> QED
      BY <3>1, <3>2, <3>3, <3>4
  <2>3. CASE ~ValidPeriod(r)
    BY <2>1, <2>3
  <2> QED
    BY <2>2, <2>3
<1>2. CASE answer' = <<>>
  BY <1>2
<1>3. CASE SimulateAnnual \/ Reply
  BY <1>2, <1>3 DEF SimulateAnnual, Reply
<1>4. CASE answer' = answer
  BY <1>4
<1>5. CASE (ValidateMonth /\ ~Reply) \/ ListOffers \/ BillMonth \/ FinishOffer \/ UNCHANGED vars
  BY <1>4, <1>5 DEF ValidateMonth, ListOffers, BillMonth, FinishOffer, vars
<1> QED
  BY <1>1, <1>3, <1>5, Steps

LEMMA BillingInvariant == Spec => []BillingInv
<1>1. BillingInv /\ [Next]_vars => BillingInv'
  BY RequestStep, BillsStep, ResultsStep, AnswerStep DEF BillingInv
<1> QED
  BY BillingStart, <1>1, PTL DEF Spec
-----------------------------------------------------------------------------
(* The theorems *)

LEMMA EffectivePrices ==
  ASSUME NEW o \in Offer
  PROVE  EffectiveEnergyPrice(o) \in Int /\ EffectivePowerPrice(o) \in Int
<1>1. /\ o.peak \in Nat /\ o.mid \in Nat /\ o.valley \in Nat
      /\ o.powerPeak \in Nat /\ o.powerValley \in Nat
  BY OfferFields
<1> QED
  BY <1>1 DEF EffectiveEnergyPrice, EffectivePowerPrice

LEMMA PeriodAdds ==
  ASSUME NEW o \in Offer, NEW r \in Period PROVE Adds(Calculate(o, r))
<1> DEFINE e == r.kWh * EffectiveEnergyPrice(o)
           p == r.power * EffectivePowerPrice(o) * r.days
           s == r.surplus * o.surplus * 6
           n == r.days
<1>1. r.kWh \in Int /\ r.power \in Int /\ r.surplus \in Int /\ n \in Int
  BY DEF Period
<1>2. o.surplus \in Int /\ EffectiveEnergyPrice(o) \in Int /\ EffectivePowerPrice(o) \in Int
  BY OfferFields, EffectivePrices
<1>3. e \in Int /\ p \in Int /\ s \in Int
  <2>1. ASSUME NEW a \in Int, NEW b \in Int PROVE a * b \in Int
    OBVIOUS
  <2> QED
    BY <1>1, <1>2, <2>1
<1>4. DefaultIva \in Int /\ 6 \in Nat \ {0}
  BY RatesAssumption
<1>5. Calculate(o, r) = Bill(e, p, s, n, DefaultIva, 6)
  BY DEF Calculate
<1> HIDE DEF e, p, s, n
<1>6. Adds(Bill(e, p, s, n, DefaultIva, 6))
  BY <1>1, <1>3, <1>4, BillAdds
<1> QED
  BY <1>5, <1>6

LEMMA MonthIsMonthlyBill ==
  ASSUME BillingInv, NEW r \in Billed
  PROVE  /\ r.offer \in Offer /\ Len(r.months) = Len(asked) /\ Len(r.months) \in Nat
         /\ r.yearTotal = SumFunction(MonthTotals(r.months))
         /\ \A k \in 1..Len(r.months) :
              /\ asked[k] \in Month /\ ValidMonth(asked[k])
              /\ days[k] = DaysOf(asked[k]) /\ days[k] \in 28..31
              /\ r.months[k] = MonthlyBill(r.offer, asked[k], days[k])
<1>1. PICK i \in 1..Len(results) : r = results[i]
  BY DEF Billed
<1>2. Len(results) \in Nat /\ Len(offers) \in Nat /\ Len(results) <= Len(offers)
  BY DEF BillingInv, RequestInv, ResultsInv, IsSeq
<1>3. i \in 1..Len(offers) /\ offers[i] \in Offer
  BY <1>2 DEF BillingInv, RequestInv
<1>4. /\ r.offer = offers[i] /\ Len(r.months) = Len(asked) /\ Len(asked) \in Nat
      /\ r.yearTotal = SumFunction(MonthTotals(r.months))
      /\ \A k \in 1..Len(asked) : r.months[k] = MonthlyBill(offers[i], asked[k], days[k])
  BY <1>1 DEF BillingInv, ResultsInv, RequestInv
<1>5. pc = "bill"
  <2>1. results # <<>>
    BY <1>1, EmptyIsSeq
  <2> QED
    BY <2>1 DEF BillingInv, ResultsInv
<1>6. \A k \in 1..Len(asked) :
         asked[k] \in Month /\ ValidMonth(asked[k]) /\ days[k] = DaysOf(asked[k])
  BY <1>5 DEF BillingInv, RequestInv
<1> QED
  BY <1>3, <1>4, <1>6, DaysAre

(* The lines of every bill, rounded one by one as round2 does in Calculate *)
(* and CalculateMonthly, add up to its total within three cents, and the   *)
(* terms of the periods to the energy term within two, whatever the rates, *)
(* the prices and the usage: seven roundings are three and a half cents at *)
(* most, and the sum counts whole cents.                                   *)
THEOREM LinesAddUp == Spec => []BillsAddUp
<1>1. BillingInv => BillsAddUp
  <2> SUFFICES ASSUME BillingInv PROVE BillsAddUp
    OBVIOUS
  <2>1. ASSUME NEW i \in 1..Len(answer) PROVE Adds(answer[i])
    <3>1. PICK o \in Offer, r \in Period : answer[i] = Calculate(o, r)
      BY DEF BillingInv, AnswerInv
    <3> QED
      BY <3>1, PeriodAdds
  <2>2. ASSUME NEW r \in Billed, NEW b \in Months(r)
        PROVE  /\ Adds(b.bill)
               /\ Abs(b.terms.peakTerm + b.terms.midTerm + b.terms.valleyTerm - b.bill.energy)
                    <= IF r.offer.flat THEN 0 ELSE 2
    <3>1. PICK k \in 1..Len(r.months) : b = r.months[k]
      BY DEF Months
    <3> DEFINE m == asked[k]
               n == days[k]
    <3>2. /\ m \in Month /\ ValidMonth(m) /\ n \in Int /\ r.offer \in Offer
          /\ b = MonthlyBill(r.offer, m, n)
      BY <3>1, MonthIsMonthlyBill
    <3> HIDE DEF m, n
    <3>3. b.bill = CalculateMonthly(r.offer, m, n)
      BY <3>2 DEF MonthlyBill
    <3> DEFINE e == Energy(r.offer, m)
               p == Power(r.offer, m, n)
               s == m.surplus * r.offer.surplus
    <3>4. e \in Int /\ p \in Int /\ s \in Int /\ Rate(m) \in Int
      BY <3>2, TermsAreInts
    <3>5. b.bill = Bill(e, p, s, n, Rate(m), 1)
      BY <3>3 DEF CalculateMonthly
    <3>6. Adds(Bill(e, p, s, n, Rate(m), 1))
      <4> HIDE DEF e, p, s
      <4> QED
        BY <3>2, <3>4, BillAdds
    <3>7. Adds(b.bill)
      BY <3>5, <3>6
    <3> QED
      BY <3>2, <3>7, TermsAdd
  <2>3. ASSUME NEW b \in BillsShown PROVE Adds(b)
    <3>1. (\E i \in 1..Len(answer) : b = answer[i])
          \/ \E r \in Billed : \E c \in Months(r) : b = c.bill
      BY DEF BillsShown
    <3> QED
      BY <2>1, <2>2, <3>1
  <2> QED
    BY <2>2, <2>3 DEF BillsAddUp, Adds
<1> QED
  BY BillingInvariant, <1>1, PTL

(* Offers that cost the same in every period have the same bills, whether  *)
(* CalculateMonthly takes its flat or its tiered branch, for the power or  *)
(* for the energy.                                                         *)
THEOREM BranchesAgree == Spec => []SamePricesSameBills
<1>1. BillingInv => SamePricesSameBills
  <2> SUFFICES ASSUME BillingInv, NEW r \in Billed, NEW q \in Billed,
                      Uniform(r.offer), Uniform(q.offer), r.offer.peak = q.offer.peak,
                      r.offer.powerPeak = q.offer.powerPeak,
                      r.offer.surplus = q.offer.surplus, NEW i \in 1..Len(r.months)
               PROVE  r.months[i].bill = q.months[i].bill
    BY DEF SamePricesSameBills
  <2>1. /\ r.offer \in Offer /\ q.offer \in Offer
        /\ asked[i] \in Month /\ days[i] \in Int
        /\ r.months[i] = MonthlyBill(r.offer, asked[i], days[i])
        /\ q.months[i] = MonthlyBill(q.offer, asked[i], days[i])
    BY MonthIsMonthlyBill
  <2>2. CalculateMonthly(r.offer, asked[i], days[i]) = CalculateMonthly(q.offer, asked[i], days[i])
    BY <2>1, SamePrices
  <2> QED
    BY <2>1, <2>2 DEF MonthlyBill
<1> QED
  BY BillingInvariant, <1>1, PTL

(* The total CalculateMonthly returns never goes down when some of what it *)
(* charges for goes up: no branch leaves a period out, nothing is charged  *)
(* with the wrong sign, and round2 reverses no order.                      *)
THEOREM TotalsGrow == Spec => []UsingMoreCostsMore
<1>1. BillingInv => UsingMoreCostsMore
  <2> SUFFICES ASSUME BillingInv, NEW r \in Billed, NEW b \in Months(r), NEW c \in Months(r),
                      b.days = c.days, Rate(b.input) = Rate(c.input),
                      \A i \in 1..6 : Usage(b.input)[i] <= Usage(c.input)[i]
               PROVE  b.bill.total <= c.bill.total
    BY DEF UsingMoreCostsMore
  <2>1. ASSUME NEW x \in Months(r)
        PROVE  /\ r.offer \in Offer /\ x.input \in Month /\ x.days \in Nat
               /\ x.bill = CalculateMonthly(r.offer, x.input, x.days)
    <3>1. PICK k \in 1..Len(r.months) : x = r.months[k]
      BY DEF Months
    <3>2. /\ r.offer \in Offer /\ asked[k] \in Month /\ days[k] \in Nat
          /\ x = MonthlyBill(r.offer, asked[k], days[k])
      BY <3>1, MonthIsMonthlyBill
    <3> QED
      BY <3>2 DEF MonthlyBill
  <2> QED
    BY <2>1, MoreCostsMore
<1> QED
  BY BillingInvariant, <1>1, PTL

(* A year total is within half a cent for every month of the exact cost of *)
(* the year.                                                               *)
LEMMA YearNear ==
  ASSUME BillingInv, NEW r \in Billed
  PROVE  LET D == Ticks * TaxDen * IvaDen
         IN  /\ r.yearTotal \in Int /\ ExactCost(r) \in Int
             /\ (2 * D) * r.yearTotal - 2 * ExactCost(r) <= D * Len(asked)
             /\ -(D * Len(asked)) <= (2 * D) * r.yearTotal - 2 * ExactCost(r)
<1> DEFINE D == Ticks * TaxDen * IvaDen
           S == 1..Len(r.months)
           Exact(b) == Subtotal(Energy(r.offer, b.input), Power(r.offer, b.input, b.days),
                                b.input.surplus * r.offer.surplus, b.days, 1)
                       * (IvaDen + Rate(b.input))
           f == MonthTotals(r.months)
           g == [k \in S |-> Exact(r.months[k])]
<1>1. /\ r.offer \in Offer /\ Len(r.months) = Len(asked) /\ Len(r.months) \in Nat
      /\ r.yearTotal = SumFunction(f)
      /\ \A k \in S : /\ asked[k] \in Month /\ ValidMonth(asked[k]) /\ days[k] \in 28..31
                      /\ r.months[k] = MonthlyBill(r.offer, asked[k], days[k])
  BY MonthIsMonthlyBill
<1>2. D \in Nat \ {0}
  <2>1. Ticks \in Nat \ {0} /\ TaxDen \in Nat \ {0} /\ IvaDen \in Nat \ {0}
    BY RatesAssumption
  <2>2. Ticks * TaxDen \in Nat \ {0}
    BY <2>1, Positive
  <2> QED
    BY <2>1, <2>2, Positive
<1>3. ASSUME NEW k \in S
      PROVE  /\ f[k] \in Int /\ g[k] \in Int
             /\ (2 * D) * f[k] - 2 * g[k] <= D /\ -D <= (2 * D) * f[k] - 2 * g[k]
  <2> DEFINE m == asked[k]
             n == days[k]
             e == Energy(r.offer, m)
             p == Power(r.offer, m, n)
             s == m.surplus * r.offer.surplus
             x == Subtotal(e, p, s, n, 1) * (IvaDen + Rate(m))
  <2>1. m \in Month /\ n \in Int /\ r.months[k] = MonthlyBill(r.offer, m, n)
    BY <1>1
  <2>2. x \in Int
    <3>1. e \in Int /\ p \in Int /\ s \in Int /\ Rate(m) \in Int
      BY <1>1, <2>1, TermsAreInts
    <3>2. TaxDen \in Int /\ IvaDen \in Int /\ TaxNum \in Int /\ Rental \in Int
      BY RatesAssumption
    <3> HIDE DEF e, p, s, m, n
    <3>3. Subtotal(e, p, s, n, 1) \in Int
      BY <2>1, <3>1, <3>2 DEF Subtotal
    <3> QED
      BY <3>1, <3>2, <3>3
  <2>3. g[k] = x
    BY <2>1 DEF MonthlyBill
  <2>4. f[k] = Round2(x, D)
    <3>1. f[k] = CalculateMonthly(r.offer, m, n).total
      BY <2>1 DEF MonthTotals, MonthlyBill
    <3>2. f[k] = Round2(x, 1 * Ticks * TaxDen * IvaDen)
      BY <3>1 DEF CalculateMonthly, Bill
    <3>3. 1 * Ticks = Ticks
      BY RatesAssumption
    <3> QED
      BY <3>2, <3>3
  <2> HIDE DEF x, D, g, f
  <2> DEFINE y == Round2(x, D)
  <2>5. y \in Int /\ 2 * (D * y) - 2 * x <= D /\ -D <= 2 * (D * y) - 2 * x
    BY <1>2, <2>2, RoundNear
  <2>6. (2 * D) * y = 2 * (D * y)
    <3> HIDE DEF y
    <3> QED
      BY <1>2, <2>5
  <2> HIDE DEF y
  <2>7. f[k] = y
    BY <2>4 DEF y
  <2> QED
    BY <2>2, <2>3, <2>5, <2>6, <2>7
<1>4. IsFiniteSet(S) /\ Cardinality(S) = Len(asked)
  BY <1>1, Numbered
<1>5. r.yearTotal = SumFunctionOnSet(f, S) /\ ExactCost(r) = SumFunctionOnSet(g, S)
  <2>1. DOMAIN f = S /\ DOMAIN g = S
    BY DEF MonthTotals
  <2>2. ExactCost(r) = SumFunction(g)
    BY DEF ExactCost
  <2> HIDE DEF f, g
  <2> QED
    BY <1>1, <2>1, <2>2 DEF SumFunction
<1> HIDE DEF f, g, S, D
<1>6. 2 * D \in Int /\ D \in Nat /\ 2 \in Int
  BY <1>2
<1>7. SumFunctionOnSet(f, S) \in Int /\ SumFunctionOnSet(g, S) \in Int
  BY <1>3, <1>4, SumIsInt
<1>8. /\ (2 * D) * SumFunctionOnSet(f, S) - 2 * SumFunctionOnSet(g, S) <= D * Cardinality(S)
      /\ -(D * Cardinality(S)) <= (2 * D) * SumFunctionOnSet(f, S) - 2 * SumFunctionOnSet(g, S)
  <2> DEFINE k == 2 * D
  <2>1. k \in Int
    BY <1>6
  <2>2. \A x \in S : /\ f[x] \in Int /\ g[x] \in Int
                     /\ k * f[x] - 2 * g[x] <= D /\ -D <= k * f[x] - 2 * g[x]
    BY <1>3
  <2> HIDE DEF k
  <2>3. /\ k * SumFunctionOnSet(f, S) - 2 * SumFunctionOnSet(g, S) <= D * Cardinality(S)
        /\ -(D * Cardinality(S)) <= k * SumFunctionOnSet(f, S) - 2 * SumFunctionOnSet(g, S)
    BY <1>4, <1>6, <2>1, <2>2, SumsNear
  <2> QED
    BY <2>3 DEF k
<1> QED
  BY <1>4, <1>5, <1>7, <1>8 DEF D

(* Rounding the months does not reverse the offers: the year total that    *)
(* SimulateAnnual adds up from the rounded bills is within half a cent a   *)
(* month of what the year costs exactly, whatever the rates and prices, so *)
(* of two offers a cent a month apart the dearer never has the lesser.     *)
THEOREM RankingKeepsOrder == Spec => []RankingHonest
<1>1. BillingInv => RankingHonest
  <2> DEFINE D == Ticks * TaxDen * IvaDen
             n == Len(asked)
  <2> SUFFICES ASSUME BillingInv, NEW r \in Billed, NEW q \in Billed,
                      ExactCost(r) + n * Ticks * TaxDen * IvaDen <= ExactCost(q)
               PROVE  r.yearTotal <= q.yearTotal
    BY DEF RankingHonest
  <2>1. n \in Nat /\ D \in Nat \ {0}
    <3>1. Ticks \in Nat \ {0} /\ TaxDen \in Nat \ {0} /\ IvaDen \in Nat \ {0}
      BY RatesAssumption
    <3>2. Ticks * TaxDen \in Nat \ {0}
      BY <3>1, Positive
    <3> QED
      BY <3>1, <3>2, Positive DEF BillingInv, RequestInv
  <2> DEFINE x == ExactCost(r)
             y == ExactCost(q)
             a == r.yearTotal
             b == q.yearTotal
  <2>2. /\ a \in Int /\ b \in Int /\ x \in Int /\ y \in Int
        /\ (2 * D) * a - 2 * x <= D * n /\ -(D * n) <= (2 * D) * b - 2 * y
    BY YearNear
  <2>3. n * Ticks * TaxDen * IvaDen = D * n
    BY <2>1, RatesAssumption
  <2>4. x + D * n <= y
    BY <2>3
  <2> HIDE DEF x, y, a, b, n, D
  <2>5. (2 * D) * a \in Int /\ (2 * D) * b \in Int /\ D * n \in Int
        /\ (2 * D) * (b + 1) = (2 * D) * b + 2 * D
    BY <2>1, <2>2
  <2>6. (2 * D) * a <= (2 * D) * b
    BY <2>1, <2>2, <2>4, <2>5
  <2>7. ASSUME b + 1 <= a PROVE FALSE
    <3>1. (2 * D) * (b + 1) <= (2 * D) * a
      BY <2>1, <2>2, <2>7, TimesLeq
    <3> QED
      BY <2>1, <2>5, <2>6, <3>1
  <2>8. a <= b
    BY <2>2, <2>7
  <2> QED
    BY <2>8 DEF a, b
<1> QED
  BY BillingInvariant, <1>1, PTL

(* Twelve months of one year are billed for 365 days, or 366 in a leap     *)
(* year: the day before the first of the next month, as SimulateAnnual     *)
(* finds it, loses none, at the end of February and of December neither.   *)
THEOREM YearsAreWhole == Spec => []WholeYear
<1>1. BillingInv => WholeYear
  <2> SUFFICES ASSUME BillingInv, NEW r \in Billed, Len(asked) = 12, NEW z, z = asked[1].year,
                      \A i \in 1..12 : asked[i].month = i /\ asked[i].year = z
               PROVE  SumFunction([i \in 1..12 |-> r.months[i].days])
                        = IF Leap(IF z = 0 THEN CurrentYear ELSE z) THEN 366 ELSE 365
    BY DEF WholeYear
  <2> DEFINE y == IF z = 0 THEN CurrentYear ELSE z
             f == [i \in 1..12 |-> r.months[i].days]
             c == [i \in 1..13 |-> BeforeFirst(y, i)]
  <2>1. \A k \in 1..12 : /\ asked[k] \in Month /\ days[k] = DaysOf(asked[k])
                         /\ r.months[k] = MonthlyBill(r.offer, asked[k], days[k])
    <3>1. Len(r.months) = 12
      BY MonthIsMonthlyBill
    <3> QED
      BY <3>1, MonthIsMonthlyBill
  <2>2. y \in Int
    <3>1. asked[1] \in Month
      BY <2>1
    <3> QED
      BY <3>1, RatesAssumption, MonthFields
  <2>3. ASSUME NEW i \in 1..12 PROVE f[i] = c[i + 1] - c[i]
    <3>1. f[i] = DaysOf(asked[i])
      BY <2>1 DEF MonthlyBill
    <3>2. DaysOf(asked[i]) = BeforeFirst(y, i + 1) - BeforeFirst(y, i)
      BY DEF DaysOf
    <3>3. i + 1 \in 1..13 /\ i \in 1..13
      OBVIOUS
    <3> QED
      BY <3>1, <3>2, <3>3
  <2> HIDE DEF y
  <2>4. /\ \A i \in 1..13 : c[i] \in Int
        /\ c[13] - c[1] = IF Leap(y) THEN 366 ELSE 365
    <3>1. /\ \A k \in 1..12 :
               BeforeFirst(y, k) = BeforeYear(y) + BeforeMonth[k] + IF k > 2 /\ Leap(y) THEN 1 ELSE 0
          /\ BeforeFirst(y, 13) = BeforeYear(y + 1)
          /\ BeforeYear(y) \in Int
          /\ BeforeYear(y + 1) - BeforeYear(y) = IF Leap(y) THEN 366 ELSE 365
          /\ \A k \in 1..12 : BeforeMonth[k] \in Int
      BY <2>2, FirstDays
    <3>2. BeforeYear(y + 1) \in Int
      BY <2>2, FirstDays
    <3>3. BeforeMonth[1] = 0
      BY DEF BeforeMonth
    <3>4. \A i \in 1..12 : c[i] = BeforeFirst(y, i) /\ c[i] \in Int
      BY <3>1
    <3>5. c[13] = BeforeYear(y + 1) /\ c[1] = BeforeYear(y)
      BY <3>1, <3>3
    <3>6. \A i \in 1..13 : i \in 1..12 \/ i = 13
      OBVIOUS
    <3> HIDE DEF c
    <3> QED
      BY <3>1, <3>2, <3>4, <3>5, <3>6
  <2>5. SumFunction(f) = SumFunctionOnSet(f, 1..12)
    BY DEF SumFunction
  <2>6. SumFunctionOnSet(f, 1..12) = c[13] - c[1]
    <3> HIDE DEF f, c
    <3> QED
      BY <2>3, <2>4, TwelveTelescope
  <2> QED
    BY <2>4, <2>5, <2>6 DEF y
<1> QED
  BY BillingInvariant, <1>1, PTL

-----------------------------------------------------------------------------
(* The receipt of a month *)

LEMMA SumNext ==
  ASSUME NEW n \in Nat, NEW f, \A i \in 1..(n + 1) : f[i] \in Int
  PROVE  SumFunctionOnSet(f, 1..(n + 1)) = SumFunctionOnSet(f, 1..n) + f[n + 1]
<1> DEFINE S == 1..(n + 1)
<1>1. IsFiniteSet(S) /\ S \in SUBSET S /\ n + 1 \in S /\ S \ {n + 1} = 1..n
  BY Numbered
<1>2. \A i \in S : f[i] \in Int
  OBVIOUS
<1> HIDE DEF S
<1>3. SumFunctionOnSet(f, S) = f[n + 1] + SumFunctionOnSet(f, S \ {n + 1})
  BY <1>1, <1>2, SumSplit
<1>4. SumFunctionOnSet(f, S \ {n + 1}) \in Int /\ f[n + 1] \in Int
  BY <1>1, <1>2, SumIsInt
<1>5. SumFunctionOnSet(f, S) = SumFunctionOnSet(f, 1..n) + f[n + 1]
  <2>1. f[n + 1] + SumFunctionOnSet(f, S \ {n + 1}) = SumFunctionOnSet(f, S \ {n + 1}) + f[n + 1]
    BY <1>4
  <2>2. S \ {n + 1} = 1..n
    BY <1>1
  <2> QED
    BY <1>3, <2>1, <2>2
<1> QED
  BY <1>5 DEF S

LEMMA SumUpToThree ==
  ASSUME NEW f
  PROVE  /\ f[1] \in Int => SumFunctionOnSet(f, 1..1) = f[1]
         /\ f[1] \in Int /\ f[2] \in Int => SumFunctionOnSet(f, 1..2) = f[1] + f[2]
         /\ f[1] \in Int /\ f[2] \in Int /\ f[3] \in Int
              => SumFunctionOnSet(f, 1..3) = f[1] + f[2] + f[3]
<1> DEFINE Sum(n) == SumFunctionOnSet(f, 1..n)
<1>0. Sum(0) = 0
  <2>1. SumFunctionOnSet(f, {}) = 0
    BY SumStep, FS_EmptySet
  <2>2. 1..0 = {}
    OBVIOUS
  <2> QED
    BY <2>1, <2>2
<1>1. \A n \in Nat : (\A i \in 1..(n + 1) : f[i] \in Int) => Sum(n + 1) = Sum(n) + f[n + 1]
  BY SumNext
<1>2. (\A i \in 1..1 : f[i] \in Int) => Sum(1) = Sum(0) + f[1]
  BY <1>1, 0 + 1 = 1
<1>3. (\A i \in 1..2 : f[i] \in Int) => Sum(2) = Sum(1) + f[2]
  BY <1>1, 1 + 1 = 2
<1>4. (\A i \in 1..3 : f[i] \in Int) => Sum(3) = Sum(2) + f[3]
  BY <1>1, 2 + 1 = 3
<1>5. ASSUME f[1] \in Int PROVE Sum(1) = f[1]
  <2>1. \A i \in 1..1 : f[i] \in Int
    BY <1>5
  <2> HIDE DEF Sum
  <2> QED
    BY <1>0, <1>2, <1>5, <2>1
<1>6. ASSUME f[1] \in Int, f[2] \in Int PROVE Sum(2) = f[1] + f[2]
  <2>1. \A i \in 1..2 : f[i] \in Int
    <3> TAKE i \in 1..2
    <3>1. i = 1 \/ i = 2
      OBVIOUS
    <3> QED
      BY <1>6, <3>1
  <2> HIDE DEF Sum
  <2> QED
    BY <1>3, <1>5, <1>6, <2>1
<1>7. ASSUME f[1] \in Int, f[2] \in Int, f[3] \in Int PROVE Sum(3) = f[1] + f[2] + f[3]
  <2>1. \A i \in 1..3 : f[i] \in Int
    <3> TAKE i \in 1..3
    <3>1. i = 1 \/ i = 2 \/ i = 3
      OBVIOUS
    <3> QED
      BY <1>7, <3>1
  <2> HIDE DEF Sum
  <2> QED
    BY <1>4, <1>6, <1>7, <2>1
<1> QED
  BY <1>5, <1>6, <1>7

RowTrue(row) == Abs(row.quantity * row.price - row.value * Ticks) <= 2 * Ticks
SectionTrue(s) ==
  /\ \A k \in DOMAIN s.rows : RowTrue(s.rows[k])
  /\ Abs(SumFunction([k \in DOMAIN s.rows |-> s.rows[k].value]) - s.total) <= Len(s.rows) - 1

LEMMA OneRow ==
  ASSUME NEW x, RowTrue(x), NEW t \in Int, x.value = t
  PROVE  SectionTrue(SectionOf(t, <<x>>))
<1> DEFINE rows == <<x>>
           f == [k \in DOMAIN rows |-> rows[k].value]
<1>1. DOMAIN rows = 1..1 /\ rows[1] = x /\ Len(rows) = 1
  OBVIOUS
<1>2. f[1] = t /\ DOMAIN f = 1..1
  BY <1>1
<1>3. \A k \in DOMAIN rows : RowTrue(rows[k])
  <2> HIDE DEF rows
  <2> QED
    BY <1>1
<1>4. SumFunction(f) = t
  <2> HIDE DEF f
  <2> QED
    BY <1>2, SumUpToThree DEF SumFunction
<1>5. Abs(SumFunction(f) - t) <= Len(rows) - 1
  <2> HIDE DEF f, rows
  <2> QED
    BY <1>1, <1>4 DEF Abs
<1> HIDE DEF rows
<1> QED
  BY <1>3, <1>5 DEF SectionTrue, SectionOf, rows

LEMMA TwoRows ==
  ASSUME NEW x, RowTrue(x), NEW y, RowTrue(y), NEW t \in Int,
         x.value \in Int, y.value \in Int, Abs(x.value + y.value - t) <= 1
  PROVE  SectionTrue(SectionOf(t, <<x, y>>))
<1> DEFINE rows == <<x, y>>
           f == [k \in DOMAIN rows |-> rows[k].value]
<1>1. DOMAIN rows = 1..2 /\ rows[1] = x /\ rows[2] = y /\ Len(rows) = 2
  OBVIOUS
<1>2. f[1] = x.value /\ f[2] = y.value /\ DOMAIN f = 1..2
  BY <1>1
<1>3. \A k \in DOMAIN rows : RowTrue(rows[k])
  <2>1. \A k \in 1..2 : k = 1 \/ k = 2
    OBVIOUS
  <2> HIDE DEF rows
  <2> QED
    BY <1>1, <2>1
<1>4. SumFunction(f) = x.value + y.value
  <2> HIDE DEF f
  <2> QED
    BY <1>2, SumUpToThree DEF SumFunction
<1>5. Abs(SumFunction(f) - t) <= Len(rows) - 1
  <2> HIDE DEF f, rows
  <2> QED
    BY <1>1, <1>4
<1> HIDE DEF rows
<1> QED
  BY <1>3, <1>5 DEF SectionTrue, SectionOf, rows

LEMMA ThreeRows ==
  ASSUME NEW x, RowTrue(x), NEW y, RowTrue(y), NEW z, RowTrue(z), NEW t \in Int,
         x.value \in Int, y.value \in Int, z.value \in Int,
         Abs(x.value + y.value + z.value - t) <= 2
  PROVE  SectionTrue(SectionOf(t, <<x, y, z>>))
<1> DEFINE rows == <<x, y, z>>
           f == [k \in DOMAIN rows |-> rows[k].value]
<1>1. DOMAIN rows = 1..3 /\ rows[1] = x /\ rows[2] = y /\ rows[3] = z /\ Len(rows) = 3
  OBVIOUS
<1>2. f[1] = x.value /\ f[2] = y.value /\ f[3] = z.value /\ DOMAIN f = 1..3
  BY <1>1
<1>3. \A k \in DOMAIN rows : RowTrue(rows[k])
  <2>1. \A k \in 1..3 : k = 1 \/ k = 2 \/ k = 3
    OBVIOUS
  <2> HIDE DEF rows
  <2> QED
    BY <1>1, <2>1
<1>4. SumFunction(f) = x.value + y.value + z.value
  <2> HIDE DEF f
  <2> QED
    BY <1>2, SumUpToThree DEF SumFunction
<1>5. Abs(SumFunction(f) - t) <= Len(rows) - 1
  <2> HIDE DEF f, rows
  <2> QED
    BY <1>1, <1>4
<1> HIDE DEF rows
<1> QED
  BY <1>3, <1>5 DEF SectionTrue, SectionOf, rows

(* A value rounded from the quantity at the price is within half a cent.   *)
LEMMA RoundedRow ==
  ASSUME NEW q \in Int, NEW price \in Int, NEW v, v = Round2(q * price, Ticks)
  PROVE  v \in Int /\ RowTrue(RowOf(q, price, v))
<1> DEFINE x == q * price
           y == v * Ticks
<1>1. Ticks \in Nat \ {0} /\ x \in Int
  BY RatesAssumption
<1>2. v \in Int /\ 2 * (Ticks * v) - 2 * x <= Ticks /\ -Ticks <= 2 * (Ticks * v) - 2 * x
  <2> HIDE DEF x
  <2> QED
    BY <1>1, RoundNear DEF x
<1>3. y \in Int /\ Ticks * v = y
  BY <1>1, <1>2
<1>4. Abs(x - y) <= 2 * Ticks
  <2> HIDE DEF x, y
  <2> QED
    BY <1>1, <1>2, <1>3 DEF Abs
<1> QED
  BY <1>2, <1>4 DEF RowTrue, RowOf

(* x is within half a d of y. *)
Near(x, y, d) == 2 * x - 2 * y <= d /\ -d <= 2 * x - 2 * y

(* A share of a rounded whole, rounded: half a cent for each rounding.     *)
LEMMA ShareNear ==
  ASSUME NEW a \in Nat, NEW N \in Nat \ {0}, a <= N, NEW price \in Int, NEW T \in Nat,
         NEW E \in Int, NEW p \in Int, Near(T * E, N * price, T), Near(N * p, a * E, N)
  PROVE  Abs(a * price - p * T) <= 2 * T
<1> DEFINE z == a * price - p * T
           eps == 2 * (T * E) - 2 * (N * price)
           rho == 2 * (N * p) - 2 * (a * E)
<1>1. /\ eps \in Int /\ rho \in Int /\ z \in Int
      /\ eps <= T /\ -T <= eps /\ rho <= N /\ -N <= rho
  BY DEF Near
<1>2. 2 * (N * z) = -(a * eps) - T * rho
  <2>1. a * eps = 2 * (a * (T * E)) - 2 * (a * (N * price))
    OBVIOUS
  <2>2. T * rho = 2 * (T * (N * p)) - 2 * (T * (a * E))
    OBVIOUS
  <2>3. N * z = N * (a * price) - N * (p * T)
    OBVIOUS
  <2>4. /\ a * (T * E) = T * (a * E) /\ N * (p * T) = T * (N * p)
        /\ a * (N * price) = N * (a * price)
    OBVIOUS
  <2>5. /\ a * (T * E) \in Int /\ a * (N * price) \in Int /\ T * (N * p) \in Int
    OBVIOUS
  <2> QED
    BY <2>1, <2>2, <2>3, <2>4, <2>5
<1>3. /\ a * eps <= a * T /\ a * (-T) <= a * eps /\ T * rho <= T * N /\ T * (-N) <= T * rho
      /\ T * a <= T * N
  <2> HIDE DEF z, eps, rho
  <2> QED
    BY <1>1, TimesLeq
<1> HIDE DEF z, eps, rho
<1>4. 2 * (N * z) <= (2 * T) * N /\ -((2 * T) * N) <= 2 * (N * z)
  <2>1. /\ a * eps \in Int /\ T * rho \in Int /\ T * N \in Int /\ a * T = T * a /\ T * a \in Int
        /\ a * (-T) = -(T * a) /\ T * (-N) = -(T * N) /\ (2 * T) * N = 2 * (T * N)
    BY <1>1
  <2> QED
    BY <1>2, <1>3, <2>1
<1>5. 2 * z <= 2 * T /\ -(2 * T) <= 2 * z
  <2> DEFINE h == 2 * T
  <2>1. h \in Nat
    OBVIOUS
  <2>2. 2 * (N * z) <= h * N /\ -(h * N) <= 2 * (N * z)
    BY <1>4
  <2> HIDE DEF h
  <2>3. 2 * z <= h /\ -h <= 2 * z
    BY <1>1, <2>1, <2>2, HalfCents
  <2> QED
    BY <2>3 DEF h
<1>6. Abs(z) <= 2 * T
  BY <1>1, <1>5 DEF Abs
<1> QED
  BY <1>6 DEF z

(* What two shares leave, when there is one price: half a cent for each of *)
(* the three roundings.                                                    *)
LEMMA RestNear ==
  ASSUME NEW a \in Nat, NEW c \in Nat, NEW v \in Nat, NEW N \in Nat \ {0}, N = a + c + v,
         NEW price \in Int, NEW T \in Nat,
         NEW E \in Int, NEW p \in Int, NEW d \in Int,
         Near(T * E, N * price, T), Near(N * p, a * E, N), Near(N * d, c * E, N)
  PROVE  Abs(v * price - (E - p - d) * T) <= 2 * T
<1> DEFINE z == v * price - (E - p - d) * T
           eps == 2 * (T * E) - 2 * (N * price)
           rho == 2 * (N * p) - 2 * (a * E)
           sig == 2 * (N * d) - 2 * (c * E)
<1>1. /\ eps \in Int /\ rho \in Int /\ sig \in Int /\ z \in Int
      /\ eps <= T /\ -T <= eps /\ rho <= N /\ -N <= rho /\ sig <= N /\ -N <= sig
  BY DEF Near
<1>2. 2 * (N * z) = -(v * eps) + T * rho + T * sig
  <2>1. v * eps = 2 * (v * (T * E)) - 2 * (v * (N * price))
    OBVIOUS
  <2>2. /\ T * rho = 2 * (T * (N * p)) - 2 * (T * (a * E))
        /\ T * sig = 2 * (T * (N * d)) - 2 * (T * (c * E))
    OBVIOUS
  <2>3. N * z = N * (v * price) - N * (E * T) + N * (p * T) + N * (d * T)
    OBVIOUS
  <2>4. N * (E * T) = T * (a * E) + T * (c * E) + v * (T * E)
    OBVIOUS
  <2>5. /\ N * (p * T) = T * (N * p) /\ N * (d * T) = T * (N * d)
        /\ v * (N * price) = N * (v * price)
    OBVIOUS
  <2>6. /\ T * (a * E) \in Int /\ T * (c * E) \in Int /\ v * (T * E) \in Int
        /\ v * (N * price) \in Int /\ T * (N * p) \in Int /\ T * (N * d) \in Int
    OBVIOUS
  <2> QED
    BY <2>1, <2>2, <2>3, <2>4, <2>5, <2>6
<1>3. /\ v * eps <= v * T /\ v * (-T) <= v * eps /\ T * rho <= T * N /\ T * (-N) <= T * rho
      /\ T * sig <= T * N /\ T * (-N) <= T * sig /\ T * v <= T * N
  <2> HIDE DEF z, eps, rho, sig
  <2> QED
    BY <1>1, TimesLeq
<1> HIDE DEF z, eps, rho, sig
<1>4. 2 * (N * z) <= (3 * T) * N /\ -((3 * T) * N) <= 2 * (N * z)
  <2>1. /\ v * eps \in Int /\ T * rho \in Int /\ T * sig \in Int /\ T * N \in Int
        /\ v * T = T * v /\ T * v \in Int
        /\ v * (-T) = -(T * v) /\ T * (-N) = -(T * N) /\ (3 * T) * N = 3 * (T * N)
    BY <1>1
  <2> QED
    BY <1>2, <1>3, <2>1
<1>5. 2 * z <= 3 * T /\ -(3 * T) <= 2 * z
  <2> DEFINE h == 3 * T
  <2>1. h \in Nat
    OBVIOUS
  <2>2. 2 * (N * z) <= h * N /\ -(h * N) <= 2 * (N * z)
    BY <1>4
  <2> HIDE DEF h
  <2>3. 2 * z <= h /\ -h <= 2 * z
    BY <1>1, <2>1, <2>2, HalfCents
  <2> QED
    BY <2>3 DEF h
<1>6. Abs(z) <= 2 * T
  BY <1>1, <1>5 DEF Abs
<1> QED
  BY <1>6 DEF z

LEMMA BillOf ==
  ASSUME NEW o \in Offer, NEW m \in Month, NEW n \in Int, NEW b, b = MonthlyBill(o, m, n)
  PROVE  /\ b.input = m /\ b.days = n
         /\ b.bill.energy = Round2(Energy(o, m), Ticks)
         /\ b.bill.power = Round2(Power(o, m, n), Ticks)
         /\ b.bill.surplus = Round2(m.surplus * o.surplus, Ticks)
         /\ b.terms = PeriodTerms(o, m, b.bill.energy)
         /\ b.bill.energy \in Int /\ b.bill.power \in Int /\ b.bill.surplus \in Int
<1>1. Ticks \in Nat \ {0} /\ 1 * Ticks = Ticks
  BY RatesAssumption
<1>2. /\ b.bill = CalculateMonthly(o, m, n) /\ b.input = m /\ b.days = n
      /\ b.terms = PeriodTerms(o, m, b.bill.energy)
  BY DEF MonthlyBill
<1>3. /\ b.bill.energy = Round2(Energy(o, m), 1 * Ticks)
      /\ b.bill.power = Round2(Power(o, m, n), 1 * Ticks)
      /\ b.bill.surplus = Round2(m.surplus * o.surplus, 1 * Ticks)
  BY <1>2 DEF CalculateMonthly, Bill
<1>4. /\ b.bill.energy = Round2(Energy(o, m), Ticks)
      /\ b.bill.power = Round2(Power(o, m, n), Ticks)
      /\ b.bill.surplus = Round2(m.surplus * o.surplus, Ticks)
  BY <1>1, <1>3
<1>5. b.bill.energy \in Int /\ b.bill.power \in Int /\ b.bill.surplus \in Int
  BY <1>1, <1>4, TermsAreInts, RoundNear
<1> QED
  BY <1>2, <1>4, <1>5

LEMMA FlatTermsTrue ==
  ASSUME NEW o \in Offer, NEW m \in Month, ValidMonth(m), o.flat,
         NEW E, E = Round2(Energy(o, m), Ticks)
  PROVE  LET t == PeriodTerms(o, m, E)
         IN  /\ RowTrue(RowOf(m.peak, o.peak, t.peakTerm))
             /\ RowTrue(RowOf(m.mid, o.peak, t.midTerm))
             /\ RowTrue(RowOf(m.valley, o.peak, t.valleyTerm))
             /\ t.peakTerm \in Int /\ t.midTerm \in Int /\ t.valleyTerm \in Int
             /\ t.peakTerm + t.midTerm + t.valleyTerm = E
<1> DEFINE a == m.peak
           c == m.mid
           v == m.valley
           N == a + c + v
           price == o.peak
           t == PeriodTerms(o, m, E)
<1>1. a \in Nat /\ c \in Nat /\ v \in Nat /\ price \in Nat /\ Ticks \in Nat \ {0}
  BY RatesAssumption, OfferFields DEF ValidMonth
<1>2. Energy(o, m) = N * price /\ N * price \in Int
  BY <1>1 DEF Energy
<1>3. E \in Int /\ 2 * (Ticks * E) - 2 * (N * price) <= Ticks
      /\ -Ticks <= 2 * (Ticks * E) - 2 * (N * price)
  BY <1>1, <1>2, RoundNear
<1>4. CASE N = 0
  <2>1. a = 0 /\ c = 0 /\ v = 0
    BY <1>1, <1>4
  <2>2. E = 0
    <3>1. Energy(o, m) = 0
      BY <1>1, <1>2, <1>4
    <3>2. (2 * 0 + Ticks) \div (2 * Ticks) = 0
      BY <1>1
    <3> QED
      BY <1>1, <3>1, <3>2 DEF Round2
  <2>3. t.peakTerm = 0 /\ t.midTerm = 0 /\ t.valleyTerm = 0
    BY <1>4, <2>2 DEF PeriodTerms
  <2>4. RowTrue(RowOf(0, price, 0))
    BY <1>1 DEF RowTrue, RowOf, Abs
  <2> HIDE DEF t
  <2> QED
    BY <2>1, <2>2, <2>3, <2>4 DEF t
<1>5. CASE N # 0
  <2> DEFINE p == Round2(a * E, N)
             d == Round2(c * E, N)
  <2>1. t.peakTerm = p /\ t.midTerm = d /\ t.valleyTerm = E - p - d
    BY <1>5 DEF PeriodTerms
  <2>2. N \in Nat \ {0} /\ a * E \in Int /\ c * E \in Int /\ a <= N /\ c <= N
    BY <1>1, <1>3, <1>5
  <2>3. p \in Int /\ d \in Int /\ Near(N * p, a * E, N) /\ Near(N * d, c * E, N)
    <3> HIDE DEF N
    <3> QED
      BY <2>2, RoundNear DEF Near
  <2>4. Near(Ticks * E, N * price, Ticks)
    BY <1>3 DEF Near
  <2>5. N = a + c + v
    OBVIOUS
  <2> HIDE DEF N, p, d, t
  <2>6. /\ Abs(a * price - p * Ticks) <= 2 * Ticks
        /\ Abs(c * price - d * Ticks) <= 2 * Ticks
        /\ Abs(v * price - (E - p - d) * Ticks) <= 2 * Ticks
    <3> DEFINE T == Ticks
               A == m.peak
               C == m.mid
               V == m.valley
               P == o.peak
    <3>1. /\ A \in Nat /\ C \in Nat /\ V \in Nat /\ P \in Int /\ T \in Nat /\ E \in Int
          /\ N \in Nat \ {0} /\ A <= N /\ C <= N /\ N = A + C + V /\ p \in Int /\ d \in Int
      BY <1>1, <1>3, <2>2, <2>3, <2>5
    <3>2. Near(T * E, N * P, T) /\ Near(N * p, A * E, N) /\ Near(N * d, C * E, N)
      BY <2>3, <2>4
    <3> HIDE DEF T, A, C, V, P
    <3>3. Abs(A * P - p * T) <= 2 * T
      BY <3>1, <3>2, ShareNear
    <3>4. Abs(C * P - d * T) <= 2 * T
      BY <3>1, <3>2, ShareNear
    <3>5. Abs(V * P - (E - p - d) * T) <= 2 * T
      BY <3>1, <3>2, RestNear, ZenonT(30)
    <3> QED
      BY <3>3, <3>4, <3>5 DEF T, A, C, V, P
  <2>7. /\ RowTrue(RowOf(a, price, p)) /\ RowTrue(RowOf(c, price, d))
        /\ RowTrue(RowOf(v, price, E - p - d))
    BY <2>6 DEF RowTrue, RowOf
  <2>8. p + d + (E - p - d) = E /\ E - p - d \in Int
    BY <1>3, <2>3
  <2> QED
    BY <2>1, <2>3, <2>7, <2>8 DEF t
<1> QED
  BY <1>4, <1>5

LEMMA EnergySectionTrue ==
  ASSUME NEW o \in Offer, NEW m \in Month, ValidMonth(m), NEW n \in Int, AsCommented(o),
         NEW b, b = MonthlyBill(o, m, n)
  PROVE  SectionTrue(SectionOf(b.bill.energy, EnergyRows(o, b)))
<1> DEFINE E == b.bill.energy
           t == b.terms
<1>1. /\ b.input = m /\ E = Round2(Energy(o, m), Ticks) /\ t = PeriodTerms(o, m, E) /\ E \in Int
  BY BillOf
<1>2. /\ o.flat \in BOOLEAN /\ o.peak \in Nat /\ o.mid \in Nat /\ o.valley \in Nat
      /\ m.peak \in Int /\ m.mid \in Int /\ m.valley \in Int
  BY OfferFields, MonthFields
<1>3. CASE EnergyFlat(o)
  <2> DEFINE q == m.peak + m.mid + m.valley
             x == RowOf(q, o.peak, E)
  <2>1. EnergyRows(o, b) = <<x>>
    BY <1>1, <1>3 DEF EnergyRows
  <2>2. o.flat
    BY <1>2, <1>3 DEF AsCommented
  <2>3. Energy(o, m) = q * o.peak /\ q \in Int
    BY <1>2, <2>2 DEF Energy
  <2>4. RowTrue(x)
    <3>1. E = Round2(q * o.peak, Ticks)
      BY <1>1, <2>3
    <3>2. q \in Int /\ o.peak \in Int
      BY <1>2, <2>3
    <3> HIDE DEF q, E
    <3> QED
      BY <3>1, <3>2, RoundedRow
  <2>5. x.value = E
    BY DEF RowOf
  <2>6. SectionTrue(SectionOf(E, <<x>>))
    <3> HIDE DEF x, E
    <3> QED
      BY <1>1, <2>4, <2>5, OneRow
  <2> QED
    BY <2>1, <2>6
<1>4. CASE ~EnergyFlat(o)
  <2> DEFINE x == RowOf(m.peak, o.peak, t.peakTerm)
             y == RowOf(m.mid, o.mid, t.midTerm)
             z == RowOf(m.valley, o.valley, t.valleyTerm)
  <2>1. EnergyRows(o, b) = <<x, y, z>>
    BY <1>1, <1>4 DEF EnergyRows
  <2>2. x.value = t.peakTerm /\ y.value = t.midTerm /\ z.value = t.valleyTerm
    BY DEF RowOf
  <2>3. /\ RowTrue(x) /\ RowTrue(y) /\ RowTrue(z)
        /\ t.peakTerm \in Int /\ t.midTerm \in Int /\ t.valleyTerm \in Int
    <3>1. CASE o.flat
      <4>1. o.mid = o.peak /\ o.valley = o.peak
        BY <1>2, <1>4, <3>1 DEF AsCommented, EnergyFlat
      <4> QED
        BY <1>1, <3>1, <4>1, FlatTermsTrue
    <3>2. CASE ~o.flat
      <4>1. /\ t.peakTerm = Round2(m.peak * o.peak, Ticks)
            /\ t.midTerm = Round2(m.mid * o.mid, Ticks)
            /\ t.valleyTerm = Round2(m.valley * o.valley, Ticks)
        BY <1>1, <3>2 DEF PeriodTerms
      <4>2. o.peak \in Int /\ o.mid \in Int /\ o.valley \in Int
        BY <1>2
      <4> HIDE DEF t
      <4>3. RowTrue(x) /\ t.peakTerm \in Int
        BY <1>2, <4>1, <4>2, RoundedRow
      <4>4. RowTrue(y) /\ t.midTerm \in Int
        BY <1>2, <4>1, <4>2, RoundedRow
      <4>5. RowTrue(z) /\ t.valleyTerm \in Int
        BY <1>2, <4>1, <4>2, RoundedRow
      <4> QED
        BY <4>3, <4>4, <4>5
    <3> QED
      BY <1>2, <3>1, <3>2
  <2>4. Abs(t.peakTerm + t.midTerm + t.valleyTerm - E) <= 2
    <3>1. Abs(t.peakTerm + t.midTerm + t.valleyTerm - E) <= IF o.flat THEN 0 ELSE 2
      BY TermsAdd
    <3>2. t.peakTerm + t.midTerm + t.valleyTerm - E \in Int
      BY <1>1, <2>3
    <3>3. Abs(t.peakTerm + t.midTerm + t.valleyTerm - E) \in Int
      BY <3>2 DEF Abs
    <3> QED
      BY <3>1, <3>3
  <2>5. SectionTrue(SectionOf(E, <<x, y, z>>))
    <3> HIDE DEF x, y, z, E, t
    <3> QED
      BY <1>1, <2>2, <2>3, <2>4, ThreeRows
  <2> QED
    BY <2>1, <2>5
<1> QED
  BY <1>3, <1>4

LEMMA PowerSectionTrue ==
  ASSUME NEW o \in Offer, NEW m \in Month, NEW n \in Int, AsCommented(o),
         NEW b, b = MonthlyBill(o, m, n)
  PROVE  SectionTrue(SectionOf(b.bill.power, PowerRows(o, b)))
<1> DEFINE P == b.bill.power
           q == m.powerPeak * n
           u == m.powerValley * n
           valley == IF o.powerValley = 0 THEN o.powerPeak ELSE o.powerValley
           v == Round2(q * o.powerPeak, Ticks)
           w == Round2(u * valley, Ticks)
           x == RowOf(q, o.powerPeak, v)
           y == RowOf(u, valley, w)
<1>0. /\ o.same \in BOOLEAN /\ o.powerPeak \in Nat /\ o.powerValley \in Nat
      /\ m.powerPeak \in Int /\ m.powerValley \in Int /\ Ticks \in Nat \ {0}
  BY RatesAssumption, OfferFields, MonthFields
<1>1. b.input = m /\ b.days = n /\ P = Round2(Power(o, m, n), Ticks) /\ P \in Int
  BY BillOf
<1>2. PowerRows(o, b) = <<x, y>>
  BY <1>1 DEF PowerRows
<1>3. x.value = v /\ y.value = w
  BY DEF RowOf
<1>4. q \in Int /\ u \in Int /\ valley \in Nat
  BY <1>0
<1>5. v \in Int /\ w \in Int /\ RowTrue(x) /\ RowTrue(y)
  <2>1. o.powerPeak \in Int /\ valley \in Int
    BY <1>0
  <2> HIDE DEF q, u, valley
  <2>2. v \in Int /\ RowTrue(x)
    BY <1>4, <2>1, RoundedRow
  <2>3. w \in Int /\ RowTrue(y)
    BY <1>4, <2>1, RoundedRow
  <2> QED
    BY <2>2, <2>3
<1>6. Power(o, m, n) = q * o.powerPeak + u * valley
  <2>1. CASE o.same
    <3>1. valley = o.powerPeak
      BY <2>1, <1>0 DEF AsCommented
    <3>2. Power(o, m, n) = n * ((m.powerPeak + m.powerValley) * o.powerPeak)
      BY <2>1 DEF Power
    <3>3. n * ((m.powerPeak + m.powerValley) * o.powerPeak) = q * o.powerPeak + u * o.powerPeak
      BY <1>0
    <3> QED
      BY <3>1, <3>2, <3>3
  <2>2. CASE ~o.same
    <3>1. valley = o.powerValley
      BY <2>2, <1>0 DEF AsCommented
    <3>2. Power(o, m, n) = n * (m.powerPeak * o.powerPeak + m.powerValley * o.powerValley)
      BY <2>2 DEF Power
    <3>3. n * (m.powerPeak * o.powerPeak + m.powerValley * o.powerValley)
            = q * o.powerPeak + u * o.powerValley
      BY <1>0
    <3> QED
      BY <3>1, <3>2, <3>3
  <2> QED
    BY <1>0, <2>1, <2>2
<1>7. Abs(v + w - P) <= 1
  <2> DEFINE g == q * o.powerPeak
             h == u * valley
             tv == Ticks * v
             tw == Ticks * w
             tP == Ticks * P
  <2>1. g \in Int /\ h \in Int
    <3> HIDE DEF q, u, valley
    <3> QED
      BY <1>0, <1>4
  <2> HIDE DEF g, h
  <2>2. v = Round2(g, Ticks) /\ w = Round2(h, Ticks) /\ P = Round2(g + h, Ticks)
    BY <1>1, <1>6 DEF g, h
  <2> HIDE DEF v, w, P
  <2>3. /\ 2 * tv - 2 * g <= Ticks /\ -Ticks <= 2 * tv - 2 * g
        /\ 2 * tw - 2 * h <= Ticks /\ -Ticks <= 2 * tw - 2 * h
        /\ 2 * tP - 2 * (g + h) <= Ticks /\ -Ticks <= 2 * tP - 2 * (g + h)
    BY <1>0, <2>1, <2>2, RoundNear
  <2>4. /\ tv \in Int /\ tw \in Int /\ tP \in Int
        /\ Ticks * (v + w - P) = tv + tw - tP
    BY <1>0, <1>1, <1>5
  <2>5. 2 * (Ticks * (v + w - P)) <= 3 * Ticks /\ -(3 * Ticks) <= 2 * (Ticks * (v + w - P))
    <3> HIDE DEF tv, tw, tP
    <3> QED
      BY <1>0, <2>1, <2>3, <2>4
  <2>6. v + w - P \in Int
    BY <1>1, <1>5
  <2>7. 2 * (v + w - P) <= 3 /\ -3 <= 2 * (v + w - P)
    BY <1>0, <2>5, <2>6, HalfCents
  <2> QED
    BY <2>6, <2>7 DEF Abs
<1>8. SectionTrue(SectionOf(P, <<x, y>>))
  <2> HIDE DEF x, y, P, v, w
  <2> QED
    BY <1>1, <1>3, <1>5, <1>7, TwoRows
<1> QED
  BY <1>2, <1>8

LEMMA SurplusSectionTrue ==
  ASSUME NEW o \in Offer, NEW m \in Month, NEW n \in Int, NEW b, b = MonthlyBill(o, m, n)
  PROVE  SectionTrue(SectionOf(b.bill.surplus, SurplusRows(o, b)))
<1> DEFINE S == b.bill.surplus
           x == RowOf(m.surplus, o.surplus, S)
<1>1. b.input = m /\ S = Round2(m.surplus * o.surplus, Ticks) /\ S \in Int
  BY BillOf
<1>2. SurplusRows(o, b) = <<x>>
  BY <1>1 DEF SurplusRows
<1>3. RowTrue(x)
  <2>1. o.surplus \in Int /\ m.surplus \in Int
    BY OfferFields, MonthFields
  <2> HIDE DEF S
  <2> QED
    BY <1>1, <2>1, RoundedRow
<1>4. x.value = S
  BY DEF RowOf
<1>5. SectionTrue(SectionOf(S, <<x>>))
  <2> HIDE DEF x, S
  <2> QED
    BY <1>1, <1>3, <1>4, OneRow
<1> QED
  BY <1>2, <1>5

(* The receipt that MonthlyDetailDrawer guesses from the prices of an offer *)
(* stored as its comments say is the bill of CalculateMonthly: every line  *)
(* is its quantity at its price to within two cents, be the term of the    *)
(* period rounded or a share of the rounded whole, and the lines of a      *)
(* section add up to its heading to within their roundings.                *)
THEOREM ReceiptsAreTrue == Spec => []ReceiptIsTheBill
<1>1. BillingInv => ReceiptIsTheBill
  <2> SUFFICES ASSUME BillingInv, NEW r \in Billed, NEW b \in Months(r), AsCommented(r.offer),
                      NEW s \in Sections(r.offer, b)
               PROVE  SectionTrue(s)
    BY DEF ReceiptIsTheBill, SectionTrue, RowTrue
  <2> DEFINE o == r.offer
  <2>1. PICK k \in 1..Len(r.months) : b = r.months[k]
    BY DEF Months
  <2> DEFINE m == asked[k]
             n == days[k]
  <2>2. o \in Offer /\ m \in Month /\ ValidMonth(m) /\ n \in Int /\ b = MonthlyBill(o, m, n)
    BY <2>1, MonthIsMonthlyBill
  <2>3. \/ s = SectionOf(b.bill.energy, EnergyRows(o, b))
        \/ s = SectionOf(b.bill.power, PowerRows(o, b))
        \/ s = SectionOf(b.bill.surplus, SurplusRows(o, b))
    BY DEF Sections
  <2> HIDE DEF o, m, n
  <2>4. AsCommented(o)
    BY DEF o
  <2> QED
    BY <2>2, <2>3, <2>4, EnergySectionTrue, PowerSectionTrue, SurplusSectionTrue
<1> QED
  BY BillingInvariant, <1>1, PTL

-----------------------------------------------------------------------------
(* Sorting *)

(* R is a strict total order of S. *)
Orders(R, S) ==
  /\ \A i \in S : <<i, i>> \notin R
  /\ \A i, j \in S : i # j => <<i, j>> \in R \/ <<j, i>> \in R
  /\ \A i, j, k \in S : <<i, j>> \in R /\ <<j, k>> \in R => <<i, k>> \in R

(* s is a list of S in the order of R. *)
InOrder(s, S, R) ==
  /\ s \in [1..Cardinality(S) -> S]
  /\ \A p, q \in 1..Cardinality(S) : p < q => <<s[p], s[q]>> \in R

(* A member stands at the place that the number before it gives.           *)
LEMMA SortExists ==
  ASSUME NEW S, IsFiniteSet(S), NEW R, Orders(R, S) PROVE \E s : InOrder(s, S, R)
<1> DEFINE n == Cardinality(S)
           pre(i) == {j \in S : <<j, i>> \in R}
           rank == [i \in S |-> 1 + Cardinality(pre(i))]
<1>1. n \in Nat /\ IsFiniteSet(1..n) /\ Cardinality(1..n) = n
  BY FS_CardinalityType, Numbered
<1>2. ASSUME NEW i \in S PROVE Cardinality(pre(i)) \in Nat /\ Cardinality(pre(i)) < n
  <2>1. pre(i) \in SUBSET S /\ i \notin pre(i) /\ pre(i) # S
    BY DEF Orders
  <2>2. /\ IsFiniteSet(pre(i)) /\ Cardinality(pre(i)) <= n /\ n # Cardinality(pre(i))
    <3> HIDE DEF pre
    <3> QED
      BY <2>1, FS_Subset
  <2>3. Cardinality(pre(i)) \in Nat
    BY <2>2, FS_CardinalityType
  <2> QED
    BY <1>1, <2>2, <2>3
<1>3. ASSUME NEW i \in S, NEW j \in S, <<i, j>> \in R
      PROVE  Cardinality(pre(i)) < Cardinality(pre(j))
  <2>1. pre(i) \in SUBSET pre(j) /\ i \in pre(j) /\ i \notin pre(i) /\ pre(j) \in SUBSET S
    BY <1>3 DEF Orders
  <2>2. IsFiniteSet(pre(j))
    BY <2>1, FS_Subset
  <2>3. Cardinality(pre(i)) <= Cardinality(pre(j)) /\ Cardinality(pre(j)) # Cardinality(pre(i))
    <3>1. pre(i) # pre(j)
      BY <2>1
    <3> HIDE DEF pre
    <3> QED
      BY <2>1, <2>2, <3>1, FS_Subset
  <2> QED
    BY <1>2, <2>3
<1>4. rank \in Injection(S, 1..n)
  <2>1. \A i \in S : rank[i] \in 1..n
    BY <1>1, <1>2
  <2>2. ASSUME NEW i \in S, NEW j \in S, rank[i] = rank[j] PROVE i = j
    <3>1. Cardinality(pre(i)) = Cardinality(pre(j))
      BY <1>2, <2>2
    <3> HIDE DEF pre, rank
    <3>2. <<i, j>> \notin R /\ <<j, i>> \notin R
      BY <1>2, <1>3, <3>1
    <3> QED
      BY <3>2 DEF Orders
  <2> QED
    BY <2>1, <2>2 DEF Injection, IsInjective
<1>5. \A p \in 1..n : \E i \in S : rank[i] = p
  <2> HIDE DEF rank
  <2>1. rank \in Surjection(S, 1..n)
    BY <1>1, <1>4, FS_Injection
  <2> QED
    BY <2>1 DEF Surjection
<1> DEFINE s == [p \in 1..n |-> CHOOSE i \in S : rank[i] = p]
<1>6. \A p \in 1..n : s[p] \in S /\ rank[s[p]] = p
  <2> HIDE DEF rank
  <2> QED
    BY <1>5
<1>7. ASSUME NEW p \in 1..n, NEW q \in 1..n, p < q PROVE <<s[p], s[q]>> \in R
  <2> HIDE DEF s
  <2>1. s[p] \in S /\ s[q] \in S /\ rank[s[p]] = p /\ rank[s[q]] = q
    BY <1>6
  <2>2. Cardinality(pre(s[p])) < Cardinality(pre(s[q]))
    BY <1>1, <1>2, <1>7, <2>1
  <2>3. s[p] # s[q]
    BY <1>7, <2>1
  <2>4. <<s[q], s[p]>> \notin R
    <3> HIDE DEF pre
    <3> QED
      BY <1>2, <1>3, <2>1, <2>2
  <2> QED
    BY <2>1, <2>3, <2>4 DEF Orders
<1>8. InOrder(s, S, R)
  <2> HIDE DEF rank
  <2> QED
    BY <1>6, <1>7 DEF InOrder
<1> QED
  BY <1>8

(* Every member has one place. *)
LEMMA SortedOnce ==
  ASSUME NEW S, IsFiniteSet(S), NEW R, Orders(R, S), NEW s, InOrder(s, S, R)
  PROVE  /\ \A p, q \in 1..Cardinality(S) : s[p] = s[q] => p = q
         /\ \A i \in S : \E p \in 1..Cardinality(S) : s[p] = i
<1> DEFINE n == Cardinality(S)
<1>1. n \in Nat /\ Cardinality(1..n) = n
  BY FS_CardinalityType, Numbered
<1>2. ASSUME NEW p \in 1..n, NEW q \in 1..n, s[p] = s[q] PROVE p = q
  <2>1. ~(p < q) /\ ~(q < p)
    BY <1>2 DEF Orders, InOrder
  <2> QED
    BY <1>1, <2>1
<1>3. s \in Injection(1..n, S)
  BY <1>2 DEF Injection, IsInjective, InOrder
<1>4. s \in Surjection(1..n, S)
  <2> HIDE DEF n
  <2>1. Cardinality(1..n) = Cardinality(S)
    BY <1>1 DEF n
  <2> QED
    BY <1>3, <2>1, FS_Injection
<1> QED
  BY <1>2, <1>4 DEF Surjection
-----------------------------------------------------------------------------
(* The drawer of a month *)

LEMMA MinIs ==
  ASSUME NEW I \in SUBSET Nat, I # {} PROVE Min(I) \in I /\ \A y \in I : Min(I) <= y
<1>1. PICK c \in I : \A d \in I : c <= d
  BY HasLeast
<1> QED
  BY <1>1 DEF Min

(* Where a request has a month: every result has it there first.           *)
PlacesOf(m) == {k \in 1..Len(asked) : asked[k].month = m.month /\ asked[k].year = m.year}

LEMMA FoundAtPlace ==
  ASSUME BillingInv, NEW r \in Billed, NEW m
  PROVE  FindMonthBreakdown(r, m) = IF PlacesOf(m) # {} THEN Min(PlacesOf(m)) ELSE 0
<1> DEFINE Test(b) == b.input.month = m.month /\ b.input.year = m.year
           I == {k \in 1..Len(r.months) : Test(r.months[k])}
<1>1. /\ Len(r.months) = Len(asked)
      /\ \A k \in 1..Len(r.months) : r.months[k] = MonthlyBill(r.offer, asked[k], days[k])
  BY MonthIsMonthlyBill
<1>2. \A k \in 1..Len(r.months) : r.months[k].input = asked[k]
  <2>1. \A o, u, n : MonthlyBill(o, u, n).input = u
    BY DEF MonthlyBill
  <2> QED
    BY <1>1, <2>1
<1>3. I = PlacesOf(m)
  BY <1>1, <1>2 DEF PlacesOf
<1>4. FindMonthBreakdown(r, m) = IF I # {} THEN Min(I) ELSE 0
  BY DEF FindMonthBreakdown, SelectInSeq
<1> QED
  BY <1>3, <1>4

LEMMA TotalIsInt ==
  ASSUME NEW o \in Offer, NEW m \in Month, NEW n \in Int PROVE CalculateMonthly(o, m, n).total \in Int
<1> DEFINE D == 1 * Ticks * TaxDen * IvaDen
           s == Subtotal(Energy(o, m), Power(o, m, n), m.surplus * o.surplus, n, 1)
           x == s * (IvaDen + Rate(m))
<1>1. D \in Nat \ {0}
  <2>0. 1 * Ticks \in Nat \ {0} /\ TaxDen \in Nat \ {0} /\ IvaDen \in Nat \ {0}
    BY RatesAssumption
  <2>1. 1 * Ticks * TaxDen \in Nat \ {0}
    BY <2>0, Positive
  <2> QED
    BY <2>0, <2>1, Positive
<1>2. x \in Int
  <2>1. /\ Energy(o, m) \in Int /\ Power(o, m, n) \in Int /\ m.surplus * o.surplus \in Int
        /\ Rate(m) \in Int
    BY TermsAreInts
  <2>2. TaxDen \in Int /\ IvaDen \in Int /\ TaxNum \in Int /\ Rental \in Int
    BY RatesAssumption
  <2>3. s \in Int
    BY <2>1, <2>2 DEF Subtotal
  <2> HIDE DEF s
  <2> QED
    BY <2>1, <2>2, <2>3
<1>3. CalculateMonthly(o, m, n).total = Round2(x, D)
  BY DEF CalculateMonthly, Bill
<1> HIDE DEF x, D
<1> QED
  BY <1>1, <1>2, <1>3, RoundNear

(* What an asked month costs with an offer does not depend on the others.  *)
LEMMA TotalIs ==
  ASSUME BillingInv, NEW i \in DOMAIN results, NEW m, PlacesOf(m) # {}
  PROVE  LET k == Min(PlacesOf(m))
         IN  /\ i \in Found(results, m)
             /\ k \in 1..Len(asked) /\ asked[k] \in Month /\ ValidMonth(asked[k])
             /\ days[k] \in 28..31 /\ results[i].offer \in Offer
             /\ Breakdown(results, i, m) = MonthlyBill(results[i].offer, asked[k], days[k])
             /\ TotalOf(results, i, m)
                  = CalculateMonthly(results[i].offer, asked[k], days[k]).total
             /\ TotalOf(results, i, m) \in Int
<1> DEFINE k == Min(PlacesOf(m))
           r == results[i]
<1>1. r \in Billed
  <2>1. DOMAIN results = 1..Len(results)
    BY DEF BillingInv, ResultsInv, IsSeq
  <2> QED
    BY <2>1 DEF Billed
<1>2. PlacesOf(m) \in SUBSET Nat
  BY DEF PlacesOf
<1>3. k \in PlacesOf(m)
  BY <1>2, MinIs
<1>4. k \in 1..Len(asked) /\ k # 0 /\ FindMonthBreakdown(r, m) = k
  <2>1. k \in 1..Len(asked)
    BY <1>3 DEF PlacesOf
  <2>2. FindMonthBreakdown(r, m) = k
    <3> HIDE DEF r
    <3> QED
      BY <1>1, FoundAtPlace
  <2> QED
    BY <2>1, <2>2
<1>5. /\ r.offer \in Offer /\ asked[k] \in Month /\ ValidMonth(asked[k]) /\ days[k] \in 28..31
      /\ r.months[k] = MonthlyBill(r.offer, asked[k], days[k])
  <2> HIDE DEF r, k
  <2> QED
    BY <1>1, <1>4, MonthIsMonthlyBill
<1>6. i \in Found(results, m) /\ Breakdown(results, i, m) = r.months[k]
  BY <1>4 DEF Found, Breakdown
<1>7. TotalOf(results, i, m) = CalculateMonthly(r.offer, asked[k], days[k]).total
  BY <1>5, <1>6 DEF TotalOf, MonthlyBill
<1>8. CalculateMonthly(r.offer, asked[k], days[k]).total \in Int
  <2> HIDE DEF r, k
  <2> QED
    BY <1>5, TotalIsInt
<1> QED
  BY <1>4, <1>5, <1>6, <1>7, <1>8

(* Who undercuts does not bill more.                                       *)
LEMMA UndercutsBillsLess ==
  ASSUME NEW o \in Offer, NEW u \in Offer, Undercuts(o, u), NEW m \in Month, ValidMonth(m),
         NEW n \in Nat
  PROVE  CalculateMonthly(o, m, n).total <= CalculateMonthly(u, m, n).total
<1> DEFINE mid(x) == IF x.flat THEN x.peak ELSE x.mid
           valley(x) == IF x.flat THEN x.peak ELSE x.valley
           pvalley(x) == IF x.same THEN x.powerPeak ELSE x.powerValley
<1>0. /\ m.peak \in Nat /\ m.mid \in Nat /\ m.valley \in Nat /\ m.surplus \in Nat
      /\ m.powerPeak \in Nat /\ m.powerValley \in Nat /\ m.iva \in Int
  BY RatesAssumption, MonthFields DEF ValidMonth
<1>1. \A x \in Offer : /\ x.peak \in Nat /\ mid(x) \in Nat /\ valley(x) \in Nat
                       /\ x.powerPeak \in Nat /\ pvalley(x) \in Nat /\ x.surplus \in Nat
  BY OfferFields
<1>2. /\ o.peak <= u.peak /\ mid(o) <= mid(u) /\ valley(o) <= valley(u)
      /\ o.powerPeak <= u.powerPeak /\ pvalley(o) <= pvalley(u) /\ u.surplus <= o.surplus
  <2>1. /\ Asks(o)[1] <= Asks(u)[1] /\ Asks(o)[2] <= Asks(u)[2] /\ Asks(o)[3] <= Asks(u)[3]
        /\ Asks(o)[4] <= Asks(u)[4] /\ Asks(o)[5] <= Asks(u)[5] /\ Asks(o)[6] <= Asks(u)[6]
    BY DEF Undercuts
  <2>2. \A x : /\ Asks(x)[1] = x.peak /\ Asks(x)[2] = mid(x) /\ Asks(x)[3] = valley(x)
               /\ Asks(x)[4] = x.powerPeak /\ Asks(x)[5] = pvalley(x) /\ Asks(x)[6] = -x.surplus
    BY DEF Asks
  <2>3. -o.surplus <= -u.surplus
    BY <2>1, <2>2
  <2>4. u.surplus <= o.surplus
    BY <1>1, <2>3
  <2> HIDE DEF mid, valley, pvalley
  <2> QED
    BY <2>1, <2>2, <2>4
<1>3. ASSUME NEW x \in Offer
      PROVE  /\ Energy(x, m) = m.peak * x.peak + m.mid * mid(x) + m.valley * valley(x)
             /\ Power(x, m, n) = n * (m.powerPeak * x.powerPeak + m.powerValley * pvalley(x))
  <2>1. Energy(x, m) = m.peak * x.peak + m.mid * mid(x) + m.valley * valley(x)
    <3>1. CASE x.flat
      <4>1. Energy(x, m) = (m.peak + m.mid + m.valley) * x.peak /\ mid(x) = x.peak /\ valley(x) = x.peak
        BY <3>1 DEF Energy
      <4>2. (m.peak + m.mid + m.valley) * x.peak = m.peak * x.peak + m.mid * x.peak + m.valley * x.peak
        BY <1>0, <1>1
      <4> QED
        BY <4>1, <4>2
    <3>2. CASE ~x.flat
      BY <3>2 DEF Energy
    <3> QED
      BY <3>1, <3>2, OfferFields
  <2>2. Power(x, m, n) = n * (m.powerPeak * x.powerPeak + m.powerValley * pvalley(x))
    <3>1. CASE x.same
      <4>1. Power(x, m, n) = n * ((m.powerPeak + m.powerValley) * x.powerPeak) /\ pvalley(x) = x.powerPeak
        BY <3>1 DEF Power
      <4>2. (m.powerPeak + m.powerValley) * x.powerPeak
              = m.powerPeak * x.powerPeak + m.powerValley * x.powerPeak
        BY <1>0, <1>1
      <4> QED
        BY <4>1, <4>2
    <3>2. CASE ~x.same
      BY <3>2 DEF Power
    <3> QED
      BY <3>1, <3>2, OfferFields
  <2> QED
    BY <2>1, <2>2
<1> HIDE DEF mid, valley, pvalley
<1>4. /\ m.peak * o.peak <= m.peak * u.peak /\ m.mid * mid(o) <= m.mid * mid(u)
      /\ m.valley * valley(o) <= m.valley * valley(u)
      /\ m.powerPeak * o.powerPeak <= m.powerPeak * u.powerPeak
      /\ m.powerValley * pvalley(o) <= m.powerValley * pvalley(u)
      /\ m.surplus * u.surplus <= m.surplus * o.surplus
  <2>1. ASSUME NEW a \in Nat, NEW b \in Nat, a <= b, NEW k \in Nat PROVE k * a <= k * b
    BY <2>1, TimesLeq
  <2> QED
    BY <1>0, <1>1, <1>2, <2>1
<1>5. \A x \in Offer : /\ m.peak * x.peak \in Int /\ m.mid * mid(x) \in Int
                       /\ m.valley * valley(x) \in Int /\ m.powerPeak * x.powerPeak \in Int
                       /\ m.powerValley * pvalley(x) \in Int /\ m.surplus * x.surplus \in Int
  BY <1>0, <1>1
<1>6. Energy(o, m) <= Energy(u, m)
  BY <1>3, <1>4, <1>5
<1>7. Power(o, m, n) <= Power(u, m, n)
  <2> DEFINE a == m.powerPeak * o.powerPeak + m.powerValley * pvalley(o)
             b == m.powerPeak * u.powerPeak + m.powerValley * pvalley(u)
  <2>1. a \in Int /\ b \in Int /\ a <= b
    BY <1>4, <1>5
  <2>2. Power(o, m, n) = n * a /\ Power(u, m, n) = n * b
    BY <1>3
  <2> HIDE DEF a, b
  <2> QED
    BY <2>1, <2>2, TimesLeq
<1>8. Rate(m) \in Nat
  BY <1>0, RatesAssumption DEF Rate
<1> DEFINE e == Energy(o, m)
           f == Energy(u, m)
           p == Power(o, m, n)
           q == Power(u, m, n)
           s == m.surplus * o.surplus
           t == m.surplus * u.surplus
           k == Rate(m)
<1>9. /\ e \in Int /\ f \in Int /\ e <= f /\ p \in Int /\ q \in Int /\ p <= q
      /\ s \in Int /\ t \in Int /\ t <= s /\ n \in Int /\ k \in Nat
  BY <1>4, <1>6, <1>7, <1>8, TermsAreInts
<1>10. Bill(e, p, s, n, k, 1).total <= Bill(f, q, t, n, k, 1).total
  <2> HIDE DEF e, f, p, q, s, t, k
  <2> QED
    BY <1>9, TotalGrows
<1> QED
  BY <1>10 DEF CalculateMonthly

(* The entries of an asked month: every offer once, none after a dearer.   *)
LEMMA EntriesAre ==
  ASSUME BillingInv, NEW m, PlacesOf(m) # {}, NEW e, e = Entries(results, m)
  PROVE  /\ Len(e) = Len(results) /\ DOMAIN e = 1..Len(results)
         /\ \A p \in DOMAIN e : e[p] \in DOMAIN results
         /\ \A i \in DOMAIN results : \E p \in DOMAIN e : e[p] = i
         /\ \A p, q \in DOMAIN e : p < q => TotalOf(results, e[p], m) <= TotalOf(results, e[q], m)
<1> DEFINE S == DOMAIN results
           total(i) == TotalOf(results, i, m)
           Less(i, j) == \/ total(i) < total(j)
                         \/ total(i) = total(j) /\ i < j
           R == {x \in S \X S : Less(x[1], x[2])}
           n == Cardinality(S)
<1>1. S = 1..Len(results) /\ Len(results) \in Nat
  BY DEF BillingInv, ResultsInv, IsSeq
<1>2. IsFiniteSet(S) /\ n = Len(results)
  BY <1>1, Numbered
<1>3. \A i \in S : total(i) \in Int /\ i \in Found(results, m) /\ i \in Nat
  <2>1. \A i \in S : i \in Nat
    BY <1>1
  <2> QED
    BY <2>1, TotalIs
<1>4. Found(results, m) = S
  BY <1>3 DEF Found
<1>5. \A i, j \in S : <<i, j>> \in R <=> Less(i, j)
  OBVIOUS
<1>6. Orders(R, S)
  <2> HIDE DEF R, S, total
  <2> QED
    BY <1>3, <1>5 DEF Orders
<1>7. PICK s : InOrder(s, S, R)
  <2> HIDE DEF R, S
  <2> QED
    BY <1>2, <1>6, SortExists
<1>8. e \in [1..n -> S] /\ \A p, q \in 1..n : p < q => Less(e[p], e[q])
  <2>1. e = CHOOSE t \in [1..n -> S] : \A p, q \in 1..n : p < q => Less(t[p], t[q])
    BY <1>4 DEF Entries, Sorted
  <2>2. s \in [1..n -> S] /\ \A p, q \in 1..n : p < q => Less(s[p], s[q])
    BY <1>7, <1>5 DEF InOrder
  <2> HIDE DEF Less, n, S
  <2> QED
    BY <2>1, <2>2
<1>9. InOrder(e, S, R)
  BY <1>5, <1>8 DEF InOrder
<1>10. \A i \in S : \E p \in 1..n : e[p] = i
  <2> HIDE DEF R, S
  <2> QED
    BY <1>2, <1>6, <1>9, SortedOnce
<1>11. DOMAIN e = 1..n /\ Len(e) = n /\ n \in Nat
  BY <1>1, <1>2, <1>8
<1>12. \A p, q \in DOMAIN e : p < q => total(e[p]) <= total(e[q])
  <2> TAKE p, q \in DOMAIN e
  <2> HAVE p < q
  <2>1. Less(e[p], e[q]) /\ e[p] \in S /\ e[q] \in S
    BY <1>8, <1>11
  <2>2. total(e[p]) \in Int /\ total(e[q]) \in Int
    BY <1>3, <2>1
  <2> QED
    BY <2>1, <2>2
<1> QED
  BY <1>2, <1>8, <1>10, <1>11, <1>12

(* What the drawer compares with is the cheapest of the current offers.    *)
LEMMA CurrentTotalIs ==
  ASSUME NEW data, NEW m, NEW current, NEW e, e = Entries(data, m), DOMAIN e = 1..Len(e),
         Len(e) \in Nat, NEW t \in CurrentTotal(data, m, current)
  PROVE  \E c \in DOMAIN e : e[c] \in current /\ t = TotalOf(data, e[c], m)
<1> DEFINE I == {p \in 1..Len(e) : e[p] \in current}
           place == SelectInSeq(e, LAMBDA i : i \in current)
<1>1. place = IF I # {} THEN Min(I) ELSE 0
  BY DEF SelectInSeq
<1>2. CurrentTotal(data, m, current) = {TotalOf(data, e[p], m) : p \in {place} \ {0}}
  BY DEF CurrentTotal
<1>3. place # 0 /\ t = TotalOf(data, e[place], m)
  BY <1>2
<1>4. I # {} /\ place = Min(I)
  BY <1>1, <1>3
<1>5. I \in SUBSET Nat
  OBVIOUS
<1>6. place \in I
  <2> HIDE DEF I
  <2> QED
    BY <1>4, <1>5, MinIs
<1> QED
  BY <1>3, <1>6

(* The drawer has every offer that bills the month once, none after a      *)
(* dearer one; an offer that asks no more than another for anything is not *)
(* billed more, so it cannot stand behind it but at the same total; and    *)
(* the differences with the current offer grow down the list.              *)
THEOREM DrawerInOrder == Spec => []DrawerRanks
<1>1. BillingInv => DrawerRanks
  <2> SUFFICES ASSUME BillingInv, NEW j \in DOMAIN asked,
                      NEW m, m = [month |-> asked[j].month, year |-> asked[j].year],
                      NEW e, e = Entries(results, m)
               PROVE  /\ Len(e) = Len(results) /\ {e[p] : p \in DOMAIN e} = DOMAIN results
                      /\ \A p, q \in DOMAIN e :
                           p < q /\ Undercuts(results[e[q]].offer, results[e[p]].offer)
                             => TotalOf(results, e[p], m) = TotalOf(results, e[q], m)
                      /\ \A current \in SUBSET DOMAIN results : \A p, q \in DOMAIN e : p < q =>
                           /\ \A d \in Difference(results, e[p], m, current) :
                                \A f \in Difference(results, e[q], m, current) : d <= f
                           /\ (\A c \in 1..p : e[c] \notin current) =>
                                \A d \in Difference(results, e[p], m, current) : d <= 0
    BY DEF DrawerRanks
  <2> DEFINE total(i) == TotalOf(results, i, m)
             k == Min(PlacesOf(m))
  <2>1. PlacesOf(m) # {}
    <3>1. j \in 1..Len(asked)
      BY DEF BillingInv, RequestInv
    <3>2. m.month = asked[j].month /\ m.year = asked[j].year
      OBVIOUS
    <3> QED
      BY <3>1, <3>2 DEF PlacesOf
  <2>2. /\ Len(e) = Len(results) /\ DOMAIN e = 1..Len(results)
        /\ \A p \in DOMAIN e : e[p] \in DOMAIN results
        /\ \A i \in DOMAIN results : \E p \in DOMAIN e : e[p] = i
        /\ \A p, q \in DOMAIN e : p < q => total(e[p]) <= total(e[q])
    BY <2>1, EntriesAre
  <2>3. \A i \in DOMAIN results :
          /\ total(i) \in Int /\ results[i].offer \in Offer
          /\ asked[k] \in Month /\ ValidMonth(asked[k]) /\ days[k] \in Nat
          /\ total(i) = CalculateMonthly(results[i].offer, asked[k], days[k]).total
    BY <2>1, TotalIs
  <2>3a. \A p \in DOMAIN e : total(e[p]) \in Int
    BY <2>2, <2>3
  <2>4. {e[p] : p \in DOMAIN e} = DOMAIN results
    BY <2>2
  <2>5. ASSUME NEW p \in DOMAIN e, NEW q \in DOMAIN e, p < q,
               Undercuts(results[e[q]].offer, results[e[p]].offer)
        PROVE  total(e[p]) = total(e[q])
    <3> DEFINE i == e[p]
               h == e[q]
    <3>1. i \in DOMAIN results /\ h \in DOMAIN results /\ total(i) <= total(h)
      BY <2>2, <2>5
    <3>2. Undercuts(results[h].offer, results[i].offer)
      BY <2>5
    <3> HIDE DEF i, h, k, total
    <3>3. total(h) <= total(i)
      BY <2>3, <3>1, <3>2, UndercutsBillsLess
    <3>4. total(i) = total(h)
      BY <2>3, <3>1, <3>3
    <3> QED
      BY <3>4 DEF i, h
  <2>6. ASSUME NEW current, NEW p \in DOMAIN e, NEW d \in Difference(results, e[p], m, current)
        PROVE  \E t \in CurrentTotal(results, m, current) : d = total(e[p]) - t
    BY DEF Difference
  <2>7. ASSUME NEW current, NEW t \in CurrentTotal(results, m, current)
        PROVE  \E c \in DOMAIN e : e[c] \in current /\ t = total(e[c])
    <3>1. Len(results) \in Nat
      BY DEF BillingInv, ResultsInv, IsSeq
    <3> QED
      BY <2>2, <3>1, CurrentTotalIs
  <2>7a. ASSUME NEW current, NEW t \in CurrentTotal(results, m, current),
                NEW u \in CurrentTotal(results, m, current)
         PROVE  t = u
    BY DEF CurrentTotal
  <2>8. ASSUME NEW current, NEW p \in DOMAIN e, NEW q \in DOMAIN e, p < q
        PROVE  /\ \A d \in Difference(results, e[p], m, current) :
                    \A f \in Difference(results, e[q], m, current) : d <= f
               /\ (\A c \in 1..p : e[c] \notin current) =>
                    \A d \in Difference(results, e[p], m, current) : d <= 0
    <3>0. e[p] \in DOMAIN results /\ e[q] \in DOMAIN results /\ total(e[p]) <= total(e[q])
      BY <2>2, <2>8
    <3>1. ASSUME NEW d \in Difference(results, e[p], m, current),
                 NEW f \in Difference(results, e[q], m, current)
          PROVE  d <= f
      <4>1. PICK C \in CurrentTotal(results, m, current) : d = total(e[p]) - C
        BY <2>6
      <4>1a. f = total(e[q]) - C
        BY <2>6, <2>7a
      <4>2. PICK c \in DOMAIN e : C = total(e[c])
        BY <2>7
      <4>3. C \in Int /\ total(e[p]) \in Int /\ total(e[q]) \in Int
        BY <2>3a, <4>2
      <4> HIDE DEF total
      <4> QED
        BY <3>0, <4>1, <4>1a, <4>3
    <3>2. ASSUME \A c \in 1..p : e[c] \notin current,
                 NEW d \in Difference(results, e[p], m, current)
          PROVE  d <= 0
      <4>1. PICK C \in CurrentTotal(results, m, current) : d = total(e[p]) - C
        BY <2>6
      <4>2. PICK c \in DOMAIN e : e[c] \in current /\ C = total(e[c])
        BY <2>7
      <4>3. c \in Nat /\ p \in Nat /\ p < c
        <5>1. c \in Nat /\ p \in Nat /\ c >= 1 /\ p >= 1
          BY <2>2
        <5>2. c \notin 1..p
          BY <3>2, <4>2
        <5> QED
          BY <5>1, <5>2
      <4>4. total(e[p]) <= C
        BY <2>2, <4>2, <4>3
      <4>5. C \in Int /\ total(e[p]) \in Int
        BY <2>3a, <4>2
      <4> HIDE DEF total
      <4> QED
        BY <4>1, <4>4, <4>5
    <3> QED
      BY <3>1, <3>2
  <2>9. \A p, q \in DOMAIN e :
          p < q /\ Undercuts(results[e[q]].offer, results[e[p]].offer)
            => TotalOf(results, e[p], m) = TotalOf(results, e[q], m)
    BY <2>5
  <2>10. \A current \in SUBSET DOMAIN results : \A p, q \in DOMAIN e : p < q =>
           /\ \A d \in Difference(results, e[p], m, current) :
                \A f \in Difference(results, e[q], m, current) : d <= f
           /\ (\A c \in 1..p : e[c] \notin current) =>
                \A d \in Difference(results, e[p], m, current) : d <= 0
    BY <2>8
  <2> HIDE DEF total, k
  <2> QED
    BY <2>2, <2>4, <2>9, <2>10
<1> QED
  BY BillingInvariant, <1>1, PTL
-----------------------------------------------------------------------------
(* The charts *)

(* The request billed is one of the table. *)
OnTheTable == asked = <<>> \/ (asked \in Bodies /\ Len(asked) \in 1..12)

LEMMA AsksTheTable == Spec => []OnTheTable
<1>1. Init => OnTheTable
  BY DEF Init, OnTheTable
<1>2. OnTheTable /\ [Next]_vars => OnTheTable'
  <2> SUFFICES ASSUME OnTheTable, [Next]_vars PROVE OnTheTable'
    OBVIOUS
  <2>1. CASE SimulateAnnual
    BY <2>1 DEF SimulateAnnual, OnTheTable
  <2>2. CASE UNCHANGED asked
    BY <2>2 DEF OnTheTable
  <2>3. CASE asked' = <<>>
    BY <2>3 DEF OnTheTable
  <2> QED
    BY <2>1, <2>2, <2>3 DEF Next, vars, Simulate, RefuseLength, ValidateMonth, ListOffers,
       BillMonth, FinishOffer, AnswerAnnual, Fail, Reply
<1> QED
  BY <1>1, <1>2, PTL DEF Spec

LEMMA OncePlaced ==
  ASSUME BillingInv, OnTheTable, NEW m PROVE \A j, k \in PlacesOf(m) : j = k
<1> SUFFICES ASSUME NEW j \in PlacesOf(m), NEW k \in PlacesOf(m) PROVE j = k
  OBVIOUS
<1>1. asked \in Seq(Month) /\ DOMAIN asked = 1..Len(asked)
  BY DEF BillingInv, RequestInv
<1>2. j \in DOMAIN asked /\ k \in DOMAIN asked /\ asked[j].month = asked[k].month
      /\ asked[j].year = asked[k].year
  BY <1>1 DEF PlacesOf
<1>3. asked \in Bodies /\ Len(asked) \in 1..12
  <2>1. asked # <<>>
    BY <1>1, <1>2, EmptyIsSeq
  <2> QED
    BY <2>1 DEF OnTheTable
<1>4. Len(asked) <= 12
  <2>1. \A n \in 1..12 : n <= 12
    OBVIOUS
  <2> QED
    BY <1>3, <2>1
<1> QED
  BY <1>2, <1>3, <1>4, TableAssumption

(* The points of a line are where the request has the month.               *)
LEMMA PointsAre ==
  ASSUME BillingInv, NEW r \in Billed
  PROVE  /\ DOMAIN r.months = 1..Len(asked)
         /\ \A k \in 1..Len(asked) : r.months[k].input = asked[k]
         /\ \A m : PointsOf(r, m) = PlacesOf(m)
<1>1. /\ Len(r.months) = Len(asked)
      /\ \A k \in 1..Len(r.months) : r.months[k] = MonthlyBill(r.offer, asked[k], days[k])
  BY MonthIsMonthlyBill
<1>2. \A k \in 1..Len(asked) : r.months[k].input = asked[k]
  <2>1. \A o, u, n : MonthlyBill(o, u, n).input = u
    BY DEF MonthlyBill
  <2> QED
    BY <1>1, <2>1
<1>3. DOMAIN r.months = 1..Len(asked)
  <2>1. PICK i \in 1..Len(results) : r = results[i]
    BY DEF Billed
  <2>2. IsSeq(r.months)
    BY <2>1 DEF BillingInv, ResultsInv
  <2> QED
    BY <1>1, <2>2 DEF IsSeq
<1> QED
  BY <1>2, <1>3 DEF PointsOf, PlacesOf

(* Of the months of the chart none is there twice. *)
LEMMA WindowOnce ==
  ASSUME NEW today \in Todays
  PROVE  \A j, k \in 1..12 :
           /\ RollingMonths(today)[j].month = RollingMonths(today)[k].month
           /\ RollingMonths(today)[j].year = RollingMonths(today)[k].year
           => j = k
<1> DEFINE n(i) == 12 * today.year + today.month - 1 - 12 + i
<1> SUFFICES ASSUME NEW j \in 1..12, NEW k \in 1..12, 1 + (n(j) % 12) = 1 + (n(k) % 12),
                    n(j) \div 12 = n(k) \div 12
             PROVE  j = k
  BY DEF RollingMonths
<1>1. today.year \in Nat /\ today.month \in Int
  BY TodaysAssumption
<1>2. n(j) \in Int /\ n(k) \in Int
  BY <1>1
<1>3. n(j) = n(k)
  <2>1. ASSUME NEW a \in Int, NEW b \in Int, 1 + (a % 12) = 1 + (b % 12), a \div 12 = b \div 12
        PROVE  a = b
    BY <2>1
  <2> HIDE DEF n
  <2> QED
    BY <1>2, <2>1
<1> QED
  BY <1>1, <1>3

(* A fold over at most one number. *)
LEMMA SumOfOne ==
  /\ SumSet({}) = 0
  /\ \A v \in Int : SumSet({v}) = v
<1> DEFINE IsFold(iter, T) ==
      iter = [s \in SUBSET T |-> IF s = {} THEN 0 ELSE Pick(s) + iter[s \ {Pick(s)}]]
<1>1. ASSUME NEW T PROVE SumSet(T) = (CHOOSE iter : IsFold(iter, T))[T]
  BY DEF SumSet, FoldSet, MapThenFoldSet, Pick
<1>2. SumSet({}) = 0
  <2> DEFINE g == [s \in SUBSET {} |-> 0]
  <2>1. IsFold(g, {})
    OBVIOUS
  <2>2. IsFold(CHOOSE iter : IsFold(iter, {}), {})
    <3> HIDE DEF IsFold, g
    <3> QED
      BY <2>1
  <2> DEFINE h == CHOOSE iter : IsFold(iter, {})
  <2>3. IsFold(h, {})
    BY <2>2
  <2> HIDE DEF h
  <2>4. h[{}] = 0
    BY <2>3
  <2> QED
    BY <1>1, <2>4 DEF h
<1>3. ASSUME NEW v \in Int PROVE SumSet({v}) = v
  <2>0. \A s \in SUBSET {v} : s # {} => s = {v} /\ Pick(s) = v /\ s \ {Pick(s)} = {}
    BY PickIn
  <2> DEFINE g == [s \in SUBSET {v} |-> IF s = {} THEN 0 ELSE v]
  <2>1. IsFold(g, {v})
    <3>1. g = [s \in SUBSET {v} |-> IF s = {} THEN 0 ELSE Pick(s) + g[s \ {Pick(s)}]]
      BY <2>0
    <3> QED
      BY <3>1
  <2> DEFINE h == CHOOSE iter : IsFold(iter, {v})
  <2>2. IsFold(h, {v})
    <3> HIDE DEF IsFold, g
    <3> QED
      BY <2>1
  <2> HIDE DEF h
  <2>3. h[{}] = 0
    BY <2>2
  <2>4. h[{v}] = Pick({v}) + h[{v} \ {Pick({v})}]
    BY <2>2
  <2>5. h[{v}] = v
    BY <2>0, <2>3, <2>4
  <2> QED
    BY <1>1, <2>5 DEF h
<1> QED
  BY <1>2, <1>3

(* A sum along an injection, that leaves out only zeroes.                  *)
LEMMA SumAlong ==
  ASSUME NEW f, NEW S, NEW g, NEW T, NEW h, IsFiniteSet(S), IsFiniteSet(T),
         \A x \in S : f[x] \in Int, \A y \in T : h[y] \in S /\ g[y] = f[h[y]],
         \A y, z \in T : h[y] = h[z] => y = z,
         \A x \in S : (\A y \in T : h[y] # x) => f[x] = 0
  PROVE  SumFunctionOnSet(f, S) = SumFunctionOnSet(g, T)
<1> DEFINE F(U) == SumFunctionOnSet(f, U)
           G(V) == SumFunctionOnSet(g, V)
           pre(U) == {y \in T : h[y] \in U}
           B == {U \in SUBSET S : F(U) = G(pre(U))}
<1>1. \A y \in T : g[y] \in Int
  OBVIOUS
<1>2. ASSUME NEW U \in SUBSET S, \A V \in SUBSET U : V # U => V \in B PROVE U \in B
  <2>1. IsFiniteSet(U) /\ F(U) \in Int
    BY FS_Subset, SumIsInt
  <2>2. CASE U = {}
    <3>1. F(U) = 0
      BY <2>1, <2>2, SumStep
    <3>2. G({}) = 0
      BY FS_EmptySet, SumStep
    <3>3. pre(U) = {}
      BY <2>2
    <3> QED
      BY <3>1, <3>2, <3>3
  <2>3. CASE U # {}
    <3>1. PICK x \in U : TRUE
      BY <2>3
    <3> DEFINE V == U \ {x}
    <3>2. V \in SUBSET U /\ V # U /\ F(V) \in Int /\ f[x] \in Int
      BY SumIsInt
    <3>3. F(V) = G(pre(V))
      BY <1>2, <3>2
    <3>4. F(U) = f[x] + F(V)
      BY SumSplit
    <3>5. CASE \E y \in T : h[y] = x
      <4>1. PICK y \in T : h[y] = x
        BY <3>5
      <4>2. y \in pre(U) /\ pre(V) = pre(U) \ {y} /\ pre(U) \in SUBSET T /\ g[y] = f[x]
        BY <4>1
      <4>3. G(pre(U)) = g[y] + G(pre(U) \ {y})
        <5> HIDE DEF pre
        <5> QED
          BY <1>1, <4>2, SumSplit
      <4> HIDE DEF F, G, pre, V
      <4>4. F(U) = G(pre(U))
        BY <3>3, <3>4, <4>2, <4>3
      <4> QED
        BY <4>4 DEF B
    <3>6. CASE \A y \in T : h[y] # x
      <4>1. pre(V) = pre(U) /\ f[x] = 0
        BY <3>6
      <4> HIDE DEF F, G, pre, V
      <4>2. F(U) = G(pre(U))
        BY <3>2, <3>3, <3>4, <4>1
      <4> QED
        BY <4>2 DEF B
    <3> QED
      BY <3>5, <3>6
  <2> QED
    BY <2>2, <2>3
<1>3. S \in B
  <2> HIDE DEF B
  <2> QED
    BY <1>2, SubsetInduction
<1>4. pre(S) = T
  OBVIOUS
<1>5. F(S) = G(pre(S))
  <2> HIDE DEF F, G, pre
  <2> QED
    BY <1>3 DEF B
<1> QED
  BY <1>4, <1>5

(* The bars of a month are its energy and its power. *)
LEMMA BarsAre ==
  ASSUME BillingInv, NEW r \in Billed
  PROVE  LET chart == BreakdownChart(r)
         IN  \A k \in DOMAIN r.months :
               Abs(BarTotal(chart.bars[k]) - r.months[k].bill.energy - r.months[k].bill.power) <= 2
<1> SUFFICES ASSUME NEW k \in DOMAIN r.months
             PROVE  Abs(BarTotal(Bars(r)[k]) - r.months[k].bill.energy - r.months[k].bill.power) <= 2
  BY DEF BreakdownChart
<1> DEFINE b == r.months[k]
           o == r.offer
           m == asked[k]
           n == days[k]
<1>1. /\ o \in Offer /\ m \in Month /\ ValidMonth(m) /\ n \in Int
      /\ b = MonthlyBill(o, m, n)
  <2>1. k \in 1..Len(r.months)
    BY PointsAre, MonthIsMonthlyBill
  <2> QED
    BY <2>1, MonthIsMonthlyBill
<1>2. BarTotal(Bars(r)[k])
        = b.terms.peakTerm + b.terms.midTerm + b.terms.valleyTerm + b.bill.power
  BY DEF Bars, BarTotal
<1>3. b.bill = Bill(Energy(o, m), Power(o, m, n), m.surplus * o.surplus, n, Rate(m), 1)
  BY <1>1 DEF MonthlyBill, CalculateMonthly
<1> DEFINE P == b.terms.peakTerm
           D == b.terms.midTerm
           V == b.terms.valleyTerm
           e == b.bill.energy
           p == b.bill.power
<1>4. p \in Int /\ e \in Int
  <2>1. Energy(o, m) \in Int /\ Power(o, m, n) \in Int /\ 1 * Ticks \in Nat \ {0}
    BY <1>1, TermsAreInts, RatesAssumption
  <2>2. e = Round2(Energy(o, m), 1 * Ticks) /\ p = Round2(Power(o, m, n), 1 * Ticks)
    BY <1>3 DEF Bill
  <2> HIDE DEF e, p, o, m, n
  <2> QED
    BY <2>1, <2>2, RoundNear
<1>5. /\ P \in Int /\ D \in Int /\ V \in Int
      /\ Abs(P + D + V - e) <= IF o.flat THEN 0 ELSE 2
  <2> HIDE DEF o, m, n
  <2> QED
    BY <1>1, TermsAdd
<1>6. Abs(P + D + V - e) <= 2
  <2>1. P + D + V - e \in Int /\ Abs(P + D + V - e) \in Int
    <3> HIDE DEF P, D, V, e
    <3> QED
      BY <1>4, <1>5 DEF Abs
  <2> DEFINE a == Abs(P + D + V - e)
  <2>2. a \in Int /\ a <= IF o.flat THEN 0 ELSE 2
    BY <1>5, <2>1
  <2> HIDE DEF a
  <2>3. a <= 2
    BY <2>2
  <2> QED
    BY <2>3 DEF a
<1>7. P + D + V + p - e - p = P + D + V - e
  <2> HIDE DEF P, D, V, e, p
  <2> QED
    BY <1>4, <1>5
<1> DEFINE a == BarTotal(Bars(r)[k]) - e - p
<1>8. a = P + D + V - e
  <2> HIDE DEF P, D, V, e, p
  <2>1. BarTotal(Bars(r)[k]) = P + D + V + p
    BY <1>2 DEF P, D, V, p
  <2>2. P \in Int /\ D \in Int /\ V \in Int /\ e \in Int /\ p \in Int
    BY <1>4, <1>5
  <2> QED
    BY <2>1, <2>2
<1>9. Abs(a) <= 2
  BY <1>6, <1>8
<1> QED
  BY <1>9

(* The greatest and the least of one. *)
LEMMA MaxOfOne == ASSUME NEW i \in Nat PROVE Max({i}) = i /\ Min({i}) = i
  BY DEF Max, Min

LEMMA ClickedIs ==
  ASSUME NEW names, NEW i \in DOMAIN results, BillingInv, DOMAIN names = DOMAIN results,
         Alone(names, i)
  PROVE  Clicked(results, names, i) = i
<1>1. {j \in DOMAIN results : names[j] = names[i]} = {i}
  BY DEF Alone
<1>2. i \in Nat
  <2>1. DOMAIN results = 1..Len(results)
    BY DEF BillingInv, ResultsInv, IsSeq
  <2> QED
    BY <2>1
<1> QED
  BY <1>1, <1>2, MaxOfOne DEF Clicked

LEMMA DrawerHas ==
  ASSUME NEW i \in DOMAIN results, NEW m, NEW j \in PlacesOf(m), BillingInv, OnTheTable
  PROVE  /\ PlacesOf(m) = {j} /\ i \in Found(results, m)
         /\ TotalOf(results, i, m) = results[i].months[j].bill.total
         /\ TotalOf(results, i, m) \in Int
<1> DEFINE r == results[i]
<1>1. r \in Billed
  <2>1. DOMAIN results = 1..Len(results)
    BY DEF BillingInv, ResultsInv, IsSeq
  <2> QED
    BY <2>1 DEF Billed
<1>2. PlacesOf(m) = {j} /\ j \in 1..Len(asked)
  <2>1. \A a, b \in PlacesOf(m) : a = b
    BY OncePlaced
  <2> QED
    BY <2>1 DEF PlacesOf
<1>3. Min({j}) = j
  <2>1. j \in Nat
    BY DEF PlacesOf
  <2> QED
    BY <2>1, MaxOfOne
<1>4. FindMonthBreakdown(r, m) = j
  <2> HIDE DEF r
  <2> QED
    BY <1>1, <1>2, <1>3, FoundAtPlace
<1>5. TotalOf(results, i, m) = r.months[j].bill.total
  BY <1>4 DEF TotalOf, Breakdown
<1>6. i \in Found(results, m) /\ TotalOf(results, i, m) \in Int
  BY <1>2, TotalIs
<1> QED
  BY <1>2, <1>5, <1>6

(* The line of an offer whose name is its own passes, where the request    *)
(* has the month, through the total that the drawer has of it.             *)
LEMMA LineIs ==
  ASSUME NEW names, NEW today, NEW i \in DOMAIN results, NEW k \in 1..12, NEW m,
         BillingInv, OnTheTable, DOMAIN names = DOMAIN results, Alone(names, i),
         m = RollingMonths(today)[k]
  PROVE  ChartLine(results, names, i, today)[k]
           = IF i \in Found(results, m) THEN {TotalOf(results, i, m)} ELSE {}
<1> DEFINE r == results[i]
<1>1. DOMAIN results = 1..Len(results) /\ r \in Billed
  <2>1. DOMAIN results = 1..Len(results)
    BY DEF BillingInv, ResultsInv, IsSeq
  <2> QED
    BY <2>1 DEF Billed
<1>2. {j \in DOMAIN results : names[j] = names[i]} = {i} /\ Max({i}) = i
  BY <1>1, MaxOfOne DEF Alone
<1>3. PointsOf(r, m) = PlacesOf(m)
  <2> HIDE DEF r
  <2> QED
    BY <1>1, PointsAre
<1>4. ChartLine(results, names, i, today)[k]
        = IF PlacesOf(m) = {} THEN {} ELSE {r.months[Max(PlacesOf(m))].bill.total}
  BY <1>2, <1>3 DEF ChartLine
<1>5. CASE PlacesOf(m) = {}
  <2>1. FindMonthBreakdown(r, m) = 0
    <3> HIDE DEF r
    <3> QED
      BY <1>1, <1>5, FoundAtPlace
  <2> QED
    BY <1>4, <1>5, <2>1 DEF Found
<1>6. CASE PlacesOf(m) # {}
  <2>1. PICK j \in PlacesOf(m) : TRUE
    BY <1>6
  <2>2. /\ PlacesOf(m) = {j} /\ i \in Found(results, m)
        /\ TotalOf(results, i, m) = results[i].months[j].bill.total
    BY DrawerHas
  <2>3. Max({j}) = j
    <3>1. j \in Nat
      BY DEF PlacesOf
    <3> QED
      BY <3>1, MaxOfOne
  <2> QED
    BY <1>4, <1>6, <2>2, <2>3
<1> QED
  BY <1>5, <1>6

(* If the chart shows all of the request, its points are the year.         *)
LEMMA LineAddsUp ==
  ASSUME BillingInv, OnTheTable, NEW names, DOMAIN names = DOMAIN results, NEW today \in Todays,
         NEW i \in DOMAIN results, Alone(names, i),
         NEW line, line = ChartLine(results, names, i, today),
         \A b \in Months(results[i]) : \E k \in 1..12 :
           /\ RollingMonths(today)[k].month = b.input.month
           /\ RollingMonths(today)[k].year = b.input.year
  PROVE  SumFunction([k \in 1..12 |-> SumSet(line[k])]) = results[i].yearTotal
<1> DEFINE r == results[i]
           w == RollingMonths(today)
           T == 1..Len(asked)
           S == 1..12
           f == [k \in S |-> SumSet(line[k])]
           g == MonthTotals(r.months)
           At(j, k) == w[k].month = asked[j].month /\ w[k].year = asked[j].year
           h == [j \in T |-> CHOOSE k \in S : At(j, k)]
<1>1. /\ r \in Billed /\ Len(asked) \in Nat /\ Len(r.months) = Len(asked)
      /\ r.yearTotal = SumFunction(MonthTotals(r.months))
      /\ \A k \in T : r.months[k].input = asked[k]
  <2>1. DOMAIN results = 1..Len(results)
    BY DEF BillingInv, ResultsInv, IsSeq
  <2>2. r \in Billed
    BY <2>1 DEF Billed
  <2> HIDE DEF r
  <2> QED
    BY <2>2, MonthIsMonthlyBill, PointsAre
<1>2. \A j \in T : \E k \in S : At(j, k)
  <2> TAKE j \in T
  <2>1. r.months[j] \in Months(r) /\ r.months[j].input = asked[j]
    BY <1>1 DEF Months
  <2> QED
    BY <2>1
<1>3. \A j \in T : h[j] \in S /\ At(j, h[j])
  <2> HIDE DEF At
  <2> QED
    BY <1>2
<1> HIDE DEF h
<1>4. \A j \in T, k \in S : At(j, k) <=> j \in PlacesOf(w[k])
  BY DEF PlacesOf
<1>5. ASSUME NEW j \in T, NEW k \in S, At(j, k)
      PROVE  f[k] = r.months[j].bill.total /\ f[k] \in Int
  <2> DEFINE m == w[k]
  <2>1. m = RollingMonths(today)[k] /\ j \in PlacesOf(m)
    BY <1>4, <1>5
  <2> HIDE DEF m, f, At, T, g, w
  <2>2. ChartLine(results, names, i, today)[k]
          = IF i \in Found(results, m) THEN {TotalOf(results, i, m)} ELSE {}
    BY <2>1, LineIs
  <2>3. /\ PlacesOf(m) = {j} /\ i \in Found(results, m)
        /\ TotalOf(results, i, m) = results[i].months[j].bill.total
        /\ TotalOf(results, i, m) \in Int
    BY <2>1, DrawerHas
  <2>4. line[k] = {r.months[j].bill.total} /\ r.months[j].bill.total \in Int
    BY <2>2, <2>3
  <2> QED
    BY <2>4, SumOfOne DEF f
<1>6. ASSUME NEW k \in S, \A j \in T : ~At(j, k) PROVE f[k] = 0
  <2> DEFINE m == w[k]
  <2>1. m = RollingMonths(today)[k] /\ PlacesOf(m) = {}
    BY <1>6 DEF PlacesOf
  <2> HIDE DEF m, f, At, T, g, w
  <2>2. FindMonthBreakdown(r, m) = 0
    <3> HIDE DEF r
    <3> QED
      BY <1>1, <2>1, FoundAtPlace
  <2>3. i \notin Found(results, m)
    BY <2>2 DEF Found
  <2>4. ChartLine(results, names, i, today)[k]
          = IF i \in Found(results, m) THEN {TotalOf(results, i, m)} ELSE {}
    BY <2>1, LineIs
  <2>5. line[k] = {}
    BY <2>3, <2>4
  <2> QED
    BY <2>5, SumOfOne DEF f
<1>7. \A k \in S : f[k] \in Int
  <2> HIDE DEF f, At, T
  <2> QED
    BY <1>5, <1>6
<1>8. \A j \in T : g[j] = r.months[j].bill.total
  BY <1>1 DEF MonthTotals
<1>9. \A j \in T : h[j] \in S /\ g[j] = f[h[j]]
  <2> HIDE DEF f, g, At, S, T, r
  <2> QED
    BY <1>3, <1>5, <1>8
<1>10. ASSUME NEW j \in T, NEW k \in T, h[j] = h[k] PROVE j = k
  <2>1. j \in PlacesOf(w[h[j]]) /\ k \in PlacesOf(w[h[j]])
    <3> HIDE DEF At, S, T, w
    <3> QED
      BY <1>3, <1>4, <1>10
  <2> HIDE DEF w
  <2> QED
    BY <2>1, OncePlaced
<1>11. ASSUME NEW k \in S, \A j \in T : h[j] # k PROVE f[k] = 0
  <2>1. ASSUME NEW j \in T, At(j, k) PROVE FALSE
    <3>1. h[j] \in S /\ At(j, h[j])
      BY <1>3
    <3>2. /\ RollingMonths(today)[h[j]].month = RollingMonths(today)[k].month
          /\ RollingMonths(today)[h[j]].year = RollingMonths(today)[k].year
      BY <2>1, <3>1
    <3>3. h[j] = k
      <4> DEFINE c == h[j]
      <4> HIDE DEF c, f, At
      <4>1. c \in 1..12 /\ RollingMonths(today)[c].month = RollingMonths(today)[k].month
            /\ RollingMonths(today)[c].year = RollingMonths(today)[k].year
        BY <3>1, <3>2 DEF c
      <4>2. c = k
        BY <4>1, WindowOnce
      <4> QED
        BY <4>2 DEF c
    <3> QED
      BY <1>11, <3>3
  <2> HIDE DEF f, At, S, T
  <2> QED
    BY <1>6, <2>1
<1>12. IsFiniteSet(S) /\ IsFiniteSet(T)
  BY <1>1, Numbered
<1>13. SumFunctionOnSet(f, S) = SumFunctionOnSet(g, T)
  <2> HIDE DEF f, g, S, T
  <2> QED
    BY <1>7, <1>9, <1>10, <1>11, <1>12, SumAlong
<1>14. DOMAIN f = S /\ DOMAIN g = T
  BY <1>1 DEF MonthTotals
<1> HIDE DEF S, T
<1>15. SumFunction(f) = SumFunction(g)
  <2> HIDE DEF f, g
  <2> QED
    BY <1>13, <1>14 DEF SumFunction
<1> QED
  BY <1>1, <1>15 DEF S

(* The screens agree: what stands on the chart, in the drawer and in the   *)
(* bars is the same, whatever is current, hidden, or shown of the year,    *)
(* because a request has a month once and every result has its months in   *)
(* the order of the request.                                               *)
THEOREM ScreensAgree == Spec => []ViewsAgree
<1>1. BillingInv /\ OnTheTable => ViewsAgree
  <2> SUFFICES ASSUME BillingInv, OnTheTable, NEW names \in [DOMAIN results -> DOMAIN results],
                      NEW today \in Todays, NEW current \in SUBSET DOMAIN results,
                      NEW hidden \in SUBSET DOMAIN results, NEW i \in DOMAIN results
               PROVE
      LET r == results[i]
          lines == Drawn(results, names, today, current, hidden)
          line == lines[i].points
          window == RollingMonths(today)
          shown == {window[k] : k \in 1..12}
          chart == BreakdownChart(r)
      IN  /\ \A k \in DOMAIN r.months :
               Abs(BarTotal(chart.bars[k]) - r.months[k].bill.energy - r.months[k].bill.power) <= 2
          /\ i \in DOMAIN lines <=> names[i] \notin hidden
          /\ Alone(names, i) /\ i \in DOMAIN lines =>
               /\ Clicked(results, names, i) = i
               /\ lines[i].starred <=> lines[i].dashed
               /\ \A k \in 1..12 : line[k] = IF i \in Found(results, window[k])
                                            THEN {TotalOf(results, i, window[k])} ELSE {}
               /\ (\A b \in Months(r) : [month |-> b.input.month, year |-> b.input.year] \in shown)
                    => SumFunction([k \in 1..12 |-> SumSet(line[k])]) = chart.year
    BY Zenon DEF ViewsAgree
  <2> DEFINE r == results[i]
             lines == Drawn(results, names, today, current, hidden)
             window == RollingMonths(today)
  <2>1. r \in Billed
    <3>1. DOMAIN results = 1..Len(results)
      BY DEF BillingInv, ResultsInv, IsSeq
    <3> QED
      BY <3>1 DEF Billed
  <2>2. i \in DOMAIN lines <=> names[i] \notin hidden
    BY DEF Drawn
  <2>3. ASSUME Alone(names, i), i \in DOMAIN lines
        PROVE  /\ Clicked(results, names, i) = i
               /\ lines[i].starred <=> lines[i].dashed
               /\ \A k \in 1..12 : lines[i].points[k] =
                    IF i \in Found(results, window[k]) THEN {TotalOf(results, i, window[k])} ELSE {}
               /\ (\A b \in Months(r) : [month |-> b.input.month, year |-> b.input.year]
                     \in {window[k] : k \in 1..12})
                    => SumFunction([k \in 1..12 |-> SumSet(lines[i].points[k])]) = r.yearTotal
    <3>0. DOMAIN names = DOMAIN results
      OBVIOUS
    <3>1. /\ lines[i].points = ChartLine(results, names, i, today)
          /\ lines[i].dashed = (i \in current)
          /\ lines[i].starred = (Clicked(results, names, i) \in current)
      BY <2>3 DEF Drawn
    <3>2. Clicked(results, names, i) = i
      BY <2>3, <3>0, ClickedIs
    <3>3. ASSUME NEW k \in 1..12
          PROVE  lines[i].points[k] = IF i \in Found(results, window[k])
                                        THEN {TotalOf(results, i, window[k])} ELSE {}
      <4> DEFINE m == window[k]
      <4>1. m = RollingMonths(today)[k]
        OBVIOUS
      <4> HIDE DEF m, lines, window, r
      <4>2. ChartLine(results, names, i, today)[k]
              = IF i \in Found(results, m) THEN {TotalOf(results, i, m)} ELSE {}
        BY <2>3, <3>0, <4>1, LineIs
      <4> QED
        BY <3>1, <4>2 DEF m
    <3>4. ASSUME \A b \in Months(r) : [month |-> b.input.month, year |-> b.input.year]
                   \in {window[k] : k \in 1..12}
          PROVE  SumFunction([k \in 1..12 |-> SumSet(lines[i].points[k])]) = r.yearTotal
      <4>1. ASSUME NEW b \in Months(results[i])
            PROVE  \E k \in 1..12 : /\ RollingMonths(today)[k].month = b.input.month
                                    /\ RollingMonths(today)[k].year = b.input.year
        <5>1. PICK k \in 1..12 : window[k] = [month |-> b.input.month, year |-> b.input.year]
          BY <3>4
        <5> QED
          BY <5>1
      <4> DEFINE line == lines[i].points
      <4>2. line = ChartLine(results, names, i, today)
        BY <3>1
      <4> HIDE DEF line
      <4>3. SumFunction([k \in 1..12 |-> SumSet(line[k])]) = results[i].yearTotal
        BY <2>3, <3>0, <4>1, <4>2, LineAddsUp
      <4> QED
        BY <4>3 DEF line
    <3> QED
      BY <3>1, <3>2, <3>3, <3>4
  <2>4. BreakdownChart(r).year = r.yearTotal
    BY DEF BreakdownChart
  <2> HIDE DEF r
  <2>5. \A k \in DOMAIN r.months :
          Abs(BarTotal(BreakdownChart(r).bars[k]) - r.months[k].bill.energy
              - r.months[k].bill.power) <= 2
    BY <2>1, BarsAre
  <2> HIDE DEF lines, window
  <2> QED
    BY <2>2, <2>3, <2>4, <2>5 DEF r, lines, window
<1> QED
  BY BillingInvariant, AsksTheTable, <1>1, PTL

=============================================================================
