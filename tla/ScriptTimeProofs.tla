-------------------------- MODULE ScriptTimeProofs -------------------------
(***************************************************************************)
(* The times of a script are computed exactly, in every base, for every    *)
(* number of decimals and every literal that has no more digits than there *)
(* are weights; and the timer list keeps its promises when the "time"      *)
(* items of such a script drive it.                                        *)
(***************************************************************************)
EXTENDS ScriptTime, TimerQueueProofs, WellFoundedInduction

(* Induction for sets of numbers: what the proofs about the digits of a    *)
(* literal use.                                                            *)
LEMMA SetInduction ==
  ASSUME NEW T \in SUBSET Nat, 0 \in T, \A n \in T : n + 1 \in T
  PROVE  T = Nat
<1> DEFINE R == OpToRel(<, Nat)
           U == Nat \ T
<1>1. IsWellFoundedOn(R, Nat)
  BY NatLessThanWellFounded
<1>2. \A x, y \in Nat : <<x, y>> \in R <=> x < y
  BY DEF OpToRel
<1> HIDE DEF R
<1>3. ASSUME U # {} PROVE FALSE
  <2>1. PICK x \in U : \A y \in U : ~(<<y, x>> \in R)
    BY <1>1, <1>3, WFMin
  <2>2. x \in Nat /\ x # 0
    OBVIOUS
  <2>3. x - 1 \in Nat /\ x - 1 < x
    BY <2>2
  <2>4. x - 1 \in T
    BY <2>1, <2>3, <1>2, <2>2
  <2>5. x - 1 + 1 \in T
    BY <2>4
  <2> QED BY <2>2, <2>5
<1> QED BY <1>3

(* The first n values of the recursion from b along g.                     *)
Runs(f, n, b, g) ==
  f[0] = b /\ \A i \in 0..(n - 1) : f[i + 1] = g[i][f[i]]

(* f is the recursion from b along g.                                      *)
Solves(f, b, g) == f[0] = b /\ \A i \in Nat : f[i + 1] = g[i][f[i]]

(* A recursion has a solution: the functions that the model defines by     *)
(* recursion are what their definitions say.                               *)
LEMMA PrimitiveRecursion ==
  ASSUME NEW S, NEW b \in S, NEW g \in [Nat -> [S -> S]]
  PROVE  \E f \in [Nat -> S] : Solves(f, b, g)
<1> DEFINE T == {n \in Nat : \E f \in [0..n -> S] : Runs(f, n, b, g)}
<1>0. \A n : n \in T <=> n \in Nat /\ \E f \in [0..n -> S] : Runs(f, n, b, g)
  OBVIOUS
<1> HIDE DEF T
<1>1. 0 \in T
  <2> DEFINE h == [i \in 0..0 |-> b]
  <2>1. h \in [0..0 -> S] /\ Runs(h, 0, b, g)
    BY DEF Runs
  <2> QED BY <2>1, <1>0
<1>2. ASSUME NEW n \in T PROVE n + 1 \in T
  <2>0. n \in Nat
    BY <1>0
  <2>1. PICK f \in [0..n -> S] : Runs(f, n, b, g)
    BY <1>0
  <2> DEFINE h == [i \in 0..(n + 1) |-> IF i = n + 1 THEN g[n][f[n]] ELSE f[i]]
  <2>2. f[n] \in S /\ g[n][f[n]] \in S
    BY <2>0
  <2>3. h \in [0..(n + 1) -> S]
    BY <2>0, <2>2
  <2>4. \A i \in 0..n : h[i] = f[i]
    BY <2>0
  <2>5. h[n + 1] = g[n][f[n]] /\ 0..(n + 1 - 1) = 0..n
    BY <2>0
  <2> HIDE DEF h
  <2>6. ASSUME NEW i \in 0..n PROVE h[i + 1] = g[i][h[i]]
    <3>1. CASE i = n
      BY <2>4, <2>5, <3>1
    <3>2. CASE i # n
      <4>1. i \in 0..(n - 1) /\ i + 1 \in 0..n
        BY <2>0, <3>2
      <4> QED BY <2>1, <2>4, <4>1 DEF Runs
    <3> QED BY <3>1, <3>2
  <2>7. h[0] = b
    BY <2>0, <2>1, <2>4 DEF Runs
  <2>8. Runs(h, n + 1, b, g)
    <3>1. \A i \in 0..(n + 1 - 1) : h[i + 1] = g[i][h[i]]
      BY <2>5, <2>6
    <3> QED BY <2>0, <2>7, <3>1 DEF Runs
  <2> QED BY <1>0, <2>0, <2>3, <2>8
<1>3. T = Nat
  <2>1. T \in SUBSET Nat
    BY <1>0
  <2> QED BY <1>1, <1>2, <2>1, SetInduction
<1> DEFINE h == [n \in Nat |-> CHOOSE f \in [0..n -> S] : Runs(f, n, b, g)]
           v == [n \in Nat |-> h[n][n]]
<1>4. ASSUME NEW n \in Nat PROVE h[n] \in [0..n -> S] /\ Runs(h[n], n, b, g)
  <2>1. \E f \in [0..n -> S] : Runs(f, n, b, g)
    BY <1>0, <1>3
  <2> QED BY <2>1
<1> HIDE DEF h
<1>5. ASSUME NEW n \in Nat
      PROVE  \A i \in 0..n : h[n + 1][i] = h[n][i]
  <2> DEFINE Q == {i \in Nat : i <= n => h[n + 1][i] = h[n][i]}
  <2>0. Runs(h[n], n, b, g) /\ Runs(h[n + 1], n + 1, b, g)
    BY <1>4
  <2>1. 0 \in Q
    BY <2>0 DEF Runs
  <2>2. ASSUME NEW i \in Q PROVE i + 1 \in Q
    <3>1. SUFFICES ASSUME i + 1 <= n PROVE h[n + 1][i + 1] = h[n][i + 1]
      OBVIOUS
    <3>2. i \in 0..(n - 1) /\ i \in 0..(n + 1 - 1) /\ h[n + 1][i] = h[n][i]
      BY <3>1
    <3> QED BY <2>0, <3>2 DEF Runs
  <2>3. Q \in SUBSET Nat
    OBVIOUS
  <2> HIDE DEF Q
  <2>4. Q = Nat
    BY <2>1, <2>2, <2>3, SetInduction
  <2> QED BY <2>4 DEF Q
<1>6. \A n \in Nat : v[n] = h[n][n]
  OBVIOUS
<1>7. v \in [Nat -> S]
  <2>1. \A n \in Nat : h[n][n] \in S
    BY <1>4
  <2> QED BY <2>1
<1> HIDE DEF v
<1>8. v[0] = b
  BY <1>4, <1>6 DEF Runs
<1>9. ASSUME NEW i \in Nat PROVE v[i + 1] = g[i][v[i]]
  <2>1. h[i + 1][i] = h[i][i]
    BY <1>5
  <2>2. Runs(h[i + 1], i + 1, b, g) /\ i \in 0..(i + 1 - 1)
    BY <1>4
  <2>3. h[i + 1][i + 1] = g[i][h[i + 1][i]]
    BY <2>2 DEF Runs
  <2>4. v[i + 1] = h[i + 1][i + 1]
    BY <1>6
  <2> QED BY <1>6, <2>1, <2>3, <2>4
<1>10. Solves(v, b, g)
  BY <1>8, <1>9 DEF Solves
<1> QED BY <1>7, <1>10

(* The same for numbers.                                                   *)
LEMMA NatRecursion ==
  ASSUME NEW b \in Nat, NEW g \in [Nat -> [Nat -> Nat]]
  PROVE  \E f \in [Nat -> Nat] : Solves(f, b, g)
  BY PrimitiveRecursion, Zenon

-----------------------------------------------------------------------------

(* Powers of the base.                                                     *)
LEMMA PowerFacts ==
  /\ Power \in [Nat -> Nat]
  /\ Power[0] = 1
  /\ \A n \in Nat : Power[n + 1] = Base * Power[n]
<1> DEFINE g == [i \in Nat |-> [x \in Nat |-> Base * x]]
           Rhs(f) == [n \in Nat |-> IF n = 0 THEN 1 ELSE Base * f[n - 1]]
<1>1. Base \in Nat
  BY BaseAssumption
<1>2. g \in [Nat -> [Nat -> Nat]] /\ \A i, x \in Nat : g[i][x] = Base * x
  BY <1>1
<1> HIDE DEF g
<1>3a. PICK f \in [Nat -> Nat] : Solves(f, 1, g)
  BY <1>2, NatRecursion
<1>3. f[0] = 1 /\ \A i \in Nat : f[i + 1] = Base * f[i]
  BY <1>2, <1>3a DEF Solves
<1>4. f = Rhs(f)
  <2>1. ASSUME NEW n \in Nat PROVE f[n] = Rhs(f)[n]
    <3>1. CASE n = 0
      BY <1>3, <3>1
    <3>2. CASE n # 0
      <4>1. n - 1 \in Nat /\ n - 1 + 1 = n /\ f[n - 1] \in Nat
        BY <3>2
      <4> QED BY <1>3, <3>2, <4>1
    <3> QED BY <3>1, <3>2
  <2> QED BY <2>1
<1>5. Power = Rhs(Power)
  BY <1>4 DEF Power
<1>6. Power[0] = 1 /\ \A n \in Nat : Power[n + 1] = Base * Power[n]
  <2>1. \A n \in Nat : Power[n] = IF n = 0 THEN 1 ELSE Base * Power[n - 1]
    BY <1>5
  <2>2. ASSUME NEW n \in Nat PROVE Power[n + 1] = Base * Power[n]
    <3>1. n + 1 \in Nat /\ n + 1 # 0 /\ n + 1 - 1 = n
      OBVIOUS
    <3> QED BY <2>1, <3>1
  <2> QED BY <2>1, <2>2
<1>7. DOMAIN Power = Nat /\ Power = [n \in Nat |-> Power[n]]
  BY <1>5
<1> DEFINE T == {n \in Nat : Power[n] \in Nat}
<1>8. T = Nat
  <2>1. T \in SUBSET Nat /\ 0 \in T
    BY <1>6
  <2>2. ASSUME NEW n \in T PROVE n + 1 \in T
    BY <1>1, <1>6
  <2> HIDE DEF T
  <2> QED BY <2>1, <2>2, SetInduction
<1>9. \A n \in Nat : Power[n] \in Nat
  BY <1>8
<1>10. Power \in [Nat -> Nat]
  BY <1>7, <1>9
<1> QED BY <1>6, <1>10

(* No power is zero.                                                       *)
LEMMA PowerPositive == \A n \in Nat : Power[n] \in Nat \ {0}
<1> DEFINE T == {n \in Nat : Power[n] \in Nat \ {0}}
<1>1. Base \in Nat \ {0}
  BY BaseAssumption
<1>2. T \in SUBSET Nat /\ 0 \in T
  BY PowerFacts
<1>3. ASSUME NEW n \in T PROVE n + 1 \in T
  <2>1. Power[n + 1] = Base * Power[n] /\ Power[n] \in Nat \ {0}
    BY PowerFacts
  <2> QED BY <1>1, <2>1
<1> HIDE DEF T
<1>4. T = Nat
  BY <1>2, <1>3, SetInduction
<1> QED BY <1>4 DEF T

(* Multiplying powers adds their exponents.                                *)
LEMMA PowerSum == \A m, n \in Nat : Power[m + n] = Power[m] * Power[n]
<1> SUFFICES ASSUME NEW m \in Nat PROVE \A n \in Nat : Power[m + n] = Power[m] * Power[n]
  OBVIOUS
<1> DEFINE T == {n \in Nat : Power[m + n] = Power[m] * Power[n]}
<1>1. Base \in Nat /\ Power[m] \in Nat
  BY BaseAssumption, PowerFacts
<1>2. T \in SUBSET Nat /\ 0 \in T
  BY <1>1, PowerFacts
<1>3. ASSUME NEW n \in T PROVE n + 1 \in T
  <2>1. n \in Nat /\ Power[n] \in Nat /\ Power[m + n] = Power[m] * Power[n]
    BY PowerFacts
  <2>2. m + n \in Nat /\ m + (n + 1) = m + n + 1
    BY <2>1
  <2>3. Power[m + (n + 1)] = Base * Power[m + n] /\ Power[n + 1] = Base * Power[n]
    BY <2>1, <2>2, PowerFacts
  <2>4. Base * (Power[m] * Power[n]) = Power[m] * (Base * Power[n])
    BY <1>1, <2>1
  <2>5. Power[m + (n + 1)] = Power[m] * Power[n + 1]
    BY <2>1, <2>3, <2>4
  <2> QED BY <2>1, <2>5
<1> HIDE DEF T
<1>4. T = Nat
  BY <1>2, <1>3, SetInduction
<1> QED BY <1>4 DEF T

(* A jiffy has as many micro-jiffies as there are weights.                 *)
LEMMA UJPower == UJ = Power[2 * HalfDigits] /\ K \in Nat \ {0} /\ UJ = K * K
<1>1. HalfDigits \in Nat /\ UJ = K * K /\ K = Power[HalfDigits]
  BY BaseAssumption DEF K
<1>2. HalfDigits + HalfDigits = 2 * HalfDigits
  BY <1>1
<1>3. Power[HalfDigits + HalfDigits] = Power[HalfDigits] * Power[HalfDigits]
  BY <1>1, PowerSum
<1> QED BY <1>1, <1>2, <1>3, PowerPositive

(* Division undoes multiplication, with a remainder.                       *)
LEMMA DivExact ==
  ASSUME NEW q \in Nat, NEW d \in Nat \ {0}, NEW r \in 0..(d - 1)
  PROVE  (q * d + r) \div d = q /\ (q * d + r) % d = r
<1> DEFINE a == q * d + r
<1>1. a \in Nat /\ a \div d \in Nat /\ a % d \in 0..(d - 1)
  OBVIOUS
<1>2. a = d * (a \div d) + (a % d)
  OBVIOUS
<1> DEFINE p == a \div d
<1>3. p \in Nat /\ d * (p - q) = r - (a % d)
  BY <1>1, <1>2
<1> HIDE DEF a, p
<1>4. ASSUME p > q PROVE FALSE
  BY <1>1, <1>3, <1>4
<1>5. ASSUME p < q PROVE FALSE
  BY <1>1, <1>3, <1>5
<1>6. p = q
  BY <1>3, <1>4, <1>5
<1>7. a \div d = q
  BY <1>6 DEF p
<1>8. a % d = r
  BY <1>1, <1>2, <1>7 DEF a
<1> QED BY <1>7, <1>8 DEF a

(* Dividing a number with a remainder.                                     *)
LEMMA DivMod ==
  ASSUME NEW a \in Nat, NEW d \in Nat \ {0}
  PROVE  a \div d \in Nat /\ a % d \in 0..(d - 1) /\ a = (a \div d) * d + (a % d)
<1>1. a \div d \in Int /\ a % d \in 0..(d - 1)
  OBVIOUS
<1>2. a = (a \div d) * d + (a % d)
  BY <1>1
<1>3. a \div d >= 0
  BY <1>1, <1>2
<1> QED BY <1>1, <1>2, <1>3

(* The value of atoj: it is divided by the base from decimal to decimal.   *)
LEMMA WeightFacts ==
  /\ Weight \in [Nat -> Nat]
  /\ Weight[0] = UJ
  /\ \A n \in Nat : Weight[n + 1] = Weight[n] \div Base
<1> DEFINE g == [i \in Nat |-> [x \in Nat |-> x \div Base]]
           Rhs(f) == [n \in Nat |-> IF n = 0 THEN UJ ELSE f[n - 1] \div Base]
<1>1. Base \in Nat \ {0} /\ UJ \in Nat
  BY BaseAssumption, UJAssumption
<1>2. \A x \in Nat : x \div Base \in Nat
  BY <1>1, DivMod
<1>3. g \in [Nat -> [Nat -> Nat]] /\ \A i, x \in Nat : g[i][x] = x \div Base
  BY <1>2
<1> HIDE DEF g
<1>4. PICK f \in [Nat -> Nat] : Solves(f, UJ, g)
  BY <1>1, <1>3, NatRecursion
<1>5. f[0] = UJ /\ \A i \in Nat : f[i + 1] = f[i] \div Base
  BY <1>3, <1>4 DEF Solves
<1>6. f = Rhs(f)
  <2>1. ASSUME NEW n \in Nat PROVE f[n] = Rhs(f)[n]
    <3>1. CASE n = 0
      BY <1>5, <3>1
    <3>2. CASE n # 0
      <4>1. n - 1 \in Nat /\ n - 1 + 1 = n
        BY <3>2
      <4> QED BY <1>5, <3>2, <4>1
    <3> QED BY <3>1, <3>2
  <2> QED BY <2>1
<1>7. Weight = Rhs(Weight)
  BY <1>6 DEF Weight
<1>8. Weight[0] = UJ /\ \A n \in Nat : Weight[n + 1] = Weight[n] \div Base
  <2>1. \A n \in Nat : Weight[n] = IF n = 0 THEN UJ ELSE Weight[n - 1] \div Base
    BY <1>7
  <2>2. ASSUME NEW n \in Nat PROVE Weight[n + 1] = Weight[n] \div Base
    <3>1. n + 1 \in Nat /\ n + 1 # 0 /\ n + 1 - 1 = n
      OBVIOUS
    <3> QED BY <2>1, <3>1
  <2> QED BY <2>1, <2>2
<1>9. Weight = [n \in Nat |-> Weight[n]]
  BY <1>7
<1> DEFINE T == {n \in Nat : Weight[n] \in Nat}
<1>10. T \in SUBSET Nat /\ 0 \in T
  BY <1>1, <1>8
<1>11. ASSUME NEW n \in T PROVE n + 1 \in T
  <2>1. n \in Nat /\ Weight[n] \in Nat /\ n + 1 \in Nat
    OBVIOUS
  <2>2. Weight[n + 1] \in Nat
    BY <1>2, <1>8, <2>1
  <2> QED BY <2>1, <2>2
<1>12. T = Nat
  <2> HIDE DEF T
  <2> QED BY <1>10, <1>11, SetInduction
<1>13. \A n \in Nat : Weight[n] \in Nat
  BY <1>12
<1> HIDE DEF T
<1>14. Weight \in [Nat -> Nat]
  BY <1>9, <1>13
<1> QED BY <1>8, <1>14

(* The weights are exact: as long as there are any, decimal i counts UJ    *)
(* divided by the power i of the base, and nothing is lost on the way.     *)
LEMMA WeightExact ==
  \A i \in 0..(2 * HalfDigits) : Weight[i] * Power[i] = UJ
<1> DEFINE N == 2 * HalfDigits
           T == {i \in Nat : i <= N => Weight[i] = Power[N - i]}
<1>0. N \in Nat /\ UJ = Power[N] /\ Base \in Nat \ {0}
  BY BaseAssumption, UJPower
<1> HIDE DEF N
<1>1. T \in SUBSET Nat /\ 0 \in T
  BY <1>0, WeightFacts
<1>2. ASSUME NEW i \in T PROVE i + 1 \in T
  <2>1. SUFFICES ASSUME i + 1 <= N PROVE Weight[i + 1] = Power[N - (i + 1)]
    OBVIOUS
  <2>2. i \in Nat /\ i <= N /\ Weight[i] = Power[N - i]
    BY <1>0, <2>1
  <2> DEFINE j == N - (i + 1)
  <2>3. j \in Nat /\ j + 1 = N - i
    BY <1>0, <2>1, <2>2
  <2>4. Power[j + 1] = Base * Power[j] /\ Power[j] \in Nat
    BY <2>3, PowerFacts
  <2>5. Weight[i + 1] = Weight[i] \div Base
    BY <2>2, WeightFacts
  <2> HIDE DEF j
  <2>6. 0 \in 0..(Base - 1) /\ Base * Power[j] = Power[j] * Base + 0
    BY <1>0, <2>4
  <2>7. (Power[j] * Base + 0) \div Base = Power[j]
    BY <1>0, <2>4, <2>6, DivExact
  <2>8. Weight[i + 1] = Power[j]
    BY <2>2, <2>3, <2>4, <2>5, <2>6, <2>7
  <2> QED BY <2>8 DEF j
<1>3. T = Nat
  <2> HIDE DEF T
  <2> QED BY <1>1, <1>2, SetInduction
<1>4. ASSUME NEW i \in 0..N PROVE Weight[i] * Power[i] = UJ
  <2>1. Weight[i] = Power[N - i] /\ i \in Nat /\ N - i \in Nat /\ (N - i) + i = N
    BY <1>0, <1>3
  <2>2. Power[(N - i) + i] = Power[N - i] * Power[i]
    BY <2>1, PowerSum
  <2> QED BY <1>0, <2>1, <2>2
<1> QED BY <1>4 DEF N

-----------------------------------------------------------------------------

(* The decimals of a literal.                                              *)
Decimals == Seq(0..(Base - 1))

LEMMA DecimalFacts ==
  ASSUME NEW frac \in Decimals
  PROVE  Len(frac) \in Nat /\ \A i \in 1..Len(frac) : frac[i] \in Nat
<1>1. Len(frac) \in Nat
  BY LenProperties DEF Decimals
<1>2. \A i \in 1..Len(frac) : frac[i] \in 0..(Base - 1)
  BY ElementOfSeq DEF Decimals
<1>3. \A d \in 0..(Base - 1) : d \in Nat
  BY BaseAssumption
<1> QED BY <1>1, <1>2, <1>3

(* A recursion over the decimals has a solution, too.                      *)
LEMMA BoundedRecursion ==
  ASSUME NEW n \in Nat, NEW b \in Nat, NEW g \in [Nat -> [Nat -> Nat]]
  PROVE  \E f \in [0..n -> Nat] :
           /\ f[0] = b
           /\ \A i \in 1..n : f[i] = g[i - 1][f[i - 1]]
<1>1. PICK h \in [Nat -> Nat] : Solves(h, b, g)
  BY NatRecursion
<1>2. h[0] = b /\ \A i \in Nat : h[i + 1] = g[i][h[i]]
  BY <1>1 DEF Solves
<1> DEFINE f == [i \in 0..n |-> h[i]]
<1>3. f \in [0..n -> Nat] /\ f[0] = b
  <2>1. \A i \in 0..n : h[i] \in Nat
    OBVIOUS
  <2>2. 0 \in 0..n
    OBVIOUS
  <2> QED BY <1>2, <2>1, <2>2
<1>4. ASSUME NEW i \in 1..n PROVE f[i] = g[i - 1][f[i - 1]]
  <2>1. i - 1 \in Nat /\ i - 1 + 1 = i /\ i \in 0..n /\ i - 1 \in 0..n
    OBVIOUS
  <2>2. h[i - 1 + 1] = g[i - 1][h[i - 1]]
    BY <1>2, <2>1
  <2>3. f[i] = h[i] /\ f[i - 1] = h[i - 1]
    BY <2>1
  <2> QED BY <2>1, <2>2, <2>3
<1> HIDE DEF f
<1> QED BY <1>3, <1>4

(* res.ujiffies of atoj, decimal by decimal.                               *)
LEMMA UjiffiesFacts ==
  ASSUME NEW frac \in Decimals
  PROVE  /\ Ujiffies(frac)[0] = 0
         /\ \A i \in 1..Len(frac) :
              Ujiffies(frac)[i] = Ujiffies(frac)[i - 1] + Weight[i] * frac[i]
<1> DEFINE n == Len(frac)
           term == [i \in Nat |-> IF i \in 1..n THEN Weight[i] * frac[i] ELSE 0]
           g == [i \in Nat |-> [x \in Nat |-> x + term[i + 1]]]
           Rhs(f) == [i \in 0..n |-> IF i = 0 THEN 0 ELSE f[i - 1] + Weight[i] * frac[i]]
<1>1. n \in Nat /\ \A i \in 1..n : frac[i] \in Nat /\ Weight[i] \in Nat
  BY DecimalFacts, WeightFacts
<1> HIDE DEF n
<1>2. term \in [Nat -> Nat] /\ \A i \in 1..n : term[i] = Weight[i] * frac[i]
  BY <1>1
<1> HIDE DEF term
<1>3. g \in [Nat -> [Nat -> Nat]] /\ \A i, x \in Nat : g[i][x] = x + term[i + 1]
  BY <1>2
<1> HIDE DEF g
<1>4. PICK f \in [0..n -> Nat] :
        f[0] = 0 /\ \A i \in 1..n : f[i] = g[i - 1][f[i - 1]]
  BY <1>1, <1>3, BoundedRecursion
<1>5. \A i \in 1..n : f[i] = f[i - 1] + Weight[i] * frac[i]
  <2> SUFFICES ASSUME NEW i \in 1..n PROVE f[i] = f[i - 1] + Weight[i] * frac[i]
    OBVIOUS
  <2>1. i - 1 \in Nat /\ i - 1 + 1 = i /\ i - 1 \in 0..n
    BY <1>1
  <2>2. f[i - 1] \in Nat
    BY <2>1
  <2>3. g[i - 1][f[i - 1]] = f[i - 1] + term[i]
    BY <1>3, <2>1, <2>2
  <2> QED BY <1>2, <1>4, <2>3
<1>6. f = Rhs(f)
  <2>1. ASSUME NEW i \in 0..n PROVE f[i] = Rhs(f)[i]
    <3>1. CASE i = 0
      BY <1>4, <3>1
    <3>2. CASE i # 0
      <4>1. i \in 1..n
        BY <1>1, <3>2
      <4> QED BY <1>5, <3>2, <4>1
    <3> QED BY <3>1, <3>2
  <2> QED BY <2>1
<1> DEFINE u == Ujiffies(frac)
<1>7. u = Rhs(u)
  BY <1>6 DEF Ujiffies, n
<1> HIDE DEF u
<1>8. \A i \in 0..n : u[i] = IF i = 0 THEN 0 ELSE u[i - 1] + Weight[i] * frac[i]
  BY <1>7
<1>9. u[0] = 0 /\ \A i \in 1..n : u[i] = u[i - 1] + Weight[i] * frac[i]
  <2>1. 0 \in 0..n /\ \A i \in 1..n : i \in 0..n /\ i # 0
    BY <1>1
  <2> QED BY <1>8, <2>1
<1> QED BY <1>9 DEF u, n

(* The digits of a literal as an integer, decimal by decimal.              *)
LEMMA DigitsFacts ==
  ASSUME NEW int \in Nat, NEW frac \in Decimals
  PROVE  /\ Digits(int, frac)[0] = int
         /\ \A i \in 1..Len(frac) :
              Digits(int, frac)[i] = Digits(int, frac)[i - 1] * Base + frac[i]
<1> DEFINE n == Len(frac)
           term == [i \in Nat |-> IF i \in 1..n THEN frac[i] ELSE 0]
           g == [i \in Nat |-> [x \in Nat |-> x * Base + term[i + 1]]]
           Rhs(f) == [i \in 0..n |-> IF i = 0 THEN int ELSE f[i - 1] * Base + frac[i]]
<1>1. n \in Nat /\ Base \in Nat /\ \A i \in 1..n : frac[i] \in Nat
  BY DecimalFacts, BaseAssumption
<1> HIDE DEF n
<1>2. term \in [Nat -> Nat] /\ \A i \in 1..n : term[i] = frac[i]
  BY <1>1
<1> HIDE DEF term
<1>3. g \in [Nat -> [Nat -> Nat]] /\ \A i, x \in Nat : g[i][x] = x * Base + term[i + 1]
  BY <1>1, <1>2
<1> HIDE DEF g
<1>4. PICK f \in [0..n -> Nat] :
        f[0] = int /\ \A i \in 1..n : f[i] = g[i - 1][f[i - 1]]
  BY <1>1, <1>3, BoundedRecursion
<1>5. \A i \in 1..n : f[i] = f[i - 1] * Base + frac[i]
  <2> SUFFICES ASSUME NEW i \in 1..n PROVE f[i] = f[i - 1] * Base + frac[i]
    OBVIOUS
  <2>1. i - 1 \in Nat /\ i - 1 + 1 = i /\ i - 1 \in 0..n
    BY <1>1
  <2>2. f[i - 1] \in Nat
    BY <2>1
  <2>3. g[i - 1][f[i - 1]] = f[i - 1] * Base + term[i]
    BY <1>3, <2>1, <2>2
  <2> QED BY <1>2, <1>4, <2>3
<1>6. f = Rhs(f)
  <2>1. ASSUME NEW i \in 0..n PROVE f[i] = Rhs(f)[i]
    <3>1. CASE i = 0
      BY <1>4, <3>1
    <3>2. CASE i # 0
      <4>1. i \in 1..n
        BY <1>1, <3>2
      <4> QED BY <1>5, <3>2, <4>1
    <3> QED BY <3>1, <3>2
  <2> QED BY <2>1
<1> DEFINE v == Digits(int, frac)
<1>7. v = Rhs(v)
  BY <1>6 DEF Digits, n
<1> HIDE DEF v
<1>8. \A i \in 0..n : v[i] = IF i = 0 THEN int ELSE v[i - 1] * Base + frac[i]
  BY <1>7
<1>9. v[0] = int /\ \A i \in 1..n : v[i] = v[i - 1] * Base + frac[i]
  <2>1. 0 \in 0..n /\ \A i \in 1..n : i \in 0..n /\ i # 0
    BY <1>1
  <2> QED BY <1>8, <2>1
<1> QED BY <1>9 DEF v, n

(* atoj is exact: the pair that it makes of an integer and of decimals     *)
(* that all have a weight is the number that the digits denote.            *)
LEMMA AtojExact ==
  ASSUME NEW int \in Nat, NEW frac \in Decimals, Len(frac) <= 2 * HalfDigits
  PROVE  /\ Ujiffies(frac)[Len(frac)] \in Nat
         /\ Digits(int, frac)[Len(frac)] \in Nat
         /\ Digits(int, frac)[Len(frac)] * UJ
              = (int * UJ + Ujiffies(frac)[Len(frac)]) * Power[Len(frac)]
<1> DEFINE n == Len(frac)
           u == Ujiffies(frac)
           v == Digits(int, frac)
           T == {j \in Nat : j <= n => /\ u[j] \in Nat
                                       /\ v[j] \in Nat
                                       /\ v[j] * UJ = (int * UJ + u[j]) * Power[j]}
<1>1. /\ n \in Nat /\ n <= 2 * HalfDigits /\ HalfDigits \in Nat
      /\ Base \in Nat /\ UJ \in Nat
      /\ \A i \in 1..n : frac[i] \in Nat
  BY DecimalFacts, BaseAssumption, UJAssumption
<1>2. u[0] = 0 /\ \A i \in 1..n : u[i] = u[i - 1] + Weight[i] * frac[i]
  BY UjiffiesFacts
<1>3. v[0] = int /\ \A i \in 1..n : v[i] = v[i - 1] * Base + frac[i]
  BY DigitsFacts
<1> HIDE DEF n, u, v
<1>4. T \in SUBSET Nat /\ 0 \in T
  <2>1. Power[0] = 1
    BY PowerFacts
  <2>2. u[0] \in Nat /\ v[0] \in Nat /\ v[0] * UJ = (int * UJ + u[0]) * Power[0]
    BY <1>1, <1>2, <1>3, <2>1
  <2> QED BY <2>2
<1>5. ASSUME NEW j \in T PROVE j + 1 \in T
  <2>1. SUFFICES ASSUME j + 1 <= n
                 PROVE  /\ u[j + 1] \in Nat
                        /\ v[j + 1] \in Nat
                        /\ v[j + 1] * UJ = (int * UJ + u[j + 1]) * Power[j + 1]
    OBVIOUS
  <2>2. j \in Nat /\ j <= n /\ j + 1 \in 1..n /\ j + 1 - 1 = j /\ j + 1 \in 0..(2 * HalfDigits)
    BY <1>1, <2>1
  <2>3. u[j] \in Nat /\ v[j] \in Nat /\ v[j] * UJ = (int * UJ + u[j]) * Power[j]
    BY <2>2
  <2> HIDE DEF T
  <2>4. PICK d \in Nat : d = frac[j + 1]
    BY <1>1, <2>2
  <2>5. PICK w \in Nat : w = Weight[j + 1]
    BY <2>2, WeightFacts
  <2>6. PICK p \in Nat : p = Power[j]
    BY <2>2, PowerFacts
  <2>7. Power[j + 1] = Base * p /\ w * (Base * p) = UJ
    <3>1. Power[j + 1] = Base * p
      BY <2>2, <2>6, PowerFacts
    <3>2. Weight[j + 1] * Power[j + 1] = UJ
      BY <2>2, WeightExact
    <3> QED BY <2>5, <3>1, <3>2
  <2>8. u[j + 1] = u[j] + w * d /\ v[j + 1] = v[j] * Base + d
    BY <1>2, <1>3, <2>2, <2>4, <2>5
  <2>9. u[j + 1] \in Nat /\ v[j + 1] \in Nat
    <3>1. PICK a \in Nat : a = u[j]
      BY <2>3
    <3>2. PICK b \in Nat : b = v[j]
      BY <2>3
    <3>3. a + w * d \in Nat /\ b * Base + d \in Nat
      BY <1>1
    <3> QED BY <2>8, <3>1, <3>2, <3>3
  <2>10. (v[j] * Base + d) * UJ = (int * UJ + (u[j] + w * d)) * (Base * p)
    <3>1. PICK a \in Nat, b \in Nat : a = u[j] /\ b = v[j]
      BY <2>3
    <3>2. PICK c \in Nat : c = int * UJ + a
      BY <1>1
    <3>3. b * UJ = c * p
      BY <2>3, <2>6, <3>1, <3>2
    <3>4. (b * Base + d) * UJ = Base * (b * UJ) + d * UJ
      BY <1>1
    <3>5. (c + w * d) * (Base * p) = Base * (c * p) + d * (w * (Base * p))
      BY <1>1
    <3>6. (b * Base + d) * UJ = (c + w * d) * (Base * p)
      BY <2>7, <3>3, <3>4, <3>5
    <3>7. int * UJ + (u[j] + w * d) = c + w * d
      BY <1>1, <3>1, <3>2
    <3> QED BY <3>1, <3>6, <3>7
  <2> QED BY <2>7, <2>8, <2>9, <2>10
<1>6. T = Nat
  <2> HIDE DEF T
  <2> QED BY <1>4, <1>5, SetInduction
<1>7. u[n] \in Nat /\ v[n] \in Nat /\ v[n] * UJ = (int * UJ + u[n]) * Power[n]
  BY <1>1, <1>6
<1> QED BY <1>7 DEF n, u, v

(* The decimals of atoj stay below one unit, so that they never carry into *)
(* the integer part.                                                       *)
LEMMA UjiffiesBelowUnit ==
  ASSUME NEW frac \in Decimals, Len(frac) <= 2 * HalfDigits
  PROVE  Ujiffies(frac)[Len(frac)] \in 0..(UJ - 1)
<1> DEFINE n == Len(frac)
           u == Ujiffies(frac)
           T == {j \in Nat : j <= n => u[j] \in Nat /\ u[j] + Weight[j] <= UJ}
<1>1. /\ n \in Nat /\ n <= 2 * HalfDigits /\ HalfDigits \in Nat
      /\ Base \in Nat \ {0, 1} /\ UJ \in Nat \ {0}
      /\ \A i \in 1..n : frac[i] \in 0..(Base - 1)
  BY DecimalFacts, BaseAssumption, UJAssumption, ElementOfSeq DEF Decimals
<1>2. u[0] = 0 /\ \A i \in 1..n : u[i] = u[i - 1] + Weight[i] * frac[i]
  BY UjiffiesFacts
<1> HIDE DEF n, u
<1>3. T \in SUBSET Nat /\ 0 \in T
  <2>1. u[0] \in Nat /\ u[0] + Weight[0] <= UJ
    BY <1>1, <1>2, WeightFacts
  <2> QED BY <2>1
<1>4. ASSUME NEW j \in T PROVE j + 1 \in T
  <2>1. SUFFICES ASSUME j + 1 <= n
                 PROVE  u[j + 1] \in Nat /\ u[j + 1] + Weight[j + 1] <= UJ
    OBVIOUS
  <2>2. j \in Nat /\ j <= n /\ j + 1 \in 1..n /\ j + 1 - 1 = j
    BY <1>1, <2>1
  <2>3. u[j] \in Nat /\ u[j] + Weight[j] <= UJ
    BY <2>2
  <2> HIDE DEF T
  <2>4. PICK d \in 0..(Base - 1) : d = frac[j + 1]
    BY <1>1, <2>2
  <2>5. PICK w \in Nat, x \in Nat : w = Weight[j + 1] /\ x = Weight[j]
    <3>1. Weight[j + 1] \in Nat /\ Weight[j] \in Nat
      BY <2>2, WeightFacts
    <3> QED BY <3>1
  <2>6. w = x \div Base
    BY <2>2, <2>5, WeightFacts
  <2>7. w * Base <= x
    <3>1. x % Base \in 0..(Base - 1) /\ x = (x \div Base) * Base + (x % Base)
      BY <1>1, DivMod
    <3> QED BY <1>1, <2>6, <3>1
  <2>8. w * d + w <= w * Base /\ w * d \in Nat
    <3>1. PICK e \in Nat : Base = d + 1 + e
      <4>1. Base - d - 1 \in Nat /\ Base = d + 1 + (Base - d - 1)
        BY <1>1
      <4> QED BY <4>1
    <3>2. d \in Nat
      BY <1>1
    <3>3. w * (d + 1 + e) = w * d + w + w * e /\ w * e \in Nat /\ w * d \in Nat
      BY <3>2
    <3> QED BY <3>1, <3>2, <3>3
  <2>9. u[j + 1] = u[j] + w * d
    BY <1>2, <2>2, <2>4, <2>5
  <2>10. PICK y \in Nat : y = w * d
    BY <2>8
  <2>11. PICK z \in Nat : z = w * Base
    BY <1>1
  <2>12. u[j] + y + w <= UJ
    <3>1. u[j] + x <= UJ
      BY <2>3, <2>5
    <3>2. y + w <= z /\ z <= x
      BY <2>7, <2>8, <2>10, <2>11
    <3> QED BY <1>1, <2>3, <3>1, <3>2
  <2> QED BY <2>3, <2>5, <2>9, <2>10, <2>12
<1>5. T = Nat
  <2> HIDE DEF T
  <2> QED BY <1>3, <1>4, SetInduction
<1>6. u[n] \in Nat /\ u[n] + Weight[n] <= UJ
  BY <1>1, <1>5
<1> HIDE DEF T
<1>7. Weight[n] \in Nat \ {0}
  <2>1. Weight[n] \in Nat /\ Power[n] \in Nat /\ Weight[n] * Power[n] = UJ
    <3>1. n \in 0..(2 * HalfDigits)
      BY <1>1
    <3> QED BY <1>1, <3>1, WeightFacts, PowerFacts, WeightExact
  <2> QED BY <1>1, <2>1
<1>8. u[n] \in 0..(UJ - 1)
  BY <1>1, <1>6, <1>7
<1> QED BY <1>8 DEF n, u

-----------------------------------------------------------------------------

(* Division of equal products: x over y is q with a remainder below one.   *)
LEMMA DivScaled ==
  ASSUME NEW x \in Nat, NEW y \in Nat \ {0}, NEW q \in Nat, NEW r \in Nat,
         x = q * y + r, r < y
  PROVE  x \div y = q
<1>1. r \in 0..(y - 1)
  OBVIOUS
<1>2. (q * y + r) \div y = q
  BY <1>1, DivExact
<1> QED BY <1>2

(* The prefixes, for the number m of micro-units in a units and u of them, *)
(* and the digits w over the power p that say the same.                    *)
LEMMA PrefixM ==
  ASSUME NEW m \in Nat, NEW w \in Nat, NEW p \in Nat \ {0}, w * UJ = m * p
  PROVE  (w * (UJ * UJ * UJ)) \div (UJ * p) = m * UJ
<1>1. UJ \in Nat \ {0}
  BY UJAssumption
<1>2. w * (UJ * UJ * UJ) = (w * UJ) * (UJ * UJ)
  BY <1>1
<1>3. (m * p) * (UJ * UJ) = (m * UJ) * (UJ * p) + 0
  BY <1>1
<1>4. m * UJ \in Nat /\ UJ * p \in Nat \ {0} /\ w * (UJ * UJ * UJ) \in Nat
  BY <1>1
<1>5. 0 \in Nat /\ 0 < UJ * p
  BY <1>4
<1>6. w * (UJ * UJ * UJ) = (m * UJ) * (UJ * p) + 0
  BY <1>2, <1>3
<1> QED BY <1>4, <1>5, <1>6, DivScaled

LEMMA PrefixK ==
  ASSUME NEW m \in Nat, NEW w \in Nat, NEW p \in Nat \ {0}, w * UJ = m * p
  PROVE  (w * (UJ * UJ * K)) \div (UJ * p) = m * K
<1>1. UJ \in Nat \ {0} /\ K \in Nat \ {0}
  BY UJAssumption, UJPower
<1>2. w * (UJ * UJ * K) = (w * UJ) * (UJ * K)
  BY <1>1
<1>3. (m * p) * (UJ * K) = (m * K) * (UJ * p) + 0
  BY <1>1
<1>4. m * K \in Nat /\ UJ * p \in Nat \ {0} /\ w * (UJ * UJ * K) \in Nat
  BY <1>1
<1>5. 0 \in Nat /\ 0 < UJ * p
  BY <1>4
<1>6. w * (UJ * UJ * K) = (m * K) * (UJ * p) + 0
  BY <1>2, <1>3
<1> QED BY <1>4, <1>5, <1>6, DivScaled

LEMMA PrefixNone ==
  ASSUME NEW m \in Nat, NEW w \in Nat, NEW p \in Nat \ {0}, w * UJ = m * p
  PROVE  (w * (UJ * UJ)) \div (UJ * p) = m
<1>1. UJ \in Nat \ {0}
  BY UJAssumption
<1>2. w * (UJ * UJ) = (w * UJ) * UJ
  BY <1>1
<1>3. (m * p) * UJ = m * (UJ * p) + 0
  BY <1>1
<1>4. UJ * p \in Nat \ {0} /\ w * (UJ * UJ) \in Nat
  BY <1>1
<1>5. 0 \in Nat /\ 0 < UJ * p
  BY <1>4
<1>6. w * (UJ * UJ) = m * (UJ * p) + 0
  BY <1>2, <1>3
<1> QED BY <1>4, <1>5, <1>6, DivScaled

LEMMA PrefixMilli ==
  ASSUME NEW m \in Nat, NEW w \in Nat, NEW p \in Nat \ {0}, w * UJ = m * p
  PROVE  (w * (UJ * K)) \div (UJ * p) = m \div K
<1>1. UJ \in Nat \ {0} /\ K \in Nat \ {0} /\ UJ = K * K
  BY UJAssumption, UJPower
<1>2. PICK q \in Nat, r \in 0..(K - 1) : q = m \div K /\ m = q * K + r
  <2>1. m \div K \in Nat /\ m % K \in 0..(K - 1) /\ m = (m \div K) * K + (m % K)
    BY <1>1, DivMod
  <2> QED BY <2>1
<1>3. r \in Nat /\ r < K
  BY <1>1
<1>4. w * (UJ * K) = (w * UJ) * K
  BY <1>1
<1>5. ((q * K + r) * p) * K = q * ((K * K) * p) + (r * p) * K
  BY <1>1, <1>3
<1>6. w * (UJ * K) = q * (UJ * p) + (r * p) * K
  BY <1>1, <1>2, <1>4, <1>5
<1>7. (r * p) * K \in Nat /\ UJ * p \in Nat \ {0} /\ w * (UJ * K) \in Nat
  BY <1>1, <1>3
<1>8. (r * p) * K < UJ * p
  <2>1. PICK e \in Nat : K = r + 1 + e
    <3>1. K - r - 1 \in Nat /\ K = r + 1 + (K - r - 1)
      BY <1>1, <1>3
    <3> QED BY <3>1
  <2>2. PICK s \in Nat \ {0} : s = p * K
    BY <1>1
  <2>3. UJ * p = K * s /\ (r * p) * K = r * s
    BY <1>1, <1>3, <2>2
  <2>4. (r + 1 + e) * s = r * s + s + e * s /\ e * s \in Nat /\ r * s \in Nat
    BY <1>3
  <2> QED BY <2>1, <2>2, <2>3, <2>4
<1> QED BY <1>2, <1>6, <1>7, <1>8, DivScaled

LEMMA PrefixMicro ==
  ASSUME NEW a \in Nat, NEW u \in 0..(UJ - 1), NEW w \in Nat, NEW p \in Nat \ {0},
         w * UJ = (a * UJ + u) * p
  PROVE  (w * UJ) \div (UJ * p) = a
<1>1. UJ \in Nat \ {0} /\ u \in Nat /\ u < UJ
  BY UJAssumption
<1>2. (a * UJ + u) * p = a * (UJ * p) + u * p
  BY <1>1
<1>3. u * p \in Nat /\ UJ * p \in Nat \ {0} /\ w * UJ \in Nat
  BY <1>1
<1>4. u * p < UJ * p
  <2>1. PICK e \in Nat : UJ = u + 1 + e
    <3>1. UJ - u - 1 \in Nat /\ UJ = u + 1 + (UJ - u - 1)
      BY <1>1
    <3> QED BY <3>1
  <2>2. (u + 1 + e) * p = u * p + p + e * p /\ e * p \in Nat
    BY <1>1
  <2> QED BY <1>3, <2>1, <2>2
<1> QED BY <1>2, <1>3, <1>4, DivScaled

-----------------------------------------------------------------------------

(* si_prefix: the time of the pair it makes of a units and u micro-units.  *)
LEMMA SiPrefixScales ==
  ASSUME NEW a \in Nat, NEW u \in Nat, NEW m \in Nat, m = a * UJ + u
  PROVE  /\ \A prefix : si_prefix(JV(a, u), prefix) \in Jiffval
         /\ jiffvaltod(si_prefix(JV(a, u), "M")) = m * UJ
         /\ jiffvaltod(si_prefix(JV(a, u), "k")) = m * K
         /\ jiffvaltod(si_prefix(JV(a, u), "m")) = m \div K
         /\ jiffvaltod(si_prefix(JV(a, u), "u")) = a
         /\ jiffvaltod(si_prefix(JV(a, u), "none")) = m
<1>1. UJ \in Nat \ {0} /\ K \in Nat \ {0} /\ UJ = K * K
  BY UJAssumption, UJPower
<1>2. PICK q \in Nat, r \in Nat : q = u \div K /\ r = u % K /\ u = q * K + r
  <2>1. u \div K \in Nat /\ u % K \in 0..(K - 1) /\ u = (u \div K) * K + (u % K)
    BY <1>1, DivMod
  <2>2. u % K \in Nat
    BY <1>1, <2>1
  <2> QED BY <2>1, <2>2
<1>3. PICK b \in Nat, c \in Nat : b = a \div K /\ c = a % K /\ a = b * K + c
  <2>1. a \div K \in Nat /\ a % K \in 0..(K - 1) /\ a = (a \div K) * K + (a % K)
    BY <1>1, DivMod
  <2>2. a % K \in Nat
    BY <1>1, <2>1
  <2> QED BY <2>1, <2>2
<1>4. /\ si_prefix(JV(a, u), "M") = JV(m, 0)
      /\ si_prefix(JV(a, u), "k") = JV(a * K + q, r * K)
      /\ si_prefix(JV(a, u), "m") = JV(b, q + c * K)
      /\ si_prefix(JV(a, u), "u") = JV(0, a)
      /\ si_prefix(JV(a, u), "none") = JV(a, u)
  BY <1>2, <1>3 DEF si_prefix, JV
<1>5. \A x, y \in Nat : JV(x, y) \in Jiffval /\ jiffvaltod(JV(x, y)) = x * UJ + y
  BY DEF JV, Jiffval, jiffvaltod
<1>6. a * K + q \in Nat /\ r * K \in Nat /\ q + c * K \in Nat
  BY <1>1
<1>7. ASSUME NEW prefix PROVE si_prefix(JV(a, u), prefix) \in Jiffval
  <2>1. \/ prefix \in {"M", "k", "m", "u"}
        \/ si_prefix(JV(a, u), prefix) = JV(a, u)
    BY DEF si_prefix
  <2> QED BY <1>4, <1>5, <1>6, <2>1
<1>8. jiffvaltod(JV(m, 0)) = m * UJ
  BY <1>1, <1>5
<1>9. jiffvaltod(JV(a * K + q, r * K)) = m * K
  <2>1. jiffvaltod(JV(a * K + q, r * K)) = (a * K + q) * UJ + r * K
    BY <1>5, <1>6
  <2>2. (a * K + q) * (K * K) + r * K = (a * (K * K) + (q * K + r)) * K
    BY <1>1
  <2> QED BY <1>1, <1>2, <2>1, <2>2
<1>10. jiffvaltod(JV(b, q + c * K)) = m \div K
  <2>1. jiffvaltod(JV(b, q + c * K)) = b * UJ + (q + c * K)
    BY <1>5, <1>6
  <2>2. b * (K * K) + (q + c * K) = (b * K + c) * K + q
    BY <1>1
  <2>3. m = (a * K + q) * K + r
    <3>1. (a * K + q) * K + r = a * (K * K) + (q * K + r)
      BY <1>1
    <3> QED BY <1>1, <1>2, <3>1
  <2>4. r < K
    BY <1>1, <1>2
  <2>5. m \div K = a * K + q
    BY <1>1, <1>6, <2>3, <2>4, DivScaled
  <2> QED BY <1>1, <1>3, <2>1, <2>2, <2>5
<1>11. jiffvaltod(JV(0, a)) = a /\ jiffvaltod(JV(a, u)) = m
  BY <1>1, <1>5
<1> QED BY <1>4, <1>7, <1>8, <1>9, <1>10, <1>11

(* stoj multiplies and normalizes, jv_add adds and carries: neither loses  *)
(* a micro-jiffy.                                                          *)
LEMMA StojExact ==
  ASSUME NEW t \in Jiffval
  PROVE  stoj(t) \in Jiffval /\ jiffvaltod(stoj(t)) = jiffvaltod(t) * HZ
<1>1. UJ \in Nat \ {0} /\ HZ \in Nat
  BY UJAssumption, BaseAssumption
<1>2. PICK v \in Nat : v = jiffvaltod(t) * HZ
  <2>1. t.jiffies \in Nat /\ t.ujiffies \in Nat
    BY DEF Jiffval
  <2>2. PICK j \in Nat, u \in Nat : j = t.jiffies /\ u = t.ujiffies
    BY <2>1
  <2>3. (j * UJ + u) * HZ \in Nat
    BY <1>1
  <2> QED BY <2>2, <2>3 DEF jiffvaltod
<1>3. v \div UJ \in Nat /\ v % UJ \in Nat /\ v = (v \div UJ) * UJ + (v % UJ)
  BY <1>1, DivMod
<1>4. stoj(t) = JV(v \div UJ, v % UJ)
  BY <1>2 DEF stoj, dtojiffval
<1> QED BY <1>2, <1>3, <1>4 DEF JV, Jiffval, jiffvaltod

LEMMA JvAddExact ==
  ASSUME NEW s \in Jiffval, NEW t \in Jiffval
  PROVE  /\ jv_add(s, t) \in Jiffval
         /\ jiffvaltod(jv_add(s, t)) = jiffvaltod(s) + jiffvaltod(t)
<1>1. UJ \in Nat \ {0}
  BY UJAssumption
<1>2. PICK j \in Nat, u \in Nat : j = s.jiffies /\ u = s.ujiffies
  BY DEF Jiffval
<1>3. PICK k \in Nat, v \in Nat : k = t.jiffies /\ v = t.ujiffies
  BY DEF Jiffval
<1>4. PICK c \in Nat : /\ c = IF u + v = 0 THEN 0 ELSE (u + v - 1) \div UJ
                       /\ u + v - c * UJ \in Nat
  <2>1. CASE u + v = 0
    BY <1>1, <2>1
  <2>2. CASE u + v # 0
    <3>1. u + v - 1 \in Nat
      BY <2>2
    <3>2. PICK x \in Nat : x = u + v - 1
      BY <3>1
    <3>3. /\ x \div UJ \in Nat /\ x % UJ \in Nat
          /\ x = (x \div UJ) * UJ + (x % UJ)
      BY <1>1, DivMod
    <3>4. PICK y \in Nat, z \in Nat : y = x \div UJ /\ z = x % UJ
      BY <3>3
    <3>5. u + v - y * UJ = z + 1
      BY <1>1, <3>2, <3>3, <3>4
    <3> QED BY <2>2, <3>2, <3>4, <3>5
  <2> QED BY <2>1, <2>2
<1>5. jv_add(s, t) = JV(j + k + c, u + v - c * UJ)
  <2>1. s = JV(j, u) /\ t = JV(k, v)
    BY <1>2, <1>3 DEF JV, Jiffval
  <2>2. jv_add(JV(j, u), JV(k, v)) = JV(j + k + c, u + v - c * UJ)
    BY <1>1, <1>4 DEF jv_add, JV
  <2> QED BY <2>1, <2>2
<1>6. (j + k + c) * UJ + (u + v - c * UJ) = (j * UJ + u) + (k * UJ + v)
  BY <1>1
<1> QED BY <1>2, <1>3, <1>4, <1>5, <1>6 DEF JV, Jiffval, jiffvaltod

(* res.ujiffies is a number, whatever the number of decimals.              *)
LEMMA UjiffiesTyped ==
  ASSUME NEW frac \in Decimals
  PROVE  Ujiffies(frac)[Len(frac)] \in Nat
<1> DEFINE n == Len(frac)
           u == Ujiffies(frac)
           T == {j \in Nat : j <= n => u[j] \in Nat}
<1>1. n \in Nat /\ \A i \in 1..n : frac[i] \in Nat /\ Weight[i] \in Nat
  BY DecimalFacts, WeightFacts
<1>2. u[0] = 0 /\ \A i \in 1..n : u[i] = u[i - 1] + Weight[i] * frac[i]
  BY UjiffiesFacts
<1> HIDE DEF n, u
<1>3. T \in SUBSET Nat /\ 0 \in T
  BY <1>2
<1>4. ASSUME NEW j \in T PROVE j + 1 \in T
  <2>1. SUFFICES ASSUME j + 1 <= n PROVE u[j + 1] \in Nat
    OBVIOUS
  <2>2. j + 1 \in 1..n /\ j + 1 - 1 = j /\ u[j] \in Nat
    BY <1>1, <2>1
  <2>3. PICK d \in Nat, w \in Nat, x \in Nat : d = frac[j + 1] /\ w = Weight[j + 1] /\ x = u[j]
    <3>1. frac[j + 1] \in Nat /\ Weight[j + 1] \in Nat /\ u[j] \in Nat
      BY <1>1, <2>2
    <3> QED BY <3>1
  <2>4. u[j + 1] = x + w * d
    BY <1>2, <2>2, <2>3
  <2> QED BY <2>4
<1>5. T = Nat
  <2> HIDE DEF T
  <2> QED BY <1>3, <1>4, SetInduction
<1>6. u[n] \in Nat
  BY <1>1, <1>5
<1> QED BY <1>6 DEF n, u

-----------------------------------------------------------------------------

(* What the lexer makes of a literal is a time, however many digits the    *)
(* literal has.                                                            *)
LEMMA TokensTyped == Tokens \subseteq Jiffval
<1> SUFFICES ASSUME NEW lit \in Literals PROVE TokUjiffies(lit) \in Jiffval
  BY DEF Tokens
<1>1. PICK a \in Nat : a = lit.int
  BY LiteralAssumption DEF Literals
<1>2. lit.frac \in Decimals
  BY LiteralAssumption DEF Literals, Decimals
<1>3. PICK u \in Nat : u = Ujiffies(lit.frac)[Len(lit.frac)]
  BY <1>2, UjiffiesTyped
<1>4. atoj(lit) = JV(a, u) /\ UJ \in Nat /\ a * UJ + u \in Nat
  BY <1>1, <1>3, UJAssumption DEF atoj
<1>5. si_prefix(JV(a, u), lit.prefix) \in Jiffval
  BY <1>4, SiPrefixScales
<1>6. stoj(si_prefix(JV(a, u), lit.prefix)) \in Jiffval
  BY <1>5, StojExact
<1> QED BY <1>4, <1>5, <1>6 DEF TokUjiffies

(* A literal is the time that it says.                                     *)
LEMMA LiteralExact ==
  ASSUME NEW lit \in Literals, Len(lit.frac) <= 2 * HalfDigits
  PROVE  jiffvaltod(TokUjiffies(lit)) = Says(lit)
<1> DEFINE n == Len(lit.frac)
<1>1. PICK a \in Nat : a = lit.int
  BY LiteralAssumption DEF Literals
<1>2. lit.frac \in Decimals /\ n \in Nat
  BY LiteralAssumption, DecimalFacts DEF Literals, Decimals
<1>3. PICK u \in 0..(UJ - 1) : u = Ujiffies(lit.frac)[n]
  BY <1>2, UjiffiesBelowUnit
<1>4. u \in Nat /\ UJ \in Nat /\ HZ \in Nat
  BY UJAssumption, BaseAssumption
<1>5. PICK m \in Nat : m = a * UJ + u
  BY <1>4
<1>6. PICK p \in Nat \ {0} : p = Power[n]
  BY <1>2, PowerPositive
<1>7. PICK w \in Nat : w = Digits(lit.int, lit.frac)[n] /\ w * UJ = m * p
  BY <1>1, <1>2, <1>3, <1>5, <1>6, AtojExact
<1> DEFINE P == CASE lit.prefix = "M" -> UJ * UJ * UJ
                  [] lit.prefix = "k" -> UJ * UJ * K
                  [] lit.prefix = "m" -> UJ * K
                  [] lit.prefix = "u" -> UJ
                  [] OTHER            -> UJ * UJ
           micro == (w * P) \div (UJ * p)
           jv == si_prefix(JV(a, u), lit.prefix)
<1>8. Says(lit) = IF lit.unit = "s" THEN micro * HZ ELSE micro
  BY <1>6, <1>7 DEF Says
<1>9. TokUjiffies(lit) = IF lit.unit = "s" THEN stoj(jv) ELSE jv
  BY <1>1, <1>3 DEF TokUjiffies, atoj
<1>10. jv \in Jiffval
  BY <1>4, <1>5, SiPrefixScales
<1>11. jiffvaltod(jv) = micro
  <2>0. lit.prefix \in {"M", "k", "m", "u", "none"}
    BY LiteralAssumption DEF Literals
  <2>1. CASE lit.prefix = "M"
    <3>1. jiffvaltod(jv) = m * UJ
      BY <1>4, <1>5, <2>1, SiPrefixScales
    <3>2. (w * (UJ * UJ * UJ)) \div (UJ * p) = m * UJ
      BY <1>7, PrefixM
    <3> QED BY <2>1, <3>1, <3>2
  <2>2. CASE lit.prefix = "k"
    <3>1. jiffvaltod(jv) = m * K
      BY <1>4, <1>5, <2>2, SiPrefixScales
    <3>2. (w * (UJ * UJ * K)) \div (UJ * p) = m * K
      BY <1>7, PrefixK
    <3> QED BY <2>2, <3>1, <3>2
  <2>3. CASE lit.prefix = "m"
    <3>1. jiffvaltod(jv) = m \div K
      BY <1>4, <1>5, <2>3, SiPrefixScales
    <3>2. (w * (UJ * K)) \div (UJ * p) = m \div K
      BY <1>7, PrefixMilli
    <3> QED BY <2>3, <3>1, <3>2
  <2>4. CASE lit.prefix = "u"
    <3>1. jiffvaltod(jv) = a
      BY <1>4, <1>5, <2>4, SiPrefixScales
    <3>2. (w * UJ) \div (UJ * p) = a
      BY <1>5, <1>7, PrefixMicro
    <3> QED BY <2>4, <3>1, <3>2
  <2>5. CASE lit.prefix = "none"
    <3>1. jiffvaltod(jv) = m
      BY <1>4, <1>5, <2>5, SiPrefixScales
    <3>2. (w * (UJ * UJ)) \div (UJ * p) = m
      BY <1>7, PrefixNone
    <3> QED BY <2>5, <3>1, <3>2
  <2> QED BY <2>0, <2>1, <2>2, <2>3, <2>4, <2>5
<1> HIDE DEF micro, jv
<1>12. jiffvaltod(stoj(jv)) = micro * HZ
  BY <1>10, <1>11, StojExact
<1> QED BY <1>8, <1>9, <1>11, <1>12

(* The time of a pair is a number of micro-jiffies.                        *)
LEMMA ValueTyped == \A t \in Jiffval : jiffvaltod(t) \in Nat
<1> SUFFICES ASSUME NEW t \in Jiffval PROVE jiffvaltod(t) \in Nat
  OBVIOUS
<1>1. PICK j \in Nat, u \in Nat : j = t.jiffies /\ u = t.ujiffies
  BY DEF Jiffval
<1>2. j * UJ + u \in Nat
  BY UJAssumption
<1> QED BY <1>1, <1>2 DEF jiffvaltod

-----------------------------------------------------------------------------

(* A "time" item is advance_time called with some time.                    *)
LEMMA TimeItemAdvances ==
  ASSUME IInv, NEW jv \in Tokens, NEW relative \in BOOLEAN, TimeItem(jv, relative)
  PROVE  \E t \in Jiffval : AdvanceTime(t)
<1>1. jv \in Jiffval /\ now \in Jiffval
  BY TokensTyped DEF IInv, TypeOK
<1>2. AbsTime(jv, relative) \in Jiffval
  BY <1>1, JvAddExact DEF AbsTime
<1> QED BY <1>2 DEF TimeItem

(* The timer list under a script: the times that the literals make, from   *)
(* now on or not, keep the list in order, duplicate-free and ahead of the  *)
(* clock, whatever the timers do on the way.                               *)
THEOREM ScriptKeepsList == TimeSpec => []IInv
<1>1. Init => IInv
  BY DEF Init, IInv, TypeOK, PCs, Entry, Jiffval, JV, Sorted, Ordered, NoneOverdue,
         NoneBefore, TargetAhead, Distinct, Stamped
<1>2. IInv /\ [TimeNext]_vars => IInv'
  <2> SUFFICES ASSUME IInv, [TimeNext]_vars PROVE IInv'
    OBVIOUS
  <2>1. ASSUME NEW jv \in Tokens, NEW relative \in BOOLEAN, TimeItem(jv, relative)
        PROVE  IInv'
    BY <2>1, TimeItemAdvances, TimeKeepsIInv
  <2>2. CASE [Next]_vars
    BY <2>2, NextPreserves
  <2> QED BY <2>1, <2>2 DEF TimeNext
<1> QED BY <1>1, <1>2, PTL DEF TimeSpec

(* No "time" item and no timer turns the clock back, and when a "time"     *)
(* item is done, every timer up to its time has run.                       *)
THEOREM ScriptClock == TimeSpec => ClockMonotone /\ AdvanceComplete
<1> DEFINE A == pc = "loop" /\ pc' = "script" =>
                  /\ now' = target
                  /\ \A i \in 1..Len(timers') : timer_lt(now', timers'[i])
<1>1. IInv /\ [TimeNext]_vars => [timer_le(now, now')]_vars /\ [A]_vars
  <2> SUFFICES ASSUME IInv, TimeNext PROVE timer_le(now, now') /\ A
    OBVIOUS
  <2>1. CASE Next
    BY <2>1, ClockStep, CompleteStep
  <2>2. ASSUME NEW jv \in Tokens, NEW relative \in BOOLEAN, TimeItem(jv, relative)
        PROVE  timer_le(now, now') /\ A
    <3>1. now' = now /\ pc = "script" /\ now \in Jiffval
      BY <2>2 DEF TimeItem, AdvanceTime, IInv, TypeOK
    <3> QED BY <3>1 DEF timer_le, Jiffval
  <2> QED BY <2>1, <2>2 DEF TimeNext
<1> QED BY <1>1, ScriptKeepsList, PTL DEF TimeSpec, ClockMonotone, AdvanceComplete

(* Where the callers of the list may pass any time, a script's "time"      *)
(* items are calls like any other, so that the calendar is what the script *)
(* sees of the list.                                                       *)
THEOREM ScriptSeesCalendar ==
  ASSUME Times = Jiffval
  PROVE  TimeSpec => ImplementsCalendar
<1>1. IInv /\ [TimeNext]_vars => [Next]_vars
  <2> SUFFICES ASSUME IInv, TimeNext PROVE Next
    OBVIOUS
  <2>1. ASSUME NEW jv \in Tokens, NEW relative \in BOOLEAN, TimeItem(jv, relative)
        PROVE  Next
    BY <2>1, TimeItemAdvances DEF Next
  <2> QED BY <2>1 DEF TimeNext
<1>2. TimeSpec => Spec
  BY <1>1, ScriptKeepsList, PTL DEF TimeSpec, Spec
<1> QED BY <1>2, CalendarImplemented, PTL

(* The time that a "time" item advances to is the time that the script     *)
(* says, in every base, for every literal whose decimals all have a        *)
(* weight, with every prefix and both units, and whatever the clock says   *)
(* when the time is relative to it.                                        *)
THEOREM TimesAsWritten == TimeSpec => []TargetAsWritten
<1>1. IInv => TargetAsWritten
  <2> SUFFICES ASSUME IInv, NEW lit \in Literals, Len(lit.frac) <= 2 * HalfDigits,
                      NEW relative \in BOOLEAN
               PROVE  jiffvaltod(AbsTime(TokUjiffies(lit), relative)) =
                        Says(lit) + (IF relative THEN jiffvaltod(now) ELSE 0)
    BY DEF TargetAsWritten, Written
  <2>1. now \in Jiffval /\ TokUjiffies(lit) \in Jiffval
    BY TokensTyped DEF IInv, TypeOK, Tokens
  <2>2. PICK v \in Nat : v = jiffvaltod(TokUjiffies(lit))
    BY <2>1, ValueTyped
  <2>3. PICK c \in Nat : c = jiffvaltod(now)
    BY <2>1, ValueTyped
  <2>4. Says(lit) = v
    BY <2>2, LiteralExact
  <2>5. CASE relative
    <3>1. jiffvaltod(jv_add(now, TokUjiffies(lit))) = c + v
      BY <2>1, <2>2, <2>3, JvAddExact
    <3> QED BY <2>3, <2>4, <2>5, <3>1 DEF AbsTime
  <2>6. CASE ~relative
    BY <2>2, <2>4, <2>6 DEF AbsTime
  <2> QED BY <2>5, <2>6
<1> QED BY <1>1, ScriptKeepsList, PTL

=============================================================================
