--------------------------- MODULE DifficultyProofs ---------------------------
(***************************************************************************)
(* What module Difficulty quotes against the exact formula, for floats of  *)
(* any width that the amounts are in the range of.                         *)
(*                                                                         *)
(* Near rounds a number to Precision bits, and Round is Near of the number *)
(* that it is given (RoundIs).  All floats of a configuration are written  *)
(* with one exponent E that is below all of theirs: then they are          *)
(* integers, and an operation is Near of the exact one on integers.        *)
(***************************************************************************)
EXTENDS Difficulty, BasicLemmas

-----------------------------------------------------------------------------
(* Integers                                                                *)

\* What \div and % are of each other.
LEMMA DivIs ==
  ASSUME NEW a \in Nat, NEW u \in Nat \ {0}
  PROVE  a \div u \in Nat /\ a % u \in 0..(u - 1) /\ a = u * (a \div u) + (a % u)
OBVIOUS

\* Products and order.
LEMMA TimesLeq ==
  ASSUME NEW a \in Int, NEW b \in Int, NEW c \in Nat, a <= b
  PROVE  a * c <= b * c
OBVIOUS

\* A positive factor keeps the sign.
LEMMA TimesSign ==
  ASSUME NEW a \in Int, NEW c \in Nat \ {0}
  PROVE  (a >= 0 <=> a * c >= 0) /\ (a = 0 <=> a * c = 0)
<1>1. CASE a >= 0
  <2>1. a # 0 => 1 * c <= a * c
    BY <1>1, TimesLeq
  <2>2. a = 0 => a * c = 0
    OBVIOUS
  <2> QED BY <1>1, <2>1, <2>2
<1>2. CASE a < 0
  <2>1. a * c <= (-1) * c
    BY <1>2, TimesLeq
  <2> QED BY <1>2, <2>1
<1> QED BY <1>1, <1>2

\* A factor is cancelled, strictly.
LEMMA TimesLess ==
  ASSUME NEW a \in Int, NEW b \in Int, NEW c \in Nat \ {0}, a * c < b * c
  PROVE  a < b
BY TimesLeq

\* A factor is cancelled.
LEMMA TimesCancel ==
  ASSUME NEW a \in Int, NEW b \in Int, NEW c \in Nat \ {0}, a * c <= b * c
  PROVE  a <= b
<1>1. b < a => b + 1 <= a
  OBVIOUS
<1>2. b < a => (b + 1) * c <= a * c
  BY <1>1, TimesLeq
<1>3. (b + 1) * c = b * c + c
  OBVIOUS
<1> QED BY <1>2, <1>3

\* The quotient and the remainder are the only ones.
LEMMA DivUnique ==
  ASSUME NEW a \in Nat, NEW u \in Nat \ {0}, NEW k \in Int, NEW r \in 0..(u - 1), a = u * k + r
  PROVE  a \div u = k /\ a % u = r
<1> DEFINE d == a \div u
           m == a % u
<1>1. d \in Nat /\ m \in 0..(u - 1) /\ a = u * d + m
  BY DivIs
<1> HIDE DEF d, m
<1>2. CASE d < k
  <2>1. (d + 1) * u <= k * u
    BY <1>1, <1>2, TimesLeq
  <2>2. (d + 1) * u = u * d + u /\ k * u = u * k
    BY <1>1
  <2> QED BY <1>1, <2>1, <2>2
<1>3. CASE k < d
  <2>1. (k + 1) * u <= d * u
    BY <1>1, <1>3, TimesLeq
  <2>2. (k + 1) * u = u * k + u /\ d * u = u * d
    BY <1>1
  <2> QED BY <1>1, <2>1, <2>2
<1>4. CASE d = k
  BY <1>1, <1>4 DEF d, m
<1> QED BY <1>1, <1>2, <1>3, <1>4

-----------------------------------------------------------------------------
(* The width of an integer                                                 *)

\* The absolute value.
LEMMA AbsIs ==
  ASSUME NEW n \in Int
  PROVE  Abs(n) \in Nat /\ Abs(-n) = Abs(n) /\ (n \in Nat => Abs(n) = n) /\ (n # 0 => Abs(n) # 0)
BY DEF Abs

\* The number of bits of n is the least power of two above it.
LEMMA BitsIs ==
  ASSUME NEW n \in Int
  PROVE  /\ Bits(n) \in Nat
         /\ Abs(n) < TwoTo[Bits(n)]
         /\ n = 0 => Bits(n) = 0
         /\ n # 0 => Bits(n) - 1 \in Nat /\ TwoTo[Bits(n) - 1] <= Abs(n)
<1> DEFINE a == Abs(n)
           Is(k) == a < TwoTo[k] /\ (k = 0 \/ TwoTo[k - 1] <= a)
           Above == {k \in Nat : a < TwoTo[k]}
<1>1. a \in Nat /\ (n # 0 <=> a # 0)
  BY DEF Abs
<1> HIDE DEF a
<1>2. a \in Above
  BY <1>1, TwoToType
<1>3. PICK k \in Above : \A j \in Above : k <= j
  <2>1. Above \in SUBSET Nat /\ Above # {}
    BY <1>2
  <2> HIDE DEF Above
  <2> QED BY <2>1, LeastElement
<1>4. k \in 0..a
  BY <1>1, <1>2, <1>3
<1>5. Is(k)
  <2>1. k \in Nat /\ a < TwoTo[k]
    BY <1>3
  <2>2. CASE k # 0
    <3>1. k - 1 \in Nat /\ k - 1 \notin Above
      BY <1>3, <2>1, <2>2
    <3>2. TwoTo[k - 1] <= a
      BY <1>1, <3>1, TwoToType
    <3> QED BY <2>1, <3>2
  <2> QED BY <2>1, <2>2
<1>6. Bits(n) = CHOOSE j \in 0..a : Is(j)
  BY DEF Bits, a
<1>7. Bits(n) \in 0..a /\ Is(Bits(n))
  <2> HIDE DEF Is
  <2> QED BY <1>4, <1>5, <1>6
<1>8. n = 0 => Bits(n) = 0
  BY <1>1, <1>7
<1>9. Bits(n) # 0 \/ n = 0
  BY <1>1, <1>7, TwoToIs
<1> QED BY <1>1, <1>7, <1>8, <1>9 DEF a

\* And the only one that has n in its octave.
LEMMA BitsUnique ==
  ASSUME NEW n \in Int, NEW k \in Nat \ {0}, TwoTo[k - 1] <= Abs(n), Abs(n) < TwoTo[k]
  PROVE  Bits(n) = k
<1>1. /\ Bits(n) \in Nat /\ Abs(n) < TwoTo[Bits(n)]
      /\ n # 0 => Bits(n) - 1 \in Nat /\ TwoTo[Bits(n) - 1] <= Abs(n)
      /\ n = 0 => Bits(n) = 0
  BY BitsIs
<1>2. Abs(n) \in Nat /\ n # 0
  BY TwoToGrows DEF Abs
<1>3. \A i, j \in Nat : i <= j => TwoTo[i] \in Nat /\ TwoTo[j] \in Nat /\ TwoTo[i] <= TwoTo[j]
  BY TwoToGrows
<1>4. ~ (Bits(n) <= k - 1)
  BY <1>1, <1>2, <1>3
<1>5. ~ (k <= Bits(n) - 1)
  BY <1>1, <1>2, <1>3
<1> QED BY <1>1, <1>4, <1>5

\* A power of two, and what a shift does.
LEMMA BitsShift ==
  ASSUME NEW n \in Int, n # 0, NEW d \in Nat
  PROVE  Bits(n * TwoTo[d]) = Bits(n) + d
<1> DEFINE k == Bits(n)
           a == Abs(n)
           D == TwoTo[d]
<1>1. k - 1 \in Nat /\ k \in Nat /\ a < TwoTo[k] /\ TwoTo[k - 1] <= a /\ a \in Nat
  BY BitsIs, AbsIs
<1>2. D \in Nat \ {0} /\ TwoTo[k] \in Nat /\ TwoTo[k - 1] \in Nat
  BY <1>1, TwoToGrows
<1>3. Abs(n * D) = a * D
  BY <1>2 DEF Abs
<1>4. TwoTo[k + d] = TwoTo[k] * D /\ TwoTo[(k + d) - 1] = TwoTo[k - 1] * D
  <2>1. (k + d) - 1 = (k - 1) + d
    BY <1>1
  <2> QED BY <1>1, <2>1, TwoToSum
<1> HIDE DEF k, a, D
<1>5. a * D < TwoTo[k] * D
  <2>1. (a + 1) * D <= TwoTo[k] * D
    BY <1>1, <1>2, TimesLeq
  <2>2. (a + 1) * D = a * D + D
    BY <1>1, <1>2
  <2>3. a * D \in Nat /\ TwoTo[k] * D \in Nat
    BY <1>1, <1>2
  <2> QED BY <1>2, <2>1, <2>2, <2>3
<1>6. TwoTo[k - 1] * D <= a * D
  BY <1>1, <1>2, TimesLeq
<1>7. n * D \in Int /\ k + d \in Nat \ {0}
  BY <1>1, <1>2
<1> QED BY <1>3, <1>4, <1>5, <1>6, <1>7, BitsUnique DEF k, D

-----------------------------------------------------------------------------
(* The nearest float                                                       *)

\* a to the nearest multiple of u, ties to even, in multiples of u.
Steps(a, u) ==
  LET k == a \div u
      twice == 2 * (a % u)
  IN  IF twice > u \/ (twice = u /\ k % 2 = 1) THEN k + 1 ELSE k

\* What the last bit of a significand is worth in an integer of a's width.
Unit(a) == IF Bits(a) <= Precision THEN 1 ELSE TwoTo[Bits(a) - Precision]

NearAbs(a) == Steps(a, Unit(a)) * Unit(a)

\* The float that is nearest to an integer, as an integer.
Near(x) == IF x < 0 THEN -NearAbs(-x) ELSE NearAbs(x)

\* Steps rounds a to a multiple of u, at most half of u off.
LEMMA StepsIs ==
  ASSUME NEW a \in Nat, NEW u \in Nat \ {0}
  PROVE  /\ Steps(a, u) \in Nat
         /\ 2 * (Steps(a, u) * u) <= 2 * a + u /\ 2 * a <= 2 * (Steps(a, u) * u) + u
<1> DEFINE k == a \div u
           r == a % u
<1>1. k \in Nat /\ r \in 0..(u - 1) /\ a = u * k + r
  BY DivIs
<1>2. Steps(a, u) = IF 2 * r > u \/ (2 * r = u /\ k % 2 = 1) THEN k + 1 ELSE k
  BY DEF Steps
<1> HIDE DEF k, r
<1>3. k * u = u * k /\ (k + 1) * u = u * k + u /\ u * k \in Nat
  BY <1>1
<1> QED BY <1>1, <1>2, <1>3

\* Rounding to the multiples of one unit keeps the order.
LEMMA StepsMonotone ==
  ASSUME NEW a \in Nat, NEW b \in Nat, NEW u \in Nat \ {0}, a <= b
  PROVE  Steps(a, u) <= Steps(b, u)
<1> DEFINE k == a \div u
           r == a % u
           l == b \div u
           s == b % u
<1>1. k \in Nat /\ r \in 0..(u - 1) /\ a = u * k + r /\ l \in Nat /\ s \in 0..(u - 1) /\ b = u * l + s
  BY DivIs
<1>2. /\ Steps(a, u) = IF 2 * r > u \/ (2 * r = u /\ k % 2 = 1) THEN k + 1 ELSE k
      /\ Steps(b, u) = IF 2 * s > u \/ (2 * s = u /\ l % 2 = 1) THEN l + 1 ELSE l
  BY DEF Steps
<1> HIDE DEF k, r, l, s
<1>3. k <= l
  <2>1. l < k => (l + 1) * u <= k * u
    BY <1>1, TimesLeq
  <2>2. (l + 1) * u = u * l + u /\ k * u = u * k
    BY <1>1
  <2> QED BY <1>1, <2>1, <2>2
<1>4. CASE k = l
  <2>1. r <= s
    BY <1>1, <1>4
  <2> QED BY <1>1, <1>2, <1>4, <2>1
<1>5. CASE k < l
  BY <1>1, <1>2, <1>5
<1> QED BY <1>1, <1>3, <1>4, <1>5

\* A multiple is itself.
LEMMA StepsMultiple ==
  ASSUME NEW k \in Nat, NEW u \in Nat \ {0}
  PROVE  Steps(k * u, u) = k
<1>1. k * u \in Nat /\ k * u = u * k + 0 /\ 0 \in 0..(u - 1)
  OBVIOUS
<1>2. (k * u) \div u = k /\ (k * u) % u = 0
  BY <1>1, DivUnique
<1> QED BY <1>2 DEF Steps

\* Rounding does not depend on the scale.
LEMMA StepsScale ==
  ASSUME NEW a \in Nat, NEW u \in Nat \ {0}, NEW d \in Nat \ {0}
  PROVE  Steps(a * d, u * d) = Steps(a, u)
<1> DEFINE k == a \div u
           r == a % u
<1>1. k \in Nat /\ r \in 0..(u - 1) /\ a = u * k + r
  BY DivIs
<1>2. (a * d) \div (u * d) = k /\ (a * d) % (u * d) = r * d
  <2> HIDE DEF k, r
  <2>1. a * d = (u * d) * k + r * d
    BY <1>1
  <2>2. (r + 1) * d <= u * d /\ (r + 1) * d = r * d + d /\ 0 <= r * d
    BY <1>1, TimesLeq
  <2>3. a * d \in Nat /\ u * d \in Nat \ {0} /\ r * d \in Nat
    BY <1>1
  <2>4. r * d \in 0..(u * d - 1)
    <3> DEFINE x == r * d
               y == u * d
    <3>1. x + d <= y /\ x \in Nat /\ y \in Nat
      BY <1>1, <2>2, <2>3
    <3> HIDE DEF x, y
    <3>2. x \in 0..(y - 1)
      BY <3>1
    <3> QED BY <3>2 DEF x, y
  <2>5. k \in Int
    BY <1>1
  <2> QED BY <2>1, <2>3, <2>4, <2>5, DivUnique, Zenon
<1>3. 2 * (r * d) > u * d <=> 2 * r > u
  <2> HIDE DEF k, r
  <2>1. (2 * r) * d = 2 * (r * d)
    BY <1>1
  <2>2. 2 * r > u => ~ ((2 * r) * d <= u * d)
    BY <1>1, TimesCancel
  <2>3. 2 * r <= u => (2 * r) * d <= u * d
    BY <1>1, TimesLeq
  <2> QED BY <1>1, <2>1, <2>2, <2>3
<1>4. 2 * (r * d) = u * d <=> 2 * r = u
  <2> HIDE DEF k, r
  <2>1. (2 * r) * d = 2 * (r * d)
    BY <1>1
  <2>2. 2 * r < u => ~ (u * d <= (2 * r) * d)
    BY <1>1, TimesCancel
  <2> QED BY <1>1, <1>3, <2>1, <2>2
<1>5. Steps(a, u) = IF 2 * r > u \/ (2 * r = u /\ k % 2 = 1) THEN k + 1 ELSE k
  BY DEF Steps
<1>6. Steps(a * d, u * d) = IF 2 * (r * d) > u * d \/ (2 * (r * d) = u * d /\ k % 2 = 1) THEN k + 1 ELSE k
  BY <1>2 DEF Steps
<1> HIDE DEF k, r
<1> QED BY <1>3, <1>4, <1>5, <1>6

\* The unit in the last place, next to the number itself.
LEMMA UnitIs ==
  ASSUME NEW a \in Nat
  PROVE  /\ Unit(a) \in Nat \ {0}
         /\ Bits(a) <= Precision => Unit(a) = 1
         /\ Bits(a) > Precision =>
              Unit(a) * TwoTo[Precision] = TwoTo[Bits(a)] /\ TwoTo[Bits(a)] <= 2 * a
<1>1. Bits(a) \in Nat /\ Precision \in Nat \ {0}
  BY BitsIs, FloatAssumption
<1>2. CASE Bits(a) <= Precision
  BY <1>1, <1>2 DEF Unit
<1>3. CASE Bits(a) > Precision
  <2>1. Bits(a) - Precision \in Nat /\ (Bits(a) - Precision) + Precision = Bits(a)
    BY <1>1, <1>3
  <2>2. TwoTo[Bits(a)] = Unit(a) * TwoTo[Precision] /\ Unit(a) \in Nat \ {0}
    <3>1. Unit(a) = TwoTo[Bits(a) - Precision]
      BY <1>1, <1>3 DEF Unit
    <3> QED BY <1>1, <2>1, <3>1, TwoToSum, TwoToGrows
  <2>3. a # 0 /\ TwoTo[Bits(a) - 1] <= a /\ Bits(a) \in Nat \ {0}
    BY <1>1, <1>3, BitsIs, AbsIs
  <2>4. TwoTo[Bits(a)] = 2 * TwoTo[Bits(a) - 1] /\ TwoTo[Bits(a) - 1] \in Nat
    BY <1>1, <2>3, TwoToIs, TwoToType
  <2> QED BY <1>3, <1>1, <2>2, <2>3, <2>4
<1> QED BY <1>1, <1>2, <1>3

\* Half a unit in the last place: an error of one part in 2^Precision.
LEMMA NearAbsError ==
  ASSUME NEW a \in Nat
  PROVE  /\ NearAbs(a) \in Nat
         /\ NearAbs(a) * TwoTo[Precision] <= a * TwoTo[Precision] + a
         /\ a * TwoTo[Precision] <= NearAbs(a) * TwoTo[Precision] + a
         /\ Bits(a) <= Precision => NearAbs(a) = a
<1> DEFINE u == Unit(a)
           n == NearAbs(a)
           t == TwoTo[Precision]
<1>0. t \in Nat \ {0}
  BY FloatAssumption, TwoToGrows
<1>1. u \in Nat \ {0}
  BY UnitIs
<1>2. n \in Nat /\ 2 * n <= 2 * a + u /\ 2 * a <= 2 * n + u
  <2> DEFINE s == Steps(a, u)
  <2>1. n = s * u
    BY DEF NearAbs
  <2>2. s \in Nat /\ 2 * (s * u) <= 2 * a + u /\ 2 * a <= 2 * (s * u) + u
    BY <1>1, StepsIs
  <2> HIDE DEF s, u, n
  <2> QED BY <1>1, <2>1, <2>2
<1>3. CASE Bits(a) <= Precision
  <2>1. u = 1
    BY <1>3, UnitIs
  <2>2. n = a
    BY <1>2, <2>1
  <2> QED BY <1>0, <2>2
<1>4. CASE Bits(a) > Precision
  <2>1. u * t <= 2 * a
    BY <1>4, UnitIs
  <2>3. ~ (Bits(a) <= Precision)
    BY <1>4, BitsIs, FloatAssumption
  <2> HIDE DEF u, n, t
  <2>2. (2 * n) * t <= (2 * a + u) * t /\ (2 * a) * t <= (2 * n + u) * t
    BY <1>0, <1>1, <1>2, TimesLeq
  <2>4. /\ (2 * n) * t = 2 * (n * t) /\ (2 * a + u) * t = 2 * (a * t) + u * t
        /\ (2 * a) * t = 2 * (a * t) /\ (2 * n + u) * t = 2 * (n * t) + u * t
        /\ n * t \in Nat /\ a * t \in Nat /\ u * t \in Nat
    BY <1>0, <1>1, <1>2
  <2> DEFINE nt == n * t
             at == a * t
             ut == u * t
  <2>5. 2 * nt <= 2 * at + ut /\ 2 * at <= 2 * nt + ut /\ ut <= 2 * a /\ nt \in Nat /\ at \in Nat /\ ut \in Nat
    BY <2>1, <2>2, <2>4
  <2> HIDE DEF nt, at, ut
  <2>6. nt <= at + a /\ at <= nt + a
    BY <2>5
  <2> QED BY <1>2, <2>3, <2>6 DEF n, t, nt, at
<1> QED BY <1>3, <1>4, BitsIs, FloatAssumption

\* Powers of two that are no smaller than the unit.
LEMMA PowerIsMultiple ==
  ASSUME NEW a \in Nat, NEW k \in Nat, Bits(a) <= k + Precision
  PROVE  \E m \in Nat : TwoTo[k] = m * Unit(a)
<1>1. Bits(a) \in Nat /\ Precision \in Nat
  BY BitsIs, FloatAssumption
<1>2. CASE Bits(a) <= Precision
  BY <1>2, UnitIs, TwoToType
<1>3. CASE Bits(a) > Precision
  <2> DEFINE w == Bits(a) - Precision
  <2>1. w \in Nat /\ k - w \in Nat /\ (k - w) + w = k /\ Unit(a) = TwoTo[w]
    BY <1>1, <1>3 DEF Unit
  <2> HIDE DEF w
  <2> DEFINE v == k - w
  <2>2. TwoTo[v + w] = TwoTo[v] * TwoTo[w] /\ TwoTo[v] \in Nat
    BY <2>1, TwoToSum, TwoToType
  <2> QED BY <2>1, <2>2
<1> QED BY <1>1, <1>2, <1>3

\* A power of two that bounds an integer bounds the nearest float.
LEMMA NearAbsBelow ==
  ASSUME NEW a \in Nat, NEW k \in Nat, a <= TwoTo[k], Bits(a) <= k + Precision
  PROVE  NearAbs(a) <= TwoTo[k]
<1>1. PICK m \in Nat : TwoTo[k] = m * Unit(a)
  BY PowerIsMultiple
<1>2. Unit(a) \in Nat \ {0} /\ m * Unit(a) \in Nat
  BY UnitIs
<1>3. Steps(a, Unit(a)) <= Steps(m * Unit(a), Unit(a))
  BY <1>1, <1>2, StepsMonotone
<1>4. Steps(m * Unit(a), Unit(a)) = m
  BY <1>2, StepsMultiple
<1>5. Steps(a, Unit(a)) \in Nat
  BY <1>2, StepsIs
<1>6. Steps(a, Unit(a)) * Unit(a) <= m * Unit(a)
  BY <1>2, <1>3, <1>4, <1>5, TimesLeq
<1> QED BY <1>1, <1>6 DEF NearAbs

\* Rounding does not take a number below a power of two.
LEMMA NearAbsAbove ==
  ASSUME NEW a \in Nat, NEW k \in Nat, TwoTo[k] <= a, Bits(a) <= k + Precision
  PROVE  TwoTo[k] <= NearAbs(a)
<1>1. PICK m \in Nat : TwoTo[k] = m * Unit(a)
  BY PowerIsMultiple
<1>2. Unit(a) \in Nat \ {0} /\ m * Unit(a) \in Nat
  BY UnitIs
<1>3. Steps(m * Unit(a), Unit(a)) <= Steps(a, Unit(a))
  BY <1>1, <1>2, StepsMonotone
<1>4. Steps(m * Unit(a), Unit(a)) = m
  BY <1>2, StepsMultiple
<1>5. Steps(a, Unit(a)) \in Nat
  BY <1>2, StepsIs
<1>6. m * Unit(a) <= Steps(a, Unit(a)) * Unit(a)
  BY <1>2, <1>3, <1>4, <1>5, TimesLeq
<1> QED BY <1>1, <1>6 DEF NearAbs

\* A greater number has no fewer bits.
LEMMA BitsMonotone ==
  ASSUME NEW a \in Nat, NEW b \in Nat, a <= b
  PROVE  Bits(a) <= Bits(b)
<1>1. /\ Bits(a) \in Nat /\ a < TwoTo[Bits(a)]
      /\ a # 0 => Bits(a) - 1 \in Nat /\ TwoTo[Bits(a) - 1] <= a
      /\ a = 0 => Bits(a) = 0
  BY BitsIs, AbsIs
<1>2. Bits(b) \in Nat /\ b < TwoTo[Bits(b)] /\ TwoTo[Bits(b)] \in Nat
  BY BitsIs, AbsIs, TwoToType
<1>3. CASE Bits(b) < Bits(a)
  <2>1. a # 0 /\ Bits(b) \in 0..(Bits(a) - 1) /\ Bits(a) - 1 \in Nat
    BY <1>1, <1>2, <1>3
  <2>2. TwoTo[Bits(b)] <= TwoTo[Bits(a) - 1] /\ TwoTo[Bits(a) - 1] \in Nat
    BY <2>1, TwoToGrows
  <2> QED BY <1>1, <1>2, <2>1, <2>2
<1> QED BY <1>1, <1>2, <1>3

\* Rounding keeps the order, in one octave and across them.
LEMMA NearAbsMonotone ==
  ASSUME NEW a \in Nat, NEW b \in Nat, a <= b
  PROVE  NearAbs(a) <= NearAbs(b)
<1>1. Bits(a) \in Nat /\ Bits(b) \in Nat /\ Bits(a) <= Bits(b) /\ Precision \in Nat \ {0}
  BY BitsIs, BitsMonotone, FloatAssumption
<1>2. CASE Bits(a) = Bits(b)
  <2>1. Unit(a) = Unit(b) /\ Unit(a) \in Nat \ {0}
    BY <1>2, UnitIs DEF Unit
  <2>2. Steps(a, Unit(a)) <= Steps(b, Unit(a)) /\ Steps(a, Unit(a)) \in Nat /\ Steps(b, Unit(a)) \in Nat
    BY <2>1, StepsIs, StepsMonotone
  <2> QED BY <2>1, <2>2, TimesLeq DEF NearAbs
<1>3. CASE Bits(a) < Bits(b)
  <2> DEFINE k == Bits(b) - 1
  <2>1. k \in Nat /\ Bits(a) \in 0..k /\ Bits(b) <= k + Precision
    BY <1>1, <1>3
  <2>2. TwoTo[k] <= b
    BY <1>1, <1>3, BitsIs, AbsIs
  <2>3. TwoTo[Bits(a)] <= TwoTo[k] /\ TwoTo[Bits(a)] \in Nat /\ TwoTo[k] \in Nat
    BY <2>1, TwoToGrows
  <2> HIDE DEF k
  <2>4. TwoTo[k] <= NearAbs(b)
    BY <2>1, <2>2, NearAbsAbove
  <2>5. a <= TwoTo[Bits(a)]
    BY <1>1, <2>3, BitsIs, AbsIs
  <2>6. NearAbs(a) <= TwoTo[Bits(a)]
    BY <1>1, <2>5, NearAbsBelow
  <2> QED BY <2>3, <2>4, <2>6, NearAbsError
<1> QED BY <1>1, <1>2, <1>3

\* Only the leading bits count, not where they are.
LEMMA NearAbsScale ==
  ASSUME NEW a \in Nat, NEW d \in Nat
  PROVE  NearAbs(a * TwoTo[d]) = NearAbs(a) * TwoTo[d]
<1> DEFINE D == TwoTo[d]
           b == a * D
<1>1. D \in Nat \ {0} /\ b \in Nat
  BY TwoToGrows
<1>2. Bits(a) \in Nat /\ Precision \in Nat /\ Unit(a) \in Nat \ {0}
  BY BitsIs, UnitIs, FloatAssumption
<1>3. CASE a = 0
  <2>1. b = 0
    BY <1>1, <1>3
  <2>2. NearAbs(0) = 0
    <3>1. Bits(0) = 0
      BY BitsIs
    <3> QED BY <1>2, <3>1, NearAbsError
  <2> QED BY <1>1, <1>3, <2>1, <2>2
<1>4. CASE a # 0 /\ Bits(a) <= Precision
  <2>1. Bits(b) = Bits(a) + d
    BY <1>4, BitsShift
  <2>2. NearAbs(a) = a
    BY <1>4, NearAbsError
  <2> HIDE DEF b
  <2>3. PICK m \in Nat : D = m * Unit(b)
    <3>1. Bits(b) <= d + Precision
      BY <1>2, <1>4, <2>1
    <3> QED BY <1>1, <3>1, PowerIsMultiple
  <2>4. Unit(b) \in Nat \ {0} /\ a * m \in Nat
    BY <1>1, UnitIs
  <2>5. b = (a * m) * Unit(b)
    BY <2>3, <2>4 DEF b
  <2>6. Steps((a * m) * Unit(b), Unit(b)) = a * m
    BY <2>4, StepsMultiple
  <2>7. NearAbs(b) = b
    BY <2>5, <2>6 DEF NearAbs
  <2> QED BY <2>2, <2>7 DEF b
<1>5. CASE a # 0 /\ Bits(a) > Precision
  <2>1. Bits(b) = Bits(a) + d
    BY <1>5, BitsShift
  <2>2. Unit(b) = Unit(a) * D
    <3> DEFINE w == Bits(a) - Precision
    <3>1. w \in Nat /\ Bits(b) - Precision = w + d /\ ~ (Bits(b) <= Precision) /\ ~ (Bits(a) <= Precision)
      BY <1>2, <1>5, <2>1
    <3>2. TwoTo[w + d] = TwoTo[w] * D
      BY <3>1, TwoToSum
    <3> QED BY <3>1, <3>2 DEF Unit
  <2>3. Steps(b, Unit(a) * D) = Steps(a, Unit(a))
    BY <1>1, <1>2, StepsScale
  <2>4. Steps(a, Unit(a)) \in Nat
    BY <1>2, StepsIs
  <2> DEFINE s == Steps(a, Unit(a))
             u == Unit(a)
  <2>5. NearAbs(b) = s * (u * D) /\ NearAbs(a) = s * u
    BY <2>2, <2>3 DEF NearAbs
  <2>6. s \in Nat /\ u \in Nat
    BY <1>2, <2>4
  <2> HIDE DEF s, u, b, D
  <2>7. NearAbs(b) = NearAbs(a) * D
    BY <1>1, <2>5, <2>6
  <2> QED BY <2>7 DEF b, D
<1> QED BY <1>2, <1>3, <1>4, <1>5

\* Rounding is odd, keeps the sign, is exact on short numbers, and is off by at most
\* one part in 2^Precision.
LEMMA NearIs ==
  ASSUME NEW x \in Int
  PROVE  /\ Near(x) \in Int /\ Near(-x) = -Near(x)
         /\ x = 0 <=> Near(x) = 0
         /\ x >= 0 <=> Near(x) >= 0
         /\ Near(x) * TwoTo[Precision] <= x * TwoTo[Precision] + Abs(x)
         /\ x * TwoTo[Precision] <= Near(x) * TwoTo[Precision] + Abs(x)
         /\ Bits(x) <= Precision => Near(x) = x
<1> DEFINE a == Abs(x)
           n == NearAbs(a)
           t == TwoTo[Precision]
<1>1. a \in Nat /\ (x >= 0 => a = x) /\ (x < 0 => a = -x) /\ Abs(a) = a
  BY DEF Abs
<1>2. t \in Nat /\ t >= 2
  <2>1. 1 \in 0..Precision /\ TwoTo[1] = 2 * TwoTo[1 - 1] /\ 1 - 1 = 0 /\ Precision \in Nat
    BY FloatAssumption, TwoToIs
  <2> QED BY <2>1, TwoToIs, TwoToGrows
<1>3. n \in Nat /\ n * t <= a * t + a /\ a * t <= n * t + a /\ (Bits(a) <= Precision => n = a)
  BY <1>1, NearAbsError
<1>4. Near(x) = (IF x < 0 THEN -n ELSE n) /\ Near(-x) = (IF -x < 0 THEN -NearAbs(x) ELSE NearAbs(-x))
  BY <1>1 DEF Near
<1>5. Bits(x) = Bits(a)
  BY <1>1 DEF Bits
<1>6. a = 0 => n = 0
  <2>1. Bits(0) = 0 /\ Precision \in Nat
    BY BitsIs, FloatAssumption
  <2> QED BY <1>3, <2>1
<1>7. a # 0 => n # 0
  <2> HIDE DEF a, n, t
  <2>1. n = 0 => a * t <= a
    BY <1>1, <1>2, <1>3
  <2>2. a * t = 2 * a + (t - 2) * a /\ t - 2 \in Nat /\ (t - 2) * a \in Nat
    <3>1. t - 2 \in Nat
      BY <1>2
    <3> QED BY <1>1, <1>2, <3>1
  <2> QED BY <1>1, <2>1, <2>2
<1>8. Near(-x) = -Near(x)
  BY <1>1, <1>3, <1>4, <1>6
<1> HIDE DEF a, n, t
<1>9. Near(x) * t <= x * t + a /\ x * t <= Near(x) * t + a
  <2>1. CASE x >= 0
    BY <1>1, <1>3, <1>4, <2>1
  <2>2. CASE x < 0
    <3>1. Near(x) * t = -(n * t) /\ x * t = -(a * t)
      BY <1>1, <1>2, <1>3, <1>4, <2>2
    <3> QED BY <1>1, <1>2, <1>3, <3>1
  <2> QED BY <2>1, <2>2
<1> QED BY <1>1, <1>3, <1>4, <1>5, <1>6, <1>7, <1>8, <1>9 DEF a, t

\* Rounding keeps the order.
LEMMA NearMonotone ==
  ASSUME NEW x \in Int, NEW y \in Int, x <= y
  PROVE  Near(x) <= Near(y)
<1>1. Near(x) \in Int /\ Near(y) \in Int /\ (x >= 0 <=> Near(x) >= 0) /\ (y >= 0 <=> Near(y) >= 0)
  BY NearIs
<1>2. CASE x >= 0
  BY <1>2, NearAbsMonotone DEF Near
<1>3. CASE x < 0 /\ y >= 0
  BY <1>1, <1>3
<1>4. CASE y < 0
  <2>1. NearAbs(-y) <= NearAbs(-x) /\ NearAbs(-x) \in Nat /\ NearAbs(-y) \in Nat
    BY <1>4, NearAbsMonotone, NearAbsError
  <2> QED BY <1>4, <2>1 DEF Near
<1> QED BY <1>2, <1>3, <1>4

\* Rounding commutes with powers of two: the exponent does not matter.
LEMMA NearScale ==
  ASSUME NEW x \in Int, NEW d \in Nat
  PROVE  Near(x * TwoTo[d]) = Near(x) * TwoTo[d]
<1> DEFINE D == TwoTo[d]
<1>1. D \in Nat \ {0} /\ x * D \in Int
  BY TwoToGrows
<1>2. CASE x >= 0
  <2>1. x * D >= 0
    <3>1. x \in Nat
      BY <1>2
    <3> HIDE DEF D
    <3> QED BY <1>1, <3>1
  <2>2. NearAbs(x * D) = NearAbs(x) * D
    <3>1. x \in Nat
      BY <1>2
    <3> QED BY <3>1, NearAbsScale
  <2>3. Near(x) = NearAbs(x)
    BY <1>2 DEF Near
  <2>4. Near(x * D) = NearAbs(x * D)
    BY <1>1, <2>1 DEF Near
  <2> QED BY <2>2, <2>3, <2>4
<1>3. CASE x < 0
  <2>1. -x \in Nat /\ -(x * D) = (-x) * D
    BY <1>1, <1>3
  <2>2. x * D < 0
    <3> QED BY <1>1, <1>3, TimesSign
  <2>3. NearAbs((-x) * D) = NearAbs(-x) * D /\ NearAbs(-x) \in Nat
    BY <2>1, NearAbsScale, NearAbsError
  <2>4. Near(x * D) = -(NearAbs(-x) * D) /\ Near(x) = -NearAbs(-x)
    BY <1>3, <2>1, <2>2, <2>3 DEF Near
  <2> HIDE DEF D
  <2>5. Near(x * D) = Near(x) * D
    BY <1>1, <2>3, <2>4
  <2> QED BY <2>5 DEF D
<1> QED BY <1>2, <1>3

-----------------------------------------------------------------------------
(* Round                                                                   *)

Floats == [sig : Int, exp : Int]

\* The significand of the nearest float, and how many bits were cut off.
LEMMA RoundCases ==
  ASSUME NEW n \in Int, NEW e \in Int
  PROVE  \E s \in Int, w \in Nat :
           /\ Round(n, e) = Float(s, e + w)
           /\ s * TwoTo[w] = Near(n)
           /\ w = IF Bits(n) <= Precision THEN 0 ELSE Bits(n) - Precision
<1> DEFINE a == Abs(n)
           w == Bits(n) - Precision
<1>1. a \in Nat /\ Abs(a) = a /\ Bits(n) \in Nat /\ Precision \in Nat
  BY BitsIs, FloatAssumption DEF Abs
<1>2. Bits(a) = Bits(n)
  BY <1>1 DEF Bits
<1>3. CASE Bits(n) <= Precision
  <2>1. Round(n, e) = Float(n, e)
    BY <1>1, <1>3 DEF Round
  <2>2. Near(n) = n /\ e + 0 = e /\ n * TwoTo[0] = n
    BY <1>3, NearIs, TwoToIs
  <2> QED BY <1>3, <2>1, <2>2
<1>4. CASE Bits(n) > Precision
  <2> DEFINE s == Steps(a, TwoTo[w])
             r == IF n < 0 THEN -s ELSE s
  <2>1. w \in Nat /\ w > 0 /\ ~ (Bits(n) <= Precision)
    BY <1>1, <1>4
  <2>2. Round(n, e) = Float(r, e + w)
    BY <2>1 DEF Round, Steps
  <2>3. TwoTo[w] \in Nat \ {0} /\ Unit(a) = TwoTo[w]
    BY <1>2, <2>1, TwoToGrows DEF Unit
  <2>4. s \in Nat /\ NearAbs(a) = s * TwoTo[w]
    BY <1>1, <2>3, StepsIs DEF NearAbs
  <2>5. Near(n) = IF n < 0 THEN -NearAbs(a) ELSE NearAbs(a)
    BY DEF Near, Abs
  <2> HIDE DEF a, w, s
  <2>6. r * TwoTo[w] = Near(n) /\ r \in Int
    BY <2>3, <2>4, <2>5
  <2> QED BY <2>1, <2>2, <2>6 DEF w
<1> QED BY <1>1, <1>3, <1>4

\* With any exponent that is small enough, the significand of a rounded number is
\* the integer that is nearest to it.
LEMMA RoundIs ==
  ASSUME NEW n \in Int, NEW e \in Int, IsFinite(Round(n, e)),
         NEW E \in Int, E <= e, E <= 0
  PROVE  /\ Round(n, e) \in Floats /\ E <= Round(n, e).exp
         /\ At(Round(n, e), E) = Near(n * TwoTo[e - E])
<1>1. PICK s \in Int, w \in Nat : Round(n, e) = Float(s, e + w) /\ s * TwoTo[w] = Near(n)
  BY RoundCases
<1>2. TwoTo[w] \in Nat \ {0} /\ e - E \in Nat /\ TwoTo[e - E] \in Nat \ {0} /\ Near(n) \in Int
  BY TwoToGrows, NearIs
<1>3. Near(n * TwoTo[e - E]) = Near(n) * TwoTo[e - E]
  BY <1>2, NearScale
<1>4. CASE s = 0
  <2>1. Round(n, e) = [sig |-> 0, exp |-> 0]
    BY <1>1, <1>4 DEF Float
  <2>2. Near(n) = 0
    BY <1>1, <1>2, <1>4
  <2>3. TwoTo[0 - E] \in Nat
    BY TwoToType
  <2> QED BY <1>2, <1>3, <2>1, <2>2, <2>3 DEF At, Floats
<1>5. CASE s # 0
  <2>1. Round(n, e) = [sig |-> s, exp |-> e + w]
    BY <1>1, <1>5 DEF Float, IsFinite
  <2>2. (e + w) - E = w + (e - E)
    OBVIOUS
  <2>3. TwoTo[(e + w) - E] = TwoTo[w] * TwoTo[e - E]
    BY <1>2, <2>2, TwoToSum
  <2>4. s * (TwoTo[w] * TwoTo[e - E]) = (s * TwoTo[w]) * TwoTo[e - E]
    BY <1>2
  <2> QED BY <1>1, <1>3, <2>1, <2>3, <2>4 DEF At, Floats
<1> QED BY <1>4, <1>5

\* The result is finite if it is smaller than half of the greatest power of two.
LEMMA RoundFinite ==
  ASSUME NEW n \in Int, NEW e \in Int, NEW E \in Int, E <= e, E <= 0,
         Abs(n) * TwoTo[e - E] < TwoTo[(MaxExponent - 1) - E]
  PROVE  IsFinite(Round(n, e))
<1>0. MaxExponent \in Nat \ {0} /\ Precision \in Nat \ {0}
  BY FloatAssumption
<1>1. PICK s \in Int, w \in Nat :
        /\ Round(n, e) = Float(s, e + w) /\ s * TwoTo[w] = Near(n)
        /\ w = IF Bits(n) <= Precision THEN 0 ELSE Bits(n) - Precision
  BY RoundCases
<1>2. s = 0 => IsFinite(Round(n, e))
  BY <1>0, <1>1 DEF Float, IsFinite, NotFinite
<1> SUFFICES ASSUME s # 0 PROVE IsFinite(Round(n, e))
  BY <1>2
<1>3. TwoTo[w] \in Nat \ {0} /\ Near(n) # 0 /\ n # 0
  BY <1>1, TwoToGrows, TimesSign, NearIs
<1>4. Bits(n) \in Nat /\ Bits(n) - 1 \in Nat /\ TwoTo[Bits(n) - 1] <= Abs(n) /\ Abs(n) < TwoTo[Bits(n)]
        /\ Abs(n) \in Nat
  BY <1>3, BitsIs, AbsIs
<1>5. Bits(n) + e < MaxExponent
  <2> DEFINE i == (Bits(n) - 1) + (e - E)
             j == (MaxExponent - 1) - E
  <2>1. i \in Nat /\ j \in Nat /\ e - E \in Nat
    BY <1>0, <1>4
  <2>2. TwoTo[i] = TwoTo[Bits(n) - 1] * TwoTo[e - E] /\ TwoTo[e - E] \in Nat /\ TwoTo[Bits(n) - 1] \in Nat
    BY <1>4, <2>1, TwoToSum, TwoToType
  <2>3. TwoTo[i] <= Abs(n) * TwoTo[e - E]
    BY <1>4, <2>2, TimesLeq
  <2>4. TwoTo[i] < TwoTo[j] /\ TwoTo[i] \in Nat /\ TwoTo[j] \in Nat
    <3>1. TwoTo[i] \in Nat /\ TwoTo[j] \in Nat /\ Abs(n) * TwoTo[e - E] \in Nat
      BY <1>4, <2>1, <2>2, TwoToType
    <3> QED BY <2>3, <3>1
  <2>5. i < j
    <3>1. j <= i => TwoTo[j] <= TwoTo[i]
      BY <2>1, TwoToGrows
    <3> HIDE DEF i, j
    <3> QED BY <2>1, <2>4, <3>1
  <2> QED BY <1>0, <1>4, <2>5
<1>6. Bits(s) + (e + w) <= MaxExponent
  <2>1. CASE Bits(n) <= Precision
    <3>1. s = n /\ w = 0
      BY <1>1, <2>1, NearIs, TwoToIs
    <3> QED BY <1>0, <1>4, <1>5, <3>1
  <2>2. CASE Bits(n) > Precision
    <3> DEFINE a == Abs(n)
    <3>0. w = Bits(n) - Precision
      BY <1>0, <1>1, <1>4, <2>2
    <3>1. NearAbs(a) <= TwoTo[Bits(n)] /\ NearAbs(a) \in Nat
      <4>1. a <= TwoTo[Bits(n)]
        BY <1>4, TwoToType
      <4>2. Bits(a) = Bits(n)
        BY <1>4 DEF Bits, Abs
      <4> QED BY <1>0, <1>4, <4>1, <4>2, NearAbsBelow, NearAbsError
    <3>2. Abs(s) * TwoTo[w] = NearAbs(a) /\ Abs(s) \in Nat
      <4>1. Near(n) = NearAbs(a) \/ Near(n) = -NearAbs(a)
        BY DEF Near, Abs
      <4>2. Abs(s * TwoTo[w]) = Abs(s) * TwoTo[w]
        <5>1. s >= 0 <=> s * TwoTo[w] >= 0
          BY <1>3, TimesSign
        <5> QED BY <1>3, <5>1 DEF Abs
      <4> QED BY <1>1, <3>1, <4>1, <4>2 DEF Abs
    <3>3. TwoTo[Bits(n)] = TwoTo[Precision] * TwoTo[w] /\ TwoTo[Precision] \in Nat
      <4>1. Precision + w = Bits(n)
        BY <1>0, <1>4, <3>0
      <4> QED BY <1>0, <4>1, TwoToSum, TwoToType
    <3>4. Abs(s) <= TwoTo[Precision]
      BY <1>3, <3>1, <3>2, <3>3, TimesCancel
    <3>5. Bits(s) <= Precision + 1
      <4>1. Bits(s) = Bits(Abs(s))
        BY <3>2 DEF Bits, Abs
      <4>2. Bits(TwoTo[Precision]) = Precision + 1
        <5>1. TwoTo[Precision + 1] = 2 * TwoTo[Precision] /\ TwoTo[Precision] \in Nat \ {0}
          <6>1. (Precision + 1) - 1 = Precision /\ Precision + 1 \in Nat \ {0}
            BY <1>0
          <6> QED BY <1>0, <6>1, TwoToIs, TwoToGrows
        <5>2. Abs(TwoTo[Precision]) = TwoTo[Precision] /\ (Precision + 1) - 1 = Precision
          BY <1>0, <5>1 DEF Abs
        <5> QED BY <1>0, <5>1, <5>2, BitsUnique
      <4> QED BY <3>2, <3>3, <3>4, <4>1, <4>2, BitsMonotone
    <3>6. Bits(s) \in Nat
      BY BitsIs
    <3> QED BY <1>0, <1>4, <1>5, <3>0, <3>5, <3>6
  <2> QED BY <1>0, <1>4, <2>1, <2>2
<1>7. Round(n, e) = [sig |-> s, exp |-> e + w]
  <2>1. Bits(s) \in Nat /\ ~ (Bits(s) + (e + w) > MaxExponent)
    BY <1>0, <1>6, BitsIs
  <2> QED BY <1>1, <2>1 DEF Float
<1> QED BY <1>7 DEF IsFinite, NotFinite

-----------------------------------------------------------------------------
(* The operations, at an exponent that is small enough for all their floats *)

\* A float that is written with a lower exponent.
LEMMA AtIs ==
  ASSUME NEW f \in Floats, NEW L \in Int, NEW E \in Int, E <= L, L <= f.exp
  PROVE  /\ At(f, L) \in Int /\ At(f, E) \in Int
         /\ At(f, E) = At(f, L) * TwoTo[L - E]
         /\ Abs(At(f, E)) = Abs(At(f, L)) * TwoTo[L - E]
<1>1. f.sig \in Int /\ f.exp \in Int
  BY DEF Floats
<1>2. f.exp - L \in Nat /\ L - E \in Nat /\ f.exp - E = (f.exp - L) + (L - E)
  BY <1>1
<1>3. /\ TwoTo[f.exp - E] = TwoTo[f.exp - L] * TwoTo[L - E]
      /\ TwoTo[f.exp - L] \in Nat \ {0} /\ TwoTo[L - E] \in Nat \ {0}
  BY <1>2, TwoToSum, TwoToGrows
<1> DEFINE p == TwoTo[f.exp - L]
           q == TwoTo[L - E]
           v == At(f, L)
<1>4. v = f.sig * p /\ At(f, E) = f.sig * (p * q)
  BY <1>3 DEF At
<1> HIDE DEF p, q, v
<1>5. v \in Int /\ At(f, E) = v * q
  BY <1>1, <1>3, <1>4 DEF p, q
<1>6. q \in Nat \ {0}
  BY <1>3 DEF q
<1>7. Abs(v * q) = Abs(v) * q
  BY <1>5, <1>6, TimesSign DEF Abs
<1>8. At(f, E) \in Int
  BY <1>5, <1>6
<1> QED BY <1>5, <1>7, <1>8 DEF v, q

\* An integer as a float is the nearest one.
LEMMA FromIntIs ==
  ASSUME NEW n \in Int, NEW E \in Int, E <= 0, IsFinite(FromInt(n))
  PROVE  /\ FromInt(n) \in Floats /\ E <= FromInt(n).exp
         /\ At(FromInt(n), E) = Near(n * TwoTo[-E])
<1>1. 0 - E = -E
  OBVIOUS
<1> QED BY <1>1, RoundIs DEF FromInt

\* Integers that are finite as floats.
LEMMA FromIntFinite ==
  ASSUME NEW n \in Nat, 2 * n < TwoTo[MaxExponent]
  PROVE  IsFinite(FromInt(n)) /\ IsFinite(FromInt(-n))
<1>1. MaxExponent \in Nat \ {0} /\ (MaxExponent - 1) - 0 = MaxExponent - 1 /\ 0 - 0 = 0
  BY FloatAssumption
<1>2. TwoTo[MaxExponent] = 2 * TwoTo[MaxExponent - 1] /\ TwoTo[MaxExponent - 1] \in Nat /\ TwoTo[0] = 1
  BY <1>1, TwoToIs, TwoToType
<1>3. Abs(n) = n /\ Abs(-n) = n
  BY DEF Abs
<1>4. /\ Abs(n) * TwoTo[0 - 0] < TwoTo[(MaxExponent - 1) - 0]
      /\ Abs(-n) * TwoTo[0 - 0] < TwoTo[(MaxExponent - 1) - 0]
  BY <1>1, <1>2, <1>3
<1> QED BY <1>4, RoundFinite DEF FromInt

\* The lower of two exponents is above what is below both.
LEMMA LowerIs ==
  ASSUME NEW a \in Floats, NEW b \in Floats, NEW E \in Int, E <= a.exp, E <= b.exp
  PROVE  /\ Lower(a, b) \in Int /\ E <= Lower(a, b)
         /\ Lower(a, b) <= a.exp /\ Lower(a, b) <= b.exp
         /\ E <= 0 => Lower(a, b) - E \in Nat
BY DEF Floats, Lower

\* A sum of floats is Near of the exact sum, and finite if that is small enough.
LEMMA PlusIs ==
  ASSUME NEW a \in Floats, NEW b \in Floats, IsFinite(a), IsFinite(b),
         NEW E \in Int, E <= a.exp, E <= b.exp, E <= 0
  PROVE  /\ IsFinite(Plus(a, b)) =>
              /\ Plus(a, b) \in Floats /\ E <= Plus(a, b).exp
              /\ At(Plus(a, b), E) = Near(At(a, E) + At(b, E))
         /\ Abs(At(a, E) + At(b, E)) < TwoTo[(MaxExponent - 1) - E] => IsFinite(Plus(a, b))
<1> DEFINE L == Lower(a, b)
           n == At(a, L) + At(b, L)
           q == TwoTo[L - E]
<1>1. L \in Int /\ E <= L /\ L <= a.exp /\ L <= b.exp
  BY LowerIs
<1> HIDE DEF L
<1>2. /\ At(a, L) \in Int /\ At(b, L) \in Int /\ At(a, E) \in Int /\ At(b, E) \in Int
      /\ At(a, E) = At(a, L) * q /\ At(b, E) = At(b, L) * q
  BY <1>1, AtIs
<1>3. q \in Nat \ {0}
  BY <1>1, TwoToGrows
<1>4. n \in Int /\ At(a, E) + At(b, E) = n * q
  <2> HIDE DEF q
  <2> QED BY <1>2, <1>3
<1>5. Abs(n * q) = Abs(n) * q
  <2> HIDE DEF n, q
  <2> QED BY <1>3, <1>4, TimesSign DEF Abs
<1>6. Plus(a, b) = Round(n, L)
  BY DEF Plus, L
<1> HIDE DEF n
<1>7. IsFinite(Plus(a, b)) =>
        /\ Plus(a, b) \in Floats /\ E <= Plus(a, b).exp
        /\ At(Plus(a, b), E) = Near(n * q)
  BY <1>1, <1>4, <1>6, RoundIs
<1>8. Abs(n) * q < TwoTo[(MaxExponent - 1) - E] => IsFinite(Plus(a, b))
  BY <1>1, <1>4, <1>6, RoundFinite
<1> HIDE DEF q
<1> QED BY <1>4, <1>5, <1>7, <1>8

\* So is a product, with twice the exponent.
LEMMA TimesIs ==
  ASSUME NEW a \in Floats, NEW b \in Floats, IsFinite(a), IsFinite(b),
         NEW E \in Int, E <= a.exp, E <= b.exp, E <= 0
  PROVE  /\ IsFinite(Times(a, b)) =>
              /\ Times(a, b) \in Floats
              /\ E <= Times(a, b).exp =>
                   At(Times(a, b), E) * TwoTo[-E] = Near(At(a, E) * At(b, E))
         /\ Abs(At(a, E) * At(b, E)) < TwoTo[(MaxExponent - 1) - (E + E)] => IsFinite(Times(a, b))
<1> DEFINE e == a.exp + b.exp
           n == a.sig * b.sig
           F == E + E
           p == TwoTo[a.exp - E]
           q == TwoTo[b.exp - E]
           r == TwoTo[e - F]
<1>1. /\ a.sig \in Int /\ a.exp \in Int /\ b.sig \in Int /\ b.exp \in Int
      /\ e \in Int /\ n \in Int /\ F \in Int /\ F <= e /\ F <= 0
  BY DEF Floats
<1>2. r = p * q /\ p \in Nat \ {0} /\ q \in Nat \ {0} /\ r \in Nat \ {0}
  <2>1. e - F = (a.exp - E) + (b.exp - E) /\ a.exp - E \in Nat /\ b.exp - E \in Nat /\ e - F \in Nat
    BY <1>1
  <2> QED BY <2>1, TwoToSum, TwoToGrows
<1>3. At(a, E) = a.sig * p /\ At(b, E) = b.sig * q
  BY DEF At
<1>4. Times(a, b) = Round(n, e)
  BY DEF Times
<1> HIDE DEF p, q
<1>5. At(a, E) * At(b, E) = n * r
  <2> HIDE DEF r
  <2>1. (a.sig * p) * (b.sig * q) = (a.sig * b.sig) * (p * q)
    BY <1>1, <1>2
  <2> QED BY <1>2, <1>3, <2>1
<1>6. Abs(n * r) = Abs(n) * r
  <2> HIDE DEF n, r
  <2> QED BY <1>1, <1>2, TimesSign DEF Abs
<1> HIDE DEF n, e
<1>7. Abs(n) * r < TwoTo[(MaxExponent - 1) - F] => IsFinite(Times(a, b))
  BY <1>1, <1>4, RoundFinite
<1>8. ASSUME IsFinite(Times(a, b))
      PROVE  /\ Times(a, b) \in Floats
             /\ E <= Times(a, b).exp => At(Times(a, b), E) * TwoTo[-E] = Near(n * r)
  <2>1. Times(a, b) \in Floats /\ F <= Times(a, b).exp /\ At(Times(a, b), F) = Near(n * r)
    BY <1>1, <1>4, <1>8, RoundIs
  <2>2. ASSUME E <= Times(a, b).exp PROVE At(Times(a, b), E) * TwoTo[-E] = Near(n * r)
    <3>1. F <= E /\ E - F = -E
      BY <1>1
    <3>2. At(Times(a, b), F) = At(Times(a, b), E) * TwoTo[E - F]
      BY <1>1, <2>1, <2>2, <3>1, AtIs
    <3> QED BY <2>1, <3>1, <3>2
  <2> QED BY <2>1, <2>2
<1> QED BY <1>5, <1>6, <1>7, <1>8

\* Floats are compared as integers with one exponent.
LEMMA LeqIs ==
  ASSUME NEW a \in Floats, NEW b \in Floats, IsFinite(a), IsFinite(b),
         NEW E \in Int, E <= a.exp, E <= b.exp
  PROVE  Leq(a, b) <=> At(a, E) <= At(b, E)
<1> DEFINE L == Lower(a, b)
           q == TwoTo[L - E]
<1>1. L \in Int /\ E <= L /\ L <= a.exp /\ L <= b.exp
  BY LowerIs
<1>2. Leq(a, b) <=> At(a, L) <= At(b, L)
  BY DEF Leq
<1> HIDE DEF L
<1>3. /\ At(a, L) \in Int /\ At(b, L) \in Int
      /\ At(a, E) = At(a, L) * q /\ At(b, E) = At(b, L) * q
  BY <1>1, AtIs
<1>4. q \in Nat \ {0}
  BY <1>1, TwoToGrows
<1> HIDE DEF q
<1> QED BY <1>2, <1>3, <1>4, TimesLeq, TimesCancel

\* The quotient before it is rounded, which has more than two bits more.
LEMMA QuotientIs ==
  ASSUME NEW s \in Nat, NEW b \in Nat \ {0}, NEW m \in Nat, m = Precision + Bits(b) + 1
  PROVE  LET shifted == s * TwoTo[m]
             q == 2 * (shifted \div b) + (IF shifted % b = 0 THEN 0 ELSE 1)
             t == TwoTo[Precision]
         IN  /\ q \in Nat /\ shifted \in Nat /\ (s = 0 => q = 0)
             /\ (q * b) * (4 * t) <= (2 * shifted) * (4 * t) + 2 * shifted
             /\ (2 * shifted) * (4 * t) <= (q * b) * (4 * t) + 2 * shifted
<1> DEFINE x == s * TwoTo[m]
           d == x \div b
           r == x % b
           q == 2 * d + (IF r = 0 THEN 0 ELSE 1)
           t == TwoTo[Precision]
<1>0. Precision \in Nat /\ t \in Nat \ {0} /\ TwoTo[m] \in Nat \ {0}
  BY FloatAssumption, TwoToGrows
<1>1. x \in Nat
  BY <1>0
<1>2. d \in Nat /\ r \in 0..(b - 1) /\ x = b * d + r
  <2> HIDE DEF x
  <2> QED BY <1>1, DivIs
<1>3. q \in Nat /\ q * b <= 2 * x + b /\ 2 * x <= q * b + b
  <2> HIDE DEF x, d, r
  <2>1. q * b = 2 * (b * d) + (IF r = 0 THEN 0 ELSE b)
    BY <1>2
  <2>2. q \in Nat
    BY <1>2
  <2>3. b * d \in Nat /\ 2 * x = 2 * (b * d) + 2 * r
    BY <1>2
  <2> HIDE DEF q
  <2> DEFINE y == b * d
  <2>4. q * b = 2 * y + (IF r = 0 THEN 0 ELSE b) /\ y \in Nat /\ 2 * x = 2 * y + 2 * r
    BY <2>1, <2>3
  <2> HIDE DEF y
  <2> QED BY <1>2, <2>2, <2>4
<1>4. CASE s = 0
  <2>1. x = 0
    BY <1>0, <1>4
  <2>2. d = 0 /\ r = 0
    <3> HIDE DEF d, r, x
    <3>1. b * d >= d
      BY <1>2
    <3> QED BY <1>2, <2>1, <3>1
  <2>3. q = 0
    BY <2>2
  <2> HIDE DEF x, q, t
  <2>4. (q * b) * (4 * t) = 0 /\ (2 * x) * (4 * t) = 0
    BY <1>0, <2>1, <2>3
  <2>5. /\ q \in Nat /\ x \in Nat /\ (s = 0 => q = 0)
        /\ (q * b) * (4 * t) <= (2 * x) * (4 * t) + 2 * x
        /\ (2 * x) * (4 * t) <= (q * b) * (4 * t) + 2 * x
    BY <1>1, <1>3, <2>1, <2>3, <2>4
  <2> QED BY <2>5 DEF x, q, t
<1>5. CASE s # 0
  <2>1. 2 * (t * b) <= x
    <3> DEFINE k == Bits(b)
               y == TwoTo[k]
    <3>1. k \in Nat /\ b < y /\ y \in Nat
      BY BitsIs, AbsIs, TwoToType
    <3>2. TwoTo[m] = 2 * (t * y)
      <4>1. m - 1 = Precision + k /\ m \in Nat \ {0} /\ Precision + k \in Nat
        BY <1>0, <3>1
      <4>2. TwoTo[m] = 2 * TwoTo[m - 1]
        BY <4>1, TwoToIs
      <4>3. TwoTo[Precision + k] = t * y
        BY <1>0, <3>1, TwoToSum
      <4> QED BY <4>1, <4>2, <4>3
    <3> HIDE DEF k, y, t
    <3>3. b * t <= y * t
      BY <1>0, <3>1, TimesLeq
    <3>4. 1 * TwoTo[m] <= s * TwoTo[m]
      BY <1>0, <1>5, TimesLeq
    <3> QED BY <1>0, <3>1, <3>2, <3>3, <3>4
  <2> HIDE DEF x, q, t
  <2>2. b * (4 * t) <= 2 * x
    BY <1>0, <1>1, <2>1
  <2>3. (q * b) * (4 * t) <= (2 * x + b) * (4 * t) /\ (2 * x) * (4 * t) <= (q * b + b) * (4 * t)
    <3>1. q * b \in Int /\ 2 * x \in Int /\ 4 * t \in Nat
      BY <1>0, <1>1, <1>3
    <3> QED BY <1>3, <3>1, TimesLeq
  <2>4. /\ (2 * x + b) * (4 * t) = (2 * x) * (4 * t) + b * (4 * t)
        /\ (q * b + b) * (4 * t) = (q * b) * (4 * t) + b * (4 * t)
    BY <1>0, <1>1, <1>3
  <2>5. (q * b) * (4 * t) \in Nat /\ (2 * x) * (4 * t) \in Nat /\ b * (4 * t) \in Nat
    BY <1>0, <1>1, <1>3
  <2> DEFINE u == (q * b) * (4 * t)
             v == (2 * x) * (4 * t)
             w == b * (4 * t)
  <2>6. u <= v + w /\ v <= u + w /\ w <= 2 * x /\ u \in Nat /\ v \in Nat /\ w \in Nat
    BY <2>2, <2>3, <2>4, <2>5
  <2> HIDE DEF u, v, w
  <2>7. u <= v + 2 * x /\ v <= u + 2 * x
    BY <1>1, <2>6
  <2> QED BY <1>1, <1>3, <1>5, <2>7 DEF u, v, x, q, t
<1> QED BY <1>4, <1>5

\* A quotient that is not positive, for any exponent that is small enough.
LEMMA OverIs ==
  ASSUME NEW a \in Floats, NEW b \in Floats, a.sig <= 0, b.sig > 0,
         NEW E \in Int, E <= 0, E <= a.exp, E <= b.exp,
         E <= a.exp - b.exp - (Precision + Bits(b.sig) + 1) - 1
  PROVE  \E k \in Nat :
           LET t == TwoTo[Precision]
               s == TwoTo[-E]
               x == -At(a, E)
               y == At(b, E)
           IN  /\ (k * y) * (4 * t) <= (x * s) * (4 * t) + x * s
               /\ (x * s) * (4 * t) <= (k * y) * (4 * t) + x * s
               /\ k < TwoTo[(MaxExponent - 1) - E] => IsFinite(Over(a, b))
               /\ IsFinite(Over(a, b)) =>
                    Over(a, b) \in Floats /\ E <= Over(a, b).exp /\ At(Over(a, b), E) = -Near(k)
<1> DEFINE m == Precision + Bits(b.sig) + 1
           e == a.exp - b.exp - m - 1
           n == -a.sig
           shifted == n * TwoTo[m]
           q == 2 * (shifted \div b.sig) + (IF shifted % b.sig = 0 THEN 0 ELSE 1)
           t == TwoTo[Precision]
           s == TwoTo[-E]
           x == -At(a, E)
           y == At(b, E)
           k == q * TwoTo[e - E]
           z == TwoTo[b.exp - E]
<1>1. /\ a.sig \in Int /\ b.sig \in Nat \ {0} /\ a.exp \in Int /\ b.exp \in Int
      /\ m \in Nat /\ e \in Int /\ E <= e /\ n \in Nat /\ Abs(a.sig) = n
  BY BitsIs, FloatAssumption DEF Floats, Abs
<1>2. /\ q \in Nat /\ shifted \in Nat /\ (n = 0 => q = 0)
      /\ (q * b.sig) * (4 * t) <= (2 * shifted) * (4 * t) + 2 * shifted
      /\ (2 * shifted) * (4 * t) <= (q * b.sig) * (4 * t) + 2 * shifted
  BY <1>1, QuotientIs
<1>3. Over(a, b) = Round(-q, e)
  <2>1. Over(a, b) = Round(IF a.sig < 0 THEN -q ELSE q, e)
    BY <1>1 DEF Over
  <2>2. ~ (a.sig < 0) => q = -q
    BY <1>1, <1>2
  <2> QED BY <2>1, <2>2
<1>4. TwoTo[e - E] \in Nat \ {0} /\ z \in Nat \ {0} /\ t \in Nat \ {0} /\ s \in Nat \ {0} /\ TwoTo[m] \in Nat
  <2>1. e - E \in Nat /\ b.exp - E \in Nat /\ Precision \in Nat /\ -E \in Nat
    BY <1>1, FloatAssumption
  <2> QED BY <1>1, <2>1, TwoToGrows
<1>5. y = b.sig * z
  BY DEF At
<1>6. x * s = (2 * shifted) * (TwoTo[e - E] * z)
  <2> DEFINE f == a.exp - E
  <2>1. f \in Nat /\ -E \in Nat /\ m + 1 \in Nat /\ e - E \in Nat /\ b.exp - E \in Nat
        /\ (e - E) + (b.exp - E) \in Nat /\ f + (-E) = (m + 1) + ((e - E) + (b.exp - E))
    BY <1>1
  <2>2. TwoTo[f + (-E)] = TwoTo[f] * s
    BY <2>1, TwoToSum
  <2>3. TwoTo[(m + 1) + ((e - E) + (b.exp - E))] = TwoTo[m + 1] * (TwoTo[e - E] * z)
    <3> DEFINE u == e - E
               w == b.exp - E
               v == m + 1
    <3>1. u \in Nat /\ w \in Nat /\ u + w \in Nat /\ v \in Nat
      BY <2>1
    <3> HIDE DEF u, w, v, z
    <3>2. TwoTo[v + (u + w)] = TwoTo[v] * TwoTo[u + w]
      BY <3>1, TwoToSum
    <3>3. TwoTo[u + w] = TwoTo[u] * TwoTo[w]
      BY <3>1, TwoToSum
    <3> QED BY <3>2, <3>3 DEF u, w, v, z
  <2>4. TwoTo[m + 1] = 2 * TwoTo[m]
    <3>1. (m + 1) - 1 = m /\ m + 1 \in Nat \ {0}
      BY <1>1
    <3> QED BY <3>1, TwoToIs
  <2>5. x = n * TwoTo[f] /\ TwoTo[f] \in Nat
    <3>1. TwoTo[f] \in Nat
      BY <2>1, TwoToType
    <3>2. x = -(a.sig * TwoTo[f])
      BY DEF At
    <3> HIDE DEF f, x
    <3>3. x = n * TwoTo[f]
      BY <1>1, <3>1, <3>2
    <3> QED BY <3>1, <3>3
  <2> DEFINE g == TwoTo[e - E] * z
  <2>6. g \in Nat
    BY <1>4
  <2>7. TwoTo[f] * s = (2 * TwoTo[m]) * g
    BY <2>1, <2>2, <2>3, <2>4
  <2> HIDE DEF f, x, s, g, n
  <2>8. x * s = n * (TwoTo[f] * s)
    BY <1>1, <1>4, <2>5
  <2>9. n * ((2 * TwoTo[m]) * g) = (2 * (n * TwoTo[m])) * g
    BY <1>1, <1>4, <2>6
  <2> QED BY <2>7, <2>8, <2>9 DEF g
<1> HIDE DEF m, e, n, shifted, q, t, s, x, z
<1>7. k \in Nat /\ k * y = (q * b.sig) * (TwoTo[e - E] * z)
  <2> HIDE DEF y
  <2> QED BY <1>1, <1>2, <1>4, <1>5
<1>8. /\ (k * y) * (4 * t) <= (x * s) * (4 * t) + x * s
      /\ (x * s) * (4 * t) <= (k * y) * (4 * t) + x * s
  <2> DEFINE g == TwoTo[e - E] * z
             i == q * b.sig
             j == 2 * shifted
             l == 4 * t
  <2>1. g \in Nat /\ i \in Nat /\ j \in Nat /\ l \in Nat /\ i * l <= j * l + j /\ j * l <= i * l + j
    BY <1>1, <1>2, <1>4
  <2>2. k * y = i * g /\ x * s = j * g
    BY <1>6, <1>7
  <2> HIDE DEF g, i, j, l, k, y
  <2>3. (i * l) * g <= (j * l + j) * g /\ (j * l) * g <= (i * l + j) * g
    <3>1. i * l \in Int /\ j * l + j \in Int /\ j * l \in Int /\ i * l + j \in Int
      BY <2>1
    <3> QED BY <2>1, <3>1, TimesLeq
  <2>4. /\ (i * l) * g = (i * g) * l /\ (j * l + j) * g = (j * g) * l + j * g
        /\ (j * l) * g = (j * g) * l /\ (i * l + j) * g = (i * g) * l + j * g
    BY <2>1
  <2> QED BY <2>2, <2>3, <2>4 DEF l
<1>9. k < TwoTo[(MaxExponent - 1) - E] => IsFinite(Over(a, b))
  <2>1. Abs(-q) = q
    BY <1>2, AbsIs
  <2> QED BY <1>1, <1>2, <1>3, <2>1, RoundFinite
<1>10. ASSUME IsFinite(Over(a, b))
       PROVE  Over(a, b) \in Floats /\ E <= Over(a, b).exp /\ At(Over(a, b), E) = -Near(k)
  <2>1. /\ Over(a, b) \in Floats /\ E <= Over(a, b).exp
        /\ At(Over(a, b), E) = Near((-q) * TwoTo[e - E])
    BY <1>1, <1>2, <1>3, <1>10, RoundIs
  <2>2. (-q) * TwoTo[e - E] = -k
    BY <1>2, <1>4
  <2>3. Near(-k) = -Near(k)
    BY <1>7, NearIs
  <2> QED BY <2>1, <2>2, <2>3
<1> QED BY <1>7, <1>8, <1>9, <1>10 DEF t, s, x

\* v / s to the nearest integer, and away from zero when there are two.
HalfUp(v, s) ==
  LET half == (2 * Abs(v) + s) \div (2 * s) IN IF v < 0 THEN -half ELSE half

\* HalfUp is the nearest integer of v/s.
LEMMA HalfUpIs ==
  ASSUME NEW v \in Int, NEW s \in Nat \ {0}
  PROVE  /\ HalfUp(v, s) \in Int
         /\ 2 * (HalfUp(v, s) * s) <= 2 * v + s /\ 2 * v <= 2 * (HalfUp(v, s) * s) + s
<1> DEFINE a == Abs(v)
           h == (2 * a + s) \div (2 * s)
           r == (2 * a + s) % (2 * s)
<1>1. a \in Nat /\ (v >= 0 => a = v) /\ (v < 0 => a = -v)
  BY DEF Abs
<1>2. h \in Nat /\ r \in 0..(2 * s - 1) /\ 2 * a + s = (2 * s) * h + r
  <2>1. 2 * a + s \in Nat /\ 2 * s \in Nat \ {0}
    BY <1>1
  <2> QED BY <2>1, DivIs
<1>3. HalfUp(v, s) = IF v < 0 THEN -h ELSE h
  BY DEF HalfUp
<1> HIDE DEF a, h, r
<1>4. 2 * (h * s) <= 2 * a + s /\ 2 * a + s < 2 * (h * s) + 2 * s /\ h * s \in Nat
  <2>1. (2 * s) * h = 2 * (h * s) /\ h * s \in Nat
    BY <1>2
  <2> QED BY <1>1, <1>2, <2>1
<1>5. (-h) * s = -(h * s)
  BY <1>2
<1> QED BY <1>1, <1>2, <1>3, <1>4, <1>5

\* And keeps the order.
LEMMA HalfUpMonotone ==
  ASSUME NEW v \in Int, NEW w \in Int, NEW s \in Nat \ {0}, v <= w
  PROVE  HalfUp(v, s) <= HalfUp(w, s)
<1>1. ASSUME NEW a \in Nat, NEW b \in Nat, a <= b
      PROVE  /\ (2 * a + s) \div (2 * s) \in Nat /\ (2 * b + s) \div (2 * s) \in Nat
             /\ (2 * a + s) \div (2 * s) <= (2 * b + s) \div (2 * s)
  <2> DEFINE h == (2 * a + s) \div (2 * s)
             g == (2 * b + s) \div (2 * s)
             u == 2 * s
             r == (2 * a + s) % (2 * s)
             q == (2 * b + s) % (2 * s)
  <2>1. 2 * a + s \in Nat /\ 2 * b + s \in Nat /\ 2 * s \in Nat \ {0}
    OBVIOUS
  <2>2. /\ h \in Nat /\ r \in 0..(u - 1) /\ 2 * a + s = u * h + r
        /\ g \in Nat /\ q \in 0..(u - 1) /\ 2 * b + s = u * g + q
    BY <2>1, DivIs
  <2>3. u \in Nat \ {0}
    OBVIOUS
  <2> HIDE DEF h, g, u, r, q
  <2>4. g < h => (g + 1) * u <= h * u
    BY <2>2, <2>3, TimesLeq
  <2>5. (g + 1) * u = u * g + u /\ h * u = u * h
    BY <2>2, <2>3
  <2>6. h <= g
    BY <1>1, <2>2, <2>3, <2>4, <2>5
  <2> QED BY <2>2, <2>6 DEF h, g
<1>2. CASE v >= 0
  <2>1. Abs(v) = v /\ Abs(w) = w /\ v \in Nat /\ w \in Nat /\ ~ (v < 0) /\ ~ (w < 0)
    BY <1>2 DEF Abs
  <2>2. HalfUp(v, s) = (2 * v + s) \div (2 * s) /\ HalfUp(w, s) = (2 * w + s) \div (2 * s)
    BY <2>1 DEF HalfUp
  <2> QED BY <1>1, <2>1, <2>2
<1>3. CASE v < 0 /\ w >= 0
  <2>1. Abs(v) \in Nat /\ Abs(w) \in Nat
    BY AbsIs
  <2>2. (2 * Abs(v) + s) \div (2 * s) \in Nat /\ (2 * Abs(w) + s) \div (2 * s) \in Nat
    BY <1>1, <2>1
  <2> QED BY <1>3, <2>2 DEF HalfUp
<1>4. CASE w < 0
  <2>1. Abs(v) \in Nat /\ Abs(w) \in Nat /\ Abs(w) <= Abs(v)
    BY <1>4 DEF Abs
  <2> DEFINE h == (2 * Abs(v) + s) \div (2 * s)
             g == (2 * Abs(w) + s) \div (2 * s)
  <2>2. h \in Nat /\ g \in Nat /\ g <= h
    BY <1>1, <2>1
  <2>3. HalfUp(v, s) = -h /\ HalfUp(w, s) = -g
    BY <1>4 DEF HalfUp
  <2> HIDE DEF h, g
  <2> QED BY <2>2, <2>3
<1> QED BY <1>2, <1>3, <1>4

\* A quotient does not change when both its parts are multiplied.
LEMMA DivScale ==
  ASSUME NEW a \in Nat, NEW u \in Nat \ {0}, NEW d \in Nat \ {0}
  PROVE  (a * d) \div (u * d) = a \div u
<1> DEFINE k == a \div u
           r == a % u
           x == r * d
           y == u * d
<1>1. k \in Nat /\ r \in 0..(u - 1) /\ a = u * k + r
  BY DivIs
<1> HIDE DEF k, r
<1>2. a * d = y * k + x /\ x \in Nat /\ y \in Nat \ {0} /\ x + d <= y /\ a * d \in Nat
  <2>1. (r + 1) * d <= u * d
    BY <1>1, TimesLeq
  <2> QED BY <1>1, <2>1
<1> HIDE DEF x, y
<1>3. x \in 0..(y - 1) /\ k \in Int
  BY <1>1, <1>2
<1>4. (a * d) \div y = k
  BY <1>2, <1>3, DivUnique, Zenon
<1> QED BY <1>4 DEF y, k

\* f32::round, of a float that is written with a lower exponent.
LEMMA RoundToIntIs ==
  ASSUME NEW f \in Floats, NEW E \in Int, E <= 0, E <= f.exp
  PROVE  RoundToInt(f) = HalfUp(At(f, E), TwoTo[-E])
<1> DEFINE a == Abs(f.sig)
           v == At(f, E)
           s == TwoTo[-E]
           k == TwoTo[f.exp - E]
<1>1. f.sig \in Int /\ f.exp \in Int /\ a \in Nat
  BY AbsIs DEF Floats
<1>2. k \in Nat \ {0} /\ s \in Nat \ {0} /\ v = f.sig * k
  <2>1. f.exp - E \in Nat /\ -E \in Nat
    BY <1>1
  <2> QED BY <2>1, TwoToGrows DEF At
<1>3. Abs(v) = a * k /\ (v < 0 <=> f.sig < 0) /\ v \in Int
  <2> HIDE DEF v, k
  <2> QED BY <1>1, <1>2, TimesSign DEF Abs
<1>4. CASE f.exp < 0
  <2> DEFINE t == TwoTo[-f.exp]
             half == (2 * a + t) \div TwoTo[1 - f.exp]
  <2>1. -f.exp \in Nat /\ f.exp - E \in Nat /\ -E = (-f.exp) + (f.exp - E)
    BY <1>1, <1>4
  <2>2. s = t * k /\ t \in Nat \ {0}
    BY <2>1, TwoToSum, TwoToGrows
  <2>3. TwoTo[1 - f.exp] = 2 * t
    <3>1. 1 - f.exp \in Nat \ {0} /\ (1 - f.exp) - 1 = -f.exp
      BY <1>1, <1>4
    <3> QED BY <3>1, TwoToIs
  <2>4. RoundToInt(f) = IF f.sig < 0 THEN -half ELSE half
    BY <1>4 DEF RoundToInt
  <2> HIDE DEF a, v, s, k, t
  <2>5. (2 * Abs(v) + s) \div (2 * s) = (2 * a + t) \div (2 * t)
    <3>1. 2 * Abs(v) + s = (2 * a + t) * k /\ 2 * s = (2 * t) * k
      BY <1>1, <1>2, <1>3, <2>2
    <3>2. 2 * a + t \in Nat /\ 2 * t \in Nat \ {0}
      BY <1>1, <2>2
    <3> QED BY <1>2, <3>1, <3>2, DivScale
  <2>6. RoundToInt(f) = HalfUp(v, s)
    BY <1>3, <2>3, <2>4, <2>5 DEF HalfUp
  <2> QED BY <2>6 DEF v, s
<1>5. CASE f.exp >= 0
  <2> DEFINE t == TwoTo[f.exp]
             whole == a * t
  <2>1. f.exp \in Nat /\ -E \in Nat /\ f.exp - E = f.exp + (-E)
    BY <1>1, <1>5
  <2>2. k = t * s /\ t \in Nat
    BY <2>1, TwoToSum, TwoToType
  <2>3. RoundToInt(f) = IF f.sig < 0 THEN -whole ELSE whole
    BY <1>1, <1>5 DEF RoundToInt
  <2> HIDE DEF a, v, s, k, t, whole
  <2>4. whole \in Nat /\ Abs(v) = whole * s
    <3>1. whole = a * t
      BY DEF whole
    <3> QED BY <1>1, <1>2, <1>3, <2>2, <3>1
  <2>5. (2 * Abs(v) + s) \div (2 * s) = whole
    <3>1. 2 * Abs(v) + s = (2 * s) * whole + s /\ 2 * Abs(v) + s \in Nat
      BY <1>2, <2>4
    <3>2. 2 * s \in Nat \ {0} /\ s \in 0..(2 * s - 1) /\ whole \in Int
      BY <1>2, <2>4
    <3> QED BY <3>1, <3>2, DivUnique, Zenon
  <2>6. RoundToInt(f) = HalfUp(v, s)
    BY <1>3, <2>3, <2>5 DEF HalfUp
  <2> QED BY <2>6 DEF v, s
<1> QED BY <1>1, <1>4, <1>5

-----------------------------------------------------------------------------
(* How far from the exact result two roundings take a product, and three   *)
(* the slope of the line.                                                  *)

\* A product with a rounded factor is rounded twice.
LEMMA ProductError ==
  ASSUME NEW v \in Nat, NEW n \in Nat, 64 <= TwoTo[Precision]
  PROVE  LET p == Near(v * Near(n))
             t == TwoTo[Precision]
         IN  /\ p \in Nat
             /\ (p - v * n) * (64 * t) <= 129 * (v * n)
             /\ (v * n - p) * (64 * t) <= 129 * (v * n)
<1> DEFINE t == TwoTo[Precision]
           h == Near(n)
           e == v * n
           f == v * h
           p == Near(f)
<1>1. t \in Nat \ {0} /\ 64 <= t
  BY FloatAssumption, TwoToGrows
<1>2. h \in Nat /\ h * t <= n * t + n /\ n * t <= h * t + n
  BY NearIs, AbsIs
<1>3. e \in Nat /\ f \in Nat
  BY <1>2
<1>4. p \in Nat /\ p * t <= f * t + f /\ f * t <= p * t + f
  BY <1>3, NearIs, AbsIs
<1> HIDE DEF t, h, p
<1>5. f * t <= e * t + e /\ e * t <= f * t + e
  <2>1. (h * t) * v <= (n * t + n) * v /\ (n * t) * v <= (h * t + n) * v
    BY <1>1, <1>2, TimesLeq
  <2> QED BY <1>1, <1>2, <2>1
<1> HIDE DEF e, f
<1>6. 64 * f <= 65 * e
  <2>1. CASE f <= e
    BY <1>3, <2>1
  <2>2. CASE f > e
    <3>1. 64 * (f - e) <= t * (f - e)
      BY <1>1, <1>3, <2>2, TimesLeq
    <3> QED BY <1>1, <1>3, <1>5, <3>1
  <2> QED BY <1>3, <2>1, <2>2
<1>7. (p - e) * t <= e + f /\ (e - p) * t <= e + f
  BY <1>1, <1>3, <1>4, <1>5
<1>8. (p - e) * (64 * t) <= 129 * e /\ (e - p) * (64 * t) <= 129 * e
  <2> DEFINE d == (p - e) * t
  <2>1. d \in Int /\ (p - e) * (64 * t) = 64 * d /\ (e - p) * (64 * t) = -(64 * d) /\ (e - p) * t = -d
    BY <1>1, <1>3, <1>4
  <2> HIDE DEF d
  <2> QED BY <1>3, <1>6, <1>7, <2>1 DEF d
<1> QED BY <1>4, <1>8 DEF t, h, e, f, p

\* The slope is off by two roundings of Lq, one of the quotient, and what the quotient
\* to more bits leaves out.
LEMMA SlopeError ==
  ASSUME NEW T \in Nat, 128 <= T, NEW R \in Nat, NEW L \in Nat, NEW G \in Nat,
         NEW k \in Nat, NEW a \in Nat,
         (L - G) * (64 * T) <= 129 * G, (G - L) * (64 * T) <= 129 * G,
         (k * L) * (4 * T) <= R * (4 * T) + R, R * (4 * T) <= (k * L) * (4 * T) + R,
         a * T <= k * T + k, k * T <= a * T + k
  PROVE  (a * G - R) * T <= 4 * R /\ (R - a * G) * T <= 4 * R
<1> DEFINE kl == k * L
           al == a * L
           ag == a * G
<1>1. kl \in Nat /\ al \in Nat /\ ag \in Nat
  OBVIOUS
<1>2. (al - kl) * T <= kl /\ (kl - al) * T <= kl
  <2>1. (a * T) * L <= (k * T + k) * L /\ (k * T) * L <= (a * T + k) * L
    BY TimesLeq
  <2> QED BY <2>1
<1>3. (ag - al) * (64 * T) <= 129 * ag /\ (al - ag) * (64 * T) <= 129 * ag
  <2>1. ((L - G) * (64 * T)) * a <= (129 * G) * a /\ ((G - L) * (64 * T)) * a <= (129 * G) * a
    BY TimesLeq
  <2> QED BY <2>1
<1>4. (kl - R) * (4 * T) <= R /\ (R - kl) * (4 * T) <= R
  OBVIOUS
<1> HIDE DEF kl, al, ag
<1> DEFINE x == (al - kl) * T
           y == (ag - al) * T
           z == (kl - R) * T
           w == (ag - R) * T
<1>5. /\ x \in Int /\ y \in Int /\ z \in Int /\ w \in Int /\ w = x + y + z
      /\ (kl - al) * T = -x /\ (ag - al) * (64 * T) = 64 * y /\ (al - ag) * (64 * T) = -(64 * y)
      /\ (kl - R) * (4 * T) = 4 * z /\ (R - kl) * (4 * T) = -(4 * z) /\ (R - ag) * T = -w
  BY <1>1
<1>6. 64 * w <= 64 * kl + 129 * ag + 16 * R /\ -(64 * w) <= 64 * kl + 129 * ag + 16 * R
  <2> HIDE DEF x, y, z, w
  <2> QED BY <1>1, <1>2, <1>3, <1>4, <1>5 DEF x
<1>7. 512 * (kl - R) <= R
  <2>1. CASE kl <= R
    BY <1>1, <2>1
  <2>2. CASE kl > R
    <3>1. 128 * (kl - R) <= T * (kl - R)
      BY <1>1, <2>2, TimesLeq
    <3> QED BY <1>1, <1>4, <3>1
  <2> QED BY <1>1, <2>1, <2>2
<1>8. 8192 * (ag - R) <= 64 * kl + 129 * ag + 16 * R
  <2>1. CASE ag <= R
    BY <1>1, <2>1
  <2>2. CASE ag > R
    <3>1. 128 * (ag - R) <= T * (ag - R)
      BY <1>1, <2>2, TimesLeq
    <3>2. w = T * (ag - R)
      BY <1>1
    <3> HIDE DEF w
    <3> QED BY <1>1, <1>5, <1>6, <3>1, <3>2
  <2> QED BY <1>1, <2>1, <2>2
<1>9. w <= 4 * R /\ -w <= 4 * R
  <2> HIDE DEF w
  <2> QED BY <1>1, <1>5, <1>6, <1>7, <1>8
<1> QED BY <1>5, <1>9 DEF ag

\* What the slope, times a balance, is at most: R is the slope times G.
LEMMA SlopeTimes ==
  ASSUME NEW T \in Nat \ {0}, NEW G \in Nat \ {0}, NEW R \in Nat, NEW a \in Nat, NEW y \in Nat,
         NEW c \in Nat, (a * G - R) * T <= 4 * R, R * y <= c * G
  PROVE  (a * y) * T <= c * (T + 4)
<1> DEFINE ry == R * y
           cg == c * G
           ay == a * y
<1>1. (a * G) * T <= R * (T + 4)
  OBVIOUS
<1>2. ((a * G) * T) * y <= (R * (T + 4)) * y
  BY <1>1, TimesLeq
<1>3. ((a * G) * T) * y = (ay * T) * G /\ (R * (T + 4)) * y = ry * (T + 4)
  OBVIOUS
<1>4. ay \in Nat /\ ry \in Nat /\ cg \in Nat /\ ry <= cg
  OBVIOUS
<1> HIDE DEF ry, cg, ay
<1>5. ry * (T + 4) <= cg * (T + 4)
  BY <1>4, TimesLeq
<1>6. cg * (T + 4) = (c * (T + 4)) * G
  BY DEF cg
<1>7. (ay * T) * G <= (c * (T + 4)) * G
  BY <1>2, <1>3, <1>4, <1>5, <1>6
<1>8. ay * T \in Int /\ c * (T + 4) \in Int
  BY <1>4
<1>9. ay * T <= c * (T + 4)
  BY <1>7, <1>8, TimesCancel
<1> QED BY <1>9 DEF ay

\* What is a small part of n is a small part of a unit, if n is bounded.
LEMMA Relative ==
  ASSUME NEW T \in Nat \ {0}, NEW e \in Int, NEW s \in Nat, NEW n \in Int, NEW k \in Int,
         e * T <= s * n, 128 * n <= k * T
  PROVE  128 * e <= s * k
<1>1. (128 * n) * s <= (k * T) * s
  BY TimesLeq
<1>2. (128 * e) * T <= (s * k) * T
  <2> DEFINE x == e * T
             y == s * n
             z == (k * T) * s
  <2>1. x \in Int /\ y \in Int /\ z \in Int /\ x <= y /\ 128 * y <= z
    BY <1>1
  <2>2. (128 * e) * T = 128 * x /\ (s * k) * T = z
    OBVIOUS
  <2> HIDE DEF x, y, z
  <2> QED BY <2>1, <2>2
<1>3. 128 * e \in Int /\ s * k \in Int
  OBVIOUS
<1> QED BY <1>2, <1>3, TimesCancel

\* The same, of a distance.
LEMMA RelativeAbs ==
  ASSUME NEW T \in Nat \ {0}, NEW e \in Int, NEW s \in Nat, NEW n \in Int, NEW k \in Int,
         e * T <= s * n, (-e) * T <= s * n, 128 * n <= k * T
  PROVE  128 * e <= s * k /\ -(128 * e) <= s * k
<1>1. 128 * e <= s * k
  BY Relative
<1>2. 128 * (-e) <= s * k
  BY Relative
<1> QED BY <1>1, <1>2

\* The products of the slope with the minimum balance and with the balance are
\* small, and so are what two roundings of each make of them: Mild.
LEMMA SlopeProducts ==
  ASSUME NEW T \in Nat, 128 <= T, NEW S \in Nat \ {0}, NEW G \in Nat \ {0},
         NEW A \in Nat, NEW a \in Nat, NEW b \in Nat, NEW x \in Nat, b <= x,
         (a * G - A * (S * S)) * T <= 4 * (A * (S * S)),
         (A * (b * S + G)) * 32 <= G * T,
         (A * ((x - b) * S)) * 32 <= G * (32 * A + 5)
  PROVE  32 * (a * b) <= S * (T + 4) /\ 32 * (a * x) <= S * (T + 10)
<1> DEFINE R == A * (S * S)
           w == A * (b * S)
           v == A * ((x - b) * S)
           g == A * G
<1>1. w \in Nat /\ g \in Nat /\ v \in Int /\ R \in Nat
  OBVIOUS
<1>2. 32 * w + 32 * g <= G * T
  <2>1. A * (b * S + G) = w + g
    OBVIOUS
  <2> QED BY <1>1, <2>1
<1>3. 32 * v <= 32 * g + 5 * G
  <2>1. G * (32 * A + 5) = 32 * g + 5 * G
    OBVIOUS
  <2> QED BY <1>1, <2>1
<1>4. 32 * w <= G * T /\ 32 * (w + v) <= G * (T + 5)
  <2> DEFINE gt == G * T
  <2>1. gt \in Nat /\ G * (T + 5) = gt + 5 * G
    OBVIOUS
  <2> HIDE DEF w, v, g, gt
  <2> QED BY <1>1, <1>2, <1>3, <2>1 DEF gt
<1>5. R * (32 * b) = (32 * w) * S /\ R * (32 * x) = (32 * (w + v)) * S
  OBVIOUS
<1>6. w + v = A * (x * S)
  OBVIOUS
<1> HIDE DEF R, w, v, g
<1>7. R * (32 * b) <= (S * T) * G
  <2>1. (32 * w) * S <= (G * T) * S
    BY <1>1, <1>4, TimesLeq
  <2>2. (G * T) * S = (S * T) * G
    OBVIOUS
  <2> QED BY <1>5, <2>1, <2>2
<1>8. R * (32 * x) <= (S * (T + 5)) * G
  <2>1. (32 * (w + v)) * S <= (G * (T + 5)) * S
    BY <1>1, <1>4, TimesLeq
  <2>2. (G * (T + 5)) * S = (S * (T + 5)) * G
    OBVIOUS
  <2> QED BY <1>5, <2>1, <2>2
<1>9. (a * G - R) * T <= 4 * R
  BY DEF R
<1>10. (a * (32 * b)) * T <= (S * T) * (T + 4)
  <2>1. T \in Nat \ {0} /\ 32 * b \in Nat /\ S * T \in Nat
    OBVIOUS
  <2> QED BY <1>1, <1>7, <1>9, <2>1, SlopeTimes
<1>11. (a * (32 * x)) * T <= (S * (T + 5)) * (T + 4)
  <2>1. T \in Nat \ {0} /\ 32 * x \in Nat /\ S * (T + 5) \in Nat
    OBVIOUS
  <2> QED BY <1>1, <1>8, <1>9, <2>1, SlopeTimes
<1>12. 32 * (a * b) <= S * (T + 4)
  <2>1. (S * T) * (T + 4) = (S * (T + 4)) * T
    OBVIOUS
  <2>2. a * (32 * b) \in Int /\ S * (T + 4) \in Int /\ T \in Nat \ {0} /\ a * (32 * b) = 32 * (a * b)
    OBVIOUS
  <2> QED BY <1>10, <2>1, <2>2, TimesCancel
<1>13. 32 * (a * x) <= S * (T + 10)
  <2>1. (T + 5) * (T + 4) <= (T + 10) * T
    <3>1. (T + 5) * (T + 4) = T * T + 9 * T + 20 /\ (T + 10) * T = T * T + 10 * T
      OBVIOUS
    <3> QED BY <3>1
  <2>2. ((T + 5) * (T + 4)) * S <= ((T + 10) * T) * S
    BY <2>1, TimesLeq
  <2>3. ((T + 5) * (T + 4)) * S = (S * (T + 5)) * (T + 4) /\ ((T + 10) * T) * S = (S * (T + 10)) * T
    OBVIOUS
  <2>4. a * (32 * x) \in Int /\ S * (T + 10) \in Int /\ T \in Nat \ {0} /\ a * (32 * x) = 32 * (a * x)
        /\ (S * (T + 5)) * (T + 4) \in Int
    OBVIOUS
  <2>5. (a * (32 * x)) * T <= (S * (T + 10)) * T
    BY <1>11, <2>2, <2>3, <2>4
  <2> QED BY <2>4, <2>5, TimesCancel
<1> QED BY <1>12, <1>13

\* p and r are the slope times the minimum balance and times the balance, P and
\* Q those products as they are rounded, B and Y the constant of the line and its
\* value, all in S'ths.
Sizes(T, S, A, M, p, r, P, Q, B, Y) ==
  /\ T \in Nat /\ S \in Nat \ {0} /\ A \in Nat /\ M \in Nat /\ A <= M /\ 128 <= T /\ 128 * M <= T
  /\ p \in Nat /\ r \in Nat /\ P \in Nat /\ Q \in Nat /\ P <= Q /\ B \in Int /\ Y \in Int
  /\ 32 * p <= S * (T + 4) /\ 32 * r <= S * (T + 10) /\ 4096 * (r - p) <= S * (132 * (32 * A + 5))
  /\ (P - p) * (64 * T) <= 129 * p /\ (p - P) * (64 * T) <= 129 * p
  /\ (Q - r) * (64 * T) <= 129 * r /\ (r - Q) * (64 * T) <= 129 * r
  /\ B * T <= (M * S + P) * T + (M * S + P) /\ (M * S + P) * T <= B * T + (M * S + P)
  /\ Y * T <= (B - Q) * T + Abs(B - Q) /\ (B - Q) * T <= Y * T + Abs(B - Q)

\* The line in parts: 51662/262144 is less than a quarter of a unit.
LEMMA LineParts ==
  ASSUME NEW T, NEW S, NEW A, NEW M, NEW p, NEW r, NEW P, NEW Q, NEW B, NEW Y,
         Sizes(T, S, A, M, p, r, P, Q, B, Y)
  PROVE  LET off == Y - (M * S + p - r)
         IN  262144 * off <= 51662 * S /\ -(262144 * off) <= 51662 * S
<1> USE DEF Sizes
<1> DEFINE c == P - p
           d == Q - r
           e == B - (M * S + P)
           f == Y - (B - Q)
           ms == M * S
           as == A * S
<1>0. T \in Nat \ {0} /\ ms \in Nat /\ as \in Nat /\ as <= ms /\ c \in Int /\ d \in Int /\ e \in Int /\ f \in Int
  <2>1. A * S <= M * S
    BY TimesLeq
  <2> QED BY <2>1
<1>1. 262144 * c <= 17028 * S /\ -(262144 * c) <= 17028 * S
  <2> DEFINE n == 129 * (T + 4)
             ct == c * T
             st == S * T
  <2>1. ct \in Int /\ st \in Nat
    OBVIOUS
  <2>2. 64 * ct <= 129 * p /\ -(64 * ct) <= 129 * p
    OBVIOUS
  <2>3. 32 * p <= st + 4 * S
    OBVIOUS
  <2>4. (2048 * c) * T = 2048 * ct /\ (-(2048 * c)) * T = -(2048 * ct) /\ S * n = 129 * st + 516 * S
    OBVIOUS
  <2>5. 128 * n <= 17028 * T /\ n \in Int /\ 2048 * c \in Int
    OBVIOUS
  <2> HIDE DEF c, n, ct, st
  <2>6. (2048 * c) * T <= S * n /\ (-(2048 * c)) * T <= S * n
    BY <2>1, <2>2, <2>3, <2>4
  <2>7. 128 * (2048 * c) <= S * 17028 /\ -(128 * (2048 * c)) <= S * 17028
    BY <1>0, <2>5, <2>6, RelativeAbs
  <2> QED BY <1>0, <2>7
<1>2. 262144 * d <= 17802 * S /\ -(262144 * d) <= 17802 * S
  <2> DEFINE n == 129 * (T + 10)
             dt == d * T
             st == S * T
  <2>1. dt \in Int /\ st \in Nat
    OBVIOUS
  <2>2. 64 * dt <= 129 * r /\ -(64 * dt) <= 129 * r
    OBVIOUS
  <2>3. 32 * r <= st + 10 * S
    OBVIOUS
  <2>4. (2048 * d) * T = 2048 * dt /\ (-(2048 * d)) * T = -(2048 * dt) /\ S * n = 129 * st + 1290 * S
    OBVIOUS
  <2>5. 128 * n <= 17802 * T /\ n \in Int /\ 2048 * d \in Int
    OBVIOUS
  <2> HIDE DEF d, n, dt, st
  <2>6. (2048 * d) * T <= S * n /\ (-(2048 * d)) * T <= S * n
    BY <2>1, <2>2, <2>3, <2>4
  <2>7. 128 * (2048 * d) <= S * 17802 /\ -(128 * (2048 * d)) <= S * 17802
    BY <1>0, <2>5, <2>6, RelativeAbs
  <2> QED BY <1>0, <2>7
<1>3. 32 * P <= S * T + 7 * S
  <2> DEFINE st == S * T
  <2>1. st \in Nat /\ 32 * p <= st + 4 * S
    OBVIOUS
  <2>2. P = p + c
    OBVIOUS
  <2> HIDE DEF c, st
  <2>3. 32 * P <= st + 7 * S
    BY <1>0, <1>1, <2>1, <2>2
  <2> QED BY <2>3 DEF st
<1>4. 4096 * e <= 167 * S /\ -(4096 * e) <= 167 * S
  <2> DEFINE n == 32 * M + T + 7
             et == e * T
             st == S * T
  <2>1. et \in Int /\ st \in Nat /\ et <= ms + P /\ -et <= ms + P
    OBVIOUS
  <2>2. (32 * e) * T = 32 * et /\ (-(32 * e)) * T = -(32 * et) /\ S * n = 32 * ms + st + 7 * S
    OBVIOUS
  <2>3. 128 * n <= 167 * T /\ n \in Int /\ 32 * e \in Int
    OBVIOUS
  <2> HIDE DEF e, n, et, ms
  <2>4. (32 * e) * T <= S * n /\ (-(32 * e)) * T <= S * n
    <3>1. 32 * P <= st + 7 * S
      BY <1>3
    <3> HIDE DEF st
    <3> QED BY <1>0, <2>1, <2>2, <3>1
  <2>5. 128 * (32 * e) <= S * 167 /\ -(128 * (32 * e)) <= S * 167
    BY <1>0, <2>3, <2>4, RelativeAbs
  <2> QED BY <1>0, <2>5
<1>5. B - Q <= 2 * ms + S /\ -(B - Q) <= 2 * ms + S
  <2>1. B - Q = ms + P + e - Q /\ B - Q = ms + p - r + c - d + e
    OBVIOUS
  <2>2. 4096 * (r - p) <= 4224 * as + 660 * S
    OBVIOUS
  <2> HIDE DEF c, d, e, ms, as
  <2> QED BY <1>0, <1>1, <1>2, <1>4, <2>1, <2>2
<1>6. 128 * f <= 3 * S /\ -(128 * f) <= 3 * S
  <2> DEFINE n == 2 * M + 1
             ft == f * T
  <2>1. ft \in Int /\ ft <= Abs(B - Q) /\ -ft <= Abs(B - Q)
    BY DEF Abs
  <2>2. Abs(B - Q) <= 2 * ms + S
    BY <1>5 DEF Abs
  <2>3. f * T = ft /\ (-f) * T = -ft /\ S * n = 2 * ms + S /\ Abs(B - Q) \in Int
    BY DEF Abs
  <2>4. 128 * n <= 3 * T /\ n \in Int
    OBVIOUS
  <2> HIDE DEF f, n, ft, ms
  <2>5. f * T <= S * n /\ (-f) * T <= S * n
    BY <1>0, <2>1, <2>2, <2>3
  <2>6. 128 * f <= S * 3 /\ -(128 * f) <= S * 3
    BY <1>0, <2>4, <2>5, RelativeAbs
  <2> QED BY <1>0, <2>6
<1>7. Y - (ms + p - r) = c - d + e + f
  OBVIOUS
<1> HIDE DEF c, d, e, f
<1>8. LET off == Y - (ms + p - r)
      IN  262144 * off <= 51662 * S /\ -(262144 * off) <= 51662 * S
  BY <1>0, <1>1, <1>2, <1>4, <1>6, <1>7
<1> QED BY <1>8 DEF ms

\* The numbers of a line that Mild allows, at a balance x above the minimum b: G
\* is Lq and a the slope, P and Q the slope's rounded products with b and x, B
\* and Y the constant of the line and its value.
Drawn(T, S, G, A, M, a, b, x, P, Q, B, Y) ==
  /\ T \in Nat /\ S \in Nat \ {0} /\ G \in Nat \ {0} /\ A \in Nat /\ M \in Nat
  /\ A <= M /\ 128 <= T /\ 128 * M <= T
  /\ a \in Nat /\ b \in Nat /\ x \in Nat /\ b <= x
  /\ P \in Nat /\ Q \in Nat /\ P <= Q /\ B \in Int /\ Y \in Int
  /\ (a * G - A * (S * S)) * T <= 4 * (A * (S * S))
  /\ (A * (S * S) - a * G) * T <= 4 * (A * (S * S))
  /\ (A * (b * S + G)) * 32 <= G * T
  /\ (A * ((x - b) * S)) * 32 <= G * (32 * A + 5)
  /\ (P - a * b) * (64 * T) <= 129 * (a * b) /\ (a * b - P) * (64 * T) <= 129 * (a * b)
  /\ (Q - a * x) * (64 * T) <= 129 * (a * x) /\ (a * x - Q) * (64 * T) <= 129 * (a * x)
  /\ B * T <= (M * S + P) * T + (M * S + P) /\ (M * S + P) * T <= B * T + (M * S + P)
  /\ Y * T <= (B - Q) * T + Abs(B - Q) /\ (B - Q) * T <= Y * T + Abs(B - Q)

\* The value of such a line is within a quarter of what it is in exact arithmetic.
LEMMA LineError ==
  ASSUME NEW T, NEW S, NEW G, NEW A, NEW M, NEW a, NEW b, NEW x, NEW P, NEW Q, NEW B, NEW Y,
         Drawn(T, S, G, A, M, a, b, x, P, Q, B, Y)
  PROVE  LET off == Y * G - S * (M * G - A * ((x - b) * S))
         IN  4 * off <= S * G /\ -(4 * off) <= S * G
<1> USE DEF Drawn
<1> DEFINE R == A * (S * S)
           d == x - b
           p == a * b
           r == a * x
           v == A * (d * S)
           off == Y - (M * S + p - r)
           h == (R - a * G) * d
<1>1. 32 * p <= S * (T + 4) /\ 32 * r <= S * (T + 10)
  BY SlopeProducts
<1>2. d \in Nat /\ R \in Nat /\ p \in Nat /\ r \in Nat /\ v \in Nat /\ T \in Nat \ {0}
  OBVIOUS
<1>3. R * (32 * d) <= (S * (32 * A + 5)) * G
  <2>1. (v * 32) * S <= (G * (32 * A + 5)) * S
    BY <1>2, TimesLeq
  <2>2. R * (32 * d) = (v * 32) * S /\ (G * (32 * A + 5)) * S = (S * (32 * A + 5)) * G
    OBVIOUS
  <2> QED BY <2>1, <2>2
<1>4. 4096 * (r - p) <= S * (132 * (32 * A + 5))
  <2> DEFINE n == 32 * A + 5
  <2>1. (a * (32 * d)) * T <= (S * n) * (T + 4)
    <3>1. 32 * d \in Nat /\ S * n \in Nat /\ T \in Nat \ {0}
      OBVIOUS
    <3>2. (a * G - R) * T <= 4 * R
      OBVIOUS
    <3> HIDE DEF R, d
    <3> QED BY <1>2, <1>3, <3>1, <3>2, SlopeTimes
  <2>2. (S * n) * (T + 4) = S * (n * (T + 4)) /\ a * (32 * d) = 32 * (r - p)
    OBVIOUS
  <2>3. n \in Nat
    OBVIOUS
  <2> HIDE DEF n, r, p, d
  <2>4. 128 * (n * (T + 4)) <= (132 * n) * T
    <3>1. n * 128 <= n * T
      BY <2>3, TimesLeq
    <3> QED BY <2>3, <3>1
  <2>5. (32 * (r - p)) * T <= S * (n * (T + 4))
    BY <2>1, <2>2
  <2>6. 128 * (32 * (r - p)) <= S * (132 * n)
    <3>1. 32 * (r - p) \in Int /\ n * (T + 4) \in Int /\ 132 * n \in Int
      BY <1>2, <2>3
    <3> QED BY <1>2, <2>4, <2>5, <3>1, Relative
  <2> QED BY <1>2, <2>6 DEF n
<1>5. 262144 * off <= 51662 * S /\ -(262144 * off) <= 51662 * S
  <2>1. /\ (P - p) * (64 * T) <= 129 * p /\ (p - P) * (64 * T) <= 129 * p
        /\ (Q - r) * (64 * T) <= 129 * r /\ (r - Q) * (64 * T) <= 129 * r
    OBVIOUS
  <2> HIDE DEF p, r, R, d, v, h
  <2>2. Sizes(T, S, A, M, p, r, P, Q, B, Y)
    BY <1>1, <1>2, <1>4, <2>1 DEF Sizes
  <2> QED BY <2>2, LineParts
<1>6. 4096 * h <= 148 * (S * G) /\ -(4096 * h) <= 148 * (S * G)
  <2> DEFINE n == 4 * (32 * A + 5)
             rd == R * d
             s == S * G
             ht == h * T
  <2>1. ht <= 4 * rd /\ -ht <= 4 * rd
    <3>1. ((R - a * G) * T) * d <= (4 * R) * d /\ ((a * G - R) * T) * d <= (4 * R) * d
      BY <1>2, TimesLeq
    <3>2. /\ ((R - a * G) * T) * d = ht /\ ((a * G - R) * T) * d = -ht
          /\ (4 * R) * d = 4 * rd
      OBVIOUS
    <3> QED BY <3>1, <3>2
  <2>2. 32 * rd <= s * (32 * A + 5)
    <3>1. R * (32 * d) = 32 * rd /\ (S * (32 * A + 5)) * G = s * (32 * A + 5)
      OBVIOUS
    <3> QED BY <1>3, <3>1
  <2>3. s * n = 4 * (s * (32 * A + 5)) /\ (32 * h) * T = 32 * ht /\ (-(32 * h)) * T = -(32 * ht)
    OBVIOUS
  <2>4. 128 * n <= 148 * T /\ n \in Int /\ h \in Int /\ s \in Nat /\ ht \in Int /\ rd \in Nat
    OBVIOUS
  <2> DEFINE sn == s * (32 * A + 5)
  <2>5. sn \in Nat /\ s * n = 4 * sn /\ 32 * rd <= sn
    BY <2>2, <2>3
  <2> HIDE DEF n, h, s, ht, rd, sn
  <2>6. (32 * h) * T <= s * n /\ (-(32 * h)) * T <= s * n
    BY <2>1, <2>3, <2>4, <2>5
  <2>7. 32 * h \in Int
    BY <2>4
  <2>8. 128 * (32 * h) <= s * 148 /\ -(128 * (32 * h)) <= s * 148
    BY <1>2, <2>4, <2>6, <2>7, RelativeAbs
  <2> QED BY <2>4, <2>8 DEF s
<1>7. Y * G - S * (M * G - v) = off * G + h
  OBVIOUS
<1>8. 262144 * (off * G) <= 51662 * (S * G) /\ -(262144 * (off * G)) <= 51662 * (S * G)
  <2>1. off \in Int /\ 262144 * off \in Int /\ -(262144 * off) \in Int /\ 51662 * S \in Int /\ G \in Nat
    OBVIOUS
  <2> HIDE DEF off
  <2>2. (262144 * off) * G <= (51662 * S) * G /\ (-(262144 * off)) * G <= (51662 * S) * G
    BY <1>5, <2>1, TimesLeq
  <2> QED BY <2>1, <2>2
<1>9. h \in Int /\ off * G \in Int /\ S * G \in Nat
  OBVIOUS
<1> DEFINE e == off * G
           s == S * G
<1>10. 4 * (e + h) <= s /\ -(4 * (e + h)) <= s
  <2> HIDE DEF e, h, s
  <2> QED BY <1>6, <1>8, <1>9 DEF e, s
<1> QED BY <1>7, <1>10 DEF v, d

-----------------------------------------------------------------------------
(* Where the thresholds are.  In S'ths: B is the minimum balance, X the    *)
(* balance, h and y what they are as floats, L and G the length of the     *)
(* line as it is rounded and exactly, V its end.                           *)

\* Which side of the thresholds a balance is on in exact arithmetic, but for five parts
\* in 2^Precision of b + Lq.
LEMMA Thresholds ==
  ASSUME NEW T \in Nat, 128 <= T, NEW B \in Nat, NEW X \in Nat, NEW G \in Nat,
         NEW h \in Nat, NEW y \in Nat, NEW L \in Nat, NEW V \in Nat,
         h * T <= B * T + B, B * T <= h * T + B, y * T <= X * T + X, X * T <= y * T + X,
         (L - G) * (64 * T) <= 129 * G, (G - L) * (64 * T) <= 129 * G,
         V * T <= (h + L) * T + (h + L), (h + L) * T <= V * T + (h + L)
  PROVE  /\ V <= y => (G - (X - B)) * T <= 5 * (G + B)
         /\ y < V => ((X - B) - G) * T <= 5 * (G + B)
         /\ y <= h => (X - B) * T <= 5 * (G + B)
<1> DEFINE W == G + B
           bt == B * T
           xt == X * T
           gt == G * T
           ht == h * T
           yt == y * T
           lt == L * T
           vt == V * T
           n == h + L
<1>1. /\ W \in Nat /\ bt \in Nat /\ xt \in Nat /\ gt \in Nat /\ ht \in Nat /\ yt \in Nat /\ lt \in Nat
      /\ vt \in Nat /\ n \in Nat
  OBVIOUS
<1>2. /\ ht <= bt + B /\ bt <= ht + B /\ yt <= xt + X /\ xt <= yt + X
      /\ 64 * lt <= 64 * gt + 129 * G /\ 64 * gt <= 64 * lt + 129 * G
      /\ vt <= ht + lt + n /\ ht + lt <= vt + n
  OBVIOUS
<1>3. 64 * n <= 66 * W
  <2>1. CASE n <= W
    BY <1>1, <2>1
  <2>2. CASE n > W
    <3>1. 128 * (n - W) <= T * (n - W)
      BY <1>1, <2>2, TimesLeq
    <3>2. T * (n - W) = ht + lt - bt - gt
      OBVIOUS
    <3>3. W = G + B
      OBVIOUS
    <3> HIDE DEF n, W, bt, gt, ht, lt, vt, yt, xt
    <3> QED BY <1>1, <1>2, <3>1, <3>2, <3>3
  <2> QED BY <1>1, <2>1, <2>2
<1>4. ASSUME NEW d \in Int, NEW w \in Nat, w <= W, d <= X - w,
             64 * (d * T) <= 64 * X + 195 * W, X - w <= d \/ X <= W
      PROVE  d * T <= 5 * W
  <2> DEFINE dt == d * T
  <2>0. dt \in Int /\ 64 * dt <= 64 * X + 195 * W
    BY <1>4
  <2>1. CASE X <= W
    <3> HIDE DEF dt, W
    <3>1. dt <= 5 * W
      BY <1>1, <2>0, <2>1
    <3> QED BY <3>1 DEF dt
  <2>2. CASE X > W
    <3>1. 128 * (X - w) <= T * (X - w) /\ X - w = d
      BY <1>1, <1>4, <2>2, TimesLeq
    <3>2. T * (X - w) = dt
      BY <3>1
    <3> HIDE DEF dt, W
    <3>3. dt <= 5 * W
      BY <1>1, <1>4, <2>0, <2>2, <3>1, <3>2
    <3> QED BY <3>3 DEF dt
  <2> QED BY <1>1, <2>1, <2>2
<1>5. ASSUME V <= y PROVE (G - (X - B)) * T <= 5 * W
  <2> DEFINE d == W - X
  <2>1. vt <= yt
    BY <1>5, TimesLeq
  <2>2. d * T = gt + bt - xt /\ d = G - (X - B) /\ d \in Int
    OBVIOUS
  <2> HIDE DEF d, n, bt, gt, ht, lt, vt, yt, xt
  <2>3. 64 * (d * T) <= 64 * X + 195 * W
    BY <1>1, <1>2, <1>3, <2>1, <2>2
  <2>4. CASE X <= W
    BY <1>1, <2>2, <2>3, <2>4
  <2>5. CASE X > W
    <3>1. d * T <= 0 * T
      BY <1>1, <2>2, <2>5, TimesLeq DEF d
    <3> QED BY <1>1, <2>2, <3>1
  <2> QED BY <1>1, <2>2, <2>4, <2>5
<1>6. ASSUME y < V PROVE ((X - B) - G) * T <= 5 * W
  <2> DEFINE d == X - W
  <2>1. yt <= vt
    BY <1>6, TimesLeq
  <2>2. d * T = xt - gt - bt /\ d = (X - B) - G /\ d \in Int
    OBVIOUS
  <2> HIDE DEF n, bt, gt, ht, lt, vt, yt, xt
  <2>3. 64 * (d * T) <= 64 * X + 195 * W
    <3> HIDE DEF d
    <3> QED BY <1>1, <1>2, <1>3, <2>1, <2>2
  <2> QED BY <1>1, <1>4, <2>2, <2>3
<1>7. ASSUME y <= h PROVE (X - B) * T <= 5 * W
  <2> DEFINE d == X - B
  <2>1. yt <= ht
    BY <1>7, TimesLeq
  <2>2. d * T = xt - bt /\ d \in Int
    OBVIOUS
  <2>3. d * T <= X + B
    <3> HIDE DEF d, n, bt, gt, ht, lt, vt, yt, xt
    <3> QED BY <1>1, <1>2, <2>1, <2>2
  <2>4. CASE X <= W
    BY <1>1, <2>2, <2>3, <2>4
  <2>5. CASE X > W
    <3>1. 128 * d <= T * d
      BY <1>1, <2>5, TimesLeq
    <3>2. T * d = d * T
      BY <2>2
    <3> DEFINE dt == d * T
    <3>3. 128 * d <= dt /\ dt <= X + B /\ dt \in Int /\ W = G + B
      BY <2>2, <2>3, <3>1, <3>2
    <3> HIDE DEF dt, W
    <3>4. dt <= 5 * W
      BY <1>1, <3>3
    <3> QED BY <3>4 DEF dt
  <2> QED BY <1>1, <2>4, <2>5
<1> QED BY <1>5, <1>6, <1>7

\* Mild makes of such a distance a small one.
LEMMA MildDistance ==
  ASSUME NEW T \in Nat \ {0}, NEW G \in Nat, NEW B \in Nat, NEW A \in Nat, NEW d \in Int,
         d * T <= 5 * (G + B), (A * (B + G)) * 32 <= G * T
  PROVE  32 * (A * d) <= 5 * G
<1>1. (d * T) * A <= (5 * (G + B)) * A
  BY TimesLeq
<1>2. (d * T) * A = (A * d) * T /\ (5 * (G + B)) * A = 5 * (A * (B + G))
  OBVIOUS
<1> DEFINE g == G * T
           w == A * (B + G)
           e == (A * d) * T
<1>3. g \in Nat /\ w \in Nat /\ e \in Int /\ e <= 5 * w /\ 32 * w <= g
  BY <1>1, <1>2
<1>4. (32 * (A * d)) * T = 32 * e /\ (5 * G) * T = 5 * g
  OBVIOUS
<1>5. (32 * (A * d)) * T <= (5 * G) * T
  <2> HIDE DEF g, w, e
  <2> QED BY <1>3, <1>4
<1>6. 32 * (A * d) \in Int /\ 5 * G \in Int
  OBVIOUS
<1> QED BY <1>5, <1>6, TimesCancel

\* What rounding the line's value to an integer does to its distance: Z is G times
\* the exact value.
LEMMA RoundedLine ==
  ASSUME NEW S \in Nat \ {0}, NEW G \in Nat \ {0}, NEW Y \in Int, NEW Z \in Int,
         4 * (Y * G - S * Z) <= S * G, -(4 * (Y * G - S * Z)) <= S * G
  PROVE  LET y == HalfUp(Y, S)
         IN  /\ y \in Int
             /\ 4 * (y * G - Z) <= 3 * G /\ -(4 * (y * G - Z)) <= 3 * G
<1> DEFINE y == HalfUp(Y, S)
           ys == y * S
           yg == y * G
           sg == S * G
           sz == S * Z
           Yg == Y * G
           u == yg * S
<1>1. y \in Int /\ 2 * ys <= 2 * Y + S /\ 2 * Y <= 2 * ys + S
  BY HalfUpIs
<1> HIDE DEF y
<1>2. /\ ys \in Int /\ yg \in Int /\ sg \in Int /\ sz \in Int /\ Yg \in Int /\ u \in Int
  BY <1>1
<1>3. 2 * u <= 2 * Yg + sg /\ 2 * Yg <= 2 * u + sg
  <2>1. (2 * ys) * G <= (2 * Y + S) * G /\ (2 * Y) * G <= (2 * ys + S) * G
    BY <1>1, TimesLeq
  <2>2. (2 * ys) * G = 2 * u /\ (2 * Y + S) * G = 2 * Yg + sg /\ (2 * Y) * G = 2 * Yg
        /\ (2 * ys + S) * G = 2 * u + sg
    BY <1>1
  <2> QED BY <2>1, <2>2
<1>4. 4 * (u - sz) <= 3 * sg /\ -(4 * (u - sz)) <= 3 * sg
  <2>1. 4 * (Yg - sz) <= sg /\ -(4 * (Yg - sz)) <= sg
    OBVIOUS
  <2> HIDE DEF ys, yg, sg, sz, Yg, u
  <2> QED BY <1>2, <1>3, <2>1
<1>5. (4 * (yg - Z)) * S <= (3 * G) * S /\ (-(4 * (yg - Z))) * S <= (3 * G) * S
  <2>1. (4 * (yg - Z)) * S = 4 * (u - sz) /\ (-(4 * (yg - Z))) * S = -(4 * (u - sz)) /\ (3 * G) * S = 3 * sg
    BY <1>2
  <2> QED BY <1>4, <2>1
<1>6. 4 * (yg - Z) \in Int /\ -(4 * (yg - Z)) \in Int /\ 3 * G \in Int
  BY <1>2
<1> HIDE DEF yg
<1>7. 4 * (yg - Z) <= 3 * G /\ -(4 * (yg - Z)) <= 3 * G
  BY <1>5, <1>6, TimesCancel
<1> QED BY <1>1, <1>7 DEF y, yg

\* Between the multiples mG and MG, or nearly, it stays between m and M.
LEMMA RoundedBounds ==
  ASSUME NEW G \in Nat \ {0}, NEW y \in Int, NEW Z \in Int,
         4 * (y * G - Z) <= 3 * G, -(4 * (y * G - Z)) <= 3 * G, NEW n \in Int
  PROVE  /\ Z <= n * G => y <= n
         /\ 32 * (n * G - Z) <= 5 * G => n <= y
<1> DEFINE yg == y * G
           ng == n * G
<1>1. yg \in Int /\ ng \in Int /\ (n + 1) * G = ng + G /\ (n - 1) * G = ng - G
  OBVIOUS
<1>2. ASSUME Z <= ng PROVE y <= n
  <2>1. yg < (n + 1) * G
    <3> HIDE DEF yg, ng
    <3> QED BY <1>1, <1>2 DEF yg
  <2>2. y < n + 1
    BY <2>1, TimesLess
  <2> QED BY <2>2
<1>3. ASSUME 32 * (ng - Z) <= 5 * G PROVE n <= y
  <2>1. (n - 1) * G < yg
    <3>1. -(4 * (yg - Z)) <= 3 * G
      OBVIOUS
    <3> HIDE DEF yg, ng
    <3> QED BY <1>1, <1>3, <3>1
  <2>2. n - 1 < y
    BY <2>1, TimesLess
  <2> QED BY <2>2
<1> QED BY <1>2, <1>3

-----------------------------------------------------------------------------
(* The configuration and the quotes, as integers: the significands that    *)
(* the floats have at an exponent E below all of theirs.                   *)

\* What InRange says, in the form that the bounds below need.
LEMMA RangeIs ==
  ASSUME NEW X \in Nat, InRange(X)
  PROVE  /\ MaxU8 \in Nat \ {0} /\ TwoTo[MaxExponent - 1] \in Nat \ {0} /\ TwoTo[Precision] \in Nat \ {0}
         /\ TwoTo[MaxExponent] = 2 * TwoTo[MaxExponent - 1]
         /\ 128 * MaxU8 <= TwoTo[Precision] /\ 128 <= TwoTo[Precision]
         /\ 32 * ((MaxU8 * (X + 1)) * TwoTo[Precision]) <= TwoTo[MaxExponent - 1]
<1> DEFINE t == TwoTo[Precision]
           n == TwoTo[MaxExponent - 1]
           u == MaxU8 * (X + 1)
<1>1. t \in Nat \ {0} /\ n \in Nat \ {0} /\ MaxU8 \in Nat \ {0} /\ 128 * MaxU8 <= t
  BY FloatAssumption, TwoToGrows DEF InRange
<1>2. TwoTo[MaxExponent] = 2 * n
  BY FloatAssumption, TwoToIs
<1>3. TwoTo[Precision + 6] = t * 64
  <2>1. TwoTo[6] = 64
    BY TwoToIs
  <2>2. \A i, j \in Nat : TwoTo[i + j] = TwoTo[i] * TwoTo[j]
    BY TwoToSum
  <2>3. Precision \in Nat /\ 6 \in Nat
    BY FloatAssumption
  <2>4. TwoTo[Precision + 6] = t * TwoTo[6]
    BY <2>2, <2>3, Zenon
  <2> QED BY <2>1, <2>4
<1>4. u * (t * 64) <= 2 * n
  BY <1>2, <1>3 DEF InRange
<1>5. u * (t * 64) = 64 * (u * t) /\ u * t \in Nat
  BY <1>1
<1> HIDE DEF t, n, u
<1>6. 32 * (u * t) <= n /\ 128 <= t
  BY <1>1, <1>4, <1>5
<1> QED BY <1>1, <1>2, <1>6 DEF t, n, u

\* Difficulties and amounts are finite as floats.
LEMMA IntsFit ==
  ASSUME NEW X \in Nat, InRange(X), NEW n \in Nat, n <= X \/ n <= MaxU8
  PROVE  IsFinite(FromInt(n)) /\ IsFinite(FromInt(-n))
<1> DEFINE t == TwoTo[Precision]
           k == TwoTo[MaxExponent - 1]
           u == MaxU8 * (X + 1)
<1>1. /\ MaxU8 \in Nat \ {0} /\ k \in Nat \ {0} /\ t \in Nat \ {0}
      /\ TwoTo[MaxExponent] = 2 * k /\ 32 * (u * t) <= k
  BY RangeIs
<1>2. n <= u
  BY <1>1
<1>3. u \in Nat /\ u <= u * t
  BY <1>1
<1>4. u >= 1
  BY <1>1
<1> HIDE DEF u, k, t
<1>5. 2 * n < 2 * k
  BY <1>1, <1>2, <1>3, <1>4
<1> QED BY <1>1, <1>5, FromIntFinite DEF k

\* An integer as a float, written with a lower exponent.
LEMMA IntAt ==
  ASSUME NEW n \in Int, NEW E \in Int, E <= 0, IsFinite(FromInt(n))
  PROVE  /\ FromInt(n) \in Floats /\ 0 <= FromInt(n).exp /\ E <= FromInt(n).exp
         /\ At(FromInt(n), E) = Near(n) * TwoTo[-E]
<1>1. FromInt(n) \in Floats /\ 0 <= FromInt(n).exp
  BY FromIntIs
<1>2. E <= FromInt(n).exp /\ At(FromInt(n), E) = Near(n * TwoTo[-E])
  BY FromIntIs
<1>3. -E \in Nat
  OBVIOUS
<1>4. Near(n * TwoTo[-E]) = Near(n) * TwoTo[-E]
  BY <1>3, NearScale
<1> QED BY <1>1, <1>2, <1>4

\* A small difficulty is a float.
LEMMA SmallIs ==
  ASSUME NEW n \in Nat, n < TwoTo[Precision]
  PROVE  Near(n) = n /\ Near(-n) = -n
<1>1. Bits(n) <= Precision
  <2>1. CASE n = 0
    BY <2>1, BitsIs, FloatAssumption
  <2>2. CASE n # 0
    <3>1. Bits(n) \in Nat /\ Bits(n) - 1 \in Nat /\ TwoTo[Bits(n) - 1] <= n
      BY <2>2, BitsIs, AbsIs
    <3>2. Precision \in Nat /\ TwoTo[Precision] \in Nat
      BY FloatAssumption, TwoToType
    <3> DEFINE k == Bits(n) - 1
    <3>3. ~(Precision <= k)
      <4> HIDE DEF k
      <4> SUFFICES ASSUME Precision <= k PROVE FALSE
        OBVIOUS
      <4>1. k \in Nat /\ TwoTo[k] <= n
        BY <3>1 DEF k
      <4>2. TwoTo[Precision] <= TwoTo[k] /\ TwoTo[k] \in Nat
        BY <3>2, <4>1, TwoToGrows
      <4> QED BY <3>2, <4>1, <4>2
    <3> QED BY <3>1, <3>2, <3>3
  <2> QED BY <2>1, <2>2
<1> QED BY <1>1, NearIs

\* A product with an integer.
LEMMA TimesInt ==
  ASSUME NEW f \in Floats, IsFinite(f), NEW n \in Nat, IsFinite(FromInt(n)),
         NEW E \in Int, E <= 0, E <= f.exp
  PROVE  /\ IsFinite(Times(f, FromInt(n))) =>
              /\ Times(f, FromInt(n)) \in Floats /\ E <= Times(f, FromInt(n)).exp
              /\ At(Times(f, FromInt(n)), E) = Near(At(f, E) * Near(n))
         /\ Abs(At(f, E) * Near(n)) < TwoTo[MaxExponent - 1] * TwoTo[-E] =>
              IsFinite(Times(f, FromInt(n)))
<1> DEFINE g == FromInt(n)
           s == TwoTo[-E]
           N == TwoTo[MaxExponent - 1]
           v == At(f, E)
           h == Near(n)
<1>1. g \in Floats /\ 0 <= g.exp /\ E <= g.exp /\ At(g, E) = h * s /\ h \in Int
  BY IntAt, NearIs
<1>2. s \in Nat \ {0} /\ N \in Nat \ {0} /\ -E \in Nat
  BY TwoToGrows, FloatAssumption
<1>3. v \in Int
  BY AtIs
<1>4. ASSUME IsFinite(Times(f, g))
      PROVE  /\ Times(f, g) \in Floats /\ E <= Times(f, g).exp
             /\ At(Times(f, g), E) = Near(v * h)
  <2>1. Times(f, g) = Round(f.sig * g.sig, f.exp + g.exp)
    BY <1>1 DEF Times
  <2>2. Times(f, g) \in Floats /\ E <= Times(f, g).exp
    <3>1. f.sig * g.sig \in Int /\ f.exp + g.exp \in Int /\ E <= f.exp + g.exp
      BY <1>1 DEF Floats
    <3> QED BY <1>4, <2>1, <3>1, RoundIs
  <2>3. At(Times(f, g), E) * s = Near(v * At(g, E))
    BY <1>1, <1>4, <2>2, TimesIs
  <2>4. v * At(g, E) = (v * h) * s /\ v * h \in Int
    BY <1>1, <1>2, <1>3
  <2>5. Near((v * h) * s) = Near(v * h) * s
    BY <1>2, <2>4, NearScale
  <2>6. At(Times(f, g), E) \in Int /\ Near(v * h) \in Int
    BY <2>2, <2>4, AtIs, NearIs
  <2>7. At(Times(f, g), E) * s = Near(v * h) * s
    BY <2>3, <2>4, <2>5
  <2>8. At(Times(f, g), E) = Near(v * h)
    <3> DEFINE x == At(Times(f, g), E)
               y == Near(v * h)
    <3> HIDE DEF x, y
    <3>1. x <= y /\ y <= x
      BY <1>2, <2>6, <2>7, TimesCancel DEF x, y
    <3>2. x \in Int /\ y \in Int
      BY <2>6 DEF x, y
    <3>3. x = y
      BY <3>1, <3>2
    <3> QED BY <3>3 DEF x, y
  <2> QED BY <2>2, <2>8
<1>5. ASSUME Abs(v * h) < N * s PROVE IsFinite(Times(f, g))
  <2> DEFINE M1 == MaxExponent - 1
  <2>1. M1 \in Nat /\ TwoTo[M1 - (E + E)] = (N * s) * s
    <3>1. M1 \in Nat /\ M1 + (-E) \in Nat
      BY <1>2, FloatAssumption
    <3> DEFINE d == -E
               e == M1 + d
    <3>2. \A i, j \in Nat : TwoTo[i + j] = TwoTo[i] * TwoTo[j]
      BY TwoToSum
    <3>4. TwoTo[M1 + d] = N * s
      BY <1>2, <3>1, <3>2, Zenon
    <3>5. TwoTo[e + d] = TwoTo[e] * TwoTo[d]
      BY <1>2, <3>1, <3>2, Zenon
    <3>3. e + d = M1 - (E + E)
      BY <3>1
    <3> QED BY <3>1, <3>3, <3>4, <3>5
  <2>2. Abs(v * (h * s)) = Abs(v * h) * s
    <3>1. v * (h * s) = (v * h) * s /\ v * h \in Int
      BY <1>1, <1>2, <1>3
    <3> DEFINE x == v * h
    <3>2. Abs(x * s) = Abs(x) * s
      <4> HIDE DEF x
      <4>1. x \in Int
        BY <3>1 DEF x
      <4>2. (x >= 0 <=> x * s >= 0)
        BY <1>2, <4>1, TimesSign
      <4> QED BY <1>2, <4>1, <4>2 DEF Abs
    <3> QED BY <3>1, <3>2
  <2>3. Abs(v * h) * s < (N * s) * s
    <3>1. Abs(v * h) \in Nat /\ N * s \in Nat
      BY <1>1, <1>2, <1>3, AbsIs
    <3> DEFINE x == Abs(v * h)
               y == N * s
    <3>2. (x + 1) * s <= y * s
      <4>1. x + 1 \in Int /\ y \in Int /\ x + 1 <= y
        BY <1>5, <3>1
      <4> HIDE DEF x, y
      <4> QED BY <1>2, <4>1, TimesLeq
    <3>3. (x + 1) * s = x * s + s /\ x * s \in Nat /\ y * s \in Nat
      BY <1>2, <3>1
    <3> QED BY <1>2, <3>2, <3>3
  <2> QED BY <1>1, <2>1, <2>2, <2>3, TimesIs
<1> QED BY <1>4, <1>5

\* The check against EPSILON bounds the line's length from below.
LEMMA LengthBound ==
  ASSUME NEW f \in Floats, NEW E \in Int, E <= f.exp, E <= 1 - Precision, E <= 0, Leq(Epsilon, f)
  PROVE  At(f, E) \in Nat /\ 2 * TwoTo[-E] <= At(f, E) * TwoTo[Precision] /\ f.sig > 0
<1> DEFINE t == TwoTo[Precision]
           s == TwoTo[-E]
           v == At(f, E)
           d == (1 - Precision) - E
           e == TwoTo[d]
<1>1. Precision \in Nat /\ d \in Nat /\ -E \in Nat /\ t \in Nat \ {0} /\ s \in Nat \ {0} /\ e \in Nat \ {0}
  BY FloatAssumption, TwoToGrows
<1>2. e * t = 2 * s
  <2> DEFINE x == -E
             p == Precision
  <2>0. x \in Nat /\ p \in Nat /\ d + p = x + 1 /\ x + 1 \in Nat
    BY <1>1
  <2>1. \A i, j \in Nat : TwoTo[i + j] = TwoTo[i] * TwoTo[j]
    BY TwoToSum
  <2>2. TwoTo[d + p] = TwoTo[d] * TwoTo[p]
    <3> HIDE DEF d, p, x, e, t, s
    <3> QED BY <1>1, <2>0, <2>1, Zenon
  <2>3. TwoTo[x + 1] = 2 * TwoTo[x]
    <3>1. x + 1 \in Nat \ {0} /\ (x + 1) - 1 = x
      BY <2>0
    <3> HIDE DEF x
    <3> QED BY <3>1, TwoToIs
  <2> QED BY <2>0, <2>2, <2>3
<1>3. Epsilon \in Floats /\ IsFinite(Epsilon) /\ E <= Epsilon.exp /\ At(Epsilon, E) = e
  <2>1. Epsilon.sig = 1 /\ Epsilon.exp = 1 - Precision
    BY DEF Epsilon
  <2>2. Epsilon \in Floats /\ IsFinite(Epsilon)
    BY <1>1, <2>1 DEF Epsilon, Floats, IsFinite, NotFinite
  <2>3. At(Epsilon, E) = 1 * e
    BY <2>1 DEF At
  <2> QED BY <1>1, <2>1, <2>2, <2>3
<1>4. IsFinite(f)
  BY DEF Leq
<1>5. e <= v
  BY <1>3, <1>4, LeqIs
<1>6. v \in Int
  BY AtIs
<1>7. 2 * s <= v * t
  <2>1. e * t <= v * t
    BY <1>1, <1>5, <1>6, TimesLeq
  <2> QED BY <1>2, <2>1
<1>8. f.sig > 0
  <2>1. f.sig \in Int /\ f.exp - E \in Nat
    BY DEF Floats
  <2>2. TwoTo[f.exp - E] \in Nat \ {0} /\ v = f.sig * TwoTo[f.exp - E]
    BY <2>1, TwoToGrows DEF At
  <2>3. v > 0
    BY <1>1, <1>5, <1>6
  <2> DEFINE g == f.sig
             q == TwoTo[f.exp - E]
  <2>4. g >= 0 <=> g * q >= 0
    BY <2>1, <2>2, TimesSign
  <2>5. g = 0 <=> g * q = 0
    BY <2>1, <2>2, TimesSign
  <2>6. g * q > 0
    BY <2>2, <2>3
  <2>7. g * q \in Int
    BY <2>1, <2>2
  <2> HIDE DEF g, q
  <2>8. g > 0
    <3>1. g \in Int
      BY <2>1 DEF g
    <3> QED BY <2>4, <2>5, <2>6, <2>7, <3>1
  <2> QED BY <2>8 DEF g
<1> QED BY <1>1, <1>5, <1>6, <1>7, <1>8

\* The slope is bounded, as Lq is no smaller than Epsilon.
LEMMA SlopeBound ==
  ASSUME NEW T \in Nat, 128 <= T, NEW S \in Nat \ {0}, NEW A \in Nat, NEW L \in Nat, NEW k \in Nat,
         2 * S <= L * T, (k * L) * (4 * T) <= (A * (S * S)) * (4 * T) + A * (S * S)
  PROVE  k <= (A * S) * T
<1> DEFINE n == (A * S) * T
           w == A * S
           lt == L * T
           kl == k * lt
<1>1. n \in Nat /\ w \in Nat /\ lt \in Nat /\ kl \in Nat /\ w <= n
  <2>1. w * 1 <= w * T
    OBVIOUS
  <2> QED BY <2>1
<1>2. k * (2 * S) <= kl
  BY <1>1
<1>3. 4 * kl <= (4 * n + w) * S
  <2>1. (k * L) * (4 * T) = 4 * kl /\ (A * (S * S)) * (4 * T) + A * (S * S) = (4 * n + w) * S
    OBVIOUS
  <2> QED BY <2>1
<1>4. (8 * k) * S <= (4 * n + w) * S
  <2> DEFINE ks == k * S
  <2>1. k * (2 * S) = 2 * ks /\ (8 * k) * S = 8 * ks /\ ks \in Nat
    OBVIOUS
  <2> HIDE DEF ks, kl
  <2> QED BY <1>1, <1>2, <1>3, <2>1
<1> HIDE DEF n, w
<1>5. 8 * k <= 4 * n + w
  <2>1. 8 * k \in Int /\ 4 * n + w \in Int
    BY <1>1
  <2> QED BY <1>4, <2>1, TimesCancel
<1>6. k <= n
  BY <1>1, <1>5
<1> QED BY <1>6 DEF n

\* The slope, for the length L.
Slope(k, E, A, L) ==
  LET T == TwoTo[Precision]
      S == TwoTo[-E]
      R == A * (S * S)
  IN  /\ k \in Nat /\ k <= (A * S) * T
      /\ (k * L) * (4 * T) <= R * (4 * T) + R /\ R * (4 * T) <= (k * L) * (4 * T) + R

\* The code's slope is finite and is rounded from the quotient k.
LEMMA SlopeIs ==
  ASSUME NEW X \in Nat, InRange(X), NEW A \in 0..MaxU8, NEW f \in Floats,
         NEW E \in Int, E <= f.exp, E <= 0, E <= 1 - Precision, Leq(Epsilon, f),
         E <= FromInt(-A).exp - f.exp - (Precision + Bits(f.sig) + 1) - 1
  PROVE  \E k \in Nat :
           /\ Slope(k, E, A, At(f, E))
           /\ LET a == Over(FromInt(-A), f)
              IN  IsFinite(a) /\ a \in Floats /\ E <= a.exp /\ At(a, E) = -Near(k)
<1> DEFINE T == TwoTo[Precision]
           S == TwoTo[-E]
           N == TwoTo[MaxExponent - 1]
           L == At(f, E)
           g == FromInt(-A)
           R == A * (S * S)
<1>1. /\ MaxU8 \in Nat \ {0} /\ N \in Nat \ {0} /\ T \in Nat \ {0} /\ 128 * MaxU8 <= T /\ 128 <= T
      /\ 32 * ((MaxU8 * (X + 1)) * T) <= N
  BY RangeIs
<1>2. A \in Nat /\ A <= MaxU8 /\ A < T
  BY <1>1
<1>3. L \in Nat /\ 2 * S <= L * T /\ f.sig > 0 /\ S \in Nat \ {0}
  BY LengthBound, TwoToGrows
<1>4. IsFinite(g) /\ g \in Floats /\ E <= g.exp /\ At(g, E) = -(A * S)
  <2>1. IsFinite(g)
    BY <1>2, IntsFit
  <2>2. -A \in Int
    BY <1>2
  <2>3. g \in Floats /\ E <= g.exp /\ At(g, E) = Near(-A) * S
    BY <2>1, <2>2, IntAt
  <2>4. Near(-A) = -A
    BY <1>2, SmallIs
  <2>5. (-A) * S = -(A * S)
    BY <1>2, <1>3
  <2> QED BY <2>1, <2>3, <2>4, <2>5
<1>5. g.sig <= 0
  <2> DEFINE h == g.sig
             q == TwoTo[g.exp - E]
  <2>1. h \in Int /\ g.exp - E \in Nat
    BY <1>4 DEF Floats
  <2>2. q \in Nat \ {0} /\ h * q = -(A * S)
    BY <1>4, <2>1, TwoToGrows DEF At
  <2>3. h * q <= 0
    BY <1>2, <1>3, <2>2
  <2>4. h >= 0 <=> h * q >= 0
    BY <2>1, <2>2, TimesSign
  <2>5. h = 0 <=> h * q = 0
    BY <2>1, <2>2, TimesSign
  <2>6. h * q \in Int
    BY <2>1, <2>2
  <2> HIDE DEF h, q
  <2>7. h <= 0
    BY <2>1, <2>3, <2>4, <2>5, <2>6
  <2> QED BY <2>7 DEF h
<1>6. PICK k \in Nat :
        /\ (k * L) * (4 * T) <= ((A * S) * S) * (4 * T) + (A * S) * S
        /\ ((A * S) * S) * (4 * T) <= (k * L) * (4 * T) + (A * S) * S
        /\ k < TwoTo[(MaxExponent - 1) - E] => IsFinite(Over(g, f))
        /\ IsFinite(Over(g, f)) => Over(g, f) \in Floats /\ E <= Over(g, f).exp /\ At(Over(g, f), E) = -Near(k)
  <2>1. -At(g, E) = A * S
    BY <1>2, <1>3, <1>4
  <2> QED BY <1>3, <1>4, <1>5, <2>1, OverIs
<1>7. (A * S) * S = R
  BY <1>2, <1>3
<1>8. k <= (A * S) * T
  <2>1. (k * L) * (4 * T) <= (A * (S * S)) * (4 * T) + A * (S * S)
    BY <1>6, <1>7
  <2> HIDE DEF T, S, L
  <2> QED BY <1>1, <1>2, <1>3, <2>1, SlopeBound
<1>9. k < TwoTo[(MaxExponent - 1) - E]
  <2> DEFINE M1 == MaxExponent - 1
             d == -E
  <2>1. M1 \in Nat /\ d \in Nat /\ M1 + d = M1 - E
    BY FloatAssumption
  <2>2. \A i, j \in Nat : TwoTo[i + j] = TwoTo[i] * TwoTo[j]
    BY TwoToSum
  <2>3. TwoTo[M1 + d] = N * S
    BY <2>1, <2>2, Zenon
  <2> DEFINE u == MaxU8 * (X + 1)
             at == A * T
             ut == u * T
  <2>4. A <= u /\ u \in Nat
    BY <1>1, <1>2
  <2>5. at <= ut /\ at \in Nat /\ ut \in Nat
    BY <1>1, <1>2, <2>4, TimesLeq
  <2>6. at < N
    <3>1. 32 * ut <= N
      BY <1>1
    <3> HIDE DEF at, ut, N
    <3> QED BY <1>1, <2>5, <3>1
  <2>7. (at + 1) * S <= N * S
    <3>1. at + 1 <= N /\ at + 1 \in Int
      BY <1>1, <2>5, <2>6
    <3> HIDE DEF at, N, S
    <3> QED BY <1>1, <1>3, <3>1, TimesLeq
  <2>8. (at + 1) * S = (A * S) * T + S
    BY <1>1, <1>2, <1>3
  <2>9. (A * S) * T \in Nat /\ N * S \in Nat
    BY <1>1, <1>2, <1>3
  <2> HIDE DEF at, ut, u, N, S, T
  <2>10. k < N * S
    BY <1>3, <1>8, <2>7, <2>8, <2>9
  <2> QED BY <2>1, <2>3, <2>10
<1>10. Slope(k, E, A, L)
  BY <1>6, <1>7, <1>8 DEF Slope
<1> QED BY <1>6, <1>9, <1>10

\* Nearest values of naturals, and the room that the range leaves for products
\* with the slope.
LEMMA NearNat ==
  ASSUME NEW n \in Nat
  PROVE  Near(n) \in Nat /\ Near(n) <= 2 * n
         /\ Near(n) * TwoTo[Precision] <= n * TwoTo[Precision] + n
         /\ n * TwoTo[Precision] <= Near(n) * TwoTo[Precision] + n
<1> DEFINE t == TwoTo[Precision]
           h == Near(n)
<1>1. t \in Nat \ {0}
  BY FloatAssumption, TwoToGrows
<1>2. h \in Nat /\ h * t <= n * t + n /\ n * t <= h * t + n
  BY NearIs, AbsIs
<1>3. h <= 2 * n
  <2>1. n * 1 <= n * t
    BY <1>1
  <2>2. h * t <= (2 * n) * t
    BY <1>1, <1>2, <2>1
  <2>3. h \in Int /\ 2 * n \in Int
    BY <1>2
  <2> HIDE DEF h, t
  <2> QED BY <1>1, <2>2, <2>3, TimesCancel
<1> QED BY <1>2, <1>3

\* The products of the slope with balances, and the difficulties, are far from the
\* greatest float.
LEMMA SlopeRoom ==
  ASSUME NEW X \in Nat, InRange(X), NEW A \in 0..MaxU8, NEW E \in Int, E <= 0, NEW L, NEW k,
         Slope(k, E, A, L), NEW n \in 0..X, NEW M \in 0..MaxU8
  PROVE  LET NS == TwoTo[MaxExponent - 1] * TwoTo[-E]
             p == Near(k) * Near(n)
         IN  /\ NS \in Nat \ {0} /\ p \in Nat /\ Near(p) \in Nat
             /\ 8 * p <= NS /\ 4 * Near(p) <= NS /\ 4096 * (M * TwoTo[-E]) <= NS
<1> DEFINE T == TwoTo[Precision]
           S == TwoTo[-E]
           N == TwoTo[MaxExponent - 1]
           a == Near(k)
           h == Near(n)
           p == a * h
           u == MaxU8 * (X + 1)
           ns == N * S
<1>1. /\ MaxU8 \in Nat \ {0} /\ N \in Nat \ {0} /\ T \in Nat \ {0} /\ 128 <= T
      /\ 32 * (u * T) <= N
  BY RangeIs
<1>2. S \in Nat \ {0} /\ A \in Nat /\ n \in Nat /\ M \in Nat /\ A <= MaxU8 /\ M <= MaxU8 /\ n <= X
  <2>1. -E \in Nat
    OBVIOUS
  <2> QED BY <1>1, <2>1, TwoToGrows
<1>3. k \in Nat /\ k <= (A * S) * T
  BY DEF Slope
<1>4. a \in Nat /\ a <= 2 * k /\ h \in Nat /\ h <= 2 * n
  BY <1>2, <1>3, NearNat
<1>5. p \in Nat /\ Near(p) \in Nat /\ Near(p) <= 2 * p
  <2>1. p \in Nat
    BY <1>4
  <2> HIDE DEF p
  <2> QED BY <2>1, NearNat
<1>6. p <= 4 * (k * n)
  <2>1. a * h <= (2 * k) * h
    BY <1>3, <1>4, TimesLeq
  <2>2. h * (2 * k) <= (2 * n) * (2 * k)
    BY <1>2, <1>3, <1>4, TimesLeq
  <2>3. (2 * k) * h = h * (2 * k) /\ (2 * n) * (2 * k) = 4 * (k * n)
    BY <1>2, <1>3, <1>4
  <2>4. a * h \in Int /\ h * (2 * k) \in Int /\ k * n \in Int
    BY <1>2, <1>3, <1>4
  <2> HIDE DEF a, h
  <2> QED BY <2>1, <2>2, <2>3, <2>4
<1>7. A * n <= u /\ A * n \in Nat /\ u \in Nat /\ M <= u
  <2>1. A * n <= MaxU8 * n
    BY <1>1, <1>2, TimesLeq
  <2>2. n * MaxU8 <= (X + 1) * MaxU8
    BY <1>1, <1>2, TimesLeq
  <2>3. MaxU8 * 1 <= MaxU8 * (X + 1)
    BY <1>1
  <2> QED BY <1>1, <1>2, <2>1, <2>2, <2>3
<1>8. k * n <= (u * T) * S
  <2>1. k * n <= ((A * S) * T) * n
    <3>1. (A * S) * T \in Int
      BY <1>1, <1>2
    <3> QED BY <1>2, <1>3, <3>1, TimesLeq
  <2>2. ((A * S) * T) * n = ((A * n) * T) * S
    BY <1>1, <1>2
  <2>3. ((A * n) * T) * S <= (u * T) * S
    <3> DEFINE w == A * n
    <3>1. w \in Nat /\ w <= u
      BY <1>7
    <3> HIDE DEF w, u, S, T
    <3>2. w * T <= u * T
      BY <1>1, <1>7, <3>1, TimesLeq
    <3>3. w * T \in Int /\ u * T \in Int
      BY <1>1, <1>7, <3>1
    <3>4. (w * T) * S <= (u * T) * S
      BY <1>2, <3>2, <3>3, TimesLeq
    <3> QED BY <3>4 DEF w
  <2> HIDE DEF u, T, S
  <2>4. k * n \in Int /\ ((A * S) * T) * n \in Int /\ (u * T) * S \in Int
    BY <1>1, <1>2, <1>3, <1>7
  <2> QED BY <2>1, <2>2, <2>3, <2>4
<1>9. 32 * ((u * T) * S) <= ns /\ (u * T) * S \in Nat
  <2>1. (32 * (u * T)) * S <= N * S
    <3>1. 32 * (u * T) \in Int
      BY <1>1, <1>7
    <3> HIDE DEF u, N, S, T
    <3> QED BY <1>1, <1>2, <3>1, TimesLeq
  <2>2. (32 * (u * T)) * S = 32 * ((u * T) * S) /\ (u * T) * S \in Nat
    BY <1>1, <1>2, <1>7
  <2> QED BY <2>1, <2>2
<1>10. 128 * (M * S) <= (u * T) * S
  <2>1. M * 128 <= u * T
    <3>1. M * 128 <= u * 128
      BY <1>2, <1>7, TimesLeq
    <3>2. 128 * u <= T * u
      BY <1>1, <1>7, TimesLeq
    <3>3. u * T \in Int /\ T * u = u * T
      BY <1>1, <1>7
    <3> HIDE DEF u, T
    <3> QED BY <1>2, <1>7, <3>1, <3>2, <3>3
  <2>2. (M * 128) * S <= (u * T) * S
    <3>1. M * 128 \in Int /\ u * T \in Int
      BY <1>1, <1>2, <1>7
    <3> HIDE DEF u, T, S
    <3> QED BY <1>2, <2>1, <3>1, TimesLeq
  <2>3. (M * 128) * S = 128 * (M * S)
    BY <1>2
  <2> QED BY <2>2, <2>3
<1>11. ns \in Nat \ {0}
  BY <1>1, <1>2
<1> DEFINE uts == (u * T) * S
           ms == M * S
           kn == k * n
<1>12. ms \in Nat /\ kn \in Nat
  BY <1>2, <1>3
<1>13. 8 * p <= ns /\ 4 * Near(p) <= ns /\ 4096 * ms <= ns
  <2>1. /\ p \in Nat /\ Near(p) \in Nat /\ Near(p) <= 2 * p /\ p <= 4 * kn /\ kn <= uts
        /\ 32 * uts <= ns /\ uts \in Nat /\ 128 * ms <= uts
    BY <1>5, <1>6, <1>8, <1>9, <1>10
  <2> HIDE DEF p, kn, uts, ns, ms
  <2> QED BY <1>11, <1>12, <2>1
<1> QED BY <1>5, <1>11, <1>13

\* The numbers of a configuration, written with exponent E.
LineAt(config, M, b, L, k, E) ==
  LET S == TwoTo[-E] IN
  /\ config.b = FromInt(b)
  /\ config.min_diff_start \in Floats /\ IsFinite(config.min_diff_start)
  /\ E <= config.min_diff_start.exp /\ At(config.min_diff_start, E) = Near(Near(b) * S + L)
  /\ config.precompute_big_a \in Floats /\ IsFinite(config.precompute_big_a)
  /\ E <= config.precompute_big_a.exp /\ At(config.precompute_big_a, E) = -Near(k)
  /\ config.precompute_big_b \in Floats /\ IsFinite(config.precompute_big_b)
  /\ E <= config.precompute_big_b.exp
  /\ At(config.precompute_big_b, E) = Near(M * S + Near(Near(k) * Near(b)))

\* There is an exponent below any three.
LEMMA BelowAll ==
  ASSUME NEW a \in Int, NEW b \in Int, NEW c \in Int
  PROVE  \E E \in Int : E <= a /\ E <= b /\ E <= c /\ E <= 0
<1>1. \A i, j \in Int : \E l \in Int : l <= i /\ l <= j
  <2> TAKE i, j \in Int
  <2>1. i <= j \/ j <= i
    OBVIOUS
  <2> QED BY <2>1
<1>2. PICK d \in Int : d <= a /\ d <= b
  BY <1>1
<1>3. PICK e \in Int : e <= c /\ e <= 0
  BY <1>1
<1>4. PICK E \in Int : E <= d /\ E <= e
  BY <1>1
<1> QED BY <1>2, <1>3, <1>4

\* The opposite of a float.
LEMMA NegateIs ==
  ASSUME NEW f \in Floats, NEW E \in Int, E <= f.exp
  PROVE  /\ Negate(f) \in Floats /\ Negate(f).exp = f.exp
         /\ At(Negate(f), E) = -At(f, E)
         /\ IsFinite(f) => IsFinite(Negate(f))
<1>1. Negate(f).sig = -f.sig /\ Negate(f).exp = f.exp /\ Negate(f) \in Floats
  BY DEF Negate, Floats
<1>2. f.sig \in Int /\ TwoTo[f.exp - E] \in Nat
  <2>1. f.sig \in Int /\ f.exp - E \in Nat
    BY DEF Floats
  <2> QED BY <2>1, TwoToGrows
<1>3. At(Negate(f), E) = -At(f, E)
  BY <1>1, <1>2 DEF At
<1>4. ASSUME Negate(f) = NotFinite PROVE f = NotFinite
  BY <1>1, <1>4 DEF NotFinite, Floats
<1> QED BY <1>1, <1>3, <1>4 DEF IsFinite

\* The constant of the line: it is finite, and rounded twice.
LEMMA ConstantIs ==
  ASSUME NEW X \in Nat, InRange(X), NEW A \in 0..MaxU8, NEW E \in Int, E <= 0, NEW L, NEW k,
         Slope(k, E, A, L), NEW b \in 0..X, NEW M \in 0..MaxU8,
         NEW a \in Floats, IsFinite(a), E <= a.exp, At(a, E) = -Near(k)
  PROVE  LET B == Plus(FromInt(M), Negate(Times(a, FromInt(b))))
         IN  /\ B \in Floats /\ IsFinite(B) /\ E <= B.exp
             /\ At(B, E) = Near(M * TwoTo[-E] + Near(Near(k) * Near(b)))
<1> DEFINE S == TwoTo[-E]
           NS == TwoTo[MaxExponent - 1] * S
           p == Near(k) * Near(b)
           t == Times(a, FromInt(b))
           i == FromInt(M)
<1>1. /\ NS \in Nat \ {0} /\ p \in Nat /\ Near(p) \in Nat
      /\ 8 * p <= NS /\ 4 * Near(p) <= NS /\ 4096 * (M * S) <= NS
  BY SlopeRoom
<1>2. k \in Nat /\ Near(k) \in Nat /\ Near(b) \in Nat /\ M \in Nat /\ b \in Nat
  <2>1. k \in Nat /\ M \in Nat /\ b \in Nat /\ MaxU8 \in Nat
    BY RangeIs DEF Slope
  <2> QED BY <2>1, NearNat
<1>3. IsFinite(FromInt(b)) /\ IsFinite(i)
  BY <1>2, IntsFit, RangeIs
<1>4. At(a, E) * Near(b) = -p
  BY <1>2
<1>5. IsFinite(t) /\ t \in Floats /\ E <= t.exp /\ At(t, E) = -Near(p)
  <2>1. Abs(-p) < NS
    <3> HIDE DEF p, NS
    <3>1. Abs(-p) = p
      BY <1>1, AbsIs
    <3> QED BY <1>1, <3>1
  <2>2. IsFinite(t)
    BY <1>2, <1>3, <1>4, <2>1, TimesInt
  <2>3. t \in Floats /\ E <= t.exp /\ At(t, E) = Near(-p)
    BY <1>2, <1>3, <1>4, <2>2, TimesInt
  <2>4. Near(-p) = -Near(p)
    <3> HIDE DEF p
    <3> QED BY <1>1, NearIs
  <2> QED BY <2>2, <2>3, <2>4
<1>6. /\ Negate(t) \in Floats /\ IsFinite(Negate(t))
      /\ E <= Negate(t).exp /\ At(Negate(t), E) = Near(p)
  <2>1. /\ Negate(t) \in Floats /\ IsFinite(Negate(t))
        /\ Negate(t).exp = t.exp /\ At(Negate(t), E) = -At(t, E)
    BY <1>5, NegateIs
  <2> HIDE DEF t, p
  <2> QED BY <1>1, <1>5, <2>1
<1>7. i \in Floats /\ E <= i.exp /\ At(i, E) = M * S
  <2>1. i \in Floats /\ E <= i.exp /\ At(i, E) = Near(M) * S
    BY <1>2, <1>3, IntAt
  <2>2. Near(M) = M
    BY <1>2, SmallIs, RangeIs
  <2> QED BY <2>1, <2>2
<1>8. TwoTo[(MaxExponent - 1) - E] = NS
  <2> DEFINE M1 == MaxExponent - 1
             d == -E
  <2>1. M1 \in Nat /\ d \in Nat /\ M1 + d = M1 - E
    BY FloatAssumption
  <2>2. \A x, y \in Nat : TwoTo[x + y] = TwoTo[x] * TwoTo[y]
    BY TwoToSum
  <2>3. TwoTo[M1 + d] = NS
    BY <2>1, <2>2, Zenon
  <2> QED BY <2>1, <2>3
<1>9. M * S + Near(p) \in Nat /\ Abs(M * S + Near(p)) < NS
  <2> DEFINE ms == M * S
             n == Near(p)
  <2>1. ms \in Nat
    <3>1. -E \in Nat
      OBVIOUS
    <3> QED BY <1>2, <3>1, TwoToGrows
  <2> HIDE DEF ms, n, NS
  <2>2. ms + n \in Nat /\ ms + n < NS
    BY <1>1, <2>1 DEF n, ms
  <2> QED BY <2>2, AbsIs DEF n, ms
<1> DEFINE g == Negate(t)
           B == Plus(i, g)
<1> HIDE DEF t, i, NS, p, S
<1>10. g \in Floats /\ IsFinite(g) /\ IsFinite(i) /\ E <= g.exp /\ At(g, E) = Near(p)
  BY <1>3, <1>6
<1> HIDE DEF g
<1>11. IsFinite(Plus(i, g))
  BY <1>7, <1>8, <1>9, <1>10, PlusIs
<1>12. Plus(i, g) \in Floats /\ E <= Plus(i, g).exp /\ At(Plus(i, g), E) = Near(M * S + Near(p))
  BY <1>7, <1>10, <1>11, PlusIs
<1> QED BY <1>11, <1>12 DEF B, g, t, i, S, p

\* A coefficient that the code takes is above 0.
LEMMA CoefficientPositive ==
  ASSUME NEW f \in Floats, IsFinite(f), ~Leq(f, FromInt(0)), NEW E \in Int, E <= f.exp, E <= 0
  PROVE  At(f, E) \in Nat \ {0}
<1> DEFINE z == FromInt(0)
<1>1. IsFinite(z)
  <2>1. 2 * 0 < TwoTo[MaxExponent]
    BY FloatAssumption, TwoToGrows
  <2> QED BY <2>1, FromIntFinite
<1>2. z \in Floats /\ E <= z.exp /\ At(z, E) = Near(0) * TwoTo[-E]
  BY <1>1, IntAt
<1>3. Near(0) = 0
  BY NearIs
<1>4. TwoTo[-E] \in Nat
  <2>1. -E \in Nat
    OBVIOUS
  <2> QED BY <2>1, TwoToGrows
<1>5. At(z, E) = 0
  BY <1>2, <1>3, <1>4
<1>6. At(f, E) \in Int
  BY AtIs
<1> HIDE DEF z
<1>7. ~(At(f, E) <= 0)
  BY <1>1, <1>2, <1>5, LeqIs DEF z
<1> QED BY <1>6, <1>7

\* A configuration that is not refused has a line, and its numbers are these.
LEMMA LineIs ==
  ASSUME NEW X \in Nat, InRange(X), NEW M \in 0..MaxU8, NEW m \in 0..MaxU8,
         NEW b \in 0..X, NEW q \in 0..X, NEW coeff \in Floats,
         IsOk(DifficultyConfig(M, m, b, q, coeff))
  PROVE  \E E \in Int, k \in Nat :
           LET config == DifficultyConfig(M, m, b, q, coeff)
               C == At(coeff, E)
               L == Near(C * Near(q))
           IN  /\ E <= 0 /\ E <= coeff.exp /\ m <= M /\ q # 0 /\ C \in Nat \ {0}
               /\ config.m = m /\ config.big_m = M
               /\ Slope(k, E, M - m, L) /\ LineAt(config, M, b, L, k, E)
<1> DEFINE config == DifficultyConfig(M, m, b, q, coeff)
           lq == LqProduct(q, coeff)
           line == Line(M, m, b, lq)
           A == M - m
<1>1. /\ ~(M < m) /\ q # 0 /\ ~Leq(coeff, FromInt(0)) /\ IsFinite(lq)
      /\ IsFinite(line.min_diff_start) /\ Leq(Epsilon, lq)
      /\ config = line
  <2>1. \A e : ~IsOk(Err(e))
    BY DEF IsOk, Err
  <2> HIDE DEF lq, line
  <2> QED BY <2>1 DEF DifficultyConfig, lq, line
<1>2. /\ M \in Nat /\ m \in Nat /\ m <= M /\ A \in 0..MaxU8 /\ b \in Nat /\ q \in Nat /\ MaxU8 \in Nat
      /\ m - M = -A
  BY <1>1, RangeIs
<1>3. IsFinite(FromInt(b)) /\ IsFinite(FromInt(q))
  BY <1>2, IntsFit
<1>4. IsFinite(coeff)
  BY <1>1 DEF LqProduct, Times, IsFinite
<1>5. lq = Times(coeff, FromInt(q))
  BY DEF LqProduct
<1>6. lq \in Floats
  <2>1. PICK E0 \in Int : E0 <= coeff.exp /\ E0 <= 0
    <3>1. coeff.exp \in Int
      BY DEF Floats
    <3> QED BY <3>1, BelowAll
  <2> QED BY <1>1, <1>2, <1>3, <1>4, <1>5, <2>1, TimesInt
<1>7. PICK E \in Int : /\ E <= coeff.exp /\ E <= 1 - Precision /\ E <= 0
                       /\ E <= FromInt(-A).exp - lq.exp - (Precision + Bits(lq.sig) + 1) - 1
  <2>1. coeff.exp \in Int /\ lq.exp \in Int /\ lq.sig \in Int
    BY <1>6 DEF Floats
  <2>2. Bits(lq.sig) \in Nat /\ Precision \in Nat
    BY <2>1, BitsIs, FloatAssumption
  <2>3. FromInt(-A).exp \in Int
    <3>1. IsFinite(FromInt(-A)) /\ -A \in Int
      BY <1>2, IntsFit
    <3>2. FromInt(-A) \in Floats
      BY <3>1, IntAt
    <3> QED BY <3>2 DEF Floats
  <2> QED BY <2>1, <2>2, <2>3, BelowAll
<1>8. lq \in Floats /\ E <= lq.exp /\ At(lq, E) = Near(At(coeff, E) * Near(q))
  BY <1>1, <1>2, <1>3, <1>4, <1>5, <1>7, TimesInt
<1> DEFINE C == At(coeff, E)
           L == At(lq, E)
           S == TwoTo[-E]
<1>9. C \in Nat \ {0}
  BY <1>1, <1>4, <1>7, CoefficientPositive
<1>10. PICK k \in Nat :
         /\ Slope(k, E, A, L)
         /\ LET a == Over(FromInt(-A), lq)
            IN  IsFinite(a) /\ a \in Floats /\ E <= a.exp /\ At(a, E) = -Near(k)
  <2> HIDE DEF lq
  <2> QED BY <1>1, <1>2, <1>7, <1>8, SlopeIs
<1> DEFINE a == Over(FromInt(m - M), lq)
<1>11. IsFinite(a) /\ a \in Floats /\ E <= a.exp /\ At(a, E) = -Near(k)
  BY <1>2, <1>10
<1>12. /\ line.precompute_big_b \in Floats /\ IsFinite(line.precompute_big_b)
       /\ E <= line.precompute_big_b.exp
       /\ At(line.precompute_big_b, E) = Near(M * S + Near(Near(k) * Near(b)))
  <2>1. line.precompute_big_b = Plus(FromInt(M), Negate(Times(a, FromInt(b))))
    BY DEF Line
  <2> HIDE DEF line, a
  <2> QED BY <1>2, <1>7, <1>10, <1>11, <2>1, ConstantIs
<1>13. /\ line.min_diff_start \in Floats /\ E <= line.min_diff_start.exp
       /\ At(line.min_diff_start, E) = Near(Near(b) * S + L)
  <2>1. line.min_diff_start = Plus(FromInt(b), lq)
    BY DEF Line
  <2>2. FromInt(b) \in Floats /\ E <= FromInt(b).exp /\ At(FromInt(b), E) = Near(b) * S
    BY <1>2, <1>3, <1>7, IntAt
  <2> DEFINE fb == FromInt(b)
  <2> HIDE DEF line, lq, fb
  <2>3. IsFinite(Plus(fb, lq))
    BY <1>1, <2>1 DEF fb
  <2>4. fb \in Floats /\ IsFinite(fb) /\ E <= fb.exp /\ At(fb, E) = Near(b) * S
    BY <1>3, <2>2 DEF fb
  <2>5. /\ Plus(fb, lq) \in Floats /\ E <= Plus(fb, lq).exp
        /\ At(Plus(fb, lq), E) = Near(At(fb, E) + At(lq, E))
    BY <1>1, <1>7, <1>8, <2>3, <2>4, PlusIs
  <2> QED BY <2>1, <2>4, <2>5 DEF fb
<1>14. line.m = m /\ line.big_m = M /\ line.b = FromInt(b) /\ line.precompute_big_a = a
  BY DEF Line
<1>15. LineAt(config, M, b, L, k, E)
  <2> HIDE DEF line, config, a, L, lq
  <2> QED BY <1>1, <1>11, <1>12, <1>13, <1>14 DEF LineAt
<1>16. L = Near(C * Near(q)) /\ config.m = m /\ config.big_m = M
  BY <1>1, <1>8, <1>14
<1> HIDE DEF config, L, C, line
<1>17. /\ E <= 0 /\ E <= coeff.exp /\ m <= M /\ q # 0 /\ C \in Nat \ {0}
       /\ config.m = m /\ config.big_m = M
       /\ Slope(k, E, A, Near(C * Near(q))) /\ LineAt(config, M, b, Near(C * Near(q)), k, E)
  BY <1>1, <1>2, <1>7, <1>9, <1>10, <1>15, <1>16
<1> QED BY <1>17 DEF config, C

\* What a configuration quotes at a balance x, in integers.
Quote(M, m, b, L, k, S, x) ==
  LET B == Near(M * S + Near(Near(k) * Near(b)))
  IN  IF Near(Near(b) * S + L) <= Near(x) * S THEN m
      ELSE IF Near(x) * S <= Near(b) * S THEN M
      ELSE AsU8(HalfUp(Near(B - Near(Near(k) * Near(x))), S))

\* calculate_difficulty between the thresholds, in integers.
LEMMA OnLineIs ==
  ASSUME NEW X \in Nat, InRange(X), NEW A \in 0..MaxU8, NEW E \in Int, E <= 0, NEW L, NEW k,
         Slope(k, E, A, L), NEW b \in 0..X, NEW M \in 0..MaxU8,
         NEW config, LineAt(config, M, b, L, k, E), NEW x \in 0..X
  PROVE  LET B == Near(M * TwoTo[-E] + Near(Near(k) * Near(b)))
         IN  OnLine(config, x) = AsU8(HalfUp(Near(B - Near(Near(k) * Near(x))), TwoTo[-E]))
<1> DEFINE S == TwoTo[-E]
           NS == TwoTo[MaxExponent - 1] * S
           P == Near(Near(k) * Near(b))
           p == Near(k) * Near(x)
           ms == M * S
           B == Near(ms + P)
           a == config.precompute_big_a
           c == config.precompute_big_b
           t == Times(a, FromInt(x))
           y == Plus(t, c)
<1>1. /\ NS \in Nat \ {0} /\ p \in Nat /\ Near(p) \in Nat /\ 8 * p <= NS /\ 4 * Near(p) <= NS
      /\ P \in Nat /\ 4 * P <= NS /\ 4096 * ms <= NS
  BY SlopeRoom
<1>2. /\ a \in Floats /\ IsFinite(a) /\ E <= a.exp /\ At(a, E) = -Near(k)
      /\ c \in Floats /\ IsFinite(c) /\ E <= c.exp /\ At(c, E) = B
  BY DEF LineAt
<1>3. /\ k \in Nat /\ Near(k) \in Nat /\ x \in Nat /\ Near(x) \in Nat /\ M \in Nat /\ S \in Nat /\ ms \in Nat
  <2>1. k \in Nat /\ x \in Nat /\ M \in Nat /\ -E \in Nat
    BY RangeIs DEF Slope
  <2>2. S \in Nat
    BY <2>1, TwoToGrows
  <2> QED BY <2>1, <2>2, NearNat
<1>4. B \in Nat /\ B <= 2 * (ms + P)
  <2>1. ms + P \in Nat
    BY <1>1, <1>3
  <2> HIDE DEF ms, P
  <2> QED BY <2>1, NearNat
<1>5. IsFinite(FromInt(x))
  BY <1>3, IntsFit
<1>6. IsFinite(t) /\ t \in Floats /\ E <= t.exp /\ At(t, E) = -Near(p)
  <2>0. At(a, E) * Near(x) = -p
    BY <1>2, <1>3
  <2>1. Abs(-p) < NS
    <3> HIDE DEF p, NS
    <3>1. Abs(-p) = p
      BY <1>1, AbsIs
    <3> QED BY <1>1, <3>1
  <2>2. IsFinite(t)
    BY <1>2, <1>3, <1>5, <2>0, <2>1, TimesInt
  <2>3. t \in Floats /\ E <= t.exp /\ At(t, E) = Near(-p)
    BY <1>2, <1>3, <1>5, <2>0, <2>2, TimesInt
  <2>4. Near(-p) = -Near(p)
    <3> HIDE DEF p
    <3> QED BY <1>1, NearIs
  <2> QED BY <2>2, <2>3, <2>4
<1>7. TwoTo[(MaxExponent - 1) - E] = NS
  <2> DEFINE M1 == MaxExponent - 1
             d == -E
  <2>1. M1 \in Nat /\ d \in Nat /\ M1 + d = M1 - E
    BY FloatAssumption
  <2>2. \A i, j \in Nat : TwoTo[i + j] = TwoTo[i] * TwoTo[j]
    BY TwoToSum
  <2>3. TwoTo[M1 + d] = NS
    BY <2>1, <2>2, Zenon
  <2> QED BY <2>1, <2>3
<1> DEFINE Q == Near(p)
<1>8. Abs(-Q + B) < NS /\ -Q + B = B - Q
  <2>1. Q \in Nat /\ 4 * Q <= NS
    BY <1>1
  <2> HIDE DEF Q, B, P, ms, NS
  <2> QED BY <1>1, <1>3, <1>4, <2>1 DEF Abs
<1>9. IsFinite(y) /\ y \in Floats /\ E <= y.exp /\ At(y, E) = Near(B - Q)
  <2>1. t \in Floats /\ IsFinite(t) /\ E <= t.exp /\ At(t, E) = -Q
    BY <1>6
  <2> HIDE DEF t, c, Q, B, NS
  <2>2. IsFinite(Plus(t, c))
    BY <1>2, <1>7, <1>8, <2>1, PlusIs
  <2>3. Plus(t, c) \in Floats /\ E <= Plus(t, c).exp /\ At(Plus(t, c), E) = Near(-Q + B)
    BY <1>2, <2>1, <2>2, PlusIs
  <2> QED BY <1>8, <2>2, <2>3
<1>10. RoundToInt(y) = HalfUp(Near(B - Q), S)
  <2> HIDE DEF y, Q, B
  <2> QED BY <1>9, RoundToIntIs
<1>11. OnLine(config, x) = AsU8(RoundToInt(y))
  BY DEF OnLine
<1> HIDE DEF y
<1> QED BY <1>10, <1>11

\* calculate_difficulty and its two comparisons, in integers.
LEMMA QuoteIs ==
  ASSUME NEW X \in Nat, InRange(X), NEW A \in 0..MaxU8, NEW E \in Int, E <= 0, NEW L, NEW k,
         Slope(k, E, A, L), NEW b \in 0..X, NEW M \in 0..MaxU8,
         NEW m, NEW config, LineAt(config, M, b, L, k, E), config.big_m = M, config.m = m,
         NEW x \in 0..X
  PROVE  LET S == TwoTo[-E]
         IN  /\ Leq(config.min_diff_start, FromInt(x)) <=> Near(Near(b) * S + L) <= Near(x) * S
             /\ Leq(FromInt(x), config.b) <=> Near(x) * S <= Near(b) * S
             /\ calculate_difficulty(config, x) = Quote(M, m, b, L, k, S, x)
<1> DEFINE S == TwoTo[-E]
           f == FromInt(x)
           g == FromInt(b)
<1>1. x \in Nat /\ b \in Nat
  OBVIOUS
<1>2. IsFinite(f) /\ IsFinite(g)
  BY <1>1, IntsFit
<1>3. f \in Floats /\ E <= f.exp /\ At(f, E) = Near(x) * S /\ g \in Floats /\ E <= g.exp /\ At(g, E) = Near(b) * S
  BY <1>1, <1>2, IntAt
<1> DEFINE v == config.min_diff_start
<1>4. /\ config.b = g /\ v \in Floats /\ IsFinite(v) /\ E <= v.exp /\ At(v, E) = Near(Near(b) * S + L)
  BY DEF LineAt
<1> HIDE DEF f, g, v, S
<1>5. Leq(v, f) <=> Near(Near(b) * S + L) <= Near(x) * S
  BY <1>2, <1>3, <1>4, LeqIs
<1>6. Leq(f, config.b) <=> Near(x) * S <= Near(b) * S
  BY <1>2, <1>3, <1>4, LeqIs
<1>7. LET B == Near(M * S + Near(Near(k) * Near(b)))
      IN  OnLine(config, x) = AsU8(HalfUp(Near(B - Near(Near(k) * Near(x))), S))
  BY OnLineIs DEF S
<1>8. calculate_difficulty(config, x) = Quote(M, m, b, L, k, S, x)
  BY <1>5, <1>6, <1>7 DEF calculate_difficulty, Quote, f, v
<1> QED BY <1>5, <1>6, <1>8 DEF f, v, S

-----------------------------------------------------------------------------
(* The formula.  G is Lq, d how far the balance is above the minimum.      *)

Exact(M, m, G, d) ==
  IF d <= 0 THEN M * G ELSE IF d >= G THEN m * G ELSE M * G - (M - m) * d

Within(y, M, m, G, Z) ==
  y \in m..M /\ 4 * (y * G - Z) <= 3 * G /\ -(4 * (y * G - Z)) <= 3 * G

\* At and above the upper threshold, and at and below the lower one.
LEMMA AboveFollows ==
  ASSUME NEW M \in Nat, NEW m \in Nat, m <= M, NEW G \in Nat \ {0}, NEW d \in Int,
         32 * ((M - m) * (G - d)) <= 5 * G
  PROVE  Within(m, M, m, G, Exact(M, m, G, d))
<1> DEFINE A == M - m
           Z == Exact(M, m, G, d)
           g == m * G
           ag == A * G
           ad == A * d
<1>1. A \in Nat /\ M * G = g + ag /\ A * (G - d) = ag - ad /\ g \in Int /\ ag \in Nat /\ ad \in Int
  OBVIOUS
<1>2. 32 * (ag - ad) <= 5 * G
  BY <1>1
<1>3. CASE d <= 0
  <2>1. d * A <= 0 * A
    BY <1>1, <1>3, TimesLeq
  <2>2. ad <= 0
    BY <1>1, <2>1
  <2>3. Z = g + ag
    BY <1>1, <1>3 DEF Exact
  <2> HIDE DEF Z, ad, ag
  <2>4. 4 * (g - Z) <= 3 * G /\ -(4 * (g - Z)) <= 3 * G
    BY <1>1, <1>2, <2>2, <2>3
  <2> QED BY <2>4 DEF Within, Z
<1>4. CASE d >= G
  <2>1. Z = g
    BY <1>4 DEF Exact
  <2> HIDE DEF Z, ad, ag
  <2>2. 4 * (g - Z) <= 3 * G /\ -(4 * (g - Z)) <= 3 * G
    BY <1>1, <2>1
  <2> QED BY <2>2 DEF Within, Z
<1>5. CASE d > 0 /\ d < G
  <2>1. Z = g + ag - ad
    BY <1>1, <1>5 DEF Exact
  <2>2. d * A <= G * A
    BY <1>1, <1>5, TimesLeq
  <2>3. ad <= ag
    BY <1>1, <2>2
  <2> HIDE DEF Z, ad, ag
  <2>4. 4 * (g - Z) <= 3 * G /\ -(4 * (g - Z)) <= 3 * G
    BY <1>1, <1>2, <2>1, <2>3
  <2> QED BY <2>4 DEF Within, Z
<1> QED BY <1>3, <1>4, <1>5

\* The greatest difficulty is right a little above the minimum balance too.
LEMMA BelowFollows ==
  ASSUME NEW M \in Nat, NEW m \in Nat, m <= M, NEW G \in Nat \ {0}, NEW d \in Int,
         32 * ((M - m) * d) <= 5 * G
  PROVE  Within(M, M, m, G, Exact(M, m, G, d))
<1> DEFINE A == M - m
           Z == Exact(M, m, G, d)
           g == M * G
           ag == A * G
           ad == A * d
<1>1. A \in Nat /\ m * G = g - ag /\ g \in Int /\ ag \in Nat /\ ad \in Int /\ 32 * ad <= 5 * G
  OBVIOUS
<1>3. CASE d <= 0
  <2>1. Z = g
    BY <1>3 DEF Exact
  <2> HIDE DEF Z, ad, ag
  <2>2. 4 * (g - Z) <= 3 * G /\ -(4 * (g - Z)) <= 3 * G
    BY <1>1, <2>1
  <2> QED BY <2>2 DEF Within, Z
<1>4. CASE d >= G
  <2>1. Z = g - ag
    BY <1>1, <1>4 DEF Exact
  <2>2. G * A <= d * A
    BY <1>1, <1>4, TimesLeq
  <2>3. ag <= ad
    BY <1>1, <2>2
  <2> HIDE DEF Z, ad, ag
  <2>4. 4 * (g - Z) <= 3 * G /\ -(4 * (g - Z)) <= 3 * G
    BY <1>1, <2>1, <2>3
  <2> QED BY <2>4 DEF Within, Z
<1>5. CASE d > 0 /\ d < G
  <2>1. Z = g - ad
    BY <1>1, <1>5 DEF Exact
  <2>2. 0 * A <= d * A
    BY <1>1, <1>5, TimesLeq
  <2>3. 0 <= ad
    BY <1>1, <2>2
  <2> HIDE DEF Z, ad, ag
  <2>4. 4 * (g - Z) <= 3 * G /\ -(4 * (g - Z)) <= 3 * G
    BY <1>1, <2>1, <2>3
  <2> QED BY <2>4 DEF Within, Z
<1> QED BY <1>3, <1>4, <1>5

\* Between them: y is the line's value as it is rounded, Z the exact one.
LEMMA BetweenFollows ==
  ASSUME NEW M \in Nat, NEW m \in Nat, m <= M, NEW G \in Nat \ {0}, NEW d \in Nat \ {0},
         32 * ((M - m) * (d - G)) <= 5 * G, NEW y \in Int,
         LET Z == M * G - (M - m) * d
         IN  4 * (y * G - Z) <= 3 * G /\ -(4 * (y * G - Z)) <= 3 * G
  PROVE  Within(y, M, m, G, Exact(M, m, G, d))
<1> DEFINE A == M - m
           Z == M * G - A * d
           ag == A * G
           ad == A * d
<1>1. A \in Nat /\ ag \in Nat /\ ad \in Nat /\ Z \in Int
  OBVIOUS
<1>2. 4 * (y * G - Z) <= 3 * G /\ -(4 * (y * G - Z)) <= 3 * G
  OBVIOUS
<1>3. Z <= M * G
  <2>1. Z = M * G - ad /\ M * G \in Int
    OBVIOUS
  <2> HIDE DEF Z, ad
  <2> QED BY <1>1, <2>1
<1>4. 32 * (m * G - Z) <= 5 * G
  <2>1. A * (d - G) = m * G - Z
    OBVIOUS
  <2> QED BY <2>1
<1>5. y <= M /\ m <= y
  <2> HIDE DEF Z
  <2>1. M \in Int /\ m \in Int
    OBVIOUS
  <2> QED BY <1>1, <1>2, <1>3, <1>4, <2>1, RoundedBounds
<1>6. y \in m..M
  BY <1>5
<1>7. CASE d < G
  <2>1. Exact(M, m, G, d) = Z
    BY <1>7 DEF Exact
  <2> HIDE DEF Z
  <2> QED BY <1>2, <1>6, <2>1 DEF Within
<1>8. CASE d >= G
  <2>1. Exact(M, m, G, d) = m * G
    BY <1>8 DEF Exact
  <2>2. Z <= m * G
    <3>1. G * A <= d * A
      BY <1>1, <1>8, TimesLeq
    <3>2. ag <= ad /\ Z = m * G + ag - ad /\ m * G \in Int
      BY <1>1, <3>1
    <3> HIDE DEF Z, ag, ad
    <3> QED BY <1>1, <3>2
  <2>3. y <= m
    <3> HIDE DEF Z
    <3>1. m \in Int
      OBVIOUS
    <3> QED BY <1>1, <1>2, <2>2, <3>1, RoundedBounds
  <2>4. y = m
    BY <1>5, <2>3
  <2>5. 4 * (m * G - m * G) <= 3 * G /\ -(4 * (m * G - m * G)) <= 3 * G
    <3> DEFINE g == m * G
    <3>1. g \in Int
      OBVIOUS
    <3> HIDE DEF g
    <3>2. 4 * (g - g) <= 3 * G /\ -(4 * (g - g)) <= 3 * G
      BY <3>1
    <3> QED BY <3>2 DEF g
  <2> QED BY <1>6, <2>1, <2>4, <2>5 DEF Within
<1> QED BY <1>7, <1>8

\* A Mild layer's quote, in integers, is within 3/4 of the formula.
LEMMA QuoteFollows ==
  ASSUME NEW X \in Nat, InRange(X), NEW M \in 0..MaxU8, NEW m \in 0..MaxU8, m <= M,
         NEW b \in 0..X, NEW q \in Nat \ {0}, NEW C \in Nat \ {0}, NEW E \in Int, E <= 0, NEW k,
         Slope(k, E, M - m, Near(C * Near(q))), NEW x \in 0..X,
         ((M - m) * (b * TwoTo[-E] + C * q)) * 32 <= (C * q) * TwoTo[Precision]
  PROVE  LET S == TwoTo[-E]
         IN  Within(Quote(M, m, b, Near(C * Near(q)), k, S, x), M, m, C * q, Exact(M, m, C * q, (x - b) * S))
<1> DEFINE T == TwoTo[Precision]
           S == TwoTo[-E]
           A == M - m
           G == C * q
           L == Near(C * Near(q))
           R == A * (S * S)
           h == Near(b) * S
           y == Near(x) * S
           V == Near(h + L)
           d == (x - b) * S
           D == b * S
           a == Near(k)
           P == Near(a * Near(b))
           Q == Near(a * Near(x))
           B == Near(M * S + P)
           Y == Near(B - Q)
           v == HalfUp(Y, S)
<1>1. MaxU8 \in Nat \ {0} /\ T \in Nat \ {0} /\ 128 * MaxU8 <= T /\ 128 <= T
  BY RangeIs
<1>2. /\ M \in Nat /\ m \in Nat /\ A \in Nat /\ A <= M /\ 128 * M <= T /\ b \in Nat /\ x \in Nat
      /\ S \in Nat \ {0} /\ G \in Nat \ {0} /\ D \in Nat /\ d \in Int /\ R \in Nat
  <2>1. -E \in Nat
    OBVIOUS
  <2>2. S \in Nat \ {0}
    BY <2>1, TwoToGrows
  <2> HIDE DEF S, T
  <2>3. M \in Nat /\ m \in Nat /\ b \in Nat /\ x \in Nat /\ 128 * M <= T
    BY <1>1
  <2> QED BY <2>2, <2>3
<1>3. /\ k \in Nat /\ (k * L) * (4 * T) <= R * (4 * T) + R /\ R * (4 * T) <= (k * L) * (4 * T) + R
  BY DEF Slope
<1>4. /\ L \in Nat /\ (L - G) * (64 * T) <= 129 * G /\ (G - L) * (64 * T) <= 129 * G
  BY <1>1, ProductError
<1>5. /\ a \in Nat /\ a * T <= k * T + k /\ k * T <= a * T + k
  BY <1>3, NearNat
<1>6. (a * G - R) * T <= 4 * R /\ (R - a * G) * T <= 4 * R
  <2> HIDE DEF a, G, R, T, L
  <2>1. T \in Nat /\ G \in Nat
    BY <1>1, <1>2
  <2> QED BY <1>1, <1>2, <1>3, <1>4, <1>5, <2>1, SlopeError
<1>7. /\ h \in Nat /\ h * T <= D * T + D /\ D * T <= h * T + D
      /\ y \in Nat /\ y * T <= (x * S) * T + x * S /\ (x * S) * T <= y * T + x * S
  <2>1. ASSUME NEW n \in Nat
        PROVE  /\ Near(n) * S \in Nat
               /\ (Near(n) * S) * T <= (n * S) * T + n * S /\ (n * S) * T <= (Near(n) * S) * T + n * S
    <3> DEFINE z == Near(n)
    <3>1. z \in Nat /\ z * T <= n * T + n /\ n * T <= z * T + n
      BY NearNat
    <3> HIDE DEF z, T, S
    <3>2. (z * T) * S <= (n * T + n) * S /\ (n * T) * S <= (z * T + n) * S
      BY <1>1, <1>2, <3>1, TimesLeq
    <3>3. /\ (z * T) * S = (z * S) * T /\ (n * T + n) * S = (n * S) * T + n * S
          /\ (n * T) * S = (n * S) * T /\ (z * T + n) * S = (z * S) * T + n * S /\ z * S \in Nat
      BY <1>1, <1>2, <3>1
    <3> QED BY <3>2, <3>3 DEF z
  <2> QED BY <1>2, <2>1
<1>8. V \in Nat /\ V * T <= (h + L) * T + (h + L) /\ (h + L) * T <= V * T + (h + L)
  <2>1. h + L \in Nat
    BY <1>4, <1>7
  <2> HIDE DEF h, L
  <2> QED BY <2>1, NearNat
<1>9. /\ V <= y => (G - d) * T <= 5 * (G + D)
      /\ y < V => (d - G) * T <= 5 * (G + D)
      /\ y <= h => d * T <= 5 * (G + D)
  <2> DEFINE Xs == x * S
  <2>1. Xs \in Nat /\ d = Xs - D
    BY <1>2
  <2>2. y * T <= Xs * T + Xs /\ Xs * T <= y * T + Xs
    BY <1>7
  <2>3. T \in Nat /\ G \in Nat
    BY <1>1, <1>2
  <2> HIDE DEF Xs, d, V, y, h, L, G, T, D
  <2>4. /\ V <= y => (G - (Xs - D)) * T <= 5 * (G + D)
        /\ y < V => ((Xs - D) - G) * T <= 5 * (G + D)
        /\ y <= h => (Xs - D) * T <= 5 * (G + D)
    BY <1>1, <1>2, <1>4, <1>7, <1>8, <2>1, <2>2, <2>3, Thresholds
  <2> QED BY <2>1, <2>4
<1>10. ASSUME NEW e \in Int, e * T <= 5 * (G + D) PROVE 32 * (A * e) <= 5 * G
  <2>1. (A * (D + G)) * 32 <= G * T /\ G \in Nat
    BY <1>2
  <2> HIDE DEF A, D, G, T
  <2> QED BY <1>1, <1>2, <1>10, <2>1, MildDistance
<1>11. CASE V <= y
  <2>1. 32 * (A * (G - d)) <= 5 * G
    <3>1. G - d \in Int
      BY <1>2
    <3> HIDE DEF G, d, D, T, V, y
    <3> QED BY <1>9, <1>10, <1>11, <3>1
  <2>2. Within(m, M, m, G, Exact(M, m, G, d))
    <3> HIDE DEF G, d
    <3> QED BY <1>2, <2>1, AboveFollows
  <2>3. Quote(M, m, b, L, k, S, x) = m
    BY <1>11 DEF Quote
  <2> QED BY <2>2, <2>3
<1>12. CASE ~(V <= y) /\ y <= h
  <2>1. 32 * (A * d) <= 5 * G
    <3> HIDE DEF G, d, D, T, V, y, h
    <3> QED BY <1>2, <1>9, <1>10, <1>12
  <2>2. Within(M, M, m, G, Exact(M, m, G, d))
    <3> HIDE DEF G, d
    <3> QED BY <1>2, <2>1, BelowFollows
  <2>3. Quote(M, m, b, L, k, S, x) = M
    BY <1>12 DEF Quote
  <2> QED BY <2>2, <2>3
<1>13. CASE ~(V <= y) /\ ~(y <= h)
  <2>1. b < x
    <3> SUFFICES ASSUME x <= b PROVE FALSE
      BY <1>2
    <3>1. Near(x) <= Near(b)
      BY <1>2, NearMonotone
    <3>2. Near(x) \in Int /\ Near(b) \in Int
      BY <1>2, NearNat
    <3> HIDE DEF S
    <3>3. Near(x) * S <= Near(b) * S
      BY <1>2, <3>1, <3>2, TimesLeq
    <3> QED BY <1>13, <3>3
  <2>2. d \in Nat \ {0}
    <3>1. x - b \in Nat \ {0}
      BY <1>2, <2>1
    <3> QED BY <1>2, <3>1
  <2>3. 32 * (A * (d - G)) <= 5 * G
    <3>1. d - G \in Int /\ y < V
      BY <1>2, <1>7, <1>8, <1>13
    <3> HIDE DEF G, d, D, T, V, y
    <3> QED BY <1>9, <1>10, <3>1
  <2>4. (A * d) * 32 <= G * (32 * A + 5)
    <3> DEFINE ad == A * d
               ag == A * G
    <3>1. A * (d - G) = ad - ag /\ G * (32 * A + 5) = 32 * ag + 5 * G /\ ad \in Int /\ ag \in Int
      BY <1>2, <2>2
    <3> QED BY <1>2, <2>3, <3>1
  <2>5. /\ P \in Nat /\ (P - a * b) * (64 * T) <= 129 * (a * b) /\ (a * b - P) * (64 * T) <= 129 * (a * b)
        /\ Q \in Nat /\ (Q - a * x) * (64 * T) <= 129 * (a * x) /\ (a * x - Q) * (64 * T) <= 129 * (a * x)
    <3>1. ASSUME NEW n \in Nat
          PROVE  LET p == Near(a * Near(n))
                 IN  /\ p \in Nat /\ (p - a * n) * (64 * T) <= 129 * (a * n)
                     /\ (a * n - p) * (64 * T) <= 129 * (a * n)
      <4>1. a \in Nat /\ 64 <= TwoTo[Precision]
        BY <1>1, <1>5
      <4> HIDE DEF a, T, S
      <4>2. LET p == Near(a * Near(n))
                t == TwoTo[Precision]
            IN  /\ p \in Nat
                /\ (p - a * n) * (64 * t) <= 129 * (a * n)
                /\ (a * n - p) * (64 * t) <= 129 * (a * n)
        BY <4>1, ProductError, Zenon
      <4> QED BY <4>2 DEF T
    <3> HIDE DEF a, T
    <3> QED BY <1>2, <3>1
  <2>6. P <= Q
    <3>0. b \in Int /\ x \in Int /\ b <= x
      BY <1>2, <2>1
    <3>1. Near(b) <= Near(x) /\ Near(b) \in Nat /\ Near(x) \in Nat
      BY <1>2, <3>0, NearMonotone, NearNat
    <3>2. Near(b) * a <= Near(x) * a
      <4> HIDE DEF a
      <4> QED BY <1>5, <3>1, TimesLeq
    <3>3. a * Near(b) \in Int /\ a * Near(x) \in Int /\ a * Near(b) <= a * Near(x)
      <4> HIDE DEF a
      <4> QED BY <1>5, <3>1, <3>2
    <3> HIDE DEF a
    <3> QED BY <3>3, NearMonotone
  <2>7. /\ B \in Int /\ B * T <= (M * S + P) * T + (M * S + P) /\ (M * S + P) * T <= B * T + (M * S + P)
    <3>1. M * S + P \in Nat
      BY <1>2, <2>5
    <3> QED BY <3>1, NearNat
  <2>8. Y \in Int /\ Y * T <= (B - Q) * T + Abs(B - Q) /\ (B - Q) * T <= Y * T + Abs(B - Q)
    <3>1. B - Q \in Int
      BY <2>5, <2>7
    <3> QED BY <3>1, NearIs
  <2>9. Drawn(T, S, G, A, M, a, b, x, P, Q, B, Y)
    <3>1. (A * (b * S + G)) * 32 <= G * T
      OBVIOUS
    <3>2. (A * ((x - b) * S)) * 32 <= G * (32 * A + 5)
      BY <2>4
    <3>3. (a * G - A * (S * S)) * T <= 4 * (A * (S * S)) /\ (A * (S * S) - a * G) * T <= 4 * (A * (S * S))
      BY <1>6
    <3> HIDE DEF T, S, G, A, R, a, P, Q, B, Y, d
    <3> QED BY <1>1, <1>2, <1>5, <2>1, <2>5, <2>6, <2>7, <2>8, <3>1, <3>2, <3>3 DEF Drawn
  <2> DEFINE Z == M * G - A * d
  <2>10. 4 * (Y * G - S * Z) <= S * G /\ -(4 * (Y * G - S * Z)) <= S * G
    <3> HIDE DEF T, S, G, A, a, P, Q, B, Y
    <3> QED BY <2>9, LineError
  <2>11. Z \in Int
    BY <1>2
  <2>12. v \in Int /\ 4 * (v * G - Z) <= 3 * G /\ -(4 * (v * G - Z)) <= 3 * G
    <3> HIDE DEF Z, Y, G, S
    <3> QED BY <1>2, <2>8, <2>10, <2>11, RoundedLine
  <2>13. Within(v, M, m, G, Exact(M, m, G, d))
    <3> HIDE DEF v, G, d
    <3> QED BY <1>2, <2>2, <2>3, <2>12, BetweenFollows
  <2>14. AsU8(v) = v
    <3>1. v \in m..M
      <4> HIDE DEF v, G, d
      <4> QED BY <2>13 DEF Within
    <3> HIDE DEF v
    <3> QED BY <1>1, <1>2, <3>1 DEF AsU8
  <2>15. Quote(M, m, b, L, k, S, x) = AsU8(v)
    BY <1>13 DEF Quote
  <2> HIDE DEF v
  <2> QED BY <2>13, <2>14, <2>15
<1> QED BY <1>11, <1>12, <1>13

\* The exact formula does not depend on the scale.
LEMMA ExactScale ==
  ASSUME NEW M \in Int, NEW m \in Int, NEW G \in Int, NEW d \in Int, NEW D \in Nat \ {0}
  PROVE  Exact(M, m, G * D, d * D) = Exact(M, m, G, d) * D /\ Exact(M, m, G, d) \in Int
<1>1. (d * D <= 0 <=> d <= 0) /\ (d * D >= G * D <=> d >= G)
  <2>1. d <= 0 => d * D <= 0 * D
    BY TimesLeq
  <2>2. d * D <= 0 * D => d <= 0
    BY TimesCancel
  <2>3. G <= d => G * D <= d * D
    BY TimesLeq
  <2>4. G * D <= d * D => G <= d
    BY TimesCancel
  <2>5. 0 * D = 0 /\ d * D \in Int /\ G * D \in Int
    OBVIOUS
  <2> QED BY <2>1, <2>2, <2>3, <2>4, <2>5
<1>2. CASE d <= 0
  <2>1. M * (G * D) = (M * G) * D /\ M * G \in Int
    OBVIOUS
  <2> QED BY <1>1, <1>2, <2>1 DEF Exact
<1>3. CASE d > 0 /\ d >= G
  <2>1. m * (G * D) = (m * G) * D /\ m * G \in Int
    OBVIOUS
  <2> QED BY <1>1, <1>3, <2>1 DEF Exact
<1>4. CASE d > 0 /\ d < G
  <2>1. M * (G * D) - (M - m) * (d * D) = (M * G - (M - m) * d) * D /\ M * G - (M - m) * d \in Int
    OBVIOUS
  <2> QED BY <1>1, <1>4, <2>1 DEF Exact
<1> QED BY <1>2, <1>3, <1>4

\* A configuration quotes the formula of docs/pow.md with its own M for the
\* document's 255, within 3/4 and between the two difficulties, for every balance,
\* when the line is not too far from its origin.
THEOREM FormulaFollowed ==
  ASSUME NEW X \in Nat, InRange(X), NEW M \in 0..MaxU8, NEW m \in 0..MaxU8,
         NEW b \in 0..X, NEW q \in 0..X, NEW coeff \in Floats,
         IsOk(DifficultyConfig(M, m, b, q, coeff)),
         (M - m) * (b * Scale(coeff) + Lq(q, coeff)) * 32 <= Lq(q, coeff) * TwoTo[Precision],
         NEW x \in 0..X
  PROVE  LET y == calculate_difficulty(DifficultyConfig(M, m, b, q, coeff), x)
             lq == Lq(q, coeff)
         IN  /\ y \in m..M /\ lq \in Nat \ {0}
             /\ 4 * Abs(y * lq - Target(M, m, b, q, coeff, x)) <= 3 * lq
<1> DEFINE config == DifficultyConfig(M, m, b, q, coeff)
           y == calculate_difficulty(config, x)
           lq == Lq(q, coeff)
           sc == Scale(coeff)
           A == M - m
           T == TwoTo[Precision]
<1>1. PICK E \in Int, k \in Nat :
        /\ E <= 0 /\ E <= coeff.exp /\ m <= M /\ q # 0 /\ At(coeff, E) \in Nat \ {0}
        /\ config.m = m /\ config.big_m = M
        /\ Slope(k, E, M - m, Near(At(coeff, E) * Near(q)))
        /\ LineAt(config, M, b, Near(At(coeff, E) * Near(q)), k, E)
  <2> HIDE DEF config
  <2> QED BY LineIs DEF config
<1> DEFINE C == At(coeff, E)
           S == TwoTo[-E]
           G == C * q
           d == (x - b) * S
           e == IF coeff.exp < 0 THEN coeff.exp ELSE 0
           D == TwoTo[e - E]
           c == At(coeff, e)
           above == (x - b) * sc
<1>2. /\ M \in Nat /\ m \in Nat /\ m <= M /\ A \in 0..MaxU8 /\ A \in Nat /\ b \in Nat /\ x \in Nat
      /\ q \in Nat \ {0} /\ MaxU8 \in Nat /\ T \in Nat \ {0}
  BY <1>1, RangeIs
<1>3. coeff.exp \in Int /\ e \in Int /\ E <= e /\ e <= coeff.exp /\ e <= 0
  <2>1. coeff.exp \in Int
    BY DEF Floats
  <2> QED BY <1>1, <2>1
<1>4. D \in Nat \ {0} /\ sc \in Nat \ {0} /\ S = sc * D
  <2> DEFINE i == -e
             j == e - E
  <2>1. i \in Nat /\ j \in Nat /\ i + j = -E
    BY <1>3
  <2>2. \A u, v \in Nat : TwoTo[u + v] = TwoTo[u] * TwoTo[v]
    BY TwoToSum
  <2>3. TwoTo[i + j] = TwoTo[i] * TwoTo[j]
    BY <2>1, <2>2, Zenon
  <2>4. sc = TwoTo[i]
    <3>1. CASE coeff.exp < 0
      BY <3>1 DEF Scale
    <3>2. CASE ~(coeff.exp < 0)
      BY <3>2, TwoToIs DEF Scale
    <3> QED BY <3>1, <3>2
  <2> QED BY <2>1, <2>3, <2>4, TwoToGrows
<1>5. C = c * D /\ c \in Int
  BY <1>1, <1>3, AtIs
<1>6. lq = q * c
  BY DEF Lq
<1>7. c \in Nat \ {0}
  <2>1. (c >= 0 <=> c * D >= 0) /\ (c = 0 <=> c * D = 0)
    BY <1>4, <1>5, TimesSign
  <2>2. C \in Nat \ {0}
    BY <1>1
  <2> HIDE DEF c, C, D
  <2> QED BY <1>5, <2>1, <2>2
<1>8. lq \in Nat \ {0} /\ G = lq * D
  <2> HIDE DEF c, C, D, lq
  <2> QED BY <1>2, <1>4, <1>5, <1>6, <1>7
<1>9. d = above * D /\ above \in Int
  <2> HIDE DEF sc, S, D
  <2> QED BY <1>2, <1>4
<1>10. (A * (b * S + G)) * 32 <= G * T
  <2>1. ((A * (b * sc + lq)) * 32) * D <= (lq * T) * D
    <3>1. (A * (b * sc + lq)) * 32 <= lq * T
      OBVIOUS
    <3> HIDE DEF A, sc, lq, D, T
    <3>2. (A * (b * sc + lq)) * 32 \in Int /\ lq * T \in Int
      BY <1>2, <1>4, <1>8
    <3> QED BY <1>4, <3>1, <3>2, TimesLeq
  <2> HIDE DEF A, sc, lq, D, T, G, S
  <2>2. ((A * (b * sc + lq)) * 32) * D = (A * (b * S + G)) * 32
    BY <1>2, <1>4, <1>8
  <2>3. (lq * T) * D = G * T
    BY <1>2, <1>4, <1>8
  <2> QED BY <2>1, <2>2, <2>3
<1>11. y = Quote(M, m, b, Near(C * Near(q)), k, S, x)
  <2> HIDE DEF config, C
  <2>1. config.big_m = M /\ config.m = m /\ E <= 0 /\ A \in 0..MaxU8
    BY <1>1, <1>2
  <2>2. Slope(k, E, A, Near(C * Near(q))) /\ LineAt(config, M, b, Near(C * Near(q)), k, E)
    BY <1>1 DEF C
  <2> HIDE DEF A
  <2> QED BY <2>1, <2>2, QuoteIs
<1>12. Within(y, M, m, G, Exact(M, m, G, d))
  <2>1. Within(Quote(M, m, b, Near(C * Near(q)), k, S, x), M, m, C * q, Exact(M, m, C * q, (x - b) * S))
    <3>1. C \in Nat \ {0} /\ E <= 0 /\ Slope(k, E, M - m, Near(C * Near(q)))
      BY <1>1
    <3>2. ((M - m) * (b * TwoTo[-E] + C * q)) * 32 <= (C * q) * TwoTo[Precision]
      BY <1>10
    <3> HIDE DEF C
    <3> QED BY <1>2, <3>1, <3>2, QuoteFollows
  <2> HIDE DEF y
  <2> QED BY <1>11, <2>1
<1> DEFINE Z == Exact(M, m, lq, above)
<1>13. Exact(M, m, G, d) = Z * D /\ Z \in Int
  <2>1. M \in Int /\ m \in Int /\ lq \in Int /\ above \in Int /\ D \in Nat \ {0}
    BY <1>2, <1>4, <1>8, <1>9
  <2> HIDE DEF lq, above, D, G, d
  <2>2. /\ Exact(M, m, lq * D, above * D) = Exact(M, m, lq, above) * D
        /\ Exact(M, m, lq, above) \in Int
    BY <2>1, ExactScale, Zenon
  <2> QED BY <1>8, <1>9, <2>2
<1>14. Z = Target(M, m, b, q, coeff, x)
  BY DEF Exact, Target
<1>15. y \in m..M /\ 4 * (y * G - Z * D) <= 3 * G /\ -(4 * (y * G - Z * D)) <= 3 * G
  <2> HIDE DEF y, Z, G, d, D
  <2> QED BY <1>12, <1>13 DEF Within
<1> DEFINE off == y * lq - Z
<1>16. off \in Int /\ y \in Int
  <2> HIDE DEF y, Z, lq
  <2> QED BY <1>2, <1>8, <1>13, <1>15
<1>17. 4 * off <= 3 * lq /\ -(4 * off) <= 3 * lq
  <2>1. y * G - Z * D = off * D
    <3> HIDE DEF y, Z, lq, G, D
    <3> QED BY <1>4, <1>8, <1>13, <1>16
  <2>2. (4 * off) * D <= (3 * lq) * D /\ (-(4 * off)) * D <= (3 * lq) * D
    <3> DEFINE od == off * D
    <3>1. od \in Int /\ (4 * off) * D = 4 * od /\ (-(4 * off)) * D = -(4 * od) /\ (3 * lq) * D = 3 * G
      <4> HIDE DEF off, lq, G, D
      <4> QED BY <1>4, <1>8, <1>16
    <3>2. 4 * od <= 3 * G /\ -(4 * od) <= 3 * G
      BY <1>15, <2>1
    <3> HIDE DEF od, off, G, D, lq
    <3> QED BY <3>1, <3>2
  <2>3. 4 * off \in Int /\ -(4 * off) \in Int /\ 3 * lq \in Int
    <3> HIDE DEF off, lq
    <3> QED BY <1>8, <1>16
  <2> HIDE DEF off, lq, D
  <2> QED BY <1>4, <2>2, <2>3, TimesCancel
<1>18. 4 * Abs(off) <= 3 * lq
  <2> HIDE DEF off, lq
  <2> QED BY <1>8, <1>16, <1>17 DEF Abs
<1> HIDE DEF y, Z, lq
<1> QED BY <1>8, <1>14, <1>15, <1>18 DEF y, lq

\* So what it quotes lies between the two difficulties, and is the greatest of
\* them at the minimum balance and below.
THEOREM GreatestAtMinimum ==
  ASSUME NEW X \in Nat, InRange(X), NEW M \in 0..MaxU8, NEW m \in 0..MaxU8,
         NEW b \in 0..X, NEW q \in 0..X, NEW coeff \in Floats,
         IsOk(DifficultyConfig(M, m, b, q, coeff)),
         (M - m) * (b * Scale(coeff) + Lq(q, coeff)) * 32 <= Lq(q, coeff) * TwoTo[Precision],
         NEW x \in 0..X
  PROVE  LET y == calculate_difficulty(DifficultyConfig(M, m, b, q, coeff), x)
         IN  y \in m..M /\ (x <= b => y = M)
<1> DEFINE y == calculate_difficulty(DifficultyConfig(M, m, b, q, coeff), x)
           lq == Lq(q, coeff)
           Z == Target(M, m, b, q, coeff, x)
<1>1. y \in m..M /\ lq \in Nat \ {0} /\ 4 * Abs(y * lq - Z) <= 3 * lq
  BY FormulaFollowed
<1>2. ASSUME x <= b PROVE y = M
  <2>1. Z = M * lq
    <3>1. Scale(coeff) \in Nat
      <4>1. coeff.exp \in Int
        BY DEF Floats
      <4>2. coeff.exp < 0 => -coeff.exp \in Nat
        BY <4>1
      <4> QED BY <4>2, TwoToGrows DEF Scale
    <3>2. (x - b) * Scale(coeff) <= 0 * Scale(coeff)
      BY <1>2, <3>1, TimesLeq
    <3>3. (x - b) * Scale(coeff) <= 0
      BY <3>1, <3>2
    <3> QED BY <3>3 DEF Target
  <2> HIDE DEF y, Z, lq
  <2>2. (M - y) * lq \in Nat /\ y * lq - Z = -((M - y) * lq) /\ M - y \in Nat
    BY <1>1, <2>1
  <2>3. 4 * ((M - y) * lq) <= 3 * lq
    BY <1>1, <2>2 DEF Abs
  <2>4. M - y >= 1 => 1 * lq <= (M - y) * lq
    BY <1>1, <2>2, TimesLeq
  <2> QED BY <1>1, <2>2, <2>3, <2>4
<1> QED BY <1>1, <1>2

\* The saturating cast keeps the order.
LEMMA AsU8Monotone ==
  ASSUME NEW v \in Int, NEW w \in Int, v <= w
  PROVE  AsU8(v) <= AsU8(w)
BY FloatAssumption, TwoToType DEF AsU8

\* As the balance grows by one, the line falls, and so does what is quoted but
\* for the steps at the thresholds.
THEOREM LineFalls ==
  ASSUME NEW X \in Nat, InRange(X), NEW M \in 0..MaxU8, NEW m \in 0..MaxU8,
         NEW b \in 0..X, NEW q \in 0..X, NEW coeff \in Floats,
         IsOk(DifficultyConfig(M, m, b, q, coeff)), NEW x \in 1..X
  PROVE  LET config == DifficultyConfig(M, m, b, q, coeff)
             upper(z) == Leq(config.min_diff_start, FromInt(z))
             lower(z) == Leq(FromInt(z), config.b)
             quote(z) == calculate_difficulty(config, z)
         IN  \/ quote(x) <= quote(x - 1)
             \/ upper(x) /\ quote(x) = m
             \/ lower(x - 1) /\ quote(x - 1) = M
<1> DEFINE config == DifficultyConfig(M, m, b, q, coeff)
           A == M - m
<1>1. PICK E \in Int, k \in Nat :
        /\ E <= 0 /\ E <= coeff.exp /\ m <= M /\ q # 0 /\ At(coeff, E) \in Nat \ {0}
        /\ config.m = m /\ config.big_m = M
        /\ Slope(k, E, M - m, Near(At(coeff, E) * Near(q)))
        /\ LineAt(config, M, b, Near(At(coeff, E) * Near(q)), k, E)
  <2> HIDE DEF config
  <2> QED BY LineIs DEF config
<1> DEFINE L == Near(At(coeff, E) * Near(q))
           S == TwoTo[-E]
           V == Near(Near(b) * S + L)
           h == Near(b) * S
           B == Near(M * S + Near(Near(k) * Near(b)))
           Y(z) == Near(B - Near(Near(k) * Near(z)))
           quote(z) == Quote(M, m, b, L, k, S, z)
<1>2. /\ M \in Nat /\ m \in Nat /\ m <= M /\ A \in 0..MaxU8 /\ b \in Nat /\ x \in Nat
      /\ x - 1 \in Nat /\ x - 1 \in 0..X /\ x \in 0..X /\ MaxU8 \in Nat /\ S \in Nat \ {0} /\ k \in Nat
  <2>1. -E \in Nat
    BY <1>1
  <2> QED BY <1>1, <2>1, RangeIs, TwoToGrows
<1>3. ASSUME NEW z \in 0..X
      PROVE  /\ Leq(config.min_diff_start, FromInt(z)) <=> V <= Near(z) * S
             /\ Leq(FromInt(z), config.b) <=> Near(z) * S <= h
             /\ calculate_difficulty(config, z) = quote(z)
  <2> HIDE DEF config, L
  <2>1. config.big_m = M /\ config.m = m /\ E <= 0
    BY <1>1
  <2>2. Slope(k, E, A, L) /\ LineAt(config, M, b, L, k, E)
    BY <1>1 DEF L
  <2> HIDE DEF A
  <2> QED BY <1>2, <2>1, <2>2, QuoteIs
<1>4. /\ Near(x) \in Nat /\ Near(x - 1) \in Nat /\ Near(x - 1) <= Near(x)
      /\ Near(k) \in Nat /\ Near(b) \in Nat
  <2>1. x - 1 \in Int /\ x \in Int /\ x - 1 <= x
    BY <1>2
  <2> QED BY <1>2, <2>1, NearNat, NearMonotone
<1>5. Near(x - 1) * S <= Near(x) * S /\ Near(x) * S \in Int /\ Near(x - 1) * S \in Int /\ h \in Int
  <2> HIDE DEF S
  <2> QED BY <1>2, <1>4, TimesLeq
<1>6. V \in Int
  <2>1. At(coeff, E) * Near(q) \in Int
    <3>1. q \in Nat
      BY <1>2
    <3> QED BY <1>1, <3>1, NearNat
  <2>2. L \in Int
    <3> DEFINE n == At(coeff, E) * Near(q)
    <3> HIDE DEF n
    <3>1. Near(n) \in Int
      BY <2>1, NearIs DEF n
    <3> QED BY <3>1 DEF n
  <2>3. h + L \in Int
    BY <1>5, <2>2
  <2> HIDE DEF L, h
  <2> QED BY <2>3, NearIs DEF h
<1>7. B \in Int
  <2>1. Near(k) * Near(b) \in Nat
    BY <1>4
  <2>2. M * S + Near(Near(k) * Near(b)) \in Int
    <3> DEFINE n == Near(k) * Near(b)
    <3>1. Near(n) \in Nat
      <4> HIDE DEF n
      <4> QED BY <2>1, NearNat DEF n
    <3> QED BY <1>2, <3>1
  <2> QED BY <2>2, NearIs
<1>8. Y(x) \in Int /\ Y(x - 1) \in Int /\ Y(x) <= Y(x - 1)
  <2> DEFINE a == Near(k)
             f == Near(x)
             g == Near(x - 1)
  <2>1. a \in Nat /\ f \in Nat /\ g \in Nat /\ g <= f
    BY <1>4
  <2> HIDE DEF a, f, g, B
  <2>2. a * g \in Nat /\ a * f \in Nat /\ a * g <= a * f
    <3>1. g * a <= f * a
      BY <2>1, TimesLeq
    <3> QED BY <2>1, <3>1
  <2>3. Near(a * g) \in Int /\ Near(a * f) \in Int /\ Near(a * g) <= Near(a * f)
    <3> DEFINE u == a * g
               w == a * f
    <3>1. u \in Nat /\ w \in Nat /\ u <= w
      BY <2>2
    <3> HIDE DEF u, w
    <3>2. Near(u) \in Int /\ Near(w) \in Int
      BY <3>1, NearNat
    <3>3. u \in Int /\ w \in Int
      BY <3>1
    <3>4. Near(u) <= Near(w)
      BY <3>1, <3>3, NearMonotone
    <3> QED BY <3>2, <3>4 DEF u, w
  <2>4. B - Near(a * f) \in Int /\ B - Near(a * g) \in Int /\ B - Near(a * f) <= B - Near(a * g)
    BY <1>7, <2>3
  <2>5. /\ Near(B - Near(a * f)) \in Int /\ Near(B - Near(a * g)) \in Int
        /\ Near(B - Near(a * f)) <= Near(B - Near(a * g))
    BY <2>4, NearIs, NearMonotone
  <2> QED BY <2>5 DEF a, f, g
<1>9. AsU8(HalfUp(Y(x), S)) <= AsU8(HalfUp(Y(x - 1), S))
  <2> DEFINE u == Y(x)
             w == Y(x - 1)
  <2>1. u \in Int /\ w \in Int /\ u <= w
    BY <1>8
  <2> HIDE DEF u, w, S
  <2>2. HalfUp(u, S) \in Int /\ HalfUp(w, S) \in Int /\ HalfUp(u, S) <= HalfUp(w, S)
    BY <1>2, <2>1, HalfUpIs, HalfUpMonotone
  <2>3. AsU8(HalfUp(u, S)) <= AsU8(HalfUp(w, S))
    BY <2>2, AsU8Monotone
  <2> QED BY <2>3 DEF u, w
<1>10. CASE V <= Near(x) * S
  <2>1. quote(x) = m
    BY <1>10 DEF Quote
  <2> HIDE DEF quote
  <2> QED BY <1>2, <1>3, <1>10, <2>1
<1>11. CASE ~(V <= Near(x) * S) /\ Near(x - 1) * S <= h
  <2>1. ~(V <= Near(x - 1) * S)
    <3> HIDE DEF V, h, S
    <3> QED BY <1>5, <1>6, <1>11
  <2>2. quote(x - 1) = M
    BY <1>11, <2>1 DEF Quote
  <2> HIDE DEF quote
  <2> QED BY <1>2, <1>3, <1>11, <2>2
<1>12. CASE ~(V <= Near(x) * S) /\ ~(Near(x - 1) * S <= h)
  <2>1. ~(V <= Near(x - 1) * S) /\ ~(Near(x) * S <= h)
    <3> HIDE DEF V, h, S
    <3> QED BY <1>5, <1>6, <1>12
  <2>2. quote(x) = AsU8(HalfUp(Y(x), S)) /\ quote(x - 1) = AsU8(HalfUp(Y(x - 1), S))
    BY <1>12, <2>1 DEF Quote
  <2>3. quote(x) <= quote(x - 1)
    <3> HIDE DEF quote, Y
    <3> QED BY <1>9, <2>2
  <2> HIDE DEF quote
  <2> QED BY <1>2, <1>3, <2>3
<1> QED BY <1>10, <1>11, <1>12
=============================================================================
