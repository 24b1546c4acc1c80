------------------------------ MODULE Difficulty ------------------------------
(***************************************************************************)
(* The dynamic difficulty (src/pow.rs): DifficultyConfig::new precomputes  *)
(* a line in f32 arithmetic and calculate_difficulty evaluates it at the   *)
(* balance.  docs/pow.md gives the formula that the line stands for, but   *)
(* for its constant M = 255 (docs/pow.md:21): the code has the setting     *)
(* max_difficulty instead, 64 by default.                                  *)
(*                                                                         *)
(* A float is sig * 2^exp, with sig of at most Precision bits; every       *)
(* operation rounds its exact result to the nearest float, ties to even,   *)
(* as IEEE 754 has it.  f32 has a Precision of 24, a MaxExponent of 128    *)
(* and difficulties up to 255.  Subnormal floats are left out.             *)
(***************************************************************************)
EXTENDS Integers, PowersOfTwo

CONSTANTS
  Precision,    \* the bits of a significand
  MaxExponent,  \* a float is smaller than 2^MaxExponent, or not finite
  MaxU8         \* the greatest difficulty that the type holds

ASSUME FloatAssumption ==
  /\ Precision \in Nat \ {0}
  /\ MaxExponent \in Nat \ {0}
  /\ MaxU8 \in 1..(TwoTo[Precision])

\* Difficulties are small floats, and there is room for amounts up to X and for
\* what the line makes of them.
InRange(X) ==
  /\ 128 * MaxU8 <= TwoTo[Precision]
  /\ MaxU8 * (X + 1) * TwoTo[Precision + 6] <= TwoTo[MaxExponent]

-----------------------------------------------------------------------------
(* Floats.                                                                 *)

\* Infinities and NaN: no comparison that the code makes is true of them.
NotFinite == [sig |-> 0, exp |-> MaxExponent]

IsFinite(f) == f # NotFinite

Abs(n) == IF n < 0 THEN -n ELSE n

Bits(n) == CHOOSE k \in 0..Abs(n) : Abs(n) < TwoTo[k] /\ (k = 0 \/ TwoTo[k - 1] <= Abs(n))

Float(n, e) ==
  IF n = 0 THEN [sig |-> 0, exp |-> 0]
  ELSE IF Bits(n) + e > MaxExponent THEN NotFinite ELSE [sig |-> n, exp |-> e]

\* n * 2^e to the nearest float.
Round(n, e) ==
  LET excess == Bits(n) - Precision
      kept == Abs(n) \div TwoTo[excess]
      twice == 2 * (Abs(n) % TwoTo[excess])
      up == twice > TwoTo[excess] \/ (twice = TwoTo[excess] /\ kept % 2 = 1)
      sig == IF up THEN kept + 1 ELSE kept
  IN  IF excess <= 0 THEN Float(n, e)
      ELSE Float(IF n < 0 THEN -sig ELSE sig, e + excess)

FromInt(n) == Round(n, 0)

Lower(a, b) == IF a.exp < b.exp THEN a.exp ELSE b.exp

\* The significand of f when it is written with exponent e.
At(f, e) == f.sig * TwoTo[f.exp - e]

Leq(a, b) ==
  IsFinite(a) /\ IsFinite(b) /\ At(a, Lower(a, b)) <= At(b, Lower(a, b))

Plus(a, b) ==
  IF IsFinite(a) /\ IsFinite(b)
    THEN Round(At(a, Lower(a, b)) + At(b, Lower(a, b)), Lower(a, b))
    ELSE NotFinite

Negate(a) == [a EXCEPT !.sig = -@]

Times(a, b) ==
  IF IsFinite(a) /\ IsFinite(b) THEN Round(a.sig * b.sig, a.exp + b.exp) ELSE NotFinite

\* The quotient to more bits than a float has; the last one says whether
\* anything was left.
Over(a, b) ==
  LET more == Precision + Bits(b.sig) + 1
      shifted == Abs(a.sig) * TwoTo[more]
      quotient == 2 * (shifted \div b.sig) + (IF shifted % b.sig = 0 THEN 0 ELSE 1)
  IN  Round(IF a.sig < 0 THEN -quotient ELSE quotient, a.exp - b.exp - more - 1)

\* f32::round, to the nearest integer and away from zero when there are two,
\* and `as u8`, which saturates.
RoundToInt(f) ==
  LET half == (2 * Abs(f.sig) + TwoTo[-f.exp]) \div TwoTo[1 - f.exp]
      whole == IF f.exp < 0 THEN half ELSE Abs(f.sig) * TwoTo[f.exp]
  IN  IF f.sig < 0 THEN -whole ELSE whole

AsU8(n) == IF n < 0 THEN 0 ELSE IF n > MaxU8 THEN MaxU8 ELSE n

-----------------------------------------------------------------------------
(* DifficultyConfig::new.                                                  *)

LqProduct(per_claim, coeff) == Times(coeff, FromInt(per_claim))

\* f32::EPSILON is the distance of 1 from the next float.
Epsilon == [sig |-> 1, exp |-> 1 - Precision]

\* Mutant: the line is not shifted to the minimum balance.
LineThroughZero(max_diff, min_diff, min_balance, lq) ==
  LET b == FromInt(min_balance)
  IN  [big_m |-> max_diff, m |-> min_diff, b |-> b,
       min_diff_start |-> Plus(b, lq),
       precompute_big_a |-> Over(FromInt(min_diff - max_diff), lq),
       precompute_big_b |-> FromInt(max_diff)]

Line(max_diff, min_diff, min_balance, lq) ==
  LET b == FromInt(min_balance)
      a == Over(FromInt(min_diff - max_diff), lq)
  IN  [big_m |-> max_diff, m |-> min_diff, b |-> b,
       min_diff_start |-> Plus(b, lq),
       precompute_big_a |-> a,
       precompute_big_b |-> Plus(FromInt(max_diff), Negate(Times(a, b)))]

\* The slope, its product with the minimum balance, and the constant.
LineFits(line) ==
  /\ IsFinite(line.precompute_big_a)
  /\ IsFinite(Times(line.precompute_big_a, line.b))
  /\ IsFinite(line.precompute_big_b)

\* A Result: a configuration, or the name of the error.
Err(e) == [error |-> e]
IsOk(result) == "error" \notin DOMAIN result

\* The error, or the configuration, of a layer's settings.
DifficultyConfig(max_diff, min_diff, min_balance, per_claim, coeff) ==
  LET lq == LqProduct(per_claim, coeff)
      line == Line(max_diff, min_diff, min_balance, lq)
  IN  IF max_diff < min_diff THEN Err("MaxDiffMustBeGreaterThanMinDiff")
      ELSE IF per_claim = 0 THEN Err("PerClaimMustBeGreaterThanZero")
      ELSE IF Leq(coeff, FromInt(0))
        THEN Err("DifficultyIncreaseCoefficientMustBeGreaterThanZero")
      ELSE IF ~IsFinite(lq) \/ ~IsFinite(line.min_diff_start) THEN Err("ArithmeticOverflow")
      ELSE IF ~Leq(Epsilon, lq) THEN Err("InvalidCalculation")
      ELSE IF ~LineFits(line) THEN Err("ArithmeticOverflow")
      ELSE line

-----------------------------------------------------------------------------
(* calculate_difficulty.                                                   *)

\* Mutant: the line is not rounded, but cut off by the cast.
CutOff(config, x) ==
  LET y == Plus(Times(config.precompute_big_a, FromInt(x)), config.precompute_big_b)
  IN  IF y.exp < 0 THEN AsU8(y.sig \div TwoTo[-y.exp]) ELSE AsU8(RoundToInt(y))

OnLine(config, x) ==
  AsU8(RoundToInt(Plus(Times(config.precompute_big_a, FromInt(x)), config.precompute_big_b)))

calculate_difficulty(config, x) ==
  IF Leq(config.min_diff_start, FromInt(x)) THEN config.m
  ELSE IF Leq(FromInt(x), config.b) THEN config.big_m
  ELSE OnLine(config, x)

-----------------------------------------------------------------------------
(* The formula of docs/pow.md in exact arithmetic, with max_diff for M.    *)

\* What makes an integer of the coefficient.
Scale(coeff) == IF coeff.exp < 0 THEN TwoTo[-coeff.exp] ELSE 1

Lq(per_claim, coeff) == per_claim * At(coeff, IF coeff.exp < 0 THEN coeff.exp ELSE 0)

\* y * Lq, for y = max(m, min(M, base(x))) with M = max_diff.
Target(max_diff, min_diff, min_balance, per_claim, coeff, x) ==
  LET lq == Lq(per_claim, coeff)
      above == (x - min_balance) * Scale(coeff)
  IN  IF above <= 0 THEN max_diff * lq
      ELSE IF above >= lq THEN min_diff * lq
      ELSE max_diff * lq - (max_diff - min_diff) * above
=============================================================================
