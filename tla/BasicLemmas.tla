------------------------------ MODULE BasicLemmas ------------------------------
(***************************************************************************)
(* Lemmas about sequences from which a part is removed, and about two      *)
(* sequences that are read as one: the batcher's queue, and its channel    *)
(* behind it; induction over the natural numbers, with a set of numbers    *)
(* for the predicate; and the powers of two.                               *)
(***************************************************************************)
EXTENDS PowersOfTwo, SequenceTheorems, WellFoundedInduction, TLAPS

\* The sequence s without its elements from position i up to, not including, j.
Removed(s, i, j) == SubSeq(s, 1, i - 1) \o SubSeq(s, j, Len(s))

\* What is left, position by position.
LEMMA RemovedProperties ==
  ASSUME NEW S, NEW s \in Seq(S),
         NEW i \in 1..(Len(s) + 1), NEW j \in 1..(Len(s) + 1), i < j
  PROVE  /\ Removed(s, i, j) \in Seq(S)
         /\ Len(Removed(s, i, j)) = Len(s) - (j - i)
         /\ \A k \in 1..Len(Removed(s, i, j)) :
              Removed(s, i, j)[k] = s[IF k < i THEN k ELSE k + (j - i)]
<1> DEFINE w == Removed(s, i, j)
           a == SubSeq(s, 1, i - 1)
           b == SubSeq(s, j, Len(s))
<1>1. Len(s) \in Nat
  BY LenProperties
<1>2. a \in Seq(S) /\ Len(a) = i - 1 /\ \A k \in 1..(i - 1) : a[k] = s[k]
  BY <1>1, SubSeqProperties
<1>3. b \in Seq(S) /\ Len(b) = Len(s) - j + 1
        /\ \A k \in 1..(Len(s) - j + 1) : b[k] = s[j + k - 1]
  BY <1>1, SubSeqProperties
<1>5. w = a \o b
  BY DEF Removed
<1> HIDE DEF a, b, w
<1>4. /\ a \o b \in Seq(S)
      /\ Len(a \o b) = Len(a) + Len(b)
      /\ \A k \in 1..(Len(a) + Len(b)) :
           (a \o b)[k] = IF k <= Len(a) THEN a[k] ELSE b[k - Len(a)]
  BY <1>2, <1>3, ConcatProperties
<1>6. w \in Seq(S) /\ Len(w) = Len(s) - (j - i)
  <2>1. Len(w) = (i - 1) + (Len(s) - j + 1)
    BY <1>2, <1>3, <1>4, <1>5
  <2>2. i \in Int /\ j \in Int
    BY <1>1
  <2>3. (i - 1) + (Len(s) - j + 1) = Len(s) - (j - i)
    BY <1>1, <2>2
  <2> QED BY <1>4, <1>5, <2>1, <2>3
<1>7. ASSUME NEW k \in 1..Len(w) PROVE w[k] = s[IF k < i THEN k ELSE k + (j - i)]
  <2>1. CASE k < i
    <3>1. w[k] = a[k]
      BY <1>1, <1>2, <1>3, <1>4, <1>5, <2>1
    <3> QED BY <1>1, <1>2, <1>6, <2>1, <3>1
  <2>2. CASE ~(k < i)
    <3>1. w[k] = b[k - (i - 1)]
      <4>1. k \in 1..(Len(a) + Len(b)) /\ ~(k <= Len(a))
        <5>1. i \in Int /\ j \in Int /\ k \in Int
          BY <1>1, <1>6
        <5>2. Len(a) + Len(b) = Len(w) /\ Len(a) = i - 1
          BY <1>2, <1>4, <1>5
        <5>3. k \in 1..(Len(a) + Len(b))
          BY <5>2
        <5> QED BY <2>2, <5>1, <5>2, <5>3
      <4> QED BY <1>2, <1>4, <1>5, <4>1
    <3>2. b[k - (i - 1)] = s[j + (k - (i - 1)) - 1]
      BY <1>1, <1>3, <1>6, <2>2
    <3>3. j + (k - (i - 1)) - 1 = k + (j - i)
      BY <1>1, <1>6
    <3> QED BY <2>2, <3>1, <3>2, <3>3
  <2> QED BY <2>1, <2>2
<1> QED BY <1>6, <1>7 DEF w

\* To remove everything leaves nothing.
LEMMA RemovedAll ==
  ASSUME NEW S, NEW s \in Seq(S)
  PROVE  Removed(s, 1, Len(s) + 1) = <<>>
<1>1. Len(s) \in Nat
  BY LenProperties
<1>2. SubSeq(s, 1, 1 - 1) = <<>> /\ SubSeq(s, Len(s) + 1, Len(s)) = <<>>
  BY <1>1, SubSeqEmpty
<1> QED BY <1>2 DEF Removed

\* To drain the first of two sequences is to drain both, read as one.
LEMMA DrainFirst ==
  ASSUME NEW S, NEW q \in Seq(S), NEW c \in Seq(S), NEW n \in 1..Len(q)
  PROVE  /\ SubSeq(q \o c, 1, n) = SubSeq(q, 1, n)
         /\ SubSeq(q, n + 1, Len(q)) \o c = Removed(q \o c, 1, n + 1)
<1> DEFINE h == q \o c
           rest == SubSeq(q, n + 1, Len(q))
           gone == Removed(h, 1, n + 1)
<1>1. /\ h \in Seq(S) /\ Len(h) = Len(q) + Len(c)
      /\ \A i \in 1..(Len(q) + Len(c)) : h[i] = IF i <= Len(q) THEN q[i] ELSE c[i - Len(q)]
  BY ConcatProperties
<1>2. Len(q) \in Nat /\ Len(c) \in Nat /\ Len(h) \in Nat /\ n \in Nat
  BY <1>1, LenProperties
<1>3. SubSeq(h, 1, n) = SubSeq(q, 1, n)
  BY <1>2, SubSeqOfConcat1
<1>4. /\ rest \in Seq(S) /\ Len(rest) = Len(q) - n
      /\ \A i \in 1..(Len(q) - n) : rest[i] = q[n + i]
  <2>1. \A i \in (n + 1)..Len(q) : q[i] \in S
    BY <1>2, ElementOfSeq
  <2>2. /\ rest \in Seq(S)
        /\ Len(rest) = IF n + 1 <= Len(q) THEN Len(q) - (n + 1) + 1 ELSE 0
        /\ \A i \in 1..(Len(q) - (n + 1) + 1) : rest[i] = q[n + 1 + i - 1]
    <3> HIDE DEF h, gone
    <3> QED BY <1>2, <2>1, SubSeqProperties
  <2> HIDE DEF rest
  <2> QED BY <1>2, <2>2
<1>5. /\ gone \in Seq(S) /\ Len(gone) = Len(h) - n
      /\ \A i \in 1..Len(gone) : gone[i] = h[i + n]
  <2>1. 1 \in 1..(Len(h) + 1) /\ n + 1 \in 1..(Len(h) + 1) /\ 1 < n + 1 /\ (n + 1) - 1 = n
    BY <1>1, <1>2
  <2>2. /\ gone \in Seq(S) /\ Len(gone) = Len(h) - ((n + 1) - 1)
        /\ \A i \in 1..Len(gone) : gone[i] = h[IF i < 1 THEN i ELSE i + ((n + 1) - 1)]
    <3> HIDE DEF h, rest
    <3>1. ASSUME NEW i \in 1..(Len(h) + 1), NEW j \in 1..(Len(h) + 1), i < j
          PROVE  /\ Removed(h, i, j) \in Seq(S)
                 /\ Len(Removed(h, i, j)) = Len(h) - (j - i)
                 /\ \A k \in 1..Len(Removed(h, i, j)) :
                      Removed(h, i, j)[k] = h[IF k < i THEN k ELSE k + (j - i)]
      BY <1>1, <3>1, RemovedProperties
    <3> QED BY <2>1, <3>1
  <2> HIDE DEF gone, h
  <2> QED BY <1>2, <2>1, <2>2
<1> HIDE DEF h, rest, gone
<1>6. /\ rest \o c \in Seq(S) /\ Len(rest \o c) = Len(rest) + Len(c)
      /\ \A i \in 1..(Len(rest) + Len(c)) :
           (rest \o c)[i] = IF i <= Len(rest) THEN rest[i] ELSE c[i - Len(rest)]
  BY <1>4, ConcatProperties
<1>7. Len(rest \o c) = Len(gone)
  BY <1>1, <1>2, <1>4, <1>5, <1>6
<1>8. ASSUME NEW i \in 1..Len(gone) PROVE (rest \o c)[i] = gone[i]
  <2>1. i \in Nat /\ i + n \in 1..(Len(q) + Len(c)) /\ i \in 1..(Len(rest) + Len(c))
    BY <1>1, <1>2, <1>4, <1>5
  <2>2. gone[i] = IF i + n <= Len(q) THEN q[i + n] ELSE c[(i + n) - Len(q)]
    BY <1>1, <1>5, <2>1
  <2>3. (rest \o c)[i] = IF i <= Len(q) - n THEN rest[i] ELSE c[i - (Len(q) - n)]
    BY <1>4, <1>6, <2>1
  <2>4. CASE i + n <= Len(q)
    <3>1. i \in 1..(Len(q) - n) /\ n + i = i + n
      BY <1>2, <2>1, <2>4
    <3> QED BY <1>2, <1>4, <2>2, <2>3, <2>4, <3>1
  <2>5. CASE ~(i + n <= Len(q))
    <3>1. ~(i <= Len(q) - n) /\ i - (Len(q) - n) = (i + n) - Len(q)
      BY <1>2, <2>1, <2>5
    <3> QED BY <2>2, <2>3, <2>5, <3>1
  <2> QED BY <2>4, <2>5
<1>9. rest \o c = gone
  BY <1>5, <1>6, <1>7, <1>8, SeqEqual
<1> QED BY <1>3, <1>9 DEF h, rest, gone

\* To move an element from the second sequence to the first changes nothing.
LEMMA MoveHead ==
  ASSUME NEW S, NEW q \in Seq(S), NEW c \in Seq(S), c # <<>>
  PROVE  Append(q, Head(c)) \o Tail(c) = q \o c
<1>1. Head(c) \in S /\ Tail(c) \in Seq(S) /\ Len(Tail(c)) = Len(c) - 1
        /\ \A i \in 1..Len(Tail(c)) : Tail(c)[i] = c[i + 1]
  BY HeadTailProperties
<1>2. Append(q, Head(c)) = q \o <<Head(c)>>
  BY <1>1, AppendIsConcat
<1>3. <<Head(c)>> \in Seq(S)
  BY <1>1
<1>4. <<Head(c)>> \o Tail(c) = c
  <2>1. Len(c) \in Nat \ {0}
    BY EmptySeq
  <2>2. /\ <<Head(c)>> \o Tail(c) \in Seq(S)
        /\ Len(<<Head(c)>> \o Tail(c)) = 1 + Len(Tail(c))
        /\ \A i \in 1..(1 + Len(Tail(c))) : (<<Head(c)>> \o Tail(c))[i] =
             IF i <= 1 THEN <<Head(c)>>[i] ELSE Tail(c)[i - 1]
    BY <1>1, <1>3, ConcatProperties
  <2>3. \A i \in 1..Len(c) : (<<Head(c)>> \o Tail(c))[i] = c[i]
    BY <1>1, <2>1, <2>2
  <2> QED BY <1>1, <2>1, <2>2, <2>3, SeqEqual
<1> QED BY <1>1, <1>2, <1>3, <1>4, ConcatAssociative

\* To drop the head of the second sequence is to remove what follows the first.
LEMMA DropHead ==
  ASSUME NEW S, NEW q \in Seq(S), NEW c \in Seq(S), c # <<>>
  PROVE  q \o Tail(c) = Removed(q \o c, Len(q) + 1, Len(q) + 2)
<1> DEFINE h == q \o c
           t == Tail(c)
           gone == Removed(h, Len(q) + 1, Len(q) + 2)
<1>1. /\ h \in Seq(S) /\ Len(h) = Len(q) + Len(c)
      /\ \A i \in 1..(Len(q) + Len(c)) : h[i] = IF i <= Len(q) THEN q[i] ELSE c[i - Len(q)]
  BY ConcatProperties
<1>2. Len(q) \in Nat /\ Len(c) \in Nat \ {0}
  BY EmptySeq, LenProperties
<1>3. t \in Seq(S) /\ Len(t) = Len(c) - 1 /\ \A i \in 1..Len(t) : t[i] = c[i + 1]
  BY HeadTailProperties
<1>4. /\ gone \in Seq(S) /\ Len(gone) = Len(h) - 1
      /\ \A i \in 1..Len(gone) : gone[i] = h[IF i < Len(q) + 1 THEN i ELSE i + 1]
  <2>1. /\ Len(q) + 1 \in 1..(Len(h) + 1) /\ Len(q) + 2 \in 1..(Len(h) + 1)
        /\ Len(q) + 1 < Len(q) + 2 /\ (Len(q) + 2) - (Len(q) + 1) = 1
    BY <1>1, <1>2
  <2>2. /\ gone \in Seq(S) /\ Len(gone) = Len(h) - ((Len(q) + 2) - (Len(q) + 1))
        /\ \A i \in 1..Len(gone) : gone[i] =
             h[IF i < Len(q) + 1 THEN i ELSE i + ((Len(q) + 2) - (Len(q) + 1))]
    <3> HIDE DEF h, t
    <3>1. ASSUME NEW i \in 1..(Len(h) + 1), NEW j \in 1..(Len(h) + 1), i < j
          PROVE  /\ Removed(h, i, j) \in Seq(S)
                 /\ Len(Removed(h, i, j)) = Len(h) - (j - i)
                 /\ \A k \in 1..Len(Removed(h, i, j)) :
                      Removed(h, i, j)[k] = h[IF k < i THEN k ELSE k + (j - i)]
      BY <1>1, <3>1, RemovedProperties
    <3> QED BY <2>1, <3>1
  <2> HIDE DEF gone, h
  <2> QED BY <2>1, <2>2
<1> HIDE DEF h, t, gone
<1>5. /\ q \o t \in Seq(S) /\ Len(q \o t) = Len(q) + Len(t)
      /\ \A i \in 1..(Len(q) + Len(t)) :
           (q \o t)[i] = IF i <= Len(q) THEN q[i] ELSE t[i - Len(q)]
  BY <1>3, ConcatProperties
<1>6. Len(q \o t) = Len(gone)
  BY <1>1, <1>2, <1>3, <1>4, <1>5
<1>7. ASSUME NEW i \in 1..Len(gone) PROVE (q \o t)[i] = gone[i]
  <2>1. i \in Nat /\ i \in 1..(Len(q) + Len(t))
    BY <1>1, <1>2, <1>3, <1>4
  <2>2. CASE i <= Len(q)
    <3>1. i \in 1..(Len(q) + Len(c)) /\ i < Len(q) + 1
      BY <1>2, <2>1, <2>2
    <3> QED BY <1>1, <1>4, <1>5, <2>1, <2>2, <3>1
  <2>3. CASE ~(i <= Len(q))
    <3>1. /\ i + 1 \in 1..(Len(q) + Len(c)) /\ ~(i < Len(q) + 1) /\ ~(i + 1 <= Len(q))
          /\ i - Len(q) \in 1..Len(t) /\ (i - Len(q)) + 1 = (i + 1) - Len(q)
      BY <1>1, <1>2, <1>3, <2>1, <2>3
    <3>2. gone[i] = c[(i + 1) - Len(q)]
      BY <1>1, <1>4, <3>1
    <3>3. (q \o t)[i] = c[(i + 1) - Len(q)]
      BY <1>3, <1>5, <2>1, <2>3, <3>1
    <3> QED BY <3>2, <3>3
  <2> QED BY <2>2, <2>3
<1> QED
  <2>1. q \o t = gone
    BY <1>4, <1>5, <1>6, <1>7, SeqEqual
  <2> QED BY <2>1 DEF h, t, gone

-----------------------------------------------------------------------------
(* Natural numbers                                                         *)

LEMMA LeastElement ==
  ASSUME NEW T \in SUBSET Nat, T # {} PROVE \E x \in T : \A y \in T : x <= y
<1> DEFINE R == OpToRel(<, Nat)
<1>1. \A x, y \in Nat : x < y => <<x, y>> \in R
  BY DEF OpToRel
<1>2. IsWellFoundedOn(R, Nat)
  BY NatLessThanWellFounded
<1> HIDE DEF R
<1>3. PICK x \in T : \A y \in T : ~ (<<y, x>> \in R)
  BY <1>2, WFMin
<1>4. \A y \in T : ~ (y < x)
  BY <1>1, <1>3
<1> QED BY <1>4

LEMMA SetInduction ==
  ASSUME NEW S \in SUBSET Nat, 0 \in S, \A n \in S : n + 1 \in S
  PROVE  S = Nat
<1> SUFFICES ASSUME Nat \ S # {} PROVE FALSE
  OBVIOUS
<1>1. PICK x \in Nat \ S : \A y \in Nat \ S : x <= y
  BY LeastElement
<1>2. x # 0 /\ x \in Nat
  OBVIOUS
<1>3. x - 1 \in S
  BY <1>1, <1>2
<1>4. (x - 1) + 1 = x
  BY <1>2
<1> QED BY <1>1, <1>3, <1>4

-----------------------------------------------------------------------------
(* Powers of two                                                           *)

\* What a recursive function says of itself at n, if it is F.
Twice(F, n) == IF n = 0 THEN 1 ELSE 2 * F[n - 1]

LEMMA TwoToUpTo == \A m \in Nat : \E F : \A n \in 0..m : F[n] = Twice(F, n)
<1> DEFINE S == {m \in Nat : \E F : \A n \in 0..m : F[n] = Twice(F, n)}
<1>1. 0 \in S
  <2>1. \A n \in 0..0 : [n2 \in {0} |-> 1][n] = Twice([n2 \in {0} |-> 1], n)
    BY DEF Twice
  <2> QED BY <2>1
<1>2. ASSUME NEW m \in S PROVE m + 1 \in S
  <2>1. PICK F : \A n \in 0..m : F[n] = Twice(F, n)
    OBVIOUS
  <2> DEFINE G == [n \in 0..(m + 1) |-> IF n = m + 1 THEN 2 * F[m] ELSE F[n]]
  <2>2. ASSUME NEW n \in 0..(m + 1) PROVE G[n] = Twice(G, n)
    <3>1. m \in Nat /\ m \in 0..m /\ G[m] = F[m] /\ G[m + 1] = 2 * F[m]
      OBVIOUS
    <3>2. CASE n = m + 1
      <4>1. n # 0 /\ n - 1 = m
        BY <3>1, <3>2
      <4> HIDE DEF G
      <4> QED BY <3>1, <3>2, <4>1 DEF Twice
    <3>3. CASE n \in 0..m
      <4>1. G[n] = F[n] /\ (n # 0 => G[n - 1] = F[n - 1])
        BY <3>1, <3>3
      <4> HIDE DEF G
      <4> QED BY <2>1, <3>3, <4>1 DEF Twice
    <3> QED BY <3>1, <3>2, <3>3
  <2>3. \E H : \A n \in 0..(m + 1) : H[n] = Twice(H, n)
    <3> HIDE DEF G
    <3> QED BY <2>2
  <2> QED BY <2>3
<1>3. S = Nat
  <2>1. S \in SUBSET Nat
    OBVIOUS
  <2> HIDE DEF S
  <2> QED BY <1>1, <1>2, <2>1, SetInduction
<1> QED BY <1>3

LEMMA TwoToUnique ==
  ASSUME NEW F, NEW G, NEW m \in Nat,
         \A n \in 0..m : F[n] = Twice(F, n) /\ G[n] = Twice(G, n)
  PROVE  F[m] = G[m]
<1> DEFINE S == {n \in Nat : n <= m => F[n] = G[n]}
<1>1. 0 \in S
  BY DEF Twice
<1>2. ASSUME NEW n \in S PROVE n + 1 \in S
  <2> SUFFICES ASSUME n + 1 <= m PROVE F[n + 1] = G[n + 1]
    OBVIOUS
  <2>1. n + 1 \in 0..m /\ n + 1 # 0 /\ (n + 1) - 1 = n /\ F[n] = G[n]
    OBVIOUS
  <2> QED BY <2>1 DEF Twice
<1>3. S = Nat
  <2>1. S \in SUBSET Nat
    OBVIOUS
  <2> HIDE DEF S
  <2> QED BY <1>1, <1>2, <2>1, SetInduction
<1> QED BY <1>3

LEMMA TwoToExists == \E F : F = [n \in Nat |-> Twice(F, n)]
<1> DEFINE Upto(F, m) == \A n \in 0..m : F[n] = Twice(F, n)
           G == [n \in Nat |-> (CHOOSE F : Upto(F, n))[n]]
<1>1. ASSUME NEW m \in Nat PROVE G[m] = Twice(G, m)
  <2> DEFINE F == CHOOSE H : Upto(H, m)
  <2>1. Upto(F, m)
    BY TwoToUpTo
  <2>2. G[m] = F[m]
    OBVIOUS
  <2>3. CASE m = 0
    <3> HIDE DEF F, G
    <3> QED BY <2>1, <2>2, <2>3 DEF Twice
  <2>4. CASE m # 0
    <3> DEFINE H == CHOOSE J : Upto(J, m - 1)
    <3>0. m - 1 \in Nat
      BY <2>4
    <3>1. Upto(H, m - 1)
      BY <3>0, TwoToUpTo
    <3>2. G[m - 1] = H[m - 1]
      BY <3>0
    <3>3. \A n \in 0..(m - 1) : n \in 0..m
      OBVIOUS
    <3> HIDE DEF F, G, H
    <3>4. F[m - 1] = H[m - 1]
      BY <2>1, <3>0, <3>1, <3>3, TwoToUnique
    <3>5. F[m] = Twice(F, m)
      BY <2>1
    <3> QED BY <2>2, <2>4, <3>2, <3>4, <3>5 DEF Twice
  <2> QED BY <2>3, <2>4
<1>2. G = [n \in Nat |-> Twice(G, n)]
  <2>1. G = [n \in Nat |-> G[n]]
    OBVIOUS
  <2> HIDE DEF G
  <2> QED BY <1>1, <2>1
<1> QED BY <1>2

LEMMA TwoToIs ==
  /\ TwoTo[0] = 1
  /\ \A n \in Nat \ {0} : TwoTo[n] = 2 * TwoTo[n - 1]
<1> DEFINE Is(F) == F = [n \in Nat |-> IF n = 0 THEN 1 ELSE 2 * F[n - 1]]
<1>1. \E F : Is(F)
  BY TwoToExists DEF Twice
<1>2. TwoTo = CHOOSE F : Is(F)
  BY Zenon DEF TwoTo
<1>3. Is(TwoTo)
  <2> HIDE DEF Is
  <2> QED BY <1>1, <1>2, Zenon
<1> QED BY <1>3

LEMMA TwoToType == \A n \in Nat : TwoTo[n] \in Nat /\ n < TwoTo[n]
<1> DEFINE S == {n \in Nat : TwoTo[n] \in Nat /\ n < TwoTo[n]}
<1>1. 0 \in S
  BY TwoToIs
<1>2. ASSUME NEW n \in S PROVE n + 1 \in S
  <2>1. TwoTo[n + 1] = 2 * TwoTo[n]
    BY TwoToIs
  <2> QED BY <2>1
<1>3. S = Nat
  <2>1. S \in SUBSET Nat
    OBVIOUS
  <2> HIDE DEF S
  <2> QED BY <1>1, <1>2, <2>1, SetInduction
<1> QED BY <1>3

\* An exponent that is a sum.
LEMMA TwoToSum == \A m, n \in Nat : TwoTo[m + n] = TwoTo[m] * TwoTo[n]
<1> SUFFICES ASSUME NEW m \in Nat PROVE \A n \in Nat : TwoTo[m + n] = TwoTo[m] * TwoTo[n]
  OBVIOUS
<1> DEFINE S == {n \in Nat : TwoTo[m + n] = TwoTo[m] * TwoTo[n]}
<1>0. TwoTo[m] \in Nat
  BY TwoToType
<1>1. 0 \in S
  BY <1>0, TwoToIs
<1>2. ASSUME NEW n \in S PROVE n + 1 \in S
  <2>1. TwoTo[n + 1] = 2 * TwoTo[n] /\ TwoTo[n] \in Nat
    BY TwoToIs, TwoToType
  <2>2. TwoTo[m + (n + 1)] = 2 * TwoTo[m + n]
    <3>1. m + (n + 1) \in Nat \ {0} /\ (m + (n + 1)) - 1 = m + n
      OBVIOUS
    <3> QED BY <3>1, TwoToIs
  <2>3. TwoTo[m + n] = TwoTo[m] * TwoTo[n]
    OBVIOUS
  <2>4. 2 * (TwoTo[m] * TwoTo[n]) = TwoTo[m] * (2 * TwoTo[n])
    BY <1>0, <2>1
  <2> QED BY <2>1, <2>2, <2>3, <2>4
<1>3. S = Nat
  <2>1. S \in SUBSET Nat
    OBVIOUS
  <2> HIDE DEF S
  <2> QED BY <1>1, <1>2, <2>1, SetInduction
<1> QED BY <1>3

LEMMA TwoToGrows ==
  \A n \in Nat :
    TwoTo[n] \in Nat \ {0} /\ \A k \in 0..n : TwoTo[k] \in Nat /\ TwoTo[k] <= TwoTo[n]
<1> SUFFICES ASSUME NEW n \in Nat, NEW k \in 0..n
             PROVE  TwoTo[n] \in Nat \ {0} /\ TwoTo[k] \in Nat /\ TwoTo[k] <= TwoTo[n]
  BY TwoToType
<1>1. /\ TwoTo[n] \in Nat /\ n < TwoTo[n] /\ TwoTo[k] \in Nat
      /\ TwoTo[n - k] \in Nat /\ n - k \in Nat /\ n - k < TwoTo[n - k]
  BY TwoToType
<1>2. TwoTo[n] = TwoTo[k] * TwoTo[n - k]
  <2>1. k \in Nat /\ k + (n - k) = n
    OBVIOUS
  <2> QED BY <1>1, <2>1, TwoToSum
<1>3. TwoTo[k] * 1 <= TwoTo[k] * TwoTo[n - k]
  BY <1>1
<1> QED BY <1>1, <1>2, <1>3

\* The greater power is at least twice the smaller one.
LEMMA TwoToStrict ==
  ASSUME NEW m \in Nat, NEW n \in Nat, m < n PROVE 2 * TwoTo[m] <= TwoTo[n]
<1>1. TwoTo[n] = 2 * TwoTo[n - 1] /\ n - 1 \in Nat /\ m \in 0..(n - 1)
  BY TwoToIs
<1>2. TwoTo[m] \in Nat /\ TwoTo[n - 1] \in Nat /\ TwoTo[m] <= TwoTo[n - 1]
  BY <1>1, TwoToGrows
<1> QED BY <1>1, <1>2
=============================================================================
