----------------------------- MODULE WalletProofs -----------------------------
(***************************************************************************)
(* Lemmas about the wallet's graph of module L1Wallet, for any             *)
(* transactions and any history of them: the families, the order in which  *)
(* transactions compete, and which of them are canonical.  They hold of    *)
(* every state with the right types; module BatcherProofs uses them.       *)
(***************************************************************************)
EXTENDS L1Wallet, BasicLemmas, FiniteSetTheorems

-----------------------------------------------------------------------------
(* Families                                                                *)

LEMMA SameImages ==
  ASSUME NEW A, NEW F, NEW G, \A u \in A : F[u] = G[u]
  PROVE  UNION {F[u] : u \in A} = UNION {G[u] : u \in A}
OBVIOUS

\* A family is well defined: it only asks for those of smaller numbers.
LEMMA FamilyExists ==
  \E F : F = [t \in Tx |-> {t} \cup (UNION {F[u] : u \in inputs[t] \cap (1..(t - 1))})]
<1> DEFINE Of(F, t) == {t} \cup (UNION {F[u] : u \in inputs[t] \cap (1..(t - 1))})
           S == {n \in Nat : \E F : \A t \in 1..n : F[t] = Of(F, t)}
<1>1. ASSUME NEW F, NEW G, NEW t \in Nat, \A u \in 1..(t - 1) : F[u] = G[u]
      PROVE  Of(F, t) = Of(G, t)
  BY <1>1, SameImages
<1>2. 0 \in S
  OBVIOUS
<1>3. ASSUME NEW n \in S PROVE n + 1 \in S
  <2>1. PICK F : \A t \in 1..n : F[t] = Of(F, t)
    OBVIOUS
  <2> DEFINE G == [t \in 1..(n + 1) |-> IF t = n + 1 THEN Of(F, t) ELSE F[t]]
  <2>2. \A t \in 1..n : G[t] = F[t]
    OBVIOUS
  <2>3. G[n + 1] = Of(F, n + 1)
    OBVIOUS
  <2>4. ASSUME NEW t \in 1..(n + 1) PROVE G[t] = Of(G, t)
    <3> HIDE DEF G
    <3>1. t \in Nat /\ \A u \in 1..(t - 1) : F[u] = G[u]
      BY <2>2
    <3>2. Of(F, t) = Of(G, t)
      BY <1>1, <3>1
    <3>3. t = n + 1 \/ t \in 1..n
      OBVIOUS
    <3>4. G[t] = Of(F, t)
      <4> HIDE DEF Of
      <4> QED BY <2>1, <2>2, <2>3, <3>3
    <3> QED BY <3>2, <3>4
  <2>5. \E H : \A t \in 1..(n + 1) : H[t] = Of(H, t)
    <3> HIDE DEF G, Of
    <3> QED BY <2>4
  <2> QED BY <2>5
<1>4. MaxTx \in S
  <2> HIDE DEF S
  <2>1. S \in SUBSET Nat
    BY DEF S
  <2> QED BY <1>2, <1>3, <2>1, SetInduction, BoundsAssumption
<1>5. PICK F : \A t \in 1..MaxTx : F[t] = Of(F, t)
  BY <1>4
<1> DEFINE G == [t \in Tx |-> F[t]]
<1>6. ASSUME NEW t \in Tx PROVE F[t] = Of(G, t)
  <2>1. t \in Nat /\ \A u \in 1..(t - 1) : u \in Tx
    BY BoundsAssumption DEF Tx
  <2>2. \A u \in 1..(t - 1) : F[u] = G[u]
    BY <2>1
  <2>3. Of(F, t) = Of(G, t)
    <3> HIDE DEF G
    <3> QED BY <1>1, <2>1, <2>2
  <2> QED BY <1>5, <2>3 DEF Tx
<1>7. G = [t \in Tx |-> Of(G, t)]
  <2> HIDE DEF Of
  <2> QED BY <1>6
<1> QED BY <1>7

LEMMA FamilyOf ==
  \A t \in Tx : Family[t] = {t} \cup (UNION {Family[u] : u \in inputs[t] \cap (1..(t - 1))})
<1> DEFINE Is(F) == F = [x \in Tx |-> {x} \cup (UNION {F[u] : u \in inputs[x] \cap (1..(x - 1))})]
<1>1. \E F : Is(F)
  BY FamilyExists
<1>2. Family = CHOOSE F : Is(F)
  BY Zenon DEF Family
<1>3. Is(Family)
  <2> HIDE DEF Is
  <2> QED BY <1>1, <1>2, Zenon
<1> QED BY <1>3

FamilyEquation ==
  \A t \in Tx : Family[t] = {t} \cup (UNION {Family[u] : u \in inputs[t] \cap (1..(t - 1))})

LEMMA FamilyOfNext == FamilyEquation'
<1>1. FamilyEquation
  BY FamilyOf DEF FamilyEquation
<1> QED BY <1>1, PTL

\* A family consists of its own transaction and of earlier ones, and contains
\* the families of its members.
LEMMA FamilyMembers == \A t \in Tx : t \in Family[t] /\ Family[t] \subseteq 1..t
<1> DEFINE S == {n \in Nat : \A t \in Tx : t <= n => Family[t] \subseteq 1..t}
<1>1. 0 \in S
  BY BoundsAssumption DEF Tx
<1>2. ASSUME NEW n \in S PROVE n + 1 \in S
  <2> SUFFICES ASSUME NEW t \in Tx, t <= n + 1 PROVE Family[t] \subseteq 1..t
    OBVIOUS
  <2>1. t \in Nat \ {0}
    BY BoundsAssumption DEF Tx
  <2>2. ASSUME NEW u \in inputs[t] \cap (1..(t - 1)) PROVE Family[u] \subseteq 1..t
    <3>1. u \in Tx /\ u <= n /\ u < t
      BY <2>1, BoundsAssumption DEF Tx
    <3>2. Family[u] \subseteq 1..u
      BY <3>1
    <3>3. 1..u \subseteq 1..t
      BY <2>1, <3>1
    <3> QED BY <3>2, <3>3
  <2>3. t \in 1..t
    BY <2>1
  <2> QED BY <2>2, <2>3, FamilyOf
<1>3. S = Nat
  <2>1. S \in SUBSET Nat
    OBVIOUS
  <2> HIDE DEF S
  <2> QED BY <1>1, <1>2, <2>1, SetInduction
<1>4. ASSUME NEW t \in Tx PROVE Family[t] \subseteq 1..t
  <2>1. t \in S /\ t <= t
    BY <1>3, BoundsAssumption DEF Tx
  <2> QED BY <2>1
<1> QED BY <1>4, FamilyOf

LEMMA FamilyInTx == \A t \in Tx : Family[t] \subseteq Tx
<1> SUFFICES ASSUME NEW t \in Tx PROVE 1..t \subseteq Tx
  BY FamilyMembers
<1> QED BY BoundsAssumption DEF Tx

LEMMA FamilyClosed == \A t \in Tx : \A u \in Family[t] : Family[u] \subseteq Family[t]
<1> DEFINE S == {n \in Nat : \A t \in Tx : t <= n => \A u \in Family[t] : Family[u] \subseteq Family[t]}
<1>1. 0 \in S
  BY BoundsAssumption DEF Tx
<1>2. ASSUME NEW n \in S PROVE n + 1 \in S
  <2> SUFFICES ASSUME NEW t \in Tx, t <= n + 1, NEW u \in Family[t]
               PROVE  Family[u] \subseteq Family[t]
    OBVIOUS
  <2>1. t \in Nat \ {0}
    BY BoundsAssumption DEF Tx
  <2>2. CASE u # t
    <3>1. PICK w \in inputs[t] \cap (1..(t - 1)) : u \in Family[w]
      BY <2>2, FamilyOf
    <3>2. w \in Tx /\ w <= n
      BY <2>1, BoundsAssumption DEF Tx
    <3>3. Family[u] \subseteq Family[w]
      BY <3>1, <3>2
    <3>4. Family[w] \subseteq Family[t]
      BY FamilyOf
    <3> QED BY <3>3, <3>4
  <2> QED BY <2>2
<1>3. S = Nat
  <2>1. S \in SUBSET Nat
    OBVIOUS
  <2> HIDE DEF S
  <2> QED BY <1>1, <1>2, <2>1, SetInduction
<1> QED
  <2> SUFFICES ASSUME NEW t \in Tx PROVE \A u \in Family[t] : Family[u] \subseteq Family[t]
    OBVIOUS
  <2>1. t \in S /\ t <= t
    BY <1>3, BoundsAssumption DEF Tx
  <2> QED BY <2>1

\* The members of a family other than its own transaction are spent from.
LEMMA FamilySpent ==
  \A t \in Tx : \A x \in Family[t] : x = t \/ \E w \in Tx : x \in inputs[w]
<1> DEFINE Spent(x) == \E w \in Tx : x \in inputs[w]
           S == {n \in Nat : \A t \in Tx : t <= n => \A x \in Family[t] : x = t \/ Spent(x)}
<1>1. 0 \in S
  BY BoundsAssumption DEF Tx
<1>2. ASSUME NEW n \in S PROVE n + 1 \in S
  <2> SUFFICES ASSUME NEW t \in Tx, t <= n + 1, NEW x \in Family[t], x # t
               PROVE  Spent(x)
    OBVIOUS
  <2>1. PICK w \in inputs[t] \cap (1..(t - 1)) : x \in Family[w]
    BY FamilyOf
  <2>2. w \in Tx /\ w <= n
    BY BoundsAssumption DEF Tx
  <2>3. x = w \/ Spent(x)
    BY <2>1, <2>2
  <2> QED BY <2>1, <2>3
<1>3. S = Nat
  <2>1. S \in SUBSET Nat
    OBVIOUS
  <2> HIDE DEF S
  <2> QED BY <1>1, <1>2, <2>1, SetInduction
<1> QED
  <2> SUFFICES ASSUME NEW t \in Tx PROVE \A x \in Family[t] : x = t \/ Spent(x)
    OBVIOUS
  <2>1. t \in S /\ t <= t
    BY <1>3, BoundsAssumption DEF Tx
  <2> QED BY <2>1

\* A step that does not touch what the transactions up to n spend leaves their
\* families alone.
LEMMA FamilySame ==
  ASSUME NEW n \in Nat, \A t \in Tx : t <= n => inputs'[t] = inputs[t]
  PROVE  \A t \in Tx : t <= n => Family'[t] = Family[t]
<1> DEFINE S == {m \in Nat : \A t \in Tx : t <= n /\ t <= m => Family'[t] = Family[t]}
<1>1. 0 \in S
  BY BoundsAssumption DEF Tx
<1>2. ASSUME NEW m \in S PROVE m + 1 \in S
  <2> SUFFICES ASSUME NEW t \in Tx, t <= n, t <= m + 1 PROVE Family'[t] = Family[t]
    OBVIOUS
  <2> DEFINE A == inputs[t] \cap (1..(t - 1))
  <2>1. t \in Nat \ {0}
    BY BoundsAssumption DEF Tx
  <2>2. ASSUME NEW u \in A PROVE Family'[u] = Family[u]
    <3>1. u \in Tx /\ u <= n /\ u <= m
      BY <2>1, BoundsAssumption DEF Tx
    <3> QED BY <3>1
  <2>3. Family[t] = {t} \cup (UNION {Family[u] : u \in A})
    BY FamilyOf
  <2>4. Family'[t] = {t} \cup (UNION {Family'[u] : u \in A})
    BY FamilyOfNext DEF FamilyEquation
  <2>5. UNION {Family'[u] : u \in A} = UNION {Family[u] : u \in A}
    <3> HIDE DEF A
    <3> QED BY <2>2
  <2> QED BY <2>3, <2>4, <2>5
<1>3. S = Nat
  <2>1. S \in SUBSET Nat
    OBVIOUS
  <2> HIDE DEF S
  <2> QED BY <1>1, <1>2, <2>1, SetInduction
<1> QED
  <2> SUFFICES ASSUME NEW t \in Tx, t <= n PROVE Family'[t] = Family[t]
    OBVIOUS
  <2>1. t \in S /\ t <= t
    BY <1>3, BoundsAssumption DEF Tx
  <2> QED BY <2>1

-----------------------------------------------------------------------------
(* The order in which transactions compete                                 *)

\* Of any transactions, there is one that all of them precede.
LEMMA LastExists ==
  last_seen \in [Tx -> Nat] =>
    \A ts \in SUBSET Tx : ts # {} => \E t \in ts : \A u \in ts : Precedes(u, t)
<1> SUFFICES ASSUME last_seen \in [Tx -> Nat], NEW ts \in SUBSET Tx, ts # {}
             PROVE  \E t \in ts : \A u \in ts : Precedes(u, t)
  OBVIOUS
<1> DEFINE worst == IF ts \subseteq anchored THEN ts ELSE ts \ anchored
           times == {last_seen[t] : t \in worst}
<1>1. worst # {} /\ worst \in SUBSET ts
  OBVIOUS
<1>2. times # {} /\ times \in SUBSET Nat
  <2> HIDE DEF worst
  <2> QED BY <1>1
<1>3. PICK time \in times : \A s \in times : time <= s
  <2> HIDE DEF times
  <2> QED BY <1>2, LeastElement
<1> DEFINE latest == {t \in worst : last_seen[t] = time}
<1>4. latest # {} /\ latest \in SUBSET Nat
  <2>1. \E t \in worst : last_seen[t] = time
    OBVIOUS
  <2>2. worst \in SUBSET Nat
    <3>1. Tx \subseteq Nat
      BY BoundsAssumption DEF Tx
    <3> QED BY <1>1, <3>1
  <2> HIDE DEF worst, times
  <2> QED BY <2>1, <2>2
<1>5. PICK t \in latest : \A u \in latest : t <= u
  <2> HIDE DEF latest
  <2> QED BY <1>4, LeastElement
<1>6. ASSUME NEW u \in ts PROVE Precedes(u, t)
  <2>1. CASE u \notin worst
    <3>1. u \in anchored /\ t \notin anchored
      BY <2>1
    <3> QED BY <3>1 DEF Precedes
  <2>2. CASE u \in worst
    <3>1. u \in anchored <=> t \in anchored
      BY <2>2
    <3>2. last_seen[t] = time /\ last_seen[u] \in Nat /\ last_seen[t] \in Nat
            /\ last_seen[t] <= last_seen[u]
      BY <1>3, <2>2
    <3>3. last_seen[u] = last_seen[t] => u >= t
      <4>1. last_seen[u] = last_seen[t] => u \in latest
        BY <2>2
      <4>2. u \in Nat /\ t \in Nat
        BY BoundsAssumption DEF Tx
      <4> QED BY <1>5, <4>1, <4>2
    <3>4. last_seen[u] > last_seen[t] \/ last_seen[u] = last_seen[t]
      BY <3>2
    <3> HIDE DEF worst, latest, times
    <3> QED BY <3>1, <3>3, <3>4 DEF Precedes
  <2> QED BY <2>1, <2>2
<1>7. t \in ts
  BY <1>1
<1> QED BY <1>6, <1>7

LastOf(ts) == CHOOSE t \in ts : \A u \in ts : Precedes(u, t)

LEMMA LastOfIs ==
  last_seen \in [Tx -> Nat] =>
    \A ts \in SUBSET Tx : ts # {} => LastOf(ts) \in ts /\ \A u \in ts : Precedes(u, LastOf(ts))
BY LastExists DEF LastOf

LEMMA Removal ==
  ASSUME NEW ts \in SUBSET Tx, NEW t \in ts
  PROVE  /\ IsFiniteSet(ts) /\ Cardinality(ts) \in Nat /\ Cardinality(ts) # 0
         /\ Cardinality(ts \ {t}) = Cardinality(ts) - 1
<1>1. IsFiniteSet(ts)
  <2>1. IsFiniteSet(Tx)
    BY FS_Interval, BoundsAssumption DEF Tx
  <2> QED BY <2>1, FS_Subset
<1> QED BY <1>1, FS_CardinalityType, FS_EmptySet, FS_RemoveElement

\* Induction over the transactions that compete, from the first in the order.
LEMMA OrderInduction ==
  last_seen \in [Tx -> Nat] =>
    \A Good \in SUBSET SUBSET Tx :
      /\ {} \in Good
      /\ \A ts \in SUBSET Tx : ts # {} /\ ts \ {LastOf(ts)} \in Good => ts \in Good
      => Good = SUBSET Tx
<1> SUFFICES ASSUME last_seen \in [Tx -> Nat], NEW Good \in SUBSET SUBSET Tx, {} \in Good,
                    \A ts \in SUBSET Tx : ts # {} /\ ts \ {LastOf(ts)} \in Good => ts \in Good
             PROVE  Good = SUBSET Tx
  OBVIOUS
<1> DEFINE S == {n \in Nat : \A ts \in SUBSET Tx : Cardinality(ts) <= n => ts \in Good}
<1>1. 0 \in S
  <2> SUFFICES ASSUME NEW ts \in SUBSET Tx, Cardinality(ts) <= 0 PROVE ts = {}
    OBVIOUS
  <2>1. ASSUME NEW t \in ts PROVE FALSE
    <3>1. /\ Cardinality(ts) \in Nat /\ Cardinality(ts) # 0
          /\ Cardinality(ts \ {t}) = Cardinality(ts) - 1
      BY Removal
    <3> QED BY <3>1
  <2> QED BY <2>1
<1>2. ASSUME NEW n \in S PROVE n + 1 \in S
  <2> SUFFICES ASSUME NEW ts \in SUBSET Tx, Cardinality(ts) <= n + 1 PROVE ts \in Good
    OBVIOUS
  <2> SUFFICES ASSUME ts # {} PROVE ts \in Good
    OBVIOUS
  <2>1. LastOf(ts) \in ts
    BY LastOfIs
  <2>2. Cardinality(ts) \in Nat /\ Cardinality(ts \ {LastOf(ts)}) = Cardinality(ts) - 1
    BY <2>1, Removal
  <2>3. Cardinality(ts \ {LastOf(ts)}) <= n /\ ts \ {LastOf(ts)} \in SUBSET Tx
    BY <2>2
  <2> QED BY <2>3
<1>3. S = Nat
  <2>1. S \in SUBSET Nat
    OBVIOUS
  <2> HIDE DEF S
  <2> QED BY <1>1, <1>2, <2>1, SetInduction
<1>4. ASSUME NEW ts \in SUBSET Tx PROVE ts \in Good
  <2>1. CASE ts # {}
    <3>1. PICK t \in ts : TRUE
      BY <2>1
    <3>2. Cardinality(ts) \in Nat
      BY <3>1, Removal
    <3>3. Cardinality(ts) \in S /\ Cardinality(ts) <= Cardinality(ts)
      BY <1>3, <3>2
    <3> QED BY <3>3
  <2> QED BY <2>1
<1> QED BY <1>4

-----------------------------------------------------------------------------
(* Canonical transactions                                                  *)

\* What becomes canonical with ts, if earlier has with the rest of ts.
With(ts, earlier) ==
  IF ConflictsWith(Family[LastOf(ts)], earlier) THEN earlier
  ELSE earlier \cup Family[LastOf(ts)]

CanonicalStep(F, ts) == IF ts = {} THEN {} ELSE With(ts, F[ts \ {LastOf(ts)}])

LEMMA CanonicalExists ==
  last_seen \in [Tx -> Nat] => \E F : F = [ts \in SUBSET Tx |-> CanonicalStep(F, ts)]
<1> SUFFICES ASSUME last_seen \in [Tx -> Nat]
             PROVE  \E F : F = [ts \in SUBSET Tx |-> CanonicalStep(F, ts)]
  OBVIOUS
<1> DEFINE Upto(n) == {ts \in SUBSET Tx : Cardinality(ts) <= n}
           S == {n \in Nat : \E F : \A ts \in Upto(n) : F[ts] = CanonicalStep(F, ts)}
<1>1. ASSUME NEW ts \in SUBSET Tx, NEW n \in Nat, ts # {}, Cardinality(ts) <= n + 1
      PROVE  ts \ {LastOf(ts)} \in Upto(n)
  <2>1. LastOf(ts) \in ts
    BY <1>1, LastOfIs
  <2>2. Cardinality(ts) \in Nat /\ Cardinality(ts \ {LastOf(ts)}) = Cardinality(ts) - 1
    BY <2>1, Removal
  <2>3. Cardinality(ts \ {LastOf(ts)}) <= n /\ ts \ {LastOf(ts)} \in SUBSET Tx
    BY <1>1, <2>2
  <2> QED BY <2>3
<1>2. 0 \in S
  <2> DEFINE F == [ts \in SUBSET Tx |-> {}]
  <2>1. ASSUME NEW ts \in Upto(0) PROVE F[ts] = CanonicalStep(F, ts)
    <3>1. ASSUME NEW t \in ts PROVE FALSE
      <4>1. Cardinality(ts) \in Nat /\ Cardinality(ts) # 0
        BY Removal
      <4> QED BY <4>1
    <3>2. ts = {}
      BY <3>1
    <3> QED BY <3>2 DEF CanonicalStep
  <2> HIDE DEF F, Upto
  <2> QED BY <2>1
<1>3. ASSUME NEW n \in S PROVE n + 1 \in S
  <2>1. PICK F : \A ts \in Upto(n) : F[ts] = CanonicalStep(F, ts)
    OBVIOUS
  <2> DEFINE G == [ts \in SUBSET Tx |-> IF ts \in Upto(n) THEN F[ts] ELSE CanonicalStep(F, ts)]
  <2>2. ASSUME NEW ts \in Upto(n + 1) PROVE G[ts] = CanonicalStep(G, ts)
    <3>1. ts \in SUBSET Tx /\ Cardinality(ts) <= n + 1
      OBVIOUS
    <3>2. ts # {} => G[ts \ {LastOf(ts)}] = F[ts \ {LastOf(ts)}]
      <4>1. ts # {} => ts \ {LastOf(ts)} \in Upto(n) /\ ts \ {LastOf(ts)} \in SUBSET Tx
        BY <1>1, <3>1
      <4> HIDE DEF Upto
      <4> QED BY <4>1
    <3>3. CanonicalStep(F, ts) = CanonicalStep(G, ts)
      <4> HIDE DEF G
      <4> QED BY <3>2 DEF CanonicalStep
    <3>4. G[ts] = CanonicalStep(F, ts)
      <4> HIDE DEF Upto
      <4> QED BY <2>1, <3>1
    <3> QED BY <3>3, <3>4
  <2>3. \E H : \A ts \in Upto(n + 1) : H[ts] = CanonicalStep(H, ts)
    <3> HIDE DEF G, Upto
    <3> QED BY <2>2
  <2> QED BY <2>3
<1>4. MaxTx \in S
  <2> HIDE DEF S
  <2>1. S \in SUBSET Nat
    BY DEF S
  <2> QED BY <1>2, <1>3, <2>1, SetInduction, BoundsAssumption
<1>5. PICK F : \A ts \in Upto(MaxTx) : F[ts] = CanonicalStep(F, ts)
  BY <1>4
<1>6. ASSUME NEW ts \in SUBSET Tx PROVE ts \in Upto(MaxTx)
  <2>1. IsFiniteSet(Tx) /\ Cardinality(Tx) = MaxTx
    BY FS_Interval, BoundsAssumption DEF Tx
  <2>2. Cardinality(ts) <= Cardinality(Tx)
    BY <2>1, FS_Subset
  <2> QED BY <2>1, <2>2
<1> DEFINE G == [ts \in SUBSET Tx |-> F[ts]]
<1>7. ASSUME NEW ts \in SUBSET Tx PROVE F[ts] = CanonicalStep(G, ts)
  <2>1. G[ts \ {LastOf(ts)}] = F[ts \ {LastOf(ts)}]
    OBVIOUS
  <2>2. CanonicalStep(F, ts) = CanonicalStep(G, ts)
    <3> HIDE DEF G
    <3> QED BY <2>1 DEF CanonicalStep
  <2> HIDE DEF G, Upto
  <2> QED BY <1>5, <1>6, <2>2
<1>8. G = [ts \in SUBSET Tx |-> CanonicalStep(G, ts)]
  <2>1. \A ts \in SUBSET Tx : F[ts] = CanonicalStep(G, ts)
    BY <1>7
  <2> QED BY <2>1
<1> QED BY <1>8

LEMMA CanonicalOfIs ==
  last_seen \in [Tx -> Nat] =>
    \A ts \in SUBSET Tx : CanonicalOf[ts] = CanonicalStep(CanonicalOf, ts)
<1> SUFFICES ASSUME last_seen \in [Tx -> Nat]
             PROVE  \A ts \in SUBSET Tx : CanonicalOf[ts] = CanonicalStep(CanonicalOf, ts)
  OBVIOUS
<1> DEFINE Is(F) == F = [ts \in SUBSET Tx |-> CanonicalStep(F, ts)]
<1>1. \E F : Is(F)
  BY CanonicalExists
<1>2. CanonicalOf = CHOOSE F : Is(F)
  BY Zenon DEF CanonicalOf, CanonicalStep, With, LastOf
<1>3. Is(CanonicalOf)
  <2> HIDE DEF Is
  <2> QED BY <1>1, <1>2, Zenon
<1> QED BY <1>3

\* What competing leads to: whole families of the competitors, free of conflicts
\* if each family is, without only those that conflict with one that comes first.
CanonicalOK(ts) ==
  /\ CanonicalOf[ts] \subseteq Tx
  /\ \A x \in CanonicalOf[ts] :
       \E v \in ts : x \in Family[v] /\ Family[v] \subseteq CanonicalOf[ts]
  /\ (\A v \in Tx : ~ConflictsWith(Family[v], Family[v])) =>
       ~ConflictsWith(CanonicalOf[ts], CanonicalOf[ts])
  /\ \A t \in ts :
       \/ Family[t] \subseteq CanonicalOf[ts]
       \/ \E v \in ts : /\ Precedes(v, t) /\ Family[v] \subseteq CanonicalOf[ts]
                        /\ ConflictsWith(Family[t], Family[v])

LEMMA CompetitionStep ==
  last_seen \in [Tx -> Nat] =>
    \A ts \in SUBSET Tx : ts # {} /\ CanonicalOK(ts \ {LastOf(ts)}) => CanonicalOK(ts)
<1> SUFFICES ASSUME last_seen \in [Tx -> Nat], NEW ts \in SUBSET Tx, ts # {},
                    CanonicalOK(ts \ {LastOf(ts)})
             PROVE  CanonicalOK(ts)
  OBVIOUS
<1> DEFINE last == LastOf(ts)
           rest == ts \ {last}
           earlier == CanonicalOf[rest]
           c == CanonicalOf[ts]
<1>1. last \in ts /\ \A u \in ts : Precedes(u, last)
  BY LastOfIs
<1>2. last \in Tx /\ Family[last] \subseteq Tx
  BY <1>1, FamilyInTx
<1>3. /\ earlier \subseteq Tx
      /\ \A x \in earlier : \E v \in rest : x \in Family[v] /\ Family[v] \subseteq earlier
      /\ (\A v \in Tx : ~ConflictsWith(Family[v], Family[v])) => ~ConflictsWith(earlier, earlier)
      /\ \A t \in rest :
           \/ Family[t] \subseteq earlier
           \/ \E v \in rest : /\ Precedes(v, t) /\ Family[v] \subseteq earlier
                              /\ ConflictsWith(Family[t], Family[v])
  BY DEF CanonicalOK
<1>4. c = IF ConflictsWith(Family[last], earlier) THEN earlier ELSE earlier \cup Family[last]
  BY CanonicalOfIs DEF CanonicalStep, With
<1>5. \A x, y : Conflict(x, y) => Conflict(y, x)
  BY DEF Conflict
<1> HIDE DEF last, rest, earlier, c
<1>6. c \subseteq Tx /\ earlier \subseteq c
  BY <1>2, <1>3, <1>4
<1>7. rest \subseteq ts /\ ts = rest \cup {last}
  BY <1>1 DEF rest
<1>8. ASSUME NEW x \in c
      PROVE  \E v \in ts : x \in Family[v] /\ Family[v] \subseteq c
  <2>1. CASE x \in earlier
    <3>1. PICK v \in rest : x \in Family[v] /\ Family[v] \subseteq earlier
      BY <1>3, <2>1
    <3> QED BY <1>6, <1>7, <3>1
  <2>2. CASE x \notin earlier
    <3>1. x \in Family[last] /\ Family[last] \subseteq c
      BY <1>4, <2>2
    <3> QED BY <1>1, <3>1
  <2> QED BY <2>1, <2>2
<1>9. ASSUME \A v \in Tx : ~ConflictsWith(Family[v], Family[v]) PROVE ~ConflictsWith(c, c)
  <2>1. ~ConflictsWith(earlier, earlier) /\ ~ConflictsWith(Family[last], Family[last])
    BY <1>2, <1>3, <1>9
  <2>2. CASE ~ConflictsWith(Family[last], earlier)
    <3>1. c = earlier \cup Family[last]
      BY <1>4, <2>2
    <3> QED BY <1>5, <2>1, <2>2, <3>1 DEF ConflictsWith
  <2> QED BY <1>4, <2>1, <2>2
<1>10. ASSUME NEW t \in ts
       PROVE  \/ Family[t] \subseteq c
              \/ \E v \in ts : /\ Precedes(v, t) /\ Family[v] \subseteq c
                               /\ ConflictsWith(Family[t], Family[v])
  <2>1. CASE t \in rest
    BY <1>3, <1>6, <1>7, <2>1
  <2>2. CASE t = last /\ ConflictsWith(Family[last], earlier)
    <3>1. PICK x \in Family[t], y \in earlier : Conflict(x, y)
      BY <2>2 DEF ConflictsWith
    <3>2. PICK v \in rest : y \in Family[v] /\ Family[v] \subseteq earlier
      BY <1>3
    <3>3. v \in ts /\ Precedes(v, t) /\ Family[v] \subseteq c
      BY <1>1, <1>6, <1>7, <2>2, <3>2
    <3>4. ConflictsWith(Family[t], Family[v])
      BY <3>1, <3>2 DEF ConflictsWith
    <3> QED BY <3>3, <3>4
  <2>3. CASE t = last /\ ~ConflictsWith(Family[last], earlier)
    BY <1>4, <2>3
  <2> QED BY <1>7, <2>1, <2>2, <2>3
<1> QED BY <1>6, <1>8, <1>9, <1>10 DEF CanonicalOK, c

LEMMA Competition == last_seen \in [Tx -> Nat] => \A ts \in SUBSET Tx : CanonicalOK(ts)
<1> SUFFICES ASSUME last_seen \in [Tx -> Nat] PROVE \A ts \in SUBSET Tx : CanonicalOK(ts)
  OBVIOUS
<1> DEFINE Good == {ts \in SUBSET Tx : CanonicalOK(ts)}
<1>1. {} \in Good
  <2>1. CanonicalOf[{}] = {}
    BY CanonicalOfIs DEF CanonicalStep
  <2> QED BY <2>1 DEF CanonicalOK, ConflictsWith
<1>2. ASSUME NEW ts \in SUBSET Tx, ts # {}, ts \ {LastOf(ts)} \in Good PROVE ts \in Good
  BY <1>2, CompetitionStep
<1>3. Good = SUBSET Tx
  <2>1. Good \in SUBSET SUBSET Tx
    OBVIOUS
  <2> HIDE DEF Good
  <2> QED BY <1>1, <1>2, <2>1, OrderInduction
<1> QED BY <1>3

-----------------------------------------------------------------------------
(* The wallet's canonical transactions                                     *)

\* Whole families, free of conflicts if each family is, without only those parts
\* of the graph that conflict with one that comes first.
CanonicalFacts ==
  /\ Canonical \subseteq Tx
  /\ \A x \in Canonical :
       Family[x] \subseteq Canonical /\ \E v \in InGraph : x \in Family[v]
  /\ (\A v \in Tx : ~ConflictsWith(Family[v], Family[v])) =>
       ~ConflictsWith(Canonical, Canonical)
  /\ \A t \in InGraph :
       \/ t \in Canonical
       \/ \E v \in InGraph \cap Canonical :
            Precedes(v, t) /\ ConflictsWith(Family[t], Family[v])

LEMMA CanonicalProperties ==
  last_seen \in [Tx -> Nat] /\ anchored \subseteq Tx => CanonicalFacts
<1> SUFFICES ASSUME last_seen \in [Tx -> Nat], anchored \subseteq Tx PROVE CanonicalFacts
  OBVIOUS
<1>1. InGraph \in SUBSET Tx
  BY DEF InGraph
<1>2. CanonicalOK(InGraph)
  BY <1>1, Competition
<1>3. Canonical = CanonicalOf[InGraph]
  BY <1>2 DEF CanonicalOK, Canonical
<1>4. ASSUME NEW x \in Canonical
      PROVE  Family[x] \subseteq Canonical /\ \E v \in InGraph : x \in Family[v]
  <2>1. PICK v \in InGraph : x \in Family[v] /\ Family[v] \subseteq Canonical
    BY <1>2, <1>3 DEF CanonicalOK
  <2>2. Family[x] \subseteq Family[v]
    BY <1>1, <2>1, FamilyClosed
  <2> QED BY <2>1, <2>2
<1>5. \A t \in InGraph : t \in Family[t]
  BY <1>1, FamilyMembers
<1> QED BY <1>2, <1>3, <1>4, <1>5 DEF CanonicalOK, CanonicalFacts

LEMMA CanonicalPropertiesNext ==
  (last_seen \in [Tx -> Nat] /\ anchored \subseteq Tx => CanonicalFacts)'
BY CanonicalProperties, PTL

=============================================================================
