-------------------------- MODULE PayoutLedgerProofs --------------------------
(***************************************************************************)
(* Proofs about PayoutLedger: whatever is accepted, paid and lost, a       *)
(* request occurs once, at most, in what is held and paid.                 *)
(***************************************************************************)
EXTENDS PayoutLedger, BasicLemmas

-----------------------------------------------------------------------------

\* Losing a part of what is held keeps the rest distinct and unpaid.
LEMMA LoseStep ==
  ASSUME LedgerInv,
         NEW i \in 1..(Len(held) + 1), NEW j \in 1..(Len(held) + 1), i < j,
         held' = Without(i, j)
  PROVE  /\ held' \in Seq(accepted)
         /\ HeldDistinct'
         /\ \A k \in 1..Len(held') : \E m \in 1..Len(held) :
              held'[k] = held[m] /\ (i = 1 => m >= j)
<1> USE DEF LedgerInv, LedgerTypeOK
<1> DEFINE Source(k) == IF k < i THEN k ELSE k + (j - i)
<1>1. Len(held) \in Nat
  BY LenProperties
<1>2. /\ held' \in Seq(accepted)
      /\ Len(held') = Len(held) - (j - i)
      /\ \A k \in 1..Len(held') : held'[k] = held[Source(k)]
  <2>1. held' = Removed(held, i, j)
    BY DEF Without, Removed
  <2>2. held \in Seq(accepted)
    OBVIOUS
  <2>3. /\ Removed(held, i, j) \in Seq(accepted)
        /\ Len(Removed(held, i, j)) = Len(held) - (j - i)
        /\ \A k \in 1..Len(Removed(held, i, j)) :
             Removed(held, i, j)[k] = held[IF k < i THEN k ELSE k + (j - i)]
    <3> HIDE DEF LedgerInv, LedgerTypeOK
    <3> QED BY <2>2, RemovedProperties
  <2> QED BY <2>1, <2>3
<1>3. ASSUME NEW k \in 1..Len(held')
      PROVE  Source(k) \in 1..Len(held) /\ (i = 1 => Source(k) >= j)
  BY <1>1, <1>2
<1>4. ASSUME NEW k \in 1..Len(held'), NEW l \in 1..Len(held'), Source(k) = Source(l)
      PROVE  k = l
  BY <1>1, <1>2, <1>4
<1> HIDE DEF Source
<1>5. HeldDistinct'
  <2> SUFFICES ASSUME NEW k \in 1..Len(held'), NEW l \in 1..Len(held'),
                      held'[k] = held'[l]
               PROVE  k = l
    BY DEF HeldDistinct
  <2>1. held[Source(k)] = held[Source(l)]
    BY <1>2
  <2>2. Source(k) = Source(l)
    BY <1>3, <2>1 DEF HeldDistinct
  <2> QED BY <1>4, <2>2
<1>6. ASSUME NEW k \in 1..Len(held')
      PROVE  \E m \in 1..Len(held) : held'[k] = held[m] /\ (i = 1 => m >= j)
  BY <1>2, <1>3
<1> QED BY <1>2, <1>5, <1>6

\* A request that is taken is neither held nor paid yet.
LEMMA AcceptStep ==
  ASSUME LedgerInv, NEW r \in Request, Accept(r) PROVE LedgerInv'
<1> USE DEF LedgerInv, LedgerTypeOK
<1>1. accepted' \subseteq Request /\ accepted \subseteq accepted'
  BY DEF Accept
<1>2. held \in Seq(accepted') /\ \A t \in 1..Len(paid) : paid[t] \in Seq(accepted)
  BY <1>1, SeqMonotonic, ElementOfSeq
<1>3. paid' \in Seq(Seq(accepted'))
  <2>1. Seq(accepted) \subseteq Seq(accepted')
    BY <1>1, SeqMonotonic
  <2> QED BY <2>1, SeqMonotonic DEF Accept
<1>4. /\ held' \in Seq(accepted')
      /\ Len(held') = Len(held) + 1
      /\ \A k \in 1..Len(held) : held'[k] = held[k]
      /\ held'[Len(held) + 1] = r
  BY <1>2, AppendProperties DEF Accept
<1>5. \A k \in 1..Len(held) : held[k] \in accepted /\ held[k] # r
  BY ElementOfSeq DEF Accept
<1>6. Len(held) \in Nat
  BY LenProperties
<1>7. HeldDistinct'
  BY <1>4, <1>5, <1>6 DEF HeldDistinct
<1>8. PaidDistinct'
  <2>1. paid' = paid
    BY DEF Accept
  <2>2. PaidDistinct
    BY DEF LedgerInv
  <2> QED BY <2>1, <2>2 DEF PaidDistinct
<1>9. PaidNotHeld'
  <2>1. \A t \in 1..Len(paid) : \A k \in 1..Len(paid[t]) : paid[t][k] # r
    BY <1>2, ElementOfSeq DEF Accept
  <2>2. paid' = paid
    BY DEF Accept
  <2> SUFFICES ASSUME NEW t \in 1..Len(paid), NEW i \in 1..Len(paid[t]),
                      NEW j \in 1..Len(held')
               PROVE  paid[t][i] # held'[j]
    BY <2>2, Zenon DEF PaidNotHeld
  <2>3. CASE j \in 1..Len(held)
    <3>1. held'[j] = held[j]
      BY ONLY <1>4, <2>3
    <3> QED BY <2>3, <3>1 DEF PaidNotHeld
  <2>4. CASE j = Len(held) + 1
    BY ONLY <1>4, <2>1, <2>4, j \in 1..Len(held'), t \in 1..Len(paid), i \in 1..Len(paid[t])
  <2>5. j \in 1..Len(held) \/ j = Len(held) + 1
    BY ONLY <1>4, <1>6, j \in 1..Len(held')
  <2> QED BY ONLY <2>3, <2>4, <2>5
<1> QED BY <1>1, <1>3, <1>4, <1>7, <1>8, <1>9

\* What is paid leaves what is held.
LEMMA PayStep ==
  ASSUME LedgerInv, NEW n \in 1..Len(held), Pay(n) PROVE LedgerInv'
<1> USE DEF LedgerInv, LedgerTypeOK
<1>1. Len(held) \in Nat /\ Len(paid) \in Nat
  BY LenProperties
<1>2. /\ held' \in Seq(accepted)
      /\ HeldDistinct'
      /\ \A k \in 1..Len(held') : \E m \in 1..Len(held) : held'[k] = held[m] /\ m >= n + 1
  <2>1. 1 \in 1..(Len(held) + 1) /\ n + 1 \in 1..(Len(held) + 1) /\ 1 < n + 1
    BY <1>1
  <2>2. held' = Without(1, n + 1)
    BY DEF Pay
  <2> QED BY <2>1, <2>2, LoseStep
<1>3. /\ First(n) \in Seq(accepted)
      /\ Len(First(n)) = n
      /\ \A k \in 1..n : First(n)[k] = held[k]
  BY <1>1, SubSeqProperties DEF First
<1>4. /\ paid' \in Seq(Seq(accepted))
      /\ Len(paid') = Len(paid) + 1
      /\ \A t \in 1..Len(paid) : paid'[t] = paid[t]
      /\ paid'[Len(paid) + 1] = First(n)
  BY <1>3, AppendProperties DEF Pay
<1>5. PaidDistinct'
  <2> SUFFICES ASSUME NEW t \in 1..Len(paid'), NEW u \in 1..Len(paid'),
                      NEW i \in 1..Len(paid'[t]), NEW j \in 1..Len(paid'[u]),
                      paid'[t][i] = paid'[u][j]
               PROVE  t = u /\ i = j
    BY DEF PaidDistinct
  <2>1. t \in 1..Len(paid) \/ t = Len(paid) + 1
    BY <1>1, <1>4
  <2>2. u \in 1..Len(paid) \/ u = Len(paid) + 1
    BY <1>1, <1>4
  <2>3. CASE t \in 1..Len(paid) /\ u \in 1..Len(paid)
    <3>1. paid'[t] = paid[t] /\ paid'[u] = paid[u]
      BY <1>4, <2>3
    <3>2. i \in 1..Len(paid[t]) /\ j \in 1..Len(paid[u]) /\ paid[t][i] = paid[u][j]
      BY <3>1
    <3> QED BY <2>3, <3>2 DEF PaidDistinct
  <2>4. CASE t \in 1..Len(paid) /\ u = Len(paid) + 1
    <3>1. paid[t][i] = held[j] /\ i \in 1..Len(paid[t]) /\ j \in 1..Len(held)
      BY <1>1, <1>3, <1>4, <2>4
    <3> QED BY <2>4, <3>1 DEF PaidNotHeld
  <2>5. CASE t = Len(paid) + 1 /\ u \in 1..Len(paid)
    <3>1. paid[u][j] = held[i] /\ j \in 1..Len(paid[u]) /\ i \in 1..Len(held)
      BY <1>1, <1>3, <1>4, <2>5
    <3> QED BY <2>5, <3>1 DEF PaidNotHeld
  <2>6. CASE t = Len(paid) + 1 /\ u = Len(paid) + 1
    <3>1. held[i] = held[j] /\ i \in 1..Len(held) /\ j \in 1..Len(held)
      BY <1>1, <1>3, <1>4, <2>6
    <3> QED BY <2>6, <3>1 DEF HeldDistinct
  <2> QED BY <2>1, <2>2, <2>3, <2>4, <2>5, <2>6
<1>6. PaidNotHeld'
  <2> SUFFICES ASSUME NEW t \in 1..Len(paid'), NEW i \in 1..Len(paid'[t]),
                      NEW j \in 1..Len(held')
               PROVE  paid'[t][i] # held'[j]
    BY DEF PaidNotHeld
  <2>1. PICK m \in 1..Len(held) : held'[j] = held[m] /\ m >= n + 1
    BY <1>2
  <2>2. CASE t \in 1..Len(paid)
    BY <1>4, <2>1, <2>2 DEF PaidNotHeld
  <2>3. CASE t = Len(paid) + 1
    <3>1. paid'[t][i] = held[i] /\ i \in 1..n /\ i \in 1..Len(held)
      BY <1>1, <1>3, <1>4, <2>3
    <3>2. i # m
      BY <1>1, <2>1, <3>1
    <3> QED BY <2>1, <3>1, <3>2 DEF HeldDistinct
  <2> QED BY <1>1, <1>4, <2>2, <2>3
<1> QED BY <1>2, <1>4, <1>5, <1>6 DEF Pay

\* Initially nothing is held or paid.
LEMMA LedgerInvInit == LedgerInit => LedgerInv
BY EmptySeq DEF LedgerInit, LedgerInv, LedgerTypeOK, HeldDistinct, PaidDistinct, PaidNotHeld

\* Every step of the ledger keeps the requests apart.
THEOREM LedgerInvStep == LedgerInv /\ [LedgerNext]_ledgerVars => LedgerInv'
<1> SUFFICES ASSUME LedgerInv, [LedgerNext]_ledgerVars PROVE LedgerInv'
  OBVIOUS
<1>1. ASSUME NEW r \in Request, Accept(r) PROVE LedgerInv'
  BY <1>1, AcceptStep
<1>2. ASSUME NEW n \in 1..Len(held), Pay(n) PROVE LedgerInv'
  BY <1>2, PayStep
<1>3. ASSUME NEW i \in 1..(Len(held) + 1), NEW j \in 1..(Len(held) + 1),
             i < j, Lose(i, j)
      PROVE  LedgerInv'
  <2>1. held' = Without(i, j) /\ UNCHANGED <<accepted, paid>>
    BY <1>3 DEF Lose
  <2>2. /\ held' \in Seq(accepted)
        /\ HeldDistinct'
        /\ \A k \in 1..Len(held') : \E m \in 1..Len(held) : held'[k] = held[m]
    BY <1>3, <2>1, LoseStep
  <2>3. paid' = paid /\ accepted' = accepted
    BY <2>1
  <2>4. PaidNotHeld'
    BY <2>2, <2>3 DEF LedgerInv, PaidNotHeld
  <2>5. PaidDistinct'
    BY <2>3 DEF LedgerInv, PaidDistinct
  <2>6. LedgerTypeOK'
    BY <2>2, <2>3 DEF LedgerInv, LedgerTypeOK
  <2> QED BY <2>2, <2>4, <2>5, <2>6 DEF LedgerInv
<1>4. CASE UNCHANGED ledgerVars
  BY <1>4 DEF ledgerVars, LedgerInv, LedgerTypeOK, HeldDistinct, PaidDistinct, PaidNotHeld
<1> QED BY <1>1, <1>2, <1>3, <1>4 DEF LedgerNext
=============================================================================
