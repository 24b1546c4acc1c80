----------------------------- MODULE FaucetProofs -----------------------------
(***************************************************************************)
(* Proofs about module Faucet, for any requests, addresses, settings,      *)
(* funds and clock: its types, that nobody is paid more often than it has  *)
(* shown work, that no L2 transaction waits for a nonce that nobody sends, *)
(* how far a balance may fall, and that the JavaScript client counts zeros *)
(* as the server does.                                                     *)
(***************************************************************************)
EXTENDS Faucet, FiniteSetTheorems, BasicLemmas

PayoutProofs == INSTANCE PayoutLedgerProofs

-----------------------------------------------------------------------------
(* The inductive invariant                                                 *)

\* The gate: what is stored belongs to its key, was issued by a get that has told
\* its difficulty, and has not been granted while it is unclaimed.
StoredOK(k) ==
  /\ ledger[k] \in Challenge(k)
  /\ ledger[k].nonce \in issued
  /\ key[ledger[k].nonce] = k
  /\ told[ledger[k].nonce].difficulty = ledger[k].difficulty
  /\ ~ledger[k].claimed => \A g \in granted : g.nonce # ledger[k].nonce

GateInv ==
  /\ now \in 0..MaxTime
  /\ ledger \in [Key -> {NoChallenge} \cup UNION {Challenge(k) : k \in Key}]
  /\ \A k \in Key : ledger[k] # NoChallenge => StoredOK(k)
  /\ issued \subseteq {n \in Request : pc[n] = "told"}
  /\ \A g \in granted :
       /\ g.nonce \in issued /\ g.zeros \in Nat
       /\ told[g.nonce].difficulty <= g.zeros

\* The handlers: how far a request is that has read a balance, that has been told
\* a challenge, that has been accepted by the batcher, or that has reached the node.
StageInv ==
  /\ \A r \in Request : pc[r] = "get" => balance[r] \in 0..Funds[ChainOf(r)]
  /\ \A r \in Request : pc[r] = "told" => told[r] \in Told(ChainOf(r))
  /\ \A r \in accepted : pc[r] = "ok" /\ ChainOf(r) = "L1"
  /\ \A r \in Request : tx[r] # "none" => pc[r] \in {"ok", "error"} /\ ChainOf(r) = "L2"
  /\ \A r \in Request : pc[r] = "send" => ChainOf(r) = "L2"

\* Neither wallet spends what it does not have.
FundsInv ==
  /\ Balance("L1") >= 0
  /\ Balance("L2") >= Settings["L2"].amount_per_claim * Cardinality(Pending)

\* Those at k that have been granted a payout that is not lost yet.
Claimants(k) == {r \in Request : key[r] = k /\ (pc[r] \in {"granted", "send"} \/ r \in Served)}

WorkInv == \A k \in Key : Cardinality(Claimants(k)) <= Cardinality(Redeemed(k))

\* No gap below a transaction that is on the node, or on its way to it.
NonceInv ==
  \A r \in Request : pc[r] = "send" \/ r \in Pending =>
    \A n \in 0..(nonce[r] - 1) : \E q \in OnNode : nonce[q] = n

\* The balance that is left once all that is outstanding has been paid is above
\* the minimum but for the peak.
FloorInv ==
  \A c \in Chain :
    \/ Balance(c) = Funds[c] /\ Outstanding(c) = 0
    \/ /\ Outstanding(c) <= peak[c]
       /\ Balance(c) + Settings[c].amount_per_claim * (peak[c] - Outstanding(c))
            > Settings[c].min_balance

IInv == /\ TypeOK /\ PayoutProofs!LedgerInv /\ GateInv /\ StageInv
        /\ FundsInv /\ WorkInv /\ NonceInv /\ FloorInv

-----------------------------------------------------------------------------
(* The shape of a step                                                     *)

LEMMA KeyType == ASSUME TypeOK, NEW r \in Request PROVE key[r] \in Key /\ ChainOf(r) \in Chain
BY DEF TypeOK, ChainOf, Key, Chain

\* A new challenge.
LEMMA IssueEffect ==
  ASSUME IInv, NEW r \in Request, IssueChallenge(r)
  PROVE  LET k == key[r]
             c == [nonce |-> r, claimed |-> FALSE, expires_at |-> now + Duration[k],
                   difficulty |-> Quotes[ChainOf(r)][balance[r]]]
         IN  /\ ledger[k] = NoChallenge
             /\ ledger' = [ledger EXCEPT ![k] = c]
             /\ r \notin issued /\ issued' = issued \cup {r}
             /\ UNCHANGED <<now, granted>>
             /\ c \in Challenge(k)
             /\ told' = [told EXCEPT ![r] = [nonce |-> r, difficulty |-> c.difficulty]]
<1> DEFINE k == key[r]
           d == Quotes[ChainOf(r)][balance[r]]
           c == [nonce |-> r, claimed |-> FALSE, expires_at |-> now + Duration[k],
                 difficulty |-> d]
<1>1. k \in Key /\ ChainOf(r) \in Chain /\ DOMAIN ledger = Key
  BY KeyType DEF IInv, GateInv
<1>2. ledger[k] = NoChallenge /\ UNCHANGED <<now, granted>>
  BY DEF IssueChallenge, Gate!Issue
<1>3. ledger' = [ledger EXCEPT ![k] = c] /\ ledger'[k] = c
  BY <1>1 DEF IssueChallenge
<1>4. PICK n \in Request \ issued :
        /\ issued' = issued \cup {n}
        /\ \E e \in 0..MaxU8, t \in 0..(now + Duration[k]) :
             ledger' = [ledger EXCEPT ![k] =
               [nonce |-> n, claimed |-> FALSE, expires_at |-> t, difficulty |-> e]]
  BY DEF IssueChallenge, Gate!Issue
<1>5. n = r
  <2>1. PICK e \in 0..MaxU8, t \in 0..(now + Duration[k]) :
          ledger' = [ledger EXCEPT ![k] =
            [nonce |-> n, claimed |-> FALSE, expires_at |-> t, difficulty |-> e]]
    BY <1>4
  <2>2. ledger'[k].nonce = n
    BY <1>1, <2>1
  <2> QED BY <1>3, <2>2
<1>6. d \in Settings[k[2]].min_difficulty..Settings[k[2]].max_difficulty
  BY <1>1, QuoteAssumption
  DEF IInv, StageInv, IssueChallenge, Quotes, Quote, ChainOf
<1>7. now + Duration[k] \in 0..(MaxTime + Duration[k])
  BY <1>1, TimeAssumption DEF IInv, GateInv
<1>8. c \in Challenge(k)
  BY <1>6, <1>7 DEF Challenge
<1>9. told' = [told EXCEPT ![r] = [nonce |-> r, difficulty |-> d]]
  <2>1. told' = [told EXCEPT ![r] =
          [nonce |-> ledger'[k].nonce, difficulty |-> ledger'[k].difficulty]]
    BY DEF IssueChallenge, Answer
  <2>2. ledger'[k].nonce = r /\ ledger'[k].difficulty = d
    BY <1>3
  <2> QED BY <2>1, <2>2
<1> QED BY <1>2, <1>3, <1>4, <1>5, <1>8, <1>9

\* What a handler does that neither draws a challenge nor claims one, and what
\* goes on besides the handlers.
Quiet(r) ==
  \/ ReadBalance(r) \/ L2BalanceFails(r) \/ RefuseGet(r) \/ TellExisting(r)
  \/ RefuseClaim(r) \/ RejectClaim(r) \/ RefuseAddress(r) \/ QueuePayout(r)
  \/ FetchNonce(r) \/ L2Fails(r) \/ SendTransaction(r)

LEMMA QuietEffect ==
  ASSUME TypeOK, NEW r \in Request, Quiet(r)
  PROVE  /\ UNCHANGED <<gateVars, key>>
         /\ pc[r] # "told"
         /\ \A q \in Request : q # r => pc'[q] = pc[q] /\ told'[q] = told[q]
<1> USE DEF TypeOK, Goto
<1>1. CASE TellExisting(r)
  BY <1>1 DEF TellExisting, Answer
<1>2. CASE RejectClaim(r)
  BY <1>2 DEF RejectClaim, Claims, getVars
<1>3. CASE SendTransaction(r)
  BY <1>3 DEF SendTransaction, getVars
<1>4. CASE ReadBalance(r) \/ L2BalanceFails(r) \/ RefuseGet(r) \/ RefuseClaim(r)
  BY <1>4 DEF ReadBalance, L2BalanceFails, RefuseGet, RefuseClaim, getVars
<1>5. CASE RefuseAddress(r) \/ QueuePayout(r) \/ FetchNonce(r) \/ L2Fails(r)
  BY <1>5 DEF RefuseAddress, QueuePayout, FetchNonce, L2Fails, getVars
<1> QED BY <1>1, <1>2, <1>3, <1>4, <1>5 DEF Quiet

-----------------------------------------------------------------------------
(* The gate                                                                *)

LEMMA GateFrame ==
  ASSUME GateInv, UNCHANGED <<gateVars, key>>,
         \A n \in issued : pc'[n] = "told" /\ told'[n] = told[n]
  PROVE  GateInv'
BY DEF GateInv, StoredOK, gateVars, Challenge

\* A claim that finds the challenge unclaimed: it is granted, or burned.
LEMMA ClaimKeepsGate ==
  ASSUME IInv, NEW r \in Request, BurnChallenge(r) \/ GrantClaim(r) PROVE GateInv'
<1> DEFINE k == key[r]
<1>1. k \in Key
  BY KeyType DEF IInv
<1>2. /\ ledger[k] # NoChallenge /\ ~ledger[k].claimed
      /\ ledger' = [ledger EXCEPT ![k].claimed = TRUE]
      /\ UNCHANGED <<now, issued, told, key>>
  BY DEF BurnChallenge, GrantClaim, Gate!Burn, Gate!Grant, Gate!Claim, Gate!Claimable, getVars
<1>3. pc[r] = "new" /\ \A n \in issued : pc'[n] = "told"
  BY DEF BurnChallenge, GrantClaim, Claims, IInv, GateInv, TypeOK, Goto
<1>4. StoredOK(k) /\ ledger[k] \in Challenge(k)
  BY <1>1, <1>2 DEF IInv, GateInv, StoredOK
<1>5. /\ ledger'[k] \in Challenge(k) /\ ledger'[k].claimed
      /\ ledger'[k].nonce = ledger[k].nonce
      /\ ledger'[k].difficulty = ledger[k].difficulty
      /\ \A j \in Key : j # k => ledger'[j] = ledger[j]
  BY <1>1, <1>2, <1>4 DEF Challenge, IInv, GateInv
<1>6. \A g \in granted' :
        \/ g \in granted
        \/ /\ g.nonce = ledger[k].nonce /\ g.zeros \in Nat
           /\ ledger[k].difficulty <= g.zeros
  <2>1. CASE BurnChallenge(r)
    BY <2>1 DEF BurnChallenge, Gate!Burn
  <2>2. CASE GrantClaim(r)
    <3>1. granted' = granted \cup {[nonce |-> ledger[k].nonce, zeros |-> Zeros(r)]}
      BY <2>2 DEF GrantClaim
    <3>2. Zeros(r) >= ledger[k].difficulty
      BY <2>2 DEF GrantClaim
    <3>3. Zeros(r) \in Nat
      <4>1. solution'[r].hash \in Hash
        BY <2>2 DEF GrantClaim, Claims, Submit, IInv, TypeOK
      <4> QED BY <4>1, PowerAssumption DEF Zeros
    <3> QED BY <3>1, <3>2, <3>3
  <2> QED BY <2>1, <2>2
<1>7. \A j \in Key : ledger'[j] # NoChallenge => StoredOK(j)'
  <2> SUFFICES ASSUME NEW j \in Key, ledger'[j] # NoChallenge PROVE StoredOK(j)'
    OBVIOUS
  <2>1. CASE j = k
    BY <1>2, <1>4, <1>5, <2>1 DEF StoredOK, Challenge
  <2>2. CASE j # k
    <3>1. StoredOK(j) /\ ledger'[j] = ledger[j]
      BY <1>5, <2>2 DEF IInv, GateInv
    <3>2. ledger[j].nonce # ledger[k].nonce
      BY <1>4, <2>2, <3>1 DEF StoredOK
    <3> QED BY <1>2, <1>6, <3>1, <3>2 DEF StoredOK, Challenge
  <2> QED BY <2>1, <2>2
<1>8. ledger' \in [Key -> {NoChallenge} \cup UNION {Challenge(j) : j \in Key}]
  BY <1>1, <1>2, <1>5 DEF IInv, GateInv
<1>9. \A g \in granted' :
        g.nonce \in issued' /\ g.zeros \in Nat /\ told'[g.nonce].difficulty <= g.zeros
  BY <1>2, <1>4, <1>6 DEF IInv, GateInv, StoredOK
<1> QED BY <1>2, <1>3, <1>7, <1>8, <1>9 DEF IInv, GateInv, Challenge

LEMMA IssueKeepsGate ==
  ASSUME IInv, NEW r \in Request, IssueChallenge(r) PROVE GateInv'
<1> DEFINE k == key[r]
           c == [nonce |-> r, claimed |-> FALSE, expires_at |-> now + Duration[k],
                 difficulty |-> Quotes[ChainOf(r)][balance[r]]]
<1>1. /\ ledger[k] = NoChallenge
      /\ ledger' = [ledger EXCEPT ![k] = c]
      /\ r \notin issued /\ issued' = issued \cup {r}
      /\ UNCHANGED <<now, granted>>
      /\ c \in Challenge(k)
      /\ told' = [told EXCEPT ![r] = [nonce |-> r, difficulty |-> c.difficulty]]
  BY IssueEffect
<1>2. c.nonce = r /\ ~c.claimed
  OBVIOUS
<1> HIDE DEF c
<1>3. k \in Key
  BY KeyType DEF IInv
<1>4. key' = key /\ pc'[r] = "told" /\ \A q \in Request : q # r => pc'[q] = pc[q]
  BY DEF IssueChallenge, Answer, Goto, IInv, TypeOK
<1>5. told'[r].difficulty = c.difficulty /\ \A q \in Request : q # r => told'[q] = told[q]
  BY <1>1, KeyType DEF IInv, TypeOK
<1>6. ledger'[k] = c /\ \A j \in Key : j # k => ledger'[j] = ledger[j]
  BY <1>1, <1>3 DEF IInv, GateInv
<1>7. \A j \in Key : ledger'[j] # NoChallenge => StoredOK(j)'
  <2> SUFFICES ASSUME NEW j \in Key, ledger'[j] # NoChallenge PROVE StoredOK(j)'
    OBVIOUS
  <2>1. CASE j = k
    <3>1. \A g \in granted : g.nonce # r
      BY <1>1 DEF IInv, GateInv
    <3> QED BY <1>1, <1>2, <1>4, <1>5, <1>6, <2>1, <3>1 DEF StoredOK, Challenge
  <2>2. CASE j # k
    <3>1. StoredOK(j) /\ ledger'[j] = ledger[j]
      BY <1>6, <2>2 DEF IInv, GateInv
    <3>2. ledger[j].nonce \in Request /\ ledger[j].nonce # r
      BY <1>1, <3>1 DEF StoredOK, IInv, GateInv
    <3> QED BY <1>1, <1>4, <1>5, <3>1, <3>2 DEF StoredOK, Challenge
  <2> QED BY <2>1, <2>2
<1>8. ledger' \in [Key -> {NoChallenge} \cup UNION {Challenge(j) : j \in Key}]
  BY <1>1, <1>3 DEF IInv, GateInv
<1>9. \A g \in granted' :
        g.nonce \in issued' /\ g.zeros \in Nat /\ told'[g.nonce].difficulty <= g.zeros
  BY <1>1, <1>5 DEF IInv, GateInv
<1>10. issued' \subseteq {n \in Request : pc'[n] = "told"}
  BY <1>1, <1>4 DEF IInv, GateInv
<1> QED BY <1>1, <1>4, <1>7, <1>8, <1>9, <1>10 DEF IInv, GateInv, Challenge

LEMMA GateStep == ASSUME IInv, Step PROVE GateInv'
<1>1. ASSUME NEW r \in Request, Quiet(r) PROVE GateInv'
  <2>1. TypeOK /\ GateInv
    BY DEF IInv
  <2>2. r \notin issued /\ issued \subseteq Request /\ \A n \in issued : pc[n] = "told"
    BY <1>1, <2>1, QuietEffect DEF GateInv
  <2> QED BY <1>1, <2>1, <2>2, QuietEffect, GateFrame
<1>2. ASSUME NEW r \in Request, IssueChallenge(r) PROVE GateInv'
  BY <1>2, IssueKeepsGate
<1>3. ASSUME NEW r \in Request, BurnChallenge(r) \/ GrantClaim(r) PROVE GateInv'
  BY <1>3, ClaimKeepsGate
<1>4. CASE Evict
  <2>1. CASE Gate!Pass
    BY <1>4, <2>1, TimeAssumption
    DEF Evict, Gate!Pass, IInv, GateInv, StoredOK, Challenge, getVars
  <2>2. ASSUME NEW k \in Key, Gate!Expire(k) PROVE GateInv'
    BY <1>4, <2>2 DEF Evict, Gate!Expire, IInv, GateInv, StoredOK, Challenge, getVars
  <2> QED BY <1>4, <2>1, <2>2 DEF Evict
<1>5. CASE Settle
  BY <1>5, GateFrame DEF Settle, IInv, GateInv, getVars
<1>6. ASSUME NEW r \in Request, Mine(r) PROVE GateInv'
  BY <1>6, GateFrame DEF Mine, IInv, GateInv, getVars
<1>7. CASE Restart
  <2>1. \A n \in issued : pc'[n] = "told"
    BY <1>7 DEF Restart, Underway, IInv, GateInv
  <2> QED BY <1>7, <2>1 DEF Restart, IInv, GateInv, StoredOK, Challenge
<1> QED BY <1>1, <1>2, <1>3, <1>4, <1>5, <1>6, <1>7 DEF Step, Get, Claim, Quiet

-----------------------------------------------------------------------------
(* The payouts                                                             *)

\* A restart loses what is held.
LEMMA RestartLoses ==
  ASSUME PayoutProofs!LedgerInv, Restart
  PROVE  [PayoutProofs!LedgerNext]_(PayoutProofs!ledgerVars)
<1>1. held \in Seq(accepted) /\ Len(held) \in Nat
  BY LenProperties DEF PayoutProofs!LedgerInv, PayoutProofs!LedgerTypeOK
<1>2. UNCHANGED <<accepted, paid>> /\ held' = <<>>
  BY DEF Restart
<1>3. CASE Len(held) = 0
  BY <1>1, <1>2, <1>3, EmptySeq DEF PayoutProofs!ledgerVars
<1>4. CASE Len(held) # 0
  <2>1. Removed(held, 1, Len(held) + 1) = <<>>
    BY <1>1, RemovedAll
  <2>2. PayoutProofs!Lose(1, Len(held) + 1)
    BY <1>2, <2>1 DEF PayoutProofs!Lose, PayoutProofs!Without, Removed
  <2>3. 1 \in 1..(Len(held) + 1) /\ Len(held) + 1 \in 1..(Len(held) + 1) /\ 1 < Len(held) + 1
    BY <1>1, <1>4
  <2> QED BY <2>2, <2>3 DEF PayoutProofs!LedgerNext
<1> QED BY <1>3, <1>4

LEMMA PayoutStep == ASSUME IInv, Step PROVE PayoutProofs!LedgerInv'
<1> USE DEF Payouts!ledgerVars, payoutVars
<1>1. [PayoutProofs!LedgerNext]_(PayoutProofs!ledgerVars)
  <2> USE DEF PayoutProofs!ledgerVars
  <2>1. ASSUME NEW r \in Request, QueuePayout(r)
        PROVE  [PayoutProofs!LedgerNext]_(PayoutProofs!ledgerVars)
    BY <2>1 DEF QueuePayout, Payouts!Accept, PayoutProofs!Accept, PayoutProofs!LedgerNext
  <2>2. ASSUME NEW r \in Request,
               Get(r) \/ RefuseClaim(r) \/ RejectClaim(r) \/ BurnChallenge(r) \/ GrantClaim(r)
        PROVE  UNCHANGED payoutVars
    BY <2>2 DEF Get, ReadBalance, L2BalanceFails, RefuseGet, IssueChallenge, TellExisting,
                Answer, RefuseClaim, RejectClaim, BurnChallenge, GrantClaim
  <2>3. ASSUME NEW r \in Request,
               RefuseAddress(r) \/ FetchNonce(r) \/ L2Fails(r) \/ SendTransaction(r) \/ Mine(r)
        PROVE  UNCHANGED payoutVars
    BY <2>3 DEF RefuseAddress, FetchNonce, L2Fails, SendTransaction, Mine
  <2>4. CASE Evict
    BY <2>4 DEF Evict
  <2>5. CASE Settle
    BY <2>5
    DEF Settle, Payouts!Pay, Payouts!Lose, Payouts!First, Payouts!Without,
        PayoutProofs!Pay, PayoutProofs!Lose, PayoutProofs!First, PayoutProofs!Without,
        PayoutProofs!LedgerNext
  <2>6. CASE Restart
    BY <2>6, RestartLoses DEF IInv
  <2> QED BY <2>1, <2>2, <2>3, <2>4, <2>5, <2>6 DEF Step, Claim
<1> QED BY <1>1, PayoutProofs!LedgerInvStep DEF IInv

-----------------------------------------------------------------------------
(* The node's count of nonces                                              *)

\* Among as many numbers as there are, and one, the first that is missing.
LEMMA FirstGap ==
  ASSUME NEW S, IsFiniteSet(S), NEW f \in [S -> Nat]
  PROVE  \E n \in 0..Cardinality(S) :
           /\ \A i \in 0..(n - 1) : \E q \in S : f[q] = i
           /\ \A q \in S : f[q] # n
<1> DEFINE N == Cardinality(S)
           Missing == {n \in 0..N : \A q \in S : f[q] # n}
<1>1. N \in Nat
  BY FS_CardinalityType
<1>2. Missing # {}
  <2> SUFFICES ASSUME \A n \in 0..N : \E q \in S : f[q] = n PROVE FALSE
    BY Zenon
  <2> DEFINE g == [n \in 0..N |-> CHOOSE q \in S : f[q] = n]
  <2>1. \A n \in 0..N : g[n] \in S /\ f[g[n]] = n
    BY Zenon
  <2>2. g \in Injection(0..N, S)
    BY <2>1 DEF Injection, IsInjective
  <2>3. Cardinality(0..N) <= N
    BY <2>2, FS_Injection
  <2>4. Cardinality(0..N) = N + 1
    BY <1>1, FS_Interval
  <2> QED BY <1>1, <2>3, <2>4
<1>3. Missing \in SUBSET Nat
  BY <1>1
<1> HIDE DEF Missing
<1>4. PICK n \in Missing : \A m \in Missing : n <= m
  BY <1>2, <1>3, LeastElement
<1>5. \A i \in 0..(n - 1) : i \in 0..N /\ i \notin Missing
  BY <1>1, <1>3, <1>4 DEF Missing
<1> QED BY <1>4, <1>5 DEF Missing

LEMMA PendingCountOK ==
  ASSUME TypeOK
  PROVE  /\ PendingCount \in Nat
         /\ \A i \in 0..(PendingCount - 1) : \E q \in OnNode : nonce[q] = i
<1>1. IsFiniteSet(OnNode) /\ Cardinality(OnNode) \in Nat
  BY RequestAssumption, FS_Subset, FS_CardinalityType DEF OnNode
<1> DEFINE f == [q \in OnNode |-> nonce[q]]
           Gap(n) == /\ \A i \in 0..(n - 1) : \E q \in OnNode : nonce[q] = i
                     /\ \A q \in OnNode : nonce[q] # n
<1>2. f \in [OnNode -> Nat]
  BY DEF OnNode, TypeOK
<1>3. \E n \in 0..Cardinality(OnNode) : Gap(n)
  <2>1. PICK n \in 0..Cardinality(OnNode) :
          /\ \A i \in 0..(n - 1) : \E q \in OnNode : f[q] = i
          /\ \A q \in OnNode : f[q] # n
    <3> HIDE DEF f
    <3> QED BY <1>1, <1>2, FirstGap
  <2> QED BY <2>1
<1>4. PendingCount = CHOOSE n \in 0..Cardinality(OnNode) : Gap(n)
  BY Zenon DEF PendingCount
<1>5. PendingCount \in 0..Cardinality(OnNode) /\ Gap(PendingCount)
  <2> HIDE DEF Gap
  <2> QED BY <1>3, <1>4, Zenon
<1> QED BY <1>1, <1>5

-----------------------------------------------------------------------------
(* Counting                                                                *)

LEMMA RequestSets ==
  ASSUME NEW T \in SUBSET Request
  PROVE  /\ IsFiniteSet(T) /\ Cardinality(T) \in Nat
         /\ \A S \in SUBSET T : Cardinality(S) <= Cardinality(T)
BY RequestAssumption, FS_Subset, FS_CardinalityType

LEMMA KeySets ==
  ASSUME NEW T \in SUBSET Key
  PROVE  /\ IsFiniteSet(T) /\ Cardinality(T) \in Nat
         /\ \A S \in SUBSET T : Cardinality(S) <= Cardinality(T)
<1>1. IsFiniteSet(Chain)
  <2>1. IsFiniteSet({} \cup {"L1"})
    BY FS_AddElement, FS_EmptySet
  <2>2. IsFiniteSet(({} \cup {"L1"}) \cup {"L2"})
    BY <2>1, FS_AddElement
  <2>3. ({} \cup {"L1"}) \cup {"L2"} = Chain
    BY DEF Chain
  <2> QED BY <2>2, <2>3
<1>2. IsFiniteSet(Key)
  BY <1>1, AddressAssumption, FS_Union, FS_Product DEF Key
<1> QED BY <1>2, FS_Subset, FS_CardinalityType

\* What so many payouts cost.
LEMMA Cost ==
  ASSUME NEW a \in Nat, NEW x \in Int, NEW y \in Int
  PROVE  a * x \in Int /\ (x <= y => a * x <= a * y) /\ (x >= 0 => a * x >= 0)
OBVIOUS

LEMMA CostOfSum ==
  ASSUME NEW a \in Nat, NEW x \in Int, NEW y \in Int
  PROVE  a * (x + y) = a * x + a * y /\ a * (x - y) = a * x - a * y
OBVIOUS

LEMMA SpentType ==
  ASSUME TypeOK
  PROVE  /\ Cardinality(Paid) \in Nat /\ Cardinality(Mined) \in Nat
         /\ Cardinality(Pending) \in Nat
<1>1. Paid \subseteq Request /\ Mined \subseteq Request /\ Pending \subseteq Request
  BY DEF Paid, Mined, Pending, TypeOK
<1> QED BY <1>1, RequestSets

LEMMA BalanceType ==
  ASSUME TypeOK, FundsInv, NEW c \in Chain PROVE Balance(c) \in 0..Funds[c]
<1> DEFINE a == Settings[c].amount_per_claim
           n == Cardinality(IF c = "L1" THEN Paid ELSE Mined)
<1>1. a \in Nat /\ n \in Nat /\ Funds[c] \in Nat
  BY SpentType, AmountAssumption
<1>2. a * n \in Int /\ a * n >= 0
  BY <1>1, Cost
<1>3. Balance(c) = Funds[c] - a * n
  BY DEF Balance
<1>4. Settings["L2"].amount_per_claim * Cardinality(Pending) >= 0
  BY SpentType, AmountAssumption, Cost DEF Chain
<1>5. Settings["L2"].amount_per_claim * Cardinality(Pending) \in Int
  BY SpentType, AmountAssumption, Cost DEF Chain
<1> HIDE DEF a, n
<1>6. Balance(c) \in Int
  BY <1>1, <1>2, <1>3
<1>7. Balance(c) >= 0
  BY <1>4, <1>5, <1>6 DEF FundsInv, Chain
<1> QED BY <1>1, <1>2, <1>3, <1>6, <1>7

LEMMA OutstandingType ==
  ASSUME NEW c
  PROVE  /\ Quoting(c) \subseteq Request /\ Open(c) \subseteq Key /\ Unpaid(c) \subseteq Request
         /\ Outstanding(c) \in Nat /\ Outstanding(c)' \in Nat
<1>1. Quoting(c) \subseteq Request /\ Open(c) \subseteq Key /\ Unpaid(c) \subseteq Request
  BY DEF Quoting, Open, Unpaid
<1>2. /\ Quoting(c)' \subseteq Request /\ Open(c)' \subseteq Key
      /\ Unpaid(c)' \subseteq Request
  BY DEF Quoting, Open, Unpaid
<1> QED BY <1>1, <1>2, RequestSets, KeySets DEF Outstanding

-----------------------------------------------------------------------------
(* Who is held and who has been paid                                       *)

Held == {held[i] : i \in 1..Len(held)}

LEMMA HeldAccepted ==
  ASSUME PayoutProofs!LedgerInv
  PROVE  /\ Held \subseteq accepted /\ accepted \subseteq Request
         /\ Len(held) \in Nat
         /\ \A t \in 1..Len(paid) : paid[t] \in Seq(accepted)
BY ElementOfSeq, LenProperties DEF Held, PayoutProofs!LedgerInv, PayoutProofs!LedgerTypeOK

\* Only a payment pays.
LEMMA PaidKept ==
  ASSUME PayoutProofs!LedgerInv, accepted \subseteq accepted', paid' = paid
  PROVE  Paid' = Paid
<1>1. \A t \in 1..Len(paid) : \A i \in 1..Len(paid[t]) : paid[t][i] \in accepted
  BY HeldAccepted, ElementOfSeq
<1> QED BY <1>1 DEF Paid

\* A transaction pays some that were held, and have not been paid before.
LEMMA PayEffect ==
  ASSUME PayoutProofs!LedgerInv, NEW n \in 1..Len(held), Payouts!Pay(n)
  PROVE  \E F \in SUBSET Held :
           /\ Cardinality(F) <= n
           /\ Paid' = Paid \cup F /\ F \cap Paid = {}
           /\ Held' \subseteq Held \ F
<1> DEFINE F == {held[i] : i \in 1..n}
<1>1. Len(held) \in Nat /\ Len(paid) \in Nat /\ n \in Nat /\ 1..n \subseteq 1..Len(held)
  BY LenProperties DEF PayoutProofs!LedgerInv, PayoutProofs!LedgerTypeOK
<1>2. F \subseteq Held
  BY <1>1 DEF Held
<1>3. Cardinality(F) <= n
  <2> DEFINE f == [i \in 1..n |-> held[i]]
  <2>1. f \in Surjection(1..n, F)
    BY DEF Surjection
  <2>2. IsFiniteSet(1..n) /\ Cardinality(1..n) = n
    BY <1>1, FS_Interval
  <2> HIDE DEF f, F
  <2> QED BY <2>1, <2>2, FS_Surjection
<1>4. PICK b \in Seq(accepted) :
        /\ Len(b) = n /\ \A i \in 1..n : b[i] = held[i]
        /\ paid' = Append(paid, b)
  <2>1. held \in Seq(accepted)
    BY DEF PayoutProofs!LedgerInv, PayoutProofs!LedgerTypeOK
  <2>2. LET b == SubSeq(held, 1, n) IN
        b \in Seq(accepted) /\ Len(b) = n /\ \A i \in 1..n : b[i] = held[i]
    BY <1>1, <2>1, SubSeqProperties
  <2> QED BY <2>2 DEF Payouts!Pay, Payouts!First
<1>5. /\ Len(paid') = Len(paid) + 1 /\ paid'[Len(paid) + 1] = b
      /\ \A t \in 1..Len(paid) : paid'[t] = paid[t]
  BY <1>4, AppendProperties DEF PayoutProofs!LedgerInv, PayoutProofs!LedgerTypeOK
<1>6. Paid' = Paid \cup F
  <2>1. accepted' = accepted /\ F \subseteq accepted
    BY <1>2, HeldAccepted DEF Payouts!Pay
  <2>2. ASSUME NEW r, r \in Paid' PROVE r \in Paid \cup F
    <3>1. PICK t \in 1..Len(paid') : \E i \in 1..Len(paid'[t]) : paid'[t][i] = r
      BY <2>2 DEF Paid
    <3>2. CASE t \in 1..Len(paid)
      <4>1. \E i \in 1..Len(paid[t]) : paid[t][i] = r
        BY <1>5, <3>1, <3>2
      <4>2. r \in accepted
        BY <2>1, <2>2 DEF Paid
      <4> QED BY <3>2, <4>1, <4>2 DEF Paid
    <3>3. CASE t = Len(paid) + 1
      BY <1>4, <1>5, <3>1, <3>3
    <3> QED BY <1>1, <1>5, <3>2, <3>3
  <2>3. ASSUME NEW r \in Paid PROVE r \in Paid'
    <3>1. PICK t \in 1..Len(paid) : \E i \in 1..Len(paid[t]) : paid[t][i] = r
      BY DEF Paid
    <3>2. t \in 1..Len(paid') /\ \E i \in 1..Len(paid'[t]) : paid'[t][i] = r
      BY <1>1, <1>5, <3>1
    <3> QED BY <2>1, <3>2 DEF Paid
  <2>4. ASSUME NEW i \in 1..n PROVE held[i] \in Paid'
    <3>1. Len(paid) + 1 \in 1..Len(paid') /\ i \in 1..Len(paid'[Len(paid) + 1])
      BY <1>1, <1>4, <1>5
    <3>2. paid'[Len(paid) + 1][i] = held[i] /\ held[i] \in accepted'
      BY <1>4, <1>5, <2>1
    <3> QED BY <3>1, <3>2 DEF Paid
  <2> QED BY <2>2, <2>3, <2>4
<1>7. F \cap Paid = {}
  BY <1>1 DEF Paid, PayoutProofs!LedgerInv, PayoutProofs!PaidNotHeld
<1>8. Held' \subseteq Held \ F
  <2>1. \A k \in 1..Len(held') : \E m \in 1..Len(held) : held'[k] = held[m] /\ m >= n + 1
    <3>1. 1 \in 1..(Len(held) + 1) /\ n + 1 \in 1..(Len(held) + 1) /\ 1 < n + 1
      BY <1>1
    <3>2. held' = PayoutProofs!Without(1, n + 1)
      BY DEF Payouts!Pay, Payouts!Without, PayoutProofs!Without
    <3> QED BY <3>1, <3>2, PayoutProofs!LoseStep
  <2>2. ASSUME NEW m \in 1..Len(held), m >= n + 1 PROVE held[m] \in Held \ F
    BY <1>1, <2>2 DEF Held, PayoutProofs!LedgerInv, PayoutProofs!HeldDistinct
  <2> HIDE DEF F
  <2> QED BY <2>1, <2>2 DEF Held
<1> HIDE DEF F
<1> QED BY <1>2, <1>3, <1>6, <1>7, <1>8

\* A request that is taken is held; one that is lost is held no more.
LEMMA AcceptEffect ==
  ASSUME PayoutProofs!LedgerInv, NEW r \in Request, Payouts!Accept(r)
  PROVE  Paid' = Paid /\ Held' = Held \cup {r}
<1>1. held \in Seq(Request)
  BY HeldAccepted, SeqMonotonic DEF PayoutProofs!LedgerInv, PayoutProofs!LedgerTypeOK
<1>2. /\ Len(held') = Len(held) + 1 /\ held'[Len(held) + 1] = r
      /\ \A i \in 1..Len(held) : held'[i] = held[i]
  BY <1>1, AppendProperties DEF Payouts!Accept
<1>3. Held' = Held \cup {r}
  BY <1>2, HeldAccepted DEF Held
<1> QED BY <1>3, PaidKept DEF Payouts!Accept

LEMMA LoseEffect ==
  ASSUME PayoutProofs!LedgerInv,
         NEW i \in 1..(Len(held) + 1), NEW j \in 1..(Len(held) + 1), i < j,
         Payouts!Lose(i, j)
  PROVE  Paid' = Paid /\ Held' \subseteq Held
<1>1. held' = PayoutProofs!Without(i, j)
  BY DEF Payouts!Lose, Payouts!Without, PayoutProofs!Without
<1>2. \A k \in 1..Len(held') : \E m \in 1..Len(held) : held'[k] = held[m]
  BY <1>1, PayoutProofs!LoseStep
<1>3. Held' \subseteq Held
  BY <1>2 DEF Held
<1> QED BY <1>3, PaidKept DEF Payouts!Lose

-----------------------------------------------------------------------------
(* The initial states                                                      *)

LEMMA Initially == Init => IInv
<1> SUFFICES ASSUME Init PROVE IInv
  OBVIOUS
<1> USE DEF Init
<1>1. TypeOK
  <2>1. pc \in [Request -> {"new", "killed"} \cup Underway \cup Answers]
    OBVIOUS
  <2>2. told \in [Request -> {Nothing} \cup UNION {Told(c) : c \in Chain}]
    OBVIOUS
  <2> QED BY <2>1, <2>2 DEF TypeOK, Payouts!LedgerInit
<1>2. PayoutProofs!LedgerInv
  BY PayoutProofs!LedgerInvInit DEF PayoutProofs!LedgerInit, Payouts!LedgerInit
<1>3. GateInv
  BY TimeAssumption DEF GateInv, Gate!LedgerInit
<1>4. StageInv
  BY DEF StageInv, Payouts!LedgerInit
<1>5. Paid = {} /\ Mined = {} /\ Pending = {} /\ Served = {}
  BY DEF Paid, Mined, Pending, Served, Payouts!LedgerInit
<1>6. \A c \in Chain : Balance(c) = Funds[c]
  BY <1>5, FS_EmptySet, AmountAssumption DEF Balance
<1>7. FundsInv
  BY <1>5, <1>6, FS_EmptySet, AmountAssumption DEF FundsInv, Chain
<1>8. WorkInv
  <2> SUFFICES ASSUME NEW k \in Key
               PROVE  Cardinality(Claimants(k)) <= Cardinality(Redeemed(k))
    BY DEF WorkInv
  <2>1. Claimants(k) = {}
    BY <1>5 DEF Claimants
  <2>2. Redeemed(k) \subseteq Request
    BY DEF Redeemed
  <2> QED BY <2>1, <2>2, FS_EmptySet, RequestSets
<1>9. NonceInv
  BY <1>5 DEF NonceInv
<1>10. FloorInv
  <2> SUFFICES ASSUME NEW c \in Chain PROVE Outstanding(c) = 0
    BY <1>6 DEF FloorInv
  <2>1. Quoting(c) = {} /\ Open(c) = {} /\ Unpaid(c) = {}
    BY DEF Quoting, Open, Unpaid, Gate!Claimable, Gate!LedgerInit, Payouts!LedgerInit
  <2> QED BY <2>1, FS_EmptySet DEF Outstanding
<1> QED BY <1>1, <1>2, <1>3, <1>4, <1>7, <1>8, <1>9, <1>10 DEF IInv

-----------------------------------------------------------------------------
(* Types                                                                   *)

\* What a get answers with.
LEMMA AnswerType ==
  ASSUME IInv, NEW r \in Request, IssueChallenge(r) \/ TellExisting(r)
  PROVE  /\ \E t \in Told(ChainOf(r)) : told' = [told EXCEPT ![r] = t]
         /\ balance' = [balance EXCEPT ![r] = 0]
         /\ pc[r] = "get" /\ pc' = [pc EXCEPT ![r] = "told"]
         /\ UNCHANGED <<accepted, key, solution, nonce, tx>>
<1>1. key[r] \in Key
  BY KeyType DEF IInv
<1>2. ASSUME NEW c \in Challenge(key[r])
      PROVE  [nonce |-> c.nonce, difficulty |-> c.difficulty] \in Told(ChainOf(r))
  BY DEF Challenge, Told, ChainOf
<1>3. CASE IssueChallenge(r)
  <2> DEFINE c == [nonce |-> r, claimed |-> FALSE, expires_at |-> now + Duration[key[r]],
                   difficulty |-> Quotes[ChainOf(r)][balance[r]]]
  <2>1. c \in Challenge(key[r]) /\ c.nonce = r
        /\ told' = [told EXCEPT ![r] = [nonce |-> r, difficulty |-> c.difficulty]]
    BY <1>3, IssueEffect
  <2> HIDE DEF c
  <2>2. told' = [told EXCEPT ![r] = [nonce |-> c.nonce, difficulty |-> c.difficulty]]
    BY <2>1
  <2> QED BY <1>2, <1>3, <2>1, <2>2 DEF IssueChallenge, Answer, Goto, payoutVars, nodeVars
<1>4. CASE TellExisting(r)
  <2>1. ledger[key[r]] \in Challenge(key[r])
    BY <1>1, <1>4 DEF TellExisting, IInv, GateInv, StoredOK
  <2> QED BY <1>2, <1>4, <2>1 DEF TellExisting, Answer, Goto, payoutVars, nodeVars
<1> QED BY <1>3, <1>4

\* What a claim submits.
LEMMA SubmitType ==
  ASSUME IInv, NEW r \in Request, Claims(r)
  PROVE  \E s \in Solution : solution' = [solution EXCEPT ![r] = s]
<1>1. PICK n \in {r} \cup {told[q].nonce : q \in {q \in Request : pc[q] = "told"}}, h \in Hash :
        solution' = [solution EXCEPT ![r] = [nonce |-> n, hash |-> h]]
  BY DEF Claims, Submit
<1>2. n \in Request
  BY DEF IInv, StageInv, Told
<1> QED BY <1>1, <1>2 DEF Solution

LEMMA TypeStep == ASSUME IInv, Step, peak' \in [Chain -> Nat] PROVE TypeOK'
<1>1. TypeOK
  BY DEF IInv
<1>2. ASSUME NEW r \in Request, IssueChallenge(r) \/ TellExisting(r) PROVE TypeOK'
  <2>1. PICK t \in Told(ChainOf(r)) : told' = [told EXCEPT ![r] = t]
    BY <1>2, AnswerType
  <2>2. UNCHANGED <<accepted, key, solution, nonce, tx>>
        /\ balance' = [balance EXCEPT ![r] = 0] /\ pc' = [pc EXCEPT ![r] = "told"]
    BY <1>2, AnswerType
  <2>3. t \in {Nothing} \cup UNION {Told(c) : c \in Chain}
    BY <1>1, KeyType
  <2>4. \A q \in Request : told'[q] \in Told(key'[q][2]) \cup {Nothing}
    BY <1>1, <2>1, <2>2 DEF TypeOK, ChainOf
  <2>5. told' \in [Request -> {Nothing} \cup UNION {Told(c) : c \in Chain}]
    <3> DEFINE T == {Nothing} \cup UNION {Told(c) : c \in Chain}
    <3>1. told \in [Request -> T] /\ t \in T
      BY <1>1, <2>3 DEF TypeOK
    <3> HIDE DEF T
    <3>2. told' \in [Request -> T]
      BY <2>1, <3>1
    <3> QED BY <3>2 DEF T
  <2> QED BY <1>1, <2>2, <2>4, <2>5 DEF TypeOK, Answers
<1>3. ASSUME NEW r \in Request,
             RejectClaim(r) \/ BurnChallenge(r) \/ GrantClaim(r)
      PROVE  TypeOK'
  <2>1. Claims(r) /\ UNCHANGED <<accepted, key, balance, told, nonce, tx>>
        /\ (Goto(r, "rejected") \/ Goto(r, "granted"))
    BY <1>3 DEF RejectClaim, BurnChallenge, GrantClaim, payoutVars, getVars, nodeVars
  <2>2. PICK s \in Solution : solution' = [solution EXCEPT ![r] = s]
    BY <2>1, SubmitType
  <2> QED BY <1>1, <2>1, <2>2 DEF TypeOK, Goto, Answers, Underway
<1>4. ASSUME NEW r \in Request, ReadBalance(r) PROVE TypeOK'
  <2>1. Balance(ChainOf(r)) \in Nat
    BY KeyType, BalanceType, AmountAssumption DEF IInv
  <2> QED BY <1>1, <1>4, <2>1 DEF ReadBalance, TypeOK, Goto, Underway, payoutVars, nodeVars
<1>5. ASSUME NEW r \in Request, L2BalanceFails(r) \/ RefuseGet(r) \/ RefuseClaim(r)
      PROVE  TypeOK'
  BY <1>1, <1>5
  DEF L2BalanceFails, RefuseGet, RefuseClaim, TypeOK, Goto, Answers, payoutVars, nodeVars, getVars
<1>6. ASSUME NEW r \in Request, RefuseAddress(r) \/ QueuePayout(r) \/ L2Fails(r)
      PROVE  TypeOK'
  BY <1>1, <1>6
  DEF RefuseAddress, QueuePayout, Payouts!Accept, L2Fails, TypeOK, Goto, Answers,
      payoutVars, nodeVars, getVars
<1>7. ASSUME NEW r \in Request, FetchNonce(r) PROVE TypeOK'
  BY <1>1, <1>7, PendingCountOK
  DEF FetchNonce, TypeOK, Goto, Underway, payoutVars, getVars
<1>8. ASSUME NEW r \in Request, SendTransaction(r) PROVE TypeOK'
  BY <1>1, <1>8
  DEF SendTransaction, TypeOK, Goto, Answers, payoutVars, getVars
<1>9. ASSUME NEW r \in Request, Mine(r) PROVE TypeOK'
  BY <1>1, <1>9 DEF Mine, TypeOK, payoutVars, getVars
<1>10. CASE Evict \/ Settle
  BY <1>1, <1>10
  DEF Evict, Settle, Payouts!Pay, Payouts!Lose, TypeOK, payoutVars, getVars, nodeVars
<1>11. CASE Restart
  BY <1>1, <1>11 DEF Restart, TypeOK, nodeVars
<1> QED BY <1>2, <1>3, <1>4, <1>5, <1>6, <1>7, <1>8, <1>9, <1>10, <1>11 DEF Step, Get, Claim

-----------------------------------------------------------------------------
(* The handlers                                                            *)

LEMMA StageStep == ASSUME IInv, Step PROVE StageInv'
<1>1. TypeOK /\ StageInv
  BY DEF IInv
<1>2. ASSUME NEW r \in Request, IssueChallenge(r) \/ TellExisting(r) PROVE StageInv'
  <2>1. PICK t \in Told(ChainOf(r)) : told' = [told EXCEPT ![r] = t]
    BY <1>2, AnswerType
  <2>2. UNCHANGED <<accepted, key, tx>> /\ balance' = [balance EXCEPT ![r] = 0]
        /\ pc[r] = "get" /\ pc' = [pc EXCEPT ![r] = "told"]
    BY <1>2, AnswerType
  <2> QED BY <1>1, <2>1, <2>2 DEF TypeOK, StageInv, ChainOf
<1>3. ASSUME NEW r \in Request,
             RejectClaim(r) \/ BurnChallenge(r) \/ GrantClaim(r)
      PROVE  StageInv'
  <2>1. pc[r] = "new" /\ UNCHANGED <<accepted, key, balance, told, tx>>
        /\ (Goto(r, "rejected") \/ Goto(r, "granted"))
    BY <1>3
    DEF RejectClaim, BurnChallenge, GrantClaim, Claims, payoutVars, getVars, nodeVars
  <2> QED BY <1>1, <2>1 DEF TypeOK, StageInv, Goto, ChainOf
<1>4. ASSUME NEW r \in Request, ReadBalance(r) PROVE StageInv'
  <2>1. Balance(ChainOf(r)) \in 0..Funds[ChainOf(r)]
    BY KeyType, BalanceType DEF IInv
  <2> QED BY <1>1, <1>4, <2>1
          DEF ReadBalance, TypeOK, StageInv, Goto, ChainOf, payoutVars, nodeVars
<1>5. ASSUME NEW r \in Request, L2BalanceFails(r) \/ RefuseGet(r) \/ RefuseClaim(r)
      PROVE  StageInv'
  BY <1>1, <1>5
  DEF L2BalanceFails, RefuseGet, RefuseClaim, TypeOK, StageInv, Goto, ChainOf,
      payoutVars, nodeVars, getVars
<1>6. ASSUME NEW r \in Request, RefuseAddress(r) \/ QueuePayout(r) \/ L2Fails(r)
      PROVE  StageInv'
  <2>1. /\ UNCHANGED <<key, balance, told, tx>> /\ pc[r] \in {"granted", "send"}
        /\ Goto(r, "bad_address") \/ Goto(r, "ok") \/ Goto(r, "error")
    BY <1>6 DEF RefuseAddress, QueuePayout, L2Fails, nodeVars, getVars
  <2>2. \/ accepted' = accepted
        \/ accepted' = accepted \cup {r} /\ ChainOf(r) = "L1" /\ Goto(r, "ok")
    BY <1>6 DEF RefuseAddress, QueuePayout, Payouts!Accept, L2Fails, payoutVars
  <2> QED BY <1>1, <2>1, <2>2 DEF TypeOK, StageInv, Goto, ChainOf
<1>7. ASSUME NEW r \in Request, FetchNonce(r) PROVE StageInv'
  BY <1>1, <1>7 DEF FetchNonce, TypeOK, StageInv, Goto, ChainOf, payoutVars, getVars
<1>8. ASSUME NEW r \in Request, SendTransaction(r) PROVE StageInv'
  BY <1>1, <1>8
  DEF SendTransaction, Pending, TypeOK, StageInv, Goto, ChainOf, payoutVars, getVars
<1>9. ASSUME NEW r \in Request, Mine(r) PROVE StageInv'
  BY <1>1, <1>9 DEF Mine, Pending, TypeOK, StageInv, ChainOf, payoutVars, getVars
<1>10. CASE Evict \/ Settle
  BY <1>1, <1>10
  DEF Evict, Settle, Payouts!Pay, Payouts!Lose, TypeOK, StageInv, ChainOf,
      payoutVars, getVars, nodeVars
<1>11. CASE Restart
  BY <1>1, <1>11 DEF Restart, Underway, TypeOK, StageInv, ChainOf, nodeVars
<1> QED BY <1>2, <1>3, <1>4, <1>5, <1>6, <1>7, <1>8, <1>9, <1>10, <1>11 DEF Step, Get, Claim

-----------------------------------------------------------------------------
(* The nonces on the node                                                  *)

\* A nonce that the node has is never given up.
LEMMA NonceFrame ==
  ASSUME NonceInv,
         \A q \in OnNode : q \in OnNode' \/ \E p \in OnNode' : nonce'[p] = nonce[q],
         \A q \in OnNode : nonce'[q] = nonce[q],
         \A r \in Request : pc'[r] = "send" \/ r \in Pending' =>
           \/ (pc[r] = "send" \/ r \in Pending) /\ nonce'[r] = nonce[r]
           \/ \A n \in 0..(nonce'[r] - 1) : \E q \in OnNode : nonce[q] = n
  PROVE  NonceInv'
<1>1. \A n : (\E q \in OnNode : nonce[q] = n) => (\E q \in OnNode' : nonce'[q] = n)
  OBVIOUS
<1> SUFFICES ASSUME NEW r \in Request, pc'[r] = "send" \/ r \in Pending'
             PROVE  \A n \in 0..(nonce'[r] - 1) : \E q \in OnNode' : nonce'[q] = n
  BY DEF NonceInv
<1>2. \A n \in 0..(nonce'[r] - 1) : \E q \in OnNode : nonce[q] = n
  BY DEF NonceInv
<1> QED BY <1>1, <1>2

LEMMA NonceStep == ASSUME IInv, Step PROVE NonceInv'
<1>1. TypeOK /\ StageInv /\ NonceInv
  BY DEF IInv
<1>2. ASSUME NEW r \in Request,
             \/ ReadBalance(r) \/ L2BalanceFails(r) \/ RefuseGet(r) \/ RefuseClaim(r)
             \/ RejectClaim(r) \/ BurnChallenge(r) \/ GrantClaim(r)
             \/ RefuseAddress(r) \/ QueuePayout(r) \/ L2Fails(r)
      PROVE  NonceInv'
  <2>1. UNCHANGED nodeVars /\ \A q \in Request : pc'[q] = "send" => pc[q] = "send"
    BY <1>1, <1>2
    DEF ReadBalance, L2BalanceFails, RefuseGet, RefuseClaim, RejectClaim, BurnChallenge,
        GrantClaim, RefuseAddress, QueuePayout, L2Fails, TypeOK, Goto
  <2> QED BY <1>1, <2>1 DEF NonceInv, nodeVars, OnNode, Pending
<1>3. ASSUME NEW r \in Request, IssueChallenge(r) \/ TellExisting(r) PROVE NonceInv'
  BY <1>1, <1>3, AnswerType DEF NonceInv, OnNode, Pending, TypeOK
<1>4. ASSUME NEW r \in Request, FetchNonce(r) PROVE NonceInv'
  <2>1. tx[r] = "none" /\ tx' = tx
    BY <1>1, <1>4 DEF FetchNonce, StageInv
  <2>2. nonce'[r] = PendingCount /\ \A q \in Request : q # r => nonce'[q] = nonce[q] /\ pc'[q] = pc[q]
    BY <1>1, <1>4 DEF FetchNonce, Goto, TypeOK
  <2>3. \A q \in OnNode : q \in OnNode' /\ nonce'[q] = nonce[q]
    BY <2>1, <2>2 DEF OnNode
  <2>4. Pending' = Pending
    BY <2>1 DEF Pending
  <2>5. \A i \in 0..(nonce'[r] - 1) : \E q \in OnNode : nonce[q] = i
    BY <1>1, <2>2, PendingCountOK
  <2>6. r \notin Pending
    BY <2>1 DEF Pending
  <2> QED BY <1>1, <2>2, <2>3, <2>4, <2>5, NonceFrame
<1>5. ASSUME NEW r \in Request, SendTransaction(r) PROVE NonceInv'
  <2>1. /\ nonce' = nonce /\ pc[r] = "send" /\ tx'[r] = "pending" /\ tx[r] = "none"
        /\ \A q \in Request : q # r =>
             tx'[q] = IF q \in Pending /\ nonce[q] = nonce[r] THEN "replaced" ELSE tx[q]
        /\ \A q \in Request : pc'[q] = "send" => pc[q] = "send"
    BY <1>1, <1>5 DEF SendTransaction, TypeOK, StageInv, Goto
  <2>2. r \in OnNode'
    BY <2>1 DEF OnNode
  <2>3. \A q \in OnNode : q \in OnNode' \/ nonce'[r] = nonce[q]
    BY <2>1 DEF OnNode
  <2>4. \A q \in Pending' : q = r \/ q \in Pending
    BY <2>1 DEF Pending
  <2> QED BY <1>1, <2>1, <2>2, <2>3, <2>4, NonceFrame
<1>6. ASSUME NEW r \in Request, Mine(r) PROVE NonceInv'
  <2>1. nonce' = nonce /\ pc' = pc
    BY <1>6 DEF Mine
  <2>2. OnNode' = OnNode /\ Pending' \subseteq Pending
    BY <1>1, <1>6 DEF Mine, OnNode, Pending, TypeOK
  <2> QED BY <1>1, <2>1, <2>2, NonceFrame
<1>7. CASE Evict \/ Settle \/ Restart
  <2>1. UNCHANGED nodeVars /\ \A q \in Request : pc'[q] = "send" => pc[q] = "send"
    BY <1>1, <1>7 DEF Evict, Settle, Restart, Underway
  <2> QED BY <1>1, <2>1 DEF NonceInv, nodeVars, OnNode, Pending
<1> QED BY <1>2, <1>3, <1>4, <1>5, <1>6, <1>7 DEF Step, Get, Claim

-----------------------------------------------------------------------------
(* The funds                                                               *)

\* No handler takes anything out of a wallet.
LEMMA HandlerSpends ==
  ASSUME IInv, NEW r \in Request, Get(r) \/ Claim(r)
  PROVE  /\ Paid' = Paid /\ Mined' = Mined
         /\ \/ UNCHANGED tx /\ Pending' = Pending
            \/ SendTransaction(r) /\ Pending' \subseteq Pending \cup {r}
<1>1. accepted \subseteq accepted' /\ paid' = paid
  BY DEF Get, ReadBalance, L2BalanceFails, RefuseGet, IssueChallenge, TellExisting, Answer,
         Claim, RefuseClaim, RejectClaim, BurnChallenge, GrantClaim, RefuseAddress,
         QueuePayout, Payouts!Accept, FetchNonce, L2Fails, SendTransaction, payoutVars
<1>2. Paid' = Paid
  BY <1>1, PaidKept DEF IInv
<1>3. CASE SendTransaction(r)
  <2>1. tx[r] = "none"
    BY <1>3 DEF SendTransaction, IInv, StageInv
  <2>2. Mined' = Mined /\ Pending' \subseteq Pending \cup {r}
    BY <1>3, <2>1 DEF SendTransaction, Mined, Pending
  <2> QED BY <1>2, <1>3, <2>2
<1>4. CASE ~SendTransaction(r)
  <2>1. tx' = tx
    BY <1>4
    DEF Get, ReadBalance, L2BalanceFails, RefuseGet, IssueChallenge, TellExisting, Answer,
        Claim, RefuseClaim, RejectClaim, BurnChallenge, GrantClaim, RefuseAddress,
        QueuePayout, FetchNonce, L2Fails, nodeVars
  <2> QED BY <1>2, <2>1 DEF Mined, Pending
<1> QED BY <1>3, <1>4

LEMMA MineSpends ==
  ASSUME IInv, NEW r \in Request, Mine(r)
  PROVE  /\ r \in Pending \ Mined
         /\ Paid' = Paid /\ Mined' = Mined \cup {r} /\ Pending' = Pending \ {r}
<1>1. Paid' = Paid
  BY PaidKept DEF Mine, payoutVars, IInv
<1> QED BY <1>1 DEF Mine, Mined, Pending, IInv, TypeOK

\* What does not pay.
LEMMA OtherSpends ==
  ASSUME IInv,
         \/ Evict \/ Restart
         \/ /\ \E i, j \in 1..(Len(held) + 1) : i < j /\ Payouts!Lose(i, j)
            /\ UNCHANGED <<gateVars, pc, key, getVars, solution, nodeVars>>
  PROVE  Paid' = Paid /\ Mined' = Mined /\ Pending' = Pending
<1>1. accepted' = accepted /\ paid' = paid /\ tx' = tx
  BY DEF Evict, Restart, Payouts!Lose, payoutVars, nodeVars
<1> QED BY <1>1, PaidKept DEF Mined, Pending, IInv

LEMMA BalanceKept ==
  ASSUME NEW c \in Chain, IF c = "L1" THEN Paid' = Paid ELSE Mined' = Mined
  PROVE  Balance(c)' = Balance(c)
BY DEF Balance

LEMMA FundsFrame ==
  ASSUME IInv, Paid' = Paid, Mined' = Mined, Pending' = Pending PROVE FundsInv'
BY BalanceKept DEF FundsInv, Chain, IInv

\* A balance after so many more payouts.
LEMMA BalanceAfter ==
  ASSUME TypeOK, NEW c \in Chain, NEW F \in SUBSET Request,
         IF c = "L1" THEN Paid' = Paid \cup F /\ F \cap Paid = {}
                     ELSE Mined' = Mined \cup F /\ F \cap Mined = {}
  PROVE  /\ Cardinality(F) \in Nat
         /\ Balance(c)' = Balance(c) - Settings[c].amount_per_claim * Cardinality(F)
<1> DEFINE a == Settings[c].amount_per_claim
           S == IF c = "L1" THEN Paid ELSE Mined
<1>1. S \subseteq Request /\ S' = S \cup F /\ F \cap S = {}
  BY DEF Paid, Mined, TypeOK
<1>2. IsFiniteSet(S) /\ IsFiniteSet(F) /\ Cardinality(S) \in Nat /\ Cardinality(F) \in Nat
  BY <1>1, RequestSets
<1>3. Cardinality(S') = Cardinality(S) + Cardinality(F)
  <2> HIDE DEF S
  <2>1. S \cap F = {}
    BY <1>1
  <2>2. Cardinality(S \cap F) = 0
    BY <2>1, FS_EmptySet
  <2>3. Cardinality(S \cup F) = Cardinality(S) + Cardinality(F) - Cardinality(S \cap F)
    BY <1>2, FS_Union
  <2> QED BY <1>1, <1>2, <2>2, <2>3
<1>4. Balance(c) = Funds[c] - a * Cardinality(S) /\ Balance(c)' = Funds[c] - a * Cardinality(S')
  BY DEF Balance
<1>5. a \in Nat /\ Funds[c] \in Nat
  BY AmountAssumption
<1> HIDE DEF a, S
<1>6. a * (Cardinality(S) + Cardinality(F)) = a * Cardinality(S) + a * Cardinality(F)
  BY <1>2, <1>5, CostOfSum
<1>7. a * Cardinality(S) \in Int /\ a * Cardinality(F) \in Int
  BY <1>2, <1>5, Cost
<1>8. Balance(c)' = Balance(c) - a * Cardinality(F)
  BY <1>3, <1>4, <1>5, <1>6, <1>7
<1> QED BY <1>2, <1>8 DEF a

LEMMA FundsStep == ASSUME IInv, Step PROVE FundsInv'
<1> DEFINE a == Settings["L2"].amount_per_claim
<1>1. TypeOK /\ FundsInv /\ "L1" \in Chain /\ "L2" \in Chain
  BY DEF IInv, Chain
<1>2. a \in Nat /\ Balance("L1") \in Int /\ Balance("L2") \in Int
  BY <1>1, AmountAssumption, BalanceType
<1>3. ASSUME NEW r \in Request, SendTransaction(r) PROVE FundsInv'
  <2>1. Paid' = Paid /\ Mined' = Mined /\ Pending' \subseteq Pending \cup {r}
    BY <1>3, HandlerSpends DEF Claim, Pending
  <2>2. Balance("L1")' = Balance("L1") /\ Balance("L2")' = Balance("L2")
    BY <1>1, <2>1, BalanceKept
  <2>3. /\ Cardinality(Pending') <= Cardinality(Pending) + 1
        /\ Cardinality(Pending) \in Nat /\ Cardinality(Pending') \in Nat
    <3>1. Pending \subseteq Request /\ Pending \cup {r} \subseteq Request
      BY DEF Pending
    <3>2. Cardinality(Pending \cup {r}) <= Cardinality(Pending) + 1
      BY <3>1, RequestSets, FS_AddElement
    <3> QED BY <2>1, <3>1, <3>2, RequestSets
  <2>4. Balance("L2") >= a * (Cardinality(Pending) + 1)
    BY <1>3 DEF SendTransaction
  <2>5. a * Cardinality(Pending') <= a * (Cardinality(Pending) + 1)
        /\ a * Cardinality(Pending') \in Int /\ a * (Cardinality(Pending) + 1) \in Int
    BY <1>2, <2>3, Cost
  <2>6. Balance("L2")' >= a * Cardinality(Pending')
    <3> HIDE DEF a
    <3> QED BY <1>2, <2>2, <2>4, <2>5
  <2> QED BY <1>1, <2>2, <2>6 DEF FundsInv
<1>4. ASSUME NEW r \in Request, Get(r) \/ Claim(r) PROVE FundsInv'
  BY <1>3, <1>4, HandlerSpends, FundsFrame
<1>5. ASSUME NEW r \in Request, Mine(r) PROVE FundsInv'
  <2>1. r \in Pending \ Mined /\ Paid' = Paid /\ Mined' = Mined \cup {r}
        /\ Pending' = Pending \ {r}
    BY <1>5, MineSpends
  <2>2. Cardinality({r}) = 1
    BY FS_Singleton
  <2>3. Balance("L2")' = Balance("L2") - a * 1
    BY <1>1, <2>1, <2>2, BalanceAfter
  <2>4. Cardinality(Pending') = Cardinality(Pending) - 1 /\ Cardinality(Pending) \in Nat
    <3>1. Pending \subseteq Request
      BY DEF Pending
    <3> QED BY <2>1, <3>1, RequestSets, FS_RemoveElement
  <2>5. a * (Cardinality(Pending) - 1) = a * Cardinality(Pending) - a * 1
        /\ a * Cardinality(Pending) \in Int /\ a * 1 \in Int
    BY <1>2, <2>4, Cost, CostOfSum
  <2>6. Balance("L2")' >= a * Cardinality(Pending')
    <3>1. Balance("L2") >= a * Cardinality(Pending)
      BY <1>1 DEF FundsInv
    <3> HIDE DEF a
    <3> QED BY <1>2, <2>3, <2>4, <2>5, <3>1
  <2>7. Balance("L1")' = Balance("L1")
    BY <1>1, <2>1, BalanceKept
  <2> QED BY <1>1, <2>6, <2>7 DEF FundsInv
<1>6. ASSUME NEW n \in 1..Len(held), Payouts!Pay(n), UNCHANGED nodeVars,
             n * Settings["L1"].amount_per_claim <= Balance("L1")
      PROVE  FundsInv'
  <2> DEFINE b == Settings["L1"].amount_per_claim
  <2>1. PICK F \in SUBSET Held :
          Cardinality(F) <= n /\ Paid' = Paid \cup F /\ F \cap Paid = {}
    BY <1>6, PayEffect DEF IInv
  <2>2. F \subseteq Request
    BY HeldAccepted DEF IInv
  <2>3. Cardinality(F) \in Nat /\ Balance("L1")' = Balance("L1") - b * Cardinality(F)
    BY <1>1, <2>1, <2>2, BalanceAfter
  <2>4. b \in Nat /\ n \in Int
    BY <1>1, AmountAssumption
  <2>5. b * Cardinality(F) <= b * n /\ b * Cardinality(F) \in Int /\ b * n \in Int
    BY <2>1, <2>3, <2>4, Cost
  <2>6. n * b = b * n
    BY <2>4
  <2>7. Balance("L1")' >= 0
    <3> HIDE DEF b
    <3>1. n * b <= Balance("L1")
      BY <1>6 DEF b
    <3> QED BY <1>2, <2>3, <2>5, <2>6, <3>1
  <2>8. Mined' = Mined /\ Pending' = Pending
    BY <1>6 DEF nodeVars, Mined, Pending
  <2> QED BY <1>1, <2>7, <2>8, BalanceKept DEF FundsInv
<1>7. CASE Settle
  BY <1>6, <1>7, OtherSpends, FundsFrame DEF Settle
<1>8. CASE Evict \/ Restart
  BY <1>8, OtherSpends, FundsFrame
<1> QED BY <1>4, <1>5, <1>7, <1>8 DEF Step

-----------------------------------------------------------------------------
(* The work                                                                *)

\* What has been redeemed stays redeemed.
LEMMA RedeemedKept ==
  ASSUME IInv, Step
  PROVE  key' = key /\ \A k \in Key : Redeemed(k) \subseteq Redeemed(k)'
<1>1. \A g \in granted : g.nonce \in Request /\ pc[g.nonce] = "told"
  BY DEF IInv, GateInv
<1>2. /\ key' = key /\ granted \subseteq granted'
      /\ \A q \in Request : pc[q] = "told" => told'[q] = told[q]
  <2>1. ASSUME NEW r \in Request, Quiet(r)
        PROVE  /\ key' = key /\ granted' = granted
               /\ \A q \in Request : pc[q] = "told" => told'[q] = told[q]
    BY <2>1, QuietEffect DEF IInv, gateVars
  <2>2. ASSUME NEW r \in Request, IssueChallenge(r)
        PROVE  /\ key' = key /\ granted' = granted
               /\ \A q \in Request : pc[q] = "told" => told'[q] = told[q]
    <3>1. granted' = granted
      BY <2>2, IssueEffect
    <3>2. pc[r] = "get" /\ key' = key /\ \E t : told' = [told EXCEPT ![r] = t]
      BY <2>2 DEF IssueChallenge, Answer
    <3> QED BY <3>1, <3>2 DEF IInv, TypeOK
  <2>3. ASSUME NEW r \in Request, BurnChallenge(r) \/ GrantClaim(r)
        PROVE  key' = key /\ told' = told /\ granted \subseteq granted'
    BY <2>3 DEF BurnChallenge, GrantClaim, Gate!Burn, getVars
  <2>4. ASSUME NEW r \in Request, Mine(r)
        PROVE  key' = key /\ told' = told /\ granted' = granted
    BY <2>4 DEF Mine, getVars, gateVars
  <2>5. CASE Evict \/ Settle \/ Restart
    BY <2>5 DEF Evict, Settle, Restart, Gate!Pass, Gate!Expire, getVars, gateVars
  <2> QED BY <2>1, <2>2, <2>3, <2>4, <2>5 DEF Step, Get, Claim, Quiet
<1> QED BY <1>1, <1>2 DEF Redeemed

\* A claim that is not granted, or was granted before, needs no more work.
LEMMA WorkFrame ==
  ASSUME IInv, Step,
         \A r \in Request : pc'[r] \in {"granted", "send"} \/ r \in Served' =>
                            pc[r] \in {"granted", "send"} \/ r \in Served
  PROVE  WorkInv'
<1> SUFFICES ASSUME NEW k \in Key PROVE Cardinality(Claimants(k)') <= Cardinality(Redeemed(k)')
  BY DEF WorkInv
<1>1. key' = key /\ Redeemed(k) \subseteq Redeemed(k)'
  BY RedeemedKept
<1>2. Claimants(k)' \subseteq Claimants(k)
  BY <1>1 DEF Claimants
<1>3. Claimants(k) \subseteq Request /\ Redeemed(k)' \subseteq Request
  BY DEF Claimants, Redeemed
<1>4. /\ Cardinality(Claimants(k)') <= Cardinality(Claimants(k))
      /\ Cardinality(Redeemed(k)) <= Cardinality(Redeemed(k)')
  BY <1>1, <1>2, <1>3, RequestSets
<1>5. /\ Cardinality(Claimants(k)') \in Nat /\ Cardinality(Claimants(k)) \in Nat
      /\ Cardinality(Redeemed(k)) \in Nat /\ Cardinality(Redeemed(k)') \in Nat
  BY <1>1, <1>2, <1>3, RequestSets
<1>6. Cardinality(Claimants(k)) <= Cardinality(Redeemed(k))
  BY DEF IInv, WorkInv
<1> QED BY <1>4, <1>5, <1>6

\* A claim that is granted redeems a challenge that had not been redeemed.
LEMMA GrantRedeems ==
  ASSUME IInv, NEW r \in Request, GrantClaim(r), NEW k \in Key, k = key[r]
  PROVE  \E n \in Redeemed(k)' : n \notin Redeemed(k)
<1> DEFINE n == ledger[k].nonce
<1>1. /\ ledger[k] # NoChallenge /\ ~ledger[k].claimed
      /\ granted' = granted \cup {[nonce |-> n, zeros |-> Zeros(r)]}
      /\ Zeros(r) >= ledger[k].difficulty
      /\ key' = key /\ told' = told
  BY DEF GrantClaim, Gate!Claimable, getVars
<1>2. /\ ledger[k] \in Challenge(k) /\ n \in issued /\ key[n] = k
      /\ told[n].difficulty = ledger[k].difficulty
      /\ \A g \in granted : g.nonce # n
  BY <1>1 DEF IInv, GateInv, StoredOK
<1>3. n \in Request
  BY <1>2 DEF IInv, GateInv
<1>4. n \notin Redeemed(k)
  BY <1>2 DEF Redeemed
<1>5. n \in Redeemed(k)'
  <2>1. [nonce |-> n, zeros |-> Zeros(r)] \in granted'
    BY <1>1
  <2>2. told'[n].difficulty <= Zeros(r)
    <3>1. Zeros(r) \in Int /\ ledger[k].difficulty \in Int
      <4>1. solution'[r].hash \in Hash
        BY DEF GrantClaim, Claims, Submit, IInv, TypeOK
      <4>2. Zeros(r) \in Int
        BY <4>1, PowerAssumption DEF Zeros
      <4>3. Settings[k[2]].min_difficulty \in Nat /\ Settings[k[2]].max_difficulty \in Nat
        BY AmountAssumption DEF Key
      <4> QED BY <1>2, <4>2, <4>3 DEF Challenge
    <3> QED BY <1>1, <1>2, <3>1
  <2> HIDE DEF n
  <2> QED BY <1>1, <1>2, <1>3, <2>1, <2>2 DEF Redeemed
<1> QED BY <1>4, <1>5

LEMMA GrantKeepsWork ==
  ASSUME IInv, Step, NEW r \in Request, GrantClaim(r) PROVE WorkInv'
<1>1. /\ key' = key /\ UNCHANGED <<accepted, tx>> /\ pc[r] = "new"
      /\ \A q \in Request : q # r => pc'[q] = pc[q]
  BY DEF GrantClaim, Claims, payoutVars, nodeVars, Goto, IInv, TypeOK
<1> SUFFICES ASSUME NEW k \in Key PROVE Cardinality(Claimants(k)') <= Cardinality(Redeemed(k)')
  BY DEF WorkInv
<1>2. Redeemed(k) \subseteq Redeemed(k)' /\ Redeemed(k)' \subseteq Request
      /\ Claimants(k) \subseteq Request
  BY RedeemedKept DEF Redeemed, Claimants
<1>3. /\ Cardinality(Redeemed(k)) \in Nat /\ Cardinality(Redeemed(k)') \in Nat
      /\ Cardinality(Claimants(k)) \in Nat /\ IsFiniteSet(Claimants(k))
      /\ IsFiniteSet(Redeemed(k)) /\ IsFiniteSet(Redeemed(k)')
      /\ Cardinality(Redeemed(k)) <= Cardinality(Redeemed(k)')
  BY <1>2, RequestSets
<1>4. Cardinality(Claimants(k)) <= Cardinality(Redeemed(k))
  BY DEF IInv, WorkInv
<1>5. CASE k = key[r]
  <2>1. PICK n \in Redeemed(k)' : n \notin Redeemed(k)
    BY <1>5, GrantRedeems
  <2>2. Cardinality(Redeemed(k) \cup {n}) = Cardinality(Redeemed(k)) + 1
    BY <1>3, <2>1, FS_AddElement
  <2>3. Cardinality(Redeemed(k) \cup {n}) <= Cardinality(Redeemed(k)')
    BY <1>2, <1>3, <2>1, FS_Subset
  <2>4. Claimants(k)' \subseteq Claimants(k) \cup {r}
    BY <1>1 DEF Claimants, Served
  <2>5. /\ Cardinality(Claimants(k) \cup {r}) <= Cardinality(Claimants(k)) + 1
        /\ Cardinality(Claimants(k) \cup {r}) \in Nat
    BY <1>2, <1>3, RequestSets, FS_AddElement
  <2>6. /\ Cardinality(Claimants(k)') <= Cardinality(Claimants(k) \cup {r})
        /\ Cardinality(Claimants(k)') \in Nat
    BY <1>2, <2>4, RequestSets
  <2> QED BY <1>3, <1>4, <2>2, <2>3, <2>5, <2>6
<1>6. CASE k # key[r]
  <2>1. Claimants(k)' \subseteq Claimants(k)
    BY <1>1, <1>6 DEF Claimants, Served
  <2>2. /\ Cardinality(Claimants(k)') <= Cardinality(Claimants(k))
        /\ Cardinality(Claimants(k)') \in Nat
    BY <1>2, <2>1, RequestSets
  <2> QED BY <1>3, <1>4, <2>2
<1> QED BY <1>5, <1>6

LEMMA WorkStep == ASSUME IInv, Step PROVE WorkInv'
<1> DEFINE Claimed(q) == pc[q] \in {"granted", "send"} \/ q \in Served
           NoMore == \A q \in Request : Claimed(q)' => Claimed(q)
<1>1. TypeOK /\ StageInv
  BY DEF IInv
<1>2. ASSUME NEW r \in Request,
             \/ ReadBalance(r) \/ L2BalanceFails(r) \/ RefuseGet(r) \/ RefuseClaim(r)
             \/ RejectClaim(r) \/ BurnChallenge(r) \/ RefuseAddress(r) \/ L2Fails(r)
      PROVE  NoMore
  <2>1. UNCHANGED <<accepted, tx>>
        /\ \A q \in Request : pc'[q] \in {"granted", "send"} => pc[q] \in {"granted", "send"}
    BY <1>1, <1>2
    DEF ReadBalance, L2BalanceFails, RefuseGet, RefuseClaim, RejectClaim, BurnChallenge,
        RefuseAddress, L2Fails, TypeOK, Goto, payoutVars, nodeVars
  <2> QED BY <2>1 DEF Served
<1>3. ASSUME NEW r \in Request, IssueChallenge(r) \/ TellExisting(r) PROVE NoMore
  BY <1>1, <1>3, AnswerType DEF Served, TypeOK
<1>4. ASSUME NEW r \in Request, QueuePayout(r) \/ FetchNonce(r) PROVE NoMore
  BY <1>1, <1>4
  DEF QueuePayout, Payouts!Accept, FetchNonce, Served, TypeOK, Goto, payoutVars, nodeVars
<1>5. ASSUME NEW r \in Request, SendTransaction(r) PROVE NoMore
  <2>1. pc[r] = "send" /\ accepted' = accepted
        /\ \A q \in Request : q # r => pc'[q] = pc[q] /\ (tx'[q] # "none" => tx[q] # "none")
    BY <1>1, <1>5 DEF SendTransaction, Pending, TypeOK, Goto, payoutVars
  <2> QED BY <2>1 DEF Served
<1>6. ASSUME NEW r \in Request, Mine(r) PROVE NoMore
  BY <1>1, <1>6 DEF Mine, Pending, Served, TypeOK, payoutVars
<1>7. ASSUME Evict \/ Settle \/ Restart PROVE NoMore
  <2>1. UNCHANGED <<accepted, tx>>
        /\ \A q \in Request : pc'[q] \in {"granted", "send"} => pc[q] \in {"granted", "send"}
    BY <1>7
    DEF Evict, Settle, Restart, Underway, Payouts!Pay, Payouts!Lose, payoutVars, nodeVars
  <2>2. Served' = Served
    BY <2>1 DEF Served
  <2> QED BY <2>1, <2>2
<1>8. NoMore => WorkInv'
  BY WorkFrame
<1> HIDE DEF NoMore
<1> QED BY <1>2, <1>3, <1>4, <1>5, <1>6, <1>7, <1>8, GrantKeepsWork DEF Step, Get, Claim

-----------------------------------------------------------------------------
(* The floor                                                               *)

\* What a step takes out of c's wallet was outstanding and is so no more, unless
\* it takes nothing while the balance is above the minimum.
Outlay(c) ==
  \/ \E d \in Nat : /\ Balance(c)' = Balance(c) - Settings[c].amount_per_claim * d
                    /\ Outstanding(c)' <= Outstanding(c) - d
  \/ Balance(c)' = Balance(c) /\ Balance(c) > Settings[c].min_balance

LEMMA OutlayFloor ==
  ASSUME IInv, Next, \A c \in Chain : Outlay(c) PROVE FloorInv'
<1> SUFFICES ASSUME NEW c \in Chain
             PROVE  \/ Balance(c)' = Funds[c] /\ Outstanding(c)' = 0
                    \/ /\ Outstanding(c)' <= peak'[c]
                       /\ Balance(c)' + Settings[c].amount_per_claim
                                            * (peak'[c] - Outstanding(c)')
                            > Settings[c].min_balance
  BY DEF FloorInv
<1> DEFINE a == Settings[c].amount_per_claim
           m == Settings[c].min_balance
           B == Balance(c)
           O == Outstanding(c)
           p == peak[c]
<1>1. a \in Nat /\ m \in Nat /\ Funds[c] \in Nat /\ p \in Nat
  BY AmountAssumption DEF IInv, TypeOK
<1>2. B \in Nat /\ O \in Nat /\ O' \in Nat
  BY <1>1, BalanceType, OutstandingType DEF IInv
<1>3. peak'[c] = IF O' > p THEN O' ELSE p
  BY DEF Next
<1>4. \/ \E d \in Nat : B' = B - a * d /\ O' <= O - d
      \/ B' = B /\ B > m
  BY DEF Outlay
<1>5. (B = Funds[c] /\ O = 0) \/ (O <= p /\ B + a * (p - O) > m)
  BY DEF IInv, FloorInv
<1> HIDE DEF a, m, B, O, p
<1>6. peak'[c] \in Nat /\ peak'[c] >= p /\ peak'[c] >= O'
  BY <1>1, <1>2, <1>3
<1>7. a * (peak'[c] - O') \in Int /\ a * (peak'[c] - O') >= 0
  <2>1. peak'[c] - O' \in Int /\ peak'[c] - O' >= 0
    BY <1>2, <1>6
  <2> QED BY <1>1, <2>1, Cost
<1>8. CASE B' = B /\ B > m
  BY <1>1, <1>2, <1>6, <1>7, <1>8 DEF a, m, B, O
<1>9. ASSUME NEW d \in Nat, B' = B - a * d, O' <= O - d
      PROVE  (B' = Funds[c] /\ O' = 0) \/ B' + a * (peak'[c] - O') > m
  <2>1. CASE B = Funds[c] /\ O = 0
    <3>1. d = 0 /\ O' = 0
      BY <1>2, <1>9, <2>1
    <3>2. a * d = 0
      BY <1>1, <3>1
    <3> QED BY <1>2, <1>9, <2>1, <3>1, <3>2
  <2>2. CASE O <= p /\ B + a * (p - O) > m
    <3>1. (p - O) + d \in Int /\ peak'[c] - O' \in Int /\ p - O \in Int
          /\ (p - O) + d <= peak'[c] - O'
      BY <1>1, <1>2, <1>6, <1>9
    <3>2. a * ((p - O) + d) <= a * (peak'[c] - O')
      BY <1>1, <3>1, Cost
    <3>3. a * ((p - O) + d) = a * (p - O) + a * d
      BY <1>1, <3>1, CostOfSum
    <3>4. a * (p - O) \in Int /\ a * d \in Int
      BY <1>1, <3>1, Cost
    <3> QED BY <1>1, <1>2, <1>7, <1>9, <2>2, <3>2, <3>3, <3>4
  <2> QED BY <1>5, <2>1, <2>2
<1> QED BY <1>4, <1>6, <1>8, <1>9 DEF a, m, B, O

\* Nothing more is outstanding.
LEMMA LessOutstanding ==
  ASSUME NEW c, Quoting(c)' \subseteq Quoting(c), Open(c)' \subseteq Open(c),
         NEW F \in SUBSET Unpaid(c), Unpaid(c)' \subseteq Unpaid(c) \ F
  PROVE  Cardinality(F) \in Nat /\ Outstanding(c)' <= Outstanding(c) - Cardinality(F)
<1>1. /\ Quoting(c) \subseteq Request /\ Open(c) \subseteq Key /\ Unpaid(c) \subseteq Request
      /\ Unpaid(c) \ F \subseteq Request /\ F \subseteq Request
  BY OutstandingType
<1>2. /\ Cardinality(Quoting(c)') <= Cardinality(Quoting(c))
      /\ Cardinality(Open(c)') <= Cardinality(Open(c))
      /\ Cardinality(Unpaid(c)') <= Cardinality(Unpaid(c) \ F)
  BY <1>1, RequestSets, KeySets
<1>3. /\ Cardinality(Quoting(c)') \in Nat /\ Cardinality(Quoting(c)) \in Nat
      /\ Cardinality(Open(c)') \in Nat /\ Cardinality(Open(c)) \in Nat
      /\ Cardinality(Unpaid(c)') \in Nat /\ Cardinality(Unpaid(c)) \in Nat
      /\ Cardinality(Unpaid(c) \ F) \in Nat /\ Cardinality(F) \in Nat
  BY <1>1, RequestSets, KeySets
<1>4. Cardinality(Unpaid(c) \ F) = Cardinality(Unpaid(c)) - Cardinality(F)
  <2>1. Unpaid(c) \cap F = F
    OBVIOUS
  <2>2. Cardinality(Unpaid(c) \ F) = Cardinality(Unpaid(c)) - Cardinality(Unpaid(c) \cap F)
    BY <1>1, RequestSets, FS_Difference
  <2> QED BY <2>1, <2>2
<1> QED BY <1>2, <1>3, <1>4 DEF Outstanding

LEMMA NoOutlay ==
  ASSUME IInv, NEW c \in Chain,
         Quoting(c)' \subseteq Quoting(c), Open(c)' \subseteq Open(c),
         Unpaid(c)' \subseteq Unpaid(c), Balance(c)' = Balance(c)
  PROVE  Outlay(c)
<1>1. {} \in SUBSET Unpaid(c) /\ Unpaid(c)' \subseteq Unpaid(c) \ {} /\ Cardinality({}) = 0
  BY FS_EmptySet
<1>2. Outstanding(c)' <= Outstanding(c) - 0
  BY <1>1, LessOutstanding
<1>3. Balance(c) \in Int /\ Settings[c].amount_per_claim \in Nat
  BY BalanceType, AmountAssumption DEF IInv
<1>4. Balance(c)' = Balance(c) - Settings[c].amount_per_claim * 0
  BY <1>3
<1> QED BY <1>2, <1>4 DEF Outlay

\* One thing that was outstanding has become another.
LEMMA Exchange ==
  ASSUME NEW S, NEW T, IsFiniteSet(S), IsFiniteSet(T), NEW x \in S, NEW y,
         NEW S1 \in SUBSET (S \ {x}), NEW T1 \in SUBSET (T \cup {y})
  PROVE  Cardinality(S1) + Cardinality(T1) <= Cardinality(S) + Cardinality(T)
<1>1. /\ Cardinality(S) \in Nat /\ Cardinality(T) \in Nat
      /\ Cardinality(S \ {x}) = Cardinality(S) - 1 /\ IsFiniteSet(S \ {x})
  BY FS_RemoveElement, FS_CardinalityType
<1>2. /\ IsFiniteSet(T \cup {y}) /\ Cardinality(T \cup {y}) <= Cardinality(T) + 1
      /\ Cardinality(T \cup {y}) \in Nat
  <2>1. IsFiniteSet(T \cup {y})
    BY FS_AddElement
  <2>2. Cardinality(T \cup {y}) = Cardinality(T) \/ Cardinality(T \cup {y}) = Cardinality(T) + 1
    BY FS_AddElement
  <2> QED BY <1>1, <2>1, <2>2, FS_CardinalityType
<1>3. /\ Cardinality(S1) <= Cardinality(S \ {x}) /\ Cardinality(S1) \in Nat
      /\ Cardinality(T1) <= Cardinality(T \cup {y}) /\ Cardinality(T1) \in Nat
  BY <1>1, <1>2, FS_Subset, FS_CardinalityType
<1> QED BY <1>1, <1>2, <1>3

\* What is owed to a request.
Owed(r) == pc[r] \in {"granted", "send"} \/ tx[r] = "pending" \/ r \in Held

LEMMA UnpaidOwed ==
  ASSUME NEW c
  PROVE  /\ Unpaid(c) = {r \in Request : ChainOf(r) = c /\ Owed(r)}
         /\ Unpaid(c)' = {r \in Request : ChainOf(r)' = c /\ Owed(r)'}
BY DEF Unpaid, Owed, Held

\* Steps in which nothing more is quoted, opened or owed, and nothing is spent.
LEMMA QuietOutlay ==
  ASSUME IInv, key' = key, Paid' = Paid, Mined' = Mined,
         \A q \in Request : pc'[q] = "get" => pc[q] = "get" /\ balance'[q] = balance[q],
         \A k \in Key : Gate!Claimable(k)' => Gate!Claimable(k) /\ ledger'[k] = ledger[k],
         \A q \in Request : Owed(q)' => Owed(q),
         NEW c \in Chain
  PROVE  Outlay(c)
<1>1. Quoting(c)' \subseteq Quoting(c)
  BY DEF Quoting, ChainOf
<1>2. Open(c)' \subseteq Open(c)
  BY DEF Open
<1>3. Unpaid(c)' \subseteq Unpaid(c)
  BY UnpaidOwed DEF ChainOf
<1>4. Balance(c)' = Balance(c)
  BY BalanceKept
<1> QED BY <1>1, <1>2, <1>3, <1>4, NoOutlay

LEMMA SameGate ==
  ASSUME ledger' = ledger, NEW k
  PROVE  Gate!Claimable(k)' => Gate!Claimable(k) /\ ledger'[k] = ledger[k]
BY DEF Gate!Claimable

\* The handlers that are not about a new challenge or a granted claim.
LEMMA HandlerOutlay ==
  ASSUME IInv, NEW r \in Request, NEW c \in Chain,
         \/ L2BalanceFails(r) \/ RefuseGet(r) \/ TellExisting(r)
         \/ RefuseClaim(r) \/ RejectClaim(r) \/ RefuseAddress(r) \/ QueuePayout(r)
         \/ FetchNonce(r) \/ L2Fails(r) \/ SendTransaction(r)
  PROVE  Outlay(c)
<1>1. TypeOK /\ StageInv
  BY DEF IInv
<1>2. Quiet(r) /\ key' = key /\ ledger' = ledger
  BY <1>1, QuietEffect DEF Quiet, gateVars
<1>3. Paid' = Paid /\ Mined' = Mined
  BY HandlerSpends DEF Get, Claim
<1>4. /\ pc'[r] # "get"
      /\ pc'[r] \in {"granted", "send"} => pc[r] \in {"granted", "send"}
      /\ \A q \in Request : q # r => pc'[q] = pc[q] /\ balance'[q] = balance[q]
  BY <1>1
  DEF L2BalanceFails, RefuseGet, TellExisting, Answer, RefuseClaim, RejectClaim,
      RefuseAddress, QueuePayout, FetchNonce, L2Fails, SendTransaction, TypeOK, Goto, getVars
<1>5. \A q \in Request : Owed(q)' => Owed(q)
  <2>1. CASE QueuePayout(r)
    <3>1. Held' = Held \cup {r} /\ pc[r] = "granted" /\ tx' = tx
      BY <2>1, AcceptEffect DEF QueuePayout, IInv, nodeVars
    <3> QED BY <1>4, <3>1 DEF Owed
  <2>2. CASE SendTransaction(r)
    <3>1. held' = held /\ pc[r] = "send"
          /\ \A q \in Request : q # r => (tx'[q] = "pending" => tx[q] = "pending")
      BY <2>2 DEF SendTransaction, Pending, payoutVars
    <3>2. Held' = Held
      BY <3>1 DEF Held
    <3> QED BY <1>4, <3>1, <3>2 DEF Owed
  <2>3. CASE ~QueuePayout(r) /\ ~SendTransaction(r)
    <3>1. held' = held /\ tx' = tx
      BY <2>3
      DEF L2BalanceFails, RefuseGet, TellExisting, Answer, RefuseClaim, RejectClaim,
          RefuseAddress, FetchNonce, L2Fails, payoutVars, nodeVars
    <3>2. Held' = Held
      BY <3>1 DEF Held
    <3> QED BY <1>4, <3>1, <3>2 DEF Owed
  <2> QED BY <2>1, <2>2, <2>3
<1>6. \A k \in Key : Gate!Claimable(k)' => Gate!Claimable(k) /\ ledger'[k] = ledger[k]
  BY <1>2, SameGate
<1>7. \A q \in Request : pc'[q] = "get" => pc[q] = "get" /\ balance'[q] = balance[q]
  BY <1>4
<1> QED BY <1>2, <1>3, <1>5, <1>6, <1>7, QuietOutlay

\* A get that is quoted a difficulty within the clients' Power has read a balance
\* above the minimum.
LEMMA ReadOutlay ==
  ASSUME IInv, NEW r \in Request, ReadBalance(r), NEW c \in Chain PROVE Outlay(c)
<1>1. /\ pc[r] = "new" /\ balance' = [balance EXCEPT ![r] = Balance(ChainOf(r))]
      /\ pc' = [pc EXCEPT ![r] = "get"]
      /\ UNCHANGED <<key, ledger, held, paid, accepted, tx>>
  BY DEF ReadBalance, Goto, gateVars, payoutVars, nodeVars
<1>2. Paid' = Paid /\ Mined' = Mined /\ Balance(c)' = Balance(c)
  BY HandlerSpends, BalanceKept DEF Get
<1>3. \A q \in Request : q # r => pc'[q] = pc[q] /\ balance'[q] = balance[q]
  BY <1>1 DEF IInv, TypeOK
<1>4. balance'[r] = Balance(ChainOf(r)) /\ pc'[r] = "get"
  BY <1>1 DEF IInv, TypeOK
<1>5. Open(c)' \subseteq Open(c)
  BY <1>1 DEF Open, Gate!Claimable
<1>6. Unpaid(c)' \subseteq Unpaid(c)
  BY <1>1, <1>3, <1>4 DEF Unpaid, ChainOf
<1>7. CASE r \in Quoting(c)'
  <2>1. ChainOf(r) = c /\ Quotes[c][Balance(c)] <= Power
    BY <1>1, <1>4, <1>7 DEF Quoting, ChainOf
  <2>2. Balance(c) \in 0..Funds[c]
    BY BalanceType DEF IInv
  <2>3. calculate_difficulty(Config[c], Balance(c)) <= Power
    BY <2>1, <2>2 DEF Quotes, Quote
  <2>4. ~(Balance(c) <= Settings[c].min_balance)
    <3>1. calculate_difficulty(Config[c], Balance(c)) \in Int
      BY <2>2, QuoteAssumption, AmountAssumption
    <3> QED BY <2>2, <2>3, <3>1, QuoteAssumption, PowerAssumption
  <2>5. Balance(c) > Settings[c].min_balance
    BY <2>2, <2>4, AmountAssumption
  <2> QED BY <1>2, <2>5 DEF Outlay
<1>8. CASE r \notin Quoting(c)'
  <2>1. Quoting(c)' \subseteq Quoting(c)
    BY <1>1, <1>3, <1>8 DEF Quoting, ChainOf
  <2> QED BY <1>2, <1>5, <1>6, <2>1, NoOutlay
<1> QED BY <1>7, <1>8

\* A get that draws a challenge was being quoted its difficulty.
LEMMA IssueOutlay ==
  ASSUME IInv, NEW r \in Request, IssueChallenge(r), NEW c \in Chain PROVE Outlay(c)
<1> DEFINE k == key[r]
           d == Quotes[ChainOf(r)][balance[r]]
<1>1. /\ pc[r] = "get" /\ balance' = [balance EXCEPT ![r] = 0]
      /\ pc' = [pc EXCEPT ![r] = "told"]
      /\ UNCHANGED <<key, held, paid, accepted, tx>>
  BY DEF IssueChallenge, Answer, Goto, payoutVars, nodeVars
<1>2. Paid' = Paid /\ Mined' = Mined /\ Balance(c)' = Balance(c)
  BY HandlerSpends, BalanceKept DEF Get
<1>3. /\ \A q \in Request : q # r => pc'[q] = pc[q] /\ balance'[q] = balance[q]
      /\ pc'[r] = "told"
  BY <1>1 DEF IInv, TypeOK
<1>4. /\ k \in Key /\ k[2] = ChainOf(r)
      /\ ledger'[k].difficulty = d /\ \A j \in Key : j # k => ledger'[j] = ledger[j]
  <2>1. ledger' = [ledger EXCEPT ![k] =
          [nonce |-> r, claimed |-> FALSE, expires_at |-> now + Duration[k], difficulty |-> d]]
    BY IssueEffect
  <2>2. k \in Key /\ DOMAIN ledger = Key
    BY KeyType DEF IInv, GateInv
  <2> HIDE DEF d
  <2>3. ledger'[k].difficulty = d /\ \A j \in Key : j # k => ledger'[j] = ledger[j]
    BY <2>1, <2>2
  <2> QED BY <2>2, <2>3 DEF ChainOf
<1>5. Unpaid(c)' \subseteq Unpaid(c)
  BY <1>1, <1>3 DEF Unpaid, ChainOf
<1>6. Quoting(c)' \subseteq Quoting(c) \ {r}
  BY <1>1, <1>3 DEF Quoting, ChainOf
<1>7. \A j \in Open(c)' : j \in Open(c) \/ (j = k /\ c = ChainOf(r) /\ d <= Power)
  BY <1>4 DEF Open, Gate!Claimable
<1> HIDE DEF k, d
<1>8. CASE r \in Quoting(c)
  <2>1. /\ IsFiniteSet(Quoting(c)) /\ IsFiniteSet(Open(c))
        /\ Quoting(c)' \in SUBSET (Quoting(c) \ {r}) /\ Open(c)' \in SUBSET (Open(c) \cup {k})
    BY <1>6, <1>7, OutstandingType, RequestSets, KeySets
  <2>2. Cardinality(Quoting(c)') + Cardinality(Open(c)')
          <= Cardinality(Quoting(c)) + Cardinality(Open(c))
    BY <1>8, <2>1, Exchange
  <2>3. Cardinality(Unpaid(c)') <= Cardinality(Unpaid(c))
    BY <1>5, OutstandingType, RequestSets
  <2>4. /\ Cardinality(Quoting(c)') \in Nat /\ Cardinality(Quoting(c)) \in Nat
        /\ Cardinality(Open(c)') \in Nat /\ Cardinality(Open(c)) \in Nat
        /\ Cardinality(Unpaid(c)') \in Nat /\ Cardinality(Unpaid(c)) \in Nat
    <3>1. /\ Quoting(c)' \subseteq Request /\ Open(c)' \subseteq Key
          /\ Unpaid(c)' \subseteq Request
      BY DEF Quoting, Open, Unpaid
    <3> QED BY <3>1, OutstandingType, RequestSets, KeySets
  <2>5. Outstanding(c)' <= Outstanding(c) - 0
    BY <2>2, <2>3, <2>4 DEF Outstanding
  <2>6. Balance(c)' = Balance(c) - Settings[c].amount_per_claim * 0
    BY <1>2, BalanceType, AmountAssumption DEF IInv
  <2> QED BY <2>5, <2>6 DEF Outlay
<1>9. CASE r \notin Quoting(c)
  <2>1. ~(c = ChainOf(r) /\ d <= Power)
    BY <1>1, <1>9 DEF Quoting, d
  <2> QED BY <1>2, <1>5, <1>6, <1>7, <2>1, NoOutlay
<1> QED BY <1>8, <1>9

\* A claim that is granted finds its challenge open.
LEMMA GrantOutlay ==
  ASSUME IInv, NEW r \in Request, GrantClaim(r), NEW c \in Chain PROVE Outlay(c)
<1> DEFINE k == key[r]
<1>1. /\ pc' = [pc EXCEPT ![r] = "granted"] /\ pc[r] = "new"
      /\ ledger[k] # NoChallenge /\ ~ledger[k].claimed
      /\ ledger' = [ledger EXCEPT ![k].claimed = TRUE]
      /\ Zeros(r) >= ledger[k].difficulty
      /\ UNCHANGED <<key, balance, held, paid, accepted, tx>>
  BY DEF GrantClaim, Claims, Gate!Grant, Gate!Claim, Gate!Claimable, Goto,
         payoutVars, nodeVars, getVars
<1>2. Paid' = Paid /\ Mined' = Mined /\ Balance(c)' = Balance(c)
  BY HandlerSpends, BalanceKept DEF Claim
<1>3. k \in Key /\ ledger[k] \in Challenge(k) /\ k[2] = ChainOf(r)
  BY <1>1, KeyType DEF IInv, GateInv, StoredOK, ChainOf
<1>4. pc'[r] = "granted" /\ \A q \in Request : q # r => pc'[q] = pc[q]
  BY <1>1 DEF IInv, TypeOK
<1>5. Quoting(c)' \subseteq Quoting(c)
  BY <1>1, <1>4 DEF Quoting, ChainOf
<1>6. ledger'[k].claimed /\ \A j \in Key : j # k => ledger'[j] = ledger[j]
  BY <1>1, <1>3 DEF IInv, GateInv, Challenge
<1>7. Open(c)' \subseteq Open(c) \ {k}
  BY <1>6 DEF Open, Gate!Claimable
<1>8. \A q \in Unpaid(c)' : q \in Unpaid(c) \/ (q = r /\ c = ChainOf(r))
  BY <1>1, <1>4 DEF Unpaid, ChainOf
<1>9. CASE c = ChainOf(r)
  <2>1. Zeros(r) \in 0..Power
    <3>1. solution'[r].hash \in Hash
      BY DEF GrantClaim, Claims, Submit, IInv, TypeOK
    <3> QED BY <3>1, PowerAssumption DEF Zeros
  <2>2. ledger[k].difficulty \in Int
    BY <1>3, <1>9, AmountAssumption DEF Challenge
  <2>3. k \in Open(c)
    BY <1>1, <1>3, <1>9, <2>1, <2>2, PowerAssumption DEF Open, Gate!Claimable
  <2> HIDE DEF k
  <2>4. /\ IsFiniteSet(Unpaid(c)) /\ IsFiniteSet(Open(c))
        /\ Open(c)' \in SUBSET (Open(c) \ {k}) /\ Unpaid(c)' \in SUBSET (Unpaid(c) \cup {r})
    BY <1>7, <1>8, OutstandingType, RequestSets, KeySets
  <2>5. Cardinality(Open(c)') + Cardinality(Unpaid(c)')
          <= Cardinality(Open(c)) + Cardinality(Unpaid(c))
    BY <2>3, <2>4, Exchange
  <2>6. Cardinality(Quoting(c)') <= Cardinality(Quoting(c))
    BY <1>5, OutstandingType, RequestSets
  <2>7. /\ Cardinality(Quoting(c)') \in Nat /\ Cardinality(Quoting(c)) \in Nat
        /\ Cardinality(Open(c)') \in Nat /\ Cardinality(Open(c)) \in Nat
        /\ Cardinality(Unpaid(c)') \in Nat /\ Cardinality(Unpaid(c)) \in Nat
    <3>1. /\ Quoting(c)' \subseteq Request /\ Open(c)' \subseteq Key
          /\ Unpaid(c)' \subseteq Request
      BY DEF Quoting, Open, Unpaid
    <3> QED BY <3>1, OutstandingType, RequestSets, KeySets
  <2>8. Outstanding(c)' <= Outstanding(c) - 0
    BY <2>5, <2>6, <2>7 DEF Outstanding
  <2>9. Balance(c)' = Balance(c) - Settings[c].amount_per_claim * 0
    BY <1>2, BalanceType, AmountAssumption DEF IInv
  <2> QED BY <2>8, <2>9 DEF Outlay
<1>10. CASE c # ChainOf(r)
  BY <1>2, <1>5, <1>7, <1>8, <1>10, NoOutlay
<1> QED BY <1>9, <1>10

\* A batch pays some that were held.
LEMMA PayOutlay ==
  ASSUME IInv, NEW n \in 1..Len(held), Payouts!Pay(n),
         UNCHANGED <<gateVars, pc, key, getVars, solution, nodeVars>>,
         NEW c \in Chain
  PROVE  Outlay(c)
<1>1. UNCHANGED <<ledger, pc, key, balance, tx>>
  BY DEF gateVars, getVars, nodeVars
<1>2. PICK F \in SUBSET Held :
        Paid' = Paid \cup F /\ F \cap Paid = {} /\ Held' \subseteq Held \ F
  BY PayEffect DEF IInv
<1>3. Quoting(c)' \subseteq Quoting(c) /\ Open(c)' \subseteq Open(c)
  BY <1>1 DEF Quoting, Open, ChainOf, Gate!Claimable
<1>4. Mined' = Mined
  BY <1>1 DEF Mined
<1>5. F \subseteq Request /\ \A r \in F : ChainOf(r) = "L1" /\ pc[r] = "ok" /\ tx[r] = "none"
  BY HeldAccepted DEF IInv, StageInv
<1>6. CASE c = "L1"
  <2>1. F \in SUBSET Unpaid(c)
    BY <1>5, <1>6, UnpaidOwed DEF Owed
  <2>2. Unpaid(c)' \subseteq Unpaid(c) \ F
    BY <1>1, <1>2, <1>5, UnpaidOwed DEF Owed, ChainOf
  <2>3. Cardinality(F) \in Nat /\ Outstanding(c)' <= Outstanding(c) - Cardinality(F)
    BY <1>3, <2>1, <2>2, LessOutstanding
  <2>4. Balance(c)' = Balance(c) - Settings[c].amount_per_claim * Cardinality(F)
    BY <1>2, <1>5, <1>6, BalanceAfter DEF IInv
  <2> QED BY <2>3, <2>4 DEF Outlay
<1>7. CASE c # "L1"
  <2>1. Unpaid(c)' \subseteq Unpaid(c)
    BY <1>1, <1>2, UnpaidOwed DEF Owed, ChainOf
  <2>2. Balance(c)' = Balance(c)
    BY <1>4, <1>7, BalanceKept
  <2> QED BY <1>3, <2>1, <2>2, NoOutlay
<1> QED BY <1>6, <1>7

\* A transaction that is mined was pending.
LEMMA MineOutlay ==
  ASSUME IInv, NEW r \in Request, Mine(r), NEW c \in Chain PROVE Outlay(c)
<1>1. /\ UNCHANGED <<ledger, pc, key, balance, held>>
      /\ tx'[r] = "mined" /\ \A q \in Request : q # r => tx'[q] = tx[q]
  BY DEF Mine, gateVars, getVars, payoutVars, IInv, TypeOK
<1>2. Quoting(c)' \subseteq Quoting(c) /\ Open(c)' \subseteq Open(c)
  BY <1>1 DEF Quoting, Open, ChainOf, Gate!Claimable
<1>3. /\ r \in Pending \ Mined
      /\ Paid' = Paid /\ Mined' = Mined \cup {r}
  BY MineSpends
<1>4. ChainOf(r) = "L2" /\ pc[r] \in {"ok", "error"} /\ tx[r] = "pending"
  BY <1>3 DEF Pending, IInv, StageInv
<1>5. r \notin Held /\ Held' = Held
  BY <1>1, <1>4, HeldAccepted DEF Held, IInv, StageInv
<1>6. Unpaid(c)' \subseteq Unpaid(c) \ {r}
  BY <1>1, <1>4, <1>5, UnpaidOwed DEF Owed, ChainOf
<1>7. CASE c = "L2"
  <2>1. {r} \in SUBSET Unpaid(c) /\ Cardinality({r}) = 1
    <3>1. r \in Unpaid(c)
      BY <1>4, <1>7, UnpaidOwed DEF Owed
    <3> QED BY <3>1, FS_Singleton
  <2>2. Outstanding(c)' <= Outstanding(c) - 1
    BY <1>2, <1>6, <2>1, LessOutstanding
  <2>3. Balance(c)' = Balance(c) - Settings[c].amount_per_claim * 1
    <3>1. {r} \in SUBSET Request /\ {r} \cap Mined = {} /\ c # "L1"
      BY <1>3, <1>7
    <3>2. Balance(c)' = Balance(c) - Settings[c].amount_per_claim * Cardinality({r})
      BY <1>3, <3>1, BalanceAfter DEF IInv
    <3> QED BY <2>1, <3>2
  <2> QED BY <2>2, <2>3 DEF Outlay
<1>8. CASE c # "L2"
  <2>1. Balance(c)' = Balance(c)
    BY <1>3, <1>8, BalanceKept DEF Chain
  <2> QED BY <1>2, <1>6, <2>1, NoOutlay
<1> QED BY <1>7, <1>8

\* What uses up a challenge, or loses one, or loses requests.
LEMMA LossOutlay ==
  ASSUME IInv, NEW c \in Chain,
         \/ \E r \in Request : BurnChallenge(r)
         \/ Evict
         \/ /\ \E i, j \in 1..(Len(held) + 1) : i < j /\ Payouts!Lose(i, j)
            /\ UNCHANGED <<gateVars, pc, key, getVars, solution, nodeVars>>
         \/ Restart
  PROVE  Outlay(c)
<1> DEFINE NoMore ==
      /\ key' = key
      /\ \A q \in Request : pc'[q] = "get" => pc[q] = "get" /\ balance'[q] = balance[q]
      /\ \A k \in Key : Gate!Claimable(k)' => Gate!Claimable(k) /\ ledger'[k] = ledger[k]
      /\ \A q \in Request : Owed(q)' => Owed(q)
<1>1. TypeOK /\ DOMAIN ledger = Key
  BY DEF IInv, GateInv
<1>2. Paid' = Paid /\ Mined' = Mined
  BY HandlerSpends, OtherSpends DEF Claim
<1>3. NoMore => Outlay(c)
  BY <1>2, QuietOutlay
<1>4. ASSUME NEW r \in Request, BurnChallenge(r) PROVE NoMore
  <2>1. /\ UNCHANGED <<key, balance, held, tx>> /\ pc[r] = "new" /\ Goto(r, "rejected")
        /\ ledger' = [ledger EXCEPT ![key[r]].claimed = TRUE] /\ ledger[key[r]] # NoChallenge
    BY <1>4
    DEF BurnChallenge, Claims, Gate!Burn, Gate!Claim, Gate!Claimable, payoutVars, getVars, nodeVars
  <2>2. /\ pc'[r] = "rejected" /\ \A q \in Request : q # r => pc'[q] = pc[q]
    BY <1>1, <2>1 DEF TypeOK, Goto
  <2>3. ledger'[key[r]].claimed /\ \A k \in Key : k # key[r] => ledger'[k] = ledger[k]
    BY <1>1, <2>1, KeyType DEF IInv, GateInv, StoredOK, Challenge
  <2>4. \A k \in Key : Gate!Claimable(k)' => Gate!Claimable(k) /\ ledger'[k] = ledger[k]
    BY <2>3 DEF Gate!Claimable
  <2>5. \A q \in Request : Owed(q)' => Owed(q)
    BY <2>1, <2>2 DEF Owed, Held
  <2> QED BY <2>1, <2>2, <2>4, <2>5
<1>5. ASSUME Evict PROVE NoMore
  <2>1. UNCHANGED <<pc, key, balance, held, tx>>
        /\ \A k \in Key : ledger'[k] \in {ledger[k], NoChallenge}
    BY <1>1, <1>5 DEF Evict, Gate!Pass, Gate!Expire, payoutVars, getVars, nodeVars
  <2>2. \A q \in Request : Owed(q)' => Owed(q)
    BY <2>1 DEF Owed, Held
  <2> QED BY <2>1, <2>2 DEF Gate!Claimable
<1>6. ASSUME NEW i \in 1..(Len(held) + 1), NEW j \in 1..(Len(held) + 1), i < j,
             Payouts!Lose(i, j),
             UNCHANGED <<gateVars, pc, key, getVars, solution, nodeVars>>
      PROVE  NoMore
  <2>1. UNCHANGED <<pc, key, balance, ledger, tx>> /\ Held' \subseteq Held
    BY <1>6, LoseEffect DEF gateVars, getVars, nodeVars, IInv
  <2>2. \A q \in Request : Owed(q)' => Owed(q)
    BY <2>1 DEF Owed
  <2> QED BY <2>1, <2>2, SameGate
<1>7. ASSUME Restart PROVE NoMore
  <2>1. /\ UNCHANGED <<key, tx>> /\ held' = <<>>
        /\ \A q \in Request : pc'[q] \notin {"get", "granted", "send"}
        /\ \A k \in Key : ledger'[k] = NoChallenge
    BY <1>7 DEF Restart, Underway, nodeVars
  <2>2. \A q \in Request : Owed(q)' => Owed(q)
    BY <2>1 DEF Owed, Held
  <2> QED BY <2>1, <2>2 DEF Gate!Claimable
<1> HIDE DEF NoMore
<1> QED BY <1>3, <1>4, <1>5, <1>6, <1>7

LEMMA FloorStep == ASSUME IInv, Next PROVE FloorInv'
<1> SUFFICES ASSUME NEW c \in Chain PROVE Outlay(c)
  BY OutlayFloor
<1>1. Step
  BY DEF Next
<1>2. ASSUME NEW r \in Request, Get(r) PROVE Outlay(c)
  BY <1>2, ReadOutlay, IssueOutlay, HandlerOutlay DEF Get
<1>3. ASSUME NEW r \in Request, Claim(r) PROVE Outlay(c)
  BY <1>3, GrantOutlay, LossOutlay, HandlerOutlay DEF Claim
<1>4. CASE Settle
  BY <1>4, PayOutlay, LossOutlay DEF Settle
<1> QED BY <1>1, <1>2, <1>3, <1>4, MineOutlay, LossOutlay DEF Step

-----------------------------------------------------------------------------
(* The invariant and what follows from it                                  *)

LEMMA Inductive == IInv /\ [Next]_vars => IInv'
<1> SUFFICES ASSUME IInv, [Next]_vars PROVE IInv'
  OBVIOUS
<1>1. CASE Next
  <2>1. Step /\ peak' \in [Chain -> Nat]
    BY <1>1, OutstandingType DEF Next, IInv, TypeOK
  <2> QED BY <1>1, <2>1, TypeStep, PayoutStep, GateStep, StageStep, FundsStep, WorkStep,
             NonceStep, FloorStep DEF IInv
<1>2. CASE UNCHANGED vars
  <2> USE <1>2 DEF vars, stepVars, gateVars, payoutVars, getVars, nodeVars
  <2>1. TypeOK' /\ StageInv'
    BY DEF IInv, TypeOK, StageInv, ChainOf
  <2>2. PayoutProofs!LedgerInv'
    BY PayoutProofs!LedgerInvStep DEF IInv, PayoutProofs!ledgerVars
  <2>3. GateInv'
    BY DEF IInv, GateInv, StoredOK
  <2>4. Paid' = Paid /\ Mined' = Mined /\ Pending' = Pending /\ OnNode' = OnNode
        /\ Served' = Served
    BY DEF Paid, Mined, Pending, OnNode, Served
  <2>5. FundsInv' /\ NonceInv'
    BY <2>4, FundsFrame DEF IInv, NonceInv
  <2>6. WorkInv'
    <3>1. \A k \in Key : Claimants(k)' = Claimants(k) /\ Redeemed(k)' = Redeemed(k)
      BY <2>4 DEF Claimants, Redeemed
    <3> QED BY <3>1 DEF IInv, WorkInv
  <2>7. FloorInv'
    <3>1. \A c \in Chain : Balance(c)' = Balance(c) /\ Outstanding(c)' = Outstanding(c)
      BY <2>4, BalanceKept
      DEF Outstanding, Quoting, Open, Unpaid, ChainOf, Gate!Claimable
    <3> QED BY <3>1 DEF IInv, FloorInv
  <2> QED BY <2>1, <2>2, <2>3, <2>5, <2>6, <2>7 DEF IInv
<1> QED BY <1>1, <1>2

\* The inductive invariant holds of every behaviour of the faucet.
THEOREM Invariance == Spec => []IInv
BY Initially, Inductive, PTL DEF Spec

\* The types: what a client is told is a challenge within its chain's
\* difficulties (get_pow_challenge), and a balance is never negative.
THEOREM TypeCorrect == Spec => []TypeOK
<1>1. IInv => TypeOK
  BY DEF IInv
<1> QED BY <1>1, Invariance, PTL

\* claim_l1, claim_l2: no client is served more often than it has shown the work
\* that it was told of, each time for a challenge of its own.
THEOREM WorkPaid == Spec => []PaidForWork
<1>1. IInv => PaidForWork
  <2> SUFFICES ASSUME IInv, NEW k \in Key
               PROVE  Cardinality(ServedAt(k)) <= Cardinality(Redeemed(k))
    BY DEF PaidForWork
  <2>1. /\ ServedAt(k) \subseteq Claimants(k) /\ Claimants(k) \subseteq Request
        /\ Redeemed(k) \subseteq Request
    BY DEF ServedAt, Claimants, Served, Redeemed, IInv, TypeOK
  <2>2. Cardinality(ServedAt(k)) <= Cardinality(Claimants(k))
    BY <2>1, RequestSets
  <2>3. /\ Cardinality(ServedAt(k)) \in Nat /\ Cardinality(Claimants(k)) \in Nat
        /\ Cardinality(Redeemed(k)) \in Nat
    BY <2>1, RequestSets
  <2> QED BY <2>2, <2>3 DEF IInv, WorkInv
<1> QED BY <1>1, Invariance, PTL

\* claim_l2: the L2 node can mine every transaction that it has taken.
THEOREM NoGap == Spec => []NoNonceGap
<1>1. IInv => NoNonceGap
  BY DEF IInv, NonceInv, NoNonceGap, Pending
<1> QED BY <1>1, Invariance, PTL

\* calculate_difficulty, as get_pow_challenge uses it: a balance stays above the
\* minimum but for what was outstanding at the same time.
THEOREM Floor == Spec => []BalanceFloor
<1>1. IInv => BalanceFloor
  <2> SUFFICES ASSUME IInv, NEW c \in Chain, Balance(c) # Funds[c]
               PROVE  Balance(c) + Settings[c].amount_per_claim * peak[c]
                        > Settings[c].min_balance
    BY DEF BalanceFloor
  <2> DEFINE a == Settings[c].amount_per_claim
             m == Settings[c].min_balance
             o == Outstanding(c)
             p == peak[c]
  <2>1. a \in Nat /\ m \in Nat /\ o \in Nat /\ p \in Nat /\ Balance(c) \in Int
    BY AmountAssumption, OutstandingType, BalanceType DEF IInv, TypeOK
  <2>2. o <= p /\ Balance(c) + a * (p - o) > m
    BY DEF IInv, FloorInv
  <2> HIDE DEF a, m, o, p
  <2>3. a * (p - o) <= a * p /\ a * (p - o) \in Int /\ a * p \in Int
    <3>1. p - o \in Int /\ p - o <= p
      BY <2>1
    <3> QED BY <2>1, <3>1, Cost
  <2>4. Balance(c) + a * p > m
    BY <2>1, <2>2, <2>3
  <2> QED BY <2>4 DEF a, m, p
<1> QED BY <1>1, Invariance, PTL
-----------------------------------------------------------------------------
(* Counting zeros                                                          *)

\* A byte that is not zero has a first 1, below the power that it is less than.
LEMMA LeadingZerosIs ==
  ASSUME NEW byte \in AByte \ {0}
  PROVE  /\ LeadingZerosOf(byte) \in 0..(ByteBits - 1)
         /\ TwoTo[ByteBits - 1 - LeadingZerosOf(byte)] <= byte
         /\ byte < 2 * TwoTo[ByteBits - 1 - LeadingZerosOf(byte)]
<1> DEFINE z == LeadingZerosOf(byte)
           Is(x) == TwoTo[ByteBits - x] <= 2 * byte /\ byte < TwoTo[ByteBits - x]
           Above == {n \in 0..ByteBits : byte < TwoTo[n]}
<1>1. ByteBits \in Nat \ {0} /\ byte \in Nat \ {0}
  BY WidthAssumption, TwoToGrows DEF AByte
<1>2. Above # {} /\ Above \in SUBSET Nat
  <2>1. ByteBits \in 0..ByteBits /\ TwoTo[ByteBits] \in Nat
    BY <1>1, TwoToGrows
  <2>2. byte < TwoTo[ByteBits]
    BY <2>1 DEF AByte
  <2> QED BY <2>1, <2>2
<1>3. PICK n \in Above : \A k \in Above : n <= k
  <2> HIDE DEF Above
  <2> QED BY <1>2, LeastElement
<1>4. n \in 1..ByteBits
  BY <1>1, <1>3, TwoToIs
<1>5. TwoTo[n] = 2 * TwoTo[n - 1] /\ n - 1 \in 0..ByteBits /\ TwoTo[n - 1] \in Nat
  BY <1>1, <1>4, TwoToIs, TwoToGrows
<1>6. TwoTo[n - 1] <= byte
  <2>1. n - 1 \notin Above
    BY <1>3, <1>4
  <2> QED BY <1>1, <1>5, <2>1
<1>7. ByteBits - n \in 0..ByteBits /\ Is(ByteBits - n)
  <2>1. ByteBits - (ByteBits - n) = n
    BY <1>1, <1>4
  <2> QED BY <1>1, <1>3, <1>4, <1>5, <1>6, <2>1
<1>8. z = CHOOSE x \in 0..ByteBits : Is(x)
  BY Zenon DEF LeadingZerosOf
<1>9. z \in 0..ByteBits /\ Is(z)
  <2> HIDE DEF Is, z
  <2> QED BY <1>7, <1>8, Zenon
<1> HIDE DEF z
<1>10. z # ByteBits
  <2>1. z = ByteBits => ByteBits - z = 0
    BY <1>1
  <2> QED BY <1>1, <1>9, <2>1, TwoToIs
<1>11. TwoTo[ByteBits - z] = 2 * TwoTo[ByteBits - 1 - z] /\ TwoTo[ByteBits - 1 - z] \in Nat
  <2>1. /\ ByteBits - z \in 1..ByteBits /\ (ByteBits - z) - 1 = ByteBits - 1 - z
        /\ ByteBits - 1 - z \in 0..ByteBits
    BY <1>1, <1>9, <1>10
  <2> QED BY <2>1, TwoToIs, TwoToGrows
<1>12. z \in 0..(ByteBits - 1)
  BY <1>1, <1>9, <1>10
<1>13. TwoTo[ByteBits - 1 - z] <= byte /\ byte < 2 * TwoTo[ByteBits - 1 - z]
  BY <1>1, <1>9, <1>11
<1> QED BY <1>12, <1>13 DEF z

LEMMA Quotient ==
  ASSUME NEW n \in Nat, NEW d \in Nat \ {0}
  PROVE  /\ n < d => (n \div d) % 2 = 0
         /\ d <= n /\ n < 2 * d => (n \div d) % 2 = 1
<1> DEFINE q == n \div d
<1>1. q \in Nat /\ d * q <= n /\ n < d * q + d
  OBVIOUS
<1> HIDE DEF q
<1>2. n < d => q = 0
  BY <1>1
<1>3. d <= n /\ n < 2 * d => q = 1
  BY <1>1
<1>4. 0 % 2 = 0 /\ 1 % 2 = 1
  OBVIOUS
<1> QED BY <1>2, <1>3, <1>4 DEF q

\* The position of the first 1 in a byte's digits is its count of leading zeros.
LEMMA FirstOne ==
  ASSUME NEW byte \in AByte \ {0}
  PROVE  IndexOf1(byte) = LeadingZerosOf(byte)
<1> DEFINE z == LeadingZerosOf(byte)
           Is(i) == Digit(byte, i) = 1 /\ \A j \in 0..(i - 1) : Digit(byte, j) = 0
<1>1. ByteBits \in Nat \ {0} /\ byte \in Nat \ {0}
  BY WidthAssumption, TwoToGrows DEF AByte
<1>2. /\ z \in 0..(ByteBits - 1)
      /\ TwoTo[ByteBits - 1 - z] <= byte /\ byte < 2 * TwoTo[ByteBits - 1 - z]
  BY LeadingZerosIs
<1> HIDE DEF z
<1>3. Digit(byte, z) = 1
  <2>1. ByteBits - 1 - z \in 0..ByteBits
    BY <1>1, <1>2
  <2> QED BY <1>1, <1>2, <2>1, TwoToGrows, Quotient DEF Digit
<1>4. ASSUME NEW j \in 0..(z - 1) PROVE Digit(byte, j) = 0
  <2>1. /\ ByteBits - 1 - j \in 0..ByteBits /\ ByteBits - z \in 0..(ByteBits - 1 - j)
        /\ ByteBits - z \in 1..ByteBits /\ (ByteBits - z) - 1 = ByteBits - 1 - z
    BY <1>1, <1>2
  <2>2. TwoTo[ByteBits - z] = 2 * TwoTo[ByteBits - 1 - z]
    BY <2>1, TwoToIs
  <2>3. /\ TwoTo[ByteBits - 1 - j] \in Nat \ {0} /\ TwoTo[ByteBits - z] \in Nat
        /\ TwoTo[ByteBits - z] <= TwoTo[ByteBits - 1 - j]
    BY <2>1, TwoToGrows
  <2>4. byte < TwoTo[ByteBits - 1 - j]
    BY <1>1, <1>2, <2>2, <2>3
  <2> QED BY <1>1, <2>3, <2>4, Quotient DEF Digit
<1>5. Is(z)
  BY <1>3, <1>4
<1>6. ASSUME NEW i \in 0..(ByteBits - 1), Is(i) PROVE i = z
  <2>1. i < z => Digit(byte, i) = 0
    BY <1>2, <1>4
  <2>2. z < i => Digit(byte, z) = 0
    BY <1>2, <1>6
  <2>3. i < z \/ z < i \/ i = z
    BY <1>1, <1>2
  <2> HIDE DEF Digit
  <2> QED BY <1>3, <1>6, <2>1, <2>2, <2>3
<1>7. IndexOf1(byte) = CHOOSE i \in 0..(ByteBits - 1) : Is(i)
  BY Zenon DEF IndexOf1
<1>8. IndexOf1(byte) \in 0..(ByteBits - 1) /\ Is(IndexOf1(byte))
  <2> HIDE DEF Is
  <2> QED BY <1>2, <1>5, <1>7, Zenon
<1> QED BY <1>6, <1>8 DEF z
LEMMA ZeroBytesIs ==
  ASSUME NEW h \in Seq(AByte)
  PROVE  /\ ZeroBytes(h) \in 0..Len(h)
         /\ ZeroBytes(h) = Len(h) \/ h[ZeroBytes(h) + 1] # 0
<1> DEFINE Ends == {n \in 0..Len(h) : n = Len(h) \/ h[n + 1] # 0}
           Is(n) == (\A i \in 1..n : h[i] = 0) /\ (n = Len(h) \/ h[n + 1] # 0)
<1>1. Len(h) \in Nat
  OBVIOUS
<1>2. Ends # {} /\ Ends \in SUBSET Nat
  BY <1>1
<1>3. PICK n \in Ends : \A m \in Ends : n <= m
  <2> HIDE DEF Ends
  <2> QED BY <1>2, LeastElement
<1>4. ASSUME NEW i \in 1..n PROVE h[i] = 0
  <2>1. i - 1 \in 0..Len(h) /\ i - 1 < n /\ (i - 1) + 1 = i
    BY <1>1, <1>3
  <2>2. i - 1 \notin Ends
    <3>1. i - 1 \in Int /\ n \in Int /\ ~(n <= i - 1)
      BY <1>1, <1>3, <2>1
    <3> HIDE DEF Ends
    <3> QED BY <1>3, <3>1
  <2> QED BY <2>1, <2>2
<1>5. n \in 0..Len(h) /\ Is(n)
  BY <1>3, <1>4
<1>6. ZeroBytes(h) = CHOOSE m \in 0..Len(h) : Is(m)
  BY Zenon DEF ZeroBytes
<1>7. ZeroBytes(h) \in 0..Len(h) /\ Is(ZeroBytes(h))
  <2> HIDE DEF Is
  <2> QED BY <1>5, <1>6, Zenon
<1> QED BY <1>7

\* The JavaScript client counts as the server does, whose counter only wraps at a
\* hash of zeros.
LEMMA SameCount ==
  ASSUME NEW h \in Hash, ~IsZero(h)
  PROVE  count_leading_zeros(h) = countLeadingZeros(h) /\ countLeadingZeros(h) \in Nat
<1> DEFINE n == ZeroBytes(h)
           z == LeadingZerosOf(Stop(h))
<1>1. /\ h \in Seq(AByte) /\ Len(h) \in Nat /\ ByteBits * Len(h) <= CounterLimit
      /\ ByteBits \in Nat \ {0} /\ CounterLimit \in Nat \ {0}
  BY HashAssumption, WidthAssumption
<1>2. n \in 0..(Len(h) - 1) /\ h[n + 1] # 0
  BY <1>1, ZeroBytesIs DEF IsZero
<1>3. Stop(h) \in AByte \ {0}
  <2>1. n + 1 \in 1..Len(h)
    BY <1>1, <1>2
  <2> QED BY <1>1, <1>2, <2>1 DEF Stop
<1>4. z \in 0..(ByteBits - 1) /\ IndexOf1(Stop(h)) = z
  BY <1>3, LeadingZerosIs, FirstOne
<1>5. /\ count_leading_zeros(h) = (ByteBits * n + z) % CounterLimit
      /\ countLeadingZeros(h) = ByteBits * n + z
  BY <1>4 DEF count_leading_zeros, countLeadingZeros
<1> HIDE DEF n, z
<1>6. ByteBits * n + z \in Nat /\ ByteBits * n + z < CounterLimit
  <2>1. ByteBits * n + ByteBits = ByteBits * (n + 1)
    BY <1>1, <1>2
  <2>2. ByteBits * (n + 1) <= ByteBits * Len(h)
    BY <1>1, <1>2
  <2>3. ByteBits * n \in Nat
    BY <1>1, <1>2
  <2>4. ByteBits * Len(h) \in Nat
    BY <1>1
  <2> QED BY <1>1, <1>4, <2>1, <2>2, <2>3, <2>4
<1>7. \A x \in Nat, c \in Nat : x < c => x % c = x
  OBVIOUS
<1> QED BY <1>1, <1>5, <1>6, <1>7

\* check_solution, solver.js: the JavaScript client is not refused for a solution
\* that its own count accepts, however wide a byte and however long a hash is.
THEOREM JsServed == Spec => JsSolverServed
<1>1. ASSUME TypeOK, [Next]_vars, NEW r \in Request,
             pc[r] = "new", pc'[r] = "rejected", Gate!Claimable(key[r]),
             solution'[r].nonce = ledger[key[r]].nonce, ~IsZero(solution'[r].hash)
      PROVE  countLeadingZeros(solution'[r].hash) < ledger[key[r]].difficulty
  <2>1. BurnChallenge(r)
    <3> USE DEF TypeOK, Goto
    <3>1. Step
      BY <1>1 DEF Next, vars, stepVars
    <3>2. ~(pc' = pc)
      BY <1>1
    <3>3. ~Restart
      BY <1>1 DEF Restart, Underway
    <3>4. PICK q \in Request : Get(q) \/ Claim(q)
      <4>1. \A q \in Request : Mine(q) => pc' = pc
        BY DEF Mine, stepVars
      <4>2. Evict \/ Settle => pc' = pc
        BY DEF Evict, Settle
      <4> QED BY <3>1, <3>2, <3>3, <4>1, <4>2 DEF Step
    <3>5. ASSUME NEW label, Goto(q, label) PROVE q = r /\ label = "rejected"
      BY <1>1, <3>5
    <3>6. \/ RejectClaim(q) \/ BurnChallenge(q)
          \/ Get(q) \/ RefuseClaim(q) \/ GrantClaim(q)
          \/ RefuseAddress(q) \/ QueuePayout(q)
          \/ FetchNonce(q) \/ L2Fails(q) \/ SendTransaction(q)
      BY <3>4 DEF Claim
    <3> HIDE DEF Goto
    <3>7. ~Get(q)
      BY <3>5 DEF Get, ReadBalance, L2BalanceFails, RefuseGet, IssueChallenge, TellExisting, Answer
    <3>8. /\ ~RefuseClaim(q) /\ ~GrantClaim(q) /\ ~RefuseAddress(q) /\ ~QueuePayout(q)
          /\ ~FetchNonce(q) /\ ~L2Fails(q) /\ ~SendTransaction(q)
      BY <3>5 DEF RefuseClaim, GrantClaim, RefuseAddress, QueuePayout, FetchNonce,
        L2Fails, SendTransaction
    <3>9. RejectClaim(q) \/ BurnChallenge(q) => q = r
      BY <3>5 DEF RejectClaim, BurnChallenge
    <3>10. ~RejectClaim(r)
      BY <1>1 DEF RejectClaim
    <3> QED BY <3>6, <3>7, <3>8, <3>9, <3>10
  <2>2. Zeros(r) = count_leading_zeros(solution'[r].hash) /\ Zeros(r) < ledger[key[r]].difficulty
    BY <1>1, <2>1 DEF BurnChallenge, Zeros
  <2>3. solution'[r].hash \in Hash
    <3>1. PICK n \in {r} \cup {told[q].nonce : q \in {q \in Request : pc[q] = "told"}},
                h \in Hash : solution' = [solution EXCEPT ![r] = [nonce |-> n, hash |-> h]]
      BY <2>1 DEF BurnChallenge, Claims, Submit
    <3> QED BY <1>1, <3>1 DEF TypeOK
  <2> QED BY <1>1, <2>2, <2>3, SameCount
<1>2. TypeOK /\ [Next]_vars =>
        \A r \in Request :
          LET s == solution'[r] IN
          pc[r] = "new" /\ pc'[r] = "rejected" /\ Gate!Claimable(key[r])
            => \/ s.nonce # ledger[key[r]].nonce
               \/ countLeadingZeros(s.hash) < ledger[key[r]].difficulty
               \/ IsZero(s.hash)
  BY <1>1
<1> QED BY <1>2, TypeCorrect, PTL DEF Spec, JsSolverServed
=============================================================================
