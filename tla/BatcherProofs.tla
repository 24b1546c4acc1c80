---------------------------- MODULE BatcherProofs ----------------------------
(***************************************************************************)
(* Proofs about module Batcher, for any requests, coins, bounds and        *)
(* environment: its types and bounds, that it implements PayoutLedger,     *)
(* that no request is paid twice, and what the wallet does not forget.     *)
(***************************************************************************)
EXTENDS Batcher, WalletProofs

LedgerProofs == INSTANCE PayoutLedgerProofs WITH
  accepted <- Accepted, held <- Held, paid <- Paid

\* Transactions are built in the order of their numbers, and pay somebody only
\* once they are built.
BuiltInOrder ==
  /\ \E n \in 0..MaxTx : \A t \in Tx : Built(t) <=> t <= n
  /\ \A t \in Tx : ~Built(t) => payees[t] = <<>>

IInv == TypeOK /\ BuiltInOrder

-----------------------------------------------------------------------------
(* Types                                                                   *)

LEMMA MoneyType == Canonical \subseteq Tx /\ Spendable \subseteq Coin
BY DEF Canonical, Spendable, UnspentAfter

LEMMA NumToDequeType ==
  ASSUME l1_payout_queue \in Seq(Request), l1_payout_queue # <<>>
  PROVE  NumToDeque \in 1..Len(l1_payout_queue) /\ NumToDeque <= MaxPerTx
<1>1. Len(l1_payout_queue) \in Nat \ {0}
  BY EmptySeq
<1> QED BY <1>1, ConfigAssumption DEF NumToDeque

LEMMA QueueSlices ==
  ASSUME l1_payout_queue \in Seq(Request), l1_payout_queue # <<>>
  PROVE  /\ Batch \in Seq(Request)
         /\ DrainBatch => /\ l1_payout_queue' \in Seq(Request)
                          /\ Len(l1_payout_queue') <= Len(l1_payout_queue)
<1> DEFINE q == l1_payout_queue
           n == NumToDeque
<1>1. Len(q) \in Nat /\ n \in 1..Len(q) /\ \A i \in 1..Len(q) : q[i] \in Request
  BY NumToDequeType, LenProperties, ElementOfSeq
<1>2. Batch \in Seq(Request)
  BY <1>1, SubSeqProperties DEF Batch
<1>3. /\ SubSeq(q, n + 1, Len(q)) \in Seq(Request)
      /\ Len(SubSeq(q, n + 1, Len(q))) =
           IF n + 1 <= Len(q) THEN Len(q) - (n + 1) + 1 ELSE 0
  <2> HIDE DEF n
  <2>1. n + 1 \in Int /\ Len(q) \in Int /\ \A i \in (n + 1)..Len(q) : q[i] \in Request
    BY <1>1
  <2> QED BY <2>1, SubSeqProperties
<1>4. Len(SubSeq(q, n + 1, Len(q))) <= Len(q)
  <2> HIDE DEF n, q
  <2> QED BY <1>1, <1>3
<1> QED BY <1>2, <1>3, <1>4 DEF DrainBatch

\* The network and the wallet keep their types.
LEMMA WalletTypeStep ==
  ASSUME TypeOK, WalletOrNetwork PROVE WalletTypeOK'
<1> USE DEF TypeOK, WalletTypeOK, networkVars, graphVars, syncVars, walletVars
<1>1. MaxTime \in Nat /\ MaxTx \in Nat /\ now \in 1..MaxTime /\ now \in 0..MaxTime
  BY BoundsAssumption
<1>2. NoUpdate \in Update
  BY <1>1 DEF Update, NoUpdate
<1>3. CASE BuildSyncRequest
  <2>1. update' \in Update
    BY <1>1, <1>3, MoneyType DEF BuildSyncRequest, Update
  <2> QED BY <1>3, <2>1 DEF BuildSyncRequest
<1>4. CASE FetchUpdate
  <2>1. update' \in Update
    BY <1>4 DEF FetchUpdate, Update
  <2> QED BY <1>4, <2>1 DEF FetchUpdate
<1>5. CASE FetchFails
  BY <1>2, <1>5 DEF FetchFails
<1>6. CASE ApplyUpdate
  <2>1. update.at \in Nat /\ update.confirmed \subseteq Tx
    BY DEF Update
  <2>2. last_seen' \in [Tx -> Nat] /\ last_evicted' \in [Tx -> Nat]
    BY <1>6, <2>1 DEF ApplyUpdate, Later
  <2> QED BY <1>2, <1>6, <2>1, <2>2 DEF ApplyUpdate
<1>7. CASE PassSecond
  <2>1. now' \in 1..MaxTime
    BY <1>1, <1>7 DEF PassSecond
  <2> QED BY <1>7, <2>1 DEF PassSecond
<1>8. ASSUME NEW t \in Tx, Confirm(t) PROVE WalletTypeOK'
  BY <1>8 DEF Confirm
<1> QED BY <1>3, <1>4, <1>5, <1>6, <1>7, <1>8 DEF WalletOrNetwork, Alone

LEMMA TypeStep == TypeOK /\ [Next]_vars => TypeOK'
<1> SUFFICES ASSUME TypeOK, [Next]_vars PROVE TypeOK'
  OBVIOUS
<1> USE DEF TypeOK, queueVars, batchVars
<1>1. ASSUME NEW r \in Request, QueuePayoutRequest(r) PROVE TypeOK'
  <2>1. channel' \in Seq(Request)
    BY <1>1, AppendProperties DEF QueuePayoutRequest
  <2> QED BY <1>1, <2>1 DEF QueuePayoutRequest, WalletTypeOK, walletVars, networkVars, graphVars, syncVars
<1>2. ASSUME NEW r \in Request, QueuingFails(r) PROVE TypeOK'
  BY <1>2 DEF QueuingFails, WalletTypeOK, walletVars, networkVars, graphVars, syncVars
<1>3. CASE IntervalElapses
  BY <1>3 DEF IntervalElapses, WalletTypeOK, walletVars, networkVars, graphVars, syncVars
<1>4. CASE RecvRequest
  <2>1. Head(channel) \in Request /\ channel' \in Seq(Request)
    BY <1>4, HeadTailProperties DEF RecvRequest
  <2>2. /\ l1_payout_queue' \in Seq(Request)
        /\ Len(l1_payout_queue') <= MaxInFlight
    <3>1. CASE Room
      <4>1. /\ Append(l1_payout_queue, Head(channel)) \in Seq(Request)
            /\ Len(Append(l1_payout_queue, Head(channel))) = Len(l1_payout_queue) + 1
        BY <2>1, AppendProperties
      <4>2. Len(l1_payout_queue) + 1 <= MaxInFlight
        BY <3>1, ConfigAssumption, LenProperties DEF Room
      <4> QED BY <1>4, <3>1, <4>1, <4>2 DEF RecvRequest
    <3>2. CASE ~Room
      BY <1>4, <3>2 DEF RecvRequest
    <3> QED BY <3>1, <3>2
  <2> QED BY <1>4, <2>1, <2>2 DEF RecvRequest, WalletTypeOK, walletVars, networkVars, graphVars, syncVars
<1>5. CASE TickWithoutRequests
  BY <1>5 DEF TickWithoutRequests, WalletTypeOK, walletVars, networkVars, graphVars, syncVars
<1>6. ASSUME DrainBatch, l1_payout_queue # <<>>
      PROVE  l1_payout_queue' \in Seq(Request) /\ Len(l1_payout_queue') <= MaxInFlight
  <2>1. /\ l1_payout_queue' \in Seq(Request)
        /\ Len(l1_payout_queue') <= Len(l1_payout_queue)
    BY <1>6, QueueSlices
  <2>2. Len(l1_payout_queue') \in Nat /\ Len(l1_payout_queue) \in Nat
    BY <2>1, LenProperties
  <2> QED BY <2>1, <2>2, ConfigAssumption
<1>7. CASE FinishFails
  BY <1>6, <1>7 DEF FinishFails, WalletTypeOK, walletVars, networkVars, graphVars, syncVars
<1>8. ASSUME NEW t \in Tx, SendBatch(t) PROVE TypeOK'
  <2>1. PICK coins \in SUBSET Spendable : inputs' = [inputs EXCEPT ![t] = coins]
    BY <1>8 DEF SendBatch
  <2>2. inputs' \in [Tx -> SUBSET Coin]
    BY <2>1, MoneyType DEF WalletTypeOK
  <2>3. WalletTypeOK'
    BY <1>8, <2>2 DEF SendBatch, WalletTypeOK, networkVars, graphVars, syncVars
  <2>4. Batch \in Seq(Request)
    BY <1>8, QueueSlices DEF SendBatch
  <2>5. payees' \in [Tx -> Seq(Request)]
    BY <1>8, <2>4 DEF SendBatch
  <2>6. l1_payout_queue' \in Seq(Request) /\ Len(l1_payout_queue') <= MaxInFlight
    BY <1>6, <1>8 DEF SendBatch
  <2> QED BY <1>8, <2>3, <2>5, <2>6 DEF SendBatch
<1>9. CASE TaskPanics
  <2>1. l1_payout_queue' = <<>> /\ channel' = <<>>
    BY <1>9 DEF TaskPanics
  <2>2. <<>> \in Seq(Request) /\ Len(<<>>) <= MaxInFlight
    BY EmptySeq, ConfigAssumption
  <2> QED BY <1>9, <2>1, <2>2
          DEF TaskPanics, WalletTypeOK, walletVars, networkVars, graphVars, syncVars
<1>10. ASSUME NEW t \in Tx, Broadcast(t) PROVE TypeOK'
  BY <1>10 DEF Broadcast, EnterMempool, AfterBroadcast, AfterError, Replaced,
               WalletTypeOK, walletVars, networkVars, graphVars, syncVars
<1>11. ASSUME NEW t \in Tx, BroadcastFails(t) PROVE TypeOK'
  BY <1>11 DEF BroadcastFails, AfterError, WalletTypeOK, walletVars, networkVars, graphVars, syncVars
<1>12. ASSUME NEW t \in Tx, ApplyTx(t) PROVE TypeOK'
  <2>1. now * MillisPerSecond \in Nat
    BY BoundsAssumption, MillisAssumption DEF WalletTypeOK
  <2>2. last_seen' \in [Tx -> Nat]
    BY <1>12, <2>1 DEF ApplyTx, ApplyUnconfirmed, Later, WalletTypeOK
  <2> QED BY <1>12, <2>2 DEF ApplyTx, ApplyUnconfirmed, WalletTypeOK, networkVars, syncVars
<1>13. CASE ProcessAborts \/ Restart
  <2>1. ProcessRestarts
    BY <1>13 DEF ProcessAborts, Restart
  <2> QED
    BY <2>1, EmptySeq, ConfigAssumption, BoundsAssumption
       DEF ProcessRestarts, RestartWallet, WalletTypeOK, networkVars, graphVars, Update, NoUpdate
<1>14. CASE WalletOrNetwork
  <2>1. UNCHANGED <<queueVars, batchVars>>
    BY <1>14 DEF WalletOrNetwork, Alone
  <2> QED BY <1>14, <2>1, WalletTypeStep
<1>15. CASE UNCHANGED vars
  BY <1>15 DEF vars, WalletTypeOK, walletVars, networkVars, graphVars, syncVars
<1> QED
  BY <1>1, <1>2, <1>3, <1>4, <1>5, <1>7, <1>8, <1>9, <1>10, <1>11, <1>12, <1>13,
     <1>14, <1>15 DEF Next, Tick

LEMMA TypeInit == Init => TypeOK
BY EmptySeq, ConfigAssumption, BoundsAssumption
   DEF Init, TypeOK, WalletInit, WalletTypeOK, Update, NoUpdate

-----------------------------------------------------------------------------
(* The transactions are built one after the other.                         *)

\* What a step does to the built transactions: all but one leave them alone.
LEMMA BuiltCases ==
  ASSUME TypeOK, [Next]_vars
  PROVE  \/ \E t \in Tx : SendBatch(t)
         \/ payees' = payees /\ \A t \in Tx : Built(t)' <=> Built(t)
<1> USE DEF Built, queueVars, batchVars
<1>1. CASE UNCHANGED vars
  BY <1>1 DEF vars
<1>2. ASSUME NEW t \in Tx, Broadcast(t) \/ BroadcastFails(t) \/ ApplyTx(t)
      PROVE  payees' = payees /\ \A u \in Tx : Built(u)' <=> Built(u)
  <2>1. /\ payees' = payees
        /\ stage[t] \in {"broadcast", "apply"}
        /\ stage' = [stage EXCEPT ![t] = "apply"] \/ stage' = [stage EXCEPT ![t] = "done"]
    BY <1>2 DEF Broadcast, BroadcastFails, ApplyTx, AfterBroadcast, AfterError
  <2> QED BY <2>1 DEF TypeOK
<1>3. CASE ProcessAborts \/ Restart
  BY <1>3 DEF ProcessAborts, Restart, ProcessRestarts, InFlight, TypeOK
<1>4. CASE WalletOrNetwork
  BY <1>4 DEF WalletOrNetwork, Alone
<1>5. ASSUME NEW r \in Request, QueuePayoutRequest(r) \/ QueuingFails(r)
      PROVE  payees' = payees /\ \A u \in Tx : Built(u)' <=> Built(u)
  BY <1>5 DEF QueuePayoutRequest, QueuingFails
<1>6. CASE IntervalElapses \/ RecvRequest \/ TickWithoutRequests \/ FinishFails \/ TaskPanics
  BY <1>6 DEF IntervalElapses, RecvRequest, TickWithoutRequests, FinishFails, TaskPanics
<1> QED BY <1>1, <1>2, <1>3, <1>4, <1>5, <1>6 DEF Next, Tick

\* The transactions built so far are the first ones.
LEMMA BuiltCount ==
  ASSUME BuiltInOrder
  PROVE  \E n \in 0..MaxTx :
           /\ BuiltTxs = 1..n
           /\ Cardinality(BuiltTxs) = n
           /\ \A t \in Tx : Built(t) <=> t <= n
<1>1. PICK n \in 0..MaxTx : \A t \in Tx : Built(t) <=> t <= n
  BY DEF BuiltInOrder
<1>2. BuiltTxs = 1..n
  BY <1>1, BoundsAssumption DEF BuiltTxs, Tx
<1>3. Cardinality(1..n) = n
  BY <1>1, BoundsAssumption, FS_Interval
<1> QED BY <1>1, <1>2, <1>3

LEMMA BuiltStep == IInv /\ [Next]_vars => BuiltInOrder'
<1> SUFFICES ASSUME IInv, [Next]_vars PROVE BuiltInOrder'
  OBVIOUS
<1> USE DEF IInv
<1>1. ASSUME NEW t \in Tx, SendBatch(t) PROVE BuiltInOrder'
  <2>1. \A u \in Tx : Built(u)' <=> Built(u) \/ u = t
    BY <1>1 DEF SendBatch, Built, TypeOK
  <2>2. \A u \in Tx : Built(u) <=> u < t
    BY <1>1 DEF SendBatch, NextTx
  <2>3. t \in 0..MaxTx /\ \A u \in Tx : Built(u)' <=> u <= t
    BY <2>1, <2>2, BoundsAssumption DEF Tx
  <2>4. \A u \in Tx : ~Built(u)' => payees'[u] = <<>>
    BY <1>1, <2>1 DEF BuiltInOrder, SendBatch, TypeOK
  <2> QED BY <2>3, <2>4 DEF BuiltInOrder
<1>2. CASE payees' = payees /\ \A t \in Tx : Built(t)' <=> Built(t)
  <2>1. PICK n \in 0..MaxTx : \A t \in Tx : Built(t) <=> t <= n
    BY DEF BuiltInOrder
  <2>2. \A t \in Tx : Built(t)' <=> t <= n
    BY <1>2, <2>1
  <2>3. \A t \in Tx : ~Built(t)' => payees'[t] = <<>>
    BY <1>2 DEF BuiltInOrder
  <2> QED BY <2>2, <2>3 DEF BuiltInOrder
<1> QED BY <1>1, <1>2, BuiltCases

\* The types and bounds hold, and the batches are built in order, whatever the
\* network, the syncer and restarts do.
THEOREM Invariance == Spec => []IInv
<1>1. Init => IInv
  <2> SUFFICES ASSUME Init PROVE BuiltInOrder
    BY TypeInit DEF IInv
  <2>1. \A t \in Tx : ~Built(t) /\ ~(t <= 0) /\ payees[t] = <<>>
    BY BoundsAssumption DEF Init, Built, Tx
  <2>2. 0 \in 0..MaxTx
    BY BoundsAssumption
  <2> QED BY <2>1, <2>2 DEF BuiltInOrder
<1>2. IInv /\ [Next]_vars => IInv'
  BY TypeStep, BuiltStep DEF IInv
<1> QED BY <1>1, <1>2, PTL DEF Spec

\* The queue stays within max_in_flight, and everything has its type.
THEOREM TypeCorrect == Spec => []TypeOK
<1>1. IInv => TypeOK
  BY DEF IInv
<1> QED BY <1>1, Invariance, PTL

-----------------------------------------------------------------------------
(* The batcher implements the ledger.                                      *)

LEMMA HeldType ==
  ASSUME TypeOK
  PROVE  /\ Held \in Seq(Request)
         /\ Len(Held) = Len(l1_payout_queue) + Len(channel)
         /\ Len(l1_payout_queue) \in Nat /\ Len(channel) \in Nat
BY ConcatProperties, LenProperties DEF TypeOK, Held

\* To lose everything is a step of the ledger, if there is something to lose.
LEMMA LoseAll ==
  ASSUME TypeOK, Held' = <<>>, Accepted' = Accepted, Paid' = Paid
  PROVE  [Ledger!LedgerNext]_<<Accepted, Held, Paid>>
<1>1. CASE Held = <<>>
  BY <1>1
<1>2. CASE Held # <<>>
  <2>1. Len(Held) \in Nat \ {0}
    BY <1>2, HeldType, EmptySeq
  <2>2. Held' = SubSeq(Held, 1, 1 - 1) \o SubSeq(Held, Len(Held) + 1, Len(Held))
    BY HeldType, RemovedAll DEF Removed
  <2>3. Ledger!Lose(1, Len(Held) + 1)
    BY <2>2 DEF Ledger!Lose, Ledger!Without
  <2>4. /\ 1 \in 1..(Len(Held) + 1) /\ Len(Held) + 1 \in 1..(Len(Held) + 1)
        /\ 1 < Len(Held) + 1
    BY <2>1
  <2> QED BY <2>3, <2>4 DEF Ledger!LedgerNext
<1> QED BY <1>1, <1>2

\* What a batch takes is the oldest part of what is held.
LEMMA DrainHeld ==
  ASSUME TypeOK, l1_payout_queue # <<>>, DrainBatch, channel' = channel
  PROVE  /\ NumToDeque \in 1..Len(Held) /\ NumToDeque <= MaxPerTx
         /\ Batch = SubSeq(Held, 1, NumToDeque)
         /\ Held' = Removed(Held, 1, NumToDeque + 1)
<1>1. NumToDeque \in 1..Len(l1_payout_queue) /\ NumToDeque <= MaxPerTx
  BY NumToDequeType DEF TypeOK
<1>2. /\ SubSeq(Held, 1, NumToDeque) = SubSeq(l1_payout_queue, 1, NumToDeque)
      /\ SubSeq(l1_payout_queue, NumToDeque + 1, Len(l1_payout_queue)) \o channel
           = Removed(Held, 1, NumToDeque + 1)
  BY <1>1, DrainFirst DEF TypeOK, Held
<1>3. NumToDeque \in 1..Len(Held)
  BY <1>1, HeldType
<1> QED BY <1>1, <1>2, <1>3 DEF Batch, DrainBatch, Held

\* What is paid grows by the batch that is sent.
LEMMA PaidGrows ==
  ASSUME IInv, IInv', NEW t \in Tx, SendBatch(t)
  PROVE  Paid' = Append(Paid, Batch)
<1> USE DEF IInv
<1>1. PICK n \in 0..MaxTx :
        Cardinality(BuiltTxs) = n /\ \A u \in Tx : Built(u) <=> u <= n
  BY BuiltCount
<1>2. PICK m \in 0..MaxTx :
        Cardinality(BuiltTxs)' = m /\ \A u \in Tx : Built(u)' <=> u <= m
  <2>1. PICK m \in 0..MaxTx : \A u \in Tx : Built(u)' <=> u <= m
    BY DEF BuiltInOrder
  <2>2. BuiltTxs' = 1..m
    BY <2>1, BoundsAssumption DEF BuiltTxs, Tx
  <2>3. Cardinality(1..m) = m
    BY BoundsAssumption, FS_Interval
  <2> QED BY <2>1, <2>2, <2>3
<1>3. \A u \in Tx : (Built(u) <=> u < t) /\ (Built(u)' <=> Built(u) \/ u = t)
  BY DEF SendBatch, NextTx, Built, TypeOK
<1>4. t = n + 1 /\ m = t
  <2>1. n \in Nat /\ m \in Nat /\ MaxTx \in Nat /\ t \in 1..MaxTx
    BY BoundsAssumption DEF Tx
  <2>2. n + 1 >= t
    <3>1. CASE t = 1
      BY <2>1, <3>1
    <3>2. CASE t # 1
      <4>1. t - 1 \in Tx /\ t - 1 < t
        BY <2>1, <3>2 DEF Tx
      <4> QED BY <1>1, <1>3, <2>1, <4>1
    <3> QED BY <3>1, <3>2
  <2>3. n < t
    BY <1>1, <1>3, <2>1
  <2>4. m >= t
    BY <1>2, <1>3, <2>1
  <2>5. m <= t
    <3>1. CASE m = 0
      BY <2>1, <3>1
    <3>2. CASE m # 0
      <4>1. m \in Tx
        BY <2>1, <3>2 DEF Tx
      <4> QED BY <1>2, <1>3, <2>1, <4>1
    <3> QED BY <3>1, <3>2
  <2> QED BY <2>1, <2>2, <2>3, <2>4, <2>5
<1>5. Paid = [u \in 1..n |-> payees[u]] /\ Paid' = [u \in 1..(n + 1) |-> payees'[u]]
  BY <1>1, <1>2, <1>4 DEF Paid
<1>6. \A u \in 1..n : u \in Tx /\ u # t
  BY <1>3, <1>4, BoundsAssumption DEF Tx
<1>7. Batch \in Seq(Request)
  BY QueueSlices DEF TypeOK, SendBatch
<1>8. payees'[t] = Batch /\ \A u \in 1..n : payees'[u] = payees[u]
  BY <1>6 DEF SendBatch, TypeOK
<1>9. Paid \in Seq(Seq(Request)) /\ Len(Paid) = n
  BY <1>5, <1>6 DEF TypeOK
<1>10. Paid' \in Seq(Seq(Request)) /\ Len(Paid') = n + 1
  BY <1>4, <1>5, <1>6, <1>7, <1>8 DEF TypeOK
<1>11. /\ Append(Paid, Batch) \in Seq(Seq(Request))
       /\ Len(Append(Paid, Batch)) = n + 1
       /\ \A u \in 1..n : Append(Paid, Batch)[u] = Paid[u]
       /\ Append(Paid, Batch)[n + 1] = Batch
  BY <1>7, <1>9, AppendProperties
<1>12. \A u \in 1..(n + 1) : Paid'[u] = Append(Paid, Batch)[u]
  BY <1>4, <1>5, <1>8, <1>11
<1> QED BY <1>10, <1>11, <1>12, SeqEqual

LEMMA SamePaid ==
  ASSUME payees' = payees, \A t \in Tx : Built(t)' <=> Built(t)
  PROVE  Paid' = Paid
<1>1. BuiltTxs' = BuiltTxs
  BY DEF BuiltTxs
<1> QED BY <1>1 DEF Paid

\* Every step of the batcher is one of the ledger, or shows nothing to it.
LEMMA StepRefines ==
  ASSUME IInv, IInv', [Next]_vars
  PROVE  [Ledger!LedgerNext]_<<Accepted, Held, Paid>>
<1> USE DEF IInv, queueVars, batchVars
<1>1. ASSUME NEW r \in Request, QueuePayoutRequest(r)
      PROVE  [Ledger!LedgerNext]_<<Accepted, Held, Paid>>
  <2>1. Accepted' = Accepted \cup {r} /\ r \notin Accepted
    BY <1>1 DEF QueuePayoutRequest, Accepted, TypeOK
  <2>2. Held' = Append(Held, r)
    <3>1. /\ l1_payout_queue' = l1_payout_queue
          /\ channel' = channel \o <<r>>
      BY <1>1, AppendIsConcat DEF QueuePayoutRequest, TypeOK
    <3>2. <<r>> \in Seq(Request)
      OBVIOUS
    <3>3. Held' = Held \o <<r>>
      BY <3>1, <3>2, ConcatAssociative DEF Held, TypeOK
    <3> QED BY <3>3, HeldType, AppendIsConcat
  <2>3. Paid' = Paid
    BY <1>1, SamePaid DEF QueuePayoutRequest, Built
  <2>4. Ledger!Accept(r)
    BY <2>1, <2>2, <2>3 DEF Ledger!Accept
  <2> QED BY <2>4 DEF Ledger!LedgerNext
<1>2. CASE RecvRequest
  <2>1. Accepted' = Accepted /\ Paid' = Paid
    BY <1>2, SamePaid DEF RecvRequest, Accepted, Built
  <2>2. channel \in Seq(Request) /\ channel # <<>> /\ channel' = Tail(channel)
    BY <1>2 DEF RecvRequest, TypeOK
  <2>3. CASE Room
    <3>1. l1_payout_queue' = Append(l1_payout_queue, Head(channel))
      BY <1>2, <2>3 DEF RecvRequest
    <3>2. Held' = Held
      BY <2>2, <3>1, MoveHead DEF Held, TypeOK
    <3> QED BY <2>1, <3>2
  <2>4. CASE ~Room
    <3> DEFINE n == Len(l1_payout_queue)
    <3>1. Held' = Removed(Held, n + 1, n + 2)
      <4>1. l1_payout_queue' = l1_payout_queue
        BY <1>2, <2>4 DEF RecvRequest
      <4> QED BY <2>2, <4>1, DropHead DEF Held, TypeOK
    <3>2. /\ n + 1 \in 1..(Len(Held) + 1) /\ n + 2 \in 1..(Len(Held) + 1)
          /\ n + 1 < n + 2
      <4>1. Len(channel) \in Nat \ {0} /\ n \in Nat /\ Len(Held) = n + Len(channel)
        BY <2>2, HeldType, EmptySeq
      <4> QED BY <4>1
    <3>3. Ledger!Lose(n + 1, n + 2)
      BY <2>1, <3>1 DEF Ledger!Lose, Ledger!Without, Removed
    <3> HIDE DEF n
    <3> QED BY <3>2, <3>3 DEF Ledger!LedgerNext
  <2> QED BY <2>3, <2>4
<1>3. CASE FinishFails
  <2>1. Accepted' = Accepted /\ Paid' = Paid
    BY <1>3, SamePaid DEF FinishFails, Accepted, Built
  <2>2. /\ NumToDeque \in 1..Len(Held)
        /\ Held' = Removed(Held, 1, NumToDeque + 1)
    BY <1>3, DrainHeld DEF FinishFails
  <2>3. Ledger!Lose(1, NumToDeque + 1)
    BY <2>1, <2>2 DEF Ledger!Lose, Ledger!Without, Removed
  <2>4. /\ 1 \in 1..(Len(Held) + 1) /\ NumToDeque + 1 \in 1..(Len(Held) + 1)
        /\ 1 < NumToDeque + 1
    BY <2>2, HeldType
  <2> QED BY <2>3, <2>4 DEF Ledger!LedgerNext
<1>4. ASSUME NEW t \in Tx, SendBatch(t)
      PROVE  [Ledger!LedgerNext]_<<Accepted, Held, Paid>>
  <2>1. Accepted' = Accepted
    BY <1>4 DEF SendBatch, Accepted
  <2>2. /\ NumToDeque \in 1..Len(Held) /\ NumToDeque <= MaxPerTx
        /\ Batch = SubSeq(Held, 1, NumToDeque)
        /\ Held' = Removed(Held, 1, NumToDeque + 1)
    BY <1>4, DrainHeld DEF SendBatch
  <2>3. Paid' = Append(Paid, Batch)
    BY <1>4, PaidGrows
  <2>4. Ledger!Pay(NumToDeque)
    BY <2>1, <2>2, <2>3 DEF Ledger!Pay, Ledger!First, Ledger!Without, Removed
  <2> QED BY <2>2, <2>4 DEF Ledger!LedgerNext
<1>5. CASE TaskPanics \/ ProcessAborts \/ Restart
  <2>1. /\ Accepted' = Accepted
        /\ l1_payout_queue' = <<>> /\ channel' = <<>>
        /\ payees' = payees
    BY <1>5 DEF TaskPanics, ProcessAborts, Restart, ProcessRestarts, Accepted
  <2>2. \A t \in Tx : Built(t)' <=> Built(t)
    BY <1>5 DEF TaskPanics, ProcessAborts, Restart, ProcessRestarts, Built, InFlight, TypeOK
  <2>3. Held' = <<>>
    BY <2>1, EmptySeq, ConcatEmptySeq DEF Held
  <2> QED BY <2>1, <2>2, <2>3, LoseAll, SamePaid
<1>6. ASSUME UNCHANGED <<channel, l1_payout_queue, payees>>, Accepted' = Accepted,
             \A t \in Tx : Built(t)' <=> Built(t)
      PROVE  [Ledger!LedgerNext]_<<Accepted, Held, Paid>>
  BY <1>6, SamePaid DEF Held
<1>7. ASSUME NEW r \in Request, QueuingFails(r)
      PROVE  [Ledger!LedgerNext]_<<Accepted, Held, Paid>>
  <2>1. Accepted' = Accepted
    BY <1>7 DEF QueuingFails, Accepted, TypeOK
  <2> QED BY <1>6, <1>7, <2>1 DEF QueuingFails, Built
<1>8. ASSUME NEW t \in Tx, Broadcast(t) \/ BroadcastFails(t) \/ ApplyTx(t)
      PROVE  [Ledger!LedgerNext]_<<Accepted, Held, Paid>>
  <2>1. UNCHANGED <<claim, channel, l1_payout_queue, payees>>
    BY <1>8 DEF Broadcast, BroadcastFails, ApplyTx, AfterBroadcast, AfterError
  <2>2. /\ stage[t] \in {"broadcast", "apply"}
        /\ stage' = [stage EXCEPT ![t] = "apply"] \/ stage' = [stage EXCEPT ![t] = "done"]
    BY <1>8 DEF Broadcast, BroadcastFails, ApplyTx, AfterBroadcast, AfterError
  <2>3. \A u \in Tx : Built(u)' <=> Built(u)
    BY <2>2 DEF Built, TypeOK
  <2> QED BY <1>6, <2>1, <2>3 DEF Accepted
<1>9. CASE IntervalElapses \/ TickWithoutRequests \/ WalletOrNetwork \/ UNCHANGED vars
  <2>1. UNCHANGED <<claim, channel, l1_payout_queue, payees, stage>>
    BY <1>9 DEF IntervalElapses, TickWithoutRequests, WalletOrNetwork, Alone, vars
  <2> QED BY <1>6, <2>1 DEF Accepted, Built
<1> QED
  BY <1>1, <1>2, <1>3, <1>4, <1>5, <1>7, <1>8, <1>9 DEF Next, Tick

LEMMA InitRefines == Init => Ledger!LedgerInit
<1> SUFFICES ASSUME Init PROVE Ledger!LedgerInit
  OBVIOUS
<1>1. Accepted = {}
  BY DEF Init, Accepted
<1>2. Held = <<>>
  BY EmptySeq, ConcatEmptySeq DEF Init, Held
<1>3. BuiltTxs = 1..0
  BY DEF Init, BuiltTxs, Built
<1>4. Cardinality(BuiltTxs) = 0
  BY <1>3, FS_Interval
<1>5. Paid = <<>>
  BY <1>4 DEF Paid
<1> QED BY <1>1, <1>2, <1>5 DEF Ledger!LedgerInit

\* The batcher implements the ledger: what it accepts is paid at most once,
\* oldest first, and in batches of at most max_per_tx.
THEOREM Refinement == Spec => ImplementsPayoutLedger
<1>1. Init => Ledger!LedgerInit
  BY InitRefines
<1>2. IInv /\ IInv' /\ [Next]_vars => [Ledger!LedgerNext]_<<Accepted, Held, Paid>>
  BY StepRefines
<1>3. Ledger!ledgerVars = <<Accepted, Held, Paid>>
  BY DEF Ledger!ledgerVars
<1>4. IInv /\ IInv' /\ [Next]_vars => [Ledger!LedgerNext]_(Ledger!ledgerVars)
  BY <1>2 DEF Ledger!ledgerVars
<1> QED BY <1>1, <1>4, Invariance, PTL DEF Spec, ImplementsPayoutLedger, Ledger!LedgerSpec

-----------------------------------------------------------------------------
(* No request is paid twice.                                               *)

LEMMA LedgerInvSpec == Spec => []LedgerProofs!LedgerInv
<1>1. Init => LedgerProofs!LedgerInv
  <2>1. Ledger!LedgerInit => LedgerProofs!LedgerInit
    BY DEF Ledger!LedgerInit, LedgerProofs!LedgerInit
  <2> QED BY <2>1, InitRefines, LedgerProofs!LedgerInvInit
<1>2. ASSUME IInv, IInv', [Next]_vars, LedgerProofs!LedgerInv
      PROVE  LedgerProofs!LedgerInv'
  <2>1. [Ledger!LedgerNext]_<<Accepted, Held, Paid>>
    BY <1>2, StepRefines
  <2>2. [LedgerProofs!LedgerNext]_(LedgerProofs!ledgerVars)
    BY <2>1 DEF LedgerProofs!ledgerVars, LedgerProofs!LedgerNext, Ledger!LedgerNext,
      LedgerProofs!Accept, Ledger!Accept, LedgerProofs!Pay, Ledger!Pay,
      LedgerProofs!Lose, Ledger!Lose, LedgerProofs!First, Ledger!First,
      LedgerProofs!Without, Ledger!Without
  <2> QED BY <1>2, <2>2, LedgerProofs!LedgerInvStep
<1> QED BY <1>1, <1>2, Invariance, PTL DEF Spec

\* No request is paid by two transactions or twice by one, whatever becomes of
\* the broadcasts.
THEOREM PaidAtMostOnce == Spec => []PaidOnce
<1>1. ASSUME IInv, LedgerProofs!LedgerInv PROVE PaidOnce
  <2>1. PICK n \in 0..MaxTx :
          Cardinality(BuiltTxs) = n /\ \A t \in Tx : Built(t) <=> t <= n
    BY <1>1, BuiltCount DEF IInv
  <2>2. Paid = [t \in 1..n |-> payees[t]]
    BY <2>1 DEF Paid
  <2>3. Len(Paid) = n /\ \A t \in 1..n : Paid[t] = payees[t]
    BY <2>1, <2>2
  <2>4. ASSUME NEW t \in Tx, NEW i \in 1..Len(payees[t])
        PROVE  t \in 1..Len(Paid) /\ Paid[t] = payees[t]
    <3>1. payees[t] # <<>>
      OBVIOUS
    <3>2. t <= n
      BY <1>1, <2>1, <3>1 DEF IInv, BuiltInOrder
    <3> QED BY <2>1, <2>3, <3>2, BoundsAssumption DEF Tx
  <2>5. ASSUME NEW t \in Tx, NEW u \in Tx,
               NEW i \in 1..Len(payees[t]), NEW j \in 1..Len(payees[u]),
               payees[t][i] = payees[u][j]
        PROVE  t = u /\ i = j
    <3>1. /\ t \in 1..Len(Paid) /\ Paid[t] = payees[t]
          /\ u \in 1..Len(Paid) /\ Paid[u] = payees[u]
      BY <2>4
    <3> QED BY <1>1, <2>5, <3>1 DEF LedgerProofs!LedgerInv, LedgerProofs!PaidDistinct
  <2>6. ASSUME NEW t \in Tx, NEW i \in 1..Len(payees[t]),
               NEW j \in 1..Len(Held), Held[j] = payees[t][i]
        PROVE  FALSE
    <3>1. t \in 1..Len(Paid) /\ Paid[t] = payees[t]
      BY <2>4
    <3> QED BY <1>1, <2>6, <3>1 DEF LedgerProofs!LedgerInv, LedgerProofs!PaidNotHeld
  <2> QED BY <2>5, <2>6 DEF PaidOnce, Occurs
<1> QED BY <1>1, Invariance, LedgerInvSpec, PTL
-----------------------------------------------------------------------------
(* What the wallet knows of the batches.                                   *)

\* Only what is built is seen anywhere, or spends anything.
KnownOK ==
  /\ anchored \subseteq chain /\ update.confirmed \subseteq chain
  /\ \A t \in chain \cup mempool \cup update.unconfirmed : Built(t)
  /\ \A t \in Tx : ~Built(t) => inputs[t] = {} /\ last_seen[t] = 0

\* The batch has had its broadcast, or will have none.
Over(t) == stage[t] \notin {"unbuilt", "broadcast"}

\* What the wallet has heard of, or is told by the update, and what others spend.
Known(t) ==
  \/ last_seen[t] > 0 \/ t \in anchored
  \/ t \in update.expected \cup update.unconfirmed \cup update.confirmed

Used(t) == \E v \in Tx : t \in inputs[v]

OverOK == \A t \in Tx : t \in Shown \/ Known(t) \/ Used(t) => Over(t)

\* What a scan has missed will not be shown any more.
MissedOK ==
  \A t \in Tx :
    last_evicted[t] > 0 \/ (syncer = "apply" /\ t \in Missed) => Over(t) /\ t \notin Shown

DoneOK == \A t \in Tx : stage[t] = "done" => last_seen[t] > 0

SeenOK == OverOK /\ MissedOK /\ DoneOK

\* A batch does not conflict with what it spends from.
FamiliesOK == \A t \in Tx : ~ConflictsWith(Family[t], Family[t])

GraphInv == KnownOK /\ SeenOK /\ FamiliesOK

\* The steps that do nothing to the wallet and the network.
Aside ==
  /\ UNCHANGED <<inputs, mempool, chain, last_seen, last_evicted, anchored>>
  /\ \/ syncer' = syncer /\ update' = update
     \/ syncer' = "idle" /\ update' = NoUpdate
  /\ \A t \in Tx : /\ Built(t)' <=> Built(t)
                   /\ Over(t) => Over(t)'
                   /\ stage'[t] = "done" <=> stage[t] = "done"

\* What the steps of the batcher and of its tasks do to the wallet's state.
LEMMA WalletCases ==
  ASSUME TypeOK, [Next]_vars
  PROVE  \/ \E t \in Tx : SendBatch(t) \/ Broadcast(t) \/ ApplyTx(t)
         \/ WalletOrNetwork
         \/ Aside
<1> USE DEF Built, Over, queueVars, batchVars, walletVars, networkVars, graphVars, syncVars
<1>1. CASE UNCHANGED vars
  BY <1>1 DEF vars, Aside
<1>2. ASSUME NEW t \in Tx, BroadcastFails(t) PROVE Aside
  BY <1>2 DEF BroadcastFails, AfterError, TypeOK, Aside
<1>3. CASE ProcessAborts \/ Restart
  BY <1>3 DEF ProcessAborts, Restart, ProcessRestarts, RestartWallet, InFlight, TypeOK, Aside
<1>4. ASSUME NEW r \in Request, QueuePayoutRequest(r) \/ QueuingFails(r) PROVE Aside
  BY <1>4 DEF QueuePayoutRequest, QueuingFails, Aside
<1>5. CASE IntervalElapses \/ RecvRequest \/ TickWithoutRequests \/ FinishFails \/ TaskPanics
  BY <1>5 DEF IntervalElapses, RecvRequest, TickWithoutRequests, FinishFails, TaskPanics, Aside
<1> QED BY <1>1, <1>2, <1>3, <1>4, <1>5 DEF Next, Tick

LEMMA KnownStep ==
  ASSUME TypeOK, KnownOK, [Next]_vars PROVE KnownOK'
<1> USE DEF networkVars, graphVars, syncVars, queueVars, batchVars, walletVars
<1>1. ASSUME NEW s \in Tx, SendBatch(s) PROVE KnownOK'
  <2>1. \A t \in Tx : Built(t)' <=> Built(t) \/ t = s
    BY <1>1 DEF SendBatch, Built, TypeOK
  <2>2. \A t \in Tx : t # s => inputs'[t] = inputs[t]
    BY <1>1 DEF SendBatch, TypeOK, WalletTypeOK
  <2> QED BY <1>1, <2>1, <2>2 DEF SendBatch, KnownOK, TypeOK, WalletTypeOK, Update
<1>2. ASSUME NEW s \in Tx, Broadcast(s) PROVE KnownOK'
  <2>1. stage[s] = "broadcast" /\ stage' = [stage EXCEPT ![s] = "apply"]
    BY <1>2 DEF Broadcast, AfterBroadcast, AfterError
  <2>2. \A t \in Tx : Built(t)' <=> Built(t)
    BY <2>1 DEF Built, TypeOK
  <2>3. mempool' \subseteq mempool \cup {s} /\ chain' = chain /\ Built(s)
    BY <1>2, <2>1 DEF Broadcast, EnterMempool, Built
  <2>4. chain \subseteq Tx /\ mempool \subseteq Tx /\ update.unconfirmed \subseteq Tx
    BY DEF TypeOK, WalletTypeOK, Update
  <2>5. UNCHANGED <<inputs, update, anchored, last_seen>>
    BY <1>2 DEF Broadcast
  <2>6. \A t \in chain' \cup mempool' \cup update'.unconfirmed : t \in Tx /\ Built(t)
    BY <2>3, <2>4, <2>5 DEF KnownOK
  <2> QED BY <2>2, <2>3, <2>5, <2>6 DEF KnownOK
<1>3. ASSUME NEW s \in Tx, ApplyTx(s) PROVE KnownOK'
  <2>1. stage[s] = "apply" /\ stage' = [stage EXCEPT ![s] = "done"]
    BY <1>3 DEF ApplyTx
  <2>2. \A t \in Tx : Built(t)' <=> Built(t)
    BY <2>1 DEF Built, TypeOK
  <2>3. \A t \in Tx : t # s => last_seen'[t] = last_seen[t]
    BY <1>3 DEF ApplyTx, ApplyUnconfirmed, TypeOK, WalletTypeOK
  <2>4. UNCHANGED <<inputs, mempool, chain, update, anchored>>
    BY <1>3 DEF ApplyTx, ApplyUnconfirmed
  <2>5. chain \subseteq Tx /\ mempool \subseteq Tx /\ update.unconfirmed \subseteq Tx
    BY DEF TypeOK, WalletTypeOK, Update
  <2>6. Built(s)
    BY <2>1 DEF Built
  <2> QED BY <2>2, <2>3, <2>4, <2>5, <2>6 DEF KnownOK
<1>4. CASE WalletOrNetwork
  <2>1. stage' = stage
    BY <1>4 DEF WalletOrNetwork, Alone
  <2>2. CASE BuildSyncRequest \/ FetchUpdate \/ FetchFails \/ PassSecond
    BY <2>1, <2>2 DEF BuildSyncRequest, FetchUpdate, FetchFails, PassSecond, NoUpdate,
      KnownOK, Built
  <2>3. CASE ApplyUpdate
    <3>1. \A t \in Tx : t \notin update.unconfirmed => last_seen'[t] = last_seen[t]
      BY <2>3 DEF ApplyUpdate
    <3> QED BY <2>1, <2>3, <3>1 DEF ApplyUpdate, NoUpdate, KnownOK, Built
  <2>4. ASSUME NEW t \in Tx, Confirm(t) PROVE KnownOK'
    BY <2>1, <2>4 DEF Confirm, KnownOK, Built
  <2> QED BY <1>4, <2>2, <2>3, <2>4 DEF WalletOrNetwork, Alone
<1>5. CASE Aside
  <2>1. chain \subseteq Tx /\ mempool \subseteq Tx /\ update.unconfirmed \subseteq Tx
    BY DEF TypeOK, WalletTypeOK, Update
  <2>2. update'.confirmed \subseteq update.confirmed /\ update'.unconfirmed \subseteq update.unconfirmed
    BY <1>5 DEF Aside, NoUpdate
  <2> QED BY <1>5, <2>1, <2>2 DEF Aside, KnownOK
<1> QED BY <1>1, <1>2, <1>3, <1>4, <1>5, WalletCases

LEMMA GraphFacts == ASSUME TypeOK PROVE CanonicalFacts
BY CanonicalProperties DEF TypeOK, WalletTypeOK

\* What the wallet counts on, it has seen or others have spent from.
LEMMA CanonicalOver ==
  ASSUME TypeOK, OverOK
  PROVE  \A t \in Canonical : t \in Tx /\ Over(t)
<1> SUFFICES ASSUME NEW t \in Canonical PROVE t \in Tx /\ Over(t)
  OBVIOUS
<1>1. t \in Tx /\ \E v \in InGraph : t \in Family[v]
  BY GraphFacts DEF CanonicalFacts
<1>2. PICK v \in InGraph : t \in Family[v]
  BY <1>1
<1>3. v \in Tx /\ Known(v)
  BY DEF InGraph, Known, TypeOK, WalletTypeOK
<1>4. t = v \/ Used(t)
  BY <1>2, <1>3, FamilySpent DEF Used
<1> QED BY <1>1, <1>3, <1>4 DEF OverOK

\* A scan looks for transactions whose broadcast is over.  One that it does not find
\* has no other chance to appear.
LEMMA SeenStep ==
  ASSUME TypeOK, SeenOK, [Next]_vars PROVE SeenOK'
<1> USE DEF SeenOK
<1>1. /\ last_seen \in [Tx -> Nat] /\ last_evicted \in [Tx -> Nat]
      /\ mempool \subseteq Tx /\ chain \subseteq Tx
      /\ stage \in [Tx -> {"unbuilt", "broadcast", "apply", "done", "killed"}]
  BY DEF TypeOK, WalletTypeOK
<1>2. ASSUME NEW s \in Tx, SendBatch(s) PROVE SeenOK'
  <2>1. PICK coins \in SUBSET Spendable \ {{}} : inputs' = [inputs EXCEPT ![s] = coins]
    BY <1>2 DEF SendBatch
  <2>2. UNCHANGED <<mempool, chain, last_seen, last_evicted, anchored, syncer, update>>
    BY <1>2 DEF SendBatch, networkVars, graphVars, syncVars
  <2>3. /\ stage[s] = "unbuilt" /\ stage'[s] = "broadcast"
        /\ \A t \in Tx : t # s => stage'[t] = stage[t]
    <3>1. ~Built(s)
      BY <1>2, BoundsAssumption DEF SendBatch, NextTx, Tx
    <3> QED BY <1>1, <1>2, <3>1 DEF SendBatch, Built
  <2>4. \A t \in Tx : /\ Over(t)' <=> Over(t)
                      /\ stage'[t] = "done" <=> stage[t] = "done"
    BY <2>3 DEF Over
  <2>5. \A t \in Tx : t \in coins => Over(t)
    <3>1. \A t \in Tx : t \in coins => t \in Canonical
      BY FundingAssumption DEF Spendable, UnspentAfter
    <3> QED BY <3>1, CanonicalOver
  <2>6. \A t \in Tx : Used(t)' => Used(t) \/ Over(t)
    <3>1. \A v \in Tx : inputs'[v] = inputs[v] \/ inputs'[v] = coins
      BY <2>1 DEF TypeOK, WalletTypeOK
    <3> QED BY <2>5, <3>1 DEF Used
  <2>7. \A t \in Tx : (Known(t)' <=> Known(t)) /\ (t \in Shown' <=> t \in Shown)
    BY <2>2 DEF Known, Shown
  <2> QED BY <2>2, <2>4, <2>6, <2>7 DEF OverOK, MissedOK, DoneOK, Missed
<1>3. ASSUME NEW s \in Tx, Broadcast(s) PROVE SeenOK'
  <2>1. UNCHANGED <<inputs, last_seen, last_evicted, anchored, syncer, update>>
    BY <1>3 DEF Broadcast, graphVars, syncVars
  <2>2. /\ stage[s] = "broadcast" /\ stage'[s] = "apply"
        /\ \A t \in Tx : t # s => stage'[t] = stage[t]
    BY <1>1, <1>3 DEF Broadcast, AfterBroadcast, AfterError
  <2>3. \A t \in Tx : /\ Over(t)' <=> Over(t) \/ t = s
                      /\ stage'[t] = "done" <=> stage[t] = "done"
    BY <2>2 DEF Over
  <2>4. \A t \in Tx : t \in Shown' => t \in Shown \/ t = s
    BY <1>3 DEF Broadcast, EnterMempool, Shown
  <2>5. \A t \in Tx : (Known(t)' <=> Known(t)) /\ (Used(t)' <=> Used(t))
    BY <2>1 DEF Known, Used
  <2>6. ~Over(s)
    BY <2>2 DEF Over
  <2> QED BY <2>1, <2>3, <2>4, <2>5, <2>6 DEF OverOK, MissedOK, DoneOK, Missed
<1>4. ASSUME NEW s \in Tx, ApplyTx(s) PROVE SeenOK'
  <2>1. UNCHANGED <<inputs, mempool, chain, last_evicted, anchored, syncer, update>>
    BY <1>4 DEF ApplyTx, ApplyUnconfirmed, networkVars, syncVars
  <2>2. /\ stage[s] = "apply" /\ stage'[s] = "done"
        /\ \A t \in Tx : t # s => stage'[t] = stage[t]
    BY <1>1, <1>4 DEF ApplyTx
  <2>3. last_seen'[s] > 0 /\ \A t \in Tx : t # s => last_seen'[t] = last_seen[t]
    <3>1. now * MillisPerSecond \in Nat \ {0}
      <4>1. now \in Nat \ {0} /\ MillisPerSecond \in Nat \ {0}
        BY MillisAssumption, BoundsAssumption DEF TypeOK, WalletTypeOK
      <4> QED BY <4>1
    <3> DEFINE ms == now * MillisPerSecond
    <3>2. last_seen' = [last_seen EXCEPT ![s] = Later(last_seen[s], ms)]
      BY <1>4 DEF ApplyTx, ApplyUnconfirmed
    <3>3. ms \in Nat \ {0}
      BY <3>1
    <3> HIDE DEF ms
    <3>4. Later(last_seen[s], ms) > 0
      BY <1>1, <3>3 DEF Later
    <3> QED BY <1>1, <3>2, <3>4
  <2>4. \A t \in Tx : /\ Over(t)' <=> Over(t)
                      /\ t = s => Over(t)
    BY <2>2 DEF Over
  <2>5. \A t \in Tx : /\ Known(t)' => Known(t) \/ t = s
                      /\ Used(t)' <=> Used(t)
                      /\ t \in Shown' <=> t \in Shown
    BY <2>1, <2>3 DEF Known, Used, Shown
  <2> QED BY <2>1, <2>2, <2>3, <2>4, <2>5 DEF OverOK, MissedOK, DoneOK, Missed
<1>5. CASE WalletOrNetwork
  <2>1. stage' = stage /\ inputs' = inputs
    BY <1>5 DEF WalletOrNetwork, Alone, batchVars, BuildSyncRequest, FetchUpdate, FetchFails,
      ApplyUpdate, PassSecond, Confirm
  <2>2. \A t \in Tx : (Over(t)' <=> Over(t)) /\ (Used(t)' <=> Used(t))
    BY <2>1 DEF Over, Used
  <2>3. CASE BuildSyncRequest
    <3>1. UNCHANGED <<mempool, chain, last_seen, last_evicted, anchored>>
      BY <2>3 DEF BuildSyncRequest, networkVars, graphVars
    <3>2. /\ syncer' = "fetch" /\ update'.expected = Canonical
          /\ update'.unconfirmed = {} /\ update'.confirmed = {}
      BY <2>3 DEF BuildSyncRequest
    <3>3. \A t \in Tx : Known(t)' => Known(t) \/ Over(t)
      BY <3>1, <3>2, CanonicalOver DEF Known
    <3>4. Shown' = Shown
      BY <3>1 DEF Shown
    <3> QED BY <2>1, <2>2, <3>1, <3>2, <3>3, <3>4 DEF OverOK, MissedOK, DoneOK
  <2>4. CASE FetchUpdate
    <3>1. UNCHANGED <<mempool, chain, last_seen, last_evicted, anchored>>
      BY <2>4 DEF FetchUpdate, networkVars, graphVars
    <3>2. /\ update'.expected = update.expected
          /\ update'.unconfirmed = mempool /\ update'.confirmed = chain
      BY <2>4 DEF FetchUpdate
    <3>3. Shown' = Shown /\ Missed' = update.expected \ Shown
      BY <3>1, <3>2 DEF Shown, Missed
    <3>4. \A t \in Tx : Known(t)' => Known(t) \/ t \in Shown
      BY <3>1, <3>2 DEF Known, Shown
    <3>5. \A t \in Tx : t \in update.expected => Over(t)
      BY DEF OverOK, Known
    <3> QED BY <2>1, <2>2, <3>1, <3>3, <3>4, <3>5 DEF OverOK, MissedOK, DoneOK
  <2>5. CASE ApplyUpdate
    <3>1. /\ UNCHANGED <<mempool, chain>> /\ syncer = "apply" /\ syncer' = "idle"
          /\ update' = NoUpdate /\ anchored' = anchored \cup update.confirmed
      BY <2>5 DEF ApplyUpdate, networkVars
    <3>2. \A t \in Tx : /\ last_seen'[t] > 0 => last_seen[t] > 0 \/ t \in update.unconfirmed
                        /\ last_seen[t] > 0 => last_seen'[t] > 0
      <4>1. update.at \in Nat
        BY BoundsAssumption DEF TypeOK, WalletTypeOK, Update
      <4> QED BY <1>1, <4>1, <2>5 DEF ApplyUpdate, Later
    <3>3. \A t \in Tx : last_evicted'[t] > 0 => last_evicted[t] > 0 \/ t \in Missed
      BY <1>1, <2>5 DEF ApplyUpdate, Missed
    <3>4. Shown' = Shown
      BY <3>1 DEF Shown
    <3>5. \A t \in Tx : Known(t)' => Known(t)
      BY <3>1, <3>2 DEF Known, NoUpdate
    <3> QED BY <2>1, <2>2, <3>1, <3>2, <3>3, <3>4, <3>5 DEF OverOK, MissedOK, DoneOK
  <2>6. CASE FetchFails \/ PassSecond
    <3>1. /\ UNCHANGED <<mempool, chain, last_seen, last_evicted, anchored>>
          /\ \/ syncer' = syncer /\ update' = update
             \/ syncer' = "idle" /\ update' = NoUpdate
      BY <2>6 DEF FetchFails, PassSecond, networkVars, graphVars, syncVars
    <3>2. Shown' = Shown /\ (syncer' = "apply" => syncer = "apply" /\ Missed' = Missed)
      BY <3>1 DEF Shown, Missed
    <3>3. \A t \in Tx : Known(t)' => Known(t)
      BY <3>1 DEF Known, NoUpdate
    <3> QED BY <2>1, <2>2, <3>1, <3>2, <3>3 DEF OverOK, MissedOK, DoneOK
  <2>7. ASSUME NEW s \in Tx, Confirm(s) PROVE SeenOK'
    <3>1. UNCHANGED <<last_seen, last_evicted, anchored, syncer, update>>
      BY <2>7 DEF Confirm, graphVars, syncVars
    <3>2. Shown' = Shown /\ Missed' = Missed
      BY <2>7, <3>1 DEF Confirm, Shown, Missed
    <3>3. \A t \in Tx : Known(t)' <=> Known(t)
      BY <3>1 DEF Known
    <3> QED BY <2>1, <2>2, <3>1, <3>2, <3>3 DEF OverOK, MissedOK, DoneOK
  <2> QED BY <1>5, <2>3, <2>4, <2>5, <2>6, <2>7 DEF WalletOrNetwork, Alone
<1>6. CASE Aside
  <2>1. Shown' = Shown /\ (syncer' = "apply" => syncer = "apply" /\ Missed' = Missed)
    BY <1>6 DEF Aside, Shown, Missed
  <2>2. \A t \in Tx : (Known(t)' => Known(t)) /\ (Used(t)' <=> Used(t))
    BY <1>6 DEF Aside, Known, Used, NoUpdate
  <2> QED BY <1>6, <2>1, <2>2 DEF Aside, OverOK, MissedOK, DoneOK
<1> QED BY <1>2, <1>3, <1>4, <1>5, <1>6, WalletCases

\* A step leaves alone what is built, what is done, and what blocks hold.
LEMMA StepKeeps ==
  ASSUME TypeOK, KnownOK, [Next]_vars
  PROVE  /\ \A t \in Tx : Built(t) => inputs'[t] = inputs[t]
         /\ \A t \in Tx : stage[t] = "done" => stage'[t] = "done"
         /\ anchored' \subseteq chain
<1> USE DEF networkVars, graphVars, syncVars, queueVars, batchVars, walletVars
<1>1. ASSUME NEW s \in Tx, SendBatch(s) \/ Broadcast(s) \/ ApplyTx(s)
      PROVE  /\ \A t \in Tx : Built(t) => inputs'[t] = inputs[t]
             /\ \A t \in Tx : stage[t] = "done" => stage'[t] = "done"
             /\ anchored' = anchored
  <2>1. CASE SendBatch(s)
    <3>1. ~Built(s)
      BY <2>1, BoundsAssumption DEF SendBatch, NextTx, Tx
    <3> QED BY <2>1, <3>1 DEF SendBatch, Built, TypeOK, WalletTypeOK
  <2>2. CASE Broadcast(s) \/ ApplyTx(s)
    BY <2>2 DEF Broadcast, ApplyTx, AfterBroadcast, AfterError, ApplyUnconfirmed, TypeOK
  <2> QED BY <1>1, <2>1, <2>2
<1>2. CASE WalletOrNetwork
  <2>1. UNCHANGED <<stage, inputs>> /\ anchored' \in {anchored, anchored \cup update.confirmed}
    BY <1>2 DEF WalletOrNetwork, Alone, BuildSyncRequest, FetchUpdate, FetchFails,
      ApplyUpdate, PassSecond, Confirm
  <2> QED BY <2>1 DEF KnownOK
<1>3. CASE Aside
  BY <1>3 DEF Aside, KnownOK
<1> QED BY <1>1, <1>2, <1>3, WalletCases DEF KnownOK

\* The families of what is built are settled, and so are their conflicts.
LEMMA FamiliesKept ==
  ASSUME BuiltInOrder, \A t \in Tx : Built(t) => inputs'[t] = inputs[t]
  PROVE  \A t, u \in BuiltTxs :
           /\ Family'[t] = Family[t]
           /\ ConflictsWith(Family[t], Family[u])' <=> ConflictsWith(Family[t], Family[u])
<1>1. PICK n \in 0..MaxTx : \A t \in Tx : Built(t) <=> t <= n
  BY DEF BuiltInOrder
<1>2. \A t \in Tx : t <= n => Family'[t] = Family[t]
  BY <1>1, FamilySame, BoundsAssumption
<1>3. ASSUME NEW t \in BuiltTxs PROVE \A x \in Family[t] : inputs'[x] = inputs[x]
  <2>1. t \in Tx /\ t <= n /\ n \in Nat
    BY <1>1, BoundsAssumption DEF BuiltTxs
  <2>2. \A x \in 1..t : x \in Tx /\ x <= n
    BY <2>1, BoundsAssumption DEF Tx
  <2> QED BY <1>1, <2>1, <2>2, FamilyMembers
<1> SUFFICES ASSUME NEW t \in BuiltTxs, NEW u \in BuiltTxs
             PROVE  /\ Family'[t] = Family[t] /\ Family'[u] = Family[u]
                    /\ ConflictsWith(Family[t], Family[u])' <=> ConflictsWith(Family[t], Family[u])
  OBVIOUS
<1>4. Family'[t] = Family[t] /\ Family'[u] = Family[u]
  BY <1>1, <1>2 DEF BuiltTxs
<1>5. \A x \in Family[t], y \in Family[u] : Conflict(x, y)' <=> Conflict(x, y)
  BY <1>3 DEF Conflict
<1> QED BY <1>4, <1>5 DEF ConflictsWith

\* What a batch may spend is the change of canonical batches, which do not spend it.
LEMMA NewBatch ==
  ASSUME TypeOK, BuiltInOrder, FamiliesOK, NEW s \in Tx, SendBatch(s)
  PROVE  \A x, y \in Family'[s] : ~Conflict(x, y)'
<1>1. PICK coins \in SUBSET Spendable \ {{}} : inputs' = [inputs EXCEPT ![s] = coins]
  BY DEF SendBatch
<1>2. inputs'[s] = coins /\ \A t \in Tx : t # s => inputs'[t] = inputs[t]
  BY <1>1 DEF TypeOK, WalletTypeOK
<1>3. s \in Nat \ {0} /\ \A t \in 1..(s - 1) : t \in Tx /\ t <= s - 1 /\ t # s
  BY BoundsAssumption DEF Tx
<1>4. CanonicalFacts
  BY GraphFacts
<1>5. ASSUME NEW u \in coins \cap (1..(s - 1)) PROVE Family'[u] \subseteq Canonical
  <2>1. u \in Tx /\ u <= s - 1
    BY <1>3
  <2>2. u \notin Funding
    BY <2>1, FundingAssumption
  <2>3. u \in Canonical
    BY <1>1, <2>2 DEF Spendable, UnspentAfter
  <2>4. Family'[u] = Family[u]
    <3>1. s - 1 \in Nat /\ \A t \in Tx : t <= s - 1 => inputs'[t] = inputs[t]
      BY <1>2, <1>3, BoundsAssumption DEF Tx
    <3> QED BY <2>1, <3>1, FamilySame
  <2> QED BY <1>4, <2>3, <2>4 DEF CanonicalFacts
<1>6. Family'[s] \subseteq {s} \cup Canonical
  <2>1. Family'[s] = {s} \cup (UNION {Family'[u] : u \in coins \cap (1..(s - 1))})
    BY <1>2, FamilyOfNext DEF FamilyEquation
  <2> QED BY <1>5, <2>1
<1>7. ASSUME NEW x \in Canonical, x # s, NEW y \in Canonical, y # s PROVE ~Conflict(x, y)'
  <2>1. ~ConflictsWith(Canonical, Canonical) /\ x \in Tx /\ y \in Tx
    BY <1>4 DEF CanonicalFacts, FamiliesOK
  <2>2. ~Conflict(x, y)
    BY <2>1 DEF ConflictsWith
  <2>3. inputs'[x] = inputs[x] /\ inputs'[y] = inputs[y]
    BY <1>2, <1>7, <2>1
  <2> QED BY <2>2, <2>3 DEF Conflict
<1>8. ASSUME NEW x \in Canonical, x # s PROVE inputs'[x] \cap inputs'[s] = {}
  <2>1. inputs'[x] = inputs[x]
    <3>1. x \in Tx
      BY <1>4 DEF CanonicalFacts
    <3> QED BY <1>2, <1>8, <3>1
  <2>2. \A c \in coins : c \notin inputs[x]
    BY DEF Spendable, UnspentAfter
  <2> QED BY <1>2, <2>1, <2>2
<1>9. ASSUME NEW x \in Family'[s], NEW y \in Family'[s], Conflict(x, y)' PROVE FALSE
  <2>1. x # y /\ inputs'[x] \cap inputs'[y] # {}
    BY <1>9 DEF Conflict
  <2>2. CASE x # s /\ y # s
    BY <1>6, <1>7, <1>9, <2>2
  <2>3. CASE x = s \/ y = s
    BY <1>6, <1>8, <2>1, <2>3
  <2> QED BY <2>2, <2>3
<1> QED BY <1>9

LEMMA FamiliesStep ==
  ASSUME TypeOK, BuiltInOrder, KnownOK, FamiliesOK, KnownOK', [Next]_vars
  PROVE  FamiliesOK'
<1>1. ASSUME NEW t \in Tx, Built(t) PROVE ~ConflictsWith(Family[t], Family[t])'
  <2>1. t \in BuiltTxs
    BY <1>1 DEF BuiltTxs
  <2> QED BY <2>1, StepKeeps, FamiliesKept DEF FamiliesOK
<1>2. ASSUME NEW t \in Tx, ~Built(t)' PROVE ~ConflictsWith(Family[t], Family[t])'
  <2>1. inputs'[t] = {}
    BY <1>2 DEF KnownOK
  <2>2. Family'[t] = {t}
    BY <2>1, FamilyOfNext DEF FamilyEquation
  <2> QED BY <2>2 DEF ConflictsWith, Conflict
<1>3. ASSUME NEW t \in Tx, ~Built(t), Built(t)' PROVE ~ConflictsWith(Family[t], Family[t])'
  <2>1. SendBatch(t)
    <3>1. \E s \in Tx : SendBatch(s)
      BY <1>3, BuiltCases
    <3>2. PICK s \in Tx : SendBatch(s)
      BY <3>1
    <3>3. s = t
      BY <1>3, <3>2 DEF SendBatch, Built, TypeOK
    <3> QED BY <3>2, <3>3
  <2> QED BY <2>1, NewBatch DEF ConflictsWith
<1> QED BY <1>1, <1>2, <1>3 DEF FamiliesOK

LEMMA GraphInvariance == Spec => []GraphInv
<1>1. Init => GraphInv
  <2> SUFFICES ASSUME Init PROVE GraphInv
    OBVIOUS
  <2>1. KnownOK /\ SeenOK
    BY BoundsAssumption DEF Init, WalletInit, KnownOK, SeenOK, OverOK, MissedOK, DoneOK,
      Known, Used, Shown, NoUpdate
  <2>2. ASSUME NEW t \in Tx PROVE Family[t] = {t}
    <3>1. inputs[t] = {}
      BY DEF Init, WalletInit
    <3> QED BY <3>1, FamilyOf
  <2>3. FamiliesOK
    BY <2>2 DEF FamiliesOK, ConflictsWith, Conflict
  <2> QED BY <2>1, <2>3 DEF GraphInv
<1>2. IInv /\ GraphInv /\ [Next]_vars => GraphInv'
  BY KnownStep, SeenStep, FamiliesStep DEF IInv, GraphInv
<1> QED BY <1>1, <1>2, Invariance, PTL DEF Spec

-----------------------------------------------------------------------------
(* What the wallet does not forget.                                        *)

\* A transaction that esplora has and that was applied is in the graph: no scan has
\* missed it.
LEMMA AppliedInGraph ==
  ASSUME TypeOK, SeenOK PROVE \A t \in AppliedAndShown : t \in InGraph
<1> SUFFICES ASSUME NEW t \in AppliedAndShown PROVE last_seen[t] > last_evicted[t]
  BY DEF InGraph, AppliedAndShown, BuiltTxs
<1>1. t \in Tx /\ last_seen[t] \in Nat /\ last_evicted[t] \in Nat
  BY DEF TypeOK, WalletTypeOK, AppliedAndShown, BuiltTxs
<1>2. last_seen[t] > 0 /\ ~(last_evicted[t] > 0)
  BY <1>1 DEF SeenOK, DoneOK, MissedOK, AppliedAndShown
<1> QED BY <1>1, <1>2

\* It is in the graph after a step too, even if the step replaces it in the mempool.
LEMMA AppliedStaysInGraph ==
  ASSUME TypeOK, KnownOK, SeenOK, TypeOK', SeenOK', [Next]_vars, NEW t \in AppliedAndShown
  PROVE  t \in InGraph'
<1> USE DEF graphVars
<1>1. t \in Tx /\ stage[t] = "done" /\ t \in Shown
  BY DEF AppliedAndShown, BuiltTxs
<1>2. stage'[t] = "done"
  BY <1>1, StepKeeps
<1>3. last_seen'[t] \in Nat /\ last_evicted'[t] \in Nat /\ last_seen'[t] > 0
  BY <1>1, <1>2 DEF SeenOK, DoneOK, TypeOK, WalletTypeOK
<1>4. last_evicted[t] = 0 /\ ~(syncer = "apply" /\ t \in Missed)
  BY <1>1 DEF SeenOK, MissedOK, TypeOK, WalletTypeOK
<1>5. last_evicted'[t] = last_evicted[t]
  <2>1. ASSUME NEW s \in Tx, SendBatch(s) \/ Broadcast(s) \/ ApplyTx(s)
        PROVE  last_evicted' = last_evicted
    BY <2>1 DEF SendBatch, Broadcast, ApplyTx, ApplyUnconfirmed
  <2>2. CASE ApplyUpdate
    BY <1>1, <1>4, <2>2 DEF ApplyUpdate, Missed
  <2>3. CASE WalletOrNetwork /\ ~ApplyUpdate
    BY <2>3 DEF WalletOrNetwork, Alone, BuildSyncRequest, FetchUpdate, FetchFails,
      PassSecond, Confirm
  <2>4. CASE Aside
    BY <2>4 DEF Aside
  <2> QED BY <2>1, <2>2, <2>3, <2>4, WalletCases
<1> QED BY <1>1, <1>3, <1>4, <1>5 DEF InGraph

\* Without conflicts, it is canonical.
LEMMA AppliedIsCanonical ==
  ASSUME TypeOK, GraphInv, \A t, u \in BuiltTxs : ~Conflict(t, u)
  PROVE  \A t \in AppliedAndShown : t \in Canonical
<1>1. ASSUME NEW x \in Tx, NEW y \in Tx PROVE ~Conflict(x, y)
  BY DEF GraphInv, KnownOK, BuiltTxs, Conflict
<1>2. InGraph \subseteq Tx
  BY DEF InGraph, TypeOK, WalletTypeOK
<1>3. ASSUME NEW t \in InGraph, NEW v \in InGraph
      PROVE  ~ConflictsWith(Family[t], Family[v])
  BY <1>1, <1>2, FamilyInTx DEF ConflictsWith
<1> QED BY <1>3, GraphFacts, AppliedInGraph DEF CanonicalFacts, GraphInv

\* The coins of a batch that is in esplora and in the wallet are not spent again, as
\* long as no two batches have come to spend the same ones before.
THEOREM CoinsKept == Spec => AppliedKeepsCoins
<1>1. ASSUME IInv, GraphInv, [Next]_vars, \A t, u \in BuiltTxs : ~Conflict(t, u),
             NEW u \in AppliedAndShown, NEW t, t \in BuiltTxs'
      PROVE  ~Conflict(t, u)'
  <2> USE DEF IInv
  <2>1. inputs'[u] = inputs[u] /\ u \in Tx /\ u \in BuiltTxs /\ t \in Tx
    BY <1>1, StepKeeps DEF GraphInv, BuiltTxs, AppliedAndShown
  <2>2. CASE Built(t)
    <3>1. inputs'[t] = inputs[t] /\ t \in BuiltTxs
      BY <1>1, <2>1, <2>2, StepKeeps DEF GraphInv, BuiltTxs
    <3> QED BY <1>1, <2>1, <3>1 DEF Conflict
  <2>3. CASE ~Built(t)
    <3>1. PICK s \in Tx : SendBatch(s)
      BY <1>1, <2>1, <2>3, BuiltCases DEF BuiltTxs
    <3>2. s = t
      BY <1>1, <2>1, <2>3, <3>1 DEF SendBatch, Built, BuiltTxs, TypeOK
    <3>3. inputs'[t] \subseteq Spendable
      <4>1. PICK coins \in SUBSET Spendable \ {{}} : inputs' = [inputs EXCEPT ![t] = coins]
        BY <3>1, <3>2 DEF SendBatch
      <4>2. inputs'[t] = coins
        BY <1>1, <2>1, <4>1 DEF TypeOK, WalletTypeOK
      <4> QED BY <4>2
    <3>4. u \in Canonical
      BY <1>1, AppliedIsCanonical
    <3>5. \A c \in Spendable : c \notin inputs[u]
      BY <3>4 DEF Spendable, UnspentAfter
    <3> QED BY <2>1, <3>3, <3>5 DEF Conflict
  <2> QED BY <2>2, <2>3
<1>2. IInv /\ GraphInv /\ [Next]_vars =>
        ((\A t, u \in BuiltTxs : ~Conflict(t, u)) =>
           \A u \in AppliedAndShown, t \in BuiltTxs' : ~Conflict(t, u)')
  BY <1>1
<1> QED BY <1>2, Invariance, GraphInvariance, PTL DEF Spec, AppliedKeepsCoins

\* What esplora has and has been applied stays canonical until one that conflicts with
\* it takes its place: neither the syncer, whatever it has fetched and however late it
\* applies it, nor a restart makes it go.
THEOREM AppliedKept == Spec => AppliedStays
<1>1. ASSUME IInv, IInv', GraphInv, GraphInv', [Next]_vars,
             NEW t \in AppliedAndShown, t \in Canonical, t \notin Canonical'
      PROVE  \E u \in Canonical' \ Canonical : ConflictsWith(Family[u], Family[t])
  <2> USE DEF IInv
  <2>1. CanonicalFacts /\ CanonicalFacts'
    BY <1>1, GraphFacts, CanonicalPropertiesNext DEF TypeOK, WalletTypeOK
  <2>2. t \in InGraph'
    BY <1>1, AppliedStaysInGraph DEF GraphInv
  <2>3. PICK v \in InGraph' \cap Canonical' : ConflictsWith(Family[t], Family[v])'
    BY <1>1, <2>1, <2>2 DEF CanonicalFacts
  <2>4. v \in BuiltTxs /\ t \in BuiltTxs
    <3>1. t \in BuiltTxs
      BY <1>1 DEF AppliedAndShown
    <3>2. v \in Tx /\ Known(v)'
      BY <1>1, <2>3 DEF InGraph, Known, TypeOK, WalletTypeOK
    <3>3. Built(v)'
      BY <1>1, <3>2 DEF GraphInv, SeenOK, OverOK, Over, Built
    <3>4. Built(v)
      <4> SUFFICES ASSUME ~Built(v) PROVE FALSE
        OBVIOUS
      <4>1. PICK s \in Tx : SendBatch(s)
        BY <1>1, <3>2, <3>3, BuiltCases
      <4>2. s = v
        BY <1>1, <3>2, <3>3, <4>1 DEF SendBatch, Built, TypeOK
      <4>3. stage'[v] = "broadcast"
        BY <1>1, <4>1, <4>2 DEF SendBatch, TypeOK
      <4> QED BY <1>1, <3>2, <4>3 DEF GraphInv, SeenOK, OverOK, Over
    <3> QED BY <3>1, <3>2, <3>4 DEF BuiltTxs
  <2>5. ConflictsWith(Family[t], Family[v])
    BY <1>1, <2>3, <2>4, StepKeeps, FamiliesKept DEF GraphInv
  <2>6. v \notin Canonical
    <3> SUFFICES ASSUME v \in Canonical PROVE FALSE
      OBVIOUS
    <3>1. ~ConflictsWith(Canonical, Canonical)
      BY <1>1, <2>1 DEF CanonicalFacts, GraphInv, FamiliesOK
    <3>2. Family[t] \subseteq Canonical /\ Family[v] \subseteq Canonical
      BY <1>1, <2>1 DEF CanonicalFacts
    <3> QED BY <2>5, <3>1, <3>2 DEF ConflictsWith
  <2>7. ConflictsWith(Family[v], Family[t])
    BY <2>5 DEF ConflictsWith, Conflict
  <2> QED BY <2>3, <2>6, <2>7
<1>2. IInv /\ IInv' /\ GraphInv /\ GraphInv' /\ [Next]_vars =>
        \A t \in AppliedAndShown : t \in Canonical /\ t \notin Canonical' =>
          \E u \in Canonical' \ Canonical : ConflictsWith(Family[u], Family[t])
  BY <1>1
<1> QED BY <1>2, Invariance, GraphInvariance, PTL DEF Spec, AppliedStays

=============================================================================
