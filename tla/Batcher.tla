------------------------------- MODULE Batcher -------------------------------
(***************************************************************************)
(* The L1 payouts of the faucet (src/batcher.rs): claims that have passed  *)
(* the proof of work send a payout request into an unbounded channel; the  *)
(* batcher task moves it to a bounded queue and, when its interval ticks,  *)
(* pays the oldest ones with one transaction, which a detached task        *)
(* broadcasts and applies to the wallet of module L1Wallet.                *)
(*                                                                         *)
(* A request is one call of claim_l1 that has its address checked already; *)
(* amounts and addresses are left out.  Transaction t is the t-th that the *)
(* batcher builds; payees[t] are the requests that it has outputs for.     *)
(***************************************************************************)
EXTENDS L1Wallet, Sequences, FiniteSets

CONSTANTS
  Request,      \* the payout requests
  MaxPerTx,     \* BatcherConfig.max_per_tx
  MaxInFlight,  \* BatcherConfig.max_in_flight
  Restarts,     \* may the process be restarted?
  AbsurdFees    \* may a transaction pay more than extract_tx lets pass?

ASSUME ConfigAssumption == MaxPerTx \in Nat \ {0} /\ MaxInFlight \in Nat
ASSUME EnvironmentAssumption == {Restarts, AbsurdFees} \subseteq BOOLEAN

VARIABLES
  claim,            \* what a request's handler has answered
  channel,          \* the unbounded channel
  l1_payout_queue,
  tick_due,         \* batch_interval has elapsed
  batcher,          \* whether the batcher task still runs
  payees,           \* whom each transaction pays, <<>> before it is built
  stage             \* how far the detached task of each transaction is

queueVars == <<claim, channel, l1_payout_queue, tick_due, batcher>>
batchVars == <<payees, stage>>
vars == <<walletVars, queueVars, batchVars>>

\* The queue's length is part of its type: what would exceed it is dropped.
TypeOK ==
  /\ WalletTypeOK
  /\ claim \in [Request -> {"new", "ok", "panicked"}]
  /\ channel \in Seq(Request)
  /\ l1_payout_queue \in Seq(Request)
  /\ Len(l1_payout_queue) <= MaxInFlight
  /\ tick_due \in BOOLEAN
  /\ batcher \in {"select", "panicked"}
  /\ payees \in [Tx -> Seq(Request)]
  /\ stage \in [Tx -> {"unbuilt", "broadcast", "apply", "done", "killed"}]

\* An interval's first tick comes at once.
Init ==
  /\ WalletInit
  /\ claim = [r \in Request |-> "new"]
  /\ channel = <<>>
  /\ l1_payout_queue = <<>>
  /\ tick_due = TRUE
  /\ batcher = "select"
  /\ payees = [t \in Tx |-> <<>>]
  /\ stage = [t \in Tx |-> "unbuilt"]

Built(t) == stage[t] # "unbuilt"

InFlight == {t \in Tx : stage[t] \in {"broadcast", "apply"}}

-----------------------------------------------------------------------------
(* queue_payout_request, called by claim_l1 with `expect`.                 *)

\* The channel takes everything while the task that owns its other end lives.
QueuePayoutRequest(r) ==
  /\ claim[r] = "new"
  /\ batcher = "select"
  /\ claim' = [claim EXCEPT ![r] = "ok"]
  /\ channel' = Append(channel, r)
  /\ UNCHANGED <<walletVars, l1_payout_queue, tick_due, batcher, batchVars>>

QueuingFails(r) ==
  /\ claim[r] = "new"
  /\ batcher = "panicked"
  /\ claim' = [claim EXCEPT ![r] = "panicked"]
  /\ UNCHANGED <<walletVars, channel, l1_payout_queue, tick_due, batcher, batchVars>>

-----------------------------------------------------------------------------
(* The batcher task: a biased select over the interval and the channel.    *)

\* Whether or not the batch before has been broadcast and applied.
IntervalElapses ==
  /\ batcher = "select"
  /\ ~tick_due
  /\ tick_due' = TRUE
  /\ UNCHANGED <<walletVars, claim, channel, l1_payout_queue, batcher, batchVars>>

\* Mutant: the bound is checked after the push.
RoomWithOne == Len(l1_payout_queue) <= MaxInFlight

Room == Len(l1_payout_queue) < MaxInFlight

\* Mutant: new requests go to the front of the queue.
RecvToFront ==
  /\ batcher = "select"
  /\ ~tick_due
  /\ channel # <<>>
  /\ channel' = Tail(channel)
  /\ l1_payout_queue' = IF Room THEN <<Head(channel)>> \o l1_payout_queue
                        ELSE l1_payout_queue
  /\ UNCHANGED <<walletVars, claim, tick_due, batcher, batchVars>>

\* What does not fit is dropped.
RecvRequest ==
  /\ batcher = "select"
  /\ ~tick_due
  /\ channel # <<>>
  /\ channel' = Tail(channel)
  /\ l1_payout_queue' = IF Room THEN Append(l1_payout_queue, Head(channel))
                        ELSE l1_payout_queue
  /\ UNCHANGED <<walletVars, claim, tick_due, batcher, batchVars>>

\* Mutant: a batch has to be full.
DequeFull == IF Len(l1_payout_queue) < MaxPerTx THEN 0 ELSE MaxPerTx

NumToDeque ==
  IF MaxPerTx <= Len(l1_payout_queue) THEN MaxPerTx ELSE Len(l1_payout_queue)

Batch == SubSeq(l1_payout_queue, 1, NumToDeque)

DrainBatch ==
  l1_payout_queue' =
    SubSeq(l1_payout_queue, NumToDeque + 1, Len(l1_payout_queue))

TickBegins == batcher = "select" /\ tick_due

TickWithoutRequests ==
  /\ TickBegins
  /\ l1_payout_queue = <<>>
  /\ tick_due' = FALSE
  /\ UNCHANGED <<walletVars, claim, channel, l1_payout_queue, batcher, batchVars>>

\* finish() returns an error, for want of funds as a rule.  The batch is gone.
FinishFails ==
  /\ TickBegins
  /\ l1_payout_queue # <<>>
  /\ DrainBatch
  /\ tick_due' = FALSE
  /\ UNCHANGED <<walletVars, claim, channel, batcher, batchVars>>

NextTx(t) == t \in Tx /\ \A u \in Tx : Built(u) <=> u < t

\* The transaction is built and signed under the wallet's lock, and handed to a
\* task of its own.  The coins are chosen by BDK among what can be spent.
SendBatch(t) ==
  /\ TickBegins
  /\ l1_payout_queue # <<>>
  /\ NextTx(t)
  /\ \E coins \in SUBSET Spendable \ {{}} : inputs' = [inputs EXCEPT ![t] = coins]
  /\ payees' = [payees EXCEPT ![t] = Batch]
  /\ stage' = [stage EXCEPT ![t] = "broadcast"]
  /\ DrainBatch
  /\ tick_due' = FALSE
  /\ UNCHANGED <<now, networkVars, graphVars, syncVars, claim, channel, batcher>>

\* extract_tx refuses a fee rate above 25000 sat/vB, and `expect` panics.
ExtractTxPanics ==
  /\ AbsurdFees
  /\ TickBegins
  /\ l1_payout_queue # <<>>
  /\ Spendable # {}

\* With panic = "unwind" the panic ends the task: its queue and the receiver of
\* the channel are dropped.
TaskPanics ==
  /\ ExtractTxPanics
  /\ batcher' = "panicked"
  /\ l1_payout_queue' = <<>>
  /\ channel' = <<>>
  /\ tick_due' = FALSE
  /\ UNCHANGED <<walletVars, claim, batchVars>>

\* Nothing of the batcher is persisted; main starts a new one.
ProcessRestarts ==
  /\ RestartWallet
  /\ channel' = <<>>
  /\ l1_payout_queue' = <<>>
  /\ tick_due' = TRUE
  /\ batcher' = "select"
  /\ stage' = [t \in Tx |-> IF t \in InFlight THEN "killed" ELSE stage[t]]
  /\ UNCHANGED <<claim, payees>>

\* With panic = "abort", as in release builds, it ends the process.
ProcessAborts == ExtractTxPanics /\ ProcessRestarts

Tick ==
  \/ TickWithoutRequests \/ FinishFails \/ TaskPanics \/ ProcessAborts
  \/ \E t \in Tx : SendBatch(t)

-----------------------------------------------------------------------------
(* The detached task of a transaction.                                     *)

\* Mutant: requests of a failed broadcast are queued again.
Requeue(t) ==
  /\ l1_payout_queue' = payees[t] \o l1_payout_queue
  /\ stage' = [stage EXCEPT ![t] = "done"]

\* Mutant: a transaction whose broadcast failed is not applied.
SkipApply(t) ==
  /\ stage' = [stage EXCEPT ![t] = "done"]
  /\ UNCHANGED l1_payout_queue

\* An error of the broadcast is logged, and that is all.
AfterError(t) ==
  /\ stage' = [stage EXCEPT ![t] = "apply"]
  /\ UNCHANGED l1_payout_queue

AfterBroadcast(t) ==
  /\ stage' = [stage EXCEPT ![t] = "apply"]
  /\ UNCHANGED l1_payout_queue

\* Esplora accepts the transaction; its answer may still be lost.
Broadcast(t) ==
  /\ stage[t] = "broadcast"
  /\ EnterMempool(t)
  /\ AfterBroadcast(t) \/ AfterError(t)
  /\ UNCHANGED <<now, inputs, graphVars, syncVars, claim, channel, tick_due, batcher, payees>>

\* Esplora refuses it, or is not reached.
BroadcastFails(t) ==
  /\ stage[t] = "broadcast"
  /\ AfterError(t)
  /\ UNCHANGED <<walletVars, claim, channel, tick_due, batcher, payees>>

\* spawn_blocking: apply and persist under the wallet's lock.
ApplyTx(t) ==
  /\ stage[t] = "apply"
  /\ ApplyUnconfirmed(t)
  /\ stage' = [stage EXCEPT ![t] = "done"]
  /\ UNCHANGED <<now, inputs, networkVars, syncVars, queueVars, payees>>

-----------------------------------------------------------------------------
(* The whole.                                                              *)

Restart == Restarts /\ ProcessRestarts

Alone(A) == A /\ UNCHANGED <<queueVars, batchVars>>

WalletOrNetwork ==
  \/ Alone(BuildSyncRequest) \/ Alone(FetchUpdate)
  \/ Alone(FetchFails) \/ Alone(ApplyUpdate)
  \/ Alone(PassSecond) \/ \E t \in Tx : Alone(Confirm(t))

Next ==
  \/ \E r \in Request : QueuePayoutRequest(r) \/ QueuingFails(r)
  \/ IntervalElapses \/ RecvRequest \/ Tick
  \/ \E t \in Tx : Broadcast(t) \/ BroadcastFails(t) \/ ApplyTx(t)
  \/ Restart
  \/ WalletOrNetwork

Spec == Init /\ [][Next]_vars

\* The interval ticks, the task is polled and so are the detached ones.  Its
\* period is long against the handling of a request, so that ticks do not keep
\* the channel from being read for ever, though they come first.
BatcherFairness ==
  /\ WF_vars(IntervalElapses)
  /\ WF_vars(Tick)
  /\ SF_vars(RecvRequest)
  /\ \A t \in Tx : WF_vars(Broadcast(t) \/ BroadcastFails(t)) /\ WF_vars(ApplyTx(t))

\* The syncer is polled, and not every scan is cut short by an error of esplora
\* or by a restart.
SyncerFairness ==
  /\ WF_vars(Alone(BuildSyncRequest))
  /\ SF_vars(Alone(FetchUpdate))
  /\ SF_vars(Alone(ApplyUpdate))

FairSpec == Spec /\ BatcherFairness /\ SyncerFairness

-----------------------------------------------------------------------------
(* Properties                                                              *)

\* The transactions built so far, and the requests that the batcher holds.
BuiltTxs == {t \in Tx : Built(t)}

Held == l1_payout_queue \o channel

Occurs(r, seq) == \E i \in 1..Len(seq) : seq[i] = r

\* No request has an output in two transactions, nor two in one, whatever
\* becomes of the broadcasts, and none that has one is still held: what was
\* drained is never queued again.
PaidOnce ==
  /\ \A t, u \in Tx : \A i \in 1..Len(payees[t]), j \in 1..Len(payees[u]) :
       payees[t][i] = payees[u][j] => t = u /\ i = j
  /\ \A t \in Tx : \A i \in 1..Len(payees[t]) : ~Occurs(payees[t][i], Held)

\* The batcher implements PayoutLedger, with the queue followed by the channel
\* as what it holds and the transactions in the order of their batches.
Accepted == {r \in Request : claim[r] = "ok"}

Paid == [t \in 1..Cardinality(BuiltTxs) |-> payees[t]]

Ledger == INSTANCE PayoutLedger WITH
  accepted <- Accepted, held <- Held, paid <- Paid

ImplementsPayoutLedger == Ledger!LedgerSpec

\* What the next two are about: the transactions that esplora has and that have
\* been applied to the wallet.  One that no broadcast has delivered ought to be
\* dropped, as MissedIsDropped has it.
Shown == mempool \cup chain

AppliedAndShown == {t \in BuiltTxs : stage[t] = "done" /\ t \in Shown}

\* The first conflict between two batches is between one that is being built and
\* one that has not been applied to the wallet or was never delivered, whichever
\* broadcasts fail, lose their answer or are confirmed, and whatever snapshots
\* the syncer applies: a batch that is in esplora and in the wallet keeps its
\* coins until others have come to conflict.
AppliedKeepsCoins ==
  [][(\A t, u \in BuiltTxs : ~Conflict(t, u)) =>
       \A u \in AppliedAndShown, t \in BuiltTxs' : ~Conflict(t, u)']_vars

\* Neither the syncer, however old the snapshot that it applies, nor a restart
\* makes the wallet forget what such a batch has spent: it stops being canonical
\* only in favour of one that conflicts with it.
AppliedStays ==
  [][\A t \in AppliedAndShown : t \in Canonical /\ t \notin Canonical' =>
       \E u \in Canonical' \ Canonical : ConflictsWith(Family[u], Family[t])]_vars

\* What has been accepted does not stay with the batcher for ever.
HeldIsSettled ==
  \A r \in Request : Occurs(r, Held) ~> ~Occurs(r, Held)

\* The wallet comes to agree with the chain: what a confirmed transaction has
\* spent is not offered to a batch any more, although its broadcast may have
\* been killed before it was applied, or replaced in the wallet by a batch that
\* spent the same coins.
WalletFollowsChain ==
  \A t \in Tx : t \in chain ~> (t \in Canonical /\ inputs[t] \cap Spendable = {})

-----------------------------------------------------------------------------
(* What comments and documents say, and the code does not do.              *)

\* "If successful, this will return a 200 OK": what is answered so is paid by a
\* transaction, or will be.
OkIsNotLost ==
  \A r \in Request : claim[r] = "ok" =>
    Occurs(r, Held) \/ \E t \in Tx : Occurs(r, payees[t])

\* "scans the chain for the wallet's outputs": a wallet that has seen nothing
\* since the second in which the scan began, and knows of nothing but what the
\* scan has looked for, does not count, after it, on a transaction that was not
\* found.
Missed == update.expected \ (update.unconfirmed \cup update.confirmed)

Unchanged ==
  /\ InGraph \subseteq Canonical /\ Canonical = update.expected
  /\ \A t \in InGraph : last_seen[t] \div MillisPerSecond <= update.at

MissedIsDropped ==
  [][syncer = "apply" /\ syncer' = "idle" /\ Unchanged => Missed \cap Canonical' = {}]_vars
=============================================================================
