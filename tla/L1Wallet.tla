------------------------------ MODULE L1Wallet ------------------------------
(***************************************************************************)
(* The faucet's wallet (src/l1.rs) and the Bitcoin network as esplora      *)
(* shows it.  The wallet is BDK's: a persisted graph of transactions, each *)
(* with the last time it was seen, the last time it was missed, and        *)
(* whether a block holds it.  From these BDK decides which transactions    *)
(* are canonical, and so which coins can be spent.                         *)
(*                                                                         *)
(* The module gives the operations of the wallet, of its syncer and of the *)
(* network as actions on its own variables; module Batcher composes them.  *)
(* An operation that runs under the wallet's RwLock is one action.  Every  *)
(* update is persisted under the lock that it is applied under, so the     *)
(* same variables are the sqlite file, and a restart leaves them alone.    *)
(*                                                                         *)
(* A transaction is the number of the batch that it pays.  A coin is an    *)
(* output of the faucet: one that somebody funded it with, or the change   *)
(* of transaction t, which is also called t.                               *)
(***************************************************************************)
EXTENDS Integers

CONSTANTS
  Funding,          \* the confirmed coins that the faucet starts with
  MaxTx,            \* bound: how many transactions the batcher may build
  MaxTime,          \* bound: the clock stops here
  MillisPerSecond

Tx == 1..MaxTx
Coin == Funding \cup Tx

ASSUME BoundsAssumption == MaxTx \in Nat /\ MaxTime \in Nat \ {0}
ASSUME MillisAssumption == MillisPerSecond \in Nat \ {0}
ASSUME FundingAssumption == Funding \cap Tx = {}

VARIABLES
  now,           \* the system clock, in seconds
  inputs,        \* the coins that each transaction spends, {} before it is built
  mempool,       \* the unconfirmed transactions that esplora shows
  chain,         \* the confirmed ones
  last_seen,     \* the wallet's graph: when a transaction was last seen, or 0
  last_evicted,  \* when it was last missed in the mempool, or 0
  anchored,      \* the transactions that the graph knows to be in blocks
  syncer,        \* what the syncer task does
  update         \* the sync request, then the update that answers it

networkVars == <<mempool, chain>>
graphVars == <<last_seen, last_evicted, anchored>>
syncVars == <<syncer, update>>
walletVars == <<now, inputs, networkVars, graphVars, syncVars>>

Update == [at : 0..MaxTime, expected : SUBSET Tx,
           unconfirmed : SUBSET Tx, confirmed : SUBSET Tx]

NoUpdate == [at |-> 0, expected |-> {}, unconfirmed |-> {}, confirmed |-> {}]

WalletTypeOK ==
  /\ now \in 1..MaxTime
  /\ inputs \in [Tx -> SUBSET Coin]
  /\ mempool \subseteq Tx /\ chain \subseteq Tx /\ anchored \subseteq Tx
  /\ last_seen \in [Tx -> Nat]
  /\ last_evicted \in [Tx -> Nat]
  /\ syncer \in {"idle", "fetch", "apply"}
  /\ update \in Update

WalletInit ==
  /\ now = 1
  /\ inputs = [t \in Tx |-> {}]
  /\ mempool = {} /\ chain = {} /\ anchored = {}
  /\ last_seen = [t \in Tx |-> 0]
  /\ last_evicted = [t \in Tx |-> 0]
  /\ syncer = "idle"
  /\ update = NoUpdate

Later(t, u) == IF t < u THEN u ELSE t

-----------------------------------------------------------------------------
(* Transactions.  A batch can only spend the change of an earlier one.     *)

\* A transaction and the faucet's transactions that it spends from.
Family[t \in Tx] ==
  {t} \cup UNION {Family[u] : u \in inputs[t] \cap (1..(t - 1))}

Conflict(t, u) == t # u /\ inputs[t] \cap inputs[u] # {}

ConflictsWith(ts, us) == \E t \in ts, u \in us : Conflict(t, u)

\* The coins that remain when exactly the transactions of ts have happened.
UnspentAfter(ts) ==
  {c \in Coin : c \in Funding \cup ts /\ \A t \in ts : c \notin inputs[t]}

-----------------------------------------------------------------------------
(* The wallet's graph (bdk_chain).                                         *)

\* A transaction missed at the time it was last seen, or later, is gone.
InGraph == anchored \cup {t \in Tx : last_seen[t] > last_evicted[t]}

\* Confirmed transactions come first, then those seen last.
Precedes(t, u) ==
  \/ t \in anchored /\ u \notin anchored
  \/ /\ t \in anchored <=> u \in anchored
     /\ \/ last_seen[t] > last_seen[u]
        \/ last_seen[t] = last_seen[u] /\ t >= u

\* In that order, a transaction is canonical, and so is its family, unless it
\* conflicts with those that are canonical already.
CanonicalOf[ts \in SUBSET Tx] ==
  IF ts = {} THEN {}
  ELSE LET t == CHOOSE t \in ts : \A u \in ts : Precedes(u, t)
           earlier == CanonicalOf[ts \ {t}]
       IN  IF ConflictsWith(Family[t], earlier) THEN earlier ELSE earlier \cup Family[t]

Canonical == Tx \cap CanonicalOf[InGraph]

\* What build_tx may spend: foreign or own, confirmed or not.
Spendable == UnspentAfter(Canonical)

\* apply_unconfirmed_txs with the time of the call, which is in milliseconds,
\* and persist.
ApplyUnconfirmed(t) ==
  /\ last_seen' = [last_seen EXCEPT ![t] = Later(@, now * MillisPerSecond)]
  /\ UNCHANGED <<last_evicted, anchored>>

-----------------------------------------------------------------------------
(* L1Wallet::spawn_syncer.  The pause between two rounds shows nowhere.    *)

\* The request is built from the wallet as it is: its canonical transactions
\* are expected to be found.
BuildSyncRequest ==
  /\ syncer = "idle"
  /\ syncer' = "fetch"
  /\ update' = [at |-> now, expected |-> Canonical, unconfirmed |-> {}, confirmed |-> {}]
  /\ UNCHANGED <<now, inputs, networkVars, graphVars>>

\* Esplora's answer; no lock is held.
FetchUpdate ==
  /\ syncer = "fetch"
  /\ syncer' = "apply"
  /\ update' = [at |-> update.at, expected |-> update.expected,
                unconfirmed |-> mempool, confirmed |-> chain]
  /\ UNCHANGED <<now, inputs, networkVars, graphVars>>

\* Mutant: the task returns, as the fee-rate task does.
FetchErrorEnds ==
  /\ syncer = "fetch"
  /\ syncer' = "ended"
  /\ update' = NoUpdate
  /\ UNCHANGED <<now, inputs, networkVars, graphVars>>

FetchFails ==
  /\ syncer = "fetch"
  /\ syncer' = "idle"
  /\ update' = NoUpdate
  /\ UNCHANGED <<now, inputs, networkVars, graphVars>>

\* apply_update and persist.  Seen and missed transactions get the time of the
\* request, in seconds.
ApplyUpdate ==
  /\ syncer = "apply"
  /\ syncer' = "idle"
  /\ LET missed == update.expected \ (update.unconfirmed \cup update.confirmed) IN
       /\ last_seen' = [t \in Tx |->
            IF t \in update.unconfirmed THEN Later(last_seen[t], update.at) ELSE last_seen[t]]
       /\ last_evicted' = [t \in Tx |->
            IF t \in missed THEN Later(last_evicted[t], update.at) ELSE last_evicted[t]]
  /\ anchored' = anchored \cup update.confirmed
  /\ update' = NoUpdate
  /\ UNCHANGED <<now, inputs, networkVars>>

\* Mutant: the database does not have what was applied to the wallet, but for
\* what blocks hold.
RestartUnpersisted ==
  /\ syncer' = "idle"
  /\ update' = NoUpdate
  /\ last_seen' = [t \in Tx |-> 0]
  /\ UNCHANGED <<now, inputs, networkVars, last_evicted, anchored>>

\* The task starts anew; what is persisted stays.
RestartWallet ==
  /\ syncer' = "idle"
  /\ update' = NoUpdate
  /\ UNCHANGED <<now, inputs, networkVars, graphVars>>

-----------------------------------------------------------------------------
(* The network.                                                            *)

\* What entering the mempool would replace: conflicts and what spends from them.
Replaced(t) == {u \in mempool : ConflictsWith({t}, Family[u])}

\* Whether t can be relayed: its coins exist, no block has spent them, and it
\* does not spend from what it replaces.  Whether it is is up to the fees.
Acceptable(t) ==
  /\ inputs[t] \subseteq Funding \cup mempool \cup chain
  /\ ~ConflictsWith({t}, chain)
  /\ inputs[t] \cap Replaced(t) = {}

EnterMempool(t) ==
  /\ Acceptable(t)
  /\ mempool' = (mempool \ Replaced(t)) \cup {t}
  /\ UNCHANGED chain

Confirm(t) ==
  /\ t \in mempool
  /\ inputs[t] \subseteq Funding \cup chain
  /\ chain' = chain \cup {t}
  /\ mempool' = mempool \ {t}
  /\ UNCHANGED <<now, inputs, graphVars, syncVars>>

PassSecond ==
  /\ now < MaxTime
  /\ now' = now + 1
  /\ UNCHANGED <<inputs, networkVars, graphVars, syncVars>>
=============================================================================
