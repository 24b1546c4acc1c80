# Verification of the faucet API

TLA+ models of `faucet-api`, a Rust server that hands out coins on a Bitcoin
signet (L1) and on an EVM rollup (L2) to whoever solves a proof-of-work
challenge. The modules model-check with TLC; the theorems are checked with TLAPS.
Source paths are relative to the repository's root (`src/pow.rs` is the file
that `PROJECT.json` lists as `src/src/pow.rs`).

## 1. Inventory

| Component | State | Operations | Talks to |
|---|---|---|---|
| Challenge set (`src/pow.rs`) | lock-free map (address, chain) → `Challenge {nonce, claimed, expires_at, difficulty}` shared by all threads | `Challenge::get`, `Challenge::check_solution`, removal of expired keys | handlers call it; the eviction task empties it |
| Eviction queue (`src/pow.rs`) | mutex around a binary heap of entries, atomic `next_wakeup_millis`, unbounded channel of new wakeup times; the task's `next_wakeup` and timer | `add_challenge`, `remove_expired`, the select loop | fed by `Challenge::get` on request threads |
| Difficulty (`src/pow.rs`, `docs/pow.md`) | immutable precomputed line | `DifficultyConfig::new`, `calculate_difficulty` | called with the wallet's balance by `get_pow_challenge` |
| Leading zeros (`src/pow.rs`, README, `utils/`) | none | `count_leading_zeros` and the two clients' versions of it | `check_solution`; clients |
| L1 batcher (`src/batcher.rs`) | unbounded channel, bounded queue, batch timer, detached broadcast tasks | `queue_payout_request`, batch tick, broadcast and apply | `claim_l1` feeds it; L1 wallet, esplora |
| L1 wallet (`src/l1.rs`) | BDK wallet behind an RwLock, sqlite file, `FEE_RATE` atomic | syncer, fee-rate task, persist, load | batcher, balance handlers, esplora |
| L2 wallet (`src/l2.rs`) | alloy provider, keys derived from the seed | send with a nonce asked of the node, balance | `claim_l2`, `get_pow_challenge`, RPC node |
| HTTP handlers (`src/main.rs`) | none | challenge, claim L1/L2, balance, sats per claim | all of the above |
| Seed (`src/seed.rs`) | 32-byte file | `load_or_create` | both wallets derive their keys from it |
| Settings and start-up (`src/settings.rs`, `main`) | immutable once read | defaults, bounds, the order in which things are opened | everything |

What is hard about each, and what makes it correct:

* **Challenge set and eviction queue.** Handlers run on many threads; a challenge
  becomes visible before its eviction is queued; evictions are by key only; the
  task publishes its wakeup time outside the lock that guards the heap. Correct
  means: one attempt per challenge, a new challenge only after the old one
  expired, an honest solver gets its attempt, every challenge is evicted once, in
  time, and never a later one in its place.
* **Difficulty and leading zeros.** f32 rounding at the thresholds and u8 limits.
  Correct means: the formula of `docs/pow.md` (monotone, between *m* and *M*) with the
  setting `max_difficulty` as its *M*, and clients that agree with the server on what a
  solution is.
* **L1 batcher and wallet.** An accepted claim passes a channel, a bounded queue, a
  transaction, a broadcast and a wallet update; each step can fail, be outrun by
  the next batch or the syncer, or be cut off by a restart. Correct means: each
  accepted claim is paid at most once, and what loses one is known; no output is
  spent twice by the faucet; memory is bounded.
* **Handlers.** The balance is read before the difficulty, the challenge before the
  payout. Correct means: payout only with a valid claim, and the promise of
  `docs/pow.md` about the minimum balance.
* **L2 claims.** Concurrent claims ask the node for a nonce before either has sent;
  the node or its answer can fail in between. Correct means: no claim is paid
  twice, and no failed one blocks the later ones.
* **Seed and start-up.** A crash or a failed read or write at any point of any
  start-up. Correct means: a restart finds the same keys, or does not start; a
  faucet that serves has been configured within what its types hold.
* **Fee rate.** Correct means: whatever requests fail, the published rate follows
  the estimate.

The hazards are listed one by one, with their lines, in `PROJECT.json`.

## 2. Modules

| Module | What it is |
|---|---|
| `EvictionQueue` | the queue's variables and one action per access to the heap, the atomic or the channel; no `Next` of its own |
| `Pow` | composes the queue with the challenge set and the requests: state machine, invariants, properties, liveness |
| `ChallengeLedger` | the abstract specification: keys, challenges, one attempt each, expiry |
| `MCPow` + `MCPow_*.cfg` | TLC instances |
| `PowProofs` | inductive invariant and theorems about `Pow`, and its refinement |
| `L1Wallet` | the wallet as BDK's graph of transactions, the syncer's steps, and the network as esplora shows it; no `Next` of its own |
| `Batcher` | composes the wallet with the payout channel, the batcher task and its detached broadcasts |
| `PayoutLedger` | the abstract specification: requests held in order, paid at most once, possibly lost |
| `MCBatcher` + `MCBatcher_*.cfg` | TLC instances |
| `Difficulty` | `DifficultyConfig::new` and `calculate_difficulty` in rounded binary arithmetic, and the formula of `docs/pow.md` in exact arithmetic, with `max_difficulty` as its *M* |
| `PowersOfTwo` | the powers of two, as a function that can be proved about |
| `LeadingZeros` | the server's, the JavaScript and the Python client's count |
| `Faucet` | composes the handlers with the two abstract ledgers, the difficulty, the counts and the L2 node |
| `MCFaucet` + `MCFaucet_*.cfg` | TLC instances |
| `SeedFile`, `FeeRate` | the seed file and the fee-rate task, one action per access; no `Next` of their own |
| `Startup` | composes them with `main`'s start-up, the settings and the wallet's database |
| `MCStartup` + `MCStartup_*.cfg` | TLC instances |
| `DifficultyProofs` | rounded arithmetic against exact arithmetic, for floats of any width: what is quoted, and that it falls |
| `StartupProofs` | inductive invariant and theorems about `Startup` |
| `FaucetProofs` | inductive invariant and theorems about `Faucet` |
| `BasicLemmas` | what slicing a sequence preserves; induction over the natural numbers; powers of two |
| `WalletProofs` | what the recursive definitions of `L1Wallet` compute: families, their order, the canonical transactions |
| `PayoutLedgerProofs`, `BatcherProofs` | the ledger's invariant; type, refinement, payment and wallet proofs of `Batcher` |

### Challenges: how the model corresponds to the code

A *request* of `Pow` is one HTTP call and runs once; `key[r]` is the client's
address and chain. Its program counter moves over the accesses to shared state:

| Action | Code (`src/pow.rs`) |
|---|---|
| `StartGet` | `Challenge::get` up to the `cas`: draws the nonce, fixes `expires_at` |
| `CasInsert`, `CasExisting` | the `cas(None → challenge)` and its two outcomes |
| `PushEntry`, `LoadWakeup`, `NotifyEvictor` | `add_challenge`: push under the mutex, relaxed load, send |
| `ReadChallenge` | `check_solution` up to and including the map read and its two early returns |
| `CasClaim`, `CasClaimFails` | the `cas(unclaimed → claimed)`; the proof of work is looked at afterwards and touches nothing shared, so it is part of the same action |
| `RecvWakeup` | the `recv` arm of the task |
| `PopExpired`, `RemoveExpired`, `ReturnWakeup` | `remove_expired`: pops and peeks under the guard, removes key by key, returns and drops the guard |
| `StoreWakeup` | rearms the timer and publishes the wakeup time |

Abstractions, and why they are sound for the properties:

* The nonce is 16 random bytes; the model takes the name of the request that drew
  it, so nonces never collide. 
* SHA-256 is not modelled. A claim submits either work done for a nonce that some
  answer has told (`zeros` leading zero bits for that nonce and no other) or a
  guess. Work counts for a challenge only if its nonce is the same and client and
  server hash the same salt (`LeadingZeros`). That a hash is below a difficulty by
  luck is the guess with a difficulty of 0.
* The heap is a set of entries. `EvictionInv` shows that no two queued entries
  have the same key, so no duplicate is lost by that; the order of ties is free,
  as in the binary heap.
* `ConcurrentMap` (crate `concurrent_map`), `kanal`'s channel and tokio's timer are
  taken at their documented behaviour: linearizable `get`, `cas` and `remove`, a
  FIFO queue, a timer that fires at or after its deadline. The `select!` is not
  biased: either ready arm may run.
* The relaxed atomic has one writer. Its load is modelled as reading the latest
  store; a weaker memory order could only return an older value, which the delays
  between the actions produce as well.
* Time is a counter that stops at `MaxTime`; `TicksPerMilli` instants share a
  millisecond, so the truncation in `as_millis` is real: a request whose entry
  expires earlier in the same millisecond than the published wakeup does not notify
  the task. How late the task then runs, less than a millisecond in the code, is no
  property here: nothing obliges the model's task to run before the clock goes on. `Never` stands for both
  `u64::MAX` and the task's 10000 years.
* Difficulties come from a set: the balance behind them is in `Faucet`.
* HTTP parsing is left out, and the IPv6 refusals are in `Faucet`.

### Payouts: how the model corresponds to the code

A *request* of `Batcher` is one call of `claim_l1` that has passed the proof of
work and the check of its address. Transaction `t` is the `t`-th that the
batcher builds; `payees[t]` are the requests it pays and `inputs[t]` the coins it
spends. A coin is one of the faucet's first ones or the change of a transaction.

| Action | Code (`src/batcher.rs`, `src/l1.rs`) |
|---|---|
| `QueuePayoutRequest`, `QueuingFails` | `queue_payout_request` and the `expect` around it in `claim_l1` |
| `IntervalElapses` | `batch_interval` becomes ready; the `select!` is biased, so `RecvRequest` waits for a due tick |
| `RecvRequest` | the `recv` arm, which drops what does not fit |
| `TickWithoutRequests`, `FinishFails`, `SendBatch` | the tick: nothing to do; `finish()` returns an error after the drain; a transaction is signed and its task spawned |
| `TaskPanics`, `ProcessAborts` | `extract_tx().expect(..)`: with unwinding the task ends, with `panic = "abort"` (release builds, `Cargo.toml:60`) the process does; either may happen |
| `Broadcast`, `BroadcastFails` | the detached task's broadcast: taken by the network, with or without an answer; or not |
| `ApplyTx` | `spawn_blocking`: `apply_unconfirmed_txs` and `persist` under the write lock |
| `Restart` | the process stops and `main` runs again |
| `BuildSyncRequest`, `FetchUpdate`, `FetchFails`, `ApplyUpdate` | the syncer's loop: the request is built under the read lock, esplora answers with no lock held, the update is applied and persisted under the write lock |
| `Confirm`, `PassSecond` | the environment |

Abstractions, and why they are sound for the properties:

* Work under the wallet's lock is one action: nothing else can read the wallet in
  between. What a batch changes in the wallet before it is applied (a revealed
  change address) decides nothing here, as BDK looks ahead for its addresses.
* Amounts are left out. A batch may spend any non-empty set of spendable coins,
  `finish()` may always fail, and every transaction has change; which of them the
  amounts allow is thereby a superset of the code's behaviours.
* Every update is persisted under the lock it is applied under, so the variables
  of the graph are also the sqlite file, and a restart keeps them. Failures of
  the database are not modelled.
* BDK (`bdk_wallet` 2.1) is external: the graph keeps for each transaction when it
  was last seen, last missed, and whether a block holds it. Transactions that
  were missed at or after they were last seen are out; the others are canonical in
  the order confirmed first, then seen last, each with its ancestors, unless it
  conflicts with one that is canonical already. Coins of a confirmed or canonical
  transaction that no canonical one spends can be spent.
* A scan is a snapshot: esplora is queried address by address, but it is one
  answer in the model. It records the time at which it was *requested*.
* A node takes a transaction whose inputs exist and which no confirmed one
  contradicts; it may replace what conflicts with it in its mempool (`Replaced`,
  with descendants), or refuse it, which is `BroadcastFails`. There are no
  reorganisations, and nothing leaves the mempool but by replacement or a block.
* Time is in seconds; `apply_unconfirmed_txs` is given milliseconds, so it stores
  `now * MillisPerSecond`. That constant is 1000 wherever the code is checked; no
  theorem depends on it.
* The pauses of the syncer and the fee rate's value have no effect on what is
  modelled here; `AbsurdFees` says whether an estimate may exceed what `extract_tx`
  accepts.

### Handlers: how the model corresponds to the code

A *request* of `Faucet` is one HTTP call, a get or a claim. `Faucet` is written
over the variables of `ChallengeLedger` and `PayoutLedger`, which `Pow` and
`Batcher` implement: what the handlers can observe of the gate and the batcher
is what the ledgers allow.

| Action | Code (`src/main.rs`, `src/l2.rs`) |
|---|---|
| `ReadBalance`, `L2BalanceFails` | the first half of `get_pow_challenge`: the balance is read before anything else is looked at |
| `RefuseGet`, `RefuseClaim` | the answer 422 or 400 to IPv6 addresses |
| `IssueChallenge`, `TellExisting` | `Challenge::get` with the difficulty of the balance that was read, or with a challenge that is there already |
| `RejectClaim`, `BurnChallenge`, `GrantClaim` | `check_solution` and its outcomes |
| `RefuseAddress`, `QueuePayout` | the rest of `claim_l1` |
| `FetchNonce`, `SendTransaction`, `L2Fails` | the rest of `claim_l2`: alloy's fillers, then the send |
| `Evict`, `Settle`, `Mine`, `Restart` | the eviction task and the clock, the batcher, the L2 chain, a restart that empties what is in memory |

Abstractions, and why they are sound for the properties:

* Clients come up with any hash of a small set, none of which has more than
  `Power` zeros, and submit it for any nonce they were told or have made up. The
  greatest difficulty is beyond `Power`: this is the document's "impossible", which is
  an assumption about `max_difficulty`, not a consequence of its default.
* A batch is built, broadcast and applied in one step; the L1 balance shows it at
  once, the L2 balance when it is mined. That is the *freshest* balance that the
  code could read, so the violation of the minimum needs no slow wallet; the
  floor that `BalanceFloor` states is for wallets that are up to date.
* Fees are left out: they are paid on top of `amount_per_claim` in the code.
* The node and alloy's nonce filler are external: the filler of the provider that
  `src/l2.rs` builds asks the node for the pending count at every send; the node
  lets a transaction replace a pending one with the same nonce.
* `get_balance` and `get_sats_per_claim` change nothing.

### Start-up: how the model corresponds to the code

| Action | Code |
|---|---|
| `LoadSettings` | the lazy `SETTINGS` at their first use (`src/settings.rs`), with defaults and the bound on both amounts |
| `LoadSeed`, `CreateSeed` | `load_or_create` (`src/seed.rs`): a seed that was read, or a new one for whatever else happened |
| `SaveSeed`, `SaveFails` | `save`: the file is emptied, then written |
| `LoadWallet`, `CreateWallet`, `WalletFails` | `L1Wallet::new` (`src/l1.rs`): the descriptors and the network are compared with the database's; the fee-rate task is spawned |
| `OpenL2Wallet`, `L2WalletFails` | `L2Wallet::new` |
| `BuildDifficulty`, `DifficultyFails` | the two `DifficultyConfig`s |
| `Bind`, `BindFails`, `Crash` | the listener; the end of the process anywhere |
| `Publish`, `ReturnOnOverflow`, `KeepFeeRate`, `WakeUp` | the fee-rate task |

Abstractions, and why they are sound for the properties:

* Keys are named by the seed they are derived from, and no two draws are equal.
* Settings are any of a set at every start: reading the file and the environment
  is input. The set has both networks, defaults and their opposites, each error
  of `DifficultyConfig::new`, and amounts at and beyond the limit.
* Nothing in the code syncs the seed file. A crash of the machine that loses what
  was written is not modelled, a torn write of the process is.
* A float is a significand of `Precision` bits and an exponent, and each operation
  rounds its exact result as IEEE 754 has it. The f32 of the code has 24 bits;
  the runs have 10, where rounding bites on small numbers; the theorems are for any.
  `RangeAssumption` says that difficulties are small floats (128 * `MaxU8` is no more
  than 2^`Precision`) and that amounts and what the line makes of them are far from
  overflow; f32 satisfies it with `u8` and `u64`, as 128 * 255 < 2^24 and
  255 * 2^64 * 2^30 < 2^128. Subnormals are left out: `Epsilon` keeps the code away
  from them.
* `docs/pow.md:20-21` gives M as the constant 255. `DifficultyConfig::new` has the
  setting `max_difficulty` in its place, and so have `Target` and the properties about
  what is quoted. The default is below the greatest u8 (64 of 255), as that of the runs
  is (6 of 7).
* `SatsToWei` stands for two literals, 10^10 both: the divisor of `MAX_SATS_PER_CLAIM`
  (`src/settings.rs:86`) and the `SATS_TO_WEI` of `claim_l2` (`src/main.rs:65`).
  `NoWeiOverflow` would not notice if one of them were changed alone.

## 3. What the runs check

| Run | Instance | Result |
|---|---|---|
| `one_key` | 4 requests, one key, durations 1, clock to 3, 2 ticks per ms, difficulties {1, 2}, work {1, 2} | `TypeOK`, `EvictionInv`, `HistoryInv`, `HonestSolverServed`, `NoEarlyEviction`, `OneAttemptUntilExpiry` hold |
| `two_chains` | 3 requests, both chains of one address, durations 2 and 1, clock to 2, 2 ticks per ms, fair | `EvictionInv`, `NoEarlyEviction`, `RequestsAnswered`, `LateSendRescues` hold; `Pow` implements `ChallengeLedger` |
| `wallet` | 3 payouts, queue of 2, 3 transactions, clock to 2, restarts, panics and aborts | `TypeOK`, `PaidOnce`, `AppliedKeepsCoins`, `AppliedStays` hold; `Batcher` implements `PayoutLedger` |
| `served` | 3 payouts, queue and batches of 2, 2 transactions, restarts, panics and aborts, fair | `HeldIsSettled`, `WalletFollowsChain` hold |
| `faucet` | 4 requests of two IPv4 clients and an IPv6 one on both chains, 3 hashes, funds of 4 and 2 amounts, restarts | `TypeOK`, `PaidForWork`, `BalanceFloor`, `NoNonceGap`, `JsSolverServed` hold |
| `startup` | 14 settings, 2 seeds with unreadable files, estimates of 1/2, 5/2 and 40 sat/vB and none, floats of 10 bits, difficulties to 7, balances to 1220, fair | `TypeOK`, `KeysKept`, `KeysInUse`, `NoWeiOverflow`, `DifficultyFollowsFormula`, `QuotesNeverRise`, `FeeRateFollows` hold |
| `lost_wakeup` | 2 requests, both chains, fair | `ExpiredIsEvicted` is violated |
| `readme_client` | 3 requests, salt of the README | `HonestSolverServed` is violated |
| `phantom` | 2 payouts, 2 transactions, clock to 3 | `MissedIsDropped` is violated |
| `lost_payout` | 3 payouts, queue of 1 | `OkIsNotLost` is violated |
| `min_balance` | 4 requests, clients that always solve | `MinBalanceKept` is violated |
| `seed` | 2 seeds, an unreadable file | `SeedFileStoresKeys` is violated |

Bounds of the challenge runs. Four requests are a challenge, a claim, a second
challenge after the first one's eviction, and a claim or get that was left
behind at the first: every property relates at most two challenges of a key and
two claims. The clock must pass two expiries; `MaxTime` is 3. Liveness needs an
eviction, a request that misses it and a later one that notifies: three requests,
with a clock to 2. With two ticks to a millisecond two expiries may share one, and an
entry may share one with the clock before it has expired: the mutant of
`NoEarlyEviction` compares milliseconds, and passes with one tick. The clock stops at
`MaxTime` and requests run once, so a run may end: deadlock is not checked. `SYMMETRY`
on requests is used for safety only.

Bounds of the payout runs. In `wallet` a request can be in each of the channel, the
queue and a batch. A coin is offered again only after a batch, one that conflicts
with it, and one that builds on either: three transactions. A scan has three
phases, and an older scan must meet a newer batch: the clock reaches 2; `phantom`
needs a transaction seen at one time and missed at another: 3. In `served` time
does not matter, and three requests overfill the queue while two transactions
compete for the same coin. When the batcher has built `MaxTx` transactions only
`FinishFails` is left to it, so bounded runs may lose requests but never hold them.

Bounds of the handlers' runs. A payout takes two calls. Four calls are two payouts,
which take the balance from above the minimum below it; two concurrent L2 claims
with their gets; or a get, a claim, a second claim and a get after a restart. On L1
difficulties are within the clients' `Power` at a balance of 4 and on L2 at one of 2,
and no lower.

Bounds of the start-up runs. Only the database and the file survive a start, so
their combinations, not the number of starts, bound the states: `MaxSeeds` is 2, one
that is lost and one that replaces it. `MaxBalance` passes every threshold of
the settings, and 1024, from which on 10 bits do not hold every balance: three of the
lines lie across it or behind it. What is quoted depends on the settings alone,
so TLC computes the settings that satisfy the two properties once
(`FaithfulSettings`, `MonotoneSettings`) and looks the current ones up in every state.

Fairness of the challenge runs. Threads of the runtime are scheduled (`WF` of
each request's own steps once it has begun), the task is polled when the channel
or the timer is ready (`WF(Evict)`) and the clock runs (`WF(Tick)`). No fairness
makes a client call.

Fairness of the payout runs. The interval elapses and its tick is handled (`WF`);
detached tasks run, and a broadcast ends one way or another (`WF`). The receiving
arm gets strong fairness: the biased select serves a due tick first, but the
period (180 s) is long against the handling of a request, so that the arm is
ready again and again. The syncer gets strong fairness for an answer and its
application: esplora answers some scan, and restarts leave some scan its time. No
fairness makes a broadcast succeed, a block come or a client call.

Fairness of the start-up run. The fee-rate task is polled (`WF(FeeRateStep)`), and not
every request to esplora fails (`SF(Publish)`: strong, as a failed request puts the
task to sleep in between). No fairness makes a start-up succeed or the operator
start the process again.

### What the violations say

* **A phantom transaction** (`src/batcher.rs:139`). The wallet is told that a
  transaction was seen at a time in milliseconds, where BDK and the syncer's
  scans count seconds. No scan can outdate it: when its broadcast failed, the
  wallet counts on it for ever, its coins are lost to the faucet until somebody
  repairs the database, and every batch built on its change fails with it.
  `MissedIsDropped` asks for what the syncer is there for: a scan that expected
  exactly what is still canonical, and missed a transaction that was last seen no later
  than it was requested, takes it out. The unit is what fails it: with
  `MillisPerSecond = 1` TLC finds that it holds, on the same instance and on one with 3
  payouts and 3 transactions. `AppliedKeepsCoins` and `AppliedStays` are about transactions
  that esplora has, in its mempool or in a block. They hold with either unit, and do not
  say that a transaction which never reached the network should stay.
* **A payout answered 200 OK may be lost** (`src/batcher.rs:148`, `:119`):
  dropped at a full queue, or drained into a batch that cannot be built.
  `ImplementsPayoutLedger` says what is left of the promise: at most once, and
  oldest first.
* **A lost wakeup** (`src/pow.rs:230-256`). `remove_expired` finds the heap
  empty and returns `None`; before the task stores its new wakeup time, a
  request pushes its entry and compares its expiry with the *old* one, which has
  elapsed. It sends nothing, and the task then rearms for 10000 years. The
  challenge stays after its expiry: it can be redeemed late, and once claimed
  its address is refused on that chain, until some later request notifies the
  task. `LateSendRescues` shows that such a notification repairs the queue;
  `NoEarlyEviction`, `OneAttemptUntilExpiry` and the ledger are not affected.
* **The minimum balance** (`src/main.rs:187`). The difficulty is quoted from the
  balance of the moment, and kept until the challenge expires; neither open
  challenges nor payouts under way are counted. As many addresses as like are
  quoted the least difficulty and then take the balance below the minimum, where
  `docs/pow.md:17` says that this is "computationally impossible". (It need not be at a
  low balance either: the word is the document's for its M = 255, see below.) `BalanceFloor`
  says what is left: the balance does not fall further below the minimum than one
  amount for each challenge or payout that was outstanding at once.
* **The seed file** (`src/seed.rs:37`). An error of `read` is answered as a missing
  file is: with a new seed, which overwrites the old one. After that the wallet's
  keys are in no file, and `src/l1.rs:132` panics at every start. `KeysKept` says
  that nothing else loses them (no crash, no torn write), `KeysInUse` that the
  faucet never serves with other keys than its database's: the check of the L1
  wallet's descriptors protects the L2 wallet, which has none of its own.
* **The README's salt** is not the server's (`README.md:19`, `src/pow.rs:131`). Both
  solvers of the repository share it: `utils/solver.py:20` and
  `utils/html-solver/static/solver.js:20-24` hash the same bytes as the README, so the
  server refuses what they find. `JsSolverServed` is about the counts alone and assumes
  the server's salt.

Noted on the way, and left without a run:

* The document's constant M = 255 (`docs/pow.md:20-21`) is the setting `max_difficulty`
  in the code, which defaults to 64 (`src/settings.rs:151`, `:216`). A faucet at or below
  its minimum balance quotes 64 by default, where the document says 255. That "it will be
  computationally impossible" to go below the minimum (`docs/pow.md:17`) is a claim about
  that number: with the default it takes 2^64 hashes, and an operator may set less.
* `check_solution` answers `AlreadyClaimed` whenever its `cas` fails, also when the
  challenge was evicted in between (`src/pow.rs:126`).
* `remove_expired` says that it does not hold the heap's lock while it deletes
  (`src/pow.rs:279`); it owns the guard until it returns, and the model has it so.
* `max_in_flight` does not bound the "requests to allow in memory"
  (`src/batcher.rs:55`): the channel in front of the queue is unbounded.
* Where panics unwind (not in release builds), a panic in the batch tick
  (`src/batcher.rs:127`) ends the batcher alone, and the `expect("successful
  queuing")` of every later claim fails (`QueuingFails`).
* A claim after the expiry is granted as long as the challenge has not been evicted
  (`src/pow.rs:100`); `src/settings.rs:170` calls the duration the time for which a
  challenge is valid.
* The fee-rate task returns for ever at an estimate that overflows (`src/l1.rs:44`)
  though its comment says every 20 seconds (`:31`); estimates are truncated to whole
  sat/vB (`:42`), so one below 1 makes the rate 0. `FeeRateFollows` excepts the one
  and follows the other.
* The server's count is a `u8`: 32 zero bytes make 256 (`src/pow.rs:337`).
  `JsSolverServed` excepts that hash.
* The Python client counts 2 bits for whatever byte comes after the zero bytes, as it
  looks for the first 1 in `"0b1..."` (`utils/solver.py:14`): it submits solutions
  that the server refuses, and passes by ones that it would take. `PythonCount` is
  the mutant that breaks `JsSolverServed`.
* Of two concurrent L2 claims that fetch the same nonce, one replaces the other or is
  refused; its challenge is used up (`src/l2.rs:81`, `src/main.rs:278`).
* The line `A*x + B` loses digits to cancellation the more the farther it is from its
  origin. If (M - m)(b + L*q) * 32 <= L*q * 2^24 (`Mild`), all roundings but the last
  one are less than a quarter of a unit together, which is proved. Factor 4, which
  an instance with floats of 8 bits and exact balances had let pass, is not enough:
  with M = 65, m = 14, q = 122120, b = 161625625814625994, L = 16232706 and x =
  161627496311858040, f32 arithmetic quotes 18 where the formula has 16.88. Beyond,
  the comment that the line cannot leave the range (`src/pow.rs:480`) is not true in
  f32: with M = 255, m = 18, q = 10000, L = 25, b = 18312576819 and x = 18312579738
  the line is 256.0, which the cast saturates to 255; with b = 511766282574, q = 10^6
  and L = 5 some balance is quoted 16, which is below m = 18. `QuotesNeverRise`
  says what holds there.
* `calculate_difficulty` compares with b + L*q before it compares with b
  (`src/pow.rs:476`). Where L*q is so small next to b that the sum rounds to b, a
  balance at the minimum is quoted the least difficulty.
* The seed file is not synced, and one of another length is overwritten silently.

## 4. What is proved

### Challenges

For any sets of requests and keys, any durations, difficulties and clock, from the
named assumptions of `EvictionQueue` and `Pow` (the clock plus a duration stays
below `Never`; difficulties and work fit in a byte; `NoChallenge` is no challenge):

* `TypeCorrect`, `EvictionCorrect`, `HistoryCorrect`: the invariants of `one_key`.
* `EvictionNeverEarly`, `RateLimit`: the action properties.
* `HonestService`: with the server's own salt, `HonestSolverServed`.
* `Refinement`: `Spec => ImplementsLedger`.

The inductive invariant is `IInv == TypeOK /\ EvictionInv /\ HistoryInv`. No
part is inductive alone: the type of a pushed entry needs the history (a pushing
request has a challenge); an eviction is harmless to the history only because
the entry is for the challenge stored now (`EntryIsCurrent`) and has expired
(`PoppedHasExpired`); and `EntryIsCurrent` needs that a challenge is inserted
only where none is stored. `HonestService` adds `SubmittedInv`: a claim that has
read a later challenge than the one it was worked for was overtaken by the
expiry. The refinement maps the map to the ledger, the requests that have
inserted to the issued nonces, and the successful claims to the grants;
`CasInsert` is `Issue`, `CasClaim` is `Grant` or `Burn`, `RemoveExpired` is
`Expire`, `Tick` is `Pass`, and everything else stutters.

### Payouts

For any requests, coins, limits, clock and any of the environment's switches, from
the named assumptions of `L1Wallet` and `Batcher`:

* `TypeCorrect`: `TypeOK`, with the queue's bound.
* `Refinement`: `Spec => ImplementsPayoutLedger`.
* `PaidAtMostOnce`: `PaidOnce`.
* `CoinsKept`: `AppliedKeepsCoins`. `AppliedKept`: `AppliedStays`. Both are about
  transactions that esplora has.

The inductive invariant is `IInv == TypeOK /\ BuiltInOrder`: the transactions built
so far are the first ones, without which the ledger's list of payments would not
grow at its end. `BuiltCases` splits the steps into the one that builds a
transaction and those that leave the built ones alone. A receive that drops is
`Lose` of one request, a failed `finish()` of a prefix, a panic or restart of
everything; `SendBatch` is `Pay`. `PaidOnce` is not proved on `Batcher` at all:
`PayoutLedgerProofs` proves the ledger's own invariant (a request occurs once in
all that is held and paid, `LedgerInvStep`), and the refinement carries it over.
`BasicLemmas` says what taking a slice out of a sequence keeps.

What the wallet does not forget rests on `CanonicalOf`, a recursive function over sets
of transactions. `WalletProofs` shows first that it and `Family` satisfy their
equations (`FamilyExists`, `CanonicalExists`), and then, by induction over the order in
which transactions compete (`OrderInduction`), what they compute (`CanonicalFacts`):
the canonical transactions are whole families, free of conflicts if each family is, and
a transaction of the graph that is not among them conflicts with one that comes first
in the order. The provers take no operator for an induction's predicate; the set of
the numbers or sets that satisfy it does as well (`SetInduction`).

`BatcherProofs` adds `GraphInv`. `KnownOK`: only what is built is in the mempool, a
block or an update, and the graph's blocks are the chain's. `FamiliesOK`: no
transaction conflicts with one that it spends from, since it is built on coins of
conflict-free canonical ones that have not spent them (`NewBatch`). `SeenOK` has three
parts. `OverOK`: what esplora shows, the wallet has heard of, a scan looks for or a
batch has spent from is past its broadcast. `MissedOK`: what a scan has missed is past
its broadcast and not in esplora, so that it has no other chance to appear there.
`DoneOK`: what has been applied was seen at some time. So a transaction that esplora
has and that has been applied was never missed, and is in the graph
(`AppliedInGraph`); only one that is in conflict with it can displace it, by coming
first in the order. None of this depends on the unit of time.

### Start-up

For any settings, estimates, number of seeds, unit and floats, from the named
assumptions of `SeedFile`, `FeeRate`, `Difficulty` and `Startup` (a wallet is not
`NoWallet`; settings have the types of `LayerConfig`; `RangeAssumption`):

* `TypeCorrect`: `TypeOK`.
* `KeysSurvive`: `KeysKept`; `KeysMatch`: `KeysInUse`.
* `ClaimsFit`: `NoWeiOverflow`, from the bound of `src/settings.rs:86`.
* `FormulaHolds`: `DifficultyFollowsFormula`; `QuotesFall`: `QuotesNeverRise`.

The inductive invariant is `IInv == TypeOK /\ SeedInv /\ KeysKept /\ KeysInUse /\
AmountsInv /\ ConfiguredInv`. `SeedInv` says what `KeysKept` needs in the middle of a
start-up: a new seed is about to be written only where the file holds none or
could not be read, and the wallet is opened with the seed that the file holds.
`ConfiguredInv` says that a faucet that has got past `BuildDifficulty` has a
configuration of each layer of the settings it still has.

The two theorems about what is quoted rest on `DifficultyProofs`, which is about
`DifficultyConfig::new` and `calculate_difficulty` alone. Its argument, in order:

1. *Integers.* All numbers of a configuration are written with one exponent E that
   is below all of theirs. They are integers then, and each float operation is
   `Near` of the exact one on integers (`RoundIs`, `PlusIs`, `TimesIs`, `OverIs`,
   `LeqIs`, `RoundToIntIs`). `Near` is odd, keeps the order, commutes with powers of
   two and is off by at most one part in 2^`Precision` (`NearIs`, `NearMonotone`,
   `NearScale`).
2. *Range.* From `RangeAssumption` and L*q >= `EPSILON`, the slope, its products and
   the constant are finite (`SlopeIs`, `SlopeRoom`, `ConstantIs`): the last three
   checks of `DifficultyConfig::new` (`LineFits`) never fire for settings whose
   amounts are in range, and no quote is computed from an infinity (`LineIs`,
   `QuoteIs`).
3. *Errors.* The slope is off by a few parts in 2^`Precision` (`SlopeError`), the two
   products by one more each, the constant and the sum by one of what they are; with
   `Mild` all of it is less than 51662/262144 of a unit (`LineParts`, `LineError`).
   Near the thresholds, the code may be on the wrong side of one by five parts in
   2^`Precision` of b + L*q, where the line and the difficulty that is quoted
   instead are as close (`Thresholds`, `AboveFollows`, `BelowFollows`).
4. `FormulaFollowed` puts the cases together, and `LineFalls` follows from the
   monotonicity of each rounding, without `Mild`. `GreatestAtMinimum` is the
   consequence that the handlers rest on.

### Handlers

For any requests, addresses, hashes, settings, funds and clock, from the named
assumptions of `Faucet`:

* `TypeCorrect`: `TypeOK`; what a client is told lies within its chain's difficulties.
* `WorkPaid`: `PaidForWork`. `NoGap`: `NoNonceGap`. `Floor`: `BalanceFloor`.
* `JsServed`: `JsSolverServed`.

`JsServed` holds for bytes of any width and hashes of any length that the counter can
count (`HashAssumption`; 32 bytes of 8 bits and 256 in the code): a byte's first 1 is
where its leading zeros end (`FirstOne`), and only a hash of zeros makes the server's
counter wrap (`SameCount`).

The one assumption that says something about the code is `QuoteAssumption`: at every
balance the quoted difficulty is between the least and the greatest, and beyond
every client at the minimum balance and below. `GreatestAtMinimum` proves both of
every settings in range whose line is `Mild`, as the greatest difficulty is beyond
every client (`ConfigAssumption`). Where b + L*q is the same float as b, the latter is
not true: `calculate_difficulty` looks at the least difficulty first
(`src/pow.rs:476`). TLC evaluates the assumption, like the others, in run `faucet`.

The inductive invariant `IInv` has a part for each thing that is shared. `GateInv`:
what is stored for a key was issued by a get of that key, which has told its
difficulty, and has not been granted while it is unclaimed. `StageInv`: a request that
has been accepted by the batcher, or has reached the node, is past its grant and on
the right chain, so that no request is served twice. `FundsInv`: no wallet spends
what it does not have. The last three are stronger forms of the properties, each of
which has to count what is under way:

* `WorkInv` counts with the served those who have been granted a payout and are not
  served yet; a grant adds one of them and one redeemed challenge, which is new
  because the challenge was unclaimed (`GrantRedeems`).
* `NonceInv` adds the claims that hold a nonce and have not sent it: the node's count
  has no gap below it (`PendingCountOK`, from `FirstGap`, a pigeonhole argument), and
  the set of nonces on the node never loses one.
* `FloorInv` says that the balance *less all that is outstanding* stays above the
  minimum but for the peak. A get that is quoted a difficulty within reach has read a
  balance above the minimum; from then on what is outstanding only changes its
  form (quoted, open, granted, queued or pending) until it is lost, or paid and
  shown in the balance (`Outlay`, one lemma per kind of step).

The invariant of `PayoutLedger` is part of `IInv` and comes from
`PayoutLedgerProofs`.

### Only model-checked

Liveness (`RequestsAnswered`, `LateSendRescues`, `HeldIsSettled`,
`WalletFollowsChain`, `FeeRateFollows`) is out of the prover's reach.
Every safety invariant and action property of the passing runs is a theorem. What is
said to be violated in section 3 is what TLC finds, and no theorem is about it. That
f32 satisfies `RangeAssumption` is arithmetic on numbers beyond TLC's integers, and
stated above; the runs satisfy it with their own numbers, as TLC evaluates it.

## 5. Plan

In this order, the most important behaviour first:

1. **Done**: `EvictionQueue`, `Pow`, `ChallengeLedger`, their runs and proofs.
2. **Done**: `L1Wallet`, `Batcher`, `PayoutLedger`, their runs and proofs.
3. **Done**: `Difficulty` against the exact formula and `LeadingZeros` against the
   clients' counts.
4. **Done**: `SeedFile`, `FeeRate`, `Startup` and their runs.
5. **Done**: `Faucet`, the handlers over both ledgers, and its runs.
6. **Done**: `StartupProofs`.
7. **Done**: `FaucetProofs`.
8. **Done**: `WalletProofs`, and what the wallet keeps of applied transactions.
9. **Done**: `DifficultyProofs`: rounded arithmetic, and with it what is quoted.

### Not modelled

Routing, parsing and formatting, key derivation, the reading of the configuration
file and the error macros keep no state. The HTML solver's server hands out two
static files. The syncer's pauses decide only how soon it scans again, which no
property depends on; a failure of the database after start-up is a panic under
the wallet's lock, whose effects on the tasks that share it are not modelled.
BDK, alloy, esplora, tokio and sqlite are external: what `src/` relies on is
modelled, their inside is not.
