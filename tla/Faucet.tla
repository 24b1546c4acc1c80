-------------------------------- MODULE Faucet --------------------------------
(***************************************************************************)
(* The faucet as its clients see it (src/main.rs): get_pow_challenge reads *)
(* a balance, computes a difficulty and returns a challenge; claim_l1 and  *)
(* claim_l2 check a solution and pay.  The handlers are composed over the  *)
(* two abstract ledgers that the gate (module Pow) and the batcher (module *)
(* Batcher) implement, and over the L2 node as alloy's provider uses it.   *)
(*                                                                         *)
(* A request is one HTTP call, which may be a get or a claim.  The         *)
(* challenge that request r draws has the nonce r.  Amounts are in sats.   *)
(* A batch is built, broadcast and applied to the wallet in one step: what *)
(* happens in between is in module Batcher.                                *)
(***************************************************************************)
EXTENDS Difficulty, LeadingZeros, FiniteSets

CONSTANTS
  Request,      \* the HTTP requests
  Ipv4, Ipv6,   \* the clients' addresses
  Hash,         \* the hashes that clients come up with
  Power,        \* the most zeros that they can come up with
  Settings,     \* each chain's LayerConfig
  Funds,        \* the balance that each wallet starts with
  MaxPerTx,     \* BatcherConfig.max_per_tx
  NoChallenge,
  MaxTime       \* bound: the clock stops here

Chain == {"L1", "L2"}
Key == (Ipv4 \cup Ipv6) \X Chain
Duration == [k \in Key |-> Settings[k[2]].challenge_duration]

Config == [c \in Chain |->
  DifficultyConfig(Settings[c].max_difficulty, Settings[c].min_difficulty,
                   Settings[c].min_balance, Settings[c].amount_per_claim,
                   Settings[c].difficulty_increase_coeff)]

\* The faucet has started with these settings, and its greatest difficulty is
\* beyond every client.
ASSUME ConfigAssumption ==
  \A c \in Chain : IsOk(Config[c]) /\ Power < Settings[c].max_difficulty
ASSUME PowerAssumption ==
  Power \in Nat /\ \A h \in Hash : count_leading_zeros(h) \in 0..Power
\* No hash has more bits than the server can count, but for one of zeros.
ASSUME HashAssumption ==
  \A h \in Hash : h \in Seq(AByte) /\ ByteBits * Len(h) <= CounterLimit
ASSUME AddressAssumption ==
  IsFiniteSet(Ipv4) /\ IsFiniteSet(Ipv6) /\ Ipv4 \cap Ipv6 = {}
ASSUME RequestAssumption == IsFiniteSet(Request)
ASSUME AmountAssumption ==
  \A c \in Chain :
    {Funds[c], Settings[c].amount_per_claim, Settings[c].min_balance,
     Settings[c].min_difficulty, Settings[c].max_difficulty} \subseteq Nat
ASSUME TimeAssumption == MaxTime \in Nat /\ \A k \in Key : Duration[k] \in Nat

Challenge(k) ==
  [nonce : Request, claimed : BOOLEAN, expires_at : 0..(MaxTime + Duration[k]),
   difficulty : Settings[k[2]].min_difficulty..Settings[k[2]].max_difficulty]

ASSUME ChallengeAssumption == \A k \in Key : NoChallenge \notin Challenge(k)

\* What GreatestAtMinimum, of DifficultyProofs, says of settings whose line is mild:
\* the difficulties are between the two, and beyond every client at the minimum
\* balance and below.
ASSUME QuoteAssumption ==
  \A c \in Chain : \A x \in 0..Funds[c] :
    LET d == calculate_difficulty(Config[c], x) IN
    /\ d \in Settings[c].min_difficulty..Settings[c].max_difficulty
    /\ x <= Settings[c].min_balance => d > Power

VARIABLES
  now, ledger, issued, granted,  \* the gate: see ChallengeLedger
  accepted, held, paid,          \* the batcher: see PayoutLedger
  pc,        \* where a request is, or the answer it has given
  key,       \* the client's address and the chain
  balance,   \* the balance that a get has read, 0 when it is over
  told,      \* the challenge that a get has answered with
  solution,  \* what a claim submits
  nonce,     \* the account nonce that an L2 claim has fetched
  tx,        \* what the L2 node has made of its transaction
  peak       \* history: the most that was ever Outstanding on a chain

Gate == INSTANCE ChallengeLedger WITH Nonce <- Request, Difficulty <- 0..MaxU8
Payouts == INSTANCE PayoutLedger

gateVars == <<now, ledger, issued, granted>>
payoutVars == <<accepted, held, paid>>
getVars == <<balance, told>>
nodeVars == <<nonce, tx>>
stepVars == <<gateVars, payoutVars, pc, key, getVars, solution, nodeVars>>
vars == <<stepVars, peak>>

Told(c) ==
  [nonce : Request, difficulty : Settings[c].min_difficulty..Settings[c].max_difficulty]
Solution == [nonce : Request, hash : Hash]
Nothing == [nonce |-> NoChallenge]

Underway == {"get", "granted", "send"}
Answers == {"told", "ok", "rejected", "unsupported", "bad_address", "error"}

\* What a client is told is within its chain's difficulties.
TypeOK ==
  /\ pc \in [Request -> {"new", "killed"} \cup Underway \cup Answers]
  /\ key \in [Request -> Key]
  /\ balance \in [Request -> Nat]
  /\ told \in [Request -> {Nothing} \cup UNION {Told(c) : c \in Chain}]
  /\ \A r \in Request : told[r] \in Told(key[r][2]) \cup {Nothing}
  /\ solution \in [Request -> Solution \cup {Nothing}]
  /\ nonce \in [Request -> Nat]
  /\ tx \in [Request -> {"none", "pending", "replaced", "mined"}]
  /\ accepted \subseteq Request
  /\ peak \in [Chain -> Nat]

Goto(r, label) == pc' = [pc EXCEPT ![r] = label]

ChainOf(r) == key[r][2]
IsIpv4(r) == key[r][1] \in Ipv4

-----------------------------------------------------------------------------
(* Balances.                                                               *)

Paid == {r \in accepted : \E t \in 1..Len(paid) : \E i \in 1..Len(paid[t]) : paid[t][i] = r}
Mined == {r \in Request : tx[r] = "mined"}
Pending == {r \in Request : tx[r] = "pending"}

\* What the wallet shows: on L1 it counts every batch that it has been told
\* of, on L2 the transactions in blocks.
Balance(c) ==
  Funds[c] - Settings[c].amount_per_claim * Cardinality(IF c = "L1" THEN Paid ELSE Mined)

\* Mutant: the two configurations are mixed up.
QuoteAsOnL2(c, x) == calculate_difficulty(Config["L2"], x)

Quote(c, x) == calculate_difficulty(Config[c], x)

\* The difficulties at all balances.
Quotes == [c \in Chain |-> [x \in 0..Funds[c] |-> Quote(c, x)]]

Init ==
  /\ Gate!LedgerInit
  /\ Payouts!LedgerInit
  /\ pc = [r \in Request |-> "new"]
  /\ key \in [Request -> Key]
  /\ balance = [r \in Request |-> 0]
  /\ told = [r \in Request |-> Nothing]
  /\ solution = [r \in Request |-> Nothing]
  /\ nonce = [r \in Request |-> 0]
  /\ tx = [r \in Request |-> "none"]
  /\ peak = [c \in Chain |-> 0]

-----------------------------------------------------------------------------
(* get_pow_challenge                                                       *)

\* Under the wallet's read lock, or over the RPC of the L2 node.
ReadBalance(r) ==
  /\ pc[r] = "new"
  /\ balance' = [balance EXCEPT ![r] = Balance(ChainOf(r))]
  /\ Goto(r, "get")
  /\ UNCHANGED <<gateVars, payoutVars, key, told, solution, nodeVars>>

\* 500
L2BalanceFails(r) ==
  /\ pc[r] = "new" /\ ChainOf(r) = "L2"
  /\ Goto(r, "error")
  /\ UNCHANGED <<gateVars, payoutVars, key, getVars, solution, nodeVars>>

\* 422, once the balance has been read.
RefuseGet(r) ==
  /\ pc[r] = "get" /\ ~IsIpv4(r)
  /\ balance' = [balance EXCEPT ![r] = 0]
  /\ Goto(r, "unsupported")
  /\ UNCHANGED <<gateVars, payoutVars, key, told, solution, nodeVars>>

Answer(r, c) ==
  /\ told' = [told EXCEPT ![r] = [nonce |-> c.nonce, difficulty |-> c.difficulty]]
  /\ balance' = [balance EXCEPT ![r] = 0]
  /\ Goto(r, "told")
  /\ UNCHANGED <<payoutVars, key, solution, nodeVars>>

\* Challenge::get with the difficulty of the balance that was read.
IssueChallenge(r) ==
  /\ pc[r] = "get" /\ IsIpv4(r)
  /\ ledger' = [ledger EXCEPT ![key[r]] =
       [nonce |-> r, claimed |-> FALSE, expires_at |-> now + Duration[key[r]],
        difficulty |-> Quotes[ChainOf(r)][balance[r]]]]
  /\ Gate!Issue(key[r])
  /\ Answer(r, ledger'[key[r]])

\* The challenge that there is keeps the difficulty that it was drawn with.
TellExisting(r) ==
  /\ pc[r] = "get" /\ IsIpv4(r)
  /\ ledger[key[r]] # NoChallenge
  /\ Answer(r, ledger[key[r]])
  /\ UNCHANGED gateVars

-----------------------------------------------------------------------------
(* claim_l1 and claim_l2, up to the answer of Challenge::check_solution.   *)

\* 400
RefuseClaim(r) ==
  /\ pc[r] = "new" /\ ~IsIpv4(r)
  /\ Goto(r, "unsupported")
  /\ UNCHANGED <<gateVars, payoutVars, key, getVars, solution, nodeVars>>

\* What a client sends: some hash for some nonce that an answer has told, or
\* for one that it has made up.
Submit(r) ==
  \E n \in {r} \cup {told[q].nonce : q \in {q \in Request : pc[q] = "told"}}, h \in Hash :
    solution' = [solution EXCEPT ![r] = [nonce |-> n, hash |-> h]]

Claims(r) == pc[r] = "new" /\ IsIpv4(r) /\ Submit(r)

\* The zeros of the hash that the server computes: for another nonce than the
\* client's it is one that nobody has looked for.
Zeros(r) ==
  IF solution'[r].nonce = ledger[key[r]].nonce THEN count_leading_zeros(solution'[r].hash) ELSE 0

\* Mutant: a challenge that has been claimed is good for another payout.
PassClaimed(r) ==
  /\ ~Gate!Claimable(key[r])
  /\ Claims(r)
  /\ Goto(r, IF ledger[key[r]] = NoChallenge THEN "rejected" ELSE "granted")
  /\ UNCHANGED <<gateVars, payoutVars, key, getVars, nodeVars>>

\* NonceNotFound or AlreadyClaimed.
RejectClaim(r) ==
  /\ ~Gate!Claimable(key[r])
  /\ Claims(r)
  /\ Goto(r, "rejected")
  /\ UNCHANGED <<gateVars, payoutVars, key, getVars, nodeVars>>

\* BadProofOfWork.
BurnChallenge(r) ==
  /\ Gate!Claimable(key[r])
  /\ Claims(r)
  /\ Zeros(r) < ledger[key[r]].difficulty
  /\ Gate!Burn(key[r])
  /\ Goto(r, "rejected")
  /\ UNCHANGED <<payoutVars, key, getVars, nodeVars>>

GrantClaim(r) ==
  /\ Gate!Claimable(key[r])
  /\ Claims(r)
  /\ Zeros(r) >= ledger[key[r]].difficulty
  /\ granted' = granted \cup {[nonce |-> ledger[key[r]].nonce, zeros |-> Zeros(r)]}
  /\ Gate!Grant(key[r])
  /\ Goto(r, "granted")
  /\ UNCHANGED <<payoutVars, key, getVars, nodeVars>>

-----------------------------------------------------------------------------
(* The rest of claim_l1.                                                   *)

\* 400, with the challenge used up.
RefuseAddress(r) ==
  /\ pc[r] = "granted" /\ ChainOf(r) = "L1"
  /\ Goto(r, "bad_address")
  /\ UNCHANGED <<gateVars, payoutVars, key, getVars, solution, nodeVars>>

QueuePayout(r) ==
  /\ pc[r] = "granted" /\ ChainOf(r) = "L1"
  /\ Payouts!Accept(r)
  /\ Goto(r, "ok")
  /\ UNCHANGED <<gateVars, key, getVars, solution, nodeVars>>

-----------------------------------------------------------------------------
(* The rest of claim_l2: the provider's fillers, then the transaction.     *)

OnNode == {r \in Request : tx[r] \in {"pending", "mined"}}

\* What the node counts: the transactions without a gap below them.
PendingCount ==
  CHOOSE n \in 0..Cardinality(OnNode) :
    /\ \A i \in 0..(n - 1) : \E q \in OnNode : nonce[q] = i
    /\ \A q \in OnNode : nonce[q] # n

\* Mutant: the provider counts the nonces itself.
CachedCount == Cardinality({q \in Request : ChainOf(q) = "L2" /\ pc[q] \in {"send", "ok", "error"}})

FetchCachedNonce(r) ==
  /\ pc[r] = "granted" /\ ChainOf(r) = "L2"
  /\ nonce' = [nonce EXCEPT ![r] = CachedCount]
  /\ Goto(r, "send")
  /\ UNCHANGED <<gateVars, payoutVars, key, getVars, solution, tx>>

\* NonceFiller: the node's count of the account's transactions, asked for anew
\* by every claim.
FetchNonce(r) ==
  /\ pc[r] = "granted" /\ ChainOf(r) = "L2"
  /\ nonce' = [nonce EXCEPT ![r] = PendingCount]
  /\ Goto(r, "send")
  /\ UNCHANGED <<gateVars, payoutVars, key, getVars, solution, tx>>

\* 500: the node is not reached, or refuses.
L2Fails(r) ==
  /\ pc[r] \in {"granted", "send"} /\ ChainOf(r) = "L2"
  /\ Goto(r, "error")
  /\ UNCHANGED <<gateVars, payoutVars, key, getVars, solution, nodeVars>>

\* The node takes the transaction, in place of a pending one with the same
\* nonce if that pays less.  Its answer may be lost.
SendTransaction(r) ==
  /\ pc[r] = "send"
  /\ \A q \in Mined : nonce[q] # nonce[r]
  /\ Balance("L2") >= Settings["L2"].amount_per_claim * (Cardinality(Pending) + 1)
  /\ tx' = [q \in Request |->
       IF q = r THEN "pending"
       ELSE IF q \in Pending /\ nonce[q] = nonce[r] THEN "replaced" ELSE tx[q]]
  /\ Goto(r, "ok") \/ Goto(r, "error")
  /\ UNCHANGED <<gateVars, payoutVars, key, getVars, solution, nonce>>

-----------------------------------------------------------------------------
(* What happens besides: the clock and the eviction task, the batcher, the *)
(* L2 chain, and a restart of the process.                                 *)

Evict ==
  /\ Gate!Pass \/ \E k \in Key : Gate!Expire(k)
  /\ UNCHANGED <<payoutVars, pc, key, getVars, solution, nodeVars>>

\* A batch that the wallet has the funds for, or requests that are lost.
Settle ==
  /\ \/ \E n \in 1..Len(held) :
          n * Settings["L1"].amount_per_claim <= Balance("L1") /\ Payouts!Pay(n)
     \/ \E i, j \in 1..(Len(held) + 1) : i < j /\ Payouts!Lose(i, j)
  /\ UNCHANGED <<gateVars, pc, key, getVars, solution, nodeVars>>

Mine(r) ==
  /\ r \in Pending
  /\ nonce[r] = Cardinality(Mined)
  /\ tx' = [tx EXCEPT ![r] = "mined"]
  /\ UNCHANGED <<gateVars, payoutVars, pc, key, getVars, solution, nonce>>

\* The challenges and the queue are in memory; the wallets are not.
Restart ==
  /\ ledger' = [k \in Key |-> NoChallenge]
  /\ held' = <<>>
  /\ pc' = [r \in Request |-> IF pc[r] \in Underway THEN "killed" ELSE pc[r]]
  /\ balance' = [r \in Request |-> 0]
  /\ UNCHANGED <<now, issued, granted, accepted, paid, key, told, solution, nodeVars>>

-----------------------------------------------------------------------------
(* The whole.                                                              *)

Get(r) ==
  ReadBalance(r) \/ L2BalanceFails(r) \/ RefuseGet(r) \/ IssueChallenge(r) \/ TellExisting(r)

Claim(r) ==
  \/ RefuseClaim(r) \/ RejectClaim(r) \/ BurnChallenge(r) \/ GrantClaim(r)
  \/ RefuseAddress(r) \/ QueuePayout(r)
  \/ FetchNonce(r) \/ L2Fails(r) \/ SendTransaction(r)

Step ==
  \/ \E r \in Request : Get(r) \/ Claim(r) \/ Mine(r)
  \/ Evict \/ Settle \/ Restart

\* What clients with all their Power may still take out of a wallet: what is
\* being quoted or is open at a difficulty within it, and what has been granted
\* but does not show in the balance.
Quoting(c) ==
  {r \in Request : pc[r] = "get" /\ ChainOf(r) = c /\ Quotes[c][balance[r]] <= Power}

Open(c) ==
  {k \in Key : k[2] = c /\ Gate!Claimable(k) /\ ledger[k].difficulty <= Power}

Unpaid(c) ==
  {r \in Request : ChainOf(r) = c /\
     (pc[r] \in {"granted", "send"} \/ tx[r] = "pending" \/ \E i \in 1..Len(held) : held[i] = r)}

Outstanding(c) == Cardinality(Quoting(c)) + Cardinality(Open(c)) + Cardinality(Unpaid(c))

Next ==
  /\ Step
  /\ peak' = [c \in Chain |-> IF Outstanding(c)' > peak[c] THEN Outstanding(c)' ELSE peak[c]]

Spec == Init /\ [][Next]_vars

-----------------------------------------------------------------------------
(* Properties                                                              *)

\* Who has been paid, or is to be.
Served == accepted \cup {r \in Request : tx[r] # "none"}

ServedAt(k) == {r \in Served : key[r] = k}

\* The challenges of k that were granted for the zeros that k was told.
Redeemed(k) ==
  {n \in Request : key[n] = k /\ \E g \in granted : g.nonce = n /\ told[n].difficulty <= g.zeros}

\* No payout without a challenge of its own: whatever fails, is retried or is
\* killed, on both chains together, no client has more payouts than challenges
\* for which it has shown the work that it was told of.
PaidForWork == \A k \in Key : Cardinality(ServedAt(k)) <= Cardinality(Redeemed(k))

\* What is left of "It will be computationally impossible to drop the faucet's
\* balance below this value": the balance stays above the minimum but for one
\* amount for each challenge or payout that was outstanding at the same time.
BalanceFloor ==
  \A c \in Chain :
    \/ Balance(c) = Funds[c]
    \/ Balance(c) + Settings[c].amount_per_claim * peak[c] > Settings[c].min_balance

\* The node can mine every transaction that it has taken: a claim that fails
\* between the nonce and the node leaves no gap below the later ones.
NoNonceGap ==
  \A r \in Pending : \A n \in 0..(nonce[r] - 1) : \E q \in OnNode : nonce[q] = n

\* The JavaScript client is not refused for a solution that its own count
\* accepts: if the challenge is still there and unclaimed, it is granted.  A hash
\* of zeros, which wraps around the server's counter, is excepted.  This is about
\* the counts alone: the hash is one of the server's salt, and the client as it is
\* shipped hashes another one (solver.js:20-24); for that see module Pow.
JsSolverServed ==
  [][\A r \in Request :
       LET s == solution'[r] IN
       pc[r] = "new" /\ pc'[r] = "rejected" /\ Gate!Claimable(key[r])
         => \/ s.nonce # ledger[key[r]].nonce
            \/ countLeadingZeros(s.hash) < ledger[key[r]].difficulty
            \/ IsZero(s.hash)]_vars

-----------------------------------------------------------------------------
(* What comments and documents say, and the code does not do.              *)

\* "It will be computationally impossible to drop the faucet's balance below
\* this value."
MinBalanceKept == \A c \in Chain : Balance(c) >= Settings[c].min_balance
=============================================================================
