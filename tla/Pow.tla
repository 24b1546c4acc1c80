--------------------------------- MODULE Pow ---------------------------------
(***************************************************************************)
(* The proof-of-work gate of the faucet (src/pow.rs): the concurrent       *)
(* challenge set, the requests that create and redeem challenges           *)
(* (Challenge::get and Challenge::check_solution) and the eviction queue   *)
(* of module EvictionQueue that removes challenges when they expire.       *)
(*                                                                         *)
(* A request is one HTTP call.  It runs once, on its own thread, and makes *)
(* one access to shared state per action; what it computes from its own    *)
(* locals is done in the same action as the access before it.  The nonce   *)
(* is 16 random bytes, so no two are equal: the nonce of the challenge     *)
(* that request r draws is r.                                              *)
(***************************************************************************)
EXTENDS EvictionQueue

CONSTANTS
  Request,      \* the HTTP requests
  Duration,     \* challenge_duration of a key's chain
  Difficulty,   \* the difficulties that get may be called with
  Work,         \* how many leading zero bits clients have found
  ClientSalt,   \* the salt that clients hash with
  NoChallenge,  \* the map's None
  MaxTime       \* bound: the clock stops here

Challenge ==
  [nonce : Request, claimed : BOOLEAN, expires_at : Instant,
   difficulty : Difficulty]

ASSUME MaxTimeAssumption == MaxTime \in Nat
ASSUME DurationAssumption ==
  /\ Duration \in [Key -> Nat]
  /\ \A k \in Key : MaxTime + Duration[k] < Never
ASSUME DifficultyAssumption == Difficulty \subseteq 0..255 /\ Work \subseteq 0..255
ASSUME NoChallengeAssumption == NoChallenge \notin Challenge

VARIABLES
  challenge_set,  \* CHALLENGE_SET: one shared map, cloned into every thread
  pc,             \* where a request is, or the answer it has given
  key,            \* the client's address and the chain, fixed per request
  challenge,      \* the challenge a request has drawn, read or returned
  solution        \* what a claim submits: work done for a nonce

requestVars == <<pc, key, challenge, solution>>
vars == <<now, queueVars, challenge_set, requestVars>>

Solution == [nonce : Request, zeros : Work \cup {0}]

Rejections == {"NonceNotFound", "BadProofOfWork", "AlreadyClaimed"}
Answers == {"Issued", "Existing", "Ok"} \cup Rejections
Underway == {"cas", "push", "load", "send", "claim"}

TypeOK ==
  /\ now \in 0..MaxTime
  /\ QueueTypeOK
  /\ challenge_set \in [Key -> Challenge \cup {NoChallenge}]
  /\ pc \in [Request -> {"new"} \cup Underway \cup Answers]
  /\ key \in [Request -> Key]
  /\ challenge \in [Request -> Challenge \cup {NoChallenge}]
  /\ solution \in [Request -> Solution]

Guess(r) == [nonce |-> r, zeros |-> 0]

Init ==
  /\ now = 0
  /\ QueueInit
  /\ challenge_set = [k \in Key |-> NoChallenge]
  /\ pc = [r \in Request |-> "new"]
  /\ key \in [Request -> Key]
  /\ challenge = [r \in Request |-> NoChallenge]
  /\ solution = [r \in Request |-> Guess(r)]

Goto(r, label) == pc' = [pc EXCEPT ![r] = label]

\* Mutant: the entry's expiry is computed anew when it is pushed.
EntryLate(r) == [key |-> key[r], expires_at |-> now + Duration[key[r]]]

Entry(r) == [key |-> key[r], expires_at |-> challenge[r].expires_at]

-----------------------------------------------------------------------------
(* Challenge::get                                                          *)

\* The challenge is drawn, and its expiry fixed, before the map is touched.
StartGet(r) ==
  /\ pc[r] = "new"
  /\ Goto(r, "cas")
  /\ \E d \in Difficulty :
       challenge' = [challenge EXCEPT ![r] =
         [nonce |-> r, claimed |-> FALSE,
          expires_at |-> now + Duration[key[r]], difficulty |-> d]]
  /\ UNCHANGED <<now, queueVars, challenge_set, key, solution>>

\* Mutant: an insert in place of the cas.
InsertBlindly(r) ==
  /\ pc[r] = "cas"
  /\ challenge_set' = [challenge_set EXCEPT ![key[r]] = challenge[r]]
  /\ Goto(r, "push")
  /\ UNCHANGED <<now, queueVars, key, challenge, solution>>

CasInsert(r) ==
  /\ pc[r] = "cas"
  /\ challenge_set[key[r]] = NoChallenge
  /\ challenge_set' = [challenge_set EXCEPT ![key[r]] = challenge[r]]
  /\ Goto(r, "push")
  /\ UNCHANGED <<now, queueVars, key, challenge, solution>>

\* CasFailure carries the challenge that is in the map: it is the answer.
CasExisting(r) ==
  /\ pc[r] = "cas"
  /\ challenge_set[key[r]] # NoChallenge
  /\ challenge' = [challenge EXCEPT ![r] = challenge_set[key[r]]]
  /\ Goto(r, "Existing")
  /\ UNCHANGED <<now, queueVars, challenge_set, key, solution>>

PushEntry(r) ==
  /\ pc[r] = "push"
  /\ Push(Entry(r))
  /\ Goto(r, "load")
  /\ UNCHANGED <<now, challenge_set, key, challenge, solution>>

LoadWakeup(r) ==
  /\ pc[r] = "load"
  /\ Goto(r, IF WakesTooLate(challenge[r].expires_at) THEN "send" ELSE "Issued")
  /\ UNCHANGED <<now, queueVars, challenge_set, key, challenge, solution>>

NotifyEvictor(r) ==
  /\ pc[r] = "send"
  /\ SendWakeup(challenge[r].expires_at)
  /\ Goto(r, "Issued")
  /\ UNCHANGED <<now, challenge_set, key, challenge, solution>>

-----------------------------------------------------------------------------
(* Challenge::check_solution                                               *)

Salt == "alpen faucet 2024"

\* Leading zero bits of SHA-256(salt | nonce | solution): what the client
\* found if it hashed the same bytes, and 0 for a hash nobody has looked for.
LeadingZeros(s, nonce) ==
  IF ClientSalt = Salt /\ s.nonce = nonce THEN s.zeros ELSE 0

\* The nonces that some get has answered with.
Told == {challenge[q].nonce : q \in {q \in Request : pc[q] \in {"Issued", "Existing"}}}

\* The read of the map, with the two answers that need nothing else.
ReadChallenge(r) ==
  /\ pc[r] = "new"
  /\ \E s \in [nonce : Told, zeros : Work] \cup {Guess(r)} :
       solution' = [solution EXCEPT ![r] = s]
  /\ LET old == challenge_set[key[r]] IN
       /\ challenge' = [challenge EXCEPT ![r] = old]
       /\ Goto(r, IF old = NoChallenge THEN "NonceNotFound"
                  ELSE IF old.claimed THEN "AlreadyClaimed" ELSE "claim")
  /\ UNCHANGED <<now, queueVars, challenge_set, key>>

\* Mutant: an insert in place of the cas.
ClaimBlindly(r) ==
  /\ pc[r] = "claim"
  /\ challenge_set' =
       [challenge_set EXCEPT ![key[r]] = [challenge[r] EXCEPT !.claimed = TRUE]]
  /\ Goto(r, IF LeadingZeros(solution[r], challenge[r].nonce)
                  >= challenge[r].difficulty
               THEN "Ok" ELSE "BadProofOfWork")
  /\ UNCHANGED <<now, queueVars, key, challenge, solution>>

\* Mutant: a bad proof of work does not use the challenge up.
ClaimIfProven(r) ==
  /\ pc[r] = "claim"
  /\ challenge_set[key[r]] = challenge[r]
  /\ LET proven == LeadingZeros(solution[r], challenge[r].nonce)
                     >= challenge[r].difficulty IN
       /\ challenge_set' = [challenge_set EXCEPT ![key[r]].claimed = proven]
       /\ Goto(r, IF proven THEN "Ok" ELSE "BadProofOfWork")
  /\ UNCHANGED <<now, queueVars, key, challenge, solution>>

\* Mutant: more than the difficulty is asked for.
ClaimStrictly(r) ==
  /\ pc[r] = "claim"
  /\ challenge_set[key[r]] = challenge[r]
  /\ challenge_set' = [challenge_set EXCEPT ![key[r]].claimed = TRUE]
  /\ Goto(r, IF LeadingZeros(solution[r], challenge[r].nonce)
                  > challenge[r].difficulty
               THEN "Ok" ELSE "BadProofOfWork")
  /\ UNCHANGED <<now, queueVars, key, challenge, solution>>

\* The CAS compares whole challenges; the proof of work is looked at once the
\* challenge has been marked as claimed, and touches nothing shared.
CasClaim(r) ==
  /\ pc[r] = "claim"
  /\ challenge_set[key[r]] = challenge[r]
  /\ challenge_set' = [challenge_set EXCEPT ![key[r]].claimed = TRUE]
  /\ Goto(r, IF LeadingZeros(solution[r], challenge[r].nonce)
                  >= challenge[r].difficulty
               THEN "Ok" ELSE "BadProofOfWork")
  /\ UNCHANGED <<now, queueVars, key, challenge, solution>>

CasClaimFails(r) ==
  /\ pc[r] = "claim"
  /\ challenge_set[key[r]] # challenge[r]
  /\ Goto(r, "AlreadyClaimed")
  /\ UNCHANGED <<now, queueVars, challenge_set, key, challenge, solution>>

-----------------------------------------------------------------------------
(* The background task and the clock.                                      *)

\* Mutant: what is removed is found by the address, whatever the chain.
RemoveAllChains(e) ==
  /\ TakeExpired(e)
  /\ challenge_set' = [k \in Key |-> IF k[1] = e.key[1] THEN NoChallenge ELSE challenge_set[k]]
  /\ UNCHANGED <<now, requestVars>>

RemoveExpired(e) ==
  /\ TakeExpired(e)
  /\ challenge_set' = [challenge_set EXCEPT ![e.key] = NoChallenge]
  /\ UNCHANGED <<now, requestVars>>

Evict ==
  \/ (RecvWakeup \/ PopExpired \/ ReturnWakeup \/ StoreWakeup)
       /\ UNCHANGED <<now, challenge_set, requestVars>>
  \/ \E e \in to_expire : RemoveExpired(e)

Tick ==
  /\ now < MaxTime
  /\ now' = now + 1
  /\ UNCHANGED <<queueVars, challenge_set, requestVars>>

\* What a request does on its own once it has begun.
Proceed(r) ==
  \/ CasInsert(r) \/ CasExisting(r)
  \/ PushEntry(r) \/ LoadWakeup(r) \/ NotifyEvictor(r)
  \/ CasClaim(r) \/ CasClaimFails(r)

Next ==
  \/ \E r \in Request : StartGet(r) \/ ReadChallenge(r) \/ Proceed(r)
  \/ Evict
  \/ Tick

Spec == Init /\ [][Next]_vars

\* Every thread is scheduled, the background task is polled, time passes.
\* Nothing makes a client send a request.
Fairness ==
  /\ \A r \in Request : WF_vars(Proceed(r))
  /\ WF_vars(Evict)
  /\ WF_vars(Tick)

FairSpec == Spec /\ Fairness

-----------------------------------------------------------------------------
(* What the map, the queue and the requests always agree on.               *)

Stored(k) == challenge_set[k] # NoChallenge

\* Requests whose challenge went into the map.  Their `challenge` is final.
Inserted(r) == pc[r] \in {"push", "load", "send", "Issued"}

\* Requests that have used up the one attempt that a challenge allows.
Attempted(r) == pc[r] \in {"Ok", "BadProofOfWork"}

Expired(r) == challenge[r].expires_at <= now

Queued == heap \cup to_expire

InHeap(r) == Inserted(r) /\ Entry(r) \in heap

\* A request that still has to push its entry finds its challenge in the map,
\* and no other entry for it.
PushIsPending ==
  \A r \in Request : pc[r] = "push" =>
    /\ Stored(key[r])
    /\ challenge_set[key[r]].nonce = r
    /\ challenge_set[key[r]].expires_at = challenge[r].expires_at
    /\ \A e \in Queued : e.key # key[r]

\* An entry is for the challenge that the map holds, and the only one for it.
EntryIsCurrent ==
  /\ \A e \in Queued :
       /\ Stored(e.key)
       /\ challenge_set[e.key].expires_at = e.expires_at
       /\ \A f \in Queued : f.key = e.key => f = e
  /\ heap \cap to_expire = {}

\* Only remove_expired has popped entries, and they have expired.
PoppedHasExpired ==
  /\ \A e \in to_expire : e.expires_at <= now
  /\ to_expire # {} => evictor = "remove_expired"

StoredIsScheduled ==
  \A k \in Key : Stored(k) =>
    \/ \E r \in Request : pc[r] = "push" /\ key[r] = k
    \/ \E e \in Queued : e.key = k

\* Every challenge in the map has exactly one eviction ahead of it, for its own
\* expiry: either the request that inserted it still has to push the entry, or
\* the entry is in the heap or among the popped ones, which have all expired.
\* So no eviction is aimed at a later challenge of the same key, none is
\* doubled, and no challenge is without one (add_challenge runs after the cas
\* that makes the challenge visible, remove_expired compares keys only).
EvictionInv ==
  /\ PushIsPending
  /\ EntryIsCurrent
  /\ PoppedHasExpired
  /\ StoredIsScheduled

\* What get has drawn is its own, and unclaimed.
DrawnIsFresh ==
  \A r \in Request : pc[r] = "cas" \/ Inserted(r) =>
    /\ challenge[r] # NoChallenge
    /\ challenge[r].nonce = r
    /\ ~challenge[r].claimed
    /\ challenge[r].expires_at <= now + Duration[key[r]]

\* The map holds challenges that were inserted for the key.
StoredIsDrawn ==
  \A k \in Key : Stored(k) =>
    LET c == challenge_set[k] IN
    /\ Inserted(c.nonce)
    /\ key[c.nonce] = k
    /\ c.expires_at = challenge[c.nonce].expires_at
    /\ c.difficulty = challenge[c.nonce].difficulty

StoredUntilExpired ==
  \A r \in Request : Inserted(r) =>
    \/ Stored(key[r]) /\ challenge_set[key[r]].nonce = r
    \/ Expired(r)

\* Claims work on unclaimed copies of challenges that were inserted.
ReadIsDrawn ==
  /\ \A r \in Request : pc[r] = "claim" \/ Attempted(r) =>
       /\ challenge[r] # NoChallenge
       /\ Inserted(challenge[r].nonce)
       /\ key[challenge[r].nonce] = key[r]
       /\ challenge[r] = challenge[challenge[r].nonce]
  /\ \A r \in Request : pc[r] = "Existing" =>
       challenge[r] # NoChallenge /\ Inserted(challenge[r].nonce)

ClaimedIsAttempted ==
  \A k \in Key : Stored(k) =>
    (challenge_set[k].claimed <=>
       \E q \in Request : Attempted(q) /\ challenge[q].nonce = challenge_set[k].nonce)

OneAttempt ==
  \A q, r \in Request :
    Attempted(q) /\ Attempted(r) /\ challenge[q].nonce = challenge[r].nonce
      => q = r

\* What the answers already given say of the map.  A stored challenge is the
\* one its request drew, but for `claimed`, and that is set exactly when some
\* claim has used its attempt; a challenge that was inserted is in the map until
\* it has expired; a claim holds an unclaimed challenge of its own key, and no
\* two claims have used an attempt at the same one.
HistoryInv ==
  /\ DrawnIsFresh
  /\ StoredIsDrawn
  /\ StoredUntilExpired
  /\ ReadIsDrawn
  /\ ClaimedIsAttempted
  /\ OneAttempt

-----------------------------------------------------------------------------
(* Properties                                                              *)

\* The gate implements ChallengeLedger: with the challenge set as the ledger,
\* every step of every thread and of the background task issues, grants, burns
\* or expires one challenge of one key, lets time pass, or changes nothing that
\* the ledger shows.  What is granted is the work the server has measured.
Issued == {r \in Request : Inserted(r)}

Proof(r) == [nonce |-> challenge[r].nonce,
             zeros |-> LeadingZeros(solution[r], challenge[r].nonce)]

Granted == {Proof(r) : r \in {q \in Request : pc[q] = "Ok"}}

Ledger == INSTANCE ChallengeLedger WITH
  Nonce <- Request, ledger <- challenge_set, issued <- Issued, granted <- Granted

ImplementsLedger == Ledger!LedgerSpec

\* A challenge leaves the map, or is replaced, only once it has expired, however
\* evictions, inserts and wakeups are ordered (remove_expired removes whatever
\* the map holds for the key of a popped entry).
NoEarlyEviction ==
  [][\A k \in Key :
       Stored(k) /\ (challenge_set'[k] = NoChallenge
                       \/ challenge_set'[k].nonce # challenge_set[k].nonce)
         => challenge_set[k].expires_at <= now]_vars

\* The rate limit: when check_solution takes up an attempt, every attempt
\* that the same address has had on that chain was at another challenge, and
\* that one has expired, whichever way claims, new challenges and evictions
\* interleave.
OneAttemptUntilExpiry ==
  [][\A r \in Request : ~Attempted(r) /\ Attempted(r)' =>
       \A q \in Request : Attempted(q) /\ key[q] = key[r] =>
         challenge[q].nonce # challenge[r].nonce /\ Expired(q)]_vars

\* Somebody else has had the attempt at the challenge with nonce n.
AttemptedByAnother(r, n) ==
  \E q \in Request \ {r} : Attempted(q) /\ challenge[q].nonce = n

\* A claim with enough work for a nonce that its own address was given on that
\* chain is turned down only because that challenge has expired, or because
\* another claim has had the attempt.  It takes a client that hashes what the
\* server hashes.
HonestSolverServed ==
  \A r \in Request :
    LET n == solution[r].nonce IN
    (/\ pc[r] \in Rejections
     /\ Inserted(n) /\ key[n] = key[r]
     /\ solution[r].zeros >= challenge[n].difficulty)
    => Expired(n) \/ AttemptedByAnother(r, n)

\* Every request is answered: none waits for ever for the heap's mutex, which
\* the background task holds while it removes what has expired.
RequestsAnswered ==
  \A r \in Request : (pc[r] \in Underway) ~> (pc[r] \in Answers)

\* A request that does notify the task rescues every entry that is in the heap
\* by then and that the task may have lost sight of, if the clock gets far
\* enough for both.
LateSendRescues ==
  \A r \in Request :
    (/\ \E q \in Request : pc[q] = "send" /\ challenge[q].expires_at <= MaxTime
     /\ InHeap(r) /\ challenge[r].expires_at <= MaxTime)
      ~> ~InHeap(r)

-----------------------------------------------------------------------------
(* What comments and documents say, and the code does not do.              *)

\* "Adds a challenge to the eviction queue to be removed TTL in the future":
\* a challenge that expires while the clock runs is removed from the map.
ExpiredIsEvicted ==
  \A r \in Request :
    (Inserted(r) /\ challenge[r].expires_at <= MaxTime)
      ~> ~(Stored(key[r]) /\ challenge_set[key[r]].nonce = r)
=============================================================================
