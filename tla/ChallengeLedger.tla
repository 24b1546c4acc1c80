--------------------------- MODULE ChallengeLedger ---------------------------
(***************************************************************************)
(* What the proof-of-work gate promises, without its queue, its wakeups    *)
(* and its threads: at any time a key has at most one challenge; a         *)
(* challenge is good for one attempt, which is granted when enough work is *)
(* shown for that very challenge; and only a challenge that has expired    *)
(* makes room for another.  It does not promise that an expired challenge  *)
(* goes away, nor that it is refused: see module Pow for both.             *)
(***************************************************************************)
EXTENDS Integers

CONSTANTS Key, Nonce, Difficulty, Duration, NoChallenge, MaxTime

VARIABLES
  now,      \* the clock
  ledger,   \* the current challenge of each key
  issued,   \* the nonces that have been drawn into the ledger
  granted   \* the successful claims: a nonce and the work shown for it

ledgerVars == <<now, ledger, issued, granted>>

\* The leading zeros that a count in a u8 can show.
Zeros == 0..255

LedgerInit ==
  /\ now = 0
  /\ ledger = [k \in Key |-> NoChallenge]
  /\ issued = {}
  /\ granted = {}

\* A fresh nonce, for a key without a challenge, that expires in time.
Issue(k) ==
  /\ ledger[k] = NoChallenge
  /\ UNCHANGED <<now, granted>>
  /\ \E n \in Nonce \ issued :
       /\ issued' = issued \cup {n}
       /\ \E d \in Difficulty, t \in 0..(now + Duration[k]) :
            ledger' = [ledger EXCEPT ![k] =
              [nonce |-> n, claimed |-> FALSE, expires_at |-> t, difficulty |-> d]]

Claimable(k) == ledger[k] # NoChallenge /\ ~ledger[k].claimed

Claim(k) == ledger' = [ledger EXCEPT ![k].claimed = TRUE]

Grant(k) ==
  /\ Claimable(k)
  /\ UNCHANGED <<now, issued>>
  /\ Claim(k)
  /\ \E w \in Zeros :
       /\ w >= ledger[k].difficulty
       /\ granted' = granted \cup {[nonce |-> ledger[k].nonce, zeros |-> w]}

\* The attempt is spent and nothing is granted.
Burn(k) ==
  /\ Claimable(k)
  /\ UNCHANGED <<now, issued, granted>>
  /\ Claim(k)

Expire(k) ==
  /\ ledger[k] # NoChallenge
  /\ ledger[k].expires_at <= now
  /\ UNCHANGED <<now, issued, granted>>
  /\ ledger' = [ledger EXCEPT ![k] = NoChallenge]

Pass ==
  /\ now < MaxTime
  /\ now' = now + 1
  /\ UNCHANGED <<ledger, issued, granted>>

LedgerNext ==
  \/ \E k \in Key : Issue(k) \/ Grant(k) \/ Burn(k) \/ Expire(k)
  \/ Pass

LedgerSpec == LedgerInit /\ [][LedgerNext]_ledgerVars
=============================================================================
