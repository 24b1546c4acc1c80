---------------------------- MODULE PayoutLedger ----------------------------
(***************************************************************************)
(* What the batcher promises for the payout requests that it accepts:      *)
(* they are paid at most once, oldest first, at most MaxPerTx with one     *)
(* transaction, and a request that is overtaken is a lost one.  It does    *)
(* not promise that a request is paid: see module Batcher for what loses   *)
(* them.                                                                   *)
(***************************************************************************)
EXTENDS Integers, Sequences

CONSTANTS Request, MaxPerTx

VARIABLES
  accepted,  \* the requests that have ever been taken
  held,      \* those that wait, oldest first
  paid       \* whom each transaction pays

ledgerVars == <<accepted, held, paid>>

LedgerInit ==
  /\ accepted = {}
  /\ held = <<>>
  /\ paid = <<>>

Accept(r) ==
  /\ r \notin accepted
  /\ accepted' = accepted \cup {r}
  /\ held' = Append(held, r)
  /\ UNCHANGED paid

First(n) == SubSeq(held, 1, n)

\* The requests from position i up to, and without, position j are gone.
Without(i, j) == SubSeq(held, 1, i - 1) \o SubSeq(held, j, Len(held))

Pay(n) ==
  /\ n <= MaxPerTx
  /\ paid' = Append(paid, First(n))
  /\ held' = Without(1, n + 1)
  /\ UNCHANGED accepted

Lose(i, j) ==
  /\ held' = Without(i, j)
  /\ UNCHANGED <<accepted, paid>>

LedgerNext ==
  \/ \E r \in Request : Accept(r)
  \/ \E n \in 1..Len(held) : Pay(n)
  \/ \E i, j \in 1..(Len(held) + 1) : i < j /\ Lose(i, j)

LedgerSpec == LedgerInit /\ [][LedgerNext]_ledgerVars

-----------------------------------------------------------------------------

LedgerTypeOK ==
  /\ accepted \subseteq Request
  /\ held \in Seq(accepted)
  /\ paid \in Seq(Seq(accepted))

HeldDistinct ==
  \A i, j \in 1..Len(held) : held[i] = held[j] => i = j

PaidDistinct ==
  \A t, u \in 1..Len(paid) : \A i \in 1..Len(paid[t]), j \in 1..Len(paid[u]) :
    paid[t][i] = paid[u][j] => t = u /\ i = j

PaidNotHeld ==
  \A t \in 1..Len(paid) : \A i \in 1..Len(paid[t]), j \in 1..Len(held) :
    paid[t][i] # held[j]

\* A request occurs once, at most, in all that is held and paid.
LedgerInv == LedgerTypeOK /\ HeldDistinct /\ PaidDistinct /\ PaidNotHeld
=============================================================================
