------------------------------- MODULE MCFaucet -------------------------------
(* Instances of Faucet for TLC: floats of 10 bits, hashes of two           *)
(* half-bytes and difficulties up to 7.                                    *)
EXTENDS Faucet, TLC

CONSTANTS r1, r2, r3, r4, a1, a2, a6

Layer(b, m) ==
  [max_difficulty |-> 7, min_difficulty |-> m, min_balance |-> b, amount_per_claim |-> 1,
   difficulty_increase_coeff |-> [sig |-> 1, exp |-> 0], challenge_duration |-> 1]

\* Claims are within reach at a balance of 4 on L1 and of 2 on L2, no lower.
BothLayers == [c \in Chain |-> IF c = "L1" THEN Layer(3, 2) ELSE Layer(1, 1)]
Balances == [c \in Chain |-> IF c = "L1" THEN 4 ELSE 2]

\* All zeros, two and none.
Hashes == {<<0, 0>>, <<2, 9>>, <<8, 0>>}
Solved == {<<2, 9>>}

Sym == Permutations(Request) \cup Permutations(Ipv4)
=============================================================================
