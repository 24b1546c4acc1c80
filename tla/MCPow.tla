-------------------------------- MODULE MCPow --------------------------------
(* Instances of Pow for TLC.                                               *)
EXTENDS Pow, TLC

CONSTANTS r1, r2, r3, r4

\* One address on one chain: everybody competes for the same challenge.
OneKey == {<<"ip", "L1">>}

\* One address on both chains, whose challenges last for different times.
BothChains == {<<"ip", "L1">>, <<"ip", "L2">>}

\* settings.l1.pow.challenge_duration and settings.l2.pow.challenge_duration.
ByChain == [k \in BothChains |-> IF k[2] = "L1" THEN 2 ELSE 1]
Short == [k \in BothChains |-> 1]
OnlyL1 == [k \in OneKey |-> 1]

\* Requests differ by their names only; not for liveness.
Sym == Permutations(Request)
=============================================================================
