------------------------------ MODULE MCBatcher ------------------------------
(* Instances of Batcher for TLC.                                           *)
EXTENDS Batcher, TLC

CONSTANTS r1, r2, r3, r4, c1, c2

\* Requests differ by their names only, and so do the first coins.
Sym == Permutations(Request)
SymCoins == Permutations(Request) \cup Permutations(Funding)
=============================================================================
