------------------------------ MODULE PowersOfTwo -----------------------------
(***************************************************************************)
(* The powers of two, as a recursive function: the provers know nothing of *)
(* the operator ^, and Difficulty and LeadingZeros are proved about.       *)
(***************************************************************************)
LOCAL INSTANCE Naturals

\* 2^n
TwoTo[n \in Nat] == IF n = 0 THEN 1 ELSE 2 * TwoTo[n - 1]
=============================================================================
