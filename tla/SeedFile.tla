------------------------------- MODULE SeedFile -------------------------------
(***************************************************************************)
(* The seed file (src/seed.rs): 32 random bytes that both wallets derive   *)
(* their keys from.  The module gives the accesses to the file as actions  *)
(* on its own variables; module Startup puts them in main's order.         *)
(*                                                                         *)
(* A seed is the number of the draw that made it: no two are equal.        *)
(***************************************************************************)
EXTENDS Integers

CONSTANTS
  MaxSeeds,    \* bound: how many seeds may be drawn
  ReadFaults,  \* may a file that is there fail to be read?
  Absent,      \* there is no seed file
  Short        \* the file does not hold 32 bytes

Seed == 1..MaxSeeds

ASSUME SeedAssumption ==
  /\ MaxSeeds \in Nat
  /\ ReadFaults \in BOOLEAN
  /\ Absent \notin Seed /\ Short \notin Seed /\ Absent # Short

VARIABLES
  seed_file,  \* what the file holds
  drawn,      \* how many seeds have been drawn
  seed,       \* the seed that main holds, or Absent
  misread     \* history: has a read of a good seed file ever failed?

seedVars == <<seed_file, drawn, seed, misread>>

SeedTypeOK ==
  /\ seed_file \in Seed \cup {Absent, Short}
  /\ drawn \in 0..MaxSeeds
  /\ seed \in Seed \cup {Absent}
  /\ misread \in BOOLEAN

SeedInit ==
  /\ seed_file = Absent
  /\ drawn = 0
  /\ seed = Absent
  /\ misread = FALSE

ReadSeed ==
  /\ seed_file \in Seed
  /\ seed' = seed_file
  /\ UNCHANGED <<seed_file, drawn, misread>>

\* Whatever is not a seed that has been read is answered with a new one: no
\* file, one of another length, and an error, be it of `exists` or of `read`.
DrawSeed ==
  /\ seed_file \notin Seed \/ ReadFaults
  /\ drawn < MaxSeeds
  /\ drawn' = drawn + 1
  /\ seed' = drawn + 1
  /\ misread' = (misread \/ seed_file \in Seed)
  /\ UNCHANGED seed_file

\* fs::write creates or empties the file before it writes.
TruncateSeed ==
  /\ seed_file' = Short
  /\ UNCHANGED <<drawn, seed, misread>>

WriteSeed ==
  /\ seed_file' = seed
  /\ UNCHANGED <<drawn, seed, misread>>

ForgetSeed ==
  /\ seed' = Absent
  /\ UNCHANGED <<seed_file, drawn, misread>>
=============================================================================
