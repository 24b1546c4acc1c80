------------------------------- MODULE FeeRate --------------------------------
(***************************************************************************)
(* The fee-rate task (src/l1.rs): every 20 seconds it asks esplora for the *)
(* rate at which a transaction is mined in the next block, and publishes   *)
(* it in sat/kwu.  Module Startup composes it with the process that spawns *)
(* it.                                                                     *)
(*                                                                         *)
(* Esplora's estimate is a multiple of 1/Parts of a sat/vB.                *)
(***************************************************************************)
EXTENDS Integers

CONSTANTS
  Estimate,    \* what esplora may estimate
  NoEstimate,  \* its answer lacks the next block
  Parts,
  MaxU64       \* the greatest number of a u64

ASSUME FeeAssumption ==
  /\ Parts \in Nat \ {0}
  /\ MaxU64 \in Nat /\ 250 <= MaxU64
  /\ Estimate \subseteq Nat /\ NoEstimate \notin Estimate

VARIABLES
  estimate,  \* esplora's current estimate
  fee_rate,  \* FEE_RATE, in sat/kwu
  fee_task   \* where the task is

feeVars == <<estimate, fee_rate, fee_task>>

FeeTypeOK ==
  /\ estimate \in Estimate \cup {NoEstimate}
  /\ fee_rate \in 0..MaxU64
  /\ fee_task \in {"none", "fetch", "sleep", "returned"}

DefaultFeeRate == 250

FeeInit ==
  /\ estimate \in Estimate \cup {NoEstimate}
  /\ fee_rate = DefaultFeeRate
  /\ fee_task = "none"

SpawnFeeRateTask ==
  /\ fee_task' = "fetch"
  /\ UNCHANGED <<estimate, fee_rate>>

\* Whole sat/vB, saturated, in sat/kwu.
PerKwu(e) == (IF e \div Parts > MaxU64 THEN MaxU64 ELSE e \div Parts) * (1000 \div 4)

\* Mutant: the product is not checked.
PublishUnchecked ==
  /\ fee_task = "fetch"
  /\ estimate # NoEstimate
  /\ fee_rate' = PerKwu(estimate)
  /\ fee_task' = "sleep"
  /\ UNCHANGED estimate

Publish ==
  /\ fee_task = "fetch"
  /\ estimate # NoEstimate
  /\ PerKwu(estimate) <= MaxU64
  /\ fee_rate' = PerKwu(estimate)
  /\ fee_task' = "sleep"
  /\ UNCHANGED estimate

\* checked_mul fails, and the task returns from its loop for good.
ReturnOnOverflow ==
  /\ fee_task = "fetch"
  /\ estimate # NoEstimate
  /\ PerKwu(estimate) > MaxU64
  /\ fee_task' = "returned"
  /\ UNCHANGED <<estimate, fee_rate>>

\* Mutant: an error ends the task as an overflow does.
ReturnOnError ==
  /\ fee_task = "fetch"
  /\ fee_task' = "returned"
  /\ UNCHANGED <<estimate, fee_rate>>

\* No estimate for the next block, or no answer: the old rate stays.
KeepFeeRate ==
  /\ fee_task = "fetch"
  /\ fee_task' = "sleep"
  /\ UNCHANGED <<estimate, fee_rate>>

WakeUp ==
  /\ fee_task = "sleep"
  /\ fee_task' = "fetch"
  /\ UNCHANGED <<estimate, fee_rate>>

FeeTask == Publish \/ ReturnOnOverflow \/ KeepFeeRate \/ WakeUp

\* The statics of a process that is gone.
ForgetFeeRate ==
  /\ fee_rate' = DefaultFeeRate
  /\ fee_task' = "none"
  /\ UNCHANGED estimate

EstimateChanges ==
  /\ estimate' \in Estimate \cup {NoEstimate}
  /\ UNCHANGED <<fee_rate, fee_task>>
=============================================================================
