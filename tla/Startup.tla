------------------------------- MODULE Startup --------------------------------
(***************************************************************************)
(* How the faucet comes up (src/main.rs, src/settings.rs, src/l1.rs,       *)
(* src/l2.rs): main reads the settings, the seed, opens or creates the L1  *)
(* wallet's database, derives the L2 wallet, builds the difficulty         *)
(* configurations and serves.  Nearly every failure on the way is a panic, *)
(* which ends the process; the operator starts it again, maybe with other  *)
(* settings.  The seed file and the database are all that survives.        *)
(*                                                                         *)
(* Key derivation is left out: a wallet's keys are named by their seed.    *)
(* So is which address is logged: every scan looks at all that were.       *)
(***************************************************************************)
EXTENDS SeedFile, FeeRate, Difficulty

CONSTANTS
  ReadableSettings,  \* what configuration files and environment may hold
  Missing,           \* a setting that is left out
  DefaultLayer,      \* the defaults of a layer's settings
  SatsToWei,         \* SATS_TO_WEI
  NoWallet,          \* the database holds no wallet
  MaxBalance         \* bound: the balances that quotes are looked at for

ASSUME SettingsAssumption ==
  \A s \in ReadableSettings : DOMAIN s.l1 = DOMAIN s.l2 /\ DOMAIN s.l2 \subseteq DOMAIN DefaultLayer
ASSUME UnitAssumption == SatsToWei \in Nat \ {0} /\ MaxBalance \in Nat
ASSUME RangeAssumption == InRange(MaxU64) /\ MaxBalance <= MaxU64
ASSUME WalletAssumption ==
  \A k \in Seed, s \in ReadableSettings : NoWallet # [keys |-> k, network |-> s.network]

VARIABLES
  main,      \* where main is, or that there is no process
  settings,  \* SETTINGS, as they were last read
  wallet     \* what the database says of the wallet

mainVars == <<main, settings, wallet>>
vars == <<mainVars, seedVars, feeVars>>

Stages == {"load_seed", "save_seed", "write_seed", "l1_wallet", "l2_wallet",
           "difficulty", "bind", "serving"}

\* From<ReadableLayerConfig> for LayerConfig
LayerConfig(value) ==
  [f \in DOMAIN value |-> IF value[f] = Missing THEN DefaultLayer[f] ELSE value[f]]

LayersOf(s) == {LayerConfig(s.l1), LayerConfig(s.l2)}

Layers == LayersOf(settings)

TypeOK ==
  /\ SeedTypeOK
  /\ FeeTypeOK
  /\ main \in {"down"} \cup Stages
  /\ settings \in ReadableSettings
  /\ wallet = NoWallet \/ wallet.keys \in Seed

Init ==
  /\ SeedInit
  /\ FeeInit
  /\ main = "down"
  /\ settings \in ReadableSettings
  /\ wallet = NoWallet

\* A panic of main, or whatever else ends the process.
Die ==
  /\ main' = "down"
  /\ ForgetSeed
  /\ ForgetFeeRate
  /\ UNCHANGED <<settings, wallet>>

Reach(stage) == main' = stage /\ UNCHANGED <<settings, wallet, feeVars>>

-----------------------------------------------------------------------------
(* main, up to axum::serve.                                                *)

\* The code divides by a literal of its own, 10u64.pow(10), which is what SATS_TO_WEI
\* comes to in main.rs:65; here they are the same constant.
MAX_SATS_PER_CLAIM == MaxU64 \div SatsToWei

AmountOf(layer) == LayerConfig(layer).amount_per_claim

LayerSettings ==
  [max_difficulty : 0..MaxU8, min_difficulty : 0..MaxU8, min_balance : 0..MaxU64,
   amount_per_claim : 0..MaxU64, difficulty_increase_coeff : [sig : Int, exp : Int]]

ASSUME LayerAssumption ==
  \A s \in ReadableSettings :
    LayerConfig(s.l1) \in LayerSettings /\ LayerConfig(s.l2) \in LayerSettings

L1AmountFits(s) == AmountOf(s.l1) <= MAX_SATS_PER_CLAIM

\* Mutant: the L1 amount alone is looked at; it would be sent in sats.
AmountsFitOnL1(s) == L1AmountFits(s)

AmountsFit(s) == L1AmountFits(s) /\ AmountOf(s.l2) <= MAX_SATS_PER_CLAIM

\* The settings are lazy: the first use of them, in main, may panic.
LoadSettings ==
  /\ main = "down"
  /\ settings' \in ReadableSettings
  /\ main' = IF AmountsFit(settings') THEN "load_seed" ELSE "down"
  /\ UNCHANGED <<wallet, seedVars, feeVars>>

LoadSeed ==
  /\ main = "load_seed"
  /\ ReadSeed
  /\ Reach("l1_wallet")

\* Mutant: the new seed is used but not saved.
CreateUnsaved ==
  /\ main = "load_seed"
  /\ DrawSeed
  /\ Reach("l1_wallet")

CreateSeed ==
  /\ main = "load_seed"
  /\ DrawSeed
  /\ Reach("save_seed")

SaveSeed ==
  \/ main = "save_seed" /\ TruncateSeed /\ Reach("write_seed")
  \/ main = "write_seed" /\ WriteSeed /\ Reach("l1_wallet")

\* `expect`: the file keeps what it holds by then.
SaveFails == main \in {"save_seed", "write_seed"} /\ Die

Fits(w) == w.keys = seed /\ w.network = settings.network

\* Mutant: whatever wallet there is is loaded.
LoadAnyWallet ==
  /\ main = "l1_wallet"
  /\ wallet # NoWallet
  /\ main' = "l2_wallet"
  /\ SpawnFeeRateTask
  /\ UNCHANGED <<settings, wallet, seedVars>>

\* Loading compares the descriptors and the network with the persisted ones.
LoadWallet ==
  /\ main = "l1_wallet"
  /\ wallet # NoWallet
  /\ Fits(wallet)
  /\ main' = "l2_wallet"
  /\ SpawnFeeRateTask
  /\ UNCHANGED <<settings, wallet, seedVars>>

\* One database transaction; then an address is revealed, and the fee-rate
\* task spawned.
CreateWallet ==
  /\ main = "l1_wallet"
  /\ wallet = NoWallet
  /\ wallet' = [keys |-> seed, network |-> settings.network]
  /\ main' = "l2_wallet"
  /\ SpawnFeeRateTask
  /\ UNCHANGED <<settings, seedVars>>

\* `unwrap` and `expect`: the database cannot be used, or is another wallet's.
WalletFails == main = "l1_wallet" /\ Die

OpenL2Wallet ==
  /\ main = "l2_wallet"
  /\ settings.l2_http_endpoint = "url"
  /\ Reach("difficulty")
  /\ UNCHANGED seedVars

L2WalletFails == main = "l2_wallet" /\ settings.l2_http_endpoint # "url" /\ Die

\* Each layer's configuration is built once, from its settings.
Configured(layer) ==
  DifficultyConfig(layer.max_difficulty, layer.min_difficulty, layer.min_balance,
                   layer.amount_per_claim, layer.difficulty_increase_coeff)

BuildDifficulty ==
  /\ main = "difficulty"
  /\ \A layer \in Layers : IsOk(Configured(layer))
  /\ Reach("bind")
  /\ UNCHANGED seedVars

DifficultyFails ==
  /\ main = "difficulty"
  /\ \E layer \in Layers : ~IsOk(Configured(layer))
  /\ Die

Bind ==
  /\ main = "bind"
  /\ Reach("serving")
  /\ UNCHANGED seedVars

BindFails == main = "bind" /\ Die

StartUp ==
  \/ LoadSettings
  \/ LoadSeed \/ CreateSeed \/ SaveSeed \/ SaveFails
  \/ LoadWallet \/ CreateWallet \/ WalletFails
  \/ OpenL2Wallet \/ L2WalletFails
  \/ BuildDifficulty \/ DifficultyFails
  \/ Bind \/ BindFails

\* The process may be killed anywhere.
Crash == main # "down" /\ Die

FeeRateStep == FeeTask /\ UNCHANGED <<mainVars, seedVars>>

Next ==
  \/ StartUp
  \/ Crash
  \/ FeeRateStep
  \/ EstimateChanges /\ UNCHANGED <<mainVars, seedVars>>

Spec == Init /\ [][Next]_vars

\* The fee-rate task is polled, and not every request to esplora fails.
FairSpec ==
  /\ Spec
  /\ WF_vars(FeeRateStep)
  /\ SF_vars(Publish /\ UNCHANGED <<mainVars, seedVars>>)

-----------------------------------------------------------------------------
(* Properties                                                              *)

\* The keys of the wallet are lost only by a read of a good seed file that
\* failed: no crash or failed write, at whatever point of whichever start-up,
\* leaves a wallet whose seed is not in the file.
KeysKept ==
  wallet # NoWallet => wallet.keys = seed_file \/ misread

\* Whatever was lost or changed between two runs, a process that has got past
\* the L1 wallet, and so the L2 wallet, which checks nothing, uses the keys and
\* the network that the database was created for.
KeysInUse ==
  main \in {"l2_wallet", "difficulty", "bind", "serving"} =>
    wallet # NoWallet /\ Fits(wallet)

\* What a claim sends on L2 fits in the u64 that it is computed in.
NoWeiOverflow ==
  main = "serving" => \A layer \in Layers : layer.amount_per_claim * SatsToWei <= MaxU64

\* The line is no steeper, and no farther from its origin, than floats are precise:
\* what a*x + b loses to cancellation is a small part of a unit.
Mild(layer) ==
  LET lq == Lq(layer.amount_per_claim, layer.difficulty_increase_coeff) IN
  (layer.max_difficulty - layer.min_difficulty)
      * (layer.min_balance * Scale(layer.difficulty_increase_coeff) + lq) * 32
    <= lq * TwoTo[Precision]

\* The result is between the two difficulties and at most 3/4 off the formula in
\* exact arithmetic, half of a unit for its rounding and a quarter for all of the
\* others, on both sides of both thresholds.
FollowsFormula(layer) ==
  LET config == Configured(layer)
      lq == Lq(layer.amount_per_claim, layer.difficulty_increase_coeff)
  IN  \A x \in 0..MaxBalance :
        LET y == calculate_difficulty(config, x)
            off == y * lq - Target(layer.max_difficulty, layer.min_difficulty, layer.min_balance,
                                   layer.amount_per_claim, layer.difficulty_increase_coeff, x)
        IN  y \in layer.min_difficulty..layer.max_difficulty /\ 4 * Abs(off) <= 3 * lq

\* Where the line is too far from its origin to be exact, the quotes fall between
\* the two thresholds all the same, but the difficulty may jump at them.
NeverRises(layer) ==
  LET config == Configured(layer)
      quote == [x \in 0..MaxBalance |-> calculate_difficulty(config, x)]
  IN  \A x \in 1..MaxBalance :
        \/ quote[x] <= quote[x - 1]
        \/ ~Mild(layer) /\ (Leq(config.min_diff_start, FromInt(x)) \/ Leq(FromInt(x - 1), config.b))

\* The settings of which these hold: TLC finds them once, and not at every state.
FaithfulSettings ==
  {s \in ReadableSettings :
     \A layer \in LayersOf(s) : IsOk(Configured(layer)) /\ (Mild(layer) => FollowsFormula(layer))}

MonotoneSettings ==
  {s \in ReadableSettings :
     \A layer \in LayersOf(s) : IsOk(Configured(layer)) /\ NeverRises(layer)}

\* A faucet that serves quotes what the formula of docs/pow.md gives with the
\* setting max_difficulty for M, give or take the rounding.  The document has
\* M = 255, which is not what is quoted unless it is set: max_difficulty is 64
\* by default.
DifficultyFollowsFormula == main = "serving" => settings \in FaithfulSettings

\* A fuller faucet is never harder to draw from.
QuotesNeverRise == main = "serving" => settings \in MonotoneSettings

\* As long as no estimate overflows, the rate settles where esplora's estimate
\* settles, in whole sat/vB, whatever requests fail and processes die before.
NoOverflow == estimate = NoEstimate \/ PerKwu(estimate) <= MaxU64

FeeRateFollows ==
  \A e \in Estimate :
    ([]NoOverflow /\ <>[](estimate = e /\ fee_task # "none")) => <>[](fee_rate = PerKwu(e))

-----------------------------------------------------------------------------
(* What comments and documents say, and the code does not do.              *)

\* "Path to the seed file which stores the wallet's seed/master bytes"
SeedFileStoresKeys == wallet # NoWallet => seed_file = wallet.keys
=============================================================================
