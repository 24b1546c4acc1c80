----------------------------- MODULE StartupProofs -----------------------------
(***************************************************************************)
(* Proofs about module Startup, for any settings, estimates, number of     *)
(* seeds, unit and floats: its types, what keeps the wallet's keys, with   *)
(* which keys a faucet serves, that what it sends fits, and that what it   *)
(* quotes is the formula of docs/pow.md, with max_difficulty for its M.    *)
(***************************************************************************)
EXTENDS Startup, DifficultyProofs

\* A new seed is written over nothing but what was no seed, or could not be
\* read; and main goes on to the wallet with the seed that the file holds.
SeedInv ==
  /\ main \in {"save_seed", "write_seed"} =>
       seed \in Seed /\ (misread \/ seed_file \notin Seed)
  /\ main = "l1_wallet" => seed \in Seed /\ seed = seed_file

\* Settings whose amounts do not fit are not run with.
AmountsInv == main # "down" => AmountsFit(settings)

\* And a faucet comes up with the configurations of its settings alone.
ConfiguredInv ==
  main \in {"bind", "serving"} => \A layer \in Layers : IsOk(Configured(layer))

IInv == TypeOK /\ SeedInv /\ KeysKept /\ KeysInUse /\ AmountsInv /\ ConfiguredInv

-----------------------------------------------------------------------------
(* Types                                                                   *)

LEMMA PerKwuType == \A e \in Estimate : PerKwu(e) \in Nat
<1> SUFFICES ASSUME NEW e \in Estimate PROVE PerKwu(e) \in Nat
  OBVIOUS
<1>1. e \in Nat /\ Parts \in Nat /\ Parts > 0 /\ MaxU64 \in Nat
  BY FeeAssumption
<1>2. e \div Parts \in Nat
  BY <1>1
<1>3. (1000 \div 4) \in Nat
  OBVIOUS
<1> QED BY <1>1, <1>2, <1>3 DEF PerKwu

LEMMA FeeTaskType == FeeTypeOK /\ FeeTask => FeeTypeOK'
<1> SUFFICES ASSUME FeeTypeOK, FeeTask PROVE FeeTypeOK'
  OBVIOUS
<1> USE DEF FeeTypeOK
<1>1. CASE Publish
  <2>1. PerKwu(estimate) \in Nat /\ PerKwu(estimate) <= MaxU64
    BY <1>1, PerKwuType DEF Publish
  <2> QED BY <1>1, <2>1, FeeAssumption DEF Publish
<1>2. CASE ReturnOnOverflow
  BY <1>2 DEF ReturnOnOverflow
<1>3. CASE KeepFeeRate
  BY <1>3 DEF KeepFeeRate
<1>4. CASE WakeUp
  BY <1>4 DEF WakeUp
<1> QED BY <1>1, <1>2, <1>3, <1>4 DEF FeeTask

\* What starting, ending and changing estimates leave the fee rate's variables in.
LEMMA FeeTypes ==
  /\ FeeTypeOK /\ UNCHANGED feeVars => FeeTypeOK'
  /\ FeeTypeOK /\ SpawnFeeRateTask => FeeTypeOK'
  /\ FeeTypeOK /\ ForgetFeeRate => FeeTypeOK'
  /\ FeeTypeOK /\ EstimateChanges => FeeTypeOK'
<1>1. DefaultFeeRate \in 0..MaxU64
  BY FeeAssumption DEF DefaultFeeRate
<1> QED BY <1>1 DEF FeeTypeOK, feeVars, SpawnFeeRateTask, ForgetFeeRate, EstimateChanges

-----------------------------------------------------------------------------
(* The inductive invariant                                                 *)

LEMMA Initially == Init => IInv
<1> SUFFICES ASSUME Init PROVE IInv
  OBVIOUS
<1>1. DefaultFeeRate \in 0..MaxU64
  BY FeeAssumption DEF DefaultFeeRate
<1>2. SeedTypeOK
  <2>1. drawn \in 0..MaxSeeds
    BY SeedAssumption DEF Init, SeedInit
  <2>2. misread \in BOOLEAN
    BY Zenon DEF Init, SeedInit
  <2> QED BY <2>1, <2>2 DEF Init, SeedInit, SeedTypeOK
<1>3. FeeTypeOK
  BY <1>1 DEF Init, FeeInit, FeeTypeOK
<1>4. TypeOK
  BY <1>2, <1>3 DEF Init, TypeOK
<1> QED BY <1>4 DEF Init, IInv, SeedInv, KeysKept, KeysInUse, AmountsInv, ConfiguredInv

\* A process that ends keeps what the file and the database hold.
LEMMA DeathKeeps == IInv /\ Die => IInv'
<1> SUFFICES ASSUME IInv, Die PROVE IInv'
  OBVIOUS
<1> USE DEF IInv, Die, ForgetSeed
<1>1. TypeOK'
  BY FeeTypes DEF TypeOK, SeedTypeOK
<1> QED BY <1>1 DEF SeedInv, KeysKept, KeysInUse, AmountsInv, ConfiguredInv

\* Steps that are about the seed alone, or about none of it.
LEMMA SeedStepKeeps ==
  IInv /\ (LoadSettings \/ LoadSeed \/ CreateSeed \/ SaveSeed) => IInv'
<1> SUFFICES ASSUME IInv, LoadSettings \/ LoadSeed \/ CreateSeed \/ SaveSeed
             PROVE  IInv'
  OBVIOUS
<1>0. FeeTypeOK'
  BY FeeTypes DEF IInv, TypeOK, LoadSettings, LoadSeed, CreateSeed, SaveSeed, Reach
<1> USE DEF IInv, TypeOK, Reach, seedVars, Stages
<1>1. CASE LoadSettings
  <2>1. TypeOK'
    BY <1>0, <1>1 DEF LoadSettings, SeedTypeOK
  <2>2. KeysKept' /\ KeysInUse' /\ SeedInv'
    BY <1>1 DEF LoadSettings, KeysKept, KeysInUse, SeedInv
  <2>3. AmountsInv' /\ ConfiguredInv'
    BY <1>1 DEF LoadSettings, AmountsInv, ConfiguredInv, AmountsFit, L1AmountFits
  <2> QED BY <2>1, <2>2, <2>3
<1>2. CASE LoadSeed
  <2>1. TypeOK'
    BY <1>0, <1>2 DEF LoadSeed, ReadSeed, SeedTypeOK
  <2>2. KeysKept' /\ KeysInUse' /\ SeedInv'
    BY <1>2 DEF LoadSeed, ReadSeed, KeysKept, KeysInUse, SeedInv
  <2>3. AmountsInv' /\ ConfiguredInv'
    BY <1>2 DEF LoadSeed, AmountsInv, ConfiguredInv
  <2> QED BY <2>1, <2>2, <2>3
<1>3. CASE CreateSeed
  <2>1. drawn + 1 \in Seed /\ drawn + 1 \in 0..MaxSeeds
    BY <1>3, SeedAssumption DEF CreateSeed, DrawSeed, SeedTypeOK, Seed
  <2>2. misread' \in BOOLEAN
    BY <1>3 DEF CreateSeed, DrawSeed, SeedTypeOK
  <2>3. TypeOK'
    BY <1>0, <1>3, <2>1, <2>2 DEF CreateSeed, DrawSeed, SeedTypeOK
  <2>4. KeysKept' /\ KeysInUse'
    BY <1>3 DEF CreateSeed, DrawSeed, KeysKept, KeysInUse
  <2>5. SeedInv'
    BY <1>3, <2>1 DEF CreateSeed, DrawSeed, SeedInv
  <2>6. AmountsInv' /\ ConfiguredInv'
    BY <1>3 DEF CreateSeed, AmountsInv, ConfiguredInv
  <2> QED BY <2>3, <2>4, <2>5, <2>6
<1>4. CASE SaveSeed
  <2>1. TypeOK'
    BY <1>0, <1>4 DEF SaveSeed, TruncateSeed, WriteSeed, SeedInv, SeedTypeOK
  <2>2. KeysKept'
    BY <1>4 DEF SaveSeed, TruncateSeed, WriteSeed, KeysKept, SeedInv
  <2>3. KeysInUse' /\ SeedInv'
    BY <1>4, SeedAssumption
    DEF SaveSeed, TruncateSeed, WriteSeed, KeysInUse, SeedInv
  <2>4. AmountsInv' /\ ConfiguredInv'
    BY <1>4 DEF SaveSeed, AmountsInv, ConfiguredInv
  <2> QED BY <2>1, <2>2, <2>3, <2>4
<1> QED BY <1>1, <1>2, <1>3, <1>4

\* The database is created for the seed of the file, or was created for the
\* seed that main holds.
LEMMA WalletStepKeeps == IInv /\ (LoadWallet \/ CreateWallet) => IInv'
<1> SUFFICES ASSUME IInv, LoadWallet \/ CreateWallet PROVE IInv'
  OBVIOUS
<1>0. FeeTypeOK'
  BY FeeTypes DEF IInv, TypeOK, LoadWallet, CreateWallet
<1> USE DEF IInv, TypeOK, seedVars, Stages, Fits
<1>1. CASE LoadWallet
  BY <1>0, <1>1
  DEF LoadWallet, SeedTypeOK, SeedInv, KeysKept, KeysInUse, AmountsInv, ConfiguredInv
<1>2. CASE CreateWallet
  <2>1. seed \in Seed /\ seed = seed_file
    BY <1>2 DEF CreateWallet, SeedInv
  <2>2. wallet'.keys = seed /\ wallet'.network = settings.network
    BY <1>2 DEF CreateWallet
  <2>3. wallet' # NoWallet
    BY <1>2, <2>1, WalletAssumption DEF CreateWallet
  <2>4. TypeOK'
    BY <1>0, <1>2, <2>1, <2>2 DEF CreateWallet, SeedTypeOK
  <2>5. KeysKept' /\ KeysInUse' /\ SeedInv' /\ AmountsInv' /\ ConfiguredInv'
    BY <1>2, <2>1, <2>2, <2>3
    DEF CreateWallet, SeedInv, KeysKept, KeysInUse, AmountsInv, ConfiguredInv
  <2> QED BY <2>4, <2>5
<1> QED BY <1>1, <1>2

\* The configurations are those of the settings, and both are kept.
LEMMA ConfiguredKept ==
  ASSUME ConfiguredInv, settings' = settings,
         main' \in {"bind", "serving"} => main \in {"bind", "serving"}
  PROVE  ConfiguredInv'
<1> USE DEF ConfiguredInv, Layers, LayersOf, Configured
<1>1. CASE main' \in {"bind", "serving"}
  <2>1. ASSUME NEW layer \in Layers' PROVE IsOk(Configured(layer))
    BY <1>1
  <2> QED BY <2>1
<1> QED BY <1>1

\* Nothing that happens after the wallet is open touches seed or wallet.
LEMMA LateStepKeeps == IInv /\ (OpenL2Wallet \/ BuildDifficulty \/ Bind) => IInv'
<1> SUFFICES ASSUME IInv, OpenL2Wallet \/ BuildDifficulty \/ Bind PROVE IInv'
  OBVIOUS
<1>1. FeeTypeOK'
  BY FeeTypes DEF IInv, TypeOK, OpenL2Wallet, BuildDifficulty, Bind, Reach
<1>2. /\ UNCHANGED <<settings, wallet, seedVars>>
      /\ main \in {"l2_wallet", "difficulty", "bind"}
      /\ main' \in {"difficulty", "bind", "serving"}
  BY DEF OpenL2Wallet, BuildDifficulty, Bind, Reach
<1>3. ConfiguredInv'
  <2>1. CASE OpenL2Wallet
    BY <2>1 DEF OpenL2Wallet, Reach, ConfiguredInv
  <2>2. CASE BuildDifficulty
    BY <2>2 DEF BuildDifficulty, Reach, ConfiguredInv, Layers, LayersOf, Configured
  <2>3. CASE Bind
    BY <1>2, <2>3, ConfiguredKept DEF Bind, IInv
  <2> QED BY <2>1, <2>2, <2>3
<1> QED BY <1>1, <1>2, <1>3
  DEF IInv, TypeOK, Stages, SeedTypeOK, seedVars, SeedInv, KeysKept, KeysInUse, Fits, AmountsInv

\* Steps that neither main nor the seed is in.
LEMMA OtherStepKeeps ==
  IInv /\ FeeTypeOK' /\ UNCHANGED <<mainVars, seedVars>> => IInv'
<1> SUFFICES ASSUME IInv, FeeTypeOK', UNCHANGED <<mainVars, seedVars>> PROVE IInv'
  OBVIOUS
<1>1. ConfiguredInv'
  BY ConfiguredKept DEF IInv, mainVars
<1> QED BY <1>1
  DEF IInv, TypeOK, SeedTypeOK, seedVars, mainVars, SeedInv, KeysKept, KeysInUse, Fits, AmountsInv

LEMMA Inductive == IInv /\ [Next]_vars => IInv'
<1> SUFFICES ASSUME IInv, [Next]_vars PROVE IInv'
  OBVIOUS
<1>1. CASE StartUp
  BY <1>1, DeathKeeps, SeedStepKeeps, WalletStepKeeps, LateStepKeeps
  DEF StartUp, SaveFails, WalletFails, L2WalletFails, DifficultyFails, BindFails
<1>2. CASE Crash
  BY <1>2, DeathKeeps DEF Crash
<1>3. CASE FeeRateStep \/ (EstimateChanges /\ UNCHANGED <<mainVars, seedVars>>)
  BY <1>3, FeeTypes, FeeTaskType, OtherStepKeeps DEF FeeRateStep, IInv, TypeOK
<1>4. CASE UNCHANGED vars
  BY <1>4, FeeTypes, OtherStepKeeps DEF vars, IInv, TypeOK
<1> QED BY <1>1, <1>2, <1>3, <1>4 DEF Next

THEOREM Invariance == Spec => []IInv
<1> QED BY Initially, Inductive, PTL DEF Spec

-----------------------------------------------------------------------------
(* The properties of the runs                                              *)

\* The variables have their types; the published fee rate fits in a u64.
THEOREM TypeCorrect == Spec => []TypeOK
<1>1. IInv => TypeOK
  BY DEF IInv
<1> QED BY <1>1, Invariance, PTL

\* No crash and no failed write loses the wallet's keys.
THEOREM KeysSurvive == Spec => []KeysKept
<1>1. IInv => KeysKept
  BY DEF IInv
<1> QED BY <1>1, Invariance, PTL

\* A faucet past its L1 wallet uses the keys and the network of its database.
THEOREM KeysMatch == Spec => []KeysInUse
<1>1. IInv => KeysInUse
  BY DEF IInv
<1> QED BY <1>1, Invariance, PTL

LEMMA UnitBound ==
  ASSUME NEW n \in Nat, n <= MAX_SATS_PER_CLAIM PROVE n * SatsToWei <= MaxU64
<1> DEFINE q == MaxU64 \div SatsToWei
<1>1. SatsToWei \in Nat /\ SatsToWei > 0 /\ MaxU64 \in Nat
  BY UnitAssumption, FeeAssumption
<1>2. q \in Nat /\ SatsToWei * q <= MaxU64
  BY <1>1
<1>3. n <= q
  BY DEF MAX_SATS_PER_CLAIM
<1> HIDE DEF q
<1>4. n * SatsToWei <= q * SatsToWei
  BY <1>1, <1>2, <1>3
<1> QED BY <1>1, <1>2, <1>4

\* The product of a claim's amount on L2 does not overflow.
THEOREM ClaimsFit == Spec => []NoWeiOverflow
<1>1. IInv => NoWeiOverflow
  <2> SUFFICES ASSUME IInv, main = "serving", NEW layer \in Layers
               PROVE  layer.amount_per_claim * SatsToWei <= MaxU64
    BY DEF NoWeiOverflow
  <2>1. PICK value \in {settings.l1, settings.l2} : layer = LayerConfig(value)
    BY DEF Layers, LayersOf
  <2>2. layer.amount_per_claim = AmountOf(value)
    BY <2>1 DEF AmountOf
  <2>3. AmountOf(value) \in Nat
    BY LayerAssumption, FeeAssumption DEF IInv, TypeOK, LayerSettings, AmountOf
  <2>4. AmountOf(value) <= MAX_SATS_PER_CLAIM
    BY DEF IInv, AmountsInv, AmountsFit, L1AmountFits
  <2> QED BY <2>2, <2>3, <2>4, UnitBound
<1> QED BY <1>1, Invariance, PTL

\* A layer that is served has settings of the types of the code, and a
\* configuration.
LEMMA LayerServed ==
  ASSUME IInv, main = "serving", NEW layer \in Layers
  PROVE  /\ layer \in LayerSettings /\ IsOk(Configured(layer))
         /\ layer.max_difficulty \in 0..MaxU8 /\ layer.min_difficulty \in 0..MaxU8
         /\ layer.min_balance \in 0..MaxU64 /\ layer.amount_per_claim \in 0..MaxU64
         /\ layer.difficulty_increase_coeff \in Floats
<1>1. layer \in LayerSettings
  BY LayerAssumption DEF IInv, TypeOK, Layers, LayersOf
<1>2. IsOk(Configured(layer))
  BY DEF IInv, ConfiguredInv
<1> QED BY <1>1, <1>2 DEF LayerSettings, Floats

LEMMA BalancesInRange ==
  /\ MaxU64 \in Nat /\ InRange(MaxU64) /\ 0..MaxBalance \subseteq 0..MaxU64
  /\ 1..MaxBalance \subseteq 1..MaxU64
BY RangeAssumption, FeeAssumption, UnitAssumption

\* What FormulaFollowed says of one layer.
LEMMA FormulaOfLayer ==
  ASSUME IInv, main = "serving", NEW layer \in Layers, Mild(layer)
  PROVE  FollowsFormula(layer)
<1> SUFFICES ASSUME NEW x \in 0..MaxBalance
             PROVE  LET config == Configured(layer)
                        lq == Lq(layer.amount_per_claim, layer.difficulty_increase_coeff)
                        y == calculate_difficulty(config, x)
                        off == y * lq - Target(layer.max_difficulty, layer.min_difficulty,
                                               layer.min_balance, layer.amount_per_claim,
                                               layer.difficulty_increase_coeff, x)
                    IN  /\ y \in layer.min_difficulty..layer.max_difficulty
                        /\ 4 * Abs(off) <= 3 * lq
  BY Zenon DEF FollowsFormula
<1> DEFINE M == layer.max_difficulty
           m == layer.min_difficulty
           b == layer.min_balance
           q == layer.amount_per_claim
           coeff == layer.difficulty_increase_coeff
<1>1. /\ M \in 0..MaxU8 /\ m \in 0..MaxU8 /\ b \in 0..MaxU64 /\ q \in 0..MaxU64
      /\ coeff \in Floats /\ MaxU64 \in Nat /\ InRange(MaxU64) /\ x \in 0..MaxU64
      /\ Configured(layer) = DifficultyConfig(M, m, b, q, coeff)
      /\ IsOk(DifficultyConfig(M, m, b, q, coeff))
  BY LayerServed, BalancesInRange DEF Configured
<1>2. (M - m) * (b * Scale(coeff) + Lq(q, coeff)) * 32 <= Lq(q, coeff) * TwoTo[Precision]
  BY Zenon DEF Mild
<1> HIDE DEF M, m, b, q, coeff
<1>3. LET y == calculate_difficulty(DifficultyConfig(M, m, b, q, coeff), x)
          lq == Lq(q, coeff)
      IN  /\ y \in m..M /\ lq \in Nat \ {0}
          /\ 4 * Abs(y * lq - Target(M, m, b, q, coeff, x)) <= 3 * lq
  BY <1>1, <1>2, FormulaFollowed, Zenon
<1> QED BY <1>1, <1>3, Zenon DEF M, m, b, q, coeff

\* What a faucet quotes is the formula of docs/pow.md in exact arithmetic, with
\* max_difficulty for the document's M = 255, to less than one unit, for any floats
\* that the amounts are in the range of.
THEOREM FormulaHolds == Spec => []DifficultyFollowsFormula
<1>1. IInv => DifficultyFollowsFormula
  BY FormulaOfLayer, LayerServed
  DEF DifficultyFollowsFormula, FaithfulSettings, Layers, IInv, TypeOK
<1> QED BY <1>1, Invariance, PTL

\* What LineFalls says of one layer; at the two thresholds a mild line is
\* between the difficulties on both sides.
LEMMA QuotesOfLayer ==
  ASSUME IInv, main = "serving", NEW layer \in Layers
  PROVE  NeverRises(layer)
<1> SUFFICES ASSUME NEW x \in 1..MaxBalance
             PROVE  LET c == Configured(layer)
                        at == [z \in 0..MaxBalance |-> calculate_difficulty(c, z)]
                    IN  \/ at[x] <= at[x - 1]
                        \/ ~Mild(layer) /\ (Leq(c.min_diff_start, FromInt(x))
                                              \/ Leq(FromInt(x - 1), c.b))
  BY Zenon DEF NeverRises
<1> DEFINE M == layer.max_difficulty
           m == layer.min_difficulty
           b == layer.min_balance
           q == layer.amount_per_claim
           coeff == layer.difficulty_increase_coeff
           config == DifficultyConfig(M, m, b, q, coeff)
           quote(z) == calculate_difficulty(config, z)
<1>1. /\ M \in 0..MaxU8 /\ m \in 0..MaxU8 /\ b \in 0..MaxU64 /\ q \in 0..MaxU64
      /\ coeff \in Floats /\ MaxU64 \in Nat /\ InRange(MaxU64) /\ x \in 1..MaxU64
      /\ Configured(layer) = config /\ IsOk(config)
  BY LayerServed, BalancesInRange DEF Configured
<1>2. x \in 0..MaxBalance /\ x - 1 \in 0..MaxBalance
  BY UnitAssumption
<1>3. Mild(layer) => quote(x) \in m..M /\ quote(x - 1) \in m..M
  BY <1>1, <1>2, FormulaOfLayer, Zenon DEF FollowsFormula
<1> HIDE DEF M, m, b, q, coeff
<1>4. \/ quote(x) <= quote(x - 1)
      \/ Leq(config.min_diff_start, FromInt(x)) /\ quote(x) = m
      \/ Leq(FromInt(x - 1), config.b) /\ quote(x - 1) = M
  BY <1>1, LineFalls
<1> HIDE DEF config, quote
<1>5. Mild(layer) => quote(x) <= quote(x - 1)
  BY <1>1, <1>3, <1>4
<1>6. \/ quote(x) <= quote(x - 1)
      \/ ~Mild(layer) /\ (Leq(config.min_diff_start, FromInt(x)) \/ Leq(FromInt(x - 1), config.b))
  BY <1>4, <1>5, Zenon
<1>7. LET at == [z \in 0..MaxBalance |-> calculate_difficulty(config, z)]
      IN  at[x] = quote(x) /\ at[x - 1] = quote(x - 1)
  BY <1>2, Zenon DEF quote
<1> HIDE DEF quote
<1> QED BY <1>1, <1>6, <1>7, Zenon

\* A fuller faucet is never harder to draw from: not at all under a mild line,
\* and under any other not between the two thresholds.
THEOREM QuotesFall == Spec => []QuotesNeverRise
<1>1. IInv => QuotesNeverRise
  BY QuotesOfLayer, LayerServed
  DEF QuotesNeverRise, MonotoneSettings, Layers, IInv, TypeOK
<1> QED BY <1>1, Invariance, PTL
=============================================================================
