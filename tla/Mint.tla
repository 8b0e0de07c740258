-------------------------------- MODULE Mint --------------------------------
(***************************************************************************)
(* x/mint: the inflation of the staking denomination.                      *)
(*                                                                         *)
(* Decimal256::new takes atomics: where the code builds a decimal from a   *)
(* supply or from a number of blocks with it, the number is used here as   *)
(* it is, without the factor Unit.                                         *)
(***************************************************************************)
EXTENDS Coins

CONSTANTS InflationRateChange, InflationMax, InflationMin, GoalBonded,
          BlocksPerYear,
          StakingDenom, MintDenom

ASSUME MintAssumption ==
    /\ {InflationRateChange, InflationMax, InflationMin, GoalBonded, BlocksPerYear} \subseteq Nat
    /\ {StakingDenom, MintDenom} \subseteq Denom

\* A minter: the yearly inflation and the yearly provisions, decimals.
Minters == [inflation : Nat, provisions : Nat]

\* MintKeeper::bonded_ratio.
BondedRatio(bonded, supply) == IF supply > 0 THEN DecDiv(bonded, supply) ELSE 0

\* Unsigned: a ratio above the goal cannot lower the inflation, it is an error.
CanInflate(ratio) ==
    GoalBonded > 0 /\ BlocksPerYear > 0 /\ DecDiv(ratio, GoalBonded) <= Unit

Clamp(x, low, high) ==
    LET capped == IF x > high THEN high ELSE x
    IN  IF capped < low THEN low ELSE capped

\* Minter::next_inflation_rate.
NextInflationRate(inflation, ratio) ==
    LET perYear == DecMul(Unit - DecDiv(ratio, GoalBonded), InflationRateChange)
    IN  Clamp(inflation + DecDiv(perYear, BlocksPerYear), InflationMin, InflationMax)

NextAnnualProvision(inflation, supply) == DecMul(inflation, supply)

\* Minter::block_provision, in whole coins.
BlockProvision(provisions) == DecDiv(provisions, BlocksPerYear) \div Unit

\* What begin_block stores, and what it mints.
NextMinter(m, bonded, supply) ==
    LET inflation == NextInflationRate(m.inflation, BondedRatio(bonded, supply))
    IN  [inflation |-> inflation, provisions |-> NextAnnualProvision(inflation, supply)]

MintedCoins(m) == DropZeros([d \in {MintDenom} |-> BlockProvision(m.provisions)])

-----------------------------------------------------------------------------
(* The queries; each has a command and a path over ABCI, and none is       *)
(* answered before the genesis has written a minter.                       *)

MintKinds == {"Params", "Inflation", "AnnualProvisions"}

MintParams ==
    [denom |-> MintDenom, rateChange |-> InflationRateChange, max |-> InflationMax,
     min |-> InflationMin, goal |-> GoalBonded, blocks |-> BlocksPerYear]

QueryInflation(m) == m.inflation
QueryAnnualProvisions(m) == m.provisions

MintQuery(m, kind) ==
    [kind |-> kind,
     answer |-> CASE kind = "Params" -> MintParams
                  [] kind = "Inflation" -> QueryInflation(m)
                  [] kind = "AnnualProvisions" -> QueryAnnualProvisions(m)]

MintPaths == MintKinds
MintCommands == MintKinds
=============================================================================
