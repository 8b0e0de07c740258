------------------------------- MODULE MCAnte -------------------------------
(***************************************************************************)
(* Two users, the second without an account at first, three modules, and   *)
(* two denominations of which only x may be sent.                          *)
(***************************************************************************)
EXTENDS BankQueries, AnteChecks, TLC

CONSTANTS a, b, fees, pool, mint, x, y

MCPermissions == (fees :> {}) @@ (pool :> {"burner", "staking"}) @@ (mint :> {"minter"})

Amount(n, k) == (x :> n) @@ (y :> k)

MCCoins == {Amount(1, 0), Amount(0, 1)}

MCFees == {None, Amount(1, 0)}

MCOrder == <<x, y>>

MCBalances == <<[addr |-> a, coins |-> Amount(2, 1)], [addr |-> fees, coins |-> Amount(0, 1)]>>

Meta(d, n) == [base |-> d, name |-> n]

MCMetadata == [base : Denom, name : {"X", "Y"}]

MCGenesisFile == <<Meta(x, "X")>>

MCAdded ==
    {<<>>, <<Meta(y, "Y")>>, <<Meta(x, "X")>>, <<Meta(y, "Y"), Meta(y, "Y")>>,
     <<Meta(x, "Y"), Meta(y, "Y")>>, <<Meta(y, "X"), Meta(x, "Y")>>}
=============================================================================
