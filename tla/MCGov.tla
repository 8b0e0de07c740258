------------------------------- MODULE MCGov -------------------------------
(***************************************************************************)
(* Instance of Gov: two validators, one delegator of both, two proposals   *)
(* in the genesis state (one for each period) and an identifier for a      *)
(* third.  Quarters are the smallest decimal, so that shares do not divide *)
(* evenly among the voters.  Two of the genesis states are refused.        *)
(***************************************************************************)
EXTENDS GovQueries, Time

MCDenom == 1..3
MCAccounts == {1, 2, 3}
MCValidators == {1, 2}
MCProposals == 1..3

Coin(d, n) == [e \in {d} |-> n]
MCAmounts == {Coin(1, 1), Coin(2, 1), Coin(3, 2), [d \in {2, 3} |-> 1]}

Deposit(p, a, c) == [proposal |-> p, depositor |-> a, amount |-> c]

Entry(o, w) == [option |-> o, weight |-> w]

State(deposits, escrow) ==
    [status |-> <<"deposit", "voting", "none">>, end |-> <<2, 3, 0>>, next |-> 3,
     deposits |-> deposits, escrow |-> escrow, votes |-> [k \in {<<2, 3>>} |-> <<Entry("no", 0)>>],
     total |-> <<Coin(1, 2), NoCoins, NoCoins>>,
     bal |-> [a \in MCAccounts |-> [d \in MCDenom |-> IF a = 1 THEN 3 ELSE 1]]]

MCGenesis == {State(<<Deposit(1, 1, Coin(1, 2))>>, Coin(1, 2)),
              State(<<Deposit(1, 1, Coin(1, 2))>>, Coin(1, 1)),
              State(<<Deposit(1, 1, Coin(1, 1)), Deposit(1, 2, Coin(1, 1))>>, Coin(1, 2))}

\* Shares in quarters; the second state has lost tokens to rounding, in the
\* third only one validator is bonded.
Shares(x, y, z) ==
    [k \in MCAccounts \X MCValidators |->
        CASE k = <<1, 1>> -> x [] k = <<2, 2>> -> y [] k[1] = 3 -> z [] OTHER -> 0]

MCStakings ==
    {[bonded |-> {1, 2}, tokens |-> <<3, 3>>, shares |-> Shares(8, 8, 4)],
     [bonded |-> {1, 2}, tokens |-> <<2, 3>>, shares |-> Shares(7, 9, 5)],
     [bonded |-> {2}, tokens |-> <<1, 5>>, shares |-> Shares(4, 12, 8)]}

MCBallots == {<<>>, <<Entry("yes", 0)>>, <<Entry("abstain", 0), Entry("no", 0)>>,
              <<Entry("veto", 4)>>}

ParamChange(key, value) == [space |-> "baseapp", key |-> key, value |-> value]
MCContents ==
    {[kind |-> "text", changes |-> <<>>],
     [kind |-> "params", changes |-> <<ParamChange("BlockParams", Plain("BlockParams"))>>],
     [kind |-> "params", changes |-> <<ParamChange("BlockParams", Plain("BlockParams")),
                                       ParamChange("MaxValidators", Plain("u32"))>>]}

MCMinSeconds == -3
=============================================================================
