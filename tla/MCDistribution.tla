--------------------------- MODULE MCDistribution ---------------------------
(***************************************************************************)
(* Instance of Distribution: one denomination, quarters as the smallest    *)
(* decimal, two validators of which one has two delegators.  The genesis   *)
(* states were exported at a height the new chain has not reached: one     *)
(* before any reward was withdrawn, one with tokens that do not divide.    *)
(***************************************************************************)
EXTENDS DistributionQueries

MCAccounts == {1, 2}
MCModules == {3}
MCValidators == {1, 2}
MCKnown == {1}
MCCommissionRate == [v \in MCValidators |-> 2]
MCDenom == {"uatom"}

Coin(n) == [d \in MCDenom |-> n]

Info(p, n) == [prev |-> p, stake |-> 4 * n, height |-> 9, stored |-> TRUE]

Store(outstanding, rewards, pool, module) ==
    [pool |-> Coin(pool), proposer |-> 1, first |-> 1,
     module |-> Coin(module), collector |-> NoCoins,
     bal |-> [a \in MCAccounts |-> IF a = 1 THEN Coin(8) ELSE Coin(1)],
     supply |-> Coin(module + 9 + 3), staked |-> Coin(3),
     outstanding |-> [v \in MCValidators |-> IF v = 1 THEN Coin(outstanding) ELSE NoCoins],
     commission |-> [v \in MCValidators |-> IF v = 1 THEN Coin(4) ELSE NoCoins],
     rewards |-> [v \in MCValidators |-> IF v = 1 THEN Coin(rewards) ELSE NoCoins],
     period |-> [v \in MCValidators |-> IF v = 1 THEN 2 ELSE 0],
     hist |-> [v \in MCValidators |->
                 IF v = 1 THEN [p \in {0, 1} |-> [ratio |-> Coin(4 + 4 * p), count |-> 1 + p]]
                 ELSE [p \in {} |-> 0]],
     info |-> [p \in MCAccounts \X MCValidators |->
                 CASE p = <<1, 1>> -> Info(1, 2) [] p = <<2, 1>> -> Info(0, 1) [] OTHER -> NoInfo],
     withdraw |-> [a \in MCAccounts |-> IF a = 1 THEN 2 ELSE NoAddr]]

MCStake == [p \in MCAccounts \X MCValidators |->
              CASE p = <<1, 1>> -> 2 [] p = <<2, 1>> -> 1 [] OTHER -> 0]

Start(s) == [st |-> s, stake |-> MCStake, minter |-> [inflation |-> 0, provisions |-> 0]]

MCGenesis == {Start(Store(40, 12, 4, 21)), Start(Store(41, 13, 5, 21))}

Vote(v, p, signed) == [validator |-> v, power |-> p, signed |-> signed]

MCVotes == {<<>>, <<Vote(1, 3, TRUE)>>, <<Vote(1, 3, FALSE)>>,
            <<Vote(1, 2, TRUE), Vote(2, 1, TRUE)>>}
MCAmounts == {Coin(1), Coin(8)}
=============================================================================
