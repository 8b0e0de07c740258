----------------------------- MODULE MCStaking -----------------------------
(***************************************************************************)
(* Instance of Staking: two operators and a third account, from five       *)
(* genesis states.  One is empty; one is exported from a chain on which    *)
(* the tokens and the shares of a validator are no longer one to one, one  *)
(* of them with unbonding delegations and a redelegation under way; one    *)
(* has genesis transactions; the last has both, and is refused.            *)
(***************************************************************************)
EXTENDS StakingQueries

MCAccounts == {1, 2, 3}
MCValidators == {1, 2}

Fresh ==
    [exported |-> FALSE, total |-> 0, val |-> [v \in MCValidators |-> NoValidator],
     last |-> [v \in MCValidators |-> 0],
     del |-> [p \in MCAccounts \X MCValidators |-> 0],
     bal |-> [a \in MCAccounts |-> 2], unbondingTime |-> 2,
     ubds |-> <<>>, reds |-> <<>>, gentxs |-> <<>>]

Exported ==
    [Fresh EXCEPT
       !.exported = TRUE,
       !.val[1] = [jailed |-> FALSE, status |-> "Bonded", tokens |-> 3, shares |-> 4,
                   ubTime |-> 0, ubHeight |-> 0, minSelf |-> 1,
                   rate |-> 0, maxRate |-> 2, maxChange |-> 1, rateTime |-> 0],
       !.last[1] = 3, !.total = 3,
       !.del[<<1, 1>>] = 3, !.del[<<3, 1>>] = 1,
       !.bal = [a \in MCAccounts |-> 2]]

\* Entries of a delegator, of which the second matures a block later, and a
\* redelegation to the validator that is bonded.
Leaving ==
    [Exported EXCEPT
       !.ubds = <<[pair |-> <<3, 1>>, time |-> 1, balance |-> 1],
                  [pair |-> <<3, 1>>, time |-> 3, balance |-> 1]>>,
       !.reds = <<[triplet |-> <<3, 2, 1>>, time |-> 2]>>]

\* The second is accepted in a message, and cannot be decoded from the store.
MCCommissions ==
    {[rate |-> 0, maxRate |-> 1, maxChange |-> 0], [rate |-> 0, maxRate |-> 1, maxChange |-> 2]}

\* Two operators with genesis transactions, of which one will be bonded.
GenTx(v, n) == [validator |-> v, amount |-> n, minSelf |-> 1,
                commission |-> [rate |-> 0, maxRate |-> 1, maxChange |-> 0]]
WithGenTxs == [Fresh EXCEPT !.gentxs = <<GenTx(2, 1), GenTx(1, 2)>>]

\* The exported chain, with a genesis transaction of a validator that bonds.
Refused == [Exported EXCEPT !.gentxs = <<GenTx(2, 2)>>, !.last[1] = 1, !.total = 1,
                            !.val[1].tokens = 1]

MCGenesis == {Fresh, Exported, Leaving, WithGenTxs, Refused}
\* Those from which every entry comes from a message.
MCNoneLeaving == MCGenesis \ {Leaving}
=============================================================================
