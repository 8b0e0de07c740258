------------------------ MODULE DistributionQueries ------------------------
(***************************************************************************)
(* The queries of x/distribution, the messages of its command line, and    *)
(* the records of its store as they are read back.  What may be missing    *)
(* from an answer is a set of at most one element.  No slash event is ever *)
(* recorded: nobody calls the hook of the module.                          *)
(***************************************************************************)
EXTENDS Distribution

Kinds == {"ValidatorOutstandingRewards", "ValidatorCommission", "ValidatorSlashes",
          "DelegationRewards", "DelegatorTotalRewards", "DelegatorValidators",
          "CommunityPool", "Params"}

ValidatorRequests ==
    [kind : {"ValidatorOutstandingRewards", "ValidatorCommission"}, validator : Validators]
SlashesRequests ==
    [kind : {"ValidatorSlashes"}, validator : Validators, from : 0..MaxHeight, to : 0..MaxHeight]
DelegatorRequests ==
    [kind : {"DelegationRewards"}, delegator : Accounts, validator : Validators]
    \cup [kind : {"DelegatorTotalRewards", "DelegatorValidators"}, delegator : Accounts]
Requests == ValidatorRequests \cup SlashesRequests \cup DelegatorRequests
            \cup [kind : {"CommunityPool", "Params"}]

-----------------------------------------------------------------------------
(* The records.  A list of coins that is empty is never read back, nor is  *)
(* a count above the limit: the node takes its store for corrupt.          *)

Listable(c) == c = NoCoins \/ IsCoins(c)

PoolReadable(s) == Listable(s.pool)
OutstandingReadable(s, v) == Listable(s.outstanding[v])
CommissionReadable(s, v) == Listable(s.commission[v])
CurrentReadable(s, v) == Listable(s.rewards[v])
HistoricalReadable(s, v) ==
    \A p \in DOMAIN s.hist[v] : IsCoins(s.hist[v][p].ratio) /\ s.hist[v][p].count <= UpperLimit

-----------------------------------------------------------------------------
(* What the keeper answers.                                                *)

Present(c) == {c} \ {NoCoins}

QueryOutstanding(s, v) == Present(s.outstanding[v])
QueryCommission(s, v) == Present(s.commission[v])
QueryPool(s) == Present(s.pool)

\* The delegations of the staking module.
QueryDelegatorValidators(d) == {v \in Validators : stake[<<d, v>>] > 0}

\* The iterator looks past the last height once the events have run out.
SlashesPanics(s, v) == TRUE

\* As if the current period had ended, although no record exists for it:
\* NoCoins where the delegation started at the height of the query.
RewardsSoFar(s, d, v) ==
    IF ~s.info[<<d, v>>].stored THEN {}
    ELSE IF s.info[<<d, v>>].height = height THEN {NoCoins}
    ELSE RewardsUntil(s, d, v, s.period[v])

SoFarPanics(s, d, v) ==
    /\ s.rewards[v] # NoCoins /\ v \in Known /\ stake[<<d, v>>] > 0
    /\ s.info[<<d, v>>].stored
    /\ PanicsUntil(s, d, v, s.period[v])

\* Without current rewards the answer is empty; an unknown validator or
\* delegation is an error.
QueryDelegationRewards(s, d, v) ==
    IF s.rewards[v] = NoCoins THEN {NoCoins}
    ELSE IF v \notin Known \/ stake[<<d, v>>] = 0 THEN {}
    ELSE RewardsSoFar(s, d, v)

\* What fails for one validator is left out of the answer.
RewardsByValidator(s, d) ==
    UNION {{[validator |-> v, reward |-> c] : c \in RewardsSoFar(s, d, v) \ {NoCoins}} :
        v \in {w \in QueryDelegatorValidators(d) : w \in Known /\ s.rewards[w] # NoCoins}}

QueryDelegatorTotalRewards(s, d) ==
    LET rewards == RewardsByValidator(s, d)
    IN  [rewards |-> rewards,
         total |-> FoldSet(LAMBDA r, c : Plus(c, r.reward), NoCoins, rewards)]

QueryPanics(s, q) ==
    \/ q.kind = "ValidatorSlashes" /\ SlashesPanics(s, q.validator)
    \/ q.kind = "DelegationRewards" /\ SoFarPanics(s, q.delegator, q.validator)
    \/ q.kind = "DelegatorTotalRewards" /\ \E v \in Validators : SoFarPanics(s, q.delegator, v)

-----------------------------------------------------------------------------
(* The ways in.                                                            *)

\* The last part of the path of each kind over ABCI; that of the total is not
\* the one other chains use.
QueryPath(kind) ==
    IF kind = "DelegatorTotalRewards" THEN "QueryDelegatorTotalRewards" ELSE kind
AbciPaths == {QueryPath(k) : k \in Kinds}

TypedKinds == Kinds \ {"DelegationRewards", "DelegatorValidators"}

\* The pool and the parameters have a route that answers with constants, and
\* one, "current", with what is stored.
RestRoutes ==
    {"delegators/rewards", "validators/commission", "validators/outstanding_rewards",
     "validators/slashes", "community_pool", "community_pool/current", "params", "params/current"}
RestConstant(route) == route \in {"community_pool", "params"}

CliQueries == Kinds \ {"DelegatorTotalRewards", "DelegatorValidators"}

\* The messages, and whose signature each needs.
DistributionMessages ==
    [kind : {"WithdrawRewards"}, by : Accounts, validator : Validators, commission : BOOLEAN]
    \cup [kind : {"SetWithdrawAddr"}, by : Accounts, address : Payees]
    \cup [kind : {"FundCommunityPool"}, by : Accounts, amount : Amounts]

\* Those of the commands for the account that signs: one coin to the pool.
\* All rewards: one message for each validator the node names, an error when
\* there is none.
CliMessages(from) ==
    {m \in DistributionMessages : /\ m.by = from
                                  /\ m.kind = "FundCommunityPool" => Cardinality(DOMAIN m.amount) = 1}
CliWithdrawAll(from) ==
    {[kind |-> "WithdrawRewards", by |-> from, validator |-> v, commission |-> FALSE] :
        v \in QueryDelegatorValidators(from)}

\* Every command is answered on the path it uses.
ASSUME DistributionRoutesAssumption ==
    /\ {q.kind : q \in Requests} = Kinds
    /\ {QueryPath(k) : k \in CliQueries} \subseteq AbciPaths
    /\ \E r \in RestRoutes : RestConstant(r)
    /\ \A a \in Accounts : CliMessages(a) \subseteq DistributionMessages /\ CliMessages(a) # {}
    /\ \A g \in Genesis, k \in MintKinds : k \in MintPaths /\ MintQuery(g.minter, k).kind = k

-----------------------------------------------------------------------------
(* Properties.                                                             *)

SumAnswers(S, d) == Total([c \in S |-> AmountOf(c, d)], S)

\* What the module holds beyond what it says it owes to validators, delegators
\* and the community pool.
Surplus(s, d) ==
    Whole(AmountOf(s.module, d)) - SumAnswers(QueryPool(s), d)
      - Total([v \in Validators |-> SumAnswers(QueryOutstanding(s, v), d)], Validators)

\* No allocation, withdrawal or rounding moves the balance of the module away
\* from what it owes (the bookkeeping of allocate_tokens, of the withdrawals,
\* whatever their address, and of the community pool), as the queries tell it:
\* the genesis decides of the difference, and after it only what somebody sends
\* to the address of the module adds to it, coin by coin.
SurplusGrows(d, n) == Surplus(st, d)' = Surplus(st, d) + n
Conserved ==
    [][\/ \A d \in Denom : SurplusGrows(d, 0)
       \/ \E a \in Accounts, c \in Amounts :
             MsgSendToModule(a, c) /\ \A d \in Denom : SurplusGrows(d, Whole(AmountOf(c, d)))]_vars

\* What needs the record of a period: the delegations that start there, and
\* the current period after it.
Started(s, v, p) ==
    Cardinality({d \in Accounts : s.info[<<d, v>>].stored /\ s.info[<<d, v>>].prev = p})
CurrentAfter(s, v, p) == IF s.rewards[v] # NoCoins /\ p + 1 = s.period[v] THEN 1 ELSE 0

Counted(s, v) ==
    /\ \A p \in DOMAIN s.hist[v] :
          /\ s.hist[v][p].count = Started(s, v, p) + CurrentAfter(s, v, p)
          /\ s.hist[v][p].count > 0
    /\ \A d \in Accounts : s.info[<<d, v>>].stored => s.info[<<d, v>>].prev \in DOMAIN s.hist[v]

Readable(s, v) ==
    /\ PoolReadable(s) /\ OutstandingReadable(s, v) /\ CommissionReadable(s, v)
    /\ CurrentReadable(s, v) /\ HistoricalReadable(s, v)

\* Records are of periods that have ended; a validator that never had rewards
\* has none for the last of them.
Ended(s, v) ==
    /\ DOMAIN s.hist[v] \subseteq 0 .. s.period[v] - 1
    /\ s.rewards[v] = NoCoins => s.period[v] - 1 \notin DOMAIN s.hist[v]

\* Of a genesis, which another chain has exported.
ASSUME ExportAssumption ==
    \A g \in Genesis :
        /\ Listable(g.st.collector)
        /\ \A v \in Validators :
              /\ Counted(g.st, v) /\ Readable(g.st, v) /\ Ended(g.st, v)
              /\ g.st.rewards[v] = NoCoins => g.st.period[v] = 0

\* "The reference count indicates the number of objects which might need to
\* reference this historical entry at any point": the delegations that start
\* there and the current period; a record without any is gone, one that is
\* left can be read back, and none exists for a period that has not ended, so
\* that the queries for rewards (query_delegation_rewards) find none.
RefCounts ==
    \A v \in Validators :
        /\ Counted(st, v) /\ Readable(st, v)
        /\ \A d \in Accounts :
              /\ QueryDelegationRewards(st, d, v) \subseteq {NoCoins}
              /\ QueryDelegatorTotalRewards(st, d).rewards = {}
=============================================================================
