---------------------------- MODULE Distribution ----------------------------
(***************************************************************************)
(* x/distribution: the fees of a block, and what x/mint adds to them, are  *)
(* shared at the beginning of the next block among the proposer, the       *)
(* validators that voted and the community pool; delegators and validators *)
(* withdraw their part.                                                    *)
(*                                                                         *)
(* A keeper method yields the set of stores it may leave: one store, or    *)
(* none when it returns an error.  An error of a message undoes the        *)
(* transaction; an error of begin_block is a panic, as are the failed      *)
(* assertions of the computation of rewards: the node halts.               *)
(*                                                                         *)
(* Coins that may be absent from the store are NoCoins when they are.      *)
(***************************************************************************)
EXTENDS Mint, Sequences, SequencesExt, Sums

CONSTANTS
    Accounts,            \* addresses of users
    Modules,             \* addresses of modules, that of this one among them
    Validators,          \* the ones that may operate a validator
    Known,               \* the validators the staking keeper has
    CommissionRate,      \* of each validator, a decimal
    CommunityTax, BaseProposerReward, BonusProposerReward,  \* the parameters
    Genesis,             \* genesis states to start from
    Votes,               \* last_commit_info.votes of a block
    Bonded,              \* answers of total_bonded_tokens
    Stakes,              \* whole tokens a delegation may come to be worth
    Amounts,             \* coins of messages and fees
    NoAddr,
    MaxHeight, MaxMsgs   \* bounds of the model

ASSUME DistributionAssumption ==
    /\ IsFiniteSet(Accounts) /\ Validators \subseteq Accounts /\ Known \subseteq Validators
    /\ CommissionRate \in [Validators -> Nat]
    /\ {CommunityTax, BaseProposerReward, BonusProposerReward} \subseteq Nat
    /\ \A g \in Genesis : g.minter \in Minters
    /\ Bonded \subseteq Nat /\ Stakes \subseteq Nat
    /\ \A c \in Amounts : IsCoinList(c) /\ IsCoins(c)
    /\ \A votes \in Votes : votes \in Seq([validator : Accounts, power : Nat, signed : BOOLEAN])
    /\ NoAddr \notin Accounts \cup Modules /\ Accounts \cap Modules = {}
    /\ MaxHeight \in Nat /\ MaxMsgs \in Nat

\* What a withdraw address may be: any address.
Payees == Accounts \cup Modules

AreCoinLists(f, S) == f = [x \in S |-> f[x]] /\ \A x \in S : IsCoinList(f[x])

HistoryTypeOK(h) ==
    /\ h = [p \in DOMAIN h |-> h[p]] /\ DOMAIN h \subseteq Nat
    /\ \A p \in DOMAIN h : /\ h[p] = [ratio |-> h[p].ratio, count |-> h[p].count]
                           /\ IsCoinList(h[p].ratio) /\ h[p].count \in Int

\* The store of the module, with the accounts it pays from and to.
StoreTypeOK(s) ==
    /\ s = [pool |-> s.pool, module |-> s.module, collector |-> s.collector,
            supply |-> s.supply, staked |-> s.staked, bal |-> s.bal,
            proposer |-> s.proposer, first |-> s.first, outstanding |-> s.outstanding,
            commission |-> s.commission, rewards |-> s.rewards, period |-> s.period,
            hist |-> s.hist, info |-> s.info, withdraw |-> s.withdraw]
    /\ IsCoinList(s.pool) /\ IsCoinList(s.module) /\ IsCoinList(s.collector)
    /\ IsCoinList(s.supply) /\ IsCoinList(s.staked) /\ AreCoinLists(s.bal, Accounts)
    /\ AreCoinLists(s.outstanding, Validators) /\ AreCoinLists(s.commission, Validators)
    /\ AreCoinLists(s.rewards, Validators) /\ {s.proposer, s.first} \subseteq Validators
    /\ s.period \in [Validators -> Nat]
    /\ s.hist = [v \in Validators |-> s.hist[v]]
    /\ \A v \in Validators : HistoryTypeOK(s.hist[v])
    /\ s.info \in [Accounts \X Validators ->
                    [prev : Int, stake : Nat, height : Int, stored : BOOLEAN]]
    /\ s.withdraw \in [Accounts -> Payees \cup {NoAddr}]

\* The coins of every denomination in a store are those of its supply: held by
\* an account, by a module, or staked.
SumCoins(f, S, d) == Total([x \in S |-> AmountOf(f[x], d)], S)
HeldIsSupply(s) ==
    \A d \in Denom :
        AmountOf(s.supply, d) = AmountOf(s.collector, d) + AmountOf(s.module, d)
                                + SumCoins(s.bal, Accounts, d) + AmountOf(s.staked, d)

\* Of a genesis: the bank computes the supply from the balances.
ASSUME GenesisAssumption ==
    \A g \in Genesis :
        /\ StoreTypeOK(g.st) /\ g.stake \in [Accounts \X Validators -> Nat]
        /\ HeldIsSupply(g.st)

VARIABLES
    st,      \* the store of the module, and the balances it moves
    stake,   \* what every delegation is worth, in the staking module
    minter,
    height,
    phase,   \* the next handler of the block
    msgs,    \* messages and changes of stake so far, bounded by MaxMsgs
    halted   \* the node has panicked

vars == <<st, stake, minter, height, phase, msgs, halted>>

NoInfo == [prev |-> 0, stake |-> 0, height |-> 0, stored |-> FALSE]
UpperLimit == 2  \* ValidatorHistoricalRewardsReferenceCount

Tokens(v) == Total([d \in Accounts |-> stake[<<d, v>>]], Accounts)

-----------------------------------------------------------------------------
(* Historical rewards and their reference counts (keeper/validator.rs).    *)

IncrementReferenceCount(s, v, p) ==
    IF p \in DOMAIN s.hist[v] /\ s.hist[v][p].count < UpperLimit
    THEN {[s EXCEPT !.hist[v][p].count = @ + 1]} ELSE {}

\* Mutated form of DecrementReferenceCount: nothing is ever deleted.
DecrementReferenceKeep(s, v, p) ==
    IF p \notin DOMAIN s.hist[v] THEN {}
    ELSE {[s EXCEPT !.hist[v][p].count = IF @ > 1 THEN @ - 1 ELSE @]}

\* Deletes the record with its last reference.
DecrementReferenceCount(s, v, p) ==
    IF p \notin DOMAIN s.hist[v] THEN {}
    ELSE IF s.hist[v][p].count = 1
         THEN {[s EXCEPT !.hist[v] = Restrict(@, DOMAIN @ \ {p})]}
         ELSE {[s EXCEPT !.hist[v][p].count = @ - 1]}

\* A validator without tokens leaves its rewards to the community pool, if there
\* is one.  (Out of reach as long as only a delegation that is worth something
\* is withdrawn from, see MsgWithdrawReward: the staking module removes those of
\* no worth, and never takes the last token of a validator that has another.)
RewardsToPool(s, v) ==
    IF s.pool # NoCoins /\ CanMinus(s.outstanding[v], s.rewards[v])
    THEN {[s EXCEPT !.pool = Plus(@, s.rewards[v]),
                    !.outstanding[v] = Minus(@, s.rewards[v])]}
    ELSE {}

PeriodRatio(s, v) == QuoTruncate(s.rewards[v], Whole(Tokens(v)))

\* The first part of increment_validator_period: the ratio can be computed, or
\* the rewards are left to the pool.
Funded(s, v) ==
    IF Tokens(v) = 0 THEN RewardsToPool(s, v)
    ELSE IF IsCoins(PeriodRatio(s, v)) THEN {s} ELSE {}

\* increment_validator_period.  The current rewards are not emptied.
IncrementValidatorPeriod(s, v) ==
    LET p       == s.period[v]
        current == IF Tokens(v) = 0 THEN NoCoins ELSE PeriodRatio(s, v)
        End(t)  ==
            LET record == [ratio |-> Plus(s.hist[v][p - 1].ratio, current), count |-> 1]
            IN  [t EXCEPT !.hist[v] = [q \in DOMAIN @ \cup {p} |-> IF q = p THEN record ELSE @[q]],
                            !.period[v] = p + 1]
    IN  IF s.rewards[v] = NoCoins \/ p - 1 \notin DOMAIN s.hist[v] THEN {}
        ELSE UNION {{End(u) : u \in DecrementReferenceCount(t, v, p - 1)} : t \in Funded(s, v)}

-----------------------------------------------------------------------------
(* Allocation of the fees (keeper/allocation.rs).                          *)

\* allocate_tokens_to_validator.  A first allocation starts at period 0, which is
\* what the period of a validator without current rewards is (ExportAssumption).
AllocateToValidator(s, v, tokens) ==
    LET commission == MulRound(tokens, CommissionRate[v])
    IN  IF ~IsCoins(commission) \/ ~CanMinus(tokens, commission) THEN {}
        ELSE {[s EXCEPT !.commission[v] = Plus(@, commission),
                        !.rewards[v] = Plus(@, Minus(tokens, commission)),
                        !.outstanding[v] = Plus(@, tokens)]}

PowerOf(votes, S) == Total([i \in S |-> votes[i].power], S)
Power(votes) == PowerOf(votes, DOMAIN votes)
SignedPower(votes) == PowerOf(votes, {i \in DOMAIN votes : votes[i].signed})

\* The whole of the fees is collected whatever happens to it afterwards.
Collect(s) ==
    [s EXCEPT !.module = Plus(@, s.collector), !.collector = NoCoins]

\* One vote: acc is a set of pairs of a store and of what remains of the fees.
AllocateVote(acc, vote, fee, total) ==
    LET fraction == Floor(DecDiv(Whole(vote.power), Whole(total)))
        reward   == MulTruncate(fee, fraction)
        Pay(a)   == {[st |-> t, left |-> Minus(a.left, reward)] :
                       t \in AllocateToValidator(a.st, vote.validator, reward)}
    IN  IF vote.validator \notin Known \/ ~IsCoins(reward) THEN {}
        ELSE UNION {Pay(a) : a \in {x \in acc : CanMinus(x.left, reward)}}

AllocateToProposer(s, fees, reward) ==
    IF s.proposer \notin Known THEN {[st |-> s, left |-> fees]}
    ELSE IF ~CanMinus(fees, reward) THEN {}
    ELSE {[st |-> t, left |-> Minus(fees, reward)] :
            t \in AllocateToValidator(s, s.proposer, reward)}

AllocateTokens(s, votes) ==
    LET fees     == ToDecimal(s.collector)
        c        == Collect(s)
        total    == Power(votes)
        fraction == DecDiv(Whole(SignedPower(votes)), Whole(total))
        proposer == BaseProposerReward + Floor(DecMul(BonusProposerReward, fraction))
        reward   == MulTruncate(fees, proposer)
        fee      == MulTruncate(fees, Unit - proposer - CommunityTax)
        paid[i \in 0 .. Len(votes)] ==
            IF i = 0 THEN AllocateToProposer(c, fees, reward)
            ELSE AllocateVote(paid[i - 1], votes[i], fee, total)
    IN  IF s.collector = NoCoins THEN {}
        ELSE IF total = 0 THEN {[c EXCEPT !.pool = Plus(@, fees)]}
        ELSE IF ~IsCoins(reward) \/ proposer + CommunityTax > Unit \/ ~IsCoins(fee) THEN {}
        ELSE {[a.st EXCEPT !.pool = Plus(@, a.left)] : a \in paid[Len(votes)]}

-----------------------------------------------------------------------------
(* Withdrawals (keeper/mod.rs, keeper/delegation.rs).                      *)

\* Mutated form of SendFromModule: the account is credited twice.
SendFromModuleTwice(s, a, c) ==
    IF a \notin Modules /\ IsAllGte(s.module, c)
    THEN {[s EXCEPT !.module = Minus(@, c), !.bal[a] = Plus(@, Plus(c, c))]} ELSE {}

\* Mutated form of SendFromModule: the addresses of modules are not blocked; what
\* the module pays itself changes no balance.
SendUnblocked(s, a, c) ==
    IF ~IsAllGte(s.module, c) THEN {}
    ELSE IF a \in Modules THEN {s}
    ELSE {[s EXCEPT !.module = Minus(@, c), !.bal[a] = Plus(@, c)]}

\* send_coins_from_module_to_account of the bank refuses the addresses of modules
\* (blocked_addr), so that no withdrawal is ever paid to one.
SendFromModule(s, a, c) ==
    IF a \notin Modules /\ IsAllGte(s.module, c)
    THEN {[s EXCEPT !.module = Minus(@, c), !.bal[a] = Plus(@, c)]} ELSE {}

\* The assertions of calculate_delegation_rewards up to the period end; the
\* iterator over the slash events of the heights passed indexes past its end.
PanicsUntil(s, d, v, end) ==
    LET info == s.info[<<d, v>>]
    IN  /\ info.height # height
        /\ \/ info.height < height
           \/ info.stake > Whole(stake[<<d, v>>]) + 3
           \/ info.prev > end

\* calculate_delegation_rewards up to the period end, in the store s; none when
\* the delegation started at this height or when it is an error.
RewardsUntil(s, d, v, end) ==
    LET info   == s.info[<<d, v>>]
        worth  == Whole(stake[<<d, v>>])
        staked == IF info.stake > worth THEN worth ELSE info.stake
        ratio  == Minus(s.hist[v][end].ratio, s.hist[v][info.prev].ratio)
    IN  IF /\ info.height # height
           /\ {info.prev, end} \subseteq DOMAIN s.hist[v]
           /\ CanMinus(s.hist[v][end].ratio, s.hist[v][info.prev].ratio)
        THEN {c \in {MulTruncate(ratio, staked)} : IsCoins(c)} ELSE {}

\* Both in a store whose last period has just ended.
RewardsPanic(s, d, v) == PanicsUntil(s, d, v, s.period[v] - 1)
DelegationRewards(s, d, v) == RewardsUntil(s, d, v, s.period[v] - 1)

\* What a delegation is paid, limited by what the validator has outstanding.
PayRewards(s, d, v, rewards) ==
    LET final == Truncated(rewards)
        paid  == IF final = NoCoins THEN {s}
                 ELSE IF s.withdraw[d] = NoAddr THEN {}
                 ELSE SendFromModule(s, s.withdraw[d], final)
    IN  IF ~IsCoins(rewards) \/ ~CanMinus(s.outstanding[v], rewards) \/ s.pool = NoCoins THEN {}
        ELSE {[t EXCEPT !.outstanding[v] = Minus(@, rewards),
                        !.pool = Plus(@, Change(rewards))] : t \in paid}

InitializeDelegation(s, d, v) ==
    LET prev == s.period[v] - 1
    IN  {[t EXCEPT !.info[<<d, v>>] =
            [prev |-> prev, stake |-> Whole(stake[<<d, v>>]),
             height |-> height, stored |-> TRUE]] :
           t \in IncrementReferenceCount(s, v, prev)}

\* delegation_withdraw_rewards once the period has ended, and the delegation
\* starts again.
WithdrawEnded(s, d, v) ==
    LET Paid(r)   == PayRewards(s, d, v, Intersect(r, s.outstanding[v]))
        paid      == UNION {Paid(r) : r \in DelegationRewards(s, d, v)}
        dropped   == UNION {DecrementReferenceCount(t, v, s.info[<<d, v>>].prev) : t \in paid}
    IN  UNION {InitializeDelegation([t EXCEPT !.info[<<d, v>>] = NoInfo], d, v) : t \in dropped}

WithdrawRewards(s, d, v) == UNION {WithdrawEnded(t, d, v) : t \in IncrementValidatorPeriod(s, v)}

\* withdraw_validator_commission.  Without change the commission stays as it is.
WithdrawCommission(s, v) ==
    LET whole == Truncated(s.commission[v])
        rest  == Change(s.commission[v])
        kept  == [s EXCEPT !.commission[v] = IF rest = NoCoins THEN @ ELSE rest]
        payee == IF s.withdraw[v] = NoAddr THEN v ELSE s.withdraw[v]
        taken == [kept EXCEPT !.outstanding[v] = Minus(@, ToDecimal(whole))]
    IN  IF s.commission[v] = NoCoins \/ s.outstanding[v] = NoCoins THEN {}
        ELSE IF whole = NoCoins THEN {kept}
        ELSE IF ~CanMinus(s.outstanding[v], ToDecimal(whole)) THEN {}
        ELSE SendFromModule(taken, payee, whole)

-----------------------------------------------------------------------------
(* The blocks.                                                             *)

\* What init_genesis accepts: it sums the first of the outstanding rewards with
\* itself, and compares the sum and the pool with the balance of the module.
GenesisAccepted(g) ==
    /\ IsCoins(g.pool) /\ IsCoins(g.outstanding[g.first])
    /\ Truncated(Plus(Plus(g.outstanding[g.first], g.outstanding[g.first]), g.pool)) = g.module

InitGenesis ==
    \E g \in {x \in Genesis : GenesisAccepted(x.st)} :
        /\ st = g.st
        /\ stake = g.stake
        /\ minter = g.minter
        /\ height = 1 /\ phase = "mint" /\ msgs = 0 /\ halted = FALSE

Panic == halted' = TRUE /\ UNCHANGED <<st, stake, minter, height, phase, msgs>>

\* x/mint begin_block.  The coins pass through the account of the module.
MintBeginBlock(bonded) ==
    LET supply == AmountOf(st.supply, StakingDenom)
        m      == NextMinter(minter, bonded, supply)
        minted == MintedCoins(m)
    IN  /\ ~halted /\ phase = "mint"
        /\ CanInflate(BondedRatio(bonded, supply))
        /\ minter' = m
        /\ st' = [st EXCEPT !.supply = Plus(@, minted), !.collector = Plus(@, minted)]
        /\ phase' = "distribute"
        /\ UNCHANGED <<stake, height, msgs, halted>>

\* "overflow while calculate inflation".
MintPanics(bonded) ==
    /\ ~halted /\ phase = "mint"
    /\ ~CanInflate(BondedRatio(bonded, AmountOf(st.supply, StakingDenom)))
    /\ Panic

\* x/distribution begin_block: shares the fees of the previous block.
BeginBlock(votes, proposer) ==
    /\ ~halted /\ phase = "distribute"
    /\ \E s \in IF height > 1 THEN AllocateTokens(st, votes) ELSE {st} :
          st' = [s EXCEPT !.proposer = proposer]
    /\ phase' = "deliver"
    /\ UNCHANGED <<stake, minter, height, msgs, halted>>

BeginBlockPanics(votes) ==
    /\ ~halted /\ phase = "distribute" /\ height > 1
    /\ AllocateTokens(st, votes) = {}
    /\ Panic

Deliver(results) ==
    /\ ~halted /\ phase = "deliver" /\ msgs < MaxMsgs
    /\ st' \in results
    /\ msgs' = msgs + 1
    /\ UNCHANGED <<stake, minter, height, phase, halted>>

\* withdraw_delegator_reward_and_commission.
MsgWithdrawReward(d, v, commission) ==
    /\ v \in Known /\ stake[<<d, v>>] > 0 /\ st.info[<<d, v>>].stored
    /\ LET rewarded == WithdrawRewards(st, d, v)
       IN  Deliver(IF commission THEN UNION {WithdrawCommission(t, v) : t \in rewarded}
                   ELSE rewarded)

\* The assertions, and the predecessor of period 0: it panics in a build with
\* overflow checks, and in one without them is a period that has no record, an
\* error.
MsgWithdrawPanics(d, v) ==
    /\ ~halted /\ phase = "deliver"
    /\ v \in Known /\ stake[<<d, v>>] > 0 /\ st.info[<<d, v>>].stored
    /\ \/ \E s \in IncrementValidatorPeriod(st, v) : RewardsPanic(s, d, v)
       \/ st.rewards[v] # NoCoins /\ Funded(st, v) # {} /\ st.period[v] = 0
    /\ Panic

\* Any address is stored: blocked_addrs of this keeper is never looked at.
MsgSetWithdrawAddr(d, a) == Deliver({[st EXCEPT !.withdraw[d] = a]})

MsgFundCommunityPool(d, c) ==
    Deliver(IF IsAllGte(st.bal[d], c)
            THEN {[st EXCEPT !.bal[d] = Minus(@, c), !.module = Plus(@, c),
                             !.pool = Plus(@, ToDecimal(c))]}
            ELSE {})

\* A transfer of x/bank to the address of this module: nothing is booked.
MsgSendToModule(d, c) ==
    Deliver(IF IsAllGte(st.bal[d], c)
            THEN {[st EXCEPT !.bal[d] = Minus(@, c), !.module = Plus(@, c)]}
            ELSE {})

\* The ante handler moves the fees of a transaction to the collector.
PayFees(d, c) ==
    Deliver(IF IsAllGte(st.bal[d], c)
            THEN {[st EXCEPT !.bal[d] = Minus(@, c), !.collector = Plus(@, c)]}
            ELSE {})

\* A delegation changes in x/staking.  The distribution module is not told.
StakeChanges(d, v, n) ==
    /\ ~halted /\ phase = "deliver" /\ msgs < MaxMsgs
    /\ stake[<<d, v>>] # n
    /\ msgs' = msgs + 1
    /\ stake' = [stake EXCEPT ![<<d, v>>] = n]
    /\ UNCHANGED <<st, minter, height, phase, halted>>

EndBlock ==
    /\ ~halted /\ phase = "deliver" /\ height < MaxHeight
    /\ height' = height + 1 /\ phase' = "mint"
    /\ UNCHANGED <<st, stake, minter, msgs, halted>>

Next ==
    \/ \E b \in Bonded : MintBeginBlock(b) \/ MintPanics(b)
    \/ \E votes \in Votes, p \in Validators : BeginBlock(votes, p)
    \/ \E votes \in Votes : BeginBlockPanics(votes)
    \/ \E d \in Accounts, v \in Validators :
          \/ \E commission \in BOOLEAN : MsgWithdrawReward(d, v, commission)
          \/ MsgWithdrawPanics(d, v)
          \/ \E n \in Stakes : StakeChanges(d, v, n)
    \/ \E d \in Accounts, a \in Payees : MsgSetWithdrawAddr(d, a)
    \/ \E d \in Accounts, c \in Amounts :
          MsgFundCommunityPool(d, c) \/ MsgSendToModule(d, c) \/ PayFees(d, c)
    \/ EndBlock

Spec == InitGenesis /\ [][Next]_vars

-----------------------------------------------------------------------------
(* Properties.                                                             *)

\* Minting and sharing neither lose nor create coins that the supply does not
\* count: every coin is held by an account, by a module, or staked.
SupplyHeld == HeldIsSupply(st)
=============================================================================
