------------------------------ MODULE Staking ------------------------------
(***************************************************************************)
(* x/staking: validators, delegations, unbonding delegations and           *)
(* redelegations with their queues, the two token pools, the power index   *)
(* and the validator set handed to Tendermint at the end of every block.   *)
(*                                                                         *)
(* The store of the module, with the balances it moves, is one record      *)
(* `st`; a keeper method is an operator from a store to a store.  A method *)
(* that panics sets `halted`: the node stops and nothing more happens.     *)
(*                                                                         *)
(* Decimals (Decimal256) are integers scaled by Dec and rounded down.      *)
(***************************************************************************)
EXTENDS Integers, Sequences, FiniteSets, Functions, SequencesExt, Sums

CONSTANTS
    Accounts,           \* addresses, ordered: numbers
    Validators,         \* the ones that may operate a validator
    Dec,                \* scale of decimals
    PowerReduction,     \* tokens per unit of consensus power
    MaxValidators,      \* StakingParams.max_validators
    MaxEntries,         \* StakingParams.max_entries
    HistoricalEntries,  \* StakingParams.historical_entries
    UnbondingTimes,     \* values governance gives to unbonding_time
    Genesis,            \* genesis states to start from
    Amounts,            \* amounts of messages
    MinSelf,            \* values of min_self_delegation
    Commissions,        \* rates of new validators, as messages give them
    Rates,              \* rates asked for by the editing of a validator
    Day,                \* 24 hours
    Ticks,              \* units of time in a second
    MaxHeight, MaxTime, MaxMsgs  \* bounds of the model

ASSUME StakingAssumption ==
    /\ Accounts \subseteq Nat /\ Validators \subseteq Accounts
    /\ IsFiniteSet(Accounts)
    /\ Dec \in Nat \ {0} /\ PowerReduction \in Nat \ {0}
    /\ Amounts \subseteq Nat \ {0} /\ MinSelf \subseteq Nat
    /\ Commissions \subseteq [rate : Nat, maxRate : Nat, maxChange : Nat]
    /\ UnbondingTimes \subseteq Nat /\ IsFiniteSet(UnbondingTimes)
    /\ MaxValidators \in Nat /\ MaxEntries \in Nat /\ HistoricalEntries \in Nat
    /\ Rates \subseteq Nat /\ Day \in Nat /\ Ticks \in Nat \ {0}
    /\ MaxHeight \in Nat /\ MaxTime \in Nat /\ MaxMsgs \in Nat

VARIABLES
    st,     \* the store of the module and the balances
    tm,     \* the validator set as Tendermint has it, from the updates
    header, \* time and height of the block
    phase,  \* "deliver" in a block, "commit" between blocks
    msgs    \* messages accepted so far, bounded by MaxMsgs

vars == <<st, tm, header, phase, msgs>>

\* StakingParams::new: what a genesis file may set.
ValidParams(unbondingTime) ==
    unbondingTime >= 0 /\ MaxValidators > 0 /\ MaxEntries > 0 /\ HistoricalEntries >= 0

\* CommissionRates::validate.
ValidRates(c) == c.maxRate <= Dec /\ c.rate <= c.maxRate /\ c.maxChange <= c.maxRate

\* Timestamp::format_bytes_rounded, in the keys of all the queues: the second
\* that is nearest, the later one of two.  The entries keep the exact time.
Slot(t) == (2 * t + Ticks) \div (2 * Ticks)
Horizon == MaxTime + Max(UnbondingTimes)
Slots == 0..Slot(Horizon)

\* What is kept by delegator and validator, or by delegator and two of them.
DvPairs == Accounts \X Validators
DvvTriplets == Accounts \X Validators \X Validators

(***************************************************************************)
(* The messages, as they are decoded.  A validator is created by its       *)
(* operator, who is its first delegator.  The fields of an edit that are   *)
(* optional are sets of at most one value.                                 *)
(***************************************************************************)
AtMostOne(S) == {{}} \cup {{x} : x \in S}
TheOne(S) == CHOOSE x \in S : TRUE

CreateValidatorMsgs ==
    [validator : Validators, amount : Amounts, minSelf : MinSelf, commission : Commissions]
EditValidatorMsgs ==
    {m \in [validator : Validators, rate : AtMostOne(Rates), minSelf : AtMostOne(MinSelf)] :
        m.rate \cup m.minSelf # {}}
DelegateMsgs == [delegator : Accounts, validator : Validators, amount : Amounts]
UndelegateMsgs == [delegator : Accounts, validator : Validators, amount : Amounts]
RedelegateMsgs ==
    [delegator : Accounts, src : Validators, dst : Validators, amount : Amounts]

Statuses == {"Unbonded", "Unbonding", "Bonded", "Absent"}

(***************************************************************************)
(* A stored validator; its shares are a decimal.  "Absent" is the status   *)
(* of an operator without one.                                             *)
(***************************************************************************)
ValidatorRecords ==
    [jailed : BOOLEAN, status : Statuses, tokens : Nat, shares : Nat,
     ubTime : Nat, ubHeight : Nat, minSelf : Nat,
     rate : Nat, maxRate : Nat, maxChange : Nat, rateTime : Nat]

NoValidator ==
    [jailed |-> FALSE, status |-> "Absent", tokens |-> 0, shares |-> 0,
     ubTime |-> 0, ubHeight |-> 0, minSelf |-> 0,
     rate |-> 0, maxRate |-> 0, maxChange |-> 0, rateTime |-> 0]

\* A stored validator is decoded only if its commission is valid.
Decodable(w) == ValidRates(w)

\* Validators::validate_validators.
ValidValidator(w) ==
    /\ ~(w.jailed /\ w.status = "Bonded")
    /\ w.status \in {"Bonded", "Unbonded"} => w.shares > 0

DelegationShares == [DvPairs -> Nat]

\* What a genesis file may say.  The genesis transactions are those that
\* gentx has written, collect_txs has accepted and gen_app_state has kept: one
\* message each, of an account that has the coins, and none twice.
GenTxAccepted(m, bal) == bal[m.validator] >= m.amount /\ ValidRates(m.commission)
CollectedTxs(txs, bal) == \A i \in DOMAIN txs : bal[txs[i].validator] >= txs[i].amount
GenAppTxs(txs) == IsInjective(txs)

ASSUME GenesisAssumption ==
    /\ \A t \in UnbondingTimes : ValidParams(t)
    /\ \A g \in Genesis :
          /\ g.val \in [Validators -> ValidatorRecords] /\ g.del \in DelegationShares
          /\ \A v \in Validators : /\ Decodable(g.val[v])
                                   /\ g.val[v].status # "Absent" => ValidValidator(g.val[v])
          /\ g.unbondingTime \in UnbondingTimes
          /\ g.ubds \in Seq([pair : DvPairs, time : 0..Horizon, balance : Nat])
          /\ g.reds \in Seq([triplet : DvvTriplets, time : 0..Horizon])
          /\ g.gentxs \in Seq(CreateValidatorMsgs) /\ GenAppTxs(g.gentxs)
          /\ CollectedTxs(g.gentxs, g.bal)
          /\ \A i \in DOMAIN g.gentxs : GenTxAccepted(g.gentxs[i], g.bal)

\* An entry of an unbonding delegation.  `paid` is history: it has been paid.
UnbondingEntry(t, amt) == [time |-> t, balance |-> amt, paid |-> FALSE]

Exists(s, v) == s.val[v].status # "Absent"

\* The validators that are bonded, or those that are not.
WithStatus(s, bonded) ==
    {v \in Validators : Exists(s, v) /\ (s.val[v].status = "Bonded") = bonded}

(***************************************************************************)
(* types/validator.rs: shares and tokens.                                  *)
(***************************************************************************)
SharesFromTokens(w, amt) == (w.shares * amt) \div w.tokens
TokensFromShares(w, sh) == (sh * w.tokens) \div w.shares
InvalidExRate(w) == w.tokens = 0 /\ w.shares > 0
ConsensusPower(w) == w.tokens \div PowerReduction

IssuedShares(w, amt) == IF w.shares = 0 THEN amt * Dec ELSE SharesFromTokens(w, amt)
AddTokensFromDel(w, amt) ==
    [w EXCEPT !.tokens = @ + amt, !.shares = @ + IssuedShares(w, amt)]

\* The last share takes the trimmings, the others leave fractions behind.
ReleasedTokens(w, sh) == IF w.shares = sh THEN w.tokens ELSE TokensFromShares(w, sh)
\* Mutated form of RemoveDelShares: it takes the shares of the rounded tokens.
RemoveDelSharesRounded(w, sh) ==
    [w EXCEPT !.tokens = @ - ReleasedTokens(w, sh),
              !.shares = @ - SharesFromTokens(w, ReleasedTokens(w, sh))]
RemoveDelShares(w, sh) ==
    [w EXCEPT !.tokens = @ - ReleasedTokens(w, sh), !.shares = @ - sh]

\* new_with_defaults and set_initial_commission: the rates of the message are
\* taken as they are.
NewValidator(minSelf, c, now) ==
    [NoValidator EXCEPT !.status = "Unbonded", !.minSelf = minSelf,
                        !.rate = c.rate, !.maxRate = c.maxRate, !.maxChange = c.maxChange,
                        !.rateTime = now]

\* create_updated_validator_commission: CommissionRates::validate of the new
\* rate under the old maximum, and new_checked of the time.  By how much the
\* rate changes is not compared with max_change_rate.
RateAccepted(w, r, now) ==
    ValidRates([w EXCEPT !.rate = r]) /\ now - w.rateTime >= Day
WithRate(w, r, now) == [w EXCEPT !.rate = r, !.rateTime = now]

\* What an edit sets, of the fields that it gives.
Edited(w, m, now) ==
    LET rated == IF m.rate = {} THEN w ELSE WithRate(w, TheOne(m.rate), now)
    IN  IF m.minSelf = {} THEN rated ELSE [rated EXCEPT !.minSelf = TheOne(m.minSelf)]

(***************************************************************************)
(* The power index: keys <<power, operator>>.  It is read backwards, the   *)
(* address is stored inverted: more power first, then the lower address.   *)
(***************************************************************************)
PowerKey(v, w) == <<ConsensusPower(w), v>>
Above(j, k) == j[1] > k[1] \/ (j[1] = k[1] /\ j[2] < k[2])

\* Mutated form of Reindex: the key of the new power is deleted.
ReindexStale(s, v, w) ==
    [s EXCEPT !.index = (@ \ {PowerKey(v, w)})
                        \cup (IF w.jailed THEN {} ELSE {PowerKey(v, w)}),
              !.val[v] = w]
\* delete_validator_by_power_index of what was stored; set_validator;
\* set_validator_by_power_index, which leaves jailed validators out.
Reindex(s, v, w) ==
    [s EXCEPT !.index = (@ \ {PowerKey(v, s.val[v])})
                        \cup (IF w.jailed THEN {} ELSE {PowerKey(v, w)}),
              !.val[v] = w]

JailValidator(s, v) ==
    [s EXCEPT !.val[v].jailed = TRUE, !.index = @ \ {PowerKey(v, s.val[v])}]

\* The key that is deleted is not the key under which validators are stored:
\* the record stays.
RemoveValidator(s, v) == s

(***************************************************************************)
(* The pools.  A transfer of nothing, or of more than the pool has, is an  *)
(* unwrapped error.                                                        *)
(***************************************************************************)
NotBondedTokensToBonded(s, amt) ==
    IF amt > 0 /\ s.notBonded >= amt
    THEN [s EXCEPT !.notBonded = @ - amt, !.bonded = @ + amt]
    ELSE [s EXCEPT !.halted = TRUE]

BondedTokensToNotBonded(s, amt) ==
    IF amt > 0 /\ s.bonded >= amt
    THEN [s EXCEPT !.bonded = @ - amt, !.notBonded = @ + amt]
    ELSE [s EXCEPT !.halted = TRUE]

\* delegate_coins_from_account_to_module, to the pool of the validator.
FromAccount(s, d, v, amt) ==
    IF s.val[v].status = "Bonded"
    THEN [s EXCEPT !.bal[d] = @ - amt, !.bonded = @ + amt]
    ELSE [s EXCEPT !.bal[d] = @ - amt, !.notBonded = @ + amt]

\* Tokens of a redelegation, which come from a validator with status src.
\* Mutated form of BetweenPools: the pools are not adjusted.
BetweenPoolsNever(s, src, v, amt) == s
BetweenPools(s, src, v, amt) ==
    CASE src # "Bonded" /\ s.val[v].status = "Bonded" -> NotBondedTokensToBonded(s, amt)
      [] src = "Bonded" /\ s.val[v].status # "Bonded" -> BondedTokensToNotBonded(s, amt)
      [] OTHER -> s

(***************************************************************************)
(* Delegating, after the tokens were moved.                                *)
(***************************************************************************)
AddDelegation(s, d, v, amt) ==
    [Reindex(s, v, AddTokensFromDel(s.val[v], amt))
        EXCEPT !.del[<<d, v>>] = @ + IssuedShares(s.val[v], amt)]

Delegate(s, d, v, amt) == AddDelegation(FromAccount(s, d, v, amt), d, v, amt)
Redelegate(s, src, d, v, amt) == AddDelegation(BetweenPools(s, src, v, amt), d, v, amt)

(***************************************************************************)
(* Unbonding shares: the operator who takes the self-delegation below its  *)
(* minimum is jailed.                                                      *)
(***************************************************************************)
UnbondJails(s, d, v, sh) ==
    /\ d = v /\ ~s.val[v].jailed
    /\ TokensFromShares(s.val[v], s.del[<<d, v>>] - sh) < s.val[v].minSelf

Unbond(s, d, v, sh) ==
    LET jailed == IF UnbondJails(s, d, v, sh) THEN JailValidator(s, v) ELSE s
        less   == [jailed EXCEPT !.del[<<d, v>>] = @ - sh]
        taken  == Reindex(less, v, RemoveDelShares(less.val[v], sh))
    IN  IF taken.val[v].shares = 0 /\ taken.val[v].status = "Unbonded"
        THEN RemoveValidator(taken, v) ELSE taken

\* validate_unbond_amount: the shares of an amount, or an error.
UnbondShares(s, d, v, amt) ==
    LET sh == SharesFromTokens(s.val[v], amt)
    IN  IF sh > s.del[<<d, v>>] THEN s.del[<<d, v>>] ELSE sh
ValidUnbond(s, d, v, amt) ==
    /\ Exists(s, v) /\ s.del[<<d, v>>] > 0
    /\ s.val[v].tokens > 0
    /\ SharesFromTokens(s.val[v], amt) <= s.del[<<d, v>>]

InsertUbdQueue(s, d, v, t) == [s EXCEPT !.ubdQueue[Slot(t)] = Append(@, <<d, v>>)]

\* The keys of the indexes: of an unbonding delegation by its validator, of a
\* redelegation <<d, src, dst>> by its source and by its destination.
UbdByValKey(d, v) == <<v, d>>
RedBySrcKey(r) == <<r[2], r[1], r[3]>>
RedByDstKey(r) == <<r[3], r[1], r[2]>>

\* set_unbonding_delegation, remove_unbonding_delegation: with the index by
\* validator.
SetUbd(s, d, v, entries) ==
    [s EXCEPT !.ubd[<<d, v>>] = entries, !.ubdByVal = @ \cup {UbdByValKey(d, v)}]
RemoveUbd(s, d, v) ==
    [s EXCEPT !.ubd[<<d, v>>] = <<>>, !.ubdByVal = @ \ {UbdByValKey(d, v)}]

Undelegate(s, d, v, sh, now) ==
    LET amt    == ReleasedTokens(s.val[v], sh)
        gone   == Unbond(s, d, v, sh)
        pooled == IF s.val[v].status = "Bonded"
                  THEN BondedTokensToNotBonded(gone, amt) ELSE gone
        t      == now + s.unbondingTime
    IN  InsertUbdQueue(SetUbd(pooled, d, v, Append(s.ubd[<<d, v>>], UnbondingEntry(t, amt))),
                       d, v, t)

\* begin_info: when a redelegation from v completes; <<>> for at once.
BeginInfo(s, v, now) ==
    CASE s.val[v].status = "Bonded"    -> <<now + s.unbondingTime>>
      [] s.val[v].status = "Unbonding" -> <<s.val[v].ubTime>>
      [] OTHER                         -> <<>>

\* set_redelegation, remove_redelegation of all that are done: with both indexes.
SetRedelegation(s, r, entries) ==
    [s EXCEPT !.red[r] = entries,
              !.redBySrc = @ \cup {RedBySrcKey(r)},
              !.redByDst = @ \cup {RedByDstKey(r)}]
\* Mutated form of RemoveRedelegations: the index by destination is left.
RemoveRedelegationsKeep(s, done) ==
    [s EXCEPT !.red = [r \in DvvTriplets |-> IF r \in done THEN <<>> ELSE s.red[r]],
              !.redBySrc = @ \ {RedBySrcKey(r) : r \in done}]
RemoveRedelegations(s, done) ==
    [s EXCEPT !.red = [r \in DvvTriplets |-> IF r \in done THEN <<>> ELSE s.red[r]],
              !.redBySrc = @ \ {RedBySrcKey(r) : r \in done},
              !.redByDst = @ \ {RedByDstKey(r) : r \in done}]

BeginRedelegation(s, d, src, dst, sh, now) ==
    LET amt   == ReleasedTokens(s.val[src], sh)
        moved == Redelegate(Unbond(s, d, src, sh), s.val[src].status, d, dst, amt)
        info  == BeginInfo(moved, src, now)
    IN  IF info = <<>> THEN moved
        ELSE [SetRedelegation(moved, <<d, src, dst>>, moved.red[<<d, src, dst>>] \o info)
                 EXCEPT !.redQueue[Slot(info[1])] = @ \cup {<<d, src, dst>>}]

\* A prefix scan of the index by destination.
HasReceivingRedelegation(s, d, v) == \E k \in s.redByDst : k[1] = v /\ k[2] = d

(***************************************************************************)
(* apply_and_return_validator_set_updates.  The loop over the index bonds  *)
(* at most MaxValidators validators and stops at the first without power;  *)
(* bonding a validator leaves its place in the index as it was, so that    *)
(* the loop is given by the set it elects.                                 *)
(***************************************************************************)
Candidates(s) ==
    {k \in s.index : Cardinality({j \in s.index : Above(j, k)}) < MaxValidators}
Reached(s) ==
    {k \in Candidates(s) : \A j \in Candidates(s) :
                              Above(j, k) => ConsensusPower(s.val[j[2]]) > 0}
Elected(s) == {k[2] : k \in {j \in Reached(s) : ConsensusPower(s.val[j[2]]) > 0}}

\* What the loops refuse: a validator in the index that is jailed or cannot be
\* decoded, a validator of the last set that is not bonded.
SetUpdatesFail(s) ==
    \/ \E k \in Reached(s) : s.val[k[2]].jailed \/ ~Decodable(s.val[k[2]])
    \/ \E v \in Validators : /\ s.last[v] # 0 /\ v \notin Elected(s)
                             /\ s.val[v].status # "Bonded"

TokensOf(s, V) == Total([v \in Validators |-> s.val[v].tokens], V)

BondValidator(w) == [w EXCEPT !.status = "Bonded"]
BeginUnbonding(w, t, h) ==
    [w EXCEPT !.status = "Unbonding", !.ubTime = t, !.ubHeight = h]

NetTransfer(s, in, out) ==
    CASE in > out -> NotBondedTokensToBonded(s, in - out)
      [] in < out -> BondedTokensToNotBonded(s, out - in)
      [] OTHER    -> s

\* Mutated form of QueueAfter: bonding leaves the queue alone.
QueueAfterKeep(s, newly, gone, t, h) == s.valQueue \cup {<<Slot(t), h, v>> : v \in gone}
\* insert_unbonding_validator_queue, delete_unbonding_validators_queue.
QueueAfter(s, newly, gone, t, h) ==
    (s.valQueue \ {<<Slot(s.val[v].ubTime), s.val[v].ubHeight, v>> : v \in newly})
        \cup {<<Slot(t), h, v>> : v \in gone}

LastAfter(s, elected, gone) ==
    [v \in Validators |-> CASE v \in elected -> ConsensusPower(s.val[v])
                            [] v \in gone    -> 0
                            [] OTHER         -> s.last[v]]

\* Tendermint applies the updates: the powers that changed, zero for those gone.
\* Mutated form of Updated: a bonded validator whose power changed is not sent.
UpdatedNew(t, s, elected) ==
    [v \in Validators |-> CASE v \in elected /\ s.last[v] = 0 -> ConsensusPower(s.val[v])
                            [] v \notin elected /\ s.last[v] # 0 -> 0
                            [] OTHER -> t[v]]
Updated(t, s, elected) ==
    [v \in Validators |-> CASE /\ v \in elected
                               /\ s.last[v] # ConsensusPower(s.val[v]) -> ConsensusPower(s.val[v])
                            [] v \notin elected /\ s.last[v] # 0 -> 0
                            [] OTHER -> t[v]]

ApplySetUpdates(s, now, h) ==
    LET elected == Elected(s)
        newly   == {v \in elected : s.val[v].status # "Bonded"}
        gone    == {v \in Validators : s.last[v] # 0} \ elected
        t       == now + s.unbondingTime
        moved   == newly \cup gone
        set     == [s EXCEPT
            !.val = [v \in Validators |-> CASE v \in newly -> BondValidator(s.val[v])
                                            [] v \in gone  -> BeginUnbonding(s.val[v], t, h)
                                            [] OTHER       -> s.val[v]],
            !.index = (@ \ {PowerKey(v, s.val[v]) : v \in moved})
                      \cup {PowerKey(v, s.val[v]) : v \in {w \in moved : ~s.val[w].jailed}},
            !.valQueue = QueueAfter(s, newly, gone, t, h),
            !.last = LastAfter(s, elected, gone),
            !.total = IF \E v \in Validators : Updated(s.last, s, elected)[v] # s.last[v]
                      THEN Total([v \in Validators |-> ConsensusPower(s.val[v])], elected)
                      ELSE @]
    IN  IF SetUpdatesFail(s) THEN [s EXCEPT !.halted = TRUE]
        ELSE NetTransfer(set, TokensOf(s, newly), TokensOf(s, gone))

(***************************************************************************)
(* unbond_all_mature_validators: the time it compares is the one of the    *)
(* key, a whole second, that may be earlier than the validator's own.      *)
(***************************************************************************)
MatureValidators(s, now, h) == {q \in s.valQueue : q[1] * Ticks <= now /\ q[2] <= h}

UnbondAllMature(s, now, h) ==
    LET mature == MatureValidators(s, now, h)
        vs     == {q[3] : q \in mature}
    IN  IF \E v \in vs : s.val[v].status # "Unbonding"
        THEN [s EXCEPT !.halted = TRUE]
        ELSE [s EXCEPT !.val = [v \in Validators |->
                                   IF v \in vs THEN [s.val[v] EXCEPT !.status = "Unbonded"]
                                   ELSE s.val[v]],
                       !.valQueue = @ \ mature]

(***************************************************************************)
(* complete_unbonding: every mature entry is paid.  The entries that are   *)
(* paid are removed only when none is left that is not mature: otherwise   *)
(* the delegation is stored as it was read.  A payment that the pool       *)
(* cannot make ends it, with what was paid before.                         *)
(***************************************************************************)
PayEntry(acc, d, v, i, now) ==
    LET e == acc.s.ubd[<<d, v>>][i]
        s == acc.s
    IN  IF acc.err \/ e.time > now \/ e.balance = 0 THEN acc
        ELSE IF s.notBonded < e.balance THEN [acc EXCEPT !.err = TRUE]
        ELSE [acc EXCEPT !.s = [s EXCEPT
                !.notBonded = @ - e.balance,
                !.bal[d] = @ + e.balance,
                !.ubd[<<d, v>>][i].paid = TRUE,
                !.uncovered = IF e.paid THEN @ + e.balance ELSE @,
                !.paidAgain = @ \/ e.paid]]

Completed(s, d, v, now) == \A i \in DOMAIN s.ubd[<<d, v>>] : s.ubd[<<d, v>>][i].time <= now

CompleteUnbonding(s, d, v, now) ==
    LET n == Len(s.ubd[<<d, v>>])
        acc[i \in 0..n] == IF i = 0 THEN [s |-> s, err |-> FALSE]
                           ELSE PayEntry(acc[i - 1], d, v, i, now)
    IN  IF ~acc[n].err /\ Completed(s, d, v, now)
        THEN RemoveUbd(acc[n].s, d, v) ELSE acc[n].s

\* dequeue_all_mature_ubd_queue: the slots up to the one of now, concatenated;
\* some of their entries may not be mature, and are queued no more.
MatureUnbonds(s, now) == FlattenSeq([i \in 1..(Slot(now) + 1) |-> s.ubdQueue[i - 1]])

DequeuedUnbonds(s, now) ==
    [s EXCEPT !.ubdQueue = [i \in Slots |-> IF i <= Slot(now) THEN <<>> ELSE s.ubdQueue[i]]]

CompleteUnbonds(s, now) ==
    LET mature == MatureUnbonds(s, now)
        done[i \in 0..Len(mature)] ==
            IF i = 0 THEN DequeuedUnbonds(s, now)
            ELSE CompleteUnbonding(done[i - 1], mature[i][1], mature[i][2], now)
    IN  done[Len(mature)]

\* RedelegationEntry::is_mature; of an entry only its completion time is kept.
MatureRedelegation(entry, now) == entry <= now

\* A redelegation that is dequeued goes when all its entries are mature.
CompleteRedelegations(s, now) ==
    LET mature == UNION {s.redQueue[i] : i \in {j \in Slots : j <= Slot(now)}}
        done   == {r \in mature : \A i \in DOMAIN s.red[r] : MatureRedelegation(s.red[r][i], now)}
    IN  [RemoveRedelegations(s, done) EXCEPT
            !.redQueue = [i \in Slots |-> IF i <= Slot(now) THEN {} ELSE s.redQueue[i]]]

BlockValidatorUpdates(s, now, h) ==
    CompleteRedelegations(
        CompleteUnbonds(UnbondAllMature(ApplySetUpdates(s, now, h), now, h), now), now)

(***************************************************************************)
(* track_historical_info, at the beginning of a block: infos older than    *)
(* the window are deleted, newest first, up to the first that is missing.  *)
(***************************************************************************)
Pruned(s, h) ==
    {i \in s.hist : /\ i <= h - HistoricalEntries
                    /\ \A j \in i..(h - HistoricalEntries) : j \in s.hist}

TrackHistoricalInfo(s, h) ==
    IF HistoricalEntries = 0 THEN [s EXCEPT !.hist = @ \ Pruned(s, h)]
    ELSE [s EXCEPT !.hist = (@ \ Pruned(s, h)) \cup {h},
                   !.halted = Cardinality({v \in Validators : s.last[v] # 0})
                              > MaxValidators]

(***************************************************************************)
(* init_genesis.  g gives validators, delegations and last powers; the     *)
(* pools hold what their validators have, or the node does not start.      *)
(***************************************************************************)
GenesisLast(g) == IF g.exported THEN g.last ELSE [v \in Validators |-> 0]

\* A genesis file is new, or exported from a chain at the end of a block: the
\* shares are delegated, the last validator set is that of the bonded ones.
ASSUME GenesisConsistency ==
    \A g \in Genesis :
        /\ g.exported \in BOOLEAN /\ g.bal \in [Accounts -> Nat]
        /\ g.last \in [Validators -> Nat] /\ g.total = Total(GenesisLast(g), Validators)
        /\ Cardinality(WithStatus(g, TRUE)) <= MaxValidators
        /\ \A v \in Validators :
              /\ ~Exists(g, v) => g.val[v] = NoValidator
              /\ g.val[v].shares = Total([d \in Accounts |-> g.del[<<d, v>>]], Accounts)
              /\ (GenesisLast(g)[v] # 0) <=> (v \in WithStatus(g, TRUE))
              /\ v \in WithStatus(g, TRUE) => GenesisLast(g)[v] = ConsensusPower(g.val[v])

GenesisBase(g) ==
    [val |-> g.val,
     index |-> {PowerKey(v, g.val[v]) :
                  v \in {w \in Validators : Exists(g, w) /\ ~g.val[w].jailed}},
     last |-> GenesisLast(g),
     total |-> g.total,
     valQueue |-> {<<Slot(g.val[v].ubTime), g.val[v].ubHeight, v>> :
                     v \in {w \in Validators : /\ Exists(g, w)
                                               /\ g.val[w].status = "Unbonding"}},
     del |-> g.del,
     ubd |-> [p \in DvPairs |-> <<>>],
     ubdByVal |-> {}, redBySrc |-> {}, redByDst |-> {},
     ubdQueue |-> [i \in Slots |-> <<>>],
     red |-> [p \in DvvTriplets |-> <<>>],
     redQueue |-> [i \in Slots |-> {}],
     bal |-> g.bal,
     bonded |-> TokensOf(g, WithStatus(g, TRUE)),
     notBonded |-> TokensOf(g, WithStatus(g, FALSE)),
     unbondingTime |-> g.unbondingTime,
     hist |-> {}, uncovered |-> 0, paidAgain |-> FALSE, halted |-> FALSE]

\* The entries of unbonding delegations and redelegations (each of which a
\* genesis file has once), one by one: an entry is stored and queued.  The check
\* of the pools leaves out the tokens of the former.
GenesisUbd(s, e) ==
    LET d == e.pair[1]
        v == e.pair[2]
    IN  [InsertUbdQueue(SetUbd(s, d, v, Append(s.ubd[<<d, v>>], UnbondingEntry(e.time, e.balance))),
                        d, v, e.time) EXCEPT !.uncovered = @ + e.balance]
GenesisRed(s, e) ==
    [SetRedelegation(s, e.triplet, s.red[e.triplet] \o <<e.time>>)
        EXCEPT !.redQueue[Slot(e.time)] = @ \cup {e.triplet}]

WithUbds(s, entries) ==
    LET t[i \in 0..Len(entries)] == IF i = 0 THEN s ELSE GenesisUbd(t[i - 1], entries[i])
    IN  t[Len(entries)]
WithReds(s, entries) ==
    LET t[i \in 0..Len(entries)] == IF i = 0 THEN s ELSE GenesisRed(t[i - 1], entries[i])
    IN  t[Len(entries)]

GenesisStore(g) == WithReds(WithUbds(GenesisBase(g), g.ubds), g.reds)

InitGenesis(g) ==
    IF g.exported THEN GenesisStore(g) ELSE ApplySetUpdates(GenesisStore(g), 0, 0)

(***************************************************************************)
(* Genesis transactions (x/genutil): every one creates a validator, then   *)
(* the validator set is computed again.  The node does not start when one  *)
(* fails, nor when both modules hand Tendermint a validator set (gaia).    *)
(***************************************************************************)
CanCreate(s, m) == ~Exists(s, m.validator) /\ s.bal[m.validator] >= m.amount

\* The operator and the consensus key are new; the key is the operator's.
Created(s, m, now) ==
    LET v == m.validator
        w == NewValidator(m.minSelf, m.commission, now)
    IN  Delegate([s EXCEPT !.val[v] = w, !.index = @ \cup {PowerKey(v, w)}], v, v, m.amount)

DeliverGenTx(s, m) ==
    IF ~s.halted /\ CanCreate(s, m) THEN Created(s, m, 0) ELSE [s EXCEPT !.halted = TRUE]

GenutilGenesis(s, txs) ==
    IF txs = <<>> THEN s
    ELSE LET t[i \in 0..Len(txs)] == IF i = 0 THEN s ELSE DeliverGenTx(t[i - 1], txs[i])
         IN  IF t[Len(txs)].halted THEN t[Len(txs)] ELSE ApplySetUpdates(t[Len(txs)], 0, 0)

HasUpdates(before, after) == before.last # after.last
GaiaGenesis(g) ==
    LET s == InitGenesis(g)
        t == GenutilGenesis(s, g.gentxs)
    IN  IF (\E v \in Validators : s.last[v] # 0) /\ HasUpdates(s, t)
        THEN [t EXCEPT !.halted = TRUE] ELSE t

Init ==
    /\ \E g \in Genesis : st = GaiaGenesis(g)
    /\ tm = st.last
    /\ header = [time |-> 0, height |-> 0]
    /\ phase = "commit"
    /\ msgs = 0

(***************************************************************************)
(* The handlers.                                                           *)
(***************************************************************************)
BeginBlock(dt) ==
    /\ phase = "commit" /\ ~st.halted
    /\ header.height < MaxHeight /\ header.time + dt <= MaxTime
    /\ header' = [time |-> header.time + dt, height |-> header.height + 1]
    /\ st' = TrackHistoricalInfo(st, header.height + 1)
    /\ phase' = "deliver"
    /\ UNCHANGED <<tm, msgs>>

Message ==
    /\ phase = "deliver" /\ ~st.halted /\ msgs < MaxMsgs
    /\ msgs' = msgs + 1
    /\ UNCHANGED <<tm, header, phase>>

CreateValidator(m) ==
    /\ Message
    /\ CanCreate(st, m)
    /\ st' = Created(st, m, header.time)

\* A message for a validator that cannot be decoded: the panic of validator().
ReadsCorrupt(v) ==
    /\ Message
    /\ Exists(st, v) /\ ~Decodable(st.val[v])
    /\ st' = [st EXCEPT !.halted = TRUE]

EditValidator(m) ==
    LET v == m.validator
    IN  /\ Message
        /\ Exists(st, v) /\ Decodable(st.val[v])
        /\ \A r \in m.rate : RateAccepted(st.val[v], r, header.time)
        /\ \A n \in m.minSelf : n > st.val[v].minSelf /\ n <= st.val[v].tokens
        /\ st' = [st EXCEPT !.val[v] = Edited(st.val[v], m, header.time)]

DelegateMsg(m) ==
    LET v == m.validator
    IN  /\ Message
        /\ Exists(st, v) /\ Decodable(st.val[v])
        /\ ~InvalidExRate(st.val[v]) /\ st.bal[m.delegator] >= m.amount
        /\ st' = Delegate(st, m.delegator, v, m.amount)

UndelegateMsg(m) ==
    LET d == m.delegator
        v == m.validator
    IN  /\ Message
        /\ Decodable(st.val[v]) /\ ValidUnbond(st, d, v, m.amount)
        /\ Len(st.ubd[<<d, v>>]) <= MaxEntries
        /\ st' = Undelegate(st, d, v, UnbondShares(st, d, v, m.amount), header.time)

RedelegateMsg(m) ==
    LET d  == m.delegator
        sh == UnbondShares(st, d, m.src, m.amount)
    IN  /\ Message
        /\ m.src # m.dst /\ Decodable(st.val[m.src]) /\ Decodable(st.val[m.dst])
        /\ ValidUnbond(st, d, m.src, m.amount) /\ Exists(st, m.dst)
        /\ ~HasReceivingRedelegation(st, d, m.src)
        /\ Len(st.red[<<d, m.src, m.dst>>]) < MaxEntries
        /\ ReleasedTokens(st.val[m.src], sh) > 0
        /\ ~InvalidExRate(st.val[m.dst])
        /\ st' = BeginRedelegation(st, d, m.src, m.dst, sh, header.time)

\* A passed parameter proposal; x/gov runs before x/staking ends the block.
SetUnbondingTime(t) ==
    /\ Message
    /\ t # st.unbondingTime
    /\ st' = [st EXCEPT !.unbondingTime = t]

EndBlock ==
    /\ phase = "deliver" /\ ~st.halted
    /\ st' = BlockValidatorUpdates(st, header.time, header.height)
    /\ tm' = Updated(tm, st, Elected(st))
    /\ phase' = "commit"
    /\ UNCHANGED <<header, msgs>>

Next ==
    \/ \E dt \in 1..2 : BeginBlock(dt)
    \/ \E m \in CreateValidatorMsgs : CreateValidator(m)
    \/ \E v \in Validators : ReadsCorrupt(v)
    \/ \E m \in EditValidatorMsgs : EditValidator(m)
    \/ \E m \in DelegateMsgs : DelegateMsg(m)
    \/ \E m \in UndelegateMsgs : UndelegateMsg(m)
    \/ \E m \in RedelegateMsgs : RedelegateMsg(m)
    \/ \E t \in UnbondingTimes : SetUnbondingTime(t)
    \/ EndBlock

Spec == Init /\ [][Next]_vars

(***************************************************************************)
(* Properties.                                                             *)
(***************************************************************************)

\* The shares of a validator are those of its delegations, whatever was
\* delegated, moved and taken away at whatever exchange rate.
SharesAreDelegations ==
    \A v \in Validators : Exists(st, v) =>
        st.val[v].shares = Total([d \in Accounts |-> st.del[<<d, v>>]], Accounts)

\* What the entries of an unbonding delegation still claim.
Unpaid(entries) ==
    Total([i \in DOMAIN entries |-> IF entries[i].paid THEN 0 ELSE entries[i].balance],
          DOMAIN entries)
UnpaidBalance ==
    Total([p \in DvPairs |-> Unpaid(st.ubd[p])], DvPairs)
\* The bonded pool holds what bonded validators claim.  The other pool holds
\* what the other validators and the entries not yet paid claim, less what it
\* was never given: the entries of the genesis file, which init_genesis leaves
\* out of its check of the pools, and what complete_unbonding paid again.
PoolsAccounted ==
    ~st.halted =>
        /\ st.bonded = TokensOf(st, WithStatus(st, TRUE))
        /\ st.notBonded + st.uncovered = TokensOf(st, WithStatus(st, FALSE)) + UnpaidBalance

\* The power index has exactly the validators that are not jailed, each under
\* its present power: updates that delete the key of another power leave a
\* validator twice in it.
PowerIndexExact ==
    ~st.halted => st.index = {PowerKey(v, st.val[v]) :
                      v \in {w \in Validators : Exists(st, w) /\ ~st.val[w].jailed}}

\* The queue of validators has those that are unbonding and no other, under
\* the slot of their time and their height (the end of a block asserts it),
\* and every entry of a later slot than the block's waits in the queue.
UnbondingQueued ==
    ~st.halted =>
        /\ st.valQueue = {<<Slot(st.val[v].ubTime), st.val[v].ubHeight, v>> :
               v \in {w \in Validators : Exists(st, w) /\ st.val[w].status = "Unbonding"}}
        /\ \A p \in DvPairs : \A i \in DOMAIN st.ubd[p] :
               LET slot == Slot(st.ubd[p][i].time)
               IN  slot > Slot(header.time) =>
                       \E j \in DOMAIN st.ubdQueue[slot] : st.ubdQueue[slot][j] = p

\* The last validator set is the bonded validators, no more than the maximum
\* and none jailed once the block has ended, the total power is theirs, and
\* Tendermint has the same set.
LastSetIsBonded ==
    ~st.halted =>
        /\ \A v \in Validators : (st.last[v] # 0) <=> (v \in WithStatus(st, TRUE))
        /\ Cardinality(WithStatus(st, TRUE)) <= MaxValidators
        /\ st.total = Total(st.last, Validators)
        /\ phase = "commit" => \A v \in WithStatus(st, TRUE) :
              ~st.val[v].jailed /\ tm[v] = ConsensusPower(st.val[v])

\* "loop through all the entries and complete unbonding mature entries": no
\* entry is paid twice.
PaidOnce == ~st.paidAgain
=============================================================================
