-------------------------------- MODULE Gov --------------------------------
(***************************************************************************)
(* x/gov: proposals, the deposits that back them, and the votes on them.   *)
(*                                                                         *)
(* A message yields the set of stores it may leave: one, or none when the  *)
(* keeper returns an error and the transaction is undone.  A list of coins *)
(* is a function of Coins; denominations are numbers, in the order of      *)
(* their names.  Time is in half seconds, since a queue key is rounded to  *)
(* the second.  The content of a proposal is checked when it is submitted  *)
(* and not kept here: it is handled only after a tally, which no block     *)
(* reaches (see EndBlock).                                                 *)
(***************************************************************************)
EXTENDS Coins, Params, Sums

CONSTANTS
    Accounts,
    Validators,        \* the accounts that may operate one
    Proposals,         \* identifiers, consecutive numbers
    Genesis,           \* genesis states offered to the node
    Stakings,          \* states the staking module may be in
    Amounts,           \* coins of messages
    Ballots,           \* lists of weighted options
    Contents,          \* what a proposal is about
    DepositPeriod,     \* max_deposit_period
    NoVote,
    MaxTime, MaxMsgs   \* bounds of the model

ASSUME GovAssumption ==
    /\ Denom \subseteq Nat /\ Proposals \subseteq Nat
    /\ IsFiniteSet(Accounts) /\ Validators \subseteq Accounts /\ IsFiniteSet(Proposals)
    /\ \A c \in Amounts : IsCoinList(c) /\ IsCoins(c)
    /\ NoVote \notin Ballots
    /\ {DepositPeriod, MaxTime, MaxMsgs} \subseteq Nat

VARIABLES
    st,       \* the store of the module, and the balances it moves
    staking,  \* what the staking keeper answers
    time,     \* of the header
    msgs,     \* messages so far, bounded by MaxMsgs
    halted    \* the node has panicked

govVars == <<st, staking, time, msgs, halted>>

-----------------------------------------------------------------------------
(* UnsignedCoins: the sum of two lists is their concatenation, an error    *)
(* unless that is sorted and lists no denomination twice.                  *)

CanAppend(a, b) == \A d \in DOMAIN a, e \in DOMAIN b : d < e

-----------------------------------------------------------------------------
(* Genesis: the module's balance must be, coin by coin, the deposits in    *)
(* their order.                                                            *)

QueueOf(g, status) == {p \in Proposals : g.status[p] = status}

GenesisAccepted(g) ==
    LET places    == DOMAIN g.deposits
        amount(i) == g.deposits[i].amount
    IN  /\ \A i, j \in places : i < j => CanAppend(amount(i), amount(j))
        /\ DOMAIN g.escrow = UNION {DOMAIN amount(i) : i \in places}
        /\ \A i \in places : \A d \in DOMAIN amount(i) : g.escrow[d] = amount(i)[d]

\* The places of a depositor's records in the file; the last is what is stored.
RecordsOf(g, k) == {i \in DOMAIN g.deposits : <<g.deposits[i].proposal, g.deposits[i].depositor>> = k}

InitGenesis(g) ==
    [status |-> g.status, total |-> g.total, end |-> g.end, next |-> g.next,
     inactive |-> QueueOf(g, "deposit"), active |-> QueueOf(g, "voting"),
     deposits |-> [k \in Proposals \X Accounts |->
         IF RecordsOf(g, k) = {} THEN NoCoins ELSE g.deposits[Max(RecordsOf(g, k))].amount],
     votes |-> [k \in Proposals \X Accounts |->
         IF k \in DOMAIN g.votes THEN g.votes[k] ELSE NoVote],
     escrow |-> g.escrow, bal |-> g.bal]

-----------------------------------------------------------------------------
(* Deposits.                                                               *)

SendToModule(s, a, c) ==
    IF IsAllGte(s.bal[a], c)
    THEN {[s EXCEPT !.bal[a] = Minus(@, c), !.escrow = Plus(@, c)]} ELSE {}

\* Mutated form of RecordDeposit: a sum that fails is ignored.
RecordIgnoring(s, a, p, c) ==
    IF CanAppend(s.total[p], c)
    THEN {[s EXCEPT !.total[p] = Plus(@, c), !.deposits[<<p, a>>] = Plus(@, c)]} ELSE {s}

\* The total, and the depositor's own record.
RecordDeposit(s, a, p, c) ==
    IF CanAppend(s.total[p], c) /\ CanAppend(s.deposits[<<p, a>>], c)
    THEN {[s EXCEPT !.total[p] = Plus(@, c), !.deposits[<<p, a>>] = Plus(@, c)]} ELSE {}

\* That the minimum is reached is only told in an event: the proposal does
\* not enter its voting period.
DepositAdd(s, a, p, c) ==
    IF s.status[p] \in {"deposit", "voting"}
    THEN UNION {RecordDeposit(t, a, p, c) : t \in SendToModule(s, a, c)} ELSE {}

-----------------------------------------------------------------------------
(* Proposals and votes.                                                    *)

\* ProposalHandler::check: of a text or an upgrade nothing is checked.
ContentAccepted(content) ==
    content.kind = "params" => CheckChanges(content.changes)

SubmitProposal(s, c, content) ==
    LET p == s.next
    IN  IF p \notin Proposals \/ ~ContentAccepted(content) THEN {}
        ELSE {[s EXCEPT !.status[p] = "deposit", !.total[p] = c,
                        !.end[p] = time + DepositPeriod,
                        !.inactive = @ \cup {p}, !.next = @ + 1]}

Options == {"yes", "no", "abstain", "veto"}

\* VoteWeight::try_from.
ValidWeight(w) == ~(w < 0 \/ w > 0)

IsBallot(b) == b \in Seq([option : Options \cup {"empty"}, weight : Int])
ValidBallot(b) == IsBallot(b) /\ \A i \in DOMAIN b : ValidWeight(b[i].weight)

\* The simple vote is stored as a weighted one, of weight zero.
Weighted(option) == <<[option |-> option, weight |-> 0]>>

VoteAdd(s, a, p, ballot) ==
    IF s.status[p] = "voting" THEN {[s EXCEPT !.votes[<<p, a>>] = ballot]} ELSE {}

-----------------------------------------------------------------------------
(* The tally of a proposal's votes.  A voter's delegations count for the   *)
(* voter and are deducted from their validator, which answers for the rest *)
(* if it voted itself.                                                     *)

Voters(p) == {a \in Accounts : st.votes[<<p, a>>] # NoVote}

SharesIn(v, S) == Total([a \in S |-> staking.shares[<<a, v>>]], S)

DelegatorShares(v) == SharesIn(v, Accounts)

\* Mutated form of DelegatorDeduction: the validator answers for everything.
DelegatorDeductionNone(p, v) == 0

DelegatorDeduction(p, v) == SharesIn(v, Voters(p))

PowerOf(shares, v) ==
    DecDiv(DecMul(shares, Whole(staking.tokens[v])), DelegatorShares(v))

\* The loop over the votes counts their delegations, the next one the validators
\* that have voted.
Delegations(p) == Voters(p) \X staking.bonded
DelegationPower(k) == PowerOf(staking.shares[k], k[2])
Answering(p) == {v \in staking.bonded \cap Voters(p) : st.votes[<<p, v>>] # <<>>}
ValidatorPower(p, v) == PowerOf(DelegatorShares(v) - DelegatorDeduction(p, v), v)

TotalVotingPower(p) ==
    Total([k \in Delegations(p) |-> DelegationPower(k)], Delegations(p))
      + Total([v \in Answering(p) |-> ValidatorPower(p, v)], Answering(p))

\* What a ballot gives an option, entry by entry.
Given(ballot, power, o) ==
    LET entries == {i \in DOMAIN ballot : ballot[i].option = o}
    IN  Total([i \in entries |-> DecMul(power, ballot[i].weight)], entries)

TallyResult(p, o) ==
    Total([k \in Delegations(p) |-> Given(st.votes[<<p, k[1]>>], DelegationPower(k), o)], Delegations(p))
      + Total([v \in Answering(p) |-> Given(st.votes[<<p, v>>], ValidatorPower(p, v), o)], Answering(p))

BondedTokens == Total([v \in staking.bonded |-> staking.tokens[v]], staking.bonded)

-----------------------------------------------------------------------------
(* What a genesis file and the staking module offer.                       *)

ASSUME BallotAssumption == \A b \in Ballots : IsBallot(b)

\* The types of the file: a weight is checked where it is read.
ASSUME GenesisAssumption ==
    \A g \in Genesis :
        /\ g.total = [p \in Proposals |-> g.total[p]] /\ \A p \in Proposals : IsCoinList(g.total[p])
        /\ IsCoinList(g.escrow) /\ g.deposits = [i \in 1 .. Len(g.deposits) |-> g.deposits[i]]
        /\ Len(g.deposits) \in Nat
        /\ \A i \in DOMAIN g.deposits : LET x == g.deposits[i]
                                         IN  /\ x.proposal \in Proposals /\ x.depositor \in Accounts
                                             /\ IsCoinList(x.amount) /\ IsCoins(x.amount)
        /\ \A k \in DOMAIN g.votes : ValidBallot(g.votes[k])

\* A file that a chain has exported: one record of a depositor, for a proposal
\* that exists and has their total.  init_genesis checks none of it.
ASSUME ExportAssumption ==
    \A g \in Genesis :
        /\ \A i, j \in DOMAIN g.deposits :
              /\ g.deposits[i].proposal = g.deposits[j].proposal
              /\ g.deposits[i].depositor = g.deposits[j].depositor
              => i = j
        /\ \A i \in DOMAIN g.deposits : g.status[g.deposits[i].proposal] # "none"
        /\ \A p \in Proposals, d \in Denom :
              LET own == {i \in DOMAIN g.deposits : g.deposits[i].proposal = p}
              IN  g.status[p] # "none" =>
                      AmountOf(g.total[p], d) = Total([i \in own |-> AmountOf(g.deposits[i].amount, d)], own)

\* A validator is bonded while somebody has shares in it.
ASSUME StakingsAssumption ==
    \A s \in Stakings :
        /\ s.bonded \subseteq Validators
        /\ s.tokens \in [Validators -> Nat] /\ s.shares \in [Accounts \X Validators -> Nat]
        /\ \A v \in s.bonded : \E a \in Accounts : s.shares[<<a, v>>] > 0

-----------------------------------------------------------------------------

GovInit ==
    /\ \E g \in Genesis : GenesisAccepted(g) /\ st = InitGenesis(g)
    /\ staking \in Stakings
    /\ time = 0 /\ msgs = 0 /\ halted = FALSE

Deliver(stores) ==
    /\ ~halted /\ msgs < MaxMsgs
    /\ st' \in (IF stores = {} THEN {st} ELSE stores)
    /\ msgs' = msgs + 1
    /\ UNCHANGED <<staking, time, halted>>

MsgDeposit(a, p, c) == Deliver(DepositAdd(st, a, p, c))

MsgVote(a, p, option) == Deliver(VoteAdd(st, a, p, Weighted(option)))

MsgVoteWeighted(a, p, ballot) ==
    /\ \A i \in DOMAIN ballot : ValidWeight(ballot[i].weight)
    /\ Deliver(VoteAdd(st, a, p, ballot))

\* The new proposal's total is already the deposit it adds to it.
MsgSubmitProposal(a, c, content) ==
    Deliver(UNION {DepositAdd(t, a, st.next, c) : t \in SubmitProposal(st, c, content)})

Seconds(t) == (t + 1) \div 2

\* The key of either queue is the end of the deposit period, rounded to the
\* second, also for the voting period.
QueueKey(p) == Seconds(st.end[p])

Due(queue) == {p \in queue : QueueKey(p) < Seconds(time)}
DueActive == Due(st.active)

\* The key of a due entry is parsed as a time with an offset, which it does
\* not have: the node panics before it drops or tallies a proposal.
EndBlock ==
    /\ ~halted /\ time < MaxTime
    /\ IF Due(st.inactive) \cup DueActive = {}
       THEN time' = time + 1 /\ halted' = FALSE
       ELSE halted' = TRUE /\ time' = time
    /\ UNCHANGED <<st, staking, msgs>>

\* Delegations, and the validators that are bonded, change meanwhile.
StakingChanges ==
    /\ ~halted
    /\ staking' \in Stakings \ {staking}
    /\ UNCHANGED <<st, time, msgs, halted>>

GovNext ==
    \/ \E a \in Accounts, p \in Proposals, c \in Amounts : MsgDeposit(a, p, c)
    \/ \E a \in Accounts, p \in Proposals, o \in Options \cup {"empty"} : MsgVote(a, p, o)
    \/ \E a \in Accounts, p \in Proposals, b \in Ballots : MsgVoteWeighted(a, p, b)
    \/ \E a \in Accounts, c \in Amounts, x \in Contents : MsgSubmitProposal(a, c, x)
    \/ EndBlock
    \/ StakingChanges

GovSpec == GovInit /\ [][GovNext]_govVars

=============================================================================
