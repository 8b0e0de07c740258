----------------------------- MODULE GovQueries -----------------------------
(***************************************************************************)
(* The queries of x/gov: what each answers, which panic, and which can be  *)
(* asked over ABCI, gRPC, REST and with the command line.  Pages are       *)
(* ignored by the code.  What may be missing from a request or an answer   *)
(* is a set of at most one element.                                        *)
(***************************************************************************)
EXTENDS Gov

Kinds == {"Deposit", "Deposits", "Params", "AllParams", "Proposal", "Proposals", "Tally",
          "Vote", "Votes", "Proposer"}

Statuses == {"nil", "deposit", "voting", "passed", "rejected", "failed"}

AtMostOne(S) == {{}} \cup {{x} : x \in S}

Requests ==
    [kind : {"Deposit"}, proposal : Proposals, depositor : Accounts]
    \cup [kind : {"Vote"}, proposal : Proposals, voter : Accounts]
    \cup [kind : {"Deposits", "Proposal", "Tally", "Votes", "Proposer"}, proposal : Proposals]
    \cup [kind : {"Proposals"}, voter : AtMostOne(Accounts), depositor : AtMostOne(Accounts),
          status : AtMostOne(Statuses)]
    \cup [kind : {"Params"}, of : {"voting", "deposit", "tally"}]
    \cup [kind : {"AllParams"}]

-----------------------------------------------------------------------------
(* What the keeper answers.                                                *)

Stored(s) == {p \in Proposals : s.status[p] # "none"}

\* No tally is ever stored with a proposal.
FinalTally(p) == {}

ProposalModel(s, p) ==
    [id |-> p, status |-> s.status[p], total |-> s.total[p], end |-> s.end[p],
     tally |-> FinalTally(p)]

QueryProposal(s, p) == {ProposalModel(s, q) : q \in Stored(s) \cap {p}}

QueryDeposit(s, p, a) ==
    {[proposal |-> p, depositor |-> a, amount |-> c] : c \in {s.deposits[<<p, a>>]} \ {NoCoins}}

\* DepositIterator: of all proposals.
AllDeposits(s) == UNION {QueryDeposit(s, k[1], k[2]) : k \in DOMAIN s.deposits}

QueryDeposits(s, p) == {d \in AllDeposits(s) : d.proposal = p}

QueryVote(s, p, a) ==
    {[proposal |-> p, voter |-> a, options |-> b] : b \in {s.votes[<<p, a>>]} \ {NoVote}}

QueryVotes(s, p) == UNION {QueryVote(s, p, a) : a \in Accounts}

\* The iterator parses the key of a proposal as that of a queue, which holds
\* a time: with anything stored it panics.
ProposalsPanics(s) == Stored(s) # {}
QueryProposals(s, q) ==
    {ProposalModel(s, p) : p \in {r \in Stored(s) :
        /\ \A a \in q.voter : QueryVote(s, r, a) # {}
        /\ \A a \in q.depositor : QueryDeposit(s, r, a) # {}
        /\ \A x \in q.status : s.status[r] = x}}

\* The parameters of the tally cannot be encoded, and are decoded as ones.
Encodable(q) == ~(q.kind = "AllParams" \/ (q.kind = "Params" /\ q.of = "tally"))
QueryParams(of) ==
    {p \in GovParams : p.key = CASE of = "voting"  -> "votingparams"
                                 [] of = "deposit" -> "depositparams"
                                 [] of = "tally"   -> "tallyparams"}

Query(s, q) ==
    CASE q.kind = "Deposit"   -> QueryDeposit(s, q.proposal, q.depositor)
      [] q.kind = "Deposits"  -> QueryDeposits(s, q.proposal)
      [] q.kind = "Params"    -> QueryParams(q.of)
      [] q.kind = "AllParams" -> GovParams
      [] q.kind = "Proposal"  -> QueryProposal(s, q.proposal)
      [] q.kind = "Proposals" -> QueryProposals(s, q)
      [] q.kind = "Tally"     -> UNION {r.tally : r \in QueryProposal(s, q.proposal)}
      [] q.kind = "Vote"      -> QueryVote(s, q.proposal, q.voter)
      [] q.kind = "Votes"     -> QueryVotes(s, q.proposal)

\* The request for a proposer is not implemented.
Panics(s, q) ==
    \/ q.kind = "Proposals" /\ ProposalsPanics(s)
    \/ q.kind = "Proposer"

-----------------------------------------------------------------------------
(* The ways in.                                                            *)

GrpcKinds == Kinds \ {"AllParams", "Proposer"}
RestKinds == Kinds \ {"Deposit", "AllParams", "Proposer"}
AbciKinds == Kinds

\* REST answers in JSON, the others in protobuf.
WaysOf(q) ==
    {w \in {"abci", "grpc", "rest"} :
        /\ q.kind \in CASE w = "abci" -> AbciKinds [] w = "grpc" -> GrpcKinds [] w = "rest" -> RestKinds
        /\ w = "rest" \/ Encodable(q)}

\* The commands: the kind that each asks for, and the kind it takes the answer
\* for.  The answer with all deposits is decoded as that with one.
CliCommands == Kinds
CliRequestKind(c) == c
CliAnswerKind(c) == IF c = "Deposits" THEN "Deposit" ELSE c

\* The messages that the command line builds for the account that signs.
CliMessages(from) ==
    [kind : {"Deposit"}, proposal : Proposals, by : {from}, amount : Amounts]
    \cup [kind : {"Vote"}, proposal : Proposals, by : {from}, option : Options \cup {"empty"}]
    \cup [kind : {"Weighted"}, proposal : Proposals, by : {from},
          options : {b \in Ballots : \A i \in DOMAIN b : ValidWeight(b[i].weight)}]
    \cup [kind : {"Proposal"}, by : {from}, content : Contents, amount : Amounts]

\* A command sends what has a handler, one takes the answer for what it is
\* not, the parameters of the tally can be had over REST alone, and no vote
\* that is sent carries any weight.
ASSUME RoutesAssumption ==
    /\ Kinds = {q.kind : q \in Requests}
    /\ \A c \in CliCommands : CliRequestKind(c) \in AbciKinds
    /\ {c \in CliCommands : CliRequestKind(c) # CliAnswerKind(c)} = {"Deposits"}
    /\ {q \in Requests : WaysOf(q) = {}} = [kind : {"AllParams"}]
    /\ {q \in Requests : WaysOf(q) = {"rest"}} = [kind : {"Params"}, of : {"tally"}]
    /\ \A a \in Accounts : \A m \in CliMessages(a) :
          m.kind = "Weighted" => \A i \in DOMAIN m.options : m.options[i].weight = 0

-----------------------------------------------------------------------------
(* Properties.                                                             *)

\* What deposits add up to.
Backing(S, d) == Total([x \in S |-> AmountOf(x.amount, d)], S)

Ask(q) == Query(st, q)
DepositsOf(p) == Ask([kind |-> "Deposits", proposal |-> p])

\* What the module's account holds is what the deposits it answers add up to,
\* and the total of a proposal what its backers are told they may claim,
\* although deposit_add moves the coins first and may then fail to record
\* them, and the total and the depositor's record are sums of different
\* histories.  Nobody backs a proposal that cannot be asked for.
DepositsAccounted ==
    /\ \A d \in Denom : AmountOf(st.escrow, d) = Backing(UNION {DepositsOf(p) : p \in Proposals}, d)
    /\ \A p \in Proposals :
          /\ \A r \in Ask([kind |-> "Proposal", proposal |-> p]), d \in Denom :
                AmountOf(r.total, d) = Backing(DepositsOf(p), d)
          /\ DepositsOf(p) # {} => Ask([kind |-> "Proposal", proposal |-> p]) # {}

\* No token votes twice: whoever votes, through delegations, as a validator
\* or both, and for whatever options, tally never counts more power than
\* there are bonded tokens, nor gives the options more than it counts; and it
\* counts for nobody whose vote cannot be asked for.
PowerWithinBonded ==
    \A p \in Proposals :
        /\ TotalVotingPower(p) <= Whole(BondedTokens)
        /\ Total([o \in Options |-> TallyResult(p, o)], Options) <= TotalVotingPower(p)
        /\ {k[1] : k \in Delegations(p)} \cup Answering(p) \subseteq
              {v.voter : v \in Ask([kind |-> "Votes", proposal |-> p])}
=============================================================================
