--------------------------- MODULE StakingQueries ---------------------------
(***************************************************************************)
(* The queries of x/staking: what each answers from a committed store, and *)
(* which of them can be asked over ABCI, gRPC, REST and with the command   *)
(* line.  The pages of the answers are the subject of Pages; here an       *)
(* answer is whole.  An optional part of a request is a set of at most one *)
(* element.                                                                *)
(***************************************************************************)
EXTENDS Staking

Kinds ==
    {"Validator", "Validators", "ValidatorDelegations", "ValidatorUnbondingDelegations",
     "Delegation", "Delegations", "UnbondingDelegation", "UnbondingDelegations",
     "DelegatorValidator", "DelegatorValidators", "Redelegations", "HistoricalInfo",
     "Pool", "Params"}

\* The requests; that for validators of any status has the status Unspecified.
Requests ==
    [kind : {"Validator", "ValidatorDelegations", "ValidatorUnbondingDelegations"}, val : Validators]
    \cup [kind : {"Validators"}, status : (Statuses \ {"Absent"}) \cup {"Unspecified"}]
    \cup [kind : {"Delegation", "UnbondingDelegation", "DelegatorValidator"},
          del : Accounts, val : Validators]
    \cup [kind : {"Delegations", "UnbondingDelegations", "DelegatorValidators"}, del : Accounts]
    \cup [kind : {"Redelegations"}, del : AtMostOne(Accounts),
          src : AtMostOne(Validators), dst : AtMostOne(Validators)]
    \cup [kind : {"HistoricalInfo"}, height : 0..MaxHeight]
    \cup [kind : {"Pool", "Params"}]

QueryValidator(s, v) == {<<v, s.val[v]>> : w \in {x \in {v} : Exists(s, x)}}

\* A validator that cannot be decoded is left out; the other queries panic on it.
QueryValidators(s, status) ==
    {<<v, s.val[v]>> : v \in {w \in Validators : /\ Exists(s, w) /\ Decodable(s.val[w])
                                                 /\ status \in {"Unspecified", s.val[w].status}}}

\* delegation_to_delegation_response fails, and the delegation is left out,
\* when the validator is gone or has no shares.
HasBalance(s, v) == Exists(s, v) /\ s.val[v].shares > 0
DelegationResponse(s, d, v) ==
    [del |-> d, val |-> v, shares |-> s.del[<<d, v>>],
     balance |-> TokensFromShares(s.val[v], s.del[<<d, v>>])]

HasDelegation(s, d, v) == s.del[<<d, v>>] > 0
Shown(s, pairs) ==
    {DelegationResponse(s, p[1], p[2]) :
        p \in {q \in pairs : HasDelegation(s, q[1], q[2]) /\ HasBalance(s, q[2])}}

QueryDelegation(s, d, v) == Shown(s, {<<d, v>>})
QueryDelegatorDelegations(s, d) == Shown(s, {d} \X Validators)
QueryValidatorDelegations(s, v) == Shown(s, Accounts \X {v})

QueryDelegatorValidator(s, d, v) ==
    IF HasDelegation(s, d, v) THEN QueryValidator(s, v) ELSE {}

\* One validator that is missing empties the whole answer.
QueryDelegatorValidators(s, d) ==
    LET vs == {v \in Validators : HasDelegation(s, d, v)}
    IN  IF \E v \in vs : ~Exists(s, v) THEN {} ELSE {<<v, s.val[v]>> : v \in vs}

QueryUnbondingDelegation(s, d, v) ==
    IF s.ubd[<<d, v>>] = <<>> THEN {} ELSE {[del |-> d, val |-> v, entries |-> s.ubd[<<d, v>>]]}
QueryUnbondingDelegations(s, d) == UNION {QueryUnbondingDelegation(s, d, v) : v \in Validators}

\* The key made of a key of the index has lost its prefix: nothing is found
\* under it and the expectation that something is panics.
UnbondingDelegationsFromValidatorPanics(s, v) == \E k \in s.ubdByVal : k[1] = v

\* Only the request that names all three addresses is implemented.  An entry
\* whose balance cannot be computed empties the whole answer.
QueryRedelegationsPanics(q) == {} \in {q.del, q.src, q.dst}
RedelegationResponse(s, r) == [redelegation |-> r, entries |-> s.red[r]]
QueryRedelegations(s, q) ==
    {RedelegationResponse(s, r) : r \in {t \in q.del \X q.src \X q.dst :
                                            s.red[t] # <<>> /\ HasBalance(s, t[3])}}

\* The validators that a query reads, one that cannot be decoded with a panic.
ReadBy(s, q) ==
    CASE q.kind \in {"Validator", "DelegatorValidator"} -> {q.val}
      [] q.kind = "ValidatorDelegations" ->
             {v \in {q.val} : \E d \in Accounts : HasDelegation(s, d, v)}
      [] q.kind = "Delegation" -> {v \in {q.val} : HasDelegation(s, q.del, v)}
      [] q.kind \in {"Delegations", "DelegatorValidators"} ->
             {v \in Validators : HasDelegation(s, q.del, v)}
      [] q.kind = "Redelegations" -> {v \in q.dst : \E r \in q.del \X q.src \X {v} : s.red[r] # <<>>}
      [] OTHER -> {}

Panics(s, q) ==
    \/ \E v \in ReadBy(s, q) : Exists(s, v) /\ ~Decodable(s.val[v])
    \/ q.kind = "ValidatorUnbondingDelegations" /\ UnbondingDelegationsFromValidatorPanics(s, q.val)
    \/ q.kind = "Redelegations" /\ QueryRedelegationsPanics(q)

QueryHistoricalInfo(s, h) == s.hist \cap {h}
QueryPool(s) == [bonded |-> s.bonded, notBonded |-> s.notBonded]
QueryParams(s) ==
    [unbondingTime |-> s.unbondingTime, maxValidators |-> MaxValidators,
     maxEntries |-> MaxEntries, historicalEntries |-> HistoricalEntries]

TypedQuery(s, q) ==
    CASE q.kind = "Validator"            -> QueryValidator(s, q.val)
      [] q.kind = "Validators"           -> QueryValidators(s, q.status)
      [] q.kind = "ValidatorDelegations" -> QueryValidatorDelegations(s, q.val)
      [] q.kind = "ValidatorUnbondingDelegations" -> {}
      [] q.kind = "Delegation"           -> QueryDelegation(s, q.del, q.val)
      [] q.kind = "Delegations"          -> QueryDelegatorDelegations(s, q.del)
      [] q.kind = "UnbondingDelegation"  -> QueryUnbondingDelegation(s, q.del, q.val)
      [] q.kind = "UnbondingDelegations" -> QueryUnbondingDelegations(s, q.del)
      [] q.kind = "DelegatorValidator"   -> QueryDelegatorValidator(s, q.del, q.val)
      [] q.kind = "DelegatorValidators"  -> QueryDelegatorValidators(s, q.del)
      [] q.kind = "Redelegations"        -> QueryRedelegations(s, q)
      [] q.kind = "HistoricalInfo"       -> QueryHistoricalInfo(s, q.height)
      [] q.kind = "Pool"                 -> QueryPool(s)
      [] OTHER                           -> QueryParams(s)

(***************************************************************************)
(* The ways in.  A gRPC method wraps its request and unwraps the answer of *)
(* the same kind; REST has fewer; ABCI goes by the path and lacks two.     *)
(***************************************************************************)
GrpcKinds == Kinds
RestKinds == Kinds \ {"UnbondingDelegation", "DelegatorValidator", "Redelegations", "HistoricalInfo"}
AbciKinds == Kinds \ {"DelegatorValidator", "DelegatorValidators"}

Answered(ways, s, q) == q.kind \in ways /\ ~Panics(s, q)

\* The commands: the kind of the request that each sends over ABCI, and the
\* kind that it takes the answer for.  That for an unbonding delegation sends
\* the request for a delegation.
CliRequestKind(c) == IF c = "UnbondingDelegation" THEN "Delegation" ELSE c
CliAnswerKind(c) == c
CliCommands == Kinds \ {"DelegatorValidator", "DelegatorValidators"}

\* The messages that the command line builds for the account that signs: the
\* rates of a new validator are checked here and not by the handler.
CliMessages(from) ==
    {m \in CreateValidatorMsgs : /\ m.validator = from
                                 /\ ValidRates(m.commission)}
    \cup {m \in EditValidatorMsgs : m.validator = from}
    \cup {m \in DelegateMsgs \cup UndelegateMsgs \cup RedelegateMsgs : m.delegator = from}

\* A message can be built by its signer, every kind can be asked for, a command
\* sends what has a handler, and one takes the answer for what it is not.
ASSUME RoutesAssumption ==
    /\ \A m \in CreateValidatorMsgs :
          ValidRates(m.commission) => m \in CliMessages(m.validator)
    /\ \A m \in RedelegateMsgs : m \in CliMessages(m.delegator)
    /\ Kinds = {q.kind : q \in Requests}
    /\ \A c \in CliCommands : CliRequestKind(c) \in AbciKinds
    /\ {c \in CliCommands : CliRequestKind(c) # CliAnswerKind(c)} = {"UnbondingDelegation"}

(***************************************************************************)
(* Properties.                                                             *)
(***************************************************************************)

\* The indexes that redelegations and queries go by have what is stored and
\* nothing else: a key left behind refuses every later redelegation.
IndexesAgree ==
    /\ st.ubdByVal = {UbdByValKey(p[1], p[2]) : p \in {q \in DOMAIN st.ubd : st.ubd[q] # <<>>}}
    /\ LET stored == {r \in DOMAIN st.red : st.red[r] # <<>>}
       IN  /\ st.redBySrc = {RedBySrcKey(r) : r \in stored}
           /\ st.redByDst = {RedByDstKey(r) : r \in stored}

Ask(q) == TypedQuery(st, q)
AskAll(kind) == UNION {Ask(q) : q \in {r \in Requests : r.kind = kind}}

\* What is asked for one by one, by delegator and by validator is the same,
\* and nothing that is stored is left out: no delegation to a validator that
\* is missing or without shares, which would be dropped silently.
DelegationAnswersAgree ==
    /\ AskAll("Delegations") = AskAll("ValidatorDelegations")
    /\ AskAll("Delegations") = AskAll("Delegation")
    /\ {<<r.del, r.val>> : r \in AskAll("Delegation")} = {p \in DvPairs : st.del[p] > 0}
    /\ AskAll("DelegatorValidators") = AskAll("DelegatorValidator")
    /\ AskAll("UnbondingDelegations") = AskAll("UnbondingDelegation")

\* Delegators are never told of more tokens than the validator is said to
\* have, and bonded validators have what the pool is said to hold.
TokenAnswersAgree ==
    /\ \A w \in Ask([kind |-> "Validators", status |-> "Unspecified"]) :
          LET told == Ask([kind |-> "ValidatorDelegations", val |-> w[1]])
          IN  w[2].tokens >= Total([r \in told |-> r.balance], told)
    /\ LET told == Ask([kind |-> "Validators", status |-> "Bonded"])
       IN  Ask([kind |-> "Pool"]).bonded = Total([w \in told |-> w[2].tokens], told)

\* The last HistoricalEntries blocks can be asked for and no others; with an
\* unbonding delegation stored, asking for those of its validator panics.
WindowAnswered ==
    /\ \A h \in 0..MaxHeight :
          (Ask([kind |-> "HistoricalInfo", height |-> h]) # {})
              <=> (h > 0 /\ h <= header.height /\ h > header.height - HistoricalEntries)
    /\ \A v \in Validators :
          Answered(GrpcKinds, st, [kind |-> "ValidatorUnbondingDelegations", val |-> v])
              <=> \A d \in Accounts : st.ubd[<<d, v>>] = <<>>

Readable(s) == \A v \in Validators : Exists(s, v) => Decodable(s.val[v])

\* The answers to queries of the committed store do not contradict one
\* another, whichever index or list they are read from.  Where a validator
\* cannot be decoded its delegations have no answer: only the others are held
\* to it.
QueriesAgree ==
    /\ IndexesAgree
    /\ phase = "commit" /\ ~st.halted =>
          /\ Readable(st) => DelegationAnswersAgree /\ TokenAnswersAgree
          /\ WindowAnswered
=============================================================================
