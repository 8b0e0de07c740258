------------------------------- MODULE Params -------------------------------
(***************************************************************************)
(* The parameter store: one subspace per module, one key per parameter,    *)
(* written and read in the module's own format, and the change of single   *)
(* keys by a proposal of x/gov.                                            *)
(*                                                                         *)
(* What is stored under a key is bytes; of these only the form matters:    *)
(* what the text is, and whether it is between quotation marks.  A number  *)
(* is "u32", or "i64" when it needs more, or "negative"; a decimal that is *)
(* not whole is "decimal"; each structure in JSON is a form of its own.    *)
(***************************************************************************)
EXTENDS Naturals, Sequences

Structures ==
    {"BlockParams", "EvidenceParams", "ValidatorParams", "SendEnabled", "AllowedClients",
     "DepositParams", "VotingParams", "TallyParams"}

Raws == [as : Structures \cup {"u32", "i64", "negative", "decimal", "bool", "denom", "text"},
         quoted : BOOLEAN]

Plain(form) == [as |-> form, quoted |-> FALSE]
Quoted(form) == [as |-> form, quoted |-> TRUE]

-----------------------------------------------------------------------------
(* ParamKind: how bytes are taken for a value.                             *)

NumbersOf(kind) ==
    CASE kind = "U64" -> {"u32", "i64"}
      [] kind = "U32" -> {"u32"}
      [] kind = "I64" -> {"u32", "i64", "negative"}

\* A number may have quotation marks; what is no number panics, where what is
\* no truth value is an invalid cast.
ParsePanics(kind, raw) ==
    kind \in {"U64", "U32", "I64"} /\ raw.as \notin NumbersOf(kind)

Parsed(kind, raw) == IF kind = "Bool" /\ raw # Plain("bool") THEN "InvalidCast" ELSE kind

\* unsigned_64, signed_64, ...: nothing unless the value is of that kind.
TakenAs(kind, raw, wanted) == ~ParsePanics(kind, raw) /\ Parsed(kind, raw) = wanted

-----------------------------------------------------------------------------
(* The parameters of each module: key, the form it is written in, and the  *)
(* forms it is read from; any other one is taken for corruption: a panic.  *)

Param(space, key, written, read) ==
    [space |-> space, key |-> key, written |-> written, read |-> read]

Number(space, key, kind) ==
    Param(space, key, Quoted("u32"), {r \in Raws : TakenAs(kind, r, kind)})
Json(space, key, structure) == Param(space, key, Plain(structure), {Plain(structure)})
Natural32(space, key) == Param(space, key, Plain("u32"), {Plain("u32")})
Truth(space, key) == Param(space, key, Plain("bool"), {r \in Raws : TakenAs("Bool", r, "Bool")})

\* Decimal256::from_str, and the digits of its atomics.
Fraction(space, key) == Param(space, key, Plain("decimal"), {Plain("decimal"), Plain("u32"), Plain("i64")})
Atomics(space, key) == Param(space, key, Plain("i64"), {Plain("u32"), Plain("i64")})

\* Denom::try_from: any word, such as that for a truth value.
Denomination(space, key, quoted) ==
    Param(space, key, [as |-> "denom", quoted |-> quoted],
          [as : {"denom", "bool"}, quoted : {quoted}])

AuthParams ==
    {Number("auth", k, "U64") : k \in {"MaxMemoCharacters", "TxSigLimit", "TxSizeCostPerByte",
                                       "SigVerifyCostED25519", "SigVerifyCostSecp256k1"}}

BankParams == {Truth("bank", "DefaultSendEnabled"), Json("bank", "SendEnabled", "SendEnabled")}

StakingParams ==
    {Number("staking", "UnbondingTime", "I64"),
     Denomination("staking", "BondDenom", TRUE)}
    \cup {Natural32("staking", k) : k \in {"MaxValidators", "MaxEntries", "HistoricalEntries"}}

GovParams == {Json("gov", "depositparams", "DepositParams"),
              Json("gov", "votingparams", "VotingParams"),
              Json("gov", "tallyparams", "TallyParams")}

ConsensusParams ==
    {Json("baseapp", k, k) : k \in {"BlockParams", "EvidenceParams", "ValidatorParams"}}

MintParams ==
    {Denomination("mint", "MintDenom", FALSE),
     Natural32("mint", "BlocksPerYear")}
    \cup {Atomics("mint", k) : k \in {"InflationRateChange", "InflationMax", "InflationMin", "GoalBonded"}}

DistributionParams ==
    {Fraction("distribution", k) : k \in {"communitytax", "baseproposerreward", "bonusproposerreward"}}
    \cup {Truth("distribution", "withdrawaddrenabled")}

SlashingParams ==
    {Number("slashing", k, "I64") : k \in {"SignedBlocksWindow", "DowntimeJailDuration"}}
    \cup {Fraction("slashing", k) : k \in {"MinSignedPerWindow", "SlashFractionDoubleSign",
                                           "SlashFractionDowntime"}}

ClientParams == {Json("ibc", "AllowedClients", "AllowedClients")}
ConnectionParams == {Number("ibc", "MaxExpectedTimePerBlock", "U64")}

AllParams == AuthParams \cup BankParams \cup StakingParams \cup GovParams \cup ConsensusParams
             \cup MintParams \cup DistributionParams \cup SlashingParams
             \cup ClientParams \cup ConnectionParams

-----------------------------------------------------------------------------
(* ParamsKeeper::validate of each module: what a proposal may set.  What   *)
(* is no number is not refused where one is wanted: the parser panics.     *)

AuthValid(key, raw) == TakenAs("U64", raw, "U64")
BankValid(key, raw) == key = "SendEnabled" /\ TakenAs("Bool", raw, "Bool")

\* The limits are parsed as U32 and then wanted as I64: never.
StakingValid(key, raw) ==
    CASE key = "UnbondingTime" -> TakenAs("I64", raw, "I64")
      [] key = "BondDenom"     -> TRUE
      [] OTHER                 -> TakenAs("U32", raw, "I64")

JsonValid(params, key, raw) == \E p \in params : p.key = key /\ raw \in p.read
GovValid(key, raw) == JsonValid(GovParams, key, raw)
ConsensusValid(key, raw) == JsonValid(ConsensusParams, key, raw)

MintValid(key, raw) == \E p \in MintParams : p.key = key /\ raw \in p.read

CheckKey(params, key) == key \in {p.key : p \in params}

-----------------------------------------------------------------------------
(* A subspace is a function from the keys that are set to what is stored.  *)

ToRaw(params) == [k \in {p.key : p \in params} |-> (CHOOSE p \in params : p.key = k).written]

RawKeySet(sub, key, raw) == [k \in DOMAIN sub \cup {key} |-> IF k = key THEN raw ELSE sub[k]]

ParamsSet(sub, params) ==
    [k \in DOMAIN sub \cup {p.key : p \in params} |->
        IF CheckKey(params, k) THEN ToRaw(params)[k] ELSE sub[k]]

\* Reading all parameters: the defaults if one of them is missing.
Complete(sub, params) == {p.key : p \in params} \subseteq DOMAIN sub
Get(sub, params) ==
    IF Complete(sub, params) THEN [k \in {p.key : p \in params} |-> sub[k]] ELSE ToRaw(params)
GetPanics(sub, params) ==
    Complete(sub, params) /\ \E p \in params : sub[p.key] \notin p.read

\* The consensus parameters are read one by one, with a default for each;
\* block parameters that cannot be read are taken for missing.
ConsensusParamsOf(sub) ==
    [k \in {p.key : p \in ConsensusParams} |-> IF k \in DOMAIN sub THEN sub[k] ELSE Plain(k)]
ConsensusParamsPanic(sub) ==
    \E k \in {"EvidenceParams", "ValidatorParams"} \cap DOMAIN sub : sub[k] # Plain(k)

-----------------------------------------------------------------------------
(* A proposal to change parameters: whatever the subspace that a change    *)
(* names, its key and value are checked by the one keeper the application  *)
(* gives the handler; gaia gives it that of the consensus parameters.      *)

CheckChange(c) == CheckKey(ConsensusParams, c.key) /\ ConsensusValid(c.key, c.value)
CheckChanges(changes) == \A i \in DOMAIN changes : CheckChange(changes[i])

\* The changes in their order, up to the first that is refused.
HandleChange(store, c) ==
    IF CheckChange(c) THEN [store EXCEPT ![c.space] = RawKeySet(@, c.key, c.value)] ELSE store

Spaces == {p.space : p \in AllParams}
Of(space) == {p \in AllParams : p.space = space}
Changes == [space : Spaces, key : {p.key : p \in AllParams}, value : Raws]
Fresh == [s \in Spaces |-> ParamsSet(<<>>, Of(s))]

\* What a module writes it can read, and reading it back gives what was
\* written.  A change that is accepted, to whatever subspace, leaves every
\* module's parameters readable and those of the other modules as they were.
ASSUME ParamsReadable ==
    \A s \in Spaces :
        /\ ~GetPanics(Fresh[s], Of(s))
        /\ Get(Fresh[s], Of(s)) = Fresh[s]
        /\ \A c \in {d \in Changes : CheckChange(d)} :
              LET sub == HandleChange(Fresh, c)[s]
              IN  /\ ~GetPanics(sub, Of(s)) /\ ~ConsensusParamsPanic(sub)
                  /\ s # "baseapp" => Get(sub, Of(s)) = Fresh[s]

\* Of the keepers that validate values, those of x/mint, x/gov, x/auth and of
\* the base application accept only what can be read back; those of x/bank
\* and x/staking accept values whose next reading panics, and that of
\* x/staking refuses every value for its limits.
ASSUME ValidatedReadable ==
    /\ \A p \in AuthParams, r \in Raws : AuthValid(p.key, r) <=> r \in p.read
    /\ \A p \in GovParams, r \in Raws : GovValid(p.key, r) <=> r \in p.read
    /\ \A p \in MintParams, r \in Raws : MintValid(p.key, r) <=> r \in p.read
    /\ \A r \in Raws : BankValid("SendEnabled", r) => GetPanics(RawKeySet(Fresh["bank"], "SendEnabled", r), BankParams)
    /\ {p.key : p \in {q \in StakingParams : \E r \in Raws : StakingValid(q.key, r) /\ r \notin q.read}} = {"BondDenom"}
    /\ {p.key : p \in {q \in StakingParams : \A r \in Raws : ~StakingValid(q.key, r)}}
          = {"MaxValidators", "MaxEntries", "HistoricalEntries"}
=============================================================================
