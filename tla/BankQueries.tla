---------------------------- MODULE BankQueries ----------------------------
(***************************************************************************)
(* The queries of x/bank and x/auth: what each answers, and which can be   *)
(* asked over ABCI, gRPC, REST and with the command line; the metadata of  *)
(* denominations, written at genesis and only read afterwards.  Answers in *)
(* pages are module Pages.  What may be missing from an answer is a set of *)
(* at most one element.                                                    *)
(***************************************************************************)
EXTENDS Ante, SequencesExt

CONSTANTS Metadata,       \* metadata of denominations: records with a base and a name
          GenesisFile,    \* the metadata listed in the genesis file
          AddedMetadata   \* lists a command may add to it

ASSUME MetadataAssumption ==
    /\ Metadata \subseteq [base : Denom, name : STRING]
    /\ GenesisFile \in Seq(Metadata) /\ AddedMetadata \subseteq Seq(Metadata)

BankKinds == {"Balance", "AllBalances", "TotalSupply", "DenomsMetadata", "DenomMetadata", "Params",
              "SupplyOf", "Spendable"}

BankRequests ==
    [kind : {"Balance"}, address : Holder, denom : Denom]
    \cup [kind : {"AllBalances", "Spendable"}, address : Holder]
    \cup [kind : {"SupplyOf", "DenomMetadata"}, denom : Denom]
    \cup [kind : {"TotalSupply", "DenomsMetadata", "Params"}]

AuthKinds == {"Account", "Accounts", "Params"}

AuthRequests == [kind : {"Account"}, address : Holder] \cup [kind : {"Accounts", "Params"}]

-----------------------------------------------------------------------------
(* The metadata.                                                           *)

\* Vec::dedup: of neighbours that are equal only the first stays.
Dedup(s) == FoldLeft(LAMBDA r, m : IF r # <<>> /\ Last(r) = m THEN r ELSE Append(r, m), <<>>, s)

ByName(s) == {m \in ToSet(s) : \A i \in DOMAIN s : s[i].name = m.name =>
                 \E j \in DOMAIN s : j >= i /\ s[j] = m}

\* add_coins_meta_to_genesis: the metadata by name that the genesis file holds
\* afterwards, in some order; none when the command fails.
AddCoinsMeta(file, added, dedup, overwrite) ==
    LET new == Dedup(added)
        Insert(found, m) ==
            {(S \ {k \in S : k.name = m.name}) \cup {m} :
                S \in {S \in found : overwrite \/ \A k \in S : k.name # m.name}}
    IN IF ~dedup /\ new # added THEN {} ELSE FoldLeft(Insert, {ByName(file)}, new)

\* set_denom_metadata for each, in the order of the file.
StoredMetadata(file) ==
    {m \in ToSet(file) : \E i \in DOMAIN file : file[i] = m /\
        \A j \in DOMAIN file : j > i => file[j].base # m.base}

QueryDenomsMetadata == StoredMetadata(GenesisFile)
QueryDenomMetadata(d) == {m \in StoredMetadata(GenesisFile) : m.base = d}

-----------------------------------------------------------------------------
(* Balances and supply.  A coin of zero is never stored.                   *)

Coin(d, n) == [denom |-> d, amount |-> n]

AmountIn(coins, d) == Total([c \in coins |-> IF c.denom = d THEN c.amount ELSE 0], coins)

QueryBalance(l, a, d) == {Coin(d, n) : n \in {l.bal[a][d]} \ {0}}

BalanceAll(l, a) == UNION {QueryBalance(l, a, d) : d \in Denom}

\* No coins are locked; but the list of the locked coins may not be empty, so
\* that the keeper always fails, and the answer is empty then.
LockedCoins(l, a) == {}
QuerySpendable(l, a) ==
    {c \in {Coin(b.denom, b.amount - AmountIn(LockedCoins(l, a), b.denom)) : b \in BalanceAll(l, a)} :
        LockedCoins(l, a) # {} /\ c.amount > 0}

QuerySupplyOf(l, d) == {Coin(d, n) : n \in {l.supply[d]} \ {0}}

QueryTotalSupply(l) == {Coin(d, l.supply[d]) : d \in {d \in Denom : l.supply[d] # 0}}

\* The balance that x/gov asks for is read as a number where a coin is
\* stored: it panics unless there is none.
GovBalancePanics(l, a, d) == QueryBalance(l, a, d) # {}

-----------------------------------------------------------------------------
(* Accounts.                                                               *)

QueryAccount(l, a) == {[address |-> h, account |-> l.acct[h]] : h \in {h \in {a} : HasAccount(l, h)}}

QueryAccounts(l) == {[address |-> h, account |-> l.acct[h]] : h \in {h \in Holder : HasAccount(l, h)}}

\* A base account has no permissions.
HasPermissions(account, permission) == permission \in account.permissions

\* add_genesis_account of x/auth and of x/bank: the first refuses an address
\* that is listed, the second lists it again.
AddGenesisAccount(accounts, balances, a, coins) ==
    IF a \in ToSet(accounts) THEN {}
    ELSE {[accounts |-> Append(accounts, a), balances |-> Append(balances, [address |-> a, coins |-> coins])]}

-----------------------------------------------------------------------------
(* The ways in.                                                            *)

\* The path of a request over ABCI: that of a supply is that of all of them.
QueryUrl(kind) == IF kind = "SupplyOf" THEN "TotalSupply" ELSE kind

BankAbciUrls == {"AllBalances", "TotalSupply", "Balance", "DenomsMetadata", "DenomMetadata", "Params"}
BankGrpcKinds == BankKinds
BankRestKinds == BankKinds \ {"DenomsMetadata", "Spendable"}
AuthAbciUrls == AuthKinds
AuthGrpcKinds == AuthKinds
AuthRestKinds == AuthKinds

\* The commands and the kind of query that each sends, and decodes.
BankCliKind(command) ==
    CASE command = "balances"       -> "AllBalances"
      [] command = "denom-metadata" -> "DenomsMetadata"
      [] command = "total"          -> "TotalSupply"
AuthCliKind(command) ==
    CASE command = "account"  -> "Account"
      [] command = "accounts" -> "Accounts"
      [] command = "params"   -> "Params"

\* Sends one coin; a list of coins may not hold a zero.
CliSend(from, to, d, n) ==
    IF n = 0 THEN {}
    ELSE {[kind |-> "send", from |-> from, to |-> to,
           coins |-> [e \in Denom |-> IF e = d THEN n ELSE 0]]}

\* What the handlers of x/bank answer, by the kind of request.
BankAnswer(l, q) ==
    CASE q.kind = "Balance"        -> QueryBalance(l, q.address, q.denom)
      [] q.kind = "AllBalances"    -> BalanceAll(l, q.address)
      [] q.kind = "Spendable"      -> QuerySpendable(l, q.address)
      [] q.kind = "TotalSupply"    -> QueryTotalSupply(l)
      [] q.kind = "SupplyOf"       -> QuerySupplyOf(l, q.denom)
      [] q.kind = "DenomsMetadata" -> QueryDenomsMetadata
      [] q.kind = "DenomMetadata"  -> QueryDenomMetadata(q.denom)
      [] q.kind = "Params"         -> {[d \in Denom |-> d \in SendEnabled]}

\* The parameters of x/auth are in module Params.
AuthAnswer(l, q) ==
    CASE q.kind = "Account"  -> QueryAccount(l, q.address)
      [] q.kind = "Accounts" -> QueryAccounts(l)

\* Every command sends what is answered as what it asked for; two kinds are
\* not, over ABCI: the supply of one denomination and what may be spent.
\* Metadata is added once per name, and the list that is written does not
\* depend on its order unless two names share a base.
ASSUME BankRoutesAssumption ==
    /\ {q.kind : q \in BankRequests} = BankKinds /\ {q.kind : q \in AuthRequests} = AuthKinds
    /\ \A c \in {"balances", "denom-metadata", "total"} : QueryUrl(BankCliKind(c)) = BankCliKind(c)
    /\ {QueryUrl(BankCliKind(c)) : c \in {"balances", "denom-metadata", "total"}} \subseteq BankAbciUrls
    /\ {AuthCliKind(c) : c \in {"account", "accounts", "params"}} = AuthAbciUrls
    /\ {k \in BankKinds : QueryUrl(k) # k \/ QueryUrl(k) \notin BankAbciUrls} = {"SupplyOf", "Spendable"}
    /\ BankRestKinds \subseteq BankGrpcKinds /\ AuthRestKinds \subseteq AuthGrpcKinds
    /\ \A a, b \in Holder, d \in Denom : CliSend(a, b, d, 0) = {} /\ CliSend(a, b, d, 1) # {}
    /\ \A a \in Holder : AddGenesisAccount(<<a>>, <<>>, a, {}) = {}
    /\ \A added \in AddedMetadata, dedup, overwrite \in BOOLEAN :
          \A S \in AddCoinsMeta(GenesisFile, added, dedup, overwrite) :
             /\ \A m, k \in S : m.name = k.name => m = k
             /\ \A m \in ToSet(GenesisFile) : \E k \in S : k.name = m.name
             /\ ~overwrite => S \cap ToSet(added) = ToSet(added) /\ ByName(GenesisFile) \subseteq S
             /\ (\A m, k \in S : m.base = k.base => m = k) =>
                   \A f \in SetToSeqs(S) : StoredMetadata(f) = S

-----------------------------------------------------------------------------
(* Properties.                                                             *)

(***************************************************************************)
(* No coin appears or vanishes: the recorded supply of each denomination   *)
(* is the sum of all balances, whatever is sent (to oneself too), minted,  *)
(* burned, delegated or paid out, and whichever of these fail half way; as *)
(* a client sees it, who adds up what it is answered for each address and  *)
(* compares it with the supplies, asked for one by one or together.        *)
(***************************************************************************)
SupplyIsBalances ==
    \A d \in Denom :
        LET held == Total([h \in Holder |->
                AmountIn(BankAnswer(ledger, [kind |-> "AllBalances", address |-> h]), d)], Holder)
        IN /\ AmountIn(BankAnswer(ledger, [kind |-> "TotalSupply"]), d) = held
           /\ AmountIn(BankAnswer(ledger, [kind |-> "SupplyOf", denom |-> d]), d) = held

(***************************************************************************)
(* A transaction is accepted at most once: no sequence number of any       *)
(* signer, the fee payer included, is ever accepted twice, even when the   *)
(* message failed, the account was emptied or it received coins again; and *)
(* the number of the account, which the signature covers as well, is that  *)
(* of no other account, however accounts are created: at genesis, for a    *)
(* recipient, for a module.                                                *)
(***************************************************************************)
NoReplay ==
    /\ \A a \in Addr, n \in SeqNo : uses[a][n] <= 1
    /\ \A r, s \in AuthAnswer(ledger, [kind |-> "Accounts"]) :
          r.account.number = s.account.number => r.address = s.address
=============================================================================
