-------------------------------- MODULE Ante --------------------------------
(***************************************************************************)
(* Transactions delivered to a ledger: the ante handler                    *)
(* (gears/src/x/ante.rs), which checks the signers, takes the fee and      *)
(* counts the sequence up, and then the message, on the accounts and       *)
(* balances of module Bank; between them, what other modules do with the   *)
(* bank at the beginning and at the end of blocks.                         *)
(*                                                                         *)
(* A delivered transaction leaves nothing when its ante checks fail and    *)
(* only its ante part when its message fails, as module BaseApp shows.     *)
(***************************************************************************)
EXTENDS Bank, Sequences

CONSTANTS None,
          Coins,          \* lists of coins that move in one operation
          Fees,           \* fees, among them None
          GenesisUsers, GenesisModules, GenesisBalances,
          Timeouts,       \* timeout heights
          MaxTxs,         \* bound: transactions accepted
          MaxHeight,      \* bound: blocks
          MaxSupply       \* bound: supply of one denomination

\* add_genesis_account refuses an address that the file already has.
AddedOnce(entries) ==
    \A i, j \in DOMAIN entries : entries[i].addr = entries[j].addr => i = j

ASSUME AnteAssumption ==
    /\ Coins \subseteq [Denom -> Nat]
    /\ Fees \subseteq Coins \cup {None}
    /\ GenesisUsers \subseteq Addr /\ GenesisModules \subseteq Module
    /\ Timeouts \subseteq Nat
    /\ GenesisBalances \in GenesisEntries /\ AddedOnce(GenesisBalances)
    /\ MaxTxs \in Nat \ {0} /\ MaxHeight \in Nat /\ MaxSupply \in Nat

VARIABLES ledger, height,
          panicked,   \* where a handler panicked and the node stopped, if one did
          used,       \* how many transactions were accepted
          due,        \* ghost: the fees they offered, in all
          uses        \* ghost: how often each sequence number of a signer was accepted

vars == <<ledger, height, panicked, used, due, uses>>

-----------------------------------------------------------------------------
(* Transactions with one message and at most a second signer, the fee      *)
(* payer.  A transaction that fails a check of itself and the parameters   *)
(* alone (number of signatures and of signer infos, length of the memo,    *)
(* gas for its size and for the signatures, keys that match the signers, a *)
(* supported sign mode, signatures that verify) leaves nothing and is not  *)
(* enumerated.                                                             *)

SeqNo == 0 .. MaxTxs - 1

Message == [kind : {"send"}, from : Addr, to : Holder, coins : Coins]
             \cup [kind : {"delegate", "deposit"}, from : Addr, to : Module, coins : Coins]

\* get_signers: the signers of the message and the fee payer, once each.
Signers(tx) == {tx.msg.from} \cup ({tx.payer} \ {None})

\* keys: whose signer info carries a public key; sequence: as signed.
Tx ==
    {tx \in [msg : Message, payer : Addr \cup {None}, fee : Fees,
             sequence : [Addr -> SeqNo], keys : SUBSET Addr,
             timeout : Timeouts] :
        tx.keys \subseteq Signers(tx) /\ \A a \in Addr \ Signers(tx) : tx.sequence[a] = 0}

FeePayer(tx) == IF tx.payer = None THEN tx.msg.from ELSE tx.payer

\* A timeout of zero is no timeout.
Timely(tx) == tx.timeout = 0 \/ height <= tx.timeout

DeductFee(l, tx) ==
    IF ~HasAccount(l, FeePayer(tx)) THEN {}
    ELSE IF tx.fee = None THEN {l}
    ELSE AccountToModule(l, FeePayer(tx), FeeCollector, tx.fee)

\* Set the keys the transaction carries, for the accounts that have none.
SetPubKeys(l, tx) ==
    IF \E a \in tx.keys : ~HasAccount(l, a) THEN {}
    ELSE {[l EXCEPT !.acct = [h \in Holder |->
             IF h \in tx.keys THEN [l.acct[h] EXCEPT !.hasKey = TRUE] ELSE l.acct[h]]]}

\* sign_gas_consume goes through the signers: no account is an error, an
\* account without a key is a panic (`expect`).  The fee payer, the last, has
\* an account: deduct_fee_ante_handler looked.
KeyMissing(l, tx) ==
    HasAccount(l, tx.msg.from) /\ \E a \in Signers(tx) : ~l.acct[a].hasKey

\* Mutated form of VerifySignatures: the sequence is not compared.
VerifySignaturesOnly(l, tx) == \A a \in Signers(tx) : HasAccount(l, a)

VerifySignatures(l, tx) ==
    \A a \in Signers(tx) : HasAccount(l, a) /\ tx.sequence[a] = l.acct[a].sequence

IncrementSequence(l, tx) ==
    [l EXCEPT !.acct = [h \in Holder |->
        IF h \in Signers(tx) THEN [l.acct[h] EXCEPT !.sequence = @ + 1] ELSE l.acct[h]]]

\* The ledger at the point where public keys are first used, if it is reached.
BeforeSignatures(l, tx) ==
    IF ~Timely(tx) THEN {}
    ELSE UNION {SetPubKeys(l1, tx) : l1 \in DeductFee(l, tx)}

\* BaseAnteHandler::run.
Run(l, tx) ==
    {IncrementSequence(l1, tx) : l1 \in
        {l2 \in BeforeSignatures(l, tx) : ~KeyMissing(l2, tx) /\ VerifySignatures(l2, tx)}}

RunMsg(l, m) ==
    CASE m.kind = "send" -> AccountToAccount(l, m.from, m.to, m.coins)
      [] m.kind = "delegate" -> DelegateCoins(l, m.from, m.to, m.coins)
      [] m.kind = "deposit" -> AccountToModule(l, m.from, m.to, m.coins)

-----------------------------------------------------------------------------
(* Actions.                                                                *)

\* Mutated form of AfterTx: a failed message takes the ante part with it.
AfterTxAllOrNothing(l, tx) == IF RunMsg(l, tx.msg) = {} THEN {ledger} ELSE RunMsg(l, tx.msg)

\* What a transaction whose ante part left l leaves.
AfterTx(l, tx) == IF RunMsg(l, tx.msg) = {} THEN {l} ELSE RunMsg(l, tx.msg)

Accepted(tx) == Run(ledger, tx) # {}

DeliverTx(tx) ==
    /\ panicked = None
    /\ Accepted(tx)
    /\ used < MaxTxs
    /\ used' = used + 1
    /\ due' = IF tx.fee = None THEN due ELSE Plus(due, tx.fee)
    /\ \E l \in Run(ledger, tx) : ledger' \in AfterTx(l, tx)
    /\ uses' = [a \in Addr |-> [n \in SeqNo |->
                  uses[a][n] + (IF a \in Signers(tx) /\ n = tx.sequence[a] THEN 1 ELSE 0)]]
    /\ UNCHANGED <<height, panicked>>

\* A signer's account has no key and the transaction brings none.
DeliverPanics(tx) ==
    /\ panicked = None
    /\ \E l \in BeforeSignatures(ledger, tx) : KeyMissing(l, tx)
    /\ panicked' = "pub_key"
    /\ UNCHANGED <<ledger, height, used, due, uses>>

\* x/mint: mint the provision of the block and hand it to the fee collector.
Minted(c) ==
    UNION {ModuleToModule(l, Minter, FeeCollector, c) : l \in MintCoins(ledger, Minter, c)}

MintBlock(c) ==
    /\ panicked = None
    /\ height < MaxHeight
    /\ \A d \in Denom : ledger.supply[d] + c[d] <= MaxSupply
    /\ ledger' \in Minted(c)
    /\ height' = height + 1
    /\ UNCHANGED <<panicked, used, due, uses>>

\* The denomination minted may not be sent, or the module may not mint.
MintPanics(c) ==
    /\ panicked = None
    /\ Minted(c) = {}
    /\ panicked' = "mint"
    /\ UNCHANGED <<ledger, height, used, due, uses>>

\* What other modules do at the end of a block, when it succeeds: burn, pay
\* back, pay out, move.
EndBlock(m, h, c) ==
    /\ panicked = None
    /\ ledger' \in
          BurnCoins(ledger, m, c)
            \cup (IF h \in Addr THEN UndelegateCoins(ledger, m, h, c) ELSE {})
            \cup ModuleToAccount(ledger, m, h, c)
            \cup (IF h \in Module THEN ModuleToModule(ledger, m, h, c) ELSE {})
    /\ UNCHANGED <<height, panicked, used, due, uses>>

Init ==
    /\ ledger = GenesisLedger(GenesisUsers, GenesisModules, GenesisBalances)
    /\ height = 1
    /\ panicked = None
    /\ uses = [a \in Addr |-> [n \in SeqNo |-> 0]]
    /\ used = 0 /\ due = [d \in Denom |-> 0]

Next ==
    \/ \E tx \in Tx : DeliverTx(tx) \/ DeliverPanics(tx)
    \/ \E c \in Coins : MintBlock(c) \/ MintPanics(c)
    \/ \E m \in Module, h \in Holder, c \in Coins : EndBlock(m, h, c)

Spec == Init /\ [][Next]_vars

-----------------------------------------------------------------------------
(* Properties.                                                             *)

TypeOK ==
    /\ ledger.acct \in [Holder -> Account \cup {NoAccount}]
    /\ ledger.next \in Nat
    /\ ledger.bal \in [Holder -> [Denom -> Nat]]
    /\ ledger.supply \in [Denom -> Nat]
    /\ height \in Nat /\ panicked \in {None, "pub_key", "mint"}

(***************************************************************************)
(* Whoever is accepted pays: a transaction whose ante checks passed leaves *)
(* the fee with the collector and its sequence numbers used, whether or    *)
(* not its message succeeds.                                               *)
(***************************************************************************)
AcceptedPays ==
    [][used' # used =>
          /\ Covers(ledger'.bal[FeeCollector],
                    Plus(ledger.bal[FeeCollector], Minus(due', due)))
          /\ \A a \in Addr : HasAccount(ledger', a) =>
                ledger'.acct[a].sequence = Total(uses'[a], SeqNo)]_vars
=============================================================================
