------------------------------ MODULE BaseApp ------------------------------
(***************************************************************************)
(* The ABCI application (gears/src/baseapp): the multi store on disk with  *)
(* its application caches, the check and deliver modes with their tx and   *)
(* block caches and block gas meters, and the handlers Tendermint calls.   *)
(* Each handler runs under the write locks of the state and the multi      *)
(* store (module BaseAppLocks), so it is one step; the process may die     *)
(* between handlers and inside commit, which saves store after store.      *)
(***************************************************************************)
EXTENDS KVCache, GasMeter, Sequences

CONSTANTS Store,      \* the store keys of the application
          Batches,    \* what a handler may write: one disjoint cache per store
          Txs,        \* the transactions Tendermint may send
          ParamsStore,\* the one the consensus params are in
          BlockGas,   \* max_gas of the consensus params (<= 0: no limit)
          MaxHeight   \* bound: blocks in a behaviour

Tx == [decodes : BOOLEAN, anteOk : BOOLEAN, msgsOk : BOOLEAN,
       ante : Batches, msgs : Batches, gas : Gas]

ASSUME BaseAppAssumption ==
    /\ ParamsStore \in Store
    /\ Batches \subseteq {w \in [Store -> Cache] : \A s \in Store : Disjoint(w[s])}
    /\ Txs \subseteq Tx
    /\ BlockGas \in Int /\ BlockGas <= GasMax
    /\ MaxHeight \in Nat

VARIABLES disk,          \* [Store -> Seq(Content)]: saved versions of each tree
          app,           \* ApplicationMultiBank: [Store -> Cache]
          headVersion,   \* ApplicationMultiBank.head_version
          check,         \* CheckTxMode.multi_store
          deliver,       \* DeliverTxMode.multi_store
          checkMeter,    \* CheckTxMode.block_gas_meter
          deliverMeter,  \* DeliverTxMode.block_gas_meter
          info,          \* ApplicationState.last_height and head_hash
          header,        \* height of block_header
          phase,         \* where the consensus connection is in a block
          params,        \* consensus params: "none", "cached" in app or "saved"
          checked,       \* history: what check_tx wrote since check mode was reset
          tears          \* history: crashes between the saves of two stores

stores == <<disk, app, headVersion, params, tears>>
modes == <<check, deliver, checkMeter, deliverMeter, checked>>
vars == <<stores, modes, info, header, phase>>

-----------------------------------------------------------------------------
(* The multi store: every operation is the same one on each store.         *)

Tree(d, s) == IF d[s] = <<>> THEN Empty ELSE d[s][Len(d[s])]

NoCaches == [s \in Store |-> EmptyCache]

NothingChecked == [s \in Store |-> {}]

EmptyBank == [tx |-> NoCaches, block |-> NoCaches]

Pour(dst, src) == [s \in Store |-> SetsThenDeletes(dst[s], src[s])]

Upgrade(bank) == [tx |-> NoCaches, block |-> Pour(bank.block, bank.tx)]

ClearTx(bank) == [bank EXCEPT !.tx = NoCaches]

\* The writes of a handler that works on the tx cache.
WriteTx(bank, w) == [bank EXCEPT !.tx = Pour(@, w)]

\* Mutated form of AppendBlockCache: the application cache is not appended.
AppendNothing(bank, cache) == bank

AppendBlockCache(bank, cache) == [bank EXCEPT !.block = Pour(@, cache)]

\* The app hash: opaque, but a function of what every tree holds.
Hash(d) == [s \in Store |-> Tree(d, s)]

\* Mutated form of InfoOf: the height of the block before.
StaleInfo(head, d) == [height |-> IF head = 0 THEN 0 ELSE head - 1, hash |-> Hash(d)]

\* ApplicationState.last_height and head_hash, as set by new and by commit.
InfoOf(head, d) == [height |-> head, hash |-> Hash(d)]

-----------------------------------------------------------------------------
(* BaseApp::run_tx for the two modes, as the new bank and meter.           *)

\* Mutated form of Refused: the block meter is not consulted.
NeverRefuses(mode, meter) == FALSE

\* ExecutionMode::runnable.
Refused(mode, meter) == mode = "deliver" /\ IsOutOfGas(meter)

\* Mutated form of AfterAnte: its writes stay in the tx cache.
AnteNotUpgraded(bank, tx) ==
    IF tx.anteOk THEN WriteTx(bank, tx.ante) ELSE ClearTx(WriteTx(bank, tx.ante))

\* ExecutionMode::run_ante_checks and the upgrade that follows a success.
AfterAnte(bank, tx) ==
    IF tx.anteOk THEN Upgrade(WriteTx(bank, tx.ante)) ELSE ClearTx(WriteTx(bank, tx.ante))

\* ExecutionMode::run_msg: nothing in check mode, all messages in deliver mode.
AfterMsgs(mode, bank, tx) ==
    IF mode = "check" THEN bank
    ELSE IF tx.msgsOk THEN WriteTx(bank, tx.msgs) ELSE ClearTx(WriteTx(bank, tx.msgs))

(***************************************************************************)
(* The gas charged to the block is what the tx meter showed after the ante *)
(* handler, and it is charged only when the messages succeeded.  A charge  *)
(* the block meter refuses returns without touching the tx cache.          *)
(***************************************************************************)
RunTx(mode, bank, meter, tx) ==
    IF ~tx.decodes \/ Refused(mode, meter)
    THEN [bank |-> bank, meter |-> meter]
    ELSE IF ~tx.anteOk \/ (mode = "deliver" /\ ~tx.msgsOk)
    THEN [bank |-> IF tx.anteOk THEN AfterMsgs(mode, AfterAnte(bank, tx), tx)
                                ELSE AfterAnte(bank, tx),
          meter |-> meter]
    ELSE LET done == AfterMsgs(mode, AfterAnte(bank, tx), tx)
             charge == ConsumeGas(meter, tx.gas)
         IN [bank |-> IF charge.err = "none" THEN Upgrade(done) ELSE done,
             meter |-> charge.meter]

-----------------------------------------------------------------------------
(* The handlers.  phase is the order in which Tendermint calls them.       *)

InitChain(w) ==
    /\ phase = "genesis"
    /\ app' = Pour(app, w)
    /\ check' = AppendBlockCache(check, app')
    /\ deliver' = AppendBlockCache(deliver, app')
    /\ params' = IF params = "none" THEN "cached" ELSE params
    /\ phase' = "idle"
    /\ UNCHANGED <<disk, headVersion, checkMeter, deliverMeter, info, header, checked, tears>>

\* block_params, or the default of their max_gas.
MaxGas(p) == IF p = "none" THEN 0 ELSE BlockGas

BeginBlock(w) ==
    /\ phase = "idle"
    /\ \A s \in Store : Len(disk[s]) < MaxHeight
    /\ header' = info.height + 1
    /\ checkMeter' = MeterFor(MaxGas(params))
    /\ deliverMeter' = checkMeter'
    /\ app' = Pour(app, w)
    /\ check' = AppendBlockCache(check, app')
    /\ deliver' = AppendBlockCache(deliver, app')
    /\ phase' = "block"
    /\ UNCHANGED <<disk, headVersion, info, params, checked, tears>>

\* Bound: the gas metered in a block fits the width of Gas.
GasFits(meter, tx) == meter.consumed + tx.gas <= GasMax

DeliverTx(tx) ==
    LET r == RunTx("deliver", deliver, deliverMeter, tx)
    IN /\ phase = "block"
       /\ GasFits(deliverMeter, tx)
       /\ deliver' = r.bank
       /\ deliverMeter' = r.meter
       /\ UNCHANGED <<stores, check, checkMeter, info, header, phase, checked>>

\* What a family of caches writes or deletes.
Touched(w) ==
    [s \in Store |-> {k \in Key : k \in w[s].delete \/ w[s].storage[k] # None}]

\* The mempool connection is independent of the consensus one.
CheckTx(tx) ==
    LET r == RunTx("check", check, checkMeter, tx)
    IN /\ phase # "genesis"
       /\ GasFits(checkMeter, tx)
       /\ check' = r.bank
       /\ checkMeter' = r.meter
       /\ checked' = IF tx.decodes /\ tx.anteOk THEN [s \in Store |-> checked[s] \cup Touched(tx.ante)[s]]
                     ELSE checked
       /\ UNCHANGED <<stores, deliver, deliverMeter, info, header, phase>>

\* Mutated form of TakeBlockCache: the block's transactions are dropped.
TakeNothing(cache, bank) == cache

\* ApplicationState::take_block_cache.
TakeBlockCache(cache, bank) ==
    [s \in Store |-> DeletesThenSets(cache[s], bank.block[s])]

EndBlock(w) ==
    /\ phase = "block"
    /\ app' = Pour(TakeBlockCache(app, deliver), w)
    /\ check' = AppendBlockCache(check, app')
    /\ deliver' = AppendBlockCache([deliver EXCEPT !.block = NoCaches], app')
    /\ phase' = "ended"
    /\ UNCHANGED <<disk, headVersion, checkMeter, deliverMeter, info, header,
                   params, checked, tears>>

\* What MultiBank::commit saves for a store, the deliver cache consumed first.
Saved(s) ==
    Append(disk[s], CommitTree(Tree(disk, s), SetsThenDeletes(app[s], deliver.block[s])))

\* MultiBank::commit counts its commits itself.
NextHead == headVersion + 1

\* Mutated form of ResetCheck: check mode keeps its caches over the commit.
KeepCheck == check

\* Check mode drops both of its caches.
ResetCheck == EmptyBank

Commit ==
    /\ phase = "ended"
    /\ disk' = [s \in Store |-> Saved(s)]
    /\ app' = NoCaches
    /\ check' = ResetCheck
    /\ deliver' = EmptyBank
    /\ headVersion' = NextHead
    /\ info' = InfoOf(headVersion', disk')
    /\ params' = IF params = "cached" THEN "saved" ELSE params
    /\ checked' = NothingChecked
    /\ phase' = "idle"
    /\ UNCHANGED <<checkMeter, deliverMeter, header, tears>>

(***************************************************************************)
(* BaseApp::new over what is on disk: every store is opened at its own     *)
(* latest version, and head_version is that of the store iterated last, in *)
(* HashMap order.  Without a committed block Tendermint starts with        *)
(* init_chain.                                                             *)
(***************************************************************************)
Restart(saved) ==
    /\ app' = NoCaches
    /\ check' = EmptyBank
    /\ deliver' = EmptyBank
    /\ \E s \in Store : headVersion' = Len(disk'[s])
    /\ info' = InfoOf(headVersion', disk')
    /\ params' = IF saved THEN "saved" ELSE "none"
    /\ checkMeter' = MeterFor(MaxGas(params'))
    /\ deliverMeter' = checkMeter'
    /\ checked' = NothingChecked
    /\ header' = 0
    /\ phase' = IF headVersion' = 0 THEN "genesis" ELSE "idle"

Crash ==
    /\ UNCHANGED <<disk, tears>>
    /\ Restart(params = "saved")

(***************************************************************************)
(* The process dies while commit saves the stores, or after the last save  *)
(* and before Tendermint has the answer.  One store's save is atomic (its  *)
(* root is written last); nothing makes the saves of all of them atomic.   *)
(***************************************************************************)
CrashInCommit ==
    /\ phase = "ended"
    /\ \E done \in SUBSET Store :
          /\ disk' = [s \in Store |-> IF s \in done THEN Saved(s) ELSE disk[s]]
          /\ tears' = IF done \in {{}, Store} THEN tears ELSE tears + 1
          /\ Restart(params = "saved" \/ (params = "cached" /\ ParamsStore \in done))

Init ==
    /\ disk = [s \in Store |-> <<>>]
    /\ app = NoCaches
    /\ headVersion = 0
    /\ check = EmptyBank
    /\ deliver = EmptyBank
    /\ checkMeter = InfiniteMeter
    /\ deliverMeter = InfiniteMeter
    /\ info = InfoOf(0, disk)
    /\ header = 0
    /\ phase = "genesis"
    /\ params = "none"
    /\ checked = NothingChecked
    /\ tears = 0

Next ==
    \/ \E w \in Batches : InitChain(w) \/ BeginBlock(w) \/ EndBlock(w)
    \/ \E tx \in Txs : DeliverTx(tx) \/ CheckTx(tx)
    \/ Commit
    \/ Crash
    \/ CrashInCommit

Spec == Init /\ [][Next]_vars

-----------------------------------------------------------------------------
(* Properties.                                                             *)

Bank == [tx : [Store -> Cache], block : [Store -> Cache]]

TypeOK ==
    /\ disk \in [Store -> Seq(Content)]
    /\ app \in [Store -> Cache]
    /\ headVersion \in Nat
    /\ check \in Bank
    /\ deliver \in Bank
    /\ checkMeter \in Meter
    /\ deliverMeter \in Meter
    /\ info \in [height : Nat, hash : [Store -> Content]]
    /\ header \in Nat
    /\ phase \in {"genesis", "idle", "block", "ended"}
    /\ params \in {"none", "cached", "saved"}
    /\ checked \in [Store -> SUBSET Key]
    /\ tears \in Nat

\* What each layer reads (`get`), store by store.
AppView == [s \in Store |-> Overlay(app[s], Tree(disk, s))]
View(bank) ==
    [s \in Store |-> Overlay(bank.tx[s], Overlay(bank.block[s], Tree(disk, s)))]

Over(w, view) == [s \in Store |-> Overlay(w[s], view[s])]

(***************************************************************************)
(* Between two calls no mode holds uncommitted transaction writes, so the  *)
(* leftovers of a failed transaction can never be upgraded by the next one *)
(* (run_tx clears the tx cache on an ante or message error, but not when   *)
(* the block meter refuses the charge).                                    *)
(***************************************************************************)
TxCachesEmpty == check.tx = NoCaches /\ deliver.tx = NoCaches

(***************************************************************************)
(* deliver_tx is atomic: in whatever state it is called, the block then    *)
(* reads the whole transaction, or only its ante part when a message       *)
(* failed, or nothing of it when it did not decode, was refused for block  *)
(* gas or failed its ante checks.                                          *)
(***************************************************************************)
DeliverAtomic ==
    \A tx \in Txs : GasFits(deliverMeter, tx) =>
        View(RunTx("deliver", deliver, deliverMeter, tx).bank) =
            IF ~tx.decodes \/ IsOutOfGas(deliverMeter) \/ ~tx.anteOk THEN View(deliver)
            ELSE IF ~tx.msgsOk THEN Over(tx.ante, View(deliver))
            ELSE Over(tx.msgs, Over(tx.ante, View(deliver)))

(***************************************************************************)
(* check_tx shows the mempool the ante part of an accepted transaction and *)
(* nothing of its messages, even when the block meter of check mode then   *)
(* refuses it.                                                             *)
(***************************************************************************)
CheckAppliesAnte ==
    \A tx \in Txs : GasFits(checkMeter, tx) =>
        View(RunTx("check", check, checkMeter, tx).bank) =
            IF tx.decodes /\ tx.anteOk THEN Over(tx.ante, View(check)) ELSE View(check)

(***************************************************************************)
(* Outside a block the application bank, which begin_block, end_block and  *)
(* commit work on, and the deliver bank, which transactions work on, read  *)
(* the same: nothing is lost or reordered when their caches are appended,  *)
(* taken and consumed.                                                     *)
(***************************************************************************)
ModesAgree == phase # "block" => AppView = View(deliver)

(***************************************************************************)
(* Check mode reads what the application bank reads, except for the keys   *)
(* that transactions checked since the last commit wrote: the caches it is *)
(* appended to again and again neither lose nor keep anything else, and    *)
(* nothing of a block outlives its commit.                                 *)
(***************************************************************************)
CheckFollowsApp ==
    \A s \in Store, k \in Key :
        k \notin checked[s] => View(check)[s][k] = AppView[s][k]

(***************************************************************************)
(* What info answers and how far the stores are apart.  The height is that *)
(* of some store, the hash that of the latest version of each.  The stores *)
(* have as many versions as info says, one more or less for every crash    *)
(* that fell between the saves of two of them: without such a crash a      *)
(* restart reports what the process reported before it died, and after one *)
(* nothing brings the stores together again, but commits and other crashes *)
(* do not drive them further apart either.                                 *)
(***************************************************************************)
InfoMatchesDisk ==
    /\ info.height = headVersion
    /\ \E s \in Store : headVersion = Len(disk[s])
    /\ \A s \in Store : info.hash[s] = Tree(disk, s)
    /\ \A s1, s2 \in Store : Len(disk[s1]) - Len(disk[s2]) <= tears

(***************************************************************************)
(* The gas charged to a block stays below its limit plus one transaction:  *)
(* once the limit is reached every further transaction is refused.         *)
(***************************************************************************)
BlockGasBounded ==
    deliverMeter.infinite \/ deliverMeter.consumed = 0 \/
        \E tx \in Txs : deliverMeter.consumed < deliverMeter.limit + tx.gas

(***************************************************************************)
(* The handlers implement the ledger of module BlockLedger: hooks and      *)
(* transactions change a pending state, commit appends exactly that state  *)
(* to the history of every store, check_tx changes nothing, a crash falls  *)
(* back to the last commit of every store, also when it stopped a commit   *)
(* half way.                                                               *)
(***************************************************************************)
Ledger == INSTANCE BlockLedger WITH history <- disk, pending <- View(deliver),
                                    stage <- phase

LedgerSpec == Ledger!Spec
=============================================================================
