# gears in TLA+

gears is a framework, in Rust, for blockchain applications that run behind
Tendermint: Tendermint orders transactions and calls the application through
ABCI; the application keeps its state in versioned Merkle trees and is composed
of modules (`x/auth`, `x/bank`, `x/staking`, ...). This directory models its core
and its modules in TLA+, checks the models with TLC and proves the main results
about the core with TLAPS.

Paths below are relative to `src/`.

## 1. Inventory

### 1.1 The state under every module

| part | state | operations | what makes it correct |
|---|---|---|---|
| `trees/src/iavl` | a working tree with lazily loaded children; nodes by hash and root hashes by version in a database | `set`, `remove`, `get`, `range`, `save_version`, `Tree::new` | balanced, correctly hashed; a saved version never changes; a crash while saving harms nothing that was saved |
| `kv_store` banks | `ApplicationKVBank`: one cache over the tree. `TransactionKVBank`: a tx cache over a block cache over the same tree. A cache is a map of stored values and a set of deleted keys | `set`, `delete`, `get`, `range`; `upgrade_cache`, `append_block_cache`, `take_block_cache`, `consume_block_cache`, clears, `commit` | pending changes move between layers without changing what is read; ranges agree with `get` |
| `kv_store` multi bank | one bank per store, head version and hash | the same, for all stores | all stores at one height |
| gas (`gears/src/types/gas`, `.../store/gas`) | consumed and limit, 63 bits | `consume_gas`; every read, write, delete and iterator step is charged | bounded overshoot, nothing unpaid |

### 1.2 The application

`gears/src/baseapp` owns the application bank, and an `ApplicationState` with two
execution modes (check and deliver), each with a transaction multi bank and a
block gas meter. ABCI handlers: `init_chain`, `begin_block`, `deliver_tx`,
`end_block`, `commit`, `check_tx`, `query`, `info`. Begin and end of block work on
the application bank and are appended to both modes; transactions work on a mode;
`end_block` takes the deliver block cache over, `commit` consumes what is left,
saves every tree and drops the check caches.

Three `RwLock`s (multi store, state, header) and one per tree are shared by the
three ABCI connections and the REST and gRPC servers, each on a thread of its own.
A panicking handler poisons what it holds for writing and, through a drop guard
(`tendermint/src/application.rs`), cancels the ABCI server.

`gears/src/x/ante.rs` runs before the messages of every transaction: checks of the
transaction by itself, timeout, fee, public keys, signatures and sequence numbers.
`gears/src/params` keeps the parameters of all modules, one subspace each; a
proposal may change single keys. Queries come over ABCI, REST and gRPC, and read
the latest committed version, long lists page by page.

### 1.3 Modules of the chain

| part | state | operations | what makes it correct |
|---|---|---|---|
| `x/auth`, `x/bank` | accounts with number and sequence; balances, supply, metadata, permissions of modules | sends, mint, burn, delegation of coins, genesis, queries | the supply is the sum of the balances, whatever fails; no sequence is used twice |
| `x/staking` | validators, delegations, unbonding delegations, redelegations, three queues by time, power index, two pools, last validator set | five messages, begin and end of a block, genesis with genesis transactions (`x/genutil`), queries | pools hold what validators and entries claim; indexes and queues agree with the records; Tendermint has the bonded set; an entry is paid once |
| `x/mint`, `x/distribution` | minter; outstanding, current and historical rewards by period with reference counts, community pool | begin of a block, withdrawals, genesis, queries | what is handed out was collected; a period is kept as long as it is referred to |
| `x/gov` | proposals, deposits, votes, two queues by time | submit, deposit, vote, end of a block, genesis, queries | the module account holds the deposits; the same tokens are counted once |
| `x/upgrade` | one pending plan, completed upgrades by height, versions of modules | plans from proposals, begin of a block, queries | a plan is not passed over, applied once and on time, never by the wrong binary |
| `x/slashing`, `x/evidence`, `x/ibc-rs` | windows of missed blocks; equivocations; light clients | | not modelled, see section 6 |

`gaia-rs` composes some of them: it calls only staking in `begin_block`, gov and
then staking in `end_block` (`gaia-rs/src/abci_handler.rs:253`), and routes the
queries of auth, bank, staking and ibc. mint, distribution, slashing and evidence
are not wired into it and are modelled, where they are, by themselves. Hooks
between modules are no-ops in this repository.

Everything else is wiring, conversion or I/O. `PROJECT.json` lists each part with
its status and the reason.

### 1.4 What is hard

Layered caches that must agree after any sequence of moves; failures inside a
transaction at any point; crashes between handlers and between the saves of two
stores; five threads and four kinds of locks taken in different orders; panics;
node restarts with other binaries; sequence numbers across failed transactions;
decimals that truncate on every conversion of tokens and shares; queues by rounded
times; reference counts; clients that read a list while it changes. `PROJECT.json`
lists these hazards line by line, with the properties that would catch them.

## 2. Modules

| module | models | extends |
|---|---|---|
| `KVCache` | one cache and one tree as a map: set, delete, overlay, the ways of pouring one cache into another, commit | |
| `KVBank` | both banks of one store and the merged range iterator | `KVCache` |
| `IAVL` | the tree and its node database | |
| `GasMeter`, `GasStore` | gas meters; a transaction on a gas-metered store | ; `GasMeter`, `KVCache` |
| `BlockLedger` | abstract: a ledger per store with a pending state; blocks, atomic transactions, commits, crashes that are atomic per store | `KVCache` |
| `BaseApp` | the ABCI handlers on all stores, both modes, meters, restarts; shown to implement `BlockLedger` | `KVCache`, `GasMeter` |
| `BaseAppLocks` | the threads, locks, poisoning and cancellation around them | |
| `Bank` | keepers of `x/auth` and `x/bank` as operations on a ledger, and their genesis | `Sums` |
| `Ante` | transactions through the ante handler and their messages, minting, what other modules do with the bank | `Bank` |
| `AnteChecks` | the checks of a transaction by itself: gas arithmetic, fee on the wire, mempool fee, size, signatures, sign documents | `Ante` |
| `BankQueries` | metadata, queries and commands of `x/auth` and `x/bank` | `Ante` |
| `Coins` | decimals and lists of decimal coins | |
| `Mint`, `Distribution` | `x/mint`; `x/distribution` together with it | `Coins`; `Mint`, `Sums` |
| `DistributionQueries` | queries and commands of `x/distribution` | `Distribution` |
| `Staking` | `x/staking` with the balances it moves, and genesis transactions | `Sums` |
| `StakingQueries` | queries and commands of `x/staking` | `Staking` |
| `Params` | the parameter subspaces as stored bytes | |
| `Gov`, `GovQueries` | `x/gov` with its proposals to change parameters; its queries and commands | `Coins`, `Params`, `Sums`; `Gov` |
| `Time` | timestamps, durations and the keys made from them | |
| `Upgrade`, `UpgradeQueries` | `x/upgrade` in the life of a node; its records, queries and commands | ; `Upgrade` |
| `Pages` | a client that walks through a list by pages while it changes | |
| `MCKVBank`, `MCIAVL`, `MCBaseApp`, `MCAnte`, `MCStaking`, `MCDistribution`, `MCGov` | instances for TLC | |
| `Sums` | the sum of a function over a finite set | |
| `KVCacheProofs`, `StoreProofs`, `BaseAppProofs`, `BaseAppLocksProofs`, `AnteProofs`, `StakingProofs`, `BlockProofs` | theorems | the module each is about; `AnteProofs` also `BankQueries`, `StakingProofs` also `StakingQueries`; `BlockProofs` is about `Upgrade` and `DistributionQueries`; these three and `StoreProofs` also `SumProofs`; `BaseAppProofs` has those about `GasStore`, `StoreProofs` those about `KVBank`, `Pages` and `GovQueries` |
| `SumProofs` | lemmas about sums and folds over finite sets, and about loops | `Sums` |

Definitions that follow a comment "Mutated form of ..." are deliberately wrong
variants of the next definition; replacing it by them must break a property, which
guards the properties against being vacuous. They are used in no specification.
A `TypeOK` that no run lists is documentation of the state, or part of a proof.

### How state and actions correspond to the code

* **KVBank.** `tree`, `cache`, `tx`, `block` are the tree, the cache of the
  application bank and the two caches of the transaction bank; one action per
  method. A range borrows the bank: while `scan` is open no other action is
  enabled, and `IterNext`, `NextBack` are the steps of the iterator. The cached
  pairs of a transaction range come out of a `HashMap`: in any order. Commit is the
  loop over the sorted cache on an IAVL tree that cannot remove its last leaf;
  `CommitTree` is its closed form, compared with the loop in `MCKVBank`.
* **IAVL.** A node is a record with its children by side, `Nil` when not loaded; a
  hash is the record of what is hashed, the key of an inner node left out as in
  `hash_serialize`. `SaveVersion` writes nodes in post order and the root last;
  `CrashInSave` stops after any prefix of these writes.
* **BaseApp.** A handler is one step, because it runs under the write locks of the
  state and the multi store (that this is enough is what `BaseAppLocks` is about).
  What module code writes is any member of `Batches`; a transaction is a record of
  outcomes, writes and gas. `Restart` is `BaseApp::new` on what is on disk; a crash
  falls between any two handlers (`Crash`) or, inside a commit, after the saves of
  any subset of the stores (`CrashInCommit`: they are saved in `HashMap` order).
  `params` says whether the consensus params are in the cache or on disk. Two
  variables are history only: `tears` counts the crashes between the saves of two
  stores, `checked` has the keys that `check_tx` wrote since the last commit.
  Tendermint is the order of calls, `phase`.
* **BaseAppLocks.** Each handler is a script of lock operations and effects in the
  order of the code; a loop over the stores is a part of the script that is repeated,
  `turn` counting through `Stores`. A query of height 0 asks every tree for its
  latest version, another one for that of its height. `RwLock` prefers waiting writers, as std's does on Linux.
  A handler may panic in its work, in a save, and does panic on a poisoned lock.
* **Bank, Ante.** A keeper operation yields the set of ledgers it may leave, empty
  for an error. What was written before an error is not kept, because the
  transaction cache is cleared (`BaseApp`) or the caller panics. The genesis file is
  a list of entries: of two for one address the later is stored and the supply counts
  both. `init_genesis` takes such a file, `add_genesis_account` does not write one,
  which is what `AddedOnce` in `AnteAssumption` says; the accounts it writes are new,
  with sequence 0. `AnteChecks` has what depends on the transaction alone, as operators.
* **Staking.** `st` is the store of the module with the balances; a keeper method is
  an operator from a store to a store, a message an action with the conditions of
  its handler as guards, `EndBlock` the whole of `block_validator_updates` (set
  updates, mature validators, unbonding delegations, redelegations, in this order).
  `tm` is what Tendermint makes of the updates. A panic sets `halted`, and nothing
  happens afterwards. Times count `Ticks` per second and `Slot` rounds them as the
  keys of the queues do. The genesis has unbonding delegations and redelegations, entry
  by entry, each pair or triplet once in the file. `CreateValidator` stores the rates of
  the message as they are; a validator whose rates are not valid cannot be decoded, and
  what reads it panics (`ReadsCorrupt`, `SetUpdatesFail`). Three fields are history:
  `paid` of an entry, `paidAgain`, and `uncovered`, the claims that no coins of the pool
  stand for: the entries of the genesis file, which its check of the pools leaves out,
  and what was paid a second time.
* **Distribution.** The store of the module, with the balances of its account and of
  the fee collector; a keeper method yields the stores it may leave; panics of
  `begin_block` and of the computation of rewards are actions that halt the node.
  Delegations are those of staking and change by `StakeChanges`. A withdraw address is
  any of `Payees`, the addresses of users and of modules, as `MsgSetWithdrawAddr` stores
  any; a payment to a module is refused by the bank (`blocked_addr` in
  `send_coins_from_module_to_account`, `x/bank/src/keeper/bank.rs:149`), so that the
  withdrawal fails. `MsgSendToModule` is the transfer by which anybody may send coins to
  the module. `RewardsToPool` is for a validator without tokens, which no validator
  with a delegation that can be withdrawn from is. The predecessor of period 0
  panics in a build with overflow checks and is an error in another one: a node of the
  second kind goes on, in a state it was in before.
* **Gov.** As Distribution; the validators and shares that the tally reads change by
  `StakingChanges`. `EndBlock` panics on the first due entry of a queue, as the code
  does, so that the tally is evaluated in every state instead of reached: what follows
  the panic (drop, refund, burn, status) is not part of the action. A transfer of
  `x/bank` to the address of the module is not among the actions: it would add to the
  account what nobody deposited, and `DepositsAccounted` is about deposits.
* **Upgrade.** `disk` and `mem` are the committed and the working state of the
  module; begin_block has one action per way out of the handler, panics included.
  `Restart(b)` is possible at any time, with any binary. The check of the last
  completed upgrade reads the records of the store with key and value exchanged
  (`x/upgrade/src/types/mod.rs:11`, `keeper.rs:235`): `FourByteNames` are the names
  whose record can be read at all.
* **Pages.** `FetchPage` is one query by the `next_key` of the last answer; `Commit`
  inserts or deletes an entry between two of them.
* **Queries, Params, Time.** Operators, one per query, parameter format or
  operation; where an answer says something about the state it is part of an
  invariant (`QueriesAgree`, `SupplyIsBalances`, `Conserved`, `RefCounts`), the rest
  is evaluated by named assumptions, see below.

## 3. Runs

Every run takes well below five minutes.

| run | checks | bounds and why they are enough |
|---|---|---|
| `bank` | moves preserve reads; commit persists what was read but for a last leaf; application ranges are exactly `get`; transaction ranges skip nothing | 2 keys, 2 values: a key in every combination of layers beside another one, ties of the merge, unsorted caches |
| `gas` | one charge of overshoot at most; writes are paid | limits from 0 to just below a width of 31, so that refusals and overflows happen |
| `iavl` | balance, hashes and separating keys; saved versions never change; hashes determine nodes; ranges both ways | 6 keys and one version: all double rotations of set and remove, height 3; 3 keys, 2 versions and a crash: rotations over loaded and unloaded nodes, orphans of a torn save |
| `baseapp` | transactions atomic, both modes agree with the application bank, info matches disk, block gas bounded, `LedgerSpec` | 2 stores, 1 key, 2 blocks, block gas 2 with transactions of 1, ante writes on one of the stores: failures of each kind before and after each other, refusal at the limit; crashes anywhere, two torn commits included |
| `locks` | no circular wait, no stale header, queries all or nothing, no save after a panic, a panic ends the service | 4 threads, 2 stores, 1 block: every pair of handlers overlaps; queries of the new height and of height 0 |
| `ante` | supply = balances as the queries tell it, no replay, accepted pays | 2 users (one without account), 3 modules, 2 denominations (one not sendable), 2 accepted transactions, 2 blocks |
| `upgrade` | a plan is not passed, is applied on time and by no binary that has it before | 2 upgrades (one with a name of four bytes), 3 binaries, a skipped height, 6 blocks: reschedule after completion, corrupt records, restart in each phase |
| `staking` | shares are the delegations; pools are accounted for; the power index, the queues and the last set agree with the records; the queries agree with each other | 2 operators and a delegator, one bonded at most, at most one entry by the parameter (two by the code), five genesis states (one with entries that leave), a commission that cannot be decoded, 3 blocks of half or whole seconds, 4 messages: a validator is bonded, unbonds, matures, is overtaken; entries that round into an earlier slot; exchange rates that do not divide |
| `staking_paid` (violation) | "complete unbonding mature entries": none is paid twice | one block and two units of time more: two entries of one delegation, mature one after the other |
| `distribution` | reference counts; the bank holds the supply; the balance of the module moves with what it owes | quarters as decimals, 2 validators, 2 delegators, modules as withdraw addresses, two exported states, 3 blocks, 4 messages: every truncation, withdrawals with and without rewards, the panics |
| `gov` | deposits, totals and the module account agree; a tally counts no more than is bonded | 2 validators, a delegator of both, 3 proposals, shares that do not divide, 4 messages, 3 seconds: deposits in every denomination, votes that override, delegations that change meanwhile |
| `pages` | entries are seen in order and once; none that stayed is missed; the walk ends | 5 keys, 3 commits in between, limits from 0 over the largest |

`CHECK_DEADLOCK FALSE` is given where a bound ends the behaviour (heights,
messages, versions) or a transaction that ran out of gas stops. In `bank`,
`locks`, `upgrade` and `pages` deadlock is checked.

**Fairness.** `BaseAppLocks`: weak fairness of each thread's steps, which is what an
operating system gives a runnable thread. Requests need not come, and REST and gRPC
clients may ask for ever; a thread waiting for a lock is not assumed to get it in
any order. `PanicStops` is the liveness property under it. `Pages`: weak fairness
of `FetchPage`, the client that goes on asking until it has the last page;
`WalkEnds` speaks of limits other than zero, because a walk with limit zero stays
where it is.

**Evaluated assumptions.** Pure code is compared with a reference, over all inputs
of a small range, by named `ASSUME`s that TLC evaluates at the start of a run; no
proof uses them.

| module, run | what is evaluated |
|---|---|
| `MCKVBank`, `bank` | the closed form of commit is its loop, for all trees and caches |
| `AnteChecks`, `ante` | gas arithmetic is exact or refused up to its width; a fee survives its encoding; a fee that is taken covers the price in some denomination unless a price is zero; static gas is paid within the limit; indexing signer infos cannot fail; what each sign mode leaves out |
| `BankQueries`, `ante` | metadata added to genesis; every command uses a path that is answered, with the exceptions listed |
| `Params`, `gov` | parameters that were written can be read; changes that are accepted leave every subspace readable; which validators accept what cannot be read |
| `GovQueries`, `StakingQueries`, `DistributionQueries`, `UpgradeQueries` | kinds, routes and commands: which are answered on which way |
| `Time`, `gov` | sums and differences are exact or refused; derived orders are those of time; keys are in the order of times, within half a second |

### Where the code and its comments disagree

One run shows a statement of the repository violated (`findings`): an unbonding
delegation of which only some entries are mature is stored as it was read
(`x/staking/src/keeper/unbonding.rs:382`), and the entries that were paid are paid
again with the next one.

Other disagreements and panics are modelled as the code has them, and are listed
here so that a reader of the models is not surprised.

*Stores.* A range over the transaction bank may yield the persisted pair of a key
the cache holds: the cached pairs are collected into a `HashMap`, and `MergedRange`
needs both sides sorted (`kv_store/src/bank/kv/transaction.rs:137`). Deleting the
last key of a store has no effect once committed (`trees/src/iavl/tree.rs:688`).
A crash between the saves of two stores leaves them at different heights, and
nothing brings them together again (`kv_store/src/bank/multi/application.rs:83`):
`InfoMatchesDisk` and the ledger say exactly how far apart they may be, and that
each store still has whole blocks. If the store of the params is among those that
missed the first block, no later block has a gas limit.

*Gas and ante.* `GasGuard::set` charges the flat cost of a read for a write
(`gears/src/types/store/gas/guard.rs:74`); `consume_gas` refuses one charge later
than the comment on it says; a signer without a stored key whose transaction brings
none makes `sign_gas_consume` panic (`gears/src/x/ante.rs:280`, `DeliverPanics`); one
price of zero turns the whole minimum off, and a gas limit of zero with prices that
are not makes `mempool_fee` panic.

*Bank and auth.* The query for spendable coins always answers with none; the path
of the query for one supply is that of all; the balance x/gov asks for is parsed as a
number where a coin is stored; genesis metadata is kept by name in the file and by
base in the store.

*Staking.* `has_max_unbonding_delegation_entries` compares with `>`
(`unbonding.rs:131`), so one entry more is allowed; undelegating what floors to no
token panics; keys of queues are rounded to the second (`keys.rs:27`), so an entry
may leave its queue up to half a second before it is mature and stay unpaid; with
`historical_entries` 0 nothing is pruned any more; the query for unbonding
delegations of a validator panics on any result, the one for redelegations is
`todo!()` unless all three addresses are given. `MsgCreateValidator` takes rates that
`CommissionRates` refuses when the validator is read (`types/tx.rs:427`), and the next
reading panics. `init_genesis` stores unbonding delegations and compares the pools with
the validators' tokens only (`keeper/mod.rs:178-254`): a file that has entries and coins
for them is refused, one without the coins is taken.

*Distribution and mint.* Any withdrawal after the block of the delegation panics in
`SlashEventIterator` (`types/iter/slash_event.rs:47`); begin_block panics without
fees, with more than one validator, and when a share floors to nothing; a whole
commission is never cleared; more bonded tokens than the goal make minting panic
(`x/mint/src/types/minter.rs:54`, though its comment allows a negative change). The
queries for rewards look for the record of the current period, which does not exist;
the one for slashes panics.

*Gov.* The key of a queue is parsed with an offset it does not have
(`types/proposal/mod.rs:288`), so the first due proposal stops the chain; every
submission fails, because the first deposit is added to an equal total; a vote can
only have weight 0; reaching the minimum deposit does not open the vote
(`keeper.rs:357`); refunds and burns walk over the deposits of all proposals.

*Upgrade.* The check of the last completed upgrade reads key and value exchanged: a
process started after an upgrade with a name of other than four bytes panics as
corrupt, and the branch for downgrades is not reached
(`x/upgrade/src/abci_handler.rs:147`). `done_height` reads without the prefix
`set_done` writes with (`keeper.rs:166`), so a completed upgrade may be scheduled
again and its query answers 0; versions of modules are written only when there are
none.

*Parameters.* A proposal checks its keys with the keeper of the base application
whatever subspace it names; x/bank and x/staking validate values whose next reading
panics, and x/staking refuses every value for its limits.

*Pages.* Paging by offset multiplies the page by the limit twice
(`gears/src/types/pagination/request.rs:37`, `extensions/src/pagination/offset.rs:51`);
a cursor that was deleted gives an empty last page.

## 4. Proofs

All theorems hold for every value of the constants under the named assumptions of
the modules; where a theorem names a property of a run, the run checks it on a small
instance.

**KVBank** (`StoreProofs`). `IInv` is the types of the tree and caches and their
disjointness; disjointness is needed because both orders of pouring (sets first,
deletes first) are used and agree only on disjoint caches. From it:
`BankTypeCorrect`, `BankCachesDisjoint`, and the action properties
`BankMovesPreserveReads` and `BankCommitKeepsReads`. `KVCacheProofs` has the
algebra: pouring a cache over another reads as one overlay over the other.

The merged iterator: `ScanInv` says of an open range over the application bank that
what was yielded is the two ends of the sorted content and that the rest (`Rest`) is
what the two sources still have: the cache some of the pairs, the tree pairs under
some of the keys, of which those that the cache lacks are right. Of a range over the
transaction bank it only says that nothing is skipped, because the cached pairs come
unsorted. That a finite map has a sorted listing at all (`SortedExists`) is shown by
induction over its subsets; the maps are finite because every write adds at most one
key (`FiniteMaps`), so the set of keys need not be. `NextTakesFirst` and
`NextBackTakesLast` are the heart of the proof: the pair that the comparison of the
two heads selects is the next one of the content. Theorems: `BankScanYieldsView`,
`BankTxScanComplete`.

**BaseApp** (`BaseAppProofs`). A family of caches acts on states by `Over`; pouring
composes, and rewriting absorbs (`PourFacts`, `OverAbsorbs`, `PourCovers`). The
invariant `IInv` says beside types and disjointness that tx caches are empty
between calls, that block gas is bounded, and that outside a block the application
cache and the deliver cache produce the same state, whereas inside a block the
deliver cache covers the application cache: writing the latter again, as the
appends do, changes nothing. Then `RunTxDeliver` and `RunTxCheck` give what a
transaction leaves in any state. Theorems: `BaseAppTypeCorrect`,
`BaseAppTxCachesEmpty`, `BaseAppBlockGasBounded`, `BaseAppModesAgree`,
`BaseAppDeliverAtomic`, `BaseAppCheckAppliesAnte`, `BaseAppCheckFollowsApp` (with
`CInv`: at every other key the block cache of check mode and the application cache
give the same, because the latter absorbs itself), `BaseAppInfoMatchesDisk` (its
part `Spread` is what the saves of a commit that was stopped can change, by one) and
`BaseAppImplementsLedger`: the handlers with all their caches and crashes, those
between the saves of two stores included, implement `BlockLedger`. None of them
assumes anything of when crashes fall.

**Upgrade** (`BlockProofs`). `AppliedOnTime` speaks of a commit, but what is
committed was decided in `begin_block` and may have been followed by proposals. The
invariant therefore adds `BlockOnDisk`, which relates the state of a block under way
to the committed one. Theorems: `UpgradeTypeCorrect`, `UpgradePlanNotPassed`,
`UpgradeAppliedOnTime`.

**BaseAppLocks** (`BaseAppLocksProofs`), for any finite set of stores. What a thread
holds is a function of its handler and its position (`Keeps`): eight lemmas compare
that table with the scripts, and everything else reasons from the table. The
invariant adds to it that sleepers are at a `write()`, that a writer excludes all
other holders, that a poisoned lock is never held again and that a poisoned lock
means a poisoned state or multi store. For the versions it says how far a commit has
come: the stores before its turn are one version ahead; outside of commits all
versions are equal unless the multi store is poisoned. A query under way agrees with
all stores or with none so far. Theorems: `DeadlockFree` (the two orders of state
and multi store are harmless because one thread uses both: whom the consensus thread
waits for waits for nobody, and the others wait for each other in one direction
only), `FreshHeader`, `WholeCommits`, `PoisonStopsSaves`, `TypeCorrect`. They assume
that there is a store and that stores are not named like the other three locks.

**Ante, Bank** (`AnteProofs`), for any finite sets of users, modules and
denominations. `Sound` says of a ledger that its accounts have different numbers
below the next one and that the supply is the sum of the balances; `Counted` that
the transactions accepted from an account had the sequence numbers below its present
one, each once. One lemma per keeper operation shows what it keeps, a lemma per ante
step the same, `RunFacts` puts them together to what an accepted transaction leaves.
Theorems: `CoinsConserved`, `ReplayImpossible`, `FeesPaid`, `TypeCorrect`. New
accounts are records, so none is the missing account (`NoAccount`), which
`BankAssumption` says. That the supply of the genesis is the sum of its balances rests
on `AddedOnce`; the loop over the entries is handled as those of staking are.

**GasStore** (in `BaseAppProofs`, with the meters and contents of the application). `TxInv` says that meter and answer are what charges have left:
`ChargeKeeps` shows it of one charge, which may pass the limit by its amount only when
it finds the meter not past it. Theorems: `GasOvershootBounded`, `GasWritesPaid`.

**Pages** (in `StoreProofs`, with its lemmas about sorted listings). `WalkInv` says that what was seen is below the cursor,
and that what is listed since the beginning is seen or not below it; `PageFacts` that a
page is the part of the present list between two cursors. Both hold across commits
because a commit moves no entry: the cursor is a key and not a position. Theorems:
`PagesInOrder`, `PagesComplete`.

**Staking** (`StakingProofs`), for any finite sets of accounts and validators. All six
invariants of the run `staking` are theorems: `SharesProved`, `PoolsProved`,
`PowerIndexProved`, `QueuesProved`, `LastSetProved`, `QueriesProved`; they follow from
`StakingInvariant`, that `IInv` always holds. `IInv` has a part for every state
(`Always`): the types of the store, that a validator has the shares of its delegations
(`SharesHeld`), that an absent validator has nothing (`AbsentEmpty`) and that the
secondary indexes have what is stored (`KeysExact`). The other part holds until the
node halts (a panic leaves a block half done): the power index (`Indexed`), the queues
of validators and of entries due after the present slot (`ValidatorsQueued`,
`EntriesQueued`), the last set (`LastBonded`, `FewBonded`), the balances of the pools
(`PoolsAhead`), that between blocks the set is the one the index asks for
(`SetCurrent`) and that Tendermint has it, and the window of historical infos.

No keeper method keeps the pools' equation by itself: coins move in one call and
tokens in another. `PoolsAhead(s, b, n)` therefore says by how much the pools of a
store are ahead of the claims, and each method has a lemma (`...Keeps`) that says how
it changes the two amounts; an action ends where both are 0. `AbsentEmpty` is needed
because a message may create a validator where one was removed, and a removed one must
not leave delegations, tokens or keys behind. Loops (over the entries of a delegation,
the slots of a queue, the members of the last set, the entries and the transactions of a
genesis file) are recursive functions of the number of
rounds: `LoopExists` and `LoopInduction` give the function its values and turn a lemma
about a round into one about the loop. Sums over validators and delegations use
`SumUpdate`, and those over the entries of a list the same after a change of the
index set. The types of the fields of `Store` have names, so that a step expands only the
ones it needs.

The assumptions are `StakingAssumption` (finite sets, positive limits),
`GenesisAssumption` (what the types of a genesis file and its own check allow) and
`GenesisConsistency`: the genesis is that of a new chain or an export of a consistent
one. `init_genesis` compares only the pools' balances, so that a file whose shares are
not its delegations is accepted; the theorems do not speak of such a chain. `PaidOnce`
is not a theorem: the run `staking_paid` violates it, and `PoolsAccounted` states the
balances with what the genesis left out and what was paid twice (`uncovered`). The part
of `QueriesProved` about delegations and tokens speaks of states whose validators can be
decoded (`Readable`), since the queries panic in others.

The proof found two mistakes in the model that no run had: a `CASE` with overlapping
guards in `PayEntry`, which for TLC is the first guard that holds and in the logic any
of them, and a conjunct of `GenesisAssumption` that an indentation had drawn into the
hypothesis of an implication. Both are mended.

**Distribution** (`BlockProofs`), for any accounts, validators, denominations, votes and
parameters. All three properties of the run `distribution` are theorems: `SupplyProved`,
`ConservedProved` and `RefCountsProved`, from `DistributionInvariant`. `DistributionInv`
says that the store is `Sound` and that what is held of every denomination is its
supply. Sound means that the count of every historical record is the number of
delegations that start at it, and one more for the current period after it (`Counted`); that
the stored lists and counts can be read back: no amount is zero, no count past its
limit (`Readable`); and two facts
that no property states (`Ended`): records are of ended periods only, and a validator
that never had rewards has none for the last of them. Without these, ending a period
could overwrite a record that a delegation still counts on.

Two amounts per denomination carry the other properties: `Excess`, what the module's
account has beyond the pool and the outstanding rewards, and `Held`, what is held beyond
the supply. `Kept(s, t)` says that both are the same in two stores; each operation of the
keeper has a lemma (`...Facts`) that shows it or names the difference that its caller
makes good (what a fold over the votes has still to hand out is `Shares`). Truncation
drops fractions of coins in one place and must add them in another: `TruncateFacts`
splits a list into its whole coins, which are sent, and its change, which goes to the
pool (rewards) or stays owed (commission), so that the excess is the same. The loop over the votes uses `LoopExists` and
`LoopInduction` as in staking.

The assumptions are `DistributionAssumption` (types of the parameters),
`GenesisAssumption` (types, and that the bank computes the supply from the balances) and
`ExportAssumption`: a genesis is that of a new chain or was exported by a consistent
one, since `init_genesis` compares only the module's balance with its sum of the
outstanding rewards. `Conserved` is an action
property: the first genesis may have an excess, and no step changes it but a transfer to
the module, by what is sent. It holds for every withdraw address, because a withdrawal
to a module is refused by the bank and undone: were it paid to the account it comes
from, less would be owed and no more be held.

**Gov** (in `StoreProofs`), for any finite sets of accounts, proposals and
denominations. `GovInv` has three parts: the types of the store (`GovStore`); `Backed`,
that the account of the module has, of every denomination, the sum of the depositors'
records, that the total of a proposal is the sum of its own, and that a proposal that
does not exist has none; `Weightless`, that no vote that is stored has a weight. Neither
property is inductive by itself: a deposit is sound because the sum of two lists fails
unless their denominations differ, and then the whole transaction is undone, so that
account, total and record grow together (`DepositKeeps`); a submission keeps the
invariant because it always fails (`SubmitFails`). Theorems: `GovInvariant`,
`DepositsProved`, `PowerProved`.

`DepositsAccounted` is about what the queries answer: an answer is a record, so that the
sum over the answers is the sum over the keys with a deposit (`SumImage`).
`PowerWithinBonded` follows from the arithmetic of the tally: the power of shares is a
truncated product divided by the validator's shares and truncated again, so that the
parts of one validator, those of the voters and the rest it answers for, stay within its
tokens (`PowerBound`, `ValidatorBound`); the loop over votes counts by voter and the
bound is by validator, which `SumPairs` exchanges. That the options get no more than the
total power rests on `Weightless`: they get nothing.

Of the constants the proofs use `GovAssumption`, `BallotAssumption` and the types in
`GenesisAssumption`; `StakingsAssumption`, that a bonded validator has a share (without
one the tally divides by zero); and `ExportAssumption`: a genesis has one record of a
depositor and proposal, for a proposal that exists and whose total is their sum.
`init_genesis` compares only the module's balance with the list of all deposits, and of
two records of one depositor stores the last, so that a file that is not such an export
is accepted and leaves coins that nobody has deposited.

**Sums** (`SumProofs`). A sum over a set is a fold, that is the choice of a solution
of a recursion over its subsets. `SubsetInduction` states induction over the subsets
of a finite set with a set instead of a predicate (it follows from the well-founded
order of strict inclusion), which the provers can use; from it follow existence and
uniqueness of the solution, that any element may be taken out of a sum (`SumRemove`)
and that a sum changes by what one term changes by (`SumUpdate`).

Only model-checked: everything about `IAVL` (RECURSIVE operators, which take the SMT
solver away from every module that uses them), and the liveness properties `PanicStops`
and `WalkEnds` (liveness under fairness is beyond this prover).

## 5. Abstractions

* Keys, values, coins and names are small sets; SHA-256 is injective; the database
  is a map whose single puts are atomic.
* Whether a signature verifies is a choice; cryptography, and encodings other than
  those named above, are not computed.
* Contents written by modules are arbitrary in `BaseApp`; what the modules write is
  in the modules that model them.
* Gas has a width of 31 in the run of `GasStore` and of 15 in `AnteChecks` instead
  of 2^63 - 1, and key and value are one byte long in `GasStore`; `BaseApp` bounds
  the gas of a block to the width. Widths of 256 bits are not reached.
* Decimals have a few parts (`Dec`, `Unit`) instead of 10^18 and truncate as they do;
  a second has a few ticks.
* `Ante` mints any amount; the computed one is in `Mint`.
* Heights of upgrades stay below 2^16, so that the text of a height has no more than
  two bytes in the records that are read exchanged.
* Gas charges of queries and of begin and end of block, events and logs are left out
  of the modules of the chain.

## 6. Not modelled

* `x/slashing`: signing infos are written as protobuf (`keeper.rs:474`) and read as
  JSON (`keeper.rs:444`), so every read panics; the branch of downtime is inverted
  (`keeper.rs:216`); no application wires it. Its parameters are in `Params`.
* `x/evidence`: storing an equivocation panics on its hash, which must have exactly
  32 bytes, and nothing implements the slashing keeper it needs.
* `x/ibc-rs`: most of the context is `todo!()`, no client state is ever found, the
  host time is the wall clock; the light client is a library.
* Slashing and unjailing in `x/staking`, which only these two call, and hooks.
* Store handles, database backends, rendering, macros, keyring, RPC client, node
  start-up: conversions, wiring and I/O without a protocol.

## 7. What is left

1. Proofs: lemmas about the arithmetic of `Time`.
2. `IBCClients` once its context is written: client states, identifiers, update,
   upgrade and recovery, with the stale head hash of the transaction bank.
3. `Slashing` and `Evidence` composed with `Staking` once their stores can be read.
