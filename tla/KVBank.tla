------------------------------- MODULE KVBank -------------------------------
(***************************************************************************)
(* One key/value store of gears: the application bank (a cache over the    *)
(* IAVL tree, kv_store/src/bank/kv/application.rs) and a transaction bank  *)
(* (a tx cache over a block cache over the same tree, bank/kv/             *)
(* transaction.rs), with every operation that changes them and the merged  *)
(* iterator (kv_store/src/utils.rs) that ranges over them.                 *)
(***************************************************************************)
EXTENDS KVCache, Sequences, SequencesExt, FiniteSets

VARIABLES tree,   \* the working content of the IAVL tree
          cache,  \* ApplicationKVBank.cache
          tx,     \* TransactionKVBank.tx
          block,  \* TransactionKVBank.block
          scan    \* the open MergedRange, or NoScan

vars == <<tree, cache, tx, block, scan>>

NoScan == [of |-> "none"]

\* Any range borrows the banks, so nothing is written while one is open.
Unborrowed == scan = NoScan

-----------------------------------------------------------------------------
(* Point reads: `get` of the two banks, as whole maps.                     *)

AppView == Overlay(cache, tree)

TxView == Overlay(tx, Overlay(block, tree))

\* What the transaction bank reads once its tx cache is dropped.
BlockView == Overlay(block, tree)

-----------------------------------------------------------------------------
(* Operations of the application bank.                                     *)

Set(k, v) ==
    /\ Unborrowed
    /\ cache' = CacheSet(cache, k, v)
    /\ UNCHANGED <<tree, tx, block, scan>>

Delete(k) ==
    /\ Unborrowed
    /\ cache' = CacheDelete(cache, k)
    /\ UNCHANGED <<tree, tx, block, scan>>

CacheClear ==
    /\ Unborrowed
    /\ cache' = EmptyCache
    /\ UNCHANGED <<tree, tx, block, scan>>

\* A new transaction bank over the same tree, its block cache a copy.
ToTxKind ==
    /\ Unborrowed
    /\ tx' = EmptyCache
    /\ block' = cache
    /\ UNCHANGED <<tree, cache, scan>>

ConsumeBlockCache ==
    /\ Unborrowed
    /\ cache' = SetsThenDeletes(cache, block)
    /\ block' = EmptyCache
    /\ UNCHANGED <<tree, tx, scan>>

(***************************************************************************)
(* The loop of ApplicationKVBank::commit, one Tree::set or Tree::remove at *)
(* a time in key order.  CommitTree is its closed form.                    *)
(***************************************************************************)
TreeRemove(t, k) == IF Present(t) = {k} THEN t ELSE [t EXCEPT ![k] = None]

CommitStep(c, t, k) ==
    IF k \in c.delete THEN TreeRemove(t, k)
    ELSE IF c.storage[k] # None THEN [t EXCEPT ![k] = c.storage[k]] ELSE t

CommitLoop(t, c) ==
    FoldLeft(LAMBDA u, k : CommitStep(c, u, k), t, SetToSortSeq(Key, <))

\* Mutated form of Commit: the keys marked as deleted stay in the tree.
CommitKeepsDeleted ==
    /\ Unborrowed
    /\ tree' = SetsOnly([storage |-> tree, delete |-> {}], cache).storage
    /\ cache' = EmptyCache
    /\ UNCHANGED <<tx, block, scan>>
Commit ==
    /\ Unborrowed
    /\ tree' = CommitTree(tree, cache)
    /\ cache' = EmptyCache
    /\ UNCHANGED <<tx, block, scan>>

-----------------------------------------------------------------------------
(* Operations of the transaction bank.                                     *)

TxSet(k, v) ==
    /\ Unborrowed
    /\ tx' = CacheSet(tx, k, v)
    /\ UNCHANGED <<tree, cache, block, scan>>

TxDelete(k) ==
    /\ Unborrowed
    /\ tx' = CacheDelete(tx, k)
    /\ UNCHANGED <<tree, cache, block, scan>>

TxCacheClear ==
    /\ Unborrowed
    /\ tx' = EmptyCache
    /\ UNCHANGED <<tree, cache, block, scan>>

BlockCacheClear ==
    /\ Unborrowed
    /\ block' = EmptyCache
    /\ UNCHANGED <<tree, cache, tx, scan>>

UpgradeCache ==
    /\ Unborrowed
    /\ block' = SetsThenDeletes(block, tx)
    /\ tx' = EmptyCache
    /\ UNCHANGED <<tree, cache, scan>>

AppendBlockCache ==
    /\ Unborrowed
    /\ block' = SetsThenDeletes(block, cache)
    /\ UNCHANGED <<tree, cache, tx, scan>>

\* ApplicationState::take_block_cache on this store.
TakeBlockCache ==
    /\ Unborrowed
    /\ cache' = DeletesThenSets(cache, block)
    /\ block' = EmptyCache
    /\ UNCHANGED <<tree, tx, scan>>

-----------------------------------------------------------------------------
(* Ranges.  A pair is <<key, value>>; a bound r is a set of keys.          *)

Pairs(m, r) == {<<k, m[k]>> : k \in Present(m) \cap r}

\* The pairs of a BTreeMap or of the tree, in key order.
Increasing(s) == \A i, j \in DOMAIN s : i < j => s[i][1] < s[j][1]

Sorted(pairs) == CHOOSE s \in [1..Cardinality(pairs) -> pairs] : Increasing(s)

Bounds == {{k \in Key : lo <= k /\ k < hi} : lo \in Key, hi \in {k + 1 : k \in Key}}

Open(kind, r, a, b) ==
    scan' = [of |-> kind, r |-> r, a |-> a, b |-> b, front |-> <<>>, back |-> <<>>]

AppRange(r) ==
    /\ Unborrowed
    /\ Open("app", r, Sorted(Pairs(cache.storage, r)),
            Sorted({p \in Pairs(tree, r) : p[1] \notin cache.delete}))
    /\ UNCHANGED <<tree, cache, tx, block>>

\* The values of both caches, the later (tx) one winning a duplicate.
TxCached == [k \in Key |-> IF tx.storage[k] # None THEN tx.storage[k] ELSE block.storage[k]]

(***************************************************************************)
(* The cached pairs are collected into a HashMap, whose iteration order is *)
(* any order.  Only the persisted pairs are filtered by deletion marks.    *)
(***************************************************************************)
TxRange(r) ==
    /\ Unborrowed
    /\ \E a \in SetToSeqs(Pairs(TxCached, r)) :
          Open("tx", r, a,
               Sorted({p \in Pairs(tree, r) :
                         ~(\/ p[1] \in tx.delete
                           \/ p[1] \in block.delete /\ tx.storage[p[1]] = None)}))
    /\ UNCHANGED <<tree, cache, tx, block>>

\* The scan after a step that leaves a and b and has yielded front and back.
Yielded(a, b, front, back) ==
    [of |-> scan.of, r |-> scan.r, a |-> a, b |-> b, front |-> front, back |-> back]

\* Mutated form of IterNext: on a tie b's pair is yielded.
IterNextFavoursB ==
    LET a == scan.a
        b == scan.b
        fromA == a # <<>> /\ (b = <<>> \/ Head(a)[1] <= Head(b)[1])
        fromB == b # <<>> /\ (a = <<>> \/ Head(b)[1] <= Head(a)[1])
    IN /\ scan # NoScan
       /\ a \o b # <<>>
       /\ scan' = Yielded(IF fromA THEN Tail(a) ELSE a, IF fromB THEN Tail(b) ELSE b,
                          Append(scan.front, IF fromB THEN Head(b) ELSE Head(a)), scan.back)
       /\ UNCHANGED <<tree, cache, tx, block>>

\* MergedRange::next: the smaller head; on a tie drop b's and yield a's.
IterNext ==
    LET a == scan.a
        b == scan.b
        fromA == a # <<>> /\ (b = <<>> \/ Head(a)[1] <= Head(b)[1])
        fromB == b # <<>> /\ (a = <<>> \/ Head(b)[1] <= Head(a)[1])
    IN /\ scan # NoScan
       /\ a \o b # <<>>
       /\ scan' = Yielded(IF fromA THEN Tail(a) ELSE a, IF fromB THEN Tail(b) ELSE b,
                          Append(scan.front, IF fromA THEN Head(a) ELSE Head(b)), scan.back)
       /\ UNCHANGED <<tree, cache, tx, block>>

\* MergedRange::next_back: the larger last; on a tie drop b's, yield a's.
NextBack ==
    LET a == scan.a
        b == scan.b
        fromA == a # <<>> /\ (b = <<>> \/ Last(a)[1] >= Last(b)[1])
        fromB == b # <<>> /\ (a = <<>> \/ Last(b)[1] >= Last(a)[1])
    IN /\ scan # NoScan
       /\ a \o b # <<>>
       /\ scan' = Yielded(IF fromA THEN Front(a) ELSE a, IF fromB THEN Front(b) ELSE b,
                          scan.front, <<IF fromA THEN Last(a) ELSE Last(b)>> \o scan.back)
       /\ UNCHANGED <<tree, cache, tx, block>>

\* The iterator is dropped, exhausted or not.
Close ==
    /\ scan # NoScan
    /\ scan' = NoScan
    /\ UNCHANGED <<tree, cache, tx, block>>

-----------------------------------------------------------------------------
Init ==
    /\ tree = Empty
    /\ cache = EmptyCache
    /\ tx = EmptyCache
    /\ block = EmptyCache
    /\ scan = NoScan

AppOps ==
    \/ \E k \in Key, v \in Val : Set(k, v)
    \/ \E k \in Key : Delete(k)
    \/ Commit
    \/ CacheClear

TxOps ==
    \/ \E k \in Key, v \in Val : TxSet(k, v)
    \/ \E k \in Key : TxDelete(k)
    \/ TxCacheClear
    \/ BlockCacheClear
    \/ UpgradeCache

SharedOps == ToTxKind \/ ConsumeBlockCache \/ AppendBlockCache \/ TakeBlockCache

ScanOps ==
    \/ \E r \in Bounds : AppRange(r) \/ TxRange(r)
    \/ IterNext
    \/ NextBack
    \/ Close

Next == AppOps \/ TxOps \/ SharedOps \/ ScanOps

Spec == Init /\ [][Next]_vars

-----------------------------------------------------------------------------
(* Properties.                                                             *)

TypeOK ==
    /\ tree \in Content
    /\ cache \in Cache
    /\ tx \in Cache
    /\ block \in Cache
    /\ Unborrowed \/ scan.of \in {"app", "tx"}

(***************************************************************************)
(* No cache ever both stores a key and marks it deleted, however writes,   *)
(* upgrades, appends and takes are interleaved.  ApplicationKVBank::range  *)
(* relies on it: it filters only the persisted pairs by the marks.         *)
(***************************************************************************)
CachesDisjoint == Disjoint(cache) /\ Disjoint(tx) /\ Disjoint(block)

(***************************************************************************)
(* Moving writes between layers never changes what is read through them:   *)
(* upgrade_cache leaves every read of the transaction bank as it was, and  *)
(* pouring the block cache into the application bank (at end_block and at  *)
(* commit, in opposite orders) makes it read exactly the block's writes    *)
(* over its own.                                                           *)
(***************************************************************************)
MovesPreserveReads ==
    [][/\ UpgradeCache => TxView' = TxView
       /\ ConsumeBlockCache \/ TakeBlockCache => AppView' = Overlay(block, AppView)
       /\ AppendBlockCache => BlockView' = Overlay(cache, BlockView)]_vars

(***************************************************************************)
(* commit makes the tree hold exactly what the application bank read, but  *)
(* for at most one key: the last leaf of a tree all of whose keys the      *)
(* cache deletes.                                                          *)
(***************************************************************************)
CommitKeepsReads ==
    [][Commit =>
         \/ tree' = AppView
         \/ \E k \in Present(tree) \cap cache.delete :
               /\ Present(tree) \subseteq cache.delete
               /\ tree' = [AppView EXCEPT ![k] = tree[k]]]_vars

(***************************************************************************)
(* At every moment of a range over the application bank, in whatever       *)
(* order next and next_back are called, the pairs yielded from the front   *)
(* and from the back are the first and the last ones of the sorted content *)
(* `get` would show, with nothing repeated, stale or skipped.              *)
(***************************************************************************)
ScanYieldsView ==
    scan # NoScan /\ scan.of = "app" =>
        LET all == Sorted(Pairs(AppView, scan.r))
            n == Len(all)
        IN /\ Len(scan.front) + Len(scan.back) <= n
           /\ scan.front = SubSeq(all, 1, Len(scan.front))
           /\ scan.back = SubSeq(all, n - Len(scan.back) + 1, n)
           /\ scan.a = <<>> /\ scan.b = <<>> => Len(scan.front) + Len(scan.back) = n

(***************************************************************************)
(* A range over the transaction bank, whatever order the HashMap gives,    *)
(* skips nothing: once both ends are exhausted every pair `get` would show *)
(* in the range has been yielded, with its current value.                  *)
(***************************************************************************)
TxScanComplete ==
    scan # NoScan /\ scan.of = "tx" /\ scan.a = <<>> /\ scan.b = <<>> =>
        Pairs(TxView, scan.r) \subseteq ToSet(scan.front) \cup ToSet(scan.back)
=============================================================================
