---------------------------- MODULE StoreProofs ----------------------------
(***************************************************************************)
(* What stores keep, proved for every value of the constants.              *)
(*                                                                         *)
(* One store of a multi store (module KVBank), for every set of keys and   *)
(* of values: the caches stay disjoint, moving writes between the layers   *)
(* or committing them does not change what is read, and a range over a     *)
(* bank yields what point reads show.  Then the walk of a client through   *)
(* the committed keys (module Pages), and the store of x/gov (modules Gov  *)
(* and GovQueries): its deposits and what a tally counts.                  *)
(***************************************************************************)
EXTENDS KVBank, KVCacheProofs, SumProofs, SequenceTheorems, Pages, GovQueries

\* The inductive invariant: types and disjointness.
IInv ==
    /\ tree \in Content
    /\ cache \in Cache /\ Disjoint(cache)
    /\ tx \in Cache /\ Disjoint(tx)
    /\ block \in Cache /\ Disjoint(block)
    /\ scan = NoScan \/ scan.of \in {"app", "tx"}

LEMMA InitIInv == Init => IInv
  BY EmptyCacheFacts DEF Init, IInv, Empty, Content

(***************************************************************************)
(* Every operation of the two banks preserves the inductive invariant.     *)
(***************************************************************************)
LEMMA NextIInv == IInv /\ [Next]_vars => IInv'
<1> SUFFICES ASSUME IInv, [Next]_vars PROVE IInv'
  OBVIOUS
<1> USE EmptyCacheFacts DEF IInv
<1>1. ASSUME NEW k \in Key, NEW v \in Val, Set(k, v) PROVE IInv'
  BY <1>1, WriteFacts DEF Set
<1>2. ASSUME NEW k \in Key, Delete(k) PROVE IInv'
  <2>1. CacheDelete(cache, k) \in Cache
    BY DEF Cache, Content, CacheDelete
  <2>2. Disjoint(CacheDelete(cache, k))
    BY DEF Cache, Content, CacheDelete, Disjoint, Present
  <2> QED
    BY <1>2, <2>1, <2>2 DEF Delete
<1>3. CASE CacheClear
  BY <1>3 DEF CacheClear
<1>4. CASE Commit
  BY <1>4, CommitTreeFacts DEF Commit
<1>5. ASSUME NEW k \in Key, NEW v \in Val, TxSet(k, v) PROVE IInv'
  BY <1>5, WriteFacts DEF TxSet
<1>6. ASSUME NEW k \in Key, TxDelete(k) PROVE IInv'
  <2>1. CacheDelete(tx, k) \in Cache
    BY DEF Cache, Content, CacheDelete
  <2>2. Disjoint(CacheDelete(tx, k))
    BY DEF Cache, Content, CacheDelete, Disjoint, Present
  <2> QED
    BY <1>6, <2>1, <2>2 DEF TxDelete
<1>7. CASE TxCacheClear
  BY <1>7 DEF TxCacheClear
<1>8. CASE BlockCacheClear
  BY <1>8 DEF BlockCacheClear
<1>9. CASE UpgradeCache
  BY <1>9, SetsThenDeletesFacts DEF UpgradeCache
<1>10. CASE ToTxKind
  BY <1>10 DEF ToTxKind
<1>11. CASE ConsumeBlockCache
  BY <1>11, SetsThenDeletesFacts DEF ConsumeBlockCache
<1>12. CASE AppendBlockCache
  BY <1>12, SetsThenDeletesFacts DEF AppendBlockCache
<1>13. CASE TakeBlockCache
  BY <1>13, DeletesThenSetsFacts DEF TakeBlockCache
<1>14. CASE UNCHANGED vars
  BY <1>14 DEF vars
<1>15. CASE ScanOps
  <2>1. ASSUME NEW r \in Bounds, AppRange(r) PROVE IInv'
    BY <2>1 DEF AppRange, Open
  <2>2. ASSUME NEW r \in Bounds, TxRange(r) PROVE IInv'
    BY <2>2 DEF TxRange, Open
  <2>3. CASE IterNext
    BY <2>3 DEF IterNext, Yielded
  <2>4. CASE NextBack
    BY <2>4 DEF NextBack, Yielded
  <2>5. CASE Close
    BY <2>5 DEF Close
  <2> QED
    BY <1>15, <2>1, <2>2, <2>3, <2>4, <2>5 DEF ScanOps
<1> QED
  BY <1>1, <1>2, <1>3, <1>4, <1>5, <1>6, <1>7, <1>8, <1>9, <1>10, <1>11, <1>12,
     <1>13, <1>14, <1>15
  DEF Next, AppOps, TxOps, SharedOps

LEMMA SpecIInv == Spec => []IInv
  BY InitIInv, NextIInv, PTL DEF Spec

(***************************************************************************)
(* The banks are always well typed.                                        *)
(***************************************************************************)
THEOREM BankTypeCorrect == Spec => []TypeOK
<1>1. IInv => TypeOK
  BY DEF IInv, TypeOK, Unborrowed
<1> QED
  BY <1>1, SpecIInv, PTL

(***************************************************************************)
(* In every reachable state no cache both stores a key and marks it        *)
(* deleted: the assumption the NOTE in ApplicationKVBank::range makes.     *)
(***************************************************************************)
THEOREM BankCachesDisjoint == Spec => []CachesDisjoint
<1>1. IInv => CachesDisjoint
  BY DEF IInv, CachesDisjoint
<1> QED
  BY <1>1, SpecIInv, PTL

(***************************************************************************)
(* upgrade_cache, consume_block_cache, take_block_cache and                *)
(* append_block_cache move writes without changing what is read.           *)
(***************************************************************************)
THEOREM BankMovesPreserveReads == Spec => MovesPreserveReads
<1> DEFINE Moves ==
      /\ UpgradeCache => TxView' = TxView
      /\ ConsumeBlockCache \/ TakeBlockCache => AppView' = Overlay(block, AppView)
      /\ AppendBlockCache => BlockView' = Overlay(cache, BlockView)
<1>1. IInv /\ [Next]_vars => [Moves]_vars
  <2> SUFFICES ASSUME IInv PROVE Moves
    OBVIOUS
  <2>1. UpgradeCache => TxView' = TxView
    <3> SUFFICES ASSUME UpgradeCache PROVE TxView' = TxView
      OBVIOUS
    <3>1. /\ tx' = EmptyCache
          /\ block' = SetsThenDeletes(block, tx)
          /\ tree' = tree
      BY DEF UpgradeCache
    <3>2. TxView' = Overlay(EmptyCache, Overlay(SetsThenDeletes(block, tx), tree))
      BY <3>1 DEF TxView
    <3>3. Overlay(SetsThenDeletes(block, tx), tree) \in Content
      BY SetsThenDeletesFacts, OverlayType DEF IInv
    <3> QED
      BY <3>2, <3>3, EmptyCacheFacts, SetsThenDeletesFacts DEF IInv, TxView
  <2>2. ConsumeBlockCache \/ TakeBlockCache => AppView' = Overlay(block, AppView)
    BY SetsThenDeletesFacts, DeletesThenSetsFacts
    DEF ConsumeBlockCache, TakeBlockCache, AppView, IInv
  <2>3. AppendBlockCache => BlockView' = Overlay(cache, BlockView)
    BY SetsThenDeletesFacts DEF AppendBlockCache, BlockView, IInv
  <2> QED
    BY <2>1, <2>2, <2>3
<1> QED
  BY <1>1, SpecIInv, PTL DEF Spec, MovesPreserveReads

(***************************************************************************)
(* A commit persists exactly what the application bank read, but for the   *)
(* last leaf of a tree whose every key it deletes.                         *)
(***************************************************************************)
THEOREM BankCommitKeepsReads == Spec => CommitKeepsReads
<1> DEFINE Keeps ==
      Commit =>
         \/ tree' = AppView
         \/ \E k \in Present(tree) \cap cache.delete :
               /\ Present(tree) \subseteq cache.delete
               /\ tree' = [AppView EXCEPT ![k] = tree[k]]
<1>1. IInv /\ [Next]_vars => [Keeps]_vars
  BY CommitTreeFacts DEF IInv, Commit, AppView
<1> QED
  BY <1>1, SpecIInv, PTL DEF Spec, CommitKeepsReads
-----------------------------------------------------------------------------
(* Sequences of pairs in key order.                                        *)

\* Pairs with numbers for keys, no two with the same key: what a map holds.
IsMap(S) ==
    /\ \A p \in S : p[1] \in Nat
    /\ \A p, q \in S : p[1] = q[1] => p = q

\* An injection into a finite set of as many elements reaches all of them. So
\* the collected pairs of TransactionKVBank::range are all the cached ones.
LEMMA EnumerationIsOnto ==
    ASSUME NEW S, IsFiniteSet(S), NEW f \in [1..Cardinality(S) -> S],
           \A i, j \in 1..Cardinality(S) : i # j => f[i] # f[j]
    PROVE  \A x \in S : \E i \in 1..Cardinality(S) : f[i] = x
<1> DEFINE n == Cardinality(S)
           T == {f[i] : i \in 1..n}
<1>1. n \in Nat
  BY FS_CardinalityType
<1>2. T \in SUBSET S
  OBVIOUS
<1>3. ExistsBijection(1..n, T)
  <2>1. f \in Bijection(1..n, T)
    BY DEF Bijection, Injection, Surjection, IsInjective
  <2> QED BY <2>1 DEF ExistsBijection
<1>4. Cardinality(T) = n
  BY <1>1, <1>3, FS_CountingElements
<1>5. T = S
  BY <1>2, <1>4, FS_Subset
<1> QED BY <1>5

\* A finite set of pairs has one with the largest key: the last one of a
\* BTreeMap.
LEMMA LargestKey ==
    ASSUME NEW S, IsFiniteSet(S), IsMap(S)
    PROVE  \A T \in SUBSET S : T # {} => \E p \in T : \A q \in T : q[1] <= p[1]
<1> DEFINE G == {T \in SUBSET S : T # {} => \E p \in T : \A q \in T : q[1] <= p[1]}
<1>1. ASSUME NEW T \in SUBSET S, \A U \in SUBSET T : U # T => U \in G
      PROVE  T \in G
  <2> SUFFICES ASSUME T # {} PROVE \E p \in T : \A q \in T : q[1] <= p[1]
    OBVIOUS
  <2>1. PICK x \in T : TRUE
    OBVIOUS
  <2>2. T \ {x} \in G
    BY <1>1, <2>1
  <2>3. \A q \in T : q[1] \in Nat
    BY DEF IsMap
  <2>4. CASE T \ {x} = {}
    BY <2>1, <2>3, <2>4
  <2>5. CASE T \ {x} # {}
    <3>1. PICK p \in T \ {x} : \A q \in T \ {x} : q[1] <= p[1]
      BY <2>2, <2>5
    <3> QED BY <2>1, <2>3, <3>1
  <2> QED BY <2>4, <2>5
<1>2. \A T \in SUBSET S : T \in G
  <2> HIDE DEF G
  <2> QED BY <1>1, SubsetInduction
<1> QED BY <1>2

\* Every finite map can be listed in key order, as a BTreeMap is iterated.
LEMMA SortedExists ==
    ASSUME NEW S, IsFiniteSet(S), IsMap(S)
    PROVE  \E s \in [1..Cardinality(S) -> S] : Increasing(s)
<1> DEFINE G == {T \in SUBSET S : \E s \in [1..Cardinality(T) -> T] : Increasing(s)}
<1>1. ASSUME NEW T \in SUBSET S, \A U \in SUBSET T : U # T => U \in G
      PROVE  T \in G
  <2>0. IsFiniteSet(T) /\ Cardinality(T) \in Nat
    BY FS_Subset, FS_CardinalityType
  <2>1. CASE T = {}
    <3>1. Cardinality(T) = 0
      BY <2>1, FS_EmptySet
    <3>2. [i \in 1..0 |-> i] \in [1..0 -> T] /\ Increasing([i \in 1..0 |-> i])
      BY DEF Increasing
    <3> QED BY <3>1, <3>2
  <2>2. CASE T # {}
    <3>1. PICK p \in T : \A q \in T : q[1] <= p[1]
      BY <2>2, LargestKey
    <3>2. T \ {p} \in G
      BY <1>1, <3>1
    <3>3. PICK s \in [1..Cardinality(T \ {p}) -> T \ {p}] : Increasing(s)
      BY <3>2
    <3>4. Cardinality(T \ {p}) = Cardinality(T) - 1
      BY <2>0, <3>1, FS_RemoveElement
    <3> DEFINE n == Cardinality(T)
               u == [i \in 1..n |-> IF i = n THEN p ELSE s[i]]
    <3>5. n \in Nat /\ s \in [1..(n - 1) -> T \ {p}]
      BY <2>0, <3>3, <3>4
    <3>6. \A q \in T \ {p} : q[1] < p[1]
      BY <3>1 DEF IsMap
    <3> HIDE DEF n
    <3>7. \A i \in 1..n : i # n => i \in 1..(n - 1)
      BY <3>5
    <3>8. \A i \in 1..n : i # n => s[i] \in T \ {p}
      BY <3>5, <3>7
    <3>9. u \in [1..n -> T]
      BY <3>1, <3>8
    <3>10. Increasing(u)
      <4> SUFFICES ASSUME NEW i \in 1..n, NEW j \in 1..n, i < j
                   PROVE  u[i][1] < u[j][1]
        BY DEF Increasing
      <4>0. i # n
        BY <3>5
      <4>1. i \in 1..(n - 1) /\ u[i] = s[i] /\ s[i] \in T \ {p}
        BY <3>7, <3>8, <4>0
      <4>2. CASE j = n
        BY <4>1, <4>2, <3>6
      <4>3. CASE j # n
        <5>1. j \in 1..(n - 1) /\ u[j] = s[j]
          BY <3>7, <4>3
        <5>2. \A k, l \in 1..(n - 1) : k < l => s[k][1] < s[l][1]
          BY <3>3, <3>5 DEF Increasing
        <5> QED BY <4>1, <5>1, <5>2
      <4> QED BY <4>2, <4>3
    <3> QED BY <3>9, <3>10 DEF n
  <2> QED BY <2>1, <2>2
<1>2. \A T \in SUBSET S : T \in G
  <2> HIDE DEF G
  <2> QED BY <1>1, SubsetInduction
<1> QED BY <1>2

\* Sorted lists the pairs of a finite map, each once and in key order: what
\* the iterators of BTreeMap and of the tree yield.
LEMMA SortedFacts ==
    ASSUME NEW S, IsFiniteSet(S), IsMap(S)
    PROVE  /\ Sorted(S) \in Seq(S)
           /\ Increasing(Sorted(S))
           /\ \A p \in S : \E i \in 1..Len(Sorted(S)) : Sorted(S)[i] = p
<1> DEFINE n == Cardinality(S)
           s == Sorted(S)
<1>1. n \in Nat
  BY FS_CardinalityType
<1>2. s \in [1..n -> S] /\ Increasing(s)
  BY SortedExists DEF Sorted
<1> HIDE DEF s
<1>3. s \in Seq(S) /\ Len(s) = n
  BY <1>1, <1>2
<1>4. \A i, j \in 1..n : i # j => s[i] # s[j]
  <2>1. \A i \in 1..n : s[i][1] \in Nat
    BY <1>2 DEF IsMap
  <2>2. \A i, j \in 1..n : i < j => s[i][1] < s[j][1]
    BY <1>2 DEF Increasing
  <2> QED BY <1>1, <2>1, <2>2
<1>5. \A p \in S : \E i \in 1..n : s[i] = p
  BY <1>2, <1>4, EnumerationIsOnto
<1> QED BY <1>2, <1>3, <1>5 DEF s

-----------------------------------------------------------------------------
(* The merged iterator.                                                    *)

(***************************************************************************)
(* What is left to yield: positions lo to hi of the sorted content `all`.  *)
(* a has some of these pairs; b has pairs with some of these keys, of      *)
(* which those that a lacks are the right ones.                            *)
(***************************************************************************)
Rest(all, a, b, lo, hi) ==
    /\ Increasing(a) /\ Increasing(b)
    /\ \A i \in 1..Len(a) : \E j \in lo..hi : all[j] = a[i]
    /\ \A i \in 1..Len(b) : \E j \in lo..hi : all[j][1] = b[i][1]
    /\ \A j \in lo..hi : \/ \E i \in 1..Len(a) : a[i] = all[j]
                         \/ \E i \in 1..Len(b) : b[i] = all[j]

\* Which side MergedRange::next and next_back take from.
FromHead(a, b) == a # <<>> /\ (b = <<>> \/ Head(a)[1] <= Head(b)[1])
FromLast(a, b) == a # <<>> /\ (b = <<>> \/ Last(a)[1] >= Last(b)[1])
DropHead(a, b) == IF FromHead(a, b) THEN Tail(a) ELSE a
DropLast(a, b) == IF FromLast(a, b) THEN Front(a) ELSE a

\* The pairs of all the maps.
Pair == Nat \X Val

\* What MergedRange::next leaves of one of its two iterators: it drops a head
\* that is the smaller one or ties.
LEMMA DropHeadFacts ==
    ASSUME NEW a \in Seq(Pair), NEW b \in Seq(Pair), Increasing(a)
    PROVE  /\ DropHead(a, b) \in Seq(Pair)
           /\ Increasing(DropHead(a, b))
           /\ \A i \in 1..Len(DropHead(a, b)) :
                \E j \in 1..Len(a) : /\ a[j] = DropHead(a, b)[i]
                                     /\ FromHead(a, b) => a[1][1] < a[j][1]
           /\ \A j \in 1..Len(a) :
                \/ FromHead(a, b) /\ j = 1
                \/ \E i \in 1..Len(DropHead(a, b)) : DropHead(a, b)[i] = a[j]
<1>1. CASE ~FromHead(a, b)
  BY <1>1 DEF DropHead
<1>2. CASE FromHead(a, b)
  <2> DEFINE t == Tail(a)
             n == Len(a)
  <2>1. a # <<>> /\ DropHead(a, b) = t
    BY <1>2 DEF DropHead, FromHead
  <2>2. /\ n \in Nat /\ n > 0 /\ t \in Seq(Pair) /\ Len(t) = n - 1
        /\ \A i \in 1..Len(t) : t[i] = a[i + 1]
        /\ DOMAIN t = 1..Len(t) /\ DOMAIN a = 1..n
    BY <2>1, HeadTailProperties, EmptySeq
  <2>3. \A i, j \in 1..n : i < j => a[i][1] < a[j][1]
    BY <2>2 DEF Increasing
  <2> HIDE DEF t, n
  <2>4. \A i \in 1..Len(t) : i + 1 \in 1..n /\ t[i] = a[i + 1] /\ 1 < i + 1 /\ 1 \in 1..n
    BY <2>2
  <2>5. Increasing(t)
    <3> SUFFICES ASSUME NEW i \in 1..Len(t), NEW j \in 1..Len(t), i < j
                 PROVE  t[i][1] < t[j][1]
      BY <2>2 DEF Increasing
    <3>1. i + 1 < j + 1
      OBVIOUS
    <3> QED BY <2>3, <2>4, <3>1
  <2>6. ASSUME NEW i \in 1..Len(t)
        PROVE  \E j \in 1..n : a[j] = t[i] /\ a[1][1] < a[j][1]
    BY <2>3, <2>4
  <2>7. ASSUME NEW j \in 1..n, j # 1 PROVE \E i \in 1..Len(t) : t[i] = a[j]
    <3>1. j - 1 \in 1..Len(t) /\ (j - 1) + 1 = j
      BY <2>2, <2>7
    <3>2. t[j - 1] = a[j]
      BY <2>2, <3>1
    <3> QED BY <3>1, <3>2
  <2> QED BY <1>2, <2>1, <2>2, <2>5, <2>6, <2>7 DEF n
<1> QED BY <1>1, <1>2

\* The same of MergedRange::next_back, which drops a last pair that is the
\* larger one or ties.
LEMMA DropLastFacts ==
    ASSUME NEW a \in Seq(Pair), NEW b \in Seq(Pair), Increasing(a)
    PROVE  /\ DropLast(a, b) \in Seq(Pair)
           /\ Increasing(DropLast(a, b))
           /\ \A i \in 1..Len(DropLast(a, b)) :
                \E j \in 1..Len(a) : /\ a[j] = DropLast(a, b)[i]
                                     /\ FromLast(a, b) => a[j][1] < Last(a)[1]
           /\ \A j \in 1..Len(a) :
                \/ FromLast(a, b) /\ j = Len(a)
                \/ \E i \in 1..Len(DropLast(a, b)) : DropLast(a, b)[i] = a[j]
<1>1. CASE ~FromLast(a, b)
  BY <1>1 DEF DropLast
<1>2. CASE FromLast(a, b)
  <2> DEFINE t == Front(a)
             n == Len(a)
  <2>1. a # <<>> /\ DropLast(a, b) = t
    BY <1>2 DEF DropLast, FromLast
  <2>0. n \in Nat /\ n > 0 /\ \A i \in 1..(n - 1) : a[i] \in Pair
    BY <2>1, EmptySeq, ElementOfSeq
  <2>2. /\ t \in Seq(Pair) /\ Len(t) = n - 1
        /\ \A i \in 1..Len(t) : t[i] = a[i]
        /\ DOMAIN t = 1..Len(t) /\ DOMAIN a = 1..n
    <3>1. /\ SubSeq(a, 1, n - 1) \in Seq(Pair)
          /\ Len(SubSeq(a, 1, n - 1)) = IF 1 <= n - 1 THEN n - 1 - 1 + 1 ELSE 0
          /\ \A i \in 1..(n - 1 - 1 + 1) : SubSeq(a, 1, n - 1)[i] = a[1 + i - 1]
      <4> HIDE DEF n
      <4>1. n - 1 \in Int
        BY <2>0
      <4> QED BY <2>0, <4>1, SubSeqProperties
    <3>2. t = SubSeq(a, 1, n - 1)
      BY DEF Front
    <3>3. t \in Seq(Pair) /\ Len(t) = n - 1
      <4> HIDE DEF t, n
      <4> QED BY <2>0, <3>1, <3>2
    <3>4. \A i \in 1..Len(t) : t[i] = a[i]
      <4> HIDE DEF t, n
      <4> QED BY <2>0, <3>1, <3>2, <3>3
    <3>5. DOMAIN t = 1..Len(t) /\ DOMAIN a = 1..n
      BY <3>3, LenProperties
    <3> HIDE DEF t, n
    <3> QED BY <3>3, <3>4, <3>5
  <2>3. \A i, j \in 1..n : i < j => a[i][1] < a[j][1]
    BY <2>2 DEF Increasing
  <2>8. Last(a) = a[n]
    BY DEF Last
  <2> HIDE DEF t, n
  <2>4. \A i \in 1..Len(t) : i \in 1..n /\ t[i] = a[i] /\ i < n /\ n \in 1..n
    BY <2>0, <2>2
  <2>5. Increasing(t)
    BY <2>2, <2>3, <2>4 DEF Increasing
  <2>6. ASSUME NEW i \in 1..Len(t)
        PROVE  \E j \in 1..n : a[j] = t[i] /\ a[j][1] < Last(a)[1]
    BY <2>3, <2>4, <2>8
  <2>7. ASSUME NEW j \in 1..n, j # n PROVE \E i \in 1..Len(t) : t[i] = a[j]
    <3>1. j \in 1..Len(t)
      BY <2>0, <2>2, <2>7
    <3> QED BY <2>2, <3>1
  <2> QED BY <1>2, <2>1, <2>2, <2>5, <2>6, <2>7 DEF n
<1> QED BY <1>1, <1>2

\* MergedRange::next yields the first pair that is left, on a tie from a, and
\* leaves the rest.
LEMMA NextTakesFirst ==
    ASSUME NEW all \in Seq(Pair), Increasing(all),
           NEW a \in Seq(Pair), NEW b \in Seq(Pair),
           NEW lo \in Nat \ {0}, NEW hi \in 0..Len(all),
           Rest(all, a, b, lo, hi), a # <<>> \/ b # <<>>
    PROVE  /\ lo <= hi
           /\ (IF FromHead(a, b) THEN Head(a) ELSE Head(b)) = all[lo]
           /\ Rest(all, DropHead(a, b), DropHead(b, a), lo + 1, hi)
<1> DEFINE m == Head(a)
           n == Head(b)
<1>1. /\ \A j \in lo..hi : all[j][1] \in Nat
      /\ \A i, j \in lo..hi : i < j => all[i][1] < all[j][1]
  <2>1. lo..hi \subseteq 1..Len(all) /\ DOMAIN all = 1..Len(all)
    BY LenProperties
  <2>2. \A j \in 1..Len(all) : all[j] \in Pair
    BY ElementOfSeq
  <2> QED BY <2>1, <2>2 DEF Increasing, Pair
<1>2. /\ Increasing(a) /\ Increasing(b)
      /\ \A i \in 1..Len(a) : \E j \in lo..hi : all[j] = a[i]
      /\ \A i \in 1..Len(b) : \E j \in lo..hi : all[j][1] = b[i][1]
      /\ \A j \in lo..hi : \/ \E i \in 1..Len(a) : a[i] = all[j]
                           \/ \E i \in 1..Len(b) : b[i] = all[j]
  BY DEF Rest
<1>3. ASSUME a # <<>>
      PROVE  /\ 1 \in 1..Len(a) /\ m = a[1] /\ m[1] \in Nat
             /\ \A i \in 1..Len(a) : a[i][1] \in Nat /\ (a[i] = m \/ m[1] < a[i][1])
  <2>1. Len(a) \in Nat \ {0} /\ DOMAIN a = 1..Len(a) /\ m = a[1]
    BY <1>3, EmptySeq, LenProperties
  <2>2. \A i \in 1..Len(a) : a[i][1] \in Nat
    BY ElementOfSeq DEF Pair
  <2>3. \A i \in 1..Len(a) : i = 1 \/ 1 < i
    BY <2>1
  <2>4. 1 \in 1..Len(a)
    BY <2>1
  <2> HIDE DEF m
  <2> QED BY <1>2, <2>1, <2>2, <2>3, <2>4 DEF Increasing
<1>4. ASSUME b # <<>>
      PROVE  /\ 1 \in 1..Len(b) /\ n = b[1] /\ n[1] \in Nat
             /\ \A i \in 1..Len(b) : b[i][1] \in Nat /\ (b[i] = n \/ n[1] < b[i][1])
  <2>1. Len(b) \in Nat \ {0} /\ DOMAIN b = 1..Len(b) /\ n = b[1]
    BY <1>4, EmptySeq, LenProperties
  <2>2. \A i \in 1..Len(b) : b[i][1] \in Nat
    BY ElementOfSeq DEF Pair
  <2>3. \A i \in 1..Len(b) : i = 1 \/ 1 < i
    BY <2>1
  <2>4. 1 \in 1..Len(b)
    BY <2>1
  <2> HIDE DEF n
  <2> QED BY <1>2, <2>1, <2>2, <2>3, <2>4 DEF Increasing
<1>5. lo <= hi
  <2>1. \E j \in lo..hi : TRUE
    BY <1>2, <1>3, <1>4
  <2> QED BY <2>1
<1>6. lo \in lo..hi /\ \A j \in lo..hi : j = lo \/ all[lo][1] < all[j][1]
  BY <1>1, <1>5
<1>7. all[lo][1] \in Nat
  BY <1>1, <1>6
<1>8. /\ a = <<>> => Len(a) = 0
      /\ b = <<>> => Len(b) = 0
  BY EmptySeq
<1>9. FromHead(a, b) <=> a # <<>> /\ (b = <<>> \/ m[1] <= n[1])
  BY DEF FromHead
<1>10. FromHead(b, a) <=> b # <<>> /\ (a = <<>> \/ n[1] <= m[1])
  BY DEF FromHead
<1> HIDE DEF m, n
\* Neither side has anything before the first position.
<1>11. ASSUME a # <<>> PROVE m = all[lo] \/ all[lo][1] < m[1]
  <2>1. PICK j \in lo..hi : all[j] = m
    BY <1>2, <1>3, <1>11
  <2> QED BY <1>6, <2>1
<1>12. ASSUME b # <<>> PROVE n[1] = all[lo][1] \/ all[lo][1] < n[1]
  <2>1. PICK j \in lo..hi : all[j][1] = n[1]
    BY <1>2, <1>4, <1>12
  <2> QED BY <1>6, <2>1
\* One of them has the first position.
<1>13. \/ a # <<>> /\ m = all[lo]
       \/ b # <<>> /\ n = all[lo]
  <2>1. CASE \E i \in 1..Len(a) : a[i] = all[lo]
    <3>1. PICK i \in 1..Len(a) : a[i] = all[lo]
      BY <2>1
    <3>2. a # <<>>
      BY <1>8, <3>1
    <3>3. a[i] = m \/ m[1] < a[i][1]
      BY <1>3, <3>2
    <3>4. m[1] \in Nat
      BY <1>3, <3>2
    <3>5. m = all[lo]
      BY <1>7, <1>11, <3>1, <3>2, <3>3, <3>4
    <3> QED BY <3>2, <3>5
  <2>2. CASE \E i \in 1..Len(b) : b[i] = all[lo]
    <3>1. PICK i \in 1..Len(b) : b[i] = all[lo]
      BY <2>2
    <3>2. b # <<>>
      BY <1>8, <3>1
    <3>3. b[i] = n \/ n[1] < b[i][1]
      BY <1>4, <3>2
    <3>4. n[1] \in Nat
      BY <1>4, <3>2
    <3>5. n = all[lo]
      BY <1>7, <1>12, <3>1, <3>2, <3>3, <3>4
    <3> QED BY <3>2, <3>5
  <2> QED BY <1>2, <1>6, <2>1, <2>2
<1>14. ASSUME FromHead(a, b) PROVE m = all[lo]
  <2>1. a # <<>> /\ (b = <<>> \/ m[1] <= n[1])
    BY <1>9, <1>14
  <2>2. m[1] \in Nat
    BY <1>3, <2>1
  <2>3. CASE b # <<>> /\ n = all[lo]
    BY <1>7, <1>11, <2>1, <2>2, <2>3
  <2> QED BY <1>13, <2>3
<1>15. ASSUME ~FromHead(a, b)
       PROVE  /\ b # <<>> /\ n = all[lo] /\ FromHead(b, a)
              /\ a # <<>> => all[lo][1] < m[1]
  <2>1. CASE a = <<>>
    BY <1>10, <1>13, <2>1
  <2>2. CASE a # <<>>
    <3>1. b # <<>> /\ ~(m[1] <= n[1])
      BY <1>9, <1>15, <2>2
    <3>2. m[1] \in Nat /\ n[1] \in Nat
      BY <1>3, <1>4, <2>2, <3>1
    <3>3. n[1] < m[1]
      BY <3>1, <3>2
    <3>4. m # all[lo]
      <4> SUFFICES ASSUME m = all[lo] PROVE FALSE
        OBVIOUS
      <4>1. n[1] = m[1] \/ m[1] < n[1]
        BY <1>12, <3>1
      <4> QED BY <3>2, <3>3, <4>1
    <3>5. n = all[lo]
      BY <1>13, <3>4
    <3>6. FromHead(b, a)
      BY <1>10, <3>1, <3>2, <3>3
    <3> QED BY <3>1, <3>3, <3>5, <3>6
  <2> QED BY <2>1, <2>2
<1>16. ASSUME FromHead(b, a) PROVE n[1] = all[lo][1]
  <2>1. b # <<>> /\ (a = <<>> \/ n[1] <= m[1])
    BY <1>10, <1>16
  <2>2. n[1] \in Nat
    BY <1>4, <2>1
  <2>3. CASE a # <<>> /\ m = all[lo]
    BY <1>7, <1>12, <2>1, <2>2, <2>3
  <2> QED BY <1>13, <2>3
<1>17. ASSUME ~FromHead(b, a), b # <<>> PROVE all[lo][1] < n[1]
  <2>1. a # <<>> /\ ~(n[1] <= m[1])
    BY <1>10, <1>17
  <2>2. m[1] \in Nat /\ n[1] \in Nat
    BY <1>3, <1>4, <1>17, <2>1
  <2>3. m[1] < n[1]
    BY <2>1, <2>2
  <2>4. m = all[lo]
    BY <1>13, <1>11, <2>1, <2>2, <2>3, <1>7
  <2> QED BY <2>3, <2>4
<1>18. (lo + 1)..hi \subseteq lo..hi /\ \A j \in lo..hi : j # lo => j \in (lo + 1)..hi
  BY <1>5
<1>19. lo \notin (lo + 1)..hi
  BY <1>5
<1> DEFINE u == DropHead(a, b)
           w == DropHead(b, a)
<1>20. ASSUME NEW i \in 1..Len(u) PROVE \E j \in (lo + 1)..hi : all[j] = u[i]
  <2>1. PICK k \in 1..Len(a) : a[k] = u[i] /\ (FromHead(a, b) => a[1][1] < a[k][1])
    BY <1>2, DropHeadFacts
  <2>2. a # <<>>
    BY <1>8
  <2>3. a[k][1] \in Nat /\ m[1] \in Nat /\ (a[k] = m \/ m[1] < a[k][1])
    BY <1>3, <2>2
  <2>4. all[lo][1] < a[k][1]
    <3>1. CASE FromHead(a, b)
      BY <1>3, <1>14, <2>1, <2>2, <3>1
    <3>2. CASE ~FromHead(a, b)
      BY <1>7, <1>15, <2>2, <2>3, <3>2
    <3> QED BY <3>1, <3>2
  <2>5. PICK j \in lo..hi : all[j] = a[k]
    BY <1>2
  <2>6. j # lo
    BY <1>7, <2>4, <2>5
  <2> QED BY <1>18, <2>1, <2>5, <2>6
<1>21. ASSUME NEW i \in 1..Len(w) PROVE \E j \in (lo + 1)..hi : all[j][1] = w[i][1]
  <2>1. PICK k \in 1..Len(b) : b[k] = w[i] /\ (FromHead(b, a) => b[1][1] < b[k][1])
    BY <1>2, DropHeadFacts
  <2>2. b # <<>>
    BY <1>8
  <2>3. b[k][1] \in Nat /\ n[1] \in Nat /\ (b[k] = n \/ n[1] < b[k][1])
    BY <1>4, <2>2
  <2>4. all[lo][1] < b[k][1]
    <3>1. CASE FromHead(b, a)
      BY <1>4, <1>16, <2>1, <2>2, <3>1
    <3>2. CASE ~FromHead(b, a)
      BY <1>7, <1>17, <2>2, <2>3, <3>2
    <3> QED BY <3>1, <3>2
  <2>5. PICK j \in lo..hi : all[j][1] = b[k][1]
    BY <1>2
  <2>6. j # lo
    BY <1>7, <2>4, <2>5
  <2> QED BY <1>18, <2>1, <2>5, <2>6
<1>22. ASSUME NEW j \in (lo + 1)..hi
       PROVE  \/ \E i \in 1..Len(u) : u[i] = all[j]
              \/ \E i \in 1..Len(w) : w[i] = all[j]
  <2>1. j \in lo..hi /\ j # lo
    BY <1>18, <1>19
  <2>2. all[lo][1] < all[j][1] /\ all[j][1] \in Nat
    BY <1>1, <1>6, <2>1
  <2>3. CASE \E i \in 1..Len(a) : a[i] = all[j]
    <3>1. PICK i \in 1..Len(a) : a[i] = all[j]
      BY <2>3
    <3>2. a # <<>>
      BY <1>8, <3>1
    <3>3. ~(FromHead(a, b) /\ i = 1)
      BY <1>3, <1>7, <1>14, <2>2, <3>1, <3>2
    <3>4. \E k \in 1..Len(u) : u[k] = a[i]
      BY <1>2, <3>3, DropHeadFacts
    <3> QED BY <3>1, <3>4
  <2>4. CASE \E i \in 1..Len(b) : b[i] = all[j]
    <3>1. PICK i \in 1..Len(b) : b[i] = all[j]
      BY <2>4
    <3>2. b # <<>>
      BY <1>8, <3>1
    <3>3. ~(FromHead(b, a) /\ i = 1)
      BY <1>4, <1>7, <1>16, <2>2, <3>1, <3>2
    <3>4. \E k \in 1..Len(w) : w[k] = b[i]
      BY <1>2, <3>3, DropHeadFacts
    <3> QED BY <3>1, <3>4
  <2> QED BY <1>2, <2>1, <2>3, <2>4
<1>23. Increasing(u) /\ Increasing(w)
  BY <1>2, DropHeadFacts
<1>24. Rest(all, u, w, lo + 1, hi)
  <2> HIDE DEF u, w
  <2> QED BY <1>20, <1>21, <1>22, <1>23 DEF Rest
<1>25. (IF FromHead(a, b) THEN m ELSE n) = all[lo]
  BY <1>14, <1>15
<1> QED
  BY <1>5, <1>24, <1>25 DEF m, n, u, w

\* MergedRange::next_back yields the last pair that is left, on a tie from a,
\* and leaves the rest.
LEMMA NextBackTakesLast ==
    ASSUME NEW all \in Seq(Pair), Increasing(all),
           NEW a \in Seq(Pair), NEW b \in Seq(Pair),
           NEW lo \in Nat \ {0}, NEW hi \in 0..Len(all),
           Rest(all, a, b, lo, hi), a # <<>> \/ b # <<>>
    PROVE  /\ lo <= hi
           /\ (IF FromLast(a, b) THEN Last(a) ELSE Last(b)) = all[hi]
           /\ Rest(all, DropLast(a, b), DropLast(b, a), lo, hi - 1)
<1> DEFINE m == Last(a)
           n == Last(b)
<1>1. /\ \A j \in lo..hi : all[j][1] \in Nat
      /\ \A i, j \in lo..hi : i < j => all[i][1] < all[j][1]
  <2>1. lo..hi \subseteq 1..Len(all) /\ DOMAIN all = 1..Len(all)
    BY LenProperties
  <2>2. \A j \in 1..Len(all) : all[j] \in Pair
    BY ElementOfSeq
  <2> QED BY <2>1, <2>2 DEF Increasing, Pair
<1>2. /\ Increasing(a) /\ Increasing(b)
      /\ \A i \in 1..Len(a) : \E j \in lo..hi : all[j] = a[i]
      /\ \A i \in 1..Len(b) : \E j \in lo..hi : all[j][1] = b[i][1]
      /\ \A j \in lo..hi : \/ \E i \in 1..Len(a) : a[i] = all[j]
                           \/ \E i \in 1..Len(b) : b[i] = all[j]
  BY DEF Rest
<1>3. ASSUME a # <<>>
      PROVE  /\ Len(a) \in 1..Len(a) /\ m = a[Len(a)] /\ m[1] \in Nat
             /\ \A i \in 1..Len(a) : a[i][1] \in Nat /\ (a[i] = m \/ m[1] > a[i][1])
  <2>1. Len(a) \in Nat \ {0} /\ DOMAIN a = 1..Len(a) /\ m = a[Len(a)]
    BY <1>3, EmptySeq, LenProperties DEF Last
  <2>2. \A i \in 1..Len(a) : a[i][1] \in Nat
    BY ElementOfSeq DEF Pair
  <2>3. \A i \in 1..Len(a) : i = Len(a) \/ i < Len(a)
    <3>1. \A l \in Nat : \A i \in 1..l : i = l \/ i < l
      OBVIOUS
    <3> QED BY <2>1, <3>1
  <2>4. Len(a) \in 1..Len(a)
    BY <2>1
  <2> HIDE DEF m
  <2> QED BY <1>2, <2>1, <2>2, <2>3, <2>4 DEF Increasing
<1>4. ASSUME b # <<>>
      PROVE  /\ Len(b) \in 1..Len(b) /\ n = b[Len(b)] /\ n[1] \in Nat
             /\ \A i \in 1..Len(b) : b[i][1] \in Nat /\ (b[i] = n \/ n[1] > b[i][1])
  <2>1. Len(b) \in Nat \ {0} /\ DOMAIN b = 1..Len(b) /\ n = b[Len(b)]
    BY <1>4, EmptySeq, LenProperties DEF Last
  <2>2. \A i \in 1..Len(b) : b[i][1] \in Nat
    BY ElementOfSeq DEF Pair
  <2>3. \A i \in 1..Len(b) : i = Len(b) \/ i < Len(b)
    <3>1. \A l \in Nat : \A i \in 1..l : i = l \/ i < l
      OBVIOUS
    <3> QED BY <2>1, <3>1
  <2>4. Len(b) \in 1..Len(b)
    BY <2>1
  <2> HIDE DEF n
  <2> QED BY <1>2, <2>1, <2>2, <2>3, <2>4 DEF Increasing
<1>5. lo <= hi
  <2>1. \E j \in lo..hi : TRUE
    BY <1>2, <1>3, <1>4
  <2> QED BY <2>1
<1>6. hi \in lo..hi /\ \A j \in lo..hi : j = hi \/ all[hi][1] > all[j][1]
  BY <1>1, <1>5
<1>7. all[hi][1] \in Nat
  BY <1>1, <1>6
<1>8. /\ a = <<>> => Len(a) = 0
      /\ b = <<>> => Len(b) = 0
  BY EmptySeq
<1>9. FromLast(a, b) <=> a # <<>> /\ (b = <<>> \/ m[1] >= n[1])
  BY DEF FromLast
<1>10. FromLast(b, a) <=> b # <<>> /\ (a = <<>> \/ n[1] >= m[1])
  BY DEF FromLast
<1> HIDE DEF m, n
\* Neither side has anything after the last position.
<1>11. ASSUME a # <<>> PROVE m = all[hi] \/ all[hi][1] > m[1]
  <2>1. PICK j \in lo..hi : all[j] = m
    BY <1>2, <1>3, <1>11
  <2> QED BY <1>6, <2>1
<1>12. ASSUME b # <<>> PROVE n[1] = all[hi][1] \/ all[hi][1] > n[1]
  <2>1. PICK j \in lo..hi : all[j][1] = n[1]
    BY <1>2, <1>4, <1>12
  <2> QED BY <1>6, <2>1
\* One of them has the last position.
<1>13. \/ a # <<>> /\ m = all[hi]
       \/ b # <<>> /\ n = all[hi]
  <2>1. CASE \E i \in 1..Len(a) : a[i] = all[hi]
    <3>1. PICK i \in 1..Len(a) : a[i] = all[hi]
      BY <2>1
    <3>2. a # <<>>
      BY <1>8, <3>1
    <3>3. a[i] = m \/ m[1] > a[i][1]
      BY <1>3, <3>2
    <3>4. m[1] \in Nat
      BY <1>3, <3>2
    <3>5. m = all[hi]
      BY <1>7, <1>11, <3>1, <3>2, <3>3, <3>4
    <3> QED BY <3>2, <3>5
  <2>2. CASE \E i \in 1..Len(b) : b[i] = all[hi]
    <3>1. PICK i \in 1..Len(b) : b[i] = all[hi]
      BY <2>2
    <3>2. b # <<>>
      BY <1>8, <3>1
    <3>3. b[i] = n \/ n[1] > b[i][1]
      BY <1>4, <3>2
    <3>4. n[1] \in Nat
      BY <1>4, <3>2
    <3>5. n = all[hi]
      BY <1>7, <1>12, <3>1, <3>2, <3>3, <3>4
    <3> QED BY <3>2, <3>5
  <2> QED BY <1>2, <1>6, <2>1, <2>2
<1>14. ASSUME FromLast(a, b) PROVE m = all[hi]
  <2>1. a # <<>> /\ (b = <<>> \/ m[1] >= n[1])
    BY <1>9, <1>14
  <2>2. m[1] \in Nat
    BY <1>3, <2>1
  <2>3. CASE b # <<>> /\ n = all[hi]
    BY <1>7, <1>11, <2>1, <2>2, <2>3
  <2> QED BY <1>13, <2>3
<1>15. ASSUME ~FromLast(a, b)
       PROVE  /\ b # <<>> /\ n = all[hi] /\ FromLast(b, a)
              /\ a # <<>> => all[hi][1] > m[1]
  <2>1. CASE a = <<>>
    BY <1>10, <1>13, <2>1
  <2>2. CASE a # <<>>
    <3>1. b # <<>> /\ ~(m[1] >= n[1])
      BY <1>9, <1>15, <2>2
    <3>2. m[1] \in Nat /\ n[1] \in Nat
      BY <1>3, <1>4, <2>2, <3>1
    <3>3. n[1] > m[1]
      BY <3>1, <3>2
    <3>4. m # all[hi]
      <4> SUFFICES ASSUME m = all[hi] PROVE FALSE
        OBVIOUS
      <4>1. n[1] = m[1] \/ m[1] > n[1]
        BY <1>12, <3>1
      <4> QED BY <3>2, <3>3, <4>1
    <3>5. n = all[hi]
      BY <1>13, <3>4
    <3>6. FromLast(b, a)
      BY <1>10, <3>1, <3>2, <3>3
    <3> QED BY <3>1, <3>3, <3>5, <3>6
  <2> QED BY <2>1, <2>2
<1>16. ASSUME FromLast(b, a) PROVE n[1] = all[hi][1]
  <2>1. b # <<>> /\ (a = <<>> \/ n[1] >= m[1])
    BY <1>10, <1>16
  <2>2. n[1] \in Nat
    BY <1>4, <2>1
  <2>3. CASE a # <<>> /\ m = all[hi]
    BY <1>7, <1>12, <2>1, <2>2, <2>3
  <2> QED BY <1>13, <2>3
<1>17. ASSUME ~FromLast(b, a), b # <<>> PROVE all[hi][1] > n[1]
  <2>1. a # <<>> /\ ~(n[1] >= m[1])
    BY <1>10, <1>17
  <2>2. m[1] \in Nat /\ n[1] \in Nat
    BY <1>3, <1>4, <1>17, <2>1
  <2>3. m[1] > n[1]
    BY <2>1, <2>2
  <2>4. m = all[hi]
    BY <1>13, <1>11, <2>1, <2>2, <2>3, <1>7
  <2> QED BY <2>3, <2>4
<1>18. lo..(hi - 1) \subseteq lo..hi /\ \A j \in lo..hi : j # hi => j \in lo..(hi - 1)
  BY <1>5
<1>19. hi \notin lo..(hi - 1)
  BY <1>5
<1> DEFINE u == DropLast(a, b)
           w == DropLast(b, a)
<1>20. ASSUME NEW i \in 1..Len(u) PROVE \E j \in lo..(hi - 1) : all[j] = u[i]
  <2>1. PICK k \in 1..Len(a) : a[k] = u[i] /\ (FromLast(a, b) => a[k][1] < Last(a)[1])
    BY <1>2, DropLastFacts
  <2>2. a # <<>>
    BY <1>8
  <2>3. a[k][1] \in Nat /\ m[1] \in Nat /\ (a[k] = m \/ m[1] > a[k][1])
    BY <1>3, <2>2
  <2>4. all[hi][1] > a[k][1]
    <3>1. CASE FromLast(a, b)
      BY <1>7, <1>14, <2>1, <2>3, <3>1 DEF m
    <3>2. CASE ~FromLast(a, b)
      BY <1>7, <1>15, <2>2, <2>3, <3>2
    <3> QED BY <3>1, <3>2
  <2>5. PICK j \in lo..hi : all[j] = a[k]
    BY <1>2
  <2>6. j # hi
    BY <1>7, <2>4, <2>5
  <2> QED BY <1>18, <2>1, <2>5, <2>6
<1>21. ASSUME NEW i \in 1..Len(w) PROVE \E j \in lo..(hi - 1) : all[j][1] = w[i][1]
  <2>1. PICK k \in 1..Len(b) : b[k] = w[i] /\ (FromLast(b, a) => b[k][1] < Last(b)[1])
    BY <1>2, DropLastFacts
  <2>2. b # <<>>
    BY <1>8
  <2>3. b[k][1] \in Nat /\ n[1] \in Nat /\ (b[k] = n \/ n[1] > b[k][1])
    BY <1>4, <2>2
  <2>4. all[hi][1] > b[k][1]
    <3>1. CASE FromLast(b, a)
      BY <1>7, <1>16, <2>1, <2>3, <3>1 DEF n
    <3>2. CASE ~FromLast(b, a)
      BY <1>7, <1>17, <2>2, <2>3, <3>2
    <3> QED BY <3>1, <3>2
  <2>5. PICK j \in lo..hi : all[j][1] = b[k][1]
    BY <1>2
  <2>6. j # hi
    BY <1>7, <2>4, <2>5
  <2> QED BY <1>18, <2>1, <2>5, <2>6
<1>22. ASSUME NEW j \in lo..(hi - 1)
       PROVE  \/ \E i \in 1..Len(u) : u[i] = all[j]
              \/ \E i \in 1..Len(w) : w[i] = all[j]
  <2>1. j \in lo..hi /\ j # hi
    BY <1>18, <1>19
  <2>2. all[hi][1] > all[j][1] /\ all[j][1] \in Nat
    BY <1>1, <1>6, <2>1
  <2>3. CASE \E i \in 1..Len(a) : a[i] = all[j]
    <3>1. PICK i \in 1..Len(a) : a[i] = all[j]
      BY <2>3
    <3>2. a # <<>>
      BY <1>8, <3>1
    <3>3. ~(FromLast(a, b) /\ i = Len(a))
      BY <1>3, <1>7, <1>14, <2>2, <3>1, <3>2
    <3>4. \E k \in 1..Len(u) : u[k] = a[i]
      BY <1>2, <3>3, DropLastFacts
    <3> QED BY <3>1, <3>4
  <2>4. CASE \E i \in 1..Len(b) : b[i] = all[j]
    <3>1. PICK i \in 1..Len(b) : b[i] = all[j]
      BY <2>4
    <3>2. b # <<>>
      BY <1>8, <3>1
    <3>3. ~(FromLast(b, a) /\ i = Len(b))
      BY <1>4, <1>7, <1>16, <2>2, <3>1, <3>2
    <3>4. \E k \in 1..Len(w) : w[k] = b[i]
      BY <1>2, <3>3, DropLastFacts
    <3> QED BY <3>1, <3>4
  <2> QED BY <1>2, <2>1, <2>3, <2>4
<1>23. Increasing(u) /\ Increasing(w)
  BY <1>2, DropLastFacts
<1>24. Rest(all, u, w, lo, hi - 1)
  <2> HIDE DEF u, w
  <2> QED BY <1>20, <1>21, <1>22, <1>23 DEF Rest
<1>25. (IF FromLast(a, b) THEN m ELSE n) = all[hi]
  BY <1>14, <1>15
<1> QED
  BY <1>5, <1>24, <1>25 DEF m, n, u, w

-----------------------------------------------------------------------------
(* The maps are finite: every write adds at most one key.                  *)

FiniteMaps ==
    /\ IsFiniteSet(Present(tree))
    /\ IsFiniteSet(Present(cache.storage))
    /\ IsFiniteSet(Present(tx.storage))
    /\ IsFiniteSet(Present(block.storage))

\* A subset of the union of two finite sets is finite: what a cache over
\* another map shows.
LEMMA FiniteWithin ==
    ASSUME NEW S, NEW T, IsFiniteSet(S), IsFiniteSet(T), NEW U, U \subseteq S \cup T
    PROVE  IsFiniteSet(U)
  BY FS_Union, FS_Subset

\* KVCache::set and delete, the pouring of one cache into another and a commit
\* leave no key that was not in one of the maps before, but for the key set.
LEMMA WritesAddOneKey ==
    /\ \A c \in Cache, k \in Key, v \in Val :
          /\ Present(CacheSet(c, k, v).storage) \subseteq Present(c.storage) \cup {k}
          /\ Present(CacheDelete(c, k).storage) \subseteq Present(c.storage)
    /\ \A c, d \in Cache :
          /\ Present(SetsThenDeletes(c, d).storage)
                \subseteq Present(c.storage) \cup Present(d.storage)
          /\ Present(DeletesThenSets(c, d).storage)
                \subseteq Present(c.storage) \cup Present(d.storage)
    /\ \A c \in Cache, m \in Content :
          /\ Present(Overlay(c, m)) \subseteq Present(c.storage) \cup Present(m)
          /\ Present(CommitTree(m, c)) \subseteq Present(c.storage) \cup Present(m)
    /\ Present(Empty) = {} /\ Present(EmptyCache.storage) = {}
<1>1. ASSUME NEW c \in Cache, NEW k \in Key, NEW v \in Val
      PROVE  /\ Present(CacheSet(c, k, v).storage) \subseteq Present(c.storage) \cup {k}
             /\ Present(CacheDelete(c, k).storage) \subseteq Present(c.storage)
  BY DEF Present, CacheSet, CacheDelete, Cache, Content
<1>2. ASSUME NEW c \in Cache, NEW d \in Cache
      PROVE  /\ Present(SetsThenDeletes(c, d).storage)
                   \subseteq Present(c.storage) \cup Present(d.storage)
             /\ Present(DeletesThenSets(c, d).storage)
                   \subseteq Present(c.storage) \cup Present(d.storage)
  BY DEF Present, SetsThenDeletes, DeletesThenSets, Cache, Content
<1>3. ASSUME NEW c \in Cache, NEW m \in Content
      PROVE  /\ Present(Overlay(c, m)) \subseteq Present(c.storage) \cup Present(m)
             /\ Present(CommitTree(m, c)) \subseteq Present(c.storage) \cup Present(m)
  BY DEF Present, Overlay, CommitTree, Cache, Content
<1>4. Present(Empty) = {} /\ Present(EmptyCache.storage) = {}
  BY DEF Present, Empty, EmptyCache
<1> QED BY <1>1, <1>2, <1>3, <1>4

\* The maps of both banks stay finite, whatever is written, moved, committed.
LEMMA NextFinite == IInv /\ FiniteMaps /\ [Next]_vars => FiniteMaps'
<1> SUFFICES ASSUME IInv, FiniteMaps, [Next]_vars PROVE FiniteMaps'
  OBVIOUS
<1>0. /\ tree \in Content /\ cache \in Cache /\ tx \in Cache /\ block \in Cache
      /\ cache.storage \in Content /\ tx.storage \in Content /\ block.storage \in Content
  BY DEF IInv, Cache
<1>1. ASSUME NEW k \in Key, NEW v \in Val, Set(k, v) PROVE FiniteMaps'
  <2>1. IsFiniteSet(Present(CacheSet(cache, k, v).storage))
    <3>1. Present(CacheSet(cache, k, v).storage) \subseteq Present(cache.storage) \cup {k}
      BY <1>0, WritesAddOneKey
    <3>2. IsFiniteSet({k}) /\ IsFiniteSet(Present(cache.storage))
      BY FS_Singleton DEF FiniteMaps
    <3> QED BY <3>1, <3>2, FiniteWithin
  <2> QED BY <1>1, <2>1 DEF Set, FiniteMaps
<1>2. ASSUME NEW k \in Key, Delete(k) PROVE FiniteMaps'
  <2>1. Present(CacheDelete(cache, k).storage) \subseteq Present(cache.storage)
    BY <1>0 DEF Present, CacheDelete, Cache, Content
  <2>2. IsFiniteSet(Present(CacheDelete(cache, k).storage))
    BY <2>1, FS_Subset DEF FiniteMaps
  <2> QED BY <1>2, <2>2 DEF Delete, FiniteMaps
<1>3. CASE CacheClear
  BY <1>3, WritesAddOneKey, FS_EmptySet DEF CacheClear, FiniteMaps
<1>4. CASE Commit
  <2>1. IsFiniteSet(Present(CommitTree(tree, cache)))
    <3>1. Present(CommitTree(tree, cache)) \subseteq Present(cache.storage) \cup Present(tree)
      BY <1>0, WritesAddOneKey
    <3> QED BY <3>1, FiniteWithin DEF FiniteMaps
  <2> QED BY <1>4, <2>1, WritesAddOneKey, FS_EmptySet DEF Commit, FiniteMaps
<1>5. ASSUME NEW k \in Key, NEW v \in Val, TxSet(k, v) PROVE FiniteMaps'
  <2>1. IsFiniteSet(Present(CacheSet(tx, k, v).storage))
    <3>1. Present(CacheSet(tx, k, v).storage) \subseteq Present(tx.storage) \cup {k}
      BY <1>0, WritesAddOneKey
    <3>2. IsFiniteSet({k}) /\ IsFiniteSet(Present(tx.storage))
      BY FS_Singleton DEF FiniteMaps
    <3> QED BY <3>1, <3>2, FiniteWithin
  <2> QED BY <1>5, <2>1 DEF TxSet, FiniteMaps
<1>6. ASSUME NEW k \in Key, TxDelete(k) PROVE FiniteMaps'
  <2>1. Present(CacheDelete(tx, k).storage) \subseteq Present(tx.storage)
    BY <1>0 DEF Present, CacheDelete, Cache, Content
  <2>2. IsFiniteSet(Present(CacheDelete(tx, k).storage))
    BY <2>1, FS_Subset DEF FiniteMaps
  <2> QED BY <1>6, <2>2 DEF TxDelete, FiniteMaps
<1>7. CASE TxCacheClear
  BY <1>7, WritesAddOneKey, FS_EmptySet DEF TxCacheClear, FiniteMaps
<1>8. CASE BlockCacheClear
  BY <1>8, WritesAddOneKey, FS_EmptySet DEF BlockCacheClear, FiniteMaps
<1>9. CASE UpgradeCache
  <2>1. IsFiniteSet(Present(SetsThenDeletes(block, tx).storage))
    <3>1. Present(SetsThenDeletes(block, tx).storage) \subseteq Present(block.storage) \cup Present(tx.storage)
      BY <1>0, WritesAddOneKey
    <3> QED BY <3>1, FiniteWithin DEF FiniteMaps
  <2> QED BY <1>9, <2>1, WritesAddOneKey, FS_EmptySet DEF UpgradeCache, FiniteMaps
<1>10. CASE ToTxKind
  BY <1>10, WritesAddOneKey, FS_EmptySet DEF ToTxKind, FiniteMaps
<1>11. CASE ConsumeBlockCache
  <2>1. IsFiniteSet(Present(SetsThenDeletes(cache, block).storage))
    <3>1. Present(SetsThenDeletes(cache, block).storage) \subseteq Present(cache.storage) \cup Present(block.storage)
      BY <1>0, WritesAddOneKey
    <3> QED BY <3>1, FiniteWithin DEF FiniteMaps
  <2> QED BY <1>11, <2>1, WritesAddOneKey, FS_EmptySet DEF ConsumeBlockCache, FiniteMaps
<1>12. CASE AppendBlockCache
  <2>1. IsFiniteSet(Present(SetsThenDeletes(block, cache).storage))
    <3>1. Present(SetsThenDeletes(block, cache).storage) \subseteq Present(block.storage) \cup Present(cache.storage)
      BY <1>0, WritesAddOneKey
    <3> QED BY <3>1, FiniteWithin DEF FiniteMaps
  <2> QED BY <1>12, <2>1 DEF AppendBlockCache, FiniteMaps
<1>13. CASE TakeBlockCache
  <2>1. IsFiniteSet(Present(DeletesThenSets(cache, block).storage))
    <3>1. Present(DeletesThenSets(cache, block).storage) \subseteq Present(cache.storage) \cup Present(block.storage)
      BY <1>0, WritesAddOneKey
    <3> QED BY <3>1, FiniteWithin DEF FiniteMaps
  <2> QED BY <1>13, <2>1, WritesAddOneKey, FS_EmptySet DEF TakeBlockCache, FiniteMaps
<1>14. CASE UNCHANGED <<tree, cache, tx, block>>
  BY <1>14 DEF FiniteMaps
<1>15. ScanOps \/ UNCHANGED vars => UNCHANGED <<tree, cache, tx, block>>
  BY DEF ScanOps, AppRange, TxRange, IterNext, NextBack, Close, vars
<1> QED
  BY <1>1, <1>2, <1>3, <1>4, <1>5, <1>6, <1>7, <1>8, <1>9, <1>10, <1>11, <1>12,
     <1>13, <1>14, <1>15
  DEF Next, AppOps, TxOps, SharedOps

\* The pairs of a finite map are a finite set of pairs with different keys, and
\* so are those that a range keeps of them.
LEMMA PairsFacts ==
    ASSUME NEW m \in Content, IsFiniteSet(Present(m)), NEW r, NEW S \in SUBSET Pairs(m, r)
    PROVE  IsFiniteSet(S) /\ IsMap(S) /\ S \subseteq Pair
<1>1. IsFiniteSet(Present(m) \cap r)
  BY FS_Subset
<1>2. Pairs(m, r) = {<<k, m[k]>> : k \in Present(m) \cap r}
  BY DEF Pairs
<1>3. IsFiniteSet({<<k, m[k]>> : k \in Present(m) \cap r})
  <2> DEFINE f == [k \in Present(m) \cap r |-> <<k, m[k]>>]
             T == {<<k, m[k]>> : k \in Present(m) \cap r}
  <2>1. f \in Surjection(Present(m) \cap r, T)
    BY DEF Surjection
  <2> HIDE DEF f, T
  <2>2. IsFiniteSet(T)
    BY <1>1, <2>1, FS_Surjection
  <2> QED BY <2>2 DEF T
<1>4. IsFiniteSet(S)
  BY <1>2, <1>3, FS_Subset
<1>5. \A p \in S : \E k \in Key : p = <<k, m[k]>> /\ m[k] \in Val
  BY <1>2 DEF Present, Content
<1>6. IsMap(S)
  BY <1>5, KeyAssumption DEF IsMap
<1>7. S \subseteq Pair
  BY <1>5, KeyAssumption DEF Pair
<1> QED BY <1>4, <1>6, <1>7

-----------------------------------------------------------------------------
(* The scans.                                                              *)

\* A range over the application bank, between two steps: what it has yielded
\* at both ends, and what is left.
InOrder(all, front, back, a, b) ==
    /\ Len(front) + Len(back) <= Len(all)
    /\ front = SubSeq(all, 1, Len(front))
    /\ back = SubSeq(all, Len(all) - Len(back) + 1, Len(all))
    /\ Rest(all, a, b, Len(front) + 1, Len(all) - Len(back))

\* A range over the transaction bank: what is to be yielded has been, or is in
\* the collected cached pairs, or is persisted under a key that is not cached.
Unskipped(front, back, a, b, r) ==
    /\ ToSet(a) \subseteq Pairs(TxCached, r)
    /\ \A p \in Pairs(TxView, r) :
          \/ p \in ToSet(front) \cup ToSet(back) \cup ToSet(a)
          \/ p \in ToSet(b) /\ p[1] \notin Present(TxCached)

ScanInv ==
    scan # NoScan =>
        /\ scan.a \in Seq(Pair) /\ scan.b \in Seq(Pair)
        /\ scan.front \in Seq(Pair) /\ scan.back \in Seq(Pair)
        /\ scan.of = "app" => InOrder(Sorted(Pairs(AppView, scan.r)), scan.front, scan.back,
                                      scan.a, scan.b)
        /\ scan.of = "tx" => Unskipped(scan.front, scan.back, scan.a, scan.b, scan.r)

\* The content that ApplicationKVBank::get shows, in key order.
LEMMA AppViewSorted ==
    ASSUME IInv, FiniteMaps, NEW r
    PROVE  LET S == Pairs(AppView, r)
           IN  /\ Sorted(S) \in Seq(Pair)
               /\ Increasing(Sorted(S))
               /\ \A p \in S : \E i \in 1..Len(Sorted(S)) : Sorted(S)[i] = p
               /\ \A i \in 1..Len(Sorted(S)) : Sorted(S)[i] \in S
<1> DEFINE S == Pairs(AppView, r)
<1>1. AppView \in Content
  BY OverlayType DEF IInv, AppView
<1>2. IsFiniteSet(Present(AppView))
  <2>1. Present(AppView) \subseteq Present(cache.storage) \cup Present(tree)
    BY WritesAddOneKey DEF IInv, AppView
  <2> QED BY <2>1, FiniteWithin DEF FiniteMaps
<1>3. IsFiniteSet(S) /\ IsMap(S) /\ S \subseteq Pair
  BY <1>1, <1>2, PairsFacts
<1> HIDE DEF S
<1>4. /\ Sorted(S) \in Seq(S)
      /\ Increasing(Sorted(S))
      /\ \A p \in S : \E i \in 1..Len(Sorted(S)) : Sorted(S)[i] = p
  BY <1>3, SortedFacts
<1>5. Sorted(S) \in Seq(Pair) /\ \A i \in 1..Len(Sorted(S)) : Sorted(S)[i] \in S
  BY <1>3, <1>4, SeqMonotonic, ElementOfSeq
<1> QED BY <1>4, <1>5 DEF S

\* ApplicationKVBank::range starts with everything still to be yielded: the
\* cached pairs, and the persisted ones that are not marked as deleted.
LEMMA AppRangeStarts ==
    ASSUME IInv, FiniteMaps, NEW r
    PROVE  LET a == Sorted(Pairs(cache.storage, r))
               b == Sorted({p \in Pairs(tree, r) : p[1] \notin cache.delete})
           IN  /\ a \in Seq(Pair) /\ b \in Seq(Pair)
               /\ InOrder(Sorted(Pairs(AppView, r)), <<>>, <<>>, a, b)
<1> DEFINE A == Pairs(cache.storage, r)
           B == {p \in Pairs(tree, r) : p[1] \notin cache.delete}
           S == Pairs(AppView, r)
           a == Sorted(A)
           b == Sorted(B)
           all == Sorted(S)
<1>1. tree \in Content /\ cache \in Cache /\ cache.storage \in Content /\ Disjoint(cache)
  BY DEF IInv, Cache
<1>2. /\ IsFiniteSet(A) /\ IsMap(A) /\ A \subseteq Pair
      /\ IsFiniteSet(B) /\ IsMap(B) /\ B \subseteq Pair
  BY <1>1, PairsFacts DEF FiniteMaps
\* What a point read shows in the range, in terms of the two sources.
<1>3. /\ A \subseteq S
      /\ \A p \in B : \E q \in S : q[1] = p[1]
      /\ S \subseteq A \cup B
  <2> DEFINE v == AppView
  <2>1. \A k \in Key : v[k] = IF k \in cache.delete THEN None
                               ELSE IF cache.storage[k] # None THEN cache.storage[k] ELSE tree[k]
    BY DEF AppView, Overlay
  <2>2. \A k \in Key : k \in cache.delete => cache.storage[k] = None
    BY <1>1 DEF Disjoint, Present
  <2> HIDE DEF v
  <2>3. S = {<<k, v[k]>> : k \in Present(v) \cap r}
    BY DEF Pairs, v
  <2>4. ASSUME NEW k \in Present(cache.storage) \cap r PROVE <<k, cache.storage[k]>> \in S
    <3>1. k \in Present(v) /\ v[k] = cache.storage[k]
      BY <2>1, <2>2 DEF Present
    <3> QED BY <2>3, <3>1
  <2>5. ASSUME NEW k \in Present(tree) \cap r, k \notin cache.delete PROVE <<k, v[k]>> \in S
    <3>1. k \in Present(v)
      BY <2>1, <2>5 DEF Present
    <3> QED BY <2>3, <3>1
  <2>6. ASSUME NEW k \in Present(v) \cap r PROVE <<k, v[k]>> \in A \cup B
    <3>1. CASE cache.storage[k] # None
      BY <2>1, <3>1 DEF Present, Pairs
    <3>2. CASE cache.storage[k] = None
      BY <2>1, <3>2 DEF Present, Pairs
    <3> QED BY <3>1, <3>2
  <2>7. A \subseteq S
    BY <2>4 DEF Pairs
  <2>8. ASSUME NEW p \in B PROVE \E q \in S : q[1] = p[1]
    <3>1. PICK k \in Present(tree) \cap r : p = <<k, tree[k]>> /\ p[1] \notin cache.delete
      BY DEF Pairs
    <3>2. p[1] = k /\ k \notin cache.delete
      BY <3>1
    <3> QED BY <2>5, <3>2
  <2>9. S \subseteq A \cup B
    BY <2>3, <2>6
  <2> QED BY <2>7, <2>8, <2>9
<1>4. /\ all \in Seq(Pair) /\ Increasing(all)
      /\ \A p \in S : \E i \in 1..Len(all) : all[i] = p
      /\ \A i \in 1..Len(all) : all[i] \in S
  BY AppViewSorted
<1> HIDE DEF A, B, S
<1>5. /\ a \in Seq(A) /\ Increasing(a)
      /\ \A p \in A : \E i \in 1..Len(a) : a[i] = p
      /\ \A i \in 1..Len(a) : a[i] \in A
  BY <1>2, SortedFacts, ElementOfSeq
<1>6. /\ b \in Seq(B) /\ Increasing(b)
      /\ \A p \in B : \E i \in 1..Len(b) : b[i] = p
      /\ \A i \in 1..Len(b) : b[i] \in B
  BY <1>2, SortedFacts, ElementOfSeq
<1>7. a \in Seq(Pair) /\ b \in Seq(Pair)
  BY <1>2, <1>5, <1>6, SeqMonotonic
<1> HIDE DEF a, b, all
<1>8. Rest(all, a, b, 1, Len(all))
  <2>1. ASSUME NEW i \in 1..Len(a) PROVE \E j \in 1..Len(all) : all[j] = a[i]
    BY <1>3, <1>4, <1>5
  <2>2. ASSUME NEW i \in 1..Len(b) PROVE \E j \in 1..Len(all) : all[j][1] = b[i][1]
    <3>1. PICK q \in S : q[1] = b[i][1]
      BY <1>3, <1>6
    <3> QED BY <1>4, <3>1
  <2>3. ASSUME NEW j \in 1..Len(all)
        PROVE  \/ \E i \in 1..Len(a) : a[i] = all[j]
               \/ \E i \in 1..Len(b) : b[i] = all[j]
    <3>1. all[j] \in A \/ all[j] \in B
      BY <1>3, <1>4
    <3> QED BY <1>5, <1>6, <3>1
  <2> QED BY <1>5, <1>6, <2>1, <2>2, <2>3 DEF Rest
<1>9. InOrder(all, <<>>, <<>>, a, b)
  <2>1. Len(all) \in Nat /\ Len(<<>>) = 0
    BY <1>4, LenProperties, EmptySeq
  <2>2. SubSeq(all, 1, 0) = <<>>
    BY SubSeqEmpty
  <2>3. SubSeq(all, Len(all) + 1, Len(all)) = <<>>
    BY <2>1, SubSeqEmpty
  <2>4. 0 + 1 = 1 /\ Len(all) - 0 = Len(all) /\ Len(all) - 0 + 1 = Len(all) + 1
        /\ 0 + 0 <= Len(all)
    BY <2>1
  <2> QED BY <1>8, <2>1, <2>2, <2>3, <2>4 DEF InOrder
<1> QED BY <1>7, <1>9 DEF a, b, all, A, B, S

\* A step of MergedRange::next appends the next pair of the sorted content.
LEMMA NextInOrder ==
    ASSUME NEW all \in Seq(Pair), Increasing(all), NEW a \in Seq(Pair), NEW b \in Seq(Pair),
           NEW front \in Seq(Pair), NEW back \in Seq(Pair),
           InOrder(all, front, back, a, b), a # <<>> \/ b # <<>>
    PROVE  InOrder(all, Append(front, IF FromHead(a, b) THEN Head(a) ELSE Head(b)), back,
                   DropHead(a, b), DropHead(b, a))
<1> DEFINE x == IF FromHead(a, b) THEN Head(a) ELSE Head(b)
           f == Len(front)
           k == Len(back)
           n == Len(all)
           u == DropHead(a, b)
           w == DropHead(b, a)
<1>1. f \in Nat /\ k \in Nat /\ n \in Nat
  BY LenProperties
<1>2. /\ f + k <= n
      /\ front = SubSeq(all, 1, f)
      /\ back = SubSeq(all, n - k + 1, n)
      /\ Rest(all, a, b, f + 1, n - k)
  BY DEF InOrder
<1> HIDE DEF f, k, n
<1>3. f + 1 \in Nat \ {0} /\ n - k \in 0..Len(all)
  BY <1>1, <1>2 DEF n
<1>4. f + 1 <= n - k /\ x = all[f + 1] /\ Rest(all, u, w, f + 1 + 1, n - k)
  <2>1. ASSUME NEW lo \in Nat \ {0}, NEW hi \in 0..Len(all), Rest(all, a, b, lo, hi)
        PROVE  lo <= hi /\ x = all[lo] /\ Rest(all, u, w, lo + 1, hi)
    BY <2>1, NextTakesFirst
  <2> HIDE DEF x, u, w
  <2> QED BY <1>2, <1>3, <2>1
<1> HIDE DEF x, u, w
<1>5. f + 1 \in 1..Len(all) /\ x \in Pair
  <2>1. f + 1 \in 1..Len(all)
    BY <1>1, <1>4 DEF n
  <2> QED BY <1>4, <2>1, ElementOfSeq
<1>6. Len(Append(front, x)) = f + 1
  BY <1>5, AppendProperties DEF f
<1>7. Append(front, x) = SubSeq(all, 1, f + 1)
  <2>1. 1 \in 1..Len(all) /\ f + 1 \in 1..Len(all) /\ f + 1 - 1 = f
    BY <1>1, <1>5
  <2>2. SubSeq(all, 1, f + 1) = SubSeq(all, 1, f) \o <<x>>
    <3>1. ASSUME NEW g \in 1..Len(all)
          PROVE  SubSeq(all, 1, g) = SubSeq(all, 1, g - 1) \o <<all[g]>>
      BY <2>1, SubSeqRecursiveSecond
    <3>2. PICK g \in 1..Len(all) : g = f + 1
      BY <2>1
    <3>3. g - 1 = f
      BY <1>1, <3>2
    <3>4. SubSeq(all, 1, g) = SubSeq(all, 1, f) \o <<all[g]>>
      BY <3>1, <3>3
    <3> QED BY <1>4, <3>2, <3>4
  <2>3. Append(front, x) = front \o <<x>>
    BY <1>5, AppendIsConcat
  <2> QED BY <1>2, <2>2, <2>3
<1>8. f + 1 + k <= n
  BY <1>1, <1>4
<1>9. InOrder(all, Append(front, x), back, u, w)
  BY <1>2, <1>4, <1>6, <1>7, <1>8 DEF InOrder, n, k
<1> QED BY <1>9 DEF x, u, w

\* A step of MergedRange::next_back puts the pair before the last ones there.
LEMMA NextBackInOrder ==
    ASSUME NEW all \in Seq(Pair), Increasing(all), NEW a \in Seq(Pair), NEW b \in Seq(Pair),
           NEW front \in Seq(Pair), NEW back \in Seq(Pair),
           InOrder(all, front, back, a, b), a # <<>> \/ b # <<>>
    PROVE  InOrder(all, front, <<IF FromLast(a, b) THEN Last(a) ELSE Last(b)>> \o back,
                   DropLast(a, b), DropLast(b, a))
<1> DEFINE x == IF FromLast(a, b) THEN Last(a) ELSE Last(b)
           f == Len(front)
           k == Len(back)
           n == Len(all)
           u == DropLast(a, b)
           w == DropLast(b, a)
<1>1. f \in Nat /\ k \in Nat /\ n \in Nat
  BY LenProperties
<1>2. /\ f + k <= n
      /\ front = SubSeq(all, 1, f)
      /\ back = SubSeq(all, n - k + 1, n)
      /\ Rest(all, a, b, f + 1, n - k)
  BY DEF InOrder
<1> HIDE DEF f, k, n
<1>3. f + 1 \in Nat \ {0} /\ n - k \in 0..Len(all)
  BY <1>1, <1>2 DEF n
<1>4. f + 1 <= n - k /\ x = all[n - k] /\ Rest(all, u, w, f + 1, n - k - 1)
  <2>1. ASSUME NEW lo \in Nat \ {0}, NEW hi \in 0..Len(all), Rest(all, a, b, lo, hi)
        PROVE  lo <= hi /\ x = all[hi] /\ Rest(all, u, w, lo, hi - 1)
    BY <2>1, NextBackTakesLast
  <2> HIDE DEF x, u, w
  <2> QED BY <1>2, <1>3, <2>1
<1> HIDE DEF x, u, w
<1>5. n - k \in 1..Len(all) /\ x \in Pair
  <2>1. n - k \in 1..Len(all)
    BY <1>1, <1>4 DEF n
  <2> QED BY <1>4, <2>1, ElementOfSeq
<1>6. Len(<<x>> \o back) = k + 1
  <2>1. <<x>> \in Seq(Pair) /\ Len(<<x>>) = 1
    BY <1>5
  <2>2. Len(<<x>> \o back) = Len(<<x>>) + Len(back)
    BY <2>1, ConcatProperties
  <2> QED BY <1>1, <2>1, <2>2 DEF k
<1>7. <<x>> \o back = SubSeq(all, n - k, n)
  <2>1. n - k \in 1..Len(all) /\ n \in (n - k)..Len(all)
    BY <1>1, <1>5 DEF n
  <2>2. SubSeq(all, n - k, n) = <<x>> \o SubSeq(all, n - k + 1, n)
    BY <1>4, <2>1, SubSeqRecursiveFirst
  <2> QED BY <1>2, <2>2
<1>8. f + (k + 1) <= n /\ n - (k + 1) + 1 = n - k /\ n - (k + 1) = n - k - 1
  BY <1>1, <1>4
<1>9. InOrder(all, front, <<x>> \o back, u, w)
  BY <1>2, <1>4, <1>6, <1>7, <1>8 DEF InOrder, n, f
<1> QED BY <1>9 DEF x, u, w

\* What MergedRange::next and next_back do to the set of pairs of an iterator
\* they take from, and to the pairs yielded.
LEMMA ToSetFacts ==
    ASSUME NEW s \in Seq(Pair)
    PROVE  /\ s # <<>> => ToSet(s) = {Head(s)} \cup ToSet(Tail(s))
           /\ s # <<>> => ToSet(s) = {Last(s)} \cup ToSet(Front(s))
           /\ \A x \in Pair : /\ ToSet(Append(s, x)) = ToSet(s) \cup {x}
                              /\ ToSet(<<x>> \o s) = ToSet(s) \cup {x}
           /\ s = <<>> => ToSet(s) = {}
<1> DEFINE n == Len(s)
<1>0. /\ n \in Nat /\ DOMAIN s = 1..n /\ (s # <<>> => n > 0)
      /\ \A i \in 1..n : s[i] \in Pair
  BY LenProperties, EmptySeq, ElementOfSeq
<1>1. ASSUME s # <<>> PROVE ToSet(s) = {Head(s)} \cup ToSet(Tail(s))
  <2> DEFINE t == Tail(s)
  <2>1. /\ t \in Seq(Pair) /\ Len(t) = n - 1 /\ \A i \in 1..Len(t) : t[i] = s[i + 1]
        /\ DOMAIN t = 1..Len(t) /\ Head(s) = s[1]
    BY <1>1, HeadTailProperties, LenProperties
  <2> HIDE DEF t, n
  <2>2. \A i \in 1..Len(t) : i + 1 \in 1..n
    BY <1>0, <2>1
  <2>3. \A i \in 1..n : i = 1 \/ (i - 1 \in 1..Len(t) /\ t[i - 1] = s[i])
    BY <1>0, <2>1
  <2>4. 1 \in 1..n
    BY <1>0, <1>1
  <2>5. ToSet(s) = {s[i] : i \in 1..n} /\ ToSet(t) = {t[i] : i \in 1..Len(t)}
    BY <1>0, <2>1 DEF ToSet
  <2>6. \A i \in 1..Len(t) : t[i] \in ToSet(s)
    BY <2>1, <2>2, <2>5
  <2>7. \A i \in 1..n : s[i] \in {Head(s)} \cup ToSet(t)
    BY <2>1, <2>3, <2>5
  <2>8. Head(s) \in ToSet(s)
    BY <2>1, <2>4, <2>5
  <2> QED BY <2>5, <2>6, <2>7, <2>8 DEF t
<1>2. ASSUME s # <<>> PROVE ToSet(s) = {Last(s)} \cup ToSet(Front(s))
  <2> DEFINE t == Front(s)
  <2>1. /\ t \in Seq(Pair) /\ Len(t) = n - 1 /\ \A i \in 1..Len(t) : t[i] = s[i]
        /\ DOMAIN t = 1..Len(t) /\ Last(s) = s[n]
    <3>1. n - 1 \in Int /\ 1 \in Int /\ \A i \in 1..(n - 1) : s[i] \in Pair
      BY <1>0
    <3>2. \A m \in Int : (\A i \in 1..m : s[i] \in Pair) =>
             /\ SubSeq(s, 1, m) \in Seq(Pair)
             /\ Len(SubSeq(s, 1, m)) = IF 1 <= m THEN m - 1 + 1 ELSE 0
             /\ \A i \in 1..(m - 1 + 1) : SubSeq(s, 1, m)[i] = s[1 + i - 1]
      BY SubSeqProperties
    <3>3. t = SubSeq(s, 1, n - 1) /\ Last(s) = s[n]
      BY DEF Front, Last
    <3> HIDE DEF t, n
    <3>4. t \in Seq(Pair) /\ Len(t) = n - 1
      BY <1>0, <1>1, <1>2, <3>1, <3>2, <3>3
    <3>5. \A i \in 1..Len(t) : t[i] = s[i]
      BY <1>0, <3>1, <3>2, <3>3, <3>4
    <3> QED BY <3>3, <3>4, <3>5, LenProperties
  <2> HIDE DEF t, n
  <2>2. \A i \in 1..Len(t) : i \in 1..n
    BY <1>0, <2>1
  <2>3. \A i \in 1..n : i = n \/ (i \in 1..Len(t) /\ t[i] = s[i])
    BY <1>0, <2>1
  <2>4. n \in 1..n
    BY <1>0, <1>2
  <2>5. ToSet(s) = {s[i] : i \in 1..n} /\ ToSet(t) = {t[i] : i \in 1..Len(t)}
    BY <1>0, <2>1 DEF ToSet
  <2>6. \A i \in 1..Len(t) : t[i] \in ToSet(s)
    BY <2>1, <2>2, <2>5
  <2>7. \A i \in 1..n : s[i] \in {Last(s)} \cup ToSet(t)
    BY <2>1, <2>3, <2>5
  <2>8. Last(s) \in ToSet(s)
    BY <2>1, <2>4, <2>5
  <2> QED BY <2>5, <2>6, <2>7, <2>8 DEF t
<1>3. ASSUME NEW x \in Pair PROVE ToSet(Append(s, x)) = ToSet(s) \cup {x}
  <2> DEFINE t == Append(s, x)
  <2>1. /\ t \in Seq(Pair) /\ Len(t) = n + 1 /\ t[n + 1] = x
        /\ \A i \in 1..n : t[i] = s[i]
    BY AppendProperties
  <2>2. DOMAIN t = 1..Len(t)
    BY <2>1, LenProperties
  <2> HIDE DEF t, n
  <2>3. n + 1 \in 1..Len(t) /\ \A i \in 1..n : i \in 1..Len(t)
    BY <1>0, <2>1
  <2>4. \A i \in 1..Len(t) : i = n + 1 \/ i \in 1..n
    BY <1>0, <2>1
  <2>5. ToSet(s) = {s[i] : i \in 1..n} /\ ToSet(t) = {t[i] : i \in 1..Len(t)}
    BY <1>0, <2>2 DEF ToSet
  <2> QED BY <2>1, <2>3, <2>4, <2>5 DEF t
<1>4. ASSUME NEW x \in Pair PROVE ToSet(<<x>> \o s) = ToSet(s) \cup {x}
  <2> DEFINE t == <<x>> \o s
             e == <<x>>
  <2>1. e \in Seq(Pair) /\ Len(e) = 1 /\ e[1] = x
    OBVIOUS
  <2> HIDE DEF e
  <2>2. /\ t \in Seq(Pair) /\ Len(t) = 1 + n
        /\ \A i \in 1..(1 + n) : t[i] = IF i <= 1 THEN e[i] ELSE s[i - 1]
    BY <2>1, ConcatProperties DEF e
  <2>3. DOMAIN t = 1..Len(t)
    BY <2>2, LenProperties
  <2> HIDE DEF t, n
  <2>4. 1 \in 1..Len(t) /\ t[1] = x
    BY <1>0, <2>1, <2>2
  <2>5. \A i \in 1..n : i + 1 \in 1..Len(t) /\ t[i + 1] = s[i]
    BY <1>0, <2>2
  <2>6. \A i \in 1..Len(t) : i = 1 \/ (i - 1 \in 1..n /\ t[i] = s[i - 1])
    BY <1>0, <2>2
  <2>7. ToSet(s) = {s[i] : i \in 1..n} /\ ToSet(t) = {t[i] : i \in 1..Len(t)}
    BY <1>0, <2>3 DEF ToSet
  <2>8. ToSet(t) \subseteq ToSet(s) \cup {x}
    BY <2>4, <2>6, <2>7
  <2>9. x \in ToSet(t) /\ \A i \in 1..n : s[i] \in ToSet(t)
    BY <2>4, <2>5, <2>7
  <2> QED BY <2>7, <2>8, <2>9 DEF t
<1>5. ASSUME s = <<>> PROVE ToSet(s) = {}
  BY <1>5 DEF ToSet
<1> QED BY <1>1, <1>2, <1>3, <1>4, <1>5

\* A pair that TransactionKVBank::get shows is cached, and then it is the
\* cached one, or it is persisted and passes the filter by deletion marks.
LEMMA TxViewSources ==
    ASSUME IInv, NEW r
    PROVE  \A p \in Pairs(TxView, r) :
              \/ p \in Pairs(TxCached, r)
              \/ /\ p[1] \notin Present(TxCached)
                 /\ p \in {q \in Pairs(tree, r) :
                             ~(\/ q[1] \in tx.delete
                               \/ (q[1] \in block.delete /\ tx.storage[q[1]] = None))}
<1> DEFINE c == TxCached
           v == TxView
<1>1. \A k \in Key : c[k] = IF tx.storage[k] # None THEN tx.storage[k] ELSE block.storage[k]
  BY DEF TxCached
<1>2. \A k \in Key : v[k] = IF k \in tx.delete THEN None
                            ELSE IF tx.storage[k] # None THEN tx.storage[k]
                            ELSE IF k \in block.delete THEN None
                            ELSE IF block.storage[k] # None THEN block.storage[k]
                            ELSE tree[k]
  BY DEF TxView, Overlay
<1> HIDE DEF c, v
<1>3. SUFFICES ASSUME NEW k \in Present(v) \cap r
               PROVE  \/ <<k, v[k]>> \in Pairs(c, r)
                      \/ /\ k \notin Present(c)
                         /\ <<k, v[k]>> \in Pairs(tree, r)
                         /\ k \notin tx.delete
                         /\ ~(k \in block.delete /\ tx.storage[k] = None)
  BY DEF Pairs, v, c
<1>4. k \in Key /\ v[k] # None
  BY DEF Present
<1>5. CASE c[k] # None
  <2>1. v[k] = c[k] /\ k \in Present(c)
    BY <1>1, <1>2, <1>4, <1>5 DEF Present
  <2> QED BY <2>1 DEF Pairs
<1>6. CASE c[k] = None
  <2>1. v[k] = tree[k] /\ k \notin tx.delete /\ ~(k \in block.delete /\ tx.storage[k] = None)
    BY <1>1, <1>2, <1>4, <1>6
  <2>2. k \notin Present(c) /\ k \in Present(tree)
    BY <1>4, <1>6, <2>1 DEF Present
  <2> QED BY <2>1, <2>2 DEF Pairs
<1> QED BY <1>5, <1>6

\* TransactionKVBank::range starts with nothing skipped, whatever the order in
\* which the cached pairs were collected.
LEMMA TxRangeStarts ==
    ASSUME IInv, FiniteMaps, NEW r, NEW a \in SetToSeqs(Pairs(TxCached, r)),
           NEW B, B = {p \in Pairs(tree, r) :
                         ~(\/ p[1] \in tx.delete
                           \/ (p[1] \in block.delete /\ tx.storage[p[1]] = None))}
    PROVE  a \in Seq(Pair) /\ Sorted(B) \in Seq(Pair) /\ Unskipped(<<>>, <<>>, a, Sorted(B), r)
<1> DEFINE A == Pairs(TxCached, r)
           n == Cardinality(A)
           b == Sorted(B)
<1>1. /\ tree \in Content /\ tx \in Cache /\ block \in Cache
      /\ tx.storage \in Content /\ block.storage \in Content
  BY DEF IInv, Cache
<1>2. TxCached \in Content
  BY <1>1 DEF TxCached, Content
<1>3. IsFiniteSet(Present(TxCached))
  <2>1. Present(TxCached) \subseteq Present(tx.storage) \cup Present(block.storage)
    BY DEF Present, TxCached
  <2> QED BY <2>1, FiniteWithin DEF FiniteMaps
<1>4. IsFiniteSet(A) /\ IsMap(A) /\ A \subseteq Pair
  BY <1>2, <1>3, PairsFacts
<1>5. IsFiniteSet(B) /\ IsMap(B) /\ B \subseteq Pair
  <2>1. B \in SUBSET Pairs(tree, r)
    OBVIOUS
  <2> QED BY <1>1, <2>1, PairsFacts DEF FiniteMaps
<1>6. a \in [1..n -> A] /\ \A i, j \in 1..n : i # j => a[i] # a[j]
  BY DEF SetToSeqs
<1> HIDE DEF A
<1>7. n \in Nat /\ \A p \in A : \E i \in 1..n : a[i] = p
  BY <1>4, <1>6, EnumerationIsOnto, FS_CardinalityType
<1> HIDE DEF n
<1>8. a \in Seq(Pair) /\ ToSet(a) = A
  <2>1. a \in [1..n -> Pair]
    BY <1>4, <1>6
  <2>2. a \in Seq(Pair)
    BY <1>7, <2>1
  <2>3. ToSet(a) = {a[i] : i \in 1..n}
    BY <1>6 DEF ToSet
  <2>4. ToSet(a) = A
    BY <1>6, <1>7, <2>3
  <2> QED BY <2>2, <2>4
<1>9. b \in Seq(Pair) /\ ToSet(b) = B
  <2>1. b \in Seq(B) /\ \A p \in B : \E i \in 1..Len(b) : b[i] = p
    BY <1>5, SortedFacts
  <2>2. DOMAIN b = 1..Len(b) /\ \A i \in 1..Len(b) : b[i] \in B
    BY <2>1, LenProperties, ElementOfSeq
  <2>3. b \in Seq(Pair)
    BY <1>5, <2>1, SeqMonotonic
  <2> HIDE DEF b
  <2>4. ToSet(b) = B
    BY <2>1, <2>2 DEF ToSet
  <2> QED BY <2>3, <2>4
<1>10. \A p \in Pairs(TxView, r) : p \in A \/ (p[1] \notin Present(TxCached) /\ p \in B)
  BY TxViewSources DEF A
<1> HIDE DEF b
<1>11. Unskipped(<<>>, <<>>, a, b, r)
  BY <1>8, <1>9, <1>10 DEF Unskipped, A
<1> QED BY <1>8, <1>9, <1>11 DEF b

\* MergedRange::next, on what it leaves and yields.
LEMMA IterNextStep ==
    ASSUME IterNext
    PROVE  /\ scan # NoScan /\ (scan.a # <<>> \/ scan.b # <<>>)
           /\ scan' # NoScan /\ scan'.of = scan.of /\ scan'.r = scan.r
           /\ scan'.a = DropHead(scan.a, scan.b) /\ scan'.b = DropHead(scan.b, scan.a)
           /\ scan'.front = Append(scan.front, IF FromHead(scan.a, scan.b) THEN Head(scan.a)
                                               ELSE Head(scan.b))
           /\ scan'.back = scan.back
           /\ UNCHANGED <<tree, cache, tx, block>>
<1>1. scan # NoScan /\ scan.a \o scan.b # <<>> /\ UNCHANGED <<tree, cache, tx, block>>
  BY DEF IterNext
<1>2. scan.a # <<>> \/ scan.b # <<>>
  <2>1. <<>> \o <<>> = <<>>
    BY EmptySeq, ConcatEmptySeq
  <2> QED BY <1>1, <2>1
<1>3. scan' = [of |-> scan.of, r |-> scan.r,
               a |-> DropHead(scan.a, scan.b), b |-> DropHead(scan.b, scan.a),
               front |-> Append(scan.front, IF FromHead(scan.a, scan.b) THEN Head(scan.a)
                                            ELSE Head(scan.b)),
               back |-> scan.back]
  BY DEF IterNext, Yielded, DropHead, FromHead
<1>4. scan' # NoScan
  <2>1. "r" \in DOMAIN scan'
    BY <1>3
  <2>2. "r" \notin DOMAIN NoScan
    BY DEF NoScan
  <2> QED BY <2>1, <2>2
<1> QED BY <1>1, <1>2, <1>3, <1>4

\* MergedRange::next_back, on what it leaves and yields.
LEMMA NextBackStep ==
    ASSUME NextBack
    PROVE  /\ scan # NoScan /\ (scan.a # <<>> \/ scan.b # <<>>)
           /\ scan' # NoScan /\ scan'.of = scan.of /\ scan'.r = scan.r
           /\ scan'.a = DropLast(scan.a, scan.b) /\ scan'.b = DropLast(scan.b, scan.a)
           /\ scan'.front = scan.front
           /\ scan'.back = <<IF FromLast(scan.a, scan.b) THEN Last(scan.a)
                             ELSE Last(scan.b)>> \o scan.back
           /\ UNCHANGED <<tree, cache, tx, block>>
<1>1. scan # NoScan /\ scan.a \o scan.b # <<>> /\ UNCHANGED <<tree, cache, tx, block>>
  BY DEF NextBack
<1>2. scan.a # <<>> \/ scan.b # <<>>
  <2>1. <<>> \o <<>> = <<>>
    BY EmptySeq, ConcatEmptySeq
  <2> QED BY <1>1, <2>1
<1>3. scan' = [of |-> scan.of, r |-> scan.r,
               a |-> DropLast(scan.a, scan.b), b |-> DropLast(scan.b, scan.a),
               front |-> scan.front,
               back |-> <<IF FromLast(scan.a, scan.b) THEN Last(scan.a)
                          ELSE Last(scan.b)>> \o scan.back]
  BY DEF NextBack, Yielded, DropLast, FromLast
<1>4. scan' # NoScan
  <2>1. "r" \in DOMAIN scan'
    BY <1>3
  <2>2. "r" \notin DOMAIN NoScan
    BY DEF NoScan
  <2> QED BY <2>1, <2>2
<1> QED BY <1>1, <1>2, <1>3, <1>4

\* MergedRange::next skips no pair of the transaction's view: a head that it
\* drops is yielded, or is a persisted pair under the key of a cached one.
LEMMA NextSkipsNothing ==
    ASSUME NEW a \in Seq(Pair), NEW b \in Seq(Pair), NEW front \in Seq(Pair),
           NEW back \in Seq(Pair), NEW r, a # <<>> \/ b # <<>>,
           NEW x, x = IF FromHead(a, b) THEN Head(a) ELSE Head(b)
    PROVE  /\ x \in Pair /\ DropHead(a, b) \in Seq(Pair) /\ DropHead(b, a) \in Seq(Pair)
           /\ Append(front, x) \in Seq(Pair)
           /\ Unskipped(front, back, a, b, r) =>
                Unskipped(Append(front, x), back, DropHead(a, b), DropHead(b, a), r)
<1> DEFINE u == DropHead(a, b)
           w == DropHead(b, a)
<1>1. /\ a # <<>> => Head(a) \in Pair /\ Tail(a) \in Seq(Pair)
      /\ b # <<>> => Head(b) \in Pair /\ Tail(b) \in Seq(Pair)
  BY HeadTailProperties
<1>2. /\ a # <<>> => Head(a)[1] \in Nat
      /\ b # <<>> => Head(b)[1] \in Nat
  BY <1>1 DEF Pair
<1>3. /\ a # <<>> => ToSet(a) = {Head(a)} \cup ToSet(Tail(a))
      /\ b # <<>> => ToSet(b) = {Head(b)} \cup ToSet(Tail(b))
  BY ToSetFacts
<1>4. FromHead(a, b) => a # <<>>
  BY DEF FromHead
<1>5. FromHead(b, a) => b # <<>>
  BY DEF FromHead
<1>6. ~FromHead(a, b) => b # <<>> /\ FromHead(b, a)
  BY <1>2 DEF FromHead
<1>7. FromHead(a, b) /\ FromHead(b, a) => Head(a)[1] = Head(b)[1]
  BY <1>2 DEF FromHead
<1>8. x \in Pair /\ u \in Seq(Pair) /\ w \in Seq(Pair)
  BY <1>1, <1>4, <1>5, <1>6 DEF DropHead
<1>9. ToSet(a) \subseteq ToSet(u) \cup {x} /\ ToSet(u) \subseteq ToSet(a)
  BY <1>3, <1>4 DEF DropHead
<1>10. \/ ToSet(b) \subseteq ToSet(w) \cup {x}
       \/ /\ x \in ToSet(a)
          /\ \A y \in ToSet(b) : y \in ToSet(w) \/ y[1] = x[1]
  <2>1. CASE FromHead(a, b)
    BY <1>3, <1>4, <1>5, <1>7, <2>1 DEF DropHead
  <2>2. CASE ~FromHead(a, b)
    BY <1>3, <1>6, <2>2 DEF DropHead
  <2> QED BY <2>1, <2>2
<1>11. Append(front, x) \in Seq(Pair) /\ ToSet(Append(front, x)) = ToSet(front) \cup {x}
  BY <1>8, ToSetFacts, AppendProperties
<1>12. ToSet(front) \cup ToSet(back) \cup {x} = ToSet(Append(front, x)) \cup ToSet(back)
  BY <1>11
<1> HIDE DEF u, w
<1>13. ASSUME Unskipped(front, back, a, b, r)
       PROVE  Unskipped(Append(front, x), back, u, w, r)
  <2> DEFINE f == Append(front, x)
  <2>1. ToSet(front) \cup ToSet(back) \cup {x} = ToSet(f) \cup ToSet(back)
    BY <1>12
  <2> HIDE DEF f
  <2>2. Unskipped(f, back, u, w, r)
    <3>1. /\ ToSet(a) \subseteq Pairs(TxCached, r)
          /\ \A p \in Pairs(TxView, r) :
              \/ p \in ToSet(front) \cup ToSet(back) \cup ToSet(a)
              \/ p \in ToSet(b) /\ p[1] \notin Present(TxCached)
      BY <1>13 DEF Unskipped
    <3>2. x \in ToSet(a) => x[1] \in Present(TxCached)
      BY <3>1 DEF Pairs
    <3>3. ASSUME NEW p \in Pairs(TxView, r)
          PROVE  \/ p \in ToSet(f) \cup ToSet(back) \cup ToSet(u)
                 \/ p \in ToSet(w) /\ p[1] \notin Present(TxCached)
      <4>1. CASE p \in ToSet(front) \cup ToSet(back) \cup ToSet(a)
        BY <1>9, <2>1, <4>1
      <4>2. CASE p \in ToSet(b) /\ p[1] \notin Present(TxCached)
        BY <1>10, <2>1, <3>2, <4>2
      <4> QED BY <3>1, <4>1, <4>2
    <3>4. ToSet(u) \subseteq Pairs(TxCached, r)
      BY <1>9, <3>1
    <3> QED BY <3>3, <3>4 DEF Unskipped
  <2> QED BY <2>2 DEF f
<1> QED BY <1>8, <1>11, <1>13 DEF u, w

\* MergedRange::next_back skips none either.
LEMMA NextBackSkipsNothing ==
    ASSUME NEW a \in Seq(Pair), NEW b \in Seq(Pair), NEW front \in Seq(Pair),
           NEW back \in Seq(Pair), NEW r, a # <<>> \/ b # <<>>,
           NEW x, x = IF FromLast(a, b) THEN Last(a) ELSE Last(b)
    PROVE  /\ x \in Pair /\ DropLast(a, b) \in Seq(Pair) /\ DropLast(b, a) \in Seq(Pair)
           /\ <<x>> \o back \in Seq(Pair)
           /\ Unskipped(front, back, a, b, r) =>
                Unskipped(front, <<x>> \o back, DropLast(a, b), DropLast(b, a), r)
<1> DEFINE u == DropLast(a, b)
           w == DropLast(b, a)
<1>1. ASSUME NEW s \in Seq(Pair), s # <<>> PROVE Last(s) \in Pair /\ Front(s) \in Seq(Pair)
  <2>1. Len(s) \in Nat \ {0} /\ \A i \in 1..Len(s) : s[i] \in Pair
    BY <1>1, EmptySeq, ElementOfSeq
  <2>2. Last(s) \in Pair
    BY <2>1 DEF Last
  <2>3. ASSUME NEW m \in Int, \A i \in 1..m : s[i] \in Pair
        PROVE  SubSeq(s, 1, m) \in Seq(Pair)
    BY <2>3, SubSeqProperties
  <2>4. Len(s) - 1 \in Int /\ \A i \in 1..(Len(s) - 1) : s[i] \in Pair
    BY <2>1
  <2> QED BY <2>2, <2>3, <2>4 DEF Front
<1>2. /\ a # <<>> => Last(a)[1] \in Nat
      /\ b # <<>> => Last(b)[1] \in Nat
  BY <1>1 DEF Pair
<1>3. /\ a # <<>> => ToSet(a) = {Last(a)} \cup ToSet(Front(a))
      /\ b # <<>> => ToSet(b) = {Last(b)} \cup ToSet(Front(b))
  BY ToSetFacts
<1>4. FromLast(a, b) => a # <<>>
  BY DEF FromLast
<1>5. FromLast(b, a) => b # <<>>
  BY DEF FromLast
<1>6. ~FromLast(a, b) => b # <<>> /\ FromLast(b, a)
  BY <1>2 DEF FromLast
<1>7. FromLast(a, b) /\ FromLast(b, a) => Last(a)[1] = Last(b)[1]
  BY <1>2 DEF FromLast
<1>8. x \in Pair /\ u \in Seq(Pair) /\ w \in Seq(Pair)
  BY <1>1, <1>4, <1>5, <1>6 DEF DropLast
<1>9. ToSet(a) \subseteq ToSet(u) \cup {x} /\ ToSet(u) \subseteq ToSet(a)
  BY <1>3, <1>4 DEF DropLast
<1>10. \/ ToSet(b) \subseteq ToSet(w) \cup {x}
       \/ /\ x \in ToSet(a)
          /\ \A y \in ToSet(b) : y \in ToSet(w) \/ y[1] = x[1]
  <2>1. CASE FromLast(a, b)
    BY <1>3, <1>4, <1>5, <1>7, <2>1 DEF DropLast
  <2>2. CASE ~FromLast(a, b)
    BY <1>3, <1>6, <2>2 DEF DropLast
  <2> QED BY <2>1, <2>2
<1>11. <<x>> \o back \in Seq(Pair) /\ ToSet(<<x>> \o back) = ToSet(back) \cup {x}
  BY <1>8, ToSetFacts, ConcatProperties
<1>12. ToSet(front) \cup ToSet(back) \cup {x} = ToSet(front) \cup ToSet(<<x>> \o back)
  BY <1>11
<1> HIDE DEF u, w
<1>13. ASSUME Unskipped(front, back, a, b, r)
       PROVE  Unskipped(front, <<x>> \o back, u, w, r)
  <2> DEFINE k == <<x>> \o back
  <2>1. ToSet(front) \cup ToSet(back) \cup {x} = ToSet(front) \cup ToSet(k)
    BY <1>12
  <2> HIDE DEF k
  <2>2. Unskipped(front, k, u, w, r)
    <3>1. /\ ToSet(a) \subseteq Pairs(TxCached, r)
          /\ \A p \in Pairs(TxView, r) :
              \/ p \in ToSet(front) \cup ToSet(back) \cup ToSet(a)
              \/ p \in ToSet(b) /\ p[1] \notin Present(TxCached)
      BY <1>13 DEF Unskipped
    <3>2. x \in ToSet(a) => x[1] \in Present(TxCached)
      BY <3>1 DEF Pairs
    <3>3. ASSUME NEW p \in Pairs(TxView, r)
          PROVE  \/ p \in ToSet(front) \cup ToSet(k) \cup ToSet(u)
                 \/ p \in ToSet(w) /\ p[1] \notin Present(TxCached)
      <4>1. CASE p \in ToSet(front) \cup ToSet(back) \cup ToSet(a)
        BY <1>9, <2>1, <4>1
      <4>2. CASE p \in ToSet(b) /\ p[1] \notin Present(TxCached)
        BY <1>10, <2>1, <3>2, <4>2
      <4> QED BY <3>1, <4>1, <4>2
    <3>4. ToSet(u) \subseteq Pairs(TxCached, r)
      BY <1>9, <3>1
    <3> QED BY <3>3, <3>4 DEF Unskipped
  <2> QED BY <2>2 DEF k
<1> QED BY <1>8, <1>11, <1>13 DEF u, w

\* Opening a range, stepping it at either end and dropping it keep the
\* invariant of the scans; nothing is written while one is open.
LEMMA NextScanInv == IInv /\ FiniteMaps /\ ScanInv /\ [Next]_vars => ScanInv'
<1> SUFFICES ASSUME IInv, FiniteMaps, ScanInv, [Next]_vars PROVE ScanInv'
  OBVIOUS
<1>1. ASSUME NEW r \in Bounds, AppRange(r) PROVE ScanInv'
  <2> DEFINE a == Sorted(Pairs(cache.storage, r))
             b == Sorted({p \in Pairs(tree, r) : p[1] \notin cache.delete})
  <2>1. /\ scan' = [of |-> "app", r |-> r, a |-> a, b |-> b, front |-> <<>>, back |-> <<>>]
        /\ UNCHANGED <<tree, cache, tx, block>>
    BY <1>1 DEF AppRange, Open
  <2>2. AppView' = AppView
    BY <2>1 DEF AppView
  <2>3. /\ a \in Seq(Pair) /\ b \in Seq(Pair)
        /\ InOrder(Sorted(Pairs(AppView, r)), <<>>, <<>>, a, b)
    BY AppRangeStarts
  <2>4. <<>> \in Seq(Pair)
    BY EmptySeq
  <2> HIDE DEF a, b
  <2>5. /\ scan'.of = "app" /\ scan'.r = r /\ scan'.a = a /\ scan'.b = b
        /\ scan'.front = <<>> /\ scan'.back = <<>>
    BY <2>1
  <2>6. InOrder(Sorted(Pairs(AppView', scan'.r)), scan'.front, scan'.back, scan'.a, scan'.b)
    BY <2>2, <2>3, <2>5
  <2> QED BY <2>3, <2>4, <2>5, <2>6 DEF ScanInv
<1>2. ASSUME NEW r \in Bounds, TxRange(r) PROVE ScanInv'
  <2> DEFINE B == {p \in Pairs(tree, r) :
                     ~(\/ p[1] \in tx.delete
                       \/ (p[1] \in block.delete /\ tx.storage[p[1]] = None))}
             b == Sorted(B)
  <2>1. PICK a \in SetToSeqs(Pairs(TxCached, r)) :
          scan' = [of |-> "tx", r |-> r, a |-> a, b |-> b, front |-> <<>>, back |-> <<>>]
    BY <1>2 DEF TxRange, Open
  <2>2. UNCHANGED <<tree, cache, tx, block>>
    BY <1>2 DEF TxRange
  <2>3. TxView' = TxView /\ TxCached' = TxCached
    BY <2>2 DEF TxView, TxCached
  <2>4. a \in Seq(Pair) /\ b \in Seq(Pair) /\ Unskipped(<<>>, <<>>, a, b, r)
    BY TxRangeStarts
  <2>5. <<>> \in Seq(Pair)
    BY EmptySeq
  <2> HIDE DEF b, B
  <2>6. /\ scan'.of = "tx" /\ scan'.r = r /\ scan'.a = a /\ scan'.b = b
        /\ scan'.front = <<>> /\ scan'.back = <<>>
    BY <2>1
  <2>7. Unskipped(scan.front, scan.back, scan.a, scan.b, scan.r)'
    BY <2>3, <2>4, <2>6 DEF Unskipped
  <2> QED BY <2>4, <2>5, <2>6, <2>7 DEF ScanInv
<1>3. CASE IterNext
  <2> DEFINE a == scan.a
             b == scan.b
             x == IF FromHead(a, b) THEN Head(a) ELSE Head(b)
             all == Sorted(Pairs(AppView, scan.r))
  <2>1. /\ scan # NoScan /\ (a # <<>> \/ b # <<>>)
        /\ scan' # NoScan /\ scan'.of = scan.of /\ scan'.r = scan.r
        /\ scan'.a = DropHead(a, b) /\ scan'.b = DropHead(b, a)
        /\ scan'.front = Append(scan.front, x) /\ scan'.back = scan.back
        /\ UNCHANGED <<tree, cache, tx, block>>
    BY <1>3, IterNextStep
  <2>2. /\ a \in Seq(Pair) /\ b \in Seq(Pair)
        /\ scan.front \in Seq(Pair) /\ scan.back \in Seq(Pair)
        /\ scan.of = "app" => InOrder(all, scan.front, scan.back, a, b)
        /\ scan.of = "tx" => Unskipped(scan.front, scan.back, a, b, scan.r)
    BY <2>1 DEF ScanInv
  <2>3. AppView' = AppView /\ TxView' = TxView /\ TxCached' = TxCached
    BY <2>1 DEF AppView, TxView, TxCached
  <2>4. all \in Seq(Pair) /\ Increasing(all)
    BY AppViewSorted
  <2> HIDE DEF a, b, all
  <2>5. /\ DropHead(a, b) \in Seq(Pair) /\ DropHead(b, a) \in Seq(Pair)
        /\ Append(scan.front, x) \in Seq(Pair)
        /\ scan.of = "tx" => Unskipped(Append(scan.front, x), scan.back,
                                       DropHead(a, b), DropHead(b, a), scan.r)
    BY <2>1, <2>2, NextSkipsNothing
  <2>6. scan.of = "app" => InOrder(all, Append(scan.front, x), scan.back,
                                   DropHead(a, b), DropHead(b, a))
    BY <2>1, <2>2, <2>4, NextInOrder
  <2> HIDE DEF x
  <2>7. scan'.of = "app" =>
          InOrder(Sorted(Pairs(AppView', scan'.r)), scan'.front, scan'.back, scan'.a, scan'.b)
    BY <2>1, <2>3, <2>6 DEF all
  <2>8. scan'.of = "tx" => Unskipped(scan.front, scan.back, scan.a, scan.b, scan.r)'
    BY <2>1, <2>3, <2>5 DEF Unskipped
  <2> QED BY <2>1, <2>2, <2>5, <2>7, <2>8 DEF ScanInv
<1>4. CASE NextBack
  <2> DEFINE a == scan.a
             b == scan.b
             x == IF FromLast(a, b) THEN Last(a) ELSE Last(b)
             all == Sorted(Pairs(AppView, scan.r))
  <2>1. /\ scan # NoScan /\ (a # <<>> \/ b # <<>>)
        /\ scan' # NoScan /\ scan'.of = scan.of /\ scan'.r = scan.r
        /\ scan'.a = DropLast(a, b) /\ scan'.b = DropLast(b, a)
        /\ scan'.front = scan.front /\ scan'.back = <<x>> \o scan.back
        /\ UNCHANGED <<tree, cache, tx, block>>
    BY <1>4, NextBackStep
  <2>2. /\ a \in Seq(Pair) /\ b \in Seq(Pair)
        /\ scan.front \in Seq(Pair) /\ scan.back \in Seq(Pair)
        /\ scan.of = "app" => InOrder(all, scan.front, scan.back, a, b)
        /\ scan.of = "tx" => Unskipped(scan.front, scan.back, a, b, scan.r)
    BY <2>1 DEF ScanInv
  <2>3. AppView' = AppView /\ TxView' = TxView /\ TxCached' = TxCached
    BY <2>1 DEF AppView, TxView, TxCached
  <2>4. all \in Seq(Pair) /\ Increasing(all)
    BY AppViewSorted
  <2> HIDE DEF a, b, all
  <2>5. /\ DropLast(a, b) \in Seq(Pair) /\ DropLast(b, a) \in Seq(Pair)
        /\ <<x>> \o scan.back \in Seq(Pair)
        /\ scan.of = "tx" => Unskipped(scan.front, <<x>> \o scan.back,
                                       DropLast(a, b), DropLast(b, a), scan.r)
    BY <2>1, <2>2, NextBackSkipsNothing
  <2>6. scan.of = "app" => InOrder(all, scan.front, <<x>> \o scan.back,
                                   DropLast(a, b), DropLast(b, a))
    BY <2>1, <2>2, <2>4, NextBackInOrder
  <2> HIDE DEF x
  <2>7. scan'.of = "app" =>
          InOrder(Sorted(Pairs(AppView', scan'.r)), scan'.front, scan'.back, scan'.a, scan'.b)
    BY <2>1, <2>3, <2>6 DEF all
  <2>8. scan'.of = "tx" => Unskipped(scan.front, scan.back, scan.a, scan.b, scan.r)'
    BY <2>1, <2>3, <2>5 DEF Unskipped
  <2> QED BY <2>1, <2>2, <2>5, <2>7, <2>8 DEF ScanInv
<1>5. CASE Close
  BY <1>5 DEF Close, ScanInv
<1>6. CASE UNCHANGED vars
  <2>1. AppView' = AppView /\ TxView' = TxView /\ TxCached' = TxCached /\ scan' = scan
    BY <1>6 DEF vars, AppView, TxView, TxCached
  <2> QED BY <2>1 DEF ScanInv, Unskipped
\* Every other operation needs the banks for itself.
<1>7. CASE AppOps \/ TxOps \/ SharedOps
  <2>1. scan' = NoScan
    BY <1>7 DEF AppOps, TxOps, SharedOps, Unborrowed, Set, Delete, Commit, CacheClear, TxSet,
                TxDelete, TxCacheClear, BlockCacheClear, UpgradeCache, ToTxKind,
                ConsumeBlockCache, AppendBlockCache, TakeBlockCache
  <2> QED BY <2>1 DEF ScanInv
<1> QED
  BY <1>1, <1>2, <1>3, <1>4, <1>5, <1>6, <1>7 DEF Next, ScanOps

\* In every reachable state of the banks the maps are finite and an open range
\* satisfies the invariant of the scans.
LEMMA SpecScanInv == Spec => [](IInv /\ FiniteMaps /\ ScanInv)
<1>1. Init => FiniteMaps /\ ScanInv
  BY WritesAddOneKey, FS_EmptySet DEF Init, FiniteMaps, ScanInv
<1> QED
  BY <1>1, InitIInv, NextIInv, NextFinite, NextScanInv, PTL DEF Spec

(***************************************************************************)
(* A range over the application bank yields exactly what `get` shows, in   *)
(* key order from the front and backwards from the back, however calls of  *)
(* next and next_back are mixed: MergedRange loses, repeats and reorders   *)
(* nothing, for any content of the cache and of the tree.                  *)
(***************************************************************************)
THEOREM BankScanYieldsView == Spec => []ScanYieldsView
<1>1. IInv /\ FiniteMaps /\ ScanInv => ScanYieldsView
  <2> SUFFICES ASSUME IInv, FiniteMaps, ScanInv, scan # NoScan, scan.of = "app"
               PROVE  LET all == Sorted(Pairs(AppView, scan.r))
                          n == Len(all)
                      IN /\ Len(scan.front) + Len(scan.back) <= n
                         /\ scan.front = SubSeq(all, 1, Len(scan.front))
                         /\ scan.back = SubSeq(all, n - Len(scan.back) + 1, n)
                         /\ scan.a = <<>> /\ scan.b = <<>> =>
                               Len(scan.front) + Len(scan.back) = n
    BY DEF ScanYieldsView
  <2> DEFINE all == Sorted(Pairs(AppView, scan.r))
             n == Len(all)
             f == Len(scan.front)
             k == Len(scan.back)
  <2>1. InOrder(all, scan.front, scan.back, scan.a, scan.b)
    BY DEF ScanInv
  <2>2. n \in Nat /\ f \in Nat /\ k \in Nat
    <3>1. all \in Seq(Pair)
      BY AppViewSorted
    <3>2. scan.front \in Seq(Pair) /\ scan.back \in Seq(Pair)
      BY DEF ScanInv
    <3> HIDE DEF all
    <3> QED BY <3>1, <3>2, LenProperties
  <2> HIDE DEF all
  <2>3. f + k <= n /\ Rest(all, scan.a, scan.b, f + 1, n - k)
    BY <2>1 DEF InOrder
  <2>4. ASSUME scan.a = <<>>, scan.b = <<>> PROVE f + k = n
    <3>1. Len(scan.a) = 0 /\ Len(scan.b) = 0
      BY <2>4, EmptySeq
    <3>2. \A j \in (f + 1)..(n - k) : FALSE
      BY <2>3, <3>1 DEF Rest
    <3> HIDE DEF f, k, n
    <3>3. ~(f + 1 <= n - k)
      <4> SUFFICES ASSUME f + 1 <= n - k PROVE FALSE
        OBVIOUS
      <4>1. f + 1 \in (f + 1)..(n - k)
        BY <2>2
      <4> QED BY <3>2, <4>1
    <3> QED BY <2>2, <2>3, <3>3
  <2>5. /\ scan.front = SubSeq(all, 1, f)
        /\ scan.back = SubSeq(all, n - k + 1, n)
    BY <2>1 DEF InOrder
  <2> QED BY <2>3, <2>4, <2>5 DEF all
<1> QED
  BY <1>1, SpecScanInv, PTL

(***************************************************************************)
(* A range over the transaction bank that was run to its end has yielded   *)
(* every pair `get` shows in the range, although the cached pairs come in  *)
(* the order of a HashMap and are merged as if they were sorted.           *)
(***************************************************************************)
THEOREM BankTxScanComplete == Spec => []TxScanComplete
<1>1. ScanInv => TxScanComplete
  BY DEF ScanInv, TxScanComplete, Unskipped, ToSet
<1> QED
  BY <1>1, SpecScanInv, PTL

-----------------------------------------------------------------------------
(***************************************************************************)
(* A client that walks through the committed entries of a prefix by pages, *)
(* while blocks insert and delete entries (module Pages).                  *)
(***************************************************************************)
\* The inductive invariant of a walk: what was seen is below the cursor, and
\* what is listed since the beginning is seen or not below the cursor.
WalkInv ==
    /\ entries \subseteq EntryKey /\ kept \subseteq entries
    /\ limit \in Nat /\ phase \in {"idle", "walking", "done"}
    /\ cursor \in EntryKey \cup {NoKey} /\ seen \in Seq(EntryKey)
    /\ \A i, j \in 1..Len(seen) : i < j => seen[i] < seen[j]
    /\ cursor # NoKey => \A i \in 1..Len(seen) : seen[i] < cursor
    /\ phase # "done" /\ cursor = NoKey => seen = <<>>
    /\ phase = "idle" => cursor = NoKey
    /\ phase = "walking" /\ ~lost /\ cursor # NoKey =>
         \A k \in kept : cursor <= k \/ \E i \in 1..Len(seen) : seen[i] = k
    /\ phase = "done" /\ ~lost => \A k \in kept : \E i \in 1..Len(seen) : seen[i] = k

\* The list of a finite set of keys has each once, by increasing key.
LEMMA ListFacts ==
    ASSUME entries \subseteq EntryKey
    PROVE  /\ Cardinality(entries) \in Nat
           /\ List \in [1..Cardinality(entries) -> entries]
           /\ \A i, j \in 1..Cardinality(entries) : i < j => List[i] < List[j]
           /\ \A k \in entries : \E i \in 1..Cardinality(entries) : List[i] = k
<1> DEFINE n == Cardinality(entries)
           S == {<<k>> : k \in entries}
           Ok(s) == \A i, j \in 1..n : i < j => s[i] < s[j]
           L == List
<1>1. IsFiniteSet(entries) /\ n \in Nat
  BY PagesAssumption, FS_Subset, FS_CardinalityType
<1>2. entries \subseteq Nat
  BY PagesAssumption
<1>3. IsFiniteSet(S) /\ Cardinality(S) = n
  <2>1. [k \in entries |-> <<k>>] \in Bijection(entries, S)
    BY DEF Bijection, Injection, Surjection, IsInjective
  <2> QED BY <1>1, <2>1, FS_Bijection DEF ExistsBijection
<1>4. IsMap(S)
  BY <1>2 DEF IsMap
<1>5. PICK s \in [1..n -> S] : Increasing(s)
  BY <1>3, <1>4, SortedExists
<1>6. \A i \in 1..n : s[i][1] \in entries
  BY <1>5
<1>7. [i \in 1..n |-> s[i][1]] \in [1..n -> entries] /\ Ok([i \in 1..n |-> s[i][1]])
  BY <1>5, <1>6 DEF Increasing
<1>8. L = CHOOSE s0 \in [1..n -> entries] : Ok(s0)
  BY DEF List
<1>9. L \in [1..n -> entries] /\ Ok(L)
  BY <1>7, <1>8
<1> HIDE DEF L
<1>10. \A i, j \in 1..n : i # j => L[i] # L[j]
  <2>1. \A i \in 1..n : L[i] \in Nat
    BY <1>2, <1>9
  <2> QED BY <1>1, <1>9, <2>1
<1>11. \A k \in entries : \E i \in 1..n : L[i] = k
  BY <1>1, <1>9, <1>10, EnumerationIsOnto
<1> QED BY <1>1, <1>9, <1>11 DEF L

\* A page is a part of the list that begins at the cursor, if it is listed, and
\* ends before the next one: paginate_by_key, take and peek_nth.
LEMMA PageFacts ==
    ASSUME WalkInv
    PROVE  LET n == Cardinality(entries)
               L == List
               page == Items(Unread)
               next == NextKey(Unread)
           IN  /\ page \in Seq(EntryKey)
               /\ \E j \in 1..(n + 1) :
                    /\ cursor = NoKey => j = 1
                    /\ cursor # NoKey /\ cursor \in entries => j <= n /\ L[j] = cursor
                    /\ cursor # NoKey /\ cursor \notin entries => j = n + 1
                    /\ j + Len(page) <= n + 1
                    /\ \A i \in 1..Len(page) : page[i] = L[j + i - 1]
                    /\ IF j + Len(page) = n + 1 THEN next = NoKey
                       ELSE next = L[j + Len(page)]
<1> DEFINE n == Cardinality(entries)
           L == List
           rest == Unread
           page == Items(rest)
           next == NextKey(rest)
<1>1. /\ n \in Nat /\ L \in [1..n -> entries]
      /\ \A i, j \in 1..n : i < j => L[i] < L[j]
      /\ \A k \in entries : \E i \in 1..n : L[i] = k
  BY ListFacts DEF WalkInv
<1>2. L \in Seq(EntryKey) /\ Len(L) = n /\ DOMAIN L = 1..n /\ \A i \in 1..n : L[i] \in EntryKey
  BY <1>1 DEF WalkInv
<1>3. \A k : k \in ToSet(L) <=> k \in entries
  BY <1>1, <1>2 DEF ToSet
<1> HIDE DEF L, n
<1>4. PICK j \in 1..(n + 1) :
        /\ rest = SubSeq(L, j, n)
        /\ cursor = NoKey => j = 1
        /\ cursor # NoKey /\ cursor \in entries => j <= n /\ L[j] = cursor
        /\ cursor # NoKey /\ cursor \notin entries => j = n + 1
  <2>1. CASE cursor = NoKey
    <3>1. 0 * limit * limit + 1 = 1
      BY DEF WalkInv
    <3>2. rest = SubSeq(L, 1, n)
      BY <1>2, <2>1, <3>1 DEF Unread, SkipOffset, L
    <3>3. 1 \in 1..(n + 1)
      BY <1>1
    <3> QED BY <2>1, <3>2, <3>3
  <2>2. CASE cursor # NoKey /\ cursor \in entries
    <3> DEFINE j == CHOOSE i \in DOMAIN L : L[i] = cursor
    <3>1. rest = SubSeq(L, j, Len(L))
      BY <1>3, <2>2 DEF Unread, SkipToKey, L
    <3>2. j \in 1..n /\ L[j] = cursor
      BY <1>1, <1>2, <2>2
    <3> HIDE DEF j
    <3>3. j \in 1..(n + 1) /\ j <= n
      BY <1>1, <3>2
    <3> QED BY <1>2, <2>2, <3>1, <3>2, <3>3
  <2>3. CASE cursor # NoKey /\ cursor \notin entries
    <3>1. rest = <<>>
      BY <1>3, <2>3 DEF Unread, SkipToKey, L
    <3>2. n + 1 \in Int /\ n \in Int /\ n < n + 1 /\ n + 1 \in 1..(n + 1)
      BY <1>1
    <3>3. SubSeq(L, n + 1, n) = <<>>
      BY <3>2, SubSeqEmpty
    <3> QED BY <2>3, <3>1, <3>2, <3>3
  <2> QED BY <2>1, <2>2, <2>3
<1>5. /\ rest \in Seq(EntryKey) /\ Len(rest) = (n + 1) - j
      /\ \A i \in 1..Len(rest) : rest[i] = L[j + i - 1]
  <2>1. j \in Int /\ n \in Int /\ j <= n + 1
    BY <1>1
  <2>2. \A i \in j..n : L[i] \in EntryKey
    BY <1>2, <2>1
  <2>3. /\ SubSeq(L, j, n) \in Seq(EntryKey)
        /\ Len(SubSeq(L, j, n)) = IF j <= n THEN n - j + 1 ELSE 0
        /\ \A i \in 1..(n - j + 1) : SubSeq(L, j, n)[i] = L[j + i - 1]
    BY <2>1, <2>2, SubSeqProperties
  <2>4. (IF j <= n THEN n - j + 1 ELSE 0) = (n + 1) - j /\ n - j + 1 = (n + 1) - j
    BY <2>1
  <2> QED BY <1>4, <2>3, <2>4
<1> DEFINE m == IF limit < Len(rest) THEN limit ELSE Len(rest)
<1>6. page = SubSeq(rest, 1, m)
  BY DEF Items
<1>7. next = IF Len(rest) > limit THEN rest[limit + 1] ELSE NoKey
  BY DEF NextKey
<1> HIDE DEF rest, page, next
<1>8. limit \in Nat /\ Len(rest) \in Nat /\ m \in Nat /\ m <= Len(rest)
  BY <1>1, <1>5 DEF WalkInv
<1>9. page \in Seq(EntryKey) /\ Len(page) = m /\ \A i \in 1..m : page[i] = L[j + i - 1]
  <2>1. 1 \in Int /\ m \in Int /\ \A i \in 1..m : i \in 1..Len(rest)
    BY <1>8
  <2>2. \A i \in 1..m : rest[i] \in EntryKey
    BY <1>5, <2>1
  <2>3. /\ SubSeq(rest, 1, m) \in Seq(EntryKey)
        /\ Len(SubSeq(rest, 1, m)) = IF 1 <= m THEN m - 1 + 1 ELSE 0
        /\ \A i \in 1..(m - 1 + 1) : SubSeq(rest, 1, m)[i] = rest[1 + i - 1]
    BY <2>1, <2>2, SubSeqProperties
  <2>4. (IF 1 <= m THEN m - 1 + 1 ELSE 0) = m /\ m - 1 + 1 = m
    BY <1>8
  <2>5. \A i \in 1..m : 1 + i - 1 = i
    BY <1>8
  <2> QED BY <1>5, <1>6, <2>1, <2>3, <2>4, <2>5
<1>10. j + m <= n + 1
  BY <1>1, <1>5, <1>8
<1>11. IF j + m = n + 1 THEN next = NoKey ELSE next = L[j + m]
  <2>1. CASE Len(rest) > limit
    <3>1. m = limit /\ limit + 1 \in 1..Len(rest) /\ j + (limit + 1) - 1 = j + limit /\ j + m # n + 1
      BY <1>1, <1>5, <1>8, <2>1
    <3> QED BY <1>5, <1>7, <2>1, <3>1
  <2>2. CASE ~(Len(rest) > limit)
    <3>1. m = Len(rest) /\ j + m = n + 1
      BY <1>1, <1>5, <1>8, <2>2
    <3> QED BY <1>7, <2>2, <3>1
  <2> QED BY <2>1, <2>2
<1> HIDE DEF m
<1> QED BY <1>4, <1>9, <1>10, <1>11 DEF L, n, page, rest, next

\* One page extends a walk: it begins above what was seen and ends below the
\* next cursor, and leaves out nothing in between.
LEMMA FetchPageKeeps ==
    ASSUME WalkInv, FetchPage
    PROVE  WalkInv'
<1> DEFINE n == Cardinality(entries)
           L == List
           page == Items(Unread)
           next == NextKey(Unread)
           q == Len(seen)
           m == Len(page)
<1>1. /\ n \in Nat /\ L \in [1..n -> entries]
      /\ \A i, j \in 1..n : i < j => L[i] < L[j]
      /\ \A k \in entries : \E i \in 1..n : L[i] = k
  BY ListFacts DEF WalkInv
<1>2. page \in Seq(EntryKey)
  BY PageFacts
<1>3. PICK j \in 1..(n + 1) :
        /\ cursor = NoKey => j = 1
        /\ cursor # NoKey /\ cursor \in entries => j <= n /\ L[j] = cursor
        /\ cursor # NoKey /\ cursor \notin entries => j = n + 1
        /\ j + m <= n + 1
        /\ \A i \in 1..m : page[i] = L[j + i - 1]
        /\ IF j + m = n + 1 THEN next = NoKey ELSE next = L[j + m]
  BY PageFacts
<1>4. /\ phase = "walking" /\ seen' = seen \o page /\ cursor' = next
      /\ phase' = IF next = NoKey THEN "done" ELSE "walking"
      /\ lost' = (lost \/ (cursor # NoKey /\ cursor \notin entries))
      /\ entries' = entries /\ limit' = limit /\ kept' = kept
  BY DEF FetchPage
<1>5. /\ entries \subseteq EntryKey /\ kept \subseteq entries /\ limit \in Nat
      /\ cursor \in EntryKey \cup {NoKey} /\ seen \in Seq(EntryKey) /\ q \in Nat /\ m \in Nat
      /\ \A i, k \in 1..q : i < k => seen[i] < seen[k]
      /\ cursor # NoKey => \A i \in 1..q : seen[i] < cursor
      /\ cursor = NoKey => q = 0
  BY <1>2, <1>4 DEF WalkInv
<1>6. /\ \A i \in 1..q : seen[i] \in Nat
      /\ \A i \in 1..n : L[i] \in Nat /\ L[i] \in EntryKey
      /\ \A k \in EntryKey : k \in Nat
  <2>1. \A k \in EntryKey : k \in Nat
    BY PagesAssumption
  <2>2. \A i \in 1..q : seen[i] \in EntryKey
    BY <1>5
  <2>3. \A i \in 1..n : L[i] \in EntryKey
    <3> HIDE DEF n, L
    <3> QED BY <1>1, <1>5
  <2> HIDE DEF n, L, q
  <2> QED BY <2>1, <2>2, <2>3
<1>7. /\ seen' \in Seq(EntryKey) /\ Len(seen') = q + m
      /\ \A i \in 1..(q + m) : seen'[i] = IF i <= q THEN seen[i] ELSE page[i - q]
  BY <1>2, <1>4, <1>5, ConcatProperties
<1> HIDE DEF n, L, page, next, q, m
<1>8. \A i \in 1..m : j + i - 1 \in 1..n /\ page[i] = L[j + i - 1]
  BY <1>1, <1>3, <1>5
<1>9. \A i \in 1..q, k \in j..n : seen[i] < L[k]
  <2> SUFFICES ASSUME NEW i \in 1..q, NEW k \in j..n PROVE seen[i] < L[k]
    OBVIOUS
  <2>1. cursor # NoKey
    BY <1>5
  <2>2. j <= n /\ cursor \in entries
    BY <1>1, <1>3, <2>1
  <2>3. L[j] = cursor /\ j \in 1..n /\ k \in 1..n
    BY <1>1, <1>3, <2>1, <2>2
  <2>4. seen[i] < L[j] /\ (L[j] < L[k] \/ j = k)
    BY <1>1, <1>5, <2>1, <2>3
  <2> QED BY <1>6, <2>3, <2>4
<1>10. \A i \in 1..(q + m) :
         \/ i \in 1..q /\ seen'[i] = seen[i]
         \/ i - q \in 1..m /\ j + (i - q) - 1 \in j..n /\ seen'[i] = L[j + (i - q) - 1]
  <2> SUFFICES ASSUME NEW i \in 1..(q + m), i > q
               PROVE  i - q \in 1..m /\ j + (i - q) - 1 \in j..n /\ seen'[i] = L[j + (i - q) - 1]
    <3>1. \A i \in 1..(q + m) : i > q \/ (i \in 1..q /\ i <= q)
      BY <1>5
    <3>2. \A i \in 1..(q + m) : i <= q => seen'[i] = seen[i]
      BY <1>7
    <3> QED BY <3>1, <3>2
  <2>1. i - q \in 1..m
    BY <1>5
  <2>2. seen'[i] = page[i - q]
    BY <1>5, <1>7
  <2>3. j + (i - q) - 1 \in j..n
    BY <1>1, <1>3, <1>5, <2>1
  <2> QED BY <1>8, <2>1, <2>2, <2>3
<1>11. \A i, k \in 1..(q + m) : i < k => seen'[i] < seen'[k]
  <2> SUFFICES ASSUME NEW i \in 1..(q + m), NEW k \in 1..(q + m), i < k
               PROVE  seen'[i] < seen'[k]
    OBVIOUS
  <2>1. CASE i \in 1..q /\ k \in 1..q /\ seen'[i] = seen[i] /\ seen'[k] = seen[k]
    BY <1>5, <2>1
  <2>2. CASE i \in 1..q /\ seen'[i] = seen[i]
             /\ j + (k - q) - 1 \in j..n /\ seen'[k] = L[j + (k - q) - 1]
    BY <1>9, <2>2
  <2>3. CASE /\ j + (i - q) - 1 \in j..n /\ seen'[i] = L[j + (i - q) - 1]
             /\ j + (k - q) - 1 \in j..n /\ seen'[k] = L[j + (k - q) - 1]
    <3> DEFINE a == j + (i - q) - 1
               b == j + (k - q) - 1
    <3>1. a \in 1..n /\ b \in 1..n /\ a < b
      BY <1>1, <1>5, <2>3
    <3> HIDE DEF a, b
    <3>2. L[a] < L[b]
      BY <1>1, <3>1
    <3> QED BY <2>3, <3>2 DEF a, b
  <2>4. ~(i - q \in 1..m /\ k \in 1..q)
    BY <1>5
  <2> QED BY <1>10, <2>1, <2>2, <2>3, <2>4
<1>12. next # NoKey => j + m \in j..n /\ next = L[j + m] /\ next \in EntryKey
  <2> SUFFICES ASSUME next # NoKey PROVE j + m \in j..n /\ next = L[j + m] /\ next \in EntryKey
    OBVIOUS
  <2>1. j + m # n + 1 /\ next = L[j + m]
    BY <1>3
  <2>2. j + m \in j..n /\ j + m \in 1..n
    BY <1>1, <1>3, <1>5, <2>1
  <2> QED BY <1>6, <2>1, <2>2
<1>13. next # NoKey => \A i \in 1..(q + m) : seen'[i] < next
  <2> SUFFICES ASSUME next # NoKey, NEW i \in 1..(q + m) PROVE seen'[i] < next
    OBVIOUS
  <2>1. CASE i \in 1..q /\ seen'[i] = seen[i]
    BY <1>9, <1>12, <2>1
  <2>2. CASE i - q \in 1..m /\ j + (i - q) - 1 \in j..n /\ seen'[i] = L[j + (i - q) - 1]
    <3> DEFINE a == j + (i - q) - 1
               b == j + m
    <3>1. a \in 1..n /\ b \in 1..n /\ a < b
      BY <1>1, <1>5, <1>12, <2>2
    <3> HIDE DEF a, b
    <3>2. L[a] < L[b]
      BY <1>1, <3>1
    <3> QED BY <1>12, <2>2, <3>2 DEF a, b
  <2> QED BY <1>10, <2>1, <2>2
<1>14. ASSUME ~lost', NEW k \in kept
       PROVE  \/ next # NoKey /\ next <= k
              \/ \E i \in 1..(q + m) : seen'[i] = k
  <2>1. ~lost /\ (cursor # NoKey => cursor \in entries) /\ k \in Nat
    BY <1>4, <1>5, <1>6, <1>14
  <2>2. CASE \E i \in 1..q : seen[i] = k
    BY <1>5, <1>7, <2>2
  <2>3. CASE ~\E i \in 1..q : seen[i] = k
    <3>1. cursor = NoKey \/ cursor <= k
      BY <1>4, <2>1, <2>3 DEF WalkInv, q
    <3>2. PICK p \in 1..n : L[p] = k
      BY <1>1, <1>5
    <3>3. j <= p
      <4>1. CASE cursor = NoKey
        BY <1>3, <4>1
      <4>2. CASE cursor # NoKey
        <5>1. j \in 1..n /\ L[j] = cursor /\ L[j] <= L[p]
          BY <1>1, <1>3, <2>1, <3>1, <3>2, <4>2
        <5> QED BY <1>1, <1>6, <5>1
      <4> QED BY <4>1, <4>2
    <3>4. CASE p < j + m
      <4> DEFINE i == q + (p - j) + 1
      <4>1. i \in 1..(q + m) /\ i \notin 1..q /\ j + (i - q) - 1 = p
        BY <1>1, <1>5, <3>3, <3>4
      <4> HIDE DEF i
      <4> QED BY <1>10, <3>2, <4>1
    <3>5. CASE p >= j + m
      <4>1. j + m \in 1..n /\ j + m # n + 1
        BY <1>1, <1>3, <1>5, <3>5
      <4>2. next = L[j + m] /\ L[j + m] \in EntryKey /\ L[j + m] # NoKey
        BY <1>3, <1>6, <4>1, PagesAssumption
      <4> DEFINE b == j + m
      <4>3. b \in 1..n /\ b <= p /\ b \in Nat /\ p \in Nat
        BY <1>1, <3>5, <4>1
      <4> HIDE DEF b
      <4>4. L[b] <= L[p]
        BY <1>1, <1>6, <4>3
      <4> QED BY <3>2, <4>2, <4>4 DEF b
    <3>6. p \in Int /\ j + m \in Int
      BY <1>5
    <3> QED BY <3>4, <3>5, <3>6
  <2> QED BY <2>2, <2>3
<1>15. next \in EntryKey \cup {NoKey}
  BY <1>12
<1> QED BY <1>4, <1>5, <1>7, <1>11, <1>13, <1>14, <1>15 DEF WalkInv

LEMMA WalkStep ==
    ASSUME WalkInv, [WalkNext]_walkVars
    PROVE  WalkInv'
<1>0. /\ IsFiniteSet(EntryKey) /\ NoKey \notin EntryKey /\ Limits \subseteq Nat /\ LimitMax \in Nat
  BY PagesAssumption
<1>1. ASSUME NEW n \in Limits, StartWalk(n) PROVE WalkInv'
  <2>1. CutLimit(n) \in Nat
    BY <1>0 DEF CutLimit
  <2>2. /\ phase = "idle" /\ phase' = "walking" /\ limit' \in Nat /\ kept' = entries
        /\ entries' = entries /\ cursor' = cursor /\ seen' = seen /\ lost' = lost
    BY <1>1, <2>1 DEF StartWalk
  <2> QED BY <2>2 DEF WalkInv
<1>2. CASE FetchPage
  BY <1>0, <1>2, FetchPageKeeps
<1>3. ASSUME NEW k \in EntryKey, CommitEntry(k) PROVE WalkInv'
  <2>1. /\ phase # "done" /\ kept' = kept \ {k}
        /\ entries' = IF k \in entries THEN entries \ {k} ELSE entries \cup {k}
        /\ phase' = phase /\ limit' = limit /\ cursor' = cursor /\ seen' = seen /\ lost' = lost
    BY <1>3 DEF CommitEntry
  <2>2. kept' \subseteq entries' /\ kept' \subseteq kept /\ entries' \subseteq EntryKey
    BY <2>1 DEF WalkInv
  <2> QED BY <2>1, <2>2 DEF WalkInv
<1>4. CASE Done
  BY <1>4 DEF Done, walkVars, WalkInv
<1>5. CASE UNCHANGED walkVars
  BY <1>5 DEF walkVars, WalkInv
<1> QED BY <1>1, <1>2, <1>3, <1>4, <1>5 DEF WalkNext

LEMMA WalkInvariant == WalkSpec => []WalkInv
<1>1. WalkInit => WalkInv
  BY DEF WalkInit, WalkInv
<1>2. WalkInv /\ [WalkNext]_walkVars => WalkInv'
  BY WalkStep
<1> QED BY <1>1, <1>2, PTL DEF WalkSpec

\* However commits and pages interleave, the answers of paginate_by_key give no
\* entry twice, and the keys grow across pages of different versions.
THEOREM PagesInOrder == WalkSpec => []SeenInOrder
<1>1. WalkInv => SeenInOrder
  <2> SUFFICES ASSUME WalkInv, NEW i \in 1..(Len(seen) - 1) PROVE seen[i] < seen[i + 1]
    BY DEF SeenInOrder
  <2>1. Len(seen) \in Nat
    BY DEF WalkInv
  <2>2. i \in 1..Len(seen) /\ i + 1 \in 1..Len(seen) /\ i < i + 1
    BY <2>1
  <2> QED BY <2>2 DEF WalkInv
<1> QED BY <1>1, WalkInvariant, PTL

\* A walk that has come to the last page has seen everything that was listed
\* throughout, unless a cursor's entry was deleted under it.
THEOREM PagesComplete == WalkSpec => []WalkComplete
<1>1. WalkInv => WalkComplete
  <2> SUFFICES ASSUME WalkInv, phase = "done", ~lost, NEW k \in kept
               PROVE  k \in ToSet(seen)
    BY DEF WalkComplete
  <2>1. PICK i \in 1..Len(seen) : seen[i] = k
    BY DEF WalkInv
  <2>2. DOMAIN seen = 1..Len(seen)
    BY DEF WalkInv
  <2> QED BY <2>1, <2>2 DEF ToSet
<1> QED BY <1>1, WalkInvariant, PTL

(***************************************************************************)
(* x/gov: deposits and tallies (modules Gov and GovQueries), for any       *)
(* accounts, validators, proposals, denominations and ballots.             *)
(***************************************************************************)

DepositKeys == Proposals \X Accounts

\* The amounts of one denomination that are recorded, by proposal and depositor.
RecordedIn(s, d) == [k \in DepositKeys |-> AmountOf(s.deposits[k], d)]
BackersOf(p) == {p} \X Accounts

GovStore(s) ==
    /\ s = [status |-> s.status, total |-> s.total, end |-> s.end, next |-> s.next,
            inactive |-> s.inactive, active |-> s.active, deposits |-> s.deposits,
            votes |-> s.votes, escrow |-> s.escrow, bal |-> s.bal]
    /\ IsCoinList(s.escrow)
    /\ s.total = [p \in Proposals |-> s.total[p]] /\ \A p \in Proposals : IsCoinList(s.total[p])
    /\ s.deposits = [k \in DepositKeys |-> s.deposits[k]]
    /\ \A k \in DepositKeys : IsCoinList(s.deposits[k])
    /\ s.votes = [k \in DepositKeys |-> s.votes[k]]

\* What the module holds is recorded, for its depositor and in the total, and for
\* proposals that exist.
Backed(s) ==
    /\ \A d \in Denom : AmountOf(s.escrow, d) = Total(RecordedIn(s, d), DepositKeys)
    /\ \A p \in Proposals :
          /\ s.status[p] # "none" =>
                \A d \in Denom : AmountOf(s.total[p], d) = Total(RecordedIn(s, d), BackersOf(p))
          /\ s.status[p] = "none" => \A a \in Accounts : s.deposits[<<p, a>>] = NoCoins

\* No vote that is stored carries a weight.
Weightless(s) == \A k \in DepositKeys : s.votes[k] = NoVote \/ ValidBallot(s.votes[k])

GovInv == GovStore(st) /\ Backed(st) /\ Weightless(st) /\ staking \in Stakings

\* The keys of deposits and of votes are finitely many.
LEMMA FiniteKeys ==
    /\ IsFiniteSet(DepositKeys) /\ IsFiniteSet(Accounts)
    /\ \A p \in Proposals : IsFiniteSet(BackersOf(p)) /\ BackersOf(p) \subseteq DepositKeys
<1>1. IsFiniteSet(Proposals) /\ IsFiniteSet(Accounts)
  BY GovAssumption
<1>2. IsFiniteSet(DepositKeys)
  BY <1>1, FS_Product DEF DepositKeys
<1>3. \A p \in Proposals : BackersOf(p) \subseteq DepositKeys
  BY DEF BackersOf, DepositKeys
<1> QED BY <1>1, <1>2, <1>3, FS_Subset

\* The amount of a denomination in a list of coins.
LEMMA ListAmount == ASSUME NEW c, IsCoinList(c), NEW d PROVE AmountOf(c, d) \in Nat
  BY DEF IsCoinList, AmountOf

\* checked_add of two lists.
LEMMA PlusLists ==
    ASSUME NEW b, IsCoinList(b), NEW c, IsCoinList(c)
    PROVE  /\ IsCoinList(Plus(b, c))
           /\ \A d : AmountOf(Plus(b, c), d) = AmountOf(b, d) + AmountOf(c, d)
<1>1. DOMAIN Plus(b, c) = DOMAIN b \cup DOMAIN c
  BY DEF Plus, Listed
<1>2. \A d : AmountOf(b, d) \in Nat /\ AmountOf(c, d) \in Nat
  BY ListAmount
<1>3. \A d \in DOMAIN b \cup DOMAIN c : Plus(b, c)[d] = AmountOf(b, d) + AmountOf(c, d)
  BY DEF Plus, Listed
<1>4. IsCoinList(Plus(b, c))
  BY <1>1, <1>2, <1>3 DEF IsCoinList, Plus, Listed
<1>5. ASSUME NEW d PROVE AmountOf(Plus(b, c), d) = AmountOf(b, d) + AmountOf(c, d)
  BY <1>1, <1>2, <1>3 DEF AmountOf
<1> QED BY <1>4, <1>5

\* The amounts recorded are numbers.
LEMMA RecordedNat ==
    ASSUME NEW s, GovStore(s), NEW d
    PROVE  \A k \in DepositKeys : RecordedIn(s, d)[k] = AmountOf(s.deposits[k], d) /\ RecordedIn(s, d)[k] \in Nat
  BY ListAmount DEF RecordedIn, GovStore

\* deposit_add: the coins go from the depositor to the module, to the total and
\* to the record, or nothing happens.
LEMMA DepositKeeps ==
    ASSUME NEW s, GovStore(s), Backed(s), Weightless(s),
           NEW a \in Accounts, NEW p \in Proposals, NEW c \in Amounts, NEW t \in DepositAdd(s, a, p, c)
    PROVE  GovStore(t) /\ Backed(t) /\ Weightless(t)
<1> DEFINE k == <<p, a>>
<1>0. IsCoinList(c) /\ k \in DepositKeys
  BY GovAssumption DEF DepositKeys
<1>1. s.status[p] \in {"deposit", "voting"}
  BY DEF DepositAdd
<1>2. PICK u \in SendToModule(s, a, c) : t \in RecordDeposit(u, a, p, c)
  BY <1>1 DEF DepositAdd
<1>3. u = [s EXCEPT !.bal[a] = Minus(@, c), !.escrow = Plus(@, c)]
  BY <1>2 DEF SendToModule
<1>4. t = [u EXCEPT !.total[p] = Plus(@, c), !.deposits[<<p, a>>] = Plus(@, c)]
  BY <1>2 DEF RecordDeposit
<1>5. /\ u = [status |-> s.status, total |-> s.total, end |-> s.end, next |-> s.next,
              inactive |-> s.inactive, active |-> s.active, deposits |-> s.deposits,
              votes |-> s.votes, escrow |-> Plus(s.escrow, c), bal |-> u.bal]
  BY <1>3 DEF GovStore
<1>6. /\ t = [status |-> t.status, total |-> t.total, end |-> t.end, next |-> t.next,
              inactive |-> t.inactive, active |-> t.active, deposits |-> t.deposits,
              votes |-> t.votes, escrow |-> t.escrow, bal |-> t.bal]
      /\ t.status = s.status /\ t.votes = s.votes /\ t.escrow = Plus(s.escrow, c)
      /\ t.total = [s.total EXCEPT ![p] = Plus(@, c)]
      /\ t.deposits = [s.deposits EXCEPT ![k] = Plus(@, c)]
  <2>1. /\ u.status = s.status /\ u.total = s.total /\ u.deposits = s.deposits
        /\ u.votes = s.votes /\ u.escrow = Plus(s.escrow, c)
    BY <1>5
  <2>2. t = [status |-> u.status, total |-> [u.total EXCEPT ![p] = Plus(@, c)], end |-> u.end,
             next |-> u.next, inactive |-> u.inactive, active |-> u.active,
             deposits |-> [u.deposits EXCEPT ![k] = Plus(@, c)],
             votes |-> u.votes, escrow |-> u.escrow, bal |-> u.bal]
    BY <1>4, <1>5
  <2> HIDE DEF k
  <2> QED BY <2>1, <2>2
<1>7. /\ t.total = [q \in Proposals |-> t.total[q]] /\ t.total[p] = Plus(s.total[p], c)
      /\ \A q \in Proposals \ {p} : t.total[q] = s.total[q]
  BY <1>6 DEF GovStore
<1>8. /\ t.deposits = [q \in DepositKeys |-> t.deposits[q]] /\ t.deposits[k] = Plus(s.deposits[k], c)
      /\ \A q \in DepositKeys \ {k} : t.deposits[q] = s.deposits[q]
  BY <1>0, <1>6 DEF GovStore
<1>9. GovStore(t)
  BY <1>0, <1>6, <1>7, <1>8, PlusLists DEF GovStore
<1>10. Weightless(t)
  BY <1>6 DEF Weightless
<1>11. ASSUME NEW d
       PROVE  \A S : k \in S /\ S \subseteq DepositKeys /\ IsFiniteSet(S)
                 => Total(RecordedIn(t, d), S) = Total(RecordedIn(s, d), S) + AmountOf(c, d)
  <2> SUFFICES ASSUME NEW S, k \in S, S \subseteq DepositKeys, IsFiniteSet(S)
               PROVE  Total(RecordedIn(t, d), S) = Total(RecordedIn(s, d), S) + AmountOf(c, d)
    OBVIOUS
  <2> DEFINE f == RecordedIn(s, d)
             e == RecordedIn(t, d)
  <2>1. \A x \in S : f[x] \in Nat /\ e[x] \in Nat
    BY <1>9, RecordedNat
  <2>2. \A x \in S \ {k} : f[x] = e[x]
    BY <1>8, <1>9, RecordedNat
  <2>3. e[k] = f[k] + AmountOf(c, d)
    <3>1. IsCoinList(s.deposits[k])
      BY <1>0 DEF GovStore
    <3>2. AmountOf(t.deposits[k], d) = AmountOf(s.deposits[k], d) + AmountOf(c, d)
      BY <1>0, <1>8, <3>1, PlusLists
    <3> QED BY <1>0, <1>9, <3>2, RecordedNat
  <2>4. AmountOf(c, d) \in Nat
    BY <1>0, ListAmount
  <2> HIDE DEF e, f, k
  <2>5. Total(e, S) = Total(f, S) + (e[k] - f[k]) /\ Total(f, S) \in Int
    BY <2>1, <2>2, SumUpdate, SumInt
  <2> QED BY <2>1, <2>3, <2>4, <2>5 DEF e, f
<1>12. \A d \in Denom : AmountOf(t.escrow, d) = Total(RecordedIn(t, d), DepositKeys)
  <2> SUFFICES ASSUME NEW d \in Denom
               PROVE  AmountOf(t.escrow, d) = Total(RecordedIn(t, d), DepositKeys)
    OBVIOUS
  <2>1. AmountOf(t.escrow, d) = AmountOf(s.escrow, d) + AmountOf(c, d)
    BY <1>0, <1>6, PlusLists DEF GovStore
  <2>2. Total(RecordedIn(t, d), DepositKeys) = Total(RecordedIn(s, d), DepositKeys) + AmountOf(c, d)
    BY <1>0, <1>11, FiniteKeys
  <2> QED BY <2>1, <2>2 DEF Backed
<1>13. ASSUME NEW q \in Proposals, t.status[q] # "none", NEW d \in Denom
       PROVE  AmountOf(t.total[q], d) = Total(RecordedIn(t, d), BackersOf(q))
  <2>0. AmountOf(s.total[q], d) = Total(RecordedIn(s, d), BackersOf(q))
    BY <1>6, <1>13 DEF Backed
  <2>1. CASE q = p
    <3>1. AmountOf(t.total[q], d) = AmountOf(s.total[q], d) + AmountOf(c, d)
      BY <1>0, <1>7, <2>1, PlusLists DEF GovStore
    <3>2. k \in BackersOf(q)
      BY <2>1 DEF BackersOf
    <3>3. Total(RecordedIn(t, d), BackersOf(q)) = Total(RecordedIn(s, d), BackersOf(q)) + AmountOf(c, d)
      BY <1>11, <3>2, FiniteKeys
    <3> QED BY <2>0, <3>1, <3>3
  <2>2. CASE q # p
    <3>1. t.total[q] = s.total[q]
      BY <1>7, <2>2
    <3>2. \A x \in BackersOf(q) : x \in DepositKeys /\ x # k
      <4> SUFFICES ASSUME NEW x \in BackersOf(q) PROVE x \in DepositKeys /\ x # k
        OBVIOUS
      <4>1. x \in DepositKeys
        BY FiniteKeys
      <4>2. x[1] = q /\ k[1] = p
        BY DEF BackersOf
      <4> QED BY <2>2, <4>1, <4>2
    <3>3. \A x \in BackersOf(q) : RecordedIn(s, d)[x] \in Int /\ RecordedIn(s, d)[x] = RecordedIn(t, d)[x]
      BY <1>8, <1>9, <3>2, RecordedNat
    <3>4. Total(RecordedIn(s, d), BackersOf(q)) = Total(RecordedIn(t, d), BackersOf(q))
      BY <3>3, FiniteKeys, SumSame
    <3> QED BY <2>0, <3>1, <3>4
  <2> QED BY <2>1, <2>2
<1>14. ASSUME NEW q \in Proposals, t.status[q] = "none", NEW x \in Accounts
       PROVE  t.deposits[<<q, x>>] = NoCoins
  <2>1. q # p
    BY <1>1, <1>6, <1>14
  <2>2. <<q, x>> \in DepositKeys \ {k}
    BY <2>1 DEF DepositKeys
  <2> QED BY <1>6, <1>8, <1>14, <2>2 DEF Backed
<1> QED BY <1>9, <1>10, <1>12, <1>13, <1>14 DEF Backed

\* vote_add stores a ballot that has no weights.
LEMMA VoteKeeps ==
    ASSUME NEW s, GovStore(s), Backed(s), Weightless(s),
           NEW a \in Accounts, NEW p \in Proposals, NEW b, ValidBallot(b), NEW t \in VoteAdd(s, a, p, b)
    PROVE  GovStore(t) /\ Backed(t) /\ Weightless(t)
<1> DEFINE k == <<p, a>>
<1>1. k \in DepositKeys
  BY DEF DepositKeys
<1>2. t = [s EXCEPT !.votes[<<p, a>>] = b]
  BY DEF VoteAdd
<1>3. t = [status |-> s.status, total |-> s.total, end |-> s.end, next |-> s.next,
           inactive |-> s.inactive, active |-> s.active, deposits |-> s.deposits,
           votes |-> [s.votes EXCEPT ![k] = b], escrow |-> s.escrow, bal |-> s.bal]
  BY <1>2 DEF GovStore
<1> HIDE DEF k
<1>4. /\ t.status = s.status /\ t.total = s.total /\ t.deposits = s.deposits
      /\ t.escrow = s.escrow /\ t.votes = [s.votes EXCEPT ![k] = b]
      /\ t = [status |-> t.status, total |-> t.total, end |-> t.end, next |-> t.next,
              inactive |-> t.inactive, active |-> t.active, deposits |-> t.deposits,
              votes |-> t.votes, escrow |-> t.escrow, bal |-> t.bal]
  BY <1>3
<1>5. t.votes = [q \in DepositKeys |-> IF q = k THEN b ELSE s.votes[q]]
  BY <1>1, <1>4 DEF GovStore
<1>6. GovStore(t)
  BY <1>4, <1>5 DEF GovStore
<1>7. Weightless(t)
  BY <1>5 DEF Weightless
<1>8. \A d : RecordedIn(t, d) = RecordedIn(s, d)
  BY <1>4 DEF RecordedIn
<1>9. Backed(t)
  BY <1>4, <1>8 DEF Backed
<1> QED BY <1>6, <1>7, <1>9

\* A proposal is submitted with its total already set to the deposit: the sum of
\* the two lists the same denominations twice, and the message fails.
LEMMA SubmitFails ==
    ASSUME NEW s, GovStore(s), NEW a \in Accounts, NEW c \in Amounts, NEW x
    PROVE  UNION {DepositAdd(t, a, s.next, c) : t \in SubmitProposal(s, c, x)} = {}
<1> SUFFICES ASSUME NEW t \in SubmitProposal(s, c, x), NEW u \in DepositAdd(t, a, s.next, c)
             PROVE  FALSE
  OBVIOUS
<1> DEFINE p == s.next
<1>1. IsCoinList(c) /\ IsCoins(c) /\ Denom \subseteq Nat
  BY GovAssumption
<1>2. p \in Proposals
  BY DEF SubmitProposal
<1>3. t = [s EXCEPT !.status[p] = "deposit", !.total[p] = c, !.end[p] = time + DepositPeriod,
                    !.inactive = @ \cup {p}, !.next = @ + 1]
  BY DEF SubmitProposal
<1>4. t.total = [s.total EXCEPT ![p] = c]
  BY <1>3 DEF GovStore
<1>5. t.total[p] = c
  BY <1>2, <1>4 DEF GovStore
<1>6. PICK w \in SendToModule(t, a, c) : u \in RecordDeposit(w, a, p, c)
  BY DEF DepositAdd
<1>7. w.total = t.total
  <2>1. w = [t EXCEPT !.bal[a] = Minus(@, c), !.escrow = Plus(@, c)]
    BY <1>6 DEF SendToModule
  <2>2. t = [status |-> t.status, total |-> t.total, end |-> t.end, next |-> t.next,
             inactive |-> t.inactive, active |-> t.active, deposits |-> t.deposits,
             votes |-> t.votes, escrow |-> t.escrow, bal |-> t.bal]
    BY <1>3 DEF GovStore
  <2> QED BY <2>1, <2>2
<1>8. CanAppend(c, c)
  BY <1>5, <1>6, <1>7 DEF RecordDeposit
<1>9. PICK d \in DOMAIN c : TRUE
  BY <1>1 DEF IsCoins
<1>10. d \in Nat /\ d < d
  BY <1>1, <1>8, <1>9 DEF CanAppend, IsCoinList
<1> QED BY <1>10


\* The places of a file are finitely many.
LEMMA GenesisPlaces ==
    ASSUME NEW g \in Genesis
    PROVE  /\ IsFiniteSet(DOMAIN g.deposits) /\ DOMAIN g.deposits \subseteq Nat
           /\ \A i \in DOMAIN g.deposits :
                 /\ IsCoinList(g.deposits[i].amount)
                 /\ g.deposits[i].proposal \in Proposals /\ g.deposits[i].depositor \in Accounts
<1>1. /\ g.deposits = [i \in 1 .. Len(g.deposits) |-> g.deposits[i]] /\ Len(g.deposits) \in Nat
      /\ \A i \in DOMAIN g.deposits :
            /\ IsCoinList(g.deposits[i].amount)
            /\ g.deposits[i].proposal \in Proposals /\ g.deposits[i].depositor \in Accounts
  BY GenesisAssumption
<1>2. PICK n \in Nat : n = Len(g.deposits)
  BY <1>1
<1>3. IsFiniteSet(1 .. n) /\ 1 .. n \subseteq Nat
  BY FS_Interval
<1>4. DOMAIN g.deposits = 1 .. n
  BY <1>1, <1>2
<1> QED BY <1>1, <1>3, <1>4

\* The places of some depositors, and the amounts of one denomination by place.
PlacesIn(g, S) ==
    {i \in DOMAIN g.deposits : <<g.deposits[i].proposal, g.deposits[i].depositor>> \in S}
ListedIn(g, d) == [i \in DOMAIN g.deposits |-> AmountOf(g.deposits[i].amount, d)]

\* What a genesis file lists, by place, is what the store has, by depositor.
LEMMA GenesisRecords ==
    ASSUME NEW g \in Genesis, NEW s, s = InitGenesis(g), GovStore(s),
           NEW d, NEW S, S \subseteq DepositKeys, IsFiniteSet(S)
    PROVE  Total(RecordedIn(s, d), S) = Total(ListedIn(g, d), PlacesIn(g, S))
<1> DEFINE D == DOMAIN g.deposits
           I == PlacesIn(g, S)
           e == ListedIn(g, d)
           R == [i \in D |-> <<g.deposits[i].proposal, g.deposits[i].depositor>>]
           f == RecordedIn(s, d)
           A == {R[i] : i \in I}
<1>1. I \subseteq D /\ \A i \in D : e[i] = AmountOf(g.deposits[i].amount, d)
  BY DEF PlacesIn, ListedIn
<1>2. IsFiniteSet(I) /\ \A i \in D : i \in Nat
  BY <1>1, GenesisPlaces, FS_Subset
<1>3. \A i, j \in I : R[i] = R[j] => i = j
  BY <1>1, ExportAssumption
<1>4. \A i \in I : R[i] \in S /\ R[i] \in DepositKeys
  BY DEF PlacesIn
<1>5. ASSUME NEW i \in I PROVE s.deposits[R[i]] = g.deposits[i].amount
  <2>1. RecordsOf(g, R[i]) = {i}
    BY <1>1, ExportAssumption DEF RecordsOf
  <2>2. Max({i}) = i
    BY <1>1, <1>2 DEF Max
  <2>3. s.deposits[R[i]] = IF RecordsOf(g, R[i]) = {} THEN NoCoins
                           ELSE g.deposits[Max(RecordsOf(g, R[i]))].amount
    BY <1>4 DEF InitGenesis, DepositKeys
  <2> HIDE DEF R
  <2> QED BY <2>1, <2>2, <2>3
<1>6. ASSUME NEW i \in I PROVE e[i] \in Int /\ f[R[i]] = e[i]
  <2>1. R[i] \in DepositKeys /\ s.deposits[R[i]] = g.deposits[i].amount
    BY <1>4, <1>5
  <2>2. f[R[i]] = AmountOf(g.deposits[i].amount, d) /\ f[R[i]] \in Nat
    <3> HIDE DEF R
    <3> QED BY <2>1, RecordedNat
  <2>3. e[i] = AmountOf(g.deposits[i].amount, d)
    BY <1>1
  <2> QED BY <2>2, <2>3
<1>7. ASSUME NEW k \in S, k \notin A PROVE f[k] = 0
  <2>1. RecordsOf(g, k) = {}
    BY <1>7 DEF RecordsOf, PlacesIn
  <2>2. s.deposits[k] = NoCoins
    BY <2>1 DEF InitGenesis, DepositKeys
  <2>3. f[k] = AmountOf(NoCoins, d)
    BY <2>2, RecordedNat
  <2> QED BY <2>3 DEF AmountOf, NoCoins
<1>8. \A k \in S : f[k] \in Int
  BY RecordedNat
<1>9. A = {R[i] : i \in I} /\ A \in SUBSET S
  BY <1>4
<1> HIDE DEF D, R, f, A, I, e
<1>10. Total(f, A) = Total(e, I)
  <2>1. IsFiniteSet(I)
    BY <1>2
  <2>2. A = {R[i] : i \in I}
    BY <1>9
  <2> QED BY ONLY <2>1, <2>2, <1>3, <1>6, SumImage
<1>11. \A k \in S : f[k] = IF k \in A THEN f[k] ELSE 0
  BY <1>7
<1>12. Total(f, A) = Total(f, S)
  BY <1>8, <1>9, <1>11, SumChosen
<1> QED BY <1>10, <1>12 DEF f, I, e

\* The balance that init_genesis compares is what the file lists.
LEMMA GenesisEscrow ==
    ASSUME NEW g \in Genesis, GenesisAccepted(g), NEW d \in Denom
    PROVE  AmountOf(g.escrow, d) = Total(ListedIn(g, d), DOMAIN g.deposits)
<1> DEFINE D == DOMAIN g.deposits
           e == ListedIn(g, d)
           c(i) == g.deposits[i].amount
<1>1. IsFiniteSet(D) /\ D \subseteq Nat
  BY GenesisPlaces
<1>2. /\ \A i, j \in D : i < j => CanAppend(c(i), c(j))
      /\ DOMAIN g.escrow = UNION {DOMAIN c(i) : i \in D}
      /\ \A i \in D : \A x \in DOMAIN c(i) : g.escrow[x] = c(i)[x]
  BY DEF GenesisAccepted
<1>3. ASSUME NEW i \in D PROVE IsCoinList(c(i)) /\ e[i] = AmountOf(c(i), d) /\ e[i] \in Nat
  <2>1. IsCoinList(c(i)) /\ e[i] = AmountOf(c(i), d)
    BY GenesisPlaces DEF ListedIn
  <2> QED BY <2>1, ListAmount
<1> HIDE DEF e
<1>4. CASE d \notin DOMAIN g.escrow
  <2>1. \A i \in D : e[i] = 0
    BY <1>2, <1>3, <1>4 DEF AmountOf
  <2>2. Total(e, D) = 0
    BY <1>1, <2>1, SumZero
  <2> QED BY <1>4, <2>2 DEF AmountOf, e
<1>5. CASE d \in DOMAIN g.escrow
  <2>1. PICK i \in D : d \in DOMAIN c(i)
    BY <1>2, <1>5
  <2>2. AmountOf(g.escrow, d) = e[i]
    BY <1>2, <1>3, <1>5, <2>1 DEF AmountOf
  <2>3. ASSUME NEW j \in D \ {i} PROVE e[j] = 0
    <3>1. d \notin DOMAIN c(j)
      <4>1. d \in Nat /\ (i < j \/ j < i)
        BY <1>1, GovAssumption
      <4>2. d \in DOMAIN c(j) => d < d
        BY <1>2, <2>1, <4>1 DEF CanAppend
      <4> QED BY <4>1, <4>2
    <3> QED BY <1>3, <3>1 DEF AmountOf
  <2>4. Total(e, D) = e[i] + Total(e, D \ {i})
    <3>1. \A x \in D : e[x] \in Int
      BY <1>3
    <3> QED BY <1>1, <2>1, <3>1, SumRemove
  <2>5. Total(e, D \ {i}) = 0
    BY <1>1, <2>3, FS_Subset, SumZero
  <2> QED BY <1>3, <2>1, <2>2, <2>4, <2>5 DEF e
<1> QED BY <1>4, <1>5 DEF e

\* The genesis state: what init_genesis has checked, and what an export has.
LEMMA GovInitInv == GovInit => GovInv
<1> SUFFICES ASSUME GovInit PROVE GovInv
  OBVIOUS
<1>1. PICK g \in Genesis : GenesisAccepted(g) /\ st = InitGenesis(g)
  BY DEF GovInit
<1> DEFINE D == DOMAIN g.deposits
           KeyAt(i) == <<g.deposits[i].proposal, g.deposits[i].depositor>>
<1>2. /\ st.total = g.total /\ st.escrow = g.escrow /\ st.status = g.status
      /\ st.deposits = [k \in DepositKeys |->
             IF RecordsOf(g, k) = {} THEN NoCoins ELSE g.deposits[Max(RecordsOf(g, k))].amount]
      /\ st.votes = [k \in DepositKeys |-> IF k \in DOMAIN g.votes THEN g.votes[k] ELSE NoVote]
      /\ st = [status |-> st.status, total |-> st.total, end |-> st.end, next |-> st.next,
               inactive |-> st.inactive, active |-> st.active, deposits |-> st.deposits,
               votes |-> st.votes, escrow |-> st.escrow, bal |-> st.bal]
  BY <1>1 DEF InitGenesis, DepositKeys
<1>3. IsFiniteSet(D) /\ D \subseteq Nat
  BY GenesisPlaces
<1>4. \A i \in D : IsCoinList(g.deposits[i].amount) /\ KeyAt(i) \in DepositKeys
  BY GenesisPlaces DEF DepositKeys
<1>5. ASSUME NEW k \in DepositKeys PROVE IsCoinList(st.deposits[k])
  <2>1. CASE RecordsOf(g, k) = {}
    BY <1>2, <2>1 DEF IsCoinList, NoCoins
  <2>2. CASE RecordsOf(g, k) # {}
    <3>1. PICK i \in RecordsOf(g, k) : TRUE
      BY <2>2
    <3>2. RecordsOf(g, k) = {i} /\ i \in D
      BY <3>1, ExportAssumption DEF RecordsOf
    <3>3. Max({i}) = i
      BY <1>3, <3>2 DEF Max
    <3>4. st.deposits[k] = g.deposits[Max(RecordsOf(g, k))].amount
      BY <1>2, <2>2
    <3>5. st.deposits[k] = g.deposits[i].amount
      BY <3>2, <3>3, <3>4
    <3> QED BY <1>4, <3>2, <3>5
  <2> QED BY <2>1, <2>2
<1>6. GovStore(st)
  BY <1>2, <1>5, GenesisAssumption DEF GovStore
<1>7. Weightless(st)
  BY <1>2, GenesisAssumption DEF Weightless
<1>8. ASSUME NEW d \in Denom PROVE AmountOf(st.escrow, d) = Total(RecordedIn(st, d), DepositKeys)
  <2>1. PlacesIn(g, DepositKeys) = D
    BY <1>4 DEF PlacesIn
  <2>2. Total(RecordedIn(st, d), DepositKeys) = Total(ListedIn(g, d), PlacesIn(g, DepositKeys))
    BY <1>1, <1>6, FiniteKeys, GenesisRecords
  <2>3. AmountOf(g.escrow, d) = Total(ListedIn(g, d), D)
    BY <1>1, GenesisEscrow
  <2> QED BY <1>2, <2>1, <2>2, <2>3
<1>9. ASSUME NEW p \in Proposals, st.status[p] # "none", NEW d \in Denom
      PROVE  AmountOf(st.total[p], d) = Total(RecordedIn(st, d), BackersOf(p))
  <2> DEFINE own == {i \in D : g.deposits[i].proposal = p}
             e == [i \in own |-> AmountOf(g.deposits[i].amount, d)]
             f == ListedIn(g, d)
  <2>1. AmountOf(g.total[p], d) = Total(e, own)
    BY <1>2, <1>9, ExportAssumption
  <2>2. PlacesIn(g, BackersOf(p)) = own
    BY GenesisPlaces DEF BackersOf, PlacesIn
  <2>3. IsFiniteSet(own) /\ \A i \in own : e[i] \in Int /\ e[i] = f[i]
    <3>1. IsFiniteSet(own)
      BY <1>3, FS_Subset
    <3>2. \A i \in own : AmountOf(g.deposits[i].amount, d) \in Nat
      BY <1>4, ListAmount
    <3> QED BY <3>1, <3>2 DEF ListedIn
  <2>4. Total(RecordedIn(st, d), BackersOf(p)) = Total(f, PlacesIn(g, BackersOf(p)))
    BY <1>1, <1>6, FiniteKeys, GenesisRecords
  <2> HIDE DEF e, own, f
  <2>5. Total(e, own) = Total(f, own)
    BY <2>3, SumSame
  <2> QED BY <1>2, <2>1, <2>2, <2>4, <2>5
<1>10. ASSUME NEW p \in Proposals, st.status[p] = "none", NEW a \in Accounts
       PROVE  st.deposits[<<p, a>>] = NoCoins
  <2>1. RecordsOf(g, <<p, a>>) = {}
    BY <1>2, <1>10, ExportAssumption DEF RecordsOf
  <2> QED BY <1>2, <2>1 DEF DepositKeys
<1>11. staking \in Stakings
  BY DEF GovInit
<1> QED BY <1>6, <1>7, <1>8, <1>9, <1>10, <1>11 DEF GovInv, Backed

\* A message leaves what its handler makes of the store, or nothing new.
LEMMA DeliverKeeps ==
    ASSUME GovInv, NEW stores, Deliver(stores),
           \A t \in stores : GovStore(t) /\ Backed(t) /\ Weightless(t)
    PROVE  GovInv'
<1>1. st' = st \/ st' \in stores
  BY DEF Deliver
<1>2. staking' = staking
  BY DEF Deliver
<1>3. GovStore(st') /\ Backed(st') /\ Weightless(st')
  BY <1>1 DEF GovInv
<1> QED BY <1>2, <1>3 DEF GovInv

\* Every step of the module keeps the invariant.
LEMMA GovNextInv == GovInv /\ [GovNext]_govVars => GovInv'
<1> SUFFICES ASSUME GovInv, [GovNext]_govVars PROVE GovInv'
  OBVIOUS
<1>0. GovStore(st) /\ Backed(st) /\ Weightless(st)
  BY DEF GovInv
<1>1. ASSUME NEW a \in Accounts, NEW p \in Proposals, NEW c \in Amounts, MsgDeposit(a, p, c)
      PROVE  GovInv'
  <2>1. \A t \in DepositAdd(st, a, p, c) : GovStore(t) /\ Backed(t) /\ Weightless(t)
    BY <1>0, DepositKeeps
  <2> QED BY <1>1, <2>1, DeliverKeeps DEF MsgDeposit
<1>2. ASSUME NEW a \in Accounts, NEW p \in Proposals, NEW o \in Options \cup {"empty"}, MsgVote(a, p, o)
      PROVE  GovInv'
  <2>1. ValidBallot(Weighted(o))
    BY DEF ValidBallot, IsBallot, Weighted, ValidWeight
  <2>2. \A t \in VoteAdd(st, a, p, Weighted(o)) : GovStore(t) /\ Backed(t) /\ Weightless(t)
    BY <1>0, <2>1, VoteKeeps
  <2> QED BY <1>2, <2>2, DeliverKeeps DEF MsgVote
<1>3. ASSUME NEW a \in Accounts, NEW p \in Proposals, NEW b \in Ballots, MsgVoteWeighted(a, p, b)
      PROVE  GovInv'
  <2>1. ValidBallot(b)
    BY <1>3, BallotAssumption DEF ValidBallot, MsgVoteWeighted
  <2>2. \A t \in VoteAdd(st, a, p, b) : GovStore(t) /\ Backed(t) /\ Weightless(t)
    BY <1>0, <2>1, VoteKeeps
  <2> QED BY <1>3, <2>2, DeliverKeeps DEF MsgVoteWeighted
<1>4. ASSUME NEW a \in Accounts, NEW c \in Amounts, NEW x \in Contents, MsgSubmitProposal(a, c, x)
      PROVE  GovInv'
  <2> DEFINE stores == UNION {DepositAdd(t, a, st.next, c) : t \in SubmitProposal(st, c, x)}
  <2>1. stores = {}
    BY <1>0, SubmitFails
  <2>2. Deliver(stores)
    BY <1>4 DEF MsgSubmitProposal
  <2> HIDE DEF stores
  <2> QED BY <2>1, <2>2, DeliverKeeps
<1>5. CASE EndBlock
  BY <1>5 DEF EndBlock, GovInv
<1>6. CASE StakingChanges
  BY <1>6 DEF StakingChanges, GovInv
<1>7. CASE UNCHANGED govVars
  BY <1>7 DEF govVars, GovInv
<1> QED BY <1>1, <1>2, <1>3, <1>4, <1>5, <1>6, <1>7 DEF GovNext

\* What x/gov holds is what its records say, and no stored vote has a weight, in
\* every reachable state.
THEOREM GovInvariant == GovSpec => []GovInv
  BY GovInitInv, GovNextInv, PTL DEF GovSpec


\* The answers about some depositors, and what they add up to.
DepositAnswers(s, S) == {[proposal |-> k[1], depositor |-> k[2], amount |-> s.deposits[k]] :
                            k \in {q \in S : s.deposits[q] # NoCoins}}

\* The deposits that are told are the ones recorded.
LEMMA AnswersBack ==
    ASSUME NEW s, GovStore(s), NEW d, NEW S, S \subseteq DepositKeys, IsFiniteSet(S)
    PROVE  Backing(DepositAnswers(s, S), d) = Total(RecordedIn(s, d), S)
<1> DEFINE U == {q \in S : s.deposits[q] # NoCoins}
           R == [k \in S |-> [proposal |-> k[1], depositor |-> k[2], amount |-> s.deposits[k]]]
           A == DepositAnswers(s, S)
           f == RecordedIn(s, d)
           b == [x \in A |-> AmountOf(x.amount, d)]
<1>1. U \in SUBSET S /\ IsFiniteSet(U)
  BY FS_Subset
<1>2. A = {R[k] : k \in U}
  BY DEF DepositAnswers
<1>3. \A k \in S : f[k] = AmountOf(s.deposits[k], d) /\ f[k] \in Nat
  BY RecordedNat
<1>4. \A x, y \in U : R[x] = R[y] => x = y
  <2> SUFFICES ASSUME NEW x \in U, NEW y \in U, R[x] = R[y] PROVE x = y
    OBVIOUS
  <2>1. x \in DepositKeys /\ y \in DepositKeys
    OBVIOUS
  <2>2. x = <<x[1], x[2]>> /\ y = <<y[1], y[2]>>
    BY <2>1 DEF DepositKeys
  <2>3. R[x].proposal = x[1] /\ R[x].depositor = x[2] /\ R[y].proposal = y[1] /\ R[y].depositor = y[2]
    OBVIOUS
  <2> QED BY <2>2, <2>3
<1>5. ASSUME NEW k \in U PROVE f[k] \in Int /\ b[R[k]] = f[k]
  <2>1. R[k] \in A /\ R[k].amount = s.deposits[k]
    BY <1>2
  <2>2. b[R[k]] = AmountOf(s.deposits[k], d)
    BY <2>1
  <2> QED BY <1>3, <2>2
<1>6. \A k \in S : f[k] \in Int /\ f[k] = IF k \in U THEN f[k] ELSE 0
  <2> SUFFICES ASSUME NEW k \in S, k \notin U PROVE f[k] = 0
    BY <1>3
  <2>1. s.deposits[k] = NoCoins
    OBVIOUS
  <2>2. f[k] = AmountOf(NoCoins, d)
    BY <1>3, <2>1
  <2> QED BY <2>2 DEF AmountOf, NoCoins
<1>7. Backing(A, d) = Total(b, A)
  BY DEF Backing
<1> HIDE DEF U, R, A, f, b
<1>8. Total(b, A) = Total(f, U)
  BY <1>1, <1>2, <1>4, <1>5, SumImage
<1>9. Total(f, U) = Total(f, S)
  BY <1>1, <1>6, SumChosen
<1> QED BY <1>7, <1>8, <1>9 DEF A, f

\* What the query for the deposits of a proposal answers, and the one for it.
LEMMA DepositsTold ==
    ASSUME GovStore(st), NEW p \in Proposals
    PROVE  /\ DepositsOf(p) = DepositAnswers(st, BackersOf(p))
           /\ Ask([kind |-> "Proposal", proposal |-> p]) = QueryProposal(st, p)
<1> DEFINE q == [kind |-> "Deposits", proposal |-> p]
           r == [kind |-> "Proposal", proposal |-> p]
<1>1. Query(st, q) = QueryDeposits(st, p)
  BY DEF Query
<1>2. Query(st, r) = QueryProposal(st, p)
  BY DEF Query
<1>3. DOMAIN st.deposits = Proposals \X Accounts
  BY DEF GovStore, DepositKeys
<1>4. QueryDeposits(st, p) = DepositAnswers(st, BackersOf(p))
  <2>1. ASSUME NEW x \in QueryDeposits(st, p) PROVE x \in DepositAnswers(st, BackersOf(p))
    <3>1. PICK k \in Proposals \X Accounts : x \in QueryDeposit(st, k[1], k[2])
      BY <1>3 DEF QueryDeposits, AllDeposits
    <3>2. k = <<k[1], k[2]>> /\ k[1] \in Proposals /\ k[2] \in Accounts
      OBVIOUS
    <3>3. /\ x = [proposal |-> k[1], depositor |-> k[2], amount |-> st.deposits[<<k[1], k[2]>>]]
          /\ st.deposits[<<k[1], k[2]>>] # NoCoins
      BY <3>1 DEF QueryDeposit
    <3>4. k[1] = p
      BY <3>3 DEF QueryDeposits
    <3>5. k \in BackersOf(p) /\ st.deposits[k] # NoCoins
      BY <3>2, <3>3, <3>4 DEF BackersOf
    <3>6. x = [proposal |-> k[1], depositor |-> k[2], amount |-> st.deposits[k]]
      BY <3>2, <3>3
    <3> QED BY <3>5, <3>6 DEF DepositAnswers
  <2>2. ASSUME NEW x \in DepositAnswers(st, BackersOf(p)) PROVE x \in QueryDeposits(st, p)
    <3>1. PICK k \in BackersOf(p) : /\ st.deposits[k] # NoCoins
                                    /\ x = [proposal |-> k[1], depositor |-> k[2], amount |-> st.deposits[k]]
      BY DEF DepositAnswers
    <3>2. k = <<k[1], k[2]>> /\ k[1] = p /\ k \in Proposals \X Accounts
      BY <3>1 DEF BackersOf
    <3>3. x = [proposal |-> k[1], depositor |-> k[2], amount |-> st.deposits[<<k[1], k[2]>>]]
      BY <3>1, <3>2
    <3>4. x \in QueryDeposit(st, k[1], k[2])
      BY <3>1, <3>2, <3>3 DEF QueryDeposit
    <3>5. x \in AllDeposits(st)
      BY <1>3, <3>2, <3>4 DEF AllDeposits
    <3>6. x.proposal = p
      BY <3>1, <3>2
    <3> QED BY <3>5, <3>6 DEF QueryDeposits
  <2> QED BY <2>1, <2>2
<1> QED BY <1>1, <1>2, <1>4 DEF DepositsOf, Ask

\* The module's account holds what the recorded deposits add up to, and so does
\* every proposal's total, as the queries tell them.
THEOREM DepositsProved == GovSpec => []DepositsAccounted
<1>1. GovInv => DepositsAccounted
  <2> SUFFICES ASSUME GovInv PROVE DepositsAccounted
    OBVIOUS
  <2>0. GovStore(st) /\ Backed(st)
    BY DEF GovInv
  <2>1. ASSUME NEW d \in Denom
        PROVE  AmountOf(st.escrow, d) = Backing(UNION {DepositsOf(p) : p \in Proposals}, d)
    <3>1. UNION {DepositsOf(p) : p \in Proposals} = UNION {DepositAnswers(st, BackersOf(p)) : p \in Proposals}
      BY <2>0, DepositsTold
    <3>2. UNION {DepositAnswers(st, BackersOf(p)) : p \in Proposals} = DepositAnswers(st, DepositKeys)
      BY DEF DepositAnswers, BackersOf, DepositKeys
    <3>3. Backing(DepositAnswers(st, DepositKeys), d) = Total(RecordedIn(st, d), DepositKeys)
      BY <2>0, FiniteKeys, AnswersBack
    <3> QED BY <2>0, <3>1, <3>2, <3>3 DEF Backed
  <2>2. ASSUME NEW p \in Proposals, NEW r \in Ask([kind |-> "Proposal", proposal |-> p]), NEW d \in Denom
        PROVE  AmountOf(r.total, d) = Backing(DepositsOf(p), d)
    <3>1. r = ProposalModel(st, p) /\ st.status[p] # "none"
      BY <2>0, <2>2, DepositsTold DEF QueryProposal, Stored
    <3>2. r.total = st.total[p]
      BY <3>1 DEF ProposalModel
    <3>3. Backing(DepositAnswers(st, BackersOf(p)), d) = Total(RecordedIn(st, d), BackersOf(p))
      BY <2>0, FiniteKeys, AnswersBack
    <3> QED BY <2>0, <3>1, <3>2, <3>3, DepositsTold DEF Backed
  <2>3. ASSUME NEW p \in Proposals, DepositsOf(p) # {}
        PROVE  Ask([kind |-> "Proposal", proposal |-> p]) # {}
    <3>1. PICK k \in BackersOf(p) : st.deposits[k] # NoCoins
      BY <2>0, <2>3, DepositsTold DEF DepositAnswers
    <3>2. k = <<p, k[2]>> /\ k[2] \in Accounts
      BY DEF BackersOf
    <3>3. st.status[p] # "none"
      BY <2>0, <3>1, <3>2 DEF Backed
    <3>4. p \in Stored(st)
      BY <3>3 DEF Stored
    <3> QED BY <2>0, <3>4, DepositsTold DEF QueryProposal
  <2> QED BY <2>1, <2>2, <2>3 DEF DepositsAccounted
<1> QED BY GovInvariant, <1>1, PTL


(***************************************************************************)
(* The tally.                                                              *)
(***************************************************************************)

\* Division rounds down.
LEMMA QuotientBound ==
    ASSUME NEW x \in Nat, NEW y \in Nat \ {0}
    PROVE  x \div y \in Nat /\ y * (x \div y) <= x
  OBVIOUS

\* A sum over some is no more than the sum over all.
LEMMA SumPart ==
    ASSUME NEW S, IsFiniteSet(S), NEW U \in SUBSET S, NEW f, \A x \in S : f[x] \in Nat
    PROVE  Total(f, U) \in Nat /\ Total(f, S) \in Nat /\ Total(f, U) <= Total(f, S)
<1>1. IsFiniteSet(U) /\ IsFiniteSet(S \ U) /\ U \cap (S \ U) = {} /\ U \cup (S \ U) = S
  BY FS_Subset
<1>2. Total(f, U) \in Nat /\ Total(f, S \ U) \in Nat
  BY <1>1, SumNat
<1>3. Total(f, U \cup (S \ U)) = Total(f, U) + Total(f, S \ U)
  BY <1>1, SumUnion
<1>4. Total(f, S) = Total(f, U) + Total(f, S \ U)
  BY <1>1, <1>3
<1> QED BY <1>2, <1>4

\* What the staking module answers.
LEMMA StakingTypes ==
    ASSUME GovInv
    PROVE  /\ staking.bonded \subseteq Validators /\ IsFiniteSet(staking.bonded)
           /\ \A v \in Validators : staking.tokens[v] \in Nat
           /\ \A a \in Accounts, v \in Validators : staking.shares[<<a, v>>] \in Nat
           /\ \A v \in staking.bonded : \E a \in Accounts : staking.shares[<<a, v>>] > 0
<1>1. /\ staking.bonded \subseteq Validators
      /\ staking.tokens \in [Validators -> Nat] /\ staking.shares \in [Accounts \X Validators -> Nat]
      /\ \A v \in staking.bonded : \E a \in Accounts : staking.shares[<<a, v>>] > 0
  BY StakingsAssumption DEF GovInv
<1>2. IsFiniteSet(Validators)
  BY GovAssumption, FS_Subset
<1>3. IsFiniteSet(staking.bonded)
  BY <1>1, <1>2, FS_Subset
<1> QED BY <1>1, <1>3

\* A bonded validator has shares, of which the voters have no more than all.
LEMMA SharesFacts ==
    ASSUME GovInv, NEW p \in Proposals, NEW v \in staking.bonded
    PROVE  /\ DelegatorShares(v) \in Nat \ {0}
           /\ DelegatorDeduction(p, v) \in Nat /\ DelegatorDeduction(p, v) <= DelegatorShares(v)
<1> DEFINE f == [a \in Accounts |-> staking.shares[<<a, v>>]]
           e == [a \in Voters(p) |-> staking.shares[<<a, v>>]]
<1>1. Voters(p) \in SUBSET Accounts /\ IsFiniteSet(Accounts) /\ v \in Validators
  BY StakingTypes, FiniteKeys DEF Voters
<1>2. \A a \in Accounts : f[a] \in Nat
  BY <1>1, StakingTypes
<1>3. PICK a \in Accounts : f[a] > 0
  BY StakingTypes
<1>4. \A x \in Voters(p) : e[x] \in Int /\ e[x] = f[x]
  BY <1>1, <1>2
<1>5. IsFiniteSet(Voters(p))
  BY <1>1, FS_Subset
<1>6. DelegatorShares(v) = Total(f, Accounts) /\ DelegatorDeduction(p, v) = Total(e, Voters(p))
  BY DEF DelegatorShares, DelegatorDeduction, SharesIn
<1> HIDE DEF f, e
<1>7. Total(e, Voters(p)) = Total(f, Voters(p))
  BY <1>4, <1>5, SumSame
<1>8. f[a] <= Total(f, Accounts) /\ Total(f, Accounts) \in Nat
  BY <1>1, <1>2, SumAtLeast
<1>9. Total(f, Voters(p)) \in Nat /\ Total(f, Voters(p)) <= Total(f, Accounts)
  BY <1>1, <1>2, SumPart
<1> QED BY <1>2, <1>3, <1>6, <1>7, <1>8, <1>9

\* The power of some shares in a validator is no more than their part of it.
LEMMA PowerBound ==
    ASSUME GovInv, NEW p \in Proposals, NEW v \in staking.bonded, NEW x \in Nat
    PROVE  /\ PowerOf(x, v) \in Nat
           /\ DelegatorShares(v) * PowerOf(x, v) <= x * Whole(staking.tokens[v])
<1> DEFINE D == DelegatorShares(v)
           w == Whole(staking.tokens[v])
           m == (x * w) \div Unit
<1>1. D \in Nat \ {0} /\ staking.tokens[v] \in Nat /\ Unit \in Nat \ {0}
  BY SharesFacts, StakingTypes, CoinsAssumption
<1>2. w \in Nat
  BY <1>1 DEF Whole
<1>3. PowerOf(x, v) = (m * Unit) \div D
  BY DEF PowerOf, DecDiv, DecMul
<1> HIDE DEF D, w
<1>4. x * w \in Nat
  BY <1>2
<1>5. m \in Nat /\ Unit * m <= x * w
  BY <1>1, <1>4, QuotientBound
<1> HIDE DEF m
<1>6. m * Unit \in Nat /\ m * Unit = Unit * m
  BY <1>1, <1>5
<1>7. (m * Unit) \div D \in Nat /\ D * ((m * Unit) \div D) <= m * Unit
  BY <1>1, <1>6, QuotientBound
<1>8. D * ((m * Unit) \div D) \in Int
  BY <1>1, <1>7
<1>9. D * ((m * Unit) \div D) <= x * w
  BY <1>4, <1>5, <1>6, <1>7, <1>8
<1> QED BY <1>3, <1>7, <1>9 DEF D, w

\* What is multiplied by the same number compares as before.
LEMMA CancelFactor ==
    ASSUME NEW n \in Nat \ {0}, NEW x \in Nat, NEW y \in Nat, n * x <= n * y
    PROVE  x <= y
<1> SUFFICES ASSUME x > y PROVE FALSE
  OBVIOUS
<1>1. PICK z \in Nat \ {0} : x = y + z
  <2>1. x - y \in Nat \ {0} /\ x = y + (x - y)
    OBVIOUS
  <2> QED BY <2>1
<1>2. n * (y + z) = n * y + n * z /\ n * z > 0 /\ n * y \in Nat /\ n * z \in Nat
  OBVIOUS
<1> QED BY <1>1, <1>2

\* What counts for a validator: its voting delegators, and itself for the rest.
VotersPower(p, v) == Total([a \in Voters(p) |-> DelegationPower(<<a, v>>)], Voters(p))
OwnPower(p, v) == IF v \in Answering(p) THEN ValidatorPower(p, v) ELSE 0

\* No more counts for a validator than its tokens.
LEMMA ValidatorBound ==
    ASSUME GovInv, NEW p \in Proposals, NEW v \in staking.bonded
    PROVE  /\ VotersPower(p, v) \in Nat /\ OwnPower(p, v) \in Nat
           /\ VotersPower(p, v) + OwnPower(p, v) <= Whole(staking.tokens[v])
<1> DEFINE D == DelegatorShares(v)
           E == DelegatorDeduction(p, v)
           w == Whole(staking.tokens[v])
           V == Voters(p)
           f == [a \in V |-> staking.shares[<<a, v>>]]
           b == [a \in V |-> DelegationPower(<<a, v>>)]
           x == VotersPower(p, v)
           y == OwnPower(p, v)
<1>1. D \in Nat \ {0} /\ E \in Nat /\ E <= D
  BY SharesFacts
<1>2. w \in Nat
  BY StakingTypes, CoinsAssumption DEF Whole
<1>3. V \subseteq Accounts /\ IsFiniteSet(V)
  BY FiniteKeys, FS_Subset DEF Voters
<1>4. ASSUME NEW a \in V PROVE f[a] \in Nat /\ b[a] \in Nat /\ D * b[a] <= f[a] * w
  <2>1. staking.shares[<<a, v>>] \in Nat
    BY <1>3, StakingTypes
  <2>2. b[a] = PowerOf(staking.shares[<<a, v>>], v) /\ f[a] = staking.shares[<<a, v>>]
    BY DEF DelegationPower
  <2> QED BY <2>1, <2>2, PowerBound
<1>5. E = Total(f, V) /\ x = Total(b, V)
  BY DEF DelegatorDeduction, SharesIn, VotersPower
<1>6. y \in Nat /\ D * y <= (D - E) * w
  <2>1. D - E \in Nat
    BY <1>1
  <2>2. PowerOf(D - E, v) \in Nat /\ D * PowerOf(D - E, v) <= (D - E) * w
    BY <2>1, PowerBound
  <2>3. D * 0 <= (D - E) * w
    <3> HIDE DEF D, E, w
    <3>1. (D - E) * w \in Nat /\ D * 0 = 0
      BY <1>1, <1>2, <2>1
    <3> QED BY <3>1
  <2> QED BY <2>2, <2>3 DEF OwnPower, ValidatorPower
<1> HIDE DEF D, E, w, V, f, b, x, y
<1>7. D * Total(b, V) <= Total(f, V) * w
  BY <1>1, <1>2, <1>3, <1>4, SumShares
<1>8. x \in Nat
  BY <1>3, <1>4, <1>5, SumNat
<1>9. D * x <= E * w
  BY <1>5, <1>7
<1>10. D * (x + y) = D * x + D * y /\ (D - E) * w = D * w - E * w
  BY <1>1, <1>2, <1>6, <1>8
<1>11. D * x \in Int /\ D * y \in Int /\ E * w \in Int /\ D * w \in Int
  BY <1>1, <1>2, <1>6, <1>8
<1>12. D * (x + y) <= D * w
  BY <1>6, <1>9, <1>10, <1>11
<1>13. x + y <= w
  BY <1>1, <1>2, <1>6, <1>8, <1>12, CancelFactor
<1> QED BY <1>6, <1>8, <1>13 DEF x, y, w


\* The two loops of tally together count no more than the bonded tokens.
LEMMA TallyBound ==
    ASSUME GovInv, NEW p \in Proposals
    PROVE  /\ TotalVotingPower(p) \in Nat /\ TotalVotingPower(p) <= Whole(BondedTokens)
           /\ IsFiniteSet(Delegations(p)) /\ \A k \in Delegations(p) : DelegationPower(k) \in Nat
           /\ IsFiniteSet(Answering(p)) /\ \A v \in Answering(p) : ValidatorPower(p, v) \in Nat
<1> DEFINE V == Voters(p)
           B == staking.bonded
           A == Answering(p)
           P == Delegations(p)
           f == [k \in P |-> DelegationPower(k)]
           g == [v \in A |-> ValidatorPower(p, v)]
           all == [v \in B |-> ValidatorPower(p, v)]
           c == [v \in B |-> VotersPower(p, v)]
           o == [v \in B |-> OwnPower(p, v)]
           h == [v \in B |-> VotersPower(p, v) + OwnPower(p, v)]
           n == [v \in B |-> staking.tokens[v]]
           r == [v \in B |-> [a \in V |-> DelegationPower(<<a, v>>)]]
<1>1. IsFiniteSet(V) /\ V \subseteq Accounts /\ IsFiniteSet(B) /\ A \in SUBSET B /\ B \subseteq Validators
  BY FiniteKeys, StakingTypes, FS_Subset DEF Voters, Answering
<1>2. IsFiniteSet(A) /\ IsFiniteSet(P) /\ P = V \X B
  BY <1>1, FS_Subset, FS_Product DEF Delegations
<1>3. ASSUME NEW k \in P PROVE f[k] \in Nat
  <2>1. k[2] \in B /\ k[1] \in Accounts /\ k = <<k[1], k[2]>>
    BY <1>1, <1>2
  <2>2. staking.shares[k] \in Nat
    <3>1. staking.shares[<<k[1], k[2]>>] \in Nat
      BY <1>1, <2>1, StakingTypes
    <3> QED BY <2>1, <3>1
  <2> QED BY <2>1, <2>2, PowerBound DEF DelegationPower
<1>4. ASSUME NEW v \in B PROVE all[v] \in Nat
  <2>1. DelegatorShares(v) - DelegatorDeduction(p, v) \in Nat
    BY SharesFacts
  <2> QED BY <2>1, PowerBound DEF ValidatorPower
<1>5. ASSUME NEW v \in B
      PROVE  /\ c[v] \in Nat /\ o[v] \in Nat /\ h[v] = c[v] + o[v] /\ h[v] \in Nat /\ n[v] \in Nat
             /\ h[v] <= Whole(n[v]) /\ o[v] = IF v \in A THEN all[v] ELSE 0
  BY <1>1, ValidatorBound, StakingTypes DEF OwnPower
<1>6. ASSUME NEW v \in B PROVE c[v] = Total(r[v], V) /\ \A a \in V : r[v][a] = f[<<a, v>>]
  BY <1>2 DEF VotersPower
<1>7. \A v \in A : g[v] \in Int /\ g[v] = all[v]
  BY <1>1, <1>4
<1>8. TotalVotingPower(p) = Total(f, P) + Total(g, A) /\ BondedTokens = Total(n, B)
  BY DEF TotalVotingPower, BondedTokens
<1>9. Unit \in Nat \ {0}
  BY CoinsAssumption
<1>10. \A k \in P : DelegationPower(k) \in Nat
  BY <1>3
<1>11. \A v \in A : ValidatorPower(p, v) \in Nat
  BY <1>1, <1>4
<1> HIDE DEF V, B, A, P, f, g, all, c, o, h, n, r
<1>12. Total(f, P) = Total(c, B)
  <2>1. P = Columns(V, B) /\ \A x \in Columns(V, B) : f[x] \in Int
    BY <1>2, <1>3 DEF Columns
  <2>2. Total(f, Columns(V, B)) = Total(c, B)
    <3>1. IsFiniteSet(V) /\ IsFiniteSet(B)
      BY <1>1
    <3>2. \A v \in B, a \in V : r[v][a] = f[<<a, v>>]
      BY <1>6
    <3>3. \A v \in B : c[v] = Total(r[v], V)
      BY <1>6
    <3> QED BY ONLY <2>1, <3>1, <3>2, <3>3, SumPairs
  <2> QED BY <2>1, <2>2
<1>13. Total(g, A) = Total(o, B)
  <2>1. Total(g, A) = Total(all, A)
    BY <1>2, <1>7, SumSame
  <2>2. \A v \in B : all[v] \in Int
    BY <1>4
  <2>3. \A v \in B : o[v] = IF v \in A THEN all[v] ELSE 0
    BY <1>5
  <2>4. Total(all, A) = Total(o, B)
    BY <1>1, <2>2, <2>3, SumChosen
  <2> QED BY <2>1, <2>4
<1>14. Total(h, B) = Total(c, B) + Total(o, B)
  <2>1. \A v \in B : c[v] \in Int /\ o[v] \in Int /\ h[v] = c[v] + o[v]
    BY <1>5
  <2> QED BY <1>1, <2>1, SumAdd
<1>15. Total(h, B) \in Nat /\ Total(n, B) \in Nat
  BY <1>1, <1>5, SumNat
<1>16. 1 * Total(h, B) <= Total(n, B) * Unit
  <2>1. \A v \in B : n[v] \in Nat /\ h[v] \in Nat /\ 1 * h[v] <= n[v] * Unit
    <3> SUFFICES ASSUME NEW v \in B PROVE n[v] \in Nat /\ h[v] \in Nat /\ 1 * h[v] <= n[v] * Unit
      OBVIOUS
    <3>1. n[v] \in Nat /\ h[v] \in Nat /\ h[v] <= Unit * n[v]
      BY <1>5 DEF Whole
    <3>2. 1 * h[v] = h[v] /\ n[v] * Unit = Unit * n[v]
      BY <1>9, <3>1
    <3> QED BY <3>1, <3>2
  <2> QED BY <1>1, <1>9, <2>1, SumShares
<1>17. Total(h, B) <= Unit * Total(n, B)
  <2>1. 1 * Total(h, B) = Total(h, B) /\ Total(n, B) * Unit = Unit * Total(n, B)
    BY <1>9, <1>15
  <2> QED BY <1>16, <2>1
<1>18. TotalVotingPower(p) = Total(h, B)
  BY <1>8, <1>12, <1>13, <1>14
<1> QED BY <1>2, <1>8, <1>10, <1>11, <1>15, <1>17, <1>18 DEF Whole, A, P

\* A ballot without weights gives nothing to any option.
LEMMA GivesNothing ==
    ASSUME NEW b, ValidBallot(b), NEW x \in Nat, NEW o
    PROVE  Given(b, x, o) = 0
<1> DEFINE I == {i \in DOMAIN b : b[i].option = o}
           f == [i \in I |-> DecMul(x, b[i].weight)]
<1>1. b \in Seq([option : Options \cup {"empty"}, weight : Int]) /\ Unit \in Nat \ {0}
  BY CoinsAssumption DEF ValidBallot, IsBallot
<1>2. DOMAIN b = 1 .. Len(b) /\ Len(b) \in Nat
  BY <1>1
<1>3. IsFiniteSet(DOMAIN b)
  BY <1>2, FS_Interval
<1>4. IsFiniteSet(I)
  BY <1>3, FS_Subset
<1>5. ASSUME NEW i \in I PROVE f[i] = 0
  <2>1. i \in 1 .. Len(b)
    BY <1>2
  <2>2. b[i].weight \in Int
    <3>1. b[i] \in [option : Options \cup {"empty"}, weight : Int]
      BY <1>1, <2>1, ElementOfSeq
    <3> QED BY <3>1
  <2>3. b[i].weight = 0
    BY <1>2, <2>1, <2>2 DEF ValidBallot, ValidWeight
  <2>4. (x * 0) \div Unit = 0
    <3>1. x * 0 = 0 /\ 0 \div Unit = 0
      BY <1>1
    <3> QED BY <3>1
  <2> QED BY <2>3, <2>4 DEF DecMul
<1>6. Given(b, x, o) = Total(f, I)
  BY DEF Given
<1> HIDE DEF I, f
<1>7. Total(f, I) = 0
  BY <1>4, <1>5, SumZero
<1> QED BY <1>6, <1>7

\* No option gets anything.
LEMMA TallyNothing ==
    ASSUME GovInv, NEW p \in Proposals, NEW o
    PROVE  TallyResult(p, o) = 0
<1> DEFINE P == Delegations(p)
           A == Answering(p)
           f == [k \in P |-> Given(st.votes[<<p, k[1]>>], DelegationPower(k), o)]
           g == [v \in A |-> Given(st.votes[<<p, v>>], ValidatorPower(p, v), o)]
<1>1. /\ IsFiniteSet(P) /\ \A k \in P : DelegationPower(k) \in Nat
      /\ IsFiniteSet(A) /\ \A v \in A : ValidatorPower(p, v) \in Nat
  BY TallyBound
<1>2. ASSUME NEW a \in Voters(p) PROVE ValidBallot(st.votes[<<p, a>>])
  <2>1. <<p, a>> \in DepositKeys /\ st.votes[<<p, a>>] # NoVote
    BY DEF Voters, DepositKeys
  <2> QED BY <2>1 DEF GovInv, Weightless
<1>3. \A k \in P : f[k] = 0
  <2> SUFFICES ASSUME NEW k \in P PROVE f[k] = 0
    OBVIOUS
  <2>1. k[1] \in Voters(p)
    BY DEF Delegations
  <2> QED BY <1>1, <1>2, <2>1, GivesNothing
<1>4. \A v \in A : g[v] = 0
  <2> SUFFICES ASSUME NEW v \in A PROVE g[v] = 0
    OBVIOUS
  <2>1. v \in Voters(p)
    BY DEF Answering
  <2> QED BY <1>1, <1>2, <2>1, GivesNothing
<1>5. TallyResult(p, o) = Total(f, P) + Total(g, A)
  BY DEF TallyResult
<1> HIDE DEF P, A, f, g
<1>6. Total(f, P) = 0 /\ Total(g, A) = 0
  BY <1>1, <1>3, <1>4, SumZero
<1> QED BY <1>5, <1>6

\* However the shares of validators are spread over voters, tally counts no more
\* power than there are bonded tokens, and gives the options no more than that.
THEOREM PowerProved == GovSpec => []PowerWithinBonded
<1>1. GovInv => PowerWithinBonded
  <2> SUFFICES ASSUME GovInv, NEW p \in Proposals
               PROVE  /\ TotalVotingPower(p) <= Whole(BondedTokens)
                      /\ Total([o \in Options |-> TallyResult(p, o)], Options) <= TotalVotingPower(p)
                      /\ {k[1] : k \in Delegations(p)} \cup Answering(p) \subseteq
                            {v.voter : v \in Ask([kind |-> "Votes", proposal |-> p])}
    BY DEF PowerWithinBonded
  <2>1. TotalVotingPower(p) \in Nat /\ TotalVotingPower(p) <= Whole(BondedTokens)
    BY TallyBound
  <2>2. Total([o \in Options |-> TallyResult(p, o)], Options) = 0
    <3> DEFINE f == [o \in Options |-> TallyResult(p, o)]
    <3>1. \A o \in Options : f[o] = 0
      BY TallyNothing
    <3>2. IsFiniteSet(Options)
      <4>1. Options = ({"yes"} \cup {"no"}) \cup ({"abstain"} \cup {"veto"})
        BY DEF Options
      <4>2. /\ IsFiniteSet({"yes"}) /\ IsFiniteSet({"no"})
            /\ IsFiniteSet({"abstain"}) /\ IsFiniteSet({"veto"})
        BY FS_Singleton
      <4>3. IsFiniteSet({"yes"} \cup {"no"}) /\ IsFiniteSet({"abstain"} \cup {"veto"})
        BY <4>2, FS_Union
      <4> QED BY <4>1, <4>3, FS_Union
    <3> HIDE DEF f
    <3>3. Total(f, Options) = 0
      BY <3>1, <3>2, SumZero
    <3> QED BY <3>3 DEF f
  <2>3. {k[1] : k \in Delegations(p)} \cup Answering(p) \subseteq Voters(p)
    BY DEF Delegations, Answering
  <2>4. Ask([kind |-> "Votes", proposal |-> p]) = QueryVotes(st, p)
    BY DEF Ask, Query
  <2>5. ASSUME NEW a \in Voters(p) PROVE \E v \in QueryVotes(st, p) : a = v.voter
    <3> DEFINE v == [proposal |-> p, voter |-> a, options |-> st.votes[<<p, a>>]]
    <3>1. a \in Accounts /\ v \in QueryVote(st, p, a)
      BY DEF Voters, QueryVote
    <3>2. v \in QueryVotes(st, p) /\ v.voter = a
      BY <3>1 DEF QueryVotes
    <3> QED BY <3>2
  <2> QED BY <2>1, <2>2, <2>3, <2>4, <2>5
<1> QED BY GovInvariant, <1>1, PTL

=============================================================================
