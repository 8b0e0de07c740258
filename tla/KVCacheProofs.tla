--------------------------- MODULE KVCacheProofs ---------------------------
(***************************************************************************)
(* What the cache operators return, preserve and commute with, for every   *)
(* set of keys and values.                                                 *)
(***************************************************************************)
EXTENDS KVCache, TLAPS

(***************************************************************************)
(* The empty cache (KVCache::default, and what `take` and the clear        *)
(* functions leave behind) is a disjoint cache that hides nothing.         *)
(***************************************************************************)
LEMMA EmptyCacheFacts ==
    /\ EmptyCache \in Cache
    /\ Disjoint(EmptyCache)
    /\ \A m \in Content : Overlay(EmptyCache, m) = m
<1>1. EmptyCache \in Cache
  BY DEF EmptyCache, Empty, Cache, Content
<1>2. Disjoint(EmptyCache)
  BY DEF Disjoint, EmptyCache
<1>3. ASSUME NEW m \in Content PROVE Overlay(EmptyCache, m) = m
  BY DEF Overlay, EmptyCache, Empty, Content
<1> QED
  BY <1>1, <1>2, <1>3

(***************************************************************************)
(* KVCache::set and KVCache::delete keep a cache a cache and keep stored   *)
(* values and deletion marks disjoint.                                     *)
(***************************************************************************)
LEMMA WriteFacts ==
    ASSUME NEW c \in Cache, NEW k \in Key, NEW v \in Val
    PROVE  /\ CacheSet(c, k, v) \in Cache
           /\ CacheDelete(c, k) \in Cache
           /\ Disjoint(c) => Disjoint(CacheSet(c, k, v))
           /\ Disjoint(c) => Disjoint(CacheDelete(c, k))
<1>1. CacheSet(c, k, v) \in Cache
  BY DEF Cache, Content, CacheSet
<1>2. CacheDelete(c, k) \in Cache
  BY DEF Cache, Content, CacheDelete
<1>3. Disjoint(c) => Disjoint(CacheSet(c, k, v))
  BY DEF Cache, Content, CacheSet, Disjoint, Present
<1>4. Disjoint(c) => Disjoint(CacheDelete(c, k))
  BY DEF Cache, Content, CacheDelete, Disjoint, Present
<1> QED
  BY <1>1, <1>2, <1>3, <1>4

\* A cache read over a map is a map.
LEMMA OverlayType ==
    ASSUME NEW c \in Cache, NEW m \in Content
    PROVE  Overlay(c, m) \in Content
  BY DEF Overlay, Cache, Content

(***************************************************************************)
(* Pouring src into dst with the sets first (upgrade_cache,                *)
(* append_block_cache, consume_block_cache) reads exactly as src over dst. *)
(***************************************************************************)
LEMMA SetsThenDeletesFacts ==
    ASSUME NEW dst \in Cache, NEW src \in Cache
    PROVE  /\ SetsThenDeletes(dst, src) \in Cache
           /\ Disjoint(dst) /\ Disjoint(src) => Disjoint(SetsThenDeletes(dst, src))
           /\ \A m \in Content :
                Overlay(SetsThenDeletes(dst, src), m) = Overlay(src, Overlay(dst, m))
<1> DEFINE r == SetsThenDeletes(dst, src)
<1>1. r \in Cache
  BY DEF SetsThenDeletes, Cache, Content, Present
<1>2. Disjoint(dst) /\ Disjoint(src) => Disjoint(r)
  BY DEF SetsThenDeletes, Cache, Content, Present, Disjoint
<1>3. ASSUME NEW m \in Content
      PROVE  Overlay(r, m) = Overlay(src, Overlay(dst, m))
  BY DEF SetsThenDeletes, Overlay, Cache, Content, Present
<1> QED
  BY <1>1, <1>2, <1>3

(***************************************************************************)
(* Pouring with the deletes first (take_block_cache) reads the same,       *)
(* provided src is disjoint: the two loops of the code are interchangeable *)
(* only because caches are.                                                *)
(***************************************************************************)
LEMMA DeletesThenSetsFacts ==
    ASSUME NEW dst \in Cache, NEW src \in Cache
    PROVE  /\ DeletesThenSets(dst, src) \in Cache
           /\ Disjoint(dst) /\ Disjoint(src) => Disjoint(DeletesThenSets(dst, src))
           /\ Disjoint(src) =>
                \A m \in Content :
                  Overlay(DeletesThenSets(dst, src), m) = Overlay(src, Overlay(dst, m))
<1> DEFINE r == DeletesThenSets(dst, src)
<1>1. r \in Cache
  BY DEF DeletesThenSets, Cache, Content, Present
<1>2. Disjoint(dst) /\ Disjoint(src) => Disjoint(r)
  BY DEF DeletesThenSets, Cache, Content, Present, Disjoint
<1>3. ASSUME Disjoint(src), NEW m \in Content
      PROVE  Overlay(r, m) = Overlay(src, Overlay(dst, m))
  BY <1>3 DEF DeletesThenSets, Overlay, Cache, Content, Present, Disjoint
<1> QED
  BY <1>1, <1>2, <1>3

(***************************************************************************)
(* The tree after a commit holds what was read through the cache, except   *)
(* for at most one key, and that only when the cache deletes every key the *)
(* tree held (Tree::remove cannot cut the last leaf).                      *)
(***************************************************************************)
LEMMA CommitTreeFacts ==
    ASSUME NEW tree \in Content, NEW c \in Cache
    PROVE  /\ CommitTree(tree, c) \in Content
           /\ \/ CommitTree(tree, c) = Overlay(c, tree)
              \/ \E k \in Present(tree) \cap c.delete :
                   /\ Present(tree) \subseteq c.delete
                   /\ CommitTree(tree, c) = [Overlay(c, tree) EXCEPT ![k] = tree[k]]
<1> DEFINE o == Overlay(c, tree)
<1>0. o \in Content
  BY OverlayType
<1>1. CommitTree(tree, c) \in Content
  BY <1>0 DEF CommitTree, Content
<1>2. CASE LastLeaf(tree, c) = {}
  BY <1>0, <1>1, <1>2 DEF CommitTree, Content
<1>3. CASE LastLeaf(tree, c) # {}
  <2>1. PICK k \in LastLeaf(tree, c) : TRUE
    BY <1>3
  <2>2. /\ k \in Present(tree) \cap c.delete
        /\ HeldAt(tree, c, k) = {k}
    BY <2>1 DEF LastLeaf
  <2>3. k \in Nat /\ Key \subseteq Nat
    BY <2>2, KeyAssumption DEF Present
  <2>4. Present(tree) \subseteq c.delete
    BY <2>2 DEF HeldAt, Present
  <2>5. LastLeaf(tree, c) = {k}
    <3> SUFFICES ASSUME NEW j \in LastLeaf(tree, c), j # k PROVE FALSE
      BY <2>1
    <3>1. /\ j \in Present(tree) \cap c.delete
          /\ HeldAt(tree, c, j) = {j}
      BY DEF LastLeaf
    <3>2. j \in Nat
      BY <3>1, KeyAssumption DEF Present
    <3>3. j \notin HeldAt(tree, c, k) /\ k \notin HeldAt(tree, c, j)
      BY <2>2, <3>1
    <3>4. j < k /\ k < j
      BY <2>2, <3>1, <3>3 DEF HeldAt, Present
    <3> QED
      BY <2>3, <3>2, <3>4
  <2>6. CommitTree(tree, c) = [o EXCEPT ![k] = tree[k]]
    BY <1>0, <2>5 DEF CommitTree, Content
  <2> QED
    BY <1>1, <2>2, <2>4, <2>6
<1> QED
  BY <1>1, <1>2, <1>3
=============================================================================
