------------------------------ MODULE KVCache ------------------------------
(***************************************************************************)
(* The write cache every store of gears is built on                        *)
(* (kv_store/src/cache.rs) and the loops that pour one cache into another. *)
(* A map from keys to optional values is a function Key -> Val \cup {None};*)
(* a cache is the pair of inserted values and of deletion marks.           *)
(***************************************************************************)
EXTENDS Integers

CONSTANTS Key,   \* keys, ordered as the bytes they stand for
          Val,   \* values
          None   \* "no value": Option::None

ASSUME KeyAssumption == Key \subseteq Nat
ASSUME NoneAssumption == None \notin Val

\* What a map (a BTreeMap, an IAVL tree, a store as a whole) holds.
Content == [Key -> Val \cup {None}]

Empty == [k \in Key |-> None]

\* The keys a map holds.
Present(m) == {k \in Key : m[k] # None}

Cache == [storage : Content, delete : SUBSET Key]

EmptyCache == [storage |-> Empty, delete |-> {}]

\* Mutated form of CacheDelete: the inserted value is forgotten.
CacheDeleteKeepsInsert(c, k) == [c EXCEPT !.delete = @ \cup {k}]

CacheDelete(c, k) ==
    [storage |-> [c.storage EXCEPT ![k] = None], delete |-> c.delete \cup {k}]

CacheSet(c, k, v) ==
    [storage |-> [c.storage EXCEPT ![k] = v], delete |-> c.delete \ {k}]

(***************************************************************************)
(* A cache read over what lies below it: a deletion mark hides the key, a  *)
(* stored value wins, anything else falls through.                         *)
(***************************************************************************)
Overlay(c, below) ==
    [k \in Key |->
        IF k \in c.delete THEN None
        ELSE IF c.storage[k] # None THEN c.storage[k] ELSE below[k]]

(***************************************************************************)
(* The two loops that pour the content of src into dst.  upgrade_cache,    *)
(* append_block_cache and consume_block_cache first set every stored value *)
(* and then delete every marked key; take_block_cache of ApplicationState  *)
(* deletes first and sets afterwards.                                      *)
(***************************************************************************)
\* Mutated form: the second loop is missing.
SetsOnly(dst, src) ==
    [storage |-> [k \in Key |-> IF src.storage[k] # None THEN src.storage[k]
                               ELSE dst.storage[k]],
     delete  |-> dst.delete \ Present(src.storage)]

SetsThenDeletes(dst, src) ==
    [storage |-> [k \in Key |->
                    IF k \in src.delete THEN None
                    ELSE IF src.storage[k] # None THEN src.storage[k]
                    ELSE dst.storage[k]],
     delete  |-> (dst.delete \ Present(src.storage)) \cup src.delete]

DeletesThenSets(dst, src) ==
    [storage |-> [k \in Key |->
                    IF src.storage[k] # None THEN src.storage[k]
                    ELSE IF k \in src.delete THEN None
                    ELSE dst.storage[k]],
     delete  |-> (dst.delete \cup src.delete) \ Present(src.storage)]

\* No key is both stored and marked as deleted.
Disjoint(c) == c.delete \cap Present(c.storage) = {}

(***************************************************************************)
(* ApplicationKVBank::commit applies the cache to the IAVL tree in key     *)
(* order: a set for every stored value, a remove for every deletion mark,  *)
(* the mark winning.  Tree::remove ignores the "leaf was cut" answer of    *)
(* recursive_remove at the root, so a tree that is down to one leaf keeps  *)
(* it.  The keys the tree still holds when the turn of k comes:            *)
(***************************************************************************)
HeldAt(tree, c, k) ==
    {j \in Key : \/ j \in Present(tree) /\ ~(j \in c.delete /\ j < k)
                 \/ j \in Present(c.storage) \ c.delete /\ j < k}

\* The key, if any, whose removal is lost because it is the last leaf.
LastLeaf(tree, c) == {k \in c.delete \cap Present(tree) : HeldAt(tree, c, k) = {k}}

CommitTree(tree, c) ==
    [k \in Key |-> IF k \in LastLeaf(tree, c) THEN tree[k] ELSE Overlay(c, tree)[k]]
=============================================================================
