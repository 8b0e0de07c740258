-------------------------------- MODULE IAVL --------------------------------
(***************************************************************************)
(* The versioned, self-balancing Merkle tree behind every store            *)
(* (trees/src/iavl): a working tree held in memory, whose nodes load their *)
(* children from the node database on demand, and the database of the      *)
(* nodes and root hashes of every saved version.                           *)
(*                                                                         *)
(* An inner node keeps its children in `kid` (Nil: "same as in the DB")    *)
(* and their hashes in `hash`, by side.  A hash is the record of what is   *)
(* hashed, so hashes are equal exactly when the hashed data are: SHA-256   *)
(* is taken to be free of collisions.  A panic of the code (rotating a     *)
(* leaf, a node missing from the database) is an evaluation error here.    *)
(***************************************************************************)
EXTENDS Integers, FiniteSets, Sequences, SequencesExt, Functions

CONSTANTS Key, Val, None,
          Sizes  \* bounds of the instances explored: the keys used, how many
                 \* versions are saved, how many saves are cut short

ASSUME IAVLAssumption ==
    /\ Key \subseteq Nat /\ None \notin Val
    /\ Sizes \subseteq [keys : SUBSET Key, versions : Nat, crashes : Nat]

VARIABLES root,      \* Tree.root, Nil when the tree is empty
          nodes,     \* NodeDB: hash -> node, the children unloaded
          roots,     \* NodeDB: version -> root hash
          loaded,    \* Tree.loaded_version
          content,   \* ghost: the map the working tree stands for
          saved,     \* ghost: that map when each version was saved
          crashes,   \* crashes so far
          size       \* of the instance

vars == <<root, nodes, roots, loaded, content, saved, crashes, size>>

-----------------------------------------------------------------------------
(* Nodes.                                                                  *)

Side == {"L", "R"}
Opposite(s) == IF s = "L" THEN "R" ELSE "L"

Nil == [kind |-> "nil"]
EmptyHash == [kind |-> "empty"]
NoKids == [s \in Side |-> Nil]

Leaf(k, v, ver) == [kind |-> "leaf", key |-> k, value |-> v, version |-> ver]

IsLeaf(n) == n.kind = "leaf"

Height(n) == IF IsLeaf(n) THEN 0 ELSE n.height
Size(n) == IF IsLeaf(n) THEN 1 ELSE n.size

\* Node::hash_serialize: the key of an inner node is not hashed.
Hash(n) ==
    IF IsLeaf(n) THEN n
    ELSE [kind |-> "inner", height |-> n.height, size |-> n.size,
          version |-> n.version, hash |-> n.hash]

ShallowClone(n) == IF IsLeaf(n) THEN n ELSE [n EXCEPT !.kid = NoKids]

\* A child, loaded from the database when it is not in memory.
Kid(db, n, s) == IF n.kid[s] # Nil THEN n.kid[s] ELSE db[n.hash[s]]

BalanceFactor(db, n) ==
    IF IsLeaf(n) THEN 0 ELSE Height(Kid(db, n, "L")) - Height(Kid(db, n, "R"))

Taller(a, b) == IF Height(a) >= Height(b) THEN Height(a) ELSE Height(b)

UpdateHeightAndSize(db, n) ==
    LET l == Kid(db, n, "L")
        r == Kid(db, n, "R")
    IN [n EXCEPT !.height = 1 + Taller(l, r), !.size = Size(l) + Size(r)]

\* Put c below n on side s, with its hash.
WithKid(n, s, c) == [n EXCEPT !.kid[s] = c, !.hash[s] = Hash(c)]

(***************************************************************************)
(* Node::right_rotate (s = "R") and left_rotate (s = "L"): the child y     *)
(* opposite to s rises above z, and y's child on side s moves to z.        *)
(***************************************************************************)
Rotate(db, z, s, ver) ==
    LET y == Kid(db, z, Opposite(s))
        z1 == [z EXCEPT !.kid[Opposite(s)] = y.kid[s], !.hash[Opposite(s)] = y.hash[s]]
        z2 == [UpdateHeightAndSize(db, z1) EXCEPT !.version = ver]
    IN [UpdateHeightAndSize(db, WithKid(y, s, z2)) EXCEPT !.version = ver]

\* The child on side s is rotated away from n first, then n towards the other side.
RotateTwice(db, n, s, ver) ==
    LET c == Rotate(db, Kid(db, n, s), s, ver)
    IN Rotate(db, [n EXCEPT !.kid[s] = c], Opposite(s), ver)

-----------------------------------------------------------------------------
(* Tree::get.                                                              *)

RECURSIVE GetIn(_, _, _)
GetIn(db, n, k) ==
    IF IsLeaf(n) THEN (IF n.key = k THEN n.value ELSE None)
    ELSE GetIn(db, Kid(db, n, IF k < n.key THEN "L" ELSE "R"), k)

Get(db, n, k) == IF n = Nil THEN None ELSE GetIn(db, n, k)

(***************************************************************************)
(* Tree::recursive_set.  Which of the four cases of rebalancing applies is *)
(* decided by comparing the new key with the key of the taller child.      *)
(***************************************************************************)
\* Mutated form of SetBalance: only single rotations.
SetBalanceSingle(db, n, k, ver) ==
    IF BalanceFactor(db, n) > 1 THEN Rotate(db, n, "R", ver)
    ELSE IF BalanceFactor(db, n) < -1 THEN Rotate(db, n, "L", ver)
    ELSE n

SetBalance(db, n, k, ver) ==
    IF BalanceFactor(db, n) > 1
    THEN IF k < Kid(db, n, "L").key THEN Rotate(db, n, "R", ver)
                                    ELSE RotateTwice(db, n, "L", ver)
    ELSE IF BalanceFactor(db, n) < -1
    THEN IF k > Kid(db, n, "R").key THEN Rotate(db, n, "L", ver)
                                    ELSE RotateTwice(db, n, "R", ver)
    ELSE n

\* A leaf grows into an inner node whose key is that of the right leaf.
Split(l, r, ver) ==
    [kind |-> "inner", key |-> r.key, height |-> 1, size |-> 2, version |-> ver,
     hash |-> [s \in Side |-> Hash(IF s = "L" THEN l ELSE r)],
     kid |-> [s \in Side |-> IF s = "L" THEN l ELSE r]]

RECURSIVE RecursiveSet(_, _, _, _, _)
RecursiveSet(db, n, k, v, ver) ==
    IF IsLeaf(n)
    THEN IF k < n.key THEN Split(Leaf(k, v, ver), n, ver)
         ELSE IF k > n.key THEN Split(n, Leaf(k, v, ver), ver)
         ELSE Leaf(k, v, ver)
    ELSE LET s == IF k < n.key THEN "L" ELSE "R"
             m == WithKid(n, s, RecursiveSet(db, Kid(db, n, s), k, v, ver))
         IN SetBalance(db, [UpdateHeightAndSize(db, m) EXCEPT !.version = ver], k, ver)

(***************************************************************************)
(* Tree::remove.  The answer of recursive_remove: whether the key was      *)
(* found, the new node, whether it was a leaf and was cut, and the new     *)
(* leftmost key of the subtree when it changed (None when not).            *)
(***************************************************************************)
\* update_height_and_size_and_balance.
Rebalance(db, n, ver) ==
    LET m == UpdateHeightAndSize(db, n)
    IN CASE BalanceFactor(db, m) = -2 ->
              IF BalanceFactor(db, Kid(db, m, "R")) <= 0
              THEN Rotate(db, m, "L", ver) ELSE RotateTwice(db, m, "R", ver)
         [] BalanceFactor(db, m) = 2 ->
              IF BalanceFactor(db, Kid(db, m, "L")) >= 0
              THEN Rotate(db, m, "R", ver) ELSE RotateTwice(db, m, "L", ver)
         [] BalanceFactor(db, m) \in -1 .. 1 -> m

RECURSIVE LeftmostLeafKey(_, _)
LeftmostLeafKey(db, n) == IF IsLeaf(n) THEN n.key ELSE LeftmostLeafKey(db, Kid(db, n, "L"))

NotFound(n) == [found |-> FALSE, node |-> n, cut |-> FALSE, leftmost |-> None]

\* Mutated form of NewKey: the routing key is left as it was.
OldKey(n, s, r) == n.key

\* The key of an inner node once side s answered r.
NewKey(n, s, r) == IF s = "R" /\ r.leftmost # None THEN r.leftmost ELSE n.key

RECURSIVE RecursiveRemove(_, _, _, _)
RecursiveRemove(db, n, k, ver) ==
    IF IsLeaf(n)
    THEN IF n.key = k THEN [NotFound(n) EXCEPT !.found = TRUE, !.cut = TRUE]
                      ELSE NotFound(n)
    ELSE LET s == IF k < n.key THEN "L" ELSE "R"
             r == RecursiveRemove(db, Kid(db, n, s), k, ver)
             other == Kid(db, n, Opposite(s))
         IN IF ~r.found THEN NotFound([n EXCEPT !.kid[s] = r.node])
            ELSE IF r.cut
            THEN [found |-> TRUE, node |-> other, cut |-> FALSE,
                  leftmost |-> IF s = "L" THEN LeftmostLeafKey(db, other) ELSE None]
            ELSE [found |-> TRUE, cut |-> FALSE,
                  node |-> Rebalance(db, [WithKid(n, s, r.node) EXCEPT
                                            !.version = ver, !.key = NewKey(n, s, r)], ver),
                  leftmost |-> IF s = "L" THEN r.leftmost ELSE None]

-----------------------------------------------------------------------------
(* Range::traverse and traverse_rev over the whole tree or a part of it:   *)
(* a stack of delayed nodes.  lo is included and hi excluded.              *)

RECURSIVE Traverse(_, _, _, _, _)
Traverse(db, stack, lo, hi, rev) ==
    IF stack = <<>> THEN <<>>
    ELSE LET n == Last(stack)
             rest == Front(stack)
             push(s, ok) == IF ok THEN <<Kid(db, n, s)>> ELSE <<>>
         IN IF IsLeaf(n)
            THEN (IF lo <= n.key /\ n.key < hi THEN <<<<n.key, n.value>>>> ELSE <<>>)
                    \o Traverse(db, rest, lo, hi, rev)
            ELSE Traverse(db,
                   rest \o (IF rev THEN push("L", n.key >= lo) \o push("R", n.key < hi)
                                   ELSE push("R", n.key < hi) \o push("L", n.key >= lo)),
                   lo, hi, rev)

\* Mutated form of TreeRange: both directions share the order of the stack.
RangeForward(db, n, lo, hi, rev) ==
    Traverse(db, IF n = Nil THEN <<>> ELSE <<n>>, lo, hi, FALSE)

TreeRange(db, n, lo, hi, rev) == Traverse(db, IF n = Nil THEN <<>> ELSE <<n>>, lo, hi, rev)

-----------------------------------------------------------------------------
(* Saving: recursive_tree_save writes the nodes in memory, children first. *)

RECURSIVE PostOrder(_)
PostOrder(n) ==
    IF n = Nil THEN <<>>
    ELSE IF IsLeaf(n) THEN <<n>>
    ELSE PostOrder(n.kid["L"]) \o PostOrder(n.kid["R"]) \o <<n>>

\* The database after the first i of those writes.
Written(db, n, i) ==
    LET batch == {PostOrder(n)[j] : j \in 1 .. i}
        fresh == {Hash(m) : m \in batch}
    IN [h \in DOMAIN db \cup fresh |->
          IF h \in fresh THEN ShallowClone(CHOOSE m \in batch : Hash(m) = h) ELSE db[h]]

RootHash(n) == IF n = Nil THEN EmptyHash ELSE Hash(n)

\* NodeDB::get_root_node.
RootAt(v) == IF roots[v] = EmptyHash THEN Nil ELSE nodes[roots[v]]

Unload(n) == IF n = Nil THEN Nil ELSE ShallowClone(n)

-----------------------------------------------------------------------------
(* The operations of Tree.                                                 *)

Working == loaded + 1

SetKey(k, v) ==
    /\ root' = IF root = Nil THEN Leaf(k, v, Working)
               ELSE RecursiveSet(nodes, root, k, v, Working)
    /\ content' = [content EXCEPT ![k] = v]
    /\ UNCHANGED <<nodes, roots, loaded, saved, crashes, size>>

\* At the root the answer "the leaf was cut" is dropped, and the leaf stays.
RemoveKey(k) ==
    /\ root # Nil
    /\ root' = RecursiveRemove(nodes, root, k, Working).node
    /\ content' = IF {j \in Key : content[j] # None} = {k} THEN content
                  ELSE [content EXCEPT ![k] = None]
    /\ UNCHANGED <<nodes, roots, loaded, saved, crashes, size>>

\* Mutated form of MayOverwrite: the saved root is not looked at.
AlwaysOverwrite == TRUE

\* save_version writes only a version that does not exist yet.
MayOverwrite == Working \notin DOMAIN roots

SaveVersion ==
    /\ Working <= size.versions
    /\ MayOverwrite
    /\ nodes' = Written(nodes, root, Len(PostOrder(root)))
    /\ roots' = [v \in DOMAIN roots \cup {Working} |->
                   IF v = Working THEN RootHash(root) ELSE roots[v]]
    /\ root' = Unload(root)
    /\ loaded' = Working
    /\ saved' = [v \in DOMAIN saved \cup {Working} |->
                   IF v \in DOMAIN saved THEN saved[v] ELSE content]
    /\ UNCHANGED <<content, crashes, size>>

\* Saving again what the version already holds only moves on; anything else
\* is Error::Overwrite and changes nothing.
SaveAgain ==
    /\ Working \in DOMAIN roots
    /\ roots[Working] = RootHash(root)
    /\ loaded' = Working
    /\ root' = Unload(root)
    /\ UNCHANGED <<nodes, roots, content, saved, crashes, size>>

\* Tree::new at a version, on a database that has it.
Load(v) ==
    /\ root' = RootAt(v)
    /\ loaded' = v
    /\ content' = saved[v]
    /\ UNCHANGED <<nodes, roots, saved, crashes, size>>

(***************************************************************************)
(* The process dies while saving: some of the nodes are in the database,   *)
(* the root hash of the version is not.  Tree::new then opens the latest   *)
(* version.                                                                *)
(***************************************************************************)
Latest == IF DOMAIN roots = {} THEN 0 ELSE CHOOSE v \in DOMAIN roots : \A u \in DOMAIN roots : u <= v

CrashInSave ==
    /\ crashes < size.crashes
    /\ crashes' = crashes + 1
    /\ Working <= size.versions
    /\ MayOverwrite
    /\ \E i \in 0 .. Len(PostOrder(root)) : nodes' = Written(nodes, root, i)
    /\ root' = IF Latest = 0 THEN Nil ELSE RootAt(Latest)
    /\ loaded' = Latest
    /\ content' = IF Latest = 0 THEN [k \in Key |-> None] ELSE saved[Latest]
    /\ UNCHANGED <<roots, saved, size>>

Init ==
    /\ root = Nil
    /\ nodes = <<>>
    /\ roots = <<>>
    /\ loaded = 0
    /\ content = [k \in Key |-> None]
    /\ saved = <<>>
    /\ crashes = 0
    /\ size \in Sizes

Next ==
    \/ \E k \in size.keys, v \in Val : SetKey(k, v)
    \/ \E k \in size.keys : RemoveKey(k)
    \/ SaveVersion
    \/ SaveAgain
    \/ \E v \in DOMAIN roots : Load(v)
    \/ CrashInSave

Spec == Init /\ [][Next]_vars

-----------------------------------------------------------------------------
(* Properties.                                                             *)

(***************************************************************************)
(* What the tests of tree.rs check on examples (is_consistent), in every   *)
(* reachable tree: the hashes match the children, heights and sizes are    *)
(* right, no subtree is out of balance, and the key of an inner node       *)
(* separates its children.                                                 *)
(***************************************************************************)
RECURSIVE ConsistentNode(_)
ConsistentNode(n) ==
    IsLeaf(n) \/
        LET l == Kid(nodes, n, "L")
            r == Kid(nodes, n, "R")
        IN /\ n.hash["L"] = Hash(l) /\ n.hash["R"] = Hash(r)
           /\ n.height = 1 + Taller(l, r) /\ n.size = Size(l) + Size(r)
           /\ BalanceFactor(nodes, n) \in -1 .. 1
           /\ n.key = LeftmostLeafKey(nodes, r)
           /\ ConsistentNode(l) /\ ConsistentNode(r)

Consistent == root # Nil => ConsistentNode(root)

Pairs(m, lo, hi) == {<<k, m[k]>> : k \in {j \in Key : m[j] # None /\ lo <= j /\ j < hi}}

\* list has exactly these pairs, by increasing key.
Lists(list, pairs) ==
    /\ ToSet(list) = pairs
    /\ \A i \in 1 .. Len(list) - 1 : list[i][1] < list[i + 1][1]

(***************************************************************************)
(* A range over the working tree, forwards or backwards, yields exactly    *)
(* the pairs within its bounds, in order.                                  *)
(***************************************************************************)
RangeYieldsContent ==
    \A lo \in size.keys, hi \in {k + 1 : k \in size.keys} :
        /\ Lists(TreeRange(nodes, root, lo, hi, FALSE), Pairs(content, lo, hi))
        /\ Lists(Reverse(TreeRange(nodes, root, lo, hi, TRUE)), Pairs(content, lo, hi))

(***************************************************************************)
(* Every saved version stays queryable and unchanged (QueryTree): all of   *)
(* its nodes are in the database and it holds what it held when it was     *)
(* saved, whatever is saved, loaded or half saved afterwards.              *)
(***************************************************************************)
VersionsImmutable ==
    \A v \in DOMAIN roots : \A k \in Key : Get(nodes, RootAt(v), k) = saved[v][k]

(***************************************************************************)
(* The database finds a node by its hash, although the key of an inner     *)
(* node is not hashed: two nodes saved or in memory with the same hash are *)
(* the same node.                                                          *)
(***************************************************************************)
HashDeterminesNode ==
    \A i \in 1 .. Len(PostOrder(root)) :
        LET n == PostOrder(root)[i]
        IN Hash(n) \in DOMAIN nodes => nodes[Hash(n)] = ShallowClone(n)

TypeOK ==
    /\ content \in [Key -> Val \cup {None}]
    /\ loaded \in 0 .. size.versions
    /\ DOMAIN roots = 1 .. Cardinality(DOMAIN roots)
    /\ DOMAIN saved = DOMAIN roots
    /\ \A v \in DOMAIN roots : roots[v] = EmptyHash \/ roots[v] \in DOMAIN nodes
=============================================================================
