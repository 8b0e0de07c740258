------------------------------ MODULE MCKVBank ------------------------------
(***************************************************************************)
(* Instance of KVBank for TLC.                                             *)
(***************************************************************************)
EXTENDS KVBank

\* The closed form of ApplicationKVBank::commit that the other modules and the
\* proofs use is what the loop over the sorted cache computes, for every tree
\* and every cache: also where the tree keeps its last leaf.
ASSUME CommitTreeIsLoop ==
    \A t \in Content, c \in Cache :
        (\A k \in c.delete : c.storage[k] = None) => CommitTree(t, c) = CommitLoop(t, c)
=============================================================================
