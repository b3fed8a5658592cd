----------------------------- MODULE MerkleTree -----------------------------
(***************************************************************************)
(* How membership-tree computes its roots.  MembershipTree takes a root to *)
(* be the tree itself; here the root is the hash that insert_leaf and      *)
(* update_leaf compute along one path from what is stored: the leaves, the *)
(* inner nodes and the cache FilledSubtrees.  A node the code never wrote  *)
(* stands for an empty subtree.                                            *)
(*                                                                         *)
(* The hash is free: HashPair is injective, and a leaf hash (of LEAF_DOMAIN*)
(* and the leaf) is no inner node.                                         *)
(***************************************************************************)
EXTENDS Integers, Sequences

CONSTANTS
  Depth,       \* TreeDepth of the DAO
  Commitments, \* the leaves that are inserted
  Zero         \* the empty leaf

ASSUME MerkleAssumption ==
  /\ Depth \in Nat \ {0}
  /\ Zero \notin Commitments

VARIABLES
  leafValue,     \* LeafValue: a partial map from indices
  nextLeafIndex, \* NextLeafIndex
  nodeHash,      \* NodeHash: a partial map from <<level, index>>
  filled,        \* FilledSubtrees: the cached left siblings of each level
  root           \* the root published last

merkleVars == <<leafValue, nextLeafIndex, nodeHash, filled, root>>

HashPair(l, r) == <<l, r>>
HashLeaf(v) == HashPair("LEAF_DOMAIN", v)

\* zero_at_level: the hash of an empty subtree
Zeros == LET z[l \in 0 .. Depth] ==
               IF l = 0 THEN HashLeaf(Zero) ELSE HashPair(z[l - 1], z[l - 1])
         IN  z

\* How many leaves are below a node of some level
Width ==
  LET w[l \in 0 .. Depth] == IF l = 0 THEN 1 ELSE 2 * w[l - 1]
  IN  w

\* current_index, level by level: the nodes on the path of leaf i
Ancestors(i) ==
  LET a[l \in 0 .. Depth] == IF l = 0 THEN i ELSE a[l - 1] \div 2
  IN  a

IsLeft(x) == x % 2 = 0
Sibling(x) == IF IsLeft(x) THEN x + 1 ELSE x - 1

\* A stored node, or `absent` when nothing was written there
Stored(level, x, absent) ==
  IF level = 0
    THEN IF x \in DOMAIN leafValue THEN HashLeaf(leafValue[x]) ELSE absent
    ELSE IF <<level, x>> \in DOMAIN nodeHash THEN nodeHash[<<level, x>>] ELSE absent

\* current_hash, level by level: the hashes on the path of leaf i, given the
\* leaf and the sibling at each level
PathHashes(i, v, sibling) ==
  LET h[l \in 0 .. Depth] ==
        IF l = 0 THEN HashLeaf(v)
        ELSE IF IsLeft(Ancestors(i)[l - 1])
               THEN HashPair(h[l - 1], sibling[l - 1])
               ELSE HashPair(sibling[l - 1], h[l - 1])
  IN  h

\* NodeHash after the inner nodes of a path, from some level on, were stored
StoreFrom(first, i, h) ==
  LET path == {<<l, Ancestors(i)[l]>> : l \in first .. Depth}
  IN  [n \in path \cup DOMAIN nodeHash |-> IF n \in path THEN h[n[1]] ELSE nodeHash[n]]

\* Mutant: the nodes of the first inner level are not stored
StorePathAboveFirst(i, h) == StoreFrom(2, i, h)

StorePath(i, h) == StoreFrom(1, i, h)

\* init_tree
Init ==
  /\ leafValue = <<>>
  /\ nextLeafIndex = 0
  /\ nodeHash = <<>>
  /\ filled = [l \in 0 .. Depth - 1 |-> Zeros[l]]
  /\ root = Zeros[Depth]

\* Mutant: the left sibling is read straight from the cache
LeftSiblingFromCache(level, x) == filled[level]

\* The left sibling that insert_leaf hashes a right child with
LeftSibling(level, x) == Stored(level, x, filled[level])

\* The tree is not full
SlotFree == nextLeafIndex < Width[Depth]

\* insert_leaf, with the LeafValue and NextLeafIndex that its callers store.
\* The path of the first leaf writes no cache entry but that of its own level.
InsertLeaf(v) ==
  LET i == nextLeafIndex
      Node(l) == Ancestors(i)[l]
      h == PathHashes(i, v, [l \in 0 .. Depth - 1 |->
             IF IsLeft(Node(l)) THEN Zeros[l] ELSE LeftSibling(l, Node(l) - 1)])
  IN  /\ SlotFree
      /\ leafValue' = [x \in 0 .. i |-> IF x = i THEN v ELSE leafValue[x]]
      /\ nextLeafIndex' = i + 1
      /\ nodeHash' = StorePath(i, h)
      /\ filled' = [l \in 0 .. Depth - 1 |->
           CASE i = 0 /\ l > 0 -> filled[l]
             [] ~IsLeft(Node(l)) -> LeftSibling(l, Node(l) - 1)
             [] OTHER -> h[l]]
      /\ root' = h[Depth]

\* get_merkle_path: the siblings on the path of leaf i
MerklePath(i) ==
  [l \in 0 .. Depth - 1 |-> Stored(l, Sibling(Ancestors(i)[l]), Zeros[l])]

\* update_leaf: remove_member, its only caller, writes Zero.  The siblings of
\* the path are those that get_merkle_path reads.
UpdateLeaf(i, v) ==
  LET h == PathHashes(i, v, MerklePath(i))
  IN  /\ i \in DOMAIN leafValue
      /\ leafValue' = [leafValue EXCEPT ![i] = v]
      /\ nodeHash' = StorePath(i, h)
      /\ filled' = [l \in 0 .. Depth - 1 |->
           IF IsLeft(Ancestors(i)[l]) THEN h[l] ELSE filled[l]]
      /\ root' = h[Depth]
      /\ UNCHANGED nextLeafIndex

Next ==
  \/ \E c \in Commitments : InsertLeaf(c)
  \/ \E i \in DOMAIN leafValue : leafValue[i] # Zero /\ UpdateLeaf(i, Zero)

Spec == Init /\ [][Next]_merkleVars

-----------------------------------------------------------------------------
(* Properties *)

\* The leaves of the whole tree, which MembershipTree takes for its root
Tree == [x \in 0 .. Width[Depth] - 1 |-> IF x < nextLeafIndex THEN leafValue[x] ELSE Zero]

\* The reference: a tree hashed from its leaves, level by level
LeafHashes(tree) == [x \in 0 .. Width[Depth] - 1 |-> HashLeaf(tree[x])]
Joined(l, nodes) ==
  [x \in 0 .. Width[Depth - l] - 1 |-> HashPair(nodes[2 * x], nodes[2 * x + 1])]
NodesOver(tree) ==
  LET n[l \in 0 .. Depth] ==
        IF l = 0 THEN LeafHashes(tree) ELSE Joined(l, n[l - 1])
  IN  n

ReferenceNodes == NodesOver(Tree)

\* Whatever was inserted and removed in whatever order, the root published is
\* the root of the tree of the stored leaves, so MembershipTree may identify
\* the two, and no stored inner node is stale ("NodeHash/LeafValue is the
\* source of truth").
RootIsReference ==
  /\ root = ReferenceNodes[Depth][0]
  /\ \A n \in DOMAIN nodeHash : nodeHash[n] = ReferenceNodes[n[1]][n[2]]

\* Every leaf can prove itself: the path that get_merkle_path hands out for it
\* leads to the root published last.
PathsReproduceRoot ==
  \A i \in DOMAIN leafValue :
    PathHashes(i, leafValue[i], MerklePath(i))[Depth] = root
=============================================================================
