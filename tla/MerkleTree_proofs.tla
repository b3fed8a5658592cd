-------------------------- MODULE MerkleTree_proofs --------------------------
(***************************************************************************)
(* Whatever the depth and the order of insertions and removals, the root   *)
(* computed along one path is the root of the whole tree, no stored node   *)
(* is stale, and every leaf has a path that proves it.  Trees with one     *)
(* root are one tree, so MembershipTree may take the one for the other.    *)
(*                                                                         *)
(* Paths, nodes and widths are recursive functions of the level.  What     *)
(* they compute is proved by induction on levels, stated with sets.        *)
(***************************************************************************)
EXTENDS MerkleTree, NaturalsInduction, WellFoundedInduction, TLAPS

Levels == 0 .. Depth
Below == 0 .. Depth - 1

\* What is true of the leaves, and of a level once it is of the level below it,
\* is true of all levels.
LEMMA LevelInduction ==
  ASSUME NEW S, 0 \in S, \A l \in Below : l \in S => l + 1 \in S
  PROVE  \A l \in Levels : l \in S
<1> DEFINE R == {ss \in Nat \X Nat : ss[1] < ss[2]}
          bad == {l \in Levels : l \notin S}
<1>1. IsWellFoundedOn(R, Nat)
  BY NatLessThanWellFounded DEF OpToRel
<1>2. bad \subseteq Nat
  BY MerkleAssumption DEF Levels
<1>3. SUFFICES ASSUME bad # {} PROVE FALSE
  OBVIOUS
<1>4. PICK l \in bad : \A k \in bad : <<k, l>> \notin R
  <2> HIDE DEF R, bad
  <2> QED BY <1>1, <1>2, <1>3, WFMin, Zenon
<1>5. l \in Levels /\ l # 0 /\ l \notin S
  OBVIOUS
<1>6. l - 1 \in Below /\ (l - 1) + 1 = l
  BY <1>5, MerkleAssumption DEF Levels, Below
<1>7. l - 1 \in bad
  BY <1>5, <1>6, MerkleAssumption DEF Levels, Below
<1>8. <<l - 1, l>> \in R
  BY <1>5, <1>6, MerkleAssumption DEF Levels, Below
<1> QED BY <1>4, <1>7, <1>8

-----------------------------------------------------------------------------
(* The recursive functions: each exists up to every level, so its equations *)
(* hold                                                                     *)

\* The hashes of empty subtrees.
IsZeros(n, z) ==
  z = [l \in 0 .. n |->
         IF l = 0 THEN HashLeaf(Zero) ELSE HashPair(z[l - 1], z[l - 1])]

LEMMA ZerosAt ==
  ASSUME NEW n, NEW z, IsZeros(n, z)
  PROVE  \A l \in 0 .. n :
           z[l] = IF l = 0 THEN HashLeaf(Zero) ELSE HashPair(z[l - 1], z[l - 1])
<1> DEFINE r == [l \in 0 .. n |->
                   IF l = 0 THEN HashLeaf(Zero) ELSE HashPair(z[l - 1], z[l - 1])]
<1>1. z = r
  BY DEF IsZeros
<1>2. \A l \in 0 .. n :
        r[l] = IF l = 0 THEN HashLeaf(Zero) ELSE HashPair(z[l - 1], z[l - 1])
  OBVIOUS
<1> HIDE DEF r
<1> QED BY <1>1, <1>2

LEMMA ZerosEquations ==
  /\ Zeros[0] = HashLeaf(Zero)
  /\ \A l \in Below : Zeros[l + 1] = HashPair(Zeros[l], Zeros[l])
<1> DEFINE S == {n \in Levels : \E z : IsZeros(n, z)}
<1>1. 0 \in S
  <2>1. IsZeros(0, [l \in 0 .. 0 |-> HashLeaf(Zero)])
    BY DEF IsZeros
  <2> QED BY <2>1, MerkleAssumption DEF Levels
<1>2. ASSUME NEW n \in Below, n \in S PROVE n + 1 \in S
  <2>1. PICK z : IsZeros(n, z)
    BY <1>2
  <2> DEFINE r == [l \in 0 .. n + 1 |->
                     IF l = n + 1 THEN HashPair(z[n], z[n])
                     ELSE z[l]]
  <2>2. \A l \in 0 .. n + 1 :
          r[l] = IF l = 0 THEN HashLeaf(Zero) ELSE HashPair(r[l - 1], r[l - 1])
    BY <2>1, ZerosAt, MerkleAssumption DEF Below
  <2>3. IsZeros(n + 1, r)
    BY <2>2 DEF IsZeros
  <2>4. n + 1 \in Levels
    BY MerkleAssumption DEF Levels, Below
  <2> QED BY <2>3, <2>4
<1>3. Depth \in S
  <2> HIDE DEF S
  <2> QED BY <1>1, <1>2, LevelInduction, MerkleAssumption DEF Levels
<1>4. IsZeros(Depth, Zeros)
  <2>1. Zeros = CHOOSE z : IsZeros(Depth, z)
    BY DEF Zeros, IsZeros
  <2> QED BY <1>3, <2>1
<1>5. \A l \in Levels :
        Zeros[l] = IF l = 0 THEN HashLeaf(Zero) ELSE HashPair(Zeros[l - 1], Zeros[l - 1])
  BY <1>4, ZerosAt DEF Levels
<1> QED BY <1>5, MerkleAssumption DEF Levels, Below

\* How many leaves are below a node.
IsWidth(n, w) ==
  w = [l \in 0 .. n |->
         IF l = 0 THEN 1 ELSE 2 * w[l - 1]]

LEMMA WidthAt ==
  ASSUME NEW n, NEW w, IsWidth(n, w)
  PROVE  \A l \in 0 .. n :
           w[l] = IF l = 0 THEN 1 ELSE 2 * w[l - 1]
<1> DEFINE r == [l \in 0 .. n |->
                   IF l = 0 THEN 1 ELSE 2 * w[l - 1]]
<1>1. w = r
  BY DEF IsWidth
<1>2. \A l \in 0 .. n :
        r[l] = IF l = 0 THEN 1 ELSE 2 * w[l - 1]
  OBVIOUS
<1> HIDE DEF r
<1> QED BY <1>1, <1>2

LEMMA WidthEquations ==
  /\ Width[0] = 1
  /\ \A l \in Below : Width[l + 1] = 2 * Width[l]
<1> DEFINE S == {n \in Levels : \E w : IsWidth(n, w)}
<1>1. 0 \in S
  <2>1. IsWidth(0, [l \in 0 .. 0 |-> 1])
    BY DEF IsWidth
  <2> QED BY <2>1, MerkleAssumption DEF Levels
<1>2. ASSUME NEW n \in Below, n \in S PROVE n + 1 \in S
  <2>1. PICK w : IsWidth(n, w)
    BY <1>2
  <2> DEFINE r == [l \in 0 .. n + 1 |->
                     IF l = n + 1 THEN 2 * w[n]
                     ELSE w[l]]
  <2>2. \A l \in 0 .. n + 1 :
          r[l] = IF l = 0 THEN 1 ELSE 2 * r[l - 1]
    BY <2>1, WidthAt, MerkleAssumption DEF Below
  <2>3. IsWidth(n + 1, r)
    BY <2>2 DEF IsWidth
  <2>4. n + 1 \in Levels
    BY MerkleAssumption DEF Levels, Below
  <2> QED BY <2>3, <2>4
<1>3. Depth \in S
  <2> HIDE DEF S
  <2> QED BY <1>1, <1>2, LevelInduction, MerkleAssumption DEF Levels
<1>4. IsWidth(Depth, Width)
  <2>1. Width = CHOOSE w : IsWidth(Depth, w)
    BY DEF Width, IsWidth
  <2> QED BY <1>3, <2>1
<1>5. \A l \in Levels :
        Width[l] = IF l = 0 THEN 1 ELSE 2 * Width[l - 1]
  BY <1>4, WidthAt DEF Levels
<1> QED BY <1>5, MerkleAssumption DEF Levels, Below

\* The nodes on the path of a leaf.
IsPath(n, i, a) ==
  a = [l \in 0 .. n |->
         IF l = 0 THEN i ELSE a[l - 1] \div 2]

LEMMA PathAt ==
  ASSUME NEW n, NEW i, NEW a, IsPath(n, i, a)
  PROVE  \A l \in 0 .. n :
           a[l] = IF l = 0 THEN i ELSE a[l - 1] \div 2
<1> DEFINE r == [l \in 0 .. n |->
                   IF l = 0 THEN i ELSE a[l - 1] \div 2]
<1>1. a = r
  BY DEF IsPath
<1>2. \A l \in 0 .. n :
        r[l] = IF l = 0 THEN i ELSE a[l - 1] \div 2
  OBVIOUS
<1> HIDE DEF r
<1> QED BY <1>1, <1>2

LEMMA AncestorsEquations ==
  ASSUME NEW i
  PROVE  /\ Ancestors(i)[0] = i
         /\ \A l \in Below : Ancestors(i)[l + 1] = Ancestors(i)[l] \div 2
<1> DEFINE S == {n \in Levels : \E a : IsPath(n, i, a)}
<1>1. 0 \in S
  <2>1. IsPath(0, i, [l \in 0 .. 0 |-> i])
    BY DEF IsPath
  <2> QED BY <2>1, MerkleAssumption DEF Levels
<1>2. ASSUME NEW n \in Below, n \in S PROVE n + 1 \in S
  <2>1. PICK a : IsPath(n, i, a)
    BY <1>2
  <2> DEFINE r == [l \in 0 .. n + 1 |->
                     IF l = n + 1 THEN a[n] \div 2
                     ELSE a[l]]
  <2>2. \A l \in 0 .. n + 1 :
          r[l] = IF l = 0 THEN i ELSE r[l - 1] \div 2
    BY <2>1, PathAt, MerkleAssumption DEF Below
  <2>3. IsPath(n + 1, i, r)
    BY <2>2 DEF IsPath
  <2>4. n + 1 \in Levels
    BY MerkleAssumption DEF Levels, Below
  <2> QED BY <2>3, <2>4
<1>3. Depth \in S
  <2> HIDE DEF S
  <2> QED BY <1>1, <1>2, LevelInduction, MerkleAssumption DEF Levels
<1>4. IsPath(Depth, i, Ancestors(i))
  <2>1. Ancestors(i) = CHOOSE a : IsPath(Depth, i, a)
    BY DEF Ancestors, IsPath
  <2> QED BY <1>3, <2>1
<1>5. \A l \in Levels :
        Ancestors(i)[l] = IF l = 0 THEN i ELSE Ancestors(i)[l - 1] \div 2
  BY <1>4, PathAt DEF Levels
<1> QED BY <1>5, MerkleAssumption DEF Levels, Below

\* The hashes on the path of a leaf.
ArePathHashes(n, i, v, sibling, h) ==
  h = [l \in 0 .. n |->
         IF l = 0 THEN HashLeaf(v) ELSE IF IsLeft(Ancestors(i)[l - 1])
           THEN HashPair(h[l - 1], sibling[l - 1])
           ELSE HashPair(sibling[l - 1], h[l - 1])]

LEMMA PathHashesAt ==
  ASSUME NEW n, NEW i, NEW v, NEW sibling, NEW h, ArePathHashes(n, i, v, sibling, h)
  PROVE  \A l \in 0 .. n :
           h[l] = IF l = 0 THEN HashLeaf(v) ELSE IF IsLeft(Ancestors(i)[l - 1])
           THEN HashPair(h[l - 1], sibling[l - 1])
           ELSE HashPair(sibling[l - 1], h[l - 1])
<1> DEFINE r == [l \in 0 .. n |->
                   IF l = 0 THEN HashLeaf(v) ELSE IF IsLeft(Ancestors(i)[l - 1])
           THEN HashPair(h[l - 1], sibling[l - 1])
           ELSE HashPair(sibling[l - 1], h[l - 1])]
<1>1. h = r
  BY DEF ArePathHashes
<1>2. \A l \in 0 .. n :
        r[l] = IF l = 0 THEN HashLeaf(v) ELSE IF IsLeft(Ancestors(i)[l - 1])
           THEN HashPair(h[l - 1], sibling[l - 1])
           ELSE HashPair(sibling[l - 1], h[l - 1])
  OBVIOUS
<1> HIDE DEF r
<1> QED BY <1>1, <1>2

LEMMA PathHashesEquations ==
  ASSUME NEW i, NEW v, NEW sibling
  PROVE  /\ PathHashes(i, v, sibling)[0] = HashLeaf(v)
         /\ \A l \in Below :
              PathHashes(i, v, sibling)[l + 1] =
                IF IsLeft(Ancestors(i)[l])
           THEN HashPair(PathHashes(i, v, sibling)[l], sibling[l])
           ELSE HashPair(sibling[l], PathHashes(i, v, sibling)[l])
<1> DEFINE S == {n \in Levels : \E h : ArePathHashes(n, i, v, sibling, h)}
<1>1. 0 \in S
  <2>1. ArePathHashes(0, i, v, sibling, [l \in 0 .. 0 |-> HashLeaf(v)])
    BY DEF ArePathHashes
  <2> QED BY <2>1, MerkleAssumption DEF Levels
<1>2. ASSUME NEW n \in Below, n \in S PROVE n + 1 \in S
  <2>1. PICK h : ArePathHashes(n, i, v, sibling, h)
    BY <1>2
  <2> DEFINE r == [l \in 0 .. n + 1 |->
                     IF l = n + 1 THEN IF IsLeft(Ancestors(i)[n])
           THEN HashPair(h[n], sibling[n])
           ELSE HashPair(sibling[n], h[n])
                     ELSE h[l]]
  <2>2. \A l \in 0 .. n + 1 :
          r[l] = IF l = 0 THEN HashLeaf(v) ELSE IF IsLeft(Ancestors(i)[l - 1])
           THEN HashPair(r[l - 1], sibling[l - 1])
           ELSE HashPair(sibling[l - 1], r[l - 1])
    BY <2>1, PathHashesAt, MerkleAssumption DEF Below
  <2>3. ArePathHashes(n + 1, i, v, sibling, r)
    BY <2>2 DEF ArePathHashes
  <2>4. n + 1 \in Levels
    BY MerkleAssumption DEF Levels, Below
  <2> QED BY <2>3, <2>4
<1>3. Depth \in S
  <2> HIDE DEF S
  <2> QED BY <1>1, <1>2, LevelInduction, MerkleAssumption DEF Levels
<1>4. ArePathHashes(Depth, i, v, sibling, PathHashes(i, v, sibling))
  <2>1. PathHashes(i, v, sibling) = CHOOSE h : ArePathHashes(Depth, i, v, sibling, h)
    BY DEF PathHashes, ArePathHashes
  <2> QED BY <1>3, <2>1
<1>5. \A l \in Levels :
        PathHashes(i, v, sibling)[l] = IF l = 0 THEN HashLeaf(v) ELSE IF IsLeft(Ancestors(i)[l - 1])
           THEN HashPair(PathHashes(i, v, sibling)[l - 1], sibling[l - 1])
           ELSE HashPair(sibling[l - 1], PathHashes(i, v, sibling)[l - 1])
  BY <1>4, PathHashesAt DEF Levels
<1> QED BY <1>5, MerkleAssumption DEF Levels, Below

\* The nodes of a tree.
AreNodes(n, tree, m) ==
  m = [l \in 0 .. n |->
         IF l = 0 THEN LeafHashes(tree) ELSE Joined(l, m[l - 1])]

LEMMA NodesAt ==
  ASSUME NEW n, NEW tree, NEW m, AreNodes(n, tree, m)
  PROVE  \A l \in 0 .. n :
           m[l] = IF l = 0 THEN LeafHashes(tree) ELSE Joined(l, m[l - 1])
<1> DEFINE r == [l \in 0 .. n |->
                   IF l = 0 THEN LeafHashes(tree) ELSE Joined(l, m[l - 1])]
<1>1. m = r
  BY DEF AreNodes
<1>2. \A l \in 0 .. n :
        r[l] = IF l = 0 THEN LeafHashes(tree) ELSE Joined(l, m[l - 1])
  OBVIOUS
<1> HIDE DEF r
<1> QED BY <1>1, <1>2

LEMMA NodesRecursion ==
  ASSUME NEW tree
  PROVE  /\ NodesOver(tree)[0] = LeafHashes(tree)
         /\ \A l \in Below : NodesOver(tree)[l + 1] = Joined(l + 1, NodesOver(tree)[l])
<1> DEFINE S == {n \in Levels : \E m : AreNodes(n, tree, m)}
<1>1. 0 \in S
  <2>1. AreNodes(0, tree, [l \in 0 .. 0 |-> LeafHashes(tree)])
    BY DEF AreNodes
  <2> QED BY <2>1, MerkleAssumption DEF Levels
<1>2. ASSUME NEW n \in Below, n \in S PROVE n + 1 \in S
  <2>1. PICK m : AreNodes(n, tree, m)
    BY <1>2
  <2> DEFINE r == [l \in 0 .. n + 1 |->
                     IF l = n + 1 THEN Joined(n + 1, m[n])
                     ELSE m[l]]
  <2>2. \A l \in 0 .. n + 1 :
          r[l] = IF l = 0 THEN LeafHashes(tree) ELSE Joined(l, r[l - 1])
    BY <2>1, NodesAt, MerkleAssumption DEF Below
  <2>3. AreNodes(n + 1, tree, r)
    BY <2>2 DEF AreNodes
  <2>4. n + 1 \in Levels
    BY MerkleAssumption DEF Levels, Below
  <2> QED BY <2>3, <2>4
<1>3. Depth \in S
  <2> HIDE DEF S
  <2> QED BY <1>1, <1>2, LevelInduction, MerkleAssumption DEF Levels
<1>4. AreNodes(Depth, tree, NodesOver(tree))
  <2>1. NodesOver(tree) = CHOOSE m : AreNodes(Depth, tree, m)
    BY DEF NodesOver, AreNodes
  <2> QED BY <1>3, <2>1
<1>5. \A l \in Levels :
        NodesOver(tree)[l] = IF l = 0 THEN LeafHashes(tree) ELSE Joined(l, NodesOver(tree)[l - 1])
  BY <1>4, NodesAt DEF Levels
<1> QED BY <1>5, MerkleAssumption DEF Levels, Below

-----------------------------------------------------------------------------
(* Paths *)

LEMMA WidthType == \A l \in Levels : Width[l] \in Nat \ {0}
<1> DEFINE S == {l \in Levels : Width[l] \in Nat \ {0}}
<1>1. 0 \in S
  BY WidthEquations, MerkleAssumption DEF Levels
<1>2. ASSUME NEW l \in Below, l \in S PROVE l + 1 \in S
  BY <1>2, WidthEquations, MerkleAssumption DEF Levels, Below
<1> HIDE DEF S
<1>3. \A l \in Levels : l \in S
  BY <1>1, <1>2, LevelInduction
<1> QED BY <1>3 DEF S

\* The indices of the nodes of a level
Nodes(l) == 0 .. Width[Depth - l] - 1
Leaves == Nodes(0)

\* Two nodes have one parent, and their level is twice as wide as that.
LEMMA NodesOfLevel ==
  ASSUME NEW l \in Below
  PROVE  /\ l \in Levels /\ l + 1 \in Levels
         /\ Width[Depth - (l + 1)] \in Nat \ {0}
         /\ Width[Depth - l] = 2 * Width[Depth - (l + 1)]
<1>1. Depth - (l + 1) \in Below /\ (Depth - (l + 1)) + 1 = Depth - l
  BY MerkleAssumption DEF Below
<1>2. l \in Levels /\ l + 1 \in Levels /\ Depth - (l + 1) \in Levels
  BY MerkleAssumption DEF Below, Levels
<1> QED BY <1>1, <1>2, WidthEquations, WidthType

LEMMA TopNode == Nodes(Depth) = {0}
BY WidthEquations, MerkleAssumption DEF Nodes

\* A path stays in the tree.
LEMMA AncestorsType ==
  ASSUME NEW i \in Leaves
  PROVE  \A l \in Levels : Ancestors(i)[l] \in Nodes(l)
<1> DEFINE S == {l \in Levels : Ancestors(i)[l] \in Nodes(l)}
<1>1. 0 \in S
  BY AncestorsEquations, MerkleAssumption DEF Levels, Leaves
<1>2. ASSUME NEW l \in Below, l \in S PROVE l + 1 \in S
  <2>1. Ancestors(i)[l + 1] = Ancestors(i)[l] \div 2
    BY AncestorsEquations
  <2> QED BY <1>2, <2>1, NodesOfLevel DEF Nodes
<1> HIDE DEF S
<1>3. \A l \in Levels : l \in S
  BY <1>1, <1>2, LevelInduction
<1> QED BY <1>3 DEF S

\* Paths of leaves further left stay further left, and come by every node there.
LEMMA PathsInOrder ==
  ASSUME NEW i \in Nat
  PROVE  \A l \in Levels :
           /\ Ancestors(i)[l] \in Nat
           /\ \A j \in 0 .. i : Ancestors(j)[l] \in 0 .. Ancestors(i)[l]
           /\ \A x \in 0 .. Ancestors(i)[l] : \E j \in 0 .. i : Ancestors(j)[l] = x
<1> DEFINE P(l) ==
           /\ Ancestors(i)[l] \in Nat
           /\ \A j \in 0 .. i : Ancestors(j)[l] \in 0 .. Ancestors(i)[l]
           /\ \A x \in 0 .. Ancestors(i)[l] : \E j \in 0 .. i : Ancestors(j)[l] = x
           S == {l \in Levels : P(l)}
<1>1. 0 \in S
  <2>1. \A j : Ancestors(j)[0] = j
    BY AncestorsEquations
  <2> QED BY <2>1, MerkleAssumption DEF Levels
<1>2. ASSUME NEW l \in Below, l \in S PROVE l + 1 \in S
  <2>1. \A j : Ancestors(j)[l + 1] = Ancestors(j)[l] \div 2
    BY AncestorsEquations
  <2>2. P(l)
    BY <1>2
  <2>3. Ancestors(i)[l + 1] \in Nat
    BY <2>1, <2>2
  <2>4. \A j \in 0 .. i : Ancestors(j)[l + 1] \in 0 .. Ancestors(i)[l + 1]
    BY <2>1, <2>2
  <2>5. ASSUME NEW x \in 0 .. Ancestors(i)[l + 1]
        PROVE  \E j \in 0 .. i : Ancestors(j)[l + 1] = x
    <3>1. 2 * x \in 0 .. Ancestors(i)[l]
      BY <2>1, <2>2
    <3>2. PICK j \in 0 .. i : Ancestors(j)[l] = 2 * x
      BY <2>2, <3>1
    <3> QED BY <2>1, <3>2
  <2>6. P(l + 1)
    BY <2>3, <2>4, <2>5
  <2> QED BY <2>6, NodesOfLevel
<1>3. \A l \in Levels : l \in S
  <2> HIDE DEF S
  <2> QED BY <1>1, <1>2, LevelInduction
<1> QED BY <1>3

-----------------------------------------------------------------------------
(* Nodes *)

LEMMA NodesEquations ==
  ASSUME NEW tree
  PROVE  /\ \A x \in Leaves : NodesOver(tree)[0][x] = HashLeaf(tree[x])
         /\ \A l \in Below : \A x \in Nodes(l + 1) :
              /\ 2 * x \in Nodes(l) /\ 2 * x + 1 \in Nodes(l)
              /\ NodesOver(tree)[l + 1][x] =
                   HashPair(NodesOver(tree)[l][2 * x], NodesOver(tree)[l][2 * x + 1])
<1>1. \A x \in Leaves : NodesOver(tree)[0][x] = HashLeaf(tree[x])
  <2>1. Leaves = 0 .. Width[Depth] - 1
    <3>1. Depth - 0 = Depth
      BY MerkleAssumption
    <3> QED BY <3>1 DEF Leaves, Nodes
  <2>2. NodesOver(tree)[0] = LeafHashes(tree)
    BY NodesRecursion
  <2> QED BY <2>1, <2>2 DEF LeafHashes
<1>2. ASSUME NEW l \in Below, NEW x \in Nodes(l + 1)
      PROVE  /\ 2 * x \in Nodes(l) /\ 2 * x + 1 \in Nodes(l)
             /\ NodesOver(tree)[l + 1][x] =
                  HashPair(NodesOver(tree)[l][2 * x], NodesOver(tree)[l][2 * x + 1])
  <2>1. NodesOver(tree)[l + 1] = Joined(l + 1, NodesOver(tree)[l])
    BY NodesRecursion
  <2> QED BY <2>1, NodesOfLevel DEF Joined, Nodes
<1> QED BY <1>1, <1>2

\* A node that no path of the first n leaves goes through is empty when the
\* other leaves are.
LEMMA EmptyNodes ==
  ASSUME NEW tree, NEW n \in Nat, \A x \in Leaves : x >= n => tree[x] = Zero
  PROVE  \A l \in Levels : \A x \in Nodes(l) :
           (\A i \in 0 .. n - 1 : Ancestors(i)[l] # x) => NodesOver(tree)[l][x] = Zeros[l]
<1> DEFINE P(l) == \A x \in Nodes(l) :
             (\A i \in 0 .. n - 1 : Ancestors(i)[l] # x) => NodesOver(tree)[l][x] = Zeros[l]
           S == {l \in Levels : P(l)}
<1>1. 0 \in S
  <2>1. ASSUME NEW x \in Nodes(0), \A i \in 0 .. n - 1 : Ancestors(i)[0] # x
        PROVE  NodesOver(tree)[0][x] = Zeros[0]
    <3>1. x \in Nat
      BY DEF Nodes
    <3>2. x >= n
      BY <2>1, <3>1, AncestorsEquations
    <3> QED BY <3>2, NodesEquations, ZerosEquations DEF Leaves
  <2>2. P(0)
    BY <2>1
  <2> QED BY <2>2, MerkleAssumption DEF Levels
<1>2. ASSUME NEW l \in Below, l \in S PROVE l + 1 \in S
  <2>1. ASSUME NEW x \in Nodes(l + 1), \A i \in 0 .. n - 1 : Ancestors(i)[l + 1] # x
        PROVE  NodesOver(tree)[l + 1][x] = Zeros[l + 1]
    <3>1. x \in Nat
      BY DEF Nodes
    <3>2. \A i \in 0 .. n - 1 : Ancestors(i)[l] # 2 * x /\ Ancestors(i)[l] # 2 * x + 1
      <4> SUFFICES ASSUME NEW i \in 0 .. n - 1,
                          Ancestors(i)[l] = 2 * x \/ Ancestors(i)[l] = 2 * x + 1
                   PROVE  FALSE
        OBVIOUS
      <4>1. Ancestors(i)[l + 1] = Ancestors(i)[l] \div 2
        BY AncestorsEquations
      <4>2. Ancestors(i)[l + 1] = x
        BY <3>1, <4>1
      <4> QED BY <2>1, <4>2
    <3>3. /\ 2 * x \in Nodes(l) /\ 2 * x + 1 \in Nodes(l)
          /\ NodesOver(tree)[l + 1][x] =
               HashPair(NodesOver(tree)[l][2 * x], NodesOver(tree)[l][2 * x + 1])
      BY NodesEquations
    <3>4. NodesOver(tree)[l][2 * x] = Zeros[l] /\ NodesOver(tree)[l][2 * x + 1] = Zeros[l]
      BY <1>2, <3>2, <3>3
    <3> QED BY <3>3, <3>4, ZerosEquations
  <2>2. P(l + 1)
    BY <2>1
  <2> QED BY <2>2, NodesOfLevel
<1>3. \A l \in Levels : l \in S
  <2> HIDE DEF S
  <2> QED BY <1>1, <1>2, LevelInduction
<1> QED BY <1>3

\* A change of one leaf changes the nodes on its path only.
LEMMA OneLeafChanged ==
  ASSUME NEW t, NEW u, NEW i, \A x \in Leaves : x # i => u[x] = t[x]
  PROVE  \A l \in Levels : \A x \in Nodes(l) :
           x # Ancestors(i)[l] => NodesOver(u)[l][x] = NodesOver(t)[l][x]
<1> DEFINE P(l) == \A x \in Nodes(l) :
             x # Ancestors(i)[l] => NodesOver(u)[l][x] = NodesOver(t)[l][x]
           S == {l \in Levels : P(l)}
<1>1. 0 \in S
  <2>1. P(0)
    BY NodesEquations, AncestorsEquations DEF Leaves
  <2> QED BY <2>1, MerkleAssumption DEF Levels
<1>2. ASSUME NEW l \in Below, l \in S PROVE l + 1 \in S
  <2>1. ASSUME NEW x \in Nodes(l + 1), x # Ancestors(i)[l + 1]
        PROVE  NodesOver(u)[l + 1][x] = NodesOver(t)[l + 1][x]
    <3>1. x \in Nat
      BY DEF Nodes
    <3>2. Ancestors(i)[l + 1] = Ancestors(i)[l] \div 2
      BY AncestorsEquations
    <3>3. 2 * x # Ancestors(i)[l] /\ 2 * x + 1 # Ancestors(i)[l]
      <4>1. (2 * x) \div 2 = x /\ (2 * x + 1) \div 2 = x
        BY <3>1
      <4> QED BY <2>1, <3>2, <4>1
    <3>4. /\ 2 * x \in Nodes(l) /\ 2 * x + 1 \in Nodes(l)
          /\ NodesOver(t)[l + 1][x] =
               HashPair(NodesOver(t)[l][2 * x], NodesOver(t)[l][2 * x + 1])
          /\ NodesOver(u)[l + 1][x] =
               HashPair(NodesOver(u)[l][2 * x], NodesOver(u)[l][2 * x + 1])
      BY NodesEquations
    <3>5. /\ NodesOver(u)[l][2 * x] = NodesOver(t)[l][2 * x]
          /\ NodesOver(u)[l][2 * x + 1] = NodesOver(t)[l][2 * x + 1]
      BY <1>2, <3>3, <3>4
    <3> QED BY <3>4, <3>5
  <2>2. P(l + 1)
    BY <2>1
  <2> QED BY <2>2, NodesOfLevel
<1>3. \A l \in Levels : l \in S
  <2> HIDE DEF S
  <2> QED BY <1>1, <1>2, LevelInduction
<1> QED BY <1>3

\* A path with the siblings of the tree gives the nodes of the tree.
LEMMA PathIsOfTree ==
  ASSUME NEW t, NEW i \in Leaves, NEW sibling,
         \A l \in Below : sibling[l] = NodesOver(t)[l][Sibling(Ancestors(i)[l])]
  PROVE  \A l \in Levels :
           PathHashes(i, t[i], sibling)[l] = NodesOver(t)[l][Ancestors(i)[l]]
<1> DEFINE h == PathHashes(i, t[i], sibling)
           S == {l \in Levels : h[l] = NodesOver(t)[l][Ancestors(i)[l]]}
<1>1. 0 \in S
  BY PathHashesEquations, NodesEquations, AncestorsEquations, MerkleAssumption DEF Levels
<1>2. ASSUME NEW l \in Below, l \in S PROVE l + 1 \in S
  <2> DEFINE a == Ancestors(i)[l]
             x == Ancestors(i)[l + 1]
  <2>1. x = a \div 2 /\ a \in Nodes(l) /\ x \in Nodes(l + 1)
    BY AncestorsEquations, AncestorsType, NodesOfLevel
  <2>2. a \in Nat /\ x \in Nat
    BY <2>1 DEF Nodes
  <2>3. NodesOver(t)[l + 1][x] = HashPair(NodesOver(t)[l][2 * x], NodesOver(t)[l][2 * x + 1])
    BY <2>1, NodesEquations
  <2>4. h[l] = NodesOver(t)[l][a] /\ sibling[l] = NodesOver(t)[l][Sibling(a)]
    BY <1>2
  <2>5. h[l + 1] = IF IsLeft(a) THEN HashPair(h[l], sibling[l])
                                ELSE HashPair(sibling[l], h[l])
    BY PathHashesEquations
  <2> HIDE DEF h, a, x
  <2>6. CASE IsLeft(a)
    <3>1. a = 2 * x /\ Sibling(a) = 2 * x + 1
      BY <2>1, <2>2, <2>6 DEF IsLeft, Sibling
    <3>2. h[l + 1] = NodesOver(t)[l + 1][x]
      BY <2>3, <2>4, <2>5, <2>6, <3>1
    <3> QED BY <3>2, NodesOfLevel DEF x
  <2>7. CASE ~IsLeft(a)
    <3>1. a = 2 * x + 1 /\ Sibling(a) = 2 * x
      BY <2>1, <2>2, <2>7 DEF IsLeft, Sibling
    <3>2. h[l + 1] = NodesOver(t)[l + 1][x]
      BY <2>3, <2>4, <2>5, <2>7, <3>1
    <3> QED BY <3>2, NodesOfLevel DEF x
  <2> QED BY <2>6, <2>7
<1>3. \A l \in Levels : l \in S
  <2> HIDE DEF S
  <2> QED BY <1>1, <1>2, LevelInduction
<1> QED BY <1>3

-----------------------------------------------------------------------------
(* What is stored *)

\* The nodes on the paths of the first n leaves
Passed(n) == {<<l, Ancestors(i)[l]>> : l \in 1 .. Depth, i \in 0 .. n - 1}

\* Leaves are stored in the order of their slots, and nodes on their paths.
StoredInOrder ==
  /\ nextLeafIndex \in 0 .. Width[Depth]
  /\ DOMAIN leafValue = 0 .. nextLeafIndex - 1
  /\ DOMAIN nodeHash = Passed(nextLeafIndex)

IInv == StoredInOrder /\ RootIsReference

LEMMA LeavesAre == Leaves = 0 .. Width[Depth] - 1 /\ Width[Depth] \in Nat \ {0}
<1>1. Depth - 0 = Depth /\ Depth \in Levels
  BY MerkleAssumption DEF Levels
<1> QED BY <1>1, WidthType DEF Leaves, Nodes

\* A node that is stored is the node of the tree, and one that is not is empty.
LEMMA StoredIsReference ==
  ASSUME IInv, NEW l \in Below, NEW x \in Nodes(l), NEW absent
  PROVE  /\ Stored(l, x, Zeros[l]) = ReferenceNodes[l][x]
         /\ (\E i \in 0 .. nextLeafIndex - 1 : Ancestors(i)[l] = x)
              => Stored(l, x, absent) = ReferenceNodes[l][x]
<1>0. nextLeafIndex \in Nat /\ x \in Nat
  BY LeavesAre DEF IInv, StoredInOrder, Nodes
<1>1. \A y \in Leaves : Tree[y] = IF y < nextLeafIndex THEN leafValue[y] ELSE Zero
  BY LeavesAre DEF Tree
<1>2. ASSUME ~\E i \in 0 .. nextLeafIndex - 1 : Ancestors(i)[l] = x
      PROVE  ReferenceNodes[l][x] = Zeros[l]
  <2>1. \A y \in Leaves : y >= nextLeafIndex => Tree[y] = Zero
    BY <1>0, <1>1, LeavesAre
  <2> QED BY <1>0, <1>2, <2>1, EmptyNodes, NodesOfLevel DEF ReferenceNodes
<1>3. CASE l = 0
  <2>1. \A i : Ancestors(i)[l] = i
    BY <1>3, AncestorsEquations
  <2>2. ReferenceNodes[0][x] = HashLeaf(Tree[x]) /\ x \in Leaves
    BY <1>3, NodesEquations DEF ReferenceNodes, Leaves
  <2>3. CASE x \in 0 .. nextLeafIndex - 1
    <3>1. Tree[x] = leafValue[x] /\ x \in DOMAIN leafValue
      BY <1>0, <1>1, <2>2, <2>3 DEF IInv, StoredInOrder
    <3> QED BY <1>3, <2>2, <3>1 DEF Stored
  <2>4. CASE x \notin 0 .. nextLeafIndex - 1
    <3>1. x \notin DOMAIN leafValue
      BY <2>4 DEF IInv, StoredInOrder
    <3>2. ~\E i \in 0 .. nextLeafIndex - 1 : Ancestors(i)[l] = x
      BY <2>1, <2>4
    <3> QED BY <1>2, <1>3, <3>1, <3>2 DEF Stored
  <2> QED BY <2>3, <2>4
<1>4. CASE l # 0
  <2>1. l \in 1 .. Depth
    BY <1>4, MerkleAssumption DEF Below
  <2>2. <<l, x>> \in DOMAIN nodeHash <=> \E i \in 0 .. nextLeafIndex - 1 : Ancestors(i)[l] = x
    BY <2>1 DEF IInv, StoredInOrder, Passed
  <2>3. <<l, x>> \in DOMAIN nodeHash => nodeHash[<<l, x>>] = ReferenceNodes[l][x]
    BY DEF IInv, RootIsReference
  <2> QED BY <1>2, <1>4, <2>2, <2>3 DEF Stored
<1> QED BY <1>3, <1>4

\* The path of a leaf that is hashed with the siblings of the new tree is
\* stored with the nodes of the new tree.
LEMMA PathStored ==
  ASSUME IInv, NEW i \in Leaves, NEW v, NEW sibling,
         \A x \in Leaves : Tree'[x] = IF x = i THEN v ELSE Tree[x],
         \A l \in Below :
           sibling[l] = NodesOver(Tree')[l][Sibling(Ancestors(i)[l])],
         nodeHash' = StorePath(i, PathHashes(i, v, sibling)),
         root' = PathHashes(i, v, sibling)[Depth]
  PROVE  RootIsReference'
<1> DEFINE h == PathHashes(i, v, sibling)
<1>1. Tree'[i] = v
  OBVIOUS
<1>2. \A l \in Levels : h[l] = NodesOver(Tree')[l][Ancestors(i)[l]]
  BY <1>1, PathIsOfTree
<1>3. ReferenceNodes' = NodesOver(Tree')
  BY DEF ReferenceNodes
<1>4. Ancestors(i)[Depth] = 0 /\ Depth \in Levels
  <2>1. Depth \in Levels
    BY MerkleAssumption DEF Levels
  <2> QED BY <2>1, AncestorsType, TopNode
<1>5. root' = ReferenceNodes'[Depth][0]
  BY <1>2, <1>3, <1>4
<1>6. ASSUME NEW n \in DOMAIN nodeHash'
      PROVE  nodeHash'[n] = ReferenceNodes'[n[1]][n[2]]
  <2> DEFINE path == {<<l, Ancestors(i)[l]>> : l \in 1 .. Depth}
  <2>1. nodeHash' = [m \in path \cup DOMAIN nodeHash |->
                       IF m \in path THEN h[m[1]] ELSE nodeHash[m]]
    BY DEF StorePath, StoreFrom
  <2>2. CASE n \in path
    <3>1. PICK l \in 1 .. Depth : n = <<l, Ancestors(i)[l]>>
      BY <2>2
    <3>2. l \in Levels
      BY MerkleAssumption DEF Levels
    <3>3. nodeHash'[n] = h[l] /\ n[1] = l /\ n[2] = Ancestors(i)[l]
      BY <2>1, <2>2, <3>1
    <3> QED BY <1>2, <1>3, <3>2, <3>3
  <2>3. CASE n \notin path
    <3>1. n \in DOMAIN nodeHash /\ nodeHash'[n] = nodeHash[n]
      BY <1>6, <2>1, <2>3
    <3>2. PICK l \in 1 .. Depth, j \in 0 .. nextLeafIndex - 1 : n = <<l, Ancestors(j)[l]>>
      BY <3>1 DEF IInv, StoredInOrder, Passed
    <3>3. n[1] = l /\ n[2] = Ancestors(j)[l] /\ n[2] # Ancestors(i)[l]
      BY <2>3, <3>2
    <3>4. l \in Levels /\ j \in Leaves
      BY LeavesAre, MerkleAssumption DEF Levels, IInv, StoredInOrder
    <3>5. n[2] \in Nodes(l)
      BY <3>3, <3>4, AncestorsType
    <3>6. NodesOver(Tree')[l][n[2]] = NodesOver(Tree)[l][n[2]]
      <4>1. \A x \in Leaves : x # i => Tree'[x] = Tree[x]
        OBVIOUS
      <4> QED BY <3>3, <3>4, <3>5, <4>1, OneLeafChanged
    <3>7. nodeHash[n] = ReferenceNodes[n[1]][n[2]]
      BY <3>1 DEF IInv, RootIsReference
    <3> QED BY <1>3, <3>1, <3>3, <3>6, <3>7 DEF ReferenceNodes
  <2> QED BY <2>2, <2>3
<1> QED BY <1>5, <1>6 DEF RootIsReference

\* The sibling on a path is not on it.
LEMMA SiblingFacts ==
  ASSUME NEW i \in Leaves, NEW l \in Below
  PROVE  /\ Sibling(Ancestors(i)[l]) \in Nodes(l)
         /\ Sibling(Ancestors(i)[l]) # Ancestors(i)[l]
<1>1. Ancestors(i)[l] \in Nodes(l)
  BY AncestorsType, NodesOfLevel
<1>2. Width[Depth - l] = 2 * Width[Depth - (l + 1)] /\ Width[Depth - (l + 1)] \in Nat
  BY NodesOfLevel
<1> QED BY <1>1, <1>2 DEF Nodes, Sibling, IsLeft

LEMMA InsertKeepsInvariant ==
  ASSUME IInv, NEW v, InsertLeaf(v)
  PROVE  IInv'
<1> DEFINE i == nextLeafIndex
           a(l) == Ancestors(i)[l]
           sibling == [l \in 0 .. Depth - 1 |->
             IF IsLeft(a(l)) THEN Zeros[l] ELSE LeftSibling(l, a(l) - 1)]
<1>1. /\ i \in Leaves /\ i \in Nat /\ i + 1 \in 0 .. Width[Depth]
      /\ nextLeafIndex' = i + 1
  BY LeavesAre DEF IInv, StoredInOrder, InsertLeaf, SlotFree
<1>2. /\ leafValue' = [x \in 0 .. i |-> IF x = i THEN v ELSE leafValue[x]]
      /\ nodeHash' = StorePath(i, PathHashes(i, v, sibling))
      /\ root' = PathHashes(i, v, sibling)[Depth]
  BY DEF InsertLeaf
<1>3. \A x \in Leaves : Tree'[x] = IF x = i THEN v ELSE Tree[x]
  BY <1>1, <1>2, LeavesAre DEF Tree
<1>4. ASSUME NEW l \in Below
      PROVE  sibling[l] = NodesOver(Tree')[l][Sibling(a(l))]
  <2>1. sibling[l] = IF IsLeft(a(l)) THEN Zeros[l] ELSE LeftSibling(l, a(l) - 1)
    BY DEF Below
  <2>2. /\ Sibling(a(l)) \in Nodes(l) /\ Sibling(a(l)) # a(l)
        /\ a(l) \in Nat /\ l \in Levels
    BY <1>1, SiblingFacts, PathsInOrder, NodesOfLevel
  <2>3. CASE IsLeft(a(l))
    <3>1. Sibling(a(l)) = a(l) + 1
      BY <2>3 DEF Sibling
    <3>2. \A j \in 0 .. (i + 1) - 1 : Ancestors(j)[l] # Sibling(a(l))
      BY <1>1, <2>2, <3>1, PathsInOrder
    <3>3. \A x \in Leaves : x >= i + 1 => Tree'[x] = Zero
      BY <1>1, LeavesAre DEF Tree
    <3>4. i + 1 \in Nat
      BY <1>1
    <3>5. NodesOver(Tree')[l][Sibling(a(l))] = Zeros[l]
      <4> HIDE DEF a
      <4> QED BY <2>2, <3>2, <3>3, <3>4, EmptyNodes
    <3> QED BY <2>1, <2>3, <3>5
  <2>4. CASE ~IsLeft(a(l))
    <3>1. Sibling(a(l)) = a(l) - 1 /\ a(l) - 1 \in 0 .. a(l) /\ a(l) - 1 # a(l)
      BY <2>2, <2>4 DEF Sibling, IsLeft
    <3>2. PICK j \in 0 .. i : Ancestors(j)[l] = a(l) - 1
      BY <1>1, <2>2, <3>1, PathsInOrder
    <3>3. j \in 0 .. nextLeafIndex - 1
      BY <1>1, <3>1, <3>2
    <3>4. LeftSibling(l, a(l) - 1) = ReferenceNodes[l][a(l) - 1]
      BY <2>2, <3>1, <3>2, <3>3, StoredIsReference DEF LeftSibling
    <3>5. NodesOver(Tree')[l][a(l) - 1] = NodesOver(Tree)[l][a(l) - 1]
      <4>1. \A x \in Leaves : x # i => Tree'[x] = Tree[x]
        BY <1>3
      <4> QED BY <2>2, <3>1, <4>1, OneLeafChanged
    <3> QED BY <2>1, <2>4, <3>1, <3>4, <3>5 DEF ReferenceNodes
  <2> QED BY <2>3, <2>4
<1>5. RootIsReference'
  <2> HIDE DEF sibling
  <2> QED BY <1>1, <1>2, <1>3, <1>4, PathStored
<1>6. DOMAIN nodeHash' = Passed(nextLeafIndex')
  <2>1. DOMAIN nodeHash' = {<<l, Ancestors(i)[l]>> : l \in 1 .. Depth} \cup Passed(i)
    BY <1>2 DEF StorePath, StoreFrom, IInv, StoredInOrder
  <2>2. 0 .. (i + 1) - 1 = (0 .. i - 1) \cup {i}
    BY <1>1
  <2> QED BY <1>1, <2>1, <2>2 DEF Passed
<1>7. StoredInOrder'
  BY <1>1, <1>2, <1>6 DEF StoredInOrder
<1> QED BY <1>5, <1>7 DEF IInv

LEMMA UpdateKeepsInvariant ==
  ASSUME IInv, NEW i, NEW v, UpdateLeaf(i, v)
  PROVE  IInv'
<1>1. /\ i \in 0 .. nextLeafIndex - 1 /\ i \in Leaves
      /\ nextLeafIndex \in Nat /\ nextLeafIndex' = nextLeafIndex
  BY LeavesAre DEF IInv, StoredInOrder, UpdateLeaf
<1>2. /\ leafValue' = [leafValue EXCEPT ![i] = v]
      /\ nodeHash' = StorePath(i, PathHashes(i, v, MerklePath(i)))
      /\ root' = PathHashes(i, v, MerklePath(i))[Depth]
  BY DEF UpdateLeaf
<1>3. \A x \in Leaves : Tree'[x] = IF x = i THEN v ELSE Tree[x]
  BY <1>1, <1>2, LeavesAre DEF Tree, IInv, StoredInOrder
<1>4. ASSUME NEW l \in Below
      PROVE  MerklePath(i)[l] = NodesOver(Tree')[l][Sibling(Ancestors(i)[l])]
  <2> DEFINE s == Sibling(Ancestors(i)[l])
  <2>1. MerklePath(i)[l] = Stored(l, s, Zeros[l])
    BY DEF MerklePath, Below
  <2>2. s \in Nodes(l) /\ s # Ancestors(i)[l] /\ l \in Levels
    BY <1>1, SiblingFacts, NodesOfLevel
  <2> HIDE DEF s
  <2>3. \A x \in Leaves : x # i => Tree'[x] = Tree[x]
    BY <1>3
  <2>4. MerklePath(i)[l] = NodesOver(Tree')[l][s]
    BY <2>1, <2>2, <2>3, StoredIsReference, OneLeafChanged DEF ReferenceNodes
  <2> QED BY <2>4 DEF s
<1>5. RootIsReference'
  BY <1>1, <1>2, <1>3, <1>4, PathStored
<1>6. DOMAIN nodeHash' = Passed(nextLeafIndex')
  <2>1. DOMAIN nodeHash' =
          {<<l, Ancestors(i)[l]>> : l \in 1 .. Depth} \cup Passed(nextLeafIndex)
    BY <1>2 DEF StorePath, StoreFrom, IInv, StoredInOrder
  <2>2. {<<l, Ancestors(i)[l]>> : l \in 1 .. Depth} \subseteq Passed(nextLeafIndex)
    BY <1>1 DEF Passed
  <2> QED BY <1>1, <2>1, <2>2
<1>7. StoredInOrder'
  BY <1>1, <1>2, <1>6 DEF StoredInOrder, IInv
<1> QED BY <1>5, <1>7 DEF IInv

LEMMA InitInvariant == Init => IInv
<1> SUFFICES ASSUME Init PROVE IInv
  OBVIOUS
<1>1. StoredInOrder
  <2>1. DOMAIN leafValue = {} /\ DOMAIN nodeHash = {} /\ nextLeafIndex = 0
    BY DEF Init
  <2>2. 0 .. 0 - 1 = {}
    OBVIOUS
  <2> QED BY <2>1, <2>2, LeavesAre DEF StoredInOrder, Passed
<1>2. RootIsReference
  <2>1. \A x \in Leaves : x >= 0 => Tree[x] = Zero
    BY LeavesAre DEF Init, Tree
  <2>2. Depth \in Levels /\ 0 \in Nodes(Depth) /\ 0 .. 0 - 1 = {}
    BY TopNode, MerkleAssumption DEF Levels
  <2>3. NodesOver(Tree)[Depth][0] = Zeros[Depth]
    BY <2>1, <2>2, EmptyNodes
  <2> QED BY <2>3 DEF Init, RootIsReference, ReferenceNodes
<1> QED BY <1>1, <1>2 DEF IInv

\* The invariant of the stored tree, which the theorems below rest on.
THEOREM InvariantHolds == Spec => []IInv
<1>1. IInv /\ [Next]_merkleVars => IInv'
  <2> SUFFICES ASSUME IInv, [Next]_merkleVars PROVE IInv'
    OBVIOUS
  <2>1. CASE \E c \in Commitments : InsertLeaf(c)
    BY <2>1, InsertKeepsInvariant
  <2>2. CASE \E i \in DOMAIN leafValue : leafValue[i] # Zero /\ UpdateLeaf(i, Zero)
    BY <2>2, UpdateKeepsInvariant
  <2>3. CASE UNCHANGED merkleVars
    BY <2>3 DEF merkleVars, IInv, StoredInOrder, RootIsReference, ReferenceNodes, Tree
  <2> QED BY <2>1, <2>2, <2>3 DEF Next
<1> QED BY InitInvariant, <1>1, PTL DEF Spec

\* insert_leaf and update_leaf: the root is the root of the stored leaves and
\* no stored node is stale.
THEOREM RootsAreReference == Spec => []RootIsReference
<1>1. IInv => RootIsReference
  BY DEF IInv
<1> QED BY <1>1, InvariantHolds, PTL

\* get_merkle_path: every leaf has a path to the newest root.
THEOREM PathsLeadToRoot == Spec => []PathsReproduceRoot
<1>1. ASSUME IInv PROVE PathsReproduceRoot
  <2> SUFFICES ASSUME NEW i \in DOMAIN leafValue
               PROVE  PathHashes(i, leafValue[i], MerklePath(i))[Depth] = root
    BY DEF PathsReproduceRoot
  <2>1. i \in 0 .. nextLeafIndex - 1 /\ i \in Leaves /\ nextLeafIndex \in Nat
    BY <1>1, LeavesAre DEF IInv, StoredInOrder
  <2>2. Tree[i] = leafValue[i]
    BY <2>1, LeavesAre DEF Tree
  <2>3. ASSUME NEW l \in Below
        PROVE  MerklePath(i)[l] = NodesOver(Tree)[l][Sibling(Ancestors(i)[l])]
    BY <1>1, <2>1, SiblingFacts, StoredIsReference DEF MerklePath, Below, ReferenceNodes
  <2>4. Depth \in Levels /\ Ancestors(i)[Depth] = 0
    <3>1. Depth \in Levels
      BY MerkleAssumption DEF Levels
    <3> QED BY <2>1, <3>1, AncestorsType, TopNode
  <2>5. PathHashes(i, Tree[i], MerklePath(i))[Depth] = NodesOver(Tree)[Depth][0]
    BY <2>1, <2>3, <2>4, PathIsOfTree
  <2> QED BY <1>1, <2>2, <2>5 DEF IInv, RootIsReference, ReferenceNodes
<1>2. IInv => PathsReproduceRoot
  BY <1>1
<1> QED BY <1>2, InvariantHolds, PTL

\* hash_pair and hash_leaf collide nowhere, so trees with one root are one
\* tree: MembershipTree's roots are the trees themselves.
THEOREM RootsTellTreesApart ==
  ASSUME NEW t, NEW u, NodesOver(t)[Depth][0] = NodesOver(u)[Depth][0]
  PROVE  \A x \in Leaves : t[x] = u[x]
<1> DEFINE Same(l) == \A x \in Nodes(l) : NodesOver(t)[l][x] = NodesOver(u)[l][x]
           S == {l \in Levels : Same(Depth - l)}
<1>1. 0 \in S
  BY TopNode, MerkleAssumption DEF Levels
<1>2. ASSUME NEW k \in Below, k \in S PROVE k + 1 \in S
  <2> DEFINE l == Depth - (k + 1)
  <2>1. l \in Below /\ l + 1 = Depth - k /\ k + 1 \in Levels
    BY MerkleAssumption DEF Below, Levels
  <2> HIDE DEF l
  <2>2. Same(l + 1)
    BY <1>2, <2>1
  <2>3. ASSUME NEW y \in Nodes(l) PROVE NodesOver(t)[l][y] = NodesOver(u)[l][y]
    <3> DEFINE x == y \div 2
    <3>1. x \in Nodes(l + 1) /\ y \in {2 * x, 2 * x + 1}
      BY <2>1, NodesOfLevel DEF Nodes
    <3> HIDE DEF x
    <3>2. /\ NodesOver(t)[l + 1][x] =
               HashPair(NodesOver(t)[l][2 * x], NodesOver(t)[l][2 * x + 1])
          /\ NodesOver(u)[l + 1][x] =
               HashPair(NodesOver(u)[l][2 * x], NodesOver(u)[l][2 * x + 1])
      BY <2>1, <3>1, NodesEquations
    <3> QED BY <2>2, <3>1, <3>2 DEF HashPair
  <2>4. Same(l)
    BY <2>3
  <2> QED BY <2>1, <2>4 DEF l
<1>3. \A k \in Levels : k \in S
  <2> HIDE DEF S
  <2> QED BY <1>1, <1>2, LevelInduction
<1>4. Same(0)
  <2>1. Depth \in Levels /\ Depth - Depth = 0
    BY MerkleAssumption DEF Levels
  <2> QED BY <1>3, <2>1
<1>5. \A x \in Leaves : HashLeaf(t[x]) = HashLeaf(u[x])
  BY <1>4, NodesEquations DEF Leaves
<1> QED BY <1>5 DEF HashLeaf, HashPair
=============================================================================
