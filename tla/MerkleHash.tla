----------------------------- MODULE MerkleHash -----------------------------
(***************************************************************************)
(* The Merkle tree every party computes on: the node hash, the reference   *)
(* tree over a sequence of leaves, and the path check of the spend circuit *)
(* (circuits/lib/src/merkle.nr).  A hash is the term that was hashed.      *)
(***************************************************************************)
EXTENDS Integers, Sequences

CONSTANTS TREE_DEPTH,  \* 20 in the code
          ZeroLeaf     \* the empty leaf, bytes32(0)

ASSUME DepthAssumption == TREE_DEPTH \in Nat \ {0}

Levels == 0..TREE_DEPTH

\* Powers of two, by recursion: the provers know nothing of ^.
Pow2[n \in Nat] == IF n = 0 THEN 1 ELSE 2 * Pow2[n - 1]

TreeCapacity == Pow2[TREE_DEPTH]

\* A hash of the sorted pair, as other Merkle libraries use.
BrokenHashNode(left, right) == {left, right}

HashNode(left, right) == <<left, right>>

\* Zeros[l]: the root of an empty subtree of height l.
Zeros[l \in Levels] ==
  IF l = 0 THEN ZeroLeaf ELSE HashNode(Zeros[l - 1], Zeros[l - 1])

\* The node of index i at level l of the tree whose leaves are s.
NodeOf(s, level, index) ==
  LET node[l \in Levels] ==
        [i \in Nat |->
           IF l = 0
           THEN IF i < Len(s) THEN s[i + 1] ELSE ZeroLeaf
           ELSE HashNode(node[l - 1][2 * i], node[l - 1][2 * i + 1])]
  IN node[level][index]

ReferenceRoot(s) == NodeOf(s, TREE_DEPTH, 0)

Bit(index, l) == (index \div Pow2[l]) % 2

\* The index read from its most significant bit.
BrokenIsRight(index, l) == Bit(index, TREE_DEPTH - 1 - l) = 1

IsRight(index, l) == Bit(index, l) = 1

\* compute_root: path[l + 1] is the sibling at level l.
ComputeRoot(leaf, index, path) ==
  LET node[l \in Levels] ==
        IF l = 0 THEN leaf
        ELSE IF IsRight(index, l - 1) THEN HashNode(path[l], node[l - 1])
        ELSE HashNode(node[l - 1], path[l])
  IN node[TREE_DEPTH]
=============================================================================
