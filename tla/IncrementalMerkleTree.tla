----------------------- MODULE IncrementalMerkleTree -----------------------
(***************************************************************************)
(* contracts/contracts/libraries/IncrementalMerkleTree.sol: the append-    *)
(* only tree that keeps one node per level, and its root.                  *)
(***************************************************************************)
EXTENDS MerkleHash

CONSTANT Leaf          \* the commitments inserted

ASSUME LeafAssumption == ZeroLeaf \notin Leaf

VARIABLES nextIndex,
          root,
          filledSubtrees,  \* filledSubtrees[l]: the last left node at level l
          inserted         \* history: the leaves inserted so far

treeVars == <<nextIndex, root, filledSubtrees, inserted>>

TreeInit ==
  /\ nextIndex = 0
  /\ root = Zeros[TREE_DEPTH]
  /\ filledSubtrees = [l \in 0..TREE_DEPTH - 1 |-> Zeros[l]]
  /\ inserted = << >>

\* The loop of insert: what its first l iterations leave in currentLevelHash and in
\* filledSubtrees when the leaf goes in at position index.
BrokenClimb(leaf, index, filled) ==
  LET at[l \in Levels] ==
        IF l = 0 THEN [hash |-> leaf, filled |-> filled]
        ELSE LET below == at[l - 1] IN
             IF Bit(index, l - 1) = 0
             THEN [hash |-> HashNode(below.hash, Zeros[l - 1]),
                   filled |-> below.filled]
             ELSE [hash |-> HashNode(below.filled[l - 1], below.hash),
                   filled |-> [below.filled EXCEPT ![l - 1] = below.hash]]
  IN at[TREE_DEPTH]

Climb(leaf, index, filled) ==
  LET at[l \in Levels] ==
        IF l = 0 THEN [hash |-> leaf, filled |-> filled]
        ELSE LET below == at[l - 1] IN
             IF Bit(index, l - 1) = 0
             THEN [hash |-> HashNode(below.hash, Zeros[l - 1]),
                   filled |-> [below.filled EXCEPT ![l - 1] = below.hash]]
             ELSE [hash |-> HashNode(below.filled[l - 1], below.hash),
                   filled |-> below.filled]
  IN at[TREE_DEPTH]

BrokenHasRoom == nextIndex <= TreeCapacity

HasRoom == nextIndex < TreeCapacity

Insert(leaf) ==
  LET top == Climb(leaf, nextIndex, filledSubtrees) IN
  /\ HasRoom
  /\ filledSubtrees' = top.filled
  /\ root' = top.hash
  /\ nextIndex' = nextIndex + 1
  /\ inserted' = Append(inserted, leaf)

TreeNext == \E leaf \in Leaf : Insert(leaf)

TreeSpec == TreeInit /\ [][TreeNext]_treeVars

-----------------------------------------------------------------------------
TreeTypeOK ==
  /\ nextIndex \in 0..TreeCapacity
  /\ inserted \in Seq(Leaf)
  /\ Len(inserted) = nextIndex
  /\ DOMAIN filledSubtrees = 0..TREE_DEPTH - 1

(***************************************************************************)
(* Keeping one left node per level is enough: after any number of          *)
(* insertions the root is that of the whole tree over the inserted leaves. *)
(***************************************************************************)
RootIsReference == root = ReferenceRoot(inserted)

(***************************************************************************)
(* The root commits to the leaves and to their order: no other sequence of *)
(* commitments, shorter or longer, has it.  The pool's current-root check  *)
(* relies on it, and so does PrivacyPool's RootOf.                         *)
(***************************************************************************)
Histories == UNION {[1..n -> Leaf] : n \in 0..TreeCapacity}

RootBindsLeaves ==
  \A s \in Histories : ReferenceRoot(s) = root => s = inserted

(***************************************************************************)
(* The circuit accepts a commitment at a position exactly when it is the   *)
(* leaf there: no path over nodes of the tree proves any other.            *)
(***************************************************************************)
NodesAt(l) == {NodeOf(inserted, l, i) : i \in 0..Pow2[TREE_DEPTH - l] - 1}

Paths == {p \in [1..TREE_DEPTH -> UNION {NodesAt(l) : l \in 0..TREE_DEPTH - 1}] :
            \A l \in 1..TREE_DEPTH : p[l] \in NodesAt(l - 1)}

OnlyMembersVerify ==
  \A leaf \in Leaf, index \in 0..TreeCapacity - 1 :
    (\E p \in Paths : ComputeRoot(leaf, index, p) = root)
      <=> (index < nextIndex /\ inserted[index + 1] = leaf)
=============================================================================
