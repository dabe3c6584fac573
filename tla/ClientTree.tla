----------------------------- MODULE ClientTree -----------------------------
(***************************************************************************)
(* class MerkleTree of sdk/src/NoteManager.ts beside the contract's tree.  *)
(* The client inserts the contract's leaves in order, some time after the  *)
(* contract did, and caches the nodes it computes; the spend circuit gets  *)
(* its paths (getSiblings) and its root (getRoot).                         *)
(***************************************************************************)
EXTENDS IncrementalMerkleTree, Functions

VARIABLES leaves,     \* the leaves the client has inserted
          nodeCache   \* a partial function from <<level, index>> to nodes

clientVars == <<leaves, nodeCache>>

-----------------------------------------------------------------------------
Empty(level, index) == index * Pow2[level] >= Len(leaves)

Ancestor(level, index, k) == <<k, index \div Pow2[k - level]>>

\* _getNode: the zero of an empty subtree, a leaf, a cached node, or the hash
\* of the two nodes below.
Node(level, index) ==
  LET node[l \in Levels] ==
        [i \in Nat |->
           IF Empty(l, i) THEN Zeros[l]
           ELSE IF l = 0 THEN leaves[i + 1]
           ELSE IF <<l, i>> \in DOMAIN nodeCache THEN nodeCache[<<l, i>>]
           ELSE HashNode(node[l - 1][2 * i], node[l - 1][2 * i + 1])]
  IN node[level][index]

\* What _getNode(level, index) adds to the cache: the nodes it reaches without
\* passing an empty subtree or a cached node, itself included.
Computed(level, index) ==
  {at \in (1..level) \X (0..TreeCapacity - 1) :
     /\ Ancestor(at[1], at[2], level) = <<level, index>>
     /\ ~Empty(at[1], at[2])
     /\ \A k \in at[1]..level : Ancestor(at[1], at[2], k) \notin DOMAIN nodeCache}

CacheWith(keys) ==
  [k \in DOMAIN nodeCache \cup keys |->
     IF k \in DOMAIN nodeCache THEN nodeCache[k] ELSE Node(k[1], k[2])]

Sibling(index, level) ==
  LET i == index \div Pow2[level] IN IF i % 2 = 0 THEN i + 1 ELSE i - 1

\* siblings[l + 1] is the sibling at level l.
Siblings(index) ==
  [l \in 1..TREE_DEPTH |-> Node(l - 1, Sibling(index, l - 1))]

-----------------------------------------------------------------------------
ClientInit ==
  /\ TreeInit
  /\ leaves = << >>
  /\ nodeCache = << >>

\* The keys insert deletes, for a leaf at position index: levels below the
\* depth.  The key "root" it deletes as well is never written.
BrokenInvalidated(index) ==
  {Ancestor(0, index, l) : l \in 0..TREE_DEPTH - 2}

\* The root is evicted, but not the nodes below it.
BrokenRootInvalidated(index) == {Ancestor(0, index, TREE_DEPTH)}

Invalidated(index) == {Ancestor(0, index, l) : l \in 0..TREE_DEPTH - 1}

\* insert: the client learns of the contract's next leaf.
ClientInsert ==
  /\ Len(leaves) < nextIndex
  /\ leaves' = Append(leaves, inserted[Len(leaves) + 1])
  /\ nodeCache' = [k \in DOMAIN nodeCache \ Invalidated(Len(leaves)) |->
                     nodeCache[k]]
  /\ UNCHANGED treeVars

\* getRoot
GetRoot ==
  /\ nodeCache' = CacheWith(Computed(TREE_DEPTH, 0))
  /\ UNCHANGED <<leaves, treeVars>>

\* getSiblings
GetSiblings(index) ==
  /\ index < Len(leaves)
  /\ nodeCache' = CacheWith(UNION {Computed(l, Sibling(index, l)) :
                                     l \in 0..TREE_DEPTH - 1})
  /\ UNCHANGED <<leaves, treeVars>>

ClientNext ==
  \/ \E leaf \in Leaf : Insert(leaf) /\ UNCHANGED clientVars
  \/ ClientInsert
  \/ GetRoot
  \/ \E index \in 0..TreeCapacity - 1 : GetSiblings(index)

ClientSpec == ClientInit /\ [][ClientNext]_<<treeVars, clientVars>>

-----------------------------------------------------------------------------
ClientRoot == Node(TREE_DEPTH, 0)

(***************************************************************************)
(* Whatever was cached and deleted before, the path the client gives for   *)
(* any of its leaves is the one the circuit accepts against the root the   *)
(* contract had when it held those leaves: with all of the contract's      *)
(* leaves, against the contract's root.                                    *)
(***************************************************************************)
SiblingsVerify ==
  \A i \in 1..Len(leaves) :
    ComputeRoot(leaves[i], i - 1, Siblings(i - 1)) = ReferenceRoot(leaves)

(***************************************************************************)
(* The root the client reports is one the contract has had since the       *)
(* client started: never a mixture of old and new nodes.                   *)
(***************************************************************************)
RootWasOnChain ==
  \E n \in 0..Len(leaves) : ClientRoot = ReferenceRoot(SubSeq(inserted, 1, n))

(***************************************************************************)
(* The client's tree mirrors the contract's: once it has every leaf, its   *)
(* root is the contract's.                                                 *)
(***************************************************************************)
RootMirrorsContract == leaves = inserted => ClientRoot = root
=============================================================================
