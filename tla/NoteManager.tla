---------------------------- MODULE NoteManager ----------------------------
(***************************************************************************)
(* The memory of a NoteManager (sdk/src/NoteManager.ts) and what events    *)
(* and notes do to it, as functions on that memory: shared by the SDK      *)
(* session (PoolClient) and by the sessions the backend opens (Backend).   *)
(*                                                                         *)
(* A Merkle path is the leaves it was computed over; IncrementalMerkleTree *)
(* and ClientTree check that a path verifies exactly as PathVerifies says, *)
(* and that the root is cached forever.                                    *)
(***************************************************************************)
EXTENDS PrivacyPool, SequencesExt

EmptyView == [leaves |-> << >>,        \* allLeaves, and the leaves of the tree
              root   |-> Zero,         \* the root once computed, or Zero
              owned  |-> << >>,        \* ownedNotes: commitment -> note
              spent  |-> {}]           \* spentNullifiers

\* Zero stands for a root that has not been computed (null), and no root is null.
ASSUME ZeroIsNoRoot == Zero \notin [committed : Seq(Commitment)]

CurrentRoot(v) == IF v.root # Zero THEN v.root ELSE RootOf(v.leaves)

\* getCurrentRoot caches the root of a tree that has leaves.
RootRead(v) == IF v.leaves = << >> THEN v ELSE [v EXCEPT !.root = CurrentRoot(v)]

InsertLeaf(v, c, expectedIndex) ==
  IF Len(v.leaves) = expectedIndex THEN [v EXCEPT !.leaves = Append(@, c)] ELSE v

\* getSiblings, or zeros when the leaf is not in the tree.
PathAt(v, index) == IF index < Len(v.leaves) THEN v.leaves ELSE << >>

RefreshOwnedSiblings(v) ==
  [v EXCEPT !.owned =
     [c \in DOMAIN v.owned |->
        IF v.owned[c].index < Len(v.leaves)
        THEN [v.owned[c] EXCEPT !.path = v.leaves] ELSE v.owned[c]]]

Marked(v, notes) ==
  [v EXCEPT !.owned =
     [c \in DOMAIN v.owned |->
        IF c \in notes THEN [v.owned[c] EXCEPT !.spent = TRUE] ELSE v.owned[c]]]

OnShielded(v, e) ==
  RefreshOwnedSiblings(InsertLeaf(v, e.commitment, e.leafIndex))

\* An empty output slot is inserted too.
BrokenOnSpent(v, e) ==
  [v EXCEPT !.spent = @ \cup NonZero(Range(e.nullifiers)),
            !.leaves = @ \o e.newCommitments]

OnSpent(v, e) ==
  LET revealed == NonZero(Range(e.nullifiers))
      marked == Marked(v, {c \in DOMAIN v.owned : Nullifier(c) \in revealed})
  IN RefreshOwnedSiblings(
       [marked EXCEPT !.spent = @ \cup revealed,
                      !.leaves = WithOutputs(@, e.newCommitments)])

OnEvent(v, e) == IF e.type = "Shielded" THEN OnShielded(v, e) ELSE OnSpent(v, e)

\* The note is taken as unspent, whatever events came before it.
BrokenTracked(v, c, index) ==
  [index |-> index, path |-> PathAt(v, index), spent |-> FALSE]

Tracked(v, c, index) ==
  [index |-> index, path |-> PathAt(v, index), spent |-> Nullifier(c) \in v.spent]

TrackNote(v, c, index) ==
  [v EXCEPT !.owned =
     [d \in DOMAIN @ \cup {c} |-> IF d = c THEN Tracked(v, c, index) ELSE @[d]]]

\* An event the queries have found, or not yet.
OnQueried(v, q) == IF q.found THEN OnEvent(v, q.event) ELSE v

\* The Shielded events among the first n, and the Spent events among the first m.
Replay(n, m) ==
  FoldLeft(OnQueried, EmptyView,
           [p \in 1..Len(events) |->
              [event |-> events[p],
               found |-> p <= (IF events[p].type = "Shielded" THEN n ELSE m)]])

IndexOf(s, c) == (CHOOSE i \in 1..Len(s) : s[i] = c) - 1

\* A note is tracked before its leaf is there, at the index it may get.
BrokenTrackFound(v, found) ==
  [v EXCEPT !.owned =
     [c \in DOMAIN @ \cup found |->
        IF c \in DOMAIN @ THEN @[c]
        ELSE Tracked(v, c, IF c \in Range(v.leaves) THEN IndexOf(v.leaves, c)
                           ELSE Len(v.leaves))]]

\* Of the notes found by their hints, those in the tree and not tracked yet.
TrackFound(v, found) ==
  [v EXCEPT !.owned =
     [c \in DOMAIN @ \cup (found \cap Range(v.leaves)) |->
        IF c \in DOMAIN @ THEN @[c] ELSE Tracked(v, c, IndexOf(v.leaves, c))]]

-----------------------------------------------------------------------------
(* Selecting notes and proving *)

UnspentNotes(v, t) == {c \in DOMAIN v.owned : c.token = t /\ ~v.owned[c].spent}

\* The smallest notes of S: equal amounts sort either way.
Smallest(S) == {c \in S : \A d \in S : c.amount <= d.amount}

\* Two slots with distinct notes of S, or empty ones.
Pairs(S) == {s \in [1..2 -> S \cup {Zero}] : s[1] = s[2] => s[1] = Zero}

\* The second note is looked for among all of them.
BrokenSelectNotes(v, t, amount) ==
  {in \in [1..2 -> UnspentNotes(v, t) \cup {Zero}] :
     /\ amount > 0
     /\ in[1] \in Smallest(UnspentNotes(v, t))
     /\ IF in[1].amount >= amount THEN in[2] = Zero
        ELSE in[2] \in Smallest(UnspentNotes(v, t))
     /\ SlotAmount(in[1]) + SlotAmount(in[2]) >= amount}

\* _selectNotes: from the smallest up, at most two; for nothing it selects no
\* note, and the call throws.
SelectNotes(v, t, amount) ==
  {in \in Pairs(UnspentNotes(v, t)) :
     /\ amount > 0
     /\ in[1] \in Smallest(UnspentNotes(v, t))
     /\ IF in[1].amount >= amount THEN in[2] = Zero
        ELSE in[2] \in Smallest(UnspentNotes(v, t) \ {in[1]})
     /\ SlotAmount(in[1]) + SlotAmount(in[2]) >= amount}

PathVerifies(v, c, merkleRoot) ==
  LET n == v.owned[c] IN
  /\ n.index < Len(n.path)
  /\ merkleRoot = RootOf([n.path EXCEPT ![n.index + 1] = c])

\* nargo makes a proof: the circuit adds the inputs up in 64 bits, and their
\* paths lead to the root that was read.
Provable(v, in, merkleRoot) ==
  /\ SlotAmount(in[1]) + SlotAmount(in[2]) <= MaxU64
  /\ \A c \in NonZero(Range(in)) : PathVerifies(v, c, merkleRoot)
=============================================================================
