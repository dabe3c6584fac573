--------------------------- MODULE PoolProperties ---------------------------
(***************************************************************************)
(* What PrivacyPool must guarantee.                                        *)
(***************************************************************************)
EXTENDS PrivacyPool, SequencesExt

Unspent == {c \in knownCommitments : Nullifier(c) \notin spentNullifiers}

UnspentValue(t) ==
  SumFunctionOnSet([c \in Commitment |-> c.amount], {c \in Unspent : c.token = t})

EventType ==
  [type : {"Shielded"}, token : Tokens, netAmount : Nat, fee : Nat,
   commitment : Commitment, leafIndex : Nat]
    \cup [type : {"Spent"}, token : Tokens,
          nullifiers : [1..2 -> {Nullifier(c) : c \in Commitment} \cup {Zero}],
          newCommitments : [1..2 -> Slot], publicAmount : Nat]
    \cup [type : {"EmergencyWithdrawal"}, token : Tokens, amount : Nat]

TypeOK ==
  /\ leaves \in Seq(Commitment)
  /\ knownCommitments \subseteq Commitment
  /\ spentNullifiers \subseteq {Nullifier(c) : c \in Commitment}
  /\ whitelistedTokens \subseteq Tokens
  /\ protocolFeeBps \in 0..MAX_FEE_BPS
  /\ feeRecipient \in Addresses
  /\ paused \in BOOLEAN
  /\ balance \in [Tokens -> [Addresses -> Nat]]
  /\ events \in Seq(EventType)
  /\ totals \in [Tokens -> [deposited : Nat, committed : Nat, shieldFees : Nat,
                            released : Nat, withdrawn : Nat, kept : Nat,
                            twiceIn : Nat, twiceOut : Nat]]

(***************************************************************************)
(* The duplicate checks of shield and spend, two slots per call, keep the  *)
(* tree and the mapping in step: the tree holds the known commitments, no  *)
(* more than it can, and every one of them was inserted by one call only.  *)
(* A commitment is at two leaves only if one spend named it as both of its *)
(* outputs, which the checks do not refuse, and the leaves are neighbours. *)
(* Two leaves share one nullifier: whoever consumes one loses the other.   *)
(***************************************************************************)
InsertedByOneCall ==
  /\ Range(leaves) = knownCommitments
  /\ Len(leaves) <= Capacity
  /\ \A i, j \in 1..Len(leaves) : i < j /\ leaves[i] = leaves[j] =>
       /\ j = i + 1
       /\ \E e \in Range(events) :
            e.type = "Spent" /\ e.newCommitments = <<leaves[i], leaves[j]>>

\* The tokens that paid for notes: what the pool holds of them, and what fees of
\* shields and the admin took out of it.
Paid(t) ==
  balance[t][Pool] - totals[t].kept + totals[t].shieldFees + totals[t].withdrawn

\* What notes are worth without having been paid for, or were paid for without
\* being worth it: shields of another amount or token than their note's, and
\* spends that name one note in both input or in both output slots.
Unpaid(t) ==
  totals[t].committed - totals[t].deposited + totals[t].twiceIn - totals[t].twiceOut

(***************************************************************************)
(* The unspent notes of a token are worth what was paid for them, but for  *)
(* Unpaid, and not one unit more or less: whatever is called, by whom and  *)
(* under which fee, the two slots of a spend, a shield that commits to     *)
(* something else than it pays for, and nothing else, make the pool hold   *)
(* another amount than it owes.                                            *)
(***************************************************************************)
EscrowAccounted == \A t \in Tokens : UnspentValue(t) = Paid(t) + Unpaid(t)

(***************************************************************************)
(* circuits/spend/src/main.nr:126, "inputs == outputs + public withdrawal  *)
(* (no money created or destroyed)": what a spend takes from the worth of  *)
(* the unspent notes of a token is what it pays out.                       *)
(***************************************************************************)
SpentHere == Len(events') > Len(events) /\ Last(events').type = "Spent"

SpendConserves ==
  [][SpentHere =>
       \A t \in Tokens : UnspentValue(t) - UnspentValue(t)'
                           = totals'[t].released - totals[t].released]_poolVars

\* What a client makes of an event (NoteManager.syncFromChain): view.leaves is the
\* tree it has rebuilt, view.spent the nullifiers it has seen.
Applied(view, e) ==
  CASE e.type = "Shielded" /\ e.leafIndex = Len(view.leaves) ->
         [view EXCEPT !.leaves = Append(@, e.commitment)]
    [] e.type = "Spent" ->
         [leaves |-> WithLeaf(WithLeaf(view.leaves, e.newCommitments[1]),
                              e.newCommitments[2]),
          spent |-> view.spent \cup NonZero(Range(e.nullifiers))]
    [] OTHER -> view

Replayed == FoldLeft(Applied, [leaves |-> << >>, spent |-> {}], events)

(***************************************************************************)
(* Replaying the events in log order, a Shielded at the leafIndex it names *)
(* and the non-zero outputs of a Spent at the next free leaves, rebuilds   *)
(* the contract's tree and nullifiers: what NoteManager.syncFromChain and  *)
(* every client tree rely on.                                              *)
(***************************************************************************)
LogRebuildsTree == Replayed = [leaves |-> leaves, spent |-> spentNullifiers]

(***************************************************************************)
(* An owner can always leave with a whole note: whatever the tree, other   *)
(* owners and the fee have become, unshielding all of an unspent note of a *)
(* listed token is accepted while the pool is not paused and holds the     *)
(* note's amount.  In particular a full tree never traps a note.           *)
(***************************************************************************)
FullExit(c, to) ==
  LET in == <<c, Zero>>
  IN SpendAccepted(in, SpendCall(Len(leaves), c.token, in, <<Zero, Zero>>,
                                 c.amount, to))

WholeNoteCanExit ==
  \A c \in Unspent, to \in Accounts :
    /\ ~paused
    /\ c.token \in whitelistedTokens
    /\ c.amount <= balance[c.token][Pool]
    => FullExit(c, to)

(***************************************************************************)
(* The pool is a note ledger: seen through its mappings and its event log, *)
(* every call deposits one new note, transfers live notes of one owner in  *)
(* one token, paying out what the output slots leave over of the input     *)
(* slots, or changes nothing of the ledger.                                *)
(***************************************************************************)
Ledger == INSTANCE NoteLedger WITH
  Notes <- Commitment, None <- Zero, Payments <- Amounts,
  issued <- knownCommitments,
  consumed <- {n.commitment : n \in spentNullifiers},
  deposited <- [t \in Tokens |-> totals[t].deposited],
  released <- [t \in Tokens |-> totals[t].released]

ImplementsLedger == Ledger!LedgerSpec
=============================================================================
