-------------------------- MODULE ClientProperties --------------------------
(***************************************************************************)
(* What a StealthPaySDK session must guarantee, and what its comments and  *)
(* documents say it does.                                                  *)
(***************************************************************************)
EXTENDS PoolClient, PoolProperties

ManagedNote == [index : 0..Capacity, path : Seq(Commitment), spent : BOOLEAN]

ClientTypeOK ==
  /\ session \in {"new", "queried", "replayed", "listening", "ready", "deaf"}
  /\ queried \in 0..Len(events)
  /\ heard \in [{"Shielded", "Spent"} -> 0..Len(events)]
  /\ view.leaves \in Seq(Commitment)
  /\ DOMAIN view.owned \subseteq Commitment
  /\ \A c \in DOMAIN view.owned : view.owned[c] \in ManagedNote
  /\ \A s \in InFlight : ops[s].pc \in {"proving", "submitted", "orphaned", "mined"}
  /\ \A h \in hints : h.commitment \in Commitment

(***************************************************************************)
(* The index a note is tracked at, taken from a receipt, from a hint or,   *)
(* for change, from the size of the local tree after the proof was         *)
(* awaited, is the position of its leaf in the contract, as long as the    *)
(* local tree has not lost a leaf.  For change this holds only because the *)
(* contract insists on its current root.                                   *)
(***************************************************************************)
TrackedWhereInserted ==
  IsPrefix(view.leaves, leaves) =>
    \A c \in DOMAIN view.owned :
      LET n == view.owned[c] IN n.index < Len(leaves) /\ leaves[n.index + 1] = c

(***************************************************************************)
(* A note is marked spent only if the contract has its nullifier, and a    *)
(* note whose nullifier the client has heard of is never counted in the    *)
(* private balance: in whatever order a receipt, a hint and the two        *)
(* subscriptions bring the news, from this session or from another one.    *)
(***************************************************************************)
SpentFlagIsRight ==
  \A c \in DOMAIN view.owned :
    /\ view.owned[c].spent => Nullifier(c) \in spentNullifiers
    /\ Nullifier(c) \in view.spent => view.owned[c].spent

(***************************************************************************)
(* What the client sends to the contract satisfies the spend circuit: the  *)
(* notes it selected, the outputs it made up and the root it had read are  *)
(* consistent, even when its tree has diverged from the contract's.        *)
(***************************************************************************)
SubmittedProvable ==
  \A s \in InFlight :
    ops[s].kind # "shield" => SpendCircuit(ops[s].in, ops[s].call)

(***************************************************************************)
(* Clients keep what the contract leaves to its callers: a deposit pays    *)
(* for the note it commits to, selection and change never name a note in   *)
(* two slots, so no commitment is at two leaves, and the pool holds what   *)
(* the unspent notes are worth, whatever calls race or are repeated.       *)
(***************************************************************************)
NotesPaidFor ==
  /\ IsInjective(leaves)
  /\ \A t \in Tokens : UnspentValue(t) = Paid(t)

-----------------------------------------------------------------------------
(***************************************************************************)
(* NoteManager.ts:190: the subscription keeps the tree up to date: once    *)
(* every event has been delivered, the local tree is the contract's.       *)
(***************************************************************************)
TreeKeptUpToDate ==
  session = "ready" /\ heard = [Shielded |-> Len(events), Spent |-> Len(events)]
    => view.leaves = leaves

(***************************************************************************)
(* StealthPaySDK.ts:231: the receiver of a private send can discover the   *)
(* note: a hint is addressed to the key its owner scans with.              *)
(***************************************************************************)
HintsReachOwner == \A h \in hints : h.to = EncryptionKey(h.commitment.owner)
=============================================================================
