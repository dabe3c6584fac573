------------------------- MODULE BackendProperties -------------------------
(***************************************************************************)
(* What the backend must guarantee.                                        *)
(***************************************************************************)
EXTENDS Backend

IsHint(h) == h.key \in Keys /\ h.commitment \in Commitment

BackendTypeOK ==
  /\ \A h \in noteHints \cup memCache \cup saving \cup dropped : IsHint(h)
  /\ saving \subseteq memCache
  /\ \A r \in InFlight :
       /\ requests[r].pc \in {"synced", "proving", "submitted", "mined", "recorded",
                             "orphaned"}
       /\ requests[r].key \in Keys
       /\ "upto" \in DOMAIN requests[r] => requests[r].upto \in 0..Len(events)

-----------------------------------------------------------------------------
(***************************************************************************)
(* The proof in an answer is a proof of the parameters beside it: whatever *)
(* the session hears while nargo runs, the root that a withdrawal reads    *)
(* again for its answer is the one it proved against.  That is so only     *)
(* because the tree never recomputes a root it has cached.                 *)
(***************************************************************************)
AnswerIsProved ==
  \A a \in answers :
    /\ a.call = a.proved
    /\ "merkleRoot" \in DOMAIN a.call => SpendCircuit(a.in, a.call)

(***************************************************************************)
(* The balance a request reports and spends from is of notes of its key    *)
(* that are in the tree and not spent, as of the last event its session    *)
(* heard: documents of payments that were proved and never accepted, their *)
(* inputs having gone to another payment, do not count.                    *)
(***************************************************************************)
SpentBy(n) == UNION {Range(e.nullifiers) : e \in {f \in Range(SubSeq(events, 1, n)) : f.type = "Spent"}}

BalanceIsLive ==
  \A r \in InFlight : "view" \in DOMAIN requests[r] =>
    LET req == requests[r] IN
    \A t \in Tokens : \A c \in UnspentNotes(req.view, t) :
      /\ c.owner = req.key
      /\ c \in Range(leaves)
      /\ Nullifier(c) \notin SpentBy(req.upto)

(***************************************************************************)
(* Whoever is paid can spend: an unspent note made by a route that keeps   *)
(* its salt is found, and can be proved, by the next session of its owner, *)
(* after any restart, unless the database was away or failed when the note *)
(* was made, or the process ended before the save.                         *)
(***************************************************************************)
SaltNeverKept(c) ==
  \E a \in answers : c \in Made(a.call) \ Kept(a.route, a.call)

SaltPending(c) ==
  \/ Hint(c.owner, c) \in saving
  \/ \E r \in Proved : c \in Made(requests[r].call)

FoundByNextSession ==
  \A c \in Range(leaves) :
    \/ Nullifier(c) \in spentNullifiers
    \/ SaltNeverKept(c) \/ SaltPending(c)
    \/ Hint(c.owner, c) \in dropped
    \/ LET v == TrackFound(Replay(Len(events), Len(events)), HintsOf(c.owner)) IN
         c \in UnspentNotes(v, c.token) /\ PathVerifies(v, c, RootOf(leaves))

(***************************************************************************)
(* The payments that /v1/employees lists were made: each is a transaction  *)
(* the pool has accepted, whatever failed or restarted since; and a caller *)
(* of /v1/pay who is told "done" is told of one that is listed.  (A        *)
(* payment may be made and not listed: the route records it last.)         *)
(***************************************************************************)
PaymentsWereMade ==
  /\ \A p \in payments : \E i \in 1..Len(events) :
       /\ events[i].type = "Spent"
       /\ events[i].nullifiers = p.nullifiers
       /\ events[i].newCommitments = p.newCommitments
  /\ \A a \in answers : a.route = "payroll" => a.call \in payments
=============================================================================
