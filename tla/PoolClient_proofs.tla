-------------------------- MODULE PoolClient_proofs --------------------------
(***************************************************************************)
(* What holds of PoolClient for any pool, notes and number of calls in     *)
(* flight.                                                                 *)
(***************************************************************************)
EXTENDS ClientProperties, PrivacyPool_proofs

\* What a subscription has not delivered yet is not in the local tree.
Unheard(log, reached, kept) ==
  \A p \in 1..Len(log) :
    p > reached[log[p].type] => OutsOf(log[p]) \cap Range(kept) = {}

SessionInv ==
  /\ session \in {"new", "queried", "replayed", "listening", "ready", "deaf"}
  /\ queried \in 0..Len(events)
  /\ heard \in [{"Shielded", "Spent"} -> 0..Len(events)]
  /\ session \in {"new", "queried"} => view = EmptyView
  /\ session \in {"listening", "ready", "deaf"} => Unheard(events, heard, view.leaves)

MemoryInv ==
  /\ MemoryRight(view, leaves, spentNullifiers)
  /\ \A c \in DOMAIN view.owned : c.owner = Me

HintsInv ==
  \A h \in hints : h.commitment \in Commitment
                   /\ (h.to = EncryptionKey(Me) => h.commitment.owner = Me)

Stages == {"proving", "submitted", "orphaned", "mined"}

IsCall(op) ==
  op = [kind |-> op.kind, pc |-> op.pc, in |-> op.in, call |-> op.call,
        creates |-> op.creates, note |-> op.note, index |-> op.index]

\* What a call was given: it never changes.
ShieldGiven(op) ==
  op.in = <<Zero, Zero>> /\ op.note \in Commitment /\ op.call = ShieldParams(op.note)

SpendGiven(op, tree) ==
  /\ op.in \in Pairs(Range(tree)) /\ op.in[1] # Zero
  /\ SpendCircuit(op.in, op.call)
  /\ op.call.token = op.in[1].token
  /\ op.call.nullifiers = [i \in 1..2 |-> SlotNullifier(op.in[i])]
  /\ op.call.newCommitments \in Pairs(Commitment)
  /\ op.call.publicAmount \in Nat
  /\ op.call.recipient \in Accounts \cup {Zero}
  /\ \/ op.kind = "unshield" /\ op.call.newCommitments[1] = op.note
                             /\ op.call.newCommitments[2] = Zero
     \/ op.kind = "privateSend" /\ op.call.newCommitments[1] # Zero
                                /\ op.call.newCommitments[2] = op.note

CallGiven(op, tree) ==
  /\ op.note \in Slot /\ (op.note # Zero => op.note.owner = Me)
  /\ \/ op.kind = "shield" /\ ShieldGiven(op)
     \/ op.kind \in {"unshield", "privateSend"} /\ SpendGiven(op, tree)

\* The root a call names is one the local tree had when it held n leaves.
RootWas(op, kept, n) == op.call.merkleRoot = RootOf(SubSeq(kept, 1, n))

ChangeIndexAt(op, m) == op.index = IF op.kind = "privateSend" THEN m + 1 ELSE m

\* The change was expected at the end of a local tree no shorter than that.
IndexGuessed(op, kept) ==
  \E n \in 0..Len(kept) : \E m \in n..Len(kept) :
    RootWas(op, kept, n) /\ ChangeIndexAt(op, m)

OpRight(op, tree, dead, kept) ==
  /\ IsCall(op) /\ op.pc \in Stages /\ CallGiven(op, tree)
  /\ op.pc = "proving" =>
       op.kind # "shield" /\ \E n \in 0..Len(kept) : RootWas(op, kept, n)
  /\ op.pc = "submitted" /\ op.kind # "shield" => IndexGuessed(op, kept)
  /\ op.pc = "mined" =>
       /\ op.note # Zero => /\ op.index \in Nat /\ op.note \in Range(tree)
                            /\ IsLeafAt(tree, op.index, op.note)
       /\ \A c \in NonZero(Range(op.in)) : Nullifier(c) \in dead

OpsInv ==
  /\ DOMAIN ops = Slots
  /\ \A s \in Slots :
       ops[s] = Idle \/ OpRight(ops[s], leaves, spentNullifiers, view.leaves)

\* Only a session that is ready, or was, has calls in flight of its own.
Settled ==
  session \notin {"ready", "deaf"} => \A s \in Slots : ops[s].pc \in {"idle", "orphaned"}

CInv == PoolInv /\ SessionInv /\ MemoryInv /\ HintsInv /\ OpsInv /\ Settled

\* What the pool and the local tree held, they hold, and more.
Grows ==
  /\ leaves \in Seq(Commitment) /\ leaves' \in Seq(Commitment) /\ Extends(leaves', leaves)
  /\ spentNullifiers \subseteq spentNullifiers'
  /\ view.leaves \in Seq(Commitment) /\ view'.leaves \in Seq(Commitment)
  /\ Extends(view'.leaves, view.leaves)

(***************************************************************************)
(* The invariant gives what the run checks.                                *)
(***************************************************************************)
LEMMA InvariantImplies ==
  CInv => ClientTypeOK /\ TrackedWhereInserted /\ SpentFlagIsRight /\ SubmittedProvable
<1> SUFFICES ASSUME CInv
             PROVE  ClientTypeOK /\ TrackedWhereInserted /\ SpentFlagIsRight /\ SubmittedProvable
  OBVIOUS
<1>0. /\ IInv /\ TypeOK /\ TreeHoldsKnownOnce
      /\ MemoryRight(view, leaves, spentNullifiers) /\ LeavesRight(view.leaves, leaves)
      /\ leaves \in Seq(Commitment) /\ Len(leaves) \in Nat /\ Len(leaves) <= Capacity
      /\ view.leaves \in Seq(Commitment) /\ Len(view.leaves) \in Nat
  <2>1. IInv /\ MemoryRight(view, leaves, spentNullifiers)
    BY DEF CInv, PoolInv, MemoryInv
  <2>2. TypeOK /\ TreeHoldsKnownOnce /\ LeavesRight(view.leaves, leaves)
    BY <2>1 DEF IInv, MemoryRight
  <2>3. /\ leaves \in Seq(Commitment) /\ Len(leaves) <= Capacity
        /\ view.leaves \in Seq(Commitment)
    BY <2>2 DEF TypeOK, TreeHoldsKnownOnce, LeavesRight
  <2> QED BY <2>1, <2>2, <2>3
<1>1. Len(view.leaves) <= Len(leaves)
  BY <1>0, NoMoreLeaves DEF LeavesRight
<1>2. ASSUME NEW c \in DOMAIN view.owned
      PROVE  /\ NoteRight(view.owned[c], c, view.leaves, view.spent, leaves, spentNullifiers)
             /\ view.owned[c] \in ManagedNote /\ c \in Commitment
  <2> DEFINE n == view.owned[c]
  <2>1. NoteRight(n, c, view.leaves, view.spent, leaves, spentNullifiers)
    BY <1>0 DEF MemoryRight
  <2>2. c \in Range(leaves) /\ c \in Commitment
    BY <1>0 DEF MemoryRight, Range
  <2> HIDE DEF n
  <2>3. n \in Note /\ n.index \in Nat /\ (n.index < Len(leaves) \/ n.index < Len(view.leaves))
    BY <2>1 DEF NoteRight, IsLeafAt, Note
  <2>4. Capacity \in Nat
    BY PoolAssumption
  <2>5. n.index \in 0..Capacity
    BY <1>0, <1>1, <2>3, <2>4
  <2>6. n \in ManagedNote
    BY <2>3, <2>5 DEF Note, ManagedNote
  <2> QED BY <2>1, <2>2, <2>6 DEF n
<1>3. ASSUME NEW s \in InFlight PROVE OpRight(ops[s], leaves, spentNullifiers, view.leaves)
  BY DEF CInv, OpsInv, InFlight
<1>4. ClientTypeOK
  <2>1. \A s \in InFlight : ops[s].pc \in {"proving", "submitted", "orphaned", "mined"}
    BY <1>3 DEF OpRight, Stages
  <2>2. DOMAIN view.owned \subseteq Commitment
    BY <1>2
  <2> QED BY <1>0, <1>2, <2>1, <2>2 DEF CInv, SessionInv, HintsInv, ClientTypeOK
<1>5. SpentFlagIsRight
  BY <1>2 DEF NoteRight, SpentFlagIsRight
<1>6. SubmittedProvable
  <2> SUFFICES ASSUME NEW s \in InFlight, ops[s].kind # "shield"
               PROVE  SpendCircuit(ops[s].in, ops[s].call)
    BY DEF SubmittedProvable
  <2> QED BY <1>3 DEF OpRight, CallGiven, SpendGiven
<1>7. TrackedWhereInserted
  <2> SUFFICES ASSUME IsPrefix(view.leaves, leaves), NEW c \in DOMAIN view.owned
               PROVE  view.owned[c].index < Len(leaves) /\ leaves[view.owned[c].index + 1] = c
    BY DEF TrackedWhereInserted
  <2> DEFINE n == view.owned[c]
  <2>1. NoteRight(n, c, view.leaves, view.spent, leaves, spentNullifiers)
    BY <1>2
  <2> HIDE DEF n
  <2>2. n.index \in Nat
    BY <2>1 DEF NoteRight, Note
  <2>3. Extends(leaves, view.leaves)
    <3>1. SubSeq(view.leaves, 1, Len(view.leaves)) = SubSeq(leaves, 1, Len(view.leaves))
      BY DEF IsPrefix
    <3>2. \A j \in 1..Len(view.leaves) :
            SubSeq(view.leaves, 1, Len(view.leaves))[j] = view.leaves[j]
            /\ SubSeq(leaves, 1, Len(view.leaves))[j] = leaves[j]
      BY <1>0, <1>1
    <3> QED BY <1>1, <3>1, <3>2 DEF Extends
  <2>4. IsLeafAt(leaves, n.index, c)
    BY <1>0, <2>1, <2>2, <2>3, LeafStays DEF NoteRight
  <2> QED BY <2>4 DEF IsLeafAt, n
<1> QED BY <1>4, <1>5, <1>6, <1>7

(***************************************************************************)
(* A call stays right while the pool and the local tree grow.              *)
(***************************************************************************)
LEMMA OpStays ==
  ASSUME Grows, NEW op, OpRight(op, leaves, spentNullifiers, view.leaves)
  PROVE  OpRight(op, leaves', spentNullifiers', view'.leaves)
<1>1. Range(leaves) \subseteq Range(leaves')
  BY DEF Grows, Extends, Range
<1>2. CallGiven(op, leaves')
  <2>1. SpendGiven(op, leaves) => SpendGiven(op, leaves')
    BY <1>1 DEF SpendGiven, Pairs
  <2> QED BY <2>1 DEF OpRight, CallGiven
<1>3. \A n \in 0..Len(view.leaves) :
        n \in 0..Len(view'.leaves)
        /\ SubSeq(view'.leaves, 1, n) = SubSeq(view.leaves, 1, n)
  BY SameBeginning DEF Grows
<1>4. op.pc = "proving" =>
        op.kind # "shield" /\ \E n \in 0..Len(view'.leaves) : RootWas(op, view'.leaves, n)
  BY <1>3 DEF OpRight, RootWas
<1>5. op.pc = "submitted" /\ op.kind # "shield" => IndexGuessed(op, view'.leaves)
  <2> SUFFICES ASSUME op.pc = "submitted", op.kind # "shield" PROVE IndexGuessed(op, view'.leaves)
    OBVIOUS
  <2>1. PICK n \in 0..Len(view.leaves) : \E m \in n..Len(view.leaves) :
          RootWas(op, view.leaves, n) /\ ChangeIndexAt(op, m)
    BY DEF OpRight, IndexGuessed
  <2>2. PICK m \in n..Len(view.leaves) : RootWas(op, view.leaves, n) /\ ChangeIndexAt(op, m)
    BY <2>1
  <2>3. m \in n..Len(view'.leaves)
    BY <1>3, <2>2 DEF Grows, Extends
  <2> QED BY <1>3, <2>2, <2>3 DEF IndexGuessed, RootWas
<1>6. op.pc = "mined" /\ op.note # Zero =>
        op.index \in Nat /\ op.note \in Range(leaves') /\ IsLeafAt(leaves', op.index, op.note)
  BY <1>1, LeafStays DEF OpRight, Grows
<1>7. op.pc = "mined" => \A c \in NonZero(Range(op.in)) : Nullifier(c) \in spentNullifiers'
  BY DEF OpRight, Grows
<1> QED BY <1>2, <1>4, <1>5, <1>6, <1>7 DEF OpRight

(***************************************************************************)
(* One call changes, and the others stay right.                            *)
(***************************************************************************)
LEMMA OpsSet ==
  ASSUME OpsInv, Grows, NEW s \in Slots, NEW op,
         op = Idle \/ OpRight(op, leaves', spentNullifiers', view'.leaves),
         ops' = [ops EXCEPT ![s] = op]
  PROVE  OpsInv'
<1>1. DOMAIN ops' = Slots /\ \A q \in Slots : ops'[q] = IF q = s THEN op ELSE ops[q]
  BY DEF OpsInv
<1>2. ASSUME NEW q \in Slots
      PROVE  ops'[q] = Idle \/ OpRight(ops'[q], leaves', spentNullifiers', view'.leaves)
  <2>1. CASE q = s BY <1>1, <2>1
  <2>2. CASE q # s
    <3>1. ops'[q] = ops[q] BY <1>1, <2>2
    <3>2. ops[q] = Idle \/ OpRight(ops[q], leaves, spentNullifiers, view.leaves)
      BY DEF OpsInv
    <3> QED BY <3>1, <3>2, OpStays
  <2> QED BY <2>1, <2>2
<1> QED BY <1>1, <1>2 DEF OpsInv

(***************************************************************************)
(* No call changes.                                                        *)
(***************************************************************************)
LEMMA OpsSame ==
  ASSUME OpsInv, Grows, UNCHANGED ops
  PROVE  OpsInv'
<1>1. ASSUME NEW q \in Slots
      PROVE  ops[q] = Idle \/ OpRight(ops[q], leaves', spentNullifiers', view'.leaves)
  <2>1. ops[q] = Idle \/ OpRight(ops[q], leaves, spentNullifiers, view.leaves)
    BY DEF OpsInv
  <2> QED BY <2>1, OpStays
<1> QED BY <1>1 DEF OpsInv

(***************************************************************************)
(* One call changes, in a session that is ready, or one left behind.       *)
(***************************************************************************)
LEMMA SettledSet ==
  ASSUME OpsInv, Settled, UNCHANGED session, NEW s \in Slots, NEW op,
         ops' = [ops EXCEPT ![s] = op],
         ops[s].pc \in {"idle", "orphaned"} => op.pc \in {"idle", "orphaned"}
                                              \/ session \in {"ready", "deaf"}
  PROVE  Settled'
<1>1. \A q \in Slots : ops'[q] = IF q = s THEN op ELSE ops[q]
  BY DEF OpsInv
<1> QED BY <1>1 DEF Settled

-----------------------------------------------------------------------------
(***************************************************************************)
(* The types the steps need.                                               *)
(***************************************************************************)
LEMMA Typed ==
  ASSUME CInv
  PROVE  /\ TypeOK /\ events \in Seq(EventType) /\ Len(events) \in Nat
         /\ leaves \in Seq(Commitment) /\ view.leaves \in Seq(Commitment)
         /\ Range(leaves) = knownCommitments
<1>1. TypeOK /\ TreeHoldsKnownOnce /\ MemoryRight(view, leaves, spentNullifiers)
  BY DEF CInv, PoolInv, IInv, MemoryInv
<1>2. /\ events \in Seq(EventType) /\ leaves \in Seq(Commitment)
      /\ view.leaves \in Seq(Commitment) /\ Range(leaves) = knownCommitments
  BY <1>1 DEF TypeOK, TreeHoldsKnownOnce, MemoryRight, LeavesRight
<1> QED BY <1>1, <1>2

(***************************************************************************)
(* A step of the client alone, the local tree as it was or longer.         *)
(***************************************************************************)
LEMMA ClientGrows ==
  ASSUME CInv, UNCHANGED poolVars,
         view'.leaves \in Seq(Commitment), Extends(view'.leaves, view.leaves)
  PROVE  Grows /\ PoolInv' /\ UNCHANGED <<events, leaves, spentNullifiers, knownCommitments>>
<1>1. PoolInv' /\ UNCHANGED <<events, leaves, spentNullifiers, knownCommitments>>
  BY PoolStutters DEF CInv
<1>2. Extends(leaves, leaves) /\ leaves \in Seq(Commitment) /\ view.leaves \in Seq(Commitment)
  BY Typed DEF Extends
<1> QED BY <1>1, <1>2 DEF Grows

(***************************************************************************)
(* The first query remembers how long the log was.                         *)
(***************************************************************************)
LEMMA QueryShieldedInv == CInv /\ QueryShielded => CInv'
<1> SUFFICES ASSUME CInv, QueryShielded PROVE CInv'
  OBVIOUS
<1>1. /\ session = "new" /\ session' = "queried" /\ queried' = Len(events)
      /\ UNCHANGED <<heard, view, ops, hints, poolVars>>
  BY DEF QueryShielded
<1>2. Extends(view.leaves, view.leaves) /\ view.leaves \in Seq(Commitment) /\ Len(events) \in Nat
  BY Typed DEF Extends
<1>3. Grows /\ PoolInv' /\ UNCHANGED <<events, leaves, spentNullifiers>>
  BY <1>1, <1>2, ClientGrows
<1>4. OpsInv'
  BY <1>1, <1>3, OpsSame DEF CInv
<1>5. SessionInv'
  BY <1>1, <1>2, <1>3 DEF CInv, SessionInv
<1>6. Settled'
  BY <1>1 DEF CInv, Settled
<1> QED BY <1>1, <1>3, <1>4, <1>5, <1>6 DEF CInv, MemoryInv, HintsInv

(***************************************************************************)
(* The second query replays what both have found.                          *)
(***************************************************************************)
LEMMA QuerySpentInv == CInv /\ QuerySpent => CInv'
<1> SUFFICES ASSUME CInv, QuerySpent PROVE CInv'
  OBVIOUS
<1>1. /\ session = "queried" /\ session' = "replayed" /\ queried' = 0
      /\ view' = Replay(queried, Len(events))
      /\ UNCHANGED <<heard, ops, hints, poolVars>>
  BY DEF QuerySpent
<1>2. events \in Seq(EventType) /\ leaves \in Seq(Commitment) /\ Len(events) \in Nat
  BY Typed
<1>3. MemoryRight(view', leaves, spentNullifiers) /\ DOMAIN view'.owned = {}
  BY <1>1, <1>2, ReplayRight DEF CInv, PoolInv, LogRight
<1>4. view'.leaves \in Seq(Commitment)
  BY <1>3 DEF MemoryRight, LeavesRight
<1>5. Extends(view'.leaves, view.leaves)
  <2>1. view.leaves = << >>
    BY <1>1 DEF CInv, SessionInv, EmptyView
  <2> QED BY <1>4, <2>1 DEF Extends
<1>6. Grows /\ PoolInv' /\ UNCHANGED <<events, leaves, spentNullifiers>>
  BY <1>1, <1>4, <1>5, ClientGrows
<1>7. OpsInv'
  BY <1>1, <1>6, OpsSame DEF CInv
<1>8. SessionInv'
  BY <1>1, <1>2, <1>6 DEF CInv, SessionInv
<1>9. MemoryInv'
  BY <1>3, <1>6 DEF MemoryInv
<1>10. Settled'
  BY <1>1 DEF CInv, Settled
<1> QED BY <1>1, <1>6, <1>7, <1>8, <1>9, <1>10 DEF CInv, HintsInv

(***************************************************************************)
(* The subscriptions start at the end of the log.                          *)
(***************************************************************************)
LEMMA StartListeningInv == CInv /\ StartListening => CInv'
<1> SUFFICES ASSUME CInv, StartListening PROVE CInv'
  OBVIOUS
<1>1. /\ session = "replayed" /\ session' = "listening"
      /\ heard' = [Shielded |-> Len(events), Spent |-> Len(events)]
      /\ UNCHANGED <<queried, view, ops, hints, poolVars>>
  BY DEF StartListening
<1>2. Extends(view.leaves, view.leaves) /\ view.leaves \in Seq(Commitment) /\ Len(events) \in Nat
  BY Typed DEF Extends
<1>3. Grows /\ PoolInv' /\ UNCHANGED <<events, leaves, spentNullifiers>>
  BY <1>1, <1>2, ClientGrows
<1>4. OpsInv'
  BY <1>1, <1>3, OpsSame DEF CInv
<1>5. heard' \in [{"Shielded", "Spent"} -> 0..Len(events)]
  BY <1>1, <1>2
<1>6. Unheard(events, heard', view.leaves)
  <2> SUFFICES ASSUME NEW p \in 1..Len(events), p > heard'[events[p].type] PROVE FALSE
    BY DEF Unheard
  <2>1. events[p].type \in {"Shielded", "Spent"}
    BY DEF CInv, PoolInv, LogRight, LogSound, EventSound
  <2>2. heard'[events[p].type] = Len(events)
    BY <1>1, <2>1
  <2> QED BY <1>2, <2>2
<1>7. SessionInv'
  BY <1>1, <1>3, <1>5, <1>6 DEF CInv, SessionInv
<1>8. Settled'
  BY <1>1 DEF CInv, Settled
<1> QED BY <1>1, <1>3, <1>4, <1>7, <1>8 DEF CInv, MemoryInv, HintsInv

(***************************************************************************)
(* A subscription delivers its next event, whatever the other has done.    *)
(***************************************************************************)
LEMMA DeliverInv ==
  ASSUME CInv, NEW type \in {"Shielded", "Spent"}, Deliver(type)
  PROVE  CInv'
<1>1. session \in {"listening", "ready"}
      /\ UNCHANGED <<session, queried, ops, hints, poolVars>>
  BY DEF Deliver
<1>2. PICK p \in heard[type] + 1..Len(events) :
        /\ events[p].type = type
        /\ heard' = [heard EXCEPT ![type] = p]
        /\ view' = OnEvent(view, events[p])
  BY DEF Deliver
<1>3. /\ heard \in [{"Shielded", "Spent"} -> 0..Len(events)] /\ Len(events) \in Nat
      /\ Unheard(events, heard, view.leaves) /\ LogRight
      /\ MemoryRight(view, leaves, spentNullifiers)
      /\ leaves \in Seq(Commitment) /\ view.leaves \in Seq(Commitment)
  BY <1>1, Typed DEF CInv, SessionInv, PoolInv, MemoryInv
<1>4. p \in 1..Len(events) /\ p > heard[type] /\ p \in 0..Len(events)
  BY <1>2, <1>3
<1> DEFINE e == events[p]
<1>5. EventSound(e, leaves, spentNullifiers) /\ OutsOf(e) \cap Range(view.leaves) = {}
  BY <1>2, <1>3, <1>4 DEF LogRight, LogSound, Unheard
<1>6. /\ MemoryRight(view', leaves, spentNullifiers)
      /\ Extends(view'.leaves, view.leaves)
      /\ Range(view'.leaves) \subseteq Range(view.leaves) \cup OutsOf(e)
      /\ DOMAIN view'.owned = DOMAIN view.owned
  <2> HIDE DEF e
  <2>1. view' = OnEvent(view, e) BY <1>2 DEF e
  <2> QED BY <1>3, <1>5, <2>1, EventKeeps
<1>7. Grows /\ PoolInv' /\ UNCHANGED <<events, leaves, spentNullifiers>>
  BY <1>1, <1>6, ClientGrows DEF MemoryRight, LeavesRight
<1>8. OpsInv'
  BY <1>1, <1>7, OpsSame DEF CInv
<1>9. Unheard(events, heard', view'.leaves)
  <2> SUFFICES ASSUME NEW q \in 1..Len(events), q > heard'[events[q].type]
               PROVE  OutsOf(events[q]) \cap Range(view'.leaves) = {}
    BY DEF Unheard
  <2>1. events[q].type \in {"Shielded", "Spent"}
    BY <1>3 DEF LogRight, LogSound, EventSound
  <2>2. q > heard[events[q].type] /\ q # p
    BY <1>2, <1>3, <1>4, <2>1
  <2>3. OutsOf(events[q]) \cap Range(view.leaves) = {}
    BY <1>3, <2>2 DEF Unheard
  <2>4. OutsOf(events[q]) \cap OutsOf(e) = {}
    BY <1>3, <1>4, <2>2 DEF LogRight, LogSound
  <2> QED BY <1>6, <2>3, <2>4
<1>10. heard' \in [{"Shielded", "Spent"} -> 0..Len(events)]
  BY <1>2, <1>3, <1>4
<1>11. SessionInv'
  BY <1>1, <1>7, <1>9, <1>10 DEF CInv, SessionInv
<1>12. MemoryInv'
  BY <1>6, <1>7 DEF CInv, MemoryInv
<1>13. Settled'
  BY <1>1 DEF CInv, Settled
<1> QED BY <1>1, <1>7, <1>8, <1>11, <1>12, <1>13 DEF CInv, HintsInv

(***************************************************************************)
(* The scan tracks notes of the session's own key: their hints are         *)
(* addressed to it.                                                        *)
(***************************************************************************)
LEMMA ScanHintsInv == CInv /\ ScanHints => CInv'
<1> SUFFICES ASSUME CInv, ScanHints PROVE CInv'
  OBVIOUS
<1>1. /\ session = "listening" /\ session' = "ready"
      /\ UNCHANGED <<queried, heard, ops, hints, poolVars>>
  BY DEF ScanHints
<1>2. PICK found \in SUBSET {h.commitment : h \in {g \in hints : g.to = EncryptionKey(Me)}} :
        view' = TrackFound(view, found)
  BY DEF ScanHints
<1>3. MemoryRight(view, leaves, spentNullifiers) /\ view.leaves \in Seq(Commitment)
  BY Typed DEF CInv, MemoryInv
<1>4. /\ MemoryRight(view', leaves, spentNullifiers) /\ view'.leaves = view.leaves
      /\ DOMAIN view'.owned = DOMAIN view.owned \cup (found \cap Range(view.leaves))
  BY <1>2, <1>3, TrackFoundKeeps
<1>5. \A c \in DOMAIN view'.owned : c.owner = Me
  <2>1. \A c \in found : c.owner = Me
    BY <1>2 DEF CInv, HintsInv
  <2> QED BY <1>4, <2>1 DEF CInv, MemoryInv
<1>6. Grows /\ PoolInv' /\ UNCHANGED <<events, leaves, spentNullifiers>>
  <2>1. Extends(view.leaves, view.leaves) BY <1>3 DEF Extends
  <2> QED BY <1>1, <1>3, <1>4, <2>1, ClientGrows
<1>7. OpsInv'
  BY <1>1, <1>6, OpsSame DEF CInv
<1>8. SessionInv'
  BY <1>1, <1>4, <1>6 DEF CInv, SessionInv
<1>9. MemoryInv'
  BY <1>4, <1>5, <1>6 DEF MemoryInv
<1>10. Settled'
  BY <1>1 DEF CInv, Settled
<1> QED BY <1>1, <1>6, <1>7, <1>8, <1>9, <1>10 DEF CInv, HintsInv

(***************************************************************************)
(* A session that disconnects hears no more.                               *)
(***************************************************************************)
LEMMA DisconnectInv == CInv /\ Disconnect => CInv'
<1> SUFFICES ASSUME CInv, Disconnect PROVE CInv'
  OBVIOUS
<1>1. /\ session = "ready" /\ session' = "deaf"
      /\ UNCHANGED <<queried, heard, view, ops, hints, poolVars>>
  BY DEF Disconnect
<1>2. Extends(view.leaves, view.leaves) /\ view.leaves \in Seq(Commitment)
  BY Typed DEF Extends
<1>3. Grows /\ PoolInv' /\ UNCHANGED <<events, leaves, spentNullifiers>>
  BY <1>1, <1>2, ClientGrows
<1>4. OpsInv'
  BY <1>1, <1>3, OpsSame DEF CInv
<1>5. SessionInv'
  BY <1>1, <1>3 DEF CInv, SessionInv
<1>6. Settled'
  BY <1>1 DEF CInv, Settled
<1> QED BY <1>1, <1>3, <1>4, <1>5, <1>6 DEF CInv, MemoryInv, HintsInv

(***************************************************************************)
(* A new session starts with nothing; what was sent may still be mined.    *)
(***************************************************************************)
LEMMA RestartInv == CInv /\ Restart => CInv'
<1> SUFFICES ASSUME CInv, Restart PROVE CInv'
  OBVIOUS
<1>1. /\ session' = "new" /\ queried' = 0 /\ view' = EmptyView
      /\ heard' = [Shielded |-> 0, Spent |-> 0]
      /\ UNCHANGED <<hints, poolVars>>
  BY DEF Restart
<1>2. ops' = [s \in Slots |-> IF ops[s].pc \in {"submitted", "orphaned"}
                              THEN [ops[s] EXCEPT !.pc = "orphaned"] ELSE Idle]
  BY DEF Restart
<1>3. PoolInv' /\ UNCHANGED <<events, leaves, spentNullifiers>> /\ Len(events) \in Nat
  BY <1>1, PoolStutters, Typed DEF CInv
<1>4. SessionInv'
  <2>1. heard' \in [{"Shielded", "Spent"} -> 0..Len(events)]
    BY <1>1, <1>3
  <2> QED BY <1>1, <1>3, <2>1 DEF SessionInv
<1>5. MemoryInv'
  <2>1. MemoryRight(EmptyView, leaves, spentNullifiers) /\ DOMAIN EmptyView.owned = {}
    BY EmptyRight
  <2> QED BY <1>1, <1>3, <2>1 DEF MemoryInv
<1>6. OpsInv'
  <2>1. ASSUME NEW s \in Slots
        PROVE  ops'[s] = Idle \/ OpRight(ops'[s], leaves, spentNullifiers, view'.leaves)
    <3>1. CASE ops[s].pc \in {"submitted", "orphaned"}
      <4> DEFINE op == ops[s]
                 new == [op EXCEPT !.pc = "orphaned"]
      <4>1. OpRight(op, leaves, spentNullifiers, view.leaves)
        BY <3>1 DEF CInv, OpsInv, Idle
      <4>2. ops'[s] = new
        BY <1>2, <3>1
      <4> HIDE DEF op
      <4>3. new = [kind |-> op.kind, pc |-> "orphaned", in |-> op.in, call |-> op.call,
                   creates |-> op.creates, note |-> op.note, index |-> op.index]
        BY <4>1 DEF OpRight, IsCall
      <4>4. /\ IsCall(new) /\ new.pc = "orphaned" /\ new.kind = op.kind /\ new.in = op.in
            /\ new.call = op.call /\ new.note = op.note
        BY <4>3 DEF IsCall
      <4> HIDE DEF new
      <4>5. CallGiven(new, leaves)
        BY <4>1, <4>4 DEF OpRight, CallGiven, ShieldGiven, SpendGiven
      <4> QED BY <4>2, <4>4, <4>5 DEF OpRight, Stages
    <3>2. CASE ops[s].pc \notin {"submitted", "orphaned"}
      BY <1>2, <3>2
    <3> QED BY <3>1, <3>2
  <2> QED BY <1>2, <1>3, <2>1 DEF OpsInv
<1>7. Settled'
  BY <1>1, <1>2 DEF CInv, Settled, Idle
<1> QED BY <1>1, <1>3, <1>4, <1>5, <1>6, <1>7 DEF CInv, HintsInv

-----------------------------------------------------------------------------
(* The calls. *)

(***************************************************************************)
(* A shield is sent as it was made up.                                     *)
(***************************************************************************)
LEMMA StartShieldInv ==
  ASSUME CInv, NEW s \in Slots, NEW c \in Commitment, StartShield(s, c)
  PROVE  CInv'
<1> DEFINE op == [kind |-> "shield", pc |-> "submitted", in |-> <<Zero, Zero>>,
                  call |-> ShieldParams(c), creates |-> {c}, note |-> c, index |-> 0]
<1>1. UNCHANGED <<sessionVars, view, hints, poolVars>> /\ c.owner = Me
  BY DEF StartShield, Fresh
<1>2. ops' = [ops EXCEPT ![s] = op]
  BY DEF StartShield, ShieldParams
<1>3. Extends(view.leaves, view.leaves) /\ view.leaves \in Seq(Commitment)
  BY Typed DEF Extends
<1>4. Grows /\ PoolInv' /\ UNCHANGED <<events, leaves, spentNullifiers>>
  BY <1>1, <1>3, ClientGrows
<1>5. /\ IsCall(op) /\ op.kind = "shield" /\ op.pc = "submitted" /\ op.in = <<Zero, Zero>>
      /\ op.call = ShieldParams(c) /\ op.note = c
  BY DEF IsCall
<1> HIDE DEF op
<1>6. OpRight(op, leaves', spentNullifiers', view'.leaves)
  BY <1>1, <1>5 DEF OpRight, Stages, CallGiven, ShieldGiven, Slot
<1>7. OpsInv'
  BY <1>2, <1>4, <1>6, OpsSet DEF CInv
<1>8. SessionInv'
  BY <1>1, <1>4 DEF CInv, SessionInv, sessionVars
<1>9. Settled'
  <2>1. session \in {"ready", "deaf"}
    BY DEF StartShield
  <2> QED BY <1>1, <1>2, <2>1, SettledSet DEF CInv, sessionVars
<1> QED BY <1>1, <1>4, <1>7, <1>8, <1>9 DEF CInv, MemoryInv, HintsInv

(***************************************************************************)
(* A spend that gets its proof satisfies the circuit: no output is worth   *)
(* more than the inputs, which nargo could add up.                         *)
(***************************************************************************)
LEMMA StartSpendInv ==
  ASSUME CInv, NEW s \in Slots, NEW kind \in {"unshield", "privateSend"}, NEW t, NEW amount,
         NEW in \in SelectNotes(view, t, amount), NEW outs \in Pairs(Commitment),
         NEW change \in Slot, change # Zero => change.owner = Me,
         NEW public \in Nat, NEW recipient \in Accounts \cup {Zero},
         public = 0 => recipient = Zero,
         OutputsFit(in, outs, t, public),
         kind = "unshield" => outs[1] = change /\ outs[2] = Zero,
         kind = "privateSend" => outs[1] # Zero /\ outs[2] = change,
         StartSpend(s, kind, t, in, outs, change, public, recipient)
  PROVE  CInv'
<1> DEFINE call == [token |-> t, merkleRoot |-> CurrentRoot(view),
                    nullifiers |-> [i \in 1..2 |-> SlotNullifier(in[i])],
                    newCommitments |-> outs, publicAmount |-> public,
                    recipient |-> recipient]
           op == [kind |-> kind, pc |-> "proving", in |-> in, call |-> call,
                  creates |-> NonZero(Range(outs)), note |-> change, index |-> 0]
<1>1. /\ view' = RootRead(view)
      /\ UNCHANGED <<sessionVars, hints, poolVars>>
      /\ ops' = IF Provable(view, in, call.merkleRoot) THEN [ops EXCEPT ![s] = op] ELSE ops
  BY DEF StartSpend
<1>2. /\ call.token = t /\ call.merkleRoot = CurrentRoot(view)
      /\ call.nullifiers = [i \in 1..2 |-> SlotNullifier(in[i])]
      /\ call.newCommitments = outs /\ call.publicAmount = public
      /\ call.recipient = recipient
  OBVIOUS
<1> HIDE DEF call
<1>3. /\ IsCall(op) /\ op.kind = kind /\ op.pc = "proving" /\ op.in = in
      /\ op.call = call /\ op.note = change
  BY DEF IsCall
<1> HIDE DEF op
<1>4. /\ MemoryRight(view, leaves, spentNullifiers) /\ \A c \in DOMAIN view.owned : c.owner = Me
      /\ leaves \in Seq(Commitment) /\ view.leaves \in Seq(Commitment)
      /\ Range(leaves) = knownCommitments
  BY Typed DEF CInv, MemoryInv
<1>5. /\ MemoryRight(view', leaves, spentNullifiers) /\ view'.leaves = view.leaves
      /\ view'.owned = view.owned
      /\ \E n \in 0..Len(view.leaves) : CurrentRoot(view) = RootOf(SubSeq(view.leaves, 1, n))
  BY <1>1, <1>4, RootReadKeeps
<1>6. Grows /\ PoolInv' /\ UNCHANGED <<events, leaves, spentNullifiers>>
  <2>1. Extends(view.leaves, view.leaves) BY <1>4 DEF Extends
  <2> QED BY <1>1, <1>4, <1>5, <2>1, ClientGrows
<1>7. SessionInv'
  <2>1. session = "ready" \/ session = "deaf"
    BY DEF StartSpend
  <2> QED BY <1>1, <1>5, <1>6, <2>1 DEF CInv, SessionInv, sessionVars
<1>8. MemoryInv'
  BY <1>4, <1>5, <1>6 DEF MemoryInv
<1>9. ASSUME Provable(view, in, call.merkleRoot)
      PROVE  OpRight(op, leaves, spentNullifiers, view.leaves)
  <2>1. Balanced(in, call, t)
    BY <1>2, <1>9, FitBalances DEF Provable
  <2>2. \A c \in DOMAIN view.owned : c.owner = Me /\ c.amount # 0
    <3>1. DOMAIN view.owned \subseteq knownCommitments
      BY <1>4 DEF MemoryRight
    <3>2. \A c \in knownCommitments : c.amount \in 1..MaxU64
      BY DEF CInv, PoolInv, KnownProvable
    <3>3. MaxU64 \in Nat BY PoolAssumption
    <3> QED BY <1>4, <3>1, <3>2, <3>3
  <2>3. /\ SpendCircuit(in, call) /\ in \in Pairs(Range(leaves))
        /\ in[1] # Zero /\ in[1].token = t
    BY <1>2, <1>4, <1>9, <2>1, <2>2, ClientAssumption, SelectedProvable
  <2>4. SpendGiven(op, leaves)
    BY <1>2, <1>3, <2>3 DEF SpendGiven
  <2>5. CallGiven(op, leaves)
    BY <1>3, <2>4 DEF CallGiven
  <2>6. \E n \in 0..Len(view.leaves) : RootWas(op, view.leaves, n)
    BY <1>2, <1>3, <1>5 DEF RootWas
  <2> QED BY <1>3, <2>5, <2>6 DEF OpRight, Stages
<1>10. OpsInv'
  <2>1. CASE Provable(view, in, call.merkleRoot)
    <3>1. ops' = [ops EXCEPT ![s] = op] BY <1>1, <2>1
    <3>2. OpRight(op, leaves', spentNullifiers', view'.leaves) BY <1>5, <1>6, <1>9, <2>1
    <3> QED BY <1>6, <3>1, <3>2, OpsSet DEF CInv
  <2>2. CASE ~Provable(view, in, call.merkleRoot)
    <3>1. UNCHANGED ops BY <1>1, <2>2
    <3> QED BY <1>6, <3>1, OpsSame DEF CInv
  <2> QED BY <2>1, <2>2
<1>11. Settled'
  <2>1. session' \in {"ready", "deaf"}
    BY <1>1 DEF StartSpend, sessionVars
  <2> QED BY <2>1 DEF Settled
<1> QED BY <1>1, <1>6, <1>7, <1>8, <1>10, <1>11 DEF CInv, HintsInv

(***************************************************************************)
(* The change of a call is a note of the session's key worth the rest, or  *)
(* the empty slot when there is none.                                      *)
(***************************************************************************)
LEMMA ChangeFits ==
  ASSUME NEW t, NEW rest \in Nat, NEW change \in Change(t, rest)
  PROVE  /\ change \in Slot /\ SlotAmount(change) = rest
         /\ change # Zero => /\ change \in Commitment /\ change.owner = Me
                             /\ change.token = t /\ change.amount \in Nat \ {0}
<1>1. CASE rest = 0
  <2>1. change = Zero BY <1>1 DEF Change
  <2> QED BY <1>1, <2>1 DEF Slot, SlotAmount
<1>2. CASE rest # 0
  <2>1. change \in Fresh(Me, t, rest) BY <1>2 DEF Change
  <2>2. change \in Commitment /\ change.owner = Me /\ change.token = t /\ change.amount = rest
    BY <2>1 DEF Fresh
  <2>3. change # Zero BY <2>2, ZeroIsNoHash
  <2> QED BY <1>2, <2>2, <2>3 DEF Slot, SlotAmount
<1> QED BY <1>1, <1>2

(***************************************************************************)
(* The notes selected are worth a number, no less than asked for.          *)
(***************************************************************************)
LEMMA SelectedWorth ==
  ASSUME CInv, NEW t, NEW amount \in Nat, NEW in \in SelectNotes(view, t, amount)
  PROVE  /\ amount > 0
         /\ SlotAmount(in[1]) \in Nat /\ SlotAmount(in[2]) \in Nat
         /\ SlotAmount(in[1]) + SlotAmount(in[2]) \in Nat
         /\ SlotAmount(in[1]) + SlotAmount(in[2]) - amount \in Nat
<1>1. DOMAIN view.owned \subseteq Commitment
  <2>1. DOMAIN view.owned \subseteq Range(leaves) /\ Range(leaves) \subseteq Commitment
    BY Typed DEF CInv, MemoryInv, MemoryRight, Range
  <2> QED BY <2>1
<1> QED BY <1>1, NotesWorth

(***************************************************************************)
(* An unshield makes up its change and pays the rest out.                  *)
(***************************************************************************)
LEMMA StartUnshieldInv ==
  ASSUME CInv, NEW s \in Slots, NEW t, NEW amount \in Amounts, NEW to \in Accounts,
         StartUnshield(s, t, amount, to)
  PROVE  CInv'
<1>1. PICK in \in SelectNotes(view, t, amount) :
      \E change \in Change(t, SlotAmount(in[1]) + SlotAmount(in[2]) - amount) :
        StartSpend(s, "unshield", t, in, <<change, Zero>>, change, amount, to)
  BY DEF StartUnshield
<1> DEFINE total == SlotAmount(in[1]) + SlotAmount(in[2])
           rest == SlotAmount(in[1]) + SlotAmount(in[2]) - amount
<1>2. PICK change \in Change(t, rest) :
        StartSpend(s, "unshield", t, in, <<change, Zero>>, change, amount, to)
  BY <1>1
<1>3. amount \in Nat
  BY PoolAssumption
<1>4. amount > 0 /\ total \in Nat /\ rest \in Nat /\ total = rest + amount
  <2>1. amount > 0 /\ total \in Nat /\ rest \in Nat
    BY <1>3, SelectedWorth
  <2>2. SlotAmount(in[1]) \in Nat /\ SlotAmount(in[2]) \in Nat
    BY <1>3, SelectedWorth
  <2> QED BY <1>3, <2>1, <2>2
<1> HIDE DEF total, rest
<1>5. /\ change \in Slot /\ SlotAmount(change) = rest
      /\ change # Zero => /\ change \in Commitment /\ change.owner = Me
                          /\ change.token = t /\ change.amount \in Nat \ {0}
  BY <1>4, ChangeFits
<1> DEFINE outs == <<change, Zero>>
<1>6. outs[1] = change /\ outs[2] = Zero /\ outs \in Pairs(Commitment)
  BY <1>5 DEF Pairs, Slot
<1>7. StartSpend(s, "unshield", t, in, outs, change, amount, to)
  BY <1>2
<1> HIDE DEF outs
<1>8. SlotAmount(outs[2]) = 0
  BY <1>6 DEF SlotAmount
<1>9. OutputsFit(in, outs, t, amount)
  <2>1. total = SlotAmount(outs[1]) + SlotAmount(outs[2]) + amount
    BY <1>3, <1>4, <1>5, <1>6, <1>8
  <2>2. \A i \in 1..2 : outs[i] # Zero => outs[i].token = t /\ outs[i].amount \in Nat \ {0}
    BY <1>5, <1>6
  <2> QED BY <2>1, <2>2 DEF OutputsFit, total
<1> QED BY <1>3, <1>4, <1>5, <1>6, <1>7, <1>9, StartSpendInv

(***************************************************************************)
(* A private send makes up the receiver's note and its change.             *)
(***************************************************************************)
LEMMA StartPrivateSendInv ==
  ASSUME CInv, NEW s \in Slots, NEW t, NEW amount \in Amounts, NEW receiver \in Keys,
         StartPrivateSend(s, t, amount, receiver)
  PROVE  CInv'
<1>1. PICK in \in SelectNotes(view, t, amount), note \in Fresh(receiver, t, amount) :
      \E change \in Change(t, SlotAmount(in[1]) + SlotAmount(in[2]) - amount) \ {note} :
        StartSpend(s, "privateSend", t, in, <<note, change>>, change, 0, Zero)
  BY DEF StartPrivateSend
<1> DEFINE total == SlotAmount(in[1]) + SlotAmount(in[2])
           rest == SlotAmount(in[1]) + SlotAmount(in[2]) - amount
<1>2. PICK change \in Change(t, rest) \ {note} :
        StartSpend(s, "privateSend", t, in, <<note, change>>, change, 0, Zero)
  BY <1>1
<1>3. amount \in Nat
  BY PoolAssumption
<1>4. amount > 0 /\ total \in Nat /\ rest \in Nat /\ total = rest + amount
  <2>1. amount > 0 /\ total \in Nat /\ rest \in Nat
    BY <1>3, SelectedWorth
  <2>2. SlotAmount(in[1]) \in Nat /\ SlotAmount(in[2]) \in Nat
    BY <1>3, SelectedWorth
  <2> QED BY <1>3, <2>1, <2>2
<1> HIDE DEF total, rest
<1>5. /\ change \in Slot /\ SlotAmount(change) = rest
      /\ change # Zero => /\ change \in Commitment /\ change.owner = Me
                          /\ change.token = t /\ change.amount \in Nat \ {0}
  BY <1>4, ChangeFits
<1>6. /\ note \in Commitment /\ note.token = t /\ note.amount = amount
      /\ note # Zero /\ note # change
  BY <1>2, ZeroIsNoHash DEF Fresh
<1> DEFINE outs == <<note, change>>
<1>7. outs[1] = note /\ outs[2] = change /\ outs \in Pairs(Commitment)
  BY <1>5, <1>6 DEF Pairs, Slot
<1>8. StartSpend(s, "privateSend", t, in, outs, change, 0, Zero)
  BY <1>2
<1> HIDE DEF outs
<1>9. SlotAmount(outs[1]) = amount
  BY <1>6, <1>7 DEF SlotAmount
<1>10. OutputsFit(in, outs, t, 0)
  <2>1. total = SlotAmount(outs[1]) + SlotAmount(outs[2]) + 0
    BY <1>3, <1>4, <1>5, <1>7, <1>9
  <2>2. \A i \in 1..2 : outs[i] # Zero => outs[i].token = t /\ outs[i].amount \in Nat \ {0}
    BY <1>3, <1>4, <1>5, <1>6, <1>7
  <2> QED BY <2>1, <2>2 DEF OutputsFit, total
<1> QED BY <1>5, <1>6, <1>7, <1>8, <1>10, StartSpendInv

(***************************************************************************)
(* A call whose stage and leaf index a step sets.                          *)
(***************************************************************************)
CallAt(op, pc, at) == [op EXCEPT !.pc = pc, !.index = at]

(***************************************************************************)
(* Moving a call on keeps what it was given.                               *)
(***************************************************************************)
LEMMA CallSet ==
  ASSUME NEW op, IsCall(op), NEW pc, NEW at,
         NEW new, new = CallAt(op, pc, at)
  PROVE  /\ IsCall(new) /\ new.pc = pc /\ new.kind = op.kind /\ new.in = op.in
         /\ new.call = op.call /\ new.note = op.note /\ new.index = at
<1>1. DOMAIN op = {"kind", "pc", "in", "call", "creates", "note", "index"}
  <2>1. op = [kind |-> op.kind, pc |-> op.pc, in |-> op.in, call |-> op.call,
              creates |-> op.creates, note |-> op.note, index |-> op.index]
    BY DEF IsCall
  <2> QED BY <2>1
<1>2. new = [x \in DOMAIN op |-> IF x = "index" THEN at ELSE IF x = "pc" THEN pc ELSE op[x]]
  BY <1>1 DEF CallAt
<1>3. new = [x \in {"kind", "pc", "in", "call", "creates", "note", "index"} |->
              IF x = "index" THEN at ELSE IF x = "pc" THEN pc ELSE op[x]]
  BY <1>1, <1>2
<1>4. new = [kind |-> op.kind, pc |-> pc, in |-> op.in, call |-> op.call,
             creates |-> op.creates, note |-> op.note, index |-> at]
  BY <1>3
<1>5. /\ IsCall(new) /\ new.pc = pc /\ new.kind = op.kind /\ new.in = op.in
      /\ new.call = op.call /\ new.note = op.note /\ new.index = at
  BY <1>4 DEF IsCall
<1> QED BY <1>5

(***************************************************************************)
(* Once proved, the call is sent, its change expected at the end of the    *)
(* local tree: of the tree now, not of the one whose root it names.        *)
(***************************************************************************)
LEMMA ProvenInv ==
  ASSUME CInv, NEW s \in Slots, Proven(s)
  PROVE  CInv'
<1> DEFINE op == ops[s]
           at == ChangeLeafIndex(op.kind)
           new == [op EXCEPT !.pc = "submitted", !.index = at]
<1>1. op.pc = "proving" /\ UNCHANGED <<sessionVars, view, hints, poolVars>>
  BY DEF Proven
<1>2. ops' = [ops EXCEPT ![s] = new]
  BY DEF Proven
<1>3. Extends(view.leaves, view.leaves) /\ view.leaves \in Seq(Commitment)
  BY Typed DEF Extends
<1>4. Grows /\ PoolInv' /\ UNCHANGED <<events, leaves, spentNullifiers>>
  BY <1>1, <1>3, ClientGrows
<1>5. OpRight(op, leaves, spentNullifiers, view.leaves)
  BY <1>1 DEF CInv, OpsInv, Idle
<1> HIDE DEF op
<1>13. at = ChangeLeafIndex(op.kind)
  OBVIOUS
<1> HIDE DEF at
<1>15. new = CallAt(op, "submitted", at)
  BY DEF CallAt
<1> HIDE DEF new
<1>7. /\ IsCall(new) /\ new.pc = "submitted" /\ new.kind = op.kind /\ new.in = op.in
      /\ new.call = op.call /\ new.note = op.note /\ new.index = at
  <2>1. IsCall(op)
    BY <1>5 DEF OpRight
  <2> QED BY <1>15, <2>1, CallSet
<1>8. CallGiven(new, leaves)
  BY <1>5, <1>7 DEF OpRight, CallGiven, ShieldGiven, SpendGiven
<1>9. IndexGuessed(new, view.leaves)
  <2>1. PICK n \in 0..Len(view.leaves) : RootWas(op, view.leaves, n)
    BY <1>1, <1>5 DEF OpRight
  <2>2. Len(view.leaves) \in n..Len(view.leaves)
    BY <1>3
  <2>3. ChangeIndexAt(new, Len(view.leaves))
    BY <1>7, <1>13 DEF ChangeIndexAt, ChangeLeafIndex
  <2>4. RootWas(new, view.leaves, n)
    BY <1>7, <2>1 DEF RootWas
  <2> QED BY <2>2, <2>3, <2>4 DEF IndexGuessed
<1>10. OpRight(new, leaves', spentNullifiers', view'.leaves)
  BY <1>1, <1>4, <1>7, <1>8, <1>9 DEF OpRight, Stages
<1>11. OpsInv'
  BY <1>2, <1>4, <1>10, OpsSet DEF CInv
<1>12. SessionInv'
  BY <1>1, <1>4 DEF CInv, SessionInv, sessionVars
<1>14. Settled'
  BY <1>1, <1>2, SettledSet DEF CInv, sessionVars, op
<1> QED BY <1>1, <1>4, <1>11, <1>12, <1>14 DEF CInv, MemoryInv, HintsInv

(***************************************************************************)
(* What a call that failed was is forgotten.                               *)
(***************************************************************************)
LEMMA FailedInv ==
  ASSUME CInv, NEW s \in Slots, Failed(s)
  PROVE  CInv'
<1>1. ops' = [ops EXCEPT ![s] = Idle] /\ UNCHANGED <<sessionVars, view, hints, poolVars>>
  BY DEF Failed
<1>2. Extends(view.leaves, view.leaves) /\ view.leaves \in Seq(Commitment)
  BY Typed DEF Extends
<1>3. Grows /\ PoolInv' /\ UNCHANGED <<events, leaves, spentNullifiers>>
  BY <1>1, <1>2, ClientGrows
<1>4. OpsInv'
  BY <1>1, <1>3, OpsSet DEF CInv
<1>5. SessionInv'
  BY <1>1, <1>3 DEF CInv, SessionInv, sessionVars
<1>6. Settled'
  <2>1. Idle.pc = "idle"
    BY DEF Idle
  <2> QED BY <1>1, <2>1, SettledSet DEF CInv, sessionVars
<1> QED BY <1>1, <1>3, <1>4, <1>5, <1>6 DEF CInv, MemoryInv, HintsInv

(***************************************************************************)
(* When the transaction is in, its notes are marked, its new note is       *)
(* tracked where the contract put it, and its hint is posted, or not.      *)
(***************************************************************************)
LEMMA ResumedInv ==
  ASSUME CInv, NEW s \in Slots, Resumed(s)
  PROVE  CInv'
<1> DEFINE op == ops[s]
           marked == Marked(view, Range(op.in))
<1>1. /\ op.pc = "mined" /\ UNCHANGED <<sessionVars, poolVars>>
      /\ view' = IF op.note = Zero THEN marked ELSE TrackNote(marked, op.note, op.index)
      /\ hints' \in {hints, hints \cup Posted(op)}
      /\ ops' = [ops EXCEPT ![s] = Idle]
  BY DEF Resumed
<1>2. OpRight(op, leaves, spentNullifiers, view.leaves)
  BY <1>1 DEF CInv, OpsInv, Idle
<1> HIDE DEF op
<1>3. /\ MemoryRight(view, leaves, spentNullifiers) /\ \A c \in DOMAIN view.owned : c.owner = Me
      /\ leaves \in Seq(Commitment) /\ view.leaves \in Seq(Commitment)
  BY Typed DEF CInv, MemoryInv
<1>4. \A c \in Range(op.in) \cap DOMAIN view.owned : Nullifier(c) \in spentNullifiers
  <2>1. DOMAIN view.owned \subseteq Commitment
    BY <1>3 DEF MemoryRight, Range
  <2>2. \A c \in Range(op.in) \cap DOMAIN view.owned : c \in NonZero(Range(op.in))
    BY <2>1, ZeroIsNoHash DEF NonZero
  <2> QED BY <1>1, <1>2, <2>2 DEF OpRight
<1>5. /\ MemoryRight(marked, leaves, spentNullifiers) /\ marked.leaves = view.leaves
      /\ DOMAIN marked.owned = DOMAIN view.owned
  BY <1>3, <1>4, MarkedKeeps
<1> HIDE DEF marked
<1>6. /\ MemoryRight(view', leaves, spentNullifiers) /\ view'.leaves = view.leaves
      /\ \A c \in DOMAIN view'.owned : c.owner = Me
  <2>1. CASE op.note = Zero
    BY <1>1, <1>3, <1>5, <2>1
  <2>2. CASE op.note # Zero
    <3>1. /\ op.index \in Nat /\ op.note \in Range(leaves)
          /\ IsLeafAt(leaves, op.index, op.note) /\ op.note.owner = Me
      BY <1>1, <1>2, <2>2 DEF OpRight, CallGiven
    <3>2. view' = TrackNote(marked, op.note, op.index)
      BY <1>1, <2>2
    <3>3. /\ MemoryRight(view', leaves, spentNullifiers) /\ view'.leaves = marked.leaves
          /\ DOMAIN view'.owned = DOMAIN marked.owned \cup {op.note}
      BY <1>5, <3>1, <3>2, TrackNoteKeeps
    <3> QED BY <1>3, <1>5, <3>1, <3>3
  <2> QED BY <2>1, <2>2
<1>7. Grows /\ PoolInv' /\ UNCHANGED <<events, leaves, spentNullifiers>>
  <2>1. Extends(view.leaves, view.leaves) BY <1>3 DEF Extends
  <2> QED BY <1>1, <1>3, <1>6, <2>1, ClientGrows
<1>8. OpsInv'
  BY <1>1, <1>7, OpsSet DEF CInv
<1>9. SessionInv'
  <2>1. session' = session /\ queried' = queried /\ heard' = heard
    BY <1>1 DEF sessionVars
  <2>2. session \in {"ready", "deaf"}
    BY <1>1 DEF CInv, Settled, op
  <2> QED BY <1>6, <1>7, <2>1, <2>2 DEF CInv, SessionInv
<1>10. MemoryInv'
  BY <1>6, <1>7 DEF MemoryInv
<1>11. HintsInv'
  <2>1. ASSUME NEW h \in Posted(op)
        PROVE  h.commitment \in Commitment /\ (h.to = EncryptionKey(Me) => h.commitment.owner = Me)
    <3>1. CASE op.kind = "shield"
      <4>1. h = [to |-> EncryptionKey(Me), commitment |-> op.note]
        BY <2>1, <3>1 DEF Posted
      <4>2. op.note \in Commitment /\ op.note.owner = Me
        BY <1>2, <3>1, ZeroIsNoHash DEF OpRight, CallGiven, ShieldGiven
      <4> QED BY <4>1, <4>2
    <3>2. CASE op.kind = "privateSend"
      <4> DEFINE c == op.call.newCommitments[1]
      <4>1. h = [to |-> PubkeyTakenAsPrivkey(c.owner), commitment |-> c]
        BY <2>1, <3>2 DEF Posted
      <4>2. c \in Commitment
        BY <1>2, <3>2 DEF OpRight, CallGiven, SpendGiven, Pairs
      <4> HIDE DEF c
      <4>3. PubkeyTakenAsPrivkey(c.owner) # EncryptionKey(Me)
        BY DEF PubkeyTakenAsPrivkey, EncryptionKey
      <4> QED BY <4>1, <4>2, <4>3
    <3>3. CASE op.kind \notin {"shield", "privateSend"}
      BY <2>1, <3>3 DEF Posted
    <3> QED BY <3>1, <3>2, <3>3
  <2> QED BY <1>1, <2>1 DEF CInv, HintsInv
<1>12. Settled'
  <2>1. Idle.pc = "idle"
    BY DEF Idle
  <2> QED BY <1>1, <2>1, SettledSet DEF CInv, sessionVars
<1> QED BY <1>7, <1>8, <1>9, <1>10, <1>11, <1>12 DEF CInv

-----------------------------------------------------------------------------
(* The pool. *)

(***************************************************************************)
(* A call of the pool leaves what the session knows right, and what it has *)
(* not heard of out of its tree.                                           *)
(***************************************************************************)
LEMMA PoolGrows ==
  ASSUME CInv, PoolInv', Extends(leaves', leaves), spentNullifiers \subseteq spentNullifiers',
         NEW e \in EventType, events' = Append(events, e), OutsOf(e) \cap Range(leaves) = {},
         UNCHANGED <<sessionVars, view, hints>>
  PROVE  Grows /\ SessionInv' /\ MemoryInv' /\ HintsInv'
<1>1. /\ leaves \in Seq(Commitment) /\ view.leaves \in Seq(Commitment)
      /\ events \in Seq(EventType) /\ Len(events) \in Nat
      /\ MemoryRight(view, leaves, spentNullifiers) /\ \A c \in DOMAIN view.owned : c.owner = Me
  BY Typed DEF CInv, MemoryInv
<1>2. leaves' \in Seq(Commitment) /\ LogRight'
  BY DEF PoolInv, IInv, TypeOK
<1>3. Grows
  <2>1. Extends(view.leaves, view.leaves) BY <1>1 DEF Extends
  <2> QED BY <1>1, <1>2, <2>1 DEF Grows
<1>4. MemoryInv'
  BY <1>1, <1>2, MemoryGrows DEF MemoryInv
<1>5. HintsInv'
  BY DEF CInv, HintsInv
<1>6. SessionInv'
  <2>1. UNCHANGED <<session, queried, heard, view>>
    BY DEF sessionVars
  <2>2. /\ Len(events') = Len(events) + 1 /\ events'[Len(events) + 1] = e
        /\ \A p \in 1..Len(events) : events'[p] = events[p]
    BY <1>1
  <2>3. 0..Len(events) \subseteq 0..Len(events')
    BY <1>1, <2>2
  <2>4. ASSUME Unheard(events, heard, view.leaves) PROVE Unheard(events', heard, view.leaves)
    <3> SUFFICES ASSUME NEW p \in 1..Len(events'), p > heard[events'[p].type]
                 PROVE  OutsOf(events'[p]) \cap Range(view.leaves) = {}
      BY DEF Unheard
    <3>1. CASE p \in 1..Len(events)
      BY <2>2, <2>4, <3>1 DEF Unheard
    <3>2. CASE p = Len(events) + 1
      <4>1. Range(view.leaves) \subseteq Range(leaves)
        BY <1>1 DEF MemoryRight, LeavesRight
      <4>2. events'[p] = e BY <2>2, <3>2
      <4> QED BY <4>1, <4>2
    <3> QED BY <1>1, <2>2, <3>1, <3>2
  <2>5. queried \in 0..Len(events') /\ heard \in [{"Shielded", "Spent"} -> 0..Len(events')]
    BY <2>3 DEF CInv, SessionInv
  <2> QED BY <2>1, <2>4, <2>5 DEF CInv, SessionInv
<1> QED BY <1>3, <1>4, <1>5, <1>6

(***************************************************************************)
(* The others use the pool, and the session hears of it later.             *)
(***************************************************************************)
LEMMA OthersInv ==
  ASSUME CInv, OthersShield \/ OthersSpend, UNCHANGED clientVars
  PROVE  CInv'
<1>1. UNCHANGED <<sessionVars, view, hints>> /\ UNCHANGED ops
  BY DEF clientVars
<1>2. /\ PoolInv' /\ Extends(leaves', leaves) /\ spentNullifiers \subseteq spentNullifiers'
      /\ \E e \in EventType : events' = Append(events, e) /\ OutsOf(e) \cap Range(leaves) = {}
  <2>1. CASE OthersShield
    <3>1. PICK from \in Accounts, o \in Keys, t \in Tokens, amount \in Amounts :
            \E c \in Fresh(o, t, amount) :
              Shield(from, [token |-> t, amount |-> amount, commitment |-> c])
      BY <2>1 DEF OthersShield
    <3>2. PICK c \in Fresh(o, t, amount) :
            Shield(from, [token |-> t, amount |-> amount, commitment |-> c])
      BY <3>1
    <3>3. c \in Commitment /\ c.token = t /\ c.amount = amount
      BY DEF Fresh
    <3>4. Shield(from, ShieldParams(c))
      BY <3>2, <3>3 DEF ShieldParams
    <3> QED BY <3>3, <3>4, ShieldLogged DEF CInv
  <2>2. CASE OthersSpend
    <3>1. PICK c \in Range(leaves), to \in Accounts : \E outs \in Pairs(AnyFresh(c.token)) :
            LET rest == c.amount - SlotAmount(outs[1]) - SlotAmount(outs[2]) IN
            /\ rest >= 0
            /\ Spend(<<c, Zero>>,
                     SpendCall(Len(leaves), c.token, <<c, Zero>>, outs, rest,
                               IF rest = 0 THEN Zero ELSE to))
      BY <2>2 DEF OthersSpend
    <3>2. PICK outs \in Pairs(AnyFresh(c.token)) :
            LET rest == c.amount - SlotAmount(outs[1]) - SlotAmount(outs[2]) IN
            /\ rest >= 0
            /\ Spend(<<c, Zero>>,
                     SpendCall(Len(leaves), c.token, <<c, Zero>>, outs, rest,
                               IF rest = 0 THEN Zero ELSE to))
      BY <3>1
    <3> DEFINE in == <<c, Zero>>
               rest == c.amount - SlotAmount(outs[1]) - SlotAmount(outs[2])
               taker == IF rest = 0 THEN Zero ELSE to
               p == SpendCall(Len(leaves), c.token, in, outs, rest, taker)
    <3>3. rest >= 0 /\ Spend(in, p)
      BY <3>2
    <3>4. AnyFresh(c.token) \subseteq Commitment
      BY DEF AnyFresh, Fresh
    <3>5. outs \in Pairs(Commitment) /\ outs[1] \in Slot /\ outs[2] \in Slot
      BY <3>4 DEF Pairs, Slot
    <3>6. c \in Commitment /\ c # Zero /\ c.amount \in Nat
      <4>1. c \in Commitment BY Typed DEF Range
      <4> QED BY <4>1, ZeroIsNoHash, PoolAssumption DEF Commitment
    <3>7. rest \in Nat
      <4>1. SlotAmount(outs[1]) \in Nat /\ SlotAmount(outs[2]) \in Nat
        BY <3>5, SlotWorth
      <4> QED BY <3>3, <3>6, <4>1
    <3>8. in \in Pairs(Range(leaves)) /\ in[1] = c /\ in[1] # Zero
      BY <3>6 DEF Pairs
    <3>9. taker \in Accounts \cup {Zero}
      OBVIOUS
    <3> HIDE DEF in, rest, taker
    <3>10. SpendParams(p, in, outs)
      BY <3>5, <3>7, <3>8, <3>9 DEF SpendParams, SpendCall
    <3> HIDE DEF p
    <3> QED BY <3>3, <3>10, SpendLogged DEF CInv
  <2> QED BY <2>1, <2>2
<1>3. Grows /\ SessionInv' /\ MemoryInv' /\ HintsInv'
  BY <1>1, <1>2, PoolGrows
<1>4. OpsInv'
  BY <1>1, <1>3, OpsSame DEF CInv
<1>5. Settled'
  BY <1>1 DEF CInv, Settled, sessionVars
<1> QED BY <1>2, <1>3, <1>4, <1>5 DEF CInv

(***************************************************************************)
(* The contract only takes a spend that names its current root, and then   *)
(* the local tree is the contract's: it has no leaf the contract lacks, so *)
(* it cannot have grown past that root while the proof was awaited.  The   *)
(* change goes where it was expected.                                      *)
(***************************************************************************)
LEMMA ChangeExpected ==
  ASSUME CInv, NEW op, IndexGuessed(op, view.leaves), op.call.merkleRoot = RootOf(leaves)
  PROVE  ChangeIndexAt(op, Len(leaves))
<1> DEFINE kept == view.leaves
<1>1. LeavesRight(kept, leaves) /\ leaves \in Seq(Commitment)
  BY Typed DEF CInv, MemoryInv, MemoryRight
<1> HIDE DEF kept
<1>2. PICK n \in 0..Len(kept) : \E m \in n..Len(kept) :
        RootWas(op, kept, n) /\ ChangeIndexAt(op, m)
  BY DEF IndexGuessed, kept
<1>3. PICK m \in n..Len(kept) : RootWas(op, kept, n) /\ ChangeIndexAt(op, m)
  BY <1>2
<1>4. kept \in Seq(Commitment) /\ Len(kept) \in Nat /\ Len(leaves) \in Nat
  BY <1>1 DEF LeavesRight
<1>5. RootOf(leaves).committed = RootOf(SubSeq(kept, 1, n)).committed
  BY <1>3 DEF RootWas
<1>6. leaves = SubSeq(kept, 1, n)
  BY <1>5 DEF RootOf
<1>7. Len(SubSeq(kept, 1, n)) = n
  BY <1>4
<1>8. Len(kept) <= Len(leaves)
  BY <1>1, <1>4, NoMoreLeaves DEF LeavesRight
<1>9. m = Len(leaves)
  BY <1>4, <1>6, <1>7, <1>8
<1> QED BY <1>3, <1>9

(***************************************************************************)
(* The last output of a spend is its change, at the index that says.       *)
(***************************************************************************)
LEMMA ChangeInserted ==
  ASSUME leaves \in Seq(Commitment), NEW op, SpendGiven(op, leaves), op.note # Zero,
         ChangeIndexAt(op, Len(leaves)),
         leaves' = WithOutputs(leaves, op.call.newCommitments)
  PROVE  /\ op.index \in Nat /\ op.note \in Range(leaves')
         /\ IsLeafAt(leaves', op.index, op.note)
<1> DEFINE outs == op.call.newCommitments
           n == Len(leaves)
<1>1. n \in Nat /\ outs \in Pairs(Commitment)
  BY DEF SpendGiven
<1>2. outs[1] \in Slot /\ outs[2] \in Slot
  BY <1>1 DEF Pairs, Slot
<1>3. CASE op.kind = "unshield"
  <2>1. outs[1] = op.note /\ outs[2] = Zero
    BY <1>3 DEF SpendGiven
  <2>2. op.index = n
    BY <1>3 DEF ChangeIndexAt
  <2>3. leaves' = Append(leaves, op.note) /\ op.note \in Commitment
    BY <1>2, <2>1 DEF WithOutputs, WithLeaf, Slot
  <2>4. Len(leaves') = n + 1 /\ leaves'[n + 1] = op.note
    BY <2>3
  <2> QED BY <1>1, <2>2, <2>3, <2>4 DEF IsLeafAt, Range
<1>4. CASE op.kind # "unshield"
  <2>1. op.kind = "privateSend" /\ outs[1] # Zero /\ outs[2] = op.note
    BY <1>4 DEF SpendGiven
  <2>2. op.index = n + 1
    BY <2>1 DEF ChangeIndexAt
  <2> DEFINE c == outs[1]
  <2>3. c \in Commitment /\ op.note \in Commitment
    BY <1>2, <2>1 DEF Slot
  <2>4. leaves' = Append(Append(leaves, c), op.note)
    BY <2>1 DEF WithOutputs, WithLeaf
  <2> HIDE DEF c
  <2>5. Append(leaves, c) \in Seq(Commitment) /\ Len(Append(leaves, c)) = n + 1
    BY <2>3
  <2>6. Len(leaves') = (n + 1) + 1 /\ leaves'[(n + 1) + 1] = op.note
        /\ leaves' \in Seq(Commitment)
    BY <2>3, <2>4, <2>5
  <2>7. op.note \in Range(leaves')
    <3>1. (n + 1) + 1 \in DOMAIN leaves' BY <1>1, <2>6
    <3> QED BY <2>6, <3>1 DEF Range
  <2> QED BY <1>1, <2>2, <2>6, <2>7 DEF IsLeafAt
<1> QED BY <1>3, <1>4

(***************************************************************************)
(* A call mined has its note where the call says, and its inputs spent.    *)
(***************************************************************************)
LEMMA MinedInv ==
  ASSUME CInv, NEW s \in Slots, Mined(s)
  PROVE  CInv'
<1> DEFINE op == ops[s]
           at == IF op.kind = "shield" THEN Len(leaves) ELSE op.index
           moved == [op EXCEPT !.pc = "mined", !.index = at]
           new == IF op.pc = "orphaned" THEN Idle ELSE moved
<1>1. /\ op.pc \in {"submitted", "orphaned"}
      /\ \/ op.kind = "shield" /\ Shield(MyAccount, op.call)
         \/ op.kind # "shield" /\ Spend(op.in, op.call)
      /\ UNCHANGED <<sessionVars, view, hints>>
  BY DEF Mined
<1>2. ops' = [ops EXCEPT ![s] = new]
  <2>1. ops' = [ops EXCEPT ![s] =
                  IF op.pc = "orphaned" THEN Idle
                  ELSE [op EXCEPT !.pc = "mined",
                          !.index = IF op.kind = "shield" THEN Len(leaves) ELSE @]]
    BY DEF Mined
  <2>2. moved = [op EXCEPT !.pc = "mined",
                   !.index = IF op.kind = "shield" THEN Len(leaves) ELSE @]
    OBVIOUS
  <2> QED BY <2>1, <2>2
<1>3. OpRight(op, leaves, spentNullifiers, view.leaves)
  BY <1>1 DEF CInv, OpsInv, Idle
<1>4. at = IF op.kind = "shield" THEN Len(leaves) ELSE op.index
  OBVIOUS
<1> HIDE DEF at
<1>5. op.pc \in {"idle", "orphaned"} => new.pc \in {"idle", "orphaned"}
  BY <1>1 DEF Idle
<1> HIDE DEF op
<1>6. PoolInv /\ leaves \in Seq(Commitment) /\ Len(leaves) \in Nat
  BY Typed DEF CInv
<1>13. moved = CallAt(op, "mined", at)
  BY DEF CallAt
<1>14. new = IF op.pc = "orphaned" THEN Idle ELSE moved
  OBVIOUS
<1> HIDE DEF moved
<1>7. /\ IsCall(moved) /\ moved.pc = "mined" /\ moved.kind = op.kind /\ moved.in = op.in
      /\ moved.call = op.call /\ moved.note = op.note /\ moved.index = at
  <2>1. IsCall(op)
    BY <1>3 DEF OpRight
  <2> QED BY <1>13, <2>1, CallSet
<1>8. /\ PoolInv' /\ Extends(leaves', leaves) /\ spentNullifiers \subseteq spentNullifiers'
      /\ \E e \in EventType : events' = Append(events, e) /\ OutsOf(e) \cap Range(leaves) = {}
      /\ op.pc = "submitted" =>
           /\ op.note # Zero => /\ at \in Nat /\ op.note \in Range(leaves')
                                /\ IsLeafAt(leaves', at, op.note)
           /\ \A c \in NonZero(Range(op.in)) : Nullifier(c) \in spentNullifiers'
  <2>1. CASE op.kind = "shield"
    <3>1. ShieldGiven(op) /\ at = Len(leaves)
      BY <1>3, <1>4, <2>1 DEF OpRight, CallGiven
    <3>2. op.note \in Commitment /\ Shield(MyAccount, ShieldParams(op.note)) /\ op.in = <<Zero, Zero>>
      BY <1>1, <2>1, <3>1 DEF ShieldGiven
    <3>3. /\ PoolInv' /\ Extends(leaves', leaves) /\ spentNullifiers \subseteq spentNullifiers'
          /\ leaves' = Append(leaves, op.note)
          /\ \E e \in EventType : events' = Append(events, e) /\ OutsOf(e) \cap Range(leaves) = {}
      BY <1>6, <3>2, ClientAssumption, ShieldLogged
    <3>4. Len(leaves') = Len(leaves) + 1 /\ leaves'[Len(leaves) + 1] = op.note
      BY <1>6, <3>2, <3>3
    <3>5. op.note \in Range(leaves') /\ IsLeafAt(leaves', at, op.note)
      BY <1>6, <3>1, <3>2, <3>3, <3>4 DEF IsLeafAt, Range
    <3>6. NonZero(Range(op.in)) = {}
      BY <3>2 DEF NonZero, Range
    <3> QED BY <1>6, <3>1, <3>3, <3>5, <3>6
  <2>2. CASE op.kind # "shield"
    <3> DEFINE outs == op.call.newCommitments
    <3>1. SpendGiven(op, leaves) /\ Spend(op.in, op.call) /\ at = op.index
      BY <1>1, <1>3, <1>4, <2>2 DEF OpRight, CallGiven
    <3>2. SpendParams(op.call, op.in, outs)
      BY <3>1 DEF SpendGiven, SpendParams
    <3>3. /\ PoolInv' /\ Extends(leaves', leaves) /\ spentNullifiers \subseteq spentNullifiers'
          /\ leaves' = WithOutputs(leaves, outs)
          /\ NonZero(Range(op.call.nullifiers)) \subseteq spentNullifiers'
          /\ \E e \in EventType : events' = Append(events, e) /\ OutsOf(e) \cap Range(leaves) = {}
      BY <1>6, <3>1, <3>2, SpendLogged
    <3>4. op.call.merkleRoot = RootOf(leaves)
      BY <3>1 DEF Spend, SpendAccepted
    <3>5. ASSUME op.pc = "submitted", op.note # Zero
          PROVE  at \in Nat /\ op.note \in Range(leaves') /\ IsLeafAt(leaves', at, op.note)
      <4>1. IndexGuessed(op, view.leaves)
        BY <1>3, <2>2, <3>5 DEF OpRight
      <4>2. ChangeIndexAt(op, Len(leaves))
        BY <3>4, <4>1, ChangeExpected
      <4> QED BY <1>6, <3>1, <3>3, <3>5, <4>2, ChangeInserted
    <3>6. ASSUME NEW c \in NonZero(Range(op.in)) PROVE Nullifier(c) \in spentNullifiers'
      <4>1. op.in \in Pairs(Range(leaves))
            /\ op.call.nullifiers = [i \in 1..2 |-> SlotNullifier(op.in[i])]
        BY <3>1 DEF SpendGiven
      <4>2. PICK i \in 1..2 : op.in[i] = c
        BY <4>1 DEF NonZero, Range, Pairs
      <4>3. c \in Commitment /\ c # Zero
        BY <1>6, <4>1, <4>2 DEF NonZero, Range, Pairs
      <4>4. op.call.nullifiers[i] = Nullifier(c) /\ Nullifier(c) # Zero
        BY <4>1, <4>2, <4>3, ZeroIsNoHash DEF SlotNullifier
      <4>5. Nullifier(c) \in NonZero(Range(op.call.nullifiers))
        BY <4>1, <4>4 DEF NonZero, Range
      <4> QED BY <3>3, <4>5
    <3> QED BY <3>3, <3>5, <3>6
  <2> QED BY <2>1, <2>2
<1>9. Grows /\ SessionInv' /\ MemoryInv' /\ HintsInv'
  BY <1>1, <1>8, PoolGrows
<1>10. new = Idle \/ OpRight(new, leaves', spentNullifiers', view'.leaves)
  <2>1. CASE op.pc = "orphaned" BY <2>1
  <2>2. CASE op.pc # "orphaned"
    <3>1. op.pc = "submitted" BY <1>1, <2>2
    <3>2. OpRight(op, leaves', spentNullifiers', view'.leaves)
      BY <1>3, <1>9, OpStays
    <3>3. new = moved
      BY <2>2
    <3> HIDE DEF moved
    <3>4. CallGiven(moved, leaves')
      BY <1>7, <3>2 DEF OpRight, CallGiven, ShieldGiven, SpendGiven
    <3>5. OpRight(moved, leaves', spentNullifiers', view'.leaves)
      BY <1>7, <1>8, <3>1, <3>4 DEF OpRight, Stages
    <3> QED BY <3>3, <3>5
  <2> QED BY <2>1, <2>2
<1> HIDE DEF new, moved
<1>11. OpsInv'
  BY <1>2, <1>9, <1>10, OpsSet DEF CInv
<1>12. Settled'
  BY <1>1, <1>2, <1>5, SettledSet DEF CInv, sessionVars, op
<1> QED BY <1>8, <1>9, <1>11, <1>12 DEF CInv

-----------------------------------------------------------------------------
(***************************************************************************)
(* A session that has not started knows nothing of an empty pool.          *)
(***************************************************************************)
LEMMA InitInvariant == ClientInit => CInv
<1> SUFFICES ASSUME ClientInit PROVE CInv
  OBVIOUS
<1>1. /\ session = "new" /\ queried = 0 /\ view = EmptyView /\ hints = {}
      /\ heard = [Shielded |-> 0, Spent |-> 0]
      /\ ops = [s \in Slots |-> Idle] /\ events = << >>
  BY DEF ClientInit, Init
<1>2. PoolInv
  BY PoolInitially DEF ClientInit
<1>3. MemoryInv
  BY <1>1, EmptyRight DEF MemoryInv
<1>4. SessionInv
  <2>1. Len(events) = 0
    BY <1>1
  <2>2. heard \in [{"Shielded", "Spent"} -> 0..Len(events)]
    BY <1>1, <2>1
  <2> QED BY <1>1, <2>1, <2>2 DEF SessionInv
<1>5. OpsInv /\ Settled
  BY <1>1 DEF OpsInv, Settled, Idle
<1> QED BY <1>1, <1>2, <1>3, <1>4, <1>5 DEF CInv, HintsInv

(***************************************************************************)
(* Every step keeps the invariant.                                         *)
(***************************************************************************)
LEMMA NextInvariant == CInv /\ [ClientNext]_<<clientVars, poolVars>> => CInv'
<1> SUFFICES ASSUME CInv, [ClientNext]_<<clientVars, poolVars>> PROVE CInv'
  OBVIOUS
<1>1. CASE Sync
  BY <1>1, QueryShieldedInv, QuerySpentInv, StartListeningInv, ScanHintsInv DEF Sync
<1>2. CASE Listen
  BY <1>2, DeliverInv DEF Listen
<1>3. CASE Disconnect \/ Restart
  BY <1>3, DisconnectInv, RestartInv
<1>4. ASSUME NEW s \in Slots, Call(s) \/ Mined(s) \/ Failed(s) PROVE CInv'
  <2>1. CASE \E c \in Commitment : StartShield(s, c)
    BY <2>1, StartShieldInv
  <2>2. CASE \E t \in Tokens, amount \in Amounts :
               \/ \E to \in Accounts : StartUnshield(s, t, amount, to)
               \/ \E receiver \in Keys : StartPrivateSend(s, t, amount, receiver)
    <3>1. PICK t \in Tokens, amount \in Amounts :
               \/ \E to \in Accounts : StartUnshield(s, t, amount, to)
               \/ \E receiver \in Keys : StartPrivateSend(s, t, amount, receiver)
      BY <2>2
    <3> QED BY <3>1, StartUnshieldInv, StartPrivateSendInv
  <2>3. CASE Proven(s) \/ Resumed(s) \/ Mined(s) \/ Failed(s)
    BY <2>3, ProvenInv, ResumedInv, MinedInv, FailedInv
  <2> QED BY <1>4, <2>1, <2>2, <2>3 DEF Call
<1>5. CASE (OthersShield \/ OthersSpend) /\ UNCHANGED clientVars
  BY <1>5, OthersInv
<1>6. CASE UNCHANGED <<clientVars, poolVars>>
  <2>1. UNCHANGED poolVars /\ UNCHANGED <<session, queried, heard, view, ops, hints>>
    BY <1>6 DEF clientVars, sessionVars
  <2>2. Extends(view.leaves, view.leaves) /\ view.leaves \in Seq(Commitment)
    BY Typed DEF Extends
  <2>3. Grows /\ PoolInv' /\ UNCHANGED <<events, leaves, spentNullifiers>>
    BY <2>1, <2>2, ClientGrows
  <2>4. OpsInv'
    BY <2>1, <2>3, OpsSame DEF CInv
  <2> QED BY <2>1, <2>3, <2>4 DEF CInv, SessionInv, MemoryInv, HintsInv, Settled
<1> QED BY <1>1, <1>2, <1>3, <1>4, <1>5, <1>6 DEF ClientNext

(***************************************************************************)
(* What a session and its calls keep true, whatever the order in which     *)
(* they, the subscriptions and the others go.                              *)
(***************************************************************************)
THEOREM ClientInvariant == ClientSpec => []CInv
BY InitInvariant, NextInvariant, PTL DEF ClientSpec

(***************************************************************************)
(* The session and its memory keep their types.                            *)
(***************************************************************************)
THEOREM ClientTypeCorrect == ClientSpec => []ClientTypeOK
BY ClientInvariant, InvariantImplies, PTL

(***************************************************************************)
(* A note is tracked at the position the contract gave it, as long as the  *)
(* local tree has not lost a leaf: with any number of calls in flight.     *)
(***************************************************************************)
THEOREM TrackedCorrect == ClientSpec => []TrackedWhereInserted
BY ClientInvariant, InvariantImplies, PTL

(***************************************************************************)
(* A note marked spent is spent, and one whose nullifier was heard of is   *)
(* marked, in whatever order the news came.                                *)
(***************************************************************************)
THEOREM SpentFlagCorrect == ClientSpec => []SpentFlagIsRight
BY ClientInvariant, InvariantImplies, PTL

(***************************************************************************)
(* Every spend the session sends satisfies the spend circuit.              *)
(***************************************************************************)
THEOREM ProvableCorrect == ClientSpec => []SubmittedProvable
BY ClientInvariant, InvariantImplies, PTL

(***************************************************************************)
(* With clients that pay for the notes they make, the pool holds what the  *)
(* unspent notes are worth, and no commitment is at two leaves.            *)
(***************************************************************************)
THEOREM PaidForCorrect == ClientSpec => []NotesPaidFor
<1>1. CInv => NotesPaidFor
  BY PaidForNow DEF CInv, NotesPaidFor
<1> QED BY <1>1, ClientInvariant, PTL
=============================================================================
