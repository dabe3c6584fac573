----------------------------- MODULE PoolClient -----------------------------
(***************************************************************************)
(* One StealthPaySDK session (sdk/src/StealthPaySDK.ts over NoteManager.ts *)
(* and ChainClient.ts) for the spending key Me, against PrivacyPool, among *)
(* other users of the pool and other sessions of the same key.             *)
(*                                                                         *)
(* The code between two awaits is one action.  The client sees the chain   *)
(* through two log queries and then two subscriptions, each in log order   *)
(* but not in order with each other.  An allowance is always enough, and a *)
(* session is synced before it is used and only once, as the comment on    *)
(* sync asks.                                                              *)
(***************************************************************************)
EXTENDS NoteManager

CONSTANTS Me,          \* the spending key of the session
          MyAccount,   \* the address that signs its transactions
          Slots        \* SDK calls that may be in flight at once

ASSUME ClientAssumption == Me \in Keys /\ MyAccount \in Accounts

VARIABLES session,   \* how far sync() has come
          queried,   \* the length of the log when Shielded was queried
          view,      \* the memory of NoteManager
          heard,     \* how far each subscription has delivered the log
          ops,       \* ops[s]: the SDK call in slot s, suspended at an await
          hints      \* the hints stored and registered on chain

sessionVars == <<session, queried, heard>>
clientVars == <<sessionVars, view, ops, hints>>

-----------------------------------------------------------------------------
(* sync *)

QueryShielded ==
  /\ session = "new"
  /\ session' = "queried"
  /\ queried' = Len(events)
  /\ UNCHANGED <<heard, view, ops, hints, poolVars>>

QuerySpent ==
  /\ session = "queried"
  /\ session' = "replayed"
  /\ queried' = 0
  /\ view' = Replay(queried, Len(events))
  /\ UNCHANGED <<heard, ops, hints, poolVars>>

StartListening ==
  /\ session = "replayed"
  /\ session' = "listening"
  /\ heard' = [Shielded |-> Len(events), Spent |-> Len(events)]
  /\ UNCHANGED <<queried, view, ops, hints, poolVars>>

Deliver(type) ==
  /\ session \in {"listening", "ready"}
  /\ \E p \in heard[type] + 1..Len(events) :
       /\ events[p].type = type
       /\ \A q \in heard[type] + 1..p - 1 : events[q].type # type
       /\ heard' = [heard EXCEPT ![type] = p]
       /\ view' = OnEvent(view, events[p])
  /\ UNCHANGED <<session, queried, ops, hints, poolVars>>

\* deriveEncryptionKeypair of a private key, and of a public one.
EncryptionKey(k) == [derivedFrom |-> "privkey", key |-> k]
PubkeyTakenAsPrivkey(k) == [derivedFrom |-> "pubkey", key |-> k]

\* Some of the hints registered for this key, the ones that can be downloaded,
\* name notes that are leaves of the tree and not tracked yet.
ScanHints ==
  /\ session = "listening"
  /\ session' = "ready"
  /\ \E found \in SUBSET {h.commitment : h \in {g \in hints : g.to = EncryptionKey(Me)}} :
       view' = TrackFound(view, found)
  /\ UNCHANGED <<queried, heard, ops, hints, poolVars>>

Disconnect ==
  /\ session = "ready"
  /\ session' = "deaf"
  /\ UNCHANGED <<queried, heard, view, ops, hints, poolVars>>

Idle == [pc |-> "idle"]

\* The process ends and a new SDK is built; a transaction already sent may still
\* be mined.
Restart ==
  /\ session # "new"
  /\ session' = "new"
  /\ queried' = 0
  /\ heard' = [Shielded |-> 0, Spent |-> 0]
  /\ view' = EmptyView
  /\ ops' = [s \in Slots |-> IF ops[s].pc \in {"submitted", "orphaned"}
                             THEN [ops[s] EXCEPT !.pc = "orphaned"] ELSE Idle]
  /\ UNCHANGED <<hints, poolVars>>

-----------------------------------------------------------------------------
(* The calls: shield, unshield, privateSend *)

InFlight == {s \in Slots : ops[s] # Idle}

\* Commitments no call has used: salts are random.
Fresh(owner, t, amount) ==
  {c \in Commitment :
     /\ c.owner = owner /\ c.token = t /\ c.amount = amount
     /\ c \notin knownCommitments
     /\ \A s \in InFlight : c \notin ops[s].creates}

StartShield(s, c) ==
  /\ session \in {"ready", "deaf"}
  /\ ops[s] = Idle
  /\ c \in Fresh(Me, c.token, c.amount)
  /\ ops' = [ops EXCEPT ![s] =
       [kind |-> "shield", pc |-> "submitted", in |-> <<Zero, Zero>>,
        call |-> [token |-> c.token, amount |-> c.amount, commitment |-> c],
        creates |-> {c}, note |-> c, index |-> 0]]
  /\ UNCHANGED <<sessionVars, view, hints, poolVars>>

\* Up to the proof: where there is none, nargo fails and the call throws.
StartSpend(s, kind, t, in, outs, change, publicAmount, recipient) ==
  LET call == [token |-> t, merkleRoot |-> CurrentRoot(view),
               nullifiers |-> [i \in 1..2 |-> SlotNullifier(in[i])],
               newCommitments |-> outs, publicAmount |-> publicAmount,
               recipient |-> recipient]
  IN
  /\ session \in {"ready", "deaf"}
  /\ ops[s] = Idle
  /\ view' = RootRead(view)
  /\ ops' = IF Provable(view, in, call.merkleRoot)
            THEN [ops EXCEPT ![s] =
                   [kind |-> kind, pc |-> "proving", in |-> in, call |-> call,
                    creates |-> NonZero(Range(outs)), note |-> change,
                    index |-> 0]]
            ELSE ops
  /\ UNCHANGED <<sessionVars, hints, poolVars>>

\* A change of one unit is dropped as dust.
BrokenChange(t, amount) == IF amount < 2 THEN {Zero} ELSE Fresh(Me, t, amount)

\* The change notes worth amount; only those in Amounts are tried.
Change(t, amount) == IF amount = 0 THEN {Zero} ELSE Fresh(Me, t, amount)

StartUnshield(s, t, amount, to) ==
  \E in \in SelectNotes(view, t, amount) :
  \E change \in Change(t, SlotAmount(in[1]) + SlotAmount(in[2]) - amount) :
    StartSpend(s, "unshield", t, in, <<change, Zero>>, change, amount, to)

StartPrivateSend(s, t, amount, receiver) ==
  \E in \in SelectNotes(view, t, amount), note \in Fresh(receiver, t, amount) :
  \E change \in Change(t, SlotAmount(in[1]) + SlotAmount(in[2]) - amount) \ {note} :
    StartSpend(s, "privateSend", t, in, <<note, change>>, change, 0, Zero)

\* The proof is back: the change is expected at the end of the local tree.
BrokenChangeLeafIndex(kind) == Len(view.leaves)

ChangeLeafIndex(kind) ==
  IF kind = "privateSend" THEN Len(view.leaves) + 1 ELSE Len(view.leaves)

Proven(s) ==
  /\ ops[s].pc = "proving"
  /\ ops' = [ops EXCEPT ![s].pc = "submitted",
                        ![s].index = ChangeLeafIndex(ops[s].kind)]
  /\ UNCHANGED <<sessionVars, view, hints, poolVars>>

Accepted(s) ==
  IF ops[s].kind = "shield" THEN ShieldAccepted(MyAccount, ops[s].call)
  ELSE SpendAccepted(ops[s].in, ops[s].call)

\* The transaction succeeds; a shield's receipt names the leaf.
Mined(s) ==
  /\ ops[s].pc \in {"submitted", "orphaned"}
  /\ \/ ops[s].kind = "shield" /\ Shield(MyAccount, ops[s].call)
     \/ ops[s].kind # "shield" /\ Spend(ops[s].in, ops[s].call)
  /\ ops' = [ops EXCEPT ![s] =
       IF ops[s].pc = "orphaned" THEN Idle
       ELSE [ops[s] EXCEPT !.pc = "mined",
               !.index = IF ops[s].kind = "shield" THEN Len(leaves) ELSE @]]
  /\ UNCHANGED <<sessionVars, view, hints>>

\* It reverts, and the call throws; without its sender it may also be dropped.
Failed(s) ==
  /\ ops[s].pc \in {"submitted", "orphaned"}
  /\ ~Accepted(s) \/ ops[s].pc = "orphaned"
  /\ ops' = [ops EXCEPT ![s] = Idle]
  /\ UNCHANGED <<sessionVars, view, hints, poolVars>>

\* The hint a call posts, to whom it addresses it; posting it may fail.
Posted(op) ==
  CASE op.kind = "shield" -> {[to |-> EncryptionKey(Me), commitment |-> op.note]}
    [] op.kind = "privateSend" ->
         {[to |-> PubkeyTakenAsPrivkey(op.call.newCommitments[1].owner),
           commitment |-> op.call.newCommitments[1]]}
    [] OTHER -> {}

Resumed(s) ==
  LET op == ops[s]
      marked == Marked(view, Range(op.in))
  IN
  /\ op.pc = "mined"
  /\ view' = IF op.note = Zero THEN marked ELSE TrackNote(marked, op.note, op.index)
  /\ hints' \in {hints, hints \cup Posted(op)}
  /\ ops' = [ops EXCEPT ![s] = Idle]
  /\ UNCHANGED <<sessionVars, poolVars>>

-----------------------------------------------------------------------------
(* The other users of the pool *)

OthersShield ==
  \E from \in Accounts, o \in Keys, t \in Tokens, amount \in Amounts :
  \E c \in Fresh(o, t, amount) :
    Shield(from, [token |-> t, amount |-> amount, commitment |-> c])

\* The notes of a token an output may be.
AnyFresh(t) == UNION {Fresh(o, t, amount) : o \in Keys, amount \in Amounts}

\* Of one note, what the outputs leave over goes to an address.
OthersSpend ==
  \E c \in Range(leaves), to \in Accounts : \E outs \in Pairs(AnyFresh(c.token)) :
    LET rest == c.amount - SlotAmount(outs[1]) - SlotAmount(outs[2]) IN
    /\ rest >= 0
    /\ Spend(<<c, Zero>>,
             SpendCall(Len(leaves), c.token, <<c, Zero>>, outs, rest,
                       IF rest = 0 THEN Zero ELSE to))

-----------------------------------------------------------------------------
ClientInit ==
  /\ Init
  /\ session = "new"
  /\ queried = 0
  /\ view = EmptyView
  /\ heard = [Shielded |-> 0, Spent |-> 0]
  /\ ops = [s \in Slots |-> Idle]
  /\ hints = {}

Sync == QueryShielded \/ QuerySpent \/ StartListening \/ ScanHints

Listen == Deliver("Shielded") \/ Deliver("Spent")

Call(s) ==
  \/ \E c \in Commitment : StartShield(s, c)
  \/ \E t \in Tokens, amount \in Amounts :
       \/ \E to \in Accounts : StartUnshield(s, t, amount, to)
       \/ \E receiver \in Keys : StartPrivateSend(s, t, amount, receiver)
  \/ Proven(s)
  \/ Resumed(s)

ClientNext ==
  \/ Sync \/ Listen \/ Disconnect \/ Restart
  \/ \E s \in Slots : Call(s) \/ Mined(s) \/ Failed(s)
  \/ (OthersShield \/ OthersSpend) /\ UNCHANGED clientVars

ClientSpec == ClientInit /\ [][ClientNext]_<<clientVars, poolVars>>
=============================================================================
