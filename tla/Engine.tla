------------------------------- MODULE Engine -------------------------------
(***************************************************************************)
(* The V1 engine, engine/src: the routes /shield, /unshield and            *)
(* /private-transfer, core/NoteManager.ts and storage/ZeroGStorage.ts.     *)
(*                                                                         *)
(* One Node.js process serves the requests; the handlers interleave at     *)
(* their awaits, so a step is the code between two of them.  Salts are     *)
(* random: a commitment, and the nullifier it determines, is the number of *)
(* the draw.  A stored blob is never changed, so reading it is part of the *)
(* next step that reads something mutable; it decrypts and passes its      *)
(* integrity check.  There is one token, a whitelisted one.  Who sends     *)
(* /shield is who sent the deposit; who sends /unshield knows the          *)
(* commitment from an answer of the engine.                                *)
(***************************************************************************)
EXTENDS Integers, Sequences, FiniteSets, Functions

CONSTANTS MaxRequests,    \* bound: requests, numbered in the order they arrive
          Owners,
          Deposits,       \* the commitments of the shields sent to the chain
          DepositOwner,   \* who sent each of them
          Holder,         \* an owner, and the amounts of the notes of theirs
          Stock,          \*   that earlier calls of /shield booked
          Amounts,        \* the amounts requests ask for
          DepositAmount,  \* what each of the Deposits carries
          MaxPolls,       \* polls that fit in maxWaitMs, 30 in the code
          MaxFaults       \* bound: failing calls and restarts

ASSUME EngineAssumption ==
  /\ MaxRequests \in Nat
  /\ Deposits # {}
  /\ Holder \in Owners
  /\ Stock \in Seq(Nat)
  /\ Amounts \subseteq Nat \ {0}
  /\ DepositOwner \in [Deposits -> Owners]
  /\ DepositAmount \in [Deposits -> Nat]
  /\ MaxPolls \in Nat \ {0}
  /\ MaxFaults \in Nat

VARIABLES adapter,     \* "local" or "0g": the storage chosen at the start
          notes,       \* note:{commitment}, a partial function
          owners,      \* owner:{owner}:{token}, a list per owner
          spent,       \* spent:{nullifier}
          salts,       \* how many salts were drawn
          mined,       \* the Deposits the chain has
          nullified,   \* the nullifiers the pool has
          req,         \* the handlers' local variables
          past,        \* history: what happened while a request ran,
          overlap,     \*   and whether two requests ever overlapped
          faults       \* how many calls failed

Requests == 1..MaxRequests

storage == <<adapter, notes, owners, spent>>
chain == <<mined, nullified>>
engineVars == <<storage, salts, chain, req, past, overlap, faults>>

Commitments == Nat \ {0}

NoteOf(owner, amount) == [owner |-> owner, amount |-> amount]

Request ==
  [pc : {"idle", "wait", "put", "list", "append", "load", "owned", "scan",
         "chain", "check", "mark", "params", "done"},
   kind : {"none", "shield", "unshield", "transfer"},
   owner : Owners, to : Owners, amount : Nat, deposit : Deposits,
   polls : 0..MaxPolls,
   todo : Seq(Commitments),      \* the notes a loop has still to visit
   selected : Seq(Commitments),  \* the notes to spend
   sync : BOOLEAN,               \* spendNote after the chain had the nullifier
   due : Seq([owner : Owners, amount : Nat]),  \* createNote calls to make
   built : Seq(Commitments),     \* the commitments of the answer
   draft : Commitments \cup {0}, \* the note createNote is storing
   copy : Seq(Commitments),      \* addOwnerCommitment's existing
   answer : {"none", "created", "signed", "refused", "error", "lost"}]

Past ==
  [known : SUBSET Commitments,   \* notes signed away before it began
   spends : SUBSET Commitments,  \* notes it marked spent
   blind : BOOLEAN]              \* a failed read told it a note was unspent

Idle == [pc |-> "idle", kind |-> "none", owner |-> Holder,
         to |-> Holder, amount |-> 0,
         deposit |-> CHOOSE d \in Deposits : TRUE, polls |-> 0, todo |-> << >>,
         selected |-> << >>, sync |-> FALSE, due |-> << >>, built |-> << >>,
         draft |-> 0, copy |-> << >>, answer |-> "none"]

EngineInit ==
  /\ adapter \in {"local", "0g"}
  /\ notes = [c \in 1..Len(Stock) |-> NoteOf(Holder, Stock[c])]
  /\ owners = [o \in Owners |-> IF o = Holder THEN [c \in 1..Len(Stock) |-> c]
                                              ELSE << >>]
  /\ spent = {}
  /\ salts = Len(Stock)
  /\ mined = {}
  /\ nullified = {}
  /\ req = [r \in Requests |-> Idle]
  /\ past = [r \in Requests |->
               [known |-> {}, spends |-> {}, blind |-> FALSE]]
  /\ overlap = FALSE
  /\ faults = 0

-----------------------------------------------------------------------------
InProgress == {r \in Requests : req[r].pc \notin {"idle", "done"}}
Signed == {r \in Requests : req[r].answer = "signed"}

NotesSignedBy(r) == Range(req[r].selected)

\* The commitments in the answers of /shield and /private-transfer.
Answered ==
  1..Len(Stock) \cup
  UNION {Range(req[r].built) : r \in {q \in Requests :
                                        req[q].answer \in {"created", "signed"}}}

Goto(r, pc) == req' = [req EXCEPT ![r].pc = pc]

\* A reply without a note or a signature: the handler's variables are gone.
Reply(r, answer) ==
  req' = [req EXCEPT ![r] = [Idle EXCEPT !.pc = "done", !.kind = req[r].kind,
                                         !.deposit = req[r].deposit,
                                         !.answer = answer]]

\* signUnshield, signPrivateAction: the params name the notes selected.
Sign(r) ==
  req' = [req EXCEPT ![r].pc = "done", ![r].answer = "signed",
                     ![r].todo = << >>, ![r].due = << >>]

\* A call that fails: only the network's can, and MaxFaults of them do.
Fault == faults < MaxFaults /\ faults' = faults + 1
StorageFault == adapter = "0g" /\ Fault

\* The next createNote, which draws its salt before its first await, or what
\* comes after the last.
CreateOr(r, due, after) ==
  IF due = << >>
  THEN after /\ UNCHANGED salts
  ELSE /\ salts' = salts + 1
       /\ req' = [req EXCEPT ![r].pc = "put", ![r].due = due,
                             ![r].draft = salts + 1,
                             ![r].todo = << >>]

-----------------------------------------------------------------------------
\* A handler starts.
Start(r, input) ==
  /\ req[r].pc = "idle"
  /\ \A q \in 1..(r - 1) : req[q].pc # "idle"
  /\ req' = [req EXCEPT ![r] = input]
  /\ past' = [past EXCEPT ![r].known = UNION {NotesSignedBy(s) : s \in Signed}]
  /\ overlap' = (overlap \/ InProgress # {})
  /\ UNCHANGED <<storage, salts, chain, faults>>

StartShield(r, deposit, claimed) ==
  Start(r, [Idle EXCEPT !.pc = "wait", !.kind = "shield",
                        !.owner = DepositOwner[deposit], !.deposit = deposit,
                        !.amount = claimed])

StartUnshield(r, owner, commitment, amount) ==
  Start(r, [Idle EXCEPT !.pc = "load", !.kind = "unshield", !.owner = owner,
                        !.selected = <<commitment>>, !.amount = amount])

StartTransfer(r, from, to, amount) ==
  Start(r, [Idle EXCEPT !.pc = "owned", !.kind = "transfer", !.owner = from,
                        !.to = to, !.amount = amount])

-----------------------------------------------------------------------------
\* waitForShieldEvent: the event is among the last 100 blocks, and carries
\* the amount claimed or does not; or it is not there, yet or any more.
EventFound(r) ==
  /\ req[r].pc = "wait"
  /\ req[r].deposit \in mined
  /\ IF DepositAmount[req[r].deposit] = req[r].amount
     THEN CreateOr(r, <<NoteOf(req[r].owner, req[r].amount)>>, FALSE)
     ELSE Reply(r, "refused") /\ UNCHANGED salts
  /\ UNCHANGED <<storage, chain, past, overlap, faults>>

BrokenEventMissing(r) ==
  /\ req[r].pc = "wait"
  /\ req' = [req EXCEPT ![r].polls = @ + 1]
  /\ UNCHANGED <<storage, salts, chain, past, overlap, faults>>

EventMissing(r) ==
  /\ req[r].pc = "wait"
  /\ IF req[r].polls + 1 < MaxPolls
     THEN req' = [req EXCEPT ![r].polls = @ + 1]
     ELSE Reply(r, "error")
  /\ UNCHANGED <<storage, salts, chain, past, overlap, faults>>

-----------------------------------------------------------------------------
\* createNote
Put(r) ==
  notes' = [c \in DOMAIN notes \cup {req[r].draft} |->
              IF c = req[r].draft THEN Head(req[r].due) ELSE notes[c]]

\* The upload is not awaited, and fails.
BrokenPutNote(r) ==
  /\ req[r].pc = "put"
  /\ Goto(r, "list")
  /\ UNCHANGED <<storage, salts, chain, past, overlap, faults>>

PutNote(r) ==
  /\ req[r].pc = "put"
  /\ Put(r)
  /\ Goto(r, "list")
  /\ UNCHANGED <<adapter, owners, spent, salts, chain, past, overlap, faults>>

Listed(r) == owners[Head(req[r].due).owner]

\* addOwnerCommitment, with the 0G adapter: the list is read, and a failed
\* read reads as an empty list.
ReadList(r) ==
  /\ req[r].pc = "list"
  /\ adapter = "0g"
  /\ \/ /\ req' = [req EXCEPT ![r].pc = "append", ![r].copy = Listed(r)]
        /\ UNCHANGED faults
     \/ /\ req' = [req EXCEPT ![r].pc = "append", ![r].copy = << >>]
        /\ StorageFault
  /\ UNCHANGED <<storage, salts, chain, past, overlap>>

\* The list is written back with the commitment, a new one, so that includes
\* never finds it there; the local adapter appends to the list itself.
AppendTo(r, list) ==
  owners' = [owners EXCEPT ![Head(req[r].due).owner] = Append(list, req[r].draft)]

\* createNote returns: to the next one, to the params of a transfer, or, in
\* /shield, to the answer, which has the commitment of the note created.
NoteCreated(r) ==
  CreateOr(r, Tail(req[r].due),
           IF req[r].kind = "transfer"
           THEN req' = [req EXCEPT ![r].pc = "params", ![r].due = << >>,
                                   ![r].draft = 0, ![r].copy = << >>]
           ELSE req' = [req EXCEPT ![r].pc = "done", ![r].answer = "created",
                                   ![r].built = <<req[r].draft>>,
                                   ![r].draft = 0, ![r].due = << >>,
                                   ![r].copy = << >>])

AppendOwner(r) ==
  /\ \/ req[r].pc = "append" /\ AppendTo(r, req[r].copy)
     \/ req[r].pc = "list" /\ adapter = "local" /\ AppendTo(r, Listed(r))
  /\ NoteCreated(r)
  /\ UNCHANGED <<adapter, notes, spent, chain, past, overlap, faults>>

-----------------------------------------------------------------------------
\* The index is read under another key.
BrokenSeenSpent(r, c, seen) == seen = FALSE /\ UNCHANGED <<past, faults>>

\* isNullifierSpent, as storage answers it; a failed read answers false.
SeenSpent(r, c, seen) ==
  \/ /\ seen = (c \in spent)
     /\ UNCHANGED <<past, faults>>
  \/ /\ seen = FALSE
     /\ StorageFault
     /\ past' = [past EXCEPT ![r].blind = TRUE]

\* The head of /unshield: loadNote, the owner, the amount and isSpent.
LoadNote(r) ==
  LET c == Head(req[r].selected) IN
  /\ req[r].pc = "load"
  /\ \/ /\ \/ c \notin DOMAIN notes
           \/ /\ c \in DOMAIN notes
              /\ \/ notes[c].owner # req[r].owner
                 \/ req[r].amount > notes[c].amount
        /\ Reply(r, "refused")
        /\ UNCHANGED <<past, faults>>
     \/ /\ c \in DOMAIN notes
        /\ notes[c].owner = req[r].owner
        /\ req[r].amount <= notes[c].amount
        /\ \E seen \in BOOLEAN :
             /\ SeenSpent(r, c, seen)
             /\ IF seen
                THEN Reply(r, "refused")
                ELSE req' = [req EXCEPT ![r].pc = "chain",
                                        ![r].todo = req[r].selected]
  /\ UNCHANGED <<storage, salts, chain, overlap>>

-----------------------------------------------------------------------------
\* getBalance: the owner's list, or none when the read fails.
ReadOwned(r) ==
  /\ req[r].pc = "owned"
  /\ \/ /\ req' = [req EXCEPT ![r].pc = "scan", ![r].todo = owners[req[r].owner]]
        /\ UNCHANGED faults
     \/ /\ Goto(r, "scan")
        /\ StorageFault
  /\ UNCHANGED <<storage, salts, chain, past, overlap>>

\* What is left of the list.  The local adapter hands out the list itself, and
\* the loop sees what is appended to it meanwhile.
ToVisit(r) ==
  LET list == owners[req[r].owner]
      at == CHOOSE i \in DOMAIN list : list[i] = Head(req[r].todo)
  IN IF adapter = "local" THEN SubSeq(list, at, Len(list)) ELSE req[r].todo

\* One note of the list: kept when it is unspent, skipped when its blob is
\* missing or cannot be read.
ScanNote(r) ==
  LET c == Head(req[r].todo) IN
  /\ req[r].pc = "scan"
  /\ req[r].todo # << >>
  /\ \/ /\ c \in DOMAIN notes
        /\ \E seen \in BOOLEAN :
             /\ SeenSpent(r, c, seen)
             /\ req' = [req EXCEPT ![r].todo = Tail(ToVisit(r)),
                                   ![r].selected = IF seen THEN @ ELSE Append(@, c)]
     \/ /\ c \notin DOMAIN notes \/ adapter = "0g"
        /\ IF c \in DOMAIN notes THEN StorageFault ELSE UNCHANGED faults
        /\ req' = [req EXCEPT ![r].todo = Tail(ToVisit(r))]
        /\ UNCHANGED past
  /\ UNCHANGED <<storage, salts, chain, overlap>>

Total(cs) == SumFunctionOnSet([c \in cs |-> notes[c].amount], cs)

\* selectNotes sorts the notes by amount, largest first, and takes notes until
\* they cover the amount: a note is taken when those before it do not.  There
\* is one such selection.
Selections(list, amount) ==
  LET Before(i, j) == \/ notes[list[i]].amount > notes[list[j]].amount
                      \/ notes[list[i]].amount = notes[list[j]].amount /\ i < j
      taken == {j \in DOMAIN list :
                  Total({list[i] : i \in {k \in DOMAIN list : Before(k, j)}}) < amount}
      sorted == {s \in [1..Cardinality(taken) -> taken] :
                   \A m, n \in DOMAIN s : m < n => Before(s[m], s[n])}
  IN {[n \in DOMAIN s |-> list[s[n]]] : s \in sorted}

\* The end of selectNotes.  The notes selected go through the on-chain check.
SelectNotes(r) ==
  /\ req[r].pc = "scan"
  /\ req[r].todo = << >>
  /\ IF Total(Range(req[r].selected)) < req[r].amount
     THEN Reply(r, "refused")
     ELSE \E list \in Selections(req[r].selected, req[r].amount) :
            req' = [req EXCEPT ![r].pc = "chain", ![r].selected = list, ![r].todo = list]
  /\ UNCHANGED <<storage, salts, chain, past, overlap, faults>>

-----------------------------------------------------------------------------
\* The cross-check with the pool's nullifiers, note by note.  A nullifier the
\* pool has is recorded in storage with spendNote, and the request refused.
CheckChain(r) ==
  LET c == Head(req[r].todo) IN
  /\ req[r].pc = "chain"
  /\ req[r].todo # << >>
  /\ req' = IF c \in nullified
            THEN [req EXCEPT ![r].pc = "check", ![r].sync = TRUE, ![r].todo = <<c>>]
            ELSE [req EXCEPT ![r].todo = Tail(@)]
  /\ UNCHANGED <<storage, salts, chain, past, overlap, faults>>

BrokenChange(r) == Total(NotesSignedBy(r))

Change(r) == Total(NotesSignedBy(r)) - req[r].amount

\* The notes a transfer makes: the receiver's, and the change when there is any.
BrokenNewNotes(r) == <<NoteOf(req[r].to, req[r].amount)>>

NewNotes(r) ==
  <<NoteOf(req[r].to, req[r].amount)>> \o
  IF Change(r) > 0 THEN <<NoteOf(req[r].owner, Change(r))>> ELSE << >>

\* After the loop: /unshield reads the root and the time and builds the params;
\* /private-transfer builds the receiver's note and the change, with salts of
\* their own.  Both then spend the notes.
BuildParams(r) ==
  LET n == IF req[r].kind = "transfer" THEN Len(NewNotes(r)) ELSE 0 IN
  /\ req[r].pc = "chain"
  /\ req[r].todo = << >>
  /\ salts' = salts + n
  /\ req' = [req EXCEPT
               ![r].pc = "check",
               ![r].todo = req[r].selected,
               ![r].built = [i \in 1..n |-> salts + i],
               ![r].due = IF n = 0 THEN << >> ELSE NewNotes(r)]
  /\ UNCHANGED <<storage, chain, past, overlap, faults>>

\* spendNote, first half: a note that is spent ends the request.
CheckSpent(r) ==
  LET c == Head(req[r].todo) IN
  /\ req[r].pc = "check"
  /\ req[r].todo # << >>
  /\ \E seen \in BOOLEAN :
       /\ SeenSpent(r, c, seen)
       /\ IF seen THEN Reply(r, "refused") ELSE Goto(r, "mark")
  /\ UNCHANGED <<storage, salts, chain, overlap>>

\* spendNote, second half, and what follows it: the 409 of the cross-check,
\* the next note, the new notes of a transfer, or the signature of an unshield.
Mark(r) ==
  /\ spent' = spent \cup {Head(req[r].todo)}
  /\ past' = [past EXCEPT ![r].spends = @ \cup {Head(req[r].todo)}]

MarkSpent(r) ==
  /\ req[r].pc = "mark"
  /\ Mark(r)
  /\ \/ /\ req[r].sync
        /\ Reply(r, "refused")
        /\ UNCHANGED salts
     \/ /\ ~req[r].sync
        /\ Tail(req[r].todo) # << >>
        /\ req' = [req EXCEPT ![r].pc = "check", ![r].todo = Tail(@)]
        /\ UNCHANGED salts
     \/ /\ ~req[r].sync
        /\ Tail(req[r].todo) = << >>
        /\ CreateOr(r, req[r].due, Sign(r))
  /\ UNCHANGED <<adapter, notes, owners, chain, overlap, faults>>

\* The root and the time of a transfer's params, read last, and its signature.
SignTransfer(r) ==
  /\ req[r].pc = "params"
  /\ Sign(r)
  /\ UNCHANGED <<storage, salts, chain, past, overlap, faults>>

-----------------------------------------------------------------------------
\* A call whose error the handler answers with 400 or 500: any of the chain's,
\* and getNote outside getBalance.
CallFails(r) ==
  /\ \/ req[r].pc \in {"wait", "chain", "params"} /\ Fault
     \/ req[r].pc \in {"load", "owned"} /\ StorageFault
     \/ req[r].pc = "scan" /\ req[r].todo = << >> /\ StorageFault
  /\ Reply(r, "error")
  /\ UNCHANGED <<storage, salts, chain, past, overlap>>

\* The failure of the mark is only logged, and the handler goes on.
BrokenUploadFails(r) ==
  /\ req[r].pc = "mark"
  /\ StorageFault
  /\ IF req[r].kind = "unshield" THEN Sign(r) ELSE Reply(r, "error")
  /\ UNCHANGED <<storage, salts, chain, past, overlap>>

\* An upload that fails: storage may have it all the same.
UploadFails(r) ==
  /\ req[r].pc \in {"put", "append", "mark"}
  /\ StorageFault
  /\ Reply(r, "error")
  /\ \/ UNCHANGED <<notes, owners, spent, past>>
     \/ req[r].pc = "put" /\ Put(r) /\ UNCHANGED <<owners, spent, past>>
     \/ req[r].pc = "append" /\ AppendTo(r, req[r].copy) /\ UNCHANGED <<notes, spent, past>>
     \/ req[r].pc = "mark" /\ Mark(r) /\ UNCHANGED <<notes, owners>>
  /\ UNCHANGED <<adapter, salts, chain, overlap>>

\* The process restarts: no request is answered any more, and what the local
\* adapter held is gone.
Restart ==
  /\ Fault
  /\ req' = [r \in Requests |->
               IF r \in InProgress
               THEN [Idle EXCEPT !.pc = "done", !.kind = req[r].kind,
                                 !.deposit = req[r].deposit, !.answer = "lost"]
               ELSE req[r]]
  /\ IF adapter = "0g"
     THEN UNCHANGED <<notes, owners, spent>>
     ELSE /\ notes' = << >>
          /\ owners' = [o \in Owners |-> << >>]
          /\ spent' = {}
  /\ UNCHANGED <<adapter, salts, chain, past, overlap>>

\* The chain: a deposit is mined; the answer of a request is submitted, and
\* the pool accepts it unless it has one of its nullifiers.
MineShield(d) ==
  /\ mined' = mined \cup {d}
  /\ UNCHANGED <<storage, salts, nullified, req, past, overlap, faults>>

Submit(r) ==
  /\ r \in Signed
  /\ NotesSignedBy(r) \cap nullified = {}
  /\ nullified' = nullified \cup NotesSignedBy(r)
  /\ UNCHANGED <<storage, salts, mined, req, past, overlap, faults>>

-----------------------------------------------------------------------------
Arrive(r) ==
  \E n \in Amounts :
    \/ \E d \in Deposits : StartShield(r, d, n)
    \/ \E o \in Owners, c \in Answered : StartUnshield(r, o, c, n)
    \/ \E from, to \in Owners : StartTransfer(r, from, to, n)

Proceed(r) ==
  \/ EventFound(r) \/ EventMissing(r)
  \/ PutNote(r) \/ ReadList(r) \/ AppendOwner(r)
  \/ LoadNote(r)
  \/ ReadOwned(r) \/ ScanNote(r) \/ SelectNotes(r)
  \/ CheckChain(r) \/ BuildParams(r)
  \/ CheckSpent(r) \/ MarkSpent(r)
  \/ SignTransfer(r)
  \/ CallFails(r) \/ UploadFails(r)

EngineNext ==
  \/ \E r \in Requests : Arrive(r) \/ Proceed(r) \/ Submit(r)
  \/ Restart
  \/ \E d \in Deposits : MineShield(d)

EngineSpec == EngineInit /\ [][EngineNext]_engineVars
=============================================================================
