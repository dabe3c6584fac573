---------------------------- MODULE Engine_proofs ----------------------------
(***************************************************************************)
(* What holds of Engine for any number of requests, notes and faults:      *)
(* first of the names of notes (IInv, where no amount plays a part), then  *)
(* of types and amounts (CInv), of the value of the book against the chain *)
(* (Backed), and of requests served one at a time (SeqInv).                *)
(***************************************************************************)
EXTENDS EngineProperties, FiniteSetTheorems, TLAPS

Fields == {"pc", "kind", "owner", "to", "amount", "deposit", "polls", "todo", "selected",
           "sync", "due", "built", "draft", "copy", "answer"}

Creating == {"put", "list", "append"}

\* The notes createNote has still to make are a sequence, each of some owner.
IsDue(due) ==
  /\ due \in Seq(Range(due))
  /\ \A n \in Range(due) : n.owner \in Owners

OwnedBy(ns, c, o) == c \in DOMAIN ns /\ ns[c].owner = o

\* Notes that a request with history p has marked: they are spent, and p was
\* told that they were not if they were signed away before it began.
Locked(S, p, ns, sp) ==
  /\ S \cap DOMAIN ns \subseteq sp
  /\ S \cap p.known # {} => p.blind

\* What holds of the variables x of a handler and of its history p, with the
\* notes ns, the spent index sp and n salts drawn.
RequestOK(x, p, ns, sp, n) ==
  /\ DOMAIN x = Fields
  /\ x.owner \in Owners /\ x.to \in Owners
  /\ x.selected \in Seq(Nat) /\ Range(x.selected) \subseteq 1..n
  /\ Range(x.built) \subseteq 1..n
  /\ IsDue(x.due)
  /\ x.pc \in Creating => x.due # << >> /\ x.draft \in (Len(Stock) + 1)..n
  /\ x.pc = "put" => x.draft \notin DOMAIN ns
  /\ x.pc \in {"list", "append"} => OwnedBy(ns, x.draft, Head(x.due).owner)
  /\ x.pc = "append" => /\ x.copy \in Seq(Nat)
                        /\ \A c \in Range(x.copy) : OwnedBy(ns, c, Head(x.due).owner)
  /\ x.pc \in {"wait", "owned"} => x.selected = << >>
  /\ x.pc = "load" => Range(x.selected) = {Head(x.selected)}
  /\ x.pc \notin {"idle", "done", "load"} => Range(x.selected) \subseteq DOMAIN ns
  /\ x.pc \in {"check", "mark"} /\ ~x.sync =>
       /\ x.todo \in Seq(Nat) /\ Range(x.todo) \subseteq Range(x.selected)
       /\ Locked(Range(x.selected) \ Range(x.todo), p, ns, sp)
  /\ x.pc = "mark" /\ ~x.sync => /\ x.todo # << >>
                                 /\ Head(x.todo) \in p.known => p.blind
  /\ x.pc \in Creating \cup {"params"} \/ x.answer = "signed" =>
       Locked(Range(x.selected), p, ns, sp)
  /\ x.answer = "signed" => x.pc = "done"
  /\ DOMAIN p = {"known", "spends", "blind"}
  /\ p.known \subseteq 1..n
  /\ p.known \cap DOMAIN ns \subseteq sp

\* A commitment that is drawn and not stored is nobody's yet.
Avoids(x, y, p) ==
  x.pc = "put" => x.draft \notin Range(y.selected) \cup Range(y.built) \cup p.known

Apart(x, y) ==
  x.pc \in Creating /\ y.pc \in Creating => x.draft # y.draft

IInv ==
  /\ salts \in Nat /\ Len(Stock) <= salts
  /\ DOMAIN notes \subseteq 1..salts
  /\ owners \in [Owners -> Seq(Nat)]
  /\ \A o \in Owners : \A c \in Range(owners[o]) : OwnedBy(notes, c, o)
  /\ DOMAIN req = Requests /\ DOMAIN past = Requests
  /\ \A r \in Requests : RequestOK(req[r], past[r], notes, spent, salts)
  /\ \A r, q \in Requests : Avoids(req[r], req[q], past[q])
  /\ \A r, q \in Requests : r # q => Apart(req[r], req[q])

(***************************************************************************)
(* A sequence is one of its own elements, and has a first and the others.  *)
(***************************************************************************)
LEMMA OwnElements ==
  ASSUME NEW S, NEW t \in Seq(S)
  PROVE  t \in Seq(Range(t)) /\ Range(t) \subseteq S
<1>1. \A i \in 1..Len(t) : t[i] \in Range(t) BY DEF Range
<1>2. t = [i \in 1..Len(t) |-> t[i]] /\ Len(t) \in Nat OBVIOUS
<1>3. Range(t) \subseteq S BY DEF Range
<1> QED BY <1>1, <1>2, <1>3

(***************************************************************************)
(* The elements of a sequence that a loop consumes from its head.          *)
(***************************************************************************)
LEMMA HeadAndTail ==
  ASSUME NEW S, NEW t \in Seq(S), t # << >>
  PROVE  /\ Tail(t) \in Seq(S)
         /\ Range(t) = {Head(t)} \cup Range(Tail(t))
<1>1. Len(t) \in Nat /\ Len(t) # 0 /\ Head(t) = t[1] /\ DOMAIN t = 1..Len(t)
  OBVIOUS
<1>2. Tail(t) \in Seq(S)
  OBVIOUS
<1>3. Len(Tail(t)) = Len(t) - 1 /\ DOMAIN Tail(t) = 1..Len(Tail(t))
  OBVIOUS
<1>4. \A i \in 1..Len(Tail(t)) : Tail(t)[i] = t[i + 1]
  OBVIOUS
<1>5. Head(t) \in Range(t)
  BY <1>1 DEF Range
<1>6. Range(Tail(t)) \subseteq Range(t)
  BY <1>1, <1>3, <1>4 DEF Range
<1>7. ASSUME NEW i \in 1..Len(t) PROVE t[i] \in {Head(t)} \cup Range(Tail(t))
  <2>1. CASE i = 1 BY <2>1, <1>1
  <2>2. CASE i # 1
    <3>1. i - 1 \in DOMAIN Tail(t) /\ Tail(t)[i - 1] = t[i] BY <1>1, <1>3, <1>4, <2>2
    <3> QED BY <3>1 DEF Range
  <2> QED BY <2>1, <2>2
<1>8. Range(t) \subseteq {Head(t)} \cup Range(Tail(t))
  BY <1>1, <1>7 DEF Range
<1> QED BY <1>2, <1>5, <1>6, <1>8

(***************************************************************************)
(* The invariant gives what the runs check.                                *)
(***************************************************************************)
LEMMA InvariantImplies ==
  IInv => SignedIsLocked /\ ListsNameNotes /\ LaterRequestRefused
<1> SUFFICES ASSUME IInv PROVE SignedIsLocked /\ ListsNameNotes /\ LaterRequestRefused
  OBVIOUS
<1>1. ListsNameNotes
  BY DEF IInv, ListsNameNotes, OwnedBy
<1>2. \A r \in Signed : Locked(NotesSignedBy(r), past[r], notes, spent)
  BY DEF IInv, RequestOK, Signed, NotesSignedBy
<1>3. SignedIsLocked
  BY <1>2 DEF SignedIsLocked, Locked
<1>4. LaterRequestRefused
  BY <1>2 DEF LaterRequestRefused, Locked
<1> QED BY <1>1, <1>3, <1>4

(***************************************************************************)
(* A handler that has not begun, and one that has answered with an error.  *)
(***************************************************************************)
LEMMA IdleShape ==
  /\ DOMAIN Idle = Fields /\ Idle.pc = "idle" /\ Idle.owner \in Owners /\ Idle.to \in Owners
  /\ Idle.selected = << >> /\ Idle.built = << >> /\ Idle.due = << >>
  /\ Idle.answer = "none" /\ Idle.sync = FALSE
BY EngineAssumption DEF Idle, Fields

(***************************************************************************)
(* The first notes are those of the stock.                                 *)
(***************************************************************************)
LEMMA InitInvariant == EngineInit => IInv
<1> SUFFICES ASSUME EngineInit PROVE IInv
  OBVIOUS
<1>1. Len(Stock) \in Nat BY EngineAssumption
<1>2. /\ salts = Len(Stock) /\ DOMAIN notes = 1..Len(Stock) /\ spent = {}
      /\ \A c \in DOMAIN notes : notes[c].owner = Holder
  BY DEF EngineInit, NoteOf
<1>3. /\ owners \in [Owners -> Seq(Nat)]
      /\ \A o \in Owners : \A c \in Range(owners[o]) : OwnedBy(notes, c, o)
  <2>1. [c \in 1..Len(Stock) |-> c] \in Seq(Nat) BY <1>1
  <2>2. owners \in [Owners -> Seq(Nat)] BY <2>1 DEF EngineInit
  <2>3. ASSUME NEW o \in Owners, NEW c \in Range(owners[o]) PROVE OwnedBy(notes, c, o)
    <3>1. CASE o = Holder
      <4>1. owners[o] = [n \in 1..Len(Stock) |-> n] BY <3>1 DEF EngineInit
      <4>2. c \in 1..Len(Stock) BY <4>1 DEF Range
      <4> QED BY <3>1, <4>2, <1>2 DEF OwnedBy
    <3>2. CASE o # Holder
      <4>1. owners[o] = << >> BY <3>2 DEF EngineInit
      <4> QED BY <4>1 DEF Range
    <3> QED BY <3>1, <3>2
  <2> QED BY <2>2, <2>3
<1>4. /\ DOMAIN req = Requests /\ DOMAIN past = Requests
      /\ \A r \in Requests : /\ req[r] = Idle /\ past[r].known = {}
                             /\ DOMAIN past[r] = {"known", "spends", "blind"}
  BY DEF EngineInit
<1>5. IsDue(<< >>) /\ Range(<< >>) = {}
  BY DEF IsDue, Range
<1>6. \A r \in Requests : RequestOK(req[r], past[r], notes, spent, salts)
  <2> SUFFICES ASSUME NEW p, DOMAIN p = {"known", "spends", "blind"}, p.known = {}
               PROVE  RequestOK(Idle, p, notes, spent, salts)
    BY <1>4
  <2> QED BY <1>1, <1>2, <1>5, IdleShape DEF RequestOK, Creating
<1>7. \A r, q \in Requests : Avoids(req[r], req[q], past[q]) /\ req[r].pc \notin Creating
  BY <1>4, IdleShape DEF Avoids, Creating
<1> QED BY <1>1, <1>2, <1>3, <1>4, <1>6, <1>7 DEF IInv, Apart

(***************************************************************************)
(* Notes that are stored and marks that are set while another handler runs *)
(* do not disturb a request: what is stored is nobody else's.              *)
(***************************************************************************)
LEMMA OthersUndisturbed ==
  ASSUME NEW x, NEW p, NEW d,
         RequestOK(x, p, notes, spent, salts),
         salts \in Nat, salts' \in Nat, salts <= salts', spent \subseteq spent',
         DOMAIN notes \subseteq DOMAIN notes', DOMAIN notes' \subseteq DOMAIN notes \cup {d},
         \A c \in DOMAIN notes : notes'[c].owner = notes[c].owner,
         d \in DOMAIN notes' \ DOMAIN notes =>
           /\ d \notin Range(x.selected) \cup p.known
           /\ x.pc = "put" => x.draft # d
  PROVE  RequestOK(x, p, notes', spent', salts')
<1>1. 1..salts \subseteq 1..salts' /\ (Len(Stock) + 1)..salts \subseteq (Len(Stock) + 1)..salts'
  BY EngineAssumption
<1>2. \A c, o : OwnedBy(notes, c, o) => OwnedBy(notes', c, o)
  BY DEF OwnedBy
<1>3. \A S : S \subseteq Range(x.selected) /\ Locked(S, p, notes, spent)
             => Locked(S, p, notes', spent')
  BY DEF Locked
<1>4. p.known \cap DOMAIN notes' \subseteq spent'
  BY DEF RequestOK
<1>5. x.pc = "put" => x.draft \notin DOMAIN notes'
  BY DEF RequestOK
<1>6. Range(x.selected) \ Range(x.todo) \subseteq Range(x.selected)
  OBVIOUS
<1> QED BY <1>1, <1>2, <1>3, <1>4, <1>5, <1>6 DEF RequestOK

(***************************************************************************)
(* The commitment of a note being created is one of those drawn, and not   *)
(* of the stock.                                                           *)
(***************************************************************************)
LEMMA DraftDrawn ==
  ASSUME NEW x, NEW p, NEW ns, NEW sp, NEW n \in Nat, RequestOK(x, p, ns, sp, n),
         x.pc \in Creating
  PROVE  x.draft \in 1..n /\ x.draft > Len(Stock)
<1>1. Len(Stock) \in Nat BY EngineAssumption
<1>2. x.draft \in (Len(Stock) + 1)..n BY DEF RequestOK
<1> QED BY <1>1, <1>2

(***************************************************************************)
(* What a step of one request has to establish: its own part, lists that   *)
(* name stored notes, and that it claims no commitment another has drawn.  *)
(***************************************************************************)
LEMMA StepInvariant ==
  ASSUME IInv, NEW r \in Requests,
         DOMAIN req' = Requests, DOMAIN past' = Requests,
         \A q \in Requests \ {r} : req'[q] = req[q] /\ past'[q] = past[q],
         salts' \in Nat, salts <= salts', spent \subseteq spent',
         notes' = notes \/ (req[r].pc = "put" /\ Put(r)),
         owners' \in [Owners -> Seq(Nat)],
         \A o \in Owners : \A c \in Range(owners'[o]) : OwnedBy(notes', c, o),
         RequestOK(req'[r], past'[r], notes', spent', salts'),
         req'[r].pc \in Creating =>
           \/ req'[r].draft > salts
           \/ /\ req'[r].pc # "put" /\ req[r].pc \in Creating
              /\ req'[r].draft = req[r].draft,
         \A q \in Requests \ {r} : Avoids(req[q], req'[r], past'[r]),
         Avoids(req'[r], req'[r], past'[r])
  PROVE  IInv'
<1>1. \A q \in Requests : RequestOK(req[q], past[q], notes, spent, salts)
  BY DEF IInv
<1>2. salts \in Nat /\ DOMAIN notes \subseteq 1..salts /\ 1..salts \subseteq 1..salts'
  BY DEF IInv
<1>3. /\ DOMAIN notes \subseteq DOMAIN notes'
      /\ DOMAIN notes' \subseteq DOMAIN notes \cup {req[r].draft}
      /\ \A c \in DOMAIN notes : notes'[c].owner = notes[c].owner
      /\ req[r].draft \in DOMAIN notes' \ DOMAIN notes => req[r].pc = "put"
  <2>1. CASE notes' = notes BY <2>1
  <2>2. CASE req[r].pc = "put" /\ Put(r)
    <3>1. req[r].draft \notin DOMAIN notes BY <2>2, <1>1 DEF RequestOK
    <3> QED BY <2>2, <3>1 DEF Put
  <2> QED BY <2>1, <2>2
<1>4. DOMAIN notes' \subseteq 1..salts'
  <2>1. req[r].pc = "put" => req[r].draft \in 1..salts
    BY <1>1, <1>2, DraftDrawn DEF Creating
  <2> QED BY <1>2, <1>3, <2>1
<1>5. ASSUME NEW q \in Requests
      PROVE  RequestOK(req'[q], past'[q], notes', spent', salts')
  <2>1. CASE q = r BY <2>1
  <2>2. CASE q # r
    <3>1. req[r].draft \in DOMAIN notes' \ DOMAIN notes =>
            /\ req[r].draft \notin Range(req[q].selected) \cup past[q].known
            /\ req[q].pc = "put" => req[q].draft # req[r].draft
      BY <1>3, <2>2 DEF IInv, Avoids, Apart, Creating
    <3>2. RequestOK(req[q], past[q], notes', spent', salts')
      BY <1>1, <1>2, <1>3, <3>1, OthersUndisturbed
    <3> QED BY <2>2, <3>2
  <2> QED BY <2>1, <2>2
<1>6. req'[r].pc = "put" => req'[r].draft > salts
  BY DEF Creating
<1>7. ASSUME NEW q \in Requests, NEW s \in Requests
      PROVE  Avoids(req'[q], req'[s], past'[s])
  <2>1. CASE q # r /\ s # r BY <2>1 DEF IInv
  <2>2. CASE q # r /\ s = r BY <2>2
  <2>3. CASE q = r /\ s = r BY <2>3
  <2>4. CASE q = r /\ s # r
    <3>1. Range(req[s].selected) \cup Range(req[s].built) \cup past[s].known \subseteq 1..salts
      BY <1>1 DEF RequestOK
    <3> QED BY <2>4, <1>2, <1>6, <3>1 DEF Avoids
  <2> QED BY <2>1, <2>2, <2>3, <2>4
<1>8. ASSUME NEW q \in Requests \ {r}
      PROVE  Apart(req[q], req'[r]) /\ Apart(req'[r], req[q])
  <2>1. req[q].pc \in Creating => req[q].draft \in Nat /\ req[q].draft <= salts
    BY <1>1, <1>2, DraftDrawn
  <2>2. Apart(req[q], req[r]) /\ Apart(req[r], req[q])
    BY DEF IInv
  <2> QED BY <1>2, <2>1, <2>2 DEF Apart
<1>9. \A q, s \in Requests : q # s => Apart(req'[q], req'[s])
  <2> SUFFICES ASSUME NEW q \in Requests, NEW s \in Requests, q # s
               PROVE  Apart(req'[q], req'[s])
    OBVIOUS
  <2>1. CASE q = r BY <2>1, <1>8
  <2>2. CASE s = r BY <2>2, <1>8
  <2>3. CASE q # r /\ s # r BY <2>3 DEF IInv
  <2> QED BY <2>1, <2>2, <2>3
<1>10. Len(Stock) <= salts'
  <2>1. Len(Stock) \in Nat BY EngineAssumption
  <2> QED BY <2>1 DEF IInv
<1> QED BY <1>4, <1>5, <1>7, <1>9, <1>10 DEF IInv

-----------------------------------------------------------------------------
\* The history of a request keeps what it knew, and what it was told.
PastGrows(r) ==
  /\ DOMAIN past' = Requests
  /\ \A q \in Requests \ {r} : past'[q] = past[q]
  /\ DOMAIN past'[r] = DOMAIN past[r]
  /\ past'[r].known = past[r].known
  /\ past[r].blind => past'[r].blind

(***************************************************************************)
(* A step that does not touch the history.                                 *)
(***************************************************************************)
LEMMA PastKept ==
  ASSUME IInv, NEW r \in Requests, UNCHANGED past
  PROVE  PastGrows(r)
BY DEF IInv, PastGrows

(***************************************************************************)
(* A mark is added to the spent index and to what the request consumed.    *)
(***************************************************************************)
LEMMA PastMarks ==
  ASSUME IInv, NEW r \in Requests, Mark(r)
  PROVE  /\ PastGrows(r)
         /\ spent' = spent \cup {Head(req[r].todo)}
<1>1. DOMAIN past = Requests /\ DOMAIN past[r] = {"known", "spends", "blind"}
  BY DEF IInv, RequestOK
<1>2. PastGrows(r)
  <2> DEFINE p == [past[r] EXCEPT !.spends = @ \cup {Head(req[r].todo)}]
  <2>1. past' = [past EXCEPT ![r] = p]
    BY DEF Mark
  <2>2. DOMAIN p = DOMAIN past[r] /\ p.known = past[r].known /\ p.blind = past[r].blind
    BY <1>1
  <2> HIDE DEF p
  <2> QED BY <1>1, <2>1, <2>2 DEF PastGrows
<1> QED BY <1>2 DEF Mark

(***************************************************************************)
(* A request that is told a note is unspent was told the truth, or is      *)
(* recorded as blind.                                                      *)
(***************************************************************************)
LEMMA PastSees ==
  ASSUME IInv, NEW r \in Requests, NEW c, NEW seen, SeenSpent(r, c, seen)
  PROVE  /\ PastGrows(r)
         /\ seen = FALSE => c \notin spent \/ past'[r].blind
<1>1. DOMAIN past = Requests /\ DOMAIN past[r] = {"known", "spends", "blind"}
  BY DEF IInv, RequestOK
<1>2. CASE seen = (c \in spent) /\ UNCHANGED past
  BY <1>2, PastKept
<1>3. CASE past' = [past EXCEPT ![r].blind = TRUE]
  <2> DEFINE p == [past[r] EXCEPT !.blind = TRUE]
  <2>1. past' = [past EXCEPT ![r] = p]
    BY <1>3
  <2>2. DOMAIN p = DOMAIN past[r] /\ p.known = past[r].known /\ p.blind
    BY <1>1
  <2> HIDE DEF p
  <2> QED BY <1>1, <2>1, <2>2 DEF PastGrows
<1> QED BY <1>2, <1>3 DEF SeenSpent

(***************************************************************************)
(* A handler that gives up takes its variables with it: what it stored or  *)
(* marked before stays.                                                    *)
(***************************************************************************)
LEMMA RepliedInvariant ==
  ASSUME IInv, NEW r \in Requests, NEW answer, answer # "signed", Reply(r, answer),
         PastGrows(r), salts' = salts, spent \subseteq spent',
         notes' = notes \/ (req[r].pc = "put" /\ Put(r)),
         owners' \in [Owners -> Seq(Nat)],
         \A o \in Owners : \A c \in Range(owners'[o]) : OwnedBy(notes', c, o)
  PROVE  IInv'
<1> DEFINE new == [Idle EXCEPT !.pc = "done", !.kind = req[r].kind,
                               !.deposit = req[r].deposit, !.answer = answer]
<1>1. /\ DOMAIN new = Fields /\ new.pc = "done" /\ new.answer = answer
      /\ new.owner \in Owners /\ new.to \in Owners
      /\ new.selected = << >> /\ new.built = << >> /\ new.due = << >>
  BY IdleShape DEF Fields
<1>2. req' = [req EXCEPT ![r] = new]
  BY DEF Reply
<1> HIDE DEF new
<1>3. DOMAIN req' = Requests /\ req'[r] = new /\ \A q \in Requests \ {r} : req'[q] = req[q]
  BY <1>2 DEF IInv
<1>4. salts \in Nat /\ IsDue(<< >>) /\ Range(<< >>) = {}
  BY DEF IInv, IsDue, Range
<1>5. /\ DOMAIN past'[r] = {"known", "spends", "blind"}
      /\ past'[r].known \subseteq 1..salts
      /\ past'[r].known \cap DOMAIN notes' \subseteq spent'
  <2>1. RequestOK(req[r], past[r], notes, spent, salts) /\ Avoids(req[r], req[r], past[r])
    BY DEF IInv
  <2>2. past[r].known \cap DOMAIN notes' \subseteq spent'
    BY <2>1 DEF RequestOK, Avoids, Put
  <2> QED BY <2>1, <2>2 DEF RequestOK, PastGrows
<1>6. RequestOK(new, past'[r], notes', spent', salts')
  BY <1>1, <1>4, <1>5 DEF RequestOK, Creating
<1>7. \A q \in Requests \ {r} : Avoids(req[q], new, past'[r])
  BY <1>1, <1>4 DEF IInv, Avoids, PastGrows
<1>8. Avoids(new, new, past'[r]) /\ new.pc \notin Creating
  BY <1>1 DEF Avoids, Creating
<1> QED BY <1>3, <1>4, <1>6, <1>7, <1>8, StepInvariant DEF PastGrows

(***************************************************************************)
(* Most steps of a handler touch no storage.                               *)
(***************************************************************************)
LEMMA QuietInvariant ==
  ASSUME IInv, NEW r \in Requests, NEW new, req' = [req EXCEPT ![r] = new],
         PastGrows(r), UNCHANGED <<notes, owners, spent, salts>>,
         new.pc \notin Creating \/ (new.pc # "put" /\ req[r].pc \in Creating
                                    /\ new.draft = req[r].draft),
         Range(new.selected) \cup Range(new.built)
           \subseteq Range(req[r].selected) \cup Range(req[r].built) \cup DOMAIN notes,
         RequestOK(new, past'[r], notes, spent, salts)
  PROVE  IInv'
<1>1. DOMAIN req' = Requests /\ req'[r] = new /\ \A q \in Requests \ {r} : req'[q] = req[q]
  BY DEF IInv
<1>2. ASSUME NEW q \in Requests \ {r} PROVE Avoids(req[q], new, past'[r])
  <2>1. Avoids(req[q], req[r], past[r]) /\ (req[q].pc = "put" => req[q].draft \notin DOMAIN notes)
    BY DEF IInv, RequestOK
  <2>2. past'[r].known = past[r].known BY DEF PastGrows
  <2> QED BY <2>1, <2>2 DEF Avoids
<1>3. Avoids(new, new, past'[r])
  BY DEF Avoids, Creating
<1>4. salts \in Nat /\ owners \in [Owners -> Seq(Nat)]
      /\ \A o \in Owners : \A c \in Range(owners[o]) : OwnedBy(notes, c, o)
  BY DEF IInv
<1> QED BY <1>1, <1>2, <1>3, <1>4, StepInvariant DEF PastGrows

-----------------------------------------------------------------------------
(***************************************************************************)
(* What has been signed or answered names commitments that were drawn, and *)
(* none that is still to be stored.                                        *)
(***************************************************************************)
LEMMA AnsweredIsDrawn ==
  ASSUME IInv, NEW c \in Answered
  PROVE  /\ c \in 1..salts
         /\ \A q \in Requests : req[q].pc = "put" => req[q].draft # c
<1>1. Len(Stock) \in Nat /\ salts \in Nat /\ Len(Stock) <= salts
  BY EngineAssumption DEF IInv
<1>2. CASE c \in 1..Len(Stock)
  <2>1. ASSUME NEW q \in Requests, req[q].pc = "put" PROVE req[q].draft # c
    <3>1. RequestOK(req[q], past[q], notes, spent, salts) /\ req[q].pc \in Creating
      BY <2>1 DEF IInv, Creating
    <3>2. req[q].draft \in 1..salts /\ req[q].draft > Len(Stock)
      BY <1>1, <3>1, DraftDrawn
    <3> QED BY <1>1, <1>2, <3>2
  <2> QED BY <1>1, <1>2, <2>1
<1>3. CASE \E r \in Requests : c \in Range(req[r].built)
  <2>1. PICK r \in Requests : c \in Range(req[r].built) BY <1>3
  <2>2. RequestOK(req[r], past[r], notes, spent, salts) BY DEF IInv
  <2>3. Range(req[r].built) \subseteq 1..salts BY <2>2 DEF RequestOK
  <2>4. \A q \in Requests : req[q].pc = "put" => req[q].draft # c
    BY <2>1 DEF IInv, Avoids
  <2> QED BY <2>1, <2>3, <2>4
<1> QED BY <1>2, <1>3 DEF Answered

(***************************************************************************)
(* A request begins with what the answers so far named, and knows the      *)
(* notes signed away by then, which are spent.                             *)
(***************************************************************************)
LEMMA ArriveInvariant ==
  ASSUME IInv, NEW r \in Requests, NEW input, Start(r, input),
         DOMAIN input = Fields, input.owner \in Owners, input.to \in Owners,
         input.built = << >>, input.due = << >>, input.answer = "none",
         \/ input.pc \in {"wait", "owned"} /\ input.selected = << >>
         \/ input.pc = "load" /\ \E c \in Answered : input.selected = <<c>>
  PROVE  IInv'
<1>1. /\ DOMAIN req' = Requests /\ req'[r] = input
      /\ \A q \in Requests \ {r} : req'[q] = req[q]
  BY DEF Start, IInv
<1>2. UNCHANGED <<notes, owners, spent, salts>>
  BY DEF Start, storage
<1> DEFINE known == UNION {NotesSignedBy(s) : s \in Signed}
           p == [past[r] EXCEPT !.known = known]
<1>3. \A s \in Signed : /\ NotesSignedBy(s) \subseteq 1..salts
                        /\ NotesSignedBy(s) \cap DOMAIN notes \subseteq spent
                        /\ \A q \in Requests : req[q].pc = "put" =>
                             req[q].draft \notin NotesSignedBy(s)
  <2> TAKE s \in Signed
  <2>1. RequestOK(req[s], past[s], notes, spent, salts) /\ req[s].answer = "signed"
    BY DEF IInv, Signed
  <2>2. \A q \in Requests : req[q].pc = "put" => req[q].draft \notin NotesSignedBy(s)
    BY DEF IInv, Avoids, Signed, NotesSignedBy
  <2> QED BY <2>1, <2>2 DEF RequestOK, Locked, NotesSignedBy
<1>4. /\ known \subseteq 1..salts
      /\ known \cap DOMAIN notes \subseteq spent
      /\ \A q \in Requests : req[q].pc = "put" => req[q].draft \notin known
  BY <1>3
<1>5. past' = [past EXCEPT ![r] = p]
  BY DEF Start
<1> HIDE DEF known
<1>6. DOMAIN p = {"known", "spends", "blind"} /\ p.known = known
  BY DEF IInv, RequestOK
<1> HIDE DEF p
<1>7. /\ DOMAIN past' = Requests /\ past'[r] = p
      /\ \A q \in Requests \ {r} : past'[q] = past[q]
  BY <1>5 DEF IInv
<1>8. /\ input.selected \in Seq(Nat) /\ Range(input.selected) \subseteq 1..salts
      /\ input.pc = "load" => Range(input.selected) = {Head(input.selected)}
      /\ \A q \in Requests : req[q].pc = "put" => req[q].draft \notin Range(input.selected)
  <2>1. CASE input.pc # "load" /\ input.selected = << >> BY <2>1 DEF Range
  <2>2. ASSUME NEW c \in Answered, input.selected = <<c>>
        PROVE  /\ input.selected \in Seq(Nat) /\ Range(input.selected) \subseteq 1..salts
               /\ Range(input.selected) = {Head(input.selected)}
               /\ \A q \in Requests : req[q].pc = "put" =>
                    req[q].draft \notin Range(input.selected)
    <3>1. c \in 1..salts /\ \A q \in Requests : req[q].pc = "put" => req[q].draft # c
      BY AnsweredIsDrawn
    <3>2. Range(<<c>>) = {c} BY DEF Range
    <3> QED BY <2>2, <3>1, <3>2
  <2> QED BY <2>1, <2>2
<1>9. IsDue(<< >>) /\ Range(<< >>) = {}
  BY DEF IsDue, Range
<1>10. RequestOK(input, p, notes, spent, salts)
  BY <1>4, <1>6, <1>8, <1>9 DEF RequestOK, Creating
<1>11. \A q \in Requests \ {r} : Avoids(req[q], input, p)
  BY <1>4, <1>6, <1>8, <1>9 DEF Avoids
<1>12. Avoids(input, input, p) /\ input.pc \notin Creating
  BY DEF Avoids, Creating
<1>13. salts \in Nat /\ owners \in [Owners -> Seq(Nat)]
       /\ \A o \in Owners : \A c \in Range(owners[o]) : OwnedBy(notes, c, o)
  BY DEF IInv
<1> QED BY <1>1, <1>2, <1>7, <1>10, <1>11, <1>12, <1>13, StepInvariant

(***************************************************************************)
(* The three routes.                                                       *)
(***************************************************************************)
LEMMA StartInvariant ==
  ASSUME IInv, NEW r \in Requests, Arrive(r)
  PROVE  IInv'
<1>1. ASSUME NEW d \in Deposits, NEW n \in Amounts, StartShield(r, d, n) PROVE IInv'
  <2> DEFINE input == [Idle EXCEPT !.pc = "wait", !.kind = "shield",
                                   !.owner = DepositOwner[d], !.deposit = d, !.amount = n]
  <2>1. /\ DOMAIN input = Fields /\ input.owner \in Owners /\ input.to \in Owners
        /\ input.built = << >> /\ input.due = << >> /\ input.answer = "none"
        /\ input.pc = "wait" /\ input.selected = << >>
    BY IdleShape, EngineAssumption DEF Fields
  <2>2. Start(r, input) BY <1>1 DEF StartShield
  <2> HIDE DEF input
  <2> QED BY <2>1, <2>2, ArriveInvariant
<1>2. ASSUME NEW o \in Owners, NEW c \in Answered, NEW n \in Amounts, StartUnshield(r, o, c, n)
      PROVE  IInv'
  <2> DEFINE input == [Idle EXCEPT !.pc = "load", !.kind = "unshield", !.owner = o,
                                   !.selected = <<c>>, !.amount = n]
  <2>1. /\ DOMAIN input = Fields /\ input.owner \in Owners /\ input.to \in Owners
        /\ input.built = << >> /\ input.due = << >> /\ input.answer = "none"
        /\ input.pc = "load" /\ input.selected = <<c>>
    BY IdleShape DEF Fields
  <2>2. Start(r, input) BY <1>2 DEF StartUnshield
  <2> HIDE DEF input
  <2> QED BY <2>1, <2>2, ArriveInvariant
<1>3. ASSUME NEW o \in Owners, NEW to \in Owners, NEW n \in Amounts, StartTransfer(r, o, to, n)
      PROVE  IInv'
  <2> DEFINE input == [Idle EXCEPT !.pc = "owned", !.kind = "transfer", !.owner = o,
                                   !.to = to, !.amount = n]
  <2>1. /\ DOMAIN input = Fields /\ input.owner \in Owners /\ input.to \in Owners
        /\ input.built = << >> /\ input.due = << >> /\ input.answer = "none"
        /\ input.pc = "owned" /\ input.selected = << >>
    BY IdleShape DEF Fields
  <2>2. Start(r, input) BY <1>3 DEF StartTransfer
  <2> HIDE DEF input
  <2> QED BY <2>1, <2>2, ArriveInvariant
<1> QED BY <1>1, <1>2, <1>3 DEF Arrive

-----------------------------------------------------------------------------
(***************************************************************************)
(* A new note begins with a commitment that nobody has.                    *)
(***************************************************************************)
LEMMA CreatesInvariant ==
  ASSUME IInv, NEW r \in Requests, NEW due, IsDue(due), due # << >>,
         req' = [req EXCEPT ![r].pc = "put", ![r].due = due, ![r].draft = salts + 1,
                            ![r].todo = << >>],
         salts' = salts + 1, PastGrows(r), UNCHANGED notes, spent \subseteq spent',
         owners' \in [Owners -> Seq(Nat)],
         \A o \in Owners : \A c \in Range(owners'[o]) : OwnedBy(notes, c, o),
         req[r].pc # "done", Range(req[r].selected) \subseteq DOMAIN notes,
         Locked(Range(req[r].selected), past'[r], notes, spent')
  PROVE  IInv'
<1> DEFINE x == req[r]
           new == [x EXCEPT !.pc = "put", !.due = due, !.draft = salts + 1, !.todo = << >>]
<1>1. /\ RequestOK(x, past[r], notes, spent, salts) /\ Avoids(x, x, past[r])
      /\ salts \in Nat /\ Len(Stock) \in Nat /\ Len(Stock) <= salts
      /\ DOMAIN notes \subseteq 1..salts
  BY EngineAssumption DEF IInv
<1>2. DOMAIN x = Fields
  BY <1>1 DEF RequestOK
<1>3. /\ DOMAIN new = Fields /\ new.pc = "put" /\ new.due = due /\ new.draft = salts + 1
      /\ new.todo = << >> /\ new.owner = x.owner /\ new.to = x.to
      /\ new.selected = x.selected /\ new.built = x.built /\ new.answer = x.answer
  BY <1>2 DEF Fields
<1>4. req' = [req EXCEPT ![r] = new]
  OBVIOUS
<1> HIDE DEF new
<1>5. /\ DOMAIN req' = Requests /\ req'[r] = new
      /\ \A q \in Requests \ {r} : req'[q] = req[q]
  BY <1>4 DEF IInv
<1>6. /\ x.owner \in Owners /\ x.to \in Owners
      /\ x.selected \in Seq(Nat) /\ Range(x.selected) \subseteq 1..salts
      /\ Range(x.built) \subseteq 1..salts
      /\ x.answer # "signed"
      /\ past[r].known \subseteq 1..salts /\ past[r].known \cap DOMAIN notes \subseteq spent
      /\ DOMAIN past[r] = {"known", "spends", "blind"}
  BY <1>1 DEF RequestOK
<1>7. /\ 1..salts \subseteq 1..(salts + 1) /\ salts + 1 \in (Len(Stock) + 1)..(salts + 1)
      /\ salts + 1 \notin 1..salts
  BY <1>1
<1>8. RequestOK(new, past'[r], notes, spent', salts')
  BY <1>1, <1>3, <1>6, <1>7 DEF RequestOK, Creating, PastGrows
<1>9. Avoids(new, new, past'[r]) /\ new.draft > salts
  BY <1>1, <1>3, <1>6, <1>7 DEF Avoids, PastGrows
<1>10. \A q \in Requests \ {r} : Avoids(req[q], new, past'[r])
  BY <1>3 DEF IInv, Avoids, PastGrows
<1>11. salts' \in Nat /\ salts <= salts'
  BY <1>1
<1>12. /\ notes' = notes
       /\ \A o \in Owners : \A c \in Range(owners'[o]) : OwnedBy(notes', c, o)
       /\ RequestOK(req'[r], past'[r], notes', spent', salts')
       /\ Avoids(req'[r], req'[r], past'[r]) /\ req'[r].draft > salts
       /\ \A q \in Requests \ {r} : Avoids(req[q], req'[r], past'[r])
  BY <1>5, <1>8, <1>9, <1>10
<1>13. DOMAIN past' = Requests /\ \A q \in Requests \ {r} : past'[q] = past[q]
  BY DEF PastGrows
<1> HIDE DEF x
<1> QED BY <1>5, <1>11, <1>12, <1>13, StepInvariant

(***************************************************************************)
(* The deposit is found, or the wait goes on or ends.                      *)
(***************************************************************************)
LEMMA EventInvariant ==
  ASSUME IInv, NEW r \in Requests, EventFound(r) \/ EventMissing(r)
  PROVE  IInv'
<1>1. /\ RequestOK(req[r], past[r], notes, spent, salts) /\ req[r].pc = "wait"
      /\ UNCHANGED <<notes, owners, spent>> /\ PastGrows(r)
      /\ owners \in [Owners -> Seq(Nat)]
      /\ \A o \in Owners : \A c \in Range(owners[o]) : OwnedBy(notes, c, o)
  BY PastKept DEF IInv, EventFound, EventMissing, storage
<1>2. /\ req[r].selected = << >> /\ Range(<< >>) = {} /\ DOMAIN req[r] = Fields
      /\ req[r].owner \in Owners
  BY <1>1 DEF RequestOK, Range
<1>3. CASE \/ Reply(r, "refused") /\ UNCHANGED salts
           \/ Reply(r, "error") /\ UNCHANGED salts
  BY <1>1, <1>3, RepliedInvariant
<1>4. CASE CreateOr(r, <<NoteOf(req[r].owner, req[r].amount)>>, FALSE)
  <2> DEFINE n == NoteOf(req[r].owner, req[r].amount)
  <2>1. n.owner \in Owners BY <1>2 DEF NoteOf
  <2> HIDE DEF n
  <2>2. IsDue(<<n>>) /\ <<n>> # << >>
    BY <2>1 DEF IsDue, Range
  <2>3. Locked(Range(req[r].selected), past'[r], notes, spent')
    BY <1>2 DEF Locked
  <2>4. /\ req' = [req EXCEPT ![r].pc = "put", ![r].due = <<n>>, ![r].draft = salts + 1,
                              ![r].todo = << >>]
        /\ salts' = salts + 1
    BY <1>4, <2>2 DEF CreateOr, n
  <2> QED BY <1>1, <1>2, <2>2, <2>3, <2>4, CreatesInvariant
<1>5. CASE EventMissing(r) /\ req' = [req EXCEPT ![r].polls = @ + 1]
  <2> DEFINE new == [req[r] EXCEPT !.polls = @ + 1]
  <2>1. req' = [req EXCEPT ![r] = new] BY <1>5
  <2>2. /\ DOMAIN new = Fields
        /\ new.pc = "wait" /\ new.selected = req[r].selected /\ new.built = req[r].built
        /\ new.owner = req[r].owner /\ new.to = req[r].to /\ new.due = req[r].due
        /\ new.answer = req[r].answer
    BY <1>1, <1>2 DEF Fields
  <2>3. UNCHANGED <<notes, owners, spent, salts>> BY <1>5 DEF EventMissing, storage
  <2>4. past' = past BY <1>5 DEF EventMissing
  <2> HIDE DEF new
  <2>5. RequestOK(new, past'[r], notes, spent, salts)
    BY <1>1, <2>2, <2>4 DEF RequestOK, Creating
  <2> QED BY <1>1, <2>1, <2>2, <2>3, <2>5, QuietInvariant DEF Creating
<1> QED BY <1>3, <1>4, <1>5 DEF EventFound, EventMissing

(***************************************************************************)
(* The note is stored before any list names it.                            *)
(***************************************************************************)
LEMMA PutNoteInvariant ==
  ASSUME IInv, NEW r \in Requests, PutNote(r)
  PROVE  IInv'
<1> DEFINE x == req[r]
           new == [x EXCEPT !.pc = "list"]
<1>1. /\ RequestOK(x, past[r], notes, spent, salts) /\ Avoids(x, x, past[r]) /\ x.pc = "put"
      /\ salts \in Nat
      /\ owners \in [Owners -> Seq(Nat)]
      /\ \A o \in Owners : \A c \in Range(owners[o]) : OwnedBy(notes, c, o)
  BY DEF IInv, PutNote
<1>2. DOMAIN x = Fields /\ x.draft \notin DOMAIN notes
  BY <1>1 DEF RequestOK
<1>3. /\ DOMAIN new = Fields /\ new.pc = "list" /\ new.due = x.due /\ new.draft = x.draft
      /\ new.owner = x.owner /\ new.to = x.to
      /\ new.selected = x.selected /\ new.built = x.built /\ new.answer = x.answer
  BY <1>2 DEF Fields
<1>4. req' = [req EXCEPT ![r] = new]
  BY DEF PutNote, Goto
<1> HIDE DEF new
<1>5. /\ DOMAIN req' = Requests /\ req'[r] = new
      /\ \A q \in Requests \ {r} : req'[q] = req[q]
  BY <1>4 DEF IInv
<1>6. /\ DOMAIN notes' = DOMAIN notes \cup {x.draft} /\ notes'[x.draft] = Head(x.due)
      /\ \A c \in DOMAIN notes : notes'[c] = notes[c]
  BY <1>2 DEF PutNote, Put
<1>7. UNCHANGED <<owners, spent, salts, past>>
  BY DEF PutNote
<1>8. \A S : x.draft \notin S /\ Locked(S, past[r], notes, spent)
             => Locked(S, past[r], notes', spent)
  BY <1>6 DEF Locked
<1>9. x.draft \notin Range(x.selected) /\ x.draft \notin past[r].known
  BY <1>1 DEF Avoids
<1>10. OwnedBy(notes', x.draft, Head(x.due).owner)
  BY <1>6 DEF OwnedBy
<1>11. RequestOK(new, past[r], notes', spent, salts)
  BY <1>1, <1>3, <1>6, <1>8, <1>9, <1>10 DEF RequestOK, Creating
<1>12. /\ \A q \in Requests \ {r} : Avoids(req[q], new, past[r])
       /\ Avoids(new, new, past[r])
  BY <1>3 DEF IInv, Avoids
<1>13. \A o \in Owners : \A c \in Range(owners[o]) : OwnedBy(notes', c, o)
  BY <1>1, <1>6 DEF OwnedBy
<1>14. /\ notes' = notes \/ (req[r].pc = "put" /\ Put(r))
       /\ \A o \in Owners : \A c \in Range(owners'[o]) : OwnedBy(notes', c, o)
       /\ RequestOK(req'[r], past'[r], notes', spent', salts')
       /\ Avoids(req'[r], req'[r], past'[r])
       /\ req'[r].pc # "put" /\ req[r].pc \in Creating /\ req'[r].draft = req[r].draft
       /\ \A q \in Requests \ {r} : Avoids(req[q], req'[r], past'[r])
       /\ salts' \in Nat /\ salts <= salts' /\ spent \subseteq spent'
       /\ owners' \in [Owners -> Seq(Nat)]
       /\ DOMAIN past' = Requests /\ \A q \in Requests \ {r} : past'[q] = past[q]
  BY <1>1, <1>3, <1>5, <1>7, <1>11, <1>12, <1>13 DEF PutNote, Creating, IInv
<1> HIDE DEF x
<1> QED BY <1>5, <1>14, StepInvariant

(***************************************************************************)
(* The copy of a list names what the list names, or nothing.               *)
(***************************************************************************)
LEMMA ReadListInvariant ==
  ASSUME IInv, NEW r \in Requests, ReadList(r)
  PROVE  IInv'
<1> DEFINE x == req[r]
<1>1. /\ RequestOK(x, past[r], notes, spent, salts) /\ x.pc = "list"
      /\ UNCHANGED <<notes, owners, spent, salts, past>>
  BY DEF IInv, ReadList, storage
<1>2. DOMAIN x = Fields /\ x.due # << >> /\ IsDue(x.due)
  BY <1>1 DEF RequestOK, Creating
<1>3. Head(x.due).owner \in Owners
  <2> DEFINE due == x.due
  <2> HIDE DEF due
  <2>1. due \in Seq(Range(due)) /\ due # << >> BY <1>2 DEF IsDue, due
  <2>2. Head(due) \in Range(due) BY <2>1
  <2> QED BY <1>2, <2>2 DEF IsDue, due
<1>4. PICK list : /\ list \in {Listed(r), << >>}
                  /\ req' = [req EXCEPT ![r].pc = "append", ![r].copy = list]
  BY DEF ReadList
<1>5. /\ list \in Seq(Nat)
      /\ \A c \in Range(list) : OwnedBy(notes, c, Head(x.due).owner)
  <2>1. CASE list = << >> BY <2>1 DEF Range
  <2>2. CASE list = Listed(r)
    BY <2>2, <1>3 DEF Listed, IInv
  <2> QED BY <1>4, <2>1, <2>2
<1> DEFINE new == [x EXCEPT !.pc = "append", !.copy = list]
<1>6. /\ DOMAIN new = Fields /\ new.pc = "append" /\ new.due = x.due /\ new.draft = x.draft
      /\ new.owner = x.owner /\ new.to = x.to /\ new.copy = list
      /\ new.selected = x.selected /\ new.built = x.built /\ new.answer = x.answer
  BY <1>2 DEF Fields
<1>7. req' = [req EXCEPT ![r] = new]
  BY <1>4
<1> HIDE DEF new
<1>8. RequestOK(new, past'[r], notes, spent, salts)
  BY <1>1, <1>5, <1>6 DEF RequestOK, Creating
<1>9. /\ new.pc # "put" /\ req[r].pc \in Creating /\ new.draft = req[r].draft
      /\ Range(new.selected) \cup Range(new.built)
           \subseteq Range(req[r].selected) \cup Range(req[r].built) \cup DOMAIN notes
  BY <1>1, <1>6 DEF Creating
<1>10. UNCHANGED <<notes, owners, spent, salts>> /\ PastGrows(r)
  BY <1>1, PastKept
<1> HIDE DEF x
<1> QED BY <1>7, <1>8, <1>9, <1>10, QuietInvariant

(***************************************************************************)
(* What is left to create after the first note.                            *)
(***************************************************************************)
LEMMA DueParts ==
  ASSUME NEW due, IsDue(due), due # << >>
  PROVE  Head(due).owner \in Owners /\ IsDue(Tail(due))
<1>1. due \in Seq(Range(due)) BY DEF IsDue
<1>2. Tail(due) \in Seq(Range(due)) /\ Range(due) = {Head(due)} \cup Range(Tail(due))
  BY <1>1, HeadAndTail
<1>3. Tail(due) \in Seq(Range(Tail(due)))
  BY <1>2, OwnElements
<1> QED BY <1>2, <1>3 DEF IsDue

(***************************************************************************)
(* A list is written with the notes of its owner it had when it was read,  *)
(* and the new one: some may be lost, none is wrong.                       *)
(***************************************************************************)
LEMMA AppendOwnerInvariant ==
  ASSUME IInv, NEW r \in Requests, AppendOwner(r)
  PROVE  IInv'
<1> DEFINE x == req[r]
           o == Head(x.due).owner
<1>1. /\ RequestOK(x, past[r], notes, spent, salts) /\ x.pc \in {"list", "append"}
      /\ salts \in Nat /\ owners \in [Owners -> Seq(Nat)]
      /\ \A w \in Owners : \A c \in Range(owners[w]) : OwnedBy(notes, c, w)
      /\ UNCHANGED <<notes, spent, past>>
  BY DEF IInv, AppendOwner
<1>2. /\ DOMAIN x = Fields /\ x.due # << >> /\ IsDue(x.due)
      /\ x.draft \in 1..salts /\ OwnedBy(notes, x.draft, o)
      /\ Locked(Range(x.selected), past[r], notes, spent)
      /\ x.selected \in Seq(Nat) /\ Range(x.selected) \subseteq 1..salts
      /\ Range(x.selected) \subseteq DOMAIN notes
      /\ x.owner \in Owners /\ x.to \in Owners
  BY <1>1, DraftDrawn DEF RequestOK, Creating
<1>3. o \in Owners /\ IsDue(Tail(x.due))
  BY <1>2, DueParts
<1>4. PICK list : /\ list \in Seq(Nat) /\ \A c \in Range(list) : OwnedBy(notes, c, o)
                  /\ AppendTo(r, list)
  <2>1. CASE x.pc = "append" /\ AppendTo(r, x.copy)
    BY <1>1, <2>1 DEF RequestOK
  <2>2. CASE AppendTo(r, Listed(r))
    BY <1>1, <1>3, <2>2 DEF Listed
  <2> QED BY <2>1, <2>2 DEF AppendOwner
<1> DEFINE t == Append(list, x.draft)
<1>5. t \in Seq(Nat) /\ Range(t) \subseteq Range(list) \cup {x.draft}
  BY <1>2, <1>4 DEF Range
<1>6. owners' = [owners EXCEPT ![o] = t]
  BY <1>4 DEF AppendTo
<1> HIDE DEF t
<1>7. /\ owners' \in [Owners -> Seq(Nat)]
      /\ \A w \in Owners : \A c \in Range(owners'[w]) : OwnedBy(notes, c, w)
  <2>1. \A w \in Owners : owners'[w] = IF w = o THEN t ELSE owners[w]
    BY <1>1, <1>6
  <2>2. \A c \in Range(t) : OwnedBy(notes, c, o)
    BY <1>2, <1>4, <1>5
  <2>3. ASSUME NEW w \in Owners, NEW c \in Range(owners'[w]) PROVE OwnedBy(notes, c, w)
    <3>1. CASE w = o BY <3>1, <2>1, <2>2, <2>3
    <3>2. CASE w # o BY <3>2, <1>1, <2>1, <2>3
    <3> QED BY <3>1, <3>2
  <2> QED BY <1>1, <1>3, <1>5, <1>6, <2>3
<1> HIDE DEF o
<1>8. PastGrows(r) BY <1>1, PastKept
<1>9. CASE Tail(x.due) # << >>
  <2>1. /\ req' = [req EXCEPT ![r].pc = "put", ![r].due = Tail(x.due),
                              ![r].draft = salts + 1, ![r].todo = << >>]
        /\ salts' = salts + 1
    BY <1>9 DEF AppendOwner, NoteCreated, CreateOr
  <2>2. Locked(Range(x.selected), past'[r], notes, spent') /\ UNCHANGED notes
        /\ spent \subseteq spent'
    BY <1>1, <1>2
  <2> QED BY <1>1, <1>2, <1>3, <1>7, <1>8, <1>9, <2>1, <2>2, CreatesInvariant
<1>10. CASE Tail(x.due) = << >>
  <2> DEFINE new == IF x.kind = "transfer"
                    THEN [x EXCEPT !.pc = "params", !.due = << >>, !.draft = 0,
                                   !.copy = << >>]
                    ELSE [x EXCEPT !.pc = "done", !.answer = "created",
                                   !.built = <<x.draft>>, !.draft = 0, !.due = << >>,
                                   !.copy = << >>]
  <2>1. req' = [req EXCEPT ![r] = new] /\ salts' = salts
    BY <1>10 DEF AppendOwner, NoteCreated, CreateOr
  <2>2. /\ DOMAIN new = Fields /\ new.pc \in {"params", "done"} /\ new.due = << >>
        /\ new.owner = x.owner /\ new.to = x.to /\ new.selected = x.selected
        /\ new.built \in {x.built, <<x.draft>>}
        /\ new.pc = "params" => new.answer = x.answer
        /\ new.pc = "done" => new.answer = "created"
    BY <1>2 DEF Fields
  <2> HIDE DEF new
  <2>3. IsDue(<< >>) BY DEF IsDue, Range
  <2>4. Range(new.built) \subseteq Range(x.built) \cup {x.draft}
    BY <2>2 DEF Range
  <2>5. RequestOK(new, past'[r], notes, spent, salts)
    BY <1>1, <1>2, <2>2, <2>3, <2>4 DEF RequestOK, Creating
  <2>6. x.draft \in DOMAIN notes
    BY <1>2 DEF OwnedBy
  <2>7. \A q \in Requests \ {r} : Avoids(req[q], new, past'[r])
    <3> SUFFICES ASSUME NEW q \in Requests \ {r}, req[q].pc = "put"
                 PROVE  req[q].draft \notin Range(new.selected) \cup Range(new.built)
                                              \cup past[r].known
      BY <1>1 DEF Avoids
    <3>1. req[q].draft \notin Range(x.selected) \cup Range(x.built) \cup past[r].known
      BY DEF IInv, Avoids
    <3>2. req[q].draft # x.draft
      BY <2>6 DEF IInv, RequestOK
    <3> QED BY <2>2, <2>4, <3>1, <3>2
  <2>8. /\ DOMAIN req' = Requests /\ req'[r] = new
        /\ \A q \in Requests \ {r} : req'[q] = req[q]
    BY <2>1 DEF IInv
  <2>9. /\ notes' = notes /\ salts' \in Nat /\ salts <= salts' /\ spent \subseteq spent'
        /\ \A w \in Owners : \A c \in Range(owners'[w]) : OwnedBy(notes', c, w)
        /\ RequestOK(req'[r], past'[r], notes', spent', salts')
        /\ req'[r].pc \notin Creating
        /\ Avoids(req'[r], req'[r], past'[r])
        /\ \A q \in Requests \ {r} : Avoids(req[q], req'[r], past'[r])
    BY <1>1, <1>7, <2>1, <2>2, <2>5, <2>7, <2>8 DEF Creating, Avoids
  <2>10. DOMAIN past' = Requests /\ \A q \in Requests \ {r} : past'[q] = past[q]
    BY <1>8 DEF PastGrows
  <2> HIDE DEF x
  <2> QED BY <1>7, <2>8, <2>9, <2>10, StepInvariant
<1> QED BY <1>9, <1>10

-----------------------------------------------------------------------------
(***************************************************************************)
(* An unshield goes on with a note that is stored.                         *)
(***************************************************************************)
LEMMA LoadNoteInvariant ==
  ASSUME IInv, NEW r \in Requests, LoadNote(r)
  PROVE  IInv'
<1> DEFINE x == req[r]
           c == Head(x.selected)
           new == [x EXCEPT !.pc = "chain", !.todo = x.selected]
<1>1. /\ RequestOK(x, past[r], notes, spent, salts) /\ x.pc = "load"
      /\ UNCHANGED <<notes, owners, spent, salts>>
      /\ owners \in [Owners -> Seq(Nat)]
      /\ \A w \in Owners : \A d \in Range(owners[w]) : OwnedBy(notes, d, w)
  BY DEF IInv, LoadNote, storage
<1>2. PastGrows(r)
  BY PastKept, PastSees DEF LoadNote
<1>3. CASE Reply(r, "refused")
  BY <1>1, <1>2, <1>3, RepliedInvariant
<1>4. CASE req' = [req EXCEPT ![r].pc = "chain", ![r].todo = x.selected] /\ c \in DOMAIN notes
  <2>1. DOMAIN x = Fields /\ Range(x.selected) \subseteq DOMAIN notes
    BY <1>1, <1>4 DEF RequestOK
  <2>2. /\ DOMAIN new = Fields /\ new.pc = "chain" /\ new.due = x.due
        /\ new.owner = x.owner /\ new.to = x.to
        /\ new.selected = x.selected /\ new.built = x.built /\ new.answer = x.answer
    BY <2>1 DEF Fields
  <2>3. req' = [req EXCEPT ![r] = new]
    BY <1>4
  <2> HIDE DEF new
  <2>4. RequestOK(new, past'[r], notes, spent, salts)
    BY <1>1, <1>2, <2>1, <2>2 DEF RequestOK, Creating, PastGrows
  <2>5. new.pc \notin Creating
    BY <2>2 DEF Creating
  <2>6. Range(new.selected) \cup Range(new.built)
          \subseteq Range(req[r].selected) \cup Range(req[r].built) \cup DOMAIN notes
    BY <2>2
  <2> HIDE DEF x
  <2> QED BY <1>1, <1>2, <2>3, <2>4, <2>5, <2>6, QuietInvariant
<1> QED BY <1>3, <1>4 DEF LoadNote

(***************************************************************************)
(* The scan of the owner's list collects stored notes only.                *)
(***************************************************************************)
LEMMA ScanInvariant ==
  ASSUME IInv, NEW r \in Requests, ReadOwned(r) \/ ScanNote(r)
  PROVE  IInv'
<1> DEFINE x == req[r]
<1>1. /\ RequestOK(x, past[r], notes, spent, salts) /\ x.pc \in {"owned", "scan"}
      /\ UNCHANGED <<notes, owners, spent, salts>>
  BY DEF IInv, ReadOwned, ScanNote, storage
<1>2. PastGrows(r)
  <2>1. CASE ReadOwned(r) BY <2>1, PastKept DEF ReadOwned
  <2>2. CASE ScanNote(r) BY <2>2, PastKept, PastSees DEF ScanNote
  <2> QED BY <2>1, <2>2
<1>3. /\ DOMAIN x = Fields /\ x.selected \in Seq(Nat) /\ Range(x.selected) \subseteq 1..salts
      /\ Range(x.selected) \subseteq DOMAIN notes
      /\ DOMAIN notes \subseteq 1..salts /\ salts \in Nat
  BY <1>1 DEF RequestOK, IInv, Range
<1>4. PICK new :
        /\ DOMAIN new = Fields /\ new.pc = "scan" /\ new.due = x.due
        /\ new.owner = x.owner /\ new.to = x.to /\ new.built = x.built
        /\ new.answer = x.answer
        /\ \/ new.selected = x.selected
           \/ \E c \in DOMAIN notes : new.selected = Append(x.selected, c)
        /\ req' = [req EXCEPT ![r] = new]
  <2>1. CASE ReadOwned(r)
    <3>1. PICK todo : \/ req' = [req EXCEPT ![r].pc = "scan", ![r].todo = todo]
                      \/ req' = [req EXCEPT ![r].pc = "scan"]
      BY <2>1 DEF ReadOwned, Goto
    <3> DEFINE a == [x EXCEPT !.pc = "scan", !.todo = todo]
               b == [x EXCEPT !.pc = "scan"]
    <3>2. req' = [req EXCEPT ![r] = a] \/ req' = [req EXCEPT ![r] = b]
      BY <3>1
    <3>3. /\ DOMAIN a = Fields /\ a.pc = "scan" /\ a.due = x.due
          /\ a.owner = x.owner /\ a.to = x.to /\ a.built = x.built
          /\ a.answer = x.answer /\ a.selected = x.selected
      BY <1>3 DEF Fields
    <3>4. /\ DOMAIN b = Fields /\ b.pc = "scan" /\ b.due = x.due
          /\ b.owner = x.owner /\ b.to = x.to /\ b.built = x.built
          /\ b.answer = x.answer /\ b.selected = x.selected
      BY <1>3 DEF Fields
    <3> HIDE DEF a, b, x
    <3> QED BY <3>2, <3>3, <3>4
  <2>2. CASE ScanNote(r)
    <3>1. x.pc = "scan" BY <2>2 DEF ScanNote
    <3>2. PICK todo, selected :
            /\ \/ selected = x.selected
               \/ \E c \in DOMAIN notes : selected = Append(x.selected, c)
            /\ \/ req' = [req EXCEPT ![r].todo = todo, ![r].selected = selected]
               \/ req' = [req EXCEPT ![r].todo = todo]
      <4>1. CASE req' = [req EXCEPT ![r].todo = Tail(ToVisit(r))] BY <4>1
      <4>2. ASSUME Head(x.todo) \in DOMAIN notes, NEW seen,
                   req' = [req EXCEPT ![r].todo = Tail(ToVisit(r)),
                                      ![r].selected = IF seen THEN @ ELSE Append(@, Head(x.todo))]
            PROVE  \E selected :
                     /\ \/ selected = x.selected
                        \/ \E c \in DOMAIN notes : selected = Append(x.selected, c)
                     /\ req' = [req EXCEPT ![r].todo = Tail(ToVisit(r)),
                                           ![r].selected = selected]
        <5> DEFINE sel == IF seen THEN x.selected ELSE Append(x.selected, Head(x.todo))
        <5>1. req' = [req EXCEPT ![r].todo = Tail(ToVisit(r)), ![r].selected = sel]
          BY <4>2
        <5>2. sel = x.selected \/ \E c \in DOMAIN notes : sel = Append(x.selected, c)
          BY <4>2
        <5> QED BY <5>1, <5>2
      <4> QED BY <2>2, <4>1, <4>2 DEF ScanNote
    <3> DEFINE a == [x EXCEPT !.todo = todo, !.selected = selected]
               b == [x EXCEPT !.todo = todo]
    <3>3. req' = [req EXCEPT ![r] = a] \/ req' = [req EXCEPT ![r] = b]
      BY <3>2
    <3>4. /\ DOMAIN a = Fields /\ a.pc = "scan" /\ a.due = x.due
          /\ a.owner = x.owner /\ a.to = x.to /\ a.built = x.built
          /\ a.answer = x.answer /\ a.selected = selected
      BY <1>3, <3>1 DEF Fields
    <3>5. /\ DOMAIN b = Fields /\ b.pc = "scan" /\ b.due = x.due
          /\ b.owner = x.owner /\ b.to = x.to /\ b.built = x.built
          /\ b.answer = x.answer /\ b.selected = x.selected
      BY <1>3, <3>1 DEF Fields
    <3> HIDE DEF a, b, x
    <3> QED BY <3>2, <3>3, <3>4, <3>5
  <2> QED BY <2>1, <2>2
<1>5. new.selected \in Seq(Nat) /\ Range(new.selected) \subseteq DOMAIN notes
  <2>1. ASSUME NEW c \in DOMAIN notes, new.selected = Append(x.selected, c)
        PROVE  new.selected \in Seq(Nat) /\ Range(new.selected) \subseteq DOMAIN notes
    <3>1. c \in Nat BY <1>3
    <3>2. Append(x.selected, c) \in Seq(Nat)
          /\ Range(Append(x.selected, c)) \subseteq Range(x.selected) \cup {c}
      BY <3>1, <1>3 DEF Range
    <3> QED BY <2>1, <3>2, <1>3
  <2> QED BY <1>3, <1>4, <2>1
<1>6. RequestOK(new, past'[r], notes, spent, salts)
  BY <1>1, <1>2, <1>3, <1>4, <1>5 DEF RequestOK, Creating, PastGrows
<1>7. new.pc \notin Creating
  BY <1>4 DEF Creating
<1>8. Range(new.selected) \cup Range(new.built)
        \subseteq Range(req[r].selected) \cup Range(req[r].built) \cup DOMAIN notes
  BY <1>4, <1>5
<1> HIDE DEF x
<1> QED BY <1>1, <1>2, <1>4, <1>6, <1>7, <1>8, QuietInvariant

(***************************************************************************)
(* A selection is made of the notes it was given.                          *)
(***************************************************************************)
LEMMA SelectionsAreNotes ==
  ASSUME NEW list \in Seq(Nat), NEW amount, NEW s \in Selections(list, amount)
  PROVE  s \in Seq(Nat) /\ Range(s) \subseteq Range(list)
<1>0. PICK taken \in SUBSET (DOMAIN list) :
        \E f \in [1..Cardinality(taken) -> taken] : s = [n \in DOMAIN f |-> list[f[n]]]
  BY DEF Selections
<1>1. PICK pick \in [1..Cardinality(taken) -> taken] :
        s = [n \in DOMAIN pick |-> list[pick[n]]]
  BY <1>0
<1>2. DOMAIN list = 1..Len(list) /\ Len(list) \in Nat
  OBVIOUS
<1>3. Cardinality(taken) \in Nat
  <2>1. IsFiniteSet(1..Len(list)) BY <1>2, FS_Interval
  <2>2. IsFiniteSet(taken) BY <1>2, <2>1, FS_Subset
  <2> QED BY <2>2, FS_CardinalityType
<1>4. s = [n \in 1..Cardinality(taken) |-> list[pick[n]]]
  BY <1>1
<1>5. \A n \in 1..Cardinality(taken) : list[pick[n]] \in Nat /\ list[pick[n]] \in Range(list)
  BY <1>1, <1>2 DEF Range
<1>6. s \in Seq(Nat)
  <2> DEFINE k == Cardinality(taken)
             f(n) == list[pick[n]]
  <2>1. k \in Nat /\ \A n \in 1..k : f(n) \in Nat BY <1>3, <1>5
  <2> HIDE DEF k, f
  <2>2. [n \in 1..k |-> f(n)] \in Seq(Nat) BY <2>1
  <2> QED BY <1>4, <2>2 DEF k, f
<1>7. Range(s) \subseteq Range(list)
  BY <1>4, <1>5 DEF Range
<1> QED BY <1>6, <1>7

(***************************************************************************)
(* The selection goes to the on-chain check, which keeps it or, for a      *)
(* nullifier the pool has, leaves the path to a signature.                 *)
(***************************************************************************)
LEMMA SelectInvariant ==
  ASSUME IInv, NEW r \in Requests, SelectNotes(r) \/ CheckChain(r)
  PROVE  IInv'
<1> DEFINE x == req[r]
<1>1. /\ RequestOK(x, past[r], notes, spent, salts) /\ x.pc \in {"scan", "chain"}
      /\ UNCHANGED <<notes, owners, spent, salts, past>>
      /\ owners \in [Owners -> Seq(Nat)]
      /\ \A w \in Owners : \A d \in Range(owners[w]) : OwnedBy(notes, d, w)
  BY DEF IInv, SelectNotes, CheckChain, storage
<1>2. /\ DOMAIN x = Fields /\ x.selected \in Seq(Nat)
      /\ Range(x.selected) \subseteq DOMAIN notes /\ x.answer # "signed"
      /\ Range(x.selected) \subseteq 1..salts
  BY <1>1 DEF RequestOK
<1>3. PastGrows(r)
  BY <1>1, PastKept
<1>4. CASE Reply(r, "refused")
  BY <1>1, <1>3, <1>4, RepliedInvariant
<1>5. ASSUME NEW new,
             /\ req' = [req EXCEPT ![r] = new] /\ DOMAIN new = Fields
             /\ new.pc = "chain" \/ (new.pc = "check" /\ new.sync = TRUE)
             /\ new.due = x.due /\ new.owner = x.owner /\ new.to = x.to
             /\ new.built = x.built /\ new.answer = x.answer
             /\ new.selected \in Seq(Nat) /\ Range(new.selected) \subseteq Range(x.selected)
      PROVE  IInv'
  <2>1. RequestOK(new, past'[r], notes, spent, salts)
    BY <1>1, <1>2, <1>5 DEF RequestOK, Creating
  <2>2. new.pc \notin Creating
    BY <1>5 DEF Creating
  <2>3. Range(new.selected) \cup Range(new.built)
          \subseteq Range(req[r].selected) \cup Range(req[r].built) \cup DOMAIN notes
    BY <1>5
  <2> HIDE DEF x
  <2> QED BY <1>1, <1>3, <1>5, <2>1, <2>2, <2>3, QuietInvariant
<1>6. ASSUME NEW list \in Selections(x.selected, x.amount),
             req' = [req EXCEPT ![r].pc = "chain", ![r].selected = list, ![r].todo = list]
      PROVE  IInv'
  <2> DEFINE new == [x EXCEPT !.pc = "chain", !.selected = list, !.todo = list]
  <2>1. list \in Seq(Nat) /\ Range(list) \subseteq Range(x.selected)
    BY <1>2, SelectionsAreNotes
  <2>2. req' = [req EXCEPT ![r] = new]
    BY <1>6
  <2>3. /\ DOMAIN new = Fields /\ new.pc = "chain" /\ new.selected = list
        /\ new.due = x.due /\ new.owner = x.owner /\ new.to = x.to
        /\ new.built = x.built /\ new.answer = x.answer
    BY <1>2 DEF Fields
  <2> HIDE DEF new, x
  <2> QED BY <2>1, <2>2, <2>3, <1>5
<1>7. CASE CheckChain(r)
  <2> DEFINE c == Head(x.todo)
             a == [x EXCEPT !.pc = "check", !.sync = TRUE, !.todo = <<c>>]
             b == [x EXCEPT !.todo = Tail(x.todo)]
  <2>1. x.pc = "chain" BY <1>7 DEF CheckChain
  <2>2. req' = [req EXCEPT ![r] = a] \/ req' = [req EXCEPT ![r] = b]
    BY <1>7 DEF CheckChain
  <2>3. /\ DOMAIN a = Fields /\ a.pc = "check" /\ a.sync = TRUE /\ a.selected = x.selected
        /\ a.due = x.due /\ a.owner = x.owner /\ a.to = x.to
        /\ a.built = x.built /\ a.answer = x.answer
    BY <1>2 DEF Fields
  <2>4. /\ DOMAIN b = Fields /\ b.pc = "chain" /\ b.selected = x.selected
        /\ b.due = x.due /\ b.owner = x.owner /\ b.to = x.to
        /\ b.built = x.built /\ b.answer = x.answer
    BY <1>2, <2>1 DEF Fields
  <2> HIDE DEF a, b, x
  <2>5. CASE req' = [req EXCEPT ![r] = a] BY <1>2, <1>5, <2>3, <2>5
  <2>6. CASE req' = [req EXCEPT ![r] = b] BY <1>2, <1>5, <2>4, <2>6
  <2> QED BY <2>2, <2>5, <2>6
<1>8. CASE SelectNotes(r)
  BY <1>4, <1>6, <1>8 DEF SelectNotes
<1> QED BY <1>7, <1>8

(***************************************************************************)
(* The commitments of a transfer's answer are drawn, and nothing of the    *)
(* selection is marked yet.                                                *)
(***************************************************************************)
LEMMA BuildParamsInvariant ==
  ASSUME IInv, NEW r \in Requests, BuildParams(r)
  PROVE  IInv'
<1> DEFINE x == req[r]
           n == IF x.kind = "transfer" THEN Len(NewNotes(r)) ELSE 0
           built == [i \in 1..n |-> salts + i]
           due == IF n = 0 THEN << >> ELSE NewNotes(r)
           new == [x EXCEPT !.pc = "check", !.todo = x.selected, !.built = built,
                            !.due = due]
<1>1. /\ RequestOK(x, past[r], notes, spent, salts) /\ x.pc = "chain" /\ salts \in Nat
      /\ UNCHANGED <<notes, owners, spent, past>>
      /\ owners \in [Owners -> Seq(Nat)]
      /\ \A w \in Owners : \A d \in Range(owners[w]) : OwnedBy(notes, d, w)
  BY DEF IInv, BuildParams, storage
<1>2. /\ DOMAIN x = Fields /\ x.selected \in Seq(Nat)
      /\ Range(x.selected) \subseteq DOMAIN notes /\ x.answer # "signed"
      /\ Range(x.selected) \subseteq 1..salts
      /\ x.owner \in Owners /\ x.to \in Owners
      /\ past[r].known \subseteq 1..salts /\ past[r].known \cap DOMAIN notes \subseteq spent
      /\ DOMAIN past[r] = {"known", "spends", "blind"}
  BY <1>1 DEF RequestOK
<1>3. IsDue(NewNotes(r)) /\ Len(NewNotes(r)) \in {1, 2}
  <2> DEFINE a == NoteOf(x.to, x.amount)
             b == NoteOf(x.owner, Change(r))
             rest == IF Change(r) > 0 THEN <<b>> ELSE << >>
  <2>1. a.owner \in Owners /\ b.owner \in Owners
    BY <1>2 DEF NoteOf
  <2>2. NewNotes(r) = <<a>> \o rest
    BY DEF NewNotes
  <2> HIDE DEF a, b
  <2>3. <<a>> \in Seq({a, b}) /\ Len(<<a>>) = 1 /\ rest \in Seq({a, b}) /\ Len(rest) \in {0, 1}
    <3>1. <<a>> \in Seq({a, b}) /\ Len(<<a>>) = 1
      OBVIOUS
    <3>2. <<b>> \in Seq({a, b}) /\ Len(<<b>>) = 1 /\ << >> \in Seq({a, b}) /\ Len(<< >>) = 0
      OBVIOUS
    <3>3. rest = <<b>> \/ rest = << >>
      OBVIOUS
    <3> HIDE DEF rest
    <3> QED BY <3>1, <3>2, <3>3
  <2> HIDE DEF rest
  <2>4. NewNotes(r) \in Seq({a, b}) /\ Len(NewNotes(r)) \in {1, 2}
    BY <2>2, <2>3
  <2> QED BY <2>1, <2>4, OwnElements DEF IsDue
<1>4. n \in Nat /\ IsDue(due)
  <2>1. IsDue(<< >>) BY DEF IsDue, Range
  <2> QED BY <1>3, <2>1
<1>5. salts' = salts + n /\ req' = [req EXCEPT ![r] = new]
  BY DEF BuildParams
<1> HIDE DEF n, due
<1>6. /\ Range(built) \subseteq 1..(salts + n)
      /\ \A c \in Range(built) : c > salts
  BY <1>1, <1>4 DEF Range
<1> HIDE DEF built
<1>7. /\ DOMAIN new = Fields /\ new.pc = "check" /\ new.todo = x.selected
      /\ new.built = built /\ new.due = due /\ new.owner = x.owner /\ new.to = x.to
      /\ new.selected = x.selected /\ new.answer = x.answer
  BY <1>2 DEF Fields
<1> HIDE DEF new
<1>8. 1..salts \subseteq 1..salts' /\ salts' \in Nat /\ salts <= salts'
  BY <1>1, <1>4, <1>5
<1>9. Locked(Range(x.selected) \ Range(x.selected), past[r], notes, spent)
  BY DEF Locked
<1>10. RequestOK(new, past[r], notes, spent, salts')
  BY <1>1, <1>2, <1>4, <1>5, <1>6, <1>7, <1>8, <1>9 DEF RequestOK, Creating
<1>11. \A q \in Requests \ {r} : Avoids(req[q], new, past[r])
  <2> SUFFICES ASSUME NEW q \in Requests \ {r}, req[q].pc = "put"
               PROVE  req[q].draft \notin Range(new.selected) \cup Range(new.built)
                                            \cup past[r].known
    BY DEF Avoids
  <2>1. req[q].draft \notin Range(x.selected) \cup past[r].known
    BY DEF IInv, Avoids
  <2>2. req[q].draft \in 1..salts
    <3>1. RequestOK(req[q], past[q], notes, spent, salts) /\ req[q].pc \in Creating
      BY DEF IInv, Creating
    <3> QED BY <1>1, <3>1, DraftDrawn
  <2>3. req[q].draft \notin Range(built)
    BY <1>1, <1>6, <2>2
  <2> QED BY <1>7, <2>1, <2>3
<1>12. /\ DOMAIN req' = Requests /\ req'[r] = new
       /\ \A q \in Requests \ {r} : req'[q] = req[q]
  BY <1>5 DEF IInv
<1>13. /\ notes' = notes /\ spent \subseteq spent'
       /\ owners' \in [Owners -> Seq(Nat)]
       /\ \A w \in Owners : \A c \in Range(owners'[w]) : OwnedBy(notes', c, w)
       /\ RequestOK(req'[r], past'[r], notes', spent', salts')
       /\ req'[r].pc \notin Creating
       /\ Avoids(req'[r], req'[r], past'[r])
       /\ \A q \in Requests \ {r} : Avoids(req[q], req'[r], past'[r])
       /\ DOMAIN past' = Requests /\ \A q \in Requests \ {r} : past'[q] = past[q]
  BY <1>1, <1>7, <1>10, <1>11, <1>12 DEF Creating, Avoids, IInv
<1> HIDE DEF x
<1> QED BY <1>8, <1>12, <1>13, StepInvariant

-----------------------------------------------------------------------------
(***************************************************************************)
(* A note is about to be marked when the index did not have it: it was not *)
(* signed away before the request began, or the read has failed.           *)
(***************************************************************************)
LEMMA CheckSpentInvariant ==
  ASSUME IInv, NEW r \in Requests, CheckSpent(r)
  PROVE  IInv'
<1> DEFINE x == req[r]
           c == Head(x.todo)
           new == [x EXCEPT !.pc = "mark"]
<1>1. /\ RequestOK(x, past[r], notes, spent, salts) /\ x.pc = "check" /\ x.todo # << >>
      /\ UNCHANGED <<notes, owners, spent, salts>>
      /\ owners \in [Owners -> Seq(Nat)]
      /\ \A w \in Owners : \A d \in Range(owners[w]) : OwnedBy(notes, d, w)
  BY DEF IInv, CheckSpent, storage
<1>2. PastGrows(r)
  BY PastSees DEF CheckSpent
<1>3. CASE Reply(r, "refused")
  BY <1>1, <1>2, <1>3, RepliedInvariant
<1>4. CASE /\ req' = [req EXCEPT ![r].pc = "mark"]
           /\ c \notin spent \/ past'[r].blind
  <2>1. /\ DOMAIN x = Fields /\ Range(x.selected) \subseteq DOMAIN notes /\ x.answer # "signed"
        /\ past[r].known \cap DOMAIN notes \subseteq spent
    BY <1>1 DEF RequestOK
  <2>2. /\ DOMAIN new = Fields /\ new.pc = "mark" /\ new.due = x.due
        /\ new.owner = x.owner /\ new.to = x.to /\ new.todo = x.todo /\ new.sync = x.sync
        /\ new.selected = x.selected /\ new.built = x.built /\ new.answer = x.answer
    BY <2>1 DEF Fields
  <2>3. req' = [req EXCEPT ![r] = new]
    BY <1>4
  <2> HIDE DEF new
  <2>4. ~x.sync => /\ x.todo \in Seq(Nat) /\ Range(x.todo) \subseteq Range(x.selected)
                   /\ Locked(Range(x.selected) \ Range(x.todo), past[r], notes, spent)
    BY <1>1 DEF RequestOK
  <2>5. ~x.sync /\ c \in past[r].known => past'[r].blind
    <3>1. ~x.sync => c \in Range(x.todo) BY <1>1, <2>4 DEF Range
    <3> QED BY <1>4, <2>1, <2>4, <3>1
  <2>6. \A S : Locked(S, past[r], notes, spent) => Locked(S, past'[r], notes, spent)
    BY <1>2 DEF Locked, PastGrows
  <2>7. RequestOK(new, past'[r], notes, spent, salts)
    BY <1>1, <1>2, <2>1, <2>2, <2>4, <2>5, <2>6 DEF RequestOK, Creating, PastGrows
  <2>8. new.pc \notin Creating
    BY <2>2 DEF Creating
  <2>9. Range(new.selected) \cup Range(new.built)
          \subseteq Range(req[r].selected) \cup Range(req[r].built) \cup DOMAIN notes
    BY <2>2
  <2> HIDE DEF x
  <2> QED BY <1>1, <1>2, <2>3, <2>7, <2>8, <2>9, QuietInvariant
<1> QED BY <1>3, <1>4, PastSees DEF CheckSpent, Goto

(***************************************************************************)
(* A mark comes before what it is for: the next note, the new notes of a   *)
(* transfer, or the signature.                                             *)
(***************************************************************************)
LEMMA MarkSpentInvariant ==
  ASSUME IInv, NEW r \in Requests, MarkSpent(r)
  PROVE  IInv'
<1> DEFINE x == req[r]
           c == Head(x.todo)
<1>1. /\ RequestOK(x, past[r], notes, spent, salts) /\ x.pc = "mark"
      /\ UNCHANGED <<notes, owners>> /\ salts \in Nat
      /\ owners \in [Owners -> Seq(Nat)]
      /\ \A w \in Owners : \A d \in Range(owners[w]) : OwnedBy(notes, d, w)
  BY DEF IInv, MarkSpent
<1>2. PastGrows(r) /\ spent' = spent \cup {c}
  BY PastMarks DEF MarkSpent
<1>3. /\ DOMAIN x = Fields /\ Range(x.selected) \subseteq DOMAIN notes /\ x.answer # "signed"
      /\ IsDue(x.due)
      /\ past[r].known \cap DOMAIN notes \subseteq spent
  BY <1>1 DEF RequestOK
<1>4. CASE Reply(r, "refused") /\ UNCHANGED salts
  BY <1>1, <1>2, <1>4, RepliedInvariant
<1>5. ASSUME ~x.sync
      PROVE  /\ x.todo \in Seq(Nat) /\ x.todo # << >>
             /\ Range(x.todo) \subseteq Range(x.selected)
             /\ Locked(Range(x.selected) \ Range(x.todo), past'[r], notes, spent')
             /\ c \in past'[r].known => past'[r].blind
  BY <1>1, <1>2, <1>5 DEF RequestOK, Locked, PastGrows
<1>6. ASSUME ~x.sync
      PROVE  /\ Tail(x.todo) \in Seq(Nat)
             /\ Range(x.todo) = {c} \cup Range(Tail(x.todo))
  BY <1>5, <1>6, HeadAndTail
<1>7. ASSUME ~x.sync
      PROVE  Locked(Range(x.selected) \ Range(Tail(x.todo)), past'[r], notes, spent')
  BY <1>2, <1>5, <1>6, <1>7 DEF Locked
<1>8. ASSUME ~x.sync, Tail(x.todo) = << >>
      PROVE  Locked(Range(x.selected), past'[r], notes, spent')
  <2>1. Range(<< >>) = {} BY DEF Range
  <2> QED BY <1>7, <1>8, <2>1
<1>9. ASSUME NEW new,
             /\ req' = [req EXCEPT ![r] = new] /\ DOMAIN new = Fields
             /\ new.pc \notin Creating /\ UNCHANGED salts
             /\ new.selected = x.selected /\ new.built = x.built
             /\ RequestOK(new, past'[r], notes, spent', salts)
      PROVE  IInv'
  <2>1. /\ DOMAIN req' = Requests /\ req'[r] = new
        /\ \A q \in Requests \ {r} : req'[q] = req[q]
    BY <1>9 DEF IInv
  <2>2. \A q \in Requests \ {r} : Avoids(req[q], req'[r], past'[r])
    BY <1>2, <1>9, <2>1 DEF IInv, Avoids, PastGrows
  <2>3. /\ notes' = notes /\ spent \subseteq spent' /\ salts' \in Nat /\ salts <= salts'
        /\ owners' \in [Owners -> Seq(Nat)]
        /\ \A w \in Owners : \A d \in Range(owners'[w]) : OwnedBy(notes', d, w)
        /\ RequestOK(req'[r], past'[r], notes', spent', salts')
        /\ req'[r].pc \notin Creating /\ Avoids(req'[r], req'[r], past'[r])
    BY <1>1, <1>2, <1>9, <2>1 DEF Avoids, Creating
  <2>4. DOMAIN past' = Requests /\ \A q \in Requests \ {r} : past'[q] = past[q]
    BY <1>2 DEF PastGrows
  <2> HIDE DEF x
  <2> QED BY <2>1, <2>2, <2>3, <2>4, StepInvariant
<1>10. CASE /\ ~x.sync /\ UNCHANGED salts /\ Tail(x.todo) # << >>
            /\ req' = [req EXCEPT ![r].pc = "check", ![r].todo = Tail(x.todo)]
  <2> DEFINE new == [x EXCEPT !.pc = "check", !.todo = Tail(x.todo)]
  <2>1. req' = [req EXCEPT ![r] = new] BY <1>10
  <2>2. /\ DOMAIN new = Fields /\ new.pc = "check" /\ new.due = x.due
        /\ new.owner = x.owner /\ new.to = x.to /\ new.todo = Tail(x.todo)
        /\ new.selected = x.selected /\ new.built = x.built /\ new.answer = x.answer
    BY <1>3 DEF Fields
  <2>3. Tail(x.todo) \in Seq(Nat) /\ Range(Tail(x.todo)) \subseteq Range(x.selected)
    BY <1>5, <1>6, <1>10
  <2> HIDE DEF new
  <2>4. RequestOK(new, past'[r], notes, spent', salts)
    BY <1>1, <1>2, <1>3, <1>7, <1>10, <2>2, <2>3 DEF RequestOK, Creating, PastGrows
  <2> QED BY <1>9, <1>10, <2>1, <2>2, <2>4 DEF Creating
<1>11. CASE /\ ~x.sync /\ Tail(x.todo) = << >> /\ CreateOr(r, x.due, Sign(r))
  <2>1. CASE x.due # << >>
    <3>1. /\ req' = [req EXCEPT ![r].pc = "put", ![r].due = x.due,
                                ![r].draft = salts + 1, ![r].todo = << >>]
          /\ salts' = salts + 1
      BY <1>11, <2>1 DEF CreateOr
    <3>2. UNCHANGED notes /\ spent \subseteq spent'
          /\ owners' \in [Owners -> Seq(Nat)]
          /\ \A w \in Owners : \A d \in Range(owners'[w]) : OwnedBy(notes, d, w)
      BY <1>1, <1>2
    <3> QED BY <1>1, <1>2, <1>3, <1>8, <1>11, <2>1, <3>1, <3>2, CreatesInvariant
  <2>2. CASE x.due = << >>
    <3> DEFINE new == [x EXCEPT !.pc = "done", !.answer = "signed", !.todo = << >>,
                                !.due = << >>]
    <3>1. req' = [req EXCEPT ![r] = new] /\ UNCHANGED salts
      BY <1>11, <2>2 DEF CreateOr, Sign
    <3>2. /\ DOMAIN new = Fields /\ new.pc = "done" /\ new.due = << >>
          /\ new.owner = x.owner /\ new.to = x.to
          /\ new.selected = x.selected /\ new.built = x.built
      BY <1>3 DEF Fields
    <3>3. IsDue(<< >>) BY DEF IsDue, Range
    <3> HIDE DEF new
    <3>4. RequestOK(new, past'[r], notes, spent', salts)
      BY <1>1, <1>2, <1>3, <1>8, <1>11, <3>2, <3>3 DEF RequestOK, Creating, PastGrows
    <3> QED BY <1>9, <3>1, <3>2, <3>4 DEF Creating
  <2> QED BY <2>1, <2>2
<1> QED BY <1>4, <1>10, <1>11 DEF MarkSpent

(***************************************************************************)
(* A transfer is signed when all its notes are marked.                     *)
(***************************************************************************)
LEMMA SignTransferInvariant ==
  ASSUME IInv, NEW r \in Requests, SignTransfer(r)
  PROVE  IInv'
<1> DEFINE x == req[r]
           new == [x EXCEPT !.pc = "done", !.answer = "signed", !.todo = << >>,
                            !.due = << >>]
<1>1. /\ RequestOK(x, past[r], notes, spent, salts) /\ x.pc = "params"
      /\ UNCHANGED <<notes, owners, spent, salts, past>>
  BY DEF IInv, SignTransfer, storage
<1>2. DOMAIN x = Fields /\ Locked(Range(x.selected), past[r], notes, spent)
  BY <1>1 DEF RequestOK
<1>3. /\ DOMAIN new = Fields /\ new.pc = "done" /\ new.due = << >>
      /\ new.owner = x.owner /\ new.to = x.to
      /\ new.selected = x.selected /\ new.built = x.built
  BY <1>2 DEF Fields
<1>4. req' = [req EXCEPT ![r] = new]
  BY DEF SignTransfer, Sign
<1>5. IsDue(<< >>)
  BY DEF IsDue, Range
<1> HIDE DEF new
<1>6. RequestOK(new, past'[r], notes, spent, salts)
  BY <1>1, <1>2, <1>3, <1>5 DEF RequestOK, Creating
<1>7. /\ new.pc \notin Creating
      /\ Range(new.selected) \cup Range(new.built)
           \subseteq Range(req[r].selected) \cup Range(req[r].built) \cup DOMAIN notes
  BY <1>3 DEF Creating
<1>8. UNCHANGED <<notes, owners, spent, salts>> /\ PastGrows(r)
  BY <1>1, PastKept
<1> HIDE DEF x
<1> QED BY <1>4, <1>6, <1>7, <1>8, QuietInvariant

-----------------------------------------------------------------------------
(***************************************************************************)
(* A call that fails ends the request, whether or not an upload came       *)
(* through.                                                                *)
(***************************************************************************)
LEMMA FailureInvariant ==
  ASSUME IInv, NEW r \in Requests, CallFails(r) \/ UploadFails(r)
  PROVE  IInv'
<1>1. /\ Reply(r, "error") /\ UNCHANGED salts
      /\ RequestOK(req[r], past[r], notes, spent, salts)
      /\ owners \in [Owners -> Seq(Nat)]
      /\ \A o \in Owners : \A c \in Range(owners[o]) : OwnedBy(notes, c, o)
  BY DEF CallFails, UploadFails, IInv
<1>2. CASE UNCHANGED <<notes, owners, spent, past>>
  BY <1>1, <1>2, PastKept, RepliedInvariant
<1>3. CASE req[r].pc = "put" /\ Put(r) /\ UNCHANGED <<owners, spent, past>>
  <2>1. req[r].draft \notin DOMAIN notes
    BY <1>1, <1>3 DEF RequestOK
  <2>2. \A o \in Owners : \A c \in Range(owners'[o]) : OwnedBy(notes', c, o)
    BY <1>1, <1>3, <2>1 DEF Put, OwnedBy
  <2> QED BY <1>1, <1>3, <2>2, PastKept, RepliedInvariant
<1>4. CASE /\ req[r].pc = "append" /\ AppendTo(r, req[r].copy)
           /\ UNCHANGED <<notes, spent, past>>
  <2> DEFINE list == req[r].copy
             draft == req[r].draft
             o == Head(req[r].due).owner
             t == Append(list, draft)
  <2>1. /\ list \in Seq(Nat) /\ \A c \in Range(list) : OwnedBy(notes, c, o)
        /\ OwnedBy(notes, draft, o) /\ req[r].due # << >> /\ IsDue(req[r].due)
    BY <1>1, <1>4 DEF RequestOK, Creating
  <2>2. draft \in Nat
    <3>1. salts \in Nat /\ req[r].pc \in Creating BY <1>4 DEF IInv, Creating
    <3> QED BY <1>1, <3>1, DraftDrawn
  <2>3. o \in Owners
    BY <2>1, DueParts
  <2>4. owners' = [owners EXCEPT ![o] = t]
    BY <1>4 DEF AppendTo
  <2> HIDE DEF list, draft, o
  <2>5. t \in Seq(Nat) /\ Range(t) \subseteq Range(list) \cup {draft}
    BY <2>1, <2>2 DEF Range
  <2> HIDE DEF t
  <2>6. \A w \in Owners : owners'[w] = IF w = o THEN t ELSE owners[w]
    BY <1>1, <2>4
  <2>7. \A c \in Range(t) : OwnedBy(notes, c, o)
    BY <2>1, <2>5
  <2>8. ASSUME NEW w \in Owners, NEW c \in Range(owners'[w]) PROVE OwnedBy(notes', c, w)
    <3>1. CASE w = o BY <3>1, <1>4, <2>6, <2>7, <2>8
    <3>2. CASE w # o BY <3>2, <1>1, <1>4, <2>6, <2>8
    <3> QED BY <3>1, <3>2
  <2>9. owners' \in [Owners -> Seq(Nat)]
    BY <1>1, <2>3, <2>4, <2>5
  <2> QED BY <1>1, <1>4, <2>8, <2>9, PastKept, RepliedInvariant
<1>5. CASE Mark(r) /\ UNCHANGED <<notes, owners>>
  BY <1>1, <1>5, PastMarks, RepliedInvariant
<1> QED BY <1>2, <1>3, <1>4, <1>5 DEF CallFails, UploadFails, storage

(***************************************************************************)
(* A restart takes the handlers along, and with the local adapter the      *)
(* whole book: what was signed names no stored note any more.              *)
(***************************************************************************)
LEMMA RestartInvariant ==
  ASSUME IInv, Restart
  PROVE  IInv'
<1>1. /\ \A r \in Requests : RequestOK(req[r], past[r], notes, spent, salts)
      /\ salts \in Nat /\ UNCHANGED <<salts, past>>
      /\ DOMAIN req' = Requests /\ DOMAIN past' = Requests
  BY DEF IInv, Restart
<1>2. IsDue(<< >>) /\ Range(<< >>) = {}
  BY DEF IsDue, Range
<1>3. \/ UNCHANGED <<notes, owners, spent>>
      \/ /\ DOMAIN notes' = {} /\ owners' = [o \in Owners |-> << >>]
  <2>1. DOMAIN << >> = {} OBVIOUS
  <2> QED BY <2>1 DEF Restart
<1>4. DOMAIN notes' \cap DOMAIN notes = DOMAIN notes' /\ DOMAIN notes' \cap spent \subseteq spent'
  BY <1>3
<1>5. \A S, p : Locked(S, p, notes, spent) => Locked(S, p, notes', spent')
  BY <1>3 DEF Locked
<1>6. /\ owners' \in [Owners -> Seq(Nat)]
      /\ \A o \in Owners : \A c \in Range(owners'[o]) : OwnedBy(notes', c, o)
  <2>1. CASE UNCHANGED <<notes, owners, spent>> BY <2>1 DEF IInv
  <2>2. CASE owners' = [o \in Owners |-> << >>]
    BY <1>2, <2>2
  <2> QED BY <1>3, <2>1, <2>2
<1>7. ASSUME NEW r \in Requests
      PROVE  /\ RequestOK(req'[r], past[r], notes', spent', salts)
             /\ req'[r].pc \notin Creating
             /\ Range(req'[r].selected) \subseteq Range(req[r].selected)
             /\ Range(req'[r].built) \subseteq Range(req[r].built)
  <2>1. RequestOK(req[r], past[r], notes, spent, salts)
    BY <1>1
  <2>2. /\ DOMAIN past[r] = {"known", "spends", "blind"} /\ past[r].known \subseteq 1..salts
        /\ past[r].known \cap DOMAIN notes' \subseteq spent'
    BY <1>4, <2>1 DEF RequestOK
  <2>3. CASE r \in InProgress
    <3> DEFINE new == [Idle EXCEPT !.pc = "done", !.kind = req[r].kind,
                                   !.deposit = req[r].deposit, !.answer = "lost"]
    <3>1. /\ DOMAIN new = Fields /\ new.pc = "done" /\ new.answer = "lost"
          /\ new.owner \in Owners /\ new.to \in Owners
          /\ new.selected = << >> /\ new.built = << >> /\ new.due = << >>
      BY IdleShape DEF Fields
    <3>2. req'[r] = new
      BY <2>3 DEF Restart
    <3> HIDE DEF new
    <3>3. Range(new.selected) = {} /\ Range(new.built) = {} /\ << >> \in Seq(Nat)
      BY <1>2, <3>1
    <3>4. RequestOK(new, past[r], notes', spent', salts)
      BY <1>2, <2>2, <3>1, <3>3 DEF RequestOK, Creating
    <3>5. new.pc \notin Creating
      BY <3>1 DEF Creating
    <3> QED BY <3>2, <3>3, <3>4, <3>5
  <2>4. CASE r \notin InProgress
    <3>1. req'[r] = req[r] /\ req[r].pc \in {"idle", "done"}
      BY <2>4 DEF Restart, InProgress
    <3> QED BY <1>5, <2>1, <2>2, <3>1 DEF RequestOK, Creating
  <2> QED BY <2>3, <2>4
<1>8. \A r, q \in Requests : Avoids(req'[r], req'[q], past'[q]) /\ Apart(req'[r], req'[q])
  BY <1>7 DEF Avoids, Apart, Creating
<1>9. DOMAIN notes' \subseteq 1..salts' /\ Len(Stock) <= salts'
  BY <1>1, <1>4 DEF IInv
<1> QED BY <1>1, <1>6, <1>7, <1>8, <1>9 DEF IInv

(***************************************************************************)
(* The chain touches nothing the engine keeps, and a stutter nothing.      *)
(***************************************************************************)
LEMMA ChainInvariant ==
  ASSUME IInv, UNCHANGED <<storage, salts, req, past>>
  PROVE  IInv'
<1>1. UNCHANGED <<notes, owners, spent, salts, req, past>>
  BY DEF storage
<1> QED BY <1>1 DEF IInv

(***************************************************************************)
(* Every step of a handler.                                                *)
(***************************************************************************)
LEMMA ProceedInvariant ==
  ASSUME IInv, NEW r \in Requests, Proceed(r)
  PROVE  IInv'
<1>1. CASE EventFound(r) \/ EventMissing(r) BY <1>1, EventInvariant
<1>2. CASE PutNote(r) BY <1>2, PutNoteInvariant
<1>3. CASE ReadList(r) BY <1>3, ReadListInvariant
<1>4. CASE AppendOwner(r) BY <1>4, AppendOwnerInvariant
<1>5. CASE LoadNote(r) BY <1>5, LoadNoteInvariant
<1>6. CASE ReadOwned(r) \/ ScanNote(r) BY <1>6, ScanInvariant
<1>7. CASE SelectNotes(r) \/ CheckChain(r) BY <1>7, SelectInvariant
<1>8. CASE BuildParams(r) BY <1>8, BuildParamsInvariant
<1>9. CASE CheckSpent(r) BY <1>9, CheckSpentInvariant
<1>10. CASE MarkSpent(r) BY <1>10, MarkSpentInvariant
<1>11. CASE SignTransfer(r) BY <1>11, SignTransferInvariant
<1>12. CASE CallFails(r) \/ UploadFails(r) BY <1>12, FailureInvariant
<1> QED BY <1>1, <1>2, <1>3, <1>4, <1>5, <1>6, <1>7, <1>8, <1>9, <1>10, <1>11, <1>12
        DEF Proceed

(***************************************************************************)
(* The inductive invariant holds of the engine, whatever fails and         *)
(* restarts and however the requests interleave.                           *)
(***************************************************************************)
THEOREM EngineInvariant == EngineSpec => []IInv
<1>1. EngineInit => IInv
  BY InitInvariant
<1>2. IInv /\ [EngineNext]_engineVars => IInv'
  <2> SUFFICES ASSUME IInv, [EngineNext]_engineVars PROVE IInv'
    OBVIOUS
  <2>1. ASSUME NEW r \in Requests, Arrive(r) PROVE IInv' BY <2>1, StartInvariant
  <2>2. ASSUME NEW r \in Requests, Proceed(r) PROVE IInv' BY <2>2, ProceedInvariant
  <2>3. ASSUME NEW r \in Requests, Submit(r) PROVE IInv'
    BY <2>3, ChainInvariant DEF Submit
  <2>4. CASE Restart BY <2>4, RestartInvariant
  <2>5. ASSUME NEW d \in Deposits, MineShield(d) PROVE IInv'
    BY <2>5, ChainInvariant DEF MineShield
  <2>6. CASE UNCHANGED engineVars BY <2>6, ChainInvariant DEF engineVars
  <2> QED BY <2>1, <2>2, <2>3, <2>4, <2>5, <2>6 DEF EngineNext
<1> QED BY <1>1, <1>2, PTL DEF EngineSpec

(***************************************************************************)
(* A note named in a signature given out is marked spent for as long as    *)
(* storage has the note.                                                   *)
(***************************************************************************)
THEOREM SignedAreLocked == EngineSpec => []SignedIsLocked
BY EngineInvariant, InvariantImplies, PTL

(***************************************************************************)
(* The list of an owner names stored notes of that owner only.             *)
(***************************************************************************)
THEOREM ListsAreSound == EngineSpec => []ListsNameNotes
BY EngineInvariant, InvariantImplies, PTL

(***************************************************************************)
(* A note that was signed away before a request began is not signed away   *)
(* by it, unless a failed read told it that the note was unspent.          *)
(***************************************************************************)
THEOREM LaterRequestsAreRefused == EngineSpec => []LaterRequestRefused
BY EngineInvariant, InvariantImplies, PTL

-----------------------------------------------------------------------------
\* Induction over finite sets, and sums as folds.
Rec == INSTANCE Recursion WITH Step <- LAMBDA c, g, x : x

Tally == INSTANCE Folding WITH op <- LAMBDA x, y : x + y,
                               choose <- LAMBDA s : CHOOSE x \in s : TRUE

\* A list without repetitions.
Injective(list) == \A i, j \in DOMAIN list : list[i] = list[j] => i = j

\* The value of the notes S of a book.
Worth(ns, S) == SumFunctionOnSet([c \in S |-> ns[c].amount], S)

\* What the loops of a handler have still to visit: elements of the list they
\* run over, in storage a and with the lists os.
LoopOK(x, a, os) ==
  /\ x.pc = "scan" /\ a = "local" => Range(x.todo) \subseteq Range(os[x.owner])
  /\ x.pc \in {"chain", "check", "mark"} => Range(x.todo) \subseteq Range(x.selected)
  /\ x.pc = "mark" => x.todo # << >>
  /\ x.pc = "append" => a = "0g"

\* The types, and what the loops of the handlers add to them.
TypeInv ==
  /\ EngineTypeOK
  /\ \A r \in Requests : LoopOK(req[r], adapter, owners)

\* What the notes still to be created are worth.
Owed(due) ==
  (IF 1 \in DOMAIN due THEN due[1].amount ELSE 0) +
  (IF 2 \in DOMAIN due THEN due[2].amount ELSE 0)

\* The value a request has taken out of the book, or signed away to be taken
\* out of the pool: of the notes it marked, of those it has still to create.
Held(x, p, ns) ==
  IF x.pc = "put" THEN Owed(x.due)
  ELSE IF x.pc \in {"list", "append"} THEN Owed(Tail(x.due))
  ELSE IF x.pc \in {"check", "mark"} /\ ~x.sync THEN Worth(ns, p.spends)
  ELSE IF x.answer = "signed" /\ x.kind = "unshield" THEN x.amount
  ELSE 0

\* Where a request of each kind can be, and what its selection is worth: with
\* the variables x of the handler, its history p and the notes ns, sp of them
\* spent.
BookOK(x, p, ns, sp) ==
  /\ x.pc = "idle" => x.kind = "none"
  /\ x.pc = "wait" => x.kind = "shield"
  /\ x.pc = "load" => x.kind = "unshield"
  /\ x.pc \in {"owned", "scan", "params"} => x.kind = "transfer"
  /\ x.pc \in {"chain", "check", "mark"} => x.kind \in {"unshield", "transfer"}
  /\ Len(x.due) <= 2
  /\ x.pc \in {"idle", "wait", "load", "owned", "scan", "chain"} =>
       ~x.sync /\ p.spends = {} /\ x.answer = "none"
  /\ x.pc = "chain" => x.amount <= Worth(ns, Range(x.selected))
  /\ x.kind = "unshield" => x.due = << >>
  /\ x.answer = "created" => x.kind \notin {"unshield", "transfer"}
  /\ x.kind = "unshield" /\ x.pc \in {"chain", "check", "mark"} =>
        Range(x.selected) = {Head(x.selected)}
  /\ x.pc \in {"check", "mark"} =>
       /\ p.spends \subseteq sp
       /\ ~x.sync =>
            /\ p.spends \subseteq Range(x.selected)
            /\ Range(x.selected) \subseteq p.spends \cup Range(x.todo)
            /\ x.amount <= Worth(ns, Range(x.selected))
            /\ x.kind = "transfer" => Owed(x.due) = Worth(ns, Range(x.selected))

\* The deposits that a request found on the chain and has booked or is booking.
Claimed == {req[r].deposit : r \in {q \in Requests :
              req[q].kind = "shield" /\ req[q].pc # "wait"}}

\* What all requests hold together.
HeldSum == SumFunctionOnSet([r \in Requests |-> Held(req[r], past[r], notes)], Requests)

\* What the claimed deposits that are on the chain come to.
Backing == SumFunctionOnSet(DepositAmount, Claimed \cap mined)

\* The book, and what requests have taken out of it, is backed by the stock and
\* by the deposits claimed.
Backed ==
  ShieldsOnce /\ ConsumedOnce =>
    Worth(notes, DOMAIN notes \ spent) + HeldSum <= SumFunction(Stock) + Backing

\* The spent index and the nullifiers name notes that some request consumed.
BookInv ==
  /\ \A r \in Requests : BookOK(req[r], past[r], notes, spent)
  /\ IsFiniteSet(mined)
  /\ spent \subseteq DOMAIN notes
  /\ spent \subseteq UNION {past[r].spends : r \in Requests}
  /\ nullified \subseteq UNION {NotesSignedBy(r) : r \in Signed}

\* The deposit a request has booked, or is booking: only /shield answers with
\* what it created.
Earned(x) ==
  IF x.kind \notin {"unshield", "transfer"} /\ (x.pc \in Creating \/ x.answer = "created")
  THEN DepositAmount[x.deposit] ELSE 0

\* What all requests have earned together.
EarnedSum == SumFunctionOnSet([r \in Requests |-> Earned(req[r])], Requests)

-----------------------------------------------------------------------------
(***************************************************************************)
(* A sum of natural numbers over a finite set is a natural number; it      *)
(* depends on the numbers only; and any one of them may be taken out.      *)
(***************************************************************************)
LEMMA SumFacts ==
  ASSUME NEW S, IsFiniteSet(S), NEW f, \A x \in S : f[x] \in Nat
  PROVE  /\ SumFunctionOnSet(f, S) \in Nat
         /\ \A g : (\A x \in S : f[x] = g[x]) => SumFunctionOnSet(g, S) = SumFunctionOnSet(f, S)
         /\ \A e \in S : SumFunctionOnSet(f, S) = f[e] + SumFunctionOnSet(f, S \ {e})
         /\ S = {} => SumFunctionOnSet(f, S) = 0
<1>1. \A g, T : SumFunctionOnSet(g, T) = Tally!Fold(0, g, T)
  BY DEF SumFunctionOnSet, FoldFunctionOnSet, MapThenFoldSet, Tally!Fold
<1>2. Tally!Chooses(S) /\ Tally!IsFiniteSet(S)
  BY DEF Tally!Chooses, IsFiniteSet, Tally!IsFiniteSet
<1>3. Tally!ClosedOn(Nat) /\ Tally!ClosedOn(Int) /\ Tally!CommutesOn(Int)
  BY DEF Tally!ClosedOn, Tally!CommutesOn
<1>4. Tally!Fold(0, f, S) \in Nat
  BY <1>2, <1>3, Tally!FoldType
<1>5. ASSUME NEW g, \A x \in S : f[x] = g[x]
      PROVE  Tally!Fold(0, f, S) = Tally!Fold(0, g, S)
  BY <1>2, <1>5, Tally!FoldExtensional
<1>6. ASSUME NEW e \in S
      PROVE  Tally!Fold(0, f, S) = f[e] + Tally!Fold(0, f, S \ {e})
  <2>1. \A x \in S : f[x] \in Int OBVIOUS
  <2> QED BY <1>2, <1>3, <2>1, Tally!FoldAnyElement
<1>7. Tally!Fold(0, f, {}) = 0
  BY Tally!FoldEmpty
<1> QED BY <1>1, <1>4, <1>5, <1>6, <1>7

(***************************************************************************)
(* The sum over a smaller set is not larger.                               *)
(***************************************************************************)
LEMMA SumSmaller ==
  ASSUME NEW S, IsFiniteSet(S), NEW f, \A x \in S : f[x] \in Nat
  PROVE  \A T \in SUBSET S : SumFunctionOnSet(f, T) <= SumFunctionOnSet(f, S)
<1>0. Rec!IsFiniteSet(S)
  BY DEF IsFiniteSet, Rec!IsFiniteSet
<1>1. \A U \in SUBSET S : IsFiniteSet(U) /\ SumFunctionOnSet(f, U) \in Nat
  BY FS_Subset, SumFacts
<1> DEFINE P == {U \in SUBSET S : \A T \in SUBSET U :
                   SumFunctionOnSet(f, T) <= SumFunctionOnSet(f, U)}
<1>2. {} \in P
  <2>1. SumFunctionOnSet(f, {}) \in Nat BY <1>1
  <2>2. SumFunctionOnSet(f, {}) <= SumFunctionOnSet(f, {}) BY <2>1
  <2>3. \A T \in SUBSET {} : T = {} OBVIOUS
  <2> QED BY <2>2, <2>3
<1>3. ASSUME NEW U \in SUBSET S, U # {}, \A x \in U : U \ {x} \in P
      PROVE  U \in P
  <2> SUFFICES ASSUME NEW T \in SUBSET U
               PROVE  SumFunctionOnSet(f, T) <= SumFunctionOnSet(f, U)
    OBVIOUS
  <2>1. CASE T = U BY <2>1, <1>1
  <2>2. CASE T # U
    <3>1. PICK x \in U : x \notin T BY <2>2
    <3>2. SumFunctionOnSet(f, T) <= SumFunctionOnSet(f, U \ {x})
      BY <1>3, <3>1
    <3>3. SumFunctionOnSet(f, U) = f[x] + SumFunctionOnSet(f, U \ {x})
      BY <1>1, SumFacts
    <3>4. /\ SumFunctionOnSet(f, T) \in Nat /\ SumFunctionOnSet(f, U \ {x}) \in Nat
          /\ f[x] \in Nat
      BY <1>1
    <3> QED BY <3>2, <3>3, <3>4
  <2> QED BY <2>1, <2>2
<1> HIDE DEF P
<1>4. SUBSET S \subseteq P
  BY ONLY <1>0, <1>2, <1>3, Rec!SetInduction
<1> QED BY <1>4 DEF P

(***************************************************************************)
(* A function that is changed in one place changes its sum by as much.     *)
(***************************************************************************)
LEMMA SumChanged ==
  ASSUME NEW S, IsFiniteSet(S), NEW f, \A x \in S : f[x] \in Nat,
         NEW g, \A x \in S : g[x] \in Nat, NEW e \in S,
         \A x \in S \ {e} : g[x] = f[x]
  PROVE  SumFunctionOnSet(g, S) + f[e] = SumFunctionOnSet(f, S) + g[e]
<1>1. IsFiniteSet(S \ {e})
  BY FS_Subset
<1>2. /\ SumFunctionOnSet(f, S) = f[e] + SumFunctionOnSet(f, S \ {e})
      /\ SumFunctionOnSet(g, S) = g[e] + SumFunctionOnSet(g, S \ {e})
  BY SumFacts
<1>3. /\ SumFunctionOnSet(g, S \ {e}) = SumFunctionOnSet(f, S \ {e})
      /\ SumFunctionOnSet(f, S \ {e}) \in Nat
  BY <1>1, SumFacts
<1> QED BY <1>2, <1>3

\* Finitely many notes, each of an amount.
Valued(ns, S) == IsFiniteSet(S) /\ \A c \in S : ns[c].amount \in Nat

(***************************************************************************)
(* Notes have a value, which one more note raises by its amount.           *)
(***************************************************************************)
LEMMA WorthFacts ==
  ASSUME NEW ns, NEW S, Valued(ns, S)
  PROVE  /\ Worth(ns, S) \in Nat
         /\ S = {} => Worth(ns, S) = 0
         /\ \A T \in SUBSET S : /\ Valued(ns, T) /\ Worth(ns, T) \in Nat
                               /\ Worth(ns, T) <= Worth(ns, S)
         /\ \A c \in S : Worth(ns, S) = ns[c].amount + Worth(ns, S \ {c})
         /\ \A ms : (\A c \in S : ms[c].amount = ns[c].amount) => Worth(ms, S) = Worth(ns, S)
<1> DEFINE f == [c \in S |-> ns[c].amount]
<1>1. IsFiniteSet(S) /\ \A c \in S : f[c] = ns[c].amount /\ f[c] \in Nat
  BY DEF Valued
<1>2. ASSUME NEW T \in SUBSET S, NEW ms, \A c \in T : ms[c].amount = ns[c].amount
      PROVE  /\ Worth(ms, T) = SumFunctionOnSet(f, T)
             /\ Worth(ms, T) \in Nat
             /\ Valued(ns, T)
             /\ T = {} => Worth(ms, T) = 0
  <2> DEFINE g == [c \in T |-> ms[c].amount]
  <2>1. IsFiniteSet(T) BY <1>1, FS_Subset
  <2>2. \A c \in T : f[c] = g[c] /\ g[c] \in Nat BY <1>1, <1>2
  <2>3. Worth(ms, T) = SumFunctionOnSet(g, T) BY DEF Worth
  <2> HIDE DEF f, g
  <2>4. /\ SumFunctionOnSet(g, T) \in Nat
        /\ SumFunctionOnSet(f, T) = SumFunctionOnSet(g, T)
        /\ T = {} => SumFunctionOnSet(g, T) = 0
    BY <2>1, <2>2, SumFacts
  <2>5. Valued(ns, T) BY <1>1, <2>1 DEF Valued
  <2> QED BY <2>3, <2>4, <2>5
<1> HIDE DEF f
<1>3. \A T \in SUBSET S : SumFunctionOnSet(f, T) <= SumFunctionOnSet(f, S)
  BY <1>1, SumSmaller
<1>4. \A c \in S : SumFunctionOnSet(f, S) = f[c] + SumFunctionOnSet(f, S \ {c})
  BY <1>1, SumFacts
<1>5. \A T \in SUBSET S : /\ Worth(ns, T) = SumFunctionOnSet(f, T)
                          /\ Worth(ns, T) \in Nat
                          /\ Valued(ns, T)
  BY <1>2
<1>6. S \in SUBSET S /\ \A c \in S : S \ {c} \in SUBSET S
  OBVIOUS
<1>7. S = {} => Worth(ns, S) = 0
  BY <1>2, <1>6
<1>8. \A ms : (\A c \in S : ms[c].amount = ns[c].amount) => Worth(ms, S) = Worth(ns, S)
  BY <1>2, <1>5, <1>6
<1>9. \A T \in SUBSET S : Worth(ns, T) <= Worth(ns, S)
  BY <1>3, <1>5, <1>6
<1>10. \A c \in S : Worth(ns, S) = ns[c].amount + Worth(ns, S \ {c})
  BY <1>1, <1>4, <1>5, <1>6
<1> QED BY <1>5, <1>6, <1>7, <1>8, <1>9, <1>10

(***************************************************************************)
(* What the properties call the value of the book, and the total of notes. *)
(***************************************************************************)
LEMMA WorthNames ==
  /\ \A S : BookValue(S) = Worth(notes, S \ spent)
  /\ \A S : Total(S) = Worth(notes, S)
BY DEF BookValue, SumOver, Worth, Total

(***************************************************************************)
(* The elements of a list are finitely many.                               *)
(***************************************************************************)
LEMMA ListFinite ==
  ASSUME NEW E, NEW list \in Seq(E), NEW ns, \A c \in Range(list) : ns[c].amount \in Nat
  PROVE  Valued(ns, Range(list))
<1>1. DOMAIN list = 1..Len(list) /\ Len(list) \in Nat
  OBVIOUS
<1>2. IsFiniteSet(1..Len(list))
  BY <1>1, FS_Interval
<1> DEFINE T == Range(list)
<1>3. list \in Surjection(1..Len(list), T)
  BY <1>1 DEF Surjection, Range
<1> HIDE DEF T
<1>4. IsFiniteSet(T)
  BY <1>2, <1>3, FS_Surjection
<1> QED BY <1>4 DEF T, Valued

(***************************************************************************)
(* A non-empty set of numbered things has one with the least number.       *)
(***************************************************************************)
LEMMA Least ==
  ASSUME NEW T, T # {}, NEW rank, \A x \in T : rank[x] \in Nat
  PROVE  \E x \in T : \A y \in T : rank[x] <= rank[y]
<1> DEFINE N == {rank[x] : x \in T}
           R == OpToRel(<, Nat)
<1>1. N \subseteq Nat /\ N # {}
  OBVIOUS
<1>2. IsWellFoundedOn(R, Nat)
  BY NatLessThanWellFounded
<1>3. \A x, y \in Nat : y < x => <<y, x>> \in R
  BY DEF OpToRel
<1> HIDE DEF R, N
<1>4. PICK n \in N : \A m \in N : <<m, n>> \notin R
  BY <1>1, <1>2, WFMin
<1>5. ASSUME NEW m \in N PROVE n \in Nat /\ m \in Nat /\ n <= m
  <2>1. n \in Nat /\ m \in Nat BY <1>1
  <2>2. ~(m < n) BY <1>3, <1>4, <2>1
  <2> QED BY <2>1, <2>2
<1>6. PICK x \in T : n = rank[x] BY <1>4 DEF N
<1>7. \A y \in T : rank[y] \in N BY DEF N
<1>8. \A y \in T : rank[x] <= rank[y] BY <1>5, <1>6, <1>7
<1> QED BY <1>8

(***************************************************************************)
(* A selection covers the amount when the whole list does: the notes that  *)
(* come before one that is not taken cover it, and they are taken.         *)
(***************************************************************************)
LEMMA SelectionCovers ==
  ASSUME NEW list \in Seq(Nat), NEW amount \in Nat,
         \A c \in Range(list) : notes[c].amount \in Nat,
         amount <= Worth(notes, Range(list)),
         NEW s \in Selections(list, amount)
  PROVE  /\ amount <= Worth(notes, Range(s))
         /\ Injective(list) => Injective(s)
<1> DEFINE Before(i, j) ==
             \/ notes[list[i]].amount > notes[list[j]].amount
             \/ notes[list[i]].amount = notes[list[j]].amount /\ i < j
           before(j) == {k \in DOMAIN list : Before(k, j)}
           image(J) == {list[i] : i \in J}
           taken == {j \in DOMAIN list : Worth(notes, image(before(j))) < amount}
<1>1. PICK pick \in [1..Cardinality(taken) -> taken] :
        /\ \A m, n \in DOMAIN pick : m < n => Before(pick[m], pick[n])
        /\ s = [n \in DOMAIN pick |-> list[pick[n]]]
  BY WorthNames DEF Selections
<1>2. DOMAIN list = 1..Len(list) /\ Len(list) \in Nat
  OBVIOUS
<1>3. IsFiniteSet(DOMAIN list) /\ taken \in SUBSET (DOMAIN list)
  BY <1>2, FS_Interval
<1>4. IsFiniteSet(taken) /\ Cardinality(taken) \in Nat
  BY <1>3, FS_Subset, FS_CardinalityType
<1>5. \A i \in DOMAIN list : i \in Nat /\ notes[list[i]].amount \in Nat
  BY <1>2 DEF Range
<1>6. \A i \in DOMAIN list : ~Before(i, i)
  BY <1>5
<1>7. ASSUME NEW i \in DOMAIN list, NEW j \in DOMAIN list, NEW k \in DOMAIN list,
             Before(i, j), Before(j, k)
      PROVE  Before(i, k)
  <2>1. /\ i \in Nat /\ j \in Nat /\ k \in Nat
        /\ notes[list[i]].amount \in Nat /\ notes[list[j]].amount \in Nat
        /\ notes[list[k]].amount \in Nat
    BY <1>5
  <2> QED BY <1>7, <2>1
<1>8. \A i, j \in DOMAIN list : i # j => Before(i, j) \/ Before(j, i)
  BY <1>5
<1> HIDE DEF Before
<1>9. \A m, n \in 1..Cardinality(taken) : pick[m] = pick[n] => m = n
  <2> SUFFICES ASSUME NEW m \in 1..Cardinality(taken), NEW n \in 1..Cardinality(taken),
                      m # n
               PROVE  pick[m] # pick[n]
    OBVIOUS
  <2>1. m < n \/ n < m BY <1>4
  <2>2. Before(pick[m], pick[n]) \/ Before(pick[n], pick[m]) BY <1>1, <2>1
  <2>3. pick[m] \in DOMAIN list /\ pick[n] \in DOMAIN list BY <1>3
  <2> QED BY <1>6, <2>2, <2>3
<1> HIDE DEF taken
<1>10. Range(s) = image(taken)
  <2>1. pick \in Injection(1..Cardinality(taken), taken)
    BY <1>9 DEF Injection, IsInjective
  <2>2. Cardinality(1..Cardinality(taken)) = Cardinality(taken)
    BY <1>4, FS_Interval
  <2>3. pick \in Surjection(1..Cardinality(taken), taken)
    BY <1>4, <2>1, <2>2, FS_Injection
  <2>4. \A j \in taken : \E n \in 1..Cardinality(taken) : pick[n] = j
    BY <2>3 DEF Surjection
  <2>5. DOMAIN pick = 1..Cardinality(taken) /\ \A n \in DOMAIN pick : pick[n] \in taken
    OBVIOUS
  <2>6. \A n \in DOMAIN pick : s[n] = list[pick[n]]
    BY <1>1
  <2>7. DOMAIN s = DOMAIN pick
    BY <1>1
  <2> QED BY <2>4, <2>5, <2>6, <2>7 DEF Range
<1>11. Valued(notes, Range(list))
  BY ListFinite
<1>12. image(DOMAIN list) = Range(list)
  BY DEF Range
<1>13. amount <= Worth(notes, Range(s))
  <2>1. CASE taken = DOMAIN list
    BY <1>10, <1>12, <2>1
  <2>2. CASE taken # DOMAIN list
    <3> DEFINE T == DOMAIN list \ taken
               rank == [j \in T |-> Cardinality(before(j))]
    <3>1. T # {} /\ \A j \in T : j \in DOMAIN list
      BY <1>3, <2>2
    <3>2. \A j : IsFiniteSet(before(j)) /\ Cardinality(before(j)) \in Nat
      <4> TAKE j
      <4>1. before(j) \in SUBSET (DOMAIN list) OBVIOUS
      <4> HIDE DEF before
      <4> QED BY <1>3, <4>1, FS_Subset, FS_CardinalityType
    <3>3. \A j \in T : rank[j] = Cardinality(before(j)) /\ rank[j] \in Nat
      BY <3>2
    <3> HIDE DEF rank
    <3>4. PICK m \in T : \A j \in T : rank[m] <= rank[j]
      BY <3>1, <3>3, Least
    <3>5. ASSUME NEW k \in before(m), k \notin taken PROVE FALSE
      <4>1. k \in T /\ k \in DOMAIN list /\ m \in DOMAIN list /\ Before(k, m)
        BY <3>1, <3>5
      <4>2. before(k) \in SUBSET before(m)
        BY <1>7, <4>1
      <4>3. k \in before(m) /\ k \notin before(k)
        BY <1>6, <4>1
      <4>4. Cardinality(before(k)) <= Cardinality(before(m))
            /\ Cardinality(before(k)) # Cardinality(before(m))
        <5> HIDE DEF before
        <5> QED BY <3>2, <4>2, <4>3, FS_Subset
      <4>5. rank[m] <= rank[k]
        BY <3>4, <4>1
      <4> HIDE DEF before, T
      <4> QED BY <3>2, <3>3, <4>1, <4>4, <4>5
    <3>6. image(before(m)) \in SUBSET image(taken)
      BY <3>5
    <3>7. ~(Worth(notes, image(before(m))) < amount)
      BY <3>1 DEF taken
    <3>8. image(taken) \in SUBSET Range(list)
      BY <1>3, <1>12
    <3> HIDE DEF image, before, T
    <3>9. Valued(notes, image(taken)) /\ Worth(notes, image(taken)) \in Nat
      BY <1>11, <3>8, WorthFacts
    <3>10. /\ Worth(notes, image(before(m))) <= Worth(notes, image(taken))
           /\ Worth(notes, image(before(m))) \in Nat
      BY <3>6, <3>9, WorthFacts
    <3> QED BY <1>10, <3>7, <3>9, <3>10
  <2> QED BY <2>1, <2>2
<1>14. Injective(list) => Injective(s)
  <2>1. DOMAIN s = 1..Cardinality(taken) /\ \A n \in DOMAIN s : s[n] = list[pick[n]]
    BY <1>1
  <2>2. \A n \in DOMAIN s : pick[n] \in DOMAIN list
    BY <1>3, <2>1
  <2> QED BY <1>9, <2>1, <2>2 DEF Injective
<1> QED BY <1>13, <1>14

-----------------------------------------------------------------------------
Note == [owner : Owners, amount : Nat]

\* The invariant of names, types and amounts.
CInv == IInv /\ TypeInv /\ BookInv

(***************************************************************************)
(* The first state.                                                        *)
(***************************************************************************)
LEMMA InitCInv == EngineInit => CInv
<1> SUFFICES ASSUME EngineInit PROVE TypeInv /\ BookInv
  BY InitInvariant DEF CInv
<1>1. Stock \in Seq(Nat) /\ Len(Stock) \in Nat /\ \A c \in 1..Len(Stock) : Stock[c] \in Nat
  BY EngineAssumption
<1>2. Idle \in Request
  <2>1. (CHOOSE d \in Deposits : TRUE) \in Deposits BY EngineAssumption
  <2>2. << >> \in Seq(Commitments) /\ << >> \in Seq([owner : Owners, amount : Nat])
    OBVIOUS
  <2>3. 0 \in 0..MaxPolls BY EngineAssumption
  <2> QED BY <2>1, <2>2, <2>3, EngineAssumption DEF Idle, Request
<1>3. /\ req = [r \in Requests |-> Idle]
      /\ past = [r \in Requests |-> [known |-> {}, spends |-> {}, blind |-> FALSE]]
  BY DEF EngineInit
<1>4. req \in [Requests -> Request] /\ past \in [Requests -> Past]
  BY <1>2, <1>3 DEF Past
<1>5. owners \in [Owners -> Seq(Commitments)]
  <2>1. [c \in 1..Len(Stock) |-> c] \in Seq(Commitments)
    BY <1>1 DEF Commitments
  <2>2. << >> \in Seq(Commitments) OBVIOUS
  <2> QED BY <2>1, <2>2 DEF EngineInit
<1>6. EngineTypeOK
  <2>1. \A c \in DOMAIN notes : notes[c] \in [owner : Owners, amount : Nat]
    BY <1>1, EngineAssumption DEF EngineInit, NoteOf
  <2>2. DOMAIN notes \subseteq 1..salts /\ salts \in Nat
    BY <1>1 DEF EngineInit
  <2>3. faults \in 0..MaxFaults BY EngineAssumption DEF EngineInit
  <2> QED BY <1>4, <1>5, <2>1, <2>2, <2>3 DEF EngineTypeOK, EngineInit
<1>7. \A r \in Requests : LoopOK(req[r], adapter, owners)
  BY <1>3, IdleShape DEF LoopOK
<1>8. BookOK(Idle, [known |-> {}, spends |-> {}, blind |-> FALSE], notes, spent)
  BY DEF BookOK, Idle
<1>9. /\ spent = {} /\ nullified = {} /\ IsFiniteSet(mined)
      /\ \A r \in Requests : BookOK(req[r], past[r], notes, spent)
  BY <1>3, <1>8, FS_EmptySet DEF EngineInit
<1> QED BY <1>6, <1>7, <1>9 DEF TypeInv, BookInv

(***************************************************************************)
(* The invariant of one request, at hand.                                  *)
(***************************************************************************)
LEMMA AtRequest ==
  ASSUME CInv, NEW r \in Requests
  PROVE  /\ req[r] \in Request /\ past[r] \in Past
         /\ DOMAIN req = Requests /\ DOMAIN past = Requests
         /\ RequestOK(req[r], past[r], notes, spent, salts)
         /\ LoopOK(req[r], adapter, owners)
         /\ BookOK(req[r], past[r], notes, spent)
         /\ salts \in Nat /\ owners \in [Owners -> Seq(Commitments)]
         /\ DOMAIN notes \subseteq 1..salts
         /\ spent \subseteq DOMAIN notes
         /\ \A c \in DOMAIN notes : notes[c] \in Note /\ notes[c].amount \in Nat
         /\ adapter \in {"local", "0g"}
         /\ overlap \in BOOLEAN /\ faults \in 0..MaxFaults
BY DEF CInv, IInv, TypeInv, BookInv, EngineTypeOK, Note

\* What a step of request r may do to all but its own variables.
Around(r) ==
  /\ req[r].pc # "done"
  /\ \/ notes' = notes
     \/ req[r].pc = "put" /\ Put(r)
  /\ past' \in [Requests -> Past]
  /\ \A q \in Requests \ {r} : past'[q] = past[q]
  /\ past[r].spends \subseteq past'[r].spends
  /\ spent \subseteq spent' /\ spent' \subseteq spent \cup past'[r].spends
  /\ spent' \subseteq DOMAIN notes'
  /\ owners' \in [Owners -> Seq(Commitments)]
  /\ adapter = "local" => \A o \in Owners : Range(owners[o]) \subseteq Range(owners'[o])
  /\ salts' \in Nat /\ salts <= salts'
  /\ overlap' \in BOOLEAN /\ faults' \in 0..MaxFaults
  /\ UNCHANGED <<adapter, mined, nullified>>

\* Its variables become new.
Moves(r, new) ==
  /\ Around(r)
  /\ req' = [req EXCEPT ![r] = new]
  /\ new \in Request
  /\ LoopOK(new, adapter, owners')
  /\ BookOK(new, past'[r], notes', spent')

(***************************************************************************)
(* A note that is stored changes no other.                                 *)
(***************************************************************************)
LEMMA StoredNotes ==
  ASSUME CInv, NEW r \in Requests, notes' = notes \/ (req[r].pc = "put" /\ Put(r))
  PROVE  /\ \A c \in DOMAIN notes : notes'[c] = notes[c]
         /\ DOMAIN notes \subseteq DOMAIN notes'
         /\ DOMAIN notes' \subseteq 1..salts
         /\ \A c \in DOMAIN notes' : notes'[c] \in Note
         /\ req[r].pc = "put" =>
              /\ req[r].draft \in Nat /\ req[r].draft \notin DOMAIN notes
              /\ req[r].due # << >> /\ Head(req[r].due) \in Note
<1>1. /\ req[r] \in Request /\ RequestOK(req[r], past[r], notes, spent, salts)
      /\ salts \in Nat /\ DOMAIN notes \subseteq 1..salts
      /\ \A c \in DOMAIN notes : notes[c] \in Note
  BY AtRequest
<1>2. ASSUME req[r].pc = "put"
      PROVE  /\ req[r].draft \notin DOMAIN notes /\ req[r].draft \in 1..salts
             /\ req[r].due # << >> /\ Head(req[r].due) \in Note
  <2>1. req[r].pc \in Creating BY <1>2 DEF Creating
  <2>2. req[r].draft \notin DOMAIN notes /\ req[r].due # << >>
    BY <1>1, <1>2, <2>1 DEF RequestOK
  <2>3. req[r].draft \in 1..salts
    BY <1>1, <2>1, DraftDrawn
  <2>4. req[r].due \in Seq(Note) BY <1>1 DEF Request, Note
  <2> QED BY <2>2, <2>3, <2>4
<1>3. CASE notes' = notes
  BY <1>1, <1>2, <1>3
<1>4. CASE req[r].pc = "put" /\ Put(r)
  <2>1. /\ DOMAIN notes' = DOMAIN notes \cup {req[r].draft}
        /\ notes'[req[r].draft] = Head(req[r].due)
        /\ \A c \in DOMAIN notes : notes'[c] = notes[c]
    BY <1>2, <1>4 DEF Put
  <2> QED BY <1>1, <1>2, <1>4, <2>1
<1> QED BY <1>3, <1>4

(***************************************************************************)
(* The notes of a request that is reading, checking or marking are stored. *)
(***************************************************************************)
LEMMA SelectedStored ==
  ASSUME NEW x, NEW p, NEW ns, NEW sp, NEW n, RequestOK(x, p, ns, sp, n),
         x.pc \in {"chain", "check", "mark"}
  PROVE  Range(x.selected) \subseteq DOMAIN ns /\ x.selected \in Seq(Nat)
BY DEF RequestOK

(***************************************************************************)
(* A step of one request does not disturb what is known of the others.     *)
(***************************************************************************)
LEMMA OthersBooked ==
  ASSUME CInv, NEW r \in Requests, notes' = notes \/ (req[r].pc = "put" /\ Put(r)),
         spent \subseteq spent', NEW q \in Requests
  PROVE  BookOK(req[q], past[q], notes', spent')
         /\ Held(req[q], past[q], notes') = Held(req[q], past[q], notes)
<1> DEFINE x == req[q]
           p == past[q]
<1>1. /\ BookOK(x, p, notes, spent) /\ RequestOK(x, p, notes, spent, salts)
      /\ \A c \in DOMAIN notes : notes[c] \in Note /\ notes[c].amount \in Nat
  BY AtRequest
<1>2. \A c \in DOMAIN notes : notes'[c] = notes[c]
  BY StoredNotes
<1>3. ASSUME x.pc \in {"chain", "check", "mark"}
      PROVE  Worth(notes', Range(x.selected)) = Worth(notes, Range(x.selected))
  <2>1. Range(x.selected) \subseteq DOMAIN notes /\ x.selected \in Seq(Nat)
    BY <1>1, <1>3, SelectedStored
  <2>2. Valued(notes, Range(x.selected))
    BY <1>1, <2>1, ListFinite
  <2>3. \A c \in Range(x.selected) : notes'[c].amount = notes[c].amount
    BY <1>2, <2>1
  <2> HIDE DEF x
  <2> QED BY <2>2, <2>3, WorthFacts
<1>4. ASSUME x.pc \in {"check", "mark"}, ~x.sync
      PROVE  Worth(notes', p.spends) = Worth(notes, p.spends)
  <2>1. p.spends \in SUBSET Range(x.selected)
    BY <1>1, <1>4 DEF BookOK
  <2>2. Range(x.selected) \subseteq DOMAIN notes /\ x.selected \in Seq(Nat)
    BY <1>1, <1>4, SelectedStored
  <2>3. Valued(notes, Range(x.selected))
    BY <1>1, <2>2, ListFinite
  <2>4. \A c \in p.spends : notes'[c].amount = notes[c].amount
    BY <1>2, <2>1, <2>2
  <2> HIDE DEF x, p
  <2>5. Valued(notes, p.spends)
    BY <2>1, <2>3, WorthFacts
  <2> QED BY <2>4, <2>5, WorthFacts
<1>5. BookOK(x, p, notes', spent')
  BY <1>1, <1>3 DEF BookOK
<1>6. Held(x, p, notes') = Held(x, p, notes)
  BY <1>4 DEF Held
<1> QED BY <1>5, <1>6

(***************************************************************************)
(* What a step of one request has to establish: its own part.              *)
(***************************************************************************)
LEMMA MovesBook ==
  ASSUME CInv, IInv', NEW r \in Requests, NEW new, Moves(r, new)
  PROVE  CInv'
<1>1. /\ EngineTypeOK /\ \A q \in Requests : LoopOK(req[q], adapter, owners)
      /\ req \in [Requests -> Request] /\ DOMAIN req = Requests
      /\ mined \subseteq Deposits /\ nullified \subseteq 1..salts /\ salts \in Nat
  BY DEF CInv, TypeInv, EngineTypeOK
<1>2. /\ req' \in [Requests -> Request] /\ req'[r] = new
      /\ \A q \in Requests \ {r} : req'[q] = req[q]
  BY <1>1 DEF Moves, Around
<1>3. 1..salts \subseteq 1..salts' /\ salts' \in Nat
  BY <1>1 DEF Moves, Around
<1>4. notes' = notes \/ (req[r].pc = "put" /\ Put(r))
  BY DEF Moves, Around
<1>5. DOMAIN notes' \subseteq 1..salts' /\ \A c \in DOMAIN notes' : notes'[c] \in Note
  BY <1>3, <1>4, StoredNotes
<1>6. EngineTypeOK'
  BY <1>1, <1>2, <1>3, <1>5 DEF EngineTypeOK, Moves, Around, Note
<1>7. ASSUME NEW q \in Requests PROVE LoopOK(req'[q], adapter', owners')
  <2>1. CASE q = r BY <1>2, <2>1 DEF Moves, Around
  <2>2. CASE q # r
    <3>1. req'[q] = req[q] /\ req[q].owner \in Owners /\ LoopOK(req[q], adapter, owners)
      BY <1>1, <1>2, <2>2 DEF Request
    <3> QED BY <3>1 DEF LoopOK, Moves, Around
  <2> QED BY <2>1, <2>2
<1>8. ASSUME NEW q \in Requests PROVE BookOK(req'[q], past'[q], notes', spent')
  <2>1. CASE q = r BY <1>2, <2>1 DEF Moves, Around
  <2>2. CASE q # r
    <3>1. BookOK(req[q], past[q], notes', spent')
      BY <1>4, OthersBooked DEF Moves, Around
    <3> QED BY <1>2, <2>2, <3>1 DEF Moves, Around
  <2> QED BY <2>1, <2>2
<1>9. spent' \subseteq UNION {past'[q].spends : q \in Requests}
  <2>1. \A q \in Requests : past[q].spends \subseteq past'[q].spends
    BY DEF Moves, Around
  <2>2. spent \subseteq UNION {past[q].spends : q \in Requests}
    BY DEF CInv, BookInv
  <2>3. spent' \subseteq spent \cup past'[r].spends
    BY DEF Moves, Around
  <2> QED BY <2>1, <2>2, <2>3
<1>10. nullified' \subseteq (UNION {NotesSignedBy(s) : s \in Signed})'
  <2>1. ASSUME NEW s \in Signed PROVE s \in Signed' /\ NotesSignedBy(s)' = NotesSignedBy(s)
    <3>1. RequestOK(req[s], past[s], notes, spent, salts) /\ req[s].answer = "signed"
      BY DEF Signed, CInv, IInv
    <3>2. s # r BY <3>1 DEF RequestOK, Moves, Around
    <3> QED BY <1>2, <3>2 DEF Signed, NotesSignedBy
  <2>2. nullified \subseteq UNION {NotesSignedBy(s) : s \in Signed}
    BY DEF CInv, BookInv
  <2> QED BY <2>1, <2>2 DEF Moves, Around
<1>11. IsFiniteSet(mined') /\ spent' \subseteq DOMAIN notes'
  BY DEF CInv, BookInv, Moves, Around
<1> QED BY <1>6, <1>7, <1>8, <1>9, <1>10, <1>11 DEF CInv, TypeInv, BookInv

-----------------------------------------------------------------------------
\* The value of the unspent notes.
BookNow == Worth(notes, DOMAIN notes \ spent)

\* The value of the book and of what request r has taken out of it.
Before(r) == BookNow + Held(req[r], past[r], notes)
After(r, new) == BookNow' + Held(new, past'[r], notes')

\* A step keeps that value, loses some of it (never gains any, unless a note is
\* consumed twice), or gains the deposit that was found on the chain.
Even(r, new) == After(r, new) = Before(r)
Loses(r, new) == ConsumedOnce' => After(r, new) <= Before(r)

Gains(r, new) ==
  /\ req[r].pc = "wait" /\ new.pc = "put"
  /\ req[r].deposit \in mined
  /\ After(r, new) = Before(r) + DepositAmount[req[r].deposit]

\* A request goes on as what it is, along the code of its handler.
Follows(r, new) ==
  /\ \/ req[r].pc = "idle"
     \/ new.kind = req[r].kind /\ new.deposit = req[r].deposit
  /\ new.pc = "wait" => req[r].pc \in {"idle", "wait"}
  /\ new.pc = "load" => req[r].pc = "idle"
  /\ new.pc = "scan" => req[r].pc \in {"owned", "scan"}
  /\ new.pc = "chain" => req[r].pc \in {"load", "scan", "chain"}
  /\ new.pc = "check" => req[r].pc \in {"chain", "mark"}
  /\ new.pc = "mark" => req[r].pc = "check"
  /\ new.pc = "list" => req[r].pc = "put"
  /\ new.pc = "append" => req[r].pc = "list"

(***************************************************************************)
(* At most two notes are due: the first, and the others.                   *)
(***************************************************************************)
LEMMA OwedFacts ==
  ASSUME NEW due \in Seq(Note), Len(due) <= 2
  PROVE  /\ Owed(due) \in Nat
         /\ due = << >> => Owed(due) = 0
         /\ due # << >> =>
              /\ Tail(due) \in Seq(Note) /\ Len(Tail(due)) <= 1
              /\ Head(due) \in Note /\ Head(due).amount \in Nat
              /\ Owed(due) = Head(due).amount + Owed(Tail(due))
              /\ Owed(Tail(due)) \in Nat
<1>0. DOMAIN due = 1..Len(due) /\ Len(due) \in Nat /\ \A i \in 1..Len(due) : due[i] \in Note
  OBVIOUS
<1>1. /\ DOMAIN due = 1..Len(due) /\ Len(due) \in {0, 1, 2}
      /\ \A i \in DOMAIN due : due[i] \in Note /\ due[i].amount \in Nat
  <2>1. Len(due) \in {0, 1, 2} BY <1>0
  <2>2. \A n \in Note : n.amount \in Nat BY DEF Note
  <2> QED BY <1>0, <2>1, <2>2
<1>2. Owed(due) \in Nat
  BY <1>1 DEF Owed
<1>3. CASE due = << >>
  BY <1>2, <1>3 DEF Owed
<1>4. CASE due # << >>
  <2>1. Len(due) \in {1, 2} /\ Head(due) = due[1] /\ 1 \in DOMAIN due
    BY <1>1, <1>4
  <2>2. /\ Tail(due) \in Seq(Note) /\ Len(Tail(due)) = Len(due) - 1
        /\ DOMAIN Tail(due) = 1..(Len(due) - 1)
        /\ \A i \in DOMAIN Tail(due) : Tail(due)[i] = due[i + 1]
    BY <1>1, <1>4
  <2>3. Owed(Tail(due)) = IF 2 \in DOMAIN due THEN due[2].amount ELSE 0
    <3>1. CASE Len(due) = 1
      <4>1. 1 \notin DOMAIN Tail(due) /\ 2 \notin DOMAIN Tail(due) /\ 2 \notin DOMAIN due
        <5>1. DOMAIN Tail(due) = 1..0 /\ DOMAIN due = 1..1 BY <1>1, <2>2, <3>1
        <5> QED BY <5>1
      <4> QED BY <4>1 DEF Owed
    <3>2. CASE Len(due) = 2
      <4>0. DOMAIN Tail(due) = 1..1 /\ DOMAIN due = 1..2 BY <1>1, <2>2, <3>2
      <4>1. 1 \in DOMAIN Tail(due) /\ 2 \notin DOMAIN Tail(due) /\ Tail(due)[1] = due[2]
            /\ 2 \in DOMAIN due
        <5>1. Tail(due)[1] = due[1 + 1] BY <2>2, <4>0
        <5> QED BY <4>0, <5>1
      <4>2. due[2].amount \in Nat BY <1>1, <4>1
      <4> QED BY <4>1, <4>2 DEF Owed
    <3> QED BY <2>1, <3>1, <3>2
  <2>4. Owed(due) = due[1].amount + Owed(Tail(due))
    BY <2>1, <2>3 DEF Owed
  <2>5. Owed(Tail(due)) \in Nat
    BY <1>1, <2>3
  <2>6. Len(Tail(due)) <= 1 BY <1>1, <2>2
  <2> QED BY <1>1, <1>2, <1>4, <2>1, <2>2, <2>4, <2>5, <2>6
<1> QED BY <1>2, <1>3, <1>4

(***************************************************************************)
(* The values of the book and of a request are numbers.                    *)
(***************************************************************************)
LEMMA ValueTypes ==
  ASSUME CInv
  PROVE  /\ Valued(notes, DOMAIN notes) /\ BookNow \in Nat
         /\ \A r \in Requests : Held(req[r], past[r], notes) \in Nat
<1>1. /\ salts \in Nat /\ DOMAIN notes \subseteq 1..salts
      /\ \A c \in DOMAIN notes : notes[c].amount \in Nat
  BY DEF CInv, TypeInv, EngineTypeOK
<1>2. Valued(notes, DOMAIN notes)
  <2>1. IsFiniteSet(1..salts) BY <1>1, FS_Interval
  <2>2. IsFiniteSet(DOMAIN notes) BY <1>1, <2>1, FS_Subset
  <2> QED BY <1>1, <2>2 DEF Valued
<1>3. BookNow \in Nat
  <2>1. DOMAIN notes \ spent \in SUBSET DOMAIN notes OBVIOUS
  <2> QED BY <1>2, <2>1, WorthFacts DEF BookNow
<1>4. ASSUME NEW r \in Requests PROVE Held(req[r], past[r], notes) \in Nat
  <2>1. /\ req[r] \in Request /\ BookOK(req[r], past[r], notes, spent)
        /\ RequestOK(req[r], past[r], notes, spent, salts)
    BY AtRequest
  <2>2. req[r].due \in Seq(Note) /\ Len(req[r].due) <= 2 /\ req[r].amount \in Nat
    BY <2>1 DEF Request, Note, BookOK
  <2>3. req[r].pc \in {"put", "list", "append"} => req[r].due # << >>
    BY <2>1 DEF RequestOK, Creating
  <2>4. ASSUME req[r].pc \in {"check", "mark"}, ~req[r].sync
        PROVE  Worth(notes, past[r].spends) \in Nat
    <3>1. past[r].spends \in SUBSET DOMAIN notes
      BY <2>1, <2>4, SelectedStored DEF BookOK
    <3> QED BY <1>2, <3>1, WorthFacts
  <2>5. Owed(req[r].due) \in Nat
        /\ (req[r].pc \in {"put", "list", "append"} => Owed(Tail(req[r].due)) \in Nat)
    BY <2>2, <2>3, OwedFacts
  <2> QED BY <2>2, <2>4, <2>5 DEF Held
<1> QED BY <1>2, <1>3, <1>4

(***************************************************************************)
(* Calls that fail are counted.                                            *)
(***************************************************************************)
LEMMA FaultCounted ==
  ASSUME CInv, UNCHANGED faults \/ Fault
  PROVE  faults' \in 0..MaxFaults
<1>1. faults \in 0..MaxFaults /\ MaxFaults \in Nat
  BY EngineAssumption DEF CInv, TypeInv, EngineTypeOK
<1> QED BY <1>1 DEF Fault

(***************************************************************************)
(* The history of a request that marks nothing keeps its marks.            *)
(***************************************************************************)
LEMMA HistoryKept ==
  ASSUME CInv, NEW r \in Requests, UNCHANGED past \/ \E c, seen : SeenSpent(r, c, seen)
  PROVE  /\ past' \in [Requests -> Past]
         /\ \A q \in Requests \ {r} : past'[q] = past[q]
         /\ past'[r].spends = past[r].spends
<1>1. past \in [Requests -> Past]
  BY DEF CInv, TypeInv, EngineTypeOK
<1>2. \/ past' = past
      \/ past' = [past EXCEPT ![r].blind = TRUE]
  BY DEF SeenSpent
<1> QED BY <1>1, <1>2 DEF Past

(***************************************************************************)
(* A mark adds the note to what the request has consumed, and changes no   *)
(* other history.                                                          *)
(***************************************************************************)
LEMMA HistoryMarked ==
  ASSUME CInv, NEW r \in Requests, Mark(r), Head(req[r].todo) \in Commitments
  PROVE  /\ past' \in [Requests -> Past]
         /\ \A q \in Requests \ {r} : past'[q] = past[q]
         /\ past'[r].spends = past[r].spends \cup {Head(req[r].todo)}
<1>1. past \in [Requests -> Past]
  BY DEF CInv, TypeInv, EngineTypeOK
<1> QED BY <1>1 DEF Past, Mark

(***************************************************************************)
(* Most steps leave the storage alone.                                     *)
(***************************************************************************)
LEMMA AroundQuiet ==
  ASSUME CInv, NEW r \in Requests, req[r].pc # "done",
         UNCHANGED <<adapter, notes, spent, mined, nullified>>,
         UNCHANGED past \/ \E c, seen : SeenSpent(r, c, seen),
         owners' \in [Owners -> Seq(Commitments)],
         adapter = "local" => \A o \in Owners : Range(owners[o]) \subseteq Range(owners'[o]),
         salts' \in Nat, salts <= salts',
         UNCHANGED overlap, UNCHANGED faults \/ Fault
  PROVE  Around(r)
<1>1. faults' \in 0..MaxFaults
  BY FaultCounted
<1>2. overlap' \in BOOLEAN /\ spent' \subseteq DOMAIN notes'
  BY AtRequest
<1> QED BY <1>1, <1>2, HistoryKept DEF Around

(***************************************************************************)
(* A step that leaves notes and marks alone, and what the request holds,   *)
(* keeps the value.                                                        *)
(***************************************************************************)
LEMMA QuietlyEven ==
  ASSUME CInv, NEW r \in Requests, NEW new, UNCHANGED <<notes, spent>>,
         Held(new, past'[r], notes) = Held(req[r], past[r], notes)
  PROVE  Even(r, new)
BY DEF Even, After, Before, BookNow

(***************************************************************************)
(* An answer without a signature is the end of what a request holds.       *)
(***************************************************************************)
LEMMA ReplyMoves ==
  ASSUME CInv, NEW r \in Requests, Around(r),
         NEW answer \in {"refused", "error"}, Reply(r, answer)
  PROVE  \E new : /\ Moves(r, new) /\ Follows(r, new)
                  /\ new.pc = "done" /\ new.answer = answer
                  /\ \A p, ns : Held(new, p, ns) = 0
<1> DEFINE new == [Idle EXCEPT !.pc = "done", !.kind = req[r].kind,
                               !.deposit = req[r].deposit, !.answer = answer]
<1>1. req[r].kind \in {"none", "shield", "unshield", "transfer"} /\ req[r].deposit \in Deposits
  BY AtRequest DEF Request
<1>2. Idle \in Request
  <2>1. (CHOOSE d \in Deposits : TRUE) \in Deposits BY EngineAssumption
  <2>2. << >> \in Seq(Commitments) /\ << >> \in Seq([owner : Owners, amount : Nat])
    OBVIOUS
  <2>3. 0 \in 0..MaxPolls BY EngineAssumption
  <2> QED BY <2>1, <2>2, <2>3, EngineAssumption DEF Idle, Request
<1>3. new \in Request
  BY <1>1, <1>2 DEF Request
<1>4. /\ new.pc = "done" /\ new.kind = req[r].kind /\ new.deposit = req[r].deposit
      /\ new.answer = answer /\ new.due = << >>
  BY DEF Idle
<1>5. req' = [req EXCEPT ![r] = new]
  BY DEF Reply
<1> HIDE DEF new
<1>6. Len(new.due) <= 2
  BY <1>4
<1>7. LoopOK(new, adapter, owners') /\ BookOK(new, past'[r], notes', spent')
  BY <1>4, <1>6 DEF LoopOK, BookOK
<1>8. \A p, ns : Held(new, p, ns) = 0
  BY <1>4 DEF Held
<1>9. Moves(r, new)
  BY <1>3, <1>5, <1>7 DEF Moves
<1> QED BY <1>4, <1>8, <1>9 DEF Follows

-----------------------------------------------------------------------------
\* A step at which nothing is given up: no call fails, no note is refused or
\* marked twice, and an unshield is signed for the whole of its note.
Smooth(r, new) ==
  /\ faults' = faults
  /\ req[r].pc = "check" => Head(req[r].todo) \notin spent
  /\ req[r].pc = "mark" =>
       /\ ~req[r].sync /\ Head(req[r].todo) \notin spent
       /\ new.answer = "signed" /\ new.kind = "unshield" =>
            new.amount = Worth(notes, Range(new.selected))

\* Of such a step the book and the request keep what they had, and what the
\* deposit adds that the request books.
Keeps(r, new) ==
  After(r, new) + Earned(req[r]) = Before(r) + Earned(new)

\* What a step of request r comes to.
Outcome(r) ==
  \E new : /\ Moves(r, new) /\ Follows(r, new)
           /\ Gains(r, new) \/ Loses(r, new)
           /\ Smooth(r, new) => Keeps(r, new)

(***************************************************************************)
(* What a request earns is a number.                                       *)
(***************************************************************************)
LEMMA EarnedNat ==
  ASSUME NEW x \in Request PROVE Earned(x) \in Nat
<1>1. x.deposit \in Deposits BY DEF Request
<1> QED BY <1>1, EngineAssumption DEF Earned

(***************************************************************************)
(* A step that keeps the value keeps it smoothly.                          *)
(***************************************************************************)
LEMMA EvenOutcome ==
  ASSUME CInv, NEW r \in Requests, NEW new, Moves(r, new), Follows(r, new),
         Even(r, new), Earned(new) = Earned(req[r])
  PROVE  Outcome(r)
<1>1. BookNow \in Nat /\ Held(req[r], past[r], notes) \in Nat
  BY ValueTypes
<1>2. Before(r) \in Nat BY <1>1 DEF Before
<1>3. Loses(r, new) BY <1>2 DEF Loses, Even
<1>4. Keeps(r, new) BY DEF Keeps, Even
<1> QED BY <1>3, <1>4 DEF Outcome

(***************************************************************************)
(* A step that leaves the book and what the request holds alone.           *)
(***************************************************************************)
LEMMA QuietOutcome ==
  ASSUME CInv, NEW r \in Requests, NEW new, Moves(r, new), Follows(r, new),
         UNCHANGED <<notes, spent>>, Earned(new) = Earned(req[r]),
         Held(new, past'[r], notes) = Held(req[r], past[r], notes)
  PROVE  Outcome(r)
BY QuietlyEven, EvenOutcome

(***************************************************************************)
(* A request that replies without a signature holds nothing any more.      *)
(***************************************************************************)
LEMMA ReplyOutcome ==
  ASSUME CInv, NEW r \in Requests, Around(r),
         NEW answer \in {"refused", "error"}, Reply(r, answer),
         BookNow' \in Nat,
         BookNow' <= BookNow + Held(req[r], past[r], notes),
         \/ faults' # faults
         \/ req[r].pc = "check" /\ Head(req[r].todo) \in spent
         \/ req[r].pc = "mark" /\ req[r].sync
         \/ /\ BookNow' = BookNow + Held(req[r], past[r], notes)
            /\ Earned(req[r]) = 0
  PROVE  Outcome(r)
<1>1. PICK new : /\ Moves(r, new) /\ Follows(r, new)
                 /\ new.pc = "done" /\ new.answer = answer
                 /\ \A p, ns : Held(new, p, ns) = 0
  BY ReplyMoves
<1>2. BookNow \in Nat /\ Held(req[r], past[r], notes) \in Nat
  BY ValueTypes
<1>3. After(r, new) = BookNow' /\ Before(r) \in Nat
  BY <1>1, <1>2 DEF After, Before
<1>4. Loses(r, new)
  BY <1>2, <1>3 DEF Loses, Before
<1>5. Earned(new) = 0
  BY <1>1 DEF Earned, Creating
<1>6. Smooth(r, new) => Keeps(r, new)
  <2> SUFFICES ASSUME Smooth(r, new) PROVE Keeps(r, new)
    OBVIOUS
  <2>1. BookNow' = BookNow + Held(req[r], past[r], notes) /\ Earned(req[r]) = 0
    BY DEF Smooth
  <2> QED BY <1>2, <1>3, <1>5, <2>1 DEF Keeps, Before
<1> QED BY <1>1, <1>4, <1>6 DEF Outcome

(***************************************************************************)
(* Before its first note is marked a request holds nothing.                *)
(***************************************************************************)
LEMMA NothingHeld ==
  ASSUME CInv, NEW r \in Requests,
         req[r].pc \in {"idle", "wait", "load", "owned", "scan", "chain", "params"}
  PROVE  /\ Held(req[r], past[r], notes) = 0 /\ Earned(req[r]) = 0
         /\ req[r].pc # "params" => past[r].spends = {} /\ ~req[r].sync /\ req[r].answer = "none"
<1>1. BookOK(req[r], past[r], notes, spent) /\ RequestOK(req[r], past[r], notes, spent, salts)
  BY AtRequest
<1>2. req[r].answer # "signed" /\ (req[r].answer # "created" \/ req[r].kind = "transfer")
  BY <1>1 DEF BookOK, RequestOK
<1>3. req[r].pc \notin Creating
  BY DEF Creating
<1>4. Held(req[r], past[r], notes) = 0
  BY <1>2 DEF Held
<1>5. Earned(req[r]) = 0
  BY <1>2, <1>3 DEF Earned
<1> QED BY <1>1, <1>4, <1>5 DEF BookOK

(***************************************************************************)
(* createNote begins.                                                      *)
(***************************************************************************)
LEMMA CreateMoves ==
  ASSUME CInv, NEW r \in Requests, Around(r), req[r].kind # "unshield",
         NEW due \in Seq(Note), due # << >>, Len(due) <= 2,
         NEW after, CreateOr(r, due, after)
  PROVE  \E new : /\ Moves(r, new) /\ Follows(r, new)
                  /\ new.pc = "put" /\ new.due = due
                  /\ new.kind = req[r].kind /\ new.deposit = req[r].deposit
                  /\ \A p, ns : Held(new, p, ns) = Owed(due)
<1> DEFINE x == req[r]
           new == [x EXCEPT !.pc = "put", !.due = due, !.draft = salts + 1, !.todo = << >>]
<1>1. /\ x \in Request /\ DOMAIN req = Requests /\ salts \in Nat
      /\ BookOK(x, past[r], notes, spent)
  BY AtRequest
<1>2. req' = [req EXCEPT ![r] = new]
  BY <1>1 DEF CreateOr
<1> HIDE DEF x
<1>3. new \in Request
  <2>1. << >> \in Seq(Commitments) /\ due \in Seq([owner : Owners, amount : Nat])
        /\ salts + 1 \in Commitments \cup {0}
    BY <1>1 DEF Note, Commitments
  <2> QED BY <1>1, <2>1 DEF Request
<1>4. /\ new.pc = "put" /\ new.due = due /\ new.kind = x.kind /\ new.deposit = x.deposit
      /\ new.answer = x.answer
  BY <1>1 DEF Request
<1> HIDE DEF new
<1>5. LoopOK(new, adapter, owners') /\ BookOK(new, past'[r], notes', spent')
  BY <1>1, <1>4 DEF LoopOK, BookOK, x
<1>6. Moves(r, new)
  BY <1>2, <1>3, <1>5 DEF Moves
<1>7. \A p, ns : Held(new, p, ns) = Owed(due)
  BY <1>4 DEF Held
<1> QED BY <1>4, <1>6, <1>7 DEF Follows, x

-----------------------------------------------------------------------------
(***************************************************************************)
(* The steps, one after the other: a handler starts.                       *)
(***************************************************************************)
LEMMA StartOutcome ==
  ASSUME CInv, NEW r \in Requests, NEW new \in Request, Start(r, new),
         new.pc \in {"wait", "load", "owned"}, new.answer = "none", new.due = << >>,
         new.sync = FALSE,
         new.pc = "wait" => new.kind = "shield",
         new.pc = "load" => new.kind = "unshield",
         new.pc = "owned" => new.kind = "transfer"
  PROVE  Outcome(r)
<1>1. /\ req[r].pc = "idle" /\ past \in [Requests -> Past]
      /\ BookOK(req[r], past[r], notes, spent)
  BY AtRequest DEF Start, CInv, TypeInv, EngineTypeOK
<1>2. UNION {NotesSignedBy(s) : s \in Signed} \subseteq Commitments
  <2>1. ASSUME NEW s \in Signed PROVE NotesSignedBy(s) \subseteq Commitments
    <3>1. s \in Requests /\ RequestOK(req[s], past[s], notes, spent, salts)
      BY AtRequest DEF Signed
    <3>2. salts \in Nat BY AtRequest
    <3> QED BY <3>1, <3>2 DEF RequestOK, NotesSignedBy, Commitments
  <2> QED BY <2>1
<1>3. /\ past' \in [Requests -> Past]
      /\ \A q \in Requests \ {r} : past'[q] = past[q]
      /\ past'[r].spends = past[r].spends
  BY <1>1, <1>2 DEF Start, Past
<1>4. overlap' \in BOOLEAN /\ faults' \in 0..MaxFaults
  BY AtRequest DEF Start
<1>5. Around(r)
  <2>1. /\ owners' = owners /\ owners \in [Owners -> Seq(Commitments)]
        /\ salts' = salts /\ salts \in Nat /\ spent' \subseteq DOMAIN notes'
    BY AtRequest DEF Start, storage
  <2> QED BY <1>1, <1>3, <1>4, <2>1 DEF Around, Start, storage, chain
<1>6. past[r].spends = {}
  BY <1>1 DEF BookOK
<1>7. LoopOK(new, adapter, owners') /\ BookOK(new, past'[r], notes', spent')
  BY <1>3, <1>6 DEF LoopOK, BookOK
<1>8. Moves(r, new)
  BY <1>5, <1>7 DEF Moves, Start
<1>9. Held(new, past'[r], notes) = 0 /\ Earned(new) = 0
  BY DEF Held, Earned, Creating
<1>10. Held(req[r], past[r], notes) = 0 /\ Earned(req[r]) = 0
  BY <1>1, NothingHeld
<1>11. Follows(r, new) /\ UNCHANGED <<notes, spent>>
  BY <1>1 DEF Follows, Start, storage
<1> QED BY <1>8, <1>9, <1>10, <1>11, QuietOutcome

(***************************************************************************)
(* A request arrives.                                                      *)
(***************************************************************************)
LEMMA ArriveOutcome ==
  ASSUME CInv, NEW r \in Requests, Arrive(r)
  PROVE  Outcome(r)
<1>1. PICK n \in Amounts :
        \/ \E d \in Deposits : StartShield(r, d, n)
        \/ \E o \in Owners, c \in Answered : StartUnshield(r, o, c, n)
        \/ \E from, to \in Owners : StartTransfer(r, from, to, n)
  BY DEF Arrive
<1>2. n \in Nat BY EngineAssumption
<1>3. Idle \in Request
  <2>1. (CHOOSE d \in Deposits : TRUE) \in Deposits BY EngineAssumption
  <2>2. << >> \in Seq(Commitments) /\ << >> \in Seq([owner : Owners, amount : Nat])
    OBVIOUS
  <2>3. 0 \in 0..MaxPolls BY EngineAssumption
  <2> QED BY <2>1, <2>2, <2>3, EngineAssumption DEF Idle, Request
<1>4. CASE \E d \in Deposits : StartShield(r, d, n)
  <2>1. PICK d \in Deposits : StartShield(r, d, n) BY <1>4
  <2>2. DepositOwner[d] \in Owners BY EngineAssumption
  <2> DEFINE new == [Idle EXCEPT !.pc = "wait", !.kind = "shield",
                        !.owner = DepositOwner[d], !.deposit = d, !.amount = n]
  <2>3. new \in Request BY <1>2, <1>3, <2>2 DEF Request
  <2>4. /\ new.pc = "wait" /\ new.kind = "shield" /\ new.answer = "none" /\ new.due = << >>
        /\ new.sync = FALSE
    BY DEF Idle
  <2>5. Start(r, new) BY <2>1 DEF StartShield
  <2> HIDE DEF new
  <2> QED BY <2>3, <2>4, <2>5, StartOutcome
<1>5. CASE \E o \in Owners, c \in Answered : StartUnshield(r, o, c, n)
  <2>1. PICK o \in Owners, c \in Answered : StartUnshield(r, o, c, n) BY <1>5
  <2>2. c \in Commitments
    <3>1. Answered \subseteq 1..salts /\ salts \in Nat
      BY AnsweredIsDrawn DEF CInv, IInv
    <3> QED BY <3>1 DEF Commitments
  <2>3. << c >> \in Seq(Commitments) BY <2>2
  <2> DEFINE new == [Idle EXCEPT !.pc = "load", !.kind = "unshield", !.owner = o,
                        !.selected = << c >>, !.amount = n]
  <2>4. new \in Request BY <1>2, <1>3, <2>3 DEF Request
  <2>5. /\ new.pc = "load" /\ new.kind = "unshield" /\ new.answer = "none" /\ new.due = << >>
        /\ new.sync = FALSE
    BY DEF Idle
  <2>6. Start(r, new) BY <2>1 DEF StartUnshield
  <2> HIDE DEF new
  <2> QED BY <2>4, <2>5, <2>6, StartOutcome
<1>6. CASE \E from, to \in Owners : StartTransfer(r, from, to, n)
  <2>1. PICK from \in Owners, to \in Owners : StartTransfer(r, from, to, n) BY <1>6
  <2> DEFINE new == [Idle EXCEPT !.pc = "owned", !.kind = "transfer", !.owner = from,
                        !.to = to, !.amount = n]
  <2>2. new \in Request BY <1>2, <1>3 DEF Request
  <2>3. /\ new.pc = "owned" /\ new.kind = "transfer" /\ new.answer = "none" /\ new.due = << >>
        /\ new.sync = FALSE
    BY DEF Idle
  <2>4. Start(r, new) BY <2>1 DEF StartTransfer
  <2> HIDE DEF new
  <2> QED BY <2>2, <2>3, <2>4, StartOutcome
<1> QED BY <1>1, <1>4, <1>5, <1>6

(***************************************************************************)
(* A step that leaves storage alone is around r.                           *)
(***************************************************************************)
LEMMA StillAround ==
  ASSUME CInv, NEW r \in Requests, req[r].pc # "done", UNCHANGED <<storage, chain, overlap>>,
         UNCHANGED past \/ \E c, seen : SeenSpent(r, c, seen),
         salts' \in Nat, salts <= salts', UNCHANGED faults \/ Fault
  PROVE  Around(r)
<1>1. owners' \in [Owners -> Seq(Commitments)] /\ owners' = owners
  BY AtRequest DEF storage
<1> QED BY <1>1, AroundQuiet DEF storage, chain

(***************************************************************************)
(* waitForShieldEvent: the deposit is booked as a note to create, or not.  *)
(***************************************************************************)
LEMMA EventFoundOutcome ==
  ASSUME CInv, NEW r \in Requests, EventFound(r)
  PROVE  Outcome(r)
<1>1. /\ req[r].pc = "wait" /\ req[r].deposit \in mined
      /\ UNCHANGED <<storage, chain, past, overlap, faults>>
  BY DEF EventFound
<1>2. req[r] \in Request /\ BookOK(req[r], past[r], notes, spent) /\ salts \in Nat
  BY AtRequest
<1>3. req[r].owner \in Owners /\ req[r].amount \in Nat /\ req[r].deposit \in Deposits
      /\ req[r].kind = "shield"
  BY <1>1, <1>2 DEF Request, BookOK
<1>4. salts' \in Nat /\ salts <= salts'
  BY <1>2 DEF EventFound, CreateOr
<1>5. Around(r)
  BY <1>1, <1>4, StillAround
<1>6. Held(req[r], past[r], notes) = 0 /\ Earned(req[r]) = 0
  BY <1>1, NothingHeld
<1>7. BookNow' = BookNow /\ BookNow \in Nat
  BY <1>1, ValueTypes DEF storage, BookNow
<1>8. CASE DepositAmount[req[r].deposit] = req[r].amount
  <2> DEFINE due == << NoteOf(req[r].owner, req[r].amount) >>
  <2>1. /\ due \in Seq(Note) /\ Len(due) = 1 /\ due # << >> /\ DOMAIN due = {1}
        /\ due[1].amount = req[r].amount
    BY <1>3 DEF Note, NoteOf
  <2>2. Owed(due) = req[r].amount
    BY <1>3, <2>1 DEF Owed
  <2>3. CreateOr(r, due, FALSE)
    BY <1>8 DEF EventFound
  <2>4. Len(due) <= 2 BY <2>1
  <2> HIDE DEF due
  <2>5. PICK new : /\ Moves(r, new) /\ Follows(r, new)
                   /\ new.pc = "put" /\ new.due = due
                   /\ new.kind = req[r].kind /\ new.deposit = req[r].deposit
                   /\ \A p, ns : Held(new, p, ns) = Owed(due)
    BY <1>3, <1>5, <2>1, <2>3, <2>4, CreateMoves
  <2>6. After(r, new) = BookNow + req[r].amount /\ Before(r) = BookNow
    BY <1>6, <1>7, <2>2, <2>5 DEF After, Before
  <2>7. Gains(r, new)
    BY <1>1, <1>8, <2>5, <2>6 DEF Gains
  <2>8. Earned(new) = req[r].amount
    BY <1>3, <1>8, <2>5 DEF Earned, Creating
  <2>9. Keeps(r, new)
    BY <1>3, <1>6, <1>7, <2>6, <2>8 DEF Keeps
  <2> QED BY <2>5, <2>7, <2>9 DEF Outcome
<1>9. CASE DepositAmount[req[r].deposit] # req[r].amount
  <2>1. Reply(r, "refused") BY <1>9 DEF EventFound
  <2> QED BY <1>5, <1>6, <1>7, <2>1, ReplyOutcome
<1> QED BY <1>8, <1>9

(***************************************************************************)
(* waitForShieldEvent goes on, or gives up.                                *)
(***************************************************************************)
LEMMA EventMissingOutcome ==
  ASSUME CInv, NEW r \in Requests, EventMissing(r)
  PROVE  Outcome(r)
<1>1. req[r].pc = "wait" /\ UNCHANGED <<storage, salts, chain, past, overlap, faults>>
  BY DEF EventMissing
<1>2. req[r] \in Request /\ BookOK(req[r], past[r], notes, spent) /\ salts \in Nat
      /\ DOMAIN req = Requests
  BY AtRequest
<1>3. Around(r)
  BY <1>1, <1>2, StillAround
<1>4. Held(req[r], past[r], notes) = 0 /\ Earned(req[r]) = 0
  BY <1>1, NothingHeld
<1>5. BookNow' = BookNow /\ BookNow \in Nat
  BY <1>1, ValueTypes DEF storage, BookNow
<1>6. CASE req[r].polls + 1 < MaxPolls
  <2> DEFINE x == req[r]
             new == [x EXCEPT !.polls = @ + 1]
  <2>1. req' = [req EXCEPT ![r] = new]
    BY <1>1, <1>2, <1>6 DEF EventMissing
  <2> HIDE DEF x
  <2>2. x \in Request /\ x.polls \in 0..MaxPolls /\ x.polls + 1 < MaxPolls
    BY <1>2, <1>6 DEF x, Request
  <2>3. x.polls + 1 \in 0..MaxPolls
    BY <2>2, EngineAssumption
  <2>4. new \in Request
    BY <2>2, <2>3 DEF Request
  <2>5. BookOK(new, past[r], notes, spent)
    BY <1>2, <2>2 DEF BookOK, Request, x
  <2>6. new.pc = "wait" /\ new.kind = x.kind /\ new.deposit = x.deposit /\ new.answer = x.answer
    BY <1>1, <2>2 DEF Request, x
  <2> HIDE DEF new
  <2>7. LoopOK(new, adapter, owners')
    BY <2>6 DEF LoopOK
  <2>8. Moves(r, new)
    BY <1>1, <1>3, <2>1, <2>4, <2>5, <2>7 DEF Moves, storage
  <2>9. Held(new, past'[r], notes) = 0 /\ Earned(new) = 0
    <3>1. x.answer = "none" BY <1>1, NothingHeld DEF x
    <3> QED BY <2>6, <3>1 DEF Held, Earned, Creating
  <2> QED BY <1>1, <1>4, <2>6, <2>8, <2>9, QuietOutcome DEF Follows, x, storage
<1>7. CASE ~(req[r].polls + 1 < MaxPolls)
  <2>1. Reply(r, "error") BY <1>7 DEF EventMissing
  <2> QED BY <1>3, <1>4, <1>5, <2>1, ReplyOutcome
<1> QED BY <1>6, <1>7

(***************************************************************************)
(* One more note raises the value of the book by its amount.               *)
(***************************************************************************)
LEMMA PutValue ==
  ASSUME CInv, NEW r \in Requests, req[r].pc = "put", Put(r), spent' = spent
  PROVE  /\ BookNow' = BookNow + Head(req[r].due).amount
         /\ spent' \subseteq DOMAIN notes'
         /\ req[r].due \in Seq(Note) /\ Len(req[r].due) <= 2 /\ req[r].due # << >>
<1> DEFINE d == req[r].draft
           T == DOMAIN notes \ spent
<1>1. /\ DOMAIN notes' = DOMAIN notes \cup {d}
      /\ notes'[d] = Head(req[r].due)
      /\ \A c \in DOMAIN notes : notes'[c] = notes[c]
      /\ d \notin DOMAIN notes /\ Head(req[r].due) \in Note
  BY StoredNotes DEF Put
<1>2. spent \subseteq DOMAIN notes /\ Valued(notes, DOMAIN notes)
  BY ValueTypes DEF CInv, BookInv
<1>3. /\ DOMAIN notes' \ spent' = T \cup {d} /\ d \notin T /\ T \in SUBSET DOMAIN notes
      /\ (T \cup {d}) \ {d} = T
  BY <1>1, <1>2
<1>4. Valued(notes, T)
  BY <1>2, <1>3, WorthFacts
<1>5. Valued(notes', T \cup {d})
  <2>1. IsFiniteSet(T \cup {d})
    BY <1>4, FS_AddElement DEF Valued
  <2>2. notes'[d].amount \in Nat BY <1>1 DEF Note
  <2>3. \A c \in T : notes'[c].amount \in Nat BY <1>1, <1>3, <1>4 DEF Valued
  <2> QED BY <2>1, <2>2, <2>3 DEF Valued
<1>6. Worth(notes', T) = Worth(notes, T)
  <2>1. \A c \in T : notes'[c].amount = notes[c].amount BY <1>1, <1>3
  <2> HIDE DEF T
  <2> QED BY <1>4, <2>1, WorthFacts
<1>7. Worth(notes', T \cup {d}) = notes'[d].amount + Worth(notes', T)
  <2> DEFINE U == T \cup {d}
  <2>1. d \in U /\ U \ {d} = T BY <1>3
  <2> HIDE DEF T, U
  <2>2. Worth(notes', U) = notes'[d].amount + Worth(notes', U \ {d})
    <3>1. Valued(notes', U) BY <1>5 DEF U
    <3> QED BY <2>1, <3>1, WorthFacts
  <2> QED BY <2>1, <2>2 DEF U
<1>8. Worth(notes, T) \in Nat /\ Head(req[r].due).amount \in Nat
  BY <1>1, <1>4, WorthFacts DEF Note
<1>9. BookNow' = BookNow + Head(req[r].due).amount
  <2>1. BookNow' = Worth(notes', DOMAIN notes' \ spent') /\ BookNow = Worth(notes, T)
    BY DEF BookNow
  <2>2. BookNow' = Worth(notes', T \cup {d})
    BY <1>3, <2>1
  <2> HIDE DEF T, d
  <2> QED BY <1>1, <1>6, <1>7, <1>8, <2>1, <2>2
<1>10. /\ req[r] \in Request /\ RequestOK(req[r], past[r], notes, spent, salts)
       /\ BookOK(req[r], past[r], notes, spent)
  BY AtRequest
<1> QED BY <1>1, <1>2, <1>9, <1>10 DEF Request, Note, BookOK, RequestOK, Creating

(***************************************************************************)
(* createNote stores the note: what was due is in the book.                *)
(***************************************************************************)
LEMMA PutNoteOutcome ==
  ASSUME CInv, NEW r \in Requests, PutNote(r)
  PROVE  Outcome(r)
<1>1. /\ req[r].pc = "put" /\ Put(r)
      /\ UNCHANGED <<adapter, owners, spent, salts, chain, past, overlap, faults>>
  BY DEF PutNote
<1>2. /\ BookNow' = BookNow + Head(req[r].due).amount
      /\ spent' \subseteq DOMAIN notes'
      /\ req[r].due \in Seq(Note) /\ Len(req[r].due) <= 2 /\ req[r].due # << >>
  BY <1>1, PutValue
<1>3. /\ req[r] \in Request /\ BookOK(req[r], past[r], notes, spent) /\ salts \in Nat
      /\ owners \in [Owners -> Seq(Commitments)]
      /\ overlap \in BOOLEAN /\ faults \in 0..MaxFaults /\ past \in [Requests -> Past]
  BY AtRequest DEF CInv, TypeInv, EngineTypeOK
<1>4. Around(r)
  BY <1>1, <1>2, <1>3 DEF Around, chain
<1> DEFINE x == req[r]
           new == [x EXCEPT !.pc = "list"]
<1>5. req' = [req EXCEPT ![r] = new]
  BY DEF PutNote, Goto
<1>6. /\ Owed(x.due) = Head(x.due).amount + Owed(Tail(x.due))
      /\ Owed(Tail(x.due)) \in Nat /\ Head(x.due).amount \in Nat
  BY <1>2, OwedFacts
<1> HIDE DEF x
<1>7. new \in Request
  BY <1>3 DEF Request, x
<1>8. /\ new.pc = "list" /\ new.due = x.due /\ new.kind = x.kind /\ new.deposit = x.deposit
      /\ new.answer = x.answer
  BY <1>3 DEF Request, x
<1> HIDE DEF new
<1>9. LoopOK(new, adapter, owners') /\ BookOK(new, past'[r], notes', spent')
  BY <1>2, <1>3, <1>8 DEF LoopOK, BookOK, x
<1>10. Moves(r, new) BY <1>4, <1>5, <1>7, <1>9 DEF Moves
<1>11. /\ Held(new, past'[r], notes') = Owed(Tail(x.due))
       /\ Held(x, past[r], notes) = Owed(x.due)
  BY <1>1, <1>8 DEF Held, x
<1>12. Even(r, new)
  <2>1. BookNow \in Nat BY ValueTypes
  <2> QED BY <1>2, <1>6, <1>11, <2>1 DEF Even, After, Before, x
<1>13. Earned(new) = Earned(x)
  BY <1>1, <1>8 DEF Earned, Creating, x
<1> QED BY <1>1, <1>8, <1>10, <1>12, <1>13, EvenOutcome DEF Follows, x

(***************************************************************************)
(* addOwnerCommitment reads the list.                                      *)
(***************************************************************************)
LEMMA ReadListOutcome ==
  ASSUME CInv, NEW r \in Requests, ReadList(r)
  PROVE  Outcome(r)
<1>1. /\ req[r].pc = "list" /\ adapter = "0g"
      /\ UNCHANGED <<storage, salts, chain, past, overlap>>
      /\ UNCHANGED faults \/ Fault
  BY DEF ReadList, StorageFault
<1>2. /\ req[r] \in Request /\ BookOK(req[r], past[r], notes, spent) /\ salts \in Nat
      /\ RequestOK(req[r], past[r], notes, spent, salts)
      /\ owners \in [Owners -> Seq(Commitments)] /\ DOMAIN req = Requests
  BY AtRequest
<1>3. Around(r)
  BY <1>1, <1>2, StillAround
<1>4. Listed(r) \in Seq(Commitments)
  <2>1. IsDue(req[r].due) /\ req[r].due # << >>
    BY <1>1, <1>2 DEF RequestOK, Creating
  <2>2. Head(req[r].due).owner \in Owners BY <2>1, DueParts
  <2> QED BY <1>2, <2>2 DEF Listed
<1>5. PICK list \in {Listed(r), << >>} :
        req' = [req EXCEPT ![r].pc = "append", ![r].copy = list]
  BY DEF ReadList
<1>6. list \in Seq(Commitments)
  <2>1. << >> \in Seq(Commitments) OBVIOUS
  <2> QED BY <1>4, <1>5, <2>1
<1> DEFINE x == req[r]
           new == [x EXCEPT !.pc = "append", !.copy = list]
<1>7. req' = [req EXCEPT ![r] = new]
  BY <1>2, <1>5
<1> HIDE DEF x
<1>8. new \in Request
  BY <1>2, <1>6 DEF Request, x
<1>9. /\ new.pc = "append" /\ new.due = x.due /\ new.kind = x.kind /\ new.deposit = x.deposit
      /\ new.answer = x.answer
  BY <1>2 DEF Request, x
<1> HIDE DEF new
<1>10. LoopOK(new, adapter, owners') /\ BookOK(new, past'[r], notes', spent')
  BY <1>1, <1>2, <1>9 DEF LoopOK, BookOK, x
<1>11. Moves(r, new) BY <1>3, <1>7, <1>8, <1>10 DEF Moves
<1>12. Held(new, past'[r], notes) = Held(x, past[r], notes) /\ Earned(new) = Earned(x)
  BY <1>1, <1>9 DEF Held, Earned, Creating, x
<1> QED BY <1>1, <1>9, <1>11, <1>12, QuietOutcome DEF Follows, storage, x

(***************************************************************************)
(* The list of an owner is written.                                        *)
(***************************************************************************)
LEMMA AppendedLists ==
  ASSUME CInv, NEW r \in Requests, req[r].pc \in {"list", "append"},
         NEW list \in Seq(Commitments), AppendTo(r, list)
  PROVE  /\ owners' \in [Owners -> Seq(Commitments)]
         /\ list = Listed(r) =>
              \A o \in Owners : Range(owners[o]) \subseteq Range(owners'[o])
<1>1. /\ req[r] \in Request /\ RequestOK(req[r], past[r], notes, spent, salts)
      /\ salts \in Nat /\ owners \in [Owners -> Seq(Commitments)]
  BY AtRequest
<1>2. req[r].pc \in Creating BY DEF Creating
<1>3. req[r].draft \in 1..salts BY <1>1, <1>2, DraftDrawn
<1>4. req[r].draft \in Commitments BY <1>1, <1>3 DEF Commitments
<1>5. Append(list, req[r].draft) \in Seq(Commitments) BY <1>4
<1>6. Range(list) \subseteq Range(Append(list, req[r].draft))
  <2> DEFINE a == Append(list, req[r].draft)
  <2>1. DOMAIN list = 1..Len(list) /\ Len(list) \in Nat
    OBVIOUS
  <2>2. DOMAIN a = 1..(Len(list) + 1) /\ \A i \in 1..Len(list) : a[i] = list[i]
    OBVIOUS
  <2>3. 1..Len(list) \subseteq 1..(Len(list) + 1) BY <2>1
  <2> HIDE DEF a
  <2> QED BY <2>1, <2>2, <2>3 DEF Range
<1>7. owners' \in [Owners -> Seq(Commitments)]
  BY <1>1, <1>5 DEF AppendTo
<1>8. ASSUME list = Listed(r), NEW o \in Owners
      PROVE  Range(owners[o]) \subseteq Range(owners'[o])
  <2>1. CASE o = Head(req[r].due).owner
    <3>1. owners'[o] = Append(list, req[r].draft) /\ owners[o] = list
      BY <1>1, <1>8, <2>1 DEF AppendTo, Listed
    <3> QED BY <1>6, <3>1
  <2>2. CASE o # Head(req[r].due).owner
    <3>1. owners'[o] = owners[o] BY <1>1, <2>2 DEF AppendTo
    <3> QED BY <3>1
  <2> QED BY <2>1, <2>2
<1> QED BY <1>7, <1>8

(***************************************************************************)
(* createNote returns: the note is listed, and what is due is the rest.    *)
(***************************************************************************)
LEMMA AppendOwnerOutcome ==
  ASSUME CInv, NEW r \in Requests, AppendOwner(r)
  PROVE  Outcome(r)
<1>1. /\ req[r].pc \in {"list", "append"} /\ NoteCreated(r)
      /\ UNCHANGED <<adapter, notes, spent, chain, past, overlap, faults>>
  BY DEF AppendOwner
<1>2. /\ req[r] \in Request /\ BookOK(req[r], past[r], notes, spent) /\ salts \in Nat
      /\ RequestOK(req[r], past[r], notes, spent, salts) /\ DOMAIN req = Requests
      /\ owners \in [Owners -> Seq(Commitments)]
  BY AtRequest
<1>3. req[r].due \in Seq(Note) /\ req[r].due # << >> /\ Len(req[r].due) <= 2
      /\ req[r].copy \in Seq(Commitments)
  BY <1>1, <1>2 DEF Request, RequestOK, BookOK, Note, Creating
<1>4. /\ Tail(req[r].due) \in Seq(Note) /\ Len(Tail(req[r].due)) <= 1
      /\ Head(req[r].due) \in Note /\ Owed(Tail(req[r].due)) \in Nat
      /\ Len(Tail(req[r].due)) \in Nat
  BY <1>3, OwedFacts
<1>5. Listed(r) \in Seq(Commitments)
  <2>1. Head(req[r].due).owner \in Owners BY <1>4 DEF Note
  <2> QED BY <1>2, <2>1 DEF Listed
<1>6. /\ owners' \in [Owners -> Seq(Commitments)]
      /\ adapter = "local" => \A o \in Owners : Range(owners[o]) \subseteq Range(owners'[o])
  <2>1. CASE AppendTo(r, req[r].copy) /\ req[r].pc = "append"
    <3>1. adapter # "local" BY <2>1, AtRequest DEF LoopOK
    <3> QED BY <1>1, <1>3, <2>1, <3>1, AppendedLists
  <2>2. CASE AppendTo(r, Listed(r))
    BY <1>1, <1>5, <2>2, AppendedLists
  <2> QED BY <2>1, <2>2 DEF AppendOwner
<1>7. salts' \in Nat /\ salts <= salts'
  BY <1>2 DEF AppendOwner, NoteCreated, CreateOr
<1>8. Around(r)
  BY <1>1, <1>6, <1>7, AroundQuiet DEF chain
<1>9. Held(req[r], past[r], notes) = Owed(Tail(req[r].due))
  BY <1>1 DEF Held
<1>10. req[r].kind # "unshield"
  BY <1>2, <1>3 DEF BookOK
<1>11. Earned(req[r]) = IF req[r].kind # "transfer" THEN DepositAmount[req[r].deposit] ELSE 0
  BY <1>1, <1>10 DEF Earned, Creating
<1>12. CASE Tail(req[r].due) # << >>
  <2> DEFINE due == Tail(req[r].due)
  <2>1. \E after : CreateOr(r, due, after)
    BY <1>1 DEF NoteCreated
  <2>2. due \in Seq(Note) /\ due # << >> /\ Len(due) <= 2
    BY <1>4, <1>12
  <2> HIDE DEF due
  <2>3. PICK new : /\ Moves(r, new) /\ Follows(r, new)
                   /\ new.pc = "put" /\ new.due = due
                   /\ new.kind = req[r].kind /\ new.deposit = req[r].deposit
                   /\ \A p, ns : Held(new, p, ns) = Owed(due)
    BY <1>8, <1>10, <2>1, <2>2, CreateMoves
  <2>4. Held(new, past'[r], notes) = Held(req[r], past[r], notes)
    BY <1>9, <2>3 DEF due
  <2>5. Earned(new) = Earned(req[r])
    BY <1>11, <2>3 DEF Earned, Creating
  <2> QED BY <1>1, <2>3, <2>4, <2>5, QuietOutcome
<1>13. CASE Tail(req[r].due) = << >>
  <2> DEFINE x == req[r]
             asked == [x EXCEPT !.pc = "params", !.due = << >>, !.draft = 0, !.copy = << >>]
             made == [x EXCEPT !.pc = "done", !.answer = "created", !.built = << x.draft >>,
                               !.draft = 0, !.due = << >>, !.copy = << >>]
             new == IF x.kind = "transfer" THEN asked ELSE made
  <2>1. req' = [req EXCEPT ![r] = new]
    BY <1>1, <1>2, <1>13 DEF NoteCreated, CreateOr
  <2>2. x \in Request /\ x.draft \in Commitments
    <3>1. x.pc \in Creating BY <1>1 DEF Creating
    <3>2. x.draft \in 1..salts BY <1>2, <3>1, DraftDrawn
    <3> QED BY <1>2, <3>2 DEF Commitments
  <2> HIDE DEF x
  <2>3. << >> \in Seq(Commitments) /\ << >> \in Seq([owner : Owners, amount : Nat])
        /\ << x.draft >> \in Seq(Commitments)
    BY <2>2
  <2>4. asked \in Request
    BY <2>2, <2>3 DEF Request
  <2>5. made \in Request
    BY <2>2, <2>3 DEF Request
  <2>6. /\ asked.pc = "params" /\ asked.due = << >> /\ asked.kind = x.kind
        /\ asked.deposit = x.deposit /\ asked.answer = x.answer
        /\ made.pc = "done" /\ made.due = << >> /\ made.kind = x.kind
        /\ made.deposit = x.deposit /\ made.answer = "created"
    BY <2>2 DEF Request
  <2> HIDE DEF asked, made
  <2>7. Owed(Tail(x.due)) = 0
    <3>1. << >> \in Seq(Note) /\ Len(<< >>) <= 2 OBVIOUS
    <3>2. Owed(<< >>) = 0 BY <3>1, OwedFacts
    <3> QED BY <1>13, <3>2 DEF x
  <2>9. /\ new \in Request /\ new.kind = x.kind /\ new.deposit = x.deposit /\ new.due = << >>
        /\ new.pc \in {"params", "done"}
        /\ new.pc = "params" => new.kind = "transfer"
        /\ new.pc = "done" => new.answer = "created" /\ new.kind # "transfer"
        /\ new.pc = "params" => new.answer = x.answer
    <3>1. CASE x.kind = "transfer"
      <4>1. new = asked BY <3>1
      <4> HIDE DEF new
      <4> QED BY <2>4, <2>6, <3>1, <4>1
    <3>2. CASE x.kind # "transfer"
      <4>1. new = made BY <3>2
      <4> HIDE DEF new
      <4> QED BY <2>5, <2>6, <3>2, <4>1
    <3> QED BY <3>1, <3>2
  <2> HIDE DEF new
  <2>10. Len(new.due) <= 2
    BY <2>9
  <2>11. LoopOK(new, adapter, owners') /\ BookOK(new, past'[r], notes', spent')
    BY <1>2, <1>10, <2>9, <2>10 DEF LoopOK, BookOK, x
  <2>12. Moves(r, new)
    BY <1>8, <2>1, <2>9, <2>11 DEF Moves
  <2>13. Held(new, past'[r], notes) = 0
    BY <2>9 DEF Held
  <2>14. Earned(new) = Earned(req[r])
    BY <1>11, <2>9 DEF Earned, Creating, x
  <2> QED BY <1>1, <1>9, <2>7, <2>9, <2>12, <2>13, <2>14, QuietOutcome DEF Follows, x
<1> QED BY <1>12, <1>13

(***************************************************************************)
(* A request that is still reading holds nothing.                          *)
(***************************************************************************)
LEMMA ReadOutcome ==
  ASSUME CInv, NEW r \in Requests, Around(r), UNCHANGED <<notes, spent>>,
         past'[r].spends = past[r].spends,
         req[r].pc \in {"load", "owned", "scan", "chain"},
         NEW new \in Request, req' = [req EXCEPT ![r] = new],
         new.kind = req[r].kind, new.deposit = req[r].deposit, new.amount = req[r].amount,
         new.answer = req[r].answer, new.due = req[r].due,
         new.pc \in {"scan", "chain", "check"},
         new.pc = "scan" => req[r].pc \in {"owned", "scan"},
         new.pc = "chain" => req[r].pc # "owned",
         new.pc = "check" => req[r].pc = "chain",
         (new.pc = "check" <=> new.sync),
         LoopOK(new, adapter, owners'),
         new.pc = "chain" => new.amount <= Worth(notes, Range(new.selected)),
         new.kind = "unshield" => Range(new.selected) = {Head(new.selected)}
  PROVE  Outcome(r)
<1>1. /\ BookOK(req[r], past[r], notes, spent)
      /\ Held(req[r], past[r], notes) = 0 /\ Earned(req[r]) = 0
      /\ past[r].spends = {} /\ req[r].answer = "none"
  BY AtRequest, NothingHeld
<1>2. BookOK(new, past'[r], notes', spent')
  BY <1>1 DEF BookOK
<1>3. Moves(r, new)
  BY <1>2 DEF Moves
<1>4. Held(new, past'[r], notes) = 0 /\ Earned(new) = 0
  BY <1>1 DEF Held, Earned, Creating
<1> QED BY <1>1, <1>3, <1>4, QuietOutcome DEF Follows

(***************************************************************************)
(* The head of /unshield: the note is there, and covers the amount.        *)
(***************************************************************************)
LEMMA LoadNoteOutcome ==
  ASSUME CInv, NEW r \in Requests, LoadNote(r)
  PROVE  Outcome(r)
<1> DEFINE x == req[r]
           c == Head(x.selected)
<1>1. /\ x.pc = "load" /\ UNCHANGED <<storage, salts, chain, overlap>>
      /\ UNCHANGED past \/ \E d, seen : SeenSpent(r, d, seen)
      /\ UNCHANGED faults \/ Fault
  BY DEF LoadNote, SeenSpent, StorageFault
<1>2. /\ x \in Request /\ BookOK(x, past[r], notes, spent) /\ salts \in Nat
      /\ RequestOK(x, past[r], notes, spent, salts) /\ DOMAIN req = Requests
      /\ \A d \in DOMAIN notes : notes[d].amount \in Nat
  BY AtRequest
<1>3. Around(r)
  BY <1>1, <1>2, StillAround
<1>4. past'[r].spends = past[r].spends
  BY <1>1, HistoryKept
<1>5. Held(x, past[r], notes) = 0 /\ Earned(x) = 0 /\ ~x.sync
  BY <1>1, NothingHeld
<1>6. BookNow' = BookNow /\ BookNow \in Nat
  BY <1>1, ValueTypes DEF storage, BookNow
<1>7. CASE Reply(r, "refused")
  BY <1>3, <1>5, <1>6, <1>7, ReplyOutcome
<1>8. ASSUME c \in DOMAIN notes, x.amount <= notes[c].amount,
             req' = [req EXCEPT ![r].pc = "chain", ![r].todo = x.selected]
      PROVE  Outcome(r)
  <2> DEFINE new == [x EXCEPT !.pc = "chain", !.todo = x.selected]
  <2>1. req' = [req EXCEPT ![r] = new]
    BY <1>2, <1>8
  <2>2. Range(x.selected) = {c}
    BY <1>1, <1>2 DEF RequestOK
  <2>3. Worth(notes, {c}) = notes[c].amount
    <3> HIDE DEF c, x
    <3>1. Valued(notes, {c})
      BY <1>2, <1>8, FS_Singleton DEF Valued
    <3>2. {c} \ {c} = {} /\ c \in {c} /\ {} \in SUBSET {c} OBVIOUS
    <3>3. Worth(notes, {c}) = notes[c].amount + Worth(notes, {})
      BY <3>1, <3>2, WorthFacts
    <3>4. Valued(notes, {})
      BY <3>1, <3>2, WorthFacts
    <3>5. Worth(notes, {}) = 0
      BY <3>4, WorthFacts
    <3> QED BY <1>2, <1>8, <3>3, <3>5
  <2>4. x.amount <= Worth(notes, Range(x.selected))
    BY <1>8, <2>2, <2>3
  <2> HIDE DEF x
  <2>5. new \in Request
    BY <1>2 DEF Request
  <2>6. /\ new.pc = "chain" /\ new.todo = x.selected /\ new.selected = x.selected
        /\ new.kind = x.kind /\ new.deposit = x.deposit /\ new.amount = x.amount
        /\ new.answer = x.answer /\ new.due = x.due /\ new.sync = x.sync
    BY <1>2 DEF Request
  <2> HIDE DEF new
  <2>7. LoopOK(new, adapter, owners')
    BY <2>6 DEF LoopOK
  <2>8. (new.pc = "check" <=> new.sync)
    BY <1>5, <2>6
  <2>9. Range(new.selected) = {Head(new.selected)}
    BY <2>2, <2>6 DEF x
  <2>10. UNCHANGED <<notes, spent>>
    BY <1>1 DEF storage
  <2> QED BY <1>1, <1>3, <1>4, <2>1, <2>4, <2>5, <2>6, <2>7, <2>8, <2>9, <2>10, ReadOutcome DEF x
<1> QED BY <1>7, <1>8 DEF LoadNote

(***************************************************************************)
(* getBalance reads the list.                                              *)
(***************************************************************************)
LEMMA ReadOwnedOutcome ==
  ASSUME CInv, NEW r \in Requests, ReadOwned(r)
  PROVE  Outcome(r)
<1> DEFINE x == req[r]
<1>1. /\ x.pc = "owned" /\ UNCHANGED <<storage, salts, chain, past, overlap>>
      /\ UNCHANGED faults \/ Fault
  BY DEF ReadOwned, StorageFault
<1>2. /\ x \in Request /\ BookOK(x, past[r], notes, spent) /\ salts \in Nat
      /\ DOMAIN req = Requests /\ owners \in [Owners -> Seq(Commitments)]
  BY AtRequest
<1>3. Around(r)
  BY <1>1, <1>2, StillAround
<1>4. ~x.sync /\ x.kind = "transfer" /\ x.owner \in Owners /\ x.todo \in Seq(Commitments)
  BY <1>1, <1>2, NothingHeld DEF BookOK, Request
<1>5. PICK todo \in Seq(Commitments) :
        /\ adapter = "local" => todo = owners[x.owner]
        /\ req' = [req EXCEPT ![r].pc = "scan", ![r].todo = todo]
  <2>1. CASE req' = [req EXCEPT ![r].pc = "scan", ![r].todo = owners[x.owner]]
    BY <1>2, <1>4, <2>1
  <2>2. CASE Goto(r, "scan") /\ StorageFault
    <3>1. req' = [req EXCEPT ![r].pc = "scan", ![r].todo = x.todo]
      BY <1>2, <2>2 DEF Goto, Request
    <3> QED BY <1>4, <2>2, <3>1 DEF StorageFault
  <2> QED BY <2>1, <2>2 DEF ReadOwned
<1> DEFINE new == [x EXCEPT !.pc = "scan", !.todo = todo]
<1>6. req' = [req EXCEPT ![r] = new]
  BY <1>2, <1>5
<1> HIDE DEF x
<1>7. new \in Request
  BY <1>2, <1>5 DEF Request
<1>8. /\ new.pc = "scan" /\ new.todo = todo /\ new.owner = x.owner
      /\ new.kind = x.kind /\ new.deposit = x.deposit /\ new.amount = x.amount
      /\ new.answer = x.answer /\ new.due = x.due /\ new.sync = x.sync
  BY <1>2 DEF Request
<1> HIDE DEF new
<1>9. LoopOK(new, adapter, owners')
  <2>1. owners' = owners BY <1>1 DEF storage
  <2> QED BY <1>5, <1>8, <2>1 DEF LoopOK
<1>10. (new.pc = "check" <=> new.sync) /\ UNCHANGED <<notes, spent>>
       /\ past'[r].spends = past[r].spends
  BY <1>1, <1>4, <1>8 DEF storage
<1> QED BY <1>1, <1>3, <1>4, <1>6, <1>7, <1>8, <1>9, <1>10, ReadOutcome DEF x

(***************************************************************************)
(* What the scan has left, the note at hand first.                         *)
(***************************************************************************)
LEMMA ToVisitFacts ==
  ASSUME CInv, NEW r \in Requests, req[r].pc = "scan", req[r].todo # << >>
  PROVE  /\ ToVisit(r) \in Seq(Commitments) /\ ToVisit(r) # << >>
         /\ Tail(ToVisit(r)) \in Seq(Commitments)
         /\ Head(ToVisit(r)) = Head(req[r].todo)
         /\ adapter = "local" => Range(ToVisit(r)) \subseteq Range(owners[req[r].owner])
<1> DEFINE x == req[r]
           list == owners[x.owner]
<1>1. x \in Request /\ LoopOK(x, adapter, owners) /\ owners \in [Owners -> Seq(Commitments)]
  BY AtRequest
<1>2. x.todo \in Seq(Commitments) /\ x.todo # << >> /\ list \in Seq(Commitments)
  BY <1>1 DEF Request
<1>3. CASE adapter # "local"
  <2>1. ToVisit(r) = x.todo BY <1>3 DEF ToVisit
  <2> QED BY <1>2, <1>3, <2>1
<1>4. CASE adapter = "local"
  <2> DEFINE c == Head(x.todo)
             at == CHOOSE i \in DOMAIN list : list[i] = c
             left == SubSeq(list, at, Len(list))
  <2>1. c \in Range(x.todo) BY <1>2, HeadAndTail
  <2>2. c \in Range(list) BY <1>1, <1>4, <2>1 DEF LoopOK
  <2>3. at \in DOMAIN list /\ list[at] = c
    <3>1. \E i \in DOMAIN list : list[i] = c BY <2>2 DEF Range
    <3> QED BY <3>1
  <2>4. ToVisit(r) = left
    BY <1>4 DEF ToVisit
  <2> HIDE DEF list, c, at, x
  <2>5. /\ DOMAIN list = 1..Len(list) /\ Len(list) \in Nat
        /\ \A i \in 1..Len(list) : list[i] \in Commitments
    BY <1>2
  <2>6. at \in 1..Len(list) BY <2>3, <2>5
  <2>7. /\ left = [i \in 1..(Len(list) - at + 1) |-> list[at + i - 1]]
        /\ Len(list) - at + 1 \in Nat /\ Len(list) - at + 1 >= 1
    BY <1>2, <2>5, <2>6
  <2>8. \A i \in 1..(Len(list) - at + 1) : at + i - 1 \in 1..Len(list)
    BY <2>5, <2>6
  <2>9. left \in Seq(Commitments) /\ Len(left) >= 1 /\ left # << >>
    <3> DEFINE n == Len(list) - at + 1
               f(i) == list[at + i - 1]
    <3>1. n \in Nat /\ n >= 1 /\ \A i \in 1..n : f(i) \in Commitments
      BY <2>5, <2>7, <2>8
    <3> HIDE DEF n, f
    <3>2. [i \in 1..n |-> f(i)] \in Seq(Commitments) /\ Len([i \in 1..n |-> f(i)]) = n
      BY <3>1
    <3>3. left = [i \in 1..n |-> f(i)] BY <2>7 DEF n, f
    <3> HIDE DEF left
    <3>4. left # << >> BY <3>1, <3>2, <3>3
    <3> QED BY <3>1, <3>2, <3>3, <3>4
  <2>10. Range(left) \subseteq Range(list)
    BY <2>5, <2>7, <2>8 DEF Range
  <2>11. left[1] = c
    <3>1. 1 \in 1..(Len(list) - at + 1) /\ at + 1 - 1 = at BY <2>5, <2>6, <2>7
    <3> QED BY <2>3, <2>7, <3>1
  <2> HIDE DEF left
  <2>12. Tail(left) \in Seq(Commitments) /\ Head(left) = c
    BY <2>9, <2>11
  <2> QED BY <2>4, <2>9, <2>10, <2>12 DEF list, c, x
<1> QED BY <1>3, <1>4

(***************************************************************************)
(* The scan goes on.                                                       *)
(***************************************************************************)
LEMMA ScanNoteOutcome ==
  ASSUME CInv, NEW r \in Requests, ScanNote(r)
  PROVE  Outcome(r)
<1> DEFINE x == req[r]
           c == Head(x.todo)
           left == Tail(ToVisit(r))
<1>1. /\ x.pc = "scan" /\ x.todo # << >> /\ UNCHANGED <<storage, salts, chain, overlap>>
      /\ UNCHANGED past \/ \E d, seen : SeenSpent(r, d, seen)
      /\ UNCHANGED faults \/ Fault
  BY DEF ScanNote, SeenSpent, StorageFault
<1>2. /\ x \in Request /\ BookOK(x, past[r], notes, spent) /\ salts \in Nat
      /\ DOMAIN req = Requests /\ DOMAIN notes \subseteq 1..salts
  BY AtRequest
<1>3. Around(r)
  BY <1>1, <1>2, StillAround
<1>4. past'[r].spends = past[r].spends /\ ~x.sync /\ x.kind = "transfer"
  BY <1>1, <1>2, HistoryKept, NothingHeld DEF BookOK
<1>5. /\ left \in Seq(Commitments)
      /\ adapter = "local" => Range(left) \subseteq Range(owners[x.owner])
  <2>1. /\ ToVisit(r) \in Seq(Commitments) /\ ToVisit(r) # << >>
        /\ adapter = "local" => Range(ToVisit(r)) \subseteq Range(owners[x.owner])
    BY <1>1, ToVisitFacts
  <2> QED BY <2>1, HeadAndTail
<1>6. x.selected \in Seq(Commitments)
  BY <1>2 DEF Request
<1>7. PICK sel \in Seq(Commitments) :
        req' = [req EXCEPT ![r].todo = left, ![r].selected = sel]
  <2>1. CASE req' = [req EXCEPT ![r].todo = left]
    <3>1. req' = [req EXCEPT ![r].todo = left, ![r].selected = x.selected]
      BY <1>2, <2>1 DEF Request
    <3> QED BY <1>6, <3>1
  <2>2. ASSUME c \in DOMAIN notes, NEW seen \in BOOLEAN,
               req' = [req EXCEPT ![r].todo = left,
                                  ![r].selected = IF seen THEN @ ELSE Append(@, c)]
        PROVE  \E s \in Seq(Commitments) :
                 req' = [req EXCEPT ![r].todo = left, ![r].selected = s]
    <3> DEFINE s == IF seen THEN x.selected ELSE Append(x.selected, c)
    <3>1. c \in Commitments BY <1>2, <2>2 DEF Commitments
    <3>2. s \in Seq(Commitments) BY <1>6, <3>1
    <3>3. req' = [req EXCEPT ![r].todo = left, ![r].selected = s]
      BY <2>2
    <3> QED BY <3>2, <3>3
  <2> QED BY <2>1, <2>2 DEF ScanNote
<1> DEFINE new == [x EXCEPT !.todo = left, !.selected = sel]
<1>8. req' = [req EXCEPT ![r] = new]
  BY <1>2, <1>7
<1> HIDE DEF x, left
<1>9. new \in Request
  BY <1>2, <1>5, <1>7 DEF Request
<1>10. /\ new.pc = "scan" /\ new.todo = left /\ new.owner = x.owner
       /\ new.kind = x.kind /\ new.deposit = x.deposit /\ new.amount = x.amount
       /\ new.answer = x.answer /\ new.due = x.due /\ new.sync = x.sync
  BY <1>1, <1>2 DEF Request
<1> HIDE DEF new
<1>11. LoopOK(new, adapter, owners')
  <2>1. owners' = owners BY <1>1 DEF storage
  <2> QED BY <1>5, <1>10, <2>1 DEF LoopOK
<1>12. (new.pc = "check" <=> new.sync) /\ UNCHANGED <<notes, spent>>
  BY <1>1, <1>4, <1>10 DEF storage
<1> QED BY <1>1, <1>3, <1>4, <1>8, <1>9, <1>10, <1>11, <1>12, ReadOutcome DEF x

(***************************************************************************)
(* selectNotes: the notes taken cover the amount.                          *)
(***************************************************************************)
LEMMA SelectNotesOutcome ==
  ASSUME CInv, NEW r \in Requests, SelectNotes(r)
  PROVE  Outcome(r)
<1> DEFINE x == req[r]
<1>1. x.pc = "scan" /\ UNCHANGED <<storage, salts, chain, past, overlap, faults>>
  BY DEF SelectNotes
<1>2. /\ x \in Request /\ BookOK(x, past[r], notes, spent) /\ salts \in Nat
      /\ RequestOK(x, past[r], notes, spent, salts) /\ DOMAIN req = Requests
      /\ DOMAIN notes \subseteq 1..salts
      /\ \A d \in DOMAIN notes : notes[d].amount \in Nat
  BY AtRequest
<1>3. Around(r)
  BY <1>1, <1>2, StillAround
<1>4. /\ Held(x, past[r], notes) = 0 /\ Earned(x) = 0 /\ ~x.sync /\ x.kind = "transfer"
      /\ past'[r].spends = past[r].spends
  BY <1>1, <1>2, NothingHeld DEF BookOK
<1>5. BookNow' = BookNow /\ BookNow \in Nat
  BY <1>1, ValueTypes DEF storage, BookNow
<1>6. x.selected \in Seq(Nat) /\ Range(x.selected) \subseteq DOMAIN notes /\ x.amount \in Nat
  BY <1>1, <1>2 DEF RequestOK, Request
<1>7. CASE Reply(r, "refused")
  BY <1>3, <1>4, <1>5, <1>7, ReplyOutcome
<1>8. ASSUME NEW list \in Selections(x.selected, x.amount),
             ~(Total(Range(x.selected)) < x.amount),
             req' = [req EXCEPT ![r].pc = "chain", ![r].selected = list, ![r].todo = list]
      PROVE  Outcome(r)
  <2> DEFINE new == [x EXCEPT !.pc = "chain", !.selected = list, !.todo = list]
  <2>1. req' = [req EXCEPT ![r] = new]
    BY <1>2, <1>8
  <2>2. \A c \in Range(x.selected) : notes[c].amount \in Nat
    BY <1>2, <1>6
  <2>3. x.amount <= Worth(notes, Range(x.selected))
    <3>1. Valued(notes, Range(x.selected))
      BY <1>6, <2>2, ListFinite
    <3>2. Worth(notes, Range(x.selected)) \in Nat
      BY <3>1, WorthFacts
    <3> QED BY <1>6, <1>8, <3>2, WorthNames
  <2>4. x.amount <= Worth(notes, Range(list))
    BY <1>6, <1>8, <2>2, <2>3, SelectionCovers
  <2>5. list \in Seq(Commitments)
    <3>1. list \in Seq(Nat) /\ Range(list) \subseteq Range(x.selected)
      BY <1>6, <1>8, SelectionsAreNotes
    <3>2. list \in Seq(Range(list)) BY <3>1, OwnElements
    <3>3. Range(list) \subseteq Commitments
      BY <1>2, <1>6, <3>1 DEF Commitments
    <3> QED BY <3>2, <3>3
  <2> HIDE DEF x
  <2>6. new \in Request
    BY <1>2, <2>5 DEF Request
  <2>7. /\ new.pc = "chain" /\ new.todo = list /\ new.selected = list
        /\ new.kind = x.kind /\ new.deposit = x.deposit /\ new.amount = x.amount
        /\ new.answer = x.answer /\ new.due = x.due /\ new.sync = x.sync
    BY <1>2 DEF Request
  <2> HIDE DEF new
  <2>8. LoopOK(new, adapter, owners')
    BY <2>7 DEF LoopOK
  <2>9. (new.pc = "check" <=> new.sync) /\ UNCHANGED <<notes, spent>>
    BY <1>1, <1>4, <2>7 DEF storage
  <2> QED BY <1>1, <1>3, <1>4, <2>1, <2>4, <2>6, <2>7, <2>8, <2>9, ReadOutcome DEF x
<1> QED BY <1>7, <1>8 DEF SelectNotes

(***************************************************************************)
(* The cross-check with the pool.                                          *)
(***************************************************************************)
LEMMA CheckChainOutcome ==
  ASSUME CInv, NEW r \in Requests, CheckChain(r)
  PROVE  Outcome(r)
<1> DEFINE x == req[r]
           c == Head(x.todo)
           a == [x EXCEPT !.pc = "check", !.sync = TRUE, !.todo = <<c>>]
           b == [x EXCEPT !.todo = Tail(x.todo)]
<1>1. /\ x.pc = "chain" /\ x.todo # << >>
      /\ UNCHANGED <<storage, salts, chain, past, overlap, faults>>
  BY DEF CheckChain
<1>2. /\ x \in Request /\ BookOK(x, past[r], notes, spent) /\ salts \in Nat
      /\ LoopOK(x, adapter, owners) /\ DOMAIN req = Requests
  BY AtRequest
<1>3. Around(r)
  BY <1>1, <1>2, StillAround
<1>4. /\ ~x.sync /\ past'[r].spends = past[r].spends
      /\ x.amount <= Worth(notes, Range(x.selected))
      /\ x.kind = "unshield" => Range(x.selected) = {Head(x.selected)}
      /\ Range(x.todo) \subseteq Range(x.selected)
      /\ UNCHANGED <<notes, spent>>
  BY <1>1, <1>2, NothingHeld DEF BookOK, LoopOK, storage
<1>5. /\ c \in Range(x.todo) /\ c \in Commitments /\ << c >> \in Seq(Commitments)
      /\ Range(<< c >>) = {c}
      /\ Tail(x.todo) \in Seq(Commitments) /\ Range(Tail(x.todo)) \subseteq Range(x.todo)
  <2>1. x.todo \in Seq(Commitments) BY <1>2 DEF Request
  <2>2. c \in Commitments BY <1>1, <2>1
  <2>3. Range(<< c >>) = {c} BY DEF Range
  <2>4. << c >> \in Seq(Commitments) BY <2>2
  <2> HIDE DEF x
  <2>5. Tail(x.todo) \in Seq(Commitments) /\ Range(x.todo) = {c} \cup Range(Tail(x.todo))
    BY <1>1, <2>1, HeadAndTail
  <2> QED BY <2>2, <2>3, <2>4, <2>5
<1>6. req' = [req EXCEPT ![r] = IF c \in nullified THEN a ELSE b]
  BY <1>2 DEF CheckChain
<1> HIDE DEF x, c
<1>7. a \in Request /\ b \in Request
  BY <1>2, <1>5 DEF Request
<1>8. /\ a.pc = "check" /\ a.todo = << c >> /\ a.sync /\ a.selected = x.selected
      /\ a.kind = x.kind /\ a.deposit = x.deposit /\ a.amount = x.amount
      /\ a.answer = x.answer /\ a.due = x.due
      /\ b.pc = "chain" /\ b.todo = Tail(x.todo) /\ b.sync = x.sync /\ b.selected = x.selected
      /\ b.kind = x.kind /\ b.deposit = x.deposit /\ b.amount = x.amount
      /\ b.answer = x.answer /\ b.due = x.due
  BY <1>1, <1>2 DEF Request
<1> HIDE DEF a, b
<1>9. LoopOK(a, adapter, owners') /\ LoopOK(b, adapter, owners')
  BY <1>4, <1>5, <1>8 DEF LoopOK
<1>10. CASE c \in nullified
  <2>1. req' = [req EXCEPT ![r] = a] BY <1>6, <1>10
  <2> QED BY <1>1, <1>3, <1>4, <1>7, <1>8, <1>9, <2>1, ReadOutcome DEF x
<1>11. CASE c \notin nullified
  <2>1. req' = [req EXCEPT ![r] = b] BY <1>6, <1>11
  <2> QED BY <1>1, <1>3, <1>4, <1>7, <1>8, <1>9, <2>1, ReadOutcome DEF x
<1> QED BY <1>10, <1>11

(***************************************************************************)
(* The notes of a transfer: they are worth what it spends.                 *)
(***************************************************************************)
LEMMA NewNotesFacts ==
  ASSUME CInv, NEW r \in Requests, req[r].pc = "chain"
  PROVE  /\ NewNotes(r) \in Seq(Note) /\ Len(NewNotes(r)) \in {1, 2}
         /\ Owed(NewNotes(r)) = Worth(notes, Range(req[r].selected))
<1> DEFINE x == req[r]
           w == Worth(notes, Range(x.selected))
           a == NoteOf(x.to, x.amount)
           b == NoteOf(x.owner, Change(r))
<1>1. /\ x \in Request /\ BookOK(x, past[r], notes, spent)
      /\ RequestOK(x, past[r], notes, spent, salts)
      /\ \A d \in DOMAIN notes : notes[d].amount \in Nat
  BY AtRequest
<1>2. x.to \in Owners /\ x.owner \in Owners /\ x.amount \in Nat /\ x.amount <= w
  BY <1>1 DEF Request, BookOK
<1>3. w \in Nat
  <2>1. x.selected \in Seq(Nat) /\ Range(x.selected) \subseteq DOMAIN notes
    BY <1>1, SelectedStored
  <2>2. Valued(notes, Range(x.selected))
    BY <1>1, <2>1, ListFinite
  <2> QED BY <2>2, WorthFacts
<1>4. Change(r) = w - x.amount
  BY WorthNames DEF Change, NotesSignedBy
<1> HIDE DEF x, w
<1>5. Change(r) \in Nat /\ x.amount + Change(r) = w
  BY <1>2, <1>3, <1>4
<1>6. a \in Note /\ b \in Note /\ a.amount = x.amount /\ b.amount = Change(r)
  BY <1>2, <1>5 DEF Note, NoteOf
<1>7. NewNotes(r) = << a >> \o (IF Change(r) > 0 THEN << b >> ELSE << >>)
  BY DEF NewNotes, x
<1> HIDE DEF a, b
<1>8. << a >> \in Seq(Note) /\ << b >> \in Seq(Note) /\ << >> \in Seq(Note)
      /\ Len(<< a >>) = 1 /\ Len(<< b >>) = 1 /\ Len(<< >>) = 0
      /\ << a >>[1] = a /\ << b >>[1] = b
  BY <1>6
<1>9. CASE Change(r) > 0
  <2>1. NewNotes(r) = << a >> \o << b >> BY <1>7, <1>9
  <2>2. /\ NewNotes(r) \in Seq(Note) /\ Len(NewNotes(r)) = 2 /\ DOMAIN NewNotes(r) = 1..2
        /\ NewNotes(r)[1] = a /\ NewNotes(r)[2] = b
    BY <1>8, <2>1
  <2>3. 1 \in DOMAIN NewNotes(r) /\ 2 \in DOMAIN NewNotes(r)
    BY <2>2
  <2>4. Owed(NewNotes(r)) = x.amount + Change(r)
    BY <1>6, <2>2, <2>3 DEF Owed
  <2> QED BY <1>5, <2>2, <2>4 DEF w, x
<1>10. CASE ~(Change(r) > 0)
  <2>1. NewNotes(r) = << a >> \o << >> BY <1>7, <1>10
  <2>2. /\ NewNotes(r) \in Seq(Note) /\ Len(NewNotes(r)) = 1 /\ DOMAIN NewNotes(r) = 1..1
        /\ NewNotes(r)[1] = a
    BY <1>8, <2>1
  <2>3. 1 \in DOMAIN NewNotes(r) /\ 2 \notin DOMAIN NewNotes(r)
    BY <2>2
  <2>4. Owed(NewNotes(r)) = x.amount + 0
    BY <1>6, <2>2, <2>3 DEF Owed
  <2>5. Change(r) = 0 BY <1>5, <1>10
  <2> QED BY <1>5, <2>2, <2>4, <2>5 DEF w, x
<1> QED BY <1>9, <1>10

(***************************************************************************)
(* The params are built: what is due is worth what is about to be marked.  *)
(***************************************************************************)
LEMMA BuildParamsOutcome ==
  ASSUME CInv, NEW r \in Requests, BuildParams(r)
  PROVE  Outcome(r)
<1> DEFINE x == req[r]
           n == IF x.kind = "transfer" THEN Len(NewNotes(r)) ELSE 0
           built == [i \in 1..n |-> salts + i]
           due == IF n = 0 THEN << >> ELSE NewNotes(r)
           new == [x EXCEPT !.pc = "check", !.todo = x.selected, !.built = built,
                            !.due = due]
<1>1. /\ x.pc = "chain" /\ UNCHANGED <<storage, chain, past, overlap, faults>>
      /\ salts' = salts + n
  BY DEF BuildParams
<1>2. /\ x \in Request /\ BookOK(x, past[r], notes, spent) /\ salts \in Nat
      /\ DOMAIN req = Requests
  BY AtRequest
<1>3. req' = [req EXCEPT ![r] = new]
  BY <1>2 DEF BuildParams
<1>4. /\ NewNotes(r) \in Seq(Note) /\ Len(NewNotes(r)) \in {1, 2}
      /\ Owed(NewNotes(r)) = Worth(notes, Range(x.selected))
  BY <1>1, NewNotesFacts
<1>5. /\ n \in Nat /\ due \in Seq(Note) /\ Len(due) <= 2
      /\ x.kind = "transfer" => Owed(due) = Worth(notes, Range(x.selected))
      /\ x.kind # "transfer" => due = << >>
  <2>1. << >> \in Seq(Note) /\ Len(<< >>) <= 2 OBVIOUS
  <2>2. CASE x.kind = "transfer"
    <3>1. n = Len(NewNotes(r)) BY <2>2
    <3> HIDE DEF n
    <3>2. n # 0 BY <1>4, <3>1
    <3>3. due = NewNotes(r) BY <3>2
    <3> HIDE DEF due, x
    <3> QED BY <1>4, <2>2, <3>1, <3>3
  <2>3. CASE x.kind # "transfer"
    <3>1. n = 0 /\ due = << >> BY <2>3
    <3> HIDE DEF due, n, x
    <3> QED BY <2>1, <2>3, <3>1
  <2> QED BY <2>2, <2>3
<1>6. salts' \in Nat /\ salts <= salts'
  BY <1>1, <1>2, <1>5
<1>7. Around(r)
  BY <1>1, <1>6, StillAround
<1>8. /\ ~x.sync /\ past[r].spends = {} /\ x.answer = "none"
      /\ x.kind \in {"unshield", "transfer"}
      /\ x.amount <= Worth(notes, Range(x.selected))
      /\ x.kind = "unshield" => Range(x.selected) = {Head(x.selected)}
      /\ Held(x, past[r], notes) = 0 /\ Earned(x) = 0
      /\ past'[r] = past[r] /\ UNCHANGED <<notes, spent>>
  BY <1>1, <1>2, NothingHeld DEF BookOK, storage
<1> HIDE DEF n, due
<1>9. built \in Seq(Commitments)
  <2> DEFINE f(i) == salts + i
  <2>1. \A i \in 1..n : f(i) \in Commitments BY <1>2, <1>5 DEF Commitments
  <2> HIDE DEF f
  <2>2. [i \in 1..n |-> f(i)] \in Seq(Commitments) BY <1>5, <2>1
  <2> QED BY <2>2 DEF f
<1> HIDE DEF built, x
<1>10. new \in Request
  <2>1. x.selected \in Seq(Commitments) /\ due \in Seq([owner : Owners, amount : Nat])
    BY <1>2, <1>5 DEF Request, Note
  <2> QED BY <1>2, <1>9, <2>1 DEF Request
<1>11. /\ new.pc = "check" /\ new.todo = x.selected /\ new.selected = x.selected
       /\ new.kind = x.kind /\ new.deposit = x.deposit /\ new.amount = x.amount
       /\ new.answer = x.answer /\ new.due = due /\ new.sync = x.sync
  BY <1>2 DEF Request
<1> HIDE DEF new
<1>12. LoopOK(new, adapter, owners')
  BY <1>11 DEF LoopOK
<1>13. BookOK(new, past'[r], notes', spent')
  BY <1>5, <1>8, <1>11 DEF BookOK
<1>14. Moves(r, new)
  BY <1>3, <1>7, <1>10, <1>12, <1>13 DEF Moves
<1>15. Worth(notes, {}) = 0
  <2>1. {} \in SUBSET DOMAIN notes OBVIOUS
  <2>2. Valued(notes, {}) BY <2>1, ValueTypes, WorthFacts
  <2> QED BY <2>2, WorthFacts
<1>16. Held(new, past'[r], notes) = 0 /\ Earned(new) = 0
  BY <1>8, <1>11, <1>15 DEF Held, Earned, Creating
<1> QED BY <1>1, <1>8, <1>11, <1>14, <1>16, QuietOutcome DEF Follows, x

(***************************************************************************)
(* spendNote, first half: a note that is spent ends the request.           *)
(***************************************************************************)
LEMMA CheckSpentOutcome ==
  ASSUME CInv, NEW r \in Requests, CheckSpent(r)
  PROVE  Outcome(r)
<1> DEFINE x == req[r]
           c == Head(x.todo)
<1>1. /\ x.pc = "check" /\ x.todo # << >> /\ UNCHANGED <<storage, salts, chain, overlap>>
      /\ UNCHANGED past \/ \E d, seen : SeenSpent(r, d, seen)
      /\ UNCHANGED faults \/ Fault
  BY DEF CheckSpent, SeenSpent, StorageFault
<1>2. /\ x \in Request /\ BookOK(x, past[r], notes, spent) /\ salts \in Nat
      /\ LoopOK(x, adapter, owners) /\ DOMAIN req = Requests
      /\ RequestOK(x, past[r], notes, spent, salts)
  BY AtRequest
<1>3. Around(r)
  BY <1>1, <1>2, StillAround
<1>4. past'[r].spends = past[r].spends /\ UNCHANGED <<notes, spent>>
  BY <1>1, HistoryKept DEF storage
<1>5. BookNow' = BookNow /\ BookNow \in Nat /\ Held(x, past[r], notes) \in Nat
  BY <1>4, ValueTypes DEF BookNow
<1>6. PICK seen \in BOOLEAN :
        SeenSpent(r, c, seen) /\ IF seen THEN Reply(r, "refused") ELSE Goto(r, "mark")
  BY DEF CheckSpent
<1>7. CASE seen
  <2>1. c \in spent /\ Reply(r, "refused") BY <1>6, <1>7 DEF SeenSpent
  <2>2. BookNow' \in Nat /\ BookNow' <= BookNow + Held(x, past[r], notes)
    BY <1>5
  <2> QED BY <1>1, <1>3, <2>1, <2>2, ReplyOutcome
<1>8. CASE ~seen
  <2> DEFINE new == [x EXCEPT !.pc = "mark"]
  <2>1. req' = [req EXCEPT ![r] = new]
    BY <1>2, <1>6, <1>8 DEF Goto
  <2> HIDE DEF x
  <2>2. new \in Request
    BY <1>2 DEF Request
  <2>3. /\ new.pc = "mark" /\ new.todo = x.todo /\ new.selected = x.selected
        /\ new.kind = x.kind /\ new.deposit = x.deposit /\ new.amount = x.amount
        /\ new.answer = x.answer /\ new.due = x.due /\ new.sync = x.sync
    BY <1>2 DEF Request
  <2> HIDE DEF new
  <2>4. LoopOK(new, adapter, owners')
    BY <1>1, <1>2, <2>3 DEF LoopOK, x
  <2>5. BookOK(new, past'[r], notes', spent')
    BY <1>1, <1>2, <1>4, <2>3 DEF BookOK, x
  <2>6. Moves(r, new)
    BY <1>3, <2>1, <2>2, <2>4, <2>5 DEF Moves
  <2>7. Held(new, past'[r], notes) = Held(x, past[r], notes) /\ Earned(new) = Earned(x)
    BY <1>1, <1>4, <2>3 DEF Held, Earned, Creating, x
  <2> QED BY <1>1, <1>4, <2>3, <2>6, <2>7, QuietOutcome DEF Follows, x
<1> QED BY <1>7, <1>8

(***************************************************************************)
(* A mark takes a note out of the book, and adds it to those that its      *)
(* request holds, unless another request had marked it.                    *)
(***************************************************************************)
LEMMA MarkValue ==
  ASSUME CInv, NEW r \in Requests, req[r].pc = "mark", Mark(r), notes' = notes
  PROVE  /\ BookNow \in Nat /\ BookNow' \in Nat /\ BookNow' <= BookNow
         /\ spent' \subseteq DOMAIN notes'
         /\ Head(req[r].todo) \in Commitments
         /\ ~req[r].sync /\ (Head(req[r].todo) \notin spent \/ ConsumedOnce') =>
              BookNow' + Worth(notes, past'[r].spends) = BookNow + Worth(notes, past[r].spends)
<1> DEFINE x == req[r]
           c == Head(x.todo)
           T == DOMAIN notes \ spent
           p == past[r].spends
           U == p \cup {c}
<1>1. /\ x \in Request /\ LoopOK(x, adapter, owners) /\ BookOK(x, past[r], notes, spent)
      /\ RequestOK(x, past[r], notes, spent, salts) /\ spent \subseteq DOMAIN notes
  BY AtRequest
<1>2. x.todo \in Seq(Commitments) /\ x.todo # << >>
  BY <1>1 DEF Request, LoopOK
<1>3. c \in Range(x.todo) /\ c \in Commitments
  BY <1>2, HeadAndTail
<1>4. c \in DOMAIN notes
  <2>1. Range(x.todo) \subseteq Range(x.selected) BY <1>1 DEF LoopOK
  <2>2. Range(x.selected) \subseteq DOMAIN notes BY <1>1, SelectedStored
  <2> QED BY <1>3, <2>1, <2>2
<1>5. /\ spent' = spent \cup {c} /\ past'[r].spends = U
      /\ \A q \in Requests \ {r} : past'[q] = past[q]
  <2> HIDE DEF p
  <2> QED BY <1>3, HistoryMarked DEF Mark, p
<1>6. DOMAIN notes' \ spent' = T \ {c} /\ T \in SUBSET DOMAIN notes /\ T \ {c} \in SUBSET T
  BY <1>5
<1>7. BookNow = Worth(notes, T) /\ BookNow' = Worth(notes, T \ {c})
  BY <1>6 DEF BookNow
<1> HIDE DEF T
<1>8. Valued(notes, DOMAIN notes) /\ Valued(notes, T)
  BY <1>6, ValueTypes, WorthFacts
<1>9. Worth(notes, T) \in Nat /\ Worth(notes, T \ {c}) \in Nat
      /\ Worth(notes, T \ {c}) <= Worth(notes, T)
  BY <1>6, <1>8, WorthFacts
<1>10. ASSUME ~x.sync, c \notin spent \/ ConsumedOnce'
       PROVE  BookNow' + Worth(notes, U) = BookNow + Worth(notes, p)
  <2>1. p \subseteq spent
    BY <1>1, <1>10 DEF BookOK
  <2>2. p \in SUBSET DOMAIN notes /\ U \in SUBSET DOMAIN notes
    BY <1>1, <1>4, <2>1
  <2>3. Valued(notes, U) /\ Worth(notes, p) \in Nat
    <3> HIDE DEF U, p
    <3> QED BY <1>8, <2>2, WorthFacts
  <2>4. CASE c \notin spent
    <3>1. c \in T /\ c \in U /\ U \ {c} = p
      BY <1>4, <2>1, <2>4 DEF T
    <3>2. notes[c].amount \in Nat BY <1>4, <1>8 DEF Valued
    <3> HIDE DEF U, p, c
    <3>3. Worth(notes, T) = notes[c].amount + Worth(notes, T \ {c})
      BY <1>8, <3>1, WorthFacts
    <3>4. Worth(notes, U) = notes[c].amount + Worth(notes, U \ {c})
      BY <2>3, <3>1, WorthFacts
    <3>5. Worth(notes, U \ {c}) = Worth(notes, p)
      BY <3>1
    <3> QED BY <1>7, <1>9, <2>3, <3>2, <3>3, <3>4, <3>5
  <2>5. CASE c \in spent
    <3>1. ConsumedOnce' BY <1>10, <2>5
    <3>2. PICK q \in Requests : c \in past[q].spends
      BY <2>5 DEF CInv, BookInv
    <3>3. q = r
      <4> SUFFICES ASSUME q # r PROVE FALSE
        OBVIOUS
      <4>1. past'[q].spends \cap past'[r].spends = {}
        BY <3>1 DEF ConsumedOnce
      <4>2. c \in past'[q].spends /\ c \in past'[r].spends
        BY <1>5, <3>2
      <4> QED BY <4>1, <4>2
    <3>4. U = p BY <3>2, <3>3
    <3>5. T \ {c} = T BY <2>5 DEF T
    <3> QED BY <1>7, <3>4, <3>5
  <2> QED BY <2>4, <2>5
<1>11. spent' \subseteq DOMAIN notes'
  BY <1>1, <1>4, <1>5
<1> QED BY <1>3, <1>5, <1>7, <1>9, <1>10, <1>11

(***************************************************************************)
(* spendNote, second half: what is marked is what the request holds, until *)
(* the new notes are due or the signature is out.                          *)
(***************************************************************************)
LEMMA MarkSpentOutcome ==
  ASSUME CInv, NEW r \in Requests, MarkSpent(r)
  PROVE  Outcome(r)
<1> DEFINE x == req[r]
           c == Head(x.todo)
           w == Worth(notes, Range(x.selected))
<1>1. /\ x.pc = "mark" /\ Mark(r)
      /\ UNCHANGED <<adapter, notes, owners, chain, overlap, faults>>
  BY DEF MarkSpent
<1>2. /\ x \in Request /\ BookOK(x, past[r], notes, spent) /\ salts \in Nat
      /\ LoopOK(x, adapter, owners) /\ DOMAIN req = Requests
      /\ RequestOK(x, past[r], notes, spent, salts)
      /\ owners \in [Owners -> Seq(Commitments)] /\ overlap \in BOOLEAN
      /\ faults \in 0..MaxFaults
  BY AtRequest
<1>3. /\ BookNow \in Nat /\ BookNow' \in Nat /\ BookNow' <= BookNow
      /\ spent' \subseteq DOMAIN notes' /\ c \in Commitments
      /\ ~x.sync /\ (c \notin spent \/ ConsumedOnce') =>
           BookNow' + Worth(notes, past'[r].spends) = BookNow + Worth(notes, past[r].spends)
  BY <1>1, MarkValue
<1>4. /\ past' \in [Requests -> Past] /\ \A q \in Requests \ {r} : past'[q] = past[q]
      /\ past'[r].spends = past[r].spends \cup {c}
      /\ spent' = spent \cup {c}
  BY <1>1, <1>3, HistoryMarked DEF Mark
<1>5. salts' \in Nat /\ salts <= salts'
  BY <1>2 DEF MarkSpent, CreateOr
<1>6. Around(r)
  <2>1. past[r].spends \subseteq past'[r].spends /\ spent \subseteq spent'
        /\ spent' \subseteq spent \cup past'[r].spends
    BY <1>4
  <2> QED BY <1>1, <1>2, <1>3, <1>4, <1>5, <2>1 DEF Around, chain
<1>7. /\ Held(x, past[r], notes) \in Nat /\ Earned(x) = 0
      /\ ~x.sync => Held(x, past[r], notes) = Worth(notes, past[r].spends)
  <2>1. x.kind \in {"unshield", "transfer"} BY <1>1, <1>2 DEF BookOK
  <2>2. Held(x, past[r], notes) \in Nat BY ValueTypes
  <2>3. ~x.sync => Held(x, past[r], notes) = Worth(notes, past[r].spends)
    BY <1>1 DEF Held
  <2> QED BY <2>1, <2>2, <2>3 DEF Earned
<1>8. CASE x.sync
  <2>1. Reply(r, "refused") BY <1>8 DEF MarkSpent
  <2>2. BookNow' <= BookNow + Held(x, past[r], notes)
    BY <1>3, <1>7
  <2> QED BY <1>1, <1>3, <1>6, <1>8, <2>1, <2>2, ReplyOutcome
<1>9. ASSUME ~x.sync
      PROVE  Outcome(r)
  <2>1. /\ x.todo \in Seq(Commitments) /\ x.todo # << >>
        /\ Range(x.todo) \subseteq Range(x.selected)
        /\ past[r].spends \subseteq spent
        /\ past[r].spends \subseteq Range(x.selected)
        /\ Range(x.selected) \subseteq past[r].spends \cup Range(x.todo)
        /\ x.amount <= w
        /\ x.kind = "transfer" => Owed(x.due) = w
        /\ x.kind = "unshield" => x.due = << >> /\ Range(x.selected) = {Head(x.selected)}
        /\ x.kind \in {"unshield", "transfer"}
        /\ Len(x.due) <= 2 /\ x.due \in Seq(Note) /\ x.amount \in Nat
    BY <1>1, <1>2, <1>9 DEF Request, LoopOK, BookOK, Note
  <2>2. Tail(x.todo) \in Seq(Commitments) /\ Range(x.todo) = {c} \cup Range(Tail(x.todo))
    BY <2>1, HeadAndTail
  <2>3. w \in Nat /\ Valued(notes, Range(x.selected))
    <3>1. x.selected \in Seq(Nat) /\ Range(x.selected) \subseteq DOMAIN notes
      BY <1>1, <1>2, SelectedStored
    <3>2. \A d \in DOMAIN notes : notes[d].amount \in Nat BY AtRequest
    <3>3. Valued(notes, Range(x.selected)) BY <3>1, <3>2, ListFinite
    <3> QED BY <3>3, WorthFacts
  <2>4. past'[r].spends \in SUBSET Range(x.selected)
    BY <1>4, <2>1, <2>2
  <2>5. Worth(notes, past'[r].spends) \in Nat /\ Worth(notes, past'[r].spends) <= w
    <3> HIDE DEF x
    <3> QED BY <2>3, <2>4, WorthFacts
  <2>6. Before(r) = BookNow + Worth(notes, past[r].spends) /\ Before(r) \in Nat
    BY <1>3, <1>7, <1>9 DEF Before
  \* What is left to show of the new variables.
  <2>7. ASSUME NEW new, Moves(r, new), Follows(r, new),
               NEW h \in Nat, Held(new, past'[r], notes) = h,
               h <= Worth(notes, past'[r].spends), Earned(new) = 0,
               Smooth(r, new) => h = Worth(notes, past'[r].spends)
        PROVE  Outcome(r)
    <3>1. After(r, new) = BookNow' + h
      BY <1>1, <2>7 DEF After
    <3>2. Loses(r, new)
      <4> SUFFICES ASSUME ConsumedOnce' PROVE After(r, new) <= Before(r)
        BY DEF Loses
      <4>1. BookNow' + Worth(notes, past'[r].spends) = Before(r)
        BY <1>3, <1>9, <2>6
      <4> QED BY <1>3, <2>5, <2>6, <2>7, <3>1, <4>1
    <3>3. Smooth(r, new) => Keeps(r, new)
      <4> SUFFICES ASSUME Smooth(r, new) PROVE Keeps(r, new)
        OBVIOUS
      <4>1. c \notin spent BY <1>1 DEF Smooth
      <4>2. BookNow' + Worth(notes, past'[r].spends) = Before(r)
        BY <1>3, <1>9, <2>6, <4>1
      <4>3. After(r, new) = Before(r)
        BY <2>7, <3>1, <4>2
      <4> QED BY <1>7, <2>6, <2>7, <4>3 DEF Keeps
    <3> QED BY <2>7, <3>2, <3>3 DEF Outcome
  <2>8. CASE Tail(x.todo) # << >>
    <3> DEFINE new == [x EXCEPT !.pc = "check", !.todo = Tail(x.todo)]
    <3>1. req' = [req EXCEPT ![r] = new]
      BY <1>2, <1>9, <2>8 DEF MarkSpent
    <3> HIDE DEF x
    <3>2. new \in Request
      BY <1>2, <2>2 DEF Request
    <3>3. /\ new.pc = "check" /\ new.todo = Tail(x.todo) /\ new.selected = x.selected
          /\ new.kind = x.kind /\ new.deposit = x.deposit /\ new.amount = x.amount
          /\ new.answer = x.answer /\ new.due = x.due /\ new.sync = x.sync
      BY <1>2 DEF Request
    <3> HIDE DEF new
    <3>4. LoopOK(new, adapter, owners')
      BY <2>1, <2>2, <3>3 DEF LoopOK
    <3>5. /\ past'[r].spends \subseteq spent'
          /\ Range(x.selected) \subseteq past'[r].spends \cup Range(Tail(x.todo))
      BY <1>4, <2>1, <2>2
    <3>6. BookOK(new, past'[r], notes', spent')
      BY <1>1, <1>2, <2>1, <2>4, <3>3, <3>5 DEF BookOK
    <3>7. Moves(r, new)
      BY <1>6, <3>1, <3>2, <3>4, <3>6 DEF Moves
    <3>8. Held(new, past'[r], notes) = Worth(notes, past'[r].spends) /\ Earned(new) = 0
      BY <1>9, <2>1, <3>3 DEF Held, Earned, x
    <3> QED BY <1>1, <2>5, <2>7, <3>3, <3>7, <3>8 DEF Follows, x
  <2>9. ASSUME Tail(x.todo) = << >>
        PROVE  past'[r].spends = Range(x.selected)
    <3>1. Range(Tail(x.todo)) = {} BY <2>9 DEF Range
    <3> QED BY <1>4, <2>1, <2>2, <2>4, <3>1
  <2>10. CASE Tail(x.todo) = << >> /\ x.due = << >>
    <3> DEFINE new == [x EXCEPT !.pc = "done", !.answer = "signed", !.todo = << >>,
                                !.due = << >>]
    <3>1. req' = [req EXCEPT ![r] = new]
      BY <1>2, <1>9, <2>10 DEF MarkSpent, CreateOr, Sign
    <3> HIDE DEF x
    <3>2. new \in Request
      <4>1. << >> \in Seq(Commitments) /\ << >> \in Seq([owner : Owners, amount : Nat])
        OBVIOUS
      <4> QED BY <1>2, <4>1 DEF Request
    <3>3. /\ new.pc = "done" /\ new.selected = x.selected
          /\ new.kind = x.kind /\ new.deposit = x.deposit /\ new.amount = x.amount
          /\ new.answer = "signed" /\ new.due = << >>
      BY <1>2 DEF Request
    <3> HIDE DEF new
    <3>4. Len(new.due) <= 2 BY <3>3
    <3>5. LoopOK(new, adapter, owners') /\ BookOK(new, past'[r], notes', spent')
      BY <3>3, <3>4 DEF LoopOK, BookOK
    <3>6. Moves(r, new)
      BY <1>6, <3>1, <3>2, <3>5 DEF Moves
    <3>7. past'[r].spends = Range(x.selected)
      BY <2>9, <2>10 DEF x
    <3>8. Earned(new) = 0 /\ Follows(r, new)
      BY <2>1, <3>3 DEF Earned, Follows, x
    <3>9. CASE x.kind = "unshield"
      <4>1. Held(new, past'[r], notes) = x.amount
        BY <3>3, <3>9 DEF Held
      <4>2. Smooth(r, new) => x.amount = w
        BY <1>1, <3>3, <3>9 DEF Smooth, x
      <4> QED BY <2>1, <2>7, <3>6, <3>7, <3>8, <4>1, <4>2 DEF x
    <3>10. CASE x.kind = "transfer"
      <4>1. Held(new, past'[r], notes) = 0
        BY <3>3, <3>10 DEF Held
      <4>2. w = 0
        <5>1. << >> \in Seq(Note) /\ Len(<< >>) <= 2 OBVIOUS
        <5>2. Owed(<< >>) = 0 BY <5>1, OwedFacts
        <5> QED BY <2>1, <2>10, <3>10, <5>2 DEF x
      <4> QED BY <2>7, <3>6, <3>7, <3>8, <4>1, <4>2 DEF x
    <3> QED BY <2>1, <3>9, <3>10 DEF x
  <2>11. CASE Tail(x.todo) = << >> /\ x.due # << >>
    <3>1. CreateOr(r, x.due, Sign(r))
      BY <1>9, <2>11 DEF MarkSpent
    <3>2. x.kind = "transfer" BY <2>1, <2>11
    <3>3. PICK new : /\ Moves(r, new) /\ Follows(r, new)
                     /\ new.pc = "put" /\ new.due = x.due
                     /\ new.kind = x.kind /\ new.deposit = x.deposit
                     /\ \A p, ns : Held(new, p, ns) = Owed(x.due)
      BY <1>6, <2>1, <2>11, <3>1, <3>2, CreateMoves
    <3>4. Held(new, past'[r], notes) = w
      BY <2>1, <3>2, <3>3
    <3>5. Earned(new) = 0
      BY <3>2, <3>3 DEF Earned
    <3>6. past'[r].spends = Range(x.selected)
      BY <2>9, <2>11
    <3> QED BY <2>3, <2>7, <3>3, <3>4, <3>5, <3>6
  <2> QED BY <2>8, <2>10, <2>11
<1> QED BY <1>8, <1>9

(***************************************************************************)
(* The signature of a transfer: its notes are booked already.              *)
(***************************************************************************)
LEMMA SignTransferOutcome ==
  ASSUME CInv, NEW r \in Requests, SignTransfer(r)
  PROVE  Outcome(r)
<1> DEFINE x == req[r]
           new == [x EXCEPT !.pc = "done", !.answer = "signed", !.todo = << >>,
                            !.due = << >>]
<1>1. x.pc = "params" /\ UNCHANGED <<storage, salts, chain, past, overlap, faults>>
  BY DEF SignTransfer
<1>2. /\ x \in Request /\ BookOK(x, past[r], notes, spent) /\ salts \in Nat
      /\ DOMAIN req = Requests
  BY AtRequest
<1>3. Around(r)
  BY <1>1, <1>2, StillAround
<1>4. Held(x, past[r], notes) = 0 /\ Earned(x) = 0 /\ x.kind = "transfer"
  BY <1>1, <1>2, NothingHeld DEF BookOK
<1>5. req' = [req EXCEPT ![r] = new]
  BY <1>2 DEF SignTransfer, Sign
<1> HIDE DEF x
<1>6. new \in Request
  <2>1. << >> \in Seq(Commitments) /\ << >> \in Seq([owner : Owners, amount : Nat])
    OBVIOUS
  <2> QED BY <1>2, <2>1 DEF Request
<1>7. /\ new.pc = "done" /\ new.kind = x.kind /\ new.deposit = x.deposit
      /\ new.answer = "signed" /\ new.due = << >>
  BY <1>2 DEF Request
<1> HIDE DEF new
<1>8. Len(new.due) <= 2 BY <1>7
<1>9. LoopOK(new, adapter, owners') /\ BookOK(new, past'[r], notes', spent')
  BY <1>7, <1>8 DEF LoopOK, BookOK
<1>10. Moves(r, new)
  BY <1>3, <1>5, <1>6, <1>9 DEF Moves
<1>11. Held(new, past'[r], notes) = 0 /\ Earned(new) = 0 /\ Follows(r, new)
  BY <1>4, <1>7 DEF Held, Earned, Follows, x
<1>12. UNCHANGED <<notes, spent>> BY <1>1 DEF storage
<1> QED BY <1>4, <1>10, <1>11, <1>12, QuietOutcome DEF x

(***************************************************************************)
(* A call that fails ends the request, whatever storage kept of it.        *)
(***************************************************************************)
LEMMA FaultOutcome ==
  ASSUME CInv, NEW r \in Requests, CallFails(r) \/ UploadFails(r)
  PROVE  Outcome(r)
<1>1. /\ Reply(r, "error") /\ Fault /\ req[r].pc # "done"
      /\ UNCHANGED <<adapter, salts, chain, overlap>>
  BY DEF CallFails, UploadFails, StorageFault, storage
<1>2. /\ BookNow \in Nat /\ Held(req[r], past[r], notes) \in Nat
      /\ salts \in Nat /\ owners \in [Owners -> Seq(Commitments)]
      /\ past \in [Requests -> Past] /\ overlap \in BOOLEAN
      /\ LoopOK(req[r], adapter, owners) /\ spent \subseteq DOMAIN notes
  BY ValueTypes, AtRequest DEF CInv, TypeInv, EngineTypeOK
<1>3. faults' # faults /\ faults' \in 0..MaxFaults
  <2>1. faults \in Nat BY AtRequest, EngineAssumption
  <2> QED BY <1>1, <2>1, FaultCounted DEF Fault
<1>4. CASE UNCHANGED <<notes, owners, spent, past>>
  <2>1. Around(r)
    BY <1>1, <1>2, <1>3, <1>4 DEF Around, chain
  <2>2. BookNow' = BookNow BY <1>4 DEF BookNow
  <2> QED BY <1>1, <1>2, <1>3, <2>1, <2>2, ReplyOutcome
<1>5. CASE req[r].pc = "put" /\ Put(r) /\ UNCHANGED <<owners, spent, past>>
  <2>1. /\ BookNow' = BookNow + Head(req[r].due).amount
        /\ spent' \subseteq DOMAIN notes'
        /\ req[r].due \in Seq(Note) /\ Len(req[r].due) <= 2 /\ req[r].due # << >>
    BY <1>5, PutValue
  <2>2. Around(r)
    BY <1>1, <1>2, <1>3, <1>5, <2>1 DEF Around, chain
  <2>3. /\ Held(req[r], past[r], notes) = Owed(req[r].due)
        /\ Owed(req[r].due) = Head(req[r].due).amount + Owed(Tail(req[r].due))
        /\ Head(req[r].due).amount \in Nat /\ Owed(Tail(req[r].due)) \in Nat
    BY <1>5, <2>1, OwedFacts DEF Held
  <2>4. BookNow' \in Nat /\ BookNow' <= BookNow + Held(req[r], past[r], notes)
    <3> DEFINE h == Head(req[r].due).amount
               t == Owed(Tail(req[r].due))
    <3>1. /\ BookNow \in Nat /\ h \in Nat /\ t \in Nat
          /\ BookNow' = BookNow + h /\ Held(req[r], past[r], notes) = h + t
      BY <1>2, <2>1, <2>3
    <3> HIDE DEF h, t
    <3> QED BY <3>1
  <2> QED BY <1>1, <1>3, <2>2, <2>4, ReplyOutcome
<1>6. CASE req[r].pc = "append" /\ AppendTo(r, req[r].copy) /\ UNCHANGED <<notes, spent, past>>
  <2>1. adapter # "local" /\ req[r].copy \in Seq(Commitments)
    BY <1>2, <1>6, AtRequest DEF LoopOK, Request
  <2>2. owners' \in [Owners -> Seq(Commitments)]
    BY <1>6, <2>1, AppendedLists
  <2>3. Around(r)
    BY <1>1, <1>2, <1>3, <1>6, <2>1, <2>2 DEF Around, chain
  <2>4. BookNow' = BookNow BY <1>6 DEF BookNow
  <2> QED BY <1>1, <1>2, <1>3, <2>3, <2>4, ReplyOutcome
<1>7. CASE req[r].pc = "mark" /\ Mark(r) /\ UNCHANGED <<notes, owners>>
  <2>1. /\ BookNow' \in Nat /\ BookNow' <= BookNow
        /\ spent' \subseteq DOMAIN notes' /\ Head(req[r].todo) \in Commitments
    BY <1>7, MarkValue
  <2>2. /\ past' \in [Requests -> Past] /\ \A q \in Requests \ {r} : past'[q] = past[q]
        /\ past'[r].spends = past[r].spends \cup {Head(req[r].todo)}
        /\ spent' = spent \cup {Head(req[r].todo)}
    BY <1>7, <2>1, HistoryMarked DEF Mark
  <2>3. past[r].spends \subseteq past'[r].spends /\ spent \subseteq spent'
        /\ spent' \subseteq spent \cup past'[r].spends
    BY <2>2
  <2>4. Around(r)
    BY <1>1, <1>2, <1>3, <1>7, <2>1, <2>2, <2>3 DEF Around, chain
  <2>5. BookNow' <= BookNow + Held(req[r], past[r], notes)
    BY <1>2, <2>1
  <2> QED BY <1>1, <1>3, <2>1, <2>4, <2>5, ReplyOutcome
<1> QED BY <1>4, <1>5, <1>6, <1>7 DEF CallFails, UploadFails, storage

(***************************************************************************)
(* Every step of a handler.                                                *)
(***************************************************************************)
LEMMA HandlerOutcome ==
  ASSUME CInv, NEW r \in Requests, Arrive(r) \/ Proceed(r)
  PROVE  Outcome(r)
BY ArriveOutcome, EventFoundOutcome, EventMissingOutcome, PutNoteOutcome, ReadListOutcome,
   AppendOwnerOutcome, LoadNoteOutcome, ReadOwnedOutcome, ScanNoteOutcome, SelectNotesOutcome,
   CheckChainOutcome, BuildParamsOutcome, CheckSpentOutcome, MarkSpentOutcome,
   SignTransferOutcome, FaultOutcome DEF Proceed

(***************************************************************************)
(* The requests a restart took along hold nothing any more.                *)
(***************************************************************************)
LEMMA RestartedRequests ==
  ASSUME CInv, Restart, NEW r \in Requests
  PROVE  /\ req'[r] \in Request
         /\ req'[r].kind = req[r].kind /\ req'[r].deposit = req[r].deposit
         /\ LoopOK(req'[r], adapter', owners')
         /\ BookOK(req'[r], past[r], notes', spent')
         /\ Held(req'[r], past[r], notes') <= Held(req[r], past[r], notes)
         /\ req'[r].answer = "signed" <=> req[r].answer = "signed"
         /\ req[r].answer = "signed" => req'[r] = req[r]
         /\ req'[r].pc # "wait"
<1>1. /\ req[r] \in Request /\ BookOK(req[r], past[r], notes, spent)
      /\ RequestOK(req[r], past[r], notes, spent, salts)
  BY AtRequest
<1>2. Held(req[r], past[r], notes) \in Nat
  BY ValueTypes
<1>3. CASE r \in InProgress
  <2> DEFINE new == [Idle EXCEPT !.pc = "done", !.kind = req[r].kind,
                                 !.deposit = req[r].deposit, !.answer = "lost"]
  <2>1. req'[r] = new BY <1>3 DEF Restart
  <2>2. Idle \in Request
    <3>1. (CHOOSE d \in Deposits : TRUE) \in Deposits BY EngineAssumption
    <3>2. << >> \in Seq(Commitments) /\ << >> \in Seq([owner : Owners, amount : Nat])
      OBVIOUS
    <3>3. 0 \in 0..MaxPolls BY EngineAssumption
    <3> QED BY <3>1, <3>2, <3>3, EngineAssumption DEF Idle, Request
  <2>3. new \in Request
    <3>1. req[r].kind \in {"none", "shield", "unshield", "transfer"} /\ req[r].deposit \in Deposits
      BY <1>1 DEF Request
    <3> QED BY <2>2, <3>1 DEF Request
  <2>4. /\ new.pc = "done" /\ new.kind = req[r].kind /\ new.deposit = req[r].deposit
        /\ new.answer = "lost" /\ new.due = << >>
    BY DEF Idle
  <2> HIDE DEF new
  <2>5. Len(new.due) <= 2 BY <2>4
  <2>6. LoopOK(new, adapter', owners') /\ BookOK(new, past[r], notes', spent')
    BY <2>4, <2>5 DEF LoopOK, BookOK
  <2>7. Held(new, past[r], notes') = 0
    BY <2>4 DEF Held
  <2>8. req[r].pc # "done" /\ req[r].answer # "signed"
    BY <1>1, <1>3 DEF InProgress, RequestOK
  <2> QED BY <1>2, <2>1, <2>3, <2>4, <2>6, <2>7, <2>8
<1>4. CASE r \notin InProgress
  <2>1. req'[r] = req[r] /\ req[r].pc \in {"idle", "done"}
    BY <1>4 DEF Restart, InProgress
  <2>2. LoopOK(req[r], adapter', owners') /\ BookOK(req[r], past[r], notes', spent')
    BY <1>1, <2>1 DEF LoopOK, BookOK
  <2>3. Held(req[r], past[r], notes') = Held(req[r], past[r], notes)
    BY <2>1 DEF Held
  <2> QED BY <1>1, <1>2, <2>1, <2>2, <2>3
<1> QED BY <1>3, <1>4

(***************************************************************************)
(* What a restart leaves of the book.                                      *)
(***************************************************************************)
LEMMA RestartedBook ==
  ASSUME CInv, Restart
  PROVE  /\ \/ UNCHANGED <<notes, owners, spent>>
            \/ /\ DOMAIN notes' = {} /\ spent' = {}
               /\ owners' = [o \in Owners |-> << >>]
         /\ BookNow' \in Nat /\ BookNow' <= BookNow
         /\ spent' \subseteq spent /\ spent' \subseteq DOMAIN notes'
<1>1. \/ UNCHANGED <<notes, owners, spent>>
      \/ /\ DOMAIN notes' = {} /\ spent' = {}
         /\ owners' = [o \in Owners |-> << >>]
  <2>1. DOMAIN << >> = {} OBVIOUS
  <2> QED BY <2>1 DEF Restart
<1>2. BookNow \in Nat /\ spent \subseteq DOMAIN notes
  BY ValueTypes DEF CInv, BookInv
<1>3. CASE UNCHANGED <<notes, owners, spent>>
  <2>1. BookNow' = BookNow BY <1>3 DEF BookNow
  <2> QED BY <1>2, <1>3, <2>1
<1>4. CASE DOMAIN notes' = {} /\ spent' = {} /\ owners' = [o \in Owners |-> << >>]
  <2>1. DOMAIN notes' \ spent' = {} BY <1>4
  <2>2. Valued(notes', {}) BY FS_EmptySet DEF Valued
  <2>3. Worth(notes', {}) = 0
    BY <2>2, WorthFacts
  <2>4. BookNow' = 0 BY <2>1, <2>3 DEF BookNow
  <2> QED BY <1>2, <1>4, <2>4
<1> QED BY <1>1, <1>3, <1>4

(***************************************************************************)
(* A restart keeps the invariant: what was in memory only is gone, and     *)
(* what is stored is as typed as before.                                   *)
(***************************************************************************)
LEMMA RestartCInv ==
  ASSUME CInv, IInv', Restart
  PROVE  CInv'
<1>1. /\ EngineTypeOK /\ salts \in Nat /\ faults' \in 0..MaxFaults
      /\ UNCHANGED <<adapter, salts, chain, past, overlap>>
      /\ owners \in [Owners -> Seq(Commitments)]
  BY FaultCounted DEF CInv, TypeInv, EngineTypeOK, Restart
<1>2. req' \in [Requests -> Request]
  <2>1. req' = [r \in Requests |-> req'[r]] BY DEF Restart
  <2> QED BY <2>1, RestartedRequests
<1>3. owners' \in [Owners -> Seq(Commitments)] /\ spent' \subseteq 1..salts
      /\ DOMAIN notes' \subseteq 1..salts
      /\ \A c \in DOMAIN notes' : notes'[c] \in [owner : Owners, amount : Nat]
  <2>1. << >> \in Seq(Commitments) OBVIOUS
  <2>2. CASE UNCHANGED <<notes, owners, spent>>
    BY <1>1, <2>2 DEF EngineTypeOK
  <2>3. CASE DOMAIN notes' = {} /\ spent' = {} /\ owners' = [o \in Owners |-> << >>]
    BY <2>1, <2>3
  <2> QED BY <2>2, <2>3, RestartedBook
<1>4. EngineTypeOK'
  BY <1>1, <1>2, <1>3 DEF EngineTypeOK, chain
<1>5. TypeInv'
  BY <1>4, RestartedRequests DEF TypeInv
<1>6. nullified' \subseteq (UNION {NotesSignedBy(s) : s \in Signed})'
  <2>1. ASSUME NEW s \in Signed PROVE s \in Signed' /\ NotesSignedBy(s)' = NotesSignedBy(s)
    <3>1. s \in Requests /\ req[s].answer = "signed" BY DEF Signed
    <3>2. req'[s] = req[s] BY <3>1, RestartedRequests
    <3> QED BY <3>1, <3>2 DEF Signed, NotesSignedBy
  <2>2. nullified \subseteq UNION {NotesSignedBy(s) : s \in Signed}
    BY DEF CInv, BookInv
  <2> QED BY <1>1, <2>1, <2>2 DEF chain
<1>7. \A r \in Requests : BookOK(req'[r], past'[r], notes', spent')
  BY <1>1, RestartedRequests
<1>8. spent' \subseteq UNION {past'[r].spends : r \in Requests} /\ spent' \subseteq DOMAIN notes'
  BY <1>1, RestartedBook DEF CInv, BookInv
<1>9. IsFiniteSet(mined')
  BY <1>1 DEF CInv, BookInv, chain
<1> QED BY <1>5, <1>6, <1>7, <1>8, <1>9 DEF CInv, BookInv

(***************************************************************************)
(* The chain, and the stutter.                                             *)
(***************************************************************************)
LEMMA ChainCInv ==
  ASSUME CInv, IInv', UNCHANGED <<storage, salts, req, past, overlap, faults>>,
         UNCHANGED mined \/ \E d \in Deposits : mined' = mined \cup {d},
         \/ UNCHANGED nullified
         \/ \E r \in Signed : nullified' = nullified \cup NotesSignedBy(r)
  PROVE  CInv'
<1>1. IsFiniteSet(mined') /\ mined' \subseteq Deposits
  <2>1. IsFiniteSet(mined) /\ mined \subseteq Deposits
    BY DEF CInv, TypeInv, BookInv, EngineTypeOK
  <2> QED BY <2>1, FS_AddElement
<1>2. /\ nullified' \subseteq UNION {NotesSignedBy(r) : r \in Signed}
      /\ nullified' \subseteq 1..salts
  <2>1. \A r \in Signed : NotesSignedBy(r) \subseteq 1..salts
    BY DEF CInv, IInv, RequestOK, Signed, NotesSignedBy
  <2>2. /\ nullified \subseteq UNION {NotesSignedBy(r) : r \in Signed}
        /\ nullified \subseteq 1..salts
    BY DEF CInv, TypeInv, BookInv, EngineTypeOK
  <2> QED BY <2>1, <2>2
<1>3. TypeInv'
  <2>1. TypeInv BY DEF CInv
  <2> QED BY <1>1, <1>2, <2>1 DEF TypeInv, EngineTypeOK, storage
<1>4. (UNION {NotesSignedBy(r) : r \in Signed})' = UNION {NotesSignedBy(r) : r \in Signed}
  BY DEF Signed, NotesSignedBy
<1>5. BookInv'
  <2>1. BookInv BY DEF CInv
  <2> QED BY <1>1, <1>2, <1>4, <2>1 DEF BookInv, storage
<1> QED BY <1>3, <1>5 DEF CInv

(***************************************************************************)
(* The types of the engine and the amounts of its requests are kept.       *)
(***************************************************************************)
LEMMA StepCInv ==
  ASSUME CInv, IInv', [EngineNext]_engineVars
  PROVE  CInv'
<1>1. ASSUME NEW r \in Requests, Arrive(r) \/ Proceed(r) PROVE CInv'
  BY <1>1, HandlerOutcome, MovesBook DEF Outcome
<1>2. ASSUME NEW r \in Requests, Submit(r) PROVE CInv'
  BY <1>2, ChainCInv DEF Submit
<1>3. CASE Restart BY <1>3, RestartCInv
<1>4. ASSUME NEW d \in Deposits, MineShield(d) PROVE CInv'
  BY <1>4, ChainCInv DEF MineShield
<1>5. CASE UNCHANGED engineVars
  BY <1>5, ChainCInv DEF engineVars, chain
<1> QED BY <1>1, <1>2, <1>3, <1>4, <1>5 DEF EngineNext

(***************************************************************************)
(* Names, types and amounts: the inductive invariant holds of the engine.  *)
(***************************************************************************)
THEOREM EngineBookInvariant == EngineSpec => []CInv
<1>1. EngineInit => CInv
  BY InitCInv
<1>2. CInv /\ IInv' /\ [EngineNext]_engineVars => CInv'
  BY StepCInv
<1> QED BY <1>1, <1>2, EngineInvariant, PTL DEF EngineSpec

(***************************************************************************)
(* Every variable keeps its type.                                          *)
(***************************************************************************)
THEOREM EngineTypes == EngineSpec => []EngineTypeOK
<1>1. CInv => EngineTypeOK
  BY DEF CInv, TypeInv
<1> QED BY <1>1, EngineBookInvariant, PTL

-----------------------------------------------------------------------------
(***************************************************************************)
(* Sums are compared number by number; a sum of zeros is zero.             *)
(***************************************************************************)
LEMMA SumOrder ==
  ASSUME NEW S, IsFiniteSet(S), NEW f, \A x \in S : f[x] \in Nat,
         NEW g, \A x \in S : g[x] \in Nat
  PROVE  /\ (\A x \in S : g[x] <= f[x]) => SumFunctionOnSet(g, S) <= SumFunctionOnSet(f, S)
         /\ (\A x \in S : f[x] = 0) => SumFunctionOnSet(f, S) = 0
<1>0. Rec!IsFiniteSet(S)
  BY DEF IsFiniteSet, Rec!IsFiniteSet
<1>1. \A U \in SUBSET S : /\ IsFiniteSet(U) /\ SumFunctionOnSet(f, U) \in Nat
                          /\ SumFunctionOnSet(g, U) \in Nat
  BY FS_Subset, SumFacts
<1> DEFINE P == {U \in SUBSET S :
                   /\ (\A x \in S : g[x] <= f[x]) =>
                        SumFunctionOnSet(g, U) <= SumFunctionOnSet(f, U)
                   /\ (\A x \in S : f[x] = 0) => SumFunctionOnSet(f, U) = 0}
<1>2. {} \in P
  <2>1. SumFunctionOnSet(f, {}) = 0 /\ SumFunctionOnSet(g, {}) = 0
    BY FS_EmptySet, SumFacts
  <2> QED BY <2>1
<1>3. ASSUME NEW U \in SUBSET S, U # {}, \A x \in U : U \ {x} \in P
      PROVE  U \in P
  <2>1. PICK x \in U : TRUE BY <1>3
  <2>2. /\ SumFunctionOnSet(f, U) = f[x] + SumFunctionOnSet(f, U \ {x})
        /\ SumFunctionOnSet(g, U) = g[x] + SumFunctionOnSet(g, U \ {x})
        /\ f[x] \in Nat /\ g[x] \in Nat
    BY <1>1, <1>3, SumFacts
  <2>3. /\ SumFunctionOnSet(f, U \ {x}) \in Nat /\ SumFunctionOnSet(g, U \ {x}) \in Nat
        /\ SumFunctionOnSet(f, U) \in Nat /\ SumFunctionOnSet(g, U) \in Nat
    BY <1>1, <1>3
  <2>4. /\ (\A y \in S : g[y] <= f[y]) =>
             SumFunctionOnSet(g, U \ {x}) <= SumFunctionOnSet(f, U \ {x})
        /\ (\A y \in S : f[y] = 0) => SumFunctionOnSet(f, U \ {x}) = 0
    BY <1>3
  <2>5. /\ (\A y \in S : g[y] <= f[y]) => g[x] <= f[x]
        /\ (\A y \in S : f[y] = 0) => f[x] = 0
    BY <1>3
  <2> QED BY <2>2, <2>3, <2>4, <2>5
<1> HIDE DEF P
<1>4. SUBSET S \subseteq P
  BY ONLY <1>0, <1>2, <1>3, Rec!SetInduction
<1> QED BY <1>4 DEF P

(***************************************************************************)
(* There are finitely many requests, and the sums over them are numbers.   *)
(***************************************************************************)
LEMMA SumTypes ==
  ASSUME CInv
  PROVE  /\ IsFiniteSet(Requests) /\ HeldSum \in Nat /\ Backing \in Nat
         /\ IsFiniteSet(mined) /\ \A d \in mined : DepositAmount[d] \in Nat
<1>1. IsFiniteSet(Requests)
  BY EngineAssumption, FS_Interval DEF Requests
<1>2. HeldSum \in Nat
  <2> DEFINE f == [r \in Requests |-> Held(req[r], past[r], notes)]
  <2>1. \A r \in Requests : f[r] \in Nat
    BY ValueTypes
  <2>2. HeldSum = SumFunctionOnSet(f, Requests) BY DEF HeldSum
  <2> HIDE DEF f
  <2> QED BY <1>1, <2>1, <2>2, SumFacts
<1>3. IsFiniteSet(mined) /\ \A d \in mined : DepositAmount[d] \in Nat
  BY EngineAssumption DEF CInv, TypeInv, BookInv, EngineTypeOK
<1>4. Backing \in Nat
  <2>1. IsFiniteSet(Claimed \cap mined) /\ \A d \in Claimed \cap mined : DepositAmount[d] \in Nat
    BY <1>3, FS_Subset
  <2> QED BY <2>1, SumFacts DEF Backing
<1> QED BY <1>1, <1>2, <1>3, <1>4

\* The sums of the book are numbers.
Numbers ==
  /\ BookNow \in Nat /\ HeldSum \in Nat /\ Backing \in Nat
  /\ \A r \in Requests : Held(req[r], past[r], notes) \in Nat

(***************************************************************************)
(* The sums are numbers, in every state of the invariant.                  *)
(***************************************************************************)
LEMMA NumbersNow == CInv => Numbers
BY ValueTypes, SumTypes DEF Numbers

(***************************************************************************)
(* The same, of the state after a step.                                    *)
(***************************************************************************)
LEMMA NumbersNext == CInv' => Numbers'
BY NumbersNow, PTL

(***************************************************************************)
(* What is claimed of the chain's deposits backs the more, the more there  *)
(* is of it.                                                               *)
(***************************************************************************)
LEMMA BackingGrows ==
  ASSUME CInv, CInv', mined \subseteq mined', Claimed \subseteq Claimed'
  PROVE  /\ Backing <= Backing'
         /\ \A d \in mined : d \in Claimed' /\ d \notin Claimed =>
              Backing + DepositAmount[d] <= Backing'
<1> DEFINE S == Claimed \cap mined
           T == Claimed' \cap mined'
<1>1. /\ IsFiniteSet(T) /\ \A d \in T : DepositAmount[d] \in Nat
  <2>1. IsFiniteSet(mined') /\ mined' \subseteq Deposits
    BY DEF CInv, TypeInv, BookInv, EngineTypeOK
  <2>2. T \subseteq mined' OBVIOUS
  <2> HIDE DEF T
  <2> QED BY <2>1, <2>2, FS_Subset, EngineAssumption
<1>2. S \in SUBSET T
  OBVIOUS
<1>3. Backing = SumFunctionOnSet(DepositAmount, S) /\ Backing' = SumFunctionOnSet(DepositAmount, T)
  BY DEF Backing
<1>4. ASSUME NEW d \in mined, d \in Claimed', d \notin Claimed
      PROVE  Backing + DepositAmount[d] <= Backing'
  <2> DEFINE U == S \cup {d}
  <2>1. U \in SUBSET T /\ d \in U /\ U \ {d} = S
    BY <1>4
  <2> HIDE DEF S, T, U
  <2>2. IsFiniteSet(U) /\ \A e \in U : DepositAmount[e] \in Nat
    BY <1>1, <2>1, FS_Subset
  <2>3. SumFunctionOnSet(DepositAmount, U)
          = DepositAmount[d] + SumFunctionOnSet(DepositAmount, U \ {d})
    BY <2>1, <2>2, SumFacts
  <2>4. SumFunctionOnSet(DepositAmount, U) <= SumFunctionOnSet(DepositAmount, T)
    BY <1>1, <2>1, SumSmaller
  <2>5. SumFunctionOnSet(DepositAmount, U \ {d}) = Backing
    BY <1>3, <2>1
  <2>6. Backing \in Nat /\ Backing' \in Nat /\ DepositAmount[d] \in Nat
    BY <2>1, <2>2, SumTypes, <1>1, <1>3, SumFacts
  <2> QED BY <1>3, <2>3, <2>4, <2>5, <2>6
<1> HIDE DEF S, T
<1>5. Backing <= Backing'
  BY <1>1, <1>2, <1>3, SumSmaller
<1> QED BY <1>4, <1>5

(***************************************************************************)
(* What the requests hold changes as much as the one that steps.           *)
(***************************************************************************)
LEMMA HeldChanges ==
  ASSUME CInv, CInv', NEW r \in Requests, NEW new, Moves(r, new)
  PROVE  HeldSum' + Held(req[r], past[r], notes) = HeldSum + Held(new, past'[r], notes')
<1> DEFINE f == [q \in Requests |-> Held(req[q], past[q], notes)]
           g == [q \in Requests |-> Held(req'[q], past'[q], notes')]
<1>1. HeldSum = SumFunctionOnSet(f, Requests) /\ HeldSum' = SumFunctionOnSet(g, Requests)
  BY DEF HeldSum
<1>2. \A q \in Requests : Held(req[q], past[q], notes) \in Nat
  BY ValueTypes
<1>3. \A q \in Requests : Held(req'[q], past'[q], notes') \in Nat
  BY NumbersNext DEF Numbers
<1>4. DOMAIN req = Requests
  BY AtRequest
<1>5. ASSUME NEW q \in Requests, q # r PROVE g[q] = f[q]
  <2>1. req'[q] = req[q] /\ past'[q] = past[q]
    BY <1>4, <1>5 DEF Moves, Around
  <2>2. Held(req[q], past[q], notes') = Held(req[q], past[q], notes)
    BY OthersBooked DEF Moves, Around
  <2> QED BY <2>1, <2>2
<1>6. f[r] = Held(req[r], past[r], notes) /\ g[r] = Held(new, past'[r], notes')
  BY <1>4 DEF Moves, Around
<1>7. \A q \in Requests : f[q] \in Nat /\ g[q] \in Nat
  BY <1>2, <1>3
<1>8. IsFiniteSet(Requests) BY SumTypes
<1> HIDE DEF f, g
<1>9. SumFunctionOnSet(g, Requests) + f[r] = SumFunctionOnSet(f, Requests) + g[r]
  BY <1>5, <1>7, <1>8, SumChanged
<1> QED BY <1>1, <1>6, <1>9

(***************************************************************************)
(* The stock counts, and so does what was signed out of the book, which    *)
(* the requests hold.                                                      *)
(***************************************************************************)
LEMMA StockCounts == SumFunction(Stock) \in Nat
<1>1. DOMAIN Stock = 1..Len(Stock) /\ Len(Stock) \in Nat /\ \A i \in DOMAIN Stock : Stock[i] \in Nat
  BY EngineAssumption
<1>2. IsFiniteSet(DOMAIN Stock) BY <1>1, FS_Interval
<1> QED BY <1>1, <1>2, SumFacts DEF SumFunction

(***************************************************************************)
(* What was signed out of the book is part of what the requests hold.      *)
(***************************************************************************)
LEMMA UnshieldedHeld ==
  ASSUME CInv PROVE Unshielded \in Nat /\ Unshielded <= HeldSum
<1> DEFINE f == [q \in Requests |-> Held(req[q], past[q], notes)]
           g == [q \in Unshields |-> req[q].amount]
<1>1. Unshielded = SumFunctionOnSet(g, Unshields) /\ HeldSum = SumFunctionOnSet(f, Requests)
  BY DEF Unshielded, SumOver, HeldSum
<1>2. Unshields \in SUBSET Requests
  BY DEF Unshields, Signed
<1>3. ASSUME NEW q \in Unshields PROVE f[q] = g[q]
  <2>1. q \in Requests /\ req[q].answer = "signed" /\ req[q].kind = "unshield"
    BY DEF Unshields, Signed
  <2>2. req[q].pc = "done"
    BY <2>1, AtRequest DEF RequestOK
  <2>3. Held(req[q], past[q], notes) = req[q].amount
    BY <2>1, <2>2 DEF Held
  <2> QED BY <2>1, <2>3
<1>4. IsFiniteSet(Requests) /\ \A q \in Requests : f[q] \in Nat
  BY SumTypes, ValueTypes
<1> HIDE DEF f, g
<1>5. IsFiniteSet(Unshields) /\ \A q \in Unshields : f[q] \in Nat
  BY <1>2, <1>4, FS_Subset
<1>6. SumFunctionOnSet(g, Unshields) = SumFunctionOnSet(f, Unshields)
      /\ SumFunctionOnSet(f, Unshields) \in Nat
  BY <1>3, <1>5, SumFacts
<1>7. SumFunctionOnSet(f, Unshields) <= SumFunctionOnSet(f, Requests)
  BY <1>2, <1>4, SumSmaller
<1> QED BY <1>1, <1>6, <1>7

(***************************************************************************)
(* The parties of the requests do not change, and no mark is taken back.   *)
(***************************************************************************)
LEMMA OnceBefore ==
  ASSUME CInv, NEW r \in Requests, NEW new, Moves(r, new), Follows(r, new)
  PROVE  /\ ShieldsOnce' => ShieldsOnce
         /\ ConsumedOnce' => ConsumedOnce
         /\ Claimed \subseteq Claimed'
<1>1. /\ DOMAIN req = Requests /\ req'[r] = new
      /\ \A q \in Requests \ {r} : req'[q] = req[q]
      /\ BookOK(req[r], past[r], notes, spent)
  BY AtRequest DEF Moves
<1>2. ASSUME NEW q \in Requests, req[q].kind = "shield"
      PROVE  /\ req'[q].kind = "shield" /\ req'[q].deposit = req[q].deposit
             /\ req'[q].pc = "wait" => req[q].pc = "wait"
  <2>1. CASE q = r
    <3>1. req[r].pc # "idle" BY <1>1, <1>2, <2>1 DEF BookOK
    <3> QED BY <1>1, <1>2, <2>1, <3>1 DEF Follows
  <2>2. CASE q # r BY <1>1, <1>2, <2>2
  <2> QED BY <2>1, <2>2
<1>3. ShieldsOnce' => ShieldsOnce
  BY <1>2 DEF ShieldsOnce
<1>4. \A q \in Requests : past[q].spends \subseteq past'[q].spends
  BY DEF Moves, Around
<1>5. ConsumedOnce' => ConsumedOnce
  BY <1>4 DEF ConsumedOnce
<1>6. Claimed \subseteq Claimed'
  BY <1>2 DEF Claimed
<1> QED BY <1>3, <1>5, <1>6

(***************************************************************************)
(* A handler takes no more out of the book than it puts in, and what it    *)
(* puts in anew is a deposit that no request had claimed.                  *)
(***************************************************************************)
LEMMA HandlerBacked ==
  ASSUME CInv, CInv', Backed, NEW r \in Requests, Outcome(r)
  PROVE  Backed'
<1>1. PICK new : /\ Moves(r, new) /\ Follows(r, new)
                 /\ Gains(r, new) \/ Loses(r, new)
  BY DEF Outcome
<1> SUFFICES ASSUME ShieldsOnce', ConsumedOnce'
             PROVE  BookNow' + HeldSum' <= SumFunction(Stock) + Backing'
  BY DEF Backed, BookNow
<1>2. ShieldsOnce /\ ConsumedOnce /\ Claimed \subseteq Claimed' /\ mined' = mined
  BY <1>1, OnceBefore DEF Moves, Around
<1>3. BookNow + HeldSum <= SumFunction(Stock) + Backing
  BY <1>2 DEF Backed, BookNow
<1>4. HeldSum' + Held(req[r], past[r], notes) = HeldSum + Held(new, past'[r], notes')
  BY <1>1, HeldChanges
<1>5. /\ BookNow \in Nat /\ HeldSum \in Nat /\ Backing \in Nat
      /\ Held(req[r], past[r], notes) \in Nat
  BY ValueTypes, SumTypes
<1>6. BookNow' \in Nat /\ HeldSum' \in Nat /\ Backing' \in Nat
  BY NumbersNext DEF Numbers
<1>7. Held(new, past'[r], notes') \in Nat
  <2>1. Held(req'[r], past'[r], notes') \in Nat BY NumbersNext DEF Numbers
  <2>2. req'[r] = new BY <1>1, AtRequest DEF Moves
  <2> QED BY <2>1, <2>2
<1>8. SumFunction(Stock) \in Nat
  BY StockCounts
<1>9. CASE Loses(r, new)
  <2>1. BookNow' + Held(new, past'[r], notes') <= BookNow + Held(req[r], past[r], notes)
    BY <1>9 DEF Loses, After, Before
  <2>2. Backing <= Backing'
    BY <1>2, BackingGrows
  <2> QED BY <1>3, <1>4, <1>5, <1>6, <1>7, <1>8, <2>1, <2>2
<1>10. CASE Gains(r, new)
  <2> DEFINE d == req[r].deposit
  <2>1. /\ req[r].pc = "wait" /\ new.pc = "put" /\ d \in mined
        /\ BookNow' + Held(new, past'[r], notes')
             = BookNow + Held(req[r], past[r], notes) + DepositAmount[d]
    BY <1>10 DEF Gains, After, Before
  <2>2. req[r].kind = "shield" /\ new.kind = "shield" /\ new.deposit = d
    <3>1. BookOK(req[r], past[r], notes, spent) BY AtRequest
    <3> QED BY <1>1, <2>1, <3>1 DEF BookOK, Follows
  <2>3. d \in Claimed'
    <3>1. req'[r] = new BY <1>1, AtRequest DEF Moves
    <3> QED BY <2>1, <2>2, <3>1 DEF Claimed
  <2>4. d \notin Claimed
    <3> SUFFICES ASSUME NEW q \in Requests, req[q].kind = "shield", req[q].pc # "wait",
                        req[q].deposit = d
                 PROVE  FALSE
      BY DEF Claimed
    <3>1. q # r BY <2>1
    <3> QED BY <1>2, <2>2, <3>1 DEF ShieldsOnce
  <2>5. Backing + DepositAmount[d] <= Backing'
    BY <1>2, <2>1, <2>3, <2>4, BackingGrows
  <2>6. DepositAmount[d] \in Nat BY <2>1, SumTypes
  <2> HIDE DEF d
  <2> QED BY <1>3, <1>4, <1>5, <1>6, <1>7, <1>8, <2>1, <2>5, <2>6
<1> QED BY <1>1, <1>9, <1>10

(***************************************************************************)
(* A restart may lose what the book has, and the chain may gain deposits.  *)
(***************************************************************************)
LEMMA RestartBacked ==
  ASSUME CInv, CInv', Backed, Restart
  PROVE  Backed'
<1> SUFFICES ASSUME ShieldsOnce', ConsumedOnce'
             PROVE  BookNow' + HeldSum' <= SumFunction(Stock) + Backing'
  BY DEF Backed, BookNow
<1>1. \A r \in Requests : /\ req'[r].kind = req[r].kind /\ req'[r].deposit = req[r].deposit
                          /\ req'[r].pc # "wait"
  BY RestartedRequests
<1>2. ShieldsOnce
  BY <1>1 DEF ShieldsOnce
<1>3. past' = past /\ mined' = mined
  BY DEF Restart, chain
<1>4. ConsumedOnce
  BY <1>3 DEF ConsumedOnce
<1>5. BookNow + HeldSum <= SumFunction(Stock) + Backing
  BY <1>2, <1>4 DEF Backed, BookNow
<1>6. Claimed \subseteq Claimed'
  BY <1>1 DEF Claimed
<1>7. Backing <= Backing'
  BY <1>3, <1>6, BackingGrows
<1>8. BookNow \in Nat /\ BookNow' \in Nat /\ BookNow' <= BookNow
  BY ValueTypes, RestartedBook
<1>9. HeldSum' <= HeldSum
  <2> DEFINE f == [q \in Requests |-> Held(req[q], past[q], notes)]
             g == [q \in Requests |-> Held(req'[q], past'[q], notes')]
  <2>1. HeldSum = SumFunctionOnSet(f, Requests) /\ HeldSum' = SumFunctionOnSet(g, Requests)
    BY DEF HeldSum
  <2>2. \A q \in Requests : f[q] \in Nat BY ValueTypes
  <2>3. \A q \in Requests : g[q] \in Nat
    BY NumbersNext DEF Numbers
  <2>4. \A q \in Requests : g[q] <= f[q]
    BY <1>3, RestartedRequests
  <2>5. IsFiniteSet(Requests) BY SumTypes
  <2> HIDE DEF f, g
  <2> QED BY <2>1, <2>2, <2>3, <2>4, <2>5, SumOrder
<1>10. HeldSum \in Nat /\ HeldSum' \in Nat /\ Backing \in Nat /\ Backing' \in Nat
  BY NumbersNow, NumbersNext DEF Numbers
<1>11. SumFunction(Stock) \in Nat
  BY StockCounts
<1> QED BY <1>5, <1>7, <1>8, <1>9, <1>10, <1>11

(***************************************************************************)
(* A deposit mined takes no backing away.                                  *)
(***************************************************************************)
LEMMA ChainBacked ==
  ASSUME CInv, CInv', Backed, UNCHANGED <<storage, salts, req, past, overlap, faults>>,
         mined \subseteq mined'
  PROVE  Backed'
<1> SUFFICES ASSUME ShieldsOnce', ConsumedOnce'
             PROVE  BookNow' + HeldSum' <= SumFunction(Stock) + Backing'
  BY DEF Backed, BookNow
<1>1. ShieldsOnce /\ ConsumedOnce
  BY DEF ShieldsOnce, ConsumedOnce
<1>2. BookNow' = BookNow /\ HeldSum' = HeldSum /\ Claimed' = Claimed
  BY DEF BookNow, HeldSum, Claimed, storage
<1>3. BookNow + HeldSum <= SumFunction(Stock) + Backing
  BY <1>1 DEF Backed, BookNow
<1>4. Backing <= Backing'
  BY <1>2, BackingGrows
<1>5. BookNow \in Nat /\ HeldSum \in Nat /\ Backing \in Nat /\ SumFunction(Stock) \in Nat
  BY ValueTypes, SumTypes, StockCounts
<1>6. Backing' \in Nat
  BY NumbersNext DEF Numbers
<1> QED BY <1>2, <1>3, <1>4, <1>5, <1>6

(***************************************************************************)
(* At the start there is the stock.                                        *)
(***************************************************************************)
LEMMA InitBook ==
  ASSUME EngineInit
  PROVE  /\ BookNow = SumFunction(Stock) /\ HeldSum = 0
         /\ \A r \in Requests : req[r] = Idle /\ past[r].spends = {}
<1>1. Stock \in Seq(Nat) /\ DOMAIN Stock = 1..Len(Stock) /\ IsFiniteSet(DOMAIN Stock)
      /\ \A c \in DOMAIN Stock : Stock[c] \in Nat
  <2>1. /\ Stock \in Seq(Nat) /\ DOMAIN Stock = 1..Len(Stock) /\ Len(Stock) \in Nat
        /\ \A c \in DOMAIN Stock : Stock[c] \in Nat
    BY EngineAssumption
  <2> QED BY <2>1, FS_Interval
<1>2. BookNow = SumFunction(Stock)
  <2> DEFINE S == DOMAIN Stock
             g == [c \in S |-> notes[c].amount]
  <2>1. DOMAIN notes \ spent = S /\ \A c \in S : notes[c].amount = Stock[c]
    BY <1>1 DEF EngineInit, NoteOf
  <2>2. \A c \in S : Stock[c] = g[c] BY <2>1
  <2>3. BookNow = SumFunctionOnSet(g, S)
    BY <2>1 DEF BookNow, Worth
  <2>4. SumFunctionOnSet(g, S) = SumFunctionOnSet(Stock, S)
    <3> HIDE DEF g
    <3> QED BY <1>1, <2>2, SumFacts
  <2> QED BY <2>3, <2>4 DEF SumFunction
<1>3. \A r \in Requests : req[r] = Idle /\ past[r].spends = {}
  BY DEF EngineInit
<1>4. HeldSum = 0
  <2> DEFINE f == [q \in Requests |-> Held(req[q], past[q], notes)]
  <2>1. \A q \in Requests : f[q] = 0
    BY <1>3, IdleShape DEF Held
  <2>2. IsFiniteSet(Requests) /\ HeldSum = SumFunctionOnSet(f, Requests)
    BY EngineAssumption, FS_Interval DEF HeldSum, Requests
  <2> HIDE DEF f
  <2>3. \A q \in Requests : f[q] \in Nat BY <2>1
  <2> QED BY <2>1, <2>2, <2>3, SumOrder
<1> QED BY <1>2, <1>3, <1>4

(***************************************************************************)
(* At the start the book is the stock.                                     *)
(***************************************************************************)
LEMMA InitBacked == EngineInit => Backed
<1> SUFFICES ASSUME EngineInit PROVE BookNow + HeldSum <= SumFunction(Stock) + Backing
  BY DEF Backed, BookNow
<1>1. Backing \in Nat BY InitCInv, SumTypes
<1>2. SumFunction(Stock) \in Nat BY StockCounts
<1> QED BY <1>1, <1>2, InitBook

(***************************************************************************)
(* What the runs check of it: an unshield that was signed holds its        *)
(* amount, and what is claimed of the deposits is part of them.            *)
(***************************************************************************)
LEMMA BackedImplies ==
  ASSUME CInv, Backed PROVE BookBacked
<1> SUFFICES ASSUME ShieldsOnce, ConsumedOnce
             PROVE  BookValue(DOMAIN notes) + Unshielded
                      <= SumFunction(Stock) + SumOver(mined, LAMBDA d : DepositAmount[d])
  BY DEF BookBacked
<1>1. BookValue(DOMAIN notes) = BookNow
  BY WorthNames DEF BookNow
<1>2. BookNow + HeldSum <= SumFunction(Stock) + Backing
  BY DEF Backed, BookNow
<1>3. Unshielded \in Nat /\ Unshielded <= HeldSum
  BY UnshieldedHeld
<1>4. /\ Backing <= SumOver(mined, LAMBDA d : DepositAmount[d])
      /\ SumOver(mined, LAMBDA d : DepositAmount[d]) \in Nat
  <2> DEFINE g == [d \in mined |-> DepositAmount[d]]
  <2>1. SumOver(mined, LAMBDA d : DepositAmount[d]) = SumFunctionOnSet(g, mined)
    BY DEF SumOver
  <2>2. IsFiniteSet(mined) /\ \A d \in mined : DepositAmount[d] \in Nat
    BY SumTypes
  <2>3. \A d \in mined : DepositAmount[d] = g[d] OBVIOUS
  <2> HIDE DEF g
  <2>4. SumFunctionOnSet(g, mined) = SumFunctionOnSet(DepositAmount, mined)
        /\ SumFunctionOnSet(DepositAmount, mined) \in Nat
    BY <2>2, <2>3, SumFacts
  <2>5. Claimed \cap mined \in SUBSET mined OBVIOUS
  <2>6. Backing <= SumFunctionOnSet(DepositAmount, mined)
    BY <2>2, <2>5, SumSmaller DEF Backing
  <2> QED BY <2>1, <2>4, <2>6
<1>5. BookNow \in Nat /\ HeldSum \in Nat /\ Backing \in Nat /\ SumFunction(Stock) \in Nat
  BY ValueTypes, SumTypes, StockCounts
<1> QED BY <1>1, <1>2, <1>3, <1>4, <1>5

(***************************************************************************)
(* The unspent notes and what was signed out of the book never come to     *)
(* more than the deposits on the chain, unless a deposit is booked twice   *)
(* or a note spent twice.                                                  *)
(***************************************************************************)
THEOREM BookIsBacked == EngineSpec => []BookBacked
<1>1. EngineInit => Backed
  BY InitBacked
<1>2. CInv /\ CInv' /\ Backed /\ [EngineNext]_engineVars => Backed'
  <2> SUFFICES ASSUME CInv, CInv', Backed, [EngineNext]_engineVars PROVE Backed'
    OBVIOUS
  <2>1. ASSUME NEW r \in Requests, Arrive(r) \/ Proceed(r) PROVE Backed'
    BY <2>1, HandlerOutcome, HandlerBacked
  <2>2. ASSUME NEW r \in Requests, Submit(r) PROVE Backed'
    BY <2>2, ChainBacked DEF Submit
  <2>3. CASE Restart BY <2>3, RestartBacked
  <2>4. ASSUME NEW d \in Deposits, MineShield(d) PROVE Backed'
    BY <2>4, ChainBacked DEF MineShield
  <2>5. CASE UNCHANGED engineVars
    BY <2>5, ChainBacked DEF engineVars, chain
  <2> QED BY <2>1, <2>2, <2>3, <2>4, <2>5 DEF EngineNext
<1>3. CInv /\ Backed => BookBacked
  BY BackedImplies
<1> QED BY <1>1, <1>2, <1>3, EngineBookInvariant, PTL DEF EngineSpec

-----------------------------------------------------------------------------
\* One request at a time, and no call that fails.
Sequential == ~overlap /\ faults = 0

\* todo is the end of list.
Ends(todo, list) ==
  \E k \in Nat : /\ k + Len(todo) = Len(list)
                 /\ \A i \in DOMAIN todo : todo[i] = list[k + i]

\* What a request knows that nothing disturbs: the notes it has selected are
\* unspent, each is named once, and what it read of a list is still true.
SeqOK(x, os, sp) ==
  /\ x.pc = "load" => Injective(x.selected)
  /\ x.pc = "scan" =>
       /\ Injective(x.selected)
       /\ Range(x.selected) \cap Range(x.todo) = {}
       /\ Range(x.selected) \cap sp = {}
       /\ Ends(x.todo, os[x.owner])
  /\ x.pc = "chain" => Injective(x.selected) /\ Range(x.selected) \cap sp = {}
  /\ x.pc \in {"check", "mark"} =>
       ~x.sync /\ Injective(x.todo) /\ Range(x.todo) \cap sp = {}
  /\ x.pc = "append" => x.copy = os[Head(x.due).owner]

\* Request x has stored note c and is about to list it.
Listing(x, c) == x.pc \in {"list", "append"} /\ x.draft = c

\* A note is on the list of its owner, and once, or about to be.
ListsOK ==
  /\ \A o \in Owners : Injective(owners[o])
  /\ \A c \in DOMAIN notes :
       c \in Range(owners[notes[c].owner]) \/ \E r \in Requests : Listing(req[r], c)
  /\ \A r \in Requests : \A c : Listing(req[r], c) =>
       \A o \in Owners : c \notin Range(owners[o])

\* One request is in progress; what was selected is stored and listed.
SeqShape ==
  /\ \A r, q \in InProgress : r = q
  /\ \A r \in Requests : SeqOK(req[r], owners, spent)
  /\ ListsOK
  /\ \A r \in Unshields : Head(req[r].selected) \in DOMAIN notes

\* The book and what requests hold is what was booked.
Balanced == BookNow + HeldSum = SumFunction(Stock) + EarnedSum

\* The invariant of requests served one at a time; the balance holds as long as
\* unshields are of whole notes.
SeqInv == Sequential => SeqShape /\ (WholeUnshields => Balanced)

(***************************************************************************)
(* A sequence without repetitions, one longer and one shorter.             *)
(***************************************************************************)
LEMMA InjectiveLists ==
  ASSUME NEW E, NEW list \in Seq(E), Injective(list)
  PROVE  /\ \A c \in E : c \notin Range(list) => Injective(Append(list, c))
         /\ \A c \in E : Range(Append(list, c)) = Range(list) \cup {c}
         /\ list # << >> => /\ Injective(Tail(list))
                            /\ Head(list) \notin Range(Tail(list))
<1>1. DOMAIN list = 1..Len(list) /\ Len(list) \in Nat
  OBVIOUS
<1>2. ASSUME NEW c \in E
      PROVE  /\ Range(Append(list, c)) = Range(list) \cup {c}
             /\ c \notin Range(list) => Injective(Append(list, c))
  <2> DEFINE a == Append(list, c)
  <2>1. /\ DOMAIN a = 1..(Len(list) + 1) /\ a[Len(list) + 1] = c
        /\ \A i \in 1..Len(list) : a[i] = list[i]
    OBVIOUS
  <2> HIDE DEF a
  <2>2. DOMAIN a = DOMAIN list \cup {Len(list) + 1} /\ Len(list) + 1 \notin DOMAIN list
    BY <1>1, <2>1
  <2>3. Range(a) = Range(list) \cup {c}
    BY <1>1, <2>1, <2>2 DEF Range
  <2>4. ASSUME c \notin Range(list) PROVE Injective(a)
    BY <1>1, <2>1, <2>2, <2>4 DEF Injective, Range
  <2> QED BY <2>3, <2>4 DEF a
<1>3. ASSUME list # << >>
      PROVE  Injective(Tail(list)) /\ Head(list) \notin Range(Tail(list))
  <2> DEFINE t == Tail(list)
  <2>1. /\ Head(list) = list[1] /\ 1 \in DOMAIN list
        /\ DOMAIN t = 1..(Len(list) - 1) /\ \A i \in DOMAIN t : t[i] = list[i + 1]
    BY <1>1, <1>3
  <2> HIDE DEF t
  <2>2. \A i \in DOMAIN t : i \in Nat /\ i + 1 \in DOMAIN list /\ i + 1 # 1
    BY <1>1, <2>1
  <2>3. Injective(t)
    BY <2>1, <2>2 DEF Injective
  <2>4. Head(list) \notin Range(t)
    BY <2>1, <2>2 DEF Injective, Range
  <2> QED BY <2>3, <2>4 DEF t
<1> QED BY <1>2, <1>3

(***************************************************************************)
(* The end of a list without repetitions begins where its first element    *)
(* is, and its tail is an end of the list too.                             *)
(***************************************************************************)
LEMMA EndOfList ==
  ASSUME NEW E, NEW list \in Seq(E), Injective(list),
         NEW todo \in Seq(E), todo # << >>, Ends(todo, list)
  PROVE  /\ \E at \in DOMAIN list : list[at] = Head(todo)
         /\ \A at \in DOMAIN list : list[at] = Head(todo) => SubSeq(list, at, Len(list)) = todo
         /\ Head(todo) \in E /\ Head(todo) \notin Range(Tail(todo))
         /\ Tail(todo) \in Seq(E) /\ Range(todo) = {Head(todo)} \cup Range(Tail(todo))
         /\ Ends(Tail(todo), list)
<1>1. PICK k \in Nat : /\ k + Len(todo) = Len(list)
                       /\ \A i \in DOMAIN todo : todo[i] = list[k + i]
  BY DEF Ends
<1> DEFINE t == Tail(todo)
<1>2. /\ DOMAIN list = 1..Len(list) /\ Len(list) \in Nat
      /\ DOMAIN todo = 1..Len(todo) /\ Len(todo) \in Nat /\ Len(todo) >= 1
      /\ Head(todo) = todo[1] /\ Head(todo) \in E
      /\ t \in Seq(E) /\ Len(t) = Len(todo) - 1 /\ DOMAIN t = 1..(Len(todo) - 1)
      /\ \A i \in 1..(Len(todo) - 1) : t[i] = todo[i + 1]
  OBVIOUS
<1>3. Range(todo) = {Head(todo)} \cup Range(t)
  BY HeadAndTail
<1> HIDE DEF t
<1>4. k + 1 \in DOMAIN list /\ list[k + 1] = Head(todo)
  <2>1. 1 \in DOMAIN todo /\ k + 1 \in 1..Len(list) BY <1>1, <1>2
  <2> QED BY <1>1, <1>2, <2>1
<1>5. ASSUME NEW i \in DOMAIN t
      PROVE  t[i] = list[k + 1 + i] /\ k + 1 + i \in DOMAIN list /\ k + 1 + i # k + 1
  <2>1. i \in 1..(Len(todo) - 1) /\ i + 1 \in DOMAIN todo /\ i \in Nat /\ i >= 1
    BY <1>2
  <2>2. t[i] = list[k + (i + 1)]
    BY <1>1, <1>2, <2>1
  <2>3. k + (i + 1) = k + 1 + i /\ k + 1 + i \in 1..Len(list)
    <3>1. k + Len(todo) = Len(list) BY <1>1
    <3>2. Len(todo) \in Nat /\ Len(list) \in Nat BY <1>2
    <3>3. i \in Nat /\ i >= 1 /\ i + 1 <= Len(todo) BY <2>1, <3>2
    <3>4. k + 1 + i <= Len(list) /\ k + 1 + i >= 1 BY <3>1, <3>2, <3>3
    <3> QED BY <3>2, <3>3, <3>4
  <2> QED BY <1>2, <2>1, <2>2, <2>3
<1>6. Ends(t, list)
  <2>1. k + 1 \in Nat /\ k + 1 + Len(t) = Len(list)
    <3>1. k + Len(todo) = Len(list) BY <1>1
    <3>2. Len(todo) \in Nat /\ Len(t) = Len(todo) - 1 BY <1>2
    <3> QED BY <3>1, <3>2
  <2> QED BY <1>5, <2>1 DEF Ends
<1>7. Head(todo) \notin Range(t)
  BY <1>4, <1>5 DEF Range, Injective
<1>8. ASSUME NEW at \in DOMAIN list, list[at] = Head(todo)
      PROVE  SubSeq(list, at, Len(list)) = todo
  <2>1. at = k + 1 BY <1>4, <1>8 DEF Injective
  <2> DEFINE left == SubSeq(list, k + 1, Len(list))
  <2>2. /\ left \in Seq(E) /\ Len(left) = Len(todo)
        /\ \A i \in 1..Len(todo) : left[i] = list[k + i]
    BY <1>1, <1>2
  <2> HIDE DEF left
  <2>3. \A i \in 1..Len(todo) : left[i] = todo[i]
    BY <1>1, <1>2, <2>2
  <2>4. left = todo
    BY <1>2, <2>2, <2>3
  <2> QED BY <2>1, <2>4 DEF left
<1> QED BY <1>2, <1>3, <1>4, <1>6, <1>7, <1>8 DEF t

(***************************************************************************)
(* Where no call fails, the spent index is read as it is.                  *)
(***************************************************************************)
LEMMA NoFault ==
  ASSUME CInv, faults' = faults
  PROVE  /\ ~Fault /\ ~StorageFault
         /\ \A r, c : \A seen \in BOOLEAN : SeenSpent(r, c, seen) => (seen <=> c \in spent)
<1>1. faults \in Nat
  BY AtRequest, EngineAssumption DEF CInv, TypeInv, EngineTypeOK
<1>2. ~Fault /\ ~StorageFault
  BY <1>1 DEF Fault, StorageFault
<1>3. ASSUME NEW r, NEW c, NEW seen \in BOOLEAN, SeenSpent(r, c, seen)
      PROVE  seen <=> c \in spent
  <2>1. seen = (c \in spent) BY <1>2, <1>3 DEF SeenSpent
  <2> QED BY <2>1
<1> QED BY <1>2, <1>3

(***************************************************************************)
(* While requests are served one at a time, by calls that do not fail, the *)
(* one that steps is the only one in progress.                             *)
(***************************************************************************)
LEMMA ProceedAlone ==
  ASSUME CInv, NEW r \in Requests, Proceed(r), faults' = 0
  PROVE  /\ faults = 0 /\ overlap' = overlap
         /\ ~CallFails(r) /\ ~UploadFails(r)
         /\ r \in InProgress
<1>1. faults \in Nat
  BY EngineAssumption DEF CInv, TypeInv, EngineTypeOK
<1>2. overlap' = overlap /\ (faults' = faults \/ Fault)
  <2>1. CASE EventFound(r) \/ EventMissing(r) \/ PutNote(r) \/ ReadList(r) \/ AppendOwner(r)
    BY <2>1 DEF EventFound, EventMissing, PutNote, ReadList, AppendOwner, StorageFault
  <2>2. CASE LoadNote(r) \/ ReadOwned(r) \/ ScanNote(r) \/ SelectNotes(r)
    BY <2>2 DEF LoadNote, ReadOwned, ScanNote, SelectNotes, SeenSpent, StorageFault
  <2>3. CASE CheckChain(r) \/ BuildParams(r) \/ CheckSpent(r) \/ MarkSpent(r) \/ SignTransfer(r)
    BY <2>3 DEF CheckChain, BuildParams, CheckSpent, MarkSpent, SignTransfer, SeenSpent,
                StorageFault
  <2>4. CASE CallFails(r) \/ UploadFails(r)
    BY <2>4 DEF CallFails, UploadFails, StorageFault
  <2> QED BY <2>1, <2>2, <2>3, <2>4 DEF Proceed
<1>3. faults = 0 /\ ~Fault
  BY <1>1, <1>2 DEF Fault
<1>4. ~CallFails(r) /\ ~UploadFails(r)
  BY <1>3 DEF CallFails, UploadFails, StorageFault
<1>5. req[r].pc \notin {"idle", "done"}
  BY <1>4 DEF Proceed, EventFound, EventMissing, PutNote, ReadList, AppendOwner, LoadNote,
              ReadOwned, ScanNote, SelectNotes, CheckChain, BuildParams, CheckSpent,
              MarkSpent, SignTransfer
<1> QED BY <1>2, <1>3, <1>4, <1>5 DEF InProgress

-----------------------------------------------------------------------------
(***************************************************************************)
(* addOwnerCommitment has the list as it is.                               *)
(***************************************************************************)
LEMMA ReadListKnows ==
  ASSUME CInv, NEW r \in Requests, ReadList(r), faults' = faults
  PROVE  SeqOK(req'[r], owners', spent')
<1>1. req[r] \in Request /\ DOMAIN req = Requests
  BY AtRequest
<1>2. owners' = owners /\ req' = [req EXCEPT ![r].pc = "append", ![r].copy = Listed(r)]
  BY NoFault DEF ReadList, storage
<1>3. req'[r].pc = "append" /\ req'[r].copy = Listed(r) /\ req'[r].due = req[r].due
  BY <1>1, <1>2 DEF Request
<1> QED BY <1>2, <1>3 DEF SeqOK, Listed

(***************************************************************************)
(* /unshield goes on with a note that is unspent.                          *)
(***************************************************************************)
LEMMA LoadNoteKnows ==
  ASSUME CInv, NEW r \in Requests, SeqOK(req[r], owners, spent), LoadNote(r), faults' = faults
  PROVE  SeqOK(req'[r], owners', spent')
<1>1. /\ req[r] \in Request /\ DOMAIN req = Requests
      /\ RequestOK(req[r], past[r], notes, spent, salts)
  BY AtRequest
<1>2. /\ req[r].pc = "load" /\ spent' = spent
      /\ Range(req[r].selected) = {Head(req[r].selected)}
      /\ Injective(req[r].selected)
  BY <1>1 DEF LoadNote, storage, RequestOK, SeqOK
<1>3. CASE \E answer : Reply(r, answer)
  <2>1. req'[r].pc = "done" BY <1>1, <1>3 DEF Reply, Idle
  <2> QED BY <2>1 DEF SeqOK
<1>4. CASE ~\E answer : Reply(r, answer)
  <2>1. PICK seen \in BOOLEAN :
          /\ SeenSpent(r, Head(req[r].selected), seen) /\ ~seen
          /\ req' = [req EXCEPT ![r].pc = "chain", ![r].todo = req[r].selected]
    BY <1>4 DEF LoadNote
  <2>2. Head(req[r].selected) \notin spent
    BY <2>1, NoFault
  <2>3. req'[r].pc = "chain" /\ req'[r].selected = req[r].selected
    BY <1>1, <2>1 DEF Request
  <2> QED BY <1>2, <2>2, <2>3 DEF SeqOK
<1> QED BY <1>3, <1>4

(***************************************************************************)
(* getBalance begins with the list as it is.                               *)
(***************************************************************************)
LEMMA ReadOwnedKnows ==
  ASSUME CInv, NEW r \in Requests, ReadOwned(r), faults' = faults
  PROVE  SeqOK(req'[r], owners', spent')
<1>1. /\ req[r] \in Request /\ DOMAIN req = Requests
      /\ RequestOK(req[r], past[r], notes, spent, salts)
      /\ owners \in [Owners -> Seq(Commitments)]
  BY AtRequest
<1> DEFINE list == owners[req[r].owner]
<1>2. /\ req[r].pc = "owned" /\ owners' = owners /\ req[r].selected = << >>
      /\ req' = [req EXCEPT ![r].pc = "scan", ![r].todo = list]
  BY <1>1, NoFault DEF ReadOwned, storage, RequestOK
<1>3. /\ req'[r].pc = "scan" /\ req'[r].todo = list /\ req'[r].selected = << >>
      /\ req'[r].owner = req[r].owner
  BY <1>1, <1>2 DEF Request
<1>4. list \in Seq(Commitments)
  BY <1>1 DEF Request
<1> HIDE DEF list
<1>5. Ends(list, list)
  <2>1. /\ 0 + Len(list) = Len(list) /\ 0 \in Nat
        /\ \A i \in DOMAIN list : list[i] = list[0 + i]
    BY <1>4
  <2> QED BY <2>1 DEF Ends
<1>6. Injective(req'[r].selected) /\ Range(req'[r].selected) = {}
  BY <1>3 DEF Injective, Range
<1>7. req'[r].pc = "scan" /\ req'[r].todo = list /\ owners'[req'[r].owner] = list
  BY <1>2, <1>3 DEF list
<1> QED BY <1>5, <1>6, <1>7 DEF SeqOK

(***************************************************************************)
(* What getBalance has still to visit is the end of the list: of the local *)
(* adapter too, which hands out the list itself.                           *)
(***************************************************************************)
LEMMA LeftToVisit ==
  ASSUME CInv, NEW r \in Requests, req[r].pc = "scan", req[r].todo # << >>,
         SeqOK(req[r], owners, spent), Injective(owners[req[r].owner])
  PROVE  ToVisit(r) = req[r].todo
<1> DEFINE x == req[r]
           list == owners[x.owner]
           todo == x.todo
<1>1. x \in Request /\ owners \in [Owners -> Seq(Commitments)]
  BY AtRequest
<1>2. todo \in Seq(Commitments) /\ todo # << >> /\ list \in Seq(Commitments)
  BY <1>1 DEF Request
<1>3. CASE adapter # "local"
  BY <1>3 DEF ToVisit
<1>4. CASE adapter = "local"
  <2> DEFINE at == CHOOSE i \in DOMAIN list : list[i] = Head(todo)
  <2>1. ToVisit(r) = SubSeq(list, at, Len(list))
    BY <1>4 DEF ToVisit
  <2>2. Ends(todo, list)
    BY DEF SeqOK
  <2> HIDE DEF list, todo
  <2>3. /\ \E i \in DOMAIN list : list[i] = Head(todo)
        /\ \A i \in DOMAIN list : list[i] = Head(todo) => SubSeq(list, i, Len(list)) = todo
    <3>1. Injective(list) BY DEF list
    <3> QED BY <1>2, <2>2, <3>1, EndOfList
  <2>4. at \in DOMAIN list /\ list[at] = Head(todo)
    BY <2>3
  <2> QED BY <2>1, <2>3, <2>4 DEF todo
<1> QED BY <1>3, <1>4

(***************************************************************************)
(* The next note of the list is one the scan has not met, and it is kept   *)
(* only when it is unspent.                                                *)
(***************************************************************************)
LEMMA ScanNoteKnows ==
  ASSUME CInv, NEW r \in Requests, SeqOK(req[r], owners, spent), ScanNote(r), faults' = faults,
         \A o \in Owners : Injective(owners[o])
  PROVE  SeqOK(req'[r], owners', spent')
<1> DEFINE x == req[r]
           c == Head(x.todo)
           list == owners[x.owner]
<1>1. /\ x \in Request /\ DOMAIN req = Requests /\ owners \in [Owners -> Seq(Commitments)]
  BY AtRequest
<1>2. /\ x.pc = "scan" /\ x.todo # << >> /\ owners' = owners /\ spent' = spent
  BY DEF ScanNote, storage
<1>3. x.owner \in Owners /\ Injective(list) /\ list \in Seq(Commitments)
      /\ x.todo \in Seq(Commitments) /\ x.selected \in Seq(Commitments)
  BY <1>1 DEF Request
<1>4. ToVisit(r) = x.todo
  BY <1>2, <1>3, LeftToVisit
<1>5. PICK s \in {x.selected, Append(x.selected, c)} :
        /\ s # x.selected => c \notin spent
        /\ req' = [req EXCEPT ![r].todo = Tail(x.todo), ![r].selected = s]
  <2>1. CASE \E seen \in BOOLEAN :
               /\ SeenSpent(r, c, seen)
               /\ req' = [req EXCEPT ![r].todo = Tail(ToVisit(r)),
                                     ![r].selected = IF seen THEN @ ELSE Append(@, c)]
    <3>1. PICK seen \in BOOLEAN :
               /\ SeenSpent(r, c, seen)
               /\ req' = [req EXCEPT ![r].todo = Tail(ToVisit(r)),
                                     ![r].selected = IF seen THEN @ ELSE Append(@, c)]
      BY <2>1
    <3>2. seen <=> c \in spent BY <3>1, NoFault
    <3>3. CASE seen BY <1>1, <1>4, <3>1, <3>3
    <3>4. CASE ~seen BY <1>1, <1>4, <3>1, <3>2, <3>4
    <3> QED BY <3>3, <3>4
  <2>2. CASE req' = [req EXCEPT ![r].todo = Tail(ToVisit(r))]
    <3>1. req' = [req EXCEPT ![r].todo = Tail(x.todo), ![r].selected = x.selected]
      BY <1>1, <1>4, <2>2 DEF Request
    <3> QED BY <3>1
  <2> QED BY <2>1, <2>2 DEF ScanNote
<1>6. /\ req'[r].pc = "scan" /\ req'[r].todo = Tail(x.todo) /\ req'[r].selected = s
      /\ req'[r].owner = x.owner
  BY <1>1, <1>2, <1>5 DEF Request
<1>7. /\ Injective(x.selected) /\ Range(x.selected) \cap Range(x.todo) = {}
      /\ Range(x.selected) \cap spent = {}
  BY <1>2 DEF SeqOK
<1> DEFINE t == Tail(x.todo)
<1>8. /\ c \in Commitments /\ c \notin Range(t)
      /\ Range(x.todo) = {c} \cup Range(t) /\ Ends(t, list)
  <2>1. Ends(x.todo, list) BY <1>2 DEF SeqOK
  <2> HIDE DEF list
  <2> QED BY <1>2, <1>3, <2>1, EndOfList
<1>9. x.selected \in Seq(Commitments) /\ req'[r].todo = t /\ owners'[req'[r].owner] = list
  BY <1>2, <1>3, <1>6
<1> HIDE DEF list, x, c, t
<1>10. c \notin Range(x.selected)
  BY <1>7, <1>8
<1>11. /\ Injective(s) /\ Range(s) \subseteq Range(x.selected) \cup {c}
       /\ Range(s) \cap spent = {}
  <2>1. CASE s = x.selected BY <1>7, <2>1
  <2>2. CASE s # x.selected
    <3>1. s = Append(x.selected, c) /\ c \notin spent
      BY <1>5, <2>2 DEF c, x
    <3> QED BY <1>7, <1>8, <1>9, <1>10, <3>1, InjectiveLists
  <2> QED BY <2>1, <2>2
<1>12. Range(s) \cap Range(t) = {}
  BY <1>7, <1>8, <1>11
<1> QED BY <1>2, <1>6, <1>8, <1>9, <1>11, <1>12 DEF SeqOK

(***************************************************************************)
(* The selection covers the amount, of notes that are unspent, once each.  *)
(***************************************************************************)
LEMMA SelectNotesKnows ==
  ASSUME CInv, NEW r \in Requests, SeqOK(req[r], owners, spent), SelectNotes(r)
  PROVE  SeqOK(req'[r], owners', spent')
<1> DEFINE x == req[r]
<1>1. /\ x \in Request /\ DOMAIN req = Requests
      /\ RequestOK(x, past[r], notes, spent, salts)
      /\ \A c \in DOMAIN notes : notes[c].amount \in Nat
  BY AtRequest
<1>2. x.pc = "scan" /\ spent' = spent
  BY DEF SelectNotes, storage
<1>3. /\ x.selected \in Seq(Nat) /\ Range(x.selected) \subseteq DOMAIN notes
      /\ x.amount \in Nat
      /\ Injective(x.selected) /\ Range(x.selected) \cap spent = {}
  BY <1>1, <1>2 DEF RequestOK, SeqOK, Request
<1>4. CASE Total(Range(x.selected)) < x.amount
  <2>1. Reply(r, "refused") BY <1>4 DEF SelectNotes
  <2>2. req'[r].pc = "done" BY <1>1, <2>1 DEF Reply, Idle
  <2> QED BY <2>2 DEF SeqOK
<1>5. CASE ~(Total(Range(x.selected)) < x.amount)
  <2>1. PICK list \in Selections(x.selected, x.amount) :
          req' = [req EXCEPT ![r].pc = "chain", ![r].selected = list, ![r].todo = list]
    BY <1>5 DEF SelectNotes
  <2>2. req'[r].pc = "chain" /\ req'[r].selected = list
    BY <1>1, <2>1 DEF Request
  <2> HIDE DEF x
  <2>3. Valued(notes, Range(x.selected))
    BY <1>1, <1>3, ListFinite
  <2>4. Worth(notes, Range(x.selected)) \in Nat
    BY <2>3, WorthFacts
  <2>5. x.amount <= Worth(notes, Range(x.selected))
    BY <1>3, <1>5, <2>4, WorthNames
  <2>6. \A c \in Range(x.selected) : notes[c].amount \in Nat
    BY <1>1, <1>3
  <2>7. Injective(list)
    BY <1>3, <2>5, <2>6, SelectionCovers
  <2>8. Range(list) \subseteq Range(x.selected)
    BY <1>3, SelectionsAreNotes
  <2> QED BY <1>2, <1>3, <2>2, <2>7, <2>8 DEF SeqOK
<1> QED BY <1>4, <1>5

(***************************************************************************)
(* The pool has no nullifier of an unspent note, so that the cross-check   *)
(* goes through.                                                           *)
(***************************************************************************)
LEMMA CheckChainKnows ==
  ASSUME CInv, NEW r \in Requests, SeqOK(req[r], owners, spent), CheckChain(r)
  PROVE  SeqOK(req'[r], owners', spent')
<1> DEFINE x == req[r]
           c == Head(x.todo)
<1>1. /\ x \in Request /\ DOMAIN req = Requests
      /\ RequestOK(x, past[r], notes, spent, salts) /\ LoopOK(x, adapter, owners)
  BY AtRequest
<1>2. x.pc = "chain" /\ x.todo # << >> /\ spent' = spent
  BY DEF CheckChain, storage
<1>3. /\ Injective(x.selected) /\ Range(x.selected) \cap spent = {}
      /\ Range(x.selected) \subseteq DOMAIN notes
  BY <1>1, <1>2 DEF SeqOK, RequestOK
<1>4. c \in Range(x.selected)
  <2>1. c \in Range(x.todo) BY <1>1, <1>2, HeadAndTail DEF Request
  <2> QED BY <1>1, <1>2, <2>1 DEF LoopOK
<1>5. c \notin nullified
  <2> SUFFICES ASSUME c \in nullified PROVE FALSE
    OBVIOUS
  <2>1. PICK s \in Signed : c \in NotesSignedBy(s)
    BY DEF CInv, BookInv
  <2>2. c \in spent
    <3>1. SignedIsLocked BY InvariantImplies DEF CInv
    <3>2. c \in DOMAIN notes BY <1>3, <1>4
    <3> QED BY <2>1, <3>1, <3>2 DEF SignedIsLocked
  <2> QED BY <1>3, <1>4, <2>2
<1>6. req' = [req EXCEPT ![r].todo = Tail(@)]
  BY <1>5 DEF CheckChain
<1>7. req'[r].pc = "chain" /\ req'[r].selected = x.selected
  BY <1>1, <1>2, <1>6 DEF Request
<1> QED BY <1>2, <1>3, <1>7 DEF SeqOK

(***************************************************************************)
(* The notes to spend are those selected.                                  *)
(***************************************************************************)
LEMMA BuildParamsKnows ==
  ASSUME CInv, NEW r \in Requests, SeqOK(req[r], owners, spent), BuildParams(r)
  PROVE  SeqOK(req'[r], owners', spent')
<1> DEFINE x == req[r]
<1>1. x \in Request /\ DOMAIN req = Requests
  BY AtRequest
<1>2. x.pc = "chain" /\ spent' = spent /\ ~x.sync
  BY NothingHeld DEF BuildParams, storage
<1>3. Injective(x.selected) /\ Range(x.selected) \cap spent = {}
  BY <1>2 DEF SeqOK
<1>4. req'[r].pc = "check" /\ req'[r].todo = x.selected /\ req'[r].sync = x.sync
  BY <1>1 DEF BuildParams, Request
<1> QED BY <1>2, <1>3, <1>4 DEF SeqOK

(***************************************************************************)
(* spendNote finds the note unspent, and marks it.                         *)
(***************************************************************************)
LEMMA CheckSpentKnows ==
  ASSUME CInv, NEW r \in Requests, SeqOK(req[r], owners, spent), CheckSpent(r),
         faults' = faults
  PROVE  SeqOK(req'[r], owners', spent') /\ Head(req[r].todo) \notin spent
<1> DEFINE x == req[r]
           c == Head(x.todo)
<1>1. x \in Request /\ DOMAIN req = Requests
  BY AtRequest
<1>2. x.pc = "check" /\ x.todo # << >> /\ spent' = spent
  BY DEF CheckSpent, storage
<1>3. ~x.sync /\ Injective(x.todo) /\ Range(x.todo) \cap spent = {}
  BY <1>2 DEF SeqOK
<1>4. c \notin spent
  <2>1. c \in Range(x.todo) BY <1>1, <1>2, HeadAndTail DEF Request
  <2> QED BY <1>3, <2>1
<1>5. PICK seen \in BOOLEAN : /\ SeenSpent(r, c, seen)
                              /\ IF seen THEN Reply(r, "refused") ELSE Goto(r, "mark")
  BY DEF CheckSpent
<1>6. Goto(r, "mark")
  <2>1. ~seen BY <1>4, <1>5, NoFault
  <2> QED BY <1>5, <2>1
<1>7. req'[r].pc = "mark" /\ req'[r].todo = x.todo /\ req'[r].sync = x.sync
  BY <1>1, <1>6 DEF Goto, Request
<1> QED BY <1>2, <1>3, <1>4, <1>7 DEF SeqOK

(***************************************************************************)
(* spendNote, second half: the note was unspent until this mark, and the   *)
(* notes still to be marked are unspent.                                   *)
(***************************************************************************)
LEMMA MarkSpentKnows ==
  ASSUME CInv, NEW r \in Requests, SeqOK(req[r], owners, spent), MarkSpent(r)
  PROVE  /\ SeqOK(req'[r], owners', spent')
         /\ ~req[r].sync /\ Head(req[r].todo) \notin spent
<1> DEFINE x == req[r]
           c == Head(x.todo)
<1>1. /\ x \in Request /\ DOMAIN req = Requests /\ LoopOK(x, adapter, owners)
  BY AtRequest
<1>2. x.pc = "mark" /\ spent' = spent \cup {c}
  BY DEF MarkSpent, Mark
<1>3. /\ ~x.sync /\ Injective(x.todo) /\ Range(x.todo) \cap spent = {}
      /\ x.todo \in Seq(Commitments) /\ x.todo # << >>
  BY <1>1, <1>2 DEF SeqOK, LoopOK, Request
<1>4. /\ Range(x.todo) = {c} \cup Range(Tail(x.todo))
      /\ Injective(Tail(x.todo)) /\ c \notin Range(Tail(x.todo))
  BY <1>3, HeadAndTail, InjectiveLists
<1>5. CASE Tail(x.todo) # << >>
  <2>1. req' = [req EXCEPT ![r].pc = "check", ![r].todo = Tail(@)]
    BY <1>3, <1>5 DEF MarkSpent
  <2>2. req'[r].pc = "check" /\ req'[r].todo = Tail(x.todo) /\ req'[r].sync = x.sync
    BY <1>1, <2>1 DEF Request
  <2> HIDE DEF x, c
  <2>3. Range(Tail(x.todo)) \cap spent' = {}
    BY <1>2, <1>3, <1>4
  <2> QED BY <1>3, <1>4, <2>2, <2>3 DEF SeqOK, x, c
<1>6. CASE Tail(x.todo) = << >>
  <2>1. CreateOr(r, x.due, Sign(r))
    BY <1>3, <1>6 DEF MarkSpent
  <2>2. req'[r].pc \in {"put", "done"}
    BY <1>1, <2>1 DEF CreateOr, Sign, Request
  <2>3. SeqOK(req'[r], owners', spent')
    BY <2>2 DEF SeqOK
  <2> QED BY <1>3, <1>4, <2>3
<1> QED BY <1>5, <1>6

(***************************************************************************)
(* What a request knows is true, one step after the other.                 *)
(***************************************************************************)
LEMMA ProceedKnows ==
  ASSUME CInv, NEW r \in Requests, SeqOK(req[r], owners, spent), Proceed(r),
         \A o \in Owners : Injective(owners[o]), faults' = 0
  PROVE  SeqOK(req'[r], owners', spent')
<1>1. /\ faults' = faults /\ ~CallFails(r) /\ ~UploadFails(r)
  BY ProceedAlone
<1>2. /\ req[r] \in Request /\ DOMAIN req = Requests
  BY AtRequest
<1>3. CASE req'[r].pc \in {"wait", "put", "list", "params", "done"}
  BY <1>3 DEF SeqOK
<1>4. CASE EventFound(r) \/ EventMissing(r)
  <2>1. \A answer : Reply(r, answer) => req'[r].pc = "done"
    BY <1>2 DEF Reply, Idle
  <2>2. \A due, after : CreateOr(r, due, after) /\ due # << >> => req'[r].pc = "put"
    BY <1>2 DEF CreateOr, Request
  <2>3. ASSUME EventFound(r) PROVE req'[r].pc \in {"put", "done"}
    <3>1. << NoteOf(req[r].owner, req[r].amount) >> # << >> OBVIOUS
    <3> QED BY <2>1, <2>2, <2>3, <3>1 DEF EventFound
  <2>4. ASSUME EventMissing(r) PROVE req'[r].pc \in {"wait", "done"}
    <3>1. CASE req' = [req EXCEPT ![r].polls = @ + 1]
      BY <1>2, <2>4, <3>1 DEF EventMissing, Request
    <3> QED BY <2>1, <2>4, <3>1 DEF EventMissing
  <2> QED BY <1>3, <1>4, <2>3, <2>4
<1>5. CASE PutNote(r) \/ SignTransfer(r)
  <2>1. req'[r].pc \in {"list", "done"}
    BY <1>2, <1>5 DEF PutNote, SignTransfer, Goto, Sign, Request
  <2> QED BY <1>3, <2>1
<1>6. CASE AppendOwner(r)
  <2>1. req'[r].pc \in {"put", "params", "done"}
    BY <1>2, <1>6 DEF AppendOwner, NoteCreated, CreateOr, Request
  <2> QED BY <1>3, <2>1
<1>7. CASE ReadList(r) \/ LoadNote(r) \/ ReadOwned(r) \/ ScanNote(r)
  BY <1>1, <1>7, ReadListKnows, LoadNoteKnows, ReadOwnedKnows, ScanNoteKnows
<1>8. CASE SelectNotes(r) \/ CheckChain(r) \/ BuildParams(r)
  BY <1>8, SelectNotesKnows, CheckChainKnows, BuildParamsKnows
<1>9. CASE CheckSpent(r) \/ MarkSpent(r)
  BY <1>1, <1>9, CheckSpentKnows, MarkSpentKnows
<1> QED BY <1>1, <1>4, <1>5, <1>6, <1>7, <1>8, <1>9 DEF Proceed

-----------------------------------------------------------------------------
(***************************************************************************)
(* A step that neither writes the lists nor reaches or leaves the writing. *)
(***************************************************************************)
LEMMA ListsQuiet ==
  ASSUME ListsOK, notes' = notes, owners' = owners,
         \A q \in Requests : \A c : Listing(req'[q], c) <=> Listing(req[q], c)
  PROVE  ListsOK'
BY DEF ListsOK

(***************************************************************************)
(* createNote stores a note before it is on a list.                        *)
(***************************************************************************)
LEMMA PutNoteLists ==
  ASSUME CInv, NEW r \in Requests, PutNote(r), ListsOK,
         \A q \in Requests \ {r} : req'[q] = req[q] /\ req[q].pc \in {"idle", "done"}
  PROVE  ListsOK'
<1> DEFINE d == req[r].draft
<1>1. /\ req[r].pc = "put" /\ owners' = owners /\ Put(r) /\ Goto(r, "list")
      /\ req[r] \in Request /\ DOMAIN req = Requests
  BY AtRequest DEF PutNote
<1>2. req'[r].pc = "list" /\ req'[r].draft = d
  BY <1>1 DEF Goto, Request
<1>3. /\ DOMAIN notes' = DOMAIN notes \cup {d} /\ d \notin DOMAIN notes
      /\ \A c \in DOMAIN notes : notes'[c] = notes[c]
  BY <1>1, StoredNotes DEF Put
<1>4. \A o \in Owners : d \notin Range(owners[o])
  BY <1>3 DEF CInv, IInv, OwnedBy
<1>5. \A q \in Requests : \A c : ~Listing(req[q], c)
  BY <1>1 DEF Listing
<1>6. \A q \in Requests : \A c : Listing(req'[q], c) <=> q = r /\ c = d
  BY <1>2 DEF Listing
<1>7. \A c \in DOMAIN notes : c \in Range(owners[notes[c].owner])
  BY <1>5 DEF ListsOK
<1>8. \A o \in Owners : Injective(owners[o])
  BY DEF ListsOK
<1> HIDE DEF d
<1>9. \A c \in DOMAIN notes' :
        \/ c \in Range(owners'[notes'[c].owner])
        \/ \E q \in Requests : Listing(req'[q], c)
  BY <1>1, <1>3, <1>6, <1>7
<1>10. \A q \in Requests : \A c : Listing(req'[q], c) =>
         \A o \in Owners : c \notin Range(owners'[o])
  BY <1>1, <1>4, <1>6
<1> QED BY <1>1, <1>8, <1>9, <1>10 DEF ListsOK

(***************************************************************************)
(* The list is written with the note, and nothing is lost of it.           *)
(***************************************************************************)
LEMMA AppendOwnerLists ==
  ASSUME CInv, NEW r \in Requests, AppendOwner(r), ListsOK, SeqOK(req[r], owners, spent),
         \A q \in Requests \ {r} : req'[q] = req[q] /\ req[q].pc \in {"idle", "done"}
  PROVE  ListsOK'
<1> DEFINE d == req[r].draft
           o == Head(req[r].due).owner
<1>1. /\ req[r].pc \in {"list", "append"} /\ notes' = notes
      /\ req[r] \in Request /\ DOMAIN req = Requests
      /\ RequestOK(req[r], past[r], notes, spent, salts)
      /\ owners \in [Owners -> Seq(Commitments)] /\ salts \in Nat
  BY AtRequest DEF AppendOwner
<1>2. OwnedBy(notes, d, o) /\ d \in Commitments /\ o \in Owners
  <2>1. req[r].pc \in Creating BY <1>1 DEF Creating
  <2>2. d \in 1..salts BY <1>1, <2>1, DraftDrawn
  <2>3. o \in Owners BY <1>1, <2>1, DueParts DEF RequestOK
  <2> QED BY <1>1, <2>2, <2>3 DEF RequestOK, Commitments
<1>3. owners' = [owners EXCEPT ![o] = Append(owners[o], d)]
  <2>1. req[r].pc = "append" => req[r].copy = owners[o]
    BY DEF SeqOK
  <2> QED BY <2>1 DEF AppendOwner, AppendTo, Listed
<1>4. req'[r].pc \in {"put", "params", "done"}
  <2>1. ASSUME Tail(req[r].due) # << >> PROVE req'[r].pc = "put"
    BY <1>1, <2>1 DEF AppendOwner, NoteCreated, CreateOr, Request
  <2>2. ASSUME Tail(req[r].due) = << >>, req[r].kind = "transfer"
        PROVE  req'[r].pc = "params"
    BY <1>1, <2>2 DEF AppendOwner, NoteCreated, CreateOr, Request
  <2>3. ASSUME Tail(req[r].due) = << >>, req[r].kind # "transfer"
        PROVE  req'[r].pc = "done"
    BY <1>1, <2>3 DEF AppendOwner, NoteCreated, CreateOr, Request
  <2> QED BY <2>1, <2>2, <2>3
<1>5. Listing(req[r], d)
  BY <1>1 DEF Listing
<1>6. \A q \in Requests : \A c : ~Listing(req'[q], c)
  BY <1>4 DEF Listing
<1>7. \A q \in Requests : \A c : Listing(req[q], c) => c = d
  BY DEF Listing
<1> HIDE DEF d, o
<1>8. /\ Injective(owners[o]) /\ d \notin Range(owners[o]) /\ owners[o] \in Seq(Commitments)
  BY <1>1, <1>2, <1>5 DEF ListsOK
<1>9. /\ Injective(Append(owners[o], d))
      /\ Range(Append(owners[o], d)) = Range(owners[o]) \cup {d}
  BY <1>2, <1>8, InjectiveLists
<1>10. \A p \in Owners : /\ Injective(owners'[p])
                         /\ Range(owners'[p]) = Range(owners[p]) \cup (IF p = o THEN {d} ELSE {})
  BY <1>1, <1>3, <1>9 DEF ListsOK
<1>11. \A c \in DOMAIN notes : c \in Range(owners'[notes[c].owner])
  <2> TAKE c \in DOMAIN notes
  <2>1. notes[c].owner \in Owners BY AtRequest DEF Note
  <2>2. c \in Range(owners[notes[c].owner]) \/ c = d
    BY <1>7 DEF ListsOK
  <2>3. c = d => notes[c].owner = o BY <1>2 DEF OwnedBy
  <2> QED BY <1>10, <2>1, <2>2, <2>3
<1> QED BY <1>1, <1>6, <1>10, <1>11 DEF ListsOK

(***************************************************************************)
(* The other steps of a handler leave the lists as they are.               *)
(***************************************************************************)
LEMMA ProceedLists ==
  ASSUME CInv, NEW r \in Requests, Proceed(r), faults' = 0, ListsOK,
         SeqOK(req[r], owners, spent), Follows(r, req'[r]),
         \A q \in Requests \ {r} : req'[q] = req[q] /\ req[q].pc \in {"idle", "done"}
  PROVE  ListsOK'
<1>1. ~CallFails(r) /\ ~UploadFails(r) /\ faults' = faults
  BY ProceedAlone
<1>2. CASE PutNote(r) BY <1>2, PutNoteLists
<1>3. CASE AppendOwner(r) BY <1>3, AppendOwnerLists
<1>4. CASE ReadList(r)
  <2>1. req[r] \in Request /\ DOMAIN req = Requests
    BY AtRequest
  <2>2. /\ notes' = notes /\ owners' = owners /\ req[r].pc = "list"
        /\ req' = [req EXCEPT ![r].pc = "append", ![r].copy = Listed(r)]
    BY <1>1, <1>4, NoFault DEF ReadList, storage
  <2>3. req'[r].pc = "append" /\ req'[r].draft = req[r].draft
    BY <2>1, <2>2 DEF Request
  <2>4. \A q \in Requests : \A c : Listing(req'[q], c) <=> Listing(req[q], c)
    BY <2>2, <2>3 DEF Listing
  <2> QED BY <2>2, <2>4, ListsQuiet
<1>5. CASE ~PutNote(r) /\ ~AppendOwner(r) /\ ~ReadList(r)
  <2>1. /\ notes' = notes /\ owners' = owners
        /\ req[r].pc \notin {"put", "list", "append"}
    <3>1. CASE EventFound(r) \/ EventMissing(r) \/ LoadNote(r) \/ ReadOwned(r)
      BY <3>1 DEF EventFound, EventMissing, LoadNote, ReadOwned, storage
    <3>2. CASE ScanNote(r) \/ SelectNotes(r) \/ CheckChain(r) \/ BuildParams(r)
      BY <3>2 DEF ScanNote, SelectNotes, CheckChain, BuildParams, storage
    <3>3. CASE CheckSpent(r) \/ MarkSpent(r) \/ SignTransfer(r)
      BY <3>3 DEF CheckSpent, MarkSpent, SignTransfer, storage
    <3> QED BY <1>1, <1>5, <3>1, <3>2, <3>3 DEF Proceed
  <2>2. req'[r].pc \notin {"list", "append"}
    BY <2>1 DEF Follows
  <2>3. \A q \in Requests : \A c : Listing(req'[q], c) <=> Listing(req[q], c)
    BY <2>1, <2>2 DEF Listing
  <2> QED BY <2>1, <2>3, ListsQuiet
<1> QED BY <1>2, <1>3, <1>4, <1>5

(***************************************************************************)
(* A signature is given after the last mark of an unshield, or at the end  *)
(* of a transfer, for the notes selected.                                  *)
(***************************************************************************)
LEMMA SignsWhen ==
  ASSUME CInv, NEW r \in Requests, Proceed(r), faults' = 0, req'[r].answer = "signed"
  PROVE  /\ MarkSpent(r) \/ SignTransfer(r)
         /\ req'[r].selected = req[r].selected
<1>1. ~CallFails(r) /\ ~UploadFails(r) /\ r \in InProgress
  BY ProceedAlone
<1>2. /\ req[r] \in Request /\ DOMAIN req = Requests /\ req[r].answer # "signed"
  BY <1>1, AtRequest DEF RequestOK, InProgress
<1>3. \A answer \in {"refused", "error"} : ~Reply(r, answer)
  BY <1>2 DEF Reply, Idle
<1>4. ~EventFound(r)
  <2>1. ASSUME NEW due, NEW after, CreateOr(r, due, after), due # << >> PROVE FALSE
    BY <1>2, <2>1 DEF CreateOr, Request
  <2>2. << NoteOf(req[r].owner, req[r].amount) >> # << >> OBVIOUS
  <2> QED BY <1>3, <2>1, <2>2 DEF EventFound
<1>5. ~EventMissing(r)
  BY <1>2, <1>3 DEF EventMissing, Request
<1>6. ~PutNote(r) /\ ~ReadList(r)
  BY <1>2 DEF PutNote, Goto, ReadList, Request
<1>7. ~AppendOwner(r)
  BY <1>2 DEF AppendOwner, NoteCreated, CreateOr, Request
<1>8. ~LoadNote(r)
  BY <1>2, <1>3 DEF LoadNote, Request
<1>9. ~ReadOwned(r)
  <2>1. req' # [req EXCEPT ![r].pc = "scan", ![r].todo = owners[req[r].owner]]
    BY <1>2 DEF Request
  <2>2. ~Goto(r, "scan")
    BY <1>2 DEF Goto, Request
  <2> QED BY <2>1, <2>2 DEF ReadOwned
<1>10. ~ScanNote(r)
  <2>1. \A t, s : req' # [req EXCEPT ![r].todo = t, ![r].selected = s]
    BY <1>2 DEF Request
  <2>2. \A t : req' # [req EXCEPT ![r].todo = t]
    BY <1>2 DEF Request
  <2> QED BY <2>1, <2>2 DEF ScanNote
<1>11. ~SelectNotes(r)
  <2>1. \A s : req' # [req EXCEPT ![r].pc = "chain", ![r].selected = s, ![r].todo = s]
    BY <1>2 DEF Request
  <2> QED BY <1>3, <2>1 DEF SelectNotes
<1>12. ~CheckChain(r) /\ ~BuildParams(r)
  <2>1. \A t : req' # [req EXCEPT ![r].pc = "check", ![r].sync = TRUE, ![r].todo = t]
    BY <1>2 DEF Request
  <2>2. req' # [req EXCEPT ![r].todo = Tail(@)]
    BY <1>2 DEF Request
  <2>3. \A t, b, d : req' # [req EXCEPT ![r].pc = "check", ![r].todo = t, ![r].built = b,
                                       ![r].due = d]
    BY <1>2 DEF Request
  <2>4. ~CheckChain(r)
    BY <2>1, <2>2 DEF CheckChain
  <2>5. ~BuildParams(r)
    <3> DEFINE n == IF req[r].kind = "transfer" THEN Len(NewNotes(r)) ELSE 0
               b == [i \in 1..n |-> salts + i]
               d == IF n = 0 THEN << >> ELSE NewNotes(r)
    <3>1. BuildParams(r) => req' = [req EXCEPT ![r].pc = "check", ![r].todo = req[r].selected,
                                               ![r].built = b, ![r].due = d]
      BY DEF BuildParams
    <3> HIDE DEF n, b, d
    <3> QED BY <2>3, <3>1
  <2> QED BY <2>4, <2>5
<1>13. ~CheckSpent(r)
  BY <1>2, <1>3 DEF CheckSpent, Goto, Request
<1>14. MarkSpent(r) \/ SignTransfer(r)
  BY <1>1, <1>4, <1>5, <1>6, <1>7, <1>8, <1>9, <1>10, <1>11, <1>12, <1>13 DEF Proceed
<1>15. req'[r].selected = req[r].selected
  <2>1. CASE MarkSpent(r)
    BY <1>2, <1>3, <2>1 DEF MarkSpent, CreateOr, Sign, Request
  <2>2. CASE SignTransfer(r)
    BY <1>2, <2>2 DEF SignTransfer, Sign, Request
  <2> QED BY <1>14, <2>1, <2>2
<1> QED BY <1>14, <1>15

(***************************************************************************)
(* Where no two requests ever overlap a request arrives when none is in    *)
(* progress.                                                               *)
(***************************************************************************)
LEMMA StillSequential ==
  ASSUME CInv, NEW r \in Requests, Arrive(r) \/ Proceed(r), Sequential'
  PROVE  /\ Sequential /\ faults' = faults /\ faults' = 0
         /\ Proceed(r) => r \in InProgress
         /\ Arrive(r) => /\ InProgress = {} /\ req[r].pc = "idle"
                         /\ UNCHANGED <<notes, owners, spent>>
                         /\ SeqOK(req'[r], owners', spent')
                         /\ req'[r].answer = "none"
<1>0. ~overlap' /\ faults' = 0 /\ overlap \in BOOLEAN
  BY AtRequest DEF Sequential
<1>1. CASE Proceed(r)
  <2>1. req[r].pc # "idle" /\ faults = 0 /\ overlap' = overlap /\ r \in InProgress
    BY <1>0, <1>1, ProceedAlone DEF InProgress
  <2>2. ~Arrive(r)
    BY <2>1 DEF Arrive, StartShield, StartUnshield, StartTransfer, Start
  <2> QED BY <1>0, <2>1, <2>2 DEF Sequential
<1>2. CASE Arrive(r)
  <2>1. PICK new : /\ Start(r, new) /\ new.answer = "none"
                   /\ new.pc \in {"wait", "load", "owned"}
                   /\ new.pc = "load" => \E c : new.selected = << c >>
    <3> DEFINE Begins(x) == /\ Start(r, x) /\ x.answer = "none"
                            /\ x.pc \in {"wait", "load", "owned"}
                            /\ x.pc = "load" => \E c : x.selected = << c >>
    <3>1. ASSUME NEW n, NEW d, StartShield(r, d, n)
          PROVE  \E x : Begins(x)
      <4> DEFINE x == [Idle EXCEPT !.pc = "wait", !.kind = "shield", !.owner = DepositOwner[d],
                               !.deposit = d, !.amount = n]
      <4>1. Start(r, x) BY <3>1 DEF StartShield
      <4>2. x.answer = "none" /\ x.pc \in {"wait", "load", "owned"}
            /\ (x.pc = "load" => \E e : x.selected = << e >>)
        BY DEF Idle
      <4> HIDE DEF x
      <4> QED BY <4>1, <4>2
    <3>2. ASSUME NEW n, NEW o, NEW c, StartUnshield(r, o, c, n)
          PROVE  \E x : Begins(x)
      <4> DEFINE x == [Idle EXCEPT !.pc = "load", !.kind = "unshield", !.owner = o,
                               !.selected = << c >>, !.amount = n]
      <4>1. Start(r, x) BY <3>2 DEF StartUnshield
      <4>2. x.answer = "none" /\ x.pc \in {"wait", "load", "owned"}
            /\ (x.pc = "load" => \E e : x.selected = << e >>)
        BY DEF Idle
      <4> HIDE DEF x
      <4> QED BY <4>1, <4>2
    <3>3. ASSUME NEW n, NEW from, NEW to, StartTransfer(r, from, to, n)
          PROVE  \E x : Begins(x)
      <4> DEFINE x == [Idle EXCEPT !.pc = "owned", !.kind = "transfer", !.owner = from,
                               !.to = to, !.amount = n]
      <4>1. Start(r, x) BY <3>3 DEF StartTransfer
      <4>2. x.answer = "none" /\ x.pc \in {"wait", "load", "owned"}
            /\ (x.pc = "load" => \E e : x.selected = << e >>)
        BY DEF Idle
      <4> HIDE DEF x
      <4> QED BY <4>1, <4>2
    <3> HIDE DEF Begins
    <3>4. \E x : Begins(x) BY <1>2, <3>1, <3>2, <3>3 DEF Arrive
    <3> QED BY <3>4 DEF Begins
  <2>2. /\ req[r].pc = "idle" /\ req'[r] = new /\ faults' = faults
        /\ UNCHANGED <<notes, owners, spent>>
    BY <2>1, AtRequest DEF Start, storage
  <2>3. ~overlap /\ InProgress = {}
    <3>1. overlap' = (overlap \/ InProgress # {}) BY <2>1 DEF Start
    <3> QED BY <1>0, <3>1
  <2>4. \A c : Injective(<< c >>)
    BY DEF Injective
  <2>5. SeqOK(new, owners', spent')
    BY <2>1, <2>4 DEF SeqOK
  <2>6. r \notin InProgress BY <2>3
  <2>7. ~Proceed(r) BY <1>0, <2>6, ProceedAlone
  <2> QED BY <1>0, <2>1, <2>2, <2>3, <2>5, <2>7 DEF Sequential
<1> QED BY <1>1, <1>2

(***************************************************************************)
(* One request after the other: what is known of them, and of the lists.   *)
(***************************************************************************)
LEMMA ShapeKept ==
  ASSUME CInv, SeqShape, NEW r \in Requests, NEW new, Moves(r, new), Follows(r, new),
         Arrive(r) \/ Proceed(r), Sequential'
  PROVE  SeqShape'
<1>1. /\ req'[r] = new /\ \A q \in Requests \ {r} : req'[q] = req[q]
  BY AtRequest DEF Moves
<1>2. \A q \in Requests \ {r} : req[q].pc \in {"idle", "done"}
  BY StillSequential DEF SeqShape, InProgress
<1>3. SeqOK(req'[r], owners', spent') /\ ListsOK'
  <2>1. CASE Arrive(r)
    <3>1. /\ req[r].pc = "idle" /\ notes' = notes /\ owners' = owners
          /\ SeqOK(req'[r], owners', spent')
      BY <2>1, StillSequential
    <3>2. req'[r].pc \notin {"list", "append"}
      BY <1>1, <3>1 DEF Follows
    <3>3. \A q \in Requests : \A c : Listing(req'[q], c) <=> Listing(req[q], c)
      BY <1>1, <3>1, <3>2 DEF Listing
    <3> QED BY <3>1, <3>3, ListsQuiet DEF SeqShape
  <2>2. CASE Proceed(r)
    <3>1. faults' = 0 BY StillSequential
    <3>2. SeqOK(req[r], owners, spent) /\ ListsOK /\ \A o \in Owners : Injective(owners[o])
      BY DEF SeqShape, ListsOK
    <3> QED BY <1>1, <1>2, <2>2, <3>1, <3>2, ProceedKnows, ProceedLists
  <2> QED BY <2>1, <2>2
<1>4. \A q \in Requests : SeqOK(req'[q], owners', spent')
  <2> TAKE q \in Requests
  <2>1. CASE q = r BY <1>3, <2>1
  <2>2. CASE q # r
    <3>1. req'[q].pc \in {"idle", "done"} BY <1>1, <1>2, <2>2
    <3> QED BY <3>1 DEF SeqOK
  <2> QED BY <2>1, <2>2
<1>5. \A p, q \in InProgress' : p = q
  BY <1>1, <1>2 DEF InProgress
<1>6. ASSUME NEW q \in Unshields' PROVE Head(req'[q].selected) \in DOMAIN notes'
  <2>1. DOMAIN notes \subseteq DOMAIN notes'
    BY StoredNotes DEF Moves, Around
  <2>2. q \in Requests /\ req'[q].answer = "signed" /\ req'[q].kind = "unshield"
    BY <1>6 DEF Unshields, Signed
  <2>3. CASE q # r
    <3>1. req'[q] = req[q] /\ q \in Unshields
      BY <1>1, <2>2, <2>3 DEF Unshields, Signed
    <3> QED BY <2>1, <3>1 DEF SeqShape
  <2>4. CASE q = r
    <3>1. Proceed(r) /\ faults' = 0
      BY <2>2, <2>4, StillSequential
    <3>2. (MarkSpent(r) \/ SignTransfer(r)) /\ req'[r].selected = req[r].selected
      BY <2>2, <2>4, <3>1, SignsWhen
    <3>3. BookOK(req[r], past[r], notes, spent) /\ RequestOK(req[r], past[r], notes, spent, salts)
      BY AtRequest
    <3>4. req[r].pc \in {"mark", "params"} /\ req[r].kind = "unshield"
      BY <1>1, <2>2, <2>4, <3>2 DEF MarkSpent, SignTransfer, Follows
    <3>5. req[r].pc = "mark" /\ Range(req[r].selected) = {Head(req[r].selected)}
      BY <3>3, <3>4 DEF BookOK
    <3>6. Range(req[r].selected) \subseteq DOMAIN notes
      BY <3>3, <3>5 DEF RequestOK
    <3> QED BY <2>1, <2>4, <3>2, <3>5, <3>6
  <2> QED BY <2>3, <2>4
<1> QED BY <1>3, <1>4, <1>5, <1>6 DEF SeqShape

(***************************************************************************)
(* What the requests earn changes as much as the one that steps.           *)
(***************************************************************************)
LEMMA EarnedChanges ==
  ASSUME CInv, NEW r \in Requests, NEW new, Moves(r, new)
  PROVE  /\ EarnedSum' + Earned(req[r]) = EarnedSum + Earned(new)
         /\ EarnedSum \in Nat /\ EarnedSum' \in Nat
         /\ Earned(req[r]) \in Nat /\ Earned(new) \in Nat
<1> DEFINE f == [q \in Requests |-> Earned(req[q])]
           g == [q \in Requests |-> Earned(req'[q])]
<1>1. EarnedSum = SumFunctionOnSet(f, Requests) /\ EarnedSum' = SumFunctionOnSet(g, Requests)
  BY DEF EarnedSum
<1>2. /\ req'[r] = new /\ new \in Request
      /\ \A q \in Requests \ {r} : req'[q] = req[q]
      /\ \A q \in Requests : req[q] \in Request
  BY AtRequest DEF Moves
<1>3. \A q \in Requests : f[q] \in Nat
  BY <1>2, EarnedNat
<1>4. \A q \in Requests : g[q] \in Nat
  BY <1>2, EarnedNat
<1>5. /\ \A q \in Requests \ {r} : g[q] = f[q]
      /\ f[r] = Earned(req[r]) /\ g[r] = Earned(new)
  BY <1>2
<1>6. IsFiniteSet(Requests) BY SumTypes
<1> HIDE DEF f, g
<1>7. SumFunctionOnSet(g, Requests) + f[r] = SumFunctionOnSet(f, Requests) + g[r]
  BY <1>3, <1>4, <1>5, <1>6, SumChanged
<1>8. SumFunctionOnSet(g, Requests) \in Nat /\ SumFunctionOnSet(f, Requests) \in Nat
  BY <1>3, <1>4, <1>6, SumFacts
<1> QED BY <1>1, <1>3, <1>4, <1>5, <1>7, <1>8

(***************************************************************************)
(* A note alone is worth its amount.                                       *)
(***************************************************************************)
LEMMA WorthOfOne ==
  ASSUME NEW ns, NEW c, ns[c].amount \in Nat
  PROVE  Worth(ns, {c}) = ns[c].amount
<1> DEFINE S == {c}
<1>1. Valued(ns, S)
  BY FS_Singleton DEF Valued
<1>2. c \in S /\ S \ {c} = {} /\ Valued(ns, {})
  BY FS_EmptySet DEF Valued
<1> HIDE DEF S
<1>3. Worth(ns, S) = ns[c].amount + Worth(ns, S \ {c})
  BY <1>1, <1>2, WorthFacts
<1>4. Worth(ns, {}) = 0
  BY <1>2, WorthFacts
<1> QED BY <1>2, <1>3, <1>4 DEF S

-----------------------------------------------------------------------------
(***************************************************************************)
(* A step of a request served alone gives nothing up.                      *)
(***************************************************************************)
LEMMA StepIsSmooth ==
  ASSUME CInv, SeqShape, NEW r \in Requests, NEW new, Moves(r, new), Follows(r, new),
         Arrive(r) \/ Proceed(r), Sequential', WholeUnshields'
  PROVE  Smooth(r, new)
<1>1. faults' = faults /\ faults' = 0 /\ req'[r] = new /\ (Arrive(r) => req[r].pc = "idle")
  BY StillSequential, AtRequest DEF Moves
<1>2. SeqOK(req[r], owners, spent)
  BY DEF SeqShape
<1>3. ASSUME req[r].pc = "check" PROVE Head(req[r].todo) \notin spent
  <2>1. Proceed(r) /\ ~CallFails(r) /\ ~UploadFails(r)
    BY <1>1, <1>3, ProceedAlone
  <2>2. CheckSpent(r)
    BY <1>3, <2>1 DEF Proceed, EventFound, EventMissing, PutNote, ReadList, AppendOwner,
          LoadNote, ReadOwned, ScanNote, SelectNotes, CheckChain, BuildParams, MarkSpent,
          SignTransfer
  <2> QED BY <1>1, <1>2, <2>2, CheckSpentKnows
<1>4. ASSUME req[r].pc = "mark"
      PROVE  /\ ~req[r].sync /\ Head(req[r].todo) \notin spent
             /\ new.answer = "signed" /\ new.kind = "unshield" =>
                  new.amount = Worth(notes, Range(new.selected))
  <2>1. Proceed(r) /\ ~CallFails(r) /\ ~UploadFails(r)
    BY <1>1, <1>4, ProceedAlone
  <2>2. MarkSpent(r)
    BY <1>4, <2>1 DEF Proceed, EventFound, EventMissing, PutNote, ReadList, AppendOwner,
          LoadNote, ReadOwned, ScanNote, SelectNotes, CheckChain, BuildParams, CheckSpent,
          SignTransfer
  <2>3. ~req[r].sync /\ Head(req[r].todo) \notin spent
    BY <1>2, <2>2, MarkSpentKnows
  <2>4. ASSUME new.answer = "signed", new.kind = "unshield"
        PROVE  new.amount = Worth(notes, Range(new.selected))
    <3>1. /\ req[r] \in Request /\ BookOK(req[r], past[r], notes, spent)
          /\ RequestOK(req[r], past[r], notes, spent, salts) /\ LoopOK(req[r], adapter, owners)
          /\ DOMAIN req = Requests
          /\ \A c \in DOMAIN notes : notes[c].amount \in Nat
      BY AtRequest
    <3>2. new.selected = req[r].selected
      BY <1>1, <2>1, <2>4, SignsWhen
    <3>3. new.kind = req[r].kind
      BY <1>4 DEF Follows
    <3>4. Range(req[r].selected) = {Head(req[r].selected)}
      BY <1>4, <2>4, <3>1, <3>3 DEF BookOK
    <3>5. Head(req[r].selected) \in DOMAIN notes
      BY <1>4, <3>1, <3>4 DEF RequestOK
    <3>6. r \in Unshields'
      BY <1>1, <2>4 DEF Unshields, Signed
    <3>7. past'[r].spends # {}
      <4>1. req[r].todo \in Seq(Commitments) /\ req[r].todo # << >>
        BY <1>4, <3>1 DEF Request, LoopOK
      <4>2. Head(req[r].todo) \in Commitments BY <4>1
      <4>3. Mark(r) BY <2>2 DEF MarkSpent
      <4> QED BY <4>2, <4>3, HistoryMarked
    <3>8. new.amount = notes[Head(req[r].selected)].amount
      <4>1. notes' = notes BY <2>2 DEF MarkSpent
      <4> QED BY <1>1, <3>2, <3>6, <3>7, <4>1 DEF WholeUnshields
    <3> QED BY <3>1, <3>2, <3>4, <3>5, <3>8, WorthOfOne
  <2> QED BY <2>3, <2>4
<1> QED BY <1>1, <1>3, <1>4 DEF Smooth

(***************************************************************************)
(* What was signed stays signed, for the same note.                        *)
(***************************************************************************)
LEMMA WholeBefore ==
  ASSUME CInv, SeqShape, NEW r \in Requests, NEW new, Moves(r, new), WholeUnshields'
  PROVE  WholeUnshields
<1> SUFFICES ASSUME NEW q \in Unshields
             PROVE  \/ past[q].spends = {}
                    \/ req[q].amount = notes[Head(req[q].selected)].amount
  BY DEF WholeUnshields
<1>1. q \in Requests /\ req[q].answer = "signed" /\ req[q].kind = "unshield"
  BY DEF Unshields, Signed
<1>2. q # r
  BY <1>1, AtRequest DEF Moves, Around, RequestOK
<1>3. req'[q] = req[q] /\ past'[q] = past[q]
  BY <1>1, <1>2, AtRequest DEF Moves, Around
<1>4. q \in Unshields'
  BY <1>1, <1>3 DEF Unshields, Signed
<1>5. notes'[Head(req[q].selected)] = notes[Head(req[q].selected)]
  <2>1. Head(req[q].selected) \in DOMAIN notes BY DEF SeqShape
  <2> QED BY <2>1, StoredNotes DEF Moves, Around
<1> QED BY <1>3, <1>4, <1>5 DEF WholeUnshields

(***************************************************************************)
(* Two sums that change by what one request held and holds, and by what it *)
(* earned and earns, keep their balance.                                   *)
(***************************************************************************)
LEMMA BalanceKept ==
  ASSUME NEW b \in Nat, NEW b1 \in Nat, NEW s \in Nat, NEW s1 \in Nat,
         NEW n \in Nat, NEW n1 \in Nat, NEW h \in Nat, NEW k \in Nat,
         NEW e \in Nat, NEW d \in Nat, NEW stock \in Nat,
         b1 + k + e = b + h + d, s1 + h = s + k, n1 + e = n + d, b + s = stock + n
  PROVE  b1 + s1 = stock + n1
OBVIOUS

(***************************************************************************)
(* The steps of the handlers keep the balance.                             *)
(***************************************************************************)
LEMMA HandlerSequential ==
  ASSUME CInv, CInv', SeqInv, NEW r \in Requests, Arrive(r) \/ Proceed(r)
  PROVE  SeqInv'
<1> SUFFICES ASSUME Sequential' PROVE SeqShape' /\ (WholeUnshields' => Balanced')
  BY DEF SeqInv
<1>1. SeqShape /\ (WholeUnshields => Balanced)
  BY StillSequential DEF SeqInv
<1>2. PICK new : /\ Moves(r, new) /\ Follows(r, new)
                 /\ Smooth(r, new) => Keeps(r, new)
  BY HandlerOutcome DEF Outcome
<1>3. SeqShape'
  BY <1>1, <1>2, ShapeKept
<1>4. ASSUME WholeUnshields' PROVE Balanced'
  <2>1. Keeps(r, new)
    BY <1>1, <1>2, <1>4, StepIsSmooth
  <2>2. BookNow + HeldSum = SumFunction(Stock) + EarnedSum
    BY <1>1, <1>2, <1>4, WholeBefore DEF Balanced
  <2>3. BookNow' + Held(new, past'[r], notes') + Earned(req[r])
          = BookNow + Held(req[r], past[r], notes) + Earned(new)
    BY <2>1 DEF Keeps, After, Before
  <2>4. HeldSum' + Held(req[r], past[r], notes) = HeldSum + Held(new, past'[r], notes')
    BY <1>2, HeldChanges
  <2>5. /\ EarnedSum' + Earned(req[r]) = EarnedSum + Earned(new)
        /\ EarnedSum \in Nat /\ EarnedSum' \in Nat
        /\ Earned(req[r]) \in Nat /\ Earned(new) \in Nat
    BY <1>2, EarnedChanges
  <2>6. /\ BookNow \in Nat /\ HeldSum \in Nat /\ Held(req[r], past[r], notes) \in Nat
        /\ BookNow' \in Nat /\ HeldSum' \in Nat
    BY NumbersNow, NumbersNext DEF Numbers
  <2>7. Held(new, past'[r], notes') \in Nat
    <3>1. Held(req'[r], past'[r], notes') \in Nat BY NumbersNext DEF Numbers
    <3>2. req'[r] = new BY <1>2, AtRequest DEF Moves
    <3> QED BY <3>1, <3>2
  <2>8. SumFunction(Stock) \in Nat
    BY StockCounts
  <2>9. /\ Held(req[r], past[r], notes) \in Nat /\ Held(new, past'[r], notes') \in Nat
        /\ Earned(req[r]) \in Nat /\ Earned(new) \in Nat
        /\ BookNow \in Nat /\ BookNow' \in Nat /\ HeldSum \in Nat /\ HeldSum' \in Nat
        /\ EarnedSum \in Nat /\ EarnedSum' \in Nat
    BY <2>5, <2>6, <2>7
  <2>10. BookNow' + HeldSum' = SumFunction(Stock) + EarnedSum'
    BY ONLY <2>2, <2>3, <2>4, <2>5, <2>8, <2>9, BalanceKept
  <2> QED BY <2>10 DEF Balanced
<1> QED BY <1>3, <1>4

(***************************************************************************)
(* The chain and the stutter change nothing of it, and after a restart the *)
(* calls are not without a fault.                                          *)
(***************************************************************************)
LEMMA OtherSequential ==
  ASSUME CInv, SeqInv, Restart \/ UNCHANGED <<storage, salts, req, past, overlap, faults>>
  PROVE  SeqInv'
<1>1. CASE Restart
  <2>1. faults \in Nat
    BY EngineAssumption DEF CInv, TypeInv, EngineTypeOK
  <2>2. faults' # 0
    <3>1. faults' = faults + 1 BY <1>1 DEF Restart, Fault
    <3> QED BY <2>1, <3>1
  <2> QED BY <2>2 DEF SeqInv, Sequential
<1>2. CASE UNCHANGED <<storage, salts, req, past, overlap, faults>>
  <2>1. Sequential' <=> Sequential
    BY <1>2 DEF Sequential
  <2>2. ListsOK' <=> ListsOK
    BY <1>2 DEF ListsOK, storage
  <2>3. SeqShape' <=> SeqShape
    BY <1>2, <2>2 DEF SeqShape, InProgress, Unshields, Signed, storage
  <2>4. WholeUnshields' <=> WholeUnshields
    BY <1>2 DEF WholeUnshields, Unshields, Signed, storage
  <2>5. Balanced' <=> Balanced
    BY <1>2 DEF Balanced, BookNow, HeldSum, EarnedSum, storage
  <2> QED BY <2>1, <2>3, <2>4, <2>5 DEF SeqInv
<1> QED BY <1>1, <1>2

(***************************************************************************)
(* At the start the stock is listed, and nothing is earned.                *)
(***************************************************************************)
LEMMA InitSequential == EngineInit => SeqInv
<1> SUFFICES ASSUME EngineInit PROVE SeqShape /\ Balanced
  BY DEF SeqInv
<1>1. /\ \A r \in Requests : req[r] = Idle
      /\ Idle.pc = "idle" /\ Idle.answer = "none"
  BY InitBook, IdleShape DEF Idle
<1>2. DOMAIN Stock = 1..Len(Stock) /\ Len(Stock) \in Nat
  BY EngineAssumption
<1>3. ListsOK
  <2>1. ASSUME NEW o \in Owners PROVE Injective(owners[o])
    BY DEF EngineInit, Injective
  <2>2. \A r \in Requests : \A c : ~Listing(req[r], c)
    BY <1>1 DEF Listing
  <2>3. ASSUME NEW c \in DOMAIN notes PROVE c \in Range(owners[notes[c].owner])
    <3>1. c \in 1..Len(Stock) /\ notes[c].owner = Holder
      BY <2>3 DEF EngineInit, NoteOf
    <3>2. owners[Holder] = [n \in 1..Len(Stock) |-> n]
      BY EngineAssumption DEF EngineInit
    <3> QED BY <3>1, <3>2 DEF Range
  <2> QED BY <2>1, <2>2, <2>3 DEF ListsOK
<1>4. InProgress = {} /\ Unshields = {}
  BY <1>1 DEF InProgress, Unshields, Signed
<1>5. \A r \in Requests : SeqOK(req[r], owners, spent)
  BY <1>1 DEF SeqOK
<1>6. EarnedSum = 0
  <2> DEFINE f == [q \in Requests |-> Earned(req[q])]
  <2>1. \A q \in Requests : f[q] = 0
    BY <1>1 DEF Earned, Creating
  <2>2. IsFiniteSet(Requests) /\ EarnedSum = SumFunctionOnSet(f, Requests)
    BY EngineAssumption, FS_Interval DEF EarnedSum, Requests
  <2> HIDE DEF f
  <2>3. \A q \in Requests : f[q] \in Nat BY <2>1
  <2> QED BY <2>1, <2>2, <2>3, SumOrder
<1>7. Balanced
  BY <1>6, InitBook, StockCounts DEF Balanced
<1> QED BY <1>3, <1>4, <1>5, <1>7 DEF SeqShape

-----------------------------------------------------------------------------
(***************************************************************************)
(* What adds nothing may be left out of a sum.                             *)
(***************************************************************************)
LEMMA SumOfSome ==
  ASSUME NEW S, IsFiniteSet(S), NEW f, \A x \in S : f[x] \in Nat,
         NEW T \in SUBSET S, \A x \in S \ T : f[x] = 0
  PROVE  SumFunctionOnSet(f, S) = SumFunctionOnSet(f, T)
<1> DEFINE R == S \ T
           P == {U \in SUBSET R : SumFunctionOnSet(f, T \cup U) = SumFunctionOnSet(f, T)}
<1>1. Rec!IsFiniteSet(R)
  <2>1. IsFiniteSet(R) BY FS_Subset
  <2> QED BY <2>1 DEF IsFiniteSet, Rec!IsFiniteSet
<1>2. {} \in P
  <2>1. T \cup {} = T OBVIOUS
  <2> QED BY <2>1
<1>3. ASSUME NEW U \in SUBSET R, U # {}, \A x \in U : U \ {x} \in P
      PROVE  U \in P
  <2>1. PICK x \in U : TRUE BY <1>3
  <2>2. (T \cup U) \ {x} = T \cup (U \ {x}) /\ x \in T \cup U /\ T \cup U \in SUBSET S
    BY <2>1
  <2>3. IsFiniteSet(T \cup U) /\ \A y \in T \cup U : f[y] \in Nat
    BY <2>2, FS_Subset
  <2>4. SumFunctionOnSet(f, T \cup U) = f[x] + SumFunctionOnSet(f, T \cup (U \ {x}))
    BY <2>2, <2>3, SumFacts
  <2>5. SumFunctionOnSet(f, T \cup (U \ {x})) = SumFunctionOnSet(f, T) /\ f[x] = 0
    BY <1>3
  <2>6. SumFunctionOnSet(f, T) \in Nat
    BY FS_Subset, SumFacts
  <2>7. SumFunctionOnSet(f, T \cup U) = SumFunctionOnSet(f, T)
    BY <2>4, <2>5, <2>6
  <2> QED BY <2>7
<1>4. R \in SUBSET R /\ T \cup R = S
  OBVIOUS
<1> HIDE DEF P, R
<1>5. SUBSET R \subseteq P
  BY ONLY <1>1, <1>2, <1>3, Rec!SetInduction
<1>6. R \in P BY <1>4, <1>5
<1> QED BY <1>4, <1>6 DEF P

(***************************************************************************)
(* When no request is in progress, only what was signed out is held.       *)
(***************************************************************************)
LEMMA HeldIsUnshielded ==
  ASSUME CInv, InProgress = {}
  PROVE  HeldSum = Unshielded
<1> DEFINE f == [q \in Requests |-> Held(req[q], past[q], notes)]
           g == [q \in Unshields |-> req[q].amount]
<1>1. Unshielded = SumFunctionOnSet(g, Unshields) /\ HeldSum = SumFunctionOnSet(f, Requests)
  BY DEF Unshielded, SumOver, HeldSum
<1>2. Unshields \in SUBSET Requests
  BY DEF Unshields, Signed
<1>3. IsFiniteSet(Requests) /\ \A q \in Requests : f[q] \in Nat
  BY SumTypes, ValueTypes
<1>4. \A q \in Requests : req[q].pc \in {"idle", "done"}
  BY DEF InProgress
<1>5. \A q \in Unshields : f[q] = g[q]
  BY <1>2, <1>4 DEF Unshields, Signed, Held
<1>6. \A q \in Requests \ Unshields : f[q] = 0
  BY <1>4 DEF Unshields, Signed, Held
<1> HIDE DEF f, g
<1>7. IsFiniteSet(Unshields) /\ \A q \in Unshields : f[q] \in Nat
  BY <1>2, <1>3, FS_Subset
<1>8. SumFunctionOnSet(g, Unshields) = SumFunctionOnSet(f, Unshields)
  BY <1>5, <1>7, SumFacts
<1>9. SumFunctionOnSet(f, Requests) = SumFunctionOnSet(f, Unshields)
  BY <1>2, <1>3, <1>6, SumOfSome
<1> QED BY <1>1, <1>8, <1>9

(***************************************************************************)
(* When no request is in progress, the deposits earned are those of the    *)
(* requests that were answered with what they created.                     *)
(***************************************************************************)
LEMMA EarnedIsBooked ==
  ASSUME CInv, InProgress = {}
  PROVE  Booked = SumFunction(Stock) + EarnedSum
<1> DEFINE C == {q \in Requests : req[q].answer = "created"}
           f == [q \in Requests |-> Earned(req[q])]
           g == [q \in C |-> DepositAmount[req[q].deposit]]
<1>1. /\ Booked = SumFunction(Stock) + SumFunctionOnSet(g, C)
      /\ EarnedSum = SumFunctionOnSet(f, Requests)
  BY DEF Booked, SumOver, EarnedSum
<1>2. C \in SUBSET Requests
  OBVIOUS
<1>3. IsFiniteSet(Requests) /\ \A q \in Requests : f[q] \in Nat
  BY SumTypes, EarnedNat, AtRequest
<1>4. \A q \in Requests : req[q].pc \notin Creating
  BY DEF InProgress, Creating
<1>5. \A q \in C : f[q] = g[q]
  <2>1. \A q \in C : req[q].kind \notin {"unshield", "transfer"}
    BY DEF CInv, BookInv, BookOK
  <2> QED BY <2>1 DEF Earned
<1>6. \A q \in Requests \ C : f[q] = 0
  BY <1>4 DEF Earned
<1> HIDE DEF f, g, C
<1>7. IsFiniteSet(C) /\ \A q \in C : f[q] \in Nat
  BY <1>2, <1>3, FS_Subset
<1>8. SumFunctionOnSet(g, C) = SumFunctionOnSet(f, C)
  BY <1>5, <1>7, SumFacts
<1>9. SumFunctionOnSet(f, Requests) = SumFunctionOnSet(f, C)
  BY <1>2, <1>3, <1>6, SumOfSome
<1> QED BY <1>1, <1>8, <1>9

(***************************************************************************)
(* When no request is in progress, the lists name the notes of the book.   *)
(***************************************************************************)
LEMMA ListsAreTheBook ==
  ASSUME CInv, ListsOK, InProgress = {}
  PROVE  UNION {Range(owners[o]) : o \in Owners} = DOMAIN notes
<1>1. \A o \in Owners : Range(owners[o]) \subseteq DOMAIN notes
  BY DEF CInv, IInv, OwnedBy
<1>2. ASSUME NEW c \in DOMAIN notes
      PROVE  notes[c].owner \in Owners /\ c \in Range(owners[notes[c].owner])
  <2>1. \A r \in Requests : ~Listing(req[r], c)
    BY DEF InProgress, Listing
  <2>2. notes[c].owner \in Owners
    BY <1>2 DEF CInv, TypeInv, EngineTypeOK
  <2> QED BY <1>2, <2>1, <2>2 DEF ListsOK
<1> QED BY <1>1, <1>2

(***************************************************************************)
(* The sequential invariant says what the property says, once no request   *)
(* is in progress.                                                         *)
(***************************************************************************)
LEMMA SequentialImplies == CInv /\ SeqInv => NothingLost
<1> SUFFICES ASSUME CInv, SeqInv, ~overlap, InProgress = {}, faults = 0, WholeUnshields
             PROVE  BookValue(UNION {Range(owners[o]) : o \in Owners}) + Unshielded = Booked
  BY DEF NothingLost
<1>1. SeqShape /\ Balanced
  BY DEF SeqInv, Sequential
<1>2. BookValue(UNION {Range(owners[o]) : o \in Owners}) = BookNow
  BY <1>1, ListsAreTheBook, WorthNames DEF SeqShape, BookNow
<1> QED BY <1>1, <1>2, HeldIsUnshielded, EarnedIsBooked DEF Balanced

(***************************************************************************)
(* Served one at a time by calls that do not fail, requests lose nothing.  *)
(***************************************************************************)
THEOREM NothingIsLost == EngineSpec => []NothingLost
<1>1. EngineInit => SeqInv
  BY InitSequential
<1>2. CInv /\ CInv' /\ SeqInv /\ [EngineNext]_engineVars => SeqInv'
  <2> SUFFICES ASSUME CInv, CInv', SeqInv, [EngineNext]_engineVars PROVE SeqInv'
    OBVIOUS
  <2>1. ASSUME NEW r \in Requests, Arrive(r) \/ Proceed(r) PROVE SeqInv'
    BY <2>1, HandlerSequential
  <2>2. ASSUME NEW r \in Requests, Submit(r) PROVE SeqInv'
    BY <2>2, OtherSequential DEF Submit
  <2>3. CASE Restart BY <2>3, OtherSequential
  <2>4. ASSUME NEW d \in Deposits, MineShield(d) PROVE SeqInv'
    BY <2>4, OtherSequential DEF MineShield
  <2>5. CASE UNCHANGED engineVars
    BY <2>5, OtherSequential DEF engineVars
  <2> QED BY <2>1, <2>2, <2>3, <2>4, <2>5 DEF EngineNext
<1>3. CInv /\ SeqInv => NothingLost
  BY SequentialImplies
<1> QED BY <1>1, <1>2, <1>3, EngineBookInvariant, PTL DEF EngineSpec
=============================================================================
