--------------------------- MODULE Backend_proofs ---------------------------
(***************************************************************************)
(* What holds of Backend for any keys, notes and number of requests.       *)
(*                                                                         *)
(* BInv is about the requests and the payments alone.  SystemInv adds what *)
(* their sessions know of the pool (SystemRight) and where the salt of     *)
(* every note is (SaltsInv).                                               *)
(***************************************************************************)
EXTENDS BackendProperties, PrivacyPool_proofs

Stages == {"synced", "proving", "submitted", "mined", "recorded", "orphaned"}

\* The log has a spend with the nullifiers and the commitments of the call.
Accepted(p, log) ==
  \E i \in 1..Len(log) :
    /\ log[i].type = "Spent"
    /\ log[i].nullifiers = p.nullifiers
    /\ log[i].newCommitments = p.newCommitments

IsSequence(log) == log \in Seq(Range(log))

\* What holds of a request in progress, of the log and of the payments recorded.
RequestInv(q, log, paid) ==
  /\ {"pc", "route", "key"} \subseteq DOMAIN q
  /\ q.pc \in Stages /\ q.key \in Keys
  /\ "upto" \in DOMAIN q => q.upto \in 0..Len(log)
  /\ q.pc = "synced" => "upto" \in DOMAIN q
  /\ q.pc # "synced" => /\ {"in", "call"} \subseteq DOMAIN q
                        /\ Made(q.call) \subseteq Commitment
                        /\ q.call = [x \in DOMAIN q.call |-> q.call[x]]
  /\ q.pc \in {"mined", "recorded"} /\ q.route = "payroll" => Accepted(q.call, log)
  /\ q.pc = "recorded" => q.call \in paid

Hinted == noteHints \cup memCache \cup saving \cup dropped

HintsInv ==
  /\ \A h \in Hinted : IsHint(h)
  /\ saving \subseteq memCache

PaymentsInv ==
  /\ \A p \in payments : Accepted(p, events)
  /\ \A a \in answers : a.route = "payroll" => a.call \in payments

BInv ==
  /\ IsSequence(events)
  /\ DOMAIN requests = Requests
  /\ \A r \in Requests : requests[r] = Idle \/ RequestInv(requests[r], events, payments)
  /\ HintsInv
  /\ PaymentsInv

(***************************************************************************)
(* The invariant gives what the run checks.                                *)
(***************************************************************************)
LEMMA InvariantImplies == BInv => BackendTypeOK /\ PaymentsWereMade
<1> SUFFICES ASSUME BInv PROVE BackendTypeOK /\ PaymentsWereMade
  OBVIOUS
<1>1. PaymentsWereMade
  BY DEF BInv, PaymentsInv, PaymentsWereMade, Accepted
<1>2. \A r \in InFlight : RequestInv(requests[r], events, payments)
  BY DEF BInv, InFlight
<1>3. BackendTypeOK
  BY <1>2 DEF BInv, HintsInv, Hinted, BackendTypeOK, RequestInv, Stages
<1> QED BY <1>1, <1>3

(***************************************************************************)
(* Nothing has happened yet.                                               *)
(***************************************************************************)
LEMMA InitInvariant == BackendInit => BInv
<1> SUFFICES ASSUME BackendInit PROVE BInv
  OBVIOUS
<1>1. events = << >> /\ payments = {} /\ answers = {}
      /\ requests = [r \in Requests |-> Idle]
  BY DEF BackendInit, Init
<1>2. IsSequence(<< >>)
  BY DEF IsSequence
<1>3. HintsInv
  BY DEF BackendInit, HintsInv, Hinted
<1> QED BY <1>1, <1>2, <1>3 DEF BInv, PaymentsInv

-----------------------------------------------------------------------------
\* The log is appended to, or left alone.
LogGrows == events' = events \/ \E e : events' = Append(events, e)

(***************************************************************************)
(* A sequence is one of its own elements.                                  *)
(***************************************************************************)
LEMMA OwnElements ==
  ASSUME NEW S, NEW t \in Seq(S)
  PROVE  t \in Seq(Range(t))
<1>1. \A i \in 1..Len(t) : t[i] \in Range(t) BY DEF Range
<1>2. t = [i \in 1..Len(t) |-> t[i]] /\ Len(t) \in Nat OBVIOUS
<1> QED BY <1>1, <1>2

(***************************************************************************)
(* What the log has, it keeps.                                             *)
(***************************************************************************)
LEMMA LogKeeps ==
  ASSUME IsSequence(events), LogGrows
  PROVE  /\ IsSequence(events')
         /\ \A n \in 0..Len(events) : n \in 0..Len(events')
         /\ \A p : Accepted(p, events) => Accepted(p, events')
<1>1. CASE events' = events
  BY <1>1
<1>2. ASSUME NEW e, events' = Append(events, e)
      PROVE  /\ IsSequence(events')
             /\ \A n \in 0..Len(events) : n \in 0..Len(events')
             /\ \A p : Accepted(p, events) => Accepted(p, events')
  <2> DEFINE S == Range(events)
             log == Append(events, e)
  <2>1. events \in Seq(S) /\ Len(events) \in Nat
    BY DEF IsSequence
  <2>2. /\ log \in Seq(S \cup {e}) /\ Len(log) = Len(events) + 1
        /\ \A i \in 1..Len(events) : log[i] = events[i]
    BY <2>1
  <2> HIDE DEF log
  <2>3. IsSequence(log)
    BY <2>2, OwnElements DEF IsSequence
  <2>4. \A n \in 0..Len(events) : n \in 0..Len(log)
    BY <2>1, <2>2
  <2>5. \A i \in 1..Len(events) : i \in 1..Len(log)
    BY <2>1, <2>2
  <2>6. \A p : Accepted(p, events) => Accepted(p, log)
    BY <2>2, <2>5 DEF Accepted
  <2> QED BY <1>2, <2>3, <2>4, <2>6 DEF log
<1> QED BY <1>1, <1>2 DEF LogGrows

(***************************************************************************)
(* A transaction the pool accepts is appended to the log.                  *)
(***************************************************************************)
LEMMA PoolAppends ==
  ASSUME IsSequence(events), NEW in, NEW p, NEW from,
         Shield(from, p) \/ Spend(in, p)
  PROVE  LogGrows /\ (Spend(in, p) => Accepted(p, events'))
<1>1. Len(events) \in Nat /\ events \in Seq(Range(events))
  BY DEF IsSequence
<1>2. ASSUME Spend(in, p)
      PROVE  Accepted(p, events')
  <2> DEFINE e == [type |-> "Spent", token |-> p.token, nullifiers |-> p.nullifiers,
                   newCommitments |-> p.newCommitments, publicAmount |-> p.publicAmount]
  <2>1. events' = Append(events, e)
    BY <1>2 DEF Spend
  <2>2. /\ e.type = "Spent" /\ e.nullifiers = p.nullifiers
        /\ e.newCommitments = p.newCommitments
    OBVIOUS
  <2> HIDE DEF e
  <2>3. /\ Len(events') = Len(events) + 1
        /\ events'[Len(events) + 1] = e /\ Len(events) + 1 \in 1..Len(events')
    BY <1>1, <2>1
  <2> QED BY <2>2, <2>3 DEF Accepted
<1> QED BY <1>2 DEF LogGrows, Shield, Spend

(***************************************************************************)
(* A step of one request has to establish its own part.                    *)
(***************************************************************************)
LEMMA RequestStep ==
  ASSUME BInv, LogGrows, payments \subseteq payments',
         NEW r \in Requests, NEW new, requests' = [requests EXCEPT ![r] = new],
         new = Idle \/ RequestInv(new, events', payments'),
         HintsInv', \A p \in payments' : Accepted(p, events'),
         \A a \in answers' : a.route = "payroll" => a.call \in payments'
  PROVE  BInv'
<1>1. IsSequence(events') /\ \A n \in 0..Len(events) : n \in 0..Len(events')
      /\ \A p : Accepted(p, events) => Accepted(p, events')
  BY LogKeeps DEF BInv
<1>2. ASSUME NEW q, RequestInv(q, events, payments)
      PROVE  RequestInv(q, events', payments')
  BY <1>1, <1>2 DEF RequestInv
<1>3. DOMAIN requests' = Requests /\ requests'[r] = new
      /\ \A s \in Requests \ {r} : requests'[s] = requests[s]
  BY DEF BInv
<1>4. ASSUME NEW s \in Requests
      PROVE  requests'[s] = Idle \/ RequestInv(requests'[s], events', payments')
  BY <1>2, <1>3 DEF BInv
<1> QED BY <1>1, <1>3, <1>4 DEF BInv, PaymentsInv

(***************************************************************************)
(* Most steps of a request touch neither the log nor the database.         *)
(***************************************************************************)
LEMMA QuietStep ==
  ASSUME BInv, UNCHANGED <<hintVars, answers, poolVars>>,
         NEW r \in Requests, NEW new, requests' = [requests EXCEPT ![r] = new],
         RequestInv(new, events, payments)
  PROVE  BInv'
<1>1. UNCHANGED <<noteHints, memCache, saving, dropped, payments, answers, events>>
  BY DEF hintVars, poolVars, logVars
<1>2. LogGrows /\ HintsInv'
  BY <1>1 DEF LogGrows, BInv, HintsInv, Hinted
<1> QED BY <1>1, <1>2, RequestStep DEF BInv, PaymentsInv

-----------------------------------------------------------------------------
(***************************************************************************)
(* A request for a spend begins with a session that has heard the log.     *)
(***************************************************************************)
LEMMA BeginInvariant ==
  ASSUME BInv, NEW r \in Requests, NEW route, NEW key \in Keys, Synced(r, route, key)
  PROVE  BInv'
<1> DEFINE new == [pc |-> "synced", route |-> route, key |-> key,
                   view |-> Replay(Len(events), Len(events)), upto |-> Len(events)]
<1>1. requests' = [requests EXCEPT ![r] = new] /\ UNCHANGED <<hintVars, answers, poolVars>>
  BY DEF Synced
<1>2. /\ {"pc", "route", "key", "upto"} \subseteq DOMAIN new /\ new.pc = "synced" /\ new.key = key
      /\ new.upto = Len(events)
  OBVIOUS
<1> HIDE DEF new
<1>3. Len(events) \in 0..Len(events)
  <2>1. events \in Seq(Range(events)) BY DEF BInv, IsSequence
  <2> QED BY <2>1
<1>4. RequestInv(new, events, payments)
  BY <1>2, <1>3 DEF RequestInv, Stages
<1> QED BY <1>1, <1>4, QuietStep

(***************************************************************************)
(* A shield begins with a commitment of its owner.                         *)
(***************************************************************************)
LEMMA ShieldInvariant ==
  ASSUME BInv, NEW r \in Requests, NEW route \in {"shield", "execute"},
         NEW c \in Commitment, StartShield(r, route, c)
  PROVE  BInv'
<1> DEFINE call == [token |-> c.token, amount |-> c.amount, commitment |-> c]
           new == [pc |-> "proving", route |-> route, key |-> c.owner,
                   in |-> <<Zero, Zero>>, call |-> call]
<1>1. requests' = [requests EXCEPT ![r] = new] /\ UNCHANGED <<hintVars, answers, poolVars>>
  BY DEF StartShield
<1>2. Made(call) = {c} /\ call = [x \in DOMAIN call |-> call[x]]
  BY DEF Made
<1> HIDE DEF call
<1>3. /\ DOMAIN new = {"pc", "route", "key", "in", "call"}
      /\ new.pc = "proving" /\ new.key = c.owner /\ new.call = call /\ c.owner \in Keys
  BY DEF Commitment
<1> HIDE DEF new
<1>4. RequestInv(new, events, payments)
  BY <1>2, <1>3 DEF RequestInv, Stages
<1> QED BY <1>1, <1>4, QuietStep

(***************************************************************************)
(* A session hears at most what the log has.                               *)
(***************************************************************************)
LEMMA HearInvariant ==
  ASSUME BInv, NEW r \in Requests, Hear(r)
  PROVE  BInv'
<1> DEFINE q == requests[r]
           heard == OnEvent(q.view, events[q.upto + 1])
           new == [q EXCEPT !.view = heard, !.upto = q.upto + 1]
<1>1. requests' = [requests EXCEPT ![r] = new] /\ UNCHANGED <<hintVars, answers, poolVars>>
  BY DEF Hear
<1>2. q # Idle /\ q.pc \in {"synced", "proving"} /\ q.upto < Len(events)
  BY DEF Hear, InFlight
<1>3. RequestInv(q, events, payments) /\ IsSequence(events)
  BY <1>2 DEF BInv
<1> HIDE DEF heard
<1>4. /\ DOMAIN new = DOMAIN q
      /\ new.pc = q.pc /\ new.key = q.key /\ new.route = q.route
      /\ "upto" \in DOMAIN q => new.upto = q.upto + 1
      /\ q.pc # "synced" => new.call = q.call
  BY <1>3 DEF RequestInv
<1> HIDE DEF new
<1>5. "upto" \in DOMAIN q => q.upto + 1 \in 0..Len(events)
  <2>1. events \in Seq(Range(events)) BY <1>3 DEF IsSequence
  <2>2. Len(events) \in Nat BY <2>1
  <2> QED BY <1>2, <1>3, <2>2 DEF RequestInv
<1>6. RequestInv(new, events, payments)
  BY <1>2, <1>3, <1>4, <1>5 DEF RequestInv
<1> HIDE DEF q
<1> QED BY <1>1, <1>6, QuietStep

(***************************************************************************)
(* What a spend is proved to make are commitments.                         *)
(***************************************************************************)
LEMMA ProveInvariant ==
  ASSUME BInv, NEW r \in Requests, NEW t, NEW amount, Prove(r, t, amount)
  PROVE  BInv'
<1> DEFINE q == requests[r]
           public == q.route \in Exits
<1>1. q # Idle /\ UNCHANGED <<hintVars, answers, poolVars>> /\ q.pc = "synced"
  BY DEF Prove, InFlight
<1>2. RequestInv(q, events, payments)
  BY <1>1 DEF BInv
<1>3. PICK v, in, outs :
        /\ outs \in Outs(r, t, amount, in)
        /\ requests' = [requests EXCEPT ![r] =
             [pc |-> "proving", route |-> q.route, key |-> q.key, in |-> in,
              call |-> [token |-> t, merkleRoot |-> CurrentRoot(v),
                        nullifiers |-> [i \in 1..2 |-> SlotNullifier(in[i])],
                        newCommitments |-> outs,
                        publicAmount |-> IF public THEN amount ELSE 0,
                        recipient |-> IF public THEN Wallet ELSE Zero],
              view |-> RootRead(v), upto |-> q.upto]]
  BY DEF Prove
<1> DEFINE call == [token |-> t, merkleRoot |-> CurrentRoot(v),
                    nullifiers |-> [i \in 1..2 |-> SlotNullifier(in[i])],
                    newCommitments |-> outs,
                    publicAmount |-> IF public THEN amount ELSE 0,
                    recipient |-> IF public THEN Wallet ELSE Zero]
           new == [pc |-> "proving", route |-> q.route, key |-> q.key, in |-> in,
                   call |-> call, view |-> RootRead(v), upto |-> q.upto]
<1>4. \E A \in SUBSET Slot, B \in SUBSET Slot : outs \in A \X B
  <2>1. \A k, u, n : Fresh(k, u, n) \subseteq Slot
    BY DEF Fresh, Slot
  <2>2. Zero \in Slot
    BY DEF Slot
  <2> DEFINE rest == SlotAmount(in[1]) + SlotAmount(in[2]) - amount
             change == IF rest = 0 THEN {Zero} ELSE Fresh(q.key, t, rest)
             payees == IF q.route \in {"pay", "payroll"} THEN Employees ELSE Keys
             paid == UNION {Fresh(k, t, amount) : k \in payees}
  <2>3. outs \in paid \X change \/ outs \in change \X {Zero}
    BY <1>3 DEF Outs
  <2>4. change \subseteq Slot /\ paid \subseteq Slot
    BY <2>1, <2>2
  <2> QED BY <2>2, <2>3, <2>4
<1>5. NonZero(Range(outs)) \subseteq Commitment
  <2>1. outs = <<outs[1], outs[2]>> /\ outs[1] \in Slot /\ outs[2] \in Slot
    BY <1>4
  <2>2. Range(<<outs[1], outs[2]>>) = {outs[1], outs[2]}
    BY DEF Range
  <2> QED BY <2>1, <2>2 DEF NonZero, Slot
<1>6. Made(call) = NonZero(Range(outs)) /\ call = [x \in DOMAIN call |-> call[x]]
  BY DEF Made
<1>7. requests' = [requests EXCEPT ![r] = new]
  BY <1>3
<1> HIDE DEF call
<1>8. /\ DOMAIN new = {"pc", "route", "key", "in", "call", "view", "upto"}
      /\ new.pc = "proving" /\ new.key = q.key /\ new.call = call /\ new.upto = q.upto
  OBVIOUS
<1> HIDE DEF new
<1>9. RequestInv(new, events, payments)
  BY <1>1, <1>2, <1>5, <1>6, <1>8 DEF RequestInv, Stages
<1> HIDE DEF q
<1> QED BY <1>1, <1>7, <1>9, QuietStep

-----------------------------------------------------------------------------
(***************************************************************************)
(* Sending a transaction and forgetting the session changes nothing that   *)
(* the invariant speaks of.                                                *)
(***************************************************************************)
LEMMA SubmitInvariant ==
  ASSUME BInv, NEW r \in Requests, Submit(r)
  PROVE  BInv'
<1> DEFINE q == requests[r]
           f == Restrict(q, DOMAIN q \ {"view", "upto"})
           new == [f EXCEPT !.pc = "submitted"]
<1>1. requests' = [requests EXCEPT ![r] = new] /\ UNCHANGED <<hintVars, answers, poolVars>>
  BY DEF Submit, BInv
<1>2. q.pc = "proving" /\ RequestInv(q, events, payments)
  BY DEF Submit, InFlight, BInv
<1>3. {"pc", "route", "key", "in", "call"} \subseteq DOMAIN q
  BY <1>2 DEF RequestInv
<1>4. /\ DOMAIN f = DOMAIN q \ {"view", "upto"}
      /\ f.key = q.key /\ f.route = q.route /\ f.call = q.call
  BY <1>3 DEF Restrict
<1> HIDE DEF f
<1>5. /\ DOMAIN new = DOMAIN q \ {"view", "upto"} /\ new.pc = "submitted"
      /\ new.key = q.key /\ new.route = q.route /\ new.call = q.call
  BY <1>3, <1>4
<1> HIDE DEF new
<1>6. RequestInv(new, events, payments)
  BY <1>2, <1>3, <1>5 DEF RequestInv, Stages
<1> HIDE DEF q
<1> QED BY <1>1, <1>6, QuietStep

(***************************************************************************)
(* A request whose transaction is mined has it in the log.                 *)
(***************************************************************************)
LEMMA MinedInvariant ==
  ASSUME BInv, NEW r \in Requests, Mined(r)
  PROVE  BInv'
<1> DEFINE q == requests[r]
           new == IF q.pc = "submitted" THEN [q EXCEPT !.pc = "mined"] ELSE Idle
<1>1. /\ requests' = [requests EXCEPT ![r] = new] /\ UNCHANGED <<hintVars, answers>>
      /\ q.pc \in {"submitted", "orphaned"}
      /\ RequestInv(q, events, payments) /\ IsSequence(events)
  BY DEF Mined, BInv, InFlight
<1>2. LogGrows /\ (q.route = "payroll" => Accepted(q.call, events'))
  BY <1>1, PoolAppends DEF Mined
<1>3. \A p : Accepted(p, events) => Accepted(p, events')
  BY <1>1, <1>2, LogKeeps
<1>4. q.pc = "submitted" => RequestInv(new, events', payments)
  <2> SUFFICES ASSUME q.pc = "submitted" PROVE RequestInv(new, events', payments)
    OBVIOUS
  <2>1. /\ DOMAIN new = DOMAIN q /\ new.pc = "mined" /\ new.key = q.key
        /\ new.route = q.route /\ new.call = q.call
        /\ "upto" \in DOMAIN q => new.upto = q.upto
    BY <1>1 DEF RequestInv
  <2>2. \A n \in 0..Len(events) : n \in 0..Len(events')
    BY <1>1, <1>2, LogKeeps
  <2> HIDE DEF new
  <2> QED BY <1>1, <1>2, <2>1, <2>2 DEF RequestInv, Stages
<1>5. UNCHANGED <<noteHints, memCache, saving, dropped, payments, answers>>
  BY <1>1 DEF hintVars
<1>6. new = Idle \/ RequestInv(new, events', payments')
  BY <1>4, <1>5
<1> HIDE DEF new, q
<1>7. HintsInv'
  BY <1>5 DEF BInv, HintsInv, Hinted
<1>8. \A p \in payments' : Accepted(p, events')
  BY <1>3, <1>5 DEF BInv, PaymentsInv
<1>9. payments \subseteq payments' /\ \A a \in answers' : a.route = "payroll" => a.call \in payments'
  BY <1>5 DEF BInv, PaymentsInv
<1> QED BY <1>1, <1>2, <1>6, <1>7, <1>8, <1>9, RequestStep

(***************************************************************************)
(* A payment is recorded once it is in the log.                            *)
(***************************************************************************)
LEMMA RecordedInvariant ==
  ASSUME BInv, NEW r \in Requests, Recorded(r)
  PROVE  BInv'
<1> DEFINE q == requests[r]
           new == [q EXCEPT !.pc = "recorded"]
<1>1. /\ requests' = [requests EXCEPT ![r] = new]
      /\ payments' = payments \cup {q.call}
      /\ UNCHANGED <<noteHints, memCache, saving, dropped, answers, events>>
      /\ q.pc = "mined" /\ q.route = "payroll"
      /\ RequestInv(q, events, payments)
  BY DEF Recorded, BInv, InFlight, poolVars, logVars
<1>2. Accepted(q.call, events)
  BY <1>1 DEF RequestInv
<1>3. /\ DOMAIN new = DOMAIN q /\ new.pc = "recorded" /\ new.key = q.key
      /\ new.route = q.route /\ new.call = q.call
      /\ "upto" \in DOMAIN q => new.upto = q.upto
  BY <1>1 DEF RequestInv
<1> HIDE DEF new
<1>4. RequestInv(new, events', payments')
  BY <1>1, <1>2, <1>3 DEF RequestInv, Stages
<1> HIDE DEF q
<1>5. LogGrows /\ payments \subseteq payments'
  BY <1>1 DEF LogGrows
<1>6. HintsInv'
  BY <1>1 DEF BInv, HintsInv, Hinted
<1>7. /\ \A p \in payments' : Accepted(p, events')
      /\ \A a \in answers' : a.route = "payroll" => a.call \in payments'
  BY <1>1, <1>2 DEF BInv, PaymentsInv
<1> QED BY <1>1, <1>4, <1>5, <1>6, <1>7, RequestStep

-----------------------------------------------------------------------------
(***************************************************************************)
(* Hints are of commitments, under the keys of their owners.               *)
(***************************************************************************)
LEMMA HintsTyped ==
  ASSUME NEW C, C \subseteq Commitment
  PROVE  \A h \in {Hint(c.owner, c) : c \in C} : IsHint(h)
BY DEF Hint, IsHint, Commitment

(***************************************************************************)
(* An answer keeps its hints, and is of a payment that is recorded if it   *)
(* is of a payment the server made.                                        *)
(***************************************************************************)
LEMMA AnswerInvariant ==
  ASSUME BInv, NEW r \in Requests, Answer(r)
  PROVE  BInv'
<1> DEFINE q == requests[r]
           wanted == Hints(q.route, q.key, q.call)
           a == [route |-> q.route, key |-> q.key, in |-> q.in,
                 proved |-> q.call, call |-> Told(q)]
<1>1. /\ requests' = [requests EXCEPT ![r] = Idle]
      /\ answers' = answers \cup {a} /\ SaveHints(wanted)
      /\ UNCHANGED <<payments, events>>
      /\ q.pc \in {"proving", "mined", "recorded"}
      /\ q.route = "payroll" => q.pc = "recorded"
      /\ RequestInv(q, events, payments)
  BY DEF Answer, BInv, InFlight, poolVars, logVars, ServerSends
<1>2. /\ Made(q.call) \subseteq Commitment /\ q.call = [x \in DOMAIN q.call |-> q.call[x]]
      /\ q.pc = "recorded" => q.call \in payments
  BY <1>1 DEF RequestInv
<1>3. \A h \in wanted : IsHint(h)
  <2>1. Kept(q.route, q.call) \subseteq Commitment
    BY <1>2 DEF Kept
  <2> QED BY <2>1, HintsTyped DEF Hints
<1>4. q.route # "withdraw" => Told(q) = q.call
  <2> DEFINE p == q.call
  <2> HIDE DEF p
  <2>1. [p EXCEPT !.merkleRoot = p.merkleRoot] = p
    BY <1>2 DEF p
  <2> QED BY <2>1 DEF Told, ToldRoot, p
<1>5. a.route = "payroll" => a.call \in payments
  BY <1>1, <1>2, <1>4
<1> HIDE DEF a, wanted, q
<1>6. HintsInv'
  <2>1. /\ memCache' = memCache \cup (wanted \ memCache)
        /\ saving' \subseteq saving \cup (wanted \ memCache)
        /\ dropped' \subseteq dropped \cup (wanted \ memCache)
        /\ noteHints' = noteHints
    BY <1>1 DEF SaveHints
  <2>2. saving' \subseteq memCache'
    BY <2>1 DEF BInv, HintsInv
  <2>3. \A h \in Hinted' : h \in Hinted \cup wanted
    BY <2>1 DEF Hinted
  <2> QED BY <1>3, <2>2, <2>3 DEF BInv, HintsInv
<1>7. /\ \A p \in payments' : Accepted(p, events')
      /\ \A b \in answers' : b.route = "payroll" => b.call \in payments'
  BY <1>1, <1>5 DEF BInv, PaymentsInv
<1>8. LogGrows /\ payments \subseteq payments'
  BY <1>1 DEF LogGrows
<1> QED BY <1>1, <1>6, <1>7, <1>8, RequestStep

(***************************************************************************)
(* What outlives a request is its transaction, and its notes are           *)
(* commitments.                                                            *)
(***************************************************************************)
LEMMA Afterwards ==
  ASSUME BInv, NEW r \in Requests
  PROVE  /\ AfterAll(requests[r]) = Idle
              \/ RequestInv(AfterAll(requests[r]), events, payments)
         /\ \A h \in Abandoned(requests[r]) : IsHint(h)
<1> DEFINE q == requests[r]
           new == [q EXCEPT !.pc = "orphaned"]
<1>1. CASE q = Idle
  BY <1>1 DEF Idle, AfterAll, Abandoned
<1>2. CASE RequestInv(q, events, payments) /\ q.pc \in {"submitted", "orphaned"}
  <2>1. /\ DOMAIN new = DOMAIN q /\ new.pc = "orphaned" /\ new.key = q.key
        /\ new.route = q.route /\ new.call = q.call
        /\ "upto" \in DOMAIN q => new.upto = q.upto
    BY <1>2 DEF RequestInv
  <2>2. AfterAll(q) = new
    BY <1>2 DEF AfterAll
  <2> HIDE DEF new
  <2>3. RequestInv(new, events, payments)
    BY <1>2, <2>1 DEF RequestInv, Stages
  <2>4. Made(q.call) \subseteq Commitment
    BY <1>2 DEF RequestInv
  <2> QED BY <2>2, <2>3, <2>4, HintsTyped DEF Abandoned
<1>3. CASE RequestInv(q, events, payments) /\ q.pc \notin {"submitted", "orphaned"}
  <2>1. AfterAll(q) = Idle
    BY <1>3 DEF AfterAll
  <2>2. q.pc # "synced" => Made(q.call) \subseteq Commitment
    BY <1>3 DEF RequestInv
  <2> QED BY <2>1, <2>2, HintsTyped DEF Abandoned
<1> QED BY <1>1, <1>2, <1>3 DEF BInv

(***************************************************************************)
(* A request that fails leaves at most its transaction behind.             *)
(***************************************************************************)
LEMMA FailInvariant ==
  ASSUME BInv, NEW r \in Requests, Fail(r)
  PROVE  BInv'
<1> DEFINE new == IF requests[r].pc = "orphaned" THEN Idle ELSE AfterAll(requests[r])
<1>1. /\ requests' = [requests EXCEPT ![r] = new]
      /\ dropped' = dropped \cup Abandoned(requests[r])
      /\ UNCHANGED <<noteHints, memCache, saving, payments, answers, events>>
  BY DEF Fail, poolVars, logVars
<1>2. new = Idle \/ RequestInv(new, events', payments')
  BY <1>1, Afterwards
<1>3. HintsInv'
  <2>1. \A h \in Hinted' : h \in Hinted \cup Abandoned(requests[r])
    BY <1>1 DEF Hinted
  <2> QED BY <1>1, <2>1, Afterwards DEF BInv, HintsInv
<1> HIDE DEF new
<1>4. LogGrows /\ payments \subseteq payments'
  BY <1>1 DEF LogGrows
<1>5. /\ \A p \in payments' : Accepted(p, events')
      /\ \A b \in answers' : b.route = "payroll" => b.call \in payments'
  BY <1>1 DEF BInv, PaymentsInv
<1> QED BY <1>1, <1>2, <1>3, <1>4, <1>5, RequestStep

(***************************************************************************)
(* A restart ends all requests at once.                                    *)
(***************************************************************************)
LEMMA RestartInvariant ==
  ASSUME BInv, Restart
  PROVE  BInv'
<1>1. /\ requests' = [r \in Requests |-> AfterAll(requests[r])]
      /\ memCache' = {} /\ saving' = {}
      /\ dropped' = dropped \cup saving \cup UNION {Abandoned(requests[r]) : r \in Requests}
      /\ UNCHANGED <<noteHints, payments, answers, events>>
  BY DEF Restart, poolVars, logVars
<1>2. \A r \in Requests : requests'[r] = Idle \/ RequestInv(requests'[r], events', payments')
  BY <1>1, Afterwards
<1>3. \A h \in Hinted' : h \in Hinted \/ \E r \in Requests : h \in Abandoned(requests[r])
  BY <1>1 DEF Hinted
<1>4. HintsInv'
  BY <1>1, <1>3, Afterwards DEF BInv, HintsInv
<1> QED BY <1>1, <1>2, <1>4 DEF BInv, PaymentsInv

(***************************************************************************)
(* The saves, the connection and the wallet.                               *)
(***************************************************************************)
LEMMA OutsideInvariant ==
  ASSUME BInv, UNCHANGED <<payments, requests, answers>>, LogGrows,
         Hinted' \subseteq Hinted, saving' \subseteq saving, memCache' = memCache
  PROVE  BInv'
<1>1. IsSequence(events') /\ \A n \in 0..Len(events) : n \in 0..Len(events')
      /\ \A p : Accepted(p, events) => Accepted(p, events')
  BY LogKeeps DEF BInv
<1>2. ASSUME NEW q, RequestInv(q, events, payments)
      PROVE  RequestInv(q, events', payments)
  BY <1>1, <1>2 DEF RequestInv
<1>3. \A r \in Requests : requests[r] = Idle \/ RequestInv(requests[r], events', payments)
  BY <1>2 DEF BInv
<1>4. HintsInv'
  BY DEF BInv, HintsInv
<1> QED BY <1>1, <1>3, <1>4 DEF BInv, PaymentsInv

(***************************************************************************)
(* Every step keeps the invariant.                                         *)
(***************************************************************************)
LEMMA NextInvariant == BInv /\ [BackendNext]_<<backendVars, poolVars>> => BInv'
<1> SUFFICES ASSUME BInv, [BackendNext]_<<backendVars, poolVars>> PROVE BInv'
  OBVIOUS
<1>1. ASSUME NEW r \in Requests, Step(r) PROVE BInv'
  <2>1. ASSUME NEW c \in Commitment, StartShield(r, "shield", c) \/ StartShield(r, "execute", c)
        PROVE  BInv'
    BY <2>1, ShieldInvariant
  <2>2. ASSUME NEW route, NEW key \in Keys, Synced(r, route, key) PROVE BInv'
    BY <2>2, BeginInvariant
  <2>3. Org \in Keys /\ Employees \subseteq Keys /\ Callers \subseteq Keys
    BY BackendAssumption
  <2>4. ASSUME NEW t \in Tokens, NEW amount \in Amounts, Prove(r, t, amount) PROVE BInv'
    BY <2>4, ProveInvariant
  <2>5. CASE Hear(r) BY <2>5, HearInvariant
  <2>6. CASE Submit(r) BY <2>6, SubmitInvariant
  <2>7. CASE Mined(r) BY <2>7, MinedInvariant
  <2>8. CASE Recorded(r) BY <2>8, RecordedInvariant
  <2>9. CASE Answer(r) BY <2>9, AnswerInvariant
  <2>10. CASE Fail(r) BY <2>10, FailInvariant
  <2> QED BY <1>1, <2>1, <2>2, <2>3, <2>4, <2>5, <2>6, <2>7, <2>8, <2>9, <2>10 DEF Step
<1>2. ASSUME NEW h \in saving, Saved(h) \/ SaveFailed(h) PROVE BInv'
  <2>1. /\ UNCHANGED <<payments, requests, answers, events, memCache>>
        /\ saving' = saving \ {h}
        /\ noteHints' \subseteq noteHints \cup {h} /\ dropped' \subseteq dropped \cup {h}
    BY <1>2 DEF Saved, SaveFailed, poolVars, logVars
  <2>2. Hinted' \subseteq Hinted
    BY <2>1 DEF Hinted
  <2> QED BY <2>1, <2>2, OutsideInvariant DEF LogGrows
<1>3. CASE Reconnected \/ ConnectionLost
  <2>1. UNCHANGED <<payments, requests, answers, events, memCache, saving, noteHints, dropped>>
    BY <1>3 DEF Reconnected, ConnectionLost, poolVars, logVars
  <2>2. Hinted' = Hinted
    BY <2>1 DEF Hinted
  <2> QED BY <2>1, <2>2, OutsideInvariant DEF LogGrows
<1>4. CASE Restart BY <1>4, RestartInvariant
<1>5. ASSUME NEW a \in answers, WalletSends(a) PROVE BInv'
  <2>1. UNCHANGED <<payments, requests, answers, memCache, saving, noteHints, dropped>>
    BY <1>5 DEF WalletSends, backendVars, hintVars
  <2>2. Hinted' = Hinted
    BY <2>1 DEF Hinted
  <2>3. LogGrows
    BY <1>5, PoolAppends DEF WalletSends, BInv
  <2> QED BY <2>1, <2>2, <2>3, OutsideInvariant
<1>6. CASE UNCHANGED <<backendVars, poolVars>>
  <2>1. UNCHANGED <<payments, requests, answers, events, memCache, saving, noteHints, dropped>>
    BY <1>6 DEF backendVars, hintVars, poolVars, logVars
  <2>2. Hinted' = Hinted
    BY <2>1 DEF Hinted
  <2> QED BY <2>1, <2>2, OutsideInvariant DEF LogGrows
<1> QED BY <1>1, <1>2, <1>3, <1>4, <1>5, <1>6 DEF BackendNext

(***************************************************************************)
(* The inductive invariant holds of the backend.                           *)
(***************************************************************************)
THEOREM BackendInvariant == BackendSpec => []BInv
BY InitInvariant, NextInvariant, PTL DEF BackendSpec

(***************************************************************************)
(* Requests, hints and saves keep their types; what is being saved has     *)
(* been noted in memCache.                                                 *)
(***************************************************************************)
THEOREM BackendTypeCorrect == BackendSpec => []BackendTypeOK
BY BackendInvariant, InvariantImplies, PTL

(***************************************************************************)
(* A payment listed is one the pool has accepted, and an answered one is   *)
(* listed.                                                                 *)
(***************************************************************************)
THEOREM PaymentsAreReal == BackendSpec => []PaymentsWereMade
BY BackendInvariant, InvariantImplies, PTL

-----------------------------------------------------------------------------
(* Sessions and calls, beside the pool.  The memory of a session is right  *)
(* about the pool (MemoryRight), and has heard the log in its order.       *)

Shields == {"shield", "execute"}

\* What a request proves: it never changes.
SpendGiven(in, p, tree) ==
  /\ in \in Pairs(Range(tree)) /\ in[1] # Zero
  /\ SpendCircuit(in, p)
  /\ p.token = in[1].token
  /\ p.nullifiers = [i \in 1..2 |-> SlotNullifier(in[i])]
  /\ p.newCommitments \in Pairs(Commitment)
  /\ p.publicAmount \in Nat
  /\ p.recipient \in Accounts \cup {Zero}
  /\ "commitment" \notin DOMAIN p

CallGiven(route, in, p, tree) ==
  \/ route \in Shields /\ \E c \in Commitment : p = ShieldParams(c)
  \/ route \in Gives \cup Exits /\ SpendGiven(in, p, tree)

SessionRight(v, key, upto, log, tree, dead) ==
  /\ MemoryRight(v, tree, dead)
  /\ \A c \in DOMAIN v.owned : c.owner = key
  /\ \A p \in 1..Len(log) : p > upto => OutsOf(log[p]) \cap Range(v.leaves) = {}
  /\ \A p \in 1..upto : log[p].type = "Spent" =>
                          NonZero(Range(log[p].nullifiers)) \subseteq v.spent

\* The session of a proof has the root that was proved against, for good.
RequestRight(q, log, tree, dead) ==
  /\ q.pc = "synced" => /\ "view" \in DOMAIN q /\ DOMAIN q.view.owned = {}
                        /\ q.route \in Gives \cup Exits
  /\ "view" \in DOMAIN q => /\ "upto" \in DOMAIN q
                            /\ SessionRight(q.view, q.key, q.upto, log, tree, dead)
  /\ q.pc # "synced" => CallGiven(q.route, q.in, q.call, tree)
  /\ q.pc = "proving" /\ q.route \notin Shields =>
       "view" \in DOMAIN q /\ q.view.root = q.call.merkleRoot /\ q.view.root # Zero
  /\ q.pc \notin {"synced", "proving"} => q.route \in ServerSends

RequestsRight ==
  \A r \in Requests :
    requests[r] = Idle \/ RequestRight(requests[r], events, leaves, spentNullifiers)

AnswersRight ==
  \A a \in answers : a.call = a.proved /\ CallGiven(a.route, a.in, a.call, leaves)

\* A note that is found by its hint is under its owner's key.
HintsFiled == \A h \in Hinted : h.key = h.commitment.owner

SystemRight == PoolInv /\ LogRebuildsTree /\ RequestsRight /\ AnswersRight /\ HintsFiled

\* What the pool held, it holds; a call logs leaves the tree did not have.
PoolGrows ==
  /\ leaves \in Seq(Commitment) /\ leaves' \in Seq(Commitment) /\ Extends(leaves', leaves)
  /\ spentNullifiers \subseteq spentNullifiers'
  /\ events \in Seq(EventType)
  /\ \/ events' = events
     \/ \E e \in EventType : events' = Append(events, e) /\ OutsOf(e) \cap Range(leaves) = {}

(***************************************************************************)
(* A shield makes the one commitment it names, a spend its outputs.        *)
(***************************************************************************)
LEMMA CallMakes ==
  ASSUME NEW route, NEW in, NEW p, NEW tree, CallGiven(route, in, p, tree)
  PROVE  /\ route \in Shields =>
              /\ \E c \in Commitment : p = ShieldParams(c) /\ Made(p) = {c}
              /\ "commitment" \in DOMAIN p /\ "merkleRoot" \notin DOMAIN p
         /\ route \notin Shields =>
              /\ SpendGiven(in, p, tree) /\ "commitment" \notin DOMAIN p
              /\ Made(p) = NonZero(Range(p.newCommitments))
<1>1. \A x \in Shields : x \notin Gives \cup Exits
  BY DEF Shields, Gives, Exits
<1>2. ASSUME route \in Shields
      PROVE  /\ \E c \in Commitment : p = ShieldParams(c) /\ Made(p) = {c}
             /\ "commitment" \in DOMAIN p /\ "merkleRoot" \notin DOMAIN p
  <2>1. PICK c \in Commitment : p = ShieldParams(c)
    BY <1>1, <1>2 DEF CallGiven
  <2>2. DOMAIN p = {"token", "amount", "commitment"} /\ p.commitment = c
    BY <2>1 DEF ShieldParams
  <2> QED BY <2>1, <2>2 DEF Made
<1>3. ASSUME route \notin Shields
      PROVE  /\ SpendGiven(in, p, tree) /\ "commitment" \notin DOMAIN p
             /\ Made(p) = NonZero(Range(p.newCommitments))
  <2>1. SpendGiven(in, p, tree)
    BY <1>3 DEF CallGiven
  <2>2. "commitment" \notin DOMAIN p
    BY <2>1 DEF SpendGiven
  <2> QED BY <2>1, <2>2 DEF Made
<1> QED BY <1>2, <1>3

(***************************************************************************)
(* A call stays what it is while the tree grows.                           *)
(***************************************************************************)
LEMMA CallStays ==
  ASSUME NEW route, NEW in, NEW p, NEW tree, CallGiven(route, in, p, tree),
         NEW tree2, Range(tree) \subseteq Range(tree2)
  PROVE  CallGiven(route, in, p, tree2)
<1>1. SpendGiven(in, p, tree) => SpendGiven(in, p, tree2)
  <2>1. in \in Pairs(Range(tree)) => in \in Pairs(Range(tree2))
    BY DEF Pairs
  <2> QED BY <2>1 DEF SpendGiven
<1> QED BY <1>1 DEF CallGiven

(***************************************************************************)
(* A session is right about a pool that has moved on.                      *)
(***************************************************************************)
LEMMA SessionStays ==
  ASSUME PoolGrows, NEW v, NEW key, NEW n \in 0..Len(events),
         SessionRight(v, key, n, events, leaves, spentNullifiers)
  PROVE  SessionRight(v, key, n, events', leaves', spentNullifiers')
<1>1. MemoryRight(v, leaves', spentNullifiers')
  BY MemoryGrows DEF PoolGrows, SessionRight
<1>2. Range(v.leaves) \subseteq Range(leaves) /\ Len(events) \in Nat
  BY DEF SessionRight, MemoryRight, LeavesRight, PoolGrows
<1>3. CASE events' = events
  BY <1>1, <1>3 DEF SessionRight
<1>4. ASSUME NEW e \in EventType, events' = Append(events, e),
             OutsOf(e) \cap Range(leaves) = {}
      PROVE  SessionRight(v, key, n, events', leaves', spentNullifiers')
  <2> DEFINE log == Append(events, e)
  <2>1. /\ Len(log) = Len(events) + 1 /\ log[Len(events) + 1] = e
        /\ \A p \in 1..Len(events) : log[p] = events[p]
        /\ \A p \in 1..Len(events) + 1 : p \in 1..Len(events) \/ p = Len(events) + 1
    BY DEF PoolGrows
  <2> HIDE DEF log
  <2>2. ASSUME NEW p \in 1..Len(log), p > n
        PROVE  OutsOf(log[p]) \cap Range(v.leaves) = {}
    <3>1. CASE p \in 1..Len(events)
      BY <2>1, <2>2, <3>1 DEF SessionRight
    <3>2. CASE p = Len(events) + 1
      BY <1>2, <1>4, <2>1, <3>2
    <3> QED BY <2>1, <3>1, <3>2
  <2>3. ASSUME NEW p \in 1..n, log[p].type = "Spent"
        PROVE  NonZero(Range(log[p].nullifiers)) \subseteq v.spent
    <3>1. p \in 1..Len(events) BY <1>2
    <3> QED BY <2>1, <2>3, <3>1 DEF SessionRight
  <2>4. SessionRight(v, key, n, log, leaves', spentNullifiers')
    BY <1>1, <2>2, <2>3 DEF SessionRight
  <2> QED BY <1>4, <2>4 DEF log
<1> QED BY <1>3, <1>4 DEF PoolGrows

(***************************************************************************)
(* So is a request.                                                        *)
(***************************************************************************)
LEMMA RequestStays ==
  ASSUME PoolGrows, NEW q, "upto" \in DOMAIN q => q.upto \in 0..Len(events),
         RequestRight(q, events, leaves, spentNullifiers)
  PROVE  RequestRight(q, events', leaves', spentNullifiers')
<1>1. Range(leaves) \subseteq Range(leaves')
  BY DEF PoolGrows, Extends, Range
<1>2. q.pc # "synced" => CallGiven(q.route, q.in, q.call, leaves')
  BY <1>1, CallStays DEF RequestRight
<1>3. "view" \in DOMAIN q => SessionRight(q.view, q.key, q.upto, events', leaves', spentNullifiers')
  BY SessionStays DEF RequestRight
<1> QED BY <1>2, <1>3 DEF RequestRight

(***************************************************************************)
(* A step of one request has to establish its own part; the pool may grow. *)
(***************************************************************************)
LEMMA RightStep ==
  ASSUME BInv, RequestsRight, PoolGrows, NEW r \in Requests, NEW new,
         requests' = [requests EXCEPT ![r] = new],
         new = Idle \/ RequestRight(new, events', leaves', spentNullifiers')
  PROVE  RequestsRight'
<1>1. requests'[r] = new /\ \A s \in Requests \ {r} : requests'[s] = requests[s]
  BY DEF BInv
<1>2. ASSUME NEW s \in Requests
      PROVE  requests'[s] = Idle \/ RequestRight(requests'[s], events', leaves', spentNullifiers')
  <2>1. CASE s = r BY <1>1, <2>1
  <2>2. CASE s # r /\ requests[s] # Idle
    <3>1. /\ "upto" \in DOMAIN requests[s] => requests[s].upto \in 0..Len(events)
          /\ RequestRight(requests[s], events, leaves, spentNullifiers)
      BY <2>2 DEF BInv, RequestInv, RequestsRight
    <3> QED BY <1>1, <2>2, <3>1, RequestStays
  <2>3. CASE s # r /\ requests[s] = Idle BY <1>1, <2>3
  <2> QED BY <2>1, <2>2, <2>3
<1> QED BY <1>2 DEF RequestsRight

(***************************************************************************)
(* A step of the backend alone leaves the pool as it was.                  *)
(***************************************************************************)
LEMMA PoolQuiet ==
  ASSUME SystemRight, UNCHANGED poolVars
  PROVE  /\ PoolInv' /\ LogRebuildsTree' /\ PoolGrows
         /\ UNCHANGED <<events, leaves, spentNullifiers>>
<1>1. PoolInv' /\ UNCHANGED <<events, leaves, spentNullifiers>>
  BY PoolStutters DEF SystemRight
<1>2. LogRebuildsTree'
  BY <1>1 DEF SystemRight, LogRebuildsTree, Replayed
<1>3. PoolGrows
  <2>1. leaves \in Seq(Commitment) /\ events \in Seq(EventType)
    BY DEF SystemRight, PoolInv, IInv, TypeOK
  <2>2. Extends(leaves, leaves) BY DEF Extends
  <2> QED BY <1>1, <2>1, <2>2 DEF PoolGrows
<1> QED BY <1>1, <1>2, <1>3

(***************************************************************************)
(* Most steps of a request touch neither the pool nor the database.        *)
(***************************************************************************)
LEMMA QuietRight ==
  ASSUME BInv, SystemRight, UNCHANGED <<hintVars, answers, poolVars>>,
         NEW r \in Requests, NEW new, requests' = [requests EXCEPT ![r] = new],
         RequestRight(new, events, leaves, spentNullifiers)
  PROVE  SystemRight'
<1>1. /\ PoolInv' /\ LogRebuildsTree' /\ PoolGrows
      /\ UNCHANGED <<events, leaves, spentNullifiers>>
  BY PoolQuiet
<1>2. RequestsRight'
  BY <1>1, RightStep DEF SystemRight
<1>3. HintsFiled'
  BY DEF SystemRight, HintsFiled, Hinted, hintVars
<1>4. AnswersRight'
  BY <1>1 DEF SystemRight, AnswersRight
<1> QED BY <1>1, <1>2, <1>3, <1>4 DEF SystemRight

(***************************************************************************)
(* A call that the pool accepts makes its notes and no other.              *)
(***************************************************************************)
LEMMA CallAccepted ==
  ASSUME SystemRight, NEW route, NEW in, NEW p, CallGiven(route, in, p, leaves),
         \/ route \in Shields /\ Shield(Wallet, p)
         \/ route \notin Shields /\ Spend(in, p)
  PROVE  /\ PoolInv' /\ LogRebuildsTree' /\ PoolGrows
         /\ Range(leaves') = Range(leaves) \cup Made(p)
<1>0. PoolInv /\ IInv /\ TypeOK /\ TreeHoldsKnownOnce /\ LogRebuildsTree
  BY DEF SystemRight, PoolInv, IInv
<1>1. leaves \in Seq(Commitment) /\ events \in Seq(EventType) /\ IsInjective(leaves)
      /\ Range(leaves) = knownCommitments
  BY <1>0 DEF TypeOK, TreeHoldsKnownOnce
<1>2. PoolInv' => TypeOK' /\ leaves' \in Seq(Commitment)
  BY DEF PoolInv, IInv, TypeOK
<1>3. CASE route \in Shields /\ Shield(Wallet, p)
  <2>1. PICK c \in Commitment : p = ShieldParams(c) /\ Made(p) = {c}
    BY <1>3, CallMakes
  <2>2. Shield(Wallet, ShieldParams(c)) /\ Wallet \in Accounts
    BY <1>3, <2>1, BackendAssumption
  <2>3. /\ PoolInv' /\ Extends(leaves', leaves) /\ spentNullifiers \subseteq spentNullifiers'
        /\ leaves' = Append(leaves, c)
        /\ \E e \in EventType : events' = Append(events, e) /\ OutsOf(e) \cap Range(leaves) = {}
    BY <1>0, <2>2, ShieldLogged
  <2>4. Range(leaves') = Range(leaves) \cup {c}
    <3>1. c \notin Range(leaves)
      BY <1>1, <2>2 DEF Shield, ShieldAccepted, ShieldParams
    <3> QED BY <1>1, <2>3, <3>1, AppendDistinct
  <2>5. LogRebuildsTree'
    BY <1>0, <1>2, <2>2, <2>3, ShieldReplays
  <2> QED BY <1>1, <1>2, <2>1, <2>3, <2>4, <2>5 DEF PoolGrows
<1>4. CASE route \notin Shields /\ Spend(in, p)
  <2> DEFINE outs == p.newCommitments
  <2>1. SpendGiven(in, p, leaves) /\ Made(p) = NonZero(Range(outs))
    BY <1>4, CallMakes
  <2>2. SpendParams(p, in, outs) /\ outs \in Pairs(Commitment)
    BY <2>1 DEF SpendGiven, SpendParams
  <2> HIDE DEF outs
  <2>3. /\ PoolInv' /\ Extends(leaves', leaves) /\ spentNullifiers \subseteq spentNullifiers'
        /\ leaves' = WithOutputs(leaves, outs)
        /\ \E e \in EventType : events' = Append(events, e) /\ OutsOf(e) \cap Range(leaves) = {}
    BY <1>0, <1>4, <2>2, SpendLogged
  <2>4. \A i \in 1..2 : outs[i] \notin Range(leaves)
    BY <1>1, <1>4 DEF Spend, SpendAccepted, NewOutputs, outs
  <2>5. Range(leaves') = Range(leaves) \cup NonZero(Range(outs))
    BY <1>1, <2>2, <2>3, <2>4, WithOutputsDistinct
  <2>6. LogRebuildsTree'
    BY <1>0, <1>2, <1>4, <2>3, SpendReplays
  <2> QED BY <1>1, <1>2, <2>1, <2>3, <2>5, <2>6 DEF PoolGrows
<1> QED BY <1>3, <1>4

-----------------------------------------------------------------------------
(* The steps of a request, and its session. *)

(***************************************************************************)
(* A new session has heard all of the log.                                 *)
(***************************************************************************)
LEMMA SyncedRight ==
  ASSUME BInv, SystemRight, NEW r \in Requests, NEW route \in Gives \cup Exits, NEW key,
         Synced(r, route, key)
  PROVE  SystemRight'
<1> DEFINE v == Replay(Len(events), Len(events))
           new == [pc |-> "synced", route |-> route, key |-> key,
                   view |-> v, upto |-> Len(events)]
<1>1. requests' = [requests EXCEPT ![r] = new] /\ UNCHANGED <<hintVars, answers, poolVars>>
  BY DEF Synced
<1>2. /\ events \in Seq(EventType) /\ leaves \in Seq(Commitment)
      /\ LogSound(events, leaves, spentNullifiers) /\ LogRebuildsTree
  BY DEF SystemRight, PoolInv, IInv, TypeOK, LogRight
<1>3. /\ MemoryRight(v, leaves, spentNullifiers) /\ DOMAIN v.owned = {}
      /\ v.spent = spentNullifiers
  BY <1>2, ReplayComplete
<1>4. /\ DOMAIN new = {"pc", "route", "key", "view", "upto"}
      /\ new.pc = "synced" /\ new.route = route /\ new.key = key
      /\ new.view = v /\ new.upto = Len(events)
  OBVIOUS
<1> HIDE DEF v, new
<1>5. \A p \in 1..Len(events) : events[p].type = "Spent" =>
        NonZero(Range(events[p].nullifiers)) \subseteq spentNullifiers
  BY <1>2 DEF LogSound, EventSound
<1>6. SessionRight(v, key, Len(events), events, leaves, spentNullifiers)
  <2>1. Len(events) \in Nat BY <1>2
  <2>2. \A p \in 1..Len(events) : ~(p > Len(events)) BY <2>1
  <2> QED BY <1>3, <1>5, <2>2 DEF SessionRight
<1>7. RequestRight(new, events, leaves, spentNullifiers)
  BY <1>3, <1>4, <1>6 DEF RequestRight
<1> QED BY <1>1, <1>7, QuietRight

(***************************************************************************)
(* A shield names a commitment.                                            *)
(***************************************************************************)
LEMMA ShieldRight ==
  ASSUME BInv, SystemRight, NEW r \in Requests, NEW route \in Shields,
         NEW c \in Commitment, StartShield(r, route, c)
  PROVE  SystemRight'
<1> DEFINE call == [token |-> c.token, amount |-> c.amount, commitment |-> c]
           new == [pc |-> "proving", route |-> route, key |-> c.owner,
                   in |-> <<Zero, Zero>>, call |-> call]
<1>1. requests' = [requests EXCEPT ![r] = new] /\ UNCHANGED <<hintVars, answers, poolVars>>
  BY DEF StartShield
<1>2. call = ShieldParams(c)
  BY DEF ShieldParams
<1> HIDE DEF call
<1>3. /\ DOMAIN new = {"pc", "route", "key", "in", "call"}
      /\ new.pc = "proving" /\ new.route = route /\ new.call = call
  OBVIOUS
<1> HIDE DEF new
<1>4. CallGiven(new.route, new.in, new.call, leaves)
  BY <1>2, <1>3 DEF CallGiven
<1>5. RequestRight(new, events, leaves, spentNullifiers)
  BY <1>3, <1>4 DEF RequestRight
<1> QED BY <1>1, <1>5, QuietRight

(***************************************************************************)
(* The memory of a session never forgets a root or a nullifier.            *)
(***************************************************************************)
LEMMA EventHeard ==
  ASSUME NEW v, IsMemory(v), NEW e
  PROVE  /\ OnEvent(v, e).root = v.root
         /\ v.spent \subseteq OnEvent(v, e).spent
         /\ e.type = "Spent" => NonZero(Range(e.nullifiers)) \subseteq OnEvent(v, e).spent
<1>1. \A kept, heard : /\ Updated(v, kept, heard).root = v.root
                       /\ Updated(v, kept, heard).spent = v.spent \cup heard
  BY DEF Updated
<1>2. CASE e.type = "Shielded"
  <2>1. \E kept : OnEvent(v, e) = Updated(v, kept, {})
    BY <1>2, EventUpdates
  <2> QED BY <1>1, <1>2, <2>1
<1>3. CASE e.type # "Shielded"
  <2>1. \E kept : OnEvent(v, e) = Updated(v, kept, NonZero(Range(e.nullifiers)))
    BY <1>3, EventUpdates
  <2> QED BY <1>1, <2>1
<1> QED BY <1>2, <1>3

(***************************************************************************)
(* A session that hears the next event stays right.                        *)
(***************************************************************************)
LEMMA SessionHears ==
  ASSUME SystemRight, NEW v, NEW key, NEW n \in 0..Len(events), n < Len(events),
         SessionRight(v, key, n, events, leaves, spentNullifiers)
  PROVE  LET u == OnEvent(v, events[n + 1]) IN
         /\ SessionRight(u, key, n + 1, events, leaves, spentNullifiers)
         /\ u.root = v.root /\ DOMAIN u.owned = DOMAIN v.owned
<1> DEFINE e == events[n + 1]
           u == OnEvent(v, e)
<1>1. /\ leaves \in Seq(Commitment) /\ Len(events) \in Nat
      /\ LogSound(events, leaves, spentNullifiers)
  BY DEF SystemRight, PoolInv, IInv, TypeOK, LogRight
<1>2. n + 1 \in 1..Len(events) /\ n + 1 > n
  BY <1>1
<1>3. /\ EventSound(e, leaves, spentNullifiers) /\ OutsOf(e) \cap Range(v.leaves) = {}
      /\ MemoryRight(v, leaves, spentNullifiers) /\ IsMemory(v)
  BY <1>1, <1>2 DEF LogSound, SessionRight, MemoryRight
<1>4. \A p \in 1..Len(events) : p > n + 1 =>
        /\ OutsOf(events[p]) \cap Range(v.leaves) = {}
        /\ OutsOf(events[p]) \cap OutsOf(e) = {}
  BY <1>1, <1>2 DEF LogSound, SessionRight
<1> HIDE DEF e
<1>5. /\ MemoryRight(u, leaves, spentNullifiers)
      /\ Range(u.leaves) \subseteq Range(v.leaves) \cup OutsOf(e)
      /\ DOMAIN u.owned = DOMAIN v.owned
  BY <1>1, <1>3, EventKeeps
<1>6. /\ u.root = v.root /\ v.spent \subseteq u.spent
      /\ e.type = "Spent" => NonZero(Range(e.nullifiers)) \subseteq u.spent
  BY <1>3, EventHeard
<1> HIDE DEF u
<1>7. ASSUME NEW p \in 1..n + 1, events[p].type = "Spent"
      PROVE  NonZero(Range(events[p].nullifiers)) \subseteq u.spent
  <2>1. CASE p = n + 1 BY <1>6, <1>7, <2>1 DEF e
  <2>2. CASE p \in 1..n BY <1>6, <1>7, <2>2 DEF SessionRight
  <2> QED BY <2>1, <2>2
<1>8. SessionRight(u, key, n + 1, events, leaves, spentNullifiers)
  BY <1>4, <1>5, <1>7 DEF SessionRight
<1> QED BY <1>5, <1>6, <1>8 DEF u, e

(***************************************************************************)
(* A request whose session hears an event keeps what it proves.            *)
(***************************************************************************)
LEMMA HearRight ==
  ASSUME BInv, SystemRight, NEW r \in Requests, Hear(r)
  PROVE  SystemRight'
<1> DEFINE q == requests[r]
           heard == OnEvent(q.view, events[q.upto + 1])
           new == [q EXCEPT !.view = heard, !.upto = q.upto + 1]
<1>1. requests' = [requests EXCEPT ![r] = new] /\ UNCHANGED <<hintVars, answers, poolVars>>
  BY DEF Hear
<1>2. q # Idle /\ q.pc \in {"synced", "proving"} /\ "view" \in DOMAIN q /\ q.upto < Len(events)
  BY DEF Hear, InFlight
<1>3. RequestInv(q, events, payments) /\ RequestRight(q, events, leaves, spentNullifiers)
  BY <1>2 DEF BInv, SystemRight, RequestsRight
<1>4. /\ "upto" \in DOMAIN q /\ q.upto \in 0..Len(events)
      /\ SessionRight(q.view, q.key, q.upto, events, leaves, spentNullifiers)
  BY <1>2, <1>3 DEF RequestInv, RequestRight
<1>5. /\ SessionRight(heard, q.key, q.upto + 1, events, leaves, spentNullifiers)
      /\ heard.root = q.view.root /\ DOMAIN heard.owned = DOMAIN q.view.owned
  BY <1>2, <1>4, SessionHears
<1> HIDE DEF heard
<1>6. /\ DOMAIN new = DOMAIN q
      /\ new.pc = q.pc /\ new.key = q.key /\ new.route = q.route
      /\ new.upto = q.upto + 1 /\ new.view = heard
      /\ q.pc # "synced" => new.call = q.call /\ new.in = q.in
  BY <1>2, <1>3, <1>4 DEF RequestInv
<1> HIDE DEF new
<1>7. RequestRight(new, events, leaves, spentNullifiers)
  BY <1>2, <1>3, <1>4, <1>5, <1>6 DEF RequestRight
<1> HIDE DEF q
<1> QED BY <1>1, <1>7, QuietRight

(***************************************************************************)
(* Forgetting the session leaves the call as it was.                       *)
(***************************************************************************)
LEMMA SubmitRight ==
  ASSUME BInv, SystemRight, NEW r \in Requests, Submit(r)
  PROVE  SystemRight'
<1> DEFINE q == requests[r]
           f == Restrict(q, DOMAIN q \ {"view", "upto"})
           new == [f EXCEPT !.pc = "submitted"]
<1>1. requests' = [requests EXCEPT ![r] = new] /\ UNCHANGED <<hintVars, answers, poolVars>>
  BY DEF Submit, BInv
<1>2. q # Idle /\ q.pc = "proving" /\ q.route \in ServerSends
  BY DEF Submit, InFlight
<1>3. RequestInv(q, events, payments) /\ RequestRight(q, events, leaves, spentNullifiers)
  BY <1>2 DEF BInv, SystemRight, RequestsRight
<1>4. {"pc", "route", "key", "in", "call"} \subseteq DOMAIN q
  BY <1>2, <1>3 DEF RequestInv
<1>5. /\ DOMAIN f = DOMAIN q \ {"view", "upto"}
      /\ f.key = q.key /\ f.route = q.route /\ f.call = q.call /\ f.in = q.in
  BY <1>4 DEF Restrict
<1> HIDE DEF f
<1>6. /\ DOMAIN new = DOMAIN q \ {"view", "upto"} /\ new.pc = "submitted"
      /\ new.key = q.key /\ new.route = q.route /\ new.call = q.call /\ new.in = q.in
  BY <1>4, <1>5
<1> HIDE DEF new
<1>7. RequestRight(new, events, leaves, spentNullifiers)
  BY <1>2, <1>3, <1>6 DEF RequestRight
<1> HIDE DEF q
<1> QED BY <1>1, <1>7, QuietRight

(***************************************************************************)
(* What the server has sent is mined, or what nobody waits for any more.   *)
(***************************************************************************)
LEMMA MinedRight ==
  ASSUME BInv, SystemRight, NEW r \in Requests, Mined(r)
  PROVE  SystemRight' /\ PoolGrows /\ Range(leaves') = Range(leaves) \cup Made(requests[r].call)
<1> DEFINE q == requests[r]
           new == IF q.pc = "submitted" THEN [q EXCEPT !.pc = "mined"] ELSE Idle
<1>1. /\ requests' = [requests EXCEPT ![r] = new] /\ UNCHANGED <<hintVars, answers>>
      /\ q # Idle /\ q.pc \in {"submitted", "orphaned"}
      /\ IF q.route = "execute" THEN Shield(Wallet, q.call) ELSE Spend(q.in, q.call)
  BY DEF Mined, InFlight
<1>2. RequestInv(q, events, payments) /\ RequestRight(q, events, leaves, spentNullifiers)
  BY <1>1 DEF BInv, SystemRight, RequestsRight
<1>3. CallGiven(q.route, q.in, q.call, leaves) /\ q.route \in ServerSends
  BY <1>1, <1>2 DEF RequestRight
<1>4. q.route \in Shields <=> q.route = "execute"
  BY <1>3 DEF ServerSends, Shields
<1>5. /\ PoolInv' /\ LogRebuildsTree' /\ PoolGrows
      /\ Range(leaves') = Range(leaves) \cup Made(q.call)
  BY <1>1, <1>3, <1>4, CallAccepted
<1>6. RequestRight(q, events', leaves', spentNullifiers')
  BY <1>2, <1>5, RequestStays DEF RequestInv
<1>7. new = Idle \/ RequestRight(new, events', leaves', spentNullifiers')
  <2>1. CASE q.pc = "submitted"
    <3>1. /\ DOMAIN new = DOMAIN q /\ new.pc = "mined" /\ new.key = q.key
          /\ new.route = q.route /\ new.call = q.call /\ new.in = q.in
          /\ "upto" \in DOMAIN q => new.upto = q.upto
          /\ "view" \in DOMAIN q => new.view = q.view
      BY <1>1, <1>2, <2>1 DEF RequestInv
    <3> HIDE DEF new
    <3> QED BY <1>3, <1>6, <2>1, <3>1 DEF RequestRight
  <2>2. CASE q.pc # "submitted" BY <2>2
  <2> QED BY <2>1, <2>2
<1> HIDE DEF new, q
<1>8. RequestsRight'
  BY <1>1, <1>5, <1>7, RightStep DEF SystemRight
<1>9. HintsFiled'
  BY <1>1 DEF SystemRight, HintsFiled, Hinted, hintVars
<1>10. AnswersRight'
  <2>1. Range(leaves) \subseteq Range(leaves') BY <1>5
  <2> QED BY <1>1, <2>1, CallStays DEF SystemRight, AnswersRight
<1> QED BY <1>5, <1>8, <1>9, <1>10 DEF SystemRight, q

(***************************************************************************)
(* A payment is recorded.                                                  *)
(***************************************************************************)
LEMMA RecordedRight ==
  ASSUME BInv, SystemRight, NEW r \in Requests, Recorded(r)
  PROVE  SystemRight'
<1> DEFINE q == requests[r]
           new == [q EXCEPT !.pc = "recorded"]
<1>1. /\ requests' = [requests EXCEPT ![r] = new]
      /\ UNCHANGED <<noteHints, memCache, saving, dropped, answers, poolVars>>
      /\ q # Idle /\ q.pc = "mined"
  BY DEF Recorded, InFlight
<1>2. RequestInv(q, events, payments) /\ RequestRight(q, events, leaves, spentNullifiers)
  BY <1>1 DEF BInv, SystemRight, RequestsRight
<1>3. /\ DOMAIN new = DOMAIN q /\ new.pc = "recorded" /\ new.key = q.key
      /\ new.route = q.route /\ new.call = q.call /\ new.in = q.in
      /\ "upto" \in DOMAIN q => new.upto = q.upto
      /\ "view" \in DOMAIN q => new.view = q.view
  BY <1>1, <1>2 DEF RequestInv
<1> HIDE DEF new
<1>4. RequestRight(new, events, leaves, spentNullifiers)
  BY <1>1, <1>2, <1>3 DEF RequestRight
<1>5. /\ PoolInv' /\ LogRebuildsTree' /\ PoolGrows
      /\ UNCHANGED <<events, leaves, spentNullifiers>>
  BY <1>1, PoolQuiet
<1> HIDE DEF q
<1>6. RequestsRight'
  BY <1>1, <1>4, <1>5, RightStep DEF SystemRight
<1>7. HintsFiled'
  BY <1>1 DEF SystemRight, HintsFiled, Hinted
<1>8. AnswersRight'
  BY <1>1, <1>5 DEF SystemRight, AnswersRight
<1> QED BY <1>5, <1>6, <1>7, <1>8 DEF SystemRight

(***************************************************************************)
(* What a request is told to send is what was proved: only a withdrawal    *)
(* reads the root again, from a session that has it for good.              *)
(***************************************************************************)
LEMMA ToldIsProved ==
  ASSUME NEW q, RequestInv(q, events, payments),
         RequestRight(q, events, leaves, spentNullifiers),
         \/ q.pc = "proving"
         \/ q.pc \in {"mined", "recorded"}
  PROVE  Told(q) = q.call
<1>1. q.call = [x \in DOMAIN q.call |-> q.call[x]]
  BY DEF RequestInv
<1>2. q.route = "withdraw" => CurrentRoot(q.view) = q.call.merkleRoot
  <2> SUFFICES ASSUME q.route = "withdraw" PROVE CurrentRoot(q.view) = q.call.merkleRoot
    OBVIOUS
  <2>1. q.route \notin Shields /\ q.route \notin ServerSends
    BY DEF Shields, ServerSends
  <2>2. q.view.root = q.call.merkleRoot /\ q.view.root # Zero
    BY <2>1 DEF RequestRight
  <2> QED BY <2>2 DEF CurrentRoot
<1>3. ToldRoot(q) = q.call.merkleRoot
  BY <1>2 DEF ToldRoot
<1> DEFINE p == q.call
<1> HIDE DEF p
<1>4. [p EXCEPT !.merkleRoot = p.merkleRoot] = p
  BY <1>1 DEF p
<1> QED BY <1>3, <1>4 DEF Told, p

(***************************************************************************)
(* The answer tells of what was proved, and its hints are filed under the  *)
(* keys of the owners.                                                     *)
(***************************************************************************)
LEMMA AnswerRight ==
  ASSUME BInv, SystemRight, NEW r \in Requests, Answer(r)
  PROVE  SystemRight' /\ Told(requests[r]) = requests[r].call
<1> DEFINE q == requests[r]
           wanted == Hints(q.route, q.key, q.call)
           a == [route |-> q.route, key |-> q.key, in |-> q.in,
                 proved |-> q.call, call |-> Told(q)]
<1>1. /\ requests' = [requests EXCEPT ![r] = Idle]
      /\ answers' = answers \cup {a} /\ SaveHints(wanted)
      /\ UNCHANGED poolVars
      /\ q # Idle /\ q.pc \in {"proving", "mined", "recorded"}
  BY DEF Answer, InFlight
<1>2. RequestInv(q, events, payments) /\ RequestRight(q, events, leaves, spentNullifiers)
  BY <1>1 DEF BInv, SystemRight, RequestsRight
<1>3. Told(q) = q.call
  BY <1>1, <1>2, ToldIsProved
<1>4. a.call = a.proved /\ CallGiven(a.route, a.in, a.call, leaves)
  BY <1>1, <1>2, <1>3 DEF RequestRight
<1>5. \A h \in wanted : h.key = h.commitment.owner
  BY DEF Hints, Hint
<1> HIDE DEF a, wanted
<1>6. /\ PoolInv' /\ LogRebuildsTree' /\ PoolGrows
      /\ UNCHANGED <<events, leaves, spentNullifiers>>
  BY <1>1, PoolQuiet
<1>7. RequestsRight'
  BY <1>1, <1>6, RightStep DEF SystemRight
<1>8. HintsFiled'
  <2>1. \A h \in Hinted' : h \in Hinted \cup wanted
    BY <1>1 DEF Hinted, SaveHints
  <2> QED BY <1>5, <2>1 DEF SystemRight, HintsFiled
<1>9. AnswersRight'
  BY <1>1, <1>4, <1>6 DEF SystemRight, AnswersRight
<1> QED BY <1>3, <1>6, <1>7, <1>8, <1>9 DEF SystemRight

(***************************************************************************)
(* What outlives a request is right.                                       *)
(***************************************************************************)
LEMMA AfterwardsRight ==
  ASSUME BInv, SystemRight, NEW r \in Requests
  PROVE  /\ AfterAll(requests[r]) = Idle
              \/ RequestRight(AfterAll(requests[r]), events, leaves, spentNullifiers)
         /\ \A h \in Abandoned(requests[r]) : h.key = h.commitment.owner
<1> DEFINE q == requests[r]
           new == [q EXCEPT !.pc = "orphaned"]
<1>1. \A h \in Abandoned(q) : h.key = h.commitment.owner
  BY DEF Abandoned, Hint
<1>2. CASE q = Idle \/ q.pc \notin {"submitted", "orphaned"}
  BY <1>1, <1>2 DEF Idle, AfterAll
<1>3. CASE q # Idle /\ q.pc \in {"submitted", "orphaned"}
  <2>1. RequestInv(q, events, payments) /\ RequestRight(q, events, leaves, spentNullifiers)
    BY <1>3 DEF BInv, SystemRight, RequestsRight
  <2>2. /\ DOMAIN new = DOMAIN q /\ new.pc = "orphaned" /\ new.key = q.key
        /\ new.route = q.route /\ new.call = q.call /\ new.in = q.in
        /\ "upto" \in DOMAIN q => new.upto = q.upto
        /\ "view" \in DOMAIN q => new.view = q.view
    BY <1>3, <2>1 DEF RequestInv
  <2>3. AfterAll(q) = new
    BY <1>3 DEF AfterAll
  <2> HIDE DEF new
  <2>4. RequestRight(new, events, leaves, spentNullifiers)
    BY <1>3, <2>1, <2>2 DEF RequestRight
  <2> QED BY <1>1, <2>3, <2>4
<1> QED BY <1>2, <1>3

(***************************************************************************)
(* A request fails.                                                        *)
(***************************************************************************)
LEMMA FailRight ==
  ASSUME BInv, SystemRight, NEW r \in Requests, Fail(r)
  PROVE  SystemRight'
<1> DEFINE new == IF requests[r].pc = "orphaned" THEN Idle ELSE AfterAll(requests[r])
<1>1. /\ requests' = [requests EXCEPT ![r] = new]
      /\ dropped' = dropped \cup Abandoned(requests[r])
      /\ UNCHANGED <<noteHints, memCache, saving, answers, poolVars>>
  BY DEF Fail
<1>2. /\ PoolInv' /\ LogRebuildsTree' /\ PoolGrows
      /\ UNCHANGED <<events, leaves, spentNullifiers>>
  BY <1>1, PoolQuiet
<1>3. new = Idle \/ RequestRight(new, events', leaves', spentNullifiers')
  BY <1>2, AfterwardsRight
<1> HIDE DEF new
<1>4. RequestsRight'
  BY <1>1, <1>2, <1>3, RightStep DEF SystemRight
<1>5. HintsFiled'
  <2>1. \A h \in Hinted' : h \in Hinted \cup Abandoned(requests[r])
    BY <1>1 DEF Hinted
  <2> QED BY <2>1, AfterwardsRight DEF SystemRight, HintsFiled
<1>6. AnswersRight'
  BY <1>1, <1>2 DEF SystemRight, AnswersRight
<1> QED BY <1>2, <1>4, <1>5, <1>6 DEF SystemRight

(***************************************************************************)
(* All of them do.                                                         *)
(***************************************************************************)
LEMMA RestartRight ==
  ASSUME BInv, SystemRight, Restart
  PROVE  SystemRight'
<1>1. /\ requests' = [r \in Requests |-> AfterAll(requests[r])]
      /\ memCache' = {} /\ saving' = {}
      /\ dropped' = dropped \cup saving \cup UNION {Abandoned(requests[r]) : r \in Requests}
      /\ UNCHANGED <<noteHints, answers, poolVars>>
  BY DEF Restart
<1>2. /\ PoolInv' /\ LogRebuildsTree' /\ PoolGrows
      /\ UNCHANGED <<events, leaves, spentNullifiers>>
  BY <1>1, PoolQuiet
<1>3. RequestsRight'
  BY <1>1, <1>2, AfterwardsRight DEF RequestsRight
<1>4. HintsFiled'
  <2>1. \A h \in Hinted' : h \in Hinted \/ \E r \in Requests : h \in Abandoned(requests[r])
    BY <1>1 DEF Hinted
  <2> QED BY <2>1, AfterwardsRight DEF SystemRight, HintsFiled
<1>5. AnswersRight'
  BY <1>1, <1>2 DEF SystemRight, AnswersRight
<1> QED BY <1>2, <1>3, <1>4, <1>5 DEF SystemRight

(***************************************************************************)
(* The saves and the connection leave the pool and the requests alone.     *)
(***************************************************************************)
LEMMA DatabaseRight ==
  ASSUME SystemRight, UNCHANGED <<requests, answers, poolVars>>, Hinted' \subseteq Hinted
  PROVE  SystemRight'
<1>1. /\ PoolInv' /\ LogRebuildsTree'
      /\ UNCHANGED <<events, leaves, spentNullifiers>>
  BY PoolQuiet
<1>2. RequestsRight' /\ HintsFiled' /\ AnswersRight'
  BY <1>1 DEF SystemRight, RequestsRight, HintsFiled, AnswersRight
<1> QED BY <1>1, <1>2 DEF SystemRight

(***************************************************************************)
(* The wallet sends what it was told.                                      *)
(***************************************************************************)
LEMMA WalletRight ==
  ASSUME BInv, SystemRight, NEW a \in answers, WalletSends(a)
  PROVE  SystemRight' /\ PoolGrows /\ Range(leaves') = Range(leaves) \cup Made(a.call)
<1>1. /\ UNCHANGED <<requests, answers, noteHints, memCache, saving, dropped>>
      /\ IF "commitment" \in DOMAIN a.call THEN Shield(Wallet, a.call) ELSE Spend(a.in, a.call)
  BY DEF WalletSends, backendVars, hintVars
<1>2. CallGiven(a.route, a.in, a.call, leaves)
  BY DEF SystemRight, AnswersRight
<1>3. "commitment" \in DOMAIN a.call <=> a.route \in Shields
  BY <1>2, CallMakes
<1>4. /\ PoolInv' /\ LogRebuildsTree' /\ PoolGrows
      /\ Range(leaves') = Range(leaves) \cup Made(a.call)
  BY <1>1, <1>2, <1>3, CallAccepted
<1>5. RequestsRight'
  <2>1. ASSUME NEW r \in Requests, requests[r] # Idle
        PROVE  RequestRight(requests[r], events', leaves', spentNullifiers')
    <3>1. /\ "upto" \in DOMAIN requests[r] => requests[r].upto \in 0..Len(events)
          /\ RequestRight(requests[r], events, leaves, spentNullifiers)
      BY <2>1 DEF BInv, RequestInv, SystemRight, RequestsRight
    <3> QED BY <1>4, <3>1, RequestStays
  <2> QED BY <1>1, <2>1 DEF RequestsRight
<1>6. HintsFiled'
  BY <1>1 DEF SystemRight, HintsFiled, Hinted
<1>7. AnswersRight'
  <2>1. Range(leaves) \subseteq Range(leaves') BY <1>4
  <2> QED BY <1>1, <2>1, CallStays DEF SystemRight, AnswersRight
<1> QED BY <1>4, <1>5, <1>6, <1>7 DEF SystemRight

-----------------------------------------------------------------------------
(* Salts.  The notes a request has drawn salts for: *)
MadeBy(q) == IF q.pc \in {"idle", "synced"} THEN {} ELSE Made(q.call)

\* Where the salt of a note may be: being saved, saved, or known to be lost.
Settlement == saving \cup dropped \cup noteHints

Answered(c) == \E a \in answers : c \in Made(a.call)

Unused(c) ==
  /\ c \notin Range(leaves)
  /\ \A r \in Requests : c \notin MadeBy(requests[r])
  /\ ~Answered(c)

Accounted(c) ==
  \/ \E r \in Requests : c \in MadeBy(requests[r])
  \/ Answered(c)
  \/ Hint(c.owner, c) \in Settlement

\* Salts are drawn once, and those of an unfinished proof are not in the tree.
DrawnOnce ==
  /\ \A r, s \in Requests : r # s => MadeBy(requests[r]) \cap MadeBy(requests[s]) = {}
  /\ \A r \in Requests : \A c \in MadeBy(requests[r]) : ~Answered(c)
  /\ \A r \in Requests : requests[r].pc = "proving" =>
       MadeBy(requests[r]) \cap Range(leaves) = {}

SaltsInv ==
  /\ DrawnOnce
  /\ memCache \subseteq Settlement
  /\ \A a \in answers : \A c \in Kept(a.route, a.call) : Hint(c.owner, c) \in Settlement
  /\ \A r \in Requests : requests[r].pc = "orphaned" =>
       \A c \in MadeBy(requests[r]) : Hint(c.owner, c) \in dropped
  /\ \A c \in Range(leaves) : Accounted(c)

SystemInv == BInv /\ SystemRight /\ SaltsInv

(***************************************************************************)
(* A fresh note is one nobody has.                                         *)
(***************************************************************************)
LEMMA FreshUnused ==
  ASSUME SystemRight, NEW k, NEW t, NEW amount, NEW c \in Fresh(k, t, amount)
  PROVE  /\ c \in Commitment /\ c # Zero
         /\ c.owner = k /\ c.token = t /\ c.amount = amount
         /\ Unused(c)
<1>1. /\ c \in Commitment /\ c.owner = k /\ c.token = t /\ c.amount = amount
      /\ c \notin knownCommitments
      /\ \A r \in Proved : c \notin Made(requests[r].call)
      /\ \A a \in answers : c \notin Made(a.call)
  BY DEF Fresh
<1>2. c \notin Range(leaves)
  BY <1>1 DEF SystemRight, PoolInv, IInv, TreeHoldsKnownOnce
<1>3. \A r \in Requests : c \notin MadeBy(requests[r])
  <2> SUFFICES ASSUME NEW r \in Requests, c \in MadeBy(requests[r]) PROVE FALSE
    OBVIOUS
  <2>1. requests[r].pc \notin {"idle", "synced"} /\ c \in Made(requests[r].call)
    BY DEF MadeBy
  <2>2. r \in Proved
    BY <2>1 DEF Proved, InFlight, Idle
  <2> QED BY <1>1, <2>1, <2>2
<1> QED BY <1>1, <1>2, <1>3, ZeroIsNoHash DEF Unused, Answered

(***************************************************************************)
(* The notes found by their hints are the key's, and in the tree.          *)
(***************************************************************************)
LEMMA InjectedRight ==
  ASSUME BInv, SystemRight, NEW r \in InFlight, requests[r].pc = "synced",
         NEW v \in Injected(r)
  PROVE  /\ requests[r].upto \in 0..Len(events) /\ requests[r].key \in Keys
         /\ requests[r].route \in Gives \cup Exits
         /\ SessionRight(v, requests[r].key, requests[r].upto, events, leaves, spentNullifiers)
         /\ DOMAIN v.owned \subseteq Range(v.leaves)
         /\ \A c \in DOMAIN v.owned : c \in Commitment /\ c.amount # 0
<1> DEFINE q == requests[r]
<1>1. RequestInv(q, events, payments) /\ RequestRight(q, events, leaves, spentNullifiers)
  BY DEF BInv, SystemRight, RequestsRight, InFlight
<1>2. /\ q.upto \in 0..Len(events) /\ q.key \in Keys /\ q.route \in Gives \cup Exits
      /\ DOMAIN q.view.owned = {}
      /\ SessionRight(q.view, q.key, q.upto, events, leaves, spentNullifiers)
  BY <1>1 DEF RequestInv, RequestRight
<1>3. PICK found \in {{}} \cup {HintsOf(q.key)} : v = TrackFound(q.view, found)
  BY DEF Injected
<1>4. \A c \in found : c.owner = q.key
  BY <1>3 DEF HintsOf, SystemRight, HintsFiled, Hinted
<1>5. MemoryRight(q.view, leaves, spentNullifiers)
  BY <1>2 DEF SessionRight
<1>6. /\ MemoryRight(v, leaves, spentNullifiers)
      /\ v.leaves = q.view.leaves /\ v.spent = q.view.spent
      /\ DOMAIN v.owned = found \cap Range(v.leaves)
  BY <1>2, <1>3, <1>5, TrackFoundKeeps
<1>7. SessionRight(v, q.key, q.upto, events, leaves, spentNullifiers)
  BY <1>2, <1>4, <1>6 DEF SessionRight
<1>8. \A c \in DOMAIN v.owned : c \in Commitment /\ c.amount # 0
  <2>1. DOMAIN v.owned \subseteq Range(leaves)
    BY <1>6 DEF MemoryRight
  <2>2. Range(leaves) = knownCommitments /\ Range(leaves) \subseteq Commitment
    BY DEF SystemRight, PoolInv, IInv, TreeHoldsKnownOnce, TypeOK
  <2>3. \A c \in knownCommitments : c.amount \in 1..MaxU64
    BY DEF SystemRight, PoolInv, KnownProvable
  <2> QED BY <2>1, <2>2, <2>3, PoolAssumption
<1> QED BY <1>2, <1>6, <1>7, <1>8

(***************************************************************************)
(* The outputs a route makes up take what its inputs leave, and nobody has *)
(* them yet.                                                               *)
(***************************************************************************)
LEMMA OutsRight ==
  ASSUME SystemRight, NEW r, requests[r].route \in Gives \cup Exits,
         NEW v, DOMAIN v.owned \subseteq Commitment, NEW t, NEW amount \in Nat,
         NEW in \in SelectNotes(v, t, amount), NEW outs \in Outs(r, t, amount, in)
  PROVE  /\ outs \in Pairs(Commitment)
         /\ OutputsFit(in, outs, t, IF requests[r].route \in Exits THEN amount ELSE 0)
         /\ \A c \in NonZero(Range(outs)) : Unused(c)
<1> DEFINE route == requests[r].route
           total == SlotAmount(in[1]) + SlotAmount(in[2])
           rest == SlotAmount(in[1]) + SlotAmount(in[2]) - amount
           change == IF rest = 0 THEN {Zero} ELSE Fresh(requests[r].key, t, rest)
           payees == IF route \in {"pay", "payroll"} THEN Employees ELSE Keys
           paid == UNION {Fresh(k, t, amount) : k \in payees}
<1>1. /\ amount > 0 /\ rest \in Nat /\ total = rest + amount
  <2>1. /\ amount > 0 /\ SlotAmount(in[1]) \in Nat /\ SlotAmount(in[2]) \in Nat
        /\ rest \in Nat
    BY NotesWorth
  <2> QED BY <2>1
<1>2. IF route \in Gives THEN outs \in {o \in paid \X change : o[1] # o[2]}
      ELSE outs \in change \X {Zero}
  BY DEF Outs
<1>3. ASSUME NEW c \in paid
      PROVE  c \in Commitment /\ c # Zero /\ c.token = t /\ c.amount = amount /\ Unused(c)
  BY <1>3, FreshUnused
<1>4. ASSUME NEW c \in change
      PROVE  /\ c \in Commitment \cup {Zero} /\ SlotAmount(c) = rest
             /\ c # Zero => c.token = t /\ c.amount \in Nat \ {0} /\ Unused(c)
  <2>1. CASE rest = 0
    <3>1. c = Zero BY <2>1
    <3> QED BY <2>1, <3>1 DEF SlotAmount
  <2>2. CASE rest # 0
    <3>1. c \in Fresh(requests[r].key, t, rest) BY <2>2
    <3> HIDE DEF rest
    <3>2. c \in Commitment /\ c # Zero /\ c.token = t /\ c.amount = rest /\ Unused(c)
      BY <3>1, FreshUnused
    <3> QED BY <1>1, <2>2, <3>2 DEF SlotAmount
  <2> QED BY <2>1, <2>2
<1> HIDE DEF paid, change, rest
<1>5. \A x \in Gives : x \notin Exits
  BY DEF Gives, Exits
<1>6. ASSUME NEW c1, NEW c2, outs = <<c1, c2>>
      PROVE  outs[1] = c1 /\ outs[2] = c2 /\ Range(outs) = {c1, c2}
  BY <1>6 DEF Range
<1>7. CASE route \in Gives
  <2>1. PICK c1 \in paid, c2 \in change : outs = <<c1, c2>> /\ c1 # c2
    BY <1>2, <1>7
  <2>2. outs[1] = c1 /\ outs[2] = c2 /\ Range(outs) = {c1, c2}
    BY <1>6, <2>1
  <2>3. SlotAmount(c1) = amount /\ SlotAmount(c2) = rest
    BY <1>3, <1>4 DEF SlotAmount
  <2>4. outs \in Pairs(Commitment)
    BY <1>3, <1>4, <2>1, <2>2 DEF Pairs
  <2>5. \A c \in NonZero(Range(outs)) : Unused(c)
    BY <1>3, <1>4, <2>2 DEF NonZero
  <2>6. \A i \in 1..2 : outs[i] # Zero => outs[i].token = t /\ outs[i].amount \in Nat \ {0}
    BY <1>1, <1>3, <1>4, <2>2
  <2>7. total = SlotAmount(outs[1]) + SlotAmount(outs[2]) + 0
    BY <1>1, <2>2, <2>3
  <2> QED BY <1>5, <1>7, <2>4, <2>5, <2>6, <2>7 DEF OutputsFit
<1>8. CASE route \notin Gives
  <2>1. PICK c1 \in change : outs = <<c1, Zero>>
    BY <1>2, <1>8
  <2>2. outs[1] = c1 /\ outs[2] = Zero /\ Range(outs) = {c1, Zero}
    BY <1>6, <2>1
  <2>3. SlotAmount(c1) = rest /\ SlotAmount(Zero) = 0
    BY <1>4 DEF SlotAmount
  <2>4. outs \in Pairs(Commitment)
    BY <1>4, <2>1, <2>2 DEF Pairs
  <2>5. \A c \in NonZero(Range(outs)) : Unused(c)
    BY <1>4, <2>2 DEF NonZero
  <2>6. \A i \in 1..2 : outs[i] # Zero => outs[i].token = t /\ outs[i].amount \in Nat \ {0}
    BY <1>4, <2>2
  <2>7. total = SlotAmount(outs[1]) + SlotAmount(outs[2]) + amount
    BY <1>1, <2>2, <2>3
  <2> QED BY <1>8, <2>4, <2>5, <2>6, <2>7 DEF OutputsFit
<1> QED BY <1>7, <1>8

(***************************************************************************)
(* A proof is of a spend of notes of the key, and its session caches the   *)
(* root it names.                                                          *)
(***************************************************************************)
LEMMA ProveRight ==
  ASSUME BInv, SystemRight, NEW r \in Requests, NEW t, NEW amount \in Amounts,
         Prove(r, t, amount)
  PROVE  /\ SystemRight'
         /\ requests'[r].pc = "proving"
         /\ \A c \in MadeBy(requests'[r]) : Unused(c)
<1> DEFINE q == requests[r]
           public == IF q.route \in Exits THEN amount ELSE 0
           recipient == IF q.route \in Exits THEN Wallet ELSE Zero
<1>1. r \in InFlight /\ q.pc = "synced" /\ UNCHANGED <<hintVars, answers, poolVars>>
  BY DEF Prove
<1>2. PICK v \in Injected(r) : \E in \in SelectNotes(v, t, amount) :
        /\ Provable(v, in, CurrentRoot(v))
        /\ \E outs \in Outs(r, t, amount, in) :
             requests' = [requests EXCEPT ![r] =
               [pc |-> "proving", route |-> q.route, key |-> q.key, in |-> in,
                call |-> [token |-> t, merkleRoot |-> CurrentRoot(v),
                          nullifiers |-> [i \in 1..2 |-> SlotNullifier(in[i])],
                          newCommitments |-> outs,
                          publicAmount |-> public, recipient |-> recipient],
                view |-> RootRead(v), upto |-> q.upto]]
  BY DEF Prove
<1>3. PICK in \in SelectNotes(v, t, amount) :
        /\ Provable(v, in, CurrentRoot(v))
        /\ \E outs \in Outs(r, t, amount, in) :
             requests' = [requests EXCEPT ![r] =
               [pc |-> "proving", route |-> q.route, key |-> q.key, in |-> in,
                call |-> [token |-> t, merkleRoot |-> CurrentRoot(v),
                          nullifiers |-> [i \in 1..2 |-> SlotNullifier(in[i])],
                          newCommitments |-> outs,
                          publicAmount |-> public, recipient |-> recipient],
                view |-> RootRead(v), upto |-> q.upto]]
  BY <1>2
<1>4. PICK outs \in Outs(r, t, amount, in) :
        requests' = [requests EXCEPT ![r] =
          [pc |-> "proving", route |-> q.route, key |-> q.key, in |-> in,
           call |-> [token |-> t, merkleRoot |-> CurrentRoot(v),
                     nullifiers |-> [i \in 1..2 |-> SlotNullifier(in[i])],
                     newCommitments |-> outs,
                     publicAmount |-> public, recipient |-> recipient],
           view |-> RootRead(v), upto |-> q.upto]]
  BY <1>3
<1> DEFINE call == [token |-> t, merkleRoot |-> CurrentRoot(v),
                    nullifiers |-> [i \in 1..2 |-> SlotNullifier(in[i])],
                    newCommitments |-> outs,
                    publicAmount |-> public, recipient |-> recipient]
           new == [pc |-> "proving", route |-> q.route, key |-> q.key, in |-> in,
                   call |-> call, view |-> RootRead(v), upto |-> q.upto]
<1>5. requests' = [requests EXCEPT ![r] = new]
  BY <1>4
<1>6. /\ DOMAIN call = {"token", "merkleRoot", "nullifiers", "newCommitments",
                        "publicAmount", "recipient"}
      /\ call.token = t /\ call.merkleRoot = CurrentRoot(v)
      /\ call.nullifiers = [i \in 1..2 |-> SlotNullifier(in[i])]
      /\ call.newCommitments = outs /\ call.publicAmount = public
      /\ call.recipient = recipient
  OBVIOUS
<1> HIDE DEF call
<1>7. /\ DOMAIN new = {"pc", "route", "key", "in", "call", "view", "upto"}
      /\ new.pc = "proving" /\ new.route = q.route /\ new.key = q.key /\ new.in = in
      /\ new.call = call /\ new.view = RootRead(v) /\ new.upto = q.upto
  OBVIOUS
<1> HIDE DEF new
<1>8. /\ q.upto \in 0..Len(events) /\ q.key \in Keys /\ q.route \in Gives \cup Exits
      /\ SessionRight(v, q.key, q.upto, events, leaves, spentNullifiers)
      /\ DOMAIN v.owned \subseteq Range(v.leaves)
      /\ \A c \in DOMAIN v.owned : c \in Commitment /\ c.amount # 0
  BY <1>1, InjectedRight
<1>9. MemoryRight(v, leaves, spentNullifiers) /\ leaves \in Seq(Commitment)
      /\ v.leaves \in Seq(Commitment)
      /\ \A c \in DOMAIN v.owned : c.owner = q.key
  BY <1>8 DEF SessionRight, MemoryRight, LeavesRight, SystemRight, PoolInv, IInv, TypeOK
<1>10. amount \in Nat /\ amount > 0 /\ DOMAIN v.owned \subseteq Commitment
  BY <1>8, PoolAssumption DEF SelectNotes
<1>11. /\ outs \in Pairs(Commitment) /\ OutputsFit(in, outs, t, public)
       /\ \A c \in NonZero(Range(outs)) : Unused(c)
  BY <1>8, <1>10, OutsRight
<1>12. /\ public \in Nat /\ recipient \in Accounts \cup {Zero}
       /\ public = 0 => recipient = Zero
  BY <1>10, BackendAssumption
<1> HIDE DEF public, recipient
<1>13. Balanced(in, call, t)
  BY <1>3, <1>6, <1>11, <1>12, FitBalances DEF Provable
<1>14. Provable(v, in, call.merkleRoot)
  BY <1>3, <1>6
<1>15. /\ SpendCircuit(in, call) /\ in \in Pairs(Range(leaves))
       /\ in[1] # Zero /\ in[1].token = t
  <2>1. \A c \in DOMAIN v.owned : c.owner = q.key /\ c.amount # 0
    BY <1>8, <1>9
  <2>2. call.token = t /\ call.nullifiers = [i \in 1..2 |-> SlotNullifier(in[i])]
    BY <1>6
  <2>3. q.key \in Keys
    BY <1>8
  <2>4. MemoryRight(v, leaves, spentNullifiers) /\ leaves \in Seq(Commitment)
    BY <1>9
  <2> HIDE DEF q
  <2> QED BY <1>13, <1>14, <2>1, <2>2, <2>3, <2>4, SelectedProvable
<1>16. SpendGiven(in, call, leaves)
  BY <1>6, <1>11, <1>12, <1>15 DEF SpendGiven
<1>17. /\ MemoryRight(RootRead(v), leaves, spentNullifiers)
       /\ RootRead(v).leaves = v.leaves /\ RootRead(v).owned = v.owned
       /\ RootRead(v).spent = v.spent
       /\ v.leaves # << >> => RootRead(v).root = CurrentRoot(v)
       /\ \E n \in 0..Len(v.leaves) : CurrentRoot(v) = RootOf(SubSeq(v.leaves, 1, n))
  <2>1. MemoryRight(v, leaves, spentNullifiers)
    BY <1>9
  <2> HIDE DEF q
  <2>2. MemoryRight(RootRead(v), leaves, spentNullifiers)
    BY <2>1, RootReadKeeps
  <2>3. RootRead(v).leaves = v.leaves /\ RootRead(v).owned = v.owned
    BY <2>1, RootReadKeeps
  <2>4. /\ RootRead(v).spent = v.spent
        /\ v.leaves # << >> => RootRead(v).root = CurrentRoot(v)
    BY <2>1, RootReadKeeps
  <2>5. \E n \in 0..Len(v.leaves) : CurrentRoot(v) = RootOf(SubSeq(v.leaves, 1, n))
    BY <2>1, RootReadKeeps
  <2> QED BY <2>2, <2>3, <2>4, <2>5
<1>18. v.leaves # << >>
  <2>1. in[1] \in DOMAIN v.owned
    BY DEF SelectNotes, Smallest, UnspentNotes
  <2>2. in[1] \in Range(v.leaves)
    BY <1>8, <2>1
  <2>3. Range(<< >>) = {}
    BY DEF Range
  <2> QED BY <2>2, <2>3
<1>19. CurrentRoot(v) # Zero
  <2>1. PICK n \in 0..Len(v.leaves) : CurrentRoot(v) = RootOf(SubSeq(v.leaves, 1, n))
    BY <1>17
  <2>2. SubSeq(v.leaves, 1, n) \in Seq(Commitment)
    BY <1>9
  <2> QED BY <2>1, <2>2, ZeroIsNoRoot DEF RootOf
<1>20. SessionRight(new.view, new.key, new.upto, events, leaves, spentNullifiers)
  BY <1>7, <1>8, <1>17 DEF SessionRight
<1>21. RequestRight(new, events, leaves, spentNullifiers)
  BY <1>6, <1>7, <1>8, <1>16, <1>17, <1>18, <1>19, <1>20 DEF RequestRight, CallGiven
<1>22. SystemRight'
  BY <1>1, <1>5, <1>21, QuietRight
<1>23. requests'[r] = new
  BY <1>5 DEF BInv
<1>24. MadeBy(new) = NonZero(Range(outs))
  BY <1>6, <1>7 DEF MadeBy, Made
<1> QED BY <1>7, <1>11, <1>22, <1>23, <1>24

-----------------------------------------------------------------------------
(* A step, and the salts. *)

\* A note a request makes it has made before, or nobody has; only r draws.
Draws(r) ==
  \A s \in Requests : \A c \in MadeBy(requests'[s]) :
    \/ /\ c \in MadeBy(requests[s])
       /\ requests'[s].pc = "proving" => requests[s].pc = "proving"
    \/ s = r /\ Unused(c)

\* What is inserted was told to a wallet, or is of r, which is past its proof.
Inserts(r) ==
  \A c \in Range(leaves') :
    \/ c \in Range(leaves)
    \/ Answered(c)
    \/ r \in Requests /\ c \in MadeBy(requests[r]) /\ requests'[r].pc # "proving"

\* Only r is answered, and it ends by that.
Tells(r) ==
  /\ answers \subseteq answers'
  /\ \A a \in answers' :
       \/ a \in answers
       \/ /\ r \in Requests /\ MadeBy(requests'[r]) = {}
          /\ Made(a.call) \subseteq MadeBy(requests[r])
          /\ \A c \in Kept(a.route, a.call) : Hint(c.owner, c) \in Settlement'

\* No salt is lost unseen.
Settles ==
  /\ Settlement \subseteq Settlement' /\ dropped \subseteq dropped'
  /\ memCache' \subseteq memCache \cup Settlement'
  /\ \A s \in Requests :
       /\ requests'[s].pc = "orphaned" => \A c \in MadeBy(requests'[s]) :
            \/ Hint(c.owner, c) \in dropped'
            \/ c \in MadeBy(requests[s]) /\ requests[s].pc = "orphaned"
       /\ \A c \in MadeBy(requests[s]) :
            c \in MadeBy(requests'[s]) \/ Accounted(c)' \/ c \notin Range(leaves')

(***************************************************************************)
(* That is enough.                                                         *)
(***************************************************************************)
LEMMA SaltsStep ==
  ASSUME SaltsInv, NEW r, Draws(r), Inserts(r), Tells(r), Settles
  PROVE  SaltsInv'
<1>1. /\ \A s, u \in Requests : s # u => MadeBy(requests[s]) \cap MadeBy(requests[u]) = {}
      /\ \A s \in Requests : \A c \in MadeBy(requests[s]) : ~Answered(c)
      /\ \A s \in Requests : requests[s].pc = "proving" =>
           MadeBy(requests[s]) \cap Range(leaves) = {}
  BY DEF SaltsInv, DrawnOnce
<1>2. \A c : Unused(c) => /\ c \notin Range(leaves) /\ ~Answered(c)
                          /\ \A s \in Requests : c \notin MadeBy(requests[s])
  BY DEF Unused
<1>3. ASSUME NEW s \in Requests, NEW u \in Requests, s # u,
             NEW c \in MadeBy(requests'[s]), c \in MadeBy(requests'[u])
      PROVE  FALSE
  BY <1>1, <1>2, <1>3 DEF Draws
<1>4. ASSUME NEW s \in Requests, NEW c \in MadeBy(requests'[s]),
             NEW a \in answers', c \in Made(a.call)
      PROVE  FALSE
  <2>1. CASE a \in answers
    <3>1. Answered(c) BY <1>4, <2>1 DEF Answered
    <3> QED BY <1>1, <1>2, <3>1 DEF Draws
  <2>2. CASE a \notin answers
    <3>1. r \in Requests /\ c \in MadeBy(requests[r]) /\ s # r
      BY <1>4, <2>2 DEF Tells
    <3> QED BY <1>1, <3>1 DEF Draws
  <2> QED BY <2>1, <2>2
<1>5. ASSUME NEW s \in Requests, requests'[s].pc = "proving",
             NEW c \in MadeBy(requests'[s]), c \in Range(leaves')
      PROVE  FALSE
  <2>1. CASE c \in Range(leaves) BY <1>1, <1>2, <1>5, <2>1 DEF Draws
  <2>2. CASE Answered(c) BY <1>1, <1>2, <2>2 DEF Draws
  <2>3. CASE r \in Requests /\ c \in MadeBy(requests[r]) /\ requests'[r].pc # "proving"
    BY <1>1, <1>5, <2>3 DEF Draws
  <2> QED BY <1>5, <2>1, <2>2, <2>3 DEF Inserts
<1>6. DrawnOnce'
  <2>1. ASSUME NEW s \in Requests, NEW c \in MadeBy(requests'[s])
        PROVE  ~Answered(c)'
    BY <1>4 DEF Answered
  <2> QED BY <1>3, <1>5, <2>1 DEF DrawnOnce
<1>7. memCache' \subseteq Settlement'
  BY DEF SaltsInv, Settles
<1>8. ASSUME NEW a \in answers', NEW c \in Kept(a.route, a.call)
      PROVE  Hint(c.owner, c) \in Settlement'
  BY DEF SaltsInv, Settles, Tells
<1>9. ASSUME NEW s \in Requests, requests'[s].pc = "orphaned", NEW c \in MadeBy(requests'[s])
      PROVE  Hint(c.owner, c) \in dropped'
  BY <1>9 DEF SaltsInv, Settles
<1>10. ASSUME NEW c \in Range(leaves')
       PROVE  Accounted(c)'
  <2>1. Answered(c) => Answered(c)'
    BY DEF Answered, Tells
  <2>2. Answered(c)' => Accounted(c)'
    BY DEF Accounted
  <2>3. Hint(c.owner, c) \in Settlement => Accounted(c)'
    BY DEF Accounted, Settles
  <2>4. ASSUME NEW s \in Requests, c \in MadeBy(requests[s]) PROVE Accounted(c)'
    <3>1. CASE c \in MadeBy(requests'[s])
      BY <3>1 DEF Accounted
    <3> QED BY <2>4, <3>1 DEF Settles
  <2>5. CASE c \in Range(leaves)
    <3>1. Accounted(c) BY <2>5 DEF SaltsInv
    <3> QED BY <2>1, <2>2, <2>3, <2>4, <3>1 DEF Accounted
  <2> QED BY <2>1, <2>2, <2>4, <2>5 DEF Inserts
<1> QED BY <1>6, <1>7, <1>8, <1>9, <1>10 DEF SaltsInv

(***************************************************************************)
(* A step of one request that keeps its notes, or draws them.              *)
(***************************************************************************)
LEMMA SaltsQuiet ==
  ASSUME BInv, SaltsInv, UNCHANGED <<noteHints, memCache, saving, dropped, answers, leaves>>,
         NEW r \in Requests, NEW new, requests' = [requests EXCEPT ![r] = new],
         MadeBy(requests[r]) \subseteq MadeBy(new),
         \/ MadeBy(new) \subseteq MadeBy(requests[r])
            /\ (new.pc = "proving" => requests[r].pc = "proving")
         \/ \A c \in MadeBy(new) : Unused(c),
         new.pc # "orphaned"
  PROVE  SaltsInv'
<1>1. requests'[r] = new /\ \A s \in Requests \ {r} : requests'[s] = requests[s]
  BY DEF BInv
<1>2. Draws(r)
  BY <1>1 DEF Draws
<1>3. Inserts(r)
  BY DEF Inserts
<1>4. Tells(r)
  BY DEF Tells
<1>5. Settlement' = Settlement
  BY DEF Settlement
<1>6. Settles
  <2>1. ASSUME NEW s \in Requests, requests'[s].pc = "orphaned", NEW c \in MadeBy(requests'[s])
        PROVE  c \in MadeBy(requests[s]) /\ requests[s].pc = "orphaned"
    BY <1>1, <2>1
  <2>2. ASSUME NEW s \in Requests, NEW c \in MadeBy(requests[s])
        PROVE  c \in MadeBy(requests'[s])
    BY <1>1
  <2> QED BY <1>5, <2>1, <2>2 DEF Settles
<1> QED BY <1>2, <1>3, <1>4, <1>6, SaltsStep

(***************************************************************************)
(* A step that is of no request.                                           *)
(***************************************************************************)
LEMMA SaltsOutside ==
  ASSUME SaltsInv, UNCHANGED <<requests, answers>>,
         \A c \in Range(leaves') : c \in Range(leaves) \/ Answered(c),
         Settlement \subseteq Settlement', dropped \subseteq dropped',
         memCache' \subseteq memCache
  PROVE  SaltsInv'
<1>1. Draws(Idle)
  BY DEF Draws
<1>2. Inserts(Idle)
  BY DEF Inserts
<1>3. Tells(Idle)
  BY DEF Tells
<1>4. Settles
  BY DEF Settles
<1> QED BY <1>1, <1>2, <1>3, <1>4, SaltsStep

(***************************************************************************)
(* A session, a shield and a proof begin; the notes of the last two are    *)
(* nobody's.                                                               *)
(***************************************************************************)
LEMMA SyncedSalts ==
  ASSUME BInv, SaltsInv, NEW r \in Requests, NEW route, NEW key, Synced(r, route, key)
  PROVE  SaltsInv'
<1> DEFINE new == [pc |-> "synced", route |-> route, key |-> key,
                   view |-> Replay(Len(events), Len(events)), upto |-> Len(events)]
<1>1. /\ requests[r] = Idle /\ requests' = [requests EXCEPT ![r] = new]
      /\ UNCHANGED <<noteHints, memCache, saving, dropped, answers, leaves>>
  BY DEF Synced, hintVars, poolVars, treeVars
<1>2. MadeBy(Idle) = {} /\ MadeBy(new) = {} /\ new.pc = "synced"
  BY DEF MadeBy, Idle
<1> HIDE DEF new
<1> QED BY <1>1, <1>2, SaltsQuiet

LEMMA ShieldSalts ==
  ASSUME BInv, SystemRight, SaltsInv, NEW r \in Requests, NEW route \in Shields,
         NEW c \in Commitment, StartShield(r, route, c)
  PROVE  SaltsInv'
<1> DEFINE call == [token |-> c.token, amount |-> c.amount, commitment |-> c]
           new == [pc |-> "proving", route |-> route, key |-> c.owner,
                   in |-> <<Zero, Zero>>, call |-> call]
<1>1. /\ requests[r] = Idle /\ requests' = [requests EXCEPT ![r] = new]
      /\ c \in Fresh(c.owner, c.token, c.amount)
      /\ UNCHANGED <<noteHints, memCache, saving, dropped, answers, leaves>>
  BY DEF StartShield, hintVars, poolVars, treeVars
<1>2. Made(call) = {c}
  <2>1. DOMAIN call = {"token", "amount", "commitment"} /\ call.commitment = c
    OBVIOUS
  <2> HIDE DEF call
  <2> QED BY <2>1 DEF Made
<1> HIDE DEF call
<1>3. MadeBy(Idle) = {} /\ MadeBy(new) = {c} /\ new.pc = "proving"
  BY <1>2 DEF MadeBy, Idle
<1>4. Unused(c)
  BY <1>1, FreshUnused
<1> HIDE DEF new
<1> QED BY <1>1, <1>3, <1>4, SaltsQuiet

LEMMA ProveSalts ==
  ASSUME BInv, SystemRight, SaltsInv, NEW r \in Requests, NEW t, NEW amount \in Amounts,
         Prove(r, t, amount)
  PROVE  SaltsInv'
<1>1. /\ requests[r].pc = "synced"
      /\ UNCHANGED <<noteHints, memCache, saving, dropped, answers, leaves>>
      /\ \E new : requests' = [requests EXCEPT ![r] = new]
  BY DEF Prove, hintVars, poolVars, treeVars
<1>2. PICK new : requests' = [requests EXCEPT ![r] = new]
  BY <1>1
<1>3. requests'[r] = new
  BY <1>2 DEF BInv
<1>4. new.pc = "proving" /\ \A c \in MadeBy(new) : Unused(c)
  BY <1>3, ProveRight
<1>5. MadeBy(requests[r]) = {}
  BY <1>1 DEF MadeBy
<1> QED BY <1>1, <1>2, <1>4, <1>5, SaltsQuiet

(***************************************************************************)
(* A request that waits keeps its call.                                    *)
(***************************************************************************)
LEMMA HearSalts ==
  ASSUME BInv, SaltsInv, NEW r \in Requests, Hear(r)
  PROVE  SaltsInv'
<1> DEFINE q == requests[r]
           heard == OnEvent(q.view, events[q.upto + 1])
           new == [q EXCEPT !.view = heard, !.upto = q.upto + 1]
<1>1. /\ requests' = [requests EXCEPT ![r] = new] /\ q # Idle
      /\ q.pc \in {"synced", "proving"}
      /\ UNCHANGED <<noteHints, memCache, saving, dropped, answers, leaves>>
  BY DEF Hear, InFlight, hintVars, poolVars, treeVars
<1>2. RequestInv(q, events, payments)
  BY <1>1 DEF BInv
<1> HIDE DEF heard
<1>3. new.pc = q.pc /\ (q.pc # "synced" => new.call = q.call)
  BY <1>1, <1>2 DEF RequestInv
<1> HIDE DEF new
<1>4. MadeBy(new) = MadeBy(q)
  BY <1>1, <1>3 DEF MadeBy
<1> QED BY <1>1, <1>3, <1>4, SaltsQuiet

LEMMA SubmitSalts ==
  ASSUME BInv, SaltsInv, NEW r \in Requests, Submit(r)
  PROVE  SaltsInv'
<1> DEFINE q == requests[r]
           f == Restrict(q, DOMAIN q \ {"view", "upto"})
           new == [f EXCEPT !.pc = "submitted"]
<1>1. /\ requests' = [requests EXCEPT ![r] = new] /\ q # Idle /\ q.pc = "proving"
      /\ UNCHANGED <<noteHints, memCache, saving, dropped, answers, leaves>>
  BY DEF Submit, InFlight, hintVars, poolVars, treeVars, BInv
<1>2. RequestInv(q, events, payments)
  BY <1>1 DEF BInv
<1>3. {"pc", "call"} \subseteq DOMAIN q
  BY <1>1, <1>2 DEF RequestInv
<1>4. DOMAIN f = DOMAIN q \ {"view", "upto"} /\ f.call = q.call
  BY <1>3 DEF Restrict
<1> HIDE DEF f
<1>5. new.pc = "submitted" /\ new.call = q.call
  BY <1>3, <1>4
<1> HIDE DEF new
<1>6. MadeBy(new) = MadeBy(q)
  BY <1>1, <1>5 DEF MadeBy
<1> QED BY <1>1, <1>5, <1>6, SaltsQuiet

LEMMA RecordedSalts ==
  ASSUME BInv, SaltsInv, NEW r \in Requests, Recorded(r)
  PROVE  SaltsInv'
<1> DEFINE q == requests[r]
           new == [q EXCEPT !.pc = "recorded"]
<1>1. /\ requests' = [requests EXCEPT ![r] = new] /\ q # Idle /\ q.pc = "mined"
      /\ UNCHANGED <<noteHints, memCache, saving, dropped, answers, leaves>>
  BY DEF Recorded, InFlight, poolVars, treeVars
<1>2. RequestInv(q, events, payments)
  BY <1>1 DEF BInv
<1>3. new.pc = "recorded" /\ new.call = q.call
  BY <1>1, <1>2 DEF RequestInv
<1> HIDE DEF new
<1>4. MadeBy(new) = MadeBy(q)
  BY <1>1, <1>3 DEF MadeBy
<1> QED BY <1>1, <1>3, <1>4, SaltsQuiet

(***************************************************************************)
(* What is mined are the notes of the request; those of one that was given *)
(* up are known to be lost.                                                *)
(***************************************************************************)
LEMMA MinedSalts ==
  ASSUME BInv, SystemRight, SaltsInv, NEW r \in Requests, Mined(r)
  PROVE  SaltsInv'
<1> DEFINE q == requests[r]
           new == IF q.pc = "submitted" THEN [q EXCEPT !.pc = "mined"] ELSE Idle
<1>1. /\ requests' = [requests EXCEPT ![r] = new] /\ q # Idle
      /\ q.pc \in {"submitted", "orphaned"}
      /\ UNCHANGED <<noteHints, memCache, saving, dropped, answers>>
  BY DEF Mined, InFlight, hintVars
<1>2. RequestInv(q, events, payments)
  BY <1>1 DEF BInv
<1>3. Range(leaves') = Range(leaves) \cup Made(q.call)
  BY MinedRight
<1>4. MadeBy(q) = Made(q.call)
  BY <1>1 DEF MadeBy
<1>5. q.pc = "submitted" => new.pc = "mined" /\ new.call = q.call
  BY <1>2 DEF RequestInv
<1>6. q.pc # "submitted" => new = Idle
  OBVIOUS
<1> HIDE DEF new
<1>7. /\ MadeBy(new) \subseteq MadeBy(q) /\ new.pc \notin {"proving", "orphaned"}
      /\ q.pc = "submitted" => MadeBy(new) = MadeBy(q)
  BY <1>4, <1>5, <1>6 DEF MadeBy, Idle
<1>8. requests'[r] = new /\ \A s \in Requests \ {r} : requests'[s] = requests[s]
  BY <1>1 DEF BInv
<1>9. Draws(r)
  BY <1>7, <1>8 DEF Draws
<1>10. Inserts(r)
  BY <1>3, <1>4, <1>7, <1>8 DEF Inserts
<1>11. Tells(r)
  BY <1>1 DEF Tells
<1>12. Settlement' = Settlement /\ dropped' = dropped /\ memCache' = memCache
  BY <1>1 DEF Settlement
<1>13. ASSUME NEW s \in Requests, NEW c \in MadeBy(requests[s])
       PROVE  c \in MadeBy(requests'[s]) \/ Accounted(c)'
  <2>1. CASE s # r \/ q.pc = "submitted"
    BY <1>7, <1>8, <2>1
  <2>2. CASE s = r /\ q.pc = "orphaned"
    <3>1. Hint(c.owner, c) \in dropped
      BY <2>2 DEF SaltsInv
    <3>2. Hint(c.owner, c) \in Settlement'
      BY <1>12, <3>1 DEF Settlement
    <3> QED BY <3>2 DEF Accounted
  <2> QED BY <1>1, <2>1, <2>2
<1>14. ASSUME NEW s \in Requests, requests'[s].pc = "orphaned", NEW c \in MadeBy(requests'[s])
       PROVE  c \in MadeBy(requests[s]) /\ requests[s].pc = "orphaned"
  BY <1>7, <1>8, <1>14
<1>15. Settles
  BY <1>12, <1>13, <1>14 DEF Settles
<1> QED BY <1>9, <1>10, <1>11, <1>15, SaltsStep

(***************************************************************************)
(* What is to be saved is being saved, is saved, or is known to be lost.   *)
(***************************************************************************)
LEMMA SaveSettles ==
  ASSUME SaltsInv, NEW wanted, SaveHints(wanted)
  PROVE  /\ Settlement \subseteq Settlement' /\ dropped \subseteq dropped'
         /\ memCache' \subseteq memCache \cup Settlement'
         /\ wanted \subseteq Settlement'
<1> DEFINE new == wanted \ memCache
<1>1. /\ memCache' = memCache \cup new
      /\ saving' = IF connected THEN saving \cup new ELSE saving
      /\ dropped' = IF connected THEN dropped ELSE dropped \cup new
      /\ noteHints' = noteHints
  BY DEF SaveHints
<1>2. memCache \subseteq Settlement
  BY DEF SaltsInv
<1>3. wanted \subseteq memCache \cup new
  OBVIOUS
<1> HIDE DEF new
<1>4. Settlement' = Settlement \cup new /\ dropped \subseteq dropped'
  BY <1>1 DEF Settlement
<1> QED BY <1>1, <1>2, <1>3, <1>4

(***************************************************************************)
(* A request that is answered leaves its notes to the hints.               *)
(***************************************************************************)
LEMMA AnswerSalts ==
  ASSUME BInv, SystemRight, SaltsInv, NEW r \in Requests, Answer(r)
  PROVE  SaltsInv'
<1> DEFINE q == requests[r]
           wanted == Hints(q.route, q.key, q.call)
           a == [route |-> q.route, key |-> q.key, in |-> q.in,
                 proved |-> q.call, call |-> Told(q)]
<1>1. /\ requests' = [requests EXCEPT ![r] = Idle]
      /\ answers' = answers \cup {a} /\ SaveHints(wanted)
      /\ leaves' = leaves
      /\ q.pc \in {"proving", "mined", "recorded"}
  BY DEF Answer, poolVars, treeVars
<1>2. MadeBy(q) = Made(q.call) /\ MadeBy(Idle) = {} /\ Idle.pc = "idle"
  BY <1>1 DEF MadeBy, Idle
<1>3. Told(q) = q.call
  BY AnswerRight
<1>4. a.call = q.call /\ a.route = q.route
  BY <1>3
<1>5. \A c \in Kept(a.route, a.call) : Hint(c.owner, c) \in wanted
  BY <1>4 DEF Hints
<1> HIDE DEF a, wanted
<1>6. /\ Settlement \subseteq Settlement' /\ dropped \subseteq dropped'
      /\ memCache' \subseteq memCache \cup Settlement'
      /\ wanted \subseteq Settlement'
  BY <1>1, SaveSettles
<1>7. requests'[r] = Idle /\ \A s \in Requests \ {r} : requests'[s] = requests[s]
  BY <1>1 DEF BInv
<1>8. Draws(r)
  BY <1>2, <1>7 DEF Draws
<1>9. Inserts(r)
  BY <1>1 DEF Inserts
<1>10. Tells(r)
  BY <1>1, <1>2, <1>4, <1>5, <1>6, <1>7 DEF Tells
<1>11. ASSUME NEW s \in Requests, NEW c \in MadeBy(requests[s])
       PROVE  c \in MadeBy(requests'[s]) \/ Accounted(c)'
  <2>1. CASE s # r BY <1>7, <2>1
  <2>2. CASE s = r
    <3>1. a \in answers' /\ c \in Made(a.call)
      BY <1>1, <1>2, <1>4, <2>2
    <3> QED BY <3>1 DEF Accounted, Answered
  <2> QED BY <2>1, <2>2
<1>12. ASSUME NEW s \in Requests, requests'[s].pc = "orphaned", NEW c \in MadeBy(requests'[s])
       PROVE  c \in MadeBy(requests[s]) /\ requests[s].pc = "orphaned"
  BY <1>2, <1>7, <1>12
<1>13. Settles
  BY <1>6, <1>11, <1>12 DEF Settles
<1> QED BY <1>8, <1>9, <1>10, <1>13, SaltsStep

(***************************************************************************)
(* When a request ends, by itself or with the process, its notes are not   *)
(* in the tree or known to be lost.                                        *)
(***************************************************************************)
LEMMA GivenUp ==
  ASSUME BInv, SaltsInv, NEW r \in Requests
  PROVE  LET q == requests[r]
             lost == dropped \cup Abandoned(q) IN
         /\ \A c \in MadeBy(q) : c \notin Range(leaves) \/ Hint(c.owner, c) \in lost
         /\ MadeBy(AfterAll(q)) \subseteq MadeBy(q) /\ AfterAll(q).pc # "proving"
         /\ AfterAll(q).pc = "orphaned" =>
              \A c \in MadeBy(AfterAll(q)) : Hint(c.owner, c) \in lost
<1> DEFINE q == requests[r]
           lost == dropped \cup Abandoned(q)
           new == [q EXCEPT !.pc = "orphaned"]
<1>1. MadeBy(Idle) = {} /\ Idle.pc = "idle"
  BY DEF MadeBy, Idle
<1>2. q.pc \in Stages \cup {"idle"}
  BY <1>1 DEF BInv, RequestInv
<1>3. q.pc \in {"idle", "synced"} => MadeBy(q) = {}
  BY DEF MadeBy
<1>4. q.pc \notin {"idle", "synced"} => MadeBy(q) = Made(q.call)
  BY DEF MadeBy
<1>5. q.pc = "proving" => \A c \in MadeBy(q) : c \notin Range(leaves)
  BY DEF SaltsInv, DrawnOnce
<1>6. q.pc \in {"submitted", "mined", "recorded"} =>
        \A c \in MadeBy(q) : Hint(c.owner, c) \in lost
  BY <1>4 DEF Abandoned
<1>7. q.pc = "orphaned" => \A c \in MadeBy(q) : Hint(c.owner, c) \in lost
  BY DEF SaltsInv
<1> HIDE DEF lost
<1>8. \A c \in MadeBy(q) : c \notin Range(leaves) \/ Hint(c.owner, c) \in lost
  BY <1>2, <1>3, <1>5, <1>6, <1>7 DEF Stages
<1>9. CASE q.pc \in {"submitted", "orphaned"}
  <2>1. new.pc = "orphaned" /\ new.call = q.call
    BY <1>1, <1>9 DEF BInv, RequestInv
  <2>2. AfterAll(q) = new
    BY <1>9 DEF AfterAll
  <2> HIDE DEF new
  <2>3. MadeBy(new) = MadeBy(q)
    BY <1>9, <2>1 DEF MadeBy
  <2> QED BY <1>6, <1>7, <1>8, <1>9, <2>1, <2>2, <2>3 DEF lost
<1>10. CASE q.pc \notin {"submitted", "orphaned"}
  <2>1. AfterAll(q) = Idle
    BY <1>10 DEF AfterAll
  <2> QED BY <1>1, <1>8, <2>1 DEF lost
<1> QED BY <1>9, <1>10

LEMMA FailSalts ==
  ASSUME BInv, SaltsInv, NEW r \in Requests, Fail(r)
  PROVE  SaltsInv'
<1> DEFINE q == requests[r]
           lost == dropped \cup Abandoned(q)
           new == IF q.pc = "orphaned" THEN Idle ELSE AfterAll(q)
<1>1. /\ requests' = [requests EXCEPT ![r] = new] /\ dropped' = lost
      /\ UNCHANGED <<noteHints, memCache, saving, answers, leaves>>
  BY DEF Fail, poolVars, treeVars
<1>2. requests'[r] = new /\ \A s \in Requests \ {r} : requests'[s] = requests[s]
  BY <1>1 DEF BInv
<1>3. MadeBy(Idle) = {} /\ Idle.pc = "idle"
  BY DEF MadeBy, Idle
<1>4. /\ \A c \in MadeBy(q) : c \notin Range(leaves) \/ Hint(c.owner, c) \in lost
      /\ MadeBy(new) \subseteq MadeBy(q) /\ new.pc # "proving"
      /\ new.pc = "orphaned" => \A c \in MadeBy(new) : Hint(c.owner, c) \in lost
  BY <1>3, GivenUp
<1> HIDE DEF new
<1>5. dropped \subseteq lost
  OBVIOUS
<1> HIDE DEF lost
<1>6. Settlement \subseteq Settlement' /\ dropped' \subseteq Settlement'
  BY <1>1, <1>5 DEF Settlement
<1>7. Draws(r)
  BY <1>2, <1>4 DEF Draws
<1>8. Inserts(r)
  BY <1>1 DEF Inserts
<1>9. Tells(r)
  BY <1>1 DEF Tells
<1>10. ASSUME NEW s \in Requests, NEW c \in MadeBy(requests[s]), c \in Range(leaves')
       PROVE  c \in MadeBy(requests'[s]) \/ Accounted(c)'
  <2>1. CASE s # r BY <1>2, <2>1
  <2>2. CASE s = r
    <3>1. Hint(c.owner, c) \in Settlement'
      BY <1>1, <1>4, <1>6, <1>10, <2>2
    <3> QED BY <3>1 DEF Accounted
  <2> QED BY <2>1, <2>2
<1>11. ASSUME NEW s \in Requests, requests'[s].pc = "orphaned", NEW c \in MadeBy(requests'[s])
       PROVE  \/ Hint(c.owner, c) \in dropped'
              \/ c \in MadeBy(requests[s]) /\ requests[s].pc = "orphaned"
  BY <1>1, <1>2, <1>4, <1>11
<1>12. Settles
  BY <1>1, <1>5, <1>6, <1>10, <1>11 DEF Settles
<1> QED BY <1>7, <1>8, <1>9, <1>12, SaltsStep

LEMMA RestartSalts ==
  ASSUME BInv, SaltsInv, Restart
  PROVE  SaltsInv'
<1>1. /\ requests' = [r \in Requests |-> AfterAll(requests[r])]
      /\ memCache' = {} /\ saving' = {}
      /\ dropped' = dropped \cup saving \cup UNION {Abandoned(requests[r]) : r \in Requests}
      /\ UNCHANGED <<noteHints, answers, leaves>>
  BY DEF Restart, poolVars, treeVars
<1>2. dropped \subseteq dropped' /\ saving \subseteq dropped'
      /\ \A r \in Requests : Abandoned(requests[r]) \subseteq dropped'
  BY <1>1
<1>3. Settlement \subseteq Settlement' /\ dropped' \subseteq Settlement'
  BY <1>1, <1>2 DEF Settlement
<1>4. ASSUME NEW s \in Requests
      PROVE  /\ \A c \in MadeBy(requests[s]) :
                  c \notin Range(leaves') \/ Hint(c.owner, c) \in dropped'
             /\ MadeBy(requests'[s]) \subseteq MadeBy(requests[s])
             /\ requests'[s].pc # "proving"
             /\ requests'[s].pc = "orphaned" =>
                  \A c \in MadeBy(requests'[s]) : Hint(c.owner, c) \in dropped'
  <2>1. requests'[s] = AfterAll(requests[s])
    BY <1>1
  <2>2. dropped \cup Abandoned(requests[s]) \subseteq dropped' /\ leaves' = leaves
    BY <1>1, <1>2
  <2> QED BY <2>1, <2>2, GivenUp
<1>5. Draws(Idle)
  BY <1>4 DEF Draws
<1>6. Inserts(Idle)
  BY <1>1 DEF Inserts
<1>7. Tells(Idle)
  BY <1>1 DEF Tells
<1>8. ASSUME NEW s \in Requests, NEW c \in MadeBy(requests[s]), c \in Range(leaves')
      PROVE  Accounted(c)'
  <2>1. Hint(c.owner, c) \in Settlement'
    BY <1>3, <1>4, <1>8
  <2> QED BY <2>1 DEF Accounted
<1>9. Settles
  BY <1>1, <1>2, <1>3, <1>4, <1>8 DEF Settles
<1> QED BY <1>5, <1>6, <1>7, <1>9, SaltsStep

(***************************************************************************)
(* A wallet has only notes it was told of.                                 *)
(***************************************************************************)
LEMMA WalletSalts ==
  ASSUME BInv, SystemRight, SaltsInv, NEW a \in answers, WalletSends(a)
  PROVE  SaltsInv'
<1>1. UNCHANGED <<requests, answers, noteHints, memCache, saving, dropped>>
  BY DEF WalletSends, backendVars, hintVars
<1>2. Range(leaves') = Range(leaves) \cup Made(a.call)
  BY WalletRight
<1>3. \A c \in Range(leaves') : c \in Range(leaves) \/ Answered(c)
  BY <1>2 DEF Answered
<1>4. Settlement' = Settlement
  BY <1>1 DEF Settlement
<1> QED BY <1>1, <1>3, <1>4, SaltsOutside

-----------------------------------------------------------------------------
(* The invariant of the system. *)

LEMMA InitSystem == BackendInit => SystemInv
<1> SUFFICES ASSUME BackendInit PROVE SystemInv
  OBVIOUS
<1>1. /\ Init /\ leaves = << >> /\ answers = {}
      /\ requests = [r \in Requests |-> Idle]
      /\ noteHints = {} /\ memCache = {} /\ saving = {} /\ dropped = {}
  BY DEF BackendInit, Init
<1>2. BInv
  BY InitInvariant
<1>3. SystemRight
  <2>1. PoolInv /\ LogRebuildsTree
    BY <1>1, PoolInitially, LogInitially
  <2>2. RequestsRight
    BY <1>1 DEF RequestsRight
  <2>3. AnswersRight /\ HintsFiled
    BY <1>1 DEF AnswersRight, HintsFiled, Hinted
  <2> QED BY <2>1, <2>2, <2>3 DEF SystemRight
<1>4. SaltsInv
  <2>1. \A r \in Requests : MadeBy(requests[r]) = {} /\ requests[r].pc = "idle"
    BY <1>1 DEF MadeBy, Idle
  <2>2. Range(leaves) = {}
    BY <1>1 DEF Range
  <2>3. DrawnOnce
    BY <2>1 DEF DrawnOnce
  <2> QED BY <1>1, <2>1, <2>2, <2>3 DEF SaltsInv
<1> QED BY <1>2, <1>3, <1>4 DEF SystemInv

(***************************************************************************)
(* A step of a request.                                                    *)
(***************************************************************************)
LEMMA StepSystem ==
  ASSUME BInv, SystemRight, SaltsInv, NEW r \in Requests, Step(r)
  PROVE  SystemRight' /\ SaltsInv'
<1>1. ASSUME NEW c \in Commitment, NEW route \in Shields, StartShield(r, route, c)
      PROVE  SystemRight' /\ SaltsInv'
  BY <1>1, ShieldRight, ShieldSalts
<1>2. ASSUME NEW route \in Gives \cup Exits, NEW key, Synced(r, route, key)
      PROVE  SystemRight' /\ SaltsInv'
  BY <1>2, SyncedRight, SyncedSalts
<1>3. ASSUME NEW t \in Tokens, NEW amount \in Amounts, Prove(r, t, amount)
      PROVE  SystemRight' /\ SaltsInv'
  BY <1>3, ProveRight, ProveSalts
<1>4. CASE Hear(r) BY <1>4, HearRight, HearSalts
<1>5. CASE Submit(r) BY <1>5, SubmitRight, SubmitSalts
<1>6. CASE Mined(r) BY <1>6, MinedRight, MinedSalts
<1>7. CASE Recorded(r) BY <1>7, RecordedRight, RecordedSalts
<1>8. CASE Answer(r) BY <1>8, AnswerRight, AnswerSalts
<1>9. CASE Fail(r) BY <1>9, FailRight, FailSalts
<1>10. /\ "shield" \in Shields /\ "execute" \in Shields
       /\ {"pay", "payroll"} \subseteq Gives \cup Exits
       /\ {"withdraw", "exit"} \subseteq Gives \cup Exits
       /\ {"send", "unshield", "transfer", "exit"} \subseteq Gives \cup Exits
  BY DEF Shields, Gives, Exits
<1> QED BY <1>1, <1>2, <1>3, <1>4, <1>5, <1>6, <1>7, <1>8, <1>9, <1>10 DEF Step

(***************************************************************************)
(* Every step.                                                             *)
(***************************************************************************)
LEMMA NextSystem == SystemInv /\ [BackendNext]_<<backendVars, poolVars>> => SystemInv'
<1> SUFFICES ASSUME SystemInv, [BackendNext]_<<backendVars, poolVars>> PROVE SystemInv'
  OBVIOUS
<1>1. BInv /\ SystemRight /\ SaltsInv
  BY DEF SystemInv
<1>2. BInv'
  BY <1>1, NextInvariant
<1>3. ASSUME UNCHANGED <<requests, answers, poolVars>>, Hinted' \subseteq Hinted,
             Settlement \subseteq Settlement', dropped \subseteq dropped',
             memCache' \subseteq memCache
      PROVE  SystemRight' /\ SaltsInv'
  <2>1. SystemRight'
    BY <1>1, <1>3, DatabaseRight
  <2>2. leaves' = leaves
    BY <1>3 DEF poolVars, treeVars
  <2> QED BY <1>1, <1>3, <2>1, <2>2, SaltsOutside
<1>4. ASSUME NEW h \in saving, Saved(h) \/ SaveFailed(h)
      PROVE  SystemRight' /\ SaltsInv'
  <2>1. /\ UNCHANGED <<requests, answers, poolVars, memCache>> /\ saving' = saving \ {h}
        /\ \/ noteHints' = noteHints \cup {h} /\ dropped' = dropped
           \/ dropped' = dropped \cup {h} /\ noteHints' = noteHints
    BY <1>4 DEF Saved, SaveFailed
  <2>2. Hinted' \subseteq Hinted
    BY <2>1 DEF Hinted
  <2>3. Settlement \subseteq Settlement' /\ dropped \subseteq dropped'
    BY <2>1 DEF Settlement
  <2> QED BY <1>3, <2>1, <2>2, <2>3
<1>5. ASSUME UNCHANGED <<requests, answers, poolVars, memCache, saving, noteHints, dropped>>
      PROVE  SystemRight' /\ SaltsInv'
  <2>1. Hinted' = Hinted /\ Settlement' = Settlement
    BY <1>5 DEF Hinted, Settlement
  <2> QED BY <1>3, <1>5, <2>1
<1>6. ASSUME Reconnected \/ ConnectionLost PROVE SystemRight' /\ SaltsInv'
  <2>1. UNCHANGED <<requests, answers, poolVars, memCache, saving, noteHints, dropped>>
    BY <1>6 DEF Reconnected, ConnectionLost
  <2> QED BY <1>5, <2>1
<1>7. ASSUME UNCHANGED <<backendVars, poolVars>> PROVE SystemRight' /\ SaltsInv'
  <2>1. UNCHANGED <<requests, answers, poolVars, memCache, saving, noteHints, dropped>>
    BY <1>7 DEF backendVars, hintVars
  <2> QED BY <1>5, <2>1
<1>8. ASSUME Restart PROVE SystemRight' /\ SaltsInv'
  BY <1>1, <1>8, RestartRight, RestartSalts
<1>9. ASSUME NEW a \in answers, WalletSends(a)
      PROVE  SystemRight' /\ SaltsInv'
  BY <1>1, <1>9, WalletRight, WalletSalts
<1>10. ASSUME NEW r \in Requests, Step(r)
       PROVE  SystemRight' /\ SaltsInv'
  BY <1>1, <1>10, StepSystem
<1>11. SystemRight' /\ SaltsInv'
  BY <1>4, <1>6, <1>7, <1>8, <1>9, <1>10 DEF BackendNext
<1> QED BY <1>2, <1>11 DEF SystemInv

(***************************************************************************)
(* The inductive invariant holds of the backend and the pool it works on.  *)
(***************************************************************************)
THEOREM SystemInvariant == BackendSpec => []SystemInv
BY InitSystem, NextSystem, PTL DEF BackendSpec

(***************************************************************************)
(* An answer tells of what was proved.                                     *)
(***************************************************************************)
LEMMA AnswersImply == SystemInv => AnswerIsProved
<1> SUFFICES ASSUME SystemInv, NEW a \in answers
             PROVE  /\ a.call = a.proved
                    /\ "merkleRoot" \in DOMAIN a.call => SpendCircuit(a.in, a.call)
  BY DEF AnswerIsProved
<1>1. a.call = a.proved /\ CallGiven(a.route, a.in, a.call, leaves)
  BY DEF SystemInv, SystemRight, AnswersRight
<1>2. "merkleRoot" \in DOMAIN a.call => a.route \notin Shields
  BY <1>1, CallMakes
<1>3. a.route \notin Shields => SpendGiven(a.in, a.call, leaves)
  BY <1>1, CallMakes
<1> QED BY <1>1, <1>2, <1>3 DEF SpendGiven

(***************************************************************************)
(* Whatever a session hears while nargo runs, the parameters of an answer  *)
(* are those that were proved, and satisfy the circuit.                    *)
(***************************************************************************)
THEOREM AnswersAreProved == BackendSpec => []AnswerIsProved
BY SystemInvariant, AnswersImply, PTL

(***************************************************************************)
(* A session counts notes of its key, in the tree, that no event it has    *)
(* heard has spent.                                                        *)
(***************************************************************************)
LEMMA BalancesImply == SystemInv => BalanceIsLive
<1> SUFFICES ASSUME SystemInv, NEW r \in InFlight, "view" \in DOMAIN requests[r],
                    NEW t \in Tokens, NEW c \in UnspentNotes(requests[r].view, t)
             PROVE  /\ c.owner = requests[r].key
                    /\ c \in Range(leaves)
                    /\ Nullifier(c) \notin SpentBy(requests[r].upto)
  BY DEF BalanceIsLive
<1> DEFINE q == requests[r]
           v == q.view
<1>1. /\ RequestInv(q, events, payments) /\ RequestRight(q, events, leaves, spentNullifiers)
      /\ IsSequence(events)
  BY DEF SystemInv, BInv, SystemRight, RequestsRight, InFlight
<1>2. q.upto \in 0..Len(events) /\ SessionRight(v, q.key, q.upto, events, leaves, spentNullifiers)
  BY <1>1 DEF RequestInv, RequestRight
<1>3. c \in DOMAIN v.owned /\ ~v.owned[c].spent
  BY DEF UnspentNotes
<1> HIDE DEF v
<1>4. MemoryRight(v, leaves, spentNullifiers) /\ c.owner = q.key
  BY <1>2, <1>3 DEF SessionRight
<1>5. c \in Range(leaves) /\ Nullifier(c) \notin v.spent
  BY <1>3, <1>4 DEF MemoryRight, NoteRight
<1>6. Nullifier(c) # Zero
  <2>1. Range(leaves) \subseteq Commitment
    BY DEF SystemInv, SystemRight, PoolInv, IInv, TypeOK, TreeHoldsKnownOnce
  <2> QED BY <1>5, <2>1, ZeroIsNoHash
<1>7. ASSUME NEW e \in Range(SubSeq(events, 1, q.upto)), e.type = "Spent"
      PROVE  Nullifier(c) \notin Range(e.nullifiers)
  <2>1. PICK p \in 1..q.upto : e = events[p]
    BY <1>1, <1>2 DEF IsSequence, Range
  <2>2. NonZero(Range(e.nullifiers)) \subseteq v.spent
    BY <1>2, <1>7, <2>1 DEF SessionRight
  <2> QED BY <1>5, <1>6, <2>2 DEF NonZero
<1>8. Nullifier(c) \notin SpentBy(q.upto)
  BY <1>7 DEF SpentBy
<1> QED BY <1>4, <1>5, <1>8

(***************************************************************************)
(* A request spends and reports live notes of its key only.                *)
(***************************************************************************)
THEOREM BalancesAreLive == BackendSpec => []BalanceIsLive
BY SystemInvariant, BalancesImply, PTL

(***************************************************************************)
(* A session without notes that finds one by its hint has it, with a path  *)
(* to the root, unless it was spent.                                       *)
(***************************************************************************)
LEMMA FoundSpendable ==
  ASSUME NEW v, MemoryRight(v, leaves, spentNullifiers), DOMAIN v.owned = {},
         NEW found, NEW c \in found, c \in Range(v.leaves), Nullifier(c) \notin v.spent
  PROVE  LET u == TrackFound(v, found) IN
         c \in UnspentNotes(u, c.token) /\ PathVerifies(u, c, RootOf(v.leaves))
<1> DEFINE D == DOMAIN v.owned \cup (found \cap Range(v.leaves))
           owned == [d \in D |-> IF d \in DOMAIN v.owned THEN v.owned[d]
                                 ELSE Tracked(v, d, IndexOf(v.leaves, d))]
           u == TrackFound(v, found)
           i == IndexOf(v.leaves, c)
           n == Tracked(v, c, i)
<1>1. u.owned = owned
  BY DEF TrackFound, MemoryRight, IsMemory
<1>2. c \in D /\ c \notin DOMAIN v.owned
  OBVIOUS
<1>3. c \in DOMAIN owned /\ owned[c] = n
  BY <1>2
<1> HIDE DEF owned, u
<1>4. v.leaves \in Seq(Commitment)
  BY DEF MemoryRight, LeavesRight
<1>5. i \in Nat /\ IsLeafAt(v.leaves, i, c)
  BY <1>4, IndexFound
<1>6. i < Len(v.leaves) /\ v.leaves[i + 1] = c
  BY <1>5 DEF IsLeafAt
<1> HIDE DEF i
<1>7. n.index = i /\ n.path = v.leaves /\ ~n.spent
  <2>1. PathAt(v, i) = v.leaves
    BY <1>6 DEF PathAt
  <2> QED BY <2>1 DEF Tracked
<1> HIDE DEF n
<1>8. [v.leaves EXCEPT ![i + 1] = c] = v.leaves
  BY <1>4, <1>5, <1>6
<1>9. c \in UnspentNotes(u, c.token)
  BY <1>1, <1>3, <1>7 DEF UnspentNotes
<1>10. PathVerifies(u, c, RootOf(v.leaves))
  BY <1>1, <1>3, <1>6, <1>7, <1>8 DEF PathVerifies
<1> QED BY <1>9, <1>10 DEF u

(***************************************************************************)
(* Every note in the tree is found, or it is known where its salt is.      *)
(***************************************************************************)
LEMMA SaltsImply == SystemInv => FoundByNextSession
<1> SUFFICES ASSUME SystemInv, NEW c \in Range(leaves),
                    Nullifier(c) \notin spentNullifiers,
                    ~SaltNeverKept(c), ~SaltPending(c), Hint(c.owner, c) \notin dropped
             PROVE  LET v == TrackFound(Replay(Len(events), Len(events)), HintsOf(c.owner)) IN
                      c \in UnspentNotes(v, c.token) /\ PathVerifies(v, c, RootOf(leaves))
  BY DEF FoundByNextSession
<1>1. ASSUME NEW r \in Requests, c \in MadeBy(requests[r])
      PROVE  FALSE
  <2>1. requests[r].pc \notin {"idle", "synced"} /\ c \in Made(requests[r].call)
    BY <1>1 DEF MadeBy
  <2>2. r \in Proved
    BY <2>1 DEF Proved, InFlight, Idle
  <2> QED BY <2>1, <2>2 DEF SaltPending
<1>2. ASSUME NEW a \in answers, c \in Made(a.call)
      PROVE  Hint(c.owner, c) \in Settlement
  <2>1. c \in Kept(a.route, a.call)
    BY <1>2 DEF SaltNeverKept
  <2> QED BY <2>1 DEF SystemInv, SaltsInv
<1>3. Hint(c.owner, c) \in Settlement
  BY <1>1, <1>2 DEF SystemInv, SaltsInv, Accounted, Answered
<1>4. Hint(c.owner, c) \in noteHints
  BY <1>3 DEF Settlement, SaltPending
<1>5. c \in HintsOf(c.owner)
  <2>1. Hint(c.owner, c).key = c.owner /\ Hint(c.owner, c).commitment = c
    BY DEF Hint
  <2> QED BY <1>4, <2>1 DEF HintsOf
<1> DEFINE w == Replay(Len(events), Len(events))
<1>6. /\ events \in Seq(EventType) /\ leaves \in Seq(Commitment)
      /\ LogSound(events, leaves, spentNullifiers) /\ LogRebuildsTree
  BY DEF SystemInv, SystemRight, PoolInv, IInv, TypeOK, LogRight
<1>7. /\ MemoryRight(w, leaves, spentNullifiers) /\ DOMAIN w.owned = {}
      /\ w.leaves = leaves /\ w.spent = spentNullifiers
  BY <1>6, ReplayComplete
<1> HIDE DEF w
<1>8. /\ c \in UnspentNotes(TrackFound(w, HintsOf(c.owner)), c.token)
      /\ PathVerifies(TrackFound(w, HintsOf(c.owner)), c, RootOf(leaves))
  BY <1>5, <1>7, FoundSpendable
<1> QED BY <1>8 DEF w

(***************************************************************************)
(* Whoever is paid can spend: for any log, a note whose salt was kept and  *)
(* has been saved is found and can be proved by its owner's next session.  *)
(***************************************************************************)
THEOREM SaltsAreFound == BackendSpec => []FoundByNextSession
BY SystemInvariant, SaltsImply, PTL
=============================================================================
