------------------------------ MODULE Backend ------------------------------
(***************************************************************************)
(* The demo backend (backend/server.js): it proves on behalf of the keys   *)
(* it holds, opens a StealthPaySDK session per request, and keeps the      *)
(* salts of the notes it makes in MongoDB, its only memory across restarts.*)
(*                                                                         *)
(* 0G Storage is taken to be unavailable, the case the database is there   *)
(* for.  The log does not move while a session replays it (PoolClient      *)
(* models the races in that); afterwards events arrive in log order.       *)
(*                                                                         *)
(* Routes.  The caller's wallet sends what is proved by "shield" (/prove,  *)
(* /v1/prove/shield), "pay" (/v1/prove/pay), "withdraw"                    *)
(* (/v1/prove/withdraw), "send" and "unshield" (/prove).  The server sends *)
(* what is proved by "execute" (/execute, /v1/org/shield), "transfer"      *)
(* (/execute), "exit" (/execute, /v1/withdraw) and "payroll" (/v1/pay).    *)
(***************************************************************************)
EXTENDS NoteManager

CONSTANTS Org,        \* the spending key of the payroll's organisation
          Employees,  \* the spending keys of its employees
          Callers,    \* the spending keys sent to /prove and /execute
          Wallet,     \* the address that sends what the backend has proved
          Requests    \* requests the server may be working on at once

ASSUME BackendAssumption ==
  /\ {Org} \cup Employees \cup Callers \subseteq Keys
  /\ Wallet \in Accounts

VARIABLES noteHints,  \* the NoteHint documents: a note, under its finder's key
          connected,  \* mongoose.connection.readyState is 1
          memCache,   \* the hints saveHintToDB has been asked to save
          saving,     \* saves that nobody awaits, under way
          dropped,    \* history: the hints that will never be saved
          payments,   \* the Payment documents: the transaction of each
          requests,   \* requests[r]: the request in slot r, at an await
          answers     \* history: what the "done" events told the callers

hintVars == <<noteHints, connected, memCache, saving, dropped, payments>>
backendVars == <<hintVars, requests, answers>>

Idle == [pc |-> "idle"]

\* The server signs and sends the transaction itself.
ServerSends == {"execute", "transfer", "exit", "payroll"}

\* The note goes to someone else, or to a public address.
Gives == {"pay", "send", "transfer", "payroll"}
Exits == {"withdraw", "unshield", "exit"}

Made(call) ==
  IF "commitment" \in DOMAIN call THEN {call.commitment}
  ELSE NonZero(Range(call.newCommitments))

-----------------------------------------------------------------------------
(* The hint store *)

Hint(key, c) == [key |-> key, commitment |-> c]

HintsOf(key) == {h.commitment : h \in {g \in noteHints : g.key = key}}

\* The notes whose salts a route keeps.  /prove keeps none of those a spend
\* makes, and what the SDK makes when the server sends is gone with its session.
Kept(route, call) ==
  IF route \in {"shield", "execute", "pay", "withdraw"} THEN Made(call) ELSE {}

\* Every hint is filed under the key of the request.
BrokenHints(route, key, call) == {Hint(key, c) : c \in Kept(route, call)}

\* A payment's is filed under the employee's key, its change under the payer's.
Hints(route, key, call) == {Hint(c.owner, c) : c \in Kept(route, call)}

\* A hint is remembered only once it is in the database.
BrokenSaveHints(wanted) ==
  /\ saving' = saving \cup (wanted \ memCache)
  /\ UNCHANGED <<noteHints, connected, memCache, dropped>>

\* saveHintLocally, up to its first await.
SaveHints(wanted) ==
  LET new == wanted \ memCache IN
  /\ memCache' = memCache \cup new
  /\ saving' = IF connected THEN saving \cup new ELSE saving
  /\ dropped' = IF connected THEN dropped ELSE dropped \cup new
  /\ UNCHANGED <<noteHints, connected>>

\* exists() and create(), or an error that is logged.
Saved(h) ==
  /\ h \in saving
  /\ connected
  /\ noteHints' = noteHints \cup {h}
  /\ saving' = saving \ {h}
  /\ UNCHANGED <<connected, memCache, dropped, payments, requests, answers, poolVars>>

SaveFailed(h) ==
  /\ h \in saving
  /\ saving' = saving \ {h}
  /\ dropped' = dropped \cup {h}
  /\ UNCHANGED <<noteHints, connected, memCache, payments, requests, answers, poolVars>>

Reconnected ==
  /\ ~connected
  /\ connected' = TRUE
  /\ UNCHANGED <<noteHints, memCache, saving, dropped, payments, requests, answers, poolVars>>

ConnectionLost ==
  /\ connected
  /\ connected' = FALSE
  /\ UNCHANGED <<noteHints, memCache, saving, dropped, payments, requests, answers, poolVars>>

-----------------------------------------------------------------------------
(* Shielding *)

InFlight == {r \in Requests : requests[r] # Idle}

Proved == {r \in InFlight : requests[r].pc # "synced"}

\* Commitments nobody has made: salts are random.
Fresh(owner, t, amount) ==
  {c \in Commitment :
     /\ c.owner = owner /\ c.token = t /\ c.amount = amount
     /\ c \notin knownCommitments
     /\ \A r \in Proved : c \notin Made(requests[r].call)
     /\ \A a \in answers : c \notin Made(a.call)}

StartShield(r, route, c) ==
  /\ requests[r] = Idle
  /\ c \in Fresh(c.owner, c.token, c.amount)
  /\ requests' = [requests EXCEPT ![r] =
       [pc |-> "proving", route |-> route, key |-> c.owner, in |-> <<Zero, Zero>>,
        call |-> [token |-> c.token, amount |-> c.amount, commitment |-> c]]]
  /\ UNCHANGED <<hintVars, answers, poolVars>>

-----------------------------------------------------------------------------
(* Spending: sync, find the notes, prove *)

\* The session is ready; the database has been asked for the hints of the key.
Synced(r, route, key) ==
  /\ requests[r] = Idle
  /\ requests' = [requests EXCEPT ![r] =
       [pc |-> "synced", route |-> route, key |-> key,
        view |-> Replay(Len(events), Len(events)), upto |-> Len(events)]]
  /\ UNCHANGED <<hintVars, answers, poolVars>>

\* The session keeps listening while the request waits.
Hear(r) ==
  /\ r \in InFlight
  /\ requests[r].pc \in {"synced", "proving"}
  /\ "view" \in DOMAIN requests[r]
  /\ requests[r].upto < Len(events)
  /\ requests' = [requests EXCEPT
       ![r].view = OnEvent(@, events[requests[r].upto + 1]),
       ![r].upto = @ + 1]
  /\ UNCHANGED <<hintVars, answers, poolVars>>

\* injectLocalHints: the documents found, none when the database is away.  They
\* are read in the step that uses them.
Injected(r) ==
  {TrackFound(requests[r].view, found) :
     found \in {{}} \cup (IF connected THEN {HintsOf(requests[r].key)} ELSE {})}

\* The output notes of a spend of in that pays amount: the payee's, the change.
Outs(r, t, amount, in) ==
  LET route == requests[r].route
      rest == SlotAmount(in[1]) + SlotAmount(in[2]) - amount
      change == IF rest = 0 THEN {Zero} ELSE Fresh(requests[r].key, t, rest)
      payees == IF route \in {"pay", "payroll"} THEN Employees ELSE Keys
      paid == UNION {Fresh(k, t, amount) : k \in payees}
  IN IF route \in Gives
     THEN {outs \in paid \X change : outs[1] # outs[2]}
     ELSE change \X {Zero}

\* From the answer of the database to the call of nargo.
Prove(r, t, amount) ==
  LET public == requests[r].route \in Exits IN
  /\ r \in InFlight
  /\ requests[r].pc = "synced"
  /\ \E v \in Injected(r) : \E in \in SelectNotes(v, t, amount) :
       /\ Provable(v, in, CurrentRoot(v))
       /\ \E outs \in Outs(r, t, amount, in) :
            requests' = [requests EXCEPT ![r] =
              [pc |-> "proving", route |-> requests[r].route,
               key |-> requests[r].key, in |-> in,
               call |-> [token |-> t, merkleRoot |-> CurrentRoot(v),
                         nullifiers |-> [i \in 1..2 |-> SlotNullifier(in[i])],
                         newCommitments |-> outs,
                         publicAmount |-> IF public THEN amount ELSE 0,
                         recipient |-> IF public THEN Wallet ELSE Zero],
               view |-> RootRead(v), upto |-> requests[r].upto]]
  /\ UNCHANGED <<hintVars, answers, poolVars>>

-----------------------------------------------------------------------------
(* The server sends the transaction *)

\* The session is not asked again: what it hears from here on tells nobody.
Submit(r) ==
  /\ r \in InFlight
  /\ requests[r].pc = "proving" /\ requests[r].route \in ServerSends
  /\ requests' = [requests EXCEPT ![r] =
       [Restrict(@, DOMAIN @ \ {"view", "upto"}) EXCEPT !.pc = "submitted"]]
  /\ UNCHANGED <<hintVars, answers, poolVars>>

\* Nobody may be waiting for it any more.
Mined(r) ==
  LET req == requests[r] IN
  /\ r \in InFlight
  /\ req.pc \in {"submitted", "orphaned"}
  /\ IF req.route = "execute" THEN Shield(Wallet, req.call) ELSE Spend(req.in, req.call)
  /\ requests' = [requests EXCEPT ![r] =
                    IF @.pc = "submitted" THEN [@ EXCEPT !.pc = "mined"] ELSE Idle]
  /\ UNCHANGED <<hintVars, answers>>

\* The payment is recorded when it is sent.
BrokenRecorded(r) ==
  /\ r \in InFlight
  /\ requests[r].pc \in {"submitted", "mined"} /\ requests[r].route = "payroll"
  /\ connected
  /\ payments' = payments \cup {requests[r].call}
  /\ requests' = [requests EXCEPT ![r].pc = "recorded"]
  /\ UNCHANGED <<noteHints, connected, memCache, saving, dropped, answers, poolVars>>

\* /v1/pay records the payment, and answers after that; without the database
\* the route fails.
Recorded(r) ==
  /\ r \in InFlight
  /\ requests[r].pc = "mined" /\ requests[r].route = "payroll"
  /\ connected
  /\ payments' = payments \cup {requests[r].call}
  /\ requests' = [requests EXCEPT ![r].pc = "recorded"]
  /\ UNCHANGED <<noteHints, connected, memCache, saving, dropped, answers, poolVars>>

-----------------------------------------------------------------------------
(* The end of a request *)

\* The withdrawal takes the root from a tree of its own time.
BrokenToldRoot(req) ==
  IF req.route = "withdraw" THEN RootOf(req.view.leaves) ELSE req.call.merkleRoot

\* The withdrawal reads the root again, for the parameters of its answer.
ToldRoot(req) ==
  IF req.route = "withdraw" THEN CurrentRoot(req.view) ELSE req.call.merkleRoot

Told(req) ==
  IF "merkleRoot" \in DOMAIN req.call
  THEN [req.call EXCEPT !.merkleRoot = ToldRoot(req)] ELSE req.call

\* The proof is back, or the server's transaction is mined.  An answer nobody
\* receives is one the wallet never sends.
Answer(r) ==
  LET req == requests[r] IN
  /\ r \in InFlight
  /\ \/ req.pc = "proving" /\ req.route \notin ServerSends
     \/ req.pc = "mined" /\ req.route # "payroll"
     \/ req.pc = "recorded"
  /\ SaveHints(Hints(req.route, req.key, req.call))
  /\ answers' = answers \cup {[route |-> req.route, key |-> req.key, in |-> req.in,
                               proved |-> req.call, call |-> Told(req)]}
  /\ requests' = [requests EXCEPT ![r] = Idle]
  /\ UNCHANGED <<payments, poolVars>>

\* What is on its way to the chain when a request or the process ends is beyond
\* recall, and so are the salts of its notes.  It keeps its slot, as an orphan,
\* until it is mined or dropped.
Abandoned(req) ==
  IF req.pc \in {"submitted", "mined", "recorded"}
  THEN {Hint(c.owner, c) : c \in Made(req.call)} ELSE {}

AfterAll(req) ==
  IF req.pc \in {"submitted", "orphaned"} THEN [req EXCEPT !.pc = "orphaned"] ELSE Idle

\* An await throws, a note is not found, the balance is too small, a transaction
\* reverts or is dropped, a payment is not recorded.
Fail(r) ==
  /\ r \in InFlight
  /\ requests' = [requests EXCEPT ![r] = IF @.pc = "orphaned" THEN Idle ELSE AfterAll(@)]
  /\ dropped' = dropped \cup Abandoned(requests[r])
  /\ UNCHANGED <<noteHints, connected, memCache, saving, payments, answers, poolVars>>

Restart ==
  /\ memCache' = {}
  /\ saving' = {}
  /\ dropped' = dropped \cup saving \cup UNION {Abandoned(requests[r]) : r \in Requests}
  /\ requests' = [r \in Requests |-> AfterAll(requests[r])]
  /\ UNCHANGED <<noteHints, connected, payments, answers, poolVars>>

\* The wallet sends what it was told, at any time, or never.
WalletSends(a) ==
  /\ a \in answers
  /\ a.route \notin ServerSends
  /\ IF "commitment" \in DOMAIN a.call THEN Shield(Wallet, a.call)
     ELSE Spend(a.in, a.call)
  /\ UNCHANGED backendVars

-----------------------------------------------------------------------------
BackendInit ==
  /\ Init
  /\ noteHints = {}
  /\ connected \in BOOLEAN
  /\ memCache = {} /\ saving = {} /\ dropped = {} /\ payments = {}
  /\ requests = [r \in Requests |-> Idle]
  /\ answers = {}

Step(r) ==
  \/ \E c \in {d \in Commitment : d.owner \in {Org} \cup Callers} :
       StartShield(r, "shield", c) \/ StartShield(r, "execute", c)
  \/ \E route \in {"pay", "payroll"} : Synced(r, route, Org)
  \/ \E key \in Employees, route \in {"withdraw", "exit"} : Synced(r, route, key)
  \/ \E key \in Callers, route \in {"send", "unshield", "transfer", "exit"} :
       Synced(r, route, key)
  \/ Hear(r)
  \/ \E t \in Tokens, amount \in Amounts : Prove(r, t, amount)
  \/ Submit(r) \/ Mined(r) \/ Recorded(r)
  \/ Answer(r)
  \/ Fail(r)

BackendNext ==
  \/ \E r \in Requests : Step(r)
  \/ \E h \in saving : Saved(h) \/ SaveFailed(h)
  \/ Reconnected \/ ConnectionLost
  \/ Restart
  \/ \E a \in answers : WalletSends(a)

BackendSpec == BackendInit /\ [][BackendNext]_<<backendVars, poolVars>>
=============================================================================
