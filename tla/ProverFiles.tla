---------------------------- MODULE ProverFiles ----------------------------
(***************************************************************************)
(* The files behind a proof and a hint: sdk/src/ProofGenerator.ts and      *)
(* sdk/src/HintStore.ts, as POST /prove of backend/server.js runs them.    *)
(*                                                                         *)
(* A call writes Prover.toml, has nargo read it and write the witness, has *)
(* bb read the witness and write the proof, and, when it is a shield, puts *)
(* its encrypted hint in a temporary file, uploads it and records its root *)
(* on the chain, with up to MaxAttempts attempts.  Prover.toml and the     *)
(* witness have one path per circuit, the temporary file is named after    *)
(* the millisecond; the calls interleave at their awaits, and the two      *)
(* tools run beside all of them.  What a file holds is the call whose      *)
(* inputs it was made from.  The relay signer is configured.  A restart    *)
(* takes the tools with it and leaves the files.                           *)
(***************************************************************************)
EXTENDS Integers, Sequences, Functions

CONSTANTS MaxCalls,     \* bound: calls, numbered in the order they arrive
          MaxAttempts,  \* retries of withRetry, 3 in the code
          MaxFaults     \* bound: failing tools, uploads, transactions

ASSUME ProverAssumption ==
  /\ MaxCalls \in Nat
  /\ MaxAttempts \in Nat \ {0}
  /\ MaxFaults \in Nat

VARIABLES toml,       \* toml[k]: the call whose inputs are in k/Prover.toml
          witness,    \* witness[k]: the call target/k.gz is the witness of
          call,       \* the local variables of a call and of its tools
          outDirs,    \* the calls whose sp-... directory exists
          tmp,        \* sp-hint-{ms}.bin: which file the name leads to
          data,       \* data[f]: the call whose hint file f holds
          ms,         \* the last millisecond that had an upload
          recorded,   \* recorded[c]: the hints recorded for call c's receiver
          shared,     \* history: calls that ran while another one used the
          collided,   \*   circuit, or named their hint in the same millisecond
          faults, restarted

Calls == 1..MaxCalls
Circuits == {"shield", "spend"}
NoCall == 0
NoName == 0
NoFile == <<NoName, NoCall>>

files == <<toml, witness, outDirs, tmp, data, ms>>
history == <<shared, collided>>
proverVars == <<files, call, recorded, history, faults, restarted>>

Idle == [pc |-> "idle", circuit |-> "spend", input |-> NoCall, proof |-> NoCall,
         attempt |-> 1, name |-> NoName, file |-> NoFile, root |-> NoCall,
         answer |-> "none"]

ProverInit ==
  /\ toml = [k \in Circuits |-> NoCall]
  /\ witness = [k \in Circuits |-> NoCall]
  /\ call = [c \in Calls |-> Idle]
  /\ outDirs = {}
  /\ tmp = << >>
  /\ data = << >>
  /\ ms = NoName
  /\ recorded = [c \in Calls |-> << >>]
  /\ shared = {}
  /\ collided = {}
  /\ faults = 0
  /\ restarted = FALSE

-----------------------------------------------------------------------------
InProgress == {c \in Calls : call[c].pc \notin {"idle", "done"}}

\* The calls that depend on the files of circuit k.
UsersOf(k) == {c \in Calls : /\ call[c].circuit = k
                             /\ call[c].pc \in {"nargo", "execute", "bb"}}

Answer(c, answer) ==
  call' = [call EXCEPT ![c] = [Idle EXCEPT !.pc = "done", !.circuit = call[c].circuit,
                                           !.proof = call[c].proof, !.answer = answer]]

Fault == faults < MaxFaults /\ faults' = faults + 1

-----------------------------------------------------------------------------
(* generateShieldProof, generateSpendProof *)

\* Up to the spawn of nargo.
Start(c, k) ==
  /\ call[c].pc = "idle"
  /\ \A d \in 1..(c - 1) : call[d].pc # "idle"
  /\ toml' = [toml EXCEPT ![k] = c]
  /\ call' = [call EXCEPT ![c] = [Idle EXCEPT !.pc = "nargo", !.circuit = k]]
  /\ shared' = IF UsersOf(k) = {} THEN shared ELSE shared \cup UsersOf(k) \cup {c}
  /\ UNCHANGED <<witness, outDirs, tmp, data, ms, recorded, collided, faults, restarted>>

NargoReads(c) ==
  /\ call[c].pc = "nargo"
  /\ call' = [call EXCEPT ![c].pc = "execute", ![c].input = toml[call[c].circuit]]
  /\ UNCHANGED <<files, recorded, history, faults, restarted>>

\* nargo keeps a witness that is there already.
BrokenNargoWrites(c) ==
  LET k == call[c].circuit IN
  /\ call[c].pc = "execute"
  /\ witness' = [witness EXCEPT ![k] = IF @ = NoCall THEN call[c].input ELSE @]
  /\ outDirs' = outDirs \cup {c}
  /\ call' = [call EXCEPT ![c].pc = "bb", ![c].input = NoCall]
  /\ UNCHANGED <<toml, tmp, data, ms, recorded, history, faults, restarted>>

\* nargo is done; the call makes its directory and spawns bb.
NargoWrites(c) ==
  /\ call[c].pc = "execute"
  /\ witness' = [witness EXCEPT ![call[c].circuit] = call[c].input]
  /\ outDirs' = outDirs \cup {c}
  /\ call' = [call EXCEPT ![c].pc = "bb", ![c].input = NoCall]
  /\ UNCHANGED <<toml, tmp, data, ms, recorded, history, faults, restarted>>

BbReads(c) ==
  /\ call[c].pc = "bb"
  /\ call' = [call EXCEPT ![c].pc = "prove", ![c].input = witness[call[c].circuit]]
  /\ UNCHANGED <<files, recorded, history, faults, restarted>>

\* bb is done; the call reads the proof and removes the directory.  /prove
\* answers a spend, and posts the hint of a shield.
BbWrites(c) ==
  /\ call[c].pc = "prove"
  /\ outDirs' = outDirs \ {c}
  /\ call' = IF call[c].circuit = "shield"
             THEN [call EXCEPT ![c].pc = "post", ![c].proof = call[c].input,
                               ![c].input = NoCall]
             ELSE [call EXCEPT ![c].pc = "done", ![c].proof = call[c].input,
                               ![c].input = NoCall, ![c].answer = "proved"]
  /\ UNCHANGED <<toml, witness, tmp, data, ms, recorded, history, faults, restarted>>

\* The directory of a failed bb stays.
BrokenToolFails(c) ==
  /\ call[c].pc \in {"nargo", "execute", "bb", "prove"}
  /\ Fault
  /\ Answer(c, "error")
  /\ UNCHANGED <<files, recorded, history, restarted>>

\* A tool that exits with an error: the finally block removes the directory.
ToolFails(c) ==
  /\ call[c].pc \in {"nargo", "execute", "bb", "prove"}
  /\ Fault
  /\ outDirs' = outDirs \ {c}
  /\ Answer(c, "error")
  /\ UNCHANGED <<toml, witness, tmp, data, ms, recorded, history, restarted>>

-----------------------------------------------------------------------------
(* postHint within withRetry *)

Uploading(name) ==
  {d \in Calls : call[d].name = name /\ call[d].pc \in {"open", "upload"}}

\* The millisecond of an upload: a later one, or, when somebody still uses it,
\* the last one.  The delay before a retry is longer than that.
Names(c) ==
  {ms + 1} \cup IF Uploading(ms) # {} /\ call[c].name # ms THEN {ms} ELSE {}

\* writeFileSync(tmpPath): the name leads to a file already, or to a new one.
WriteHint(c) ==
  /\ call[c].pc = "post"
  /\ \E name \in Names(c) :
       LET file == IF name \in DOMAIN tmp THEN tmp[name] ELSE <<name, c>> IN
       /\ ms' = name
       /\ tmp' = [n \in DOMAIN tmp \cup {name} |-> IF n = name THEN file ELSE tmp[n]]
       /\ data' = [f \in DOMAIN data \cup {file} |-> IF f = file THEN c ELSE data[f]]
       /\ call' = [call EXCEPT ![c].pc = "open", ![c].name = name]
       /\ collided' = IF Uploading(name) = {} THEN collided
                      ELSE collided \cup Uploading(name) \cup {c}
  /\ UNCHANGED <<toml, witness, outDirs, recorded, shared, faults, restarted>>

\* The finally block of uploadToStorage.  What nobody has open is gone.
RemoveFile(c) ==
  LET kept == [n \in DOMAIN tmp \ {call[c].name} |-> tmp[n]] IN
  /\ tmp' = kept
  /\ data' = Restrict(data, DOMAIN data \cap
                (Range(kept) \cup {call[d].file : d \in Calls \ {c}}))

\* The error is reported after one attempt only, and as a success.
BrokenAttemptFailed(c) == Answer(c, "hinted")

\* One attempt too many.
BrokenLastAttempt(c) ==
  IF call[c].attempt <= MaxAttempts
  THEN call' = [call EXCEPT ![c].pc = "post", ![c].attempt = @ + 1,
                            ![c].file = NoFile, ![c].root = NoCall]
  ELSE Answer(c, "proved")

\* withRetry: another attempt, or the error, which /prove reports before it
\* answers with the proof all the same.
AttemptFailed(c) ==
  IF call[c].attempt < MaxAttempts
  THEN call' = [call EXCEPT ![c].pc = "post", ![c].attempt = @ + 1,
                            ![c].file = NoFile, ![c].root = NoCall]
  ELSE Answer(c, "proved")

\* A file that is gone is waited for.
BrokenOpenFile(c) ==
  /\ call[c].pc = "open"
  /\ call[c].name \in DOMAIN tmp
  /\ call' = [call EXCEPT ![c].pc = "upload", ![c].file = tmp[call[c].name]]
  /\ UNCHANGED <<toml, witness, outDirs, tmp, data, ms, recorded, history, faults, restarted>>

\* ZgFile.fromFilePath: the name may be gone.
OpenFile(c) ==
  /\ call[c].pc = "open"
  /\ IF call[c].name \in DOMAIN tmp
     THEN /\ call' = [call EXCEPT ![c].pc = "upload", ![c].file = tmp[call[c].name]]
          /\ UNCHANGED <<tmp, data>>
     ELSE /\ AttemptFailed(c)
          /\ RemoveFile(c)
  /\ UNCHANGED <<toml, witness, outDirs, ms, recorded, history, faults, restarted>>

\* indexer.upload: the root is that of what the open file holds by now.
Upload(c) ==
  /\ call[c].pc = "upload"
  /\ call' = [call EXCEPT ![c].pc = "record", ![c].file = NoFile,
                          ![c].root = data[call[c].file]]
  /\ RemoveFile(c)
  /\ UNCHANGED <<toml, witness, outDirs, ms, recorded, history, faults, restarted>>

UploadFails(c) ==
  /\ call[c].pc = "upload"
  /\ Fault
  /\ AttemptFailed(c)
  /\ RemoveFile(c)
  /\ UNCHANGED <<toml, witness, outDirs, ms, recorded, history, restarted>>

\* recordHintOnChain: mined, and awaited.
Recorded(c) == recorded' = [recorded EXCEPT ![c] = Append(@, call[c].root)]

RecordHint(c) ==
  /\ call[c].pc = "record"
  /\ Recorded(c)
  /\ Answer(c, "hinted")
  /\ UNCHANGED <<files, history, faults, restarted>>

\* Reverted, or mined and the wait for it failed.
RecordFails(c) ==
  /\ call[c].pc = "record"
  /\ Fault
  /\ Recorded(c) \/ UNCHANGED recorded
  /\ AttemptFailed(c)
  /\ UNCHANGED <<files, history, restarted>>

-----------------------------------------------------------------------------
Restart ==
  /\ ~restarted
  /\ restarted' = TRUE
  /\ call' = [c \in Calls |->
                IF c \in InProgress
                THEN [Idle EXCEPT !.pc = "done", !.circuit = call[c].circuit,
                                  !.answer = "lost"]
                ELSE call[c]]
  /\ UNCHANGED <<files, recorded, history, faults>>

Proceed(c) ==
  \/ NargoReads(c) \/ NargoWrites(c) \/ BbReads(c) \/ BbWrites(c) \/ ToolFails(c)
  \/ WriteHint(c) \/ OpenFile(c) \/ Upload(c) \/ UploadFails(c) \/ RecordHint(c) \/ RecordFails(c)

ProverNext ==
  \/ \E c \in Calls : Proceed(c) \/ \E k \in Circuits : Start(c, k)
  \/ Restart

\* The tools exit, the event loop resumes every call, and a network call
\* returns or throws.
ProverFairness == \A c \in Calls : WF_proverVars(Proceed(c))

ProverSpec == ProverInit /\ [][ProverNext]_proverVars /\ ProverFairness

-----------------------------------------------------------------------------
ProverTypeOK ==
  /\ toml \in [Circuits -> Calls \cup {NoCall}]
  /\ witness \in [Circuits -> Calls \cup {NoCall}]
  /\ outDirs \subseteq Calls
  /\ Range(tmp) \subseteq DOMAIN data
  /\ Range(data) \subseteq Calls
  /\ recorded \in [Calls -> Seq(Calls)]
  /\ shared \cup collided \subseteq Calls
  /\ \A c \in Calls :
       /\ call[c].pc \in {"idle", "nargo", "execute", "bb", "prove", "post", "open",
                          "upload", "record", "done"}
       /\ call[c].attempt \in 1..MaxAttempts
       /\ call[c].answer \in {"none", "proved", "hinted", "error", "lost"}

(***************************************************************************)
(* A call that no other call of its circuit overlapped gets the proof of   *)
(* its own statement, whatever earlier calls that failed, or a restart,    *)
(* left in Prover.toml and in target.  A lock per circuit would be enough. *)
(***************************************************************************)
ProofIsOwn ==
  \A c \in Calls : call[c].proof # NoCall /\ c \notin shared => call[c].proof = c

(***************************************************************************)
(* A hint recorded for a receiver is the one encrypted for it, which it    *)
(* can decrypt, and /prove reports a hint as saved only when the chain has *)
(* one: through failed uploads, failed transactions and their retries,     *)
(* unless two uploads fell in one millisecond.                             *)
(***************************************************************************)
HintIsOwn ==
  \A c \in Calls \ collided :
    /\ Range(recorded[c]) \subseteq {c}
    /\ call[c].answer = "hinted" => recorded[c] # << >>

(***************************************************************************)
(* Only a restart leaves temporary files behind: every directory of a      *)
(* proof and every file of a hint belongs to a call still using it.        *)
(***************************************************************************)
NothingLeftBehind ==
  ~restarted =>
    /\ \A c \in outDirs : call[c].pc \in {"bb", "prove"}
    /\ \A n \in DOMAIN tmp :
         \E c \in Calls : call[c].name = n /\ call[c].pc \in {"open", "upload"}

(***************************************************************************)
(* Every call is answered in the end, or lost in a restart, however the    *)
(* tools and the uploads fail: the retries of the hint come to an end.     *)
(***************************************************************************)
EveryCallAnswered ==
  \A c \in Calls : call[c].pc # "idle" ~> call[c].pc = "done"
=============================================================================
