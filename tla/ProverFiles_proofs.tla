------------------------- MODULE ProverFiles_proofs -------------------------
(***************************************************************************)
(* What holds of ProverFiles for any number of calls, attempts and faults. *)
(***************************************************************************)
EXTENDS ProverFiles, TLAPS

CallRecord ==
  [pc : {"idle", "nargo", "execute", "bb", "prove", "post", "open", "upload",
         "record", "done"},
   circuit : Circuits, input : Calls \cup {NoCall}, proof : Calls \cup {NoCall},
   attempt : 1..MaxAttempts, name : Nat, file : Nat \X (Calls \cup {NoCall}),
   root : Calls \cup {NoCall},
   answer : {"none", "proved", "hinted", "error", "lost"}]

\* The types, and that an open file exists until it is closed.
TypeInv ==
  /\ toml \in [Circuits -> Calls \cup {NoCall}]
  /\ witness \in [Circuits -> Calls \cup {NoCall}]
  /\ call \in [Calls -> CallRecord]
  /\ outDirs \subseteq Calls
  /\ ms \in Nat
  /\ \A n \in DOMAIN tmp : n \in Nat /\ tmp[n] \in DOMAIN data /\ tmp[n][1] = n
  /\ \A f \in DOMAIN data : f \in Nat \X Calls /\ data[f] \in Calls
  /\ recorded \in [Calls -> Seq(Calls)]
  /\ shared \subseteq Calls
  /\ collided \subseteq Calls
  /\ \A c \in Calls :
       /\ call[c].pc = "upload" => /\ call[c].file \in DOMAIN data
                                   /\ call[c].file[1] = call[c].name
       /\ call[c].pc = "record" => call[c].root \in Calls

\* Calls that use a circuit's files together know each other; alone, a call
\* finds its own inputs and its own witness there.
CircuitInv ==
  /\ \A k \in Circuits : \A c, d \in UsersOf(k) : c # d => c \in shared
  /\ \A c \in Calls \ shared :
       /\ call[c].pc = "nargo" => toml[call[c].circuit] = c
       /\ call[c].pc = "execute" => call[c].input = c
       /\ call[c].pc = "bb" => witness[call[c].circuit] = c
       /\ call[c].pc = "prove" => call[c].input = c
       /\ call[c].proof # NoCall => call[c].proof = c

\* The same of the calls that use one name of a temporary file.
HintInv ==
  /\ \A c, d \in Calls :
       /\ c # d
       /\ call[c].pc \in {"open", "upload"} /\ call[d].pc \in {"open", "upload"}
       /\ call[c].name = call[d].name
       => c \in collided
  /\ \A c \in Calls \ collided :
       /\ call[c].pc = "open" => /\ call[c].name \in DOMAIN tmp
                                 /\ data[tmp[call[c].name]] = c
       /\ call[c].pc = "upload" => data[call[c].file] = c
       /\ call[c].pc = "record" => call[c].root = c
  /\ HintIsOwn

IInv == TypeInv /\ CircuitInv /\ HintInv /\ NothingLeftBehind

USE DEF Circuits, NoCall, NoName, NoFile

(***************************************************************************)
(* The invariant gives what the runs check.                                *)
(***************************************************************************)
LEMMA InvariantImplies ==
  IInv => ProverTypeOK /\ ProofIsOwn /\ HintIsOwn /\ NothingLeftBehind
<1> SUFFICES ASSUME IInv PROVE ProverTypeOK /\ ProofIsOwn
  BY DEF IInv, HintInv
<1>1. ProofIsOwn
  BY DEF IInv, CircuitInv, ProofIsOwn
<1>2. ProverTypeOK
  <2>1. Range(tmp) \subseteq DOMAIN data /\ Range(data) \subseteq Calls
    BY DEF IInv, TypeInv, Range
  <2>2. \A c \in Calls :
          /\ call[c].pc \in {"idle", "nargo", "execute", "bb", "prove", "post", "open",
                             "upload", "record", "done"}
          /\ call[c].attempt \in 1..MaxAttempts
          /\ call[c].answer \in {"none", "proved", "hinted", "error", "lost"}
    BY DEF IInv, TypeInv, CallRecord
  <2> QED BY <2>1, <2>2 DEF IInv, TypeInv, ProverTypeOK
<1> QED BY <1>1, <1>2

(***************************************************************************)
(* A call that has not begun.                                              *)
(***************************************************************************)
LEMMA IdleTyped ==
  /\ Idle \in CallRecord /\ Idle.pc = "idle" /\ Idle.circuit = "spend"
  /\ Idle.proof = NoCall /\ Idle.answer = "none"
BY ProverAssumption DEF Idle, CallRecord

(***************************************************************************)
(* Nothing is in the files at first.                                       *)
(***************************************************************************)
LEMMA InitInvariant == ProverInit => IInv
<1> SUFFICES ASSUME ProverInit PROVE IInv
  OBVIOUS
<1>1. Idle \in CallRecord /\ Idle.pc = "idle" /\ Idle.proof = NoCall /\ Idle.answer = "none"
  BY IdleTyped
<1>2. DOMAIN tmp = {} /\ DOMAIN data = {}
  BY DEF ProverInit
<1>3. TypeInv
  BY <1>1, <1>2 DEF ProverInit, TypeInv
<1>4. CircuitInv
  BY <1>1 DEF ProverInit, CircuitInv, UsersOf
<1>5. HintInv
  BY <1>1 DEF ProverInit, HintInv, HintIsOwn, Range
<1>6. NothingLeftBehind
  BY <1>2 DEF ProverInit, NothingLeftBehind
<1> QED BY <1>3, <1>4, <1>5, <1>6 DEF IInv

(***************************************************************************)
(* The steps of a proof do not disturb the hints.                          *)
(***************************************************************************)
LEMMA HintsUndisturbed ==
  ASSUME IInv, UNCHANGED <<tmp, data, recorded, collided>>,
         \A d \in Calls :
           \/ call'[d] = call[d]
           \/ /\ call'[d].pc \notin {"open", "upload", "record"}
              /\ call'[d].answer \in {call[d].answer, "proved", "error", "none", "lost"}
  PROVE  HintInv'
<1>1. \A d \in Calls : call'[d].pc \in {"open", "upload", "record"} => call'[d] = call[d]
  OBVIOUS
<1>2. HintIsOwn'
  <2> SUFFICES ASSUME NEW d \in Calls \ collided
               PROVE  /\ Range(recorded[d]) \subseteq {d}
                      /\ call'[d].answer = "hinted" => recorded[d] # << >>
    BY DEF HintIsOwn
  <2>1. /\ Range(recorded[d]) \subseteq {d}
        /\ call[d].answer = "hinted" => recorded[d] # << >>
    BY DEF IInv, HintInv, HintIsOwn
  <2>2. call'[d].answer = "hinted" => call[d].answer = "hinted"
    OBVIOUS
  <2> QED BY <2>1, <2>2
<1> QED BY <1>1, <1>2 DEF IInv, HintInv

(***************************************************************************)
(* The steps of a hint do not disturb the proofs.                          *)
(***************************************************************************)
LEMMA ProofsUndisturbed ==
  ASSUME IInv, UNCHANGED <<toml, witness, shared>>,
         \A d \in Calls :
           \/ call'[d] = call[d]
           \/ /\ call'[d].pc \notin {"nargo", "execute", "bb", "prove"}
              /\ call'[d].proof = call[d].proof
  PROVE  CircuitInv'
<1>1. \A d \in Calls :
        call'[d].pc \in {"nargo", "execute", "bb", "prove"} => call'[d] = call[d]
  OBVIOUS
<1>2. \A d \in Calls : call'[d].proof = call[d].proof
  OBVIOUS
<1>3. \A k \in Circuits : UsersOf(k)' \subseteq UsersOf(k)
  BY <1>1 DEF UsersOf
<1> QED BY <1>1, <1>2, <1>3 DEF IInv, CircuitInv

(***************************************************************************)
(* Nor do they leave a file without its user.                              *)
(***************************************************************************)
LEMMA NothingLeftUndisturbed ==
  ASSUME IInv, UNCHANGED <<tmp, restarted>>,
         ~restarted => \A d \in outDirs' : call'[d].pc \in {"bb", "prove"},
         \A d \in Calls : call[d].pc \in {"open", "upload"} => call'[d] = call[d]
  PROVE  NothingLeftBehind'
BY DEF IInv, NothingLeftBehind

(***************************************************************************)
(* A new call writes its inputs over those of the calls it overlaps.       *)
(***************************************************************************)
LEMMA StartInvariant ==
  ASSUME IInv, NEW c \in Calls, NEW k \in Circuits, Start(c, k)
  PROVE  IInv'
<1> DEFINE new == [Idle EXCEPT !.pc = "nargo", !.circuit = k]
<1>1. /\ new \in CallRecord /\ new.pc = "nargo" /\ new.circuit = k
      /\ new.proof = NoCall /\ new.answer = "none"
  BY IdleTyped DEF CallRecord
<1>2. /\ call' = [call EXCEPT ![c] = new]
      /\ call'[c] = new /\ \A d \in Calls \ {c} : call'[d] = call[d]
  BY DEF Start, IInv, TypeInv
<1> HIDE DEF new
<1>3. TypeInv'
  BY <1>1, <1>2 DEF IInv, TypeInv, Start, UsersOf
<1>4. CircuitInv'
  <2>1. \A j \in Circuits : UsersOf(j)' = IF j = k THEN UsersOf(k) \cup {c} ELSE UsersOf(j)
    BY <1>1, <1>2 DEF UsersOf, Start
  <2>2. c \notin UsersOf(k)
    BY DEF Start, UsersOf
  <2>3. \A j \in Circuits : \A d, e \in UsersOf(j)' : d # e => d \in shared'
    BY <2>1, <2>2 DEF IInv, CircuitInv, Start
  <2>4. toml' = [toml EXCEPT ![k] = c] /\ witness' = witness /\ shared \subseteq shared'
    BY DEF Start
  <2>5. \A d \in Calls \ shared' : d # c /\ call[d].pc = "nargo" => call[d].circuit # k
    BY DEF Start, UsersOf
  <2>6. \A d \in Calls \ shared' :
          /\ call'[d].pc = "nargo" => toml'[call'[d].circuit] = d
          /\ call'[d].pc = "execute" => call'[d].input = d
          /\ call'[d].pc = "bb" => witness'[call'[d].circuit] = d
          /\ call'[d].pc = "prove" => call'[d].input = d
          /\ call'[d].proof # NoCall => call'[d].proof = d
    <3> SUFFICES ASSUME NEW d \in Calls \ shared'
                 PROVE  /\ call'[d].pc = "nargo" => toml'[call'[d].circuit] = d
                        /\ call'[d].pc = "execute" => call'[d].input = d
                        /\ call'[d].pc = "bb" => witness'[call'[d].circuit] = d
                        /\ call'[d].pc = "prove" => call'[d].input = d
                        /\ call'[d].proof # NoCall => call'[d].proof = d
      OBVIOUS
    <3>1. CASE d = c BY <3>1, <1>1, <1>2, <2>4 DEF IInv, TypeInv
    <3>2. CASE d # c
      BY <3>2, <1>2, <2>4, <2>5 DEF IInv, TypeInv, CallRecord, CircuitInv
    <3> QED BY <3>1, <3>2
  <2> QED BY <2>3, <2>6 DEF CircuitInv
<1>5. HintInv'
  BY <1>1, <1>2, HintsUndisturbed DEF Start
<1>6. NothingLeftBehind'
  BY <1>1, <1>2 DEF IInv, NothingLeftBehind, Start
<1> QED BY <1>3, <1>4, <1>5, <1>6 DEF IInv

(***************************************************************************)
(* nargo reads the inputs of the last call that wrote them.                *)
(***************************************************************************)
LEMMA NargoReadsInvariant ==
  ASSUME IInv, NEW c \in Calls, NargoReads(c)
  PROVE  IInv'
<1> DEFINE read == toml[call[c].circuit]
           new == [call[c] EXCEPT !.pc = "execute", !.input = read]
<1>1. call[c] \in CallRecord /\ call[c].pc = "nargo" /\ read \in Calls \cup {NoCall}
  BY DEF IInv, TypeInv, CallRecord, NargoReads
<1>2. /\ call' = [call EXCEPT ![c] = new]
      /\ call'[c] = new /\ \A d \in Calls \ {c} : call'[d] = call[d]
  BY DEF NargoReads, IInv, TypeInv
<1>3. c \notin shared => read = c
  BY <1>1 DEF IInv, CircuitInv
<1> HIDE DEF read
<1>4. /\ new \in CallRecord /\ new.pc = "execute" /\ new.circuit = call[c].circuit
      /\ new.input = read /\ new.proof = call[c].proof /\ new.answer = call[c].answer
  BY <1>1 DEF CallRecord
<1>5. UNCHANGED <<toml, witness, outDirs, tmp, data, ms, recorded, shared, collided,
                  restarted>>
  BY DEF NargoReads, files, history
<1> HIDE DEF new
<1>6. TypeInv'
  BY <1>2, <1>4, <1>5 DEF IInv, TypeInv
<1>7. CircuitInv'
  <2>1. \A k \in Circuits : UsersOf(k)' = UsersOf(k)
    BY <1>1, <1>2, <1>4 DEF UsersOf
  <2>2. \A k \in Circuits : \A d, e \in UsersOf(k)' : d # e => d \in shared'
    BY <2>1, <1>5 DEF IInv, CircuitInv
  <2> QED BY <1>2, <1>3, <1>4, <1>5, <2>2 DEF IInv, CircuitInv
<1>8. HintInv'
  BY <1>2, <1>4, <1>5, HintsUndisturbed
<1>9. NothingLeftBehind'
  BY <1>1, <1>2, <1>4, <1>5, NothingLeftUndisturbed DEF IInv, NothingLeftBehind
<1> QED BY <1>6, <1>7, <1>8, <1>9 DEF IInv

(***************************************************************************)
(* nargo writes the witness of what it read: of the call's own inputs when *)
(* nobody else uses the circuit.                                           *)
(***************************************************************************)
LEMMA NargoWritesInvariant ==
  ASSUME IInv, NEW c \in Calls, NargoWrites(c)
  PROVE  IInv'
<1> DEFINE new == [call[c] EXCEPT !.pc = "bb", !.input = NoCall]
           k == call[c].circuit
<1>1. call[c] \in CallRecord /\ call[c].pc = "execute" /\ k \in Circuits
  BY DEF IInv, TypeInv, CallRecord, NargoWrites
<1>2. /\ call' = [call EXCEPT ![c] = new]
      /\ call'[c] = new /\ \A d \in Calls \ {c} : call'[d] = call[d]
  BY DEF NargoWrites, IInv, TypeInv
<1>3. /\ new \in CallRecord /\ new.pc = "bb" /\ new.circuit = k
      /\ new.proof = call[c].proof /\ new.answer = call[c].answer
  BY <1>1 DEF CallRecord
<1>4. /\ UNCHANGED <<toml, tmp, data, ms, recorded, shared, collided, restarted>>
      /\ witness' = [witness EXCEPT ![k] = call[c].input]
      /\ outDirs' = outDirs \cup {c}
  BY DEF NargoWrites, history
<1> HIDE DEF new
<1>5. TypeInv'
  BY <1>1, <1>2, <1>3, <1>4 DEF IInv, TypeInv, CallRecord
<1>6. CircuitInv'
  <2>1. \A j \in Circuits : UsersOf(j)' = UsersOf(j)
    BY <1>1, <1>2, <1>3 DEF UsersOf
  <2>2. \A j \in Circuits : \A d, e \in UsersOf(j)' : d # e => d \in shared'
    BY <2>1, <1>4 DEF IInv, CircuitInv
  <2>3. \A d \in Calls \ shared : d # c /\ call[d].pc = "bb" => call[d].circuit # k
    BY <1>1 DEF IInv, CircuitInv, UsersOf
  <2>4. /\ witness'[k] = call[c].input
        /\ \A j \in Circuits : j # k => witness'[j] = witness[j]
    BY <1>1, <1>4 DEF IInv, TypeInv
  <2>5. \A d \in Calls : call[d].circuit \in Circuits
    BY DEF IInv, TypeInv, CallRecord
  <2> HIDE DEF k
  <2>6. c \notin shared => /\ witness'[new.circuit] = c
                           /\ new.proof # NoCall => new.proof = c
    BY <1>1, <1>3, <2>4 DEF IInv, CircuitInv
  <2>7. \A d \in Calls \ shared :
          d # c /\ call[d].pc = "bb" => witness'[call[d].circuit] = d
    BY <2>3, <2>4, <2>5 DEF IInv, CircuitInv
  <2>8. \A d \in Calls \ shared : d # c =>
          /\ call[d].pc = "nargo" => toml[call[d].circuit] = d
          /\ call[d].pc = "execute" => call[d].input = d
          /\ call[d].pc = "prove" => call[d].input = d
          /\ call[d].proof # NoCall => call[d].proof = d
    BY DEF IInv, CircuitInv
  <2>9. \A d \in Calls \ shared :
          /\ call'[d].pc = "nargo" => toml[call'[d].circuit] = d
          /\ call'[d].pc = "execute" => call'[d].input = d
          /\ call'[d].pc = "bb" => witness'[call'[d].circuit] = d
          /\ call'[d].pc = "prove" => call'[d].input = d
          /\ call'[d].proof # NoCall => call'[d].proof = d
    BY <1>2, <1>3, <2>6, <2>7, <2>8
  <2> QED BY <1>4, <2>2, <2>9 DEF CircuitInv
<1>7. HintInv'
  BY <1>2, <1>3, <1>4, HintsUndisturbed
<1>8. NothingLeftBehind'
  BY <1>1, <1>2, <1>3, <1>4, NothingLeftUndisturbed DEF IInv, NothingLeftBehind
<1> QED BY <1>5, <1>6, <1>7, <1>8 DEF IInv

(***************************************************************************)
(* bb reads the last witness.                                              *)
(***************************************************************************)
LEMMA BbReadsInvariant ==
  ASSUME IInv, NEW c \in Calls, BbReads(c)
  PROVE  IInv'
<1> DEFINE read == witness[call[c].circuit]
           new == [call[c] EXCEPT !.pc = "prove", !.input = read]
<1>1. call[c] \in CallRecord /\ call[c].pc = "bb" /\ read \in Calls \cup {NoCall}
  BY DEF IInv, TypeInv, CallRecord, BbReads
<1>2. /\ call' = [call EXCEPT ![c] = new]
      /\ call'[c] = new /\ \A d \in Calls \ {c} : call'[d] = call[d]
  BY DEF BbReads, IInv, TypeInv
<1>3. c \notin shared => read = c
  BY <1>1 DEF IInv, CircuitInv
<1> HIDE DEF read
<1>4. /\ new \in CallRecord /\ new.pc = "prove" /\ new.circuit = call[c].circuit
      /\ new.input = read /\ new.proof = call[c].proof /\ new.answer = call[c].answer
  BY <1>1 DEF CallRecord
<1>5. UNCHANGED <<toml, witness, outDirs, tmp, data, ms, recorded, shared, collided,
                  restarted>>
  BY DEF BbReads, files, history
<1> HIDE DEF new
<1>6. TypeInv'
  BY <1>2, <1>4, <1>5 DEF IInv, TypeInv
<1>7. CircuitInv'
  <2>1. \A k \in Circuits : UsersOf(k)' \subseteq UsersOf(k)
    BY <1>1, <1>2, <1>4 DEF UsersOf
  <2>2. \A k \in Circuits : \A d, e \in UsersOf(k)' : d # e => d \in shared'
    BY <2>1, <1>5 DEF IInv, CircuitInv
  <2> QED BY <1>2, <1>3, <1>4, <1>5, <2>2 DEF IInv, CircuitInv
<1>8. HintInv'
  BY <1>2, <1>4, <1>5, HintsUndisturbed
<1>9. NothingLeftBehind'
  BY <1>1, <1>2, <1>4, <1>5, NothingLeftUndisturbed DEF IInv, NothingLeftBehind
<1> QED BY <1>6, <1>7, <1>8, <1>9 DEF IInv

(***************************************************************************)
(* bb writes the proof of the witness it read.                             *)
(***************************************************************************)
LEMMA BbWritesInvariant ==
  ASSUME IInv, NEW c \in Calls, BbWrites(c)
  PROVE  IInv'
<1> DEFINE new == IF call[c].circuit = "shield"
                  THEN [call[c] EXCEPT !.pc = "post", !.proof = call[c].input,
                                       !.input = NoCall]
                  ELSE [call[c] EXCEPT !.pc = "done", !.proof = call[c].input,
                                       !.input = NoCall, !.answer = "proved"]
<1>1. call[c] \in CallRecord /\ call[c].pc = "prove"
  BY DEF IInv, TypeInv, BbWrites
<1>2. /\ call' = [call EXCEPT ![c] = new]
      /\ call'[c] = new /\ \A d \in Calls \ {c} : call'[d] = call[d]
  BY DEF BbWrites, IInv, TypeInv
<1>3. /\ new \in CallRecord /\ new.pc \in {"post", "done"}
      /\ new.proof = call[c].input /\ new.answer \in {call[c].answer, "proved"}
  BY <1>1 DEF CallRecord
<1>4. /\ UNCHANGED <<toml, witness, tmp, data, ms, recorded, shared, collided, restarted>>
      /\ outDirs' = outDirs \ {c}
  BY DEF BbWrites, history
<1> HIDE DEF new
<1>5. TypeInv'
  BY <1>2, <1>3, <1>4 DEF IInv, TypeInv
<1>6. CircuitInv'
  <2>1. \A k \in Circuits : UsersOf(k)' \subseteq UsersOf(k)
    BY <1>1, <1>2, <1>3 DEF UsersOf
  <2>2. \A k \in Circuits : \A d, e \in UsersOf(k)' : d # e => d \in shared'
    BY <2>1, <1>4 DEF IInv, CircuitInv
  <2>3. c \notin shared => new.proof = c
    BY <1>1, <1>3 DEF IInv, CircuitInv
  <2> QED BY <1>2, <1>3, <1>4, <2>2, <2>3 DEF IInv, CircuitInv
<1>7. HintInv'
  BY <1>2, <1>3, <1>4, HintsUndisturbed
<1>8. NothingLeftBehind'
  BY <1>1, <1>2, <1>3, <1>4, NothingLeftUndisturbed DEF IInv, NothingLeftBehind
<1> QED BY <1>5, <1>6, <1>7, <1>8 DEF IInv

(***************************************************************************)
(* What an answer leaves of a call.                                        *)
(***************************************************************************)
LEMMA Answered ==
  ASSUME IInv, NEW c \in Calls, NEW answer \in {"proved", "hinted", "error", "lost"},
         Answer(c, answer)
  PROVE  /\ call' \in [Calls -> CallRecord]
         /\ call'[c].pc = "done" /\ call'[c].proof = call[c].proof
         /\ call'[c].answer = answer
         /\ \A d \in Calls \ {c} : call'[d] = call[d]
<1> DEFINE new == [Idle EXCEPT !.pc = "done", !.circuit = call[c].circuit,
                               !.proof = call[c].proof, !.answer = answer]
<1>1. call[c].circuit \in Circuits /\ call[c].proof \in Calls \cup {NoCall}
  BY DEF IInv, TypeInv, CallRecord
<1>2. /\ new \in CallRecord /\ new.pc = "done" /\ new.proof = call[c].proof
      /\ new.answer = answer
  BY <1>1, IdleTyped DEF CallRecord
<1> HIDE DEF new
<1>3. call' = [call EXCEPT ![c] = new]
  BY DEF Answer, new
<1> QED BY <1>2, <1>3 DEF IInv, TypeInv

(***************************************************************************)
(* The directory goes with the call when a tool fails.                     *)
(***************************************************************************)
LEMMA ToolFailsInvariant ==
  ASSUME IInv, NEW c \in Calls, ToolFails(c)
  PROVE  IInv'
<1>1. call[c].pc \in {"nargo", "execute", "bb", "prove"}
  BY DEF ToolFails
<1>2. /\ call' \in [Calls -> CallRecord]
      /\ call'[c].pc = "done" /\ call'[c].proof = call[c].proof
      /\ call'[c].answer = "error"
      /\ \A d \in Calls \ {c} : call'[d] = call[d]
  BY Answered DEF ToolFails
<1>3. /\ UNCHANGED <<toml, witness, tmp, data, ms, recorded, shared, collided, restarted>>
      /\ outDirs' = outDirs \ {c}
  BY DEF ToolFails, history
<1>4. TypeInv'
  BY <1>2, <1>3 DEF IInv, TypeInv
<1>5. CircuitInv'
  BY <1>2, <1>3, ProofsUndisturbed
<1>6. HintInv'
  BY <1>2, <1>3, HintsUndisturbed
<1>7. NothingLeftBehind'
  <2>1. \A d \in Calls : call[d].pc \in {"open", "upload"} => call'[d] = call[d]
    BY <1>1, <1>2
  <2>2. ~restarted => \A d \in outDirs' : call'[d].pc \in {"bb", "prove"}
    BY <1>2, <1>3 DEF IInv, TypeInv, NothingLeftBehind
  <2> QED BY <1>3, <2>1, <2>2, NothingLeftUndisturbed
<1> QED BY <1>4, <1>5, <1>6, <1>7 DEF IInv

(***************************************************************************)
(* What a failed attempt leaves of a call.                                 *)
(***************************************************************************)
LEMMA Retried ==
  ASSUME IInv, NEW c \in Calls, AttemptFailed(c)
  PROVE  /\ call' \in [Calls -> CallRecord]
         /\ call'[c].pc \in {"post", "done"} /\ call'[c].proof = call[c].proof
         /\ call'[c].answer \in {call[c].answer, "proved"}
         /\ \A d \in Calls \ {c} : call'[d] = call[d]
<1>1. CASE call[c].attempt < MaxAttempts
  <2> DEFINE new == [call[c] EXCEPT !.pc = "post", !.attempt = call[c].attempt + 1,
                                    !.file = NoFile, !.root = NoCall]
  <2>1. call[c] \in CallRecord /\ call[c].attempt + 1 \in 1..MaxAttempts
    BY <1>1, ProverAssumption DEF IInv, TypeInv, CallRecord
  <2>2. /\ new \in CallRecord /\ new.pc = "post" /\ new.proof = call[c].proof
        /\ new.answer = call[c].answer
    BY <2>1 DEF CallRecord
  <2>3. call' = [call EXCEPT ![c] = new]
    BY <1>1 DEF AttemptFailed
  <2> HIDE DEF new
  <2> QED BY <2>2, <2>3 DEF IInv, TypeInv
<1>2. CASE ~(call[c].attempt < MaxAttempts)
  BY <1>2, Answered DEF AttemptFailed
<1> QED BY <1>1, <1>2

(***************************************************************************)
(* A file is removed under one name; the other names still lead to their   *)
(* files, and what another call has open stays.                            *)
(***************************************************************************)
LEMMA Removed ==
  ASSUME IInv, NEW c \in Calls, RemoveFile(c)
  PROVE  /\ DOMAIN tmp' = DOMAIN tmp \ {call[c].name}
         /\ \A n \in DOMAIN tmp' : tmp'[n] = tmp[n] /\ tmp'[n] \in DOMAIN data'
         /\ \A f \in DOMAIN data' : f \in DOMAIN data /\ data'[f] = data[f]
         /\ \A d \in Calls \ {c} :
              call[d].file \in DOMAIN data => call[d].file \in DOMAIN data'
<1> DEFINE kept == [n \in DOMAIN tmp \ {call[c].name} |-> tmp[n]]
           held == DOMAIN data \cap (Range(kept) \cup {call[d].file : d \in Calls \ {c}})
<1>1. tmp' = kept /\ data' = Restrict(data, held)
  BY DEF RemoveFile
<1>2. DOMAIN data' = held /\ \A f \in held : data'[f] = data[f]
  BY <1>1 DEF Restrict
<1>3. \A n \in DOMAIN kept : kept[n] = tmp[n] /\ kept[n] \in Range(kept)
  BY DEF Range
<1>4. \A n \in DOMAIN tmp : tmp[n] \in DOMAIN data
  BY DEF IInv, TypeInv
<1> QED BY <1>1, <1>2, <1>3, <1>4

(***************************************************************************)
(* A call that is through with its file, in one way or the other.          *)
(***************************************************************************)
LEMMA ClosedInvariant ==
  ASSUME IInv, NEW c \in Calls, call[c].pc \in {"open", "upload"}, RemoveFile(c),
         UNCHANGED <<toml, witness, outDirs, ms, recorded, history, restarted>>,
         call' \in [Calls -> CallRecord],
         \A d \in Calls \ {c} : call'[d] = call[d],
         call'[c].pc \in {"post", "done", "record"},
         call'[c].pc = "record" => /\ call[c].pc = "upload"
                                   /\ call'[c].root = data[call[c].file],
         call'[c].proof = call[c].proof,
         call'[c].answer \in {call[c].answer, "proved"}
  PROVE  IInv'
<1>1. UNCHANGED <<toml, witness, outDirs, ms, recorded, shared, collided, restarted>>
  BY DEF history
<1>2. /\ DOMAIN tmp' = DOMAIN tmp \ {call[c].name}
      /\ \A n \in DOMAIN tmp' : tmp'[n] = tmp[n] /\ tmp'[n] \in DOMAIN data'
      /\ \A f \in DOMAIN data' : f \in DOMAIN data /\ data'[f] = data[f]
      /\ \A d \in Calls \ {c} :
           call[d].file \in DOMAIN data => call[d].file \in DOMAIN data'
  BY Removed
<1>3. call'[c].pc = "record" => /\ call'[c].root \in Calls
                                /\ c \notin collided => call'[c].root = c
  BY DEF IInv, TypeInv, HintInv
<1>4. TypeInv'
  <2>1. \A n \in DOMAIN tmp' : n \in Nat /\ tmp'[n] \in DOMAIN data' /\ tmp'[n][1] = n
    BY <1>2 DEF IInv, TypeInv
  <2>2. \A f \in DOMAIN data' : f \in Nat \X Calls /\ data'[f] \in Calls
    BY <1>2 DEF IInv, TypeInv
  <2>3. \A d \in Calls :
          /\ call'[d].pc = "upload" => /\ call'[d].file \in DOMAIN data'
                                       /\ call'[d].file[1] = call'[d].name
          /\ call'[d].pc = "record" => call'[d].root \in Calls
    <3> SUFFICES ASSUME NEW d \in Calls
                 PROVE  /\ call'[d].pc = "upload" => /\ call'[d].file \in DOMAIN data'
                                                     /\ call'[d].file[1] = call'[d].name
                        /\ call'[d].pc = "record" => call'[d].root \in Calls
      OBVIOUS
    <3>1. CASE d = c BY <3>1, <1>3
    <3>2. CASE d # c
      <4>1. call'[d] = call[d] BY <3>2
      <4> QED BY <3>2, <4>1, <1>2 DEF IInv, TypeInv
    <3> QED BY <3>1, <3>2
  <2> QED BY <1>1, <2>1, <2>2, <2>3 DEF IInv, TypeInv
<1>5. CircuitInv'
  <2>1. \A d \in Calls :
          \/ call'[d] = call[d]
          \/ /\ call'[d].pc \notin {"nargo", "execute", "bb", "prove"}
             /\ call'[d].proof = call[d].proof
    OBVIOUS
  <2> QED BY <1>1, <2>1, ProofsUndisturbed
<1>6. HintInv'
  <2>1. \A d, e \in Calls :
          /\ d # e
          /\ call'[d].pc \in {"open", "upload"} /\ call'[e].pc \in {"open", "upload"}
          /\ call'[d].name = call'[e].name
          => d \in collided'
    BY <1>1 DEF IInv, HintInv
  <2>2. \A d \in Calls \ (collided \cup {c}) :
          call[d].pc = "open" => /\ call[d].name \in DOMAIN tmp'
                                 /\ data'[tmp'[call[d].name]] = d
    <3> SUFFICES ASSUME NEW d \in Calls \ (collided \cup {c}), call[d].pc = "open"
                 PROVE  /\ call[d].name \in DOMAIN tmp'
                        /\ data'[tmp'[call[d].name]] = d
      OBVIOUS
    <3>1. call[d].name # call[c].name
      BY DEF IInv, HintInv
    <3>2. call[d].name \in DOMAIN tmp /\ data[tmp[call[d].name]] = d
      BY DEF IInv, HintInv
    <3> QED BY <1>2, <3>1, <3>2
  <2>3. \A d \in Calls \ (collided \cup {c}) :
          call[d].pc = "upload" => data'[call[d].file] = d
    BY <1>2 DEF IInv, TypeInv, HintInv
  <2>4. \A d \in Calls \ collided' :
          /\ call'[d].pc = "open" => /\ call'[d].name \in DOMAIN tmp'
                                     /\ data'[tmp'[call'[d].name]] = d
          /\ call'[d].pc = "upload" => data'[call'[d].file] = d
          /\ call'[d].pc = "record" => call'[d].root = d
    <3> SUFFICES ASSUME NEW d \in Calls \ collided
                 PROVE  /\ call'[d].pc = "open" => /\ call'[d].name \in DOMAIN tmp'
                                                   /\ data'[tmp'[call'[d].name]] = d
                        /\ call'[d].pc = "upload" => data'[call'[d].file] = d
                        /\ call'[d].pc = "record" => call'[d].root = d
      BY <1>1
    <3>1. CASE d = c BY <3>1, <1>3
    <3>2. CASE d # c
      <4>1. call'[d] = call[d] BY <3>2
      <4> QED BY <3>2, <4>1, <2>2, <2>3 DEF IInv, HintInv
    <3> QED BY <3>1, <3>2
  <2>5. HintIsOwn'
    <3>1. \A d \in Calls : call'[d].answer = "hinted" => call[d].answer = "hinted"
      OBVIOUS
    <3>2. \A d \in Calls \ collided :
            /\ Range(recorded[d]) \subseteq {d}
            /\ call[d].answer = "hinted" => recorded[d] # << >>
      BY DEF IInv, HintInv, HintIsOwn
    <3> QED BY <1>1, <3>1, <3>2 DEF HintIsOwn
  <2> QED BY <2>1, <2>4, <2>5 DEF HintInv
<1>7. NothingLeftBehind'
  <2> SUFFICES ASSUME ~restarted
               PROVE  /\ \A d \in outDirs : call'[d].pc \in {"bb", "prove"}
                      /\ \A n \in DOMAIN tmp' : \E d \in Calls :
                           call'[d].name = n /\ call'[d].pc \in {"open", "upload"}
    BY <1>1 DEF NothingLeftBehind
  <2>1. \A d \in outDirs : call'[d].pc \in {"bb", "prove"}
    BY DEF IInv, TypeInv, NothingLeftBehind
  <2>2. ASSUME NEW n \in DOMAIN tmp'
        PROVE  \E d \in Calls : call'[d].name = n /\ call'[d].pc \in {"open", "upload"}
    <3>1. PICK d \in Calls : call[d].name = n /\ call[d].pc \in {"open", "upload"}
      BY <1>2 DEF IInv, NothingLeftBehind
    <3>2. d # c BY <1>2, <3>1
    <3> QED BY <3>1, <3>2
  <2> QED BY <2>1, <2>2
<1> QED BY <1>4, <1>5, <1>6, <1>7 DEF IInv

(***************************************************************************)
(* A hint is written under a name that nobody uses, or the users of the    *)
(* name know each other.                                                   *)
(***************************************************************************)
LEMMA WriteHintInvariant ==
  ASSUME IInv, NEW c \in Calls, WriteHint(c)
  PROVE  IInv'
<1>1. PICK name \in Names(c) :
        LET file == IF name \in DOMAIN tmp THEN tmp[name] ELSE <<name, c>> IN
        /\ ms' = name
        /\ tmp' = [n \in DOMAIN tmp \cup {name} |-> IF n = name THEN file ELSE tmp[n]]
        /\ data' = [f \in DOMAIN data \cup {file} |-> IF f = file THEN c ELSE data[f]]
        /\ call' = [call EXCEPT ![c].pc = "open", ![c].name = name]
        /\ collided' = IF Uploading(name) = {} THEN collided
                       ELSE collided \cup Uploading(name) \cup {c}
  BY DEF WriteHint
<1> DEFINE file == IF name \in DOMAIN tmp THEN tmp[name] ELSE <<name, c>>
           new == [call[c] EXCEPT !.pc = "open", !.name = name]
<1>2. name \in Nat
  BY DEF Names, IInv, TypeInv
<1>3. file \in Nat \X Calls /\ file[1] = name
  BY <1>2 DEF IInv, TypeInv
<1> HIDE DEF file
<1>4. /\ DOMAIN tmp' = DOMAIN tmp \cup {name} /\ tmp'[name] = file
      /\ \A n \in DOMAIN tmp \ {name} : tmp'[n] = tmp[n]
      /\ DOMAIN data' = DOMAIN data \cup {file} /\ data'[file] = c
      /\ \A f \in DOMAIN data \ {file} : data'[f] = data[f]
  BY <1>1 DEF file
<1>5. call[c] \in CallRecord /\ call[c].pc = "post"
  BY DEF IInv, TypeInv, WriteHint
<1>6. /\ new \in CallRecord /\ new.pc = "open" /\ new.name = name
      /\ new.proof = call[c].proof /\ new.answer = call[c].answer
  BY <1>2, <1>5 DEF CallRecord
<1>7. /\ call' = [call EXCEPT ![c] = new]
      /\ call'[c] = new /\ \A d \in Calls \ {c} : call'[d] = call[d]
  BY <1>1 DEF IInv, TypeInv
<1> HIDE DEF new
<1>8. /\ UNCHANGED <<toml, witness, outDirs, recorded, shared, restarted>>
      /\ ms' = name /\ collided \subseteq collided' /\ collided' \subseteq Calls
      /\ \A d \in Calls : call[d].name = name /\ call[d].pc \in {"open", "upload"}
                          => d \in collided' /\ c \in collided'
  BY <1>1 DEF WriteHint, Uploading, IInv, TypeInv
<1>9. TypeInv'
  <2>1. \A n \in DOMAIN tmp' : n \in Nat /\ tmp'[n] \in DOMAIN data' /\ tmp'[n][1] = n
    BY <1>2, <1>3, <1>4 DEF IInv, TypeInv
  <2>2. \A f \in DOMAIN data' : f \in Nat \X Calls /\ data'[f] \in Calls
    BY <1>3, <1>4 DEF IInv, TypeInv
  <2>3. \A d \in Calls : d # c =>
          /\ call[d].pc = "upload" => /\ call[d].file \in DOMAIN data'
                                      /\ call[d].file[1] = call[d].name
          /\ call[d].pc = "record" => call[d].root \in Calls
    BY <1>4 DEF IInv, TypeInv
  <2>4. \A d \in Calls :
          /\ call'[d].pc = "upload" => /\ call'[d].file \in DOMAIN data'
                                       /\ call'[d].file[1] = call'[d].name
          /\ call'[d].pc = "record" => call'[d].root \in Calls
    BY <1>6, <1>7, <2>3
  <2> QED BY <1>2, <1>6, <1>7, <1>8, <2>1, <2>2, <2>4 DEF IInv, TypeInv
<1>10. CircuitInv'
  BY <1>6, <1>7, <1>8, ProofsUndisturbed
<1>11. HintInv'
  <2>1. \A d, e \in Calls :
          /\ d # e
          /\ call'[d].pc \in {"open", "upload"} /\ call'[e].pc \in {"open", "upload"}
          /\ call'[d].name = call'[e].name
          => d \in collided'
    BY <1>6, <1>7, <1>8 DEF IInv, HintInv
  <2>2. ASSUME NEW d \in Calls \ collided', d # c
        PROVE  /\ call[d].pc = "open" => /\ call[d].name \in DOMAIN tmp'
                                         /\ data'[tmp'[call[d].name]] = d
               /\ call[d].pc = "upload" => data'[call[d].file] = d
               /\ call[d].pc = "record" => call[d].root = d
    <3>1. /\ call[d].pc = "open" => /\ call[d].name \in DOMAIN tmp
                                    /\ data[tmp[call[d].name]] = d
          /\ call[d].pc = "upload" => data[call[d].file] = d
          /\ call[d].pc = "record" => call[d].root = d
      BY <1>8, <2>2 DEF IInv, HintInv
    <3>2. call[d].pc \in {"open", "upload"} => call[d].name # name
      BY <1>8, <2>2
    <3>3. call[d].pc = "open" => /\ tmp[call[d].name] \in DOMAIN data
                                 /\ tmp[call[d].name] # file
      BY <1>3, <3>1, <3>2 DEF IInv, TypeInv
    <3>4. call[d].pc = "upload" => call[d].file \in DOMAIN data /\ call[d].file # file
      BY <1>3, <3>2 DEF IInv, TypeInv
    <3> QED BY <1>4, <3>1, <3>2, <3>3, <3>4
  <2>3. \A d \in Calls \ collided' :
          /\ call'[d].pc = "open" => /\ call'[d].name \in DOMAIN tmp'
                                     /\ data'[tmp'[call'[d].name]] = d
          /\ call'[d].pc = "upload" => data'[call'[d].file] = d
          /\ call'[d].pc = "record" => call'[d].root = d
    <3> TAKE d \in Calls \ collided'
    <3>1. CASE d = c BY <3>1, <1>4, <1>6, <1>7
    <3>2. CASE d # c
      <4>1. call'[d] = call[d] BY <3>2, <1>7
      <4> QED BY <3>2, <4>1, <2>2
    <3> QED BY <3>1, <3>2
  <2>4. HintIsOwn'
    <3>1. \A d \in Calls : call'[d].answer = call[d].answer
      BY <1>6, <1>7
    <3>2. \A d \in Calls \ collided :
            /\ Range(recorded[d]) \subseteq {d}
            /\ call[d].answer = "hinted" => recorded[d] # << >>
      BY DEF IInv, HintInv, HintIsOwn
    <3> QED BY <1>8, <3>1, <3>2 DEF HintIsOwn
  <2> QED BY <2>1, <2>3, <2>4 DEF HintInv
<1>12. NothingLeftBehind'
  <2> SUFFICES ASSUME ~restarted
               PROVE  /\ \A d \in outDirs : call'[d].pc \in {"bb", "prove"}
                      /\ \A n \in DOMAIN tmp' : \E d \in Calls :
                           call'[d].name = n /\ call'[d].pc \in {"open", "upload"}
    BY <1>8 DEF NothingLeftBehind
  <2>1. \A d \in outDirs : d # c /\ call[d].pc \in {"bb", "prove"} /\ d \in Calls
    BY <1>5 DEF IInv, TypeInv, NothingLeftBehind
  <2>2. ASSUME NEW n \in DOMAIN tmp'
        PROVE  \E d \in Calls : call'[d].name = n /\ call'[d].pc \in {"open", "upload"}
    <3>1. CASE n = name BY <3>1, <1>6, <1>7
    <3>2. CASE n # name
      <4>1. PICK d \in Calls : call[d].name = n /\ call[d].pc \in {"open", "upload"}
        BY <3>2, <1>4 DEF IInv, NothingLeftBehind
      <4>2. d # c BY <4>1, <1>5
      <4> QED BY <4>1, <4>2, <1>7
    <3> QED BY <3>1, <3>2
  <2> QED BY <1>7, <2>1, <2>2
<1> QED BY <1>9, <1>10, <1>11, <1>12 DEF IInv

(***************************************************************************)
(* A call opens the file its name leads to.                                *)
(***************************************************************************)
LEMMA OpenFileInvariant ==
  ASSUME IInv, NEW c \in Calls, OpenFile(c)
  PROVE  IInv'
<1>1. CASE call[c].name \notin DOMAIN tmp
  <2>1. AttemptFailed(c) /\ RemoveFile(c) /\ call[c].pc = "open"
    BY <1>1 DEF OpenFile
  <2>2. UNCHANGED <<toml, witness, outDirs, ms, recorded, history, restarted>>
    BY DEF OpenFile
  <2> QED BY <2>1, <2>2, Retried, ClosedInvariant
<1>2. CASE call[c].name \in DOMAIN tmp
  <2> DEFINE file == tmp[call[c].name]
             new == [call[c] EXCEPT !.pc = "upload", !.file = file]
  <2>1. /\ call[c] \in CallRecord /\ call[c].pc = "open"
        /\ file \in DOMAIN data /\ file[1] = call[c].name
    BY <1>2 DEF IInv, TypeInv, OpenFile
  <2>2. file \in Nat \X Calls
    BY <2>1 DEF IInv, TypeInv
  <2>3. c \notin collided => data[file] = c
    BY <2>1 DEF IInv, HintInv
  <2>4. /\ call' = [call EXCEPT ![c] = new]
        /\ call'[c] = new /\ \A d \in Calls \ {c} : call'[d] = call[d]
    BY <1>2 DEF OpenFile, IInv, TypeInv
  <2> HIDE DEF file
  <2>5. /\ new \in CallRecord /\ new.pc = "upload" /\ new.file = file
        /\ new.name = call[c].name
        /\ new.proof = call[c].proof /\ new.answer = call[c].answer
    BY <2>1, <2>2 DEF CallRecord
  <2>6. UNCHANGED <<toml, witness, outDirs, tmp, data, ms, recorded, shared, collided,
                    restarted>>
    BY <1>2 DEF OpenFile, history
  <2> HIDE DEF new
  <2>7. TypeInv'
    BY <2>1, <2>4, <2>5, <2>6 DEF IInv, TypeInv
  <2>8. CircuitInv'
    BY <2>4, <2>5, <2>6, ProofsUndisturbed
  <2>9. HintInv'
    <3>1. \A d, e \in Calls :
            /\ d # e
            /\ call'[d].pc \in {"open", "upload"} /\ call'[e].pc \in {"open", "upload"}
            /\ call'[d].name = call'[e].name
            => d \in collided'
      BY <2>1, <2>4, <2>5, <2>6 DEF IInv, HintInv
    <3>2. \A d \in Calls \ collided' :
            /\ call'[d].pc = "open" => /\ call'[d].name \in DOMAIN tmp'
                                       /\ data'[tmp'[call'[d].name]] = d
            /\ call'[d].pc = "upload" => data'[call'[d].file] = d
            /\ call'[d].pc = "record" => call'[d].root = d
      BY <2>3, <2>4, <2>5, <2>6 DEF IInv, HintInv
    <3>3. HintIsOwn'
      <4>1. \A d \in Calls : call'[d].answer = call[d].answer
        BY <2>4, <2>5
      <4>2. \A d \in Calls \ collided :
              /\ Range(recorded[d]) \subseteq {d}
              /\ call[d].answer = "hinted" => recorded[d] # << >>
        BY DEF IInv, HintInv, HintIsOwn
      <4> QED BY <2>6, <4>1, <4>2 DEF HintIsOwn
    <3> QED BY <3>1, <3>2, <3>3 DEF HintInv
  <2>10. NothingLeftBehind'
    <3>1. ~restarted => \A d \in outDirs : d # c /\ d \in Calls /\ call[d].pc \in {"bb", "prove"}
      BY <2>1 DEF IInv, TypeInv, NothingLeftBehind
    <3>2. \A d \in Calls : call[d].pc \in {"open", "upload"} =>
            call'[d].name = call[d].name /\ call'[d].pc \in {"open", "upload"}
      BY <2>4, <2>5
    <3> QED BY <2>4, <2>6, <3>1, <3>2 DEF IInv, NothingLeftBehind
  <2> QED BY <2>7, <2>8, <2>9, <2>10 DEF IInv
<1> QED BY <1>1, <1>2

(***************************************************************************)
(* An upload yields the root of what the open file holds; a failed one     *)
(* another attempt.  Either removes the file.                              *)
(***************************************************************************)
LEMMA UploadInvariant ==
  ASSUME IInv, NEW c \in Calls, Upload(c) \/ UploadFails(c)
  PROVE  IInv'
<1>1. CASE Upload(c)
  <2> DEFINE root == data[call[c].file]
             new == [call[c] EXCEPT !.pc = "record", !.file = NoFile, !.root = root]
  <2>1. call[c] \in CallRecord /\ call[c].pc = "upload" /\ root \in Calls
    BY <1>1 DEF IInv, TypeInv, Upload
  <2>2. call' = [call EXCEPT ![c] = new]
    BY <1>1 DEF Upload
  <2> HIDE DEF root
  <2>3. /\ new \in CallRecord /\ new.pc = "record" /\ new.root = root
        /\ new.proof = call[c].proof /\ new.answer = call[c].answer
    BY <2>1 DEF CallRecord
  <2> HIDE DEF new
  <2>4. /\ call' \in [Calls -> CallRecord]
        /\ call'[c] = new /\ \A d \in Calls \ {c} : call'[d] = call[d]
    BY <2>2, <2>3 DEF IInv, TypeInv
  <2>5. /\ RemoveFile(c)
        /\ UNCHANGED <<toml, witness, outDirs, ms, recorded, history, restarted>>
    BY <1>1 DEF Upload
  <2> QED BY <2>1, <2>3, <2>4, <2>5, ClosedInvariant DEF root
<1>2. CASE UploadFails(c)
  <2>1. AttemptFailed(c) /\ RemoveFile(c) /\ call[c].pc = "upload"
    BY <1>2 DEF UploadFails
  <2>2. UNCHANGED <<toml, witness, outDirs, ms, recorded, history, restarted>>
    BY <1>2 DEF UploadFails
  <2> QED BY <2>1, <2>2, Retried, ClosedInvariant
<1> QED BY <1>1, <1>2

(***************************************************************************)
(* What is recorded for a receiver is the root its call uploaded.          *)
(***************************************************************************)
LEMMA RecordInvariant ==
  ASSUME IInv, NEW c \in Calls, RecordHint(c) \/ RecordFails(c)
  PROVE  IInv'
<1>1. call[c].pc = "record" /\ call[c].root \in Calls
  BY DEF IInv, TypeInv, RecordHint, RecordFails
<1>2. UNCHANGED <<toml, witness, outDirs, tmp, data, ms, shared, collided, restarted>>
  BY DEF RecordHint, RecordFails, files, history
<1>3. /\ call' \in [Calls -> CallRecord]
      /\ call'[c].pc \in {"post", "done"} /\ call'[c].proof = call[c].proof
      /\ call'[c].answer = "hinted" => \/ call[c].answer = "hinted"
                                       \/ recorded'[c] # << >>
      /\ \A d \in Calls \ {c} : call'[d] = call[d]
  <2>1. CASE RecordHint(c)
    <3>1. recorded'[c] = Append(recorded[c], call[c].root) /\ recorded[c] \in Seq(Calls)
      BY <2>1 DEF RecordHint, Recorded, IInv, TypeInv
    <3>2. recorded'[c] # << >>
      BY <1>1, <3>1
    <3> QED BY <2>1, <3>2, Answered DEF RecordHint
  <2>2. CASE RecordFails(c)
    <3>1. AttemptFailed(c) BY <2>2 DEF RecordFails
    <3> QED BY <3>1, Retried
  <2> QED BY <2>1, <2>2
<1>4. /\ recorded' \in [Calls -> Seq(Calls)]
      /\ \A d \in Calls : /\ recorded[d] # << >> => recorded'[d] # << >>
                          /\ Range(recorded'[d]) \subseteq
                               Range(recorded[d]) \cup IF d = c THEN {call[c].root} ELSE {}
  <2>1. CASE UNCHANGED recorded BY <2>1 DEF IInv, TypeInv
  <2>2. CASE Recorded(c)
    <3> DEFINE t == Append(recorded[c], call[c].root)
    <3>1. recorded \in [Calls -> Seq(Calls)] /\ recorded' = [recorded EXCEPT ![c] = t]
      BY <2>2 DEF IInv, TypeInv, Recorded
    <3>2. t \in Seq(Calls) /\ t # << >> /\ Range(t) \subseteq Range(recorded[c]) \cup {call[c].root}
      BY <1>1, <3>1 DEF Range
    <3> HIDE DEF t
    <3> QED BY <3>1, <3>2
  <2> QED BY <2>1, <2>2 DEF RecordHint, RecordFails
<1>5. TypeInv'
  BY <1>2, <1>3, <1>4 DEF IInv, TypeInv
<1>6. CircuitInv'
  BY <1>2, <1>3, ProofsUndisturbed
<1>7. HintInv'
  <2>1. HintIsOwn'
    <3> SUFFICES ASSUME NEW d \in Calls \ collided
                 PROVE  /\ Range(recorded'[d]) \subseteq {d}
                        /\ call'[d].answer = "hinted" => recorded'[d] # << >>
      BY <1>2 DEF HintIsOwn
    <3>1. /\ Range(recorded[d]) \subseteq {d}
          /\ call[d].answer = "hinted" => recorded[d] # << >>
      BY DEF IInv, HintInv, HintIsOwn
    <3>2. d = c => call[c].root = d
      BY <1>1 DEF IInv, HintInv
    <3> QED BY <1>3, <1>4, <3>1, <3>2
  <2> QED BY <1>2, <1>3, <2>1 DEF IInv, HintInv
<1>8. NothingLeftBehind'
  <2>1. \A d \in Calls : call[d].pc \in {"open", "upload"} => call'[d] = call[d]
    BY <1>1, <1>3
  <2>2. ~restarted => \A d \in outDirs' : call'[d].pc \in {"bb", "prove"}
    BY <1>1, <1>2, <1>3 DEF IInv, TypeInv, NothingLeftBehind
  <2> QED BY <1>2, <2>1, <2>2, NothingLeftUndisturbed
<1> QED BY <1>5, <1>6, <1>7, <1>8 DEF IInv

(***************************************************************************)
(* A restart answers every call that is in progress.                       *)
(***************************************************************************)
LEMMA RestartInvariant ==
  ASSUME IInv, Restart
  PROVE  IInv'
<1> DEFINE lost(c) == [Idle EXCEPT !.pc = "done", !.circuit = call[c].circuit,
                                   !.answer = "lost"]
<1>1. ASSUME NEW c \in Calls
      PROVE  /\ lost(c) \in CallRecord /\ lost(c).pc = "done"
             /\ lost(c).proof = NoCall /\ lost(c).answer = "lost"
  <2>1. call[c].circuit \in Circuits BY DEF IInv, TypeInv, CallRecord
  <2> QED BY <2>1, IdleTyped DEF CallRecord
<1>2. /\ call' = [c \in Calls |-> IF c \in InProgress THEN lost(c) ELSE call[c]]
      /\ UNCHANGED <<toml, witness, outDirs, tmp, data, ms, recorded, shared, collided>>
      /\ restarted'
  BY DEF Restart, files, history
<1> HIDE DEF lost
<1>3. \A c \in Calls :
        /\ call'[c] \in CallRecord
        /\ call'[c].pc \in {"idle", "done"}
        /\ call'[c].proof \in {NoCall, call[c].proof}
        /\ call'[c].answer = "hinted" => call[c].answer = "hinted"
  <2> SUFFICES ASSUME NEW c \in Calls
               PROVE  /\ call'[c] \in CallRecord
                      /\ call'[c].pc \in {"idle", "done"}
                      /\ call'[c].proof \in {NoCall, call[c].proof}
                      /\ call'[c].answer = "hinted" => call[c].answer = "hinted"
    OBVIOUS
  <2>1. CASE c \in InProgress BY <2>1, <1>1, <1>2
  <2>2. CASE c \notin InProgress
    BY <2>2, <1>2 DEF IInv, TypeInv, InProgress
  <2> QED BY <2>1, <2>2
<1>4. TypeInv'
  BY <1>2, <1>3 DEF IInv, TypeInv
<1>5. CircuitInv'
  BY <1>2, <1>3 DEF IInv, CircuitInv, UsersOf
<1>6. HintInv'
  <2>1. HintIsOwn'
    <3>1. \A d \in Calls \ collided :
            /\ Range(recorded[d]) \subseteq {d}
            /\ call[d].answer = "hinted" => recorded[d] # << >>
      BY DEF IInv, HintInv, HintIsOwn
    <3> QED BY <1>2, <1>3, <3>1 DEF HintIsOwn
  <2> QED BY <1>3, <2>1 DEF HintInv
<1>7. NothingLeftBehind'
  BY <1>2 DEF NothingLeftBehind
<1> QED BY <1>4, <1>5, <1>6, <1>7 DEF IInv

(***************************************************************************)
(* The inductive invariant, in every interleaving of any number of calls.  *)
(***************************************************************************)
THEOREM ProverInvariant == ProverSpec => []IInv
<1>1. IInv /\ [ProverNext]_proverVars => IInv'
  <2> SUFFICES ASSUME IInv, [ProverNext]_proverVars PROVE IInv'
    OBVIOUS
  <2>1. ASSUME NEW c \in Calls, Proceed(c) PROVE IInv'
    BY <2>1, NargoReadsInvariant, NargoWritesInvariant, BbReadsInvariant,
       BbWritesInvariant, ToolFailsInvariant, WriteHintInvariant, OpenFileInvariant,
       UploadInvariant, RecordInvariant DEF Proceed
  <2>2. ASSUME NEW c \in Calls, NEW k \in Circuits, Start(c, k) PROVE IInv'
    BY <2>2, StartInvariant
  <2>3. CASE Restart BY <2>3, RestartInvariant
  <2>4. CASE UNCHANGED proverVars
    <3>1. UNCHANGED <<toml, witness, outDirs, tmp, data, ms, call, recorded, shared,
                      collided, restarted>>
      BY <2>4 DEF proverVars, files, history
    <3>2. TypeInv' BY <3>1 DEF IInv, TypeInv
    <3>3. CircuitInv' BY <3>1, ProofsUndisturbed
    <3>4. HintInv' BY <3>1, HintsUndisturbed
    <3>5. NothingLeftBehind' BY <3>1 DEF IInv, NothingLeftBehind
    <3> QED BY <3>2, <3>3, <3>4, <3>5 DEF IInv
  <2> QED BY <2>1, <2>2, <2>3, <2>4 DEF ProverNext
<1> QED BY InitInvariant, <1>1, PTL DEF ProverSpec

(***************************************************************************)
(* Files and calls keep their types, and a name of a temporary file leads  *)
(* to a file that exists.                                                  *)
(***************************************************************************)
THEOREM ProverTypeCorrect == ProverSpec => []ProverTypeOK
BY ProverInvariant, InvariantImplies, PTL

(***************************************************************************)
(* Without overlap on its circuit a call gets the proof of its statement,  *)
(* whatever failed, or was lost in a restart, before it.                   *)
(***************************************************************************)
THEOREM ProofsAreOwn == ProverSpec => []ProofIsOwn
BY ProverInvariant, InvariantImplies, PTL

(***************************************************************************)
(* Without a common millisecond the receiver of a call finds that call's   *)
(* hint, and a hint reported as saved is on the chain.                     *)
(***************************************************************************)
THEOREM HintsAreOwn == ProverSpec => []HintIsOwn
BY ProverInvariant, InvariantImplies, PTL

(***************************************************************************)
(* Directories and temporary files go with the calls that made them.       *)
(***************************************************************************)
THEOREM FilesAreRemoved == ProverSpec => []NothingLeftBehind
BY ProverInvariant, InvariantImplies, PTL
=============================================================================
