-------------------------- MODULE EngineProperties --------------------------
(***************************************************************************)
(* What the V1 engine promises: no note is signed away without being       *)
(* locked first, and its book of notes never claims more than the deposits *)
(* it booked.                                                              *)
(***************************************************************************)
EXTENDS Engine

EngineTypeOK ==
  /\ adapter \in {"local", "0g"}
  /\ DOMAIN notes \subseteq 1..salts
  /\ \A c \in DOMAIN notes : notes[c] \in [owner : Owners, amount : Nat]
  /\ owners \in [Owners -> Seq(Commitments)]
  /\ spent \subseteq 1..salts
  /\ salts \in Nat
  /\ mined \subseteq Deposits
  /\ nullified \subseteq 1..salts
  /\ req \in [Requests -> Request]
  /\ past \in [Requests -> Past]
  /\ overlap \in BOOLEAN
  /\ faults \in 0..MaxFaults

(***************************************************************************)
(* A note named in a signature given out is marked spent for as long as    *)
(* storage has the note at all: whatever fails or restarts, the mark came  *)
(* first and came through (unshield.ts: mark spent BEFORE signing).        *)
(***************************************************************************)
SignedIsLocked ==
  \A r \in Signed : NotesSignedBy(r) \cap DOMAIN notes \subseteq spent

(***************************************************************************)
(* A list of commitments names stored notes of that owner only: createNote *)
(* stores the note before it lists it, and no failure, restart or lost     *)
(* update of the list leaves a name without a note.                        *)
(***************************************************************************)
ListsNameNotes ==
  \A o \in Owners : \A c \in Range(owners[o]) :
    c \in DOMAIN notes /\ notes[c].owner = o

(***************************************************************************)
(* A request that begins after a note was signed away never signs it away  *)
(* again, unless a failed read of the spent index told it otherwise        *)
(* (isNullifierSpent answers false when its download fails).  Only         *)
(* requests that overlap can both sign.                                    *)
(***************************************************************************)
LaterRequestRefused ==
  \A r \in Signed : NotesSignedBy(r) \cap past[r].known # {} => past[r].blind

-----------------------------------------------------------------------------
SumOver(S, amount(_)) == SumFunctionOnSet([x \in S |-> amount(x)], S)

BookValue(cs) == SumOver(cs \ spent, LAMBDA c : notes[c].amount)

Unshields == {r \in Signed : req[r].kind = "unshield"}
Unshielded == SumOver(Unshields, LAMBDA r : req[r].amount)

ShieldsOnce ==
  \A r, q \in Requests :
    /\ r # q
    /\ req[r].kind = "shield"
    /\ req[q].kind = "shield"
    => req[r].deposit # req[q].deposit

ConsumedOnce ==
  \A r, q \in Requests : r # q => past[r].spends \cap past[q].spends = {}

(***************************************************************************)
(* The unspent notes of the book and what was signed out of it never come  *)
(* to more than the deposits on the chain: unless a deposit was booked by  *)
(* two requests (/shield remembers none) or a note spent by two (spendNote *)
(* checks and marks in two steps).  Those are the only two ways, whatever  *)
(* fails half way.                                                         *)
(***************************************************************************)
BookBacked ==
  ShieldsOnce /\ ConsumedOnce =>
    BookValue(DOMAIN notes) + Unshielded
      <= SumFunction(Stock) + SumOver(mined, LAMBDA d : DepositAmount[d])

(***************************************************************************)
(* Served one at a time, by calls that do not fail, requests lose nothing: *)
(* what /balance adds up for the owners, and what was signed out, is what  *)
(* was booked.  A partial unshield is the exception: it consumes the whole *)
(* note and makes no change.                                               *)
(***************************************************************************)
WholeUnshields ==
  \A r \in Unshields : past[r].spends = {} \/
    req[r].amount = notes[Head(req[r].selected)].amount

Booked ==
  SumFunction(Stock) +
  SumOver({r \in Requests : req[r].answer = "created"}, LAMBDA r : DepositAmount[req[r].deposit])

NothingLost ==
  /\ ~overlap
  /\ InProgress = {}
  /\ faults = 0
  /\ WholeUnshields
  => BookValue(UNION {Range(owners[o]) : o \in Owners}) + Unshielded = Booked

-----------------------------------------------------------------------------
(***************************************************************************)
(* No note is in two signatures: unshield.ts, "prevents double-sign".      *)
(***************************************************************************)
NeverSignedTwice ==
  \A r, q \in Signed : r # q => NotesSignedBy(r) \cap NotesSignedBy(q) = {}
=============================================================================
