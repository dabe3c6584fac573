----------------------------- MODULE NoteLedger -----------------------------
(***************************************************************************)
(* What the privacy pool promises, with no tree, no proof, no fee and no   *)
(* administrator: a ledger of notes.  A note is issued by one call only    *)
(* and consumed by one call only, of its owner, and what a call pays out   *)
(* is the worth of its input slots minus that of its output slots.         *)
(* PrivacyPool is shown to implement this specification.                   *)
(*                                                                         *)
(* Two promises a ledger of notes could make are absent, for the pool does *)
(* not keep them: that a note is worth what was paid in for it, and that a *)
(* call counts a note named in both of its slots once.                     *)
(***************************************************************************)
EXTENDS Integers, Functions

CONSTANTS Notes,       \* records with an owner, a token and an amount
          Tokens,      \* the tokens notes are denominated in
          Payments,    \* the amounts paid in
          None         \* the empty slot of a transfer

VARIABLES issued,      \* the notes ever issued
          consumed,    \* the notes ever consumed
          deposited,   \* deposited[t]: what was paid in, in token t
          released     \* released[t]: what was paid out publicly, in token t

ledgerVars == <<issued, consumed, deposited, released>>

Live == issued \ consumed

\* A transfer has two input and two output slots; each may be empty.
TwoOf(S) == [1..2 -> S \cup {None}]

Named(s) == Range(s) \ {None}

Worth(s) == (IF s[1] = None THEN 0 ELSE s[1].amount)
              + (IF s[2] = None THEN 0 ELSE s[2].amount)

LedgerInit ==
  /\ issued = {}
  /\ consumed = {}
  /\ deposited = [t \in Tokens |-> 0]
  /\ released = [t \in Tokens |-> 0]

\* A deposit of token t issues one new note.
Deposit(n, t, paid) ==
  /\ n \notin issued
  /\ paid > 0
  /\ issued' = issued \cup {n}
  /\ deposited' = [deposited EXCEPT ![t] = @ + paid]
  /\ UNCHANGED <<consumed, released>>

\* One owner consumes live notes of token t, new notes of t are issued for them,
\* and the rest of their worth is released.
Transfer(t, ins) ==
  /\ consumed' = consumed \cup Named(ins)
  /\ \A m, n \in Named(ins) : m.owner = n.owner
  /\ \E outs \in TwoOf(Notes \ issued) :
       /\ issued' = issued \cup Named(outs)
       /\ \A n \in Named(ins) \cup Named(outs) : n.token = t
       /\ Worth(outs) <= Worth(ins)
       /\ released' = [released EXCEPT ![t] = @ + Worth(ins) - Worth(outs)]
  /\ UNCHANGED deposited

LedgerNext ==
  \/ \E n \in Notes, t \in Tokens, paid \in Payments : Deposit(n, t, paid)
  \/ \E t \in Tokens, ins \in TwoOf(Live) : Transfer(t, ins)

LedgerSpec == LedgerInit /\ [][LedgerNext]_ledgerVars
=============================================================================
