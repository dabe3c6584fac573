---------------------------- MODULE PrivacyPool ----------------------------
(***************************************************************************)
(* The V2 contract, contracts/contracts/PrivacyPool.sol, with the two ZK   *)
(* circuits it verifies (circuits/shield, circuits/spend).                 *)
(*                                                                         *)
(* A call is one atomic action; a call that reverts changes nothing and is *)
(* not an action.  A hash is the term that was hashed: a commitment is the *)
(* record (owner, token, amount, salt) it binds, a nullifier is the record *)
(* (key, commitment), a Merkle root is the record of the leaves it commits *)
(* to (IncrementalMerkleTree checks that the tree earns this).  A valid    *)
(* proof exists exactly when the circuit's assertions hold.                *)
(*                                                                         *)
(* Anyone may call, with any parameters that the contract's checks and the *)
(* circuits admit: a deposit need not be of the token and the amount of    *)
(* the note it commits to, and the two slots of a spend may name the same  *)
(* note.  A token moves exactly the amount asked for, and nobody transfers *)
(* tokens to the pool other than by calling it.                            *)
(*                                                                         *)
(* A definition named Broken... is the next one with a plausible bug: no   *)
(* specification uses it, it is there to show that a property notices.     *)
(***************************************************************************)
EXTENDS Integers, Sequences, FiniteSets, Functions

CONSTANTS Keys,        \* spending keys; the owner of a note
          Tokens,      \* ERC-20 tokens
          Amounts,     \* the note amounts callers use
          Salts,       \* note salts
          MaxU64,      \* largest value of a circuit u64, 2^64 - 1 in the code
          Accounts,    \* public addresses other than the pool
          Pool,        \* the address of the pool
          Zero,        \* bytes32(0), Field 0, address(0): the empty slot
          Capacity,    \* leaves the tree holds, 2^TREE_DEPTH in the code
          Listed,      \* the tokens the setup script whitelists
          FeeChoices,  \* the values of protocolFeeBps the admin tries
          Operators,   \* holders of OPERATOR_ROLE,
          Pausers,     \*   of PAUSER_ROLE
          Admins,      \*   and of DEFAULT_ADMIN_ROLE
          Holding      \* what every account owns of each token at the start

MAX_FEE_BPS == 1000

ASSUME PoolAssumption ==
  /\ Amounts \subseteq Nat
  /\ MaxU64 \in Nat
  /\ Capacity \in Nat
  /\ FeeChoices \subseteq Nat
  /\ \E bps \in FeeChoices : bps <= MAX_FEE_BPS
  /\ Holding \in Nat
  /\ Listed \subseteq Tokens
  /\ Pool \notin Accounts
  /\ Zero \notin Accounts

VARIABLES leaves,             \* the commitments in the tree, in insertion order
          knownCommitments,   \* _knownCommitments
          spentNullifiers,    \* _spentNullifiers
          whitelistedTokens,  \* _whitelistedTokens
          protocolFeeBps,
          feeRecipient,
          paused,
          balance,            \* balance[t][a]: the ERC-20 ledgers
          events,             \* the events emitted so far, in log order
          totals              \* history: running totals, per token (NoTotals)

treeVars  == <<leaves, knownCommitments, spentNullifiers>>
adminVars == <<whitelistedTokens, protocolFeeBps, feeRecipient, paused>>
logVars   == <<events, totals>>
poolVars  == <<treeVars, adminVars, balance, logVars>>

-----------------------------------------------------------------------------
(* Hashes as terms *)

Commitment == [owner : Keys, token : Tokens, amount : Amounts, salt : Salts]

Nullifier(c) == [key |-> c.owner, commitment |-> c]

\* No commitment and no nullifier hashes to zero.
ASSUME ZeroIsNoHash == \A c \in Commitment : Zero # c /\ Zero # Nullifier(c)

RootOf(s) == [committed |-> s]

Addresses == Accounts \cup {Pool}

Slot == Commitment \cup {Zero}

SlotAmount(c) == IF c = Zero THEN 0 ELSE c.amount

SlotNullifier(c) == IF c = Zero THEN Zero ELSE Nullifier(c)

NonZero(S) == S \ {Zero}

\* Leaves s with c inserted, and with the outputs of a spend inserted.
WithLeaf(s, c) == IF c = Zero THEN s ELSE Append(s, c)

BrokenWithOutputs(s, outs) == WithLeaf(WithLeaf(s, outs[2]), outs[1])

WithOutputs(s, outs) == WithLeaf(WithLeaf(s, outs[1]), outs[2])

\* The value a pair of slots counts once too often: it names one note in both.
Repeated(s) == IF s[1] = s[2] THEN SlotAmount(s[1]) ELSE 0

-----------------------------------------------------------------------------
(* The circuits *)

ShieldCircuit(c) == c.amount \in 1..MaxU64

\* in: the notes of the two input slots, private; p: the public inputs.
SpendCircuit(in, p) ==
  /\ SlotAmount(in[1]) + SlotAmount(in[2]) <= MaxU64
  /\ SlotAmount(in[1]) + SlotAmount(in[2]) =
       SlotAmount(p.newCommitments[1]) + SlotAmount(p.newCommitments[2])
         + p.publicAmount
  /\ \E key \in Keys : \A i \in 1..2 : in[i] # Zero =>
       /\ in[i].owner = key
       /\ in[i].token = p.token
       /\ in[i].amount # 0
       /\ in[i] \in Range(p.merkleRoot.committed)
  /\ \A i \in 1..2 : p.nullifiers[i] = SlotNullifier(in[i])
  /\ \A i \in 1..2 : p.newCommitments[i] # Zero =>
       /\ p.newCommitments[i].token = p.token
       /\ p.newCommitments[i].amount \in 1..MaxU64
  /\ p.publicAmount = 0 => p.recipient = Zero

-----------------------------------------------------------------------------
(* ERC-20 and fees *)

\* IERC20.safeTransfer; the caller checks the sender's balance (Covered).
Moved(b, t, from, to, amount) ==
  [b EXCEPT ![t][from] = @ - amount, ![t][to] = @ + amount]

Covered(b, t, from, amount) == amount <= b[t][from]

\* What of a payment of the pool stays with the pool.
ToItself(to, amount) == IF to = Pool THEN amount ELSE 0

\* Basis points taken for percents.
BrokenComputeFee(amount) == (amount * protocolFeeBps) \div 100

ComputeFee(amount) == (amount * protocolFeeBps) \div 10000

-----------------------------------------------------------------------------
(* shield *)

ShieldAccepted(from, p) ==
  /\ ~paused
  /\ p.token \in whitelistedTokens
  /\ p.amount # 0
  /\ p.commitment \notin knownCommitments
  /\ Len(leaves) < Capacity
  /\ ShieldCircuit(p.commitment)
  /\ Covered(balance, p.token, from, p.amount)

Shield(from, p) ==
  LET fee == ComputeFee(p.amount) IN
  /\ ShieldAccepted(from, p)
  /\ balance' = Moved(Moved(balance, p.token, from, Pool, p.amount),
                      p.token, Pool, feeRecipient, fee)
  /\ knownCommitments' = knownCommitments \cup {p.commitment}
  /\ leaves' = Append(leaves, p.commitment)
  /\ events' = Append(events,
       [type |-> "Shielded", token |-> p.token, netAmount |-> p.amount - fee,
        fee |-> fee, commitment |-> p.commitment, leafIndex |-> Len(leaves)])
  /\ totals' = [totals EXCEPT
       ![p.token].deposited = @ + p.amount,
       ![p.token].shieldFees = @ + fee,
       ![p.token].kept = @ + ToItself(feeRecipient, fee),
       ![p.commitment.token].committed = @ + p.commitment.amount]
  /\ UNCHANGED <<spentNullifiers, adminVars>>

-----------------------------------------------------------------------------
(* spend *)

\* The second slot's nullifier goes unchecked.
BrokenUnspentInputs(p) == p.nullifiers[1] \notin spentNullifiers

UnspentInputs(p) == \A i \in 1..2 : p.nullifiers[i] \notin spentNullifiers

\* The second slot's commitment goes unchecked.
BrokenNewOutputs(p) == p.newCommitments[1] \notin knownCommitments

NewOutputs(p) == \A i \in 1..2 : p.newCommitments[i] \notin knownCommitments

\* The tree must have room even for a spend that inserts nothing.
BrokenRoomFor(outs) == Len(leaves) < Capacity

\* Room is checked before each insertion; a revert undoes the first one.
RoomFor(outs) == Len(WithOutputs(leaves, outs)) <= Capacity

SpendAccepted(in, p) ==
  /\ ~paused
  /\ p.token \in whitelistedTokens
  /\ p.merkleRoot = RootOf(leaves)
  /\ UnspentInputs(p)
  /\ NewOutputs(p)
  /\ SpendCircuit(in, p)
  /\ RoomFor(p.newCommitments)
  /\ p.publicAmount > 0 =>
       /\ p.recipient # Zero              \* ERC-20s refuse the zero address
       /\ Covered(balance, p.token, Pool, p.publicAmount)

\* The fee is charged on top of the public amount.
BrokenRelease(t, amount, to) ==
  Moved(Moved(balance, t, Pool, feeRecipient, ComputeFee(amount)),
        t, Pool, to, amount)

\* What a spend that unshields does to the ERC-20 balances.
Release(t, amount, to) ==
  LET fee == ComputeFee(amount) IN
  Moved(Moved(balance, t, Pool, feeRecipient, fee), t, Pool, to, amount - fee)

\* What of it comes back to the pool.
ReleasedToItself(amount, to) ==
  LET fee == ComputeFee(amount) IN
  ToItself(feeRecipient, fee) + ToItself(to, amount - fee)

Spend(in, p) ==
  /\ SpendAccepted(in, p)
  /\ spentNullifiers' = spentNullifiers \cup NonZero(Range(p.nullifiers))
  /\ knownCommitments' =
       knownCommitments \cup NonZero(Range(p.newCommitments))
  /\ leaves' = WithOutputs(leaves, p.newCommitments)
  /\ balance' = IF p.publicAmount > 0
                THEN Release(p.token, p.publicAmount, p.recipient)
                ELSE balance
  /\ events' = Append(events,
       [type |-> "Spent", token |-> p.token, nullifiers |-> p.nullifiers,
        newCommitments |-> p.newCommitments,
        publicAmount |-> p.publicAmount])
  /\ totals' = [totals EXCEPT
       ![p.token].released = @ + p.publicAmount,
       ![p.token].kept = @ + ReleasedToItself(p.publicAmount, p.recipient),
       ![p.token].twiceIn = @ + Repeated(in),
       ![p.token].twiceOut = @ + Repeated(p.newCommitments)]
  /\ UNCHANGED adminVars

-----------------------------------------------------------------------------
(* Administration *)

WhitelistToken(t) ==
  /\ whitelistedTokens' = whitelistedTokens \cup {t}
  /\ UNCHANGED <<treeVars, protocolFeeBps, feeRecipient, paused, balance, logVars>>

DelistToken(t) ==
  /\ whitelistedTokens' = whitelistedTokens \ {t}
  /\ UNCHANGED <<treeVars, protocolFeeBps, feeRecipient, paused, balance, logVars>>

SetProtocolFee(bps) ==
  /\ bps <= MAX_FEE_BPS
  /\ protocolFeeBps' = bps
  /\ UNCHANGED <<treeVars, whitelistedTokens, feeRecipient, paused, balance, logVars>>

SetFeeRecipient(a) ==
  /\ a # Zero
  /\ feeRecipient' = a
  /\ UNCHANGED <<treeVars, whitelistedTokens, protocolFeeBps, paused, balance, logVars>>

Pause ==
  /\ ~paused
  /\ paused' = TRUE
  /\ UNCHANGED <<treeVars, whitelistedTokens, protocolFeeBps, feeRecipient, balance, logVars>>

Unpause ==
  /\ paused
  /\ paused' = FALSE
  /\ UNCHANGED <<treeVars, whitelistedTokens, protocolFeeBps, feeRecipient, balance, logVars>>

EmergencyWithdraw(t, to, amount) ==
  /\ to # Zero
  /\ Covered(balance, t, Pool, amount)
  /\ balance' = Moved(balance, t, Pool, to, amount)
  /\ events' = Append(events,
       [type |-> "EmergencyWithdrawal", token |-> t, amount |-> amount])
  /\ totals' = [totals EXCEPT ![t].withdrawn = @ + amount,
                              ![t].kept = @ + ToItself(to, amount)]
  /\ UNCHANGED <<treeVars, adminVars>>

-----------------------------------------------------------------------------
(* The calls anyone may make, and the specification *)

\* A call prepared when the tree held n leaves, executed now or later.
SpendCall(n, t, in, outs, amount, to) ==
  [token |-> t,
   merkleRoot |-> RootOf(SubSeq(leaves, 1, n)),
   nullifiers |-> [i \in 1..2 |-> SlotNullifier(in[i])],
   newCommitments |-> outs,
   publicAmount |-> amount,
   recipient |-> to]

AnySpend ==
  \E n \in {Len(leaves) - 1, Len(leaves)} \cap Nat, t \in Tokens :
  \E in \in [1..2 -> Range(leaves) \cup {Zero}], outs \in [1..2 -> Slot] :
  \E amount \in Amounts \cup {0} : \E to \in IF amount = 0 THEN {Zero} ELSE Addresses :
    Spend(in, SpendCall(n, t, in, outs, amount, to))

AnyShield ==
  \E from \in Accounts, t \in Tokens, amount \in Amounts, c \in Commitment :
    Shield(from, [token |-> t, amount |-> amount, commitment |-> c])

NoTotals ==
  [deposited |-> 0,    \* paid in by shields
   committed |-> 0,    \* the amounts of the notes that shields committed to
   shieldFees |-> 0,
   released |-> 0,     \* paid out by spends, their fees included
   withdrawn |-> 0,
   kept |-> 0,         \* of what the pool paid, the part paid to itself
   twiceIn |-> 0,      \* Repeated, of the inputs of spends
   twiceOut |-> 0]     \* and of their outputs

Init ==
  /\ leaves = << >>
  /\ knownCommitments = {}
  /\ spentNullifiers = {}
  /\ whitelistedTokens = Listed
  /\ protocolFeeBps \in {bps \in FeeChoices : bps <= MAX_FEE_BPS}
  /\ feeRecipient \in Accounts
  /\ paused = FALSE
  /\ balance = [t \in Tokens |-> [a \in Addresses |->
                                    IF a = Pool THEN 0 ELSE Holding]]
  /\ events = << >>
  /\ totals = [t \in Tokens |-> NoTotals]

Next ==
  \/ AnyShield
  \/ AnySpend
  \/ \E by \in Operators, t \in Tokens : WhitelistToken(t) \/ DelistToken(t)
  \/ \E by \in Pausers : Pause \/ Unpause
  \/ \E by \in Admins, bps \in FeeChoices : SetProtocolFee(bps)
  \/ \E by \in Admins, a \in Addresses : SetFeeRecipient(a)
  \/ \E by \in Admins, t \in Tokens, to \in Addresses, amount \in Amounts :
       EmergencyWithdraw(t, to, amount)

Spec == Init /\ [][Next]_poolVars
=============================================================================
