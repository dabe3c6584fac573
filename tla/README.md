# Stealth-Pay in TLA+

Stealth-Pay keeps ERC-20 tokens in a shielded pool. A *note* (owner, token,
amount, salt) is represented on chain by its commitment, a leaf of an
incremental Merkle tree; it is spent by revealing its nullifier with a
zero-knowledge proof that the commitment is in the tree. This directory holds
TLA+ specifications of the parts of the system that carry that protocol, TLC
configurations that check them on small instances, and proofs checked by TLAPS.

## Inventory of the system

| Part (code) | State | Operations | Interacts with | What is hard |
|---|---|---|---|---|
| `PrivacyPool.sol` | tree, `_knownCommitments`, `_spentNullifiers`, whitelist, fee, pause flag, ERC-20 balance | `shield`, `spend`, `recordHint`, administration, `emergencyWithdraw` | clients call it and follow its events; it calls the tokens and the verifiers | two slots per call, long sequences of calls of several owners, stale roots, fees, a full tree |
| circuits `shield`, `spend` | none | constraints | verified by the pool | conservation of value, disabled slots |
| `IncrementalMerkleTree.sol`, `merkle.nr` | `nextIndex`, `root`, `filledSubtrees` | `insert`; `compute_root` in the circuit | used by the pool and the circuits | the index's bits at powers of two |
| SDK `MerkleTree` (in `NoteManager.ts`) | leaves, node cache | `insert`, `getRoot`, `getSiblings` | used by `NoteManager` | invalidation of the cache |
| SDK `NoteManager`, `StealthPaySDK`, `ChainClient` | local tree, owned notes, known nullifiers | `sync`, event handlers, `shield`, `unshield`, `privateSend` | the pool's log, subscriptions and receipts, the hint store | everything is asynchronous: queries, two subscriptions, receipts, proofs and concurrent calls interleave; a restart forgets the memory |
| SDK `HintStore` | blobs in 0G storage, `NoteHint` events, temporary files | `postHint`, `scanHints` | the pool's `recordHint` | best effort; addressed by a derived key |
| SDK `ProofGenerator` | `Prover.toml`, `target/*.gz`, output directories on disk | `generateShieldProof`, `generateSpendProof` | `nargo`, `bb` processes | the files are shared by concurrent proofs and outlive a failed one |
| `backend/server.js` | MongoDB hints and payments, `memCache` | prove, execute, pay and withdraw routes | SDK, pool, MongoDB | hints saved before or after the transaction, fire-and-forget writes, restarts |
| V1 `engine` | notes, owner lists and nullifiers in 0G KV or local storage | `/shield`, `/unshield`, `/private-transfer`, `/balance` | V1 pool contract, TEE signer | check-then-act over awaits, read-modify-write, failure between two steps |
| verifiers, Poseidon2, scripts, frontend, TDX quotes | – | – | – | generated, cryptographic, or without protocol state |

What makes each part correct:

* **pool**: a note is issued by one call and consumed by one call, every unit
  the pool holds or owes is accounted for, whoever calls, the log determines
  the tree, an owner can always leave;
* **trees**: the incremental root is the root of all the leaves, in order; only
  leaves have paths; the client's cache never yields a path or root of no state;
* **client**: its tree is the contract's, its notes carry the right index, path
  and spent flag, what it sends is provable, no note is lost with the process;
* **hints**: the owner of a note finds it, and finds it again after a restart;
* **proof files**: a proof is of the statement of the call that gets it, a hint
  is the one of its receiver, and every call is answered;
* **backend**: an answer carries a proof of its own parameters, a note whose
  salt was saved is found after any restart, a payment listed was made;
* **engine**: what is signed away was locked first, the lists name stored notes,
  and the book never claims more than was deposited.

The hazards behind these properties are listed, at their lines, in
`PROJECT.json`, with the property that covers each, or the reason why none does.

## Modules

| Module | Models |
|---|---|
| `NoteLedger` | abstract specification: notes issued and consumed, each by one call, and what calls pay in and out; no tree, proof, fee or administrator |
| `PrivacyPool` | the contract with the circuits it verifies: one action per external function |
| `PoolProperties` | the pool's invariants, and the refinement mapping to `NoteLedger` |
| `PrivacyPool_proofs` | theorems about the pool |
| `MerkleHash` | the hash as a term, the zero subtrees, the circuit's `compute_root` |
| `IncrementalMerkleTree` | the library's `insert` with `filledSubtrees` |
| `ClientTree` | the SDK's cached tree, beside a contract that runs ahead |
| `MerkleTree_proofs` | theorems about both trees and the circuit's path check |
| `NoteManager` | the memory of an SDK session as a record, and what events, notes and selections do to it |
| `PoolClient` | one SDK session composed with `PrivacyPool` and the other users |
| `ClientProperties` | what a session must guarantee, and what its comments say |
| `PoolClient_proofs` | theorems about a session beside the chain |
| `Backend` | the backend's hint store, payment log and routes, composed with `PrivacyPool` and `NoteManager` |
| `BackendProperties` | what the backend must guarantee |
| `Backend_proofs` | theorems about the backend |
| `ProverFiles` | the files behind a proof and a hint, the two tools, retries and restarts, and what they must guarantee |
| `ProverFiles_proofs` | theorems about those files |
| `Engine` | the V1 engine: three routes, `NoteManager`, both storage adapters |
| `EngineProperties` | what the engine must guarantee, and what its comments say |
| `Engine_proofs` | theorems about the engine |
| `Recursion`, `Folding` | theorems about recursive functions and folds, which the other proofs instantiate |
| `MCPrivacyPool`, `MCPoolClient`, `MCBackend`, `MCEngine` | the bounds and symmetry of the TLC runs |

`PrivacyPool` is the centre: `PoolClient` and `Backend` extend `NoteManager`,
which extends it, and take its `Shield` and `Spend` as the only way to the
chain. `IncrementalMerkleTree` and `ClientTree` justify the abstractions of a root
and of a path used there. `ProverFiles` and `Engine` share no state with the
pool and stand alone: the first is below `Backend` (which takes a proof to be of
its own call), the second is another product with a pool of its own.

### PrivacyPool

A contract call is one action: a reverted call changes nothing, so it is a
disabled action. `ShieldAccepted` and `SpendAccepted` are the `require`s and
`revert`s in the order-independent form of a conjunction; `Shield` and `Spend`
assign everything the functions assign: tree, mappings, balances, events.

Hashes are terms. A commitment *is* the record it binds, a nullifier the record
(key, commitment), a Merkle root the record of the leaves it commits to. That a
root commits to its leaves in order is not assumed for nothing:
`IncrementalMerkleTree` checks it of the algorithm over an injective hash. A
proof exists exactly when the circuit's assertions hold (`ShieldCircuit`,
`SpendCircuit`), which is what a sound and complete proof system gives.

Anyone may call, with any parameters the checks and the circuits admit. In
`AnyShield` the token and the amount that are paid are independent of the note
committed to: the verifier of a shield is given the commitment only. In `AnySpend`
the two input slots are any leaves or empty, equal ones included, and so are the two
outputs, of any owner; the public amount may go to any address, the pool's own included;
and the root may be the current one or the one before it, so that the
stale-root check has something to refuse. What only the callers see to is in the
modules of the callers: `NoteManager!SelectNotes` picks distinct notes (`Pairs`), and
`PoolClient` and `Backend` deposit what their notes are worth.

Assumed: a token moves exactly the amount asked for (the contract itself measures
what it has received), and nobody transfers tokens to the pool other than by
calling it, so `Pool` is not among the accounts that shield.

`totals` is a history variable: running totals of what the calls paid, committed to
and released, and of what they counted twice (`Repeated`). The properties about
value are stated with it.

### Trees

`MerkleHash!HashNode` is the pair it hashes, so equal roots mean equal trees.
`IncrementalMerkleTree` inserts leaves in every order and compares `root` with
the root of the whole tree. In `ClientTree` the node cache is a function from
(level, index) to nodes, `insert` evicts exactly the keys the code deletes,
including the key `root` that nothing sets; the contract may run ahead of the
client.

### PoolClient

The code between two awaits is one action. `session` says how far `sync()` has
come: the Shielded query, the Spent query with the replay, the subscription and
the hint scan are four actions with the chain moving in between. `heard` is the
log position of each of the two subscriptions: each delivers in log order, but
not in order with the other, as with two ethers.js listeners that are polled or
served separately. `ops[s]` is a call in flight:

    StartSpend (selection, root, witness)  ->  proving
    Proven (leaf index of the change)      ->  submitted
    Mined | Failed (the contract decides)  ->  mined | idle
    Resumed (mark, track, post the hint)   ->  idle

`Restart` empties the memory and leaves the transactions already sent behind
as "orphaned": they may still be mined. `OthersShield` and `OthersSpend` are the
other users, among them another session of the same key (`Me` can be the owner
of what others spend).

A Merkle path is the sequence of leaves it was computed over, and it verifies
against a root exactly when putting the note at its index gives that root's
leaves; an empty path stands for zero-filled siblings. A root, once read, stays
in `view.root` forever, which is what `ClientTree` finds of the cache.

Assumed: an allowance always suffices, every call has witness files of its own,
a session is synced once (as the comment on `syncFromChain` asks) and before
it is used, and salts are fresh.

### Backend

`requests[r]` is a request at an await; each route is a path through the same
steps:

    shield:                  StartShield -> proving -> Answer
    execute:                 StartShield -> proving -> Submit -> Mined -> Answer
    pay, withdraw,           Synced -> synced -> Prove -> proving -> Answer
    send, unshield:
    transfer, exit:          Synced -> synced -> Prove -> Submit -> Mined -> Answer
    payroll:                 Synced -> synced -> Prove -> Submit -> Mined -> Recorded -> Answer

`send` and `unshield` are the two operations of the spend branch of `/prove`,
`transfer` and `exit` those of `/execute`; `exit` is `/v1/withdraw` too, `payroll`
is `/v1/pay`, and `/v1/org/shield` is the execute path with the organisation's
key. The routes of `ServerSends` are those whose transaction the server signs:
from `Submit` on the request's session is no longer asked, so it is dropped from
the record. `Recorded` writes the `Payment` document and is enabled only with a
database; without one the request fails, its transaction made. `Prove` runs from the answer of the database
to the call of `nargo`: it injects the notes found, selects, reads the root and
fixes the call. Each session is a `NoteManager` view that goes on hearing the
log (`Hear`) while the database and the prover are awaited. `Answer` saves the
hints of the route and emits "done"; `WalletSends` is the browser wallet, which
may send what it was told at any later time, or never.

`SaveHints` is `saveHintToDB` up to its first await: the commitment enters
`memCache`, and a save is under way only if the database is connected. `Saved`
and `SaveFailed` end it later. `dropped` records the hints that will never be
saved, for any of these reasons or because the process ended; `Restart` empties
the memory and orphans the transactions already sent, which may still be mined. Salts are random, so
`memCache` never meets a commitment twice and its guard does not fire.

Assumed: 0G Storage is unavailable (what the database is the fallback for;
`PoolClient` and `ProverFiles` have the copy there), `MONGO_URI` is set (without
it payments are neither recorded nor listed),
and the log does not move during the replay of a session, whose races
`PoolClient` has; events are then heard in log order.

### ProverFiles

A call of `/prove` for a shield or a spend. `Prover.toml` and the witness
`target/{circuit}.gz` have one path per circuit; what a file holds is the call whose
inputs it was made from, so that a proof of the wrong inputs is a number that is
not the call's own. Each tool reads and writes at moments of its own:

    Start -> nargo: NargoReads -> execute: NargoWrites -> bb: BbReads -> prove: BbWrites
          -> post: WriteHint -> open: OpenFile -> upload: Upload -> record: RecordHint -> done

A spend is done after `BbWrites`; `ToolFails` answers with an error. `WriteHint`,
`OpenFile` and `Upload` are `uploadToStorage`, whose file is named after the
millisecond: a second upload in the same millisecond overwrites the file the first
may have open, and the `finally` of either removes the name (`RemoveFile`; a file
stays for who has it open). `AttemptFailed` is `withRetry` around `postHint`;
`RecordFails` may leave the transaction mined, in which case the next attempt
records another. `Restart` ends the calls with their tools and leaves the files.

Assumed: a relay signer is configured, so `postHint` records the hint itself.

### Engine

One Node.js process; `req[r]` holds the local variables of a handler at an await
and `pc` names the await:

    /shield            wait (poll for the event) -> put -> list [-> append] -> done
    /unshield          load -> chain (nullifiers of the pool) -> check -> mark -> done
    /private-transfer  owned -> scan* -> chain* -> (check -> mark)* -> (put -> list)* -> params -> done

`check`/`mark` are the two halves of `spendNote`, `list`/`append` those of the
0G adapter's `addOwnerCommitment`; the local adapter reads and appends in one
step, hands out its list itself (`ToVisit` sees what is appended meanwhile) and
loses everything in a restart. A failed read reads as what the code makes of it: an
empty list, a note that is skipped, a nullifier that is *not* spent (`SeenSpent`); a
failed upload may have been stored all the same (`UploadFails`). `Submit` and
`MineShield` are the chain. `past` and `overlap` are history.

Assumed: salts are random (a commitment is the number of its draw), a stored
blob does not change and decrypts, one whitelisted token, honest callers: who sends
`/shield` made the deposit, and `/unshield` names a commitment the engine gave out.

## Runs

| Run | Checks | Result |
|---|---|---|
| `pool` | `TypeOK`, `InsertedByOneCall`, `LogRebuildsTree`, `EscrowAccounted`, `WholeNoteCanExit`, `ImplementsLedger`: any caller, two owners, two tokens, two amounts (5 and 10, whose sum is the bound of a u64), three leaves; fees 0, 10 % and an invalid one, pause, listing, emergency withdrawals | holds |
| `pool_conservation` | `SpendConserves` | violated |
| `contract_tree` | `RootIsReference`, `RootBindsLeaves`, `OnlyMembersVerify` at depth 3 | holds |
| `client_tree` | `SiblingsVerify`, `RootWasOnChain` | holds |
| `client_tree_root` | `RootMirrorsContract` | violated |
| `pool_client` | `ClientTypeOK`, `TrackedWhereInserted`, `SpentFlagIsRight`, `SubmittedProvable`, `NotesPaidFor`: two calls in flight, restarts, another session | holds |
| `client_tree_kept` | `TreeKeptUpToDate` | violated |
| `client_hints` | `HintsReachOwner` | violated |
| `backend` | `BackendTypeOK`, `AnswerIsProved`, `BalanceIsLive`, `FoundByNextSession`, `PaymentsWereMade`: the database comes and goes, restarts, two requests in flight | holds |
| `prover_files` | `ProverTypeOK`, `ProofIsOwn`, `HintIsOwn`, `NothingLeftBehind` and, under fairness, `EveryCallAnswered` | holds |
| `engine` | `EngineTypeOK`, `SignedIsLocked`, `ListsNameNotes`, `LaterRequestRefused`, `BookBacked`, `NothingLost`: both adapters, failures, restarts | holds |
| `engine_double_sign` | `NeverSignedTwice` | violated |

What the passing runs show is that the contract keeps its books in every
interleaving of calls, whoever makes them: every leaf is inserted by one call, every
note is consumed by one call, and the difference between what the notes are worth and
what was paid for them is known to the unit (`EscrowAccounted`). That the
difference is zero is the callers' doing, and the SDK's calls do it (`NotesPaidFor`).
They show too that the client, although its tree may go
wrong, never harms its note set: since the contract insists on its current
root, a client with a wrong tree is stopped, not robbed. The backend's passing
run shows that its only weak spot is the one save: a note is found by its
owner's next session in every interleaving in which its hint reached the
database, the hints it saves for payments that never happen do no harm, and an
answer carries the root its proof is about. The last holds because of the cached root that
`RootMirrorsContract` reports: a tree that recomputed its root would make the
withdrawal route answer with a root newer than its proof, which is exactly the mutant
`BrokenToldRoot`. A payment may be made and not listed, since the route
records it last; it is never listed and not made.

The runs of the proof files and of the engine say how far the missing locks
reach. What failed calls and restarts leave in `Prover.toml`, in `target` and among
the temporary files harms no later call: only calls that overlap on one circuit, or
that name their upload in the same millisecond, can get each other's proof or
hint. And in the engine only requests that overlap, or a read of the spent index
that fails, can have one note signed away twice; the book is then short by
that note, or by a deposit that two requests booked, and by nothing else.

What the violations show:

* `SpendConserves`. `spend` checks the nullifiers of both slots, then marks both,
  and the circuit does not compare them: a spend that names a note of 5 in both
  of its input slots issues one of 10. The output slots are alike: a commitment
  in both of them is inserted twice, but has one nullifier, so a spend of
  10 into one note of 5 named twice leaves a note of 5. Against "no money created or
  destroyed" of the circuit (`spend/main.nr:126`) and the "Conservation" of the
  contract (`PrivacyPool.sol:164`).
* `RootMirrorsContract`. `insert` evicts levels 0 to depth - 1 of the cache and
  a key `root` that nothing sets, but `getRoot` caches the root under
  `depth:0`. A session that has read the root once and then sees an insertion
  proves against a root that the contract no longer accepts.
* `TreeKeptUpToDate`. Two independent causes: a log between a query and the
  subscription is seen by neither; and a Shielded event that is delivered
  before the Spent event mined before it is skipped, because its index is not
  the next one. From then on every later Shielded leaf is skipped.
* `HintsReachOwner`. `privateSend` derives the hint's encryption key from the
  receiver's *public* key with the function meant for private keys, so no
  receiver scans for it.
* `NeverSignedTwice`. `spendNote` awaits the check of the nullifier and then the
  mark. Two overlapping requests for one note both pass the check and are both
  signed, against the "prevents double-sign" of `unshield.ts:103`. The V1 pool
  still accepts only the first of two unshields; a transfer signed beside an
  unshield leaves notes in the book that nothing backs.

Disagreements met while modelling that no run states, because they follow from
a few lines, or because no document promises otherwise:

* A shield proves nothing about its deposit: the circuit's public input is the
  commitment, whose token and amount are private, while `PrivacyPool.sol:122-123`
  and `27-28` have the caller prove `Poseidon2(pubkey, token, amount, salt)`. The
  pool takes a deposit of 5 for a note of 10, or of another token
  (`AnyShield`); `EscrowAccounted` counts what is committed beyond what is
  deposited (`Unpaid`).
* The shield fee is taken out of the deposit while the note keeps the gross
  amount: with a fee of 10 %, a deposit of 10 leaves 9 in the pool and a note
  of 10. The default fee is zero; `EscrowAccounted` says how large the gap is
  (`shieldFees` in `Paid`).
* The change of a private send is kept in the session's memory only, while
  `ARCHITECTURE-V2.md:574` posts a hint for it. The change of `/execute`,
  `/v1/pay` and `/v1/withdraw` is lost the same way, when their session ends with
  the request (`Kept` is empty for them).
* "persisted to MongoDB so they survive backend restarts" (`server.js:42`) holds of
  the hints that get there. With the database away, or failing once, the request is
  answered as done; `memCache` remembers the hint as saved and nothing writes it
  later. `FoundByNextSession` names these hints (`dropped`).
* `/shield` keeps no record of the deposits it has booked (`ShieldsOnce` in `BookBacked`).
* V1 `createNote` draws a salt of its own, so a note is stored under another
  commitment than the one deposited, or signed in a transfer, and answered, although
  the comment at `NoteManager.ts:48` speaks of a salt that the SDK sends. In `Engine`
  `built` are the commitments a transfer answers, `draft` the ones it stores.
* A partial unshield of the V1 engine consumes the whole note and makes no
  change (`WholeUnshields` in `NothingLost`).
* The 0G adapter's owner lists lose additions when updates overlap, or when the read
  before an update fails; the notes stay stored and the balance misses them.
* `waitForShieldEvent` of the engine looks back 100 blocks: a deposit booked later than
  that is refused (`EventMissing` may be taken at any time).
* Delisting a token or pausing locks its notes in for as long as it lasts;
  `WholeNoteCanExit` is about open pools and listed tokens.
* A receipt that arrives before its event leaves the note with zero-filled
  siblings (`PathAt`), and selection stops at the two smallest notes even when a
  larger one would cover the amount (`SelectNotes`).

### Bounds, and why they are enough

The `pool` run uses a tree of three leaves and logs of three events (states
with two are still continued, `PoolBound`): two shields and a
spend fill or overfill the tree, a spend with two outputs meets a tree with two,
one and no free leaves, and a note can be spent by two calls, or twice by one. Two
amounts with the larger twice the smaller give splits, merges, whole exits, and one
note of 10 for a note of 5 counted twice; `MaxU64` is the sum of the two, so that two large
inputs overflow; a fee of 10 % of 5 is rounded, of 10 it is not. The
administrators change one setting at a time (`Changes`). `pool_conservation` needs one note
and one spend. The tree runs have depth 3:
both parities of the index at every level and a full tree. In the client runs
two commitments of the same owner and amount come from two salts or amounts,
the log is cut at three events (`LogBound`), and two slots give every pair of
concurrent calls (`CallsBound`: with two in flight the session neither disconnects
nor leaves them behind; with one it does). The backend run bounds the requests
answered, those in flight and the hints lost together (`MaxWork`), which leaves
room for a shield, a payment and a withdrawal of what was paid, one after the other, or for two of
them concurrently (`BackendBound`: with two in flight the database stays
connected and nothing has been lost). `ProverFiles` has two calls, which is what
the sharing of a path takes, the code's three attempts, and three faults, so that
every attempt of one call can fail, or a tool and two uploads. `Engine` has two
requests and two faults, over a stock of two notes of 2 and 1: an amount
of 1 leaves change, one of 3 takes both notes, and a request of 3 for the deposit of 1
is the mismatch. Two polls stand for thirty. The double signature needs no fault. The other violations need two events at most. `CHECK_DEADLOCK FALSE` is stated where the bounded tree and
amounts let the system come to rest. Salts and slots are symmetric: no
specification names one.

### Fairness

The pool, the client, the backend and the engine are specified without fairness:
nobody is obliged to call them, a wallet may never send what it was told, and a
transaction may never be mined. `ProverFiles` assumes weak fairness of the
steps of each call (`WF_proverVars(Proceed(c))`): `nargo` and `bb` exit, the event
loop resumes every handler, and a network call returns or throws. Nothing is
assumed of which: `Proceed` includes the failing steps, and no call is obliged to
start. Under it `EveryCallAnswered` holds, because the failing steps lead to an
answer or to one of `MaxAttempts` attempts. It is the project's one liveness
property.

## Proofs

`PrivacyPool_proofs` proves, for all values of the constants that satisfy
`PoolAssumption` and `ZeroIsNoHash`:

* `TypeCorrect`: `Spec => []TypeOK`. The balances stay natural numbers because
  a transfer is covered and a fee of at most 1000 basis points never exceeds
  what it is taken from (`FeeBounded`).
* `TreeCorrect`: `Spec => []InsertedByOneCall`. A leaf that the tree did not hold is equal
  to none of its leaves (`NewLeafApart`), and the outputs of a spend can only be
  equal to each other (`NewOutputsApart`), as its event in the log says.
* `PoolImplementsLedger`: `Spec => ImplementsLedger`. `ShieldDeposits` shows that a
  shield is a `Deposit`, `SpendTransfers` that a spend is a `Transfer`: one
  owner, live inputs, new outputs, and the released value is the difference of
  the slots, by the circuit's equation.
* `ExitAlwaysOpen`: `Spec => []WholeNoteCanExit`; an unspent note can always be
  unshielded whole while the pool is open, lists the token and holds the amount.
  It needs one more invariant, `KnownProvable` (the amount of every known
  commitment is in 1..`MaxU64`, because both circuits check the range of what
  they let in): without it the exit's own circuit might reject the note.
  `ExitAccepted` then goes through the checks of `spend` one by one.
* `EscrowCorrect`: `Spec => []EscrowAccounted`, for any number of notes. The value
  of the unspent notes is a sum over a set; `ValueAdd` and `ValueRemove` say what
  one note more or less does to it. What a pair of slots is worth is its sum minus
  what it names twice (`SpendWorth`), and each action changes both sides of
  the equation by the same amount, fees and payments of the pool to itself included.
* `LogCorrect`: `Spec => []LogRebuildsTree`, for a log of any length. An action that
  appends an event applies it to what the log replays to (`FoldAppend`), and the
  `leafIndex` it carries is the length of the tree before.

All six are about any callers and rest on `PoolInvariant`, the inductive invariant

    PoolRight == TypeOK /\ InsertedByOneCall /\ SpentWereKnown

`InsertedByOneCall` alone is not enough for the refinement: that an input of a spend
was issued follows from its membership in the tree (`Range(leaves) =
knownCommitments`), and that a nullifier marks a known commitment is
`SpentWereKnown`. Each action has a lemma; `Spend` is split into what `WithOutputs` does
to a sequence of leaves (`WithOutputsHolds`), what the nullifiers of the inputs are
(`MarkedNullifiers`), the balances (`SpendBalance`) and the totals (`SpendCounts`).

The last part of the module is about the calls of the SDK (`ShieldParams`,
`SpendParams`), which keep more than `PoolRight`:

    PoolInv == IInv /\ KnownProvable /\ LogRight /\ EscrowAccounted /\ CallersPay

where `IInv` has distinct leaves (`TreeHoldsKnownOnce`) and `CallersPay` says that nothing
was committed to unpaid or counted twice. The proofs about a session and about the
backend start from it, for there all calls are of that kind.

### Recursion and folds

The theorems of the library on induction take an operator as a parameter, which no
installed prover can instantiate. `Recursion` states induction with the
predicate as a *set* (`Induction`: a set with 0 and all successors holds `Nat`;
`SetInduction` for finite sets) and the step of a recursive definition as a
constant *operator* of the module, which `INSTANCE Recursion WITH Step <- ...`
fills in. From it `RecursiveFunction` shows that a definition whose step asks only
for values of a smaller rank has a solution, so that `CHOOSE` finds one.
`Folding` does it for `MapThenFoldSet`, which `FoldLeft` and
`SumFunctionOnSet` are made of: the fold of nothing, of one element more, of a
sequence one longer, and, when the operation commutes, of any element first. The
folds of the community modules are thus reasoned about by their own definitions.

### Trees

`MerkleTree_proofs` holds for every `TREE_DEPTH`. `TreeInvariant` has

    TreeInv == TreeTypeOK /\ RootIsReference /\ LeftKept(filledSubtrees, inserted)

`RootIsReference` is not inductive: `LeftKept` says which nodes `insert` will
read, namely, at each level where the next index has a bit, the left node of
the reference tree. `Climb` is followed level by level: its hash is the node of the
longer tree above the new leaf. `RootBindsCorrect` and `OnlyMembersCorrect` descend from the root,
a pair at a time; they need that a leaf is neither the zero leaf nor a pair (`LeafAssumption`,
for a hash without collisions).
`ClientInvariant` has the cache of the SDK's tree:

    ClientInv == TreeInv /\ LeavesPrefix /\ DOMAIN nodeCache \subseteq ... /\ CacheFresh /\ RootOnceFresh

Every cached node below the root is that of the leaves now (`CacheFresh`), because `insert`
evicts the ancestors of the new leaf and no other node changes; the root's entry is
never evicted and is that of an earlier prefix (`RootOnceFresh`). `SiblingsCorrect`
and `ClientRootCorrect` follow: siblings are below the root.

### A session beside the chain

`PoolClient_proofs` proves the five properties of the client for any number of
calls in flight, notes, users and restarts, from

    CInv == PoolInv /\ SessionInv /\ MemoryInv /\ HintsInv /\ OpsInv /\ Settled

* `PoolInv` (in `PrivacyPool_proofs`) has, besides distinct leaves and a paid
  escrow, that the log is right (`LogRight`): the outputs of each event are leaves
  and its nullifiers spent, and no commitment is in two events. `NotesPaidFor`
  follows from it (`PaidForNow`).
* `MemoryInv` is `MemoryRight` of what the session remembers: the local leaves are
  distinct and leaves of the contract, in whatever order; the cached root is that of
  an earlier prefix of them; the nullifiers are spent on the chain; a tracked note's index
  is that of its leaf in the contract's tree or in the local one, and it is
  marked if its nullifier is known, and only if the chain has it.
* `SessionInv` has `Unheard`: what a subscription has not delivered is not in the
  local tree, so an insertion is never a second one.
* `OpsInv` has what each call in flight was given, that its root is that of a prefix
  of the local leaves as they were (`RootWas`), and where its change was expected (`IndexGuessed`).
* `Settled`: only a session that is ready, or was, has calls of its own, so the restart
  that empties the memory contradicts no call.

The crux is `ChangeExpected`: the index of change is the size of the local tree *after*
the proof, the root that of the tree *before*. If the contract accepts the spend, that
root is its current one, so the contract's leaves are a prefix of the local ones. The
local tree never has more leaves than the contract (they are distinct leaves of it,
`NoMoreLeaves`), so it is the contract's, and did not grow during the proof.
`SelectedProvable` shows that what `_selectNotes` picks, with outputs
that add up, satisfies the spend circuit whenever `nargo` accepts the paths.

### Engine

`Engine_proofs` proves the six invariants of the `engine` run, for any number of
requests, notes, deposits and faults, with both storage adapters. It has three layers, each
resting on the one before.

**Names.** `EngineInvariant` (`IInv`) has, for each request, `RequestOK`: what the
handler's variables say of notes, marks and draws at each `pc`. Two facts relate
requests: a commitment drawn and not yet stored is in nobody's notes, answer or history
(`Avoids`), and two requests never store the same commitment (`Apart`); without
them a note could be stored under a commitment that is signed away already. It gives
`SignedAreLocked`, `ListsAreSound` and `LaterRequestsAreRefused`. The last
needs that what was signed away before a request began is marked spent or gone from
storage (`p.known \cap DOMAIN ns \subseteq sp`): then the request finds no note, or is told
that it is spent, or was told otherwise by a failed read.

**Amounts.** `EngineBookInvariant` is

    CInv == IInv /\ TypeInv /\ BookInv

`EngineTypes` follows from it. `TypeInv` adds to the types what the loops still visit
(`LoopOK`): with the local adapter a handler runs over the stored list itself. `BookInv`
says of each request how its amount, its selection and the notes it has
still to create relate (`BookOK`), and that a spent note was marked by some request. The amount of a
request is at most the value of its selection, since `selectNotes` takes notes until
they cover it (`SelectionCovers`), and the notes a transfer creates add up to
what it selected. Sums are `SumFunctionOnSet`, about which `Folding` and
`SetInduction` give `SumFacts`, `SumSmaller`, `SumOrder`, `SumChanged` and `SumOfSome`.

**Value.** `Held(r)` is what a request has taken out of the book at each `pc`: the
notes it has marked, then those it has still to create, then what it signed for the chain to pay. With
it both properties of the book become inductive:

    Backed  ==  ShieldsOnce /\ ConsumedOnce  =>
                  unspent notes + HeldSum  <=  stock + deposits claimed and mined
    SeqInv  ==  no overlap and no fault  =>
                  SeqShape /\ (WholeUnshields  =>  unspent notes + HeldSum  =  stock + deposits earned)

Each action has one lemma, `...Outcome`, which serves both: a step of a
handler goes on along the handler's code (`Follows`), and either finds its deposit on the chain and
adds it (`Gains`) or adds nothing unless a note is consumed twice (`Loses`); a step at which nothing is given up
(`Smooth`) keeps the sum (`Keeps`). `BookIsBacked` follows from the first half: no
failure, restart or interleaving makes the book worth more than its deposits, except the two
races the property names. `NothingIsLost` needs the second half and that requests
served alone are smooth: `SeqShape` says that one request is in progress, that what it selected is
unspent and named once (`SeqOK`, where the end of the list still to be scanned is an
end of the stored one), and that each note is listed under its owner, once,
or about to be (`ListsOK`).

TLC, with the constants of the `engine` run, found `TypeInv`, `BookInv`, `Backed` and
`SeqInv` true in all of its 1 231 208 states before they were proved.

### The other parts

`ProverFiles_proofs` proves `ProverTypeCorrect`, `ProofsAreOwn`, `HintsAreOwn` and
`FilesAreRemoved` for any number of calls, attempts and faults, from

    IInv == TypeInv /\ CircuitInv /\ HintInv /\ NothingLeftBehind

`ProofIsOwn` and `HintIsOwn` speak of the end of a call only. `CircuitInv` follows a
call that is not in `shared` through the tools: two users of one circuit are both in
`shared`, so `Prover.toml` holds the call's inputs until `nargo` has read them, then what
`nargo` has read is the call's, then the witness, then what `bb` has read.
`HintInv` does the same for the temporary file: two calls that use one name are
both in `collided`, so the name of any other leads to a file with its own hint,
so does the file it has open, and so is the root it records. Each action has a lemma.

`Backend_proofs` proves `BackendTypeCorrect` and `PaymentsAreReal` for any keys, notes and
number of requests. `BInv` has `RequestInv` for each request: from `Mined` on a
payroll's transaction is in the log, and once recorded it is among the payments.
That a step of one request does not disturb another rests on `LogKeeps`: the log is only appended
to, whoever appends (`PoolAppends`). `RequestStep` and `QuietStep` say this once for
all actions.

Its other three theorems, `AnswersAreProved`, `BalancesAreLive` and `SaltsAreFound`, are about the
backend and the pool together, and need

    SystemInv == BInv /\ SystemRight /\ SaltsInv

* `SystemRight` carries the pool's invariant, `MemoryRight` of every session,
  and that a session has heard the first `upto` events (`SessionRight`). A call
  that has been proved is one that satisfies the spend circuit, for good
  (`CallGiven`), and while `nargo` runs the session caches the root that was proved
  against (`RequestRight`). So the root a withdrawal reads for its answer is that one
  (`ToldIsProved`), whatever the session has heard since. It needs
  `ZeroIsNoRoot`: a computed root is never taken for one that was not computed.
* `SaltsInv` says where the salt of each note in the tree is: with the one request that drew it, in
  an answer, or at its hint, which is being saved, saved, or known to be lost (`Accounted`). It is inductive
  only with `DrawnOnce` (no two requests, and no request and an answer, have a note
  in common, and an unfinished proof has none in the tree) and with the orphans'
  hints being lost: what a restart gives up can still be mined. `SaltsStep` says
  what a step may do to the salts, once for all actions.
* A saved hint leads to the note: a session that replays the whole log has the
  leaves and nullifiers of the contract (`ReplayComplete`, in `PrivacyPool_proofs`,
  from `LogRebuildsTree` and an induction over the log), and a note found among its
  leaves has a path that verifies (`FoundSpendable`).

Every invariant of a passing run is proved. Only model-checked is

* `EveryCallAnswered`: liveness, as well as `ENABLED`, is out of the prover's reach.

## Not modelled

* The verifiers (generated) and Poseidon2 (cryptography): see the assumptions.
* OpenZeppelin's upgrade, role administration and reentrancy guard: library code;
  the roles are constant sets.
* Deployment scripts: run once by hand; `Init` of `PrivacyPool` is what they leave.
* The frontend: pages, widgets, and proxies that pass a request on to the
  backend. It is most of the repository's implementation (about 15 000 of 21 000
  lines are JSX, UI components and documentation pages) and keeps no protocol
  state, so the share of lines the map covers stays near a tenth however completely
  the protocol is modelled.
* ECIES, the engine's encryption and its TDX quotes: cryptography without state. The
  health, attestation and listing routes only read.
* A second `sync` of one session: the comment on `syncFromChain` asks for one.
* The race of two shields for an allowance (`ChainClient.ts:57`): the loser
  reverts before it has touched any note, which is `Failed`.
* The SDK's `waitForShieldEvent`, which can miss an event mined before it
  subscribes: its caller then reports a timeout for a deposit that was made.
* The temporary files of downloads: each failure is a hint not found, which
  `PoolClient` has.

## What could come next

1. A second `sync`, and the client composed with the allowance.
2. The backend with 0G Storage reachable, its retries taken from `ProverFiles`.
