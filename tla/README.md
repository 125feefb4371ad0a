# A TLA+ model of Zolana

Zolana is a shielded pool on Solana. Value lives in UTXOs, whose hashes are leaves
of append-only trees. A UTXO is spent by publishing its nullifier, which must never
be accepted twice. This project models the on-chain state machine behind that
promise, checks it with TLC on small instances and proves its centre with TLAPS for
every instance. All source paths below are relative to `src/`.

Contents: [the system](#the-system) ·
[modules](#modules-and-the-code-they-model) · [runs](#what-tlc-checks) ·
[proofs](#what-is-proved) · [limits](#only-model-checked-and-not-modelled) ·
[plan](#plan)

## The system

### Parts and how they interact

| Part | State | Operations | Here |
|---|---|---|---|
| Nullifier tree (`program-libs/tree/src/nullifier_tree`) | two batches of queued values with hash chains and cached updates, a ring of roots, the PDA-close watermark | insert, cache a verified update, cascade, evict | `NullifierTreeLayout`, `NullifierTree` |
| Hash chains (`program-libs/hasher`) | the open chain of a batch | fold, zero-suffix fold, incremental fold | `HashFolds`, `HashChain` |
| Merge proofs (`instructions/merge/verify.rs`, `prover/server/circuits/spp_merge`) | a proof, a merge instruction | prove, verify | `MergeProof` |
| UTXO tree (`program-libs/tree/src/smt.rs`) | left subtrees, root, ring of roots by slot | append a batch | `UtxoTree` |
| Tree account (`program-libs/tree`, `programs/shielded-pool`) | both trees, pause state, fees, count of live PDAs, lamports; one PDA per queued nullifier | transact, merge, deposit, batch update, close PDAs, set fees, claim, pause | `TreeAccount` |
| Tree creation (`instructions/create_tree`) | `next_tree_id`, half-created accounts | the repeated create instruction | `CreateTree` |
| Caches (`instructions/cache`, `transact/cache.rs`) | UTXO hashes by slot, tree, authority, expiry | create, write, read, close | `Cache` |
| Settlement, SPL interfaces, deposits | vaults, asset registry | move assets in and out of the pool | planned |
| Protocol and ring configs | authorities, activation, fees | create, update | permission to create trees only |
| User registry (`programs/user-registry`) | keys, merge opt-in | register, update | planned |
| Forester (`protocol-ops/forester`) | reference tree, its cache | drain queues, close PDAs | as fair environment; its own loop is planned |
| Prover server (`prover/server`) | Redis job queues, results | enqueue, dequeue, prove | planned; circuits only by what a proof shows |
| Photon (`services/photon`) | indexed blocks, trees, UTXOs | ingest, serve | planned |
| SDKs, CLIs, TEE, tooling | wallet state, configuration | build transactions | wallet planned, rest left out |

A client spends with `Transact` or a merge: the program checks a proof against a
recent UTXO root and a recent nullifier root, queues each nullifier, opens a PDA for
it and appends the outputs. The forester reads the queue, has the prover produce an
update proof for each ZKP batch, and submits it. Proofs may land in any order; the
tree caches them and applies them in order. Once no accepted root lacks a
nullifier, its PDA may be closed and its rent flows back to the tree, which uses it
for later PDAs. Photon follows the events and serves proofs to clients.

### What makes it hard

- A nullifier is guarded by its PDA first and by the roots afterwards; the moment of
  the hand-over is a counter (`close_before_index`) moved inside a cascade.
- Updates arrive out of order, twice, and from roots the tree does not have.
- Two batches are reused for ever; nothing clears them on reuse.
- One balance pays rent, foresters and the fee authority.
- Creating a tree takes several transactions that anybody may interleave with.
- A cache lives across transactions and may be closed and created again.

`PROJECT.json` lists these as hazards, each at its source line, with the properties
that would catch it.

## Modules and the code they model

### Nullifier tree

`NullifierTreeLayout` has one operator per method of `Batch` and
`NullifierTreeLayout` in the code (`EnsureReadyToFill`, `AddToHashChain`,
`CanCacheUpdate`, `EvictNextUpdate`, `CloseWatermark`, ...), as a function from the
account's data to its new data. A hash chain is the sequence it commits to, a root
the set of (leaf index, nullifier) pairs of the tree it is the root of: hashes are
taken to be collision free.

`NullifierTree` is the state machine: `nt` (the region), `nullifier_pdas` (the queue
index a PDA records, 0 if none), `queued` (all nullifiers ever queued, a history
variable) and `cascading` (inside a batch update). Actions: `InsertNullifier` (one
input of a transact, proved against any accepted root that does not contain it),
`BatchUpdateNullifierTree` (any ZKP batch, any old root a prover can build a witness
for, `ForeignTrees` included), `ApplyCachedUpdate`, `EvictCachedUpdate` and
`StopCascade` (the loop of `apply_cached_tree_updates`, one step per iteration, with
no other instruction in between), and `CloseNullifierPdas`.

`NullifierLedger` is the abstract promise: a sequence of distinct spent nullifiers
and a count of applied ones that grows by whole ZKP batches. `NullifierTree`
implements it with `spent <- queued, applied <- nt.next_index - 1`.

`NullifierTreeLemmas`, `NullifierTreeInsert`, `NullifierTreeUpdate` and
`NullifierTreeProofs` hold the proofs. `MCNullifierTree` gives TLC one foreign tree
and looks only at runs that queue unused nullifiers in numerical order, which is
sound because the specification treats nullifiers alike.

### Hash chains

`HashFolds` translates the left fold `HashChain4`, the right folds, and the padded
chain with its precomputed table of zero suffixes and its two errors (values that do
not fit the width, a width beyond the table). Poseidon is a free constructor: a hash
is the tuple of its inputs. The table's literals are the recursion that a test in
`zero_suffix_hash_chain.rs` compares them with.

`HashChain` is the incremental `AddToHashChain` of a batch with its two pending
values. Actions: `AddValue` and `ApplyZkpBatch`. Its sizes are one plus a multiple of
three, the only ones `init.rs` compiles with. `MCHashChain` names the values.

### Merge proofs

`MergeProof` computes the statement of a merge proof twice. On the circuit's side
(`Prefix`, `OwnerInputs`, `CircuitPublicInputHash`, `Constrain`) the nullifiers are
padded to one of the widths 8, 24 and 52 and all elements are folded at once. On the
program's side (`MergeCircuitWidth`, `PopulatedTreeSlotsHashChain`, `PublicInputHash`,
`Verify`) an instruction carries only the leading nullifiers, their count selects the
key, the unused tree slots come from a table, and the fold continues from the hash of
the first seven elements, with a tail of six (default) or two (ring). Actions:
`Prove` and `MergeTransact`. The proof system is idealised: a proof verifies under the
key of its circuit and for its public input, and no other way. The witness (ownership,
amounts, membership) and the canonical encoding of field elements are left out: no
element of the public input depends on them here. `MCMergeProof` has the real widths,
lists at and around each of them, and statements and instructions that differ in any
one element.

### UTXO tree

`UtxoTree` has the stored subtrees, the walk of each leaf with its early break
(`Walk`), and `PushRoot` with its three cases: first update, same slot, new slot.
`AppendBatch` is the append of an instruction, `Tick` advances the slot. `MerkleRoot`
is the reference definition and `history` records the last root of each slot.

### Tree account

`TreeAccount` composes the nullifier region with the header, the lamports and the
PDAs; every action is a whole instruction: `Transact` (all inputs, the fee, PDA
creation and rent top-ups; merges take the same steps), `AppendOutputs` (a transact
that only writes outputs to this tree), `Deposit`, `BatchUpdateNullifierTree` with its
whole `Cascade` and reimbursement, `CloseNullifierPdas`, `SetTreeFees`,
`ClaimTreeLamports`, `PauseTree`; `SendLamports` is anybody's transfer. Nullifiers up
to `UtxoCapacity` belong to UTXOs of the tree, the rest to dummy and address inputs.
`MCTreeAccount` provides three fee schedules, one of them above the cap.

### Tree creation

`CreateTree` has one action for the instruction, whose effect depends on the account:
take an id and allocate, grow, or finish. `PendingCheck` compares the record the
first step left. `CanAllocate` is the choice between creating the account and, at an
address that already holds lamports, allocating and assigning it. `SetPermissionless`,
`SendLamports` (one lamport to any tree address, at any time) and `ChangeRent` are the
environment. `first` and `steps` record how each creation began and how many steps it
has had. Nothing makes a payer go on: the operator tool sends all steps of a tree in
one transaction, and an abandoned creation stays as it is.

### Caches

`Cache` has `CreateCache` (with its retry path), `CloseCache`, `Transact` (reads and
writes through two possibly equal caches), `MergeTransact` (write only) and `Tick`.
`MCCache` declares caches, authorities and trees symmetric. A cache returns its rent
to the sponsor its address is derived from, so rent is left out.

## What TLC checks

| Run | Instance | Properties | Shows |
|---|---|---|---|
| `nullifier_tree` | 2 batches of 2 ZKP batches of 1, capacity 9, 8 nullifiers; 2965 states | TypeOK, SpentOnce, SafePdaLifetime, OrderedApplication, CascadeNeverFails, NextSlotFree, InsertedBatchIsZeroed, UnclosableBound, LedgerSpec | consistency under every order of spends, proofs and closes, and the refinement |
| `nullifier_tree_wide` | ZKP batches of 2, capacity 14; 6945 states | SpentOnce, SafePdaLifetime, OrderedApplication, CascadeNeverFails | open chains, and 13 usable leaves, which end within a ZKP batch as 2^height - 1 do |
| `nullifier_tree_live` | as the first with 7 nullifiers; 993 states | QueueDrains, PdasReclaimed | the queue drains and rent comes back |
| `hash_chain` | 2 chains of 7 values, 17 values, widths to 15; 81815 states | CompleteChainIsHashChain4, OpenChainIsPrefix, PaddedChainIsRightFold | the incremental, the padded and the plain folds agree |
| `merge_proof` | widths 8, 24, 52, 5 tree slots, both bindings; 6403 states | VerifiesWhatWasProved | a merge verifies exactly the proofs of that merge |
| `utxo_tree` | height 3, ring of 3, slots 0 to 5; 5004 states | RootIsMerkleRoot, AcceptsRecentSlots, LayoutStaysValid | the root, and which roots a client may use |
| `tree_account` | batches of 2, capacity 10, 10 nullifiers of which 2 are UTXOs; 37652 states | Solvent, LiveCountIsExact, NeverStarved, UtxosStaySpendable, NoDoubleSpend, PdaRecordsQueueIndex, ClaimKeepsOwed, FrozenWhilePaused | whole instructions keep accounts and counters right |
| `tree_account_gifts` | batches of 1, 5 nullifiers, gifts of 1 and 3 (a PDA's rent is 2); 182212 states | Solvent, NeverStarved | the same when lamports are sent to the tree and its PDAs |
| `tree_account_cascade` | 2 ZKP batches of 1 per batch, capacity 8, 7 nullifiers; 17528 states | Solvent | several updates applied and paid by one instruction, with working capital for 6 PDAs |
| `create_tree` | 2 payers, 3 ids, size 5 in steps of 2, 2 rents, up to 4 lamports sent; 30020 states | IdsAreConsecutive, FinishedAsStarted, InitializedIsFunded, CreationNeverWedged | interleaved creations are ordered, bound to their payer, funded, and can be continued to the end |
| `cache` | 2 caches, authorities, trees and slots, 2 UTXOs; 3939 states | HoldsUtxosOfItsTree, SpendsEarlierOutputs, KeptUntilClosed | caches hold and release the right hashes |

**Bounds.** A batch is reused from the fifth nullifier on in the first run (the ninth
in the wide one); the runs go to a full tree, so both batches are reused and the
watermark moves at least once behind a reuse. `Capacity` (leaves), `MaxQueued`,
`MaxSlot`, `MaxTreeId`, `MaxUtxos`, `MaxTime`, `MaxLamports` bound what
would grow without end. In `utxo_tree` the ring wraps (6 slots, 3 entries) and the
tree fills. In `tree_account` there is one more dummy nullifier than the
headroom for dummies, so that the reserve is really put under pressure. Its
usable leaves, too, end within a ZKP batch. Its batches have one ZKP batch;
`tree_account_cascade` has two, so that one instruction applies both. In
`tree_account_gifts` a gift covers the rent of a PDA in part or more than that. In
`create_tree` the size is not a multiple of the step, and lamports arrive at every
point of a creation. In `hash_chain` a batch is full after 14 values and reused, so a
chain meets the pending values of an earlier one. `merge_proof` needs no bound on
the widths: they are those of the code. Runs with a
finite supply of nullifiers, slots or UTXOs stop when it is used up and do not check
for deadlock; `create_tree` and `merge_proof` do.

**Fairness.** `NullifierTree!FairSpec` assumes that a running instruction ends (weak
fairness of `CascadeStep`) and that a forester eventually lands the update of the next
ZKP batch from the current root, and a close of all closable PDAs (strong fairness,
because other instructions come in between). What the code gives for this:

- The watch loop of `protocol-ops/forester/src/run.rs` waits out a prover, an indexer
  or a node that is not ready (`retry_reason`), but a rejected transaction ends the run
  (`run.rs:276-300`). The tree never rejects the update of the next ZKP batch from its
  current root for another reason than that somebody else's update of it came first,
  which is progress too, or that the tree is paused, which `NullifierTree` leaves to
  `TreeAccount`; an update that is already cached in its slot is overwritten. So what
  is assumed beyond the code is that a stopped run is started again, and that a pause
  ends.
- The close loop in watch mode keeps its watermark and retries every failed pass
  (`close_nullifier_pdas.rs`, and the forester's README).

Nobody is assumed to stop sending proofs from wrong roots. No other run uses fairness.

## What is proved

`NullifierTreeProofs`, for every batch size, number of ZKP batches, capacity, set of
nullifiers and set of foreign trees, from the assumptions `LayoutAssumption` (positive
sizes) and `ForeignTreesAssumption` (foreign trees are trees):

| Theorem | States |
|---|---|
| `Invariance` | `Spec => []IInv` |
| `TypeCorrectness` | `Spec => []TypeOK` |
| `NoDoubleSpend` | `Spec => []SpentOnce` |
| `WatermarkIsSafe` | `Spec => []SafePdaLifetime` |
| `OrderedUpdates` | `Spec => []OrderedApplication` |
| `CascadeAlwaysSucceeds` | `Spec => []CascadeNeverFails` |
| `NextSlotStaysFree` | `Spec => []NextSlotFree` |
| `ReusedBatchIsZeroed` | `Spec => []InsertedBatchIsZeroed` |
| `UnclosableIsBounded` | `Spec => []UnclosableBound` |
| `ImplementsLedger` | `Spec => LedgerSpec` |

**The argument.** `SpentOnce` is not inductive: whether a closed PDA is safe depends
on what every root of the ring contains, and that on which batch wrote it. `IInv`
adds what is needed:

- `QueueGeometry`: how the two batches tile the queue. Either the current batch is
  also the next to apply, or the other one is full and ahead of it; counters and start
  indices fit together in each case.
- `ChainsCommitToQueue`: each complete, unapplied chain is a slice of the queue, and
  applied ones are zeroed. This makes reuse without clearing safe.
- `CachedUpdatesVerified`: a cached update belongs to the pending batch and extends
  its old root by the chain of its slot.
- `RootHistory`: one batch writes the whole ring, so ZKP batch *j* always writes the
  slot after *j*; every root contains all values below the watermark, and the roots
  the pending batch wrote contain everything queued before that batch.
- `PdaRecords` and `WatermarkLag`: from the watermark on every queued nullifier has
  its PDA, and the watermark trails the pending batch by at most one batch.

When the last ZKP batch of a batch is applied, every slot of the ring was written by
it, so every root contains all values queued before that batch: the watermark may
move to its start. `NullifierTreeInsert` shows that an insert keeps `IInv`,
`NullifierTreeUpdate` the update, eviction and application, `NullifierTreeProofs` the
close; `NullifierTreeLemmas` has the arithmetic of slots and slices and the initial
state.

## Only model-checked, and not modelled

- Liveness (`QueueDrains`, `PdasReclaimed`): temporal proofs under
  fairness are out of the prover's reach.
- What the folds of `HashFolds` and `MerkleRoot` of `UtxoTree` compute for every input
  needs induction over data, also out of reach.
- `MergeProof`, `TreeAccount`, `UtxoTree`'s ring, `CreateTree` and `Cache` are checked on the
  instances above and not yet proved.
- Cryptography: proofs show what their circuits state, hashes do not collide,
  signatures are guards.
- Left out for good: encodings and wire formats, logging, command-line tools,
  attestation, and the transport layer of the RPC service.

Three places where documents and code differ in wording, met while modelling:
`docs/spec.md:3257` says one cache supplies all reads and writes, while
`transact/account.rs` takes a read and a write cache (`Cache` follows the code);
`docs/spec.md:2000` names an error `InvalidCacheRootIndex` that the program does not
have; the nullifier tree's specification gives two sizes for a PDA. None of them
concerns a property checked here.

## Plan

In this order; each step adds its module, runs and mutated definitions.

1. `Settlement`: deposits, transact and withdrawals move assets between users and the
   vaults of SOL and SPL tokens. Value conservation per asset, asset ids given out
   once. Composes with `TreeAccount` through the append and the spend.
2. `Config`: protocol config, ring configs and user registry: hand-over of
   authorities, activation against spends in flight, merge opt-in.
3. `Forester`: the drain loop with its in-flight proofs and reference-tree cache,
   two foresters racing on one tree, the race-tolerant close loop. Composed with
   `NullifierTreeLayout`; should justify `FairSpec` from the loop itself.
4. `ProverQueue`: the Redis queues with their per-tree fairness, two-command pushes
   and pops, deduplication, retries and results.
5. `IndexedTree`: the low-element update of the reference trees against the set.
6. `Photon`: ingestion with gaps, duplicates and restarts; the trees it rebuilds are
   those on chain.
7. `Wallet`: synchronisation and choice of inputs.
8. Proofs: solvency of `TreeAccount` from the conservation law
   `lamports + live * PdaRent >= TreeRent + fee_balance + WorkingCapital` (with its
   consequence `NeverStarved`), the ring of `UtxoTree`, `IdsAreConsecutive` and
   `FinishedAsStarted` of `CreateTree`, the invariants of `Cache`.
