--------------------------- MODULE NullifierTree ---------------------------
(***************************************************************************)
(* The life of the nullifiers of one tree account: transact and merge      *)
(* queue a nullifier and create its PDA, the forester's batch updates move *)
(* queued nullifiers into the indexed tree, and the PDAs of nullifiers     *)
(* that every accepted root contains are closed.                           *)
(*                                                                         *)
(* An instruction is atomic on chain.  The loop of                         *)
(* apply_cached_tree_updates takes one step per turn here: cascading is    *)
(* TRUE from the verification of a proof until the loop breaks, and no     *)
(* other instruction runs in between.                                      *)
(***************************************************************************)
EXTENDS NullifierTreeLayout

CONSTANT
    ForeignTrees    \* trees other than the queue's own that a prover may start from

ASSUME ForeignTreesAssumption == ForeignTrees \subseteq Trees

VARIABLES
    nt,               \* the account's nullifier region
    nullifier_pdas,   \* queue_index stored in the PDA of a nullifier; 0: no PDA
    queued,           \* the nullifiers queued so far, as the events publish them
    cascading         \* a batch update is applying cached updates

vars == <<nt, nullifier_pdas, queued, cascading>>

\* The tree of the first m queued nullifiers.
QueuedTree(m) == {<<i, queued[i]>> : i \in 1 .. m}

\* The trees a batch-append proof may start from: the prover picks the old root.
WitnessTrees == {QueuedTree(m) : m \in 0 .. Len(queued)} \cup ForeignTrees

-----------------------------------------------------------------------------
Init ==
    /\ nt = InitLayout
    /\ nullifier_pdas = [n \in Nullifiers |-> 0]
    /\ queued = << >>
    /\ cascading = FALSE

\* Mutant: the PDA address need not be unused.
InsertNullifierAnyPda(n, i) ==
    /\ ~ cascading
    /\ nt.roots[i] # NoRoot
    /\ ~ Contains(nt.roots[i], n)
    /\ CanInsertNullifier(nt)
    /\ nt' = InsertNullifierIntoQueue(nt, n)
    /\ nullifier_pdas' = [nullifier_pdas EXCEPT ![n] = nt.queue_next_index]
    /\ queued' = Append(queued, n)
    /\ UNCHANGED cascading

\* One input of a transact or a merge: its proof shows the nullifier absent from
\* the root at index i, the nullifier is queued, and its unused PDA address
\* becomes a record of the queue index.
InsertNullifier(n, i) ==
    /\ ~ cascading
    /\ nt.roots[i] # NoRoot
    /\ ~ Contains(nt.roots[i], n)
    /\ CanInsertNullifier(nt)
    /\ nullifier_pdas[n] = 0
    /\ nt' = InsertNullifierIntoQueue(nt, n)
    /\ nullifier_pdas' = [nullifier_pdas EXCEPT ![n] = nt.queue_next_index]
    /\ queued' = Append(queued, n)
    /\ UNCHANGED cascading

\* update_tree_from_queue up to the cached update.  An index that is not ready is
\* an error and one already applied a no-op: neither changes the account.
BatchUpdateNullifierTree(j, old) ==
    /\ ~ cascading
    /\ CanCacheUpdate(nt, j, old)
    /\ nt' = VerifyProofCacheUpdate(nt, j, old)
    /\ cascading' = TRUE
    /\ UNCHANGED <<nullifier_pdas, queued>>

\* Mutant: a verified update is applied whatever root it starts from.
ApplyCachedUpdateAnyRoot ==
    /\ cascading
    /\ HasNextUpdate(nt)
    /\ ~ TreeIsFull(nt, ZkpBatchSize)
    /\ CanMarkAsInserted(PendingBatch(nt))
    /\ nt' = ApplyNextUpdate(nt)
    /\ UNCHANGED <<nullifier_pdas, queued, cascading>>

ApplyCachedUpdate ==
    /\ cascading
    /\ HasNextUpdate(nt)
    /\ NextUpdate(nt).old_root = GetRoot(nt)
    /\ ~ TreeIsFull(nt, ZkpBatchSize)
    /\ CanMarkAsInserted(PendingBatch(nt))
    /\ nt' = ApplyNextUpdate(nt)
    /\ UNCHANGED <<nullifier_pdas, queued, cascading>>

EvictCachedUpdate ==
    /\ cascading
    /\ HasNextUpdate(nt)
    /\ NextUpdate(nt).old_root # GetRoot(nt)
    /\ nt' = EvictNextUpdate(nt)
    /\ cascading' = FALSE
    /\ UNCHANGED <<nullifier_pdas, queued>>

StopCascade ==
    /\ cascading
    /\ ~ HasNextUpdate(nt)
    /\ cascading' = FALSE
    /\ UNCHANGED <<nt, nullifier_pdas, queued>>

\* One CloseNullifierPdas instruction: every PDA it names exists and lies below
\* the watermark.
CloseNullifierPdas(closed) ==
    /\ ~ cascading
    /\ closed # {}
    /\ \A n \in closed :
          nullifier_pdas[n] # 0 /\ nullifier_pdas[n] < nt.close_before_index
    /\ nullifier_pdas' =
          [n \in Nullifiers |-> IF n \in closed THEN 0 ELSE nullifier_pdas[n]]
    /\ UNCHANGED <<nt, queued, cascading>>

Next ==
    \/ \E n \in Nullifiers, i \in ZkpIndices : InsertNullifier(n, i)
    \/ \E j \in ZkpIndices, old \in WitnessTrees : BatchUpdateNullifierTree(j, old)
    \/ ApplyCachedUpdate
    \/ EvictCachedUpdate
    \/ StopCascade
    \/ \E closed \in SUBSET Nullifiers : CloseNullifierPdas(closed)

Spec == Init /\ [][Next]_vars

(***************************************************************************)
(* A watching forester: it rebuilds the tree, checks it against the root   *)
(* on chain, and submits the first batch not applied from that root.  It   *)
(* waits out a prover, an indexer or a node that is not ready; a rejected  *)
(* transaction ends its run, and the run is started again.  The close loop *)
(* retries every failed pass.  The steps of a running instruction are      *)
(* taken; every closable PDA is swept.                                     *)
(***************************************************************************)
ForesterUpdate == BatchUpdateNullifierTree(NextUpdateIndex(nt), GetRoot(nt))

CascadeStep == ApplyCachedUpdate \/ EvictCachedUpdate \/ StopCascade

ForesterClose ==
    CloseNullifierPdas({n \in Nullifiers :
        nullifier_pdas[n] # 0 /\ nullifier_pdas[n] < nt.close_before_index})

FairSpec ==
    /\ Spec
    /\ WF_vars(CascadeStep)
    /\ SF_vars(ForesterUpdate)
    /\ SF_vars(ForesterClose)

-----------------------------------------------------------------------------
(***************************************************************************)
(* Properties.                                                             *)
(***************************************************************************)

CachedUpdates ==
    {NoUpdate} \cup [occupied : {TRUE}, old_root : Trees, new_root : Trees]

BatchType ==
    [state                    : {"Fill", "Full", "Inserted"},
     num_inserted             : 0 .. ZkpBatchSize - 1,
     num_full_zkp_batches     : 0 .. ZkpBatches,
     num_inserted_zkp_batches : 0 .. ZkpBatches,
     start_index              : Nat \ {0},
     hash_chains              : [ZkpIndices -> Seq(Nullifiers)],
     cached_tree_updates      : [ZkpIndices -> CachedUpdates]]

LayoutType ==
    [sequence_number                  : Nat,
     next_index                       : Nat \ {0},
     queue_next_index                 : 1 .. Capacity,
     close_before_index               : Nat,
     currently_processing_batch_index : BatchIndices,
     pending_batch_index              : BatchIndices,
     current_index                    : ZkpIndices,
     roots                            : [ZkpIndices -> Trees \cup {NoRoot}],
     batches                          : [BatchIndices -> BatchType]]

\* The account data stays in the ranges validate checks, whatever instructions ran.
TypeOK ==
    /\ nt \in LayoutType
    /\ nullifier_pdas \in [Nullifiers -> 0 .. Capacity]
    /\ queued \in Seq(Nullifiers)
    /\ cascading \in BOOLEAN

\* No nullifier enters the queue twice, over any number of batch rotations, PDA
\* closes and stale roots: the PDA blocks it until every root a client may pick
\* blocks it (load_unused_nullifier_pda, root_by_index, close_before_index).
SpentOnce ==
    \A i, k \in 1 .. Len(queued) : queued[i] = queued[k] => i = k

\* A queued nullifier keeps its PDA until every accepted root contains it: what
\* advance_nullifier_pda_close_watermark has to guarantee.
SafePdaLifetime ==
    \A i \in 1 .. Len(queued) :
        \/ nullifier_pdas[queued[i]] # 0
        \/ \A root \in AcceptedRoots(nt) : Contains(root, queued[i])

\* Updates are verified out of order and from roots the prover picks, yet the
\* tree on chain is exactly the queue up to next_index, and so was every older
\* root still accepted (apply_cached_tree_updates).
OrderedApplication ==
    /\ GetRoot(nt) = QueuedTree(nt.next_index - 1)
    /\ \A root \in AcceptedRoots(nt) :
          \E m \in 0 .. nt.next_index - 1 : root = QueuedTree(m)

\* When the cascade finds an update that fits the current root, it can apply it:
\* check_tree_is_full and mark_as_inserted_in_merkle_tree, whose errors would undo
\* the whole instruction and leave the update in its slot for good, never fail.  The
\* other errors of the loop are indices out of range (TypeOK).
CascadeNeverFails ==
    cascading /\ HasNextUpdate(nt) /\ NextUpdate(nt).old_root = GetRoot(nt) =>
        ~ TreeIsFull(nt, ZkpBatchSize) /\ CanMarkAsInserted(PendingBatch(nt))

\* Between two instructions the slot of the next ZKP batch to apply is free: a
\* proof from a wrong root never stays in the way (evict_cached_tree_update).
NextSlotFree == ~ cascading => ~ HasNextUpdate(nt)

\* A batch is reused without zeroing its chains or its cached updates, because it
\* reaches Inserted with both zeroed (the comment on Batch::reset).
InsertedBatchIsZeroed ==
    \A x \in BatchIndices :
        nt.batches[x].state = "Inserted" =>
            \A j \in ZkpIndices :
                /\ nt.batches[x].hash_chains[j] = << >>
                /\ nt.batches[x].cached_tree_updates[j] = NoUpdate

\* At most three batches of queued nullifiers hold PDAs that cannot be closed yet:
\* the bound the working capital of a tree is sized by (tree_creation_lamports).
UnclosableBound ==
    Cardinality({n \in Nullifiers : nullifier_pdas[n] >= nt.close_before_index
                                    /\ nullifier_pdas[n] # 0})
        <= (NumBatches + 1) * BatchSize

-----------------------------------------------------------------------------
(***************************************************************************)
(* The inductive invariant behind the safety properties.                   *)
(***************************************************************************)

\* The queue index that follows the values in b, and the one that follows those
\* of its values that are in the tree.
FilledUpTo(b) == b.start_index + Offset(b.num_full_zkp_batches) + b.num_inserted

AppliedUpTo(b) == b.start_index + Offset(b.num_inserted_zkp_batches)

\* State and counters of a batch agree.
BatchCounters(b) ==
    /\ b.num_inserted_zkp_batches <= b.num_full_zkp_batches
    /\ b.state = "Fill" => b.num_full_zkp_batches < ZkpBatches
    /\ b.state = "Full" =>
          /\ b.num_full_zkp_batches = ZkpBatches
          /\ b.num_inserted_zkp_batches < ZkpBatches
          /\ b.num_inserted = 0
    /\ b.state = "Inserted" =>
          /\ b.num_full_zkp_batches = ZkpBatches
          /\ b.num_inserted_zkp_batches = ZkpBatches
          /\ b.num_inserted = 0

\* Nothing was ever queued in b.
Untouched(b) ==
    b.state = "Fill" /\ b.num_full_zkp_batches = 0 /\ b.num_inserted = 0

\* The current batch cb is also the next to apply; ob is the other one.
CurrentIsPending(t, cb, ob) ==
    \/ /\ cb.state = "Fill"
       /\ FilledUpTo(cb) = t.queue_next_index
       /\ AppliedUpTo(cb) = t.next_index
       /\ \/ ob.state = "Inserted" /\ ob.start_index + BatchSize = cb.start_index
          \/ Untouched(ob) /\ ob.start_index = cb.start_index + BatchSize
    \/ /\ cb.state = "Full"
       /\ cb.start_index + 2 * BatchSize = t.queue_next_index
       /\ AppliedUpTo(cb) = t.next_index
       /\ ob.state = "Full" /\ ob.num_inserted_zkp_batches = 0
       /\ ob.start_index = cb.start_index + BatchSize
    \/ /\ cb.state = "Inserted"
       /\ cb.start_index + 2 * BatchSize = t.queue_next_index
       /\ t.next_index = t.queue_next_index
       /\ ob.state = "Inserted" /\ ob.start_index = cb.start_index + BatchSize

\* The batch before the current one, pb, is still to be applied.
CurrentIsAhead(t, cb, pb) ==
    /\ pb.state = "Full"
    /\ AppliedUpTo(pb) = t.next_index
    /\ \/ /\ cb.state = "Fill" /\ cb.num_inserted_zkp_batches = 0
          /\ cb.start_index = pb.start_index + BatchSize
          /\ FilledUpTo(cb) = t.queue_next_index
       \/ /\ cb.state = "Inserted" /\ cb.start_index + BatchSize = pb.start_index
          /\ pb.start_index + BatchSize = t.queue_next_index

\* How the two batches tile the queue.
QueueGeometry ==
    /\ \A x \in BatchIndices : BatchCounters(nt.batches[x])
    /\ Len(queued) + 1 = nt.queue_next_index
    /\ IF nt.currently_processing_batch_index = nt.pending_batch_index
       THEN CurrentIsPending(nt, CurrentBatch(nt),
                nt.batches[NextBatch(nt.currently_processing_batch_index)])
       ELSE CurrentIsAhead(nt, CurrentBatch(nt), PendingBatch(nt))

\* chain commits to the len values of queue from index start on.
IsQueueSlice(queue, chain, start, len) ==
    /\ Len(chain) = len
    /\ start + len <= Len(queue) + 1
    /\ \A k \in 1 .. len : chain[k] = queue[start + k - 1]

\* The chains that are complete and not applied, and the open one, commit to the
\* queue in order; an applied one is zeroed.
ChainsCommitToQueue ==
    \A x \in BatchIndices :
        LET b == nt.batches[x]
        IN  /\ \A j \in ZkpIndices :
                  /\ j < b.num_inserted_zkp_batches => b.hash_chains[j] = << >>
                  /\ b.num_inserted_zkp_batches <= j /\ j < b.num_full_zkp_batches =>
                        IsQueueSlice(queued, b.hash_chains[j], b.start_index + Offset(j), ZkpBatchSize)
            /\ b.num_inserted > 0 =>
                  IsQueueSlice(queued, b.hash_chains[b.num_full_zkp_batches],
                      b.start_index + Offset(b.num_full_zkp_batches), b.num_inserted)

\* A cached update belongs to a complete chain of the pending batch that is not
\* applied, and its proof was about that chain.
CachedUpdatesVerified ==
    \A x \in BatchIndices, j \in ZkpIndices :
        LET b == nt.batches[x]
            u == b.cached_tree_updates[j]
        IN  u.occupied =>
               /\ x = nt.pending_batch_index
               /\ b.num_inserted_zkp_batches <= j
               /\ j < b.num_full_zkp_batches
               /\ u.new_root = Extend(u.old_root, b.start_index + Offset(j), b.hash_chains[j])

\* A ring slot that the pending batch has written.
WrittenByPending(i) ==
    IF i = 0 THEN NextUpdateIndex(nt) = ZkpBatches ELSE i <= NextUpdateIndex(nt)

\* ZKP batch j of every batch writes ring slot NextSlot(j), since a batch writes
\* exactly the whole ring.  The slot before the cursor is the tree on chain; every
\* root holds all values below the watermark, and those the pending batch has
\* written all values queued before that batch.
RootHistory ==
    LET latest == IF NextUpdateIndex(nt) = ZkpBatches THEN 0 ELSE NextUpdateIndex(nt)
    IN  /\ nt.current_index = NextSlot(latest)
        /\ nt.roots[latest] = QueuedTree(nt.next_index - 1)
        /\ \A i \in ZkpIndices :
              nt.roots[i] # NoRoot =>
                  \E m \in 0 .. nt.next_index - 1 :
                      /\ nt.roots[i] = QueuedTree(m)
                      /\ m + 1 >= nt.close_before_index
                      /\ WrittenByPending(i) => m + 1 >= PendingBatch(nt).start_index

\* A PDA records where its nullifier is queued; from the watermark on every queued
\* nullifier has its PDA.
PdaRecords ==
    /\ \A n \in Nullifiers :
          nullifier_pdas[n] # 0 =>
              nullifier_pdas[n] <= Len(queued) /\ queued[nullifier_pdas[n]] = n
    /\ \A i \in 1 .. Len(queued) :
          i >= nt.close_before_index => nullifier_pdas[queued[i]] = i

\* The watermark trails the batch to apply next by at most one batch, and never
\* passes what is in the tree.
WatermarkLag ==
    /\ nt.close_before_index <= nt.next_index
    /\ nt.close_before_index + BatchSize >= PendingBatch(nt).start_index
    /\ PendingBatch(nt).state = "Inserted" =>
          nt.close_before_index >= PendingBatch(nt).start_index + BatchSize

IInv ==
    /\ TypeOK
    /\ QueueGeometry
    /\ ChainsCommitToQueue
    /\ CachedUpdatesVerified
    /\ RootHistory
    /\ PdaRecords
    /\ WatermarkLag
    /\ SpentOnce
    /\ NextSlotFree

-----------------------------------------------------------------------------
\* The promise of the component: SpentOnce and ordered, whole-batch application.
Ledger == INSTANCE NullifierLedger WITH spent <- queued, applied <- nt.next_index - 1

LedgerSpec == Ledger!Spec

\* Every complete ZKP batch is applied, also when other provers keep caching
\* updates from roots the tree does not have.
QueueDrains ==
    \A m \in 1 .. Capacity - 1 :
        (Len(queued) >= m * ZkpBatchSize) ~> (nt.next_index > m * ZkpBatchSize)

\* Rent comes back: once the batch after it is full, every PDA of a batch is
\* eventually closed.
PdasReclaimed ==
    \A m \in 1 .. Capacity - 1 :
        (Len(queued) >= (m + 1) * BatchSize) ~>
            \A i \in 1 .. Len(queued) : i <= m * BatchSize => nullifier_pdas[queued[i]] = 0

=============================================================================
