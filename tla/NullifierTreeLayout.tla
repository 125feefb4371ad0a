------------------------ MODULE NullifierTreeLayout ------------------------
(***************************************************************************)
(* The nullifier region of a tree account                                  *)
(* (program-libs/tree/src/nullifier_tree): a two-batch input queue, the    *)
(* hash chains that commit to the queued nullifiers, the cached tree       *)
(* updates and the ring of accepted roots.  Every operator is one method   *)
(* of Batch or NullifierTreeLayout, as a function from the account's data  *)
(* to its new data; the guard of a method that can fail is an operator of  *)
(* its own.                                                                *)
(*                                                                         *)
(* Two hashes are modelled by what they commit to.  A hash chain is the    *)
(* sequence of the values folded into it (module HashChain models the      *)
(* folding).  A root is the indexed Merkle tree it is the root of, as the  *)
(* set of its pairs of leaf index and nullifier; leaf 0, the init          *)
(* sentinel, is left out.                                                  *)
(***************************************************************************)
EXTENDS Integers, Sequences, FiniteSets

CONSTANTS
    Nullifiers,     \* the nullifiers clients may spend
    ZkpBatchSize,   \* values per ZKP batch (zkp_batch_size)
    ZkpBatches,     \* ZKP batches per batch, and roots kept (ZKP_BATCHES)
    Capacity,       \* leaves of the indexed tree (2^height)
    NoRoot          \* the all-zero root of a slot never written

(***************************************************************************)
(* What validate_configuration and init accept.  The height check is only  *)
(* that the tree has room for its sentinel leaf.                           *)
(***************************************************************************)
ASSUME LayoutAssumption ==
    /\ ZkpBatchSize \in Nat \ {0}
    /\ ZkpBatches \in Nat \ {0}
    /\ Capacity \in Nat \ {0}

NumBatches == 2

BatchIndices == 0 .. NumBatches - 1

ZkpIndices == 0 .. ZkpBatches - 1

\* How many values of a batch precede its ZKP batch j.
Offset(j) == j * ZkpBatchSize

BatchSize == Offset(ZkpBatches)

-----------------------------------------------------------------------------
(***************************************************************************)
(* Indexed trees and what a batch-append proof says of two roots.          *)
(***************************************************************************)

\* The trees a root can commit to: which leaves after the sentinel hold what.
Trees == SUBSET ((1 .. Capacity - 1) \X Nullifiers)

EmptyTree == {}

Contains(root, n) == \E i \in 1 .. Capacity - 1 : <<i, n>> \in root

\* The tree after writing the values of chain at start, start + 1, ...
Extend(old, start, chain) ==
    old \cup {<<start + k - 1, chain[k]>> : k \in 1 .. Len(chain)}

\* The statement of the batch-append circuit, short of the new root: the leaves
\* the chain is written to lie in the tree and are empty, and each value is absent
\* from the tree when it is inserted.
Appendable(old, start, chain) ==
    /\ start + Len(chain) <= Capacity
    /\ \A k \in 1 .. Len(chain) :
          /\ \A n \in Nullifiers : <<start + k - 1, n>> \notin old
          /\ ~ Contains(old, chain[k])
          /\ \A l \in 1 .. Len(chain) : chain[k] = chain[l] => k = l

-----------------------------------------------------------------------------
(***************************************************************************)
(* One queue batch.                                                        *)
(***************************************************************************)

NoUpdate == [occupied |-> FALSE, old_root |-> NoRoot, new_root |-> NoRoot]

CachedTreeUpdate(old, new) ==
    [occupied |-> TRUE, old_root |-> old, new_root |-> new]

\* A batch over zeroed account data.
InitBatch(start) ==
    [state                    |-> "Fill",
     num_inserted             |-> 0,
     num_full_zkp_batches     |-> 0,
     num_inserted_zkp_batches |-> 0,
     start_index              |-> start,
     hash_chains              |-> [j \in ZkpIndices |-> << >>],
     cached_tree_updates      |-> [j \in ZkpIndices |-> NoUpdate]]

\* Counters and state only: the chains and the cached updates stay.
Reset(b, start) ==
    [b EXCEPT !.state = "Fill",
              !.num_inserted = 0,
              !.num_full_zkp_batches = 0,
              !.num_inserted_zkp_batches = 0,
              !.start_index = start]

CanFill(b) == b.state # "Full"

\* Mutant: a reused batch starts one batch size further, not NUM_BATCHES of them.
EnsureReadyToFillOneBatch(b) ==
    IF b.state = "Inserted" THEN Reset(b, b.start_index + BatchSize) ELSE b

EnsureReadyToFill(b) ==
    IF b.state = "Inserted" THEN Reset(b, b.start_index + NumBatches * BatchSize) ELSE b

\* Mutant: completing a chain does not reset num_inserted.
AddToHashChainNoReset(b, n) ==
    LET open  == b.num_full_zkp_batches
        chain == IF b.num_inserted = 0 THEN <<n>> ELSE Append(b.hash_chains[open], n)
        full  == b.num_inserted + 1 = ZkpBatchSize
    IN  [b EXCEPT !.hash_chains[open] = chain,
                  !.num_inserted = b.num_inserted + 1,
                  !.num_full_zkp_batches = IF full THEN open + 1 ELSE open,
                  !.state = IF full /\ open + 1 = ZkpBatches THEN "Full" ELSE b.state]

\* Called on a batch in Fill, whose open chain is num_full_zkp_batches.
AddToHashChain(b, n) ==
    LET open  == b.num_full_zkp_batches
        chain == IF b.num_inserted = 0 THEN <<n>> ELSE Append(b.hash_chains[open], n)
        full  == b.num_inserted + 1 = ZkpBatchSize
    IN  [b EXCEPT !.hash_chains[open] = chain,
                  !.num_inserted = IF full THEN 0 ELSE b.num_inserted + 1,
                  !.num_full_zkp_batches = IF full THEN open + 1 ELSE open,
                  !.state = IF full /\ open + 1 = ZkpBatches THEN "Full" ELSE b.state]

CacheTreeUpdate(b, j, update) == [b EXCEPT !.cached_tree_updates[j] = update]

EvictCachedTreeUpdate(b, j) == CacheTreeUpdate(b, j, NoUpdate)

\* Mutant: the consumed hash chain is kept.
ClearCachedTreeUpdateOnly(b, j) == EvictCachedTreeUpdate(b, j)

\* The update of a ZKP batch is in the tree: its slot and its chain are dead.
ClearCachedTreeUpdate(b, j) ==
    [EvictCachedTreeUpdate(b, j) EXCEPT !.hash_chains[j] = << >>]

\* Mutant: the batch must be full for every ZKP batch, not only for the last.
CanMarkAsInsertedFull(b) ==
    /\ b.num_full_zkp_batches > b.num_inserted_zkp_batches
    /\ b.state = "Full"

\* A ZKP batch is ready (get_first_ready_zkp_batch), and when it is the last one
\* the batch is full (advance_state_to_inserted).
CanMarkAsInserted(b) ==
    /\ b.state # "Inserted"
    /\ b.num_full_zkp_batches > b.num_inserted_zkp_batches
    /\ b.num_inserted_zkp_batches + 1 = ZkpBatches => b.state = "Full"

MarkAsInsertedInMerkleTree(b) ==
    LET inserted == b.num_inserted_zkp_batches + 1
    IN  [b EXCEPT !.num_inserted_zkp_batches = inserted,
                  !.state = IF inserted = ZkpBatches THEN "Inserted" ELSE b.state]

-----------------------------------------------------------------------------
(***************************************************************************)
(* The layout.  (i + 1) % capacity on a ring index is NextSlot, and        *)
(* (i + capacity - 1) % capacity is PrevSlot.                              *)
(***************************************************************************)

NextSlot(i) == IF i + 1 = ZkpBatches THEN 0 ELSE i + 1

PrevSlot(i) == IF i = 0 THEN ZkpBatches - 1 ELSE i - 1

NextBatch(i) == (i + 1) % NumBatches

InitLayout ==
    [sequence_number                  |-> 0,
     next_index                       |-> 1,
     queue_next_index                 |-> 1,
     close_before_index               |-> 0,
     currently_processing_batch_index |-> 0,
     pending_batch_index              |-> 0,
     current_index                    |-> NextSlot(0),
     roots                            |-> [i \in ZkpIndices |-> IF i = 0 THEN EmptyTree ELSE NoRoot],
     batches                          |-> [x \in BatchIndices |-> InitBatch(IF x = 0 THEN 1 ELSE 1 + BatchSize)]]

CurrentBatch(t) == t.batches[t.currently_processing_batch_index]

PendingBatch(t) == t.batches[t.pending_batch_index]

GetRoot(t) == t.roots[PrevSlot(t.current_index)]

\* root_by_index: a slot never written is not a root.
AcceptedRoots(t) == {t.roots[i] : i \in ZkpIndices} \ {NoRoot}

\* Mutant: the last leaf counts as past the end.
TreeIsFullOneEarly(t, count) == t.next_index + count >= Capacity

TreeIsFull(t, count) == t.next_index + count > Capacity

RemainingQueueCapacity(t) == Capacity - t.queue_next_index

CanInsertNullifier(t) ==
    /\ t.queue_next_index < Capacity
    /\ CanFill(CurrentBatch(t))

InsertNullifierIntoQueue(t, n) ==
    LET c == t.currently_processing_batch_index
        b == AddToHashChain(EnsureReadyToFill(CurrentBatch(t)), n)
    IN  [t EXCEPT !.batches[c] = b,
                  !.currently_processing_batch_index =
                        IF b.state = "Full" THEN NextBatch(c) ELSE c,
                  !.queue_next_index = t.queue_next_index + 1]

-----------------------------------------------------------------------------
(***************************************************************************)
(* Batch updates: verify and cache one proof, then apply what fits.        *)
(***************************************************************************)

\* The leaf index ZKP batch j of the pending batch starts at.
ZkpBatchStartIndex(t, j) == PendingBatch(t).start_index + Offset(j)

\* The proof of ZKP batch j from the tree old is verified: its chain is complete,
\* it is not applied yet, and the circuit's statement holds of the stored chain.
CanCacheUpdate(t, j, old) ==
    LET b == PendingBatch(t)
    IN  /\ j < b.num_full_zkp_batches
        /\ j >= b.num_inserted_zkp_batches
        /\ Appendable(old, ZkpBatchStartIndex(t, j), b.hash_chains[j])

VerifyProofCacheUpdate(t, j, old) ==
    LET p   == t.pending_batch_index
        b   == PendingBatch(t)
        new == Extend(old, ZkpBatchStartIndex(t, j), b.hash_chains[j])
    IN  [t EXCEPT !.batches[p] = CacheTreeUpdate(b, j, CachedTreeUpdate(old, new))]

\* The slot the cascade looks at next: the first ZKP batch not applied.
NextUpdateIndex(t) == PendingBatch(t).num_inserted_zkp_batches

HasNextUpdate(t) ==
    /\ NextUpdateIndex(t) < ZkpBatches
    /\ PendingBatch(t).cached_tree_updates[NextUpdateIndex(t)].occupied

NextUpdate(t) == PendingBatch(t).cached_tree_updates[NextUpdateIndex(t)]

\* Mutant: the eviction is an error, whose rollback restores the slot.
EvictNextUpdateRolledBack(t) == t

EvictNextUpdate(t) ==
    [t EXCEPT !.batches[t.pending_batch_index] =
        EvictCachedTreeUpdate(PendingBatch(t), NextUpdateIndex(t))]

AppendRoot(t, root) ==
    [t EXCEPT !.roots[t.current_index] = root,
              !.current_index = NextSlot(t.current_index)]

\* Mutant: the watermark is taken after pending_batch_index moved on.
CloseWatermarkAfterAdvance(t, b) ==
    LET start == t.batches[NextBatch(t.pending_batch_index)].start_index
    IN  IF b.state = "Inserted" /\ start > t.close_before_index
        THEN start
        ELSE t.close_before_index

\* Mutant: the batch state is read before the last ZKP batch is marked inserted.
CloseWatermarkBeforeMark(t, b) == t.close_before_index

\* advance_nullifier_pda_close_watermark, for the batch that has just been applied.
CloseWatermark(t, b) ==
    IF b.state = "Inserted" /\ b.start_index > t.close_before_index
    THEN b.start_index
    ELSE t.close_before_index

\* One turn of the loop of apply_cached_tree_updates that applies an update.
ApplyNextUpdate(t) ==
    LET p == t.pending_batch_index
        j == NextUpdateIndex(t)
        b == ClearCachedTreeUpdate(MarkAsInsertedInMerkleTree(PendingBatch(t)), j)
    IN  [AppendRoot(t, NextUpdate(t).new_root) EXCEPT
            !.next_index = t.next_index + ZkpBatchSize,
            !.sequence_number = t.sequence_number + 1,
            !.batches[p] = b,
            !.close_before_index = CloseWatermark(t, b),
            !.pending_batch_index = IF b.state = "Inserted" THEN NextBatch(p) ELSE p]

=============================================================================
