------------------------ MODULE NullifierTreeLemmas -------------------------
(***************************************************************************)
(* The facts the step proofs of NullifierTree rest on: arithmetic of batches *)
(* and ring slots, the initial state, what the queue operators do to a     *)
(* batch, and what the invariant says about the queue and the tree.        *)
(***************************************************************************)
EXTENDS NullifierTree, TLAPS

-----------------------------------------------------------------------------
(***************************************************************************)
(* Arithmetic of batches and ring slots.                                   *)
(***************************************************************************)

\* Offset is strictly monotone, in steps of a ZKP batch.
LEMMA OffsetFacts ==
    /\ \A j \in Nat : Offset(j) \in Nat
    /\ Offset(0) = 0
    /\ \A j \in Nat : Offset(j + 1) = Offset(j) + ZkpBatchSize
    /\ \A i, j \in Nat : i < j => Offset(i) + ZkpBatchSize <= Offset(j)
    /\ BatchSize \in Nat /\ BatchSize >= ZkpBatchSize /\ BatchSize = Offset(ZkpBatches)
<1>1. \A j \in Nat : Offset(j) \in Nat
  BY LayoutAssumption DEF Offset
<1>2. Offset(0) = 0
  BY LayoutAssumption DEF Offset
<1>3. \A j \in Nat : Offset(j + 1) = Offset(j) + ZkpBatchSize
  BY LayoutAssumption DEF Offset
<1>4. \A i, j \in Nat : i < j => Offset(i) + ZkpBatchSize <= Offset(j)
  <2> SUFFICES ASSUME NEW i \in Nat, NEW j \in Nat, i < j
               PROVE  (i + 1) * ZkpBatchSize <= j * ZkpBatchSize
    BY <1>3 DEF Offset
  <2>1. PICK d \in Nat : j = (i + 1) + d
    <3>1. j - (i + 1) \in Nat /\ j = (i + 1) + (j - (i + 1))
      OBVIOUS
    <3> QED  BY <3>1
  <2>2. j * ZkpBatchSize = (i + 1) * ZkpBatchSize + d * ZkpBatchSize
    BY <2>1, LayoutAssumption
  <2>3. d * ZkpBatchSize \in Nat /\ (i + 1) * ZkpBatchSize \in Nat
    BY LayoutAssumption
  <2> QED  BY <2>2, <2>3
<1>5. BatchSize \in Nat /\ BatchSize >= ZkpBatchSize /\ BatchSize = Offset(ZkpBatches)
  BY <1>1, <1>2, <1>4, LayoutAssumption DEF BatchSize
<1> QED  BY <1>1, <1>2, <1>3, <1>4, <1>5

\* The ring of roots: the slot before the next one is the slot itself.
LEMMA SlotFacts ==
    /\ 0 \in ZkpIndices
    /\ \A i \in ZkpIndices : NextSlot(i) \in ZkpIndices /\ PrevSlot(NextSlot(i)) = i
BY LayoutAssumption DEF ZkpIndices, NextSlot, PrevSlot

\* There are two batches, and NextBatch is the other one.
LEMMA BatchIndexFacts ==
    /\ BatchIndices = {0, 1}
    /\ \A x \in BatchIndices : NextBatch(x) \in BatchIndices /\ NextBatch(x) # x
    /\ \A x, y \in BatchIndices : x # y => y = NextBatch(x)
BY DEF BatchIndices, NextBatch, NumBatches


-----------------------------------------------------------------------------
(***************************************************************************)
(* The initial state.                                                      *)
(***************************************************************************)

\* A tree account as init leaves it satisfies the inductive invariant.
LEMMA InitIInv == Init => IInv
<1> SUFFICES ASSUME Init PROVE IInv
  OBVIOUS
<1>1. /\ nt.next_index = 1 /\ nt.queue_next_index = 1 /\ nt.close_before_index = 0
      /\ nt.currently_processing_batch_index = 0 /\ nt.pending_batch_index = 0
      /\ nt.current_index = NextSlot(0)
      /\ nt.roots = [i \in ZkpIndices |-> IF i = 0 THEN EmptyTree ELSE NoRoot]
      /\ queued = << >> /\ Len(queued) = 0 /\ cascading = FALSE
      /\ nullifier_pdas = [n \in Nullifiers |-> 0]
  BY DEF Init, InitLayout
<1>2. /\ nt.batches[0] = InitBatch(1) /\ nt.batches[1] = InitBatch(1 + BatchSize)
      /\ PendingBatch(nt) = InitBatch(1) /\ CurrentBatch(nt) = InitBatch(1)
      /\ NextBatch(0) = 1
  BY <1>1, BatchIndexFacts DEF Init, InitLayout, NextBatch, NumBatches, PendingBatch, CurrentBatch
<1>3. ASSUME NEW start
      PROVE  /\ InitBatch(start).state = "Fill"
             /\ InitBatch(start).num_inserted = 0
             /\ InitBatch(start).num_full_zkp_batches = 0
             /\ InitBatch(start).num_inserted_zkp_batches = 0
             /\ InitBatch(start).start_index = start
             /\ \A j \in ZkpIndices : ~ InitBatch(start).cached_tree_updates[j].occupied
  BY DEF InitBatch, NoUpdate
<1>4. TypeOK
  <2>1. EmptyTree \in Trees
    BY DEF EmptyTree, Trees
  <2>2. ASSUME NEW start \in Nat \ {0}
        PROVE  InitBatch(start) \in BatchType
    BY LayoutAssumption DEF InitBatch, BatchType, CachedUpdates
  <2>3. InitBatch(1) \in BatchType /\ InitBatch(1 + BatchSize) \in BatchType
    BY <2>2, OffsetFacts
  <2>4. NextSlot(0) \in ZkpIndices /\ 0 \in BatchIndices /\ 1 \in 1 .. Capacity
    BY SlotFacts, BatchIndexFacts, LayoutAssumption
  <2>5. InitLayout \in LayoutType
    BY <2>1, <2>3, <2>4 DEF InitLayout, LayoutType
  <2>6. nullifier_pdas \in [Nullifiers -> 0 .. Capacity] /\ queued \in Seq(Nullifiers)
    BY <1>1, LayoutAssumption
  <2>7. cascading \in BOOLEAN
    BY <1>1, Zenon
  <2> QED  BY <2>5, <2>6, <2>7 DEF TypeOK, Init
<1>5. QueueGeometry
  <2>1. \A x \in BatchIndices : BatchCounters(nt.batches[x])
    BY <1>2, <1>3, BatchIndexFacts, LayoutAssumption DEF BatchCounters
  <2>2. CurrentIsPending(nt, InitBatch(1), InitBatch(1 + BatchSize))
    BY <1>1, <1>3, OffsetFacts DEF CurrentIsPending, FilledUpTo, AppliedUpTo, Untouched
  <2> QED  BY <1>1, <1>2, <2>1, <2>2 DEF QueueGeometry
<1>6. ChainsCommitToQueue
  BY <1>2, <1>3, BatchIndexFacts DEF ChainsCommitToQueue, ZkpIndices
<1>7. CachedUpdatesVerified
  BY <1>2, <1>3, BatchIndexFacts DEF CachedUpdatesVerified
<1>8. RootHistory
  <2>1. NextUpdateIndex(nt) = 0 /\ ZkpBatches # 0
    BY <1>2, <1>3, LayoutAssumption DEF NextUpdateIndex
  <2>2. QueuedTree(0) = EmptyTree
    BY DEF QueuedTree, EmptyTree
  <2>3. \A i \in ZkpIndices : ~ WrittenByPending(i)
    BY <2>1, LayoutAssumption DEF WrittenByPending, ZkpIndices
  <2> QED  BY <1>1, <2>1, <2>2, <2>3, SlotFacts DEF RootHistory
<1>9. PdaRecords /\ SpentOnce
  BY <1>1 DEF PdaRecords, SpentOnce
<1>10. WatermarkLag
  <2>1. BatchSize \in Nat /\ BatchSize >= 1
    BY OffsetFacts, LayoutAssumption
  <2>2. PendingBatch(nt).start_index = 1 /\ PendingBatch(nt).state = "Fill"
    BY <1>2, <1>3
  <2> QED  BY <1>1, <2>1, <2>2 DEF WatermarkLag
<1>11. NextSlotFree
  <2>1. NextUpdateIndex(nt) = 0 /\ ~ PendingBatch(nt).cached_tree_updates[0].occupied
    BY <1>2, <1>3, SlotFacts DEF NextUpdateIndex
  <2> QED  BY <2>1 DEF NextSlotFree, HasNextUpdate
<1> QED  BY <1>4, <1>5, <1>6, <1>7, <1>8, <1>9, <1>10, <1>11 DEF IInv

-----------------------------------------------------------------------------
(***************************************************************************)
(* What the queue operators do to a batch.                                 *)
(***************************************************************************)

\* ensure_ready_to_fill leaves a batch in Fill; a batch that was Inserted starts
\* over two batches further on.
LEMMA ReadyBatch ==
    ASSUME NEW cb \in BatchType, BatchCounters(cb), CanFill(cb)
    PROVE  LET b == EnsureReadyToFill(cb)
           IN  /\ b \in BatchType /\ BatchCounters(b) /\ b.state = "Fill"
               /\ b.hash_chains = cb.hash_chains
               /\ b.cached_tree_updates = cb.cached_tree_updates
               /\ cb.state = "Fill" => b = cb
               /\ cb.state # "Fill" =>
                     /\ cb.state = "Inserted"
                     /\ b.start_index = cb.start_index + 2 * BatchSize
                     /\ b.num_inserted = 0
                     /\ b.num_full_zkp_batches = 0
                     /\ b.num_inserted_zkp_batches = 0
<1> DEFINE b == EnsureReadyToFill(cb)
<1>1. cb.state \in {"Fill", "Inserted"}
  BY DEF CanFill, BatchType
<1>2. CASE cb.state = "Fill"
  <2>1. b = cb
    BY <1>2 DEF EnsureReadyToFill
  <2> QED  BY <1>2, <2>1
<1>3. CASE cb.state = "Inserted"
  <2> DEFINE start == cb.start_index + 2 * BatchSize
  <2>0. BatchSize \in Nat /\ cb.start_index \in Nat \ {0}
    BY OffsetFacts DEF BatchType
  <2>1. start \in Nat \ {0}
    BY <2>0
  <2>2. b = Reset(cb, start)
    BY <1>3 DEF EnsureReadyToFill, NumBatches
  <2> HIDE DEF start, b
  <2>3. /\ b.state = "Fill" /\ b.num_inserted = 0 /\ b.num_full_zkp_batches = 0
        /\ b.num_inserted_zkp_batches = 0 /\ b.start_index = start
        /\ b.hash_chains = cb.hash_chains
        /\ b.cached_tree_updates = cb.cached_tree_updates
    BY <2>2 DEF Reset, BatchType
  <2>4. b \in BatchType
    <3>1. 0 \in 0 .. ZkpBatchSize - 1 /\ 0 \in 0 .. ZkpBatches
      BY LayoutAssumption
    <3> QED  BY <2>1, <2>2, <3>1, Zenon DEF Reset, BatchType
  <2>5. BatchCounters(b)
    BY <2>3, LayoutAssumption DEF BatchCounters
  <2> QED  BY <1>3, <2>3, <2>4, <2>5 DEF b, start
<1> QED  BY <1>1, <1>2, <1>3

\* add_to_hash_chain: the value goes to the end of the open chain, and a chain of
\* zkp_batch_size values is complete.
LEMMA FilledBatch ==
    ASSUME NEW b \in BatchType, BatchCounters(b), b.state = "Fill", NEW n \in Nullifiers
    PROVE  LET nb   == AddToHashChain(b, n)
               open == b.num_full_zkp_batches
           IN  /\ nb \in BatchType /\ BatchCounters(nb) /\ nb.state \in {"Fill", "Full"}
               /\ nb.start_index = b.start_index
               /\ nb.num_inserted_zkp_batches = b.num_inserted_zkp_batches
               /\ nb.cached_tree_updates = b.cached_tree_updates
               /\ FilledUpTo(nb) = FilledUpTo(b) + 1
               /\ nb.state = "Full" => FilledUpTo(nb) = nb.start_index + BatchSize
               /\ open \in ZkpIndices
               /\ \A j \in ZkpIndices : j # open => nb.hash_chains[j] = b.hash_chains[j]
               /\ nb.hash_chains[open] =
                     IF b.num_inserted = 0 THEN <<n>> ELSE Append(b.hash_chains[open], n)
               /\ \/ /\ nb.num_full_zkp_batches = open
                     /\ nb.num_inserted = b.num_inserted + 1
                  \/ /\ nb.num_full_zkp_batches = open + 1
                     /\ nb.num_inserted = 0
                     /\ b.num_inserted + 1 = ZkpBatchSize
<1> DEFINE open  == b.num_full_zkp_batches
           nb    == AddToHashChain(b, n)
           full  == b.num_inserted + 1 = ZkpBatchSize
           chain == IF b.num_inserted = 0 THEN <<n>> ELSE Append(b.hash_chains[open], n)
<1>1. /\ open \in ZkpIndices /\ open \in Nat /\ open + 1 <= ZkpBatches
      /\ b.num_inserted \in Nat /\ b.num_inserted < ZkpBatchSize
      /\ b.start_index \in Nat \ {0}
      /\ b.num_inserted_zkp_batches \in 0 .. ZkpBatches
      /\ b.hash_chains \in [ZkpIndices -> Seq(Nullifiers)]
  BY LayoutAssumption, SMTT(60) DEF BatchType, BatchCounters, ZkpIndices
<1>2. chain \in Seq(Nullifiers)
  BY <1>1
<1>3. nb = [b EXCEPT !.hash_chains[open] = chain,
                     !.num_inserted = IF full THEN 0 ELSE b.num_inserted + 1,
                     !.num_full_zkp_batches = IF full THEN open + 1 ELSE open,
                     !.state = IF full /\ open + 1 = ZkpBatches THEN "Full" ELSE b.state]
  BY DEF AddToHashChain
<1> HIDE DEF chain, nb
<1>4. /\ nb.start_index = b.start_index
      /\ nb.num_inserted_zkp_batches = b.num_inserted_zkp_batches
      /\ nb.cached_tree_updates = b.cached_tree_updates
      /\ nb.hash_chains = [b.hash_chains EXCEPT ![open] = chain]
      /\ nb.num_inserted = IF full THEN 0 ELSE b.num_inserted + 1
      /\ nb.num_full_zkp_batches = IF full THEN open + 1 ELSE open
      /\ nb.state = IF full /\ open + 1 = ZkpBatches THEN "Full" ELSE "Fill"
  BY <1>3 DEF BatchType
<1>5. nb \in BatchType
  <2>1. /\ (IF full THEN 0 ELSE b.num_inserted + 1) \in 0 .. ZkpBatchSize - 1
        /\ (IF full THEN open + 1 ELSE open) \in 0 .. ZkpBatches
        /\ [b.hash_chains EXCEPT ![open] = chain] \in [ZkpIndices -> Seq(Nullifiers)]
    <3>1. (IF full THEN 0 ELSE b.num_inserted + 1) \in 0 .. ZkpBatchSize - 1
      BY <1>1, LayoutAssumption, SMTT(60)
    <3>2. (IF full THEN open + 1 ELSE open) \in 0 .. ZkpBatches
      BY <1>1, LayoutAssumption, SMTT(60)
    <3>3. [b.hash_chains EXCEPT ![open] = chain] \in [ZkpIndices -> Seq(Nullifiers)]
      BY <1>1, <1>2
    <3> QED  BY <3>1, <3>2, <3>3
  <2> QED  BY <1>3, <2>1, Zenon DEF BatchType
<1>6. BatchCounters(nb)
  BY <1>1, <1>4, LayoutAssumption, SMTT(60) DEF BatchCounters
<1>7. FilledUpTo(nb) = FilledUpTo(b) + 1
  <2>1. Offset(open + 1) = Offset(open) + ZkpBatchSize /\ Offset(open) \in Nat
    BY <1>1, OffsetFacts, Zenon
  <2>2. CASE full
    <3>1. nb.num_full_zkp_batches = open + 1 /\ nb.num_inserted = 0
      BY <1>4, <2>2
    <3>2. nb.start_index = b.start_index
      BY <1>4
    <3>3. FilledUpTo(nb) = b.start_index + (Offset(open) + ZkpBatchSize) + 0
      BY <2>1, <3>1, <3>2 DEF FilledUpTo
    <3>4. FilledUpTo(b) = b.start_index + Offset(open) + b.num_inserted
      BY DEF FilledUpTo
    <3> QED  BY <1>1, <2>1, <2>2, <3>3, <3>4, LayoutAssumption, SMTT(60)
  <2>3. CASE ~ full
    <3>1. nb.num_full_zkp_batches = open /\ nb.num_inserted = b.num_inserted + 1
      BY <1>4, <2>3
    <3>2. nb.start_index = b.start_index
      BY <1>4
    <3>3. FilledUpTo(nb) = b.start_index + Offset(open) + (b.num_inserted + 1)
      BY <3>1, <3>2 DEF FilledUpTo
    <3>4. FilledUpTo(b) = b.start_index + Offset(open) + b.num_inserted
      BY DEF FilledUpTo
    <3>5. b.start_index \in Nat /\ Offset(open) \in Nat /\ b.num_inserted \in Nat
      BY <1>1, <2>1
    <3> QED  BY ONLY <3>3, <3>4, <3>5
  <2> QED  BY <2>2, <2>3
<1>8. nb.state = "Full" => FilledUpTo(nb) = nb.start_index + BatchSize
  <2> SUFFICES ASSUME nb.state = "Full" PROVE FilledUpTo(nb) = nb.start_index + BatchSize
    OBVIOUS
  <2>1. nb.num_full_zkp_batches = ZkpBatches /\ nb.num_inserted = 0
    BY <1>4
  <2>2. Offset(ZkpBatches) = BatchSize /\ BatchSize \in Nat
    BY OffsetFacts
  <2> QED  BY <1>1, <1>4, <2>1, <2>2 DEF FilledUpTo
<1>9. /\ \A j \in ZkpIndices : j # open => nb.hash_chains[j] = b.hash_chains[j]
      /\ nb.hash_chains[open] = chain
  BY <1>1, <1>4
<1>10. nb.state \in {"Fill", "Full"}
  BY <1>4
<1>11. \/ nb.num_full_zkp_batches = open /\ nb.num_inserted = b.num_inserted + 1
       \/ nb.num_full_zkp_batches = open + 1 /\ nb.num_inserted = 0 /\ full
  BY <1>4
<1> QED  BY <1>1, <1>4, <1>5, <1>6, <1>7, <1>8, <1>9, <1>10, <1>11, SMTT(60) DEF chain, nb

-----------------------------------------------------------------------------
(***************************************************************************)
(* Queue slices and trees of the queue, and how they grow.                 *)
(***************************************************************************)

\* A slice of the queue stays one when a nullifier is queued behind it.
LEMMA SliceGrows ==
    ASSUME NEW queue \in Seq(Nullifiers), NEW n \in Nullifiers,
           NEW chain, NEW start \in Nat \ {0}, NEW len \in Nat,
           IsQueueSlice(queue, chain, start, len)
    PROVE  IsQueueSlice(Append(queue, n), chain, start, len)
<1> DEFINE longer == Append(queue, n)
<1>1. Len(queue) \in Nat /\ Len(longer) = Len(queue) + 1
  OBVIOUS
<1>2. \A k \in 1 .. Len(queue) : longer[k] = queue[k]
  OBVIOUS
<1>3. Len(chain) = len /\ start + len <= Len(queue) + 1
      /\ \A k \in 1 .. len : chain[k] = queue[start + k - 1]
  BY DEF IsQueueSlice
<1>4. \A k \in 1 .. len : start + k - 1 \in 1 .. Len(queue)
  BY <1>1, <1>3
<1> HIDE DEF longer
<1>5. IsQueueSlice(longer, chain, start, len)
  <2>1. \A k \in 1 .. len : chain[k] = longer[start + k - 1]
    BY <1>2, <1>3, <1>4, SMTT(60)
  <2>2. start + len <= Len(longer) + 1
    BY <1>1, <1>3
  <2> QED  BY <1>3, <2>1, <2>2 DEF IsQueueSlice
<1> QED  BY <1>5 DEF longer

\* The open chain and the queue grow by the same value.
LEMMA OpenSliceGrows ==
    ASSUME NEW queue \in Seq(Nullifiers), NEW n \in Nullifiers,
           NEW chain \in Seq(Nullifiers), NEW start \in Nat \ {0}, NEW len \in Nat,
           start + len = Len(queue) + 1,
           len = 0 \/ IsQueueSlice(queue, chain, start, len)
    PROVE  IsQueueSlice(Append(queue, n),
               IF len = 0 THEN <<n>> ELSE Append(chain, n), start, len + 1)
<1> DEFINE longer == Append(queue, n)
<1>1. Len(queue) \in Nat /\ Len(longer) = Len(queue) + 1
      /\ longer[Len(queue) + 1] = n
  OBVIOUS
<1>2. CASE len = 0
  <2>1. start = Len(queue) + 1 /\ Len(<<n>>) = 1 /\ <<n>>[1] = n
    BY <1>1, <1>2
  <2> HIDE DEF longer
  <2>2. IsQueueSlice(longer, <<n>>, start, 1)
    BY <1>1, <2>1 DEF IsQueueSlice
  <2> QED  BY <1>2, <2>2 DEF longer
<1>3. CASE len # 0
  <2> DEFINE more == Append(chain, n)
  <2>1. IsQueueSlice(longer, chain, start, len)
    BY <1>3, SliceGrows
  <2>2. Len(more) = len + 1 /\ more[len + 1] = n /\ \A k \in 1 .. len : more[k] = chain[k]
    BY <2>1 DEF IsQueueSlice
  <2> HIDE DEF longer, more
  <2>3. IsQueueSlice(longer, more, start, len + 1)
    <3>1. \A k \in 1 .. len : more[k] = longer[start + k - 1]
      BY <2>1, <2>2 DEF IsQueueSlice
    <3>2. more[len + 1] = longer[start + (len + 1) - 1]
      BY <1>1, <2>2
    <3>3. start + (len + 1) <= Len(longer) + 1
      BY <1>1
    <3>4. \A k \in 1 .. len + 1 : k \in 1 .. len \/ k = len + 1
      OBVIOUS
    <3> QED  BY <2>2, <3>1, <3>2, <3>3, <3>4, Zenon DEF IsQueueSlice
  <2> QED  BY <1>3, <2>3 DEF longer, more
<1> QED  BY <1>2, <1>3

\* Queueing a nullifier leaves the trees of the older ones alone.
LEMMA TreeGrows ==
    ASSUME NEW n \in Nullifiers, queued \in Seq(Nullifiers), queued' = Append(queued, n),
           NEW m \in 0 .. Len(queued)
    PROVE  QueuedTree(m)' = QueuedTree(m)
<1>1. \A k \in 1 .. m : queued'[k] = queued[k]
  OBVIOUS
<1> QED  BY <1>1 DEF QueuedTree

\* The parts of the invariant in the form the steps use them.
LEMMA Geometry ==
    ASSUME IInv
    PROVE  /\ nt \in LayoutType
           /\ \A x \in BatchIndices : nt.batches[x] \in BatchType /\ BatchCounters(nt.batches[x])
           /\ nt.currently_processing_batch_index \in BatchIndices
           /\ nt.pending_batch_index \in BatchIndices
           /\ nt.queue_next_index \in 1 .. Capacity
           /\ nt.next_index \in Nat \ {0}
           /\ nt.close_before_index \in Nat
           /\ queued \in Seq(Nullifiers) /\ Len(queued) \in Nat
           /\ Len(queued) + 1 = nt.queue_next_index
           /\ \A k \in 1 .. Len(queued) : queued[k] \in Nullifiers /\ k \in 1 .. Capacity - 1
<1>1. /\ nt \in LayoutType /\ queued \in Seq(Nullifiers)
      /\ Len(queued) + 1 = nt.queue_next_index
      /\ \A x \in BatchIndices : BatchCounters(nt.batches[x])
  BY DEF IInv, TypeOK, QueueGeometry
<1>2. /\ \A x \in BatchIndices : nt.batches[x] \in BatchType
      /\ nt.currently_processing_batch_index \in BatchIndices
      /\ nt.pending_batch_index \in BatchIndices
      /\ nt.queue_next_index \in 1 .. Capacity
      /\ nt.next_index \in Nat \ {0}
      /\ nt.close_before_index \in Nat
  BY <1>1 DEF LayoutType
<1>3. Len(queued) \in Nat /\ \A k \in 1 .. Len(queued) : queued[k] \in Nullifiers
  BY <1>1
<1>4. \A k \in 1 .. Len(queued) : k \in 1 .. Capacity - 1
  BY <1>1, <1>2, <1>3, LayoutAssumption
<1> QED  BY <1>1, <1>2, <1>3, <1>4

\* What is in the tree was queued: the tree never runs ahead of the queue.
LEMMA AppliedBehindQueue ==
    ASSUME IInv
    PROVE  /\ nt.next_index <= nt.queue_next_index
           /\ nt.queue_next_index <= PendingBatch(nt).start_index + 2 * BatchSize
<1> DEFINE c == nt.currently_processing_batch_index
           p == nt.pending_batch_index
           cb == CurrentBatch(nt)
           pb == PendingBatch(nt)
<1>1. /\ pb \in BatchType /\ cb \in BatchType /\ BatchCounters(pb) /\ BatchCounters(cb)
      /\ nt.queue_next_index \in Nat /\ nt.next_index \in Nat
  BY Geometry DEF PendingBatch, CurrentBatch
<1>2. ASSUME NEW b \in BatchType, BatchCounters(b)
      PROVE  /\ b.start_index \in Nat
             /\ AppliedUpTo(b) \in Nat /\ FilledUpTo(b) \in Nat
             /\ b.start_index <= AppliedUpTo(b)
             /\ AppliedUpTo(b) <= FilledUpTo(b)
             /\ FilledUpTo(b) <= b.start_index + BatchSize
  <2> DEFINE a == b.num_inserted_zkp_batches
             f == b.num_full_zkp_batches
  <2>1. /\ a \in Nat /\ f \in Nat /\ a <= f /\ f <= ZkpBatches /\ b.start_index \in Nat
        /\ b.num_inserted \in Nat /\ b.num_inserted < ZkpBatchSize
        /\ f = ZkpBatches => b.num_inserted = 0
    BY <1>2, LayoutAssumption DEF BatchType, BatchCounters
  <2>5. AppliedUpTo(b) = b.start_index + Offset(a)
        /\ FilledUpTo(b) = b.start_index + Offset(f) + b.num_inserted
    BY DEF AppliedUpTo, FilledUpTo
  <2> HIDE DEF a, f
  <2>2. Offset(a) \in Nat /\ Offset(f) \in Nat /\ BatchSize \in Nat
    BY <2>1, OffsetFacts, Zenon
  <2>3. a = f \/ Offset(a) + ZkpBatchSize <= Offset(f)
    <3>1. a = f \/ a < f
      BY <2>1
    <3> QED  BY <2>1, <3>1, OffsetFacts, Zenon
  <2>4. (f = ZkpBatches /\ Offset(f) = BatchSize) \/ Offset(f) + ZkpBatchSize <= BatchSize
    <3>1. ZkpBatches \in Nat /\ (f = ZkpBatches \/ f < ZkpBatches)
      BY <2>1, LayoutAssumption
    <3> QED  BY <2>1, <3>1, OffsetFacts
  <2>6. ZkpBatchSize \in Nat
    BY LayoutAssumption
  <2> QED  BY <2>1, <2>2, <2>3, <2>4, <2>5, <2>6
<1>3. BatchSize \in Nat
  BY OffsetFacts
<1>4. CASE c = p
  <2>1. CurrentIsPending(nt, cb, nt.batches[NextBatch(c)]) /\ cb = pb
    BY <1>4 DEF IInv, QueueGeometry, CurrentBatch, PendingBatch
  <2>2. /\ AppliedUpTo(pb) \in Nat /\ FilledUpTo(pb) \in Nat /\ pb.start_index \in Nat
        /\ AppliedUpTo(pb) <= FilledUpTo(pb)
        /\ FilledUpTo(pb) <= pb.start_index + BatchSize
    BY <1>1, <1>2
  <2> HIDE DEF c, p, cb, pb
  <2>3. nt.next_index <= nt.queue_next_index
        /\ nt.queue_next_index <= pb.start_index + 2 * BatchSize
    BY <1>1, <1>3, <2>1, <2>2 DEF CurrentIsPending
  <2> QED  BY <2>3 DEF pb
<1>5. CASE c # p
  <2>1. CurrentIsAhead(nt, cb, pb)
    BY <1>5 DEF IInv, QueueGeometry
  <2>2. /\ AppliedUpTo(pb) \in Nat /\ pb.start_index \in Nat
        /\ AppliedUpTo(pb) <= pb.start_index + BatchSize
        /\ FilledUpTo(cb) \in Nat /\ cb.start_index \in Nat
        /\ cb.start_index <= FilledUpTo(cb)
        /\ FilledUpTo(cb) <= cb.start_index + BatchSize
    <3>1. AppliedUpTo(pb) \in Nat /\ pb.start_index \in Nat /\ FilledUpTo(pb) \in Nat
          /\ AppliedUpTo(pb) <= FilledUpTo(pb)
          /\ FilledUpTo(pb) <= pb.start_index + BatchSize
      BY <1>1, <1>2
    <3>2. FilledUpTo(cb) \in Nat /\ cb.start_index \in Nat /\ AppliedUpTo(cb) \in Nat
          /\ cb.start_index <= AppliedUpTo(cb) /\ AppliedUpTo(cb) <= FilledUpTo(cb)
          /\ FilledUpTo(cb) <= cb.start_index + BatchSize
      BY <1>1, <1>2
    <3> HIDE DEF c, p, cb, pb
    <3> QED  BY <1>3, <3>1, <3>2
  <2> HIDE DEF c, p, cb, pb
  <2>3. nt.next_index <= nt.queue_next_index
        /\ nt.queue_next_index <= pb.start_index + 2 * BatchSize
    BY <1>1, <1>3, <2>1, <2>2 DEF CurrentIsAhead
  <2> QED  BY <2>3 DEF pb
<1> QED  BY <1>4, <1>5

\* A nullifier that is absent from an accepted root and has no PDA was never queued.
LEMMA UnspentIsNew ==
    ASSUME IInv, NEW n \in Nullifiers, NEW i \in ZkpIndices,
           nt.roots[i] # NoRoot, ~ Contains(nt.roots[i], n), nullifier_pdas[n] = 0
    PROVE  \A k \in 1 .. Len(queued) : queued[k] # n
<1> SUFFICES ASSUME NEW k \in 1 .. Len(queued), queued[k] = n
             PROVE  FALSE
  OBVIOUS
<1>1. k \in 1 .. Capacity - 1 /\ k \in Nat /\ nt.close_before_index \in Nat /\ k # 0
  BY Geometry
<1>2. ~ k >= nt.close_before_index
  BY <1>1 DEF IInv, PdaRecords
<1>3. PICK m \in 0 .. nt.next_index - 1 :
        nt.roots[i] = QueuedTree(m) /\ m + 1 >= nt.close_before_index
  BY DEF IInv, RootHistory
<1>4. k \in 1 .. m
  BY <1>1, <1>2, <1>3, Geometry, SMTT(60)
<1>5. <<k, n>> \in QueuedTree(m)
  BY <1>4 DEF QueuedTree
<1> QED  BY <1>1, <1>3, <1>5 DEF Contains

\* Appending a slice of the queue to the tree of what precedes it gives the tree
\* of the queue up to the end of the slice.
LEMMA ExtendBySlice ==
    ASSUME queued \in Seq(Nullifiers), NEW m \in Nat, NEW len \in Nat, NEW chain,
           IsQueueSlice(queued, chain, m + 1, len)
    PROVE  Extend(QueuedTree(m), m + 1, chain) = QueuedTree(m + len)
<1>1. Len(chain) = len /\ \A k \in 1 .. len : chain[k] = queued[(m + 1) + k - 1]
  BY Zenon DEF IsQueueSlice
<1>2. \A k \in 1 .. len : <<(m + 1) + k - 1, chain[k]>> = <<m + k, queued[m + k]>>
  BY <1>1
<1>3. Extend(QueuedTree(m), m + 1, chain)
        = QueuedTree(m) \cup {<<m + k, queued[m + k]>> : k \in 1 .. len}
  <2>1. {<<(m + 1) + k - 1, chain[k]>> : k \in 1 .. len}
          = {<<m + k, queued[m + k]>> : k \in 1 .. len}
    BY ONLY <1>2, Zenon
  <2> QED  BY <1>1, <2>1, Zenon DEF Extend
<1>4. ASSUME NEW i \in 1 .. m + len
      PROVE  i \in 1 .. m \/ \E k \in 1 .. len : i = m + k
  <2>1. CASE i <= m
    BY <2>1
  <2>2. CASE ~ i <= m
    <3>1. i - m \in 1 .. len /\ i = m + (i - m)
      BY <2>2
    <3> QED  BY <3>1
  <2> QED  BY <2>1, <2>2
<1>5. /\ \A k \in 1 .. len : m + k \in 1 .. m + len
      /\ \A i \in 1 .. m : i \in 1 .. m + len
  OBVIOUS
<1>6. QueuedTree(m) \cup {<<m + k, queued[m + k]>> : k \in 1 .. len} \subseteq QueuedTree(m + len)
  BY <1>5 DEF QueuedTree
<1>7. QueuedTree(m + len) \subseteq QueuedTree(m) \cup {<<m + k, queued[m + k]>> : k \in 1 .. len}
  BY <1>4, Zenon DEF QueuedTree
<1> QED  BY <1>3, <1>6, <1>7, Zenon

\* Where the cascade stands when it finds an update: the slot's chain follows the
\* tree on chain in the queue, and its batch is not Inserted.
LEMMA CascadePosition ==
    ASSUME IInv, HasNextUpdate(nt)
    PROVE  LET pb == PendingBatch(nt)
               a  == NextUpdateIndex(nt)
           IN  /\ a \in ZkpIndices
               /\ a < pb.num_full_zkp_batches
               /\ pb.state \in {"Fill", "Full"}
               /\ nt.next_index = pb.start_index + Offset(a)
               /\ IsQueueSlice(queued, pb.hash_chains[a], nt.next_index, ZkpBatchSize)
               /\ GetRoot(nt) = QueuedTree(nt.next_index - 1)
               /\ nt.current_index = NextSlot(a)
               /\ nt.next_index + ZkpBatchSize <= nt.queue_next_index
               /\ NextUpdate(nt).new_root =
                     Extend(NextUpdate(nt).old_root, nt.next_index, pb.hash_chains[a])
               /\ NextUpdate(nt) \in CachedUpdates /\ NextUpdate(nt).occupied
<1> DEFINE c  == nt.currently_processing_batch_index
           p  == nt.pending_batch_index
           pb == PendingBatch(nt)
           a  == NextUpdateIndex(nt)
<1>1. p \in BatchIndices /\ pb \in BatchType /\ pb = nt.batches[p] /\ BatchCounters(pb)
  BY Geometry, SMTT(60) DEF PendingBatch
<1>2. a \in ZkpIndices /\ a # ZkpBatches /\ pb.cached_tree_updates[a].occupied
      /\ a = pb.num_inserted_zkp_batches
  <2>1. /\ a = pb.num_inserted_zkp_batches /\ a < ZkpBatches
        /\ pb.cached_tree_updates[a].occupied
    BY Zenon DEF HasNextUpdate, NextUpdateIndex
  <2> HIDE DEF pb, a
  <2>2. a \in 0 .. ZkpBatches
    BY <1>1, <2>1, SMTT(60) DEF BatchType
  <2> QED  BY <2>1, <2>2, LayoutAssumption DEF ZkpIndices
<1>3. /\ a < pb.num_full_zkp_batches
      /\ NextUpdate(nt).new_root =
            Extend(NextUpdate(nt).old_root, pb.start_index + Offset(a), pb.hash_chains[a])
  <2>1. CachedUpdatesVerified
    BY DEF IInv
  <2>2. NextUpdate(nt) = pb.cached_tree_updates[a]
    BY Zenon DEF NextUpdate
  <2> HIDE DEF p, pb, a
  <2> QED  BY <1>1, <1>2, <2>1, <2>2, SMTT(60) DEF CachedUpdatesVerified
<1>4. NextUpdate(nt) \in CachedUpdates /\ NextUpdate(nt).occupied
  BY <1>1, <1>2, SMTT(60) DEF NextUpdate, BatchType
<1>5. pb.state \in {"Fill", "Full"}
  BY <1>1, <1>2, SMTT(60) DEF BatchType, BatchCounters
<1>6. nt.next_index = AppliedUpTo(pb)
  <2>1. CASE c = p
    <3>1. CurrentIsPending(nt, pb, nt.batches[NextBatch(c)])
      BY <2>1 DEF IInv, QueueGeometry, CurrentBatch, PendingBatch
    <3> QED  BY <1>5, <3>1, SMTT(60) DEF CurrentIsPending
  <2>2. CASE c # p
    <3>1. CurrentIsAhead(nt, CurrentBatch(nt), pb)
      BY <2>2 DEF IInv, QueueGeometry
    <3> QED  BY <3>1 DEF CurrentIsAhead
  <2> QED  BY <2>1, <2>2
<1>7. nt.next_index = pb.start_index + Offset(a)
  BY <1>2, <1>6 DEF AppliedUpTo
<1>8. IsQueueSlice(queued, pb.hash_chains[a], pb.start_index + Offset(a), ZkpBatchSize)
  <2>1. a <= a
    BY <1>2 DEF ZkpIndices
  <2>2. ChainsCommitToQueue
    BY DEF IInv
  <2> HIDE DEF p, pb, a
  <2> QED  BY <1>1, <1>2, <1>3, <2>1, <2>2, Zenon DEF ChainsCommitToQueue
<1>9. GetRoot(nt) = QueuedTree(nt.next_index - 1) /\ nt.current_index = NextSlot(a)
  BY <1>2, SlotFacts DEF IInv, RootHistory, GetRoot
<1>10. nt.next_index + ZkpBatchSize <= nt.queue_next_index
  BY <1>7, <1>8, Geometry DEF IsQueueSlice
<1> QED  BY <1>2, <1>3, <1>4, <1>5, <1>7, <1>8, <1>9, <1>10, SMTT(60)

=============================================================================
