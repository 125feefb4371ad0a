------------------------ MODULE NullifierTreeUpdate -------------------------
(***************************************************************************)
(* Verifying, evicting and applying cached tree updates keeps the inductive *)
(* invariant of NullifierTree.                                             *)
(***************************************************************************)
EXTENDS NullifierTreeLemmas

-----------------------------------------------------------------------------
(***************************************************************************)
(* Steps that only write or free a slot of the cache.                      *)
(***************************************************************************)

\* The two batches differ at most in their cached updates.
SameButCache(b, nb) ==
    /\ nb.state = b.state
    /\ nb.num_inserted = b.num_inserted
    /\ nb.num_full_zkp_batches = b.num_full_zkp_batches
    /\ nb.num_inserted_zkp_batches = b.num_inserted_zkp_batches
    /\ nb.start_index = b.start_index
    /\ nb.hash_chains = b.hash_chains

\* Writing the cache of the pending batch changes nothing else of the account.
LEMMA CacheWrite ==
    ASSUME IInv, NEW j \in ZkpIndices, NEW u \in CachedUpdates,
           nt' = [nt EXCEPT !.batches[nt.pending_batch_index] =
                     CacheTreeUpdate(PendingBatch(nt), j, u)]
    PROVE  /\ nt' \in LayoutType
           /\ \A x \in BatchIndices : SameButCache(nt.batches[x], nt'.batches[x])
           /\ nt'.next_index = nt.next_index
           /\ nt'.queue_next_index = nt.queue_next_index
           /\ nt'.close_before_index = nt.close_before_index
           /\ nt'.currently_processing_batch_index = nt.currently_processing_batch_index
           /\ nt'.pending_batch_index = nt.pending_batch_index
           /\ nt'.current_index = nt.current_index
           /\ nt'.roots = nt.roots
           /\ \A x \in BatchIndices, k \in ZkpIndices :
                 nt'.batches[x].cached_tree_updates[k] =
                     IF x = nt.pending_batch_index /\ k = j
                     THEN u
                     ELSE nt.batches[x].cached_tree_updates[k]
<1> DEFINE p  == nt.pending_batch_index
           pb == PendingBatch(nt)
           nb == CacheTreeUpdate(pb, j, u)
<1>1. nt \in LayoutType /\ p \in BatchIndices /\ nt.batches \in [BatchIndices -> BatchType]
  BY Geometry DEF LayoutType
<1>2. pb \in BatchType /\ pb = nt.batches[p]
  BY <1>1 DEF PendingBatch
<1>3. nb = [pb EXCEPT !.cached_tree_updates[j] = u]
  BY DEF CacheTreeUpdate
<1>4. /\ SameButCache(pb, nb)
      /\ nb.cached_tree_updates = [pb.cached_tree_updates EXCEPT ![j] = u]
      /\ pb.cached_tree_updates \in [ZkpIndices -> CachedUpdates]
  BY <1>2, <1>3, SMTT(60) DEF BatchType, SameButCache
<1>5. nb \in BatchType
  <2> HIDE DEF pb, nb
  <2>1. [pb.cached_tree_updates EXCEPT ![j] = u] \in [ZkpIndices -> CachedUpdates]
    BY <1>4
  <2> QED  BY <1>2, <1>3, <2>1, Zenon DEF BatchType
<1>6. nt' = [nt EXCEPT !.batches[p] = nb]
  OBVIOUS
<1> HIDE DEF p, pb, nb
<1>7. nt' \in LayoutType
  BY <1>1, <1>5, <1>6 DEF LayoutType
<1>8. /\ nt'.next_index = nt.next_index
      /\ nt'.queue_next_index = nt.queue_next_index
      /\ nt'.close_before_index = nt.close_before_index
      /\ nt'.currently_processing_batch_index = nt.currently_processing_batch_index
      /\ nt'.pending_batch_index = nt.pending_batch_index
      /\ nt'.current_index = nt.current_index
      /\ nt'.roots = nt.roots
      /\ nt'.batches = [nt.batches EXCEPT ![p] = nb]
  BY <1>1, <1>6 DEF LayoutType
<1>9. \A x \in BatchIndices : nt'.batches[x] = IF x = p THEN nb ELSE nt.batches[x]
  <2>1. nt'.batches = [nt.batches EXCEPT ![p] = nb]
    BY <1>8
  <2> QED  BY <1>1, <2>1
<1>10. \A x \in BatchIndices : SameButCache(nt.batches[x], nt'.batches[x])
  BY <1>2, <1>4, <1>9 DEF SameButCache
<1>11. ASSUME NEW x \in BatchIndices, NEW k \in ZkpIndices
       PROVE  nt'.batches[x].cached_tree_updates[k] =
                 IF x = p /\ k = j THEN u ELSE nt.batches[x].cached_tree_updates[k]
  <2>1. CASE x = p
    BY <1>2, <1>4, <1>9, <2>1
  <2>2. CASE x # p
    BY <1>9, <2>2
  <2> QED  BY <2>1, <2>2
<1> QED  BY <1>7, <1>8, <1>10, <1>11, SMTT(60) DEF p

\* The invariant's parts that do not mention the cache survive such a step.
LEMMA CacheOnlyStep ==
    ASSUME IInv, UNCHANGED <<nullifier_pdas, queued>>,
           nt'.next_index = nt.next_index,
           nt'.queue_next_index = nt.queue_next_index,
           nt'.close_before_index = nt.close_before_index,
           nt'.currently_processing_batch_index = nt.currently_processing_batch_index,
           nt'.pending_batch_index = nt.pending_batch_index,
           nt'.current_index = nt.current_index,
           nt'.roots = nt.roots,
           \A x \in BatchIndices : SameButCache(nt.batches[x], nt'.batches[x])
    PROVE  /\ QueueGeometry' /\ ChainsCommitToQueue' /\ RootHistory' /\ PdaRecords'
           /\ WatermarkLag' /\ SpentOnce'
<1> DEFINE c == nt.currently_processing_batch_index
           p == nt.pending_batch_index
<1>1. c \in BatchIndices /\ p \in BatchIndices /\ NextBatch(c) \in BatchIndices
  BY Geometry, BatchIndexFacts
<1>2. /\ SameButCache(CurrentBatch(nt), CurrentBatch(nt'))
      /\ SameButCache(PendingBatch(nt), PendingBatch(nt'))
      /\ SameButCache(nt.batches[NextBatch(c)], nt'.batches[NextBatch(c)])
  BY <1>1 DEF CurrentBatch, PendingBatch
<1>3. ASSUME NEW b, NEW nb, SameButCache(b, nb)
      PROVE  /\ FilledUpTo(nb) = FilledUpTo(b) /\ AppliedUpTo(nb) = AppliedUpTo(b)
             /\ Untouched(nb) = Untouched(b) /\ BatchCounters(b) => BatchCounters(nb)
  BY <1>3 DEF SameButCache, FilledUpTo, AppliedUpTo, Untouched, BatchCounters
<1>4. QueueGeometry'
  <2>1. (\A x \in BatchIndices : BatchCounters(nt.batches[x]))'
    BY <1>3, Geometry, SMTT(60) DEF BatchCounters, SameButCache
  <2>2. Len(queued') + 1 = nt'.queue_next_index
    BY Geometry
  <2>3. ASSUME c = p
        PROVE  CurrentIsPending(nt', CurrentBatch(nt'), nt'.batches[NextBatch(c)])
    <3>1. CurrentIsPending(nt, CurrentBatch(nt), nt.batches[NextBatch(c)])
      BY <2>3 DEF IInv, QueueGeometry
    <3> QED  BY <1>2, <1>3, <3>1, SMTT(60) DEF CurrentIsPending, SameButCache, Untouched
  <2>4. ASSUME c # p
        PROVE  CurrentIsAhead(nt', CurrentBatch(nt'), PendingBatch(nt'))
    <3>1. CurrentIsAhead(nt, CurrentBatch(nt), PendingBatch(nt))
      BY <2>4 DEF IInv, QueueGeometry
    <3> QED  BY <1>2, <1>3, <3>1, SMTT(60) DEF CurrentIsAhead, SameButCache
  <2> QED  BY <2>1, <2>2, <2>3, <2>4 DEF QueueGeometry
<1>5. ChainsCommitToQueue'
  <2>1. ChainsCommitToQueue
    BY DEF IInv
  <2> QED  BY <2>1, SMTT(60) DEF ChainsCommitToQueue, SameButCache
<1>6. RootHistory'
  <2>1. /\ PendingBatch(nt').start_index = PendingBatch(nt).start_index
        /\ NextUpdateIndex(nt') = NextUpdateIndex(nt)
    BY <1>2 DEF SameButCache, NextUpdateIndex
  <2>2. \A k \in ZkpIndices : WrittenByPending(k)' = WrittenByPending(k)
    BY <2>1 DEF WrittenByPending
  <2>3. \A m : QueuedTree(m)' = QueuedTree(m)
    BY DEF QueuedTree
  <2>4. RootHistory
    BY DEF IInv
  <2> QED  BY <2>1, <2>2, <2>3, <2>4 DEF RootHistory
<1>7. PdaRecords' /\ SpentOnce'
  BY DEF IInv, PdaRecords, SpentOnce
<1>8. WatermarkLag'
  BY <1>2 DEF IInv, WatermarkLag, SameButCache
<1> QED  BY <1>4, <1>5, <1>6, <1>7, <1>8

\* The trees a batch-append proof may start from are trees of the account.
LEMMA WitnessTreesAreTrees ==
    ASSUME IInv
    PROVE  WitnessTrees \subseteq Trees
<1>1. ASSUME NEW m \in 0 .. Len(queued)
      PROVE  QueuedTree(m) \in Trees
  <2>1. ASSUME NEW k \in 1 .. m
        PROVE  k \in 1 .. Capacity - 1 /\ queued[k] \in Nullifiers
    <3>1. k \in 1 .. Len(queued)
      BY Geometry
    <3> QED  BY <3>1, Geometry
  <2> QED  BY <2>1 DEF QueuedTree, Trees
<1> QED  BY <1>1, ForeignTreesAssumption DEF WitnessTrees

\* What a verified proof appends lies in the tree.
LEMMA ExtendIsTree ==
    ASSUME NEW old \in Trees, NEW start \in Nat \ {0}, NEW chain \in Seq(Nullifiers),
           start + Len(chain) <= Capacity
    PROVE  Extend(old, start, chain) \in Trees
<1>1. ASSUME NEW k \in 1 .. Len(chain)
      PROVE  start + k - 1 \in 1 .. Capacity - 1 /\ chain[k] \in Nullifiers
  BY LayoutAssumption
<1> QED  BY <1>1 DEF Extend, Trees

\* Verifying a proof, whatever tree it starts from, keeps the invariant.
LEMMA BatchUpdateStep ==
    ASSUME IInv, NEW j \in ZkpIndices, NEW old \in WitnessTrees,
           BatchUpdateNullifierTree(j, old)
    PROVE  IInv'
<1> DEFINE p     == nt.pending_batch_index
           pb    == PendingBatch(nt)
           start == ZkpBatchStartIndex(nt, j)
           new   == Extend(old, start, pb.hash_chains[j])
           u     == CachedTreeUpdate(old, new)
<1>1. /\ j < pb.num_full_zkp_batches /\ j >= pb.num_inserted_zkp_batches
      /\ start + Len(pb.hash_chains[j]) <= Capacity
      /\ cascading' = TRUE /\ nullifier_pdas' = nullifier_pdas /\ queued' = queued
      /\ nt' = [nt EXCEPT !.batches[p] = CacheTreeUpdate(pb, j, u)]
  BY DEF BatchUpdateNullifierTree, CanCacheUpdate, VerifyProofCacheUpdate, Appendable
<1>2. p \in BatchIndices /\ pb \in BatchType /\ pb = nt.batches[p]
  BY Geometry DEF PendingBatch
<1>3. pb.hash_chains[j] \in Seq(Nullifiers) /\ pb.start_index \in Nat \ {0}
  BY <1>2 DEF BatchType
<1>4. start \in Nat \ {0}
  <2>1. Offset(j) \in Nat
    BY OffsetFacts DEF ZkpIndices
  <2> QED  BY <1>3, <2>1 DEF ZkpBatchStartIndex
<1>5. old \in Trees /\ new \in Trees
  <2> HIDE DEF start, pb
  <2> QED  BY <1>1, <1>3, <1>4, WitnessTreesAreTrees, ExtendIsTree
<1>6. u \in CachedUpdates /\ u.occupied /\ u.old_root = old /\ u.new_root = new
  <2> HIDE DEF new
  <2> QED  BY <1>5 DEF CachedUpdates, CachedTreeUpdate
<1> HIDE DEF u
<1>7. /\ nt' \in LayoutType
      /\ \A x \in BatchIndices : SameButCache(nt.batches[x], nt'.batches[x])
      /\ nt'.next_index = nt.next_index
      /\ nt'.queue_next_index = nt.queue_next_index
      /\ nt'.close_before_index = nt.close_before_index
      /\ nt'.currently_processing_batch_index = nt.currently_processing_batch_index
      /\ nt'.pending_batch_index = nt.pending_batch_index
      /\ nt'.current_index = nt.current_index
      /\ nt'.roots = nt.roots
  BY <1>1, <1>6, CacheWrite
<1>8. \A x \in BatchIndices, k \in ZkpIndices :
          nt'.batches[x].cached_tree_updates[k] =
              IF x = p /\ k = j THEN u ELSE nt.batches[x].cached_tree_updates[k]
  BY <1>1, <1>6, CacheWrite
<1>9. TypeOK'
  BY <1>1, <1>7 DEF IInv, TypeOK
<1>10. /\ QueueGeometry' /\ ChainsCommitToQueue' /\ RootHistory' /\ PdaRecords'
       /\ WatermarkLag' /\ SpentOnce'
  BY <1>1, <1>7, CacheOnlyStep
<1>11. CachedUpdatesVerified'
  <2> SUFFICES ASSUME NEW x \in BatchIndices, NEW k \in ZkpIndices,
                      nt'.batches[x].cached_tree_updates[k].occupied
               PROVE  LET b == nt'.batches[x]
                          v == b.cached_tree_updates[k]
                      IN  /\ x = nt'.pending_batch_index
                          /\ b.num_inserted_zkp_batches <= k
                          /\ k < b.num_full_zkp_batches
                          /\ v.new_root = Extend(v.old_root, b.start_index + Offset(k), b.hash_chains[k])
    BY DEF CachedUpdatesVerified
  <2>1. SameButCache(nt.batches[x], nt'.batches[x])
    BY <1>7
  <2>2. CASE x = p /\ k = j
    <3>1. nt'.batches[x].cached_tree_updates[k] = u
      BY <1>8, <2>2
    <3>2. u.new_root = Extend(u.old_root, pb.start_index + Offset(j), pb.hash_chains[j])
      BY <1>6 DEF ZkpBatchStartIndex
    <3>3. pb.num_inserted_zkp_batches \in Nat /\ j \in Nat
      BY <1>2, LayoutAssumption DEF BatchType, ZkpIndices
    <3>4. pb.num_inserted_zkp_batches <= j /\ j < pb.num_full_zkp_batches
      BY <1>1, <3>3
    <3>5. SameButCache(pb, nt'.batches[x]) /\ x = nt'.pending_batch_index /\ k = j
      BY <1>2, <1>7, <2>1, <2>2
    <3> HIDE DEF pb, p
    <3> QED  BY <3>1, <3>2, <3>4, <3>5 DEF SameButCache
  <2>3. CASE ~ (x = p /\ k = j)
    <3>1. nt'.batches[x].cached_tree_updates[k] = nt.batches[x].cached_tree_updates[k]
      BY <1>8, <2>3
    <3>2. LET b == nt.batches[x]
              v == b.cached_tree_updates[k]
          IN  /\ x = nt.pending_batch_index
              /\ b.num_inserted_zkp_batches <= k
              /\ k < b.num_full_zkp_batches
              /\ v.new_root = Extend(v.old_root, b.start_index + Offset(k), b.hash_chains[k])
      BY <3>1, SMTT(60) DEF IInv, CachedUpdatesVerified
    <3>3. /\ nt'.batches[x].num_inserted_zkp_batches = nt.batches[x].num_inserted_zkp_batches
          /\ nt'.batches[x].num_full_zkp_batches = nt.batches[x].num_full_zkp_batches
          /\ nt'.batches[x].start_index = nt.batches[x].start_index
          /\ nt'.batches[x].hash_chains = nt.batches[x].hash_chains
      BY <2>1, Zenon DEF SameButCache
    <3>4. nt'.pending_batch_index = nt.pending_batch_index
      BY <1>7
    <3> QED  BY <3>1, <3>2, <3>3, <3>4, Zenon
  <2> QED  BY <2>2, <2>3
<1>12. NextSlotFree'
  BY <1>1 DEF NextSlotFree
<1> QED  BY <1>9, <1>10, <1>11, <1>12 DEF IInv

\* Evicting an update from a root the tree does not have keeps the invariant.
LEMMA EvictStep ==
    ASSUME IInv, EvictCachedUpdate
    PROVE  IInv'
<1> DEFINE p  == nt.pending_batch_index
           pb == PendingBatch(nt)
           j  == NextUpdateIndex(nt)
<1>1. /\ cascading' = FALSE /\ nullifier_pdas' = nullifier_pdas /\ queued' = queued
      /\ nt' = [nt EXCEPT !.batches[p] = CacheTreeUpdate(pb, j, NoUpdate)]
      /\ j < ZkpBatches
  BY DEF EvictCachedUpdate, EvictNextUpdate, EvictCachedTreeUpdate, HasNextUpdate
<1>2. p \in BatchIndices /\ pb \in BatchType /\ pb = nt.batches[p]
  BY Geometry DEF PendingBatch
<1>3. j \in ZkpIndices
  BY <1>1, <1>2, LayoutAssumption, SMTT(60) DEF BatchType, NextUpdateIndex, ZkpIndices
<1>4. NoUpdate \in CachedUpdates /\ ~ NoUpdate.occupied
  BY DEF CachedUpdates, NoUpdate
<1> HIDE DEF j
<1>5. /\ nt' \in LayoutType
      /\ \A x \in BatchIndices : SameButCache(nt.batches[x], nt'.batches[x])
      /\ nt'.next_index = nt.next_index
      /\ nt'.queue_next_index = nt.queue_next_index
      /\ nt'.close_before_index = nt.close_before_index
      /\ nt'.currently_processing_batch_index = nt.currently_processing_batch_index
      /\ nt'.pending_batch_index = nt.pending_batch_index
      /\ nt'.current_index = nt.current_index
      /\ nt'.roots = nt.roots
  BY <1>1, <1>3, <1>4, CacheWrite
<1>6. \A x \in BatchIndices, k \in ZkpIndices :
          nt'.batches[x].cached_tree_updates[k] =
              IF x = p /\ k = j THEN NoUpdate ELSE nt.batches[x].cached_tree_updates[k]
  BY <1>1, <1>3, <1>4, CacheWrite
<1>7. TypeOK'
  BY <1>1, <1>5, Zenon DEF IInv, TypeOK
<1>8. /\ QueueGeometry' /\ ChainsCommitToQueue' /\ RootHistory' /\ PdaRecords'
      /\ WatermarkLag' /\ SpentOnce'
  BY <1>1, <1>5, CacheOnlyStep
<1>9. CachedUpdatesVerified'
  <2> SUFFICES ASSUME NEW x \in BatchIndices, NEW k \in ZkpIndices,
                      nt'.batches[x].cached_tree_updates[k].occupied
               PROVE  LET b == nt'.batches[x]
                          v == b.cached_tree_updates[k]
                      IN  /\ x = nt'.pending_batch_index
                          /\ b.num_inserted_zkp_batches <= k
                          /\ k < b.num_full_zkp_batches
                          /\ v.new_root = Extend(v.old_root, b.start_index + Offset(k), b.hash_chains[k])
    BY SMTT(60) DEF CachedUpdatesVerified
  <2>1. SameButCache(nt.batches[x], nt'.batches[x])
    BY <1>5
  <2>2. nt'.batches[x].cached_tree_updates[k] = nt.batches[x].cached_tree_updates[k]
    BY <1>4, <1>6
  <2>3. LET b == nt.batches[x]
            v == b.cached_tree_updates[k]
        IN  /\ x = nt.pending_batch_index
            /\ b.num_inserted_zkp_batches <= k
            /\ k < b.num_full_zkp_batches
            /\ v.new_root = Extend(v.old_root, b.start_index + Offset(k), b.hash_chains[k])
    BY <2>2, SMTT(60) DEF IInv, CachedUpdatesVerified
  <2>4. /\ nt'.batches[x].num_inserted_zkp_batches = nt.batches[x].num_inserted_zkp_batches
        /\ nt'.batches[x].num_full_zkp_batches = nt.batches[x].num_full_zkp_batches
        /\ nt'.batches[x].start_index = nt.batches[x].start_index
        /\ nt'.batches[x].hash_chains = nt.batches[x].hash_chains
    BY <2>1, Zenon DEF SameButCache
  <2>5. nt'.pending_batch_index = nt.pending_batch_index
    BY <1>5
  <2> QED  BY <2>2, <2>3, <2>4, <2>5, Zenon
<1>10. NextSlotFree'
  <2>1. NextUpdateIndex(nt') = j /\ PendingBatch(nt') = nt'.batches[p]
    BY <1>2, <1>5 DEF NextUpdateIndex, PendingBatch, SameButCache, j
  <2>2. ~ nt'.batches[p].cached_tree_updates[j].occupied
    BY <1>2, <1>3, <1>4, <1>6
  <2> QED  BY <2>1, <2>2 DEF NextSlotFree, HasNextUpdate
<1> QED  BY <1>7, <1>8, <1>9, <1>10 DEF IInv

-----------------------------------------------------------------------------
(***************************************************************************)
(* Applying a cached update.                                               *)
(***************************************************************************)

\* mark_as_inserted_in_merkle_tree and clear_cached_tree_update on the next ZKP
\* batch of a batch: the last one turns a Full batch Inserted.
LEMMA AppliedBatch ==
    ASSUME NEW pb \in BatchType, BatchCounters(pb), pb.state \in {"Fill", "Full"},
           NEW a \in ZkpIndices, a = pb.num_inserted_zkp_batches,
           a < pb.num_full_zkp_batches
    PROVE  LET b == ClearCachedTreeUpdate(MarkAsInsertedInMerkleTree(pb), a)
           IN  /\ b \in BatchType /\ BatchCounters(b)
               /\ b.num_inserted = pb.num_inserted
               /\ b.num_full_zkp_batches = pb.num_full_zkp_batches
               /\ b.num_inserted_zkp_batches = a + 1
               /\ b.start_index = pb.start_index
               /\ b.state = IF a + 1 = ZkpBatches THEN "Inserted" ELSE pb.state
               /\ a + 1 = ZkpBatches => pb.state = "Full"
               /\ b.hash_chains[a] = << >>
               /\ b.cached_tree_updates[a] = NoUpdate
               /\ \A k \in ZkpIndices : k # a =>
                     /\ b.hash_chains[k] = pb.hash_chains[k]
                     /\ b.cached_tree_updates[k] = pb.cached_tree_updates[k]
<1> DEFINE b     == ClearCachedTreeUpdate(MarkAsInsertedInMerkleTree(pb), a)
           state == IF a + 1 = ZkpBatches THEN "Inserted" ELSE pb.state
<1>1. /\ a \in Nat /\ pb.num_full_zkp_batches \in Nat /\ pb.num_full_zkp_batches <= ZkpBatches
      /\ ZkpBatches \in Nat
  BY LayoutAssumption DEF BatchType, ZkpIndices
<1>2. a + 1 \in 0 .. ZkpBatches /\ a + 1 <= pb.num_full_zkp_batches
  BY <1>1
<1>3. a + 1 = ZkpBatches => pb.state = "Full"
  BY <1>1 DEF BatchCounters
<1>4. /\ pb.hash_chains \in [ZkpIndices -> Seq(Nullifiers)]
      /\ pb.cached_tree_updates \in [ZkpIndices -> CachedUpdates]
      /\ << >> \in Seq(Nullifiers) /\ NoUpdate \in CachedUpdates
  <2>1. NoUpdate \in CachedUpdates
    BY DEF CachedUpdates
  <2> QED  BY <2>1 DEF BatchType
<1>5. b = [pb EXCEPT !.num_inserted_zkp_batches = a + 1,
                     !.state = state,
                     !.cached_tree_updates[a] = NoUpdate,
                     !.hash_chains[a] = << >>]
  BY DEF ClearCachedTreeUpdate, EvictCachedTreeUpdate, CacheTreeUpdate,
         MarkAsInsertedInMerkleTree, BatchType
<1> HIDE DEF b, state
<1>6. /\ b.num_inserted = pb.num_inserted
      /\ b.num_full_zkp_batches = pb.num_full_zkp_batches
      /\ b.num_inserted_zkp_batches = a + 1
      /\ b.start_index = pb.start_index
      /\ b.state = state
      /\ b.hash_chains = [pb.hash_chains EXCEPT ![a] = << >>]
      /\ b.cached_tree_updates = [pb.cached_tree_updates EXCEPT ![a] = NoUpdate]
  BY <1>5 DEF BatchType
<1>7. b \in BatchType
  <2>1. state \in {"Fill", "Full", "Inserted"}
    BY DEF state
  <2>2. /\ [pb.hash_chains EXCEPT ![a] = << >>] \in [ZkpIndices -> Seq(Nullifiers)]
        /\ [pb.cached_tree_updates EXCEPT ![a] = NoUpdate] \in [ZkpIndices -> CachedUpdates]
    BY <1>4
  <2> QED  BY <1>2, <1>5, <2>1, <2>2, Zenon DEF BatchType
<1>8. BatchCounters(b)
  <2>1. b.state = "Inserted" => a + 1 = ZkpBatches
    BY <1>6 DEF state
  <2>2. b.state # "Inserted" => b.state = pb.state /\ a + 1 # ZkpBatches
    BY <1>6 DEF state
  <2>3. CASE b.state = "Inserted"
    <3>1. pb.num_inserted = 0 /\ pb.num_full_zkp_batches = ZkpBatches
      BY <1>3, <2>1, <2>3 DEF BatchCounters
    <3> QED  BY <1>1, <1>2, <1>6, <2>1, <2>3, <3>1 DEF BatchCounters
  <2>4. CASE b.state # "Inserted"
    BY <1>1, <1>2, <1>6, <2>2, <2>4 DEF BatchCounters
  <2> QED  BY <2>3, <2>4
<1>9. /\ b.hash_chains[a] = << >> /\ b.cached_tree_updates[a] = NoUpdate
      /\ \A k \in ZkpIndices : k # a =>
            /\ b.hash_chains[k] = pb.hash_chains[k]
            /\ b.cached_tree_updates[k] = pb.cached_tree_updates[k]
  BY <1>4, <1>6
<1> QED  BY <1>3, <1>6, <1>7, <1>8, <1>9 DEF b, state

\* Applying the next cached update keeps the invariant.
LEMMA ApplyStep ==
    ASSUME IInv, ApplyCachedUpdate
    PROVE  IInv'
<1> DEFINE c  == nt.currently_processing_batch_index
           p  == nt.pending_batch_index
           pb == PendingBatch(nt)
           a  == NextUpdateIndex(nt)
           b  == ClearCachedTreeUpdate(MarkAsInsertedInMerkleTree(pb), a)
           ob == nt.batches[NextBatch(p)]
           root  == NextUpdate(nt).new_root
           close == CloseWatermark(nt, b)
<1>1. /\ cascading /\ HasNextUpdate(nt) /\ NextUpdate(nt).old_root = GetRoot(nt)
      /\ nt' = ApplyNextUpdate(nt)
      /\ nullifier_pdas' = nullifier_pdas /\ queued' = queued /\ cascading' = cascading
  BY DEF ApplyCachedUpdate
<1>2. /\ a \in ZkpIndices /\ a < pb.num_full_zkp_batches
      /\ pb.state \in {"Fill", "Full"}
      /\ nt.next_index = pb.start_index + Offset(a)
      /\ IsQueueSlice(queued, pb.hash_chains[a], nt.next_index, ZkpBatchSize)
      /\ GetRoot(nt) = QueuedTree(nt.next_index - 1)
      /\ nt.current_index = NextSlot(a)
      /\ nt.next_index + ZkpBatchSize <= nt.queue_next_index
      /\ root = Extend(NextUpdate(nt).old_root, nt.next_index, pb.hash_chains[a])
      /\ NextUpdate(nt) \in CachedUpdates /\ NextUpdate(nt).occupied
  BY <1>1, CascadePosition
<1>3. /\ c \in BatchIndices /\ p \in BatchIndices /\ NextBatch(p) \in BatchIndices
      /\ NextBatch(p) # p /\ NextBatch(NextBatch(p)) = p
      /\ \A x \in BatchIndices : x # p => x = NextBatch(p)
  BY Geometry, BatchIndexFacts
<1>4. /\ pb \in BatchType /\ BatchCounters(pb) /\ pb = nt.batches[p]
      /\ ob \in BatchType /\ BatchCounters(ob)
  BY <1>3, Geometry DEF PendingBatch
<1>5. /\ b \in BatchType /\ BatchCounters(b)
      /\ b.num_inserted = pb.num_inserted
      /\ b.num_full_zkp_batches = pb.num_full_zkp_batches
      /\ b.num_inserted_zkp_batches = a + 1
      /\ b.start_index = pb.start_index
      /\ b.state = IF a + 1 = ZkpBatches THEN "Inserted" ELSE pb.state
      /\ a + 1 = ZkpBatches => pb.state = "Full"
      /\ b.hash_chains[a] = << >>
      /\ b.cached_tree_updates[a] = NoUpdate
      /\ \A k \in ZkpIndices : k # a =>
            /\ b.hash_chains[k] = pb.hash_chains[k]
            /\ b.cached_tree_updates[k] = pb.cached_tree_updates[k]
  <2>1. a = pb.num_inserted_zkp_batches
    BY DEF NextUpdateIndex
  <2> HIDE DEF pb, a
  <2> QED  BY <1>2, <1>4, <2>1, AppliedBatch, Zenon
<1>6. nt \in LayoutType /\ nt.batches \in [BatchIndices -> BatchType]
      /\ nt.roots \in [ZkpIndices -> Trees \cup {NoRoot}] /\ nt.current_index \in ZkpIndices
  BY Geometry DEF LayoutType
<1>7. nt' = [nt EXCEPT !.roots[nt.current_index] = root,
                       !.current_index = NextSlot(nt.current_index),
                       !.next_index = nt.next_index + ZkpBatchSize,
                       !.sequence_number = nt.sequence_number + 1,
                       !.batches[p] = b,
                       !.close_before_index = close,
                       !.pending_batch_index = IF b.state = "Inserted" THEN NextBatch(p) ELSE p]
  BY <1>1, <1>6 DEF ApplyNextUpdate, AppendRoot, LayoutType
<1> HIDE DEF root, close, b, pb, a
<1>8. /\ nt'.roots = [nt.roots EXCEPT ![nt.current_index] = root]
      /\ nt'.current_index = NextSlot(nt.current_index)
      /\ nt'.next_index = nt.next_index + ZkpBatchSize
      /\ nt'.batches = [nt.batches EXCEPT ![p] = b]
      /\ nt'.close_before_index = close
      /\ nt'.pending_batch_index = IF b.state = "Inserted" THEN NextBatch(p) ELSE p
      /\ nt'.currently_processing_batch_index = c
      /\ nt'.queue_next_index = nt.queue_next_index
  BY <1>6, <1>7 DEF LayoutType
<1>9. /\ nt'.batches[p] = b /\ nt'.batches[NextBatch(p)] = ob
      /\ \A x \in BatchIndices : x # p => nt'.batches[x] = nt.batches[x]
  <2>1. nt'.batches = [nt.batches EXCEPT ![p] = b]
    BY <1>8
  <2> QED  BY <1>3, <1>6, <2>1
<1>10. /\ a \in Nat /\ a < ZkpBatches /\ pb.start_index \in Nat \ {0} /\ ob.start_index \in Nat \ {0}
       /\ nt.next_index \in Nat \ {0} /\ nt.queue_next_index \in 1 .. Capacity
       /\ nt.close_before_index \in Nat /\ ZkpBatches \in Nat /\ ZkpBatchSize \in Nat \ {0}
       /\ BatchSize \in Nat /\ Offset(0) = 0 /\ Offset(a) \in Nat
       /\ Offset(a + 1) = Offset(a) + ZkpBatchSize /\ Offset(ZkpBatches) = BatchSize
  <2>1. a \in Nat /\ a < ZkpBatches
    BY <1>2, LayoutAssumption DEF ZkpIndices
  <2>2. pb.start_index \in Nat \ {0} /\ ob.start_index \in Nat \ {0}
    BY <1>4, SMTT(60) DEF BatchType
  <2> QED  BY <2>1, <2>2, OffsetFacts, LayoutAssumption, Geometry, Zenon
<1>11. nt'.next_index = pb.start_index + Offset(a + 1)
  BY <1>2, <1>8, <1>10
<1>12. \/ close = nt.close_before_index /\ (a + 1 = ZkpBatches => close >= pb.start_index)
       \/ close = pb.start_index /\ a + 1 = ZkpBatches /\ pb.start_index > nt.close_before_index
  <2>1. b.state = "Inserted" <=> a + 1 = ZkpBatches
    BY <1>2, <1>5
  <2> QED  BY <1>5, <1>10, <2>1, SMTT(60) DEF close, CloseWatermark
<1>13. close \in Nat /\ close >= nt.close_before_index
  BY <1>10, <1>12
<1>14. /\ a + 1 # ZkpBatches =>
             nt'.pending_batch_index = p /\ PendingBatch(nt') = b /\ b.state = pb.state
       /\ a + 1 = ZkpBatches =>
             /\ nt'.pending_batch_index = NextBatch(p) /\ PendingBatch(nt') = ob
             /\ b.state = "Inserted" /\ pb.state = "Full"
             /\ nt'.next_index = pb.start_index + BatchSize
  <2>1. b.state = "Inserted" <=> a + 1 = ZkpBatches
    BY <1>2, <1>5
  <2>2. a + 1 = ZkpBatches => nt'.next_index = pb.start_index + BatchSize
    BY <1>10, <1>11
  <2>3. a + 1 # ZkpBatches => b.state = pb.state
    BY <1>5
  <2>4. nt'.pending_batch_index = IF a + 1 = ZkpBatches THEN NextBatch(p) ELSE p
    BY <1>8, <2>1
  <2> QED  BY <1>5, <1>9, <2>1, <2>2, <2>3, <2>4 DEF PendingBatch
<1>15. /\ c = p /\ a + 1 = ZkpBatches =>
             /\ ob.state = "Full" /\ ob.num_inserted_zkp_batches = 0
             /\ ob.start_index = pb.start_index + BatchSize
             /\ pb.start_index + 2 * BatchSize = nt.queue_next_index
       /\ c # p => c = NextBatch(p) /\ CurrentIsAhead(nt, ob, pb)
       /\ c = p => CurrentIsPending(nt, pb, ob)
  <2>1. c = p => CurrentIsPending(nt, pb, ob)
    BY DEF IInv, QueueGeometry, PendingBatch, CurrentBatch, pb
  <2>2. c # p => c = NextBatch(p)
    BY <1>3
  <2>3. c # p => CurrentIsAhead(nt, ob, pb)
    BY <2>2 DEF IInv, QueueGeometry, CurrentBatch, pb
  <2>4. c = p /\ pb.state = "Full" =>
             /\ ob.state = "Full" /\ ob.num_inserted_zkp_batches = 0
             /\ ob.start_index = pb.start_index + BatchSize
             /\ pb.start_index + 2 * BatchSize = nt.queue_next_index
    BY <2>1 DEF CurrentIsPending
  <2> QED  BY <1>14, <2>1, <2>2, <2>3, <2>4, SMTT(60)
<1> HIDE DEF c, p, ob
\* The batch the cascade moves on to when the pending one is done.
<1>16. a + 1 = ZkpBatches =>
          \/ /\ ob.num_inserted_zkp_batches = 0 /\ ob.state \in {"Fill", "Full"}
             /\ ob.start_index = pb.start_index + BatchSize
          \/ /\ ob.num_inserted_zkp_batches = ZkpBatches /\ ob.state = "Inserted"
             /\ ob.start_index + BatchSize = pb.start_index
             /\ c # p
  <2>1. ob.state = "Inserted" => ob.num_inserted_zkp_batches = ZkpBatches
    BY <1>4 DEF BatchCounters
  <2>2. c # p =>
          \/ /\ ob.num_inserted_zkp_batches = 0 /\ ob.state = "Fill"
             /\ ob.start_index = pb.start_index + BatchSize
          \/ ob.state = "Inserted" /\ ob.start_index + BatchSize = pb.start_index
    BY <1>15 DEF CurrentIsAhead
  <2> QED  BY <1>15, <2>1, <2>2
<1>17. root = QueuedTree(nt'.next_index - 1) /\ root \in Trees
  <2> DEFINE m == nt.next_index - 1
  <2>1. m \in Nat /\ nt.next_index = m + 1 /\ nt'.next_index - 1 = m + ZkpBatchSize
    BY <1>8, <1>10
  <2>2. root = Extend(QueuedTree(m), nt.next_index, pb.hash_chains[a])
    BY <1>1, <1>2
  <2> HIDE DEF m
  <2>3. root = QueuedTree(m + ZkpBatchSize)
    BY <1>2, <1>10, <2>1, <2>2, Geometry, ExtendBySlice, SMTT(60)
  <2>4. root \in Trees
    <3>1. ASSUME NEW u \in CachedUpdates, u.occupied PROVE u.new_root \in Trees
      <4>1. u # NoUpdate
        BY <3>1 DEF NoUpdate
      <4>2. u \in [occupied : {TRUE}, old_root : Trees, new_root : Trees]
        BY <3>1, <4>1, Zenon DEF CachedUpdates
      <4> QED  BY <4>2
    <3>2. NextUpdate(nt) \in CachedUpdates /\ NextUpdate(nt).occupied
      BY <1>2
    <3> QED  BY <3>1, <3>2 DEF root
  <2> QED  BY <2>1, <2>3, <2>4
<1>18. TypeOK'
  <2>1. nt' \in LayoutType
    <3>1. /\ [nt.roots EXCEPT ![nt.current_index] = root] \in [ZkpIndices -> Trees \cup {NoRoot}]
          /\ [nt.batches EXCEPT ![p] = b] \in [BatchIndices -> BatchType]
          /\ (IF b.state = "Inserted" THEN NextBatch(p) ELSE p) \in BatchIndices
      BY <1>3, <1>5, <1>6, <1>17
    <3>2. nt.next_index + ZkpBatchSize \in Nat \ {0}
      BY <1>10
    <3>3. NextSlot(nt.current_index) \in ZkpIndices
      BY <1>6, SlotFacts
    <3>4. nt.sequence_number + 1 \in Nat
      BY <1>6 DEF LayoutType
    <3> QED  BY <1>6, <1>7, <1>13, <3>1, <3>2, <3>3, <3>4, Zenon DEF LayoutType
  <2> QED  BY <1>1, <2>1 DEF IInv, TypeOK
<1>19. QueueGeometry'
  <2>1. (\A x \in BatchIndices : BatchCounters(nt.batches[x]))'
    <3>1. \A x \in BatchIndices : BatchCounters(nt.batches[x])
      BY Geometry
    <3> QED  BY <1>5, <1>9, <3>1
  <2>2. Len(queued') + 1 = nt'.queue_next_index
    BY <1>1, <1>8, Geometry
  <2>3. AppliedUpTo(b) = nt'.next_index /\ FilledUpTo(b) = FilledUpTo(pb)
    BY <1>5, <1>11 DEF AppliedUpTo, FilledUpTo
  <2>4. CASE c = p /\ a + 1 # ZkpBatches
    <3>1. CurrentIsPending(nt', b, ob)
      BY <1>2, <1>5, <1>8, <1>14, <1>15, <2>3, <2>4, SMTT(60) DEF CurrentIsPending
    <3>2. nt'.currently_processing_batch_index = p /\ nt'.pending_batch_index = p
      BY <1>8, <1>14, <2>4, SMTT(60)
    <3> QED  BY <1>9, <2>1, <2>2, <3>1, <3>2 DEF QueueGeometry, CurrentBatch
  <2>5. CASE c # p /\ a + 1 # ZkpBatches
    <3>1. CurrentIsAhead(nt', ob, b)
      BY <1>5, <1>8, <1>14, <1>15, <2>3, <2>5, SMTT(60) DEF CurrentIsAhead
    <3>2. nt'.currently_processing_batch_index = NextBatch(p) /\ nt'.pending_batch_index = p
      BY <1>8, <1>14, <1>15, <2>5, SMTT(60)
    <3> QED  BY <1>3, <1>9, <2>1, <2>2, <3>1, <3>2, SMTT(60) DEF QueueGeometry, CurrentBatch, PendingBatch
  <2>6. CASE c = p /\ a + 1 = ZkpBatches
    <3>1. AppliedUpTo(ob) = ob.start_index
      BY <1>10, <1>15, <2>6 DEF AppliedUpTo
    <3>2. ob.start_index + BatchSize = nt.queue_next_index
      BY <1>10, <1>15, <2>6
    <3>3. CurrentIsAhead(nt', b, ob)
      BY <1>5, <1>8, <1>14, <1>15, <2>6, <3>1, <3>2, SMTT(60) DEF CurrentIsAhead
    <3>4. nt'.currently_processing_batch_index = p /\ nt'.pending_batch_index = NextBatch(p)
      BY <1>8, <1>14, <2>6
    <3> QED  BY <1>3, <1>9, <2>1, <2>2, <3>3, <3>4, SMTT(60) DEF QueueGeometry, CurrentBatch, PendingBatch
  <2>7. CASE c # p /\ a + 1 = ZkpBatches
    <3>1. ob.num_inserted_zkp_batches = 0 => AppliedUpTo(ob) = ob.start_index
      BY <1>10 DEF AppliedUpTo
    <3>2. \/ /\ ob.state = "Fill" /\ ob.num_inserted_zkp_batches = 0
             /\ ob.start_index = pb.start_index + BatchSize
             /\ FilledUpTo(ob) = nt.queue_next_index
          \/ /\ ob.state = "Inserted" /\ ob.start_index + BatchSize = pb.start_index
             /\ pb.start_index + BatchSize = nt.queue_next_index
      BY <1>15, <2>7 DEF CurrentIsAhead
    <3>3. ob.state = "Inserted" => ob.start_index + 2 * BatchSize = nt.queue_next_index
      BY <1>10, <3>2
    <3>4. CurrentIsPending(nt', ob, b)
      BY <1>5, <1>8, <1>14, <2>7, <3>1, <3>2, <3>3, SMTT(60) DEF CurrentIsPending
    <3>5. nt'.currently_processing_batch_index = NextBatch(p) /\ nt'.pending_batch_index = NextBatch(p)
      BY <1>8, <1>14, <1>15, <2>7, SMTT(60)
    <3> QED  BY <1>3, <1>9, <2>1, <2>2, <3>4, <3>5 DEF QueueGeometry, CurrentBatch
  <2> QED  BY <2>4, <2>5, <2>6, <2>7
<1>20. ChainsCommitToQueue'
  <2>1. ASSUME NEW x \in BatchIndices, x # p
        PROVE  nt'.batches[x] = nt.batches[x]
    BY <1>9, <2>1
  <2>2. ChainsCommitToQueue
    BY DEF IInv
  <2>3. ASSUME NEW j \in ZkpIndices
        PROVE  /\ j < b.num_inserted_zkp_batches => b.hash_chains[j] = << >>
               /\ b.num_inserted_zkp_batches <= j /\ j < b.num_full_zkp_batches =>
                     IsQueueSlice(queued, b.hash_chains[j], b.start_index + Offset(j), ZkpBatchSize)
    <3>0. j \in Nat /\ a = pb.num_inserted_zkp_batches
      BY DEF ZkpIndices, a, pb, NextUpdateIndex
    <3>1. CASE j = a
      BY <1>5, <1>10, <3>1, SMTT(60)
    <3>2. CASE j # a
      <4>1. /\ j < b.num_inserted_zkp_batches => j < pb.num_inserted_zkp_batches
            /\ b.num_inserted_zkp_batches <= j => pb.num_inserted_zkp_batches <= j
        <5>1. a \in Nat /\ b.num_inserted_zkp_batches = a + 1
          BY <1>5, <1>10, Zenon
        <5> HIDE DEF pb, a, b
        <5> QED  BY <3>0, <3>2, <5>1
      <4>2. /\ j < pb.num_inserted_zkp_batches => pb.hash_chains[j] = << >>
            /\ pb.num_inserted_zkp_batches <= j /\ j < pb.num_full_zkp_batches =>
                  IsQueueSlice(queued, pb.hash_chains[j], pb.start_index + Offset(j), ZkpBatchSize)
        BY <1>3, <1>4, <2>2, SMTT(60) DEF ChainsCommitToQueue
      <4> QED  BY <1>5, <3>2, <4>1, <4>2, SMTT(60)
    <3> QED  BY <3>1, <3>2, SMTT(60)
  <2>4. b.num_inserted > 0 =>
            IsQueueSlice(queued, b.hash_chains[b.num_full_zkp_batches],
                b.start_index + Offset(b.num_full_zkp_batches), b.num_inserted)
    <3> SUFFICES ASSUME b.num_inserted > 0
                 PROVE  IsQueueSlice(queued, b.hash_chains[b.num_full_zkp_batches],
                            b.start_index + Offset(b.num_full_zkp_batches), b.num_inserted)
      OBVIOUS
    <3>1. pb.num_full_zkp_batches \in ZkpIndices /\ pb.num_full_zkp_batches # a
      <4>1. pb.num_inserted > 0 /\ pb.num_full_zkp_batches \in 0 .. ZkpBatches
        BY <1>4, <1>5, SMTT(60) DEF BatchType
      <4>2. pb.num_full_zkp_batches # ZkpBatches
        BY <1>2, <1>4, <4>1, SMTT(60) DEF BatchCounters
      <4> QED  BY <1>2, <1>10, <4>1, <4>2, SMTT(60) DEF ZkpIndices
    <3>2. IsQueueSlice(queued, pb.hash_chains[pb.num_full_zkp_batches],
              pb.start_index + Offset(pb.num_full_zkp_batches), pb.num_inserted)
      BY <1>3, <1>4, <1>5, <2>2, SMTT(60) DEF ChainsCommitToQueue
    <3> QED  BY <1>5, <3>1, <3>2
  <2>5. ASSUME NEW x \in BatchIndices
        PROVE  LET nb == nt'.batches[x]
               IN  /\ \A j \in ZkpIndices :
                         /\ j < nb.num_inserted_zkp_batches => nb.hash_chains[j] = << >>
                         /\ nb.num_inserted_zkp_batches <= j /\ j < nb.num_full_zkp_batches =>
                               IsQueueSlice(queued, nb.hash_chains[j], nb.start_index + Offset(j), ZkpBatchSize)
                   /\ nb.num_inserted > 0 =>
                         IsQueueSlice(queued, nb.hash_chains[nb.num_full_zkp_batches],
                             nb.start_index + Offset(nb.num_full_zkp_batches), nb.num_inserted)
    <3>1. CASE x = p
      BY <1>9, <2>3, <2>4, <3>1, SMTT(60)
    <3>2. CASE x # p
      BY <2>1, <2>2, <3>2, SMTT(60) DEF ChainsCommitToQueue
    <3> QED  BY <3>1, <3>2, SMTT(60)
  <2> QED  BY <1>1, <2>5, SMTT(60) DEF ChainsCommitToQueue
<1>21. CachedUpdatesVerified'
  <2> SUFFICES ASSUME NEW x \in BatchIndices, NEW k \in ZkpIndices,
                      nt'.batches[x].cached_tree_updates[k].occupied
               PROVE  LET nb == nt'.batches[x]
                          v  == nb.cached_tree_updates[k]
                      IN  /\ x = nt'.pending_batch_index
                          /\ nb.num_inserted_zkp_batches <= k
                          /\ k < nb.num_full_zkp_batches
                          /\ v.new_root = Extend(v.old_root, nb.start_index + Offset(k), nb.hash_chains[k])
    BY DEF CachedUpdatesVerified
  <2>1. CachedUpdatesVerified
    BY DEF IInv
  <2>2. x = p
    <3>1. ASSUME x # p PROVE FALSE
      <4>1. nt.batches[x].cached_tree_updates[k].occupied
        BY <1>9, <3>1
      <4> QED  BY <2>1, <3>1, <4>1, SMTT(60) DEF CachedUpdatesVerified, p
    <3> QED  BY <3>1
  <2>3. k # a /\ b.cached_tree_updates[k].occupied
    BY <1>5, <1>9, <2>2, SMTT(60) DEF NoUpdate
  <2>4. /\ b.cached_tree_updates[k] = pb.cached_tree_updates[k]
        /\ b.hash_chains[k] = pb.hash_chains[k]
    BY <1>5, <2>3, SMTT(60)
  <2>5. LET v == pb.cached_tree_updates[k]
        IN  /\ pb.num_inserted_zkp_batches <= k
            /\ k < pb.num_full_zkp_batches
            /\ v.new_root = Extend(v.old_root, pb.start_index + Offset(k), pb.hash_chains[k])
    BY <1>3, <1>4, <2>1, <2>3, <2>4, SMTT(60) DEF CachedUpdatesVerified
  <2>6. k \in Nat /\ k < ZkpBatches /\ a = pb.num_inserted_zkp_batches
    BY <1>10 DEF ZkpIndices, a, pb, NextUpdateIndex
  <2>7. a + 1 <= k /\ a + 1 # ZkpBatches
    BY <1>10, <2>3, <2>5, <2>6
  <2> QED  BY <1>5, <1>9, <1>14, <2>2, <2>4, <2>5, <2>7, SMTT(60)
<1>22. RootHistory'
  <2> DEFINE na   == NextUpdateIndex(nt')
             slot == NextSlot(a)
  <2>1. /\ a + 1 # ZkpBatches => slot = a + 1 /\ na = a + 1
        /\ a + 1 = ZkpBatches => slot = 0 /\ (na = 0 \/ na = ZkpBatches)
    BY <1>5, <1>14, <1>16, SMTT(60) DEF NextSlot, NextUpdateIndex
  <2>2. (IF na = ZkpBatches THEN 0 ELSE na) = slot
    BY <1>10, <2>1
  <2>3. slot \in ZkpIndices /\ nt.current_index = slot
    BY <1>2, SlotFacts, SMTT(60)
  <2>4. nt'.current_index = NextSlot(slot)
    BY <1>8, <2>3
  <2> HIDE DEF na, slot
  <2>5. nt'.roots[slot] = root /\ \A k \in ZkpIndices : k # slot => nt'.roots[k] = nt.roots[k]
    <3>1. nt'.roots = [nt.roots EXCEPT ![slot] = root]
      BY <1>8, <2>3
    <3> QED  BY <1>6, <2>3, <3>1
  <2>6. \A m : QueuedTree(m)' = QueuedTree(m)
    BY <1>1 DEF QueuedTree
  <2>7. QueuedTree(nt.next_index - 1)' = root
    <3>1. QueuedTree(nt.next_index - 1)' = QueuedTree(nt'.next_index - 1)
      BY <1>1 DEF QueuedTree
    <3> QED  BY <1>17, <3>1
  <2>8. ASSUME NEW k \in ZkpIndices, nt'.roots[k] # NoRoot
        PROVE  \E m \in 0 .. nt'.next_index - 1 :
                  /\ nt'.roots[k] = QueuedTree(m)
                  /\ m + 1 >= nt'.close_before_index
                  /\ WrittenByPending(k)' => m + 1 >= PendingBatch(nt').start_index
    <3>1. CASE k = slot
      <4> DEFINE m == nt'.next_index - 1
      <4>1. m \in 0 .. nt'.next_index - 1 /\ m + 1 = nt'.next_index
        BY <1>8, <1>10
      <4>2. nt'.next_index >= close
        BY <1>8, <1>10, <1>11, <1>12, SMTT(60) DEF IInv, WatermarkLag
      <4>3. nt'.next_index >= PendingBatch(nt').start_index
        <5>1. CASE a + 1 # ZkpBatches
          BY <1>5, <1>10, <1>11, <1>14, <5>1, SMTT(60)
        <5>2. CASE a + 1 = ZkpBatches
          BY <1>10, <1>14, <1>16, <5>2
        <5> QED  BY <5>1, <5>2
      <4>4. nt'.roots[k] = QueuedTree(m)
        BY <1>17, <2>5, <3>1
      <4> HIDE DEF m
      <4> QED  BY <1>8, <4>1, <4>2, <4>3, <4>4
    <3>2. CASE k # slot
      <4>1. nt'.roots[k] = nt.roots[k] /\ nt.roots[k] # NoRoot
        BY <2>5, <2>8, <3>2
      <4>2. PICK m \in 0 .. nt.next_index - 1 :
                /\ nt.roots[k] = QueuedTree(m)
                /\ m + 1 >= nt.close_before_index
                /\ WrittenByPending(k) => m + 1 >= pb.start_index
        BY <4>1 DEF IInv, RootHistory, pb
      <4>3. m \in 0 .. nt'.next_index - 1 /\ m \in Nat /\ k \in Nat /\ k < ZkpBatches
        BY <1>8, <1>10, LayoutAssumption DEF ZkpIndices
      <4>4. CASE a + 1 # ZkpBatches
        <5>1. WrittenByPending(k)' => WrittenByPending(k)
          BY <1>10, <2>1, <3>2, <4>3, <4>4 DEF WrittenByPending, na, a
        <5>2. close = nt.close_before_index
          BY <1>12, <4>4
        <5> QED  BY <1>5, <1>8, <1>14, <4>1, <4>2, <4>3, <4>4, <5>1, <5>2, SMTT(60)
      <4>5. CASE a + 1 = ZkpBatches
        <5>1. WrittenByPending(k)
          BY <1>10, <2>1, <3>2, <4>3, <4>5 DEF WrittenByPending, a
        <5>2. m + 1 >= close
          BY <1>10, <1>12, <4>2, <4>3, <5>1
        <5>3. WrittenByPending(k)' => na = ZkpBatches
          BY <1>10, <2>1, <3>2, <4>3, <4>5 DEF WrittenByPending, na
        <5>4. na = ZkpBatches => ob.start_index <= pb.start_index
          BY <1>10, <1>14, <1>16, <4>5 DEF NextUpdateIndex, na
        <5>5. WrittenByPending(k)' => m + 1 >= ob.start_index
          BY <1>10, <4>2, <4>3, <5>1, <5>3, <5>4, SMTT(60)
        <5> QED  BY <1>8, <1>14, <4>1, <4>2, <4>3, <4>5, <5>2, <5>5, SMTT(60)
      <4> QED  BY <4>4, <4>5
    <3> QED  BY <3>1, <3>2
  <2> QED  BY <2>2, <2>4, <2>5, <2>6, <2>7, <2>8 DEF RootHistory, na
<1>23. PdaRecords' /\ SpentOnce'
  <2>1. ASSUME NEW k \in 1 .. Len(queued'), k >= nt'.close_before_index
        PROVE  k >= nt.close_before_index /\ k \in 1 .. Len(queued)
    BY <1>1, <1>8, <1>10, <1>13, <2>1, Geometry, SMTT(60)
  <2> QED  BY <1>1, <2>1 DEF IInv, PdaRecords, SpentOnce
<1>24. WatermarkLag'
  <2>1. WatermarkLag
    BY DEF IInv
  <2>2. nt'.close_before_index <= nt'.next_index
    BY <1>8, <1>10, <1>11, <1>12, <2>1, SMTT(60) DEF WatermarkLag
  <2>3. CASE a + 1 # ZkpBatches
    <3>1. PendingBatch(nt') = b /\ b.state # "Inserted" /\ close = nt.close_before_index
      BY <1>2, <1>12, <1>14, <2>3, SMTT(60)
    <3> QED  BY <1>5, <1>8, <2>1, <2>2, <3>1, SMTT(60) DEF WatermarkLag, pb
  <2>4. CASE a + 1 = ZkpBatches
    <3>1. close >= pb.start_index /\ PendingBatch(nt') = ob
      BY <1>10, <1>12, <1>14, <2>4
    <3>2. close + BatchSize >= ob.start_index
      BY <1>10, <1>13, <1>16, <2>4, <3>1
    <3>3. ob.state = "Inserted" => close >= ob.start_index + BatchSize
      BY <1>10, <1>13, <1>16, <2>4, <3>1
    <3> QED  BY <1>8, <2>2, <3>1, <3>2, <3>3, SMTT(60) DEF WatermarkLag
  <2> QED  BY <2>3, <2>4
<1>25. NextSlotFree'
  BY <1>1 DEF NextSlotFree
<1> QED  BY <1>18, <1>19, <1>20, <1>21, <1>22, <1>23, <1>24, <1>25 DEF IInv

=============================================================================
