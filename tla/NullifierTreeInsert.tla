------------------------ MODULE NullifierTreeInsert -------------------------
(***************************************************************************)
(* Queueing a nullifier keeps the inductive invariant of NullifierTree.    *)
(***************************************************************************)
EXTENDS NullifierTreeLemmas

-----------------------------------------------------------------------------
(***************************************************************************)
(* Queueing a nullifier.                                                   *)
(***************************************************************************)

\* The batch a nullifier goes to, once it is ready to fill, ends where the queue
\* does, and lies next to the other batch.
LEMMA ReadyGeometry ==
    ASSUME IInv, CanInsertNullifier(nt)
    PROVE  LET c  == nt.currently_processing_batch_index
               p  == nt.pending_batch_index
               b  == EnsureReadyToFill(CurrentBatch(nt))
               ob == nt.batches[NextBatch(c)]
           IN  /\ FilledUpTo(b) = nt.queue_next_index
               /\ c = p =>
                     /\ AppliedUpTo(b) = nt.next_index
                     /\ \/ ob.state = "Inserted" /\ ob.start_index + BatchSize = b.start_index
                        \/ Untouched(ob) /\ ob.start_index = b.start_index + BatchSize
               /\ c # p =>
                     /\ PendingBatch(nt) = ob
                     /\ ob.state = "Full" /\ AppliedUpTo(ob) = nt.next_index
                     /\ b.num_inserted_zkp_batches = 0
                     /\ b.start_index = ob.start_index + BatchSize
<1> DEFINE c  == nt.currently_processing_batch_index
           p  == nt.pending_batch_index
           cb == CurrentBatch(nt)
           b  == EnsureReadyToFill(cb)
           ob == nt.batches[NextBatch(c)]
<1>1. /\ c \in BatchIndices /\ p \in BatchIndices /\ NextBatch(c) \in BatchIndices
      /\ c # p => p = NextBatch(c)
  BY Geometry, BatchIndexFacts
<1>2. /\ cb \in BatchType /\ BatchCounters(cb) /\ ob \in BatchType /\ CanFill(cb)
  BY <1>1, Geometry DEF CurrentBatch, CanInsertNullifier
<1>3. /\ cb.start_index \in Nat /\ ob.start_index \in Nat
      /\ BatchSize \in Nat /\ Offset(0) = 0
      /\ nt.queue_next_index \in Nat /\ nt.next_index \in Nat
  <2>1. cb.start_index \in Nat /\ ob.start_index \in Nat
    BY <1>2, SMTT(60) DEF BatchType
  <2>2. nt.queue_next_index \in Nat /\ nt.next_index \in Nat
    BY Geometry
  <2> QED  BY <2>1, <2>2, OffsetFacts
<1>4. /\ cb.state = "Fill" => b = cb
      /\ cb.state # "Fill" =>
            /\ cb.state = "Inserted"
            /\ b.start_index = cb.start_index + 2 * BatchSize
            /\ b.num_inserted = 0
            /\ b.num_full_zkp_batches = 0
            /\ b.num_inserted_zkp_batches = 0
  BY <1>2, ReadyBatch
<1>5. /\ c = p => CurrentIsPending(nt, cb, ob)
      /\ c # p => CurrentIsAhead(nt, cb, ob) /\ PendingBatch(nt) = ob
  BY <1>1 DEF IInv, QueueGeometry, PendingBatch
<1> HIDE DEF c, p, cb, b, ob
<1>6. CASE cb.state = "Fill"
  <2>1. b = cb
    BY <1>4, <1>6
  <2>2. CASE c = p
    <3>1. /\ FilledUpTo(cb) = nt.queue_next_index /\ AppliedUpTo(cb) = nt.next_index
          /\ \/ ob.state = "Inserted" /\ ob.start_index + BatchSize = cb.start_index
             \/ Untouched(ob) /\ ob.start_index = cb.start_index + BatchSize
      BY <1>5, <1>6, <2>2 DEF CurrentIsPending
    <3> QED  BY <2>1, <2>2, <3>1 DEF c, p, cb, b, ob
  <2>3. CASE c # p
    <3>1. /\ ob.state = "Full" /\ AppliedUpTo(ob) = nt.next_index
          /\ cb.num_inserted_zkp_batches = 0 /\ FilledUpTo(cb) = nt.queue_next_index
          /\ cb.start_index = ob.start_index + BatchSize
      BY <1>5, <1>6, <2>3 DEF CurrentIsAhead
    <3> QED  BY <1>5, <2>1, <2>3, <3>1 DEF c, p, cb, b, ob
  <2> QED  BY <2>2, <2>3, SMTT(60)
<1>7. CASE cb.state = "Inserted"
  <2>1. FilledUpTo(b) = b.start_index /\ AppliedUpTo(b) = b.start_index
    BY <1>3, <1>4, <1>7 DEF FilledUpTo, AppliedUpTo
  <2>2. b.start_index = cb.start_index + 2 * BatchSize /\ b.num_inserted_zkp_batches = 0
    BY <1>4, <1>7
  <2>3. CASE c = p
    <3>1. /\ cb.start_index + 2 * BatchSize = nt.queue_next_index
          /\ nt.next_index = nt.queue_next_index
          /\ ob.state = "Inserted" /\ ob.start_index = cb.start_index + BatchSize
      BY <1>5, <1>7, <2>3 DEF CurrentIsPending
    <3>2. ob.start_index + BatchSize = b.start_index
      BY <1>3, <2>2, <3>1
    <3> QED  BY <2>1, <2>2, <2>3, <3>1, <3>2 DEF c, p, cb, b, ob
  <2>4. CASE c # p
    <3>1. /\ ob.state = "Full" /\ AppliedUpTo(ob) = nt.next_index
          /\ cb.start_index + BatchSize = ob.start_index
          /\ ob.start_index + BatchSize = nt.queue_next_index
      BY <1>5, <1>7, <2>4 DEF CurrentIsAhead
    <3>2. b.start_index = ob.start_index + BatchSize /\ b.start_index = nt.queue_next_index
      BY <1>3, <2>2, <3>1
    <3> QED  BY <1>5, <2>1, <2>2, <2>4, <3>1, <3>2 DEF c, p, cb, b, ob
  <2> QED  BY <2>3, <2>4
<1> QED  BY <1>4, <1>6, <1>7, SMTT(60)

\* One input of a transact or a merge keeps the invariant.
LEMMA InsertStep ==
    ASSUME IInv, NEW n \in Nullifiers, NEW i \in ZkpIndices, InsertNullifier(n, i)
    PROVE  IInv'
<1> DEFINE c  == nt.currently_processing_batch_index
           p  == nt.pending_batch_index
           q  == nt.queue_next_index
           cb == CurrentBatch(nt)
           b  == EnsureReadyToFill(cb)
           nb == AddToHashChain(b, n)
           ob == nt.batches[NextBatch(c)]
           open == b.num_full_zkp_batches
<1>1. /\ c \in BatchIndices /\ p \in BatchIndices /\ NextBatch(c) \in BatchIndices
      /\ NextBatch(c) # c
      /\ c # p => p = NextBatch(c)
      /\ \A x \in BatchIndices : x # c => x = NextBatch(c)
  BY Geometry, BatchIndexFacts
<1>2. /\ ~ cascading /\ q < Capacity /\ CanFill(cb) /\ nullifier_pdas[n] = 0
      /\ nullifier_pdas' = [nullifier_pdas EXCEPT ![n] = q]
      /\ queued' = Append(queued, n) /\ cascading' = cascading
      /\ nt' = InsertNullifierIntoQueue(nt, n)
  BY DEF InsertNullifier, CanInsertNullifier
<1>3. cb \in BatchType /\ BatchCounters(cb) /\ ob \in BatchType /\ BatchCounters(ob)
  BY <1>1, Geometry DEF CurrentBatch
<1>4. /\ b \in BatchType /\ BatchCounters(b) /\ b.state = "Fill"
      /\ b.hash_chains = cb.hash_chains
      /\ b.cached_tree_updates = cb.cached_tree_updates
      /\ cb.state = "Fill" => b = cb
      /\ cb.state # "Fill" =>
            /\ cb.state = "Inserted"
            /\ b.start_index = cb.start_index + 2 * BatchSize
            /\ b.num_inserted = 0
            /\ b.num_full_zkp_batches = 0
            /\ b.num_inserted_zkp_batches = 0
  BY <1>2, <1>3, ReadyBatch
<1>5. /\ nb \in BatchType /\ BatchCounters(nb) /\ nb.state \in {"Fill", "Full"}
      /\ nb.start_index = b.start_index
      /\ nb.num_inserted_zkp_batches = b.num_inserted_zkp_batches
      /\ nb.cached_tree_updates = b.cached_tree_updates
      /\ FilledUpTo(nb) = FilledUpTo(b) + 1
      /\ nb.state = "Full" => FilledUpTo(nb) = nb.start_index + BatchSize
      /\ open \in ZkpIndices
      /\ \A j \in ZkpIndices : j # open => nb.hash_chains[j] = b.hash_chains[j]
      /\ nb.hash_chains[open] =
            IF b.num_inserted = 0 THEN <<n>> ELSE Append(b.hash_chains[open], n)
      /\ \/ nb.num_full_zkp_batches = open /\ nb.num_inserted = b.num_inserted + 1
         \/ /\ nb.num_full_zkp_batches = open + 1 /\ nb.num_inserted = 0
            /\ b.num_inserted + 1 = ZkpBatchSize
  BY <1>4, FilledBatch, SMTT(60)
<1>6. /\ FilledUpTo(b) = q
      /\ c = p =>
            /\ AppliedUpTo(b) = nt.next_index
            /\ \/ ob.state = "Inserted" /\ ob.start_index + BatchSize = b.start_index
               \/ Untouched(ob) /\ ob.start_index = b.start_index + BatchSize
      /\ c # p =>
            /\ PendingBatch(nt) = ob
            /\ ob.state = "Full" /\ AppliedUpTo(ob) = nt.next_index
            /\ b.num_inserted_zkp_batches = 0
            /\ b.start_index = ob.start_index + BatchSize
  BY ReadyGeometry, SMTT(60) DEF InsertNullifier
<1>7. nt \in LayoutType /\ nt.batches \in [BatchIndices -> BatchType]
  BY Geometry DEF LayoutType
<1>8. nt' = [nt EXCEPT !.batches[c] = nb,
                       !.currently_processing_batch_index =
                            IF nb.state = "Full" THEN NextBatch(c) ELSE c,
                       !.queue_next_index = q + 1]
  BY <1>2 DEF InsertNullifierIntoQueue
<1> HIDE DEF b, nb, cb
<1>9. /\ nt'.batches = [nt.batches EXCEPT ![c] = nb]
      /\ nt'.currently_processing_batch_index = IF nb.state = "Full" THEN NextBatch(c) ELSE c
      /\ nt'.queue_next_index = q + 1
      /\ nt'.next_index = nt.next_index
      /\ nt'.close_before_index = nt.close_before_index
      /\ nt'.pending_batch_index = p
      /\ nt'.current_index = nt.current_index
      /\ nt'.roots = nt.roots
  BY <1>7, <1>8 DEF LayoutType
<1>10. /\ nt'.batches[c] = nb /\ nt'.batches[NextBatch(c)] = ob
       /\ \A x \in BatchIndices : x # c => nt'.batches[x] = nt.batches[x]
  <2>1. nt'.batches = [nt.batches EXCEPT ![c] = nb]
    BY <1>9
  <2> QED  BY <1>1, <1>7, <2>1
<1>11. /\ queued \in Seq(Nullifiers) /\ Len(queued) \in Nat /\ Len(queued) + 1 = q
       /\ Len(queued') = Len(queued) + 1 /\ queued' \in Seq(Nullifiers)
       /\ queued'[Len(queued) + 1] = n
       /\ \A k \in 1 .. Len(queued) : queued'[k] = queued[k]
  BY <1>2, Geometry
<1>12. \A k \in 1 .. Len(queued) : queued[k] # n
  BY UnspentIsNew DEF InsertNullifier
<1> HIDE DEF c, p, q, ob, open
<1>13. TypeOK'
  <2>1. nt' \in LayoutType
    <3>1. /\ [nt.batches EXCEPT ![c] = nb] \in [BatchIndices -> BatchType]
          /\ (IF nb.state = "Full" THEN NextBatch(c) ELSE c) \in BatchIndices
          /\ q + 1 \in 1 .. Capacity
      BY <1>1, <1>2, <1>5, <1>7, <1>11, LayoutAssumption
    <3> QED  BY <1>7, <1>8, <3>1, Zenon DEF LayoutType
  <2>2. nullifier_pdas' \in [Nullifiers -> 0 .. Capacity]
    BY <1>2, <1>11, LayoutAssumption DEF IInv, TypeOK
  <2>3. cascading' \in BOOLEAN
    BY <1>2 DEF IInv, TypeOK
  <2> QED  BY <1>11, <2>1, <2>2, <2>3 DEF TypeOK
<1>14. QueueGeometry'
  <2>1. (\A x \in BatchIndices : BatchCounters(nt.batches[x]))'
    <3>1. \A x \in BatchIndices : BatchCounters(nt.batches[x])
      BY Geometry
    <3> QED  BY <1>5, <1>10, <3>1
  <2>2. Len(queued') + 1 = nt'.queue_next_index
    BY <1>9, <1>11
  <2>3. /\ BatchSize \in Nat /\ Offset(0) = 0 /\ b.start_index \in Nat /\ q \in Nat
        /\ ob.start_index \in Nat
    <3>1. b.start_index \in Nat /\ ob.start_index \in Nat
      BY <1>3, <1>4 DEF BatchType
    <3>2. q \in Nat
      BY <1>11
    <3> QED  BY <3>1, <3>2, OffsetFacts
  <2>4. FilledUpTo(nb) = q + 1 /\ AppliedUpTo(nb) = AppliedUpTo(b)
    BY <1>5, <1>6, SMTT(60) DEF AppliedUpTo
  <2>5. CASE nb.state = "Fill" /\ c = p
    <3>1. CurrentIsPending(nt', nb, ob)
      BY <1>5, <1>6, <1>9, <2>4, <2>5 DEF CurrentIsPending
    <3>2. /\ nt'.currently_processing_batch_index = c /\ nt'.pending_batch_index = c
      BY <1>9, <2>5
    <3> QED  BY <1>10, <2>1, <2>2, <3>1, <3>2 DEF QueueGeometry, CurrentBatch
  <2>6. CASE nb.state = "Fill" /\ c # p
    <3>1. CurrentIsAhead(nt', nb, ob)
      BY <1>5, <1>6, <1>9, <2>4, <2>6 DEF CurrentIsAhead
    <3>2. nt'.currently_processing_batch_index = c /\ nt'.pending_batch_index = NextBatch(c)
      BY <1>1, <1>9, <2>6
    <3> QED  BY <1>1, <1>10, <2>1, <2>2, <3>1, <3>2, SMTT(60) DEF QueueGeometry, CurrentBatch, PendingBatch
  <2>7. CASE nb.state = "Full" /\ c = p
    <3>1. nb.start_index + BatchSize = q + 1 /\ AppliedUpTo(nb) = nt.next_index
      BY <1>5, <1>6, <2>4, <2>7
    <3>2. Untouched(ob) => FilledUpTo(ob) = ob.start_index /\ ob.num_inserted_zkp_batches = 0
                           /\ ob.state = "Fill"
      BY <1>3, <2>3 DEF Untouched, FilledUpTo, BatchCounters, BatchType
    <3>3. CurrentIsAhead(nt', ob, nb)
      BY <1>5, <1>6, <1>9, <2>3, <2>7, <3>1, <3>2, SMTT(60) DEF CurrentIsAhead
    <3>4. nt'.currently_processing_batch_index = NextBatch(c) /\ nt'.pending_batch_index = c
      BY <1>9, <2>7
    <3> QED  BY <1>1, <1>10, <2>1, <2>2, <3>3, <3>4 DEF QueueGeometry, CurrentBatch, PendingBatch
  <2>8. CASE nb.state = "Full" /\ c # p
    <3>1. nb.start_index + BatchSize = q + 1 /\ nb.start_index = ob.start_index + BatchSize
      BY <1>5, <1>6, <2>4, <2>8
    <3>2. ob.start_index + 2 * BatchSize = q + 1
      BY <2>3, <3>1
    <3>3. CurrentIsPending(nt', ob, nb)
      BY <1>5, <1>6, <1>9, <2>8, <3>1, <3>2 DEF CurrentIsPending
    <3>4. /\ nt'.currently_processing_batch_index = NextBatch(c)
          /\ nt'.pending_batch_index = NextBatch(c)
          /\ NextBatch(NextBatch(c)) = c
      BY <1>1, <1>9, <2>8, BatchIndexFacts
    <3> QED  BY <1>1, <1>10, <2>1, <2>2, <3>3, <3>4 DEF QueueGeometry, CurrentBatch
  <2> QED  BY <1>5, <2>5, <2>6, <2>7, <2>8
<1>15. ChainsCommitToQueue'
  <2>1. /\ b.start_index \in Nat \ {0} /\ open \in Nat /\ Offset(open) \in Nat
        /\ b.num_inserted \in Nat /\ b.start_index + Offset(open) + b.num_inserted = q
        /\ b.hash_chains[open] \in Seq(Nullifiers) /\ ZkpBatchSize \in Nat
    <3>1. b.start_index \in Nat \ {0} /\ b.num_inserted \in Nat
          /\ b.hash_chains[open] \in Seq(Nullifiers)
      BY <1>4, <1>5, SMTT(60) DEF BatchType
    <3>2. open \in Nat /\ ZkpBatchSize \in Nat
      BY <1>5, LayoutAssumption DEF ZkpIndices
    <3>3. b.start_index + Offset(open) + b.num_inserted = q
      BY <1>6 DEF FilledUpTo, open
    <3> QED  BY <3>1, <3>2, <3>3, OffsetFacts
  <2>2. b.num_inserted = 0 \/ IsQueueSlice(queued, b.hash_chains[open],
                                   b.start_index + Offset(open), b.num_inserted)
    <3>1. ChainsCommitToQueue
      BY DEF IInv
    <3>2. b.num_inserted = 0 \/ b.num_inserted > 0
      BY <2>1
    <3> QED  BY <1>1, <1>4, <3>1, <3>2, SMTT(60) DEF ChainsCommitToQueue, CurrentBatch, c, cb, open
  <2>3. IsQueueSlice(queued', nb.hash_chains[open],
            b.start_index + Offset(open), b.num_inserted + 1)
    <3> DEFINE start == b.start_index + Offset(open)
    <3>1. start \in Nat \ {0} /\ start + b.num_inserted = Len(queued) + 1
      BY <1>11, <2>1, SMTT(60)
    <3> HIDE DEF start
    <3>2. IsQueueSlice(Append(queued, n),
              IF b.num_inserted = 0 THEN <<n>> ELSE Append(b.hash_chains[open], n),
              start, b.num_inserted + 1)
      BY <1>11, <2>1, <2>2, <3>1, OpenSliceGrows, Zenon DEF start
    <3> QED  BY <1>2, <1>5, <3>2 DEF start
  <2>4. ASSUME NEW x \in BatchIndices, NEW j \in ZkpIndices,
               nt.batches[x].num_inserted_zkp_batches <= j,
               j < nt.batches[x].num_full_zkp_batches
        PROVE  IsQueueSlice(queued', nt.batches[x].hash_chains[j],
                   nt.batches[x].start_index + Offset(j), ZkpBatchSize)
    <3>1. nt.batches[x].start_index + Offset(j) \in Nat \ {0}
      <4>1. nt.batches[x].start_index \in Nat \ {0}
        BY Geometry DEF BatchType
      <4>2. Offset(j) \in Nat
        BY OffsetFacts DEF ZkpIndices
      <4> QED  BY <4>1, <4>2
    <3>2. IsQueueSlice(queued, nt.batches[x].hash_chains[j],
              nt.batches[x].start_index + Offset(j), ZkpBatchSize)
      BY <2>4 DEF IInv, ChainsCommitToQueue
    <3> QED  BY <1>2, <1>11, <2>1, <3>1, <3>2, SliceGrows, SMTT(60)
  <2>5. nt.batches[c] = cb
    BY DEF c, cb, CurrentBatch
  <2>6. \A j \in ZkpIndices :
          /\ j < nb.num_inserted_zkp_batches => nb.hash_chains[j] = << >>
          /\ nb.num_inserted_zkp_batches <= j /\ j < nb.num_full_zkp_batches =>
                IsQueueSlice(queued', nb.hash_chains[j],
                    nb.start_index + Offset(j), ZkpBatchSize)
    <3> SUFFICES ASSUME NEW j \in ZkpIndices
                 PROVE  /\ j < nb.num_inserted_zkp_batches => nb.hash_chains[j] = << >>
                        /\ nb.num_inserted_zkp_batches <= j /\ j < nb.num_full_zkp_batches =>
                              IsQueueSlice(queued', nb.hash_chains[j],
                                  nb.start_index + Offset(j), ZkpBatchSize)
      OBVIOUS
    <3>0. j \in Nat
      BY DEF ZkpIndices
    <3>1. CASE j = open
      <4>1. ~ j < nb.num_inserted_zkp_batches
        BY <1>4, <1>5, <3>1, SMTT(60) DEF BatchCounters, BatchType, open
      <4>2. j < nb.num_full_zkp_batches => b.num_inserted + 1 = ZkpBatchSize
        BY <1>5, <2>1, <3>1
      <4> QED  BY <1>5, <2>3, <3>1, <4>1, <4>2, SMTT(60)
    <3>2. CASE j # open /\ cb.state = "Fill"
      <4>1. b = cb
        BY <1>4, <3>2
      <4>2. j < nb.num_full_zkp_batches => j < b.num_full_zkp_batches
        BY <1>5, <2>1, <3>0, <3>2, SMTT(60) DEF open
      <4>3. j < b.num_inserted_zkp_batches => b.hash_chains[j] = << >>
        BY <1>1, <2>5, <4>1, SMTT(60) DEF IInv, ChainsCommitToQueue
      <4>4. b.num_inserted_zkp_batches <= j /\ j < b.num_full_zkp_batches =>
                IsQueueSlice(queued', b.hash_chains[j], b.start_index + Offset(j), ZkpBatchSize)
        BY <1>1, <2>4, <2>5, <4>1
      <4> QED  BY <1>5, <3>2, <4>2, <4>3, <4>4
    <3>3. CASE j # open /\ cb.state # "Fill"
      <4>1. open = 0 /\ b.num_inserted_zkp_batches = 0
        BY <1>4, <3>3 DEF open
      <4>2. ~ j < nb.num_inserted_zkp_batches /\ ~ j < nb.num_full_zkp_batches
        BY <1>5, <3>0, <3>3, <4>1
      <4> QED  BY <4>2
    <3> QED  BY <3>1, <3>2, <3>3
  <2>7. nb.num_inserted > 0 =>
            IsQueueSlice(queued', nb.hash_chains[nb.num_full_zkp_batches],
                nb.start_index + Offset(nb.num_full_zkp_batches), nb.num_inserted)
    BY <1>5, <2>1, <2>3, SMTT(60)
  <2>8. ASSUME NEW x \in BatchIndices, x # c, nt.batches[x].num_inserted > 0
        PROVE  LET ub == nt.batches[x]
               IN  IsQueueSlice(queued', ub.hash_chains[ub.num_full_zkp_batches],
                       ub.start_index + Offset(ub.num_full_zkp_batches), ub.num_inserted)
    <3> DEFINE ub == nt.batches[x]
    <3>1. ub \in BatchType
      BY Geometry
    <3>6. ub = nt.batches[x]
      OBVIOUS
    <3> HIDE DEF ub
    <3>2. ub.start_index \in Nat \ {0} /\ ub.num_full_zkp_batches \in Nat /\ ub.num_inserted \in Nat
      BY <3>1, LayoutAssumption DEF BatchType
    <3>3. ub.start_index + Offset(ub.num_full_zkp_batches) \in Nat \ {0}
      <4>1. Offset(ub.num_full_zkp_batches) \in Nat
        BY <3>2, OffsetFacts, Zenon
      <4> QED  BY <3>2, <4>1
    <3>4. IsQueueSlice(queued, ub.hash_chains[ub.num_full_zkp_batches],
              ub.start_index + Offset(ub.num_full_zkp_batches), ub.num_inserted)
      BY <2>8, SMTT(60) DEF IInv, ChainsCommitToQueue, ub
    <3>5. IsQueueSlice(queued', ub.hash_chains[ub.num_full_zkp_batches],
              ub.start_index + Offset(ub.num_full_zkp_batches), ub.num_inserted)
      BY <1>2, <1>11, <3>2, <3>3, <3>4, SliceGrows
    <3> QED  BY <3>5, SMTT(60) DEF ub
  <2>9. ASSUME NEW x \in BatchIndices, x # c, NEW j \in ZkpIndices,
               j < nt.batches[x].num_inserted_zkp_batches
        PROVE  nt.batches[x].hash_chains[j] = << >>
    BY <2>9, SMTT(60) DEF IInv, ChainsCommitToQueue
  <2> QED  BY <1>1, <1>10, <2>4, <2>6, <2>7, <2>8, <2>9, SMTT(60) DEF ChainsCommitToQueue
<1>16. /\ nb.cached_tree_updates = cb.cached_tree_updates
       /\ cb.state # "Fill" => \A j \in ZkpIndices : ~ cb.cached_tree_updates[j].occupied
  <2>1. nt.batches[c] = cb
    BY DEF c, cb, CurrentBatch
  <2>2. ASSUME NEW j \in ZkpIndices, cb.cached_tree_updates[j].occupied
        PROVE  cb.num_inserted_zkp_batches <= j /\ j < cb.num_full_zkp_batches
    BY <1>1, <2>1, <2>2 DEF IInv, CachedUpdatesVerified
  <2>3. cb.state # "Fill" =>
           cb.num_inserted_zkp_batches = ZkpBatches /\ cb.num_full_zkp_batches = ZkpBatches
    BY <1>3, <1>4 DEF BatchCounters
  <2>4. \A j \in ZkpIndices : ~ (ZkpBatches <= j /\ j < ZkpBatches)
    BY LayoutAssumption DEF ZkpIndices
  <2> QED  BY <1>4, <1>5, <2>2, <2>3, <2>4
<1>17. CachedUpdatesVerified'
  <2>1. nt.batches[c] = cb
    BY DEF c, cb, CurrentBatch
  <2>2. ASSUME NEW j \in ZkpIndices, nb.cached_tree_updates[j].occupied
        PROVE  LET u == nb.cached_tree_updates[j]
               IN  /\ c = p
                   /\ nb.num_inserted_zkp_batches <= j
                   /\ j < nb.num_full_zkp_batches
                   /\ u.new_root = Extend(u.old_root, nb.start_index + Offset(j), nb.hash_chains[j])
    <3>1. cb.state = "Fill" /\ b = cb
      BY <1>4, <1>16, <2>2
    <3>2. LET u == cb.cached_tree_updates[j]
          IN  /\ c = p
              /\ cb.num_inserted_zkp_batches <= j
              /\ j < cb.num_full_zkp_batches
              /\ u.new_root = Extend(u.old_root, cb.start_index + Offset(j), cb.hash_chains[j])
      BY <1>1, <1>16, <2>1, <2>2, SMTT(60) DEF IInv, CachedUpdatesVerified, p
    <3>3. j \in Nat /\ open \in Nat /\ j < open
      BY <1>5, <3>1, <3>2 DEF ZkpIndices, open
    <3>4. j < nb.num_full_zkp_batches /\ nb.hash_chains[j] = cb.hash_chains[j]
      BY <1>5, <3>1, <3>3
    <3> QED  BY <1>5, <1>16, <3>1, <3>2, <3>4, SMTT(60)
  <2>3. ASSUME NEW x \in BatchIndices, x # c, NEW j \in ZkpIndices,
               nt.batches[x].cached_tree_updates[j].occupied
        PROVE  LET ub == nt.batches[x]
                   u  == ub.cached_tree_updates[j]
               IN  /\ x = p
                   /\ ub.num_inserted_zkp_batches <= j
                   /\ j < ub.num_full_zkp_batches
                   /\ u.new_root = Extend(u.old_root, ub.start_index + Offset(j), ub.hash_chains[j])
    BY <2>3, SMTT(60) DEF IInv, CachedUpdatesVerified, p
  <2> QED  BY <1>9, <1>10, <2>2, <2>3, SMTT(60) DEF CachedUpdatesVerified
<1>18. \/ /\ PendingBatch(nt') = PendingBatch(nt)
       \/ /\ c = p /\ PendingBatch(nt') = nb /\ PendingBatch(nt) = cb
          /\ cb.state = "Fill"
          /\ nb.num_inserted_zkp_batches = cb.num_inserted_zkp_batches
          /\ nb.start_index = cb.start_index
       \/ /\ c = p /\ PendingBatch(nt') = nb /\ PendingBatch(nt) = cb
          /\ cb.state = "Inserted" /\ cb.num_inserted_zkp_batches = ZkpBatches
          /\ nb.num_inserted_zkp_batches = 0
          /\ nb.start_index = cb.start_index + 2 * BatchSize
  <2>1. CASE c # p
    BY <1>1, <1>9, <1>10, <2>1 DEF PendingBatch, p
  <2>2. CASE c = p
    <3>1. PendingBatch(nt') = nb /\ PendingBatch(nt) = cb
      BY <1>9, <1>10, <2>2 DEF PendingBatch, CurrentBatch, c, p, cb
    <3>2. cb.state # "Fill" => cb.num_inserted_zkp_batches = ZkpBatches
      BY <1>3, <1>4 DEF BatchCounters
    <3> QED  BY <1>4, <1>5, <2>2, <3>1, <3>2, SMTT(60)
  <2> QED  BY <2>1, <2>2
<1>19. RootHistory'
  <2> DEFINE a  == NextUpdateIndex(nt)
             na == NextUpdateIndex(nt')
             latest == IF a = ZkpBatches THEN 0 ELSE a
  <2>1. a = na \/ (a = ZkpBatches /\ na = 0)
    BY <1>18 DEF NextUpdateIndex
  <2>2. (IF na = ZkpBatches THEN 0 ELSE na) = latest
    BY <2>1, LayoutAssumption
  <2>3. ASSUME NEW m \in 0 .. nt.next_index - 1
        PROVE  QueuedTree(m)' = QueuedTree(m)
    <3>1. m \in 0 .. Len(queued)
      BY <1>11, AppliedBehindQueue, Geometry DEF q
    <3> QED  BY <1>2, <1>11, <3>1, TreeGrows
  <2>4. ASSUME NEW k \in ZkpIndices
        PROVE  \/ ~ WrittenByPending(k)'
               \/ /\ WrittenByPending(k)
                  /\ PendingBatch(nt').start_index = PendingBatch(nt).start_index
    <3>1. CASE a = na /\ PendingBatch(nt').start_index = PendingBatch(nt).start_index
      BY <3>1 DEF WrittenByPending
    <3>2. CASE na = 0
      BY <3>2, LayoutAssumption DEF WrittenByPending, ZkpIndices
    <3> QED  BY <1>18, <3>1, <3>2 DEF NextUpdateIndex
  <2>5. /\ nt.current_index = NextSlot(latest)
        /\ nt.roots[latest] = QueuedTree(nt.next_index - 1)
        /\ \A k \in ZkpIndices :
              nt.roots[k] # NoRoot =>
                  \E m \in 0 .. nt.next_index - 1 :
                      /\ nt.roots[k] = QueuedTree(m)
                      /\ m + 1 >= nt.close_before_index
                      /\ WrittenByPending(k) => m + 1 >= PendingBatch(nt).start_index
    BY DEF IInv, RootHistory
  <2>6. nt.next_index - 1 \in 0 .. nt.next_index - 1
    BY Geometry, SMTT(60)
  <2> HIDE DEF a, na, latest
  <2>7. /\ nt'.current_index = NextSlot(latest)
        /\ nt'.roots[latest] = QueuedTree(nt.next_index - 1)'
    <3>1. {<<k, queued'[k]>> : k \in 1 .. nt.next_index - 1} = QueuedTree(nt.next_index - 1)
      BY <2>3, <2>6 DEF QueuedTree
    <3>2. QueuedTree(nt.next_index - 1)' = {<<k, queued'[k]>> : k \in 1 .. nt.next_index - 1}
      BY <1>9 DEF QueuedTree
    <3> QED  BY <1>9, <2>5, <3>1, <3>2, Zenon
  <2>8. ASSUME NEW k \in ZkpIndices, nt'.roots[k] # NoRoot
        PROVE  \E m \in 0 .. nt'.next_index - 1 :
                      /\ nt'.roots[k] = QueuedTree(m)'
                      /\ m + 1 >= nt'.close_before_index
                      /\ WrittenByPending(k)' => m + 1 >= PendingBatch(nt').start_index
    BY <1>9, <2>3, <2>4, <2>5, <2>8, SMTT(60)
  <2> QED  BY <2>2, <2>7, <2>8 DEF RootHistory, na
<1>20. PdaRecords' /\ SpentOnce'
  <2>1. /\ \A k \in 1 .. Len(queued') : k \in 1 .. Len(queued) \/ k = Len(queued) + 1
        /\ Len(queued) + 1 \in 1 .. Len(queued') /\ Len(queued) + 1 # 0
    BY <1>11
  <2>2. nullifier_pdas \in [Nullifiers -> 0 .. Capacity]
    BY DEF IInv, TypeOK
  <2>3. /\ nullifier_pdas'[n] = Len(queued) + 1
        /\ \A o \in Nullifiers : o # n => nullifier_pdas'[o] = nullifier_pdas[o]
    BY <1>2, <1>11, <2>2, SMTT(60)
  <2>4. \A o \in Nullifiers :
          nullifier_pdas'[o] # 0 =>
              nullifier_pdas'[o] <= Len(queued') /\ queued'[nullifier_pdas'[o]] = o
    <3> SUFFICES ASSUME NEW o \in Nullifiers, nullifier_pdas'[o] # 0
                 PROVE  nullifier_pdas'[o] <= Len(queued') /\ queued'[nullifier_pdas'[o]] = o
      OBVIOUS
    <3>1. CASE o = n
      BY <1>11, <2>3, <3>1
    <3>2. CASE o # n
      <4>1. nullifier_pdas[o] <= Len(queued) /\ queued[nullifier_pdas[o]] = o
        BY <2>3, <3>2 DEF IInv, PdaRecords
      <4>2. nullifier_pdas[o] \in 1 .. Len(queued)
        BY <1>11, <2>2, <2>3, <3>2, <4>1
      <4> QED  BY <1>11, <2>3, <3>2, <4>1, <4>2
    <3> QED  BY <3>1, <3>2
  <2>5. ASSUME NEW k \in 1 .. Len(queued'), k >= nt'.close_before_index
        PROVE  nullifier_pdas'[queued'[k]] = k
    <3>1. CASE k = Len(queued) + 1
      BY <1>11, <2>3, <3>1
    <3>2. CASE k \in 1 .. Len(queued)
      <4>1. nullifier_pdas[queued[k]] = k /\ queued[k] # n /\ queued[k] \in Nullifiers
        BY <1>9, <1>11, <1>12, <2>5, <3>2 DEF IInv, PdaRecords
      <4> QED  BY <1>11, <2>3, <3>2, <4>1
    <3> QED  BY <2>1, <3>1, <3>2
  <2>6. SpentOnce'
    BY <1>11, <1>12, <2>1 DEF IInv, SpentOnce
  <2> QED  BY <2>4, <2>5, <2>6 DEF PdaRecords
<1>21. WatermarkLag'
  <2>1. WatermarkLag /\ nt.close_before_index \in Nat /\ BatchSize \in Nat /\ cb.start_index \in Nat
    BY <1>3, Geometry, OffsetFacts, SMTT(60) DEF IInv, BatchType
  <2>2. CASE PendingBatch(nt') = PendingBatch(nt)
    BY <1>9, <2>1, <2>2 DEF WatermarkLag
  <2>3. CASE PendingBatch(nt') = nb
    <3>1. nb.state # "Inserted"
      BY <1>5
    <3>2. nt.close_before_index + BatchSize >= nb.start_index
      BY <1>18, <2>1, <2>3 DEF WatermarkLag
    <3> QED  BY <1>9, <2>1, <2>3, <3>1, <3>2 DEF WatermarkLag
  <2> QED  BY <1>18, <2>2, <2>3
<1>22. NextSlotFree'
  <2>1. ~ HasNextUpdate(nt)
    BY <1>2 DEF IInv, NextSlotFree
  <2>2. CASE PendingBatch(nt') = PendingBatch(nt)
    BY <2>1, <2>2 DEF NextSlotFree, HasNextUpdate, NextUpdateIndex
  <2>3. CASE /\ PendingBatch(nt') = nb /\ PendingBatch(nt) = cb
             /\ nb.num_inserted_zkp_batches = cb.num_inserted_zkp_batches
    BY <1>16, <2>1, <2>3 DEF NextSlotFree, HasNextUpdate, NextUpdateIndex
  <2>4. CASE /\ PendingBatch(nt') = nb /\ cb.state = "Inserted"
             /\ nb.num_inserted_zkp_batches = 0
    <3>1. ~ nb.cached_tree_updates[0].occupied
      BY <1>16, <2>4, SlotFacts
    <3> QED  BY <2>4, <3>1 DEF NextSlotFree, HasNextUpdate, NextUpdateIndex
  <2> QED  BY <1>18, <2>2, <2>3, <2>4
<1> QED  BY <1>13, <1>14, <1>15, <1>17, <1>19, <1>20, <1>21, <1>22 DEF IInv

=============================================================================
