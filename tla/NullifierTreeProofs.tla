------------------------ MODULE NullifierTreeProofs -------------------------
(***************************************************************************)
(* The theorems about NullifierTree, for any number of nullifiers, any     *)
(* batch sizes, any capacity and any set of foreign trees.                 *)
(***************************************************************************)
EXTENDS NullifierTreeInsert, NullifierTreeUpdate, FiniteSetTheorems

-----------------------------------------------------------------------------
(***************************************************************************)
(* The remaining steps, and the invariant.                                 *)
(***************************************************************************)

\* Closing PDAs below the watermark keeps the invariant.
LEMMA CloseStep ==
    ASSUME IInv, NEW closed \in SUBSET Nullifiers, CloseNullifierPdas(closed)
    PROVE  IInv'
<1>1. /\ nt' = nt /\ queued' = queued /\ cascading' = cascading
      /\ \A n \in closed : nullifier_pdas[n] # 0 /\ nullifier_pdas[n] < nt.close_before_index
      /\ nullifier_pdas' = [n \in Nullifiers |-> IF n \in closed THEN 0 ELSE nullifier_pdas[n]]
      /\ nullifier_pdas \in [Nullifiers -> 0 .. Capacity]
  BY DEF CloseNullifierPdas, IInv, TypeOK
<1>2. nullifier_pdas' \in [Nullifiers -> 0 .. Capacity]
  BY <1>1, LayoutAssumption
<1>3. TypeOK'
  BY <1>1, <1>2 DEF IInv, TypeOK
<1>4. PdaRecords'
  <2>1. ASSUME NEW k \in 1 .. Len(queued), k >= nt.close_before_index
        PROVE  nullifier_pdas'[queued[k]] = k
    <3>1. nullifier_pdas[queued[k]] = k /\ queued[k] \in Nullifiers
      BY <2>1, Geometry DEF IInv, PdaRecords
    <3>2. queued[k] \notin closed
      BY <1>1, <2>1, <3>1, Geometry
    <3> QED  BY <1>1, <3>1, <3>2
  <2>2. ASSUME NEW n \in Nullifiers, nullifier_pdas'[n] # 0
        PROVE  nullifier_pdas'[n] <= Len(queued) /\ queued[nullifier_pdas'[n]] = n
    <3>1. nullifier_pdas'[n] = nullifier_pdas[n]
      BY <1>1, <2>2
    <3> QED  BY <2>2, <3>1 DEF IInv, PdaRecords
  <2> QED  BY <1>1, <2>1, <2>2 DEF PdaRecords
<1>5. /\ QueueGeometry' /\ ChainsCommitToQueue' /\ CachedUpdatesVerified'
      /\ WatermarkLag' /\ SpentOnce' /\ NextSlotFree'
  BY <1>1, SMTT(60) DEF IInv, QueueGeometry, ChainsCommitToQueue, CachedUpdatesVerified,
              WatermarkLag, SpentOnce, NextSlotFree
<1>6. RootHistory'
  BY <1>1 DEF IInv, RootHistory, WrittenByPending, QueuedTree
<1> QED  BY <1>3, <1>4, <1>5, <1>6, SMTT(60) DEF IInv

\* The end of the cascade, and a step that changes nothing, keep the invariant.
LEMMA StopStep ==
    ASSUME IInv, StopCascade \/ UNCHANGED vars
    PROVE  IInv'
<1>1. /\ nt' = nt /\ queued' = queued /\ nullifier_pdas' = nullifier_pdas
      /\ cascading' \in BOOLEAN
      /\ ~ cascading' => ~ HasNextUpdate(nt)
  <2>1. cascading \in BOOLEAN /\ (~ cascading => ~ HasNextUpdate(nt))
    BY DEF IInv, TypeOK, NextSlotFree
  <2>2. CASE StopCascade
    BY <2>2, Zenon DEF StopCascade
  <2>3. CASE UNCHANGED vars
    BY <2>1, <2>3 DEF vars
  <2> QED  BY <2>2, <2>3
<1>2. TypeOK' /\ NextSlotFree'
  BY <1>1 DEF IInv, TypeOK, NextSlotFree
<1>3. /\ QueueGeometry' /\ ChainsCommitToQueue' /\ CachedUpdatesVerified'
      /\ WatermarkLag' /\ SpentOnce' /\ PdaRecords'
  BY <1>1, SMTT(60) DEF IInv, QueueGeometry, ChainsCommitToQueue, CachedUpdatesVerified,
              WatermarkLag, SpentOnce, PdaRecords
<1>4. RootHistory'
  BY <1>1 DEF IInv, RootHistory, WrittenByPending, QueuedTree
<1> QED  BY <1>2, <1>3, <1>4 DEF IInv

\* Every step of the account keeps the invariant.
LEMMA NextIInv == IInv /\ [Next]_vars => IInv'
<1> SUFFICES ASSUME IInv, [Next]_vars PROVE IInv'
  OBVIOUS
<1>1. CASE \E n \in Nullifiers, i \in ZkpIndices : InsertNullifier(n, i)
  BY <1>1, InsertStep
<1>2. CASE \E j \in ZkpIndices, old \in WitnessTrees : BatchUpdateNullifierTree(j, old)
  BY <1>2, BatchUpdateStep
<1>3. CASE ApplyCachedUpdate
  BY <1>3, ApplyStep
<1>4. CASE EvictCachedUpdate
  BY <1>4, EvictStep
<1>5. CASE StopCascade \/ UNCHANGED vars
  BY <1>5, StopStep
<1>6. CASE \E closed \in SUBSET Nullifiers : CloseNullifierPdas(closed)
  BY <1>6, CloseStep
<1> QED  BY <1>1, <1>2, <1>3, <1>4, <1>5, <1>6 DEF Next

\* Whatever instructions run, in any order, the two batches tile the queue, the
\* chains commit to it, the cached updates are about those chains, the roots are
\* trees of the queue no older than the watermark, and the PDAs record it.
THEOREM Invariance == Spec => []IInv
BY InitIInv, NextIInv, PTL DEF Spec

-----------------------------------------------------------------------------
(***************************************************************************)
(* What the invariant gives.                                               *)
(***************************************************************************)

\* The account data stays in its ranges.
THEOREM TypeCorrectness == Spec => []TypeOK
<1>1. IInv => TypeOK
  BY DEF IInv
<1> QED  BY <1>1, Invariance, PTL

\* No nullifier is ever queued twice in a tree account: the PDA blocks it until
\* every accepted root does.
THEOREM NoDoubleSpend == Spec => []SpentOnce
<1>1. IInv => SpentOnce
  BY DEF IInv
<1> QED  BY <1>1, Invariance, PTL

\* A PDA is closed only when every accepted root contains its nullifier: the
\* watermark of advance_nullifier_pda_close_watermark is safe.
THEOREM WatermarkIsSafe == Spec => []SafePdaLifetime
<1>1. ASSUME IInv PROVE SafePdaLifetime
  <2> SUFFICES ASSUME NEW k \in 1 .. Len(queued), nullifier_pdas[queued[k]] = 0,
                      NEW i \in ZkpIndices, nt.roots[i] # NoRoot
               PROVE  Contains(nt.roots[i], queued[k])
    BY DEF SafePdaLifetime, AcceptedRoots
  <2>1. k \in 1 .. Capacity - 1 /\ k \in Nat /\ k # 0 /\ nt.close_before_index \in Nat
    BY <1>1, Geometry
  <2>2. ~ k >= nt.close_before_index
    BY <1>1, <2>1 DEF IInv, PdaRecords
  <2>3. PICK m \in 0 .. nt.next_index - 1 :
          nt.roots[i] = QueuedTree(m) /\ m + 1 >= nt.close_before_index
    BY <1>1 DEF IInv, RootHistory
  <2>4. k \in 1 .. m
    BY <1>1, <2>1, <2>2, <2>3, Geometry
  <2>5. <<k, queued[k]>> \in QueuedTree(m)
    BY <2>4 DEF QueuedTree
  <2> QED  BY <2>1, <2>3, <2>5 DEF Contains
<1> QED  BY <1>1, Invariance, PTL

\* The tree on chain is the queue up to next_index, and every accepted root is the
\* tree of an earlier prefix, whatever proofs were cached in whatever order.
THEOREM OrderedUpdates == Spec => []OrderedApplication
<1>1. ASSUME IInv PROVE OrderedApplication
  <2> DEFINE a == NextUpdateIndex(nt)
             latest == IF a = ZkpBatches THEN 0 ELSE a
  <2>1. PendingBatch(nt) \in BatchType
    BY <1>1, Geometry DEF PendingBatch
  <2>2. latest \in ZkpIndices
    BY <2>1, LayoutAssumption DEF NextUpdateIndex, BatchType, ZkpIndices
  <2>3. nt.current_index = NextSlot(latest) /\ nt.roots[latest] = QueuedTree(nt.next_index - 1)
    BY <1>1 DEF IInv, RootHistory
  <2>4. GetRoot(nt) = QueuedTree(nt.next_index - 1)
    BY <2>2, <2>3, SlotFacts DEF GetRoot
  <2>5. ASSUME NEW i \in ZkpIndices, nt.roots[i] # NoRoot
        PROVE  \E m \in 0 .. nt.next_index - 1 : nt.roots[i] = QueuedTree(m)
    BY <1>1, <2>5 DEF IInv, RootHistory
  <2> QED  BY <2>4, <2>5 DEF OrderedApplication, AcceptedRoots
<1> QED  BY <1>1, Invariance, PTL

\* An update that fits the current root is always applied: neither a full tree nor
\* the state of its batch undoes a cascade, at any capacity.
THEOREM CascadeAlwaysSucceeds == Spec => []CascadeNeverFails
<1>1. ASSUME IInv PROVE CascadeNeverFails
  <2> SUFFICES ASSUME HasNextUpdate(nt)
               PROVE  ~ TreeIsFull(nt, ZkpBatchSize) /\ CanMarkAsInserted(PendingBatch(nt))
    BY DEF CascadeNeverFails
  <2> DEFINE pb == PendingBatch(nt)
  <2>1. nt.next_index + ZkpBatchSize <= nt.queue_next_index
    BY <1>1, CascadePosition
  <2>2. ~ TreeIsFull(nt, ZkpBatchSize)
    BY <1>1, <2>1, Geometry, LayoutAssumption DEF TreeIsFull
  <2>3. pb.num_inserted_zkp_batches < pb.num_full_zkp_batches /\ pb.state \in {"Fill", "Full"}
    BY <1>1, CascadePosition DEF NextUpdateIndex
  <2>4. pb \in BatchType /\ BatchCounters(pb)
    BY <1>1, Geometry DEF PendingBatch
  <2>5. /\ pb.num_inserted_zkp_batches \in Nat /\ pb.num_full_zkp_batches \in Nat
        /\ pb.state = "Fill" => pb.num_full_zkp_batches < ZkpBatches
    BY <2>4, LayoutAssumption DEF BatchType, BatchCounters
  <2> HIDE DEF pb
  <2>6. CanMarkAsInserted(pb)
    BY <2>3, <2>5, LayoutAssumption DEF CanMarkAsInserted
  <2> QED  BY <2>2, <2>6 DEF pb
<1> QED  BY <1>1, Invariance, PTL

\* Between two instructions the slot of the next ZKP batch is free.
THEOREM NextSlotStaysFree == Spec => []NextSlotFree
<1>1. IInv => NextSlotFree
  BY DEF IInv
<1> QED  BY <1>1, Invariance, PTL

\* A batch that is Inserted holds neither chains nor cached updates, so reset may
\* leave both as they are.
THEOREM ReusedBatchIsZeroed == Spec => []InsertedBatchIsZeroed
<1>1. ASSUME IInv PROVE InsertedBatchIsZeroed
  <2> SUFFICES ASSUME NEW x \in BatchIndices, nt.batches[x].state = "Inserted",
                      NEW j \in ZkpIndices
               PROVE  /\ nt.batches[x].hash_chains[j] = << >>
                      /\ nt.batches[x].cached_tree_updates[j] = NoUpdate
    BY DEF InsertedBatchIsZeroed
  <2> DEFINE b == nt.batches[x]
  <2>1. b \in BatchType /\ BatchCounters(b)
    BY <1>1, Geometry
  <2>2. /\ b.num_inserted_zkp_batches = ZkpBatches /\ b.num_full_zkp_batches = ZkpBatches
        /\ j < ZkpBatches /\ ~ ZkpBatches <= j
    BY <2>1, LayoutAssumption DEF BatchCounters, ZkpIndices
  <2>3. b.hash_chains[j] = << >>
    BY <1>1, <2>2, SMTT(60) DEF IInv, ChainsCommitToQueue
  <2>4. ~ b.cached_tree_updates[j].occupied
    BY <1>1, <2>2, SMTT(60) DEF IInv, CachedUpdatesVerified
  <2>5. b.cached_tree_updates[j] \in CachedUpdates
    BY <2>1 DEF BatchType
  <2>6. ASSUME NEW u \in CachedUpdates, ~ u.occupied PROVE u = NoUpdate
    BY <2>6, Zenon DEF CachedUpdates
  <2> QED  BY <2>3, <2>4, <2>5, <2>6
<1> QED  BY <1>1, Invariance, PTL

\* The unclosable PDAs record distinct queue indices from the watermark to the end
\* of the queue, which is at most three batches: the working capital of a tree
\* account is enough for any interleaving.
THEOREM UnclosableIsBounded == Spec => []UnclosableBound
<1>1. ASSUME IInv PROVE UnclosableBound
  <2> DEFINE q == nt.queue_next_index
             w == nt.close_before_index
             S == {n \in Nullifiers : nullifier_pdas[n] >= w /\ nullifier_pdas[n] # 0}
             low == IF w = 0 THEN 1 ELSE w
             f == [n \in S |-> nullifier_pdas[n]]
  <2>1. /\ q \in Nat \ {0} /\ w \in Nat /\ Len(queued) + 1 = q /\ BatchSize \in Nat
        /\ PendingBatch(nt).start_index \in Nat
    <3>1. PendingBatch(nt) \in BatchType
      BY <1>1, Geometry DEF PendingBatch
    <3>2. PendingBatch(nt).start_index \in Nat
      BY <3>1 DEF BatchType
    <3>3. q \in Nat \ {0} /\ w \in Nat /\ Len(queued) + 1 = q
      BY <1>1, Geometry, LayoutAssumption
    <3> QED  BY <3>2, <3>3, OffsetFacts
  <2>2. q <= w + 3 * BatchSize
    BY <1>1, <2>1, AppliedBehindQueue, SMTT(60) DEF IInv, WatermarkLag
  <2>3. ASSUME NEW n \in S
        PROVE  nullifier_pdas[n] \in low .. q - 1 /\ queued[nullifier_pdas[n]] = n
    <3>1. nullifier_pdas[n] \in Nat /\ nullifier_pdas[n] <= Len(queued)
          /\ queued[nullifier_pdas[n]] = n
      BY <1>1, LayoutAssumption DEF IInv, TypeOK, PdaRecords
    <3> QED  BY <2>1, <3>1
  <2>4. f \in Injection(S, low .. q - 1)
    BY <2>3 DEF Injection, IsInjective
  <2>5. IsFiniteSet(low .. q - 1) /\ Cardinality(low .. q - 1) <= 3 * BatchSize
    <3>1. low \in Nat /\ q - 1 \in Int /\ low \in Int
      BY <2>1
    <3>2. Cardinality(low .. q - 1) = IF low > q - 1 THEN 0 ELSE q - 1 - low + 1
      BY <3>1, FS_Interval
    <3>3. IsFiniteSet(low .. q - 1)
      BY <3>1, FS_Interval
    <3>4. w <= low
      BY <2>1
    <3> HIDE DEF low, w, q
    <3>5. Cardinality(low .. q - 1) <= 3 * BatchSize
      BY <2>1, <2>2, <3>1, <3>2, <3>4
    <3> QED  BY <3>3, <3>5
  <2>6. Cardinality(S) <= Cardinality(low .. q - 1)
    BY <2>4, <2>5, FS_Injection
  <2>7. Cardinality(S) \in Nat /\ Cardinality(low .. q - 1) \in Nat
    BY <2>4, <2>5, FS_Injection, FS_CardinalityType
  <2> HIDE DEF S, low, q, w
  <2>8. Cardinality(S) <= 3 * BatchSize
    BY <2>1, <2>5, <2>6, <2>7
  <2> QED  BY <2>1, <2>8 DEF UnclosableBound, NumBatches, S, w
<1> QED  BY <1>1, Invariance, PTL

\* The account implements the ledger: nullifiers are spent once, and taken up by
\* the tree in order and in whole ZKP batches.
THEOREM ImplementsLedger == Spec => LedgerSpec
<1>1. Init => Ledger!Init
  BY DEF Init, InitLayout, Ledger!Init
<1>2. ASSUME IInv, [Next]_vars PROVE [Ledger!Next]_(Ledger!vars)
  <2>1. ASSUME NEW n \in Nullifiers, NEW i \in ZkpIndices, InsertNullifier(n, i)
        PROVE  Ledger!Next
    <3>1. \A k \in 1 .. Len(queued) : queued[k] # n
      BY <1>2, <2>1, UnspentIsNew DEF InsertNullifier
    <3>2. nt'.next_index = nt.next_index
      BY <1>2, <2>1, Geometry DEF InsertNullifier, InsertNullifierIntoQueue, LayoutType
    <3> QED  BY <2>1, <3>1, <3>2 DEF InsertNullifier, Ledger!Next, Ledger!Spend
  <2>2. ASSUME NEW j \in ZkpIndices, NEW old \in WitnessTrees, BatchUpdateNullifierTree(j, old)
        PROVE  UNCHANGED Ledger!vars
    <3>1. nt'.next_index = nt.next_index
      BY <1>2, <2>2, Geometry DEF BatchUpdateNullifierTree, VerifyProofCacheUpdate, LayoutType
    <3> QED  BY <2>2, <3>1 DEF BatchUpdateNullifierTree, Ledger!vars
  <2>3. ASSUME ApplyCachedUpdate
        PROVE  Ledger!Next
    <3>1. nt'.next_index = nt.next_index + ZkpBatchSize
      BY <1>2, <2>3, Geometry DEF ApplyCachedUpdate, ApplyNextUpdate, AppendRoot, LayoutType
    <3>2. nt.next_index + ZkpBatchSize <= nt.queue_next_index
      BY <1>2, <2>3, CascadePosition, SMTT(60) DEF ApplyCachedUpdate
    <3>3. nt.next_index \in Nat \ {0} /\ Len(queued) + 1 = nt.queue_next_index
          /\ Len(queued) \in Nat /\ ZkpBatchSize \in Nat
      BY <1>2, Geometry, LayoutAssumption
    <3>4. /\ (nt.next_index - 1) + ZkpBatchSize <= Len(queued)
          /\ nt'.next_index - 1 = (nt.next_index - 1) + ZkpBatchSize
      BY <3>1, <3>2, <3>3
    <3> QED  BY <2>3, <3>4 DEF ApplyCachedUpdate, Ledger!Next, Ledger!AppendZkpBatch
  <2>4. ASSUME EvictCachedUpdate
        PROVE  UNCHANGED Ledger!vars
    <3>1. nt'.next_index = nt.next_index
      BY <1>2, <2>4, Geometry DEF EvictCachedUpdate, EvictNextUpdate, LayoutType
    <3> QED  BY <2>4, <3>1 DEF EvictCachedUpdate, Ledger!vars
  <2>5. StopCascade => UNCHANGED Ledger!vars
    BY DEF StopCascade, Ledger!vars
  <2>6. ASSUME NEW closed \in SUBSET Nullifiers, CloseNullifierPdas(closed)
        PROVE  UNCHANGED Ledger!vars
    BY <2>6 DEF CloseNullifierPdas, Ledger!vars
  <2>7. UNCHANGED vars => UNCHANGED Ledger!vars
    BY DEF vars, Ledger!vars
  <2> QED  BY <1>2, <2>1, <2>2, <2>3, <2>4, <2>5, <2>6, <2>7 DEF Next
<1> QED  BY <1>1, <1>2, Invariance, PTL DEF Spec, LedgerSpec, Ledger!Spec

=============================================================================
