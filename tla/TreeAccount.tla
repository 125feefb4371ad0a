---------------------------- MODULE TreeAccount -----------------------------
(***************************************************************************)
(* A tree account as the instructions of the shielded pool use it: the     *)
(* nullifier region of NullifierTreeLayout together with the header (pause *)
(* state, fee schedule, fee balance, count of live nullifier PDAs), the    *)
(* fill level of the UTXO region, and the lamports of the account and of   *)
(* its nullifier PDAs.  Every action is a whole instruction, with all the  *)
(* inputs of a transact and the whole cascade of a batch update.           *)
(*                                                                         *)
(* Nullifiers are numbered: nullifier k <= UtxoCapacity is that of the     *)
(* k-th UTXO leaf of the tree, the others are those of dummy and address   *)
(* inputs, which spend no UTXO.                                            *)
(***************************************************************************)
EXTENDS NullifierTreeLayout

CONSTANTS
    UtxoCapacity,   \* leaves of the UTXO tree
    MaxInputs,      \* most inputs of one instruction
    MaxOutputs,     \* most outputs of one instruction
    Schedules,      \* the fee schedules a fee authority picks from
    MaxFeePerTree,  \* MAX_FEE_PER_TREE
    TreeRent,       \* rent minimum of the tree account
    PdaRent,        \* rent minimum of a nullifier PDA
    Gifts,          \* lamports somebody may send to a nullifier PDA address
    MaxLamports     \* bound on the lamports sent to the tree by others

ASSUME TreeAccountAssumption ==
    /\ UtxoCapacity \in Nat
    /\ Nullifiers \subseteq Nat \ {0}
    /\ UtxoCapacity <= Capacity - 1     \* the heights: 32 and 40
    /\ Schedules \subseteq
          [fee_per_tree : Nat, append_reimbursement : Nat, close_reimbursement : Nat]
    /\ TreeRent \in Nat /\ PdaRent \in Nat
    /\ Gifts \subseteq Nat /\ 0 \in Gifts

VARIABLES
    nt,         \* the nullifier region
    header,     \* the header, with the next_index of the UTXO region
    lamports,   \* the balance of the tree account
    pdas,       \* the nullifier PDAs of the tree
    queued      \* the nullifiers queued so far

vars == <<nt, header, lamports, pdas, queued>>

NoPda == [queue_index |-> 0, lamports |-> 0]

OpenPdas == {n \in Nullifiers : pdas[n] # NoPda}

F == INSTANCE FiniteSetsExt

Min(a, b) == IF a < b THEN a ELSE b

Max(a, b) == IF a < b THEN b ELSE a

CeilDiv(a, b) == (a + b - 1) \div b

QueuedTree(m) == {<<i, queued[i]>> : i \in 1 .. m}

-----------------------------------------------------------------------------
(***************************************************************************)
(* Fees, and what the account keeps back.                                  *)
(***************************************************************************)

IsValidSchedule(fees) == fees.fee_per_tree <= MaxFeePerTree

WorkingCapital == (NumBatches + 1) * BatchSize * PdaRent

LiquidWorkingCapital(live) == Max((NumBatches + 1) * BatchSize - live, 0) * PdaRent

CreditTreeFee(h) == [h EXCEPT !.fee_balance = h.fee_balance + h.fees.fee_per_tree]

\* Mutant: one append is set aside for every ZKP batch that is already full.
FeeBalanceReserveFloor(h) ==
    h.live_nullifier_pdas * h.fees.close_reimbursement
        + (h.live_nullifier_pdas \div ZkpBatchSize) * h.fees.append_reimbursement

\* fee_balance_reserve: one close for each open PDA, one append for every ZKP batch
\* they span.
FeeBalanceReserve(h) ==
    h.live_nullifier_pdas * h.fees.close_reimbursement
        + CeilDiv(h.live_nullifier_pdas, ZkpBatchSize) * h.fees.append_reimbursement

ReleaseFeeSurplus(h) == [h EXCEPT !.fee_balance = Min(h.fee_balance, FeeBalanceReserve(h))]

\* take_reimbursement: as much of what is owed as the balance holds.
Reimbursement(h, rate, count) == Min(rate * count, h.fee_balance)

\* Mutant: the balance is charged for one item, however many are paid.
TakeReimbursementOne(h, rate, count) ==
    [h EXCEPT !.fee_balance = h.fee_balance - Reimbursement(h, rate, Min(count, 1))]

TakeReimbursement(h, rate, count) ==
    [h EXCEPT !.fee_balance = h.fee_balance - Reimbursement(h, rate, count)]

RecordNullifierPdasCreated(h, count) ==
    [h EXCEPT !.live_nullifier_pdas = h.live_nullifier_pdas + count]

\* Mutant: an instruction counts as one close.
RecordNullifierPdasClosedOnce(h, count) ==
    [h EXCEPT !.live_nullifier_pdas = Max(h.live_nullifier_pdas - 1, 0)]

RecordNullifierPdasClosed(h, count) ==
    [h EXCEPT !.live_nullifier_pdas = Max(h.live_nullifier_pdas - count, 0)]

-----------------------------------------------------------------------------
(***************************************************************************)
(* Transact and merge.                                                     *)
(***************************************************************************)

\* dummy_input_headroom.
DummyInputHeadroom == Max(RemainingQueueCapacity(nt) - UtxoCapacity, 0)

IsUtxo(n) == n <= UtxoCapacity

\* The region after the nullifiers ns are queued one by one; empty if one does not
\* fit.
InsertNullifiers(t, ns) ==
    LET after[k \in 0 .. Len(ns)] ==
            IF k = 0 THEN {t}
            ELSE {InsertNullifierIntoQueue(u, ns[k]) :
                      u \in {v \in after[k - 1] : CanInsertNullifier(v)}}
    IN  after[Len(ns)]

\* Mutant: the headroom is compared with one input, not with all inputs.
InputsProvedOneDummy(ns, i) ==
    /\ nt.roots[i] # NoRoot
    /\ \A k \in 1 .. Len(ns) :
          /\ ~ Contains(nt.roots[i], ns[k])
          /\ IF IsUtxo(ns[k]) THEN ns[k] <= header.utxo_next_index
                              ELSE DummyInputHeadroom >= 1
          /\ \A l \in 1 .. Len(ns) : ns[k] = ns[l] => k = l

\* What the proof of the inputs shows of the tree's roots: the nullifiers differ,
\* root i has none of them, a UTXO input spends a leaf of the tree, and there are
\* other inputs only when the tree has the headroom for all of them.
InputsProved(ns, i) ==
    /\ nt.roots[i] # NoRoot
    /\ \A k \in 1 .. Len(ns) :
          /\ ~ Contains(nt.roots[i], ns[k])
          /\ IF IsUtxo(ns[k]) THEN ns[k] <= header.utxo_next_index
                              ELSE DummyInputHeadroom >= Len(ns)
          /\ \A l \in 1 .. Len(ns) : ns[k] = ns[l] => k = l

\* Mutant: the tree may fund PDA rent from the fee balance.
CanTopUpFromFees(h, missing) ==
    missing = 0 \/ lamports + h.fees.fee_per_tree - missing >= TreeRent

\* top_up: the tree funds the rent, and keeps its own rent and its fee balance.  A
\* PDA that needs nothing is not checked.
CanTopUp(h, missing) ==
    missing = 0 \/ lamports + h.fees.fee_per_tree - missing >= TreeRent + h.fee_balance

\* Mutant: every PDA of an instruction records the first queue index.
QueueIndexFirst(ns, n) == nt.queue_next_index

\* The queue index of input n: inserts are sequential within an instruction.
QueueIndex(ns, n) == nt.queue_next_index + (CHOOSE k \in 1 .. Len(ns) : ns[k] = n) - 1

\* Mutant: the record of an existing PDA is overwritten.
PdasUnusedOverwrite(ns) == \A k, l \in 1 .. Len(ns) : ns[k] = ns[l] => k = l

\* create_nullifier_pdas finds every PDA address unused, also by an earlier input.
PdasUnused(ns) ==
    \A k, l \in 1 .. Len(ns) : pdas[ns[k]] = NoPda /\ (ns[k] = ns[l] => k = l)

\* Inputs ns of this tree, checked against its root i, and outs outputs appended to
\* this tree (transact, merge).  Every PDA address already holds gift lamports.
Transact(ns, i, outs, gift) ==
    LET missing  == Len(ns) * Max(PdaRent - gift, 0)
        credited == CreditTreeFee(header)
    IN  /\ header.state = "Initialized"
        /\ InputsProved(ns, i)
        /\ \E t \in InsertNullifiers(nt, ns) : nt' = t
        /\ PdasUnused(ns)
        /\ CanTopUp(credited, missing)
        /\ header.utxo_next_index + outs <= UtxoCapacity
        /\ header' = [RecordNullifierPdasCreated(credited, Len(ns)) EXCEPT
               !.utxo_next_index = header.utxo_next_index + outs]
        /\ lamports' = lamports + header.fees.fee_per_tree - missing
        /\ pdas' = [n \in Nullifiers |->
               IF \E k \in 1 .. Len(ns) : ns[k] = n
               THEN [queue_index |-> QueueIndex(ns, n), lamports |-> Max(PdaRent, gift)]
               ELSE pdas[n]]
        /\ queued' = queued \o ns

\* Outputs of a transact or merge whose inputs are of other trees.
AppendOutputs(outs) ==
    /\ header.state = "Initialized"
    /\ outs > 0
    /\ header.utxo_next_index + outs <= UtxoCapacity
    /\ header' = [CreditTreeFee(header) EXCEPT !.utxo_next_index = header.utxo_next_index + outs]
    /\ lamports' = lamports + header.fees.fee_per_tree
    /\ UNCHANGED <<nt, pdas, queued>>

\* Mutant: a deposit loads the tree whether it is paused or not.
DepositAllowPaused(outs) ==
    /\ outs > 0
    /\ header.utxo_next_index + outs <= UtxoCapacity
    /\ header' = [header EXCEPT !.utxo_next_index = header.utxo_next_index + outs]
    /\ UNCHANGED <<nt, lamports, pdas, queued>>

\* A deposit pays no tree fee.
Deposit(outs) ==
    /\ header.state = "Initialized"
    /\ outs > 0
    /\ header.utxo_next_index + outs <= UtxoCapacity
    /\ header' = [header EXCEPT !.utxo_next_index = header.utxo_next_index + outs]
    /\ UNCHANGED <<nt, lamports, pdas, queued>>

-----------------------------------------------------------------------------
(***************************************************************************)
(* The forester's instructions.                                            *)
(***************************************************************************)

\* apply_cached_tree_updates: the region after the cascade and the number of ZKP
\* batches it applied.  It stops at an empty slot, or at one it evicts.  Its
\* errors are left out: none can occur (CascadeNeverFails of NullifierTree).
Cascade(t) ==
    LET turn[k \in 0 .. NumBatches * ZkpBatches + 1] ==
            IF k = 0 THEN [tree |-> t, applied |-> 0, stopped |-> FALSE]
            ELSE LET before == turn[k - 1]
                 IN  IF before.stopped \/ ~ HasNextUpdate(before.tree)
                     THEN [before EXCEPT !.stopped = TRUE]
                     ELSE IF NextUpdate(before.tree).old_root # GetRoot(before.tree)
                     THEN [before EXCEPT !.tree = EvictNextUpdate(before.tree), !.stopped = TRUE]
                     ELSE [before EXCEPT !.tree = ApplyNextUpdate(before.tree),
                                         !.applied = before.applied + 1]
    IN  turn[NumBatches * ZkpBatches + 1]

\* pay_reimbursement: the tree keeps its rent.
CanPay(balance, paid) == paid = 0 \/ balance - paid >= TreeRent

BatchUpdateNullifierTree(j, old) ==
    LET done == Cascade(VerifyProofCacheUpdate(nt, j, old))
        rate == header.fees.append_reimbursement
        paid == Reimbursement(header, rate, done.applied)
    IN  /\ header.state = "Initialized"
        /\ CanCacheUpdate(nt, j, old)
        /\ CanPay(lamports, paid)
        /\ nt' = done.tree
        /\ header' = TakeReimbursement(header, rate, done.applied)
        /\ lamports' = lamports - paid
        /\ UNCHANGED <<pdas, queued>>

\* Every PDA named is a record of this tree below the watermark; its lamports go to
\* the tree before the forester is paid.
CloseNullifierPdas(closed) ==
    LET rate     == header.fees.close_reimbursement
        count    == Cardinality(closed)
        paid     == Reimbursement(header, rate, count)
        returned == F!MapThenSumSet(LAMBDA n : pdas[n].lamports, closed)
    IN  /\ header.state = "Initialized"
        /\ closed # {}
        /\ \A n \in closed :
              pdas[n] # NoPda /\ pdas[n].queue_index < nt.close_before_index
        /\ CanPay(lamports + returned, paid)
        /\ header' = RecordNullifierPdasClosed(TakeReimbursement(header, rate, count), count)
        /\ lamports' = lamports + returned - paid
        /\ pdas' = [n \in Nullifiers |-> IF n \in closed THEN NoPda ELSE pdas[n]]
        /\ UNCHANGED <<nt, queued>>

-----------------------------------------------------------------------------
(***************************************************************************)
(* The authorities' instructions, which also run on a paused tree.         *)
(***************************************************************************)

SetTreeFees(fees) ==
    /\ IsValidSchedule(fees)
    /\ header' = [header EXCEPT !.fees = fees]
    /\ UNCHANGED <<nt, lamports, pdas, queued>>

\* Mutant: the claim leaves the rent and the fee balance only.
ClaimReserveNoCapital(h) == TreeRent + h.fee_balance

\* What a claim leaves in the tree.
ClaimReserve(h) == TreeRent + h.fee_balance + LiquidWorkingCapital(h.live_nullifier_pdas)

ClaimTreeLamports ==
    LET released == ReleaseFeeSurplus(header)
    IN  /\ lamports > ClaimReserve(released)
        /\ header' = released
        /\ lamports' = ClaimReserve(released)
        /\ UNCHANGED <<nt, pdas, queued>>

PauseTree(paused) ==
    /\ header' = [header EXCEPT !.state = IF paused THEN "Paused" ELSE "Initialized"]
    /\ UNCHANGED <<nt, lamports, pdas, queued>>

\* Anybody may send lamports to the tree.
SendLamports ==
    /\ lamports < MaxLamports
    /\ lamports' = lamports + 1
    /\ UNCHANGED <<nt, header, pdas, queued>>

-----------------------------------------------------------------------------
InputLists == UNION {[1 .. k -> Nullifiers] : k \in 1 .. MaxInputs}

WitnessTrees == {QueuedTree(m) : m \in 0 .. Len(queued)}

\* A tree account is created with tree_creation_lamports.
Init ==
    /\ nt = InitLayout
    /\ header \in [state : {"Initialized"}, fees : {f \in Schedules : IsValidSchedule(f)},
                   fee_balance : {0}, live_nullifier_pdas : {0}, utxo_next_index : {0}]
    /\ lamports = TreeRent + WorkingCapital
    /\ pdas = [n \in Nullifiers |-> NoPda]
    /\ queued = << >>

Next ==
    \/ \E ns \in InputLists, i \in ZkpIndices, outs \in 0 .. MaxOutputs, gift \in Gifts :
          Transact(ns, i, outs, gift)
    \/ \E outs \in 1 .. MaxOutputs : AppendOutputs(outs)
    \/ \E outs \in 1 .. MaxOutputs : Deposit(outs)
    \/ \E j \in ZkpIndices, old \in WitnessTrees : BatchUpdateNullifierTree(j, old)
    \/ \E closed \in SUBSET OpenPdas : CloseNullifierPdas(closed)
    \/ \E fees \in Schedules : SetTreeFees(fees)
    \/ ClaimTreeLamports
    \/ \E paused \in BOOLEAN : PauseTree(paused)
    \/ SendLamports

Spec == Init /\ [][Next]_vars

-----------------------------------------------------------------------------
(***************************************************************************)
(* Properties.                                                             *)
(***************************************************************************)

\* The tree always holds its rent and the fees it owes, so that no reimbursement
\* fails (InsufficientForesterFeeBalance) and no rent top-up eats into the fees.
Solvent == lamports >= TreeRent + header.fee_balance

\* The header's count is the number of open PDAs: closing and claiming rely on it.
LiveCountIsExact == header.live_nullifier_pdas = Cardinality(OpenPdas)

\* With prompt cleanup a tree never runs out of rent: while no closable PDA is open
\* and the queue takes another nullifier, the tree can fund its PDA, whatever was
\* claimed before ("a claim never starves nullifier PDA creation").
NeverStarved ==
    (\A n \in OpenPdas : pdas[n].queue_index >= nt.close_before_index) /\ CanInsertNullifier(nt) =>
        lamports >= TreeRent + header.fee_balance + PdaRent

\* What foresters can still earn from the nullifiers already queued, at the rates
\* in force: a close for every open PDA, an append for every ZKP batch not applied,
\* the one being filled included.
Owed ==
    Cardinality(OpenPdas) * header.fees.close_reimbursement
        + CeilDiv(nt.queue_next_index - nt.next_index, ZkpBatchSize)
            * header.fees.append_reimbursement

\* A claim never takes what is owed: it lowers the fee balance to Owed at most
\* ("never takes reimbursements foresters are still owed").
ClaimKeepsOwed ==
    [][ClaimTreeLamports => header'.fee_balance >= Min(header.fee_balance, Owed)]_vars

\* Dummy and address inputs never use up the room real spends need: every UTXO of
\* the tree, also one appended later, still finds a nullifier leaf
\* (dummy_input_headroom).
UtxosStaySpendable ==
    RemainingQueueCapacity(nt) >=
        Cardinality({n \in 1 .. UtxoCapacity : \A i \in 1 .. Len(queued) : queued[i] # n})

\* With several inputs in one instruction, too, no nullifier is queued twice.
NoDoubleSpend ==
    \A i, k \in 1 .. Len(queued) : queued[i] = queued[k] => i = k

\* The queue index recorded in a PDA is the index its nullifier was queued at, for
\* every input of a multi-input instruction (first_input_queue_seq + position).
PdaRecordsQueueIndex ==
    \A n \in OpenPdas :
        /\ pdas[n].queue_index \in 1 .. Len(queued)
        /\ queued[pdas[n].queue_index] = n

\* Nothing is spent, appended, updated or closed while the tree is paused.
FrozenWhilePaused ==
    [][header.state = "Paused" =>
          /\ UNCHANGED <<nt, pdas, queued>>
          /\ header'.utxo_next_index = header.utxo_next_index]_vars

=============================================================================
