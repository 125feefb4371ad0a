----------------------------- MODULE HashChain ------------------------------
(***************************************************************************)
(* The Poseidon chain that commits to the values of a ZKP batch, which     *)
(* Batch::add_to_hash_chain computes one value at a time, over the life of *)
(* a batch that is filled, applied and reused, against the folds of        *)
(* HashFolds over the same values.                                         *)
(***************************************************************************)
EXTENDS HashFolds

CONSTANTS
    Values,         \* the nonzero field elements that are queued
    ZkpBatchSize,   \* values per chain
    ZkpBatches,     \* chains per batch
    MaxQueued       \* bound on the values queued

\* The sizes init accepts end a chain with a whole group.
ASSUME HashChainAssumption ==
    /\ ZkpBatchSize \in Nat /\ ZkpBatchSize % 3 = 1
    /\ ZkpBatches \in Nat \ {0}
    /\ MaxQueued \in Nat

Min2(a, b) == IF a < b THEN a ELSE b

-----------------------------------------------------------------------------
(***************************************************************************)
(* The chains of one batch.                                                *)
(***************************************************************************)
VARIABLES
    batch,      \* the fields of Batch the chains depend on
    queued,     \* the values queued since the batch was last reset, in order
    count       \* how many values were queued in all

vars == <<batch, queued, count>>

ChainIndices == 0 .. ZkpBatches - 1

\* A batch over zeroed account data.
Init ==
    /\ batch = [num_inserted             |-> 0,
                num_full_zkp_batches     |-> 0,
                num_inserted_zkp_batches |-> 0,
                hash_chains              |-> [j \in ChainIndices |-> Zero],
                pending_values           |-> <<Zero, Zero>>]
    /\ queued = << >>
    /\ count = 0

NumPending(b) == IF b.num_inserted = 0 THEN 0 ELSE (b.num_inserted - 1) % 3

\* Mutant: the number of pending values counts the chain head too.
AbsorbWithHead(b, v) ==
    LET chain   == b.hash_chains[b.num_full_zkp_batches]
        pending == b.num_inserted % 3
    IN  Poseidon(chain,
                 IF pending = 0 THEN v ELSE b.pending_values[1],
                 CASE pending = 0 -> Zero [] pending = 1 -> v [] OTHER -> b.pending_values[2],
                 IF pending = 2 THEN v ELSE Zero)

\* The pending group and v, padded with zeros, go into the open chain.
Absorb(b, v) ==
    LET chain   == b.hash_chains[b.num_full_zkp_batches]
        pending == NumPending(b)
    IN  Poseidon(chain,
                 IF pending = 0 THEN v ELSE b.pending_values[1],
                 CASE pending = 0 -> Zero [] pending = 1 -> v [] OTHER -> b.pending_values[2],
                 IF pending = 2 THEN v ELSE Zero)

\* Mutant: the chain is closed before its last group is absorbed.
AddToHashChainClosedFirst(b, v) ==
    LET open    == b.num_full_zkp_batches
        full    == b.num_inserted + 1 = ZkpBatchSize
        counted == [b EXCEPT !.num_inserted = IF full THEN 0 ELSE b.num_inserted + 1,
                             !.num_full_zkp_batches = IF full THEN open + 1 ELSE open]
    IN  IF b.num_inserted = 0
        THEN [counted EXCEPT !.hash_chains[open] = v]
        ELSE IF NumPending(b) = 2 /\ ~ full
        THEN [counted EXCEPT !.hash_chains[open] = Absorb(b, v)]
        ELSE [counted EXCEPT !.pending_values[NumPending(b) + 1] = v]

AddToHashChain(b, v) ==
    LET open    == b.num_full_zkp_batches
        full    == b.num_inserted + 1 = ZkpBatchSize
        counted == [b EXCEPT !.num_inserted = IF full THEN 0 ELSE b.num_inserted + 1,
                             !.num_full_zkp_batches = IF full THEN open + 1 ELSE open]
    IN  IF b.num_inserted = 0
        THEN [counted EXCEPT !.hash_chains[open] = v]
        ELSE IF NumPending(b) = 2 \/ full
        THEN [counted EXCEPT !.hash_chains[open] = Absorb(b, v)]
        ELSE [counted EXCEPT !.pending_values[NumPending(b) + 1] = v]

\* The counters only: the chains and the pending values stay.
Reset(b) ==
    [b EXCEPT !.num_inserted = 0,
              !.num_full_zkp_batches = 0,
              !.num_inserted_zkp_batches = 0]

IsInserted(b) == b.num_inserted_zkp_batches = ZkpBatches

\* A value is queued, into a batch that is filling or one that is applied.
AddValue(v) ==
    /\ count < MaxQueued
    /\ batch.num_full_zkp_batches < ZkpBatches \/ IsInserted(batch)
    /\ batch' = AddToHashChain(IF IsInserted(batch) THEN Reset(batch) ELSE batch, v)
    /\ queued' = IF IsInserted(batch) THEN <<v>> ELSE Append(queued, v)
    /\ count' = count + 1

\* The next complete chain is applied to the tree and zeroed.
ApplyZkpBatch ==
    LET j == batch.num_inserted_zkp_batches
    IN  /\ j < batch.num_full_zkp_batches
        /\ batch' = [batch EXCEPT !.num_inserted_zkp_batches = j + 1,
                                  !.hash_chains[j] = Zero]
        /\ UNCHANGED <<queued, count>>

Next ==
    \/ \E v \in Values : AddValue(v)
    \/ ApplyZkpBatch

Spec == Init /\ [][Next]_vars

-----------------------------------------------------------------------------
(***************************************************************************)
(* Properties.                                                             *)
(***************************************************************************)

\* The values of chain j.
ChainValues(j) ==
    SubSeq(queued, j * ZkpBatchSize + 1, Min2(Len(queued), (j + 1) * ZkpBatchSize))

\* A complete chain is the hash_chain_4 of its values in insertion order, the value
\* the forester's witness recomputes, whatever an earlier chain or an earlier use
\* of the batch left in pending_values ("The chain is hash_chain_4 over the ZKP
\* batch's values in insertion order").
CompleteChainIsHashChain4 ==
    \A j \in batch.num_inserted_zkp_batches .. batch.num_full_zkp_batches - 1 :
        batch.hash_chains[j] = HashChain4(ChainValues(j))

\* While a chain is open, its value and the pending values are together the chain
\* so far: the chain folds the whole groups, the rest is pending in order.
OpenChainIsPrefix ==
    LET j == batch.num_full_zkp_batches
        p == NumPending(batch)
        s == ChainValues(j)
    IN  batch.num_inserted > 0 =>
            /\ Len(s) = batch.num_inserted
            /\ batch.hash_chains[j] = HashChain4(SubSeq(s, 1, Len(s) - p))
            /\ \A i \in 1 .. p : batch.pending_values[i] = s[Len(s) - p + i]

\* The chain with the table of zero suffixes, which the verifier computes over the
\* inputs an instruction carries, is the plain right fold over the circuit's
\* width, which the prover computes, at every width the table covers; and it is
\* refused exactly when the inputs do not fit or the width is beyond the table
\* (create_padded_right_hash_chain_4).
PaddedChainIsRightFold ==
    \A width \in 0 .. ZeroSuffixChainMaxWidth + 1 :
        PaddedRightHashChain4(queued, width) =
            IF Len(queued) <= width /\ width <= ZeroSuffixChainMaxWidth
            THEN RightHashChain4(Padded(queued, width))
            ELSE InvalidInputLength

=============================================================================
