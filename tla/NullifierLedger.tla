-------------------------- MODULE NullifierLedger ---------------------------
(***************************************************************************)
(* What a tree account promises about nullifiers, without batches, proofs, *)
(* caches, root histories or PDAs: a nullifier is spent at most once, and  *)
(* the indexed tree takes the spent nullifiers up in the order they were   *)
(* spent, a whole ZKP batch at a time.                                     *)
(***************************************************************************)
EXTENDS Naturals, Sequences

CONSTANTS Nullifiers, ZkpBatchSize

VARIABLES
    spent,      \* the nullifiers spent so far, in order
    applied     \* how many of them are in the indexed tree

vars == <<spent, applied>>

Init == spent = << >> /\ applied = 0

Spend(n) ==
    /\ \A i \in 1 .. Len(spent) : spent[i] # n
    /\ spent' = Append(spent, n)
    /\ UNCHANGED applied

AppendZkpBatch ==
    /\ applied + ZkpBatchSize <= Len(spent)
    /\ applied' = applied + ZkpBatchSize
    /\ UNCHANGED spent

Next ==
    \/ \E n \in Nullifiers : Spend(n)
    \/ AppendZkpBatch

Spec == Init /\ [][Next]_vars

=============================================================================
