-------------------------- MODULE MCNullifierTree --------------------------
(***************************************************************************)
(* Instances of NullifierTree for TLC.  Nullifiers are numbers.            *)
(***************************************************************************)
EXTENDS NullifierTree

\* A proof does not tie its old root to the account: a prover may start from a
\* tree that never was the account's, here one whose last leaf is set.
MCForeignTrees == { {<<Capacity - 1, 1>>} }

\* The specification treats all nullifiers alike, so it is enough to look at the
\* runs that queue the unused ones in their order.  A nullifier that was queued
\* before may be offered again at any time.
FreshInOrder ==
    queued' # queued =>
        LET n == queued'[Len(queued')]
        IN  \A k \in Nullifiers : k < n => \E i \in 1 .. Len(queued) : queued[i] = k

=============================================================================
