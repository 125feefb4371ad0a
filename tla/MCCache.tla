------------------------------ MODULE MCCache -------------------------------
(***************************************************************************)
(* Instances of Cache for TLC.                                             *)
(***************************************************************************)
EXTENDS Cache, TLC

\* Cache addresses, signers and trees are alike.
Symmetry == Permutations(Caches) \cup Permutations(Authorities) \cup Permutations(Trees)

=============================================================================
