---------------------------- MODULE MCHashChain -----------------------------
(***************************************************************************)
(* Instances of HashChain for TLC.                                         *)
(***************************************************************************)
EXTENDS HashChain

MCValues == { <<1>>, <<2>> }

=============================================================================
