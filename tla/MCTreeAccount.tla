--------------------------- MODULE MCTreeAccount ----------------------------
(***************************************************************************)
(* Instances of TreeAccount for TLC.                                       *)
(***************************************************************************)
EXTENDS TreeAccount

\* A cheap schedule with fees, a dear one without, and one above the cap.
MCSchedules ==
    { [fee_per_tree |-> 1, append_reimbursement |-> 1, close_reimbursement |-> 1],
      [fee_per_tree |-> 0, append_reimbursement |-> 3, close_reimbursement |-> 2],
      [fee_per_tree |-> 3, append_reimbursement |-> 0, close_reimbursement |-> 0] }

\* Unused nullifiers of a kind are alike: they are queued in their order.
FreshInOrder ==
    queued' # queued =>
        \A i \in Len(queued) + 1 .. Len(queued') :
            \A k \in Nullifiers :
                k < queued'[i] /\ IsUtxo(k) = IsUtxo(queued'[i]) =>
                    \E l \in 1 .. i - 1 : queued'[l] = k

=============================================================================
