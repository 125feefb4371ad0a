----------------------------- MODULE MergeProof -----------------------------
(***************************************************************************)
(* The statement of a merge proof, computed twice: the circuits of         *)
(* prover/server/circuits/spp_merge fold what they prove into one public   *)
(* input, and the program (instructions/merge/verify.rs) rebuilds it from  *)
(* an instruction that carries only the leading nullifiers, choosing the   *)
(* circuit by their count, taking zero suffixes from tables and continuing *)
(* from the hash of a prefix.                                              *)
(*                                                                         *)
(* An instruction stands for its data together with what the program       *)
(* derives for it (MergeProofInputs).  The proof system is idealised: a    *)
(* proof verifies under the key of its circuit and for its public input.   *)
(***************************************************************************)
EXTENDS HashFolds, FiniteSets

CONSTANTS
    SupportedInputCounts,   \* widths of the merge circuits, narrowest first
    InputTrees,             \* tree slots of a proof
    Statements,             \* what a prover may try to prove
    Instructions,           \* the merge instructions that are sent
    NoProof, NoMerge        \* nothing proved, nothing sent

ASSUME MergeProofAssumption ==
    /\ SupportedInputCounts \in Seq(Nat \ {0})
    /\ \A i \in 1 .. Len(SupportedInputCounts) :
          /\ SupportedInputCounts[i] <= ZeroSuffixChainMaxWidth
          /\ i > 1 => SupportedInputCounts[i - 1] < SupportedInputCounts[i]
    /\ InputTrees \in Nat \ {0}

VARIABLES
    proof,      \* the last proof
    merge       \* the last merge instruction, and whether its proof verified

vars == <<proof, merge>>

Widths == {SupportedInputCounts[i] : i \in 1 .. Len(SupportedInputCounts)}

ZeroSlot == [id |-> Zero, utxo_root |-> Zero, nullifier_root |-> Zero]

\* Poseidon(id, utxo_root, nullifier_root), in the program and in the circuit.
SlotHash(slot) == <<slot.id, slot.utxo_root, slot.nullifier_root>>

-----------------------------------------------------------------------------
(***************************************************************************)
(* The circuits.                                                           *)
(***************************************************************************)

\* RightHashChain: the binary right fold.
RightHashChain(s) ==
    LET fold[i \in 1 .. Len(s)] == IF i = Len(s) THEN s[i] ELSE <<s[i], fold[i + 1]>>
    IN  fold[1]

TreeSlotsHashChain(slots) == RightHashChain([k \in 1 .. Len(slots) |-> SlotHash(slots[k])])

\* CommonPublicInputs.Prefix.
Prefix(st) ==
    << RightHashChain4(st.nullifiers), st.output_utxo_hash, TreeSlotsHashChain(st.tree_slots),
       st.output_tree_id, st.private_tx_hash, st.external_data_hash, st.allow_dummy_inputs >>

\* What Define appends for the binding of the circuit.
OwnerInputs(st) ==
    IF st.binding = "Default"
    THEN <<st.owner.signing_pk_field, st.owner.nullifier_pk, st.owner.salt>> \o st.owner.ciphertext
    ELSE <<st.owner.output_ring_data_hash, st.owner.ring_program_id>>

CircuitPublicInputHash(st) == HashChain4(Prefix(st) \o OwnerInputs(st))

\* ValidateLayout and what Define and Constrain ask of the public inputs: slot zero
\* is a real input, only compact padding repeats a nullifier, the policy is a
\* Boolean, some tree slot can be selected, and a ring is named.
Constrain(st) ==
    /\ Len(st.nullifiers) \in Widths
    /\ Len(st.tree_slots) = InputTrees
    /\ st.nullifiers[1] # Zero
    /\ LET used == SelectSeq(st.nullifiers, LAMBDA v : v # Zero)
       IN  Cardinality({used[i] : i \in 1 .. Len(used)}) = Len(used)
    /\ st.allow_dummy_inputs \in {Zero, <<1>>}
    /\ \E k \in 1 .. InputTrees :
          st.tree_slots[k].nullifier_root # Zero /\ st.tree_slots[k].utxo_root # Zero
    /\ st.binding = "Ring" => st.owner.ring_program_id # Zero

\* A prover proves a statement; there is one key for each binding and width.
Prove(st) ==
    /\ Constrain(st)
    /\ proof' = [key               |-> <<st.binding, Len(st.nullifiers)>>,
                 public_input_hash |-> CircuitPublicInputHash(st),
                 statement         |-> st]
    /\ merge' = NoMerge

-----------------------------------------------------------------------------
(***************************************************************************)
(* The program.                                                            *)
(***************************************************************************)

\* merge_circuit_width: the narrowest circuit that holds n nullifiers, 0 for none.
MergeCircuitWidth(n) ==
    IF n = 0 THEN 0
    ELSE IF \E w \in Widths : n <= w
    THEN CHOOSE w \in Widths : n <= w /\ \A v \in Widths : n <= v => w <= v
    ELSE 0

\* verifying_key.
VerifyingKey(ix) == <<ix.binding, MergeCircuitWidth(Len(ix.nullifiers))>>

\* ZERO_TREE_SLOT_SUFFIX_CHAINS, literals in the code, pinned by the test
\* zero_suffix_chains_match_recomputation.
ZeroTreeSlotSuffixChains[m \in 1 .. InputTrees - 1] ==
    IF m = 1 THEN SlotHash(ZeroSlot) ELSE <<SlotHash(ZeroSlot), ZeroTreeSlotSuffixChains[m - 1]>>

\* populated_tree_slots_hash_chain, for the one slot of a merge: its hash is folded
\* onto the suffix of the unused slots, if there are any.
PopulatedTreeSlotsHashChain(slot) ==
    IF InputTrees = 1 THEN SlotHash(slot)
    ELSE <<SlotHash(slot), ZeroTreeSlotSuffixChains[InputTrees - 1]>>

\* append_public_inputs: the salt, then the ciphertext.
EncryptionInputs(owner) == <<owner.salt>> \o owner.ciphertext

\* The elements both bindings share.
PrefixElements(ix) ==
    << PaddedRightHashChain4(ix.nullifiers, MergeCircuitWidth(Len(ix.nullifiers))),
       ix.output_utxo_hash, PopulatedTreeSlotsHashChain(ix.tree_slot), ix.output_tree_id,
       ix.private_tx_hash, ix.external_data_hash, ix.allow_dummy_inputs >>

\* Mutant: the policy is left to the tail, and the prefix ends within a group.
PublicInputHashSplitEarly(ix) ==
    LET prefix_hash == HashChain4(SubSeq(PrefixElements(ix), 1, 6))
    IN  IF ix.binding = "Default"
        THEN HashChain4(<<prefix_hash, ix.allow_dummy_inputs, ix.owner.signing_pk_field,
                          ix.owner.nullifier_pk>> \o EncryptionInputs(ix.owner))
        ELSE HashChain4(<<prefix_hash, ix.allow_dummy_inputs, ix.owner.output_ring_data_hash,
                          ix.owner.ring_program_id>>)

\* public_input_hash.
PublicInputHash(ix) ==
    LET prefix_hash == HashChain4(PrefixElements(ix))
    IN  IF ix.binding = "Default"
        THEN HashChain4(<<prefix_hash, ix.owner.signing_pk_field, ix.owner.nullifier_pk>>
                            \o EncryptionInputs(ix.owner))
        ELSE HashChain4(<<prefix_hash, ix.owner.output_ring_data_hash, ix.owner.ring_program_id>>)

\* validate_shape, then validate_field_elements: a circuit holds the nullifiers, and
\* none of them is zero.
IsValid(ix) ==
    /\ MergeCircuitWidth(Len(ix.nullifiers)) # 0
    /\ \A i \in 1 .. Len(ix.nullifiers) : ix.nullifiers[i] # Zero

\* verify, on the last proof.
Verify(ix) ==
    /\ VerifyingKey(ix) = proof.key
    /\ PublicInputHash(ix) = proof.public_input_hash

\* merge_transact or merge_ring with the last proof: it fails or succeeds.
MergeTransact(ix) ==
    /\ proof # NoProof
    /\ merge' = [instruction |-> ix, verified |-> IsValid(ix) /\ Verify(ix)]
    /\ UNCHANGED proof

-----------------------------------------------------------------------------
Init ==
    /\ proof = NoProof
    /\ merge = NoMerge

Next ==
    \/ \E st \in Statements : Prove(st)
    \/ \E ix \in Instructions : MergeTransact(ix)

Spec == Init /\ [][Next]_vars

-----------------------------------------------------------------------------
(***************************************************************************)
(* Properties.                                                             *)
(***************************************************************************)

\* The statement st is about exactly the merge that ix asks for: its nonzero
\* nullifiers in order and none besides, at the narrowest width that holds them,
\* against the one input tree, with the same outputs, policy and owner.
Describes(st, ix) ==
    LET n == Len(ix.nullifiers)
        w == Len(st.nullifiers)
    IN  /\ st.binding = ix.binding
        /\ n \in 1 .. w
        /\ \A v \in Widths : n <= v => w <= v
        /\ \A i \in 1 .. w : st.nullifiers[i] # Zero <=> i <= n
        /\ \A i \in 1 .. n : st.nullifiers[i] = ix.nullifiers[i]
        /\ st.tree_slots[1] = ix.tree_slot
        /\ \A k \in 2 .. InputTrees : st.tree_slots[k] = ZeroSlot
        /\ st.output_utxo_hash = ix.output_utxo_hash
        /\ st.output_tree_id = ix.output_tree_id
        /\ st.private_tx_hash = ix.private_tx_hash
        /\ st.external_data_hash = ix.external_data_hash
        /\ st.allow_dummy_inputs = ix.allow_dummy_inputs
        /\ st.owner = ix.owner

\* A merge succeeds exactly when its proof is of this merge: the program's public
\* input, from the padded list of the nullifiers sent, the table of unused tree
\* slots and the hash of the first seven elements, is the circuit's fold over all of
\* them ("Continuing from its hash with the tail is therefore equivalent to folding
\* all elements together"), and no other merge has it.
VerifiesWhatWasProved ==
    merge # NoMerge => (merge.verified <=> Describes(proof.statement, merge.instruction))

=============================================================================
