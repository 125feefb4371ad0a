---------------------------- MODULE MCMergeProof ----------------------------
(***************************************************************************)
(* An instance of MergeProof for TLC: the real widths, with lists of       *)
(* nullifiers at and around them, and statements and instructions that     *)
(* differ in one element or one list.                                      *)
(***************************************************************************)
EXTENDS MergeProof

MCSupportedInputCounts == <<8, 24, 52>>

\* The first n nullifiers.
First(n) == [i \in 1 .. n |-> <<100 + i>>]

\* The lists an instruction carries: every count at a boundary, none and too many,
\* two nullifiers in the other order, and explicit zeros in the middle and at the end.
SentLists ==
    {First(n) : n \in {0, 1, 2, 7, 8, 9, 24, 25, 52, 53}}
        \cup { <<First(2)[2], First(2)[1]>>, First(7) \o <<Zero>>, [First(8) EXCEPT ![3] = Zero] }

\* The lists of a statement: one of those, padded to any circuit that holds it.
ProvedLists ==
    {Padded(s, w) : s \in {l \in SentLists : Len(l) <= 8}, w \in Widths}
        \cup {Padded(First(n), w) : n \in {9, 24}, w \in {24, 52}}
        \cup {Padded(First(n), 52) : n \in {25, 52}}

Slot == [id |-> <<1>>, utxo_root |-> <<2>>, nullifier_root |-> <<3>>]

Common ==
    [output_utxo_hash |-> <<4>>, output_tree_id |-> <<5>>, private_tx_hash |-> <<6>>,
     external_data_hash |-> <<7>>, allow_dummy_inputs |-> <<1>>]

Owner(binding) ==
    IF binding = "Default"
    THEN [signing_pk_field |-> <<8>>, nullifier_pk |-> <<9>>, salt |-> <<10>>,
          ciphertext |-> << <<11>>, <<12>>, <<13>> >>]
    ELSE [output_ring_data_hash |-> <<8>>, ring_program_id |-> <<9>>]

\* r, and r with one element replaced by zero or by another one's value.
Varied(r) == {r} \cup {[r EXCEPT ![f] = x] : f \in DOMAIN r, x \in {Zero, <<5>>}}

VariedOwner(binding) ==
    {o \in Varied(Owner(binding)) : binding = "Default" => Len(o.ciphertext) = 3}
        \cup (IF binding = "Default"
              THEN {[Owner(binding) EXCEPT !.ciphertext = c] : c \in Varied(Owner(binding).ciphertext)}
              ELSE {})

Slots(slot) == [k \in 1 .. InputTrees |-> IF k = 1 THEN slot ELSE ZeroSlot]

Statement(binding, list, slots, common, owner) ==
    [binding |-> binding, nullifiers |-> list, tree_slots |-> slots, owner |-> owner,
     output_utxo_hash |-> common.output_utxo_hash, output_tree_id |-> common.output_tree_id,
     private_tx_hash |-> common.private_tx_hash, external_data_hash |-> common.external_data_hash,
     allow_dummy_inputs |-> common.allow_dummy_inputs]

Instruction(binding, list, slot, common, owner) ==
    [binding |-> binding, nullifiers |-> list, tree_slot |-> slot, owner |-> owner,
     output_utxo_hash |-> common.output_utxo_hash, output_tree_id |-> common.output_tree_id,
     private_tx_hash |-> common.private_tx_hash, external_data_hash |-> common.external_data_hash,
     allow_dummy_inputs |-> common.allow_dummy_inputs]

Bindings == {"Default", "Ring"}

\* Every list with the plain elements, and every changed element with one list; a
\* statement may also be about a second tree, or about a tree in another slot.
MCStatements ==
    {Statement(b, l, Slots(Slot), Common, Owner(b)) : b \in Bindings, l \in ProvedLists}
        \cup UNION {
            {Statement(b, Padded(First(2), 8), Slots(Slot), c, Owner(b)) : c \in Varied(Common)}
            \cup {Statement(b, Padded(First(2), 8), Slots(Slot), Common, o) : o \in VariedOwner(b)}
            \cup {Statement(b, Padded(First(2), 8), Slots(s), Common, Owner(b)) : s \in Varied(Slot)}
            \cup {Statement(b, Padded(First(2), 8), [Slots(Slot) EXCEPT ![k] = Slot], Common, Owner(b)) :
                      k \in 2 .. InputTrees}
            \cup {Statement(b, Padded(First(2), 8), [Slots(ZeroSlot) EXCEPT ![2] = Slot], Common, Owner(b))} :
            b \in Bindings}

\* What the program derives: a Boolean policy, the roots of a tree, and a ring.
IsDerived(ix) ==
    /\ ix.allow_dummy_inputs \in {Zero, <<1>>}
    /\ ix.tree_slot.utxo_root # Zero /\ ix.tree_slot.nullifier_root # Zero
    /\ ix.binding = "Ring" => ix.owner.ring_program_id # Zero

MCInstructions ==
    {Instruction(b, l, Slot, Common, Owner(b)) : b \in Bindings, l \in SentLists}
        \cup {ix \in UNION {
            {Instruction(b, First(2), Slot, c, Owner(b)) : c \in Varied(Common)}
            \cup {Instruction(b, First(2), Slot, Common, o) : o \in VariedOwner(b)}
            \cup {Instruction(b, First(2), s, Common, Owner(b)) : s \in Varied(Slot)} :
            b \in Bindings} : IsDerived(ix)}

=============================================================================
