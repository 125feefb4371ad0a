----------------------------- MODULE HashFolds ------------------------------
(***************************************************************************)
(* The Poseidon folds of program-libs/hasher, which the programs, the      *)
(* provers and the circuits compute over lists of field elements.          *)
(*                                                                         *)
(* Poseidon is a free constructor: a hash is the tuple of its inputs, so   *)
(* two chains are equal exactly when the same values were folded the same  *)
(* way.  A field element is a 1-tuple.                                     *)
(***************************************************************************)
EXTENDS Integers, Sequences

CONSTANT
    ZeroSuffixChainMaxWidth     \* widest chain the table of zero suffixes covers

ASSUME HashFoldsAssumption == ZeroSuffixChainMaxWidth \in Nat \ {0}

Zero == <<0>>

Poseidon(a, b, c, d) == <<a, b, c, d>>

\* HasherError::InvalidInputLength, which is no hash and no field element.
InvalidInputLength == << >>

\* Element i of s, or the padding.
At(s, i) == IF i \in 1 .. Len(s) THEN s[i] ELSE Zero

\* create_hash_chain_4: the first value seeds the chain, groups of three follow.
HashChain4(s) ==
    LET groups == (Len(s) + 1) \div 3
        fold[g \in 0 .. groups] ==
            IF g = 0 THEN At(s, 1)
            ELSE Poseidon(fold[g - 1], At(s, 3 * g - 1), At(s, 3 * g), At(s, 3 * g + 1))
    IN  fold[groups]

\* The values of one of the groups rchunks(3) yields, from the right, from 1 on.
RightGroup(prefix, g) ==
    SubSeq(prefix, IF Len(prefix) < 3 * g THEN 1 ELSE Len(prefix) - 3 * g + 1,
                   Len(prefix) - 3 * (g - 1))

RightGroups(prefix) == (Len(prefix) + 2) \div 3

\* create_right_hash_chain_4_from_seed: groups of three from the right, the short
\* leftmost one left-aligned.
RightHashChain4FromSeed(prefix, seed) ==
    LET fold[g \in 0 .. RightGroups(prefix)] ==
            IF g = 0 THEN seed
            ELSE LET group == RightGroup(prefix, g)
                 IN  Poseidon(At(group, 1), At(group, 2), At(group, 3), fold[g - 1])
    IN  fold[RightGroups(prefix)]

RightHashChain4(s) ==
    IF s = << >> THEN Zero
    ELSE RightHashChain4FromSeed(SubSeq(s, 1, Len(s) - 1), s[Len(s)])

\* ZERO_SUFFIX_GROUPS: the groups of the widest chain, after its seed.
ZeroSuffixGroups == (ZeroSuffixChainMaxWidth + 1) \div 3

\* ZERO_SUFFIX_CHAINS.  The code holds the entries as literals, which the test
\* the_zero_suffix_table_is_the_fold_over_zeros compares with this recursion.
ZeroSuffixChains[k \in 0 .. ZeroSuffixGroups] ==
    IF k = 0 THEN Zero ELSE Poseidon(Zero, Zero, Zero, ZeroSuffixChains[k - 1])

IsZeroGroup(group) == \A i \in 1 .. Len(group) : group[i] = Zero

\* take_while(..).count(): the groups from the right that hold only empty slots.
SkippedGroups(prefix) ==
    CHOOSE k \in 0 .. RightGroups(prefix) :
        /\ \A g \in 1 .. k : IsZeroGroup(RightGroup(prefix, g))
        /\ k < RightGroups(prefix) => ~ IsZeroGroup(RightGroup(prefix, k + 1))

\* Mutant: every zero slot is skipped, also those of a group that is not all zero.
ZeroSuffixRightHashChain4Slots(s) ==
    IF s = << >> THEN Zero
    ELSE LET prefix  == SubSeq(s, 1, Len(s) - 1)
             used    == {i \in 1 .. Len(prefix) : prefix[i] # Zero}
             kept    == IF used = {} THEN 0 ELSE CHOOSE m \in used : \A i \in used : i <= m
         IN  IF s[Len(s)] # Zero THEN RightHashChain4FromSeed(prefix, s[Len(s)])
             ELSE RightHashChain4FromSeed(SubSeq(prefix, 1, kept),
                      ZeroSuffixChains[(Len(prefix) - kept) \div 3])

\* create_zero_suffix_right_hash_chain_4: the zero groups come from the table, which
\* must have an entry for them.
ZeroSuffixRightHashChain4(s) ==
    IF s = << >> THEN Zero
    ELSE LET prefix  == SubSeq(s, 1, Len(s) - 1)
             skipped == SkippedGroups(prefix)
             rest    == Len(prefix) - 3 * skipped
         IN  IF s[Len(s)] # Zero THEN RightHashChain4FromSeed(prefix, s[Len(s)])
             ELSE IF skipped > ZeroSuffixGroups THEN InvalidInputLength
             ELSE RightHashChain4FromSeed(SubSeq(prefix, 1, IF rest < 0 THEN 0 ELSE rest),
                      ZeroSuffixChains[skipped])

Padded(sent, width) == [i \in 1 .. width |-> At(sent, i)]

\* create_padded_right_hash_chain_4: the values sent must fit the width, and the
\* width the table.
PaddedRightHashChain4(sent, width) ==
    IF width > ZeroSuffixChainMaxWidth \/ Len(sent) > width THEN InvalidInputLength
    ELSE ZeroSuffixRightHashChain4(Padded(sent, width))

=============================================================================
