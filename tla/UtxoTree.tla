------------------------------ MODULE UtxoTree ------------------------------
(***************************************************************************)
(* The UTXO region of a tree account (program-libs/tree/src/smt.rs): an    *)
(* append-only Merkle tree kept as one node per level, and a ring of its   *)
(* roots with one entry per slot in which the tree changed.                *)
(*                                                                         *)
(* Poseidon is a free constructor: a node is the pair of its children and  *)
(* a leaf a 1-tuple, so a root tells its tree apart from every other tree. *)
(***************************************************************************)
EXTENDS Integers, Sequences

CONSTANTS
    Height,                 \* levels of the tree (HEIGHT)
    RootHistoryCapacity,    \* ROOT_HISTORY_CAPACITY
    MaxBatch,               \* most leaves one instruction appends
    MaxSlot                 \* the last slot looked at

ASSUME UtxoTreeAssumption ==
    /\ Height \in Nat
    /\ RootHistoryCapacity \in Nat \ {0}
    /\ MaxBatch \in Nat
    /\ MaxSlot \in Nat

Levels == 0 .. Height - 1

Slots == 0 .. MaxSlot

Capacity == 2 ^ Height

HistoryIndices == 0 .. RootHistoryCapacity - 1

NoRoot == << >>

Poseidon(left, right) == <<left, right>>

\* zero_bytes: the root of an empty tree of each height.
ZeroBytes[h \in 0 .. Height] == IF h = 0 THEN <<0>> ELSE Poseidon(ZeroBytes[h - 1], ZeroBytes[h - 1])

\* The root of the tree over a list of leaves, node by node.
MerkleRoot(leaves) ==
    LET node[h \in 0 .. Height] ==
            [i \in 0 .. 2 ^ (Height - h) - 1 |->
                IF h = 0 THEN IF i < Len(leaves) THEN leaves[i + 1] ELSE ZeroBytes[0]
                ELSE Poseidon(node[h - 1][2 * i], node[h - 1][2 * i + 1])]
    IN  node[Height][0]

-----------------------------------------------------------------------------
VARIABLES
    utxo,       \* the region's data
    slot,       \* the slot of the clock
    leaves,     \* the leaves appended so far
    history     \* the slots that changed the tree, each with the tree's last root in it

vars == <<utxo, slot, leaves, history>>

Init ==
    /\ utxo = [next_index          |-> 0,
               root                |-> ZeroBytes[Height],
               root_history_cursor |-> 0,
               root_history_len    |-> 1,
               last_update_slot    |-> 0,
               subtrees            |-> [h \in Levels |-> ZeroBytes[h]],
               root_history        |-> [i \in HistoryIndices |->
                                           IF i = 0 THEN ZeroBytes[Height] ELSE NoRoot]]
    /\ slot \in Slots
    /\ leaves = << >>
    /\ history = <<[slot |-> -1, root |-> ZeroBytes[Height]]>>

\* Mutant: the walk of a leaf that is not the last never stops early, and takes the
\* right child for granted.
WalkWithoutBreak(subtrees, index, leaf, is_last) ==
    LET climb[h \in 0 .. Height] ==
            IF h = 0 THEN [hash |-> leaf, index |-> index, subtrees |-> subtrees]
            ELSE LET below == climb[h - 1]
                     left  == below.index % 2 = 0
                 IN  [hash     |-> IF left THEN Poseidon(below.hash, ZeroBytes[h - 1])
                                   ELSE Poseidon(below.subtrees[h - 1], below.hash),
                      index    |-> below.index \div 2,
                      subtrees |-> [below.subtrees EXCEPT ![h - 1] = below.hash]]
    IN  climb[Height]

\* The loop over the levels for one leaf.  A leaf that is not the last of its
\* batch stops at the first level where it is a left child: done.
Walk(subtrees, index, leaf, is_last) ==
    LET climb[h \in 0 .. Height] ==
            IF h = 0
            THEN [hash |-> leaf, index |-> index, subtrees |-> subtrees, done |-> FALSE]
            ELSE LET below == climb[h - 1]
                 IN  IF below.done THEN below
                     ELSE IF below.index % 2 = 0
                     THEN [hash     |-> Poseidon(below.hash, ZeroBytes[h - 1]),
                           index    |-> below.index \div 2,
                           subtrees |-> [below.subtrees EXCEPT ![h - 1] = below.hash],
                           done     |-> ~ is_last]
                     ELSE [below EXCEPT !.hash = Poseidon(below.subtrees[h - 1], below.hash),
                                        !.index = below.index \div 2]
    IN  climb[Height]

NextCursor(i) == (i + 1) % RootHistoryCapacity

\* Mutant: the first update is not told from a later one in slot 0.
PushRootAlwaysBySlot(u, root, s, is_first_update) ==
    IF s = u.last_update_slot
    THEN [u EXCEPT !.root_history[u.root_history_cursor] = root]
    ELSE [u EXCEPT !.root_history[NextCursor(u.root_history_cursor)] = root,
                   !.root_history_cursor = NextCursor(u.root_history_cursor),
                   !.root_history_len = IF u.root_history_len < RootHistoryCapacity
                                        THEN u.root_history_len + 1
                                        ELSE u.root_history_len,
                   !.last_update_slot = s]

\* Mutant: the length of the history is not capped.
PushRootUncapped(u, root, s, is_first_update) ==
    IF ~ is_first_update /\ s = u.last_update_slot
    THEN [u EXCEPT !.root_history[u.root_history_cursor] = root]
    ELSE [u EXCEPT !.root_history[NextCursor(u.root_history_cursor)] = root,
                   !.root_history_cursor = NextCursor(u.root_history_cursor),
                   !.root_history_len = u.root_history_len + 1,
                   !.last_update_slot = s]

\* A further update in a slot overwrites the entry of that slot.
PushRoot(u, root, s, is_first_update) ==
    IF ~ is_first_update /\ s = u.last_update_slot
    THEN [u EXCEPT !.root_history[u.root_history_cursor] = root]
    ELSE [u EXCEPT !.root_history[NextCursor(u.root_history_cursor)] = root,
                   !.root_history_cursor = NextCursor(u.root_history_cursor),
                   !.root_history_len = IF u.root_history_len < RootHistoryCapacity
                                        THEN u.root_history_len + 1
                                        ELSE u.root_history_len,
                   !.last_update_slot = s]

\* The region after the leaves of a batch: one walk each, and the root of the last.
AppendLeaves(u, batch, s) ==
    LET is_first_update == u.next_index = 0
        after[k \in 0 .. Len(batch)] ==
            IF k = 0 THEN u
            ELSE LET v == after[k - 1]
                     w == Walk(v.subtrees, v.next_index, batch[k], k = Len(batch))
                     x == [v EXCEPT !.subtrees = w.subtrees, !.next_index = v.next_index + 1]
                 IN  IF k < Len(batch) THEN x
                     ELSE PushRoot([x EXCEPT !.root = w.hash], w.hash, s, is_first_update)
    IN  after[Len(batch)]

\* A batch that does not fit is an error, which undoes the instruction.
CanAppendBatch(u, batch, s) ==
    /\ u.next_index + Len(batch) <= Capacity
    /\ batch # << >> /\ u.next_index # 0 => s >= u.last_update_slot

\* root_by_index.
AcceptedRoots(u) ==
    {u.root_history[i] : i \in {k \in HistoryIndices :
        /\ u.root_history_len < RootHistoryCapacity => k < u.root_history_len
        /\ u.root_history[k] # NoRoot}}

-----------------------------------------------------------------------------
\* An instruction that appends k outputs: transact, merge and deposit.
AppendBatch(k) ==
    LET batch == [i \in 1 .. k |-> <<Len(leaves) + i>>]
        entry == [slot |-> slot, root |-> MerkleRoot(leaves \o batch)]
        last  == history[Len(history)]
    IN  /\ CanAppendBatch(utxo, batch, slot)
        /\ utxo' = AppendLeaves(utxo, batch, slot)
        /\ leaves' = leaves \o batch
        /\ history' = IF k = 0 THEN history
                      ELSE IF last.slot = slot THEN [history EXCEPT ![Len(history)] = entry]
                      ELSE Append(history, entry)
        /\ UNCHANGED slot

\* The clock moves on, by one slot or by several.
Tick ==
    /\ slot' \in {s \in Slots : s > slot}
    /\ UNCHANGED <<utxo, leaves, history>>

Next ==
    \/ \E k \in 0 .. MaxBatch : AppendBatch(k)
    \/ Tick

Spec == Init /\ [][Next]_vars

-----------------------------------------------------------------------------
(***************************************************************************)
(* Properties.                                                             *)
(***************************************************************************)

\* However the leaves were grouped into batches, the root is that of the tree over
\* all of them: the walk that stops early leaves the nodes later walks need.
RootIsMerkleRoot == utxo.root = MerkleRoot(leaves)

\* The accepted roots are the last roots of the most recent slots that changed the
\* tree, as many as the ring holds: a root a client reads at the end of a slot is
\* accepted until RootHistoryCapacity later slots have changed the tree, however
\* many updates those slots had ("later updates in that slot overwrite the current
\* entry"; "a multi-leaf first batch must still advance away from the initial empty
\* root").
AcceptsRecentSlots ==
    AcceptedRoots(utxo) =
        {history[i].root : i \in {k \in 1 .. Len(history) : k > Len(history) - RootHistoryCapacity}}

\* The account can always be loaded again: what check_layout demands of the ring on
\* every later instruction holds after every append, and the entry its cursor names
\* is the current root.
LayoutStaysValid ==
    /\ utxo.root_history_cursor \in HistoryIndices
    /\ utxo.root_history_len \in 1 .. RootHistoryCapacity
    /\ utxo.root_history_len < RootHistoryCapacity =>
          utxo.root_history_cursor + 1 = utxo.root_history_len
    /\ utxo.root_history[utxo.root_history_cursor] = utxo.root

=============================================================================
