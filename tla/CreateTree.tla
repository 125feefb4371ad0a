----------------------------- MODULE CreateTree -----------------------------
(***************************************************************************)
(* The creation of tree accounts (instructions/create_tree).  A tree is    *)
(* larger than what one instruction may allocate, so CreateTree is sent    *)
(* several times: the first step takes the next tree id, allocates the     *)
(* first part, funds the account and records its payer and its data; the   *)
(* later ones grow it; the one that reaches the full size initializes it.  *)
(* Steps of different payers interleave, a payer may give up or come back  *)
(* later, the rent may change in between, and anybody may send lamports to *)
(* the address of a tree, before, during and after its creation.           *)
(***************************************************************************)
EXTENDS Integers, FiniteSets

CONSTANTS
    Payers,             \* accounts that pay for trees
    MaxTreeId,          \* the largest u16
    Params,             \* fees and nullifier parameters in the instruction data
    ValidParams,        \* those that validate accepts
    FullSize,           \* tree_account_size
    Step,               \* TREE_ALLOCATION_STEP
    Rents,              \* the costs of a tree as the rent changes
    MaxLamports,        \* bound on the balance up to which others send lamports
    NoRecord            \* a zeroed pending record

ASSUME CreateTreeAssumption ==
    /\ MaxTreeId \in Nat
    /\ ValidParams \subseteq Params
    /\ FullSize \in Nat \ {0}
    /\ Step \in Nat \ {0}
    /\ Rents \subseteq Nat \ {0}
    /\ MaxLamports \in Nat

VARIABLES
    config,     \* the protocol config: next_tree_id and permissionless creation
    tree,       \* the account at the address of every tree id
    rent,       \* what tree_creation_lamports returns now
    first,      \* the payer and the data of the first step for each tree
    steps       \* the number of steps each tree has had

vars == <<config, tree, rent, first, steps>>

TreeIds == 0 .. MaxTreeId

Data == [tree_id : TreeIds, params : Params]

Min(a, b) == IF a < b THEN a ELSE b

Max(a, b) == IF a < b THEN b ELSE a

\* tree_creation_step_count: how many steps a client sends for one tree.
TreeCreationStepCount == (FullSize + Step - 1) \div Step

-----------------------------------------------------------------------------
IsUnallocated(acc) == acc.owner = "system" /\ acc.data_len = 0

\* PendingCreation: the record in the region the UTXO tree will take.
PendingCreation(payer, data) == [payer |-> payer, data |-> data]

\* fund_tree: the payer sends what is missing.
FundTree(acc, lamports) == [acc EXCEPT !.lamports = Max(acc.lamports, lamports)]

\* The system program creates an account only at an address without lamports.
CanCreateAccount(acc) == IsUnallocated(acc) /\ acc.lamports = 0

\* TreeAllocation::create creates the account; at an address that holds lamports it
\* allocates and assigns it instead.
CanAllocate(acc) ==
    \/ acc.lamports = 0 /\ CanCreateAccount(acc)
    \/ acc.lamports > 0 /\ IsUnallocated(acc)

\* Either way the account has its first part and at least the lamports asked for.
Allocate(acc) ==
    FundTree([acc EXCEPT !.owner = "program", !.data_len = Min(FullSize, Step)], rent)

\* grow_tree: a full account is left alone, another one must not be initialized.
CanGrow(acc) ==
    /\ acc.owner = "program"
    /\ acc.data_len >= FullSize \/ acc.state = "Uninitialized"

\* Mutant: the account grows by whole steps only.
GrowTreeWholeSteps(acc) ==
    IF acc.data_len + Step > FullSize THEN acc
    ELSE [acc EXCEPT !.data_len = acc.data_len + Step]

GrowTree(acc) ==
    IF acc.data_len >= FullSize THEN acc
    ELSE [acc EXCEPT !.data_len = Min(acc.data_len + Step, FullSize)]

\* Mutant: only the data must match that of the first step.
PendingCheckData(acc, record) ==
    acc.state = "Uninitialized" /\ acc.record.data = record.data

\* PendingCreation::check.
PendingCheck(acc, record) == acc.state = "Uninitialized" /\ acc.record = record

\* Mutant: the last step leaves the funding to the first.
FinishUnfunded(acc, params) ==
    IF acc.data_len < FullSize THEN acc
    ELSE [acc EXCEPT !.record = NoRecord, !.state = "Initialized", !.params = params]

\* A step that reaches the full size clears the record, funds the account at the
\* current rent, and TreeAccount::init writes the tree.
Finish(acc, params) ==
    IF acc.data_len < FullSize THEN acc
    ELSE [FundTree(acc, rent) EXCEPT
              !.record = NoRecord, !.state = "Initialized", !.params = params]

\* Only the tree creation authority creates trees, unless anybody may.
MayCreate(authorized) == authorized \/ config.permissionless

\* Mutant: every step takes a tree id.
CreateTreeEachStepTakesId(payer, data, authorized) ==
    LET acc    == tree[data.tree_id]
        record == PendingCreation(payer, data)
    IN  /\ data.params \in ValidParams
        /\ MayCreate(authorized)
        /\ \/ /\ IsUnallocated(acc)
              /\ data.tree_id = config.next_tree_id
              /\ data.tree_id + 1 <= MaxTreeId
              /\ CanAllocate(acc)
              /\ config' = [config EXCEPT !.next_tree_id = data.tree_id + 1]
              /\ tree' = [tree EXCEPT ![data.tree_id] =
                     Finish([Allocate(acc) EXCEPT !.record = record], data.params)]
              /\ first' = [first EXCEPT ![data.tree_id] = record]
           \/ /\ ~ IsUnallocated(acc)
              /\ CanGrow(acc) /\ PendingCheck(GrowTree(acc), record)
              /\ config.next_tree_id < MaxTreeId
              /\ config' = [config EXCEPT !.next_tree_id = config.next_tree_id + 1]
              /\ tree' = [tree EXCEPT ![data.tree_id] = Finish(GrowTree(acc), data.params)]
              /\ UNCHANGED first
        /\ steps' = [steps EXCEPT ![data.tree_id] = steps[data.tree_id] + 1]
        /\ UNCHANGED rent

\* The instruction CreateTree: the first step, or a later one.
CreateTree(payer, data, authorized) ==
    LET acc    == tree[data.tree_id]
        record == PendingCreation(payer, data)
    IN  /\ data.params \in ValidParams
        /\ MayCreate(authorized)
        /\ \/ /\ IsUnallocated(acc)
              /\ data.tree_id = config.next_tree_id
              /\ data.tree_id + 1 <= MaxTreeId
              /\ CanAllocate(acc)
              /\ config' = [config EXCEPT !.next_tree_id = data.tree_id + 1]
              /\ tree' = [tree EXCEPT ![data.tree_id] =
                     Finish([Allocate(acc) EXCEPT !.record = record], data.params)]
              /\ first' = [first EXCEPT ![data.tree_id] = record]
           \/ /\ ~ IsUnallocated(acc)
              /\ CanGrow(acc)
              /\ PendingCheck(GrowTree(acc), record)
              /\ tree' = [tree EXCEPT ![data.tree_id] = Finish(GrowTree(acc), data.params)]
              /\ UNCHANGED <<config, first>>
        /\ steps' = [steps EXCEPT ![data.tree_id] = steps[data.tree_id] + 1]
        /\ UNCHANGED rent

\* UpdateProtocolConfig opens or closes tree creation for everybody.
SetPermissionless(open) ==
    /\ config' = [config EXCEPT !.permissionless = open]
    /\ UNCHANGED <<tree, rent, first, steps>>

\* Anybody sends a lamport to the address of a tree, at any time.
SendLamports(id) ==
    /\ tree[id].lamports < MaxLamports
    /\ tree' = [tree EXCEPT ![id].lamports = tree[id].lamports + 1]
    /\ UNCHANGED <<config, rent, first, steps>>

ChangeRent ==
    /\ rent' \in Rents \ {rent}
    /\ UNCHANGED <<config, tree, first, steps>>

-----------------------------------------------------------------------------
Init ==
    /\ config = [next_tree_id |-> 0, permissionless |-> FALSE]
    /\ tree = [id \in TreeIds |-> [owner |-> "system", data_len |-> 0, lamports |-> 0,
                                   state |-> "Uninitialized", record |-> NoRecord,
                                   params |-> NoRecord]]
    /\ rent \in Rents
    /\ first = [id \in TreeIds |-> NoRecord]
    /\ steps = [id \in TreeIds |-> 0]

Next ==
    \/ \E payer \in Payers, data \in Data, authorized \in BOOLEAN :
          CreateTree(payer, data, authorized)
    \/ \E open \in BOOLEAN : SetPermissionless(open)
    \/ \E id \in TreeIds : SendLamports(id)
    \/ ChangeRent

Spec == Init /\ [][Next]_vars

-----------------------------------------------------------------------------
(***************************************************************************)
(* Properties.                                                             *)
(***************************************************************************)

\* Tree ids are given out in order, each to one tree: the allocated trees are
\* exactly those below next_tree_id, however the steps of several creations
\* interleave.
IdsAreConsecutive ==
    \A id \in TreeIds : ~ IsUnallocated(tree[id]) <=> id < config.next_tree_id

\* A tree is finished by the payer and with the exact data of its first step ("no
\* other caller and no other parameters or fees can finish it"): every step that
\* succeeds repeats what the first step of its tree recorded.
FinishedAsStarted ==
    [][\A payer \in Payers, data \in Data, authorized \in BOOLEAN :
          CreateTree(payer, data, authorized) =>
              first'[data.tree_id] = PendingCreation(payer, data)]_vars

\* When a tree is initialized it holds tree_creation_lamports at the rent of that
\* moment, whatever the rent was when its creation began and whoever sent lamports
\* to it before.
InitializedIsFunded ==
    [][\A id \in TreeIds :
          tree[id].state = "Uninitialized" /\ tree'[id].state = "Initialized" =>
              tree'[id].lamports >= rent]_vars

\* A creation is never wedged, and takes the number of steps a client sends
\* (tree_creation_step_count): until a tree has had that many, nothing in the
\* account refuses the next step of the payer that began it, and with the last one
\* it is initialized.  The next tree id can be begun, whatever was sent to its
\* address: a tree that cannot be begun would block every later id.
CreationNeverWedged ==
    /\ \A id \in TreeIds :
          first[id] # NoRecord =>
              IF steps[id] < TreeCreationStepCount
              THEN CanGrow(tree[id]) /\ PendingCheck(GrowTree(tree[id]), first[id])
              ELSE tree[id].state = "Initialized"
    /\ CanAllocate(tree[config.next_tree_id])

=============================================================================
