------------------------------- MODULE Cache --------------------------------
(***************************************************************************)
(* Cache accounts (instructions/cache, transact/cache.rs, merge/cache.rs): *)
(* a cache holds hashes of fresh outputs, so that a transact can spend     *)
(* them without an inclusion proof.  A cache is created for one tree and   *)
(* one write authority, expires, and may be closed and created again.      *)
(*                                                                         *)
(* A UTXO hash commits to the tree of its UTXO and is fresh, so a hash is  *)
(* its tree and a number.  Of the proof the model keeps what it shows of   *)
(* the inputs; that no nullifier is spent twice is NullifierTree's result. *)
(***************************************************************************)
EXTENDS Integers, FiniteSets

CONSTANTS
    Caches,         \* cache addresses: a rent sponsor and a nonce each
    Authorities,    \* accounts that sign as writers
    Trees,          \* tree ids
    Slots,          \* the slots of a cache (CACHE_CAPACITY)
    MaxInputs,      \* most inputs of a transact
    MaxOutputs,     \* most outputs of a transact
    MaxUtxos,       \* bound on the outputs appended
    MaxTime,        \* the last timestamp looked at
    NoCache,        \* an address without a cache
    Empty           \* the zero hash

ASSUME CacheAssumption ==
    /\ MaxInputs \in Nat /\ MaxOutputs \in Nat /\ MaxUtxos \in Nat /\ MaxTime \in Nat
    /\ NoCache \notin Caches

VARIABLES
    cache,      \* the account at each cache address
    appended,   \* the UTXO hashes appended to the trees
    spent,      \* the UTXO hashes whose nullifiers are queued
    now         \* the clock's timestamp

vars == <<cache, appended, spent, now>>

Times == 0 .. MaxTime

NoSlots == [s \in Slots |-> Empty]

\* The hashes of the next k outputs, appended to tree t.
NewOutputs(t, k) ==
    [i \in 1 .. k |-> [tree |-> t, number |-> Cardinality(appended) + i]]

-----------------------------------------------------------------------------
\* Mutant: a retry of the creation initializes the cache again.
CreateCacheAgain(c, authority, t, expires_at) ==
    /\ expires_at > now
    /\ cache' = [cache EXCEPT ![c] = [tree_id |-> t, expires_at |-> expires_at,
                                      write_authority |-> authority, utxo_hashes |-> NoSlots]]
    /\ UNCHANGED <<appended, spent, now>>

\* A new cache is empty.  A retry with the same configuration changes nothing; with
\* another one it is an error.
CreateCache(c, authority, t, expires_at) ==
    /\ expires_at > now
    /\ IF cache[c] = NoCache
       THEN cache' = [cache EXCEPT ![c] = [tree_id |-> t, expires_at |-> expires_at,
                                           write_authority |-> authority, utxo_hashes |-> NoSlots]]
       ELSE /\ cache[c].write_authority = authority
            /\ cache[c].tree_id = t
            /\ cache[c].expires_at = expires_at
            /\ UNCHANGED cache
    /\ UNCHANGED <<appended, spent, now>>

\* The writer closes its cache at any time, anybody an expired one.
CloseCache(c, signer) ==
    /\ cache[c] # NoCache
    /\ now < cache[c].expires_at => signer = cache[c].write_authority
    /\ cache' = [cache EXCEPT ![c] = NoCache]
    /\ UNCHANGED <<appended, spent, now>>

-----------------------------------------------------------------------------
\* CacheWrite::load, for an instruction that writes a cache.
CanWrite(w, signer) ==
    /\ cache[w] # NoCache
    /\ signer = cache[w].write_authority
    /\ now < cache[w].expires_at

\* Mutant: the output tree is not compared with the cache's tree.
CheckOutputTreeNever(w, t) == TRUE

CheckOutputTree(w, t) == cache[w].tree_id = t

\* Mutant: an instruction that shares one cache reads what it writes.
ReadHashesAfterWrites(r, reads, w, writes, outputs) ==
    {IF r = w /\ s \in DOMAIN writes THEN outputs[writes[s]]
     ELSE cache[r].utxo_hashes[s] : s \in reads}

\* The hashes a transact reads from cache r: the contents before its own writes.
ReadHashes(r, reads, w, writes, outputs) == {cache[r].utxo_hashes[s] : s \in reads}

\* bind_cached_inputs: all slots read are in use.
CanRead(r, reads) ==
    /\ cache[r] # NoCache
    /\ \A s \in reads : cache[r].utxo_hashes[s] # Empty

\* write_cached_outputs: slot s gets output number writes[s].
WriteSlots(w, writes, outputs) ==
    [cache EXCEPT ![w].utxo_hashes =
        [s \in Slots |-> IF s \in DOMAIN writes THEN outputs[writes[s]]
                         ELSE cache[w].utxo_hashes[s]]]

\* What the proof shows of an input: it is a leaf of its tree, or one of the hashes
\* read from a cache of the input's tree.
InputProved(u, r, read) ==
    \/ u \in appended
    \/ r # NoCache /\ u \in read /\ u.tree = cache[r].tree_id

\* The entries of write_slots: distinct slots and distinct outputs below k.
WriteSelections(k) ==
    UNION {{f \in [S -> 1 .. k] : \A a, b \in S : f[a] = f[b] => a = b} :
               S \in {T \in SUBSET Slots : Cardinality(T) <= k}}

\* A transact with k outputs to tree t.  r is the cache it reads the slots reads of,
\* or NoCache; w the cache it writes, or NoCache; the two may be the same.
Transact(r, reads, w, writes, signer, inputs, t, k) ==
    LET outputs == NewOutputs(t, k)
        read    == IF r = NoCache THEN {} ELSE ReadHashes(r, reads, w, writes, outputs)
    IN  /\ Cardinality(appended) + k <= MaxUtxos
        /\ r # NoCache <=> reads # {}
        /\ w # NoCache <=> DOMAIN writes # {}
        /\ Cardinality(reads) <= MaxInputs
        /\ w # NoCache => CanWrite(w, signer) /\ CheckOutputTree(w, t)
        /\ r # NoCache => CanRead(r, reads)
        /\ \A u \in inputs : u \notin spent /\ InputProved(u, r, read)
        /\ appended' = appended \cup {outputs[i] : i \in 1 .. k}
        /\ spent' = spent \cup inputs
        /\ cache' = IF w = NoCache THEN cache ELSE WriteSlots(w, writes, outputs)
        /\ UNCHANGED now

\* A merge has one output and may store it in one slot of cache w.
MergeTransact(w, slot, signer, inputs, t) ==
    LET outputs == NewOutputs(t, 1)
    IN  /\ Cardinality(appended) + 1 <= MaxUtxos
        /\ inputs # {}
        /\ CanWrite(w, signer) /\ CheckOutputTree(w, t)
        /\ \A u \in inputs : u \notin spent /\ u \in appended
        /\ appended' = appended \cup {outputs[1]}
        /\ spent' = spent \cup inputs
        /\ cache' = WriteSlots(w, [s \in {slot} |-> 1], outputs)
        /\ UNCHANGED now

Tick ==
    /\ now < MaxTime
    /\ now' = now + 1
    /\ UNCHANGED <<cache, appended, spent>>

-----------------------------------------------------------------------------
Init ==
    /\ cache = [c \in Caches |-> NoCache]
    /\ appended = {}
    /\ spent = {}
    /\ now = 0

\* UTXOs a transact with k outputs to tree t may try to spend, its own included.
Candidates(t, k) == appended \cup {NewOutputs(t, k)[i] : i \in 1 .. k}

SmallSubsets(S) == {T \in SUBSET S : Cardinality(T) <= MaxInputs}

ReadSelections(r) == IF r = NoCache THEN {{}} ELSE SUBSET Slots \ {{}}

Next ==
    \/ \E c \in Caches, a \in Authorities, t \in Trees, e \in Times : CreateCache(c, a, t, e)
    \/ \E c \in Caches, a \in Authorities : CloseCache(c, a)
    \/ \E w \in Caches \cup {NoCache}, a \in Authorities, t \in Trees, k \in 0 .. MaxOutputs :
          /\ w # NoCache => CanWrite(w, a)
          /\ \E r \in Caches \cup {NoCache}, writes \in WriteSelections(k) :
                \E reads \in ReadSelections(r), inputs \in SmallSubsets(Candidates(t, k)) :
                    Transact(r, reads, w, writes, a, inputs, t, k)
    \/ \E w \in Caches, slot \in Slots, a \in Authorities, t \in Trees :
          \E inputs \in SmallSubsets(appended) : MergeTransact(w, slot, a, inputs, t)
    \/ Tick

Spec == Init /\ [][Next]_vars

-----------------------------------------------------------------------------
(***************************************************************************)
(* Properties.                                                             *)
(***************************************************************************)

\* Whatever was read from a cache, an instruction spends only UTXOs that earlier
\* instructions appended ("Bind cached inputs from the original account contents,
\* before any writes").
SpendsEarlierOutputs == [][spent' \ spent \subseteq appended]_vars

\* A cache holds only UTXOs of the tree it is bound to, also after it was closed
\* and created again for another tree ("A cache belongs to one tree, so it only
\* accepts outputs appended to it"): a cached input's nullifier goes to the tree
\* its UTXO is in.
HoldsUtxosOfItsTree ==
    \A c \in Caches : cache[c] # NoCache =>
        \A s \in Slots : cache[c].utxo_hashes[s] # Empty =>
            /\ cache[c].utxo_hashes[s] \in appended
            /\ cache[c].utxo_hashes[s].tree = cache[c].tree_id

\* As long as a cache is not closed its configuration stays and no slot becomes
\* empty again: a repeated creation keeps what was written ("A matching retry is a
\* no-op, preserving the utxo hashes").
KeptUntilClosed ==
    [][\A c \in Caches : cache[c] # NoCache /\ cache'[c] # NoCache =>
          /\ cache'[c].tree_id = cache[c].tree_id
          /\ cache'[c].expires_at = cache[c].expires_at
          /\ cache'[c].write_authority = cache[c].write_authority
          /\ \A s \in Slots : cache[c].utxo_hashes[s] # Empty => cache'[c].utxo_hashes[s] # Empty]_vars

=============================================================================
