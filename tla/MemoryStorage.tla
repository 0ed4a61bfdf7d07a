--------------------------- MODULE MemoryStorage ---------------------------
(***************************************************************************)
(* The in-memory backend, and the snapshot branch built on it              *)
(* (crates/cartridge-storage/src/lib.rs, MemoryStorage; snapshot.rs,       *)
(* SnapshotStorage).  One namespace: the map of namespaces only keeps      *)
(* namespaces apart.  Every operation runs under the write lock of the     *)
(* map, so it is one step.                                                 *)
(*                                                                         *)
(* Clients are the guests that share the backend.  A client remembers the  *)
(* revision it read last, which it passes to compare_exchange and          *)
(* apply_batch; the model also remembers the entries that were current     *)
(* then, which the code does not (a history variable).                     *)
(***************************************************************************)
EXTENDS StorageContract

CONSTANTS
    MemoryClients,      \* guests sharing the backend
    MemorySchemas,      \* state schemas a package may declare
    MaxRevision         \* bound: writes stop at this revision

VARIABLES
    memory,     \* the Namespace record of the map, and whether it is there
    held,       \* the revision a client holds, with the entries it stood for
    granted     \* the write the last transaction applied (history)

memoryVars == <<memory, held, granted>>

NoToken == [revision |-> -1, entries |-> NoEntries]

NotGranted == [token |-> NoToken, before |-> NoEntries]

\* Namespace::default
VacantNamespace == [exists |-> FALSE, schema |-> 0, revision |-> 0,
                    entries |-> NoEntries, bytes |-> 0]

\* load_namespace, called by SnapshotStorage::from_snapshot: a branch starts
\* with the revision of its snapshot and the usage of its entries.
LoadNamespace(schema, revision, entries) ==
    [exists |-> TRUE, schema |-> schema, revision |-> revision,
     entries |-> entries, bytes |-> Bytes(entries)]

MemoryInit ==
    /\ held = [c \in MemoryClients |-> NoToken]
    /\ granted = NotGranted
    /\ \/ memory = VacantNamespace
       \/ \E schema \in MemorySchemas, entries \in Entries :
             /\ WithinLimits(entries)
             /\ memory = LoadNamespace(schema, 1, entries)

\* prepare: a vacant namespace takes the schema, an occupied one must have it.
MemoryPrepare(schema) ==
    /\ ~memory.exists
    /\ memory' = [memory EXCEPT !.exists = TRUE, !.schema = schema]
    /\ UNCHANGED <<held, granted>>

\* The namespace after a write: or_default() has created it, and the revision
\* moved when the write says so.
Stored(write, revision) ==
    [memory EXCEPT !.exists = TRUE, !.entries = write.entries,
                   !.bytes = write.bytes, !.revision = revision]

MemoryPut(key, value) ==
    LET write == PutWrite(memory.entries, memory.bytes, key, value)
        revision == IF write.error = "ok" /\ memory.entries[key] # value
                    THEN memory.revision + 1 ELSE memory.revision
    IN  /\ value <= Limits.max_value_bytes
        /\ revision <= MaxRevision
        /\ memory' = Stored(write, revision)
        /\ UNCHANGED <<held, granted>>

\* A delete that keeps the revision.
MemoryDeleteUnseen(key) ==
    /\ memory.exists
    /\ memory.entries[key] # Absent
    /\ memory' = Stored(DeleteWrite(memory.entries, memory.bytes, key), memory.revision)
    /\ UNCHANGED <<held, granted>>

MemoryDelete(key) ==
    /\ memory.exists
    /\ memory.entries[key] # Absent
    /\ memory.revision < MaxRevision
    /\ memory' = Stored(DeleteWrite(memory.entries, memory.bytes, key),
                        memory.revision + 1)
    /\ UNCHANGED <<held, granted>>

\* revision
MemoryReadRevision(client) ==
    /\ held' = [held EXCEPT ![client] =
                    [revision |-> memory.revision, entries |-> memory.entries]]
    /\ UNCHANGED <<memory, granted>>

\* The common tail of compare_exchange and apply_batch.
MemoryTransaction(client, mutations) ==
    LET write == ApplyMutations(memory.entries, memory.bytes, mutations)
        revision == IF MutationsChange(memory.entries, mutations)
                    THEN memory.revision + 1 ELSE memory.revision
    IN  /\ revision <= MaxRevision
        /\ IF write.error = "ok"
           THEN /\ memory' = Stored(write, revision)
                /\ granted' = [token |-> held[client], before |-> memory.entries]
           ELSE /\ memory' = [memory EXCEPT !.exists = TRUE]
                /\ UNCHANGED granted
        /\ UNCHANGED held

\* compare_exchange: revision and value must both be the expected ones.
MemoryCompareExchange(client, key, expected, replacement) ==
    LET mutations == <<[key |-> key, value |-> replacement]>>
    IN  /\ held[client] # NoToken
        /\ ValidMutations(mutations)
        /\ Size(expected) <= Limits.max_value_bytes
        /\ memory.revision = held[client].revision
        /\ memory.entries[key] = expected
        /\ MemoryTransaction(client, mutations)

\* apply_batch
MemoryApplyBatch(client, mutations) ==
    /\ held[client] # NoToken
    /\ ValidMutations(mutations)
    /\ memory.revision = held[client].revision
    /\ MemoryTransaction(client, mutations)

\* A transaction whose revision or expected value does not match creates the
\* namespace and returns applied = false.
MemoryNotApplied(client) ==
    /\ held[client] # NoToken
    /\ memory' = [memory EXCEPT !.exists = TRUE]
    /\ UNCHANGED <<held, granted>>

Batches == UNION {[1 .. n -> Mutation] : n \in 1 .. MaxOperations}

MemoryNext ==
    \/ \E schema \in MemorySchemas : MemoryPrepare(schema)
    \/ \E k \in Keys, v \in Values : MemoryPut(k, v)
    \/ \E k \in Keys : MemoryDelete(k)
    \/ \E c \in MemoryClients : MemoryReadRevision(c)
    \/ \E c \in MemoryClients, k \in Keys,
          expected \in Values \cup {Absent}, replacement \in Values \cup {Absent} :
             MemoryCompareExchange(c, k, expected, replacement)
    \/ \E c \in MemoryClients, mutations \in Batches : MemoryApplyBatch(c, mutations)
    \/ \E c \in MemoryClients : MemoryNotApplied(c)

MemorySpec == MemoryInit /\ [][MemoryNext]_memoryVars
-----------------------------------------------------------------------------
\* A transaction is applied only to the very entries its client's revision stood
\* for, also when other clients wrote and wrote back in between (the A -> B -> A
\* sequence of docs/storage.md; compare_exchange, apply_batch).
AppliedToItsToken == granted.token.entries = granted.before

\* The backend keeps its books.  The byte count beside the map, from which every
\* quota decision is taken, is the size of what the map holds, and the namespace
\* is within its limits: no sequence of puts, deletes, compare-exchanges and
\* batches, refused ones included, lets them drift.  And a transaction is applied
\* only to the entries its client's revision stood for.
MemoryIsExact ==
    /\ memory.bytes = Bytes(memory.entries)
    /\ WithinLimits(memory.entries)
    /\ AppliedToItsToken
=============================================================================
