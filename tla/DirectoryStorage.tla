-------------------------- MODULE DirectoryStorage --------------------------
(***************************************************************************)
(* The durable backend (crates/cartridge-storage/src/directory.rs): one    *)
(* namespace directory holding immutable generations state-N.json, read    *)
(* and written under an exclusive lock by any number of processes.         *)
(*                                                                         *)
(* Everything an operation does between taking the lock and its first      *)
(* write is one step, since nothing can interleave with it.  A commit is   *)
(* then one step per durable effect, so that a process may die, or report  *)
(* an I/O error, between any two of them, and a power failure may lose the *)
(* renames and removals the directory was not yet flushed for, the last    *)
(* ones first (directory changes reach the disk in order).                 *)
(* "job" is the operation that holds the lock; waiting for the lock and    *)
(* giving up after LOCK_WAIT_TIMEOUT change nothing.                       *)
(*                                                                         *)
(* A state file is the State record it encodes, or Corrupt: read_state's   *)
(* digest, identity and bounds checks make every damaged file a corrupt    *)
(* one.                                                                    *)
(***************************************************************************)
EXTENDS StorageContract

CONSTANTS
    Clients,            \* processes that run guests against the namespace
    Schemas,            \* state schemas packages declare
    Imported,           \* snapshots taken elsewhere that may be restored here
    MaxGeneration,      \* bound: commits stop at this generation
    MaxCorruptions,     \* bound: files damaged by something outside the code
    NoFile, Corrupt     \* contents of a generation that is not a state

\* A form that keeps one generation.
RetainedOne == 1

Retained == 2           \* RETAINED_GENERATIONS

Generations == 1 .. MaxGeneration

VARIABLES
    files,          \* state-N.json, as every process sees it
    pending,        \* whether a pending-*.tmp is left
    unflushed,      \* renames and removals the directory is not flushed for
    job,            \* the operation holding the lock
    tokens,         \* the revision a client holds, with the state it named
    matched,        \* whether every transaction was applied to the very state
                    \* its revision named (history)
    acked,          \* largest generation acknowledged to a caller (history)
    commits,        \* number of acknowledged commits, up to 2 (history)
    corruptions     \* files damaged so far (history)

directoryVars == <<files, pending, unflushed, job, tokens, matched,
                   acked, commits, corruptions>>

State == [revision: 0 .. MaxGeneration, schema: Schemas, entries: Entries]

\* State::default
DefaultState == [revision |-> 0, schema |-> 0, entries |-> NoEntries]

\* A snapshot is a state that left the directory: StorageSnapshot holds the
\* schema, the revision and the entries (capture_state).
Snapshot == State

ASSUME ImportedAssumption == Imported \subseteq Snapshot

\* A namespace starts with schema 0; no file and a corrupt file are not states.
ASSUME JournalAssumption ==
    /\ MaxGeneration \in Nat
    /\ 0 \in Schemas
    /\ NoFile # Corrupt
    /\ NoFile \notin State /\ Corrupt \notin State

NoToken == [held |-> FALSE, state |-> DefaultState]

Idle == [step |-> "none", who |-> "none", state |-> DefaultState]

\* A change of the directory, with the content it replaced.
Change(g) == [generation |-> g, old |-> files[g]]

DirectoryInit ==
    /\ files = [g \in Generations |-> NoFile]
    /\ pending = FALSE
    /\ unflushed = <<>>
    /\ job = Idle
    /\ tokens = [c \in Clients |-> NoToken]
    /\ matched = TRUE
    /\ acked = 0
    /\ commits = 0
    /\ corruptions = 0

\* state_files
StateFiles == {g \in Generations : files[g] # NoFile}

ValidFiles == {g \in StateFiles : files[g] # Corrupt}

\* load_state reads every state file and fails on the first corrupt one.
Readable == ValidFiles = StateFiles

LatestOf(contents) ==
    LET present == {g \in Generations : contents[g] # NoFile}
    IN  IF present = {} THEN DefaultState ELSE contents[Max(present)]

Latest == LatestOf(files)

\* with_namespace: the lock is free, and the operation takes it.
LockFree == job.step = "none"

\* commit_state numbers the state it is given with the next generation.
StartCommit(state, who) ==
    /\ state.revision < MaxGeneration
    /\ job' = [step |-> "write", who |-> who,
               state |-> [state EXCEPT !.revision = @ + 1]]

\* What every writing operation does first: cleanup_pending, then load_state.
Open ==
    /\ LockFree
    /\ Readable
    /\ pending' = FALSE
    /\ UNCHANGED <<files, unflushed, tokens, acked, commits, corruptions>>

\* The operation ends by committing new entries, or by returning when it
\* changes nothing or is refused.
Conclude(write) ==
    IF write.error = "ok" /\ write.entries # Latest.entries
    THEN StartCommit([Latest EXCEPT !.entries = write.entries], "client")
    ELSE UNCHANGED job

\* prepare: a new namespace commits its schema; an old one is only checked.
Prepare(schema) ==
    /\ Open
    /\ IF Latest.revision = 0
       THEN StartCommit([Latest EXCEPT !.schema = schema], "client")
       ELSE UNCHANGED job
    /\ UNCHANGED matched

\* put
Put(key, value) ==
    /\ value <= Limits.max_value_bytes
    /\ Open
    /\ Conclude(PutWrite(Latest.entries, Bytes(Latest.entries), key, value))
    /\ UNCHANGED matched

\* delete
Delete(key) ==
    /\ Open
    /\ Conclude(DeleteWrite(Latest.entries, Bytes(Latest.entries), key))
    /\ UNCHANGED matched

\* revision: the client keeps the number; the state it names is history.
ReadRevision(client) ==
    /\ LockFree
    /\ Readable
    /\ tokens' = [tokens EXCEPT ![client] = [held |-> TRUE, state |-> Latest]]
    /\ UNCHANGED <<files, pending, unflushed, job, matched, acked,
                   commits, corruptions>>

\* The common tail of compare_exchange and apply_batch.
Transact(client, mutations) ==
    LET write == ApplyMutations(Latest.entries, Bytes(Latest.entries), mutations)
    IN  /\ Conclude(write)
        /\ matched' = (matched /\ (write.error = "ok" => tokens[client].state = Latest))

\* A form that compares the value and not the revision.
CompareExchangeValue(client, key, expected, replacement) ==
    LET mutations == <<[key |-> key, value |-> replacement]>>
    IN  /\ tokens[client].held
        /\ ValidMutations(mutations)
        /\ Open
        /\ IF Latest.entries[key] = expected
           THEN Transact(client, mutations)
           ELSE UNCHANGED <<job, matched>>

\* compare_exchange
CompareExchange(client, key, expected, replacement) ==
    LET mutations == <<[key |-> key, value |-> replacement]>>
    IN  /\ tokens[client].held
        /\ ValidMutations(mutations)
        /\ Open
        /\ IF /\ Latest.revision = tokens[client].state.revision
              /\ Latest.entries[key] = expected
           THEN Transact(client, mutations)
           ELSE UNCHANGED <<job, matched>>

\* apply_batch
ApplyBatch(client, mutations) ==
    /\ tokens[client].held
    /\ ValidMutations(mutations)
    /\ Open
    /\ IF Latest.revision = tokens[client].state.revision
       THEN Transact(client, mutations)
       ELSE UNCHANGED <<job, matched>>

\* build_restore_plan: the restored state is committed when it differs in
\* content from the current one or comes from a later revision; its number
\* follows both histories.
PlanChanges(current, snapshot) ==
    \/ current.schema # snapshot.schema
    \/ current.entries # snapshot.entries
    \/ snapshot.revision > current.revision

CommitRestored(current, snapshot, who) ==
    IF PlanChanges(current, snapshot)
    THEN StartCommit([snapshot EXCEPT !.revision =
                          Max({current.revision, snapshot.revision})], who)
    ELSE UNCHANGED job

\* restore
Restore(snapshot) ==
    /\ WithinLimits(snapshot.entries)
    /\ Open
    /\ CommitRestored(Latest, snapshot, "client")
    /\ UNCHANGED matched
-----------------------------------------------------------------------------
(***************************************************************************)
(* commit_state, one durable effect at a time.                             *)
(***************************************************************************)

\* The temporary is created, written and flushed.
WriteTemporary ==
    /\ job.step = "write"
    /\ pending' = TRUE
    /\ job' = [job EXCEPT !.step = "rename"]
    /\ UNCHANGED <<files, unflushed, tokens, matched, acked, commits,
                   corruptions>>

\* fs::rename to state_file_name(generation): the commit becomes visible.
RenameState ==
    /\ job.step = "rename"
    /\ files' = [files EXCEPT ![job.state.revision] = job.state]
    /\ unflushed' = Append(unflushed, Change(job.state.revision))
    /\ pending' = FALSE
    /\ job' = [job EXCEPT !.step = "sync"]
    /\ UNCHANGED <<tokens, matched, acked, commits, corruptions>>

\* A form that leaves the flush to the end of the pruning.
SyncDirectoryNot ==
    /\ job.step = "sync"
    /\ job' = [job EXCEPT !.step = "prune"]
    /\ UNCHANGED <<files, pending, unflushed, tokens, matched, acked, commits, corruptions>>

\* sync_directory
SyncDirectory ==
    /\ job.step = "sync"
    /\ unflushed' = <<>>
    /\ job' = [job EXCEPT !.step = "prune"]
    /\ UNCHANGED <<files, pending, tokens, matched, acked, commits, corruptions>>

\* prune_generations removes the oldest files, one remove_file at a time.
PruneOldest ==
    /\ job.step = "prune"
    /\ Cardinality(StateFiles) > Retained
    /\ LET oldest == Min(StateFiles)
       IN  /\ files' = [files EXCEPT ![oldest] = NoFile]
           /\ unflushed' = Append(unflushed, Change(oldest))
    /\ UNCHANGED <<pending, job, tokens, matched, acked, commits,
                   corruptions>>

\* The flush that ends prune_generations; the operation returns Ok.
FinishCommit ==
    /\ job.step = "prune"
    /\ Cardinality(StateFiles) <= Retained
    /\ unflushed' = <<>>
    /\ job' = Idle
    /\ IF job.who = "recover"
       THEN UNCHANGED <<acked, commits>>
       ELSE /\ acked' = job.state.revision
            /\ commits' = Min({commits + 1, 2})
    /\ UNCHANGED <<files, pending, tokens, matched, corruptions>>

\* The process dies, or one of its calls fails and the operation returns the
\* error: the lock is released with the directory as it is.  The temporary
\* may have been created before it could be written.
Abandon ==
    /\ job.step # "none"
    /\ \/ UNCHANGED pending
       \/ job.step = "write" /\ pending' = TRUE
    /\ job' = Idle
    /\ UNCHANGED <<files, unflushed, tokens, matched, acked, commits,
                   corruptions>>

\* The directory when only its first n unflushed changes reached the disk.
OnDisk(n) ==
    [g \in Generations |->
        LET undone == {i \in n + 1 .. Len(unflushed) : unflushed[i].generation = g}
        IN  IF undone = {} THEN files[g] ELSE unflushed[Min(undone)].old]

\* Power fails: every process is gone, and the directory is one of those.
DirectoryPowerLoss ==
    /\ \E n \in 0 .. Len(unflushed) : files' = OnDisk(n)
    /\ pending' \in {pending, unflushed # <<>>}
    /\ unflushed' = <<>>
    /\ job' = Idle
    /\ tokens' = [c \in Clients |-> NoToken]
    /\ UNCHANGED <<matched, acked, commits, corruptions>>
-----------------------------------------------------------------------------
\* A state file is damaged by something outside the code.
DamageFile(g) ==
    /\ corruptions < MaxCorruptions
    /\ LockFree
    /\ g \in ValidFiles
    /\ files' = [files EXCEPT ![g] = Corrupt]
    /\ corruptions' = corruptions + 1
    /\ UNCHANGED <<pending, unflushed, job, tokens, matched, acked, commits>>

\* recover: refused when files exist and none is valid.
Recover ==
    /\ LockFree
    /\ ValidFiles # {} \/ StateFiles = {}
    /\ job' = [Idle EXCEPT !.step = "quarantine", !.who = "recover"]
    /\ UNCHANGED <<files, pending, unflushed, tokens, matched, acked,
                   commits, corruptions>>

\* recover renames each corrupt file out of the journal, ...
QuarantineFile(g) ==
    /\ job.step = "quarantine"
    /\ files[g] = Corrupt
    /\ files' = [files EXCEPT ![g] = NoFile]
    /\ unflushed' = Append(unflushed, Change(g))
    /\ UNCHANGED <<pending, job, tokens, matched, acked, commits,
                   corruptions>>

\* ... discards temporaries, and prunes.
CleanupRecovered ==
    /\ job.step = "quarantine"
    /\ Readable
    /\ pending' = FALSE
    /\ job' = [job EXCEPT !.step = "prune"]
    /\ UNCHANGED <<files, unflushed, tokens, matched, acked, commits,
                   corruptions>>

Batches == UNION {[1 .. n -> Mutation] : n \in 1 .. MaxOperations}

ClientNext ==
    \/ \E schema \in Schemas : Prepare(schema)
    \/ \E k \in Keys, v \in Values : Put(k, v)
    \/ \E k \in Keys : Delete(k)
    \/ \E c \in Clients : ReadRevision(c)
    \/ \E c \in Clients, k \in Keys,
          expected \in Values \cup {Absent}, replacement \in Values \cup {Absent} :
             CompareExchange(c, k, expected, replacement)
    \/ \E c \in Clients, mutations \in Batches : ApplyBatch(c, mutations)
    \/ \E snapshot \in Imported : Restore(snapshot)
    \/ Recover

JobNext ==
    \/ WriteTemporary
    \/ RenameState
    \/ SyncDirectory
    \/ PruneOldest
    \/ FinishCommit
    \/ \E g \in Generations : QuarantineFile(g)
    \/ CleanupRecovered

DirectoryNext ==
    \/ ClientNext
    \/ JobNext
    \/ Abandon
    \/ DirectoryPowerLoss
    \/ \E g \in Generations : DamageFile(g)

DirectorySpec == DirectoryInit /\ [][DirectoryNext]_directoryVars
-----------------------------------------------------------------------------
\* Once two commits were acknowledged, one damaged file never leaves the
\* namespace without a valid generation, so that recover succeeds (the reason
\* prune_generations keeps two).
OneFileCanBeLost ==
    commits = 2 /\ corruptions <= 1 => ValidFiles # {}

\* compare_exchange and apply_batch change only the very state the caller's
\* revision named, as long as recover did not put the journal back.
TokenNamesState == corruptions = 0 => matched

\* The same, whatever happened: docs/storage.md says of revisions that "stale
\* tokens cannot pass after an A->B->A sequence".  It is no invariant: recover
\* puts a damaged newest file aside, and its revision is then given out again.
StaleTokensNeverPass == matched

\* The journal implements the log of states that the documentation promises:
\* the newest state of every directory a power failure may leave.
VisibleLog == {LatestOf(OnDisk(n)) : n \in 0 .. Len(unflushed)}

Promised == INSTANCE RevisionedStore WITH
    States <- State, log <- VisibleLog, promised <- acked

\* Every step of the backend is a step of that log, or leaves it alone, until
\* a file is damaged.  So an acknowledged commit survives every process crash,
\* I/O error and power failure, whatever part of the unflushed changes is on
\* disk (commit_state, sync_directory, prune_generations).
ImplementsRevisionedStore ==
    /\ Promised!StoreInit
    /\ [][corruptions' > 0 \/ Promised!StoreNext]_<<VisibleLog, acked, corruptions>>
=============================================================================
