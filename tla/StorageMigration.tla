-------------------------- MODULE StorageMigration --------------------------
(***************************************************************************)
(* storage migrate-commit and storage migration-recover (cartridge-cli):   *)
(* a worker process captures the durable state, writes it to a rollback    *)
(* file, runs the package's migrations on a private branch, writes an      *)
(* intent receipt and replaces the durable state only if it is still the   *)
(* captured one.  Guests keep using the namespace meanwhile, and the       *)
(* worker may die anywhere: its supervisor kills it at the end of the      *)
(* migration budget.  Recovery reads the receipt and the retained          *)
(* generations and says what happened.                                     *)
(*                                                                         *)
(* The rollback and the receipt are created only where no file exists, so  *)
(* one pair of output paths sees one migration.                            *)
(***************************************************************************)
EXTENDS DirectoryStorage

CONSTANT TargetSchema       \* the schema the new package declares

VARIABLES
    migrator,       \* the worker: its step, the captured state, the result
    rollback,       \* the rollback snapshot file
    receipt,        \* the receipt file: the source and the state to commit
    landed          \* whether the receipt's state was committed (history)

migrationVars == <<migrator, rollback, receipt, landed>>

storageVars == <<directoryVars, migrationVars>>

NoWorker == [step |-> "idle", source |-> DefaultState, result |-> DefaultState]

NoReceipt == [written |-> FALSE, source |-> DefaultState, target |-> DefaultState]

MigrationInit ==
    /\ migrator = NoWorker
    /\ rollback = NoFile
    /\ receipt = NoReceipt
    /\ landed = FALSE

StorageInit == DirectoryInit /\ MigrationInit

\* supervised_migrate_commit_command: the outputs must not exist and there
\* must be something to migrate; the worker then captures the state it finds.
MigrateCapture ==
    /\ migrator.step = "idle"
    /\ rollback = NoFile /\ ~receipt.written
    /\ LockFree /\ Readable
    /\ Latest.schema < TargetSchema
    /\ migrator' = [NoWorker EXCEPT !.step = "captured", !.source = Latest]
    /\ UNCHANGED <<directoryVars, rollback, receipt, landed>>

\* StorageSnapshot::write_new of the rollback output.
WriteRollback ==
    /\ migrator.step = "captured"
    /\ rollback = NoFile
    /\ rollback' = migrator.source
    /\ migrator' = [migrator EXCEPT !.step = "saved"]
    /\ UNCHANGED <<directoryVars, receipt, landed>>

\* Runtime::migrate: guest code changes a branch of the snapshot.  The branch
\* continues the revisions of its source, one for each change that was made.
Migrated(source) ==
    {s \in State :
        /\ s.schema = TargetSchema
        /\ WithinLimits(s.entries)
        /\ s.revision - source.revision \in {0, 1}
        /\ s.revision = source.revision => s.entries = source.entries}

MigrateBranch ==
    /\ migrator.step = "saved"
    /\ \E result \in Migrated(migrator.source) :
          migrator' = [migrator EXCEPT !.step = "migrated", !.result = result]
    /\ UNCHANGED <<directoryVars, rollback, receipt, landed>>

\* MigrationReceipt::new and write_new.
TargetState(source, result) ==
    [result EXCEPT !.revision = Max({source.revision, result.revision}) + 1]

\* Whether the step leaves the receipt's state in the journal; an import may
\* have put the very same state there.
TargetPresent ==
    receipt'.written /\ files'[receipt'.target.revision] = receipt'.target

WriteReceipt ==
    /\ migrator.step = "migrated"
    /\ Max({migrator.source.revision, migrator.result.revision}) < MaxGeneration
    /\ receipt' = [written |-> TRUE, source |-> migrator.source,
                   target |-> TargetState(migrator.source, migrator.result)]
    /\ migrator' = [migrator EXCEPT !.step = "intended"]
    /\ UNCHANGED <<directoryVars, rollback>>
    /\ landed' = TargetPresent

\* restore_if_unchanged: the replacement is committed over the captured
\* generation, schema and entries only; StateChanged ends the worker.
Unchanged(current, source) == current = source

RestoreIfUnchanged ==
    /\ migrator.step = "intended"
    /\ Open
    /\ IF Unchanged(Latest, migrator.source)
       THEN /\ CommitRestored(Latest, migrator.result, "migration")
            /\ migrator' = [migrator EXCEPT !.step = "committing"]
       ELSE /\ UNCHANGED job
            /\ migrator' = NoWorker
    /\ UNCHANGED <<matched, rollback, receipt, landed>>

\* The worker dies at any step, its commit with it.
WorkerDies ==
    /\ migrator.step # "idle"
    /\ migrator' = NoWorker
    /\ IF job.who = "migration" THEN Abandon ELSE UNCHANGED directoryVars
    /\ UNCHANGED <<rollback, receipt, landed>>

MigrationNext ==
    \/ MigrateCapture
    \/ WriteRollback
    \/ MigrateBranch
    \/ WriteReceipt
    \/ RestoreIfUnchanged
    \/ WorkerDies

\* A step of the operation that holds the lock; the worker's return ends it.
StorageJobNext ==
    /\ JobNext
    /\ migrator' = IF job.who = "migration" /\ job'.step = "none"
                   THEN NoWorker ELSE migrator
    /\ UNCHANGED <<rollback, receipt>>
    /\ landed' = (landed \/ TargetPresent)

ClientAbandons == job.who # "migration" /\ Abandon /\ UNCHANGED migrationVars

\* Whether the rename of the receipt's generation may still be undone.
TargetUnflushed ==
    \E i \in DOMAIN unflushed :
        /\ unflushed[i].generation = receipt.target.revision
        /\ unflushed[i].old = NoFile

StoragePowerLoss ==
    /\ DirectoryPowerLoss
    /\ migrator' = NoWorker
    /\ UNCHANGED <<rollback, receipt>>
    /\ landed' = (TargetPresent \/ (landed /\ ~TargetUnflushed))

StorageNext ==
    \/ UNCHANGED migrationVars /\ ClientNext
    \/ UNCHANGED migrationVars /\ \E g \in Generations : DamageFile(g)
    \/ MigrationNext
    \/ StorageJobNext
    \/ ClientAbandons
    \/ StoragePowerLoss

StorageSpec == StorageInit /\ [][StorageNext]_storageVars

-----------------------------------------------------------------------------
\* A form that takes any retained target generation for the migration's.
RecoveryStatusByNumber ==
    LET requested == files[receipt.target.revision]
    IN  CASE requested # NoFile /\ Latest.revision = receipt.target.revision -> "committed"
          [] requested # NoFile /\ Latest.revision # receipt.target.revision ->
                "committed_then_changed"
          [] requested = NoFile /\ Latest = receipt.source -> "not_committed"
          [] OTHER -> "indeterminate"

\* storage_migration_recover_command, from evidence read under one lock: the
\* current state and the receipt's target generation, if it is retained.
RecoveryStatus ==
    LET requested == files[receipt.target.revision]
        target_matches == requested = receipt.target
        source_matches == Latest = receipt.source
    IN  CASE target_matches /\ Latest.revision = receipt.target.revision -> "committed"
          [] target_matches /\ Latest.revision # receipt.target.revision ->
                "committed_then_changed"
          [] ~target_matches /\ (requested # NoFile \/ source_matches) -> "not_committed"
          [] OTHER -> "indeterminate"
-----------------------------------------------------------------------------
\* A migration replaces the state it captured and no other, so that no write a
\* guest made after the capture is lost under it; and what recovery says of it
\* is true: once the worker is gone, "committed" and "committed_then_changed"
\* are reported only of a migration whose state was committed, "not_committed"
\* only of one that was not, whatever was written and pruned since, and
\* wherever the worker died (restore_if_unchanged,
\* storage_migration_recover_command).
MigrationIsAccountable ==
    /\ job.who = "migration" /\ job.step \in {"write", "rename"} =>
          /\ Latest = migrator.source
          /\ rollback = Latest
          /\ job.state = receipt.target
    /\ receipt.written /\ migrator.step = "idle" /\ LockFree /\ corruptions = 0 =>
          /\ RecoveryStatus \in {"committed", "committed_then_changed"} => landed
          /\ RecoveryStatus = "not_committed" => ~landed
=============================================================================
