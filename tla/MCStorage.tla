------------------------------ MODULE MCStorage -----------------------------
(***************************************************************************)
(* Durable storage, explored in two scenarios: guests and damage on one    *)
(* namespace, and guests beside a migration (whose recovery is not asked   *)
(* to explain damaged files).                                              *)
(***************************************************************************)
EXTENDS StorageMigration

VARIABLE scenario

SmallLimits == [max_bytes |-> 2, max_keys |-> 1, max_value_bytes |-> 2]

\* A snapshot of the new schema with a value, and an empty one.
TwoSnapshots ==
    {[revision |-> 1, schema |-> 1, entries |-> [k \in Keys |-> 1]],
     [revision |-> 0, schema |-> 0, entries |-> NoEntries]}

MCStorageInit == StorageInit /\ scenario \in {"guests", "migration"}

GuestsNext == UNCHANGED migrationVars /\ DirectoryNext

MigrationScenarioNext ==
    \/ /\ UNCHANGED migrationVars
       /\ \/ \E k \in Keys, v \in Values : Put(k, v)
          \/ \E k \in Keys : Delete(k)
          \/ \E snapshot \in Imported : Restore(snapshot)
          \/ Prepare(TargetSchema)
          \/ Recover
    \/ MigrationNext
    \/ StorageJobNext
    \/ ClientAbandons
    \/ StoragePowerLoss

MCStorageNext ==
    /\ UNCHANGED scenario
    /\ \/ scenario = "guests" /\ GuestsNext
       \/ scenario = "migration" /\ MigrationScenarioNext

MCStorageSpec == MCStorageInit /\ [][MCStorageNext]_<<storageVars, scenario>>
=============================================================================
