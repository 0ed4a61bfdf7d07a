----------------------------- MODULE EngineFiles -----------------------------
(***************************************************************************)
(* The files of one stack as the processes of the engine share them: the   *)
(* event journal, the runtime status of every generation with the file an  *)
(* older version kept (runtime.json), the rollout progress and the routing *)
(* snapshot (cartridge-engine/src/lib.rs, routing.rs, rollout_progress.rs). *)
(*                                                                         *)
(* The daemon, the supervisors and the command line each open the store    *)
(* for one operation; opening takes engine.lock, which the system frees    *)
(* when the process ends.  Every read first recovers the file it reads, so *)
(* a reader renames and removes files too.  A process may die between any  *)
(* two file operations of write_replace_atomic and write_new_atomic.       *)
(*                                                                         *)
(* A document is a record: `stamp' numbers the writes, `generation' is the *)
(* revision of the event it belongs to, `epoch' and `sequence' are those   *)
(* of a routing snapshot.  The digest of an event stands for all events    *)
(* before it and is its revision.                                          *)
(***************************************************************************)
EXTENDS Integers, Sequences, FiniteSets

CONSTANTS Processes,
          Workloads,    \* sets of operations: a behaviour performs those of one
          Attempts,     \* ENGINE_LOCK_ATTEMPTS
          MaxEvents,    \* MAX_ENGINE_EVENTS_PER_STACK
          MaxWrites,    \* bound: documents written
          MaxFaults,    \* bound: processes that die, renames that fail
          MaxDamage     \* bound: files made unreadable from outside

VARIABLES engineLock,   \* who holds engine.lock
          journal,      \* the events: [revision, previous, kind]
          slots,        \* per file: the document and its backup
          process,      \* per process: where its operation is
          durable,      \* per file: the stamp of the last acknowledged save (history)
          snapshots,    \* the routing snapshots that were ever in place (history)
          misread,      \* an observer was given another generation's status (history)
          workload,     \* the operations of this behaviour
          writes, faults, spoiled

storeVars == <<engineLock, journal, slots, process, durable, snapshots, misread, workload, writes, faults, spoiled>>

Nobody == "nobody"

Absent == [kind |-> "absent"]

Bad == [kind |-> "bad"]

Doc(stamp, generation, epoch, sequence) ==
    [kind |-> "ok", stamp |-> stamp, generation |-> generation, epoch |-> epoch, sequence |-> sequence]

Files == {<<"legacy", 0>>, <<"progress", 0>>, <<"routes", 0>>}
            \cup {<<"runtime", g>> : g \in 1 .. MaxEvents}

Idle == [pc |-> "idle", op |-> "none", file |-> <<"legacy", 0>>, generation |-> 0, next |-> Absent,
         tries |-> 0, result |-> "none"]

\* A stack exists from its first event on, and a behaviour performs operations
\* of the store.
ASSUME FilesAssumption ==
    /\ Nobody \notin Processes
    /\ MaxEvents \in Nat \ {0}
    /\ \A work \in Workloads :
          work \subseteq {"save", "saveLegacy", "saveProgress", "removeProgress", "read", "readRoutes",
                         "publish", "append"}

\* EngineEvent::validate and next_event: an event continues the last one.
NextEvent(kind) ==
    [revision |-> Len(journal) + 1, previous |-> Len(journal), kind |-> kind]

\* An applied stack, whose runtime.json an older version may have written.
FilesInit ==
    /\ engineLock = Nobody
    /\ journal = << [revision |-> 1, previous |-> 0, kind |-> "apply"] >>
    /\ \E legacy \in {Absent, Doc(0, 1, 0, 0)} :
          slots = [f \in Files |-> [path |-> IF f[1] = "legacy" THEN legacy ELSE Absent, previous |-> Absent]]
    /\ process = [p \in Processes |-> Idle]
    /\ durable = [f \in Files |-> 0]
    /\ snapshots = {}
    /\ misread = FALSE /\ workload \in Workloads
    /\ writes = 0 /\ faults = 0 /\ spoiled = {}

\* read_events: what is linked must be a chain from the first event.
JournalValid == \A i \in DOMAIN journal : journal[i].revision = i /\ journal[i].previous = i - 1

\* desired_plan: the latest event, when it has a plan.
Current == journal[Len(journal)].revision

Removed == journal[Len(journal)].kind = "remove"
-----------------------------------------------------------------------------
(* Opening and closing the store                                           *)

FileOf(op, g) ==
    CASE op \in {"save", "read"} -> <<"runtime", g>>
      [] op = "saveLegacy" -> <<"legacy", 0>>
      [] op \in {"saveProgress", "removeProgress"} -> <<"progress", 0>>
      [] op \in {"publish", "readRoutes", "append"} -> <<"routes", 0>>

\* A process begins an operation for a generation it knows of.
Begin(p) ==
    /\ process[p].pc = "idle"
    /\ \E op \in workload, g \in 1 .. Len(journal) :
          /\ op = "save" \/ g = Len(journal)
          /\ process' = [process EXCEPT ![p] =
                            [pc |-> "opening", op |-> op, file |-> FileOf(op, g), generation |-> g,
                             next |-> Absent, tries |-> 0, result |-> "none"]]
    /\ UNCHANGED <<engineLock, journal, slots, durable, snapshots, misread, writes, faults, spoiled>>

\* An open that does not wait for the lock.
TryLockIgnored(p) ==
    /\ process[p].pc = "opening"
    /\ engineLock' = p
    /\ process' = [process EXCEPT ![p].pc = "open"]
    /\ UNCHANGED <<journal, slots, durable, snapshots, misread, writes, faults, spoiled>>

\* EngineStore::open and acquire_lock: one attempt at the lock.
TryLock(p) ==
    /\ process[p].pc = "opening"
    /\ IF engineLock = Nobody
       THEN /\ engineLock' = p
            /\ process' = [process EXCEPT ![p].pc = "open"]
       ELSE /\ IF process[p].tries + 1 = Attempts
               THEN process' = [process EXCEPT ![p] = Idle]
               ELSE process' = [process EXCEPT ![p].tries = @ + 1]
            /\ UNCHANGED engineLock
    /\ UNCHANGED <<journal, slots, durable, snapshots, misread, writes, faults, spoiled>>

\* The operation returns and the store is dropped; of its result the model
\* keeps whether it failed for the files it found.
Closed(p, result) ==
    /\ engineLock' = IF engineLock = p THEN Nobody ELSE engineLock
    /\ process' = [process EXCEPT ![p] = [Idle EXCEPT !.result = result]]

Returns(p, result) ==
    Closed(p, result) /\ UNCHANGED <<journal, durable, snapshots, writes, faults, spoiled>>
-----------------------------------------------------------------------------
(* Recovering a document: recover_runtime_status, recover_routing_file and *)
(* recover_progress_file are the same.                                     *)

Readable(document) == document.kind = "ok"

Recoverable(slot) ==
    slot.previous # Absent => Readable(IF slot.path = Absent THEN slot.previous ELSE slot.path)

Recovered(slot) ==
    IF slot.path = Absent /\ slot.previous # Absent
    THEN [path |-> slot.previous, previous |-> Absent]
    ELSE [path |-> slot.path, previous |-> Absent]

\* What a slot holds for whoever opens it next.
Value(slot) == Recovered(slot).path
-----------------------------------------------------------------------------
(* The operations under the lock                                           *)

Stage(p, document) ==
    /\ writes < MaxWrites
    /\ writes' = writes + 1
    /\ process' = [process EXCEPT ![p] = [@ EXCEPT !.pc = "staged", !.next = document]]

\* The file is recovered, and the temporary of its next document written.
RecoverAndStage(p) ==
    LET f == process[p].file
    IN IF ~Recoverable(slots[f]) THEN Returns(p, "error") /\ UNCHANGED <<slots, misread>>
       ELSE /\ slots' = [slots EXCEPT ![f] = Recovered(@)]
            /\ Stage(p, Doc(writes + 1, process[p].generation, 0, 0))
            /\ UNCHANGED <<engineLock, journal, durable, snapshots, misread, faults, spoiled>>

\* generation_target, validate_against: the generation is the desired one.
Authorized(p) == process[p].generation = Current /\ ~Removed

\* save_runtime_status_for_generation
SaveStatus(p) ==
    /\ process[p].pc = "open" /\ process[p].op = "save"
    /\ IF Authorized(p) THEN RecoverAndStage(p) ELSE Returns(p, "none") /\ UNCHANGED <<slots, misread>>

\* save_runtime_status: what an older version wrote, runtime.json.
SaveLegacyStatus(p) ==
    /\ process[p].pc = "open" /\ process[p].op = "saveLegacy"
    /\ IF Authorized(p) THEN RecoverAndStage(p) ELSE Returns(p, "none") /\ UNCHANGED <<slots, misread>>

\* save_rollout_progress, of the one rollout there is.
SaveProgress(p) ==
    /\ process[p].pc = "open" /\ process[p].op = "saveProgress"
    /\ RecoverAndStage(p)

\* remove_terminal_rollout_progress
RemoveProgress(p) ==
    LET f == process[p].file
    IN /\ process[p].pc = "open" /\ process[p].op = "removeProgress"
       /\ IF ~Recoverable(slots[f]) \/ Value(slots[f]) = Bad
          THEN Returns(p, "error") /\ UNCHANGED <<slots, misread>>
          ELSE /\ slots' = [slots EXCEPT ![f] = [path |-> Absent, previous |-> Absent]]
               /\ durable' = [durable EXCEPT ![f] = 0]
               /\ Closed(p, "none")
               /\ UNCHANGED <<journal, snapshots, misread, writes, faults, spoiled>>

\* The legacy file counts only for the generation that is desired.
LegacyStatus(slot) ==
    IF slot.path = Absent \/ (Readable(slot.path) /\ slot.path.generation # Current)
    THEN Absent ELSE slot.path

\* runtime_status: the generation's own file first, then the legacy one.
ReadStatus(p) ==
    LET own == process[p].file
        old == <<"legacy", 0>>
        ownFirst == Recoverable(slots[own]) /\ Value(slots[own]) # Absent
        found == IF ownFirst THEN Value(slots[own]) ELSE LegacyStatus(Recovered(slots[old]))
        opened == IF ownFirst THEN {own} ELSE {own, old}
    IN /\ process[p].pc = "open" /\ process[p].op = "read"
       /\ IF ~Authorized(p)
          THEN Returns(p, "none") /\ UNCHANGED <<slots, misread>>
          ELSE IF \E f \in opened : ~Recoverable(slots[f])
          THEN Returns(p, "error") /\ UNCHANGED <<slots, misread>>
          ELSE /\ slots' = [f \in Files |-> IF f \in opened THEN Recovered(slots[f]) ELSE slots[f]]
               /\ misread' = (misread \/ (Readable(found) /\ found.generation # Current))
               /\ Returns(p, IF found = Bad THEN "error" ELSE "none")

\* routing_snapshot: recovers and reads, and fails closed.
ReadRoutes(p) ==
    LET f == process[p].file
    IN /\ process[p].pc = "open" /\ process[p].op = "readRoutes"
       /\ IF ~Recoverable(slots[f]) THEN Returns(p, "error") /\ UNCHANGED <<slots, misread>>
          ELSE /\ slots' = [slots EXCEPT ![f] = Recovered(@)]
               /\ Returns(p, IF Value(slots[f]) = Bad THEN "error" ELSE "none")
               /\ UNCHANGED misread

\* An epoch that is the same after every loss.
FreshEpochFixed == 1

\* The epoch of a snapshot that has no predecessor is drawn afresh.
FreshEpoch == writes + 1

\* routing_snapshot_for_publish: what cannot be read is removed, and the
\* publication starts a new epoch.
PreviousRoutes(slot) ==
    IF Recoverable(slot) /\ Value(slot) # Bad THEN Value(slot) ELSE Absent

ResetOrRecovered(slot) ==
    IF Recoverable(slot) /\ Value(slot) # Bad THEN Recovered(slot) ELSE [path |-> Absent, previous |-> Absent]

\* publish_routing_snapshot_inner: a changed membership continues the
\* sequence of its epoch.
PublishRoutes(p) ==
    LET f == process[p].file
        previous == PreviousRoutes(slots[f])
        next == IF previous = Absent THEN Doc(writes + 1, Current, FreshEpoch, 1)
                ELSE Doc(writes + 1, Current, previous.epoch, previous.sequence + 1)
    IN /\ process[p].pc = "open" /\ process[p].op = "publish"
       /\ slots' = [slots EXCEPT ![f] = ResetOrRecovered(@)]
       /\ \/ previous # Absent /\ Returns(p, "none") /\ UNCHANGED misread
          \/ /\ Stage(p, next)
             /\ UNCHANGED <<engineLock, journal, durable, snapshots, misread, faults, spoiled>>

\* apply, stop and remove, up to the temporary of write_new_atomic.
AppendEvent(p) ==
    /\ process[p].pc = "open" /\ process[p].op = "append"
    /\ IF ~JournalValid THEN Returns(p, "error") /\ UNCHANGED <<slots, misread>>
       ELSE IF Len(journal) >= MaxEvents
       THEN Returns(p, "none") /\ UNCHANGED <<slots, misread>>
       ELSE /\ \E kind \in {"apply", "stop", "remove"} :
                  /\ kind = "stop" => ~Removed
                  /\ kind # "apply" => journal[Len(journal)].kind # kind
                  /\ process' = [process EXCEPT ![p] = [@ EXCEPT !.pc = "linking", !.next = NextEvent(kind)]]
            /\ UNCHANGED <<engineLock, journal, slots, durable, snapshots, misread, writes, faults, spoiled>>

\* write_new_atomic: the link gives the event its name, or fails; a temporary
\* that is left is skipped by read_events.
LinkEvent(p) ==
    /\ process[p].pc = "linking"
    /\ IF process[p].next.revision = Len(journal) + 1
       THEN /\ journal' = Append(journal, process[p].next)
            /\ Closed(p, "none")
            /\ UNCHANGED <<durable, snapshots, misread, writes, faults, spoiled>>
       ELSE Returns(p, "error") /\ UNCHANGED misread
    /\ UNCHANGED slots
-----------------------------------------------------------------------------
(* write_replace_atomic, after the temporary is on disk                    *)

Keeps(p, pc) ==
    /\ process' = [process EXCEPT ![p].pc = pc]
    /\ UNCHANGED <<engineLock, journal, durable, misread, writes, faults, spoiled>>

\* The new document gets its name: whoever reads now sees it.
InPlace(p) ==
    snapshots' = snapshots \cup (IF process[p].op = "publish" THEN {process[p].next} ELSE {})

ReplaceDocument(p) ==
    LET f == process[p].file
    IN /\ process[p].pc = "staged"
       /\ IF slots[f].path = Absent
          THEN /\ slots' = [slots EXCEPT ![f].path = process[p].next]
               /\ InPlace(p) /\ Keeps(p, "synced")
          ELSE IF slots[f].previous # Absent
          THEN Returns(p, "error") /\ UNCHANGED <<slots, misread>>
          ELSE /\ slots' = [slots EXCEPT ![f] = [path |-> Absent, previous |-> slots[f].path]]
               /\ Keeps(p, "aside") /\ UNCHANGED snapshots

InstallDocument(p) ==
    /\ process[p].pc = "aside"
    /\ slots' = [slots EXCEPT ![process[p].file].path = process[p].next]
    /\ InPlace(p) /\ Keeps(p, "installed")

\* The rename fails and the old document is put back.
InstallFails(p) ==
    /\ process[p].pc = "aside" /\ faults < MaxFaults
    /\ slots' = [slots EXCEPT ![process[p].file] = [path |-> @.previous, previous |-> Absent]]
    /\ faults' = faults + 1
    /\ Closed(p, "none")
    /\ UNCHANGED <<journal, durable, snapshots, misread, writes, spoiled>>

RemoveBackup(p) ==
    LET f == process[p].file
    IN /\ process[p].pc = "installed"
       /\ IF slots[f].previous = Absent
          THEN Returns(p, "error") /\ UNCHANGED <<slots, misread>>
          ELSE /\ slots' = [slots EXCEPT ![f].previous = Absent]
               /\ Keeps(p, "synced") /\ UNCHANGED snapshots

\* The directory is flushed and the save acknowledged.
Acknowledge(p) ==
    /\ process[p].pc = "synced"
    /\ durable' = [durable EXCEPT ![process[p].file] = process[p].next.stamp]
    /\ Closed(p, "none")
    /\ UNCHANGED <<journal, slots, snapshots, misread, writes, faults, spoiled>>

\* A process dies, and its lock is freed.
ProcessDies(p) ==
    /\ process[p].pc # "idle" /\ faults < MaxFaults
    /\ engineLock' = IF engineLock = p THEN Nobody ELSE engineLock
    /\ process' = [process EXCEPT ![p] = Idle]
    /\ faults' = faults + 1
    /\ UNCHANGED <<journal, slots, durable, snapshots, misread, writes, spoiled>>

\* A document is made unreadable from outside the program.
Damage ==
    /\ Cardinality(spoiled) < MaxDamage
    /\ \E f \in Files :
          /\ slots[f].path # Absent
          /\ slots' = [slots EXCEPT ![f].path = Bad]
          /\ spoiled' = spoiled \cup {f}
    /\ UNCHANGED <<engineLock, journal, process, durable, snapshots, misread, writes, faults>>

FilesNext ==
    /\ UNCHANGED workload
    /\ \/ Damage
       \/ \E p \in Processes :
             \/ Begin(p) \/ TryLock(p)
             \/ SaveStatus(p) \/ SaveLegacyStatus(p) \/ SaveProgress(p) \/ RemoveProgress(p)
             \/ ReadStatus(p) \/ ReadRoutes(p) \/ PublishRoutes(p)
             \/ AppendEvent(p) \/ LinkEvent(p)
             \/ ReplaceDocument(p) \/ InstallDocument(p) \/ InstallFails(p) \/ RemoveBackup(p) \/ Acknowledge(p)
             \/ ProcessDies(p)

FilesSpec == FilesInit /\ [][FilesNext]_storeVars
-----------------------------------------------------------------------------
\* No two routing snapshots that were ever in place carry the same epoch and
\* sequence, not after one was interrupted or a spoiled file was reset either
\* (publish_routing_snapshot_inner, routing_snapshot_for_publish).
SequencesAreNotReused ==
    \A a, b \in snapshots : a.epoch = b.epoch /\ a.sequence = b.sequence => a = b

\* A save that was acknowledged is what the next process finds, or a later
\* write is: neither a process that dies at any point of a later replacement
\* nor a reader that recovers the file brings an older document back.  Although
\* every reader recovers, and so renames and removes the files a writer is
\* replacing, no operation fails for the state it finds them in unless they
\* were spoiled from outside; and the status an observer is given is that of the
\* generation desired while it holds the store (EngineStore::open,
\* write_replace_atomic, recover_runtime_status, runtime_status).
SavedStays ==
    /\ \A f \in Files \ spoiled :
          LET found == Value(slots[f])
          IN durable[f] > 0 => Readable(found) /\ found.stamp >= durable[f]
    /\ spoiled = {} => \A p \in Processes : process[p].result # "error"
    /\ ~misread
=============================================================================
