------------------------- MODULE RolloutTransaction -------------------------
(***************************************************************************)
(* The desired-state journal and the rollout transaction of one stack      *)
(* (cartridge-engine: lib.rs, rollout.rs), down to the file operations of  *)
(* every mutation.  Every mutation runs under the exclusive engine lock,   *)
(* so mutations do not interleave; but a process may die, or a file        *)
(* operation may fail, between any two of them.                            *)
(*                                                                         *)
(* Abstractions.  A generation is the digest of a journal event, chained   *)
(* to the event before it: the journal only grows, so a generation is the  *)
(* position of its event, and 0 is "no generation".  A rollout identity    *)
(* is a digest over the creation time and the transaction's inputs: it is  *)
(* the serial number of the prepare that drew it.  A process death leaves  *)
(* the file operations completed before it in place.                       *)
(***************************************************************************)
EXTENDS Naturals, Sequences, FiniteSets

CONSTANTS Names,        \* identities of resolved plans
          NoPlan,       \* Option::None of a plan
          NoRecord,     \* an absent file
          MaxEvents,    \* MAX_ENGINE_EVENTS_PER_STACK
          MaxHistory,   \* MAX_ROLLOUT_HISTORY
          MaxRollouts   \* model bound: transactions prepared in a behaviour

(* Whether every instance of a plan is stopped is all of its content that  *)
(* the journal and the transaction look at.                                *)
Plan == [name : Names, running : BOOLEAN]

Event ==
    [kind : {"apply", "stop"}, plan : Plan] \cup [kind : {"remove"}, plan : {NoPlan}]

(* Option::None of an event: what latest() returns on an empty journal.    *)
NoEvent == [kind |-> "none", plan |-> NoPlan]

Phases == {"prepared", "activated", "committed", "rolledback", "cancelled"}

(* RolloutRecord.  before holds previous_state and previous_plan; previous,*)
(* activated and rollback are generations.                                 *)
Record ==
    [id        : Nat,
     phase     : Phases,
     previous  : Nat,
     before    : Event \cup {NoEvent},
     candidate : Plan,
     activated : Nat,
     rollback  : Nat]

(* The file operations of write_replace_atomic still to be done.           *)
Stages == {"idle", "replace", "install", "cleanup"}

ASSUME ConstantAssumption ==
    /\ NoPlan \notin Plan
    /\ NoRecord \notin Record
    /\ MaxEvents \in Nat
    /\ MaxHistory \in Nat
    /\ MaxRollouts \in Nat

VARIABLES journal,   \* the events/ directory, in order
          file,      \* rollout.json
          backup,    \* rollout.json.previous
          archive,   \* the rollouts/ directory
          stage,     \* where the running replacement of rollout.json is
          writing,   \* the record it installs
          serial,    \* transactions prepared so far
          execution  \* rollout-progress.json: the identity it names, 0 when absent

vars == <<journal, file, backup, archive, stage, writing, serial, execution>>

-----------------------------------------------------------------------------
(* The journal.                                                            *)

Latest == IF journal = <<>> THEN NoEvent ELSE journal[Len(journal)]

ApplyEvent(plan) == [kind |-> "apply", plan |-> plan]

(* StackPlan::stopped.                                                     *)
Stopped(plan) == [plan EXCEPT !.running = FALSE]

(* append: refused when the history is full.                               *)
AppendEvent(event) ==
    /\ Len(journal) < MaxEvents
    /\ journal' = Append(journal, event)

-----------------------------------------------------------------------------
(* How a record is compared with the newest event.                         *)

Active(record) == record.phase \in {"prepared", "activated"}

MatchesPrevious(record) ==
    /\ Len(journal) = record.previous
    /\ Latest = record.before

(* The newest event applies the candidate and continues the generation     *)
(* seen at preparation.                                                    *)
MatchesCandidate(record) ==
    /\ Latest = ApplyEvent(record.candidate)
    /\ Len(journal) = record.previous + 1

MatchesActivation(record) ==
    /\ MatchesCandidate(record)
    /\ Len(journal) = record.activated

RollbackTarget(record) ==
    IF record.before.kind \in {"none", "remove"}
    THEN [kind |-> "remove", plan |-> NoPlan]
    ELSE record.before

MatchesRollback(record) ==
    /\ Len(journal) = record.activated + 1
    /\ Latest = RollbackTarget(record)

(* The records the transaction moves through.                              *)
InPhase(record, phase) == [record EXCEPT !.phase = phase]

ActivatedAt(record, generation) ==
    [record EXCEPT !.phase = "activated", !.activated = generation]

RolledBackAt(record, generation) ==
    [record EXCEPT !.phase = "rolledback", !.rollback = generation]

(* A slip in Behind: only an interrupted activation is recognised.         *)
BehindActivation(record) == record.phase = "prepared" /\ MatchesCandidate(record)

(* The conditions under which recover_rollout_checkpoint finds the record  *)
(* one phase behind the journal.                                           *)
Behind(record) ==
    \/ record.phase = "prepared" /\ MatchesCandidate(record)
    \/ record.phase = "activated" /\ MatchesRollback(record)

(* The record it derives.                                                  *)
CaughtUp(record) ==
    IF record.phase = "prepared"
    THEN ActivatedAt(record, Len(journal))
    ELSE RolledBackAt(record, Len(journal))

(* Its other checks: any other divergence makes rollout() fail.            *)
Consistent(record) ==
    /\ record.phase = "prepared" => MatchesPrevious(record)
    /\ record.phase = "activated" => MatchesActivation(record)

(* valid_phase_fields: refresh() refuses, after the journal has changed, to *)
(* write a record whose generations do not fit its phase.                  *)
ValidPhaseFields(record) ==
    /\ record.phase \in {"prepared", "cancelled"} =>
          record.activated = 0 /\ record.rollback = 0
    /\ record.phase \in {"activated", "committed"} =>
          record.activated = record.previous + 1 /\ record.rollback = 0
    /\ record.phase = "rolledback" =>
          /\ record.activated = record.previous + 1
          /\ record.rollback = record.activated + 1

-----------------------------------------------------------------------------
(* Replacing rollout.json.                                                 *)

Idle == stage = "idle"

BeginWrite(record) == stage' = "replace" /\ writing' = record

EndWrite == stage' = "idle" /\ writing' = NoRecord

(* The first rename: the current file becomes the backup.  Without a       *)
(* current file the new one takes its place at once.                       *)
ReplaceFile ==
    /\ stage = "replace"
    /\ \/ /\ file = NoRecord
          /\ file' = writing
          /\ EndWrite
          /\ UNCHANGED backup
       \/ /\ file # NoRecord
          /\ file' = NoRecord
          /\ backup' = file
          /\ stage' = "install"
          /\ UNCHANGED writing
    /\ UNCHANGED <<journal, archive, serial, execution>>

(* The second rename: the new file appears under the path.                 *)
InstallFile ==
    /\ stage = "install"
    /\ file' = writing
    /\ stage' = "cleanup"
    /\ UNCHANGED <<journal, backup, archive, writing, serial, execution>>

(* The backup is removed last.                                             *)
RemoveBackup ==
    /\ stage = "cleanup"
    /\ backup' = NoRecord
    /\ EndWrite
    /\ UNCHANGED <<journal, file, archive, serial, execution>>

(* The process dies, or a file operation fails and the error is returned:  *)
(* nothing else of the mutation happens and the lock is released.          *)
Interrupt ==
    /\ ~Idle
    /\ EndWrite
    /\ UNCHANGED <<journal, file, backup, archive, serial, execution>>

-----------------------------------------------------------------------------
(* rollout(): what every reader and every mutation does first.             *)

(* recover_rollout_file: after an interrupted replacement a missing file   *)
(* comes back from its backup, and a superseded backup is removed.         *)
RecoverFile ==
    /\ Idle
    /\ backup # NoRecord
    /\ file' = IF file = NoRecord THEN backup ELSE file
    /\ backup' = NoRecord
    /\ UNCHANGED <<journal, archive, stage, writing, serial, execution>>

(* recover_rollout_checkpoint: a record one phase behind is rewritten.     *)
RecoverCheckpoint ==
    /\ Idle
    /\ backup = NoRecord
    /\ file # NoRecord
    /\ Behind(file)
    /\ BeginWrite(CaughtUp(file))
    /\ UNCHANGED <<journal, file, backup, archive, serial, execution>>

(* rollout() has succeeded and has nothing left to repair; file is what it *)
(* returned.                                                               *)
Recovered ==
    /\ Idle
    /\ backup = NoRecord
    /\ file # NoRecord => ~Behind(file) /\ Consistent(file)

-----------------------------------------------------------------------------
(* Direct mutations of the desired state.                                  *)

NoActiveRollout == Recovered /\ (file # NoRecord => ~Active(file))

DirectMutation(event) ==
    /\ NoActiveRollout
    /\ AppendEvent(event)
    /\ UNCHANGED <<file, backup, archive, stage, writing, serial, execution>>

(* Applying the desired plan again changes nothing.                        *)
Apply(plan) == Latest # ApplyEvent(plan) /\ DirectMutation(ApplyEvent(plan))

Stop ==
    /\ Latest.kind = "apply"
    /\ DirectMutation([kind |-> "stop", plan |-> Stopped(Latest.plan)])

Remove ==
    /\ Latest.kind \in {"apply", "stop"}
    /\ DirectMutation([kind |-> "remove", plan |-> NoPlan])

-----------------------------------------------------------------------------
(* The transaction.                                                        *)

(* archive_rollout succeeds: the record is already there, or there is room *)
(* and no other record has its identity.                                   *)
CanArchive(record) ==
    \/ record \in archive
    \/ /\ Cardinality(archive) < MaxHistory
       /\ \A archived \in archive : archived.id # record.id

(* validate_progress_against_rollout: the progress file is that of the     *)
(* record, whose candidate has a generation.                               *)
Executes(record) == execution = record.id /\ record.activated # 0

(* A slip in NewRecord: the identity is that of the stack.                 *)
NewRecordReusing(plan) ==
    [id        |-> 1,
     phase     |-> "prepared",
     previous  |-> Len(journal),
     before    |-> Latest,
     candidate |-> plan,
     activated |-> 0,
     rollback  |-> 0]

(* RolloutRecord::new.                                                     *)
NewRecord(plan) ==
    [id        |-> serial + 1,
     phase     |-> "prepared",
     previous  |-> Len(journal),
     before    |-> Latest,
     candidate |-> plan,
     activated |-> 0,
     rollback  |-> 0]

(* prepare_rollout.  An active record ends it, with the record itself when *)
(* it is a preparation of the same plan; so does a committed record of the *)
(* plan that is still desired.  The progress file of any other terminal    *)
(* record is removed if it belongs to that record, the record is archived, *)
(* and only then is a plan refused for being desired already.  When the    *)
(* record cannot be archived, or the process dies before it is, the        *)
(* progress file alone is gone.                                            *)
Prepare(plan) ==
    /\ NoActiveRollout
    /\ file # NoRecord =>
          /\ ~(/\ file.phase = "committed"
               /\ file.candidate = plan
               /\ MatchesActivation(file))
          /\ execution = 0 \/ Executes(file)
    /\ execution' = IF file = NoRecord THEN execution ELSE 0
    /\ \/ /\ file # NoRecord
          /\ UNCHANGED <<archive, stage, writing, serial>>
       \/ /\ file # NoRecord => CanArchive(file)
          /\ archive' = IF file = NoRecord THEN archive ELSE archive \cup {file}
          /\ \/ /\ Latest = ApplyEvent(plan)
                /\ UNCHANGED <<stage, writing, serial>>
             \/ /\ Latest # ApplyEvent(plan)
                /\ serial < MaxRollouts
                /\ BeginWrite(NewRecord(plan))
                /\ serial' = serial + 1
    /\ UNCHANGED <<journal, file, backup>>

(* begin_rollout_progress: the first progress of an activated transaction. *)
BeginExecution ==
    /\ Recovered
    /\ file # NoRecord
    /\ file.phase = "activated"
    /\ execution = 0
    /\ execution' = file.id
    /\ UNCHANGED <<journal, file, backup, archive, stage, writing, serial>>

(* A slip in Activate: the checkpoint alone moves on.                      *)
ActivateUnjournalled ==
    /\ Recovered
    /\ file # NoRecord
    /\ file.phase = "prepared"
    /\ BeginWrite(ActivatedAt(file, Len(journal) + 1))
    /\ UNCHANGED <<journal, file, backup, archive, serial, execution>>

(* activate_rollout: the journal first, then the checkpoint.               *)
Activate ==
    /\ Recovered
    /\ file # NoRecord
    /\ file.phase = "prepared"
    /\ AppendEvent(ApplyEvent(file.candidate))
    /\ BeginWrite(ActivatedAt(file, Len(journal) + 1))
    /\ UNCHANGED <<file, backup, archive, serial, execution>>

(* commit_rollout: health is the answer of the health report and of the    *)
(* stability window for the candidate generation.                          *)
Commit(health) ==
    /\ Recovered
    /\ file # NoRecord
    /\ file.phase = "activated"
    /\ health = "ready" \/ (health = "stopped" /\ ~file.candidate.running)
    /\ BeginWrite(InPhase(file, "committed"))
    /\ UNCHANGED <<journal, file, backup, archive, serial, execution>>

(* rollback_rollout of a preparation.                                      *)
CancelPrepared ==
    /\ Recovered
    /\ file # NoRecord
    /\ file.phase = "prepared"
    /\ BeginWrite(InPhase(file, "cancelled"))
    /\ UNCHANGED <<journal, file, backup, archive, serial, execution>>

(* rollback_rollout of an activated or a committed transaction whose       *)
(* candidate is still desired.                                             *)
Rollback ==
    /\ Recovered
    /\ file # NoRecord
    /\ file.phase \in {"activated", "committed"}
    /\ MatchesActivation(file)
    /\ AppendEvent(RollbackTarget(file))
    /\ BeginWrite(RolledBackAt(file, Len(journal) + 1))
    /\ UNCHANGED <<file, backup, archive, serial, execution>>

-----------------------------------------------------------------------------
Init ==
    /\ journal = <<>>
    /\ file = NoRecord
    /\ backup = NoRecord
    /\ archive = {}
    /\ stage = "idle"
    /\ writing = NoRecord
    /\ serial = 0
    /\ execution = 0

Next ==
    \/ \E plan \in Plan : Apply(plan)
    \/ Stop
    \/ Remove
    \/ \E plan \in Plan : Prepare(plan)
    \/ Activate
    \/ BeginExecution
    \/ \E health \in {"ready", "stopped", "unready"} : Commit(health)
    \/ CancelPrepared
    \/ Rollback
    \/ RecoverFile
    \/ RecoverCheckpoint
    \/ ReplaceFile
    \/ InstallFile
    \/ RemoveBackup
    \/ Interrupt

Spec == Init /\ [][Next]_vars

-----------------------------------------------------------------------------
(* Properties.                                                             *)

(* Every file holds a value of its kind.                                   *)
TypeOK ==
    /\ journal \in Seq(Event)
    /\ file \in Record \cup {NoRecord}
    /\ backup \in Record \cup {NoRecord}
    /\ archive \in SUBSET Record
    /\ stage \in Stages
    /\ writing \in Record \cup {NoRecord}
    /\ serial \in Nat
    /\ execution \in Nat

(* The record rollout() starts from, wherever a crash left it.             *)
Checkpoint == IF file # NoRecord THEN file ELSE backup

(* ROLL-02: wherever a mutation is interrupted, neither rollout() nor      *)
(* rollout_progress() fails closed.  The checkpoint that survives agrees   *)
(* with the journal, or is exactly one recoverable phase behind it; and a  *)
(* progress file is the one of that checkpoint, never left over from a     *)
(* transaction that another has replaced.                                  *)
CheckpointReadable ==
    /\ Checkpoint # NoRecord => Behind(Checkpoint) \/ Consistent(Checkpoint)
    /\ execution # 0 => Checkpoint # NoRecord /\ Executes(Checkpoint)

(* Every record a mutation sets out to write passes the check refresh()    *)
(* makes of its generations: none is refused with the journal already      *)
(* changed.                                                                *)
WrittenRecordsValid == writing # NoRecord => ValidPhaseFields(writing)

(* write_replace_atomic never meets the backup of an earlier replacement   *)
(* ("runtime status replacement is already in progress"), which would      *)
(* refuse every later write.                                               *)
ReplacementUnblocked == stage = "replace" => backup = NoRecord

(* A rolled back transaction has put back the desired state found at its   *)
(* preparation, stopped plans included, or a tombstone where there was no  *)
(* plan (rollback_target).                                                 *)
RollbackRestores ==
    Checkpoint # NoRecord /\ Checkpoint.phase = "rolledback" =>
        LET found == Checkpoint.previous
        IN  journal[Checkpoint.rollback] =
                IF found = 0 \/ journal[found].kind = "remove"
                THEN [kind |-> "remove", plan |-> NoPlan]
                ELSE journal[found]

(* ROLL-01: the journal only grows, one event at a time, and while a       *)
(* transaction is active the only event that can enter it is the one that  *)
(* activates its candidate or the one that rolls it back, never a second   *)
(* time.                                                                   *)
JournalFenced ==
    [][journal' # journal =>
          \E event \in Event :
             /\ journal' = Append(journal, event)
             /\ Checkpoint # NoRecord /\ Active(Checkpoint) =>
                   /\ ~Behind(Checkpoint)
                   /\ event = IF Checkpoint.phase = "prepared"
                              THEN ApplyEvent(Checkpoint.candidate)
                              ELSE RollbackTarget(Checkpoint)]_vars

(* The phase changes a transaction may make.                               *)
PhaseSteps ==
    {<<"prepared", "activated">>, <<"prepared", "cancelled">>,
     <<"activated", "committed">>, <<"activated", "rolledback">>,
     <<"committed", "rolledback">>}

(* No crash loses the checkpoint or takes it back to an earlier phase, and *)
(* an active transaction is never replaced by another one.                 *)
CheckpointAdvances ==
    [][Checkpoint' # Checkpoint /\ Checkpoint # NoRecord =>
          /\ Checkpoint' # NoRecord
          /\ \/ /\ Checkpoint'.id = Checkpoint.id
                /\ <<Checkpoint.phase, Checkpoint'.phase>> \in PhaseSteps
             \/ /\ Checkpoint'.id > Checkpoint.id
                /\ ~Active(Checkpoint)
                /\ Checkpoint'.phase = "prepared"]_vars

(* archive_rollout takes an archived record that differs from the one it   *)
(* archives for a collision of identities and refuses it.  A terminal      *)
(* checkpoint differs from the archived record of its own identity only    *)
(* when it was committed as it was archived and rolled back afterwards.    *)
CollidesByRollbackOnly ==
    Recovered /\ file # NoRecord /\ ~Active(file) =>
        \A archived \in archive : archived.id = file.id =>
            archived = file \/ (archived.phase = "committed" /\ file.phase = "rolledback")

(* What a client of the transaction sees: the phase the journal and the    *)
(* checkpoint together stand for.                                          *)
LogicalPhase ==
    IF Checkpoint = NoRecord \/ ~Active(Checkpoint) THEN "open"
    ELSE IF Checkpoint.phase = "prepared"
         THEN IF Behind(Checkpoint) THEN "activated" ELSE "prepared"
         ELSE IF Behind(Checkpoint) THEN "open" ELSE "activated"

LogicalSaved == IF LogicalPhase = "open" THEN NoEvent ELSE Checkpoint.before

LogicalCandidate == IF LogicalPhase = "open" THEN NoPlan ELSE Checkpoint.candidate

Atomic ==
    INSTANCE AtomicRollout WITH
        desired   <- Latest,
        phase     <- LogicalPhase,
        saved     <- LogicalSaved,
        candidate <- LogicalCandidate

(* Through every interruption and recovery the journal and the checkpoint  *)
(* implement the indivisible transaction of AtomicRollout.                 *)
ImplementsAtomicRollout == Atomic!AtomicSpec

-----------------------------------------------------------------------------
(* A claim of the documentation that the code does not meet.               *)

(* ROLL-02 in full: once activation or rollback is in the journal, an      *)
(* interruption leaves a checkpoint that recovery brings to that phase.    *)
JournalledPhaseRecovered ==
    [][~Idle /\ stage' = "idle" /\ writing.phase \in {"activated", "rolledback"} =>
          Checkpoint'.phase = writing.phase \/ Behind(Checkpoint)']_vars

===========================================================================
