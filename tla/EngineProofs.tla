---------------------------- MODULE EngineProofs ----------------------------
(***************************************************************************)
(* Proofs about what the engine keeps on record: the transactions of a     *)
(* rollout, and the status of a supervised generation.                     *)
(*                                                                         *)
(* RolloutTransaction, for every set of plan names and every limit on the  *)
(* journal, the archive and the number of transactions.                    *)
(* CheckpointReadable is not inductive: it says nothing about the record a *)
(* replacement is about to install, nor about the generations older than   *)
(* the newest event.  IInv adds both.                                      *)
(*                                                                         *)
(* ReplicaSupervisor, for every set of replicas and every policy.  The     *)
(* supervisor never builds a status that its own checks refuse, and its    *)
(* workers obey the restart and probe policies: a worker that is watched   *)
(* is the one of the run that is live, and a report on disk is its last    *)
(* one.                                                                    *)
(***************************************************************************)
EXTENDS RolloutTransaction, ReplicaSupervisor, FiniteSetTheorems, TLAPS
-----------------------------------------------------------------------------
(* Rollout transactions                                                    *)

EventAt(generation) == IF generation = 0 THEN NoEvent ELSE journal[generation]

(* What the journal says of a record, at most one event ahead of it.       *)
Grounded(record) ==
    /\ record.previous <= Len(journal)
    /\ record.before = EventAt(record.previous)
    /\ ValidPhaseFields(record)
    /\ record.phase = "prepared" =>
          Len(journal) = record.previous \/ MatchesCandidate(record)
    /\ record.phase \in {"activated", "committed", "rolledback"} =>
          /\ record.activated <= Len(journal)
          /\ journal[record.activated] = ApplyEvent(record.candidate)
    /\ record.phase = "activated" =>
          Len(journal) = record.activated \/ MatchesRollback(record)
    /\ record.phase = "rolledback" =>
          /\ record.rollback <= Len(journal)
          /\ journal[record.rollback] = RollbackTarget(record)

(* The replacement under way has the files it needs.                       *)
StageInv ==
    /\ Idle => writing = NoRecord
    /\ ~Idle => writing # NoRecord
    /\ stage = "replace" => backup = NoRecord
    /\ stage = "install" => file = NoRecord /\ backup # NoRecord
    /\ stage = "cleanup" => file = writing

CheckpointInv == Checkpoint # NoRecord => Grounded(Checkpoint)

WritingInv == writing # NoRecord => Grounded(writing) /\ Consistent(writing)

IInv == TypeOK /\ StageInv /\ CheckpointInv /\ WritingInv

-----------------------------------------------------------------------------
(* What appending an event does to the journal and to the records that the *)
(* journal grounds.                                                        *)

(* Events keep their place when append adds one after them.                *)
LEMMA AppendFacts ==
    ASSUME journal \in Seq(Event), NEW event \in Event,
           journal' = Append(journal, event)
    PROVE  /\ journal' \in Seq(Event)
           /\ Len(journal) \in Nat
           /\ Len(journal') = Len(journal) + 1
           /\ Latest' = event
           /\ \A n \in 1..Len(journal) : journal'[n] = journal[n]
  BY DEF Latest

(* The newest event is an event.                                           *)
LEMMA LatestType ==
    ASSUME journal \in Seq(Event)
    PROVE  /\ Latest \in Event \cup {NoEvent}
           /\ Latest = EventAt(Len(journal))
  BY DEF Latest, EventAt

(* What a rollback appends is an event.                                    *)
LEMMA RollbackTargetType ==
    ASSUME NEW record \in Record
    PROVE  RollbackTarget(record) \in Event
  BY DEF RollbackTarget, Record, Event, NoEvent

(* A record that no event can move a phase further stays grounded when the *)
(* journal grows: direct mutations do not disturb terminal transactions.   *)
LEMMA GroundedTerminal ==
    ASSUME journal \in Seq(Event), NEW event \in Event,
           journal' = Append(journal, event),
           NEW record \in Record, Grounded(record), ~Active(record)
    PROVE  Grounded(record)'
  <1>1. /\ Len(journal) \in Nat
        /\ Len(journal') = Len(journal) + 1
        /\ \A n \in 1..Len(journal) : journal'[n] = journal[n]
    BY Zenon, AppendFacts
  <1>2. record.phase \in {"committed", "rolledback", "cancelled"}
    BY Zenon DEF Active, Record, Phases
  <1>3. /\ record.previous \in Nat
        /\ record.activated \in Nat
        /\ record.rollback \in Nat
    BY Zenon DEF Record
  <1>4. EventAt(record.previous)' = EventAt(record.previous)
    BY <1>1, <1>3 DEF Grounded, EventAt
  <1> QED
    BY SMTT(60), <1>1, <1>2, <1>3, <1>4 DEF Grounded, ValidPhaseFields, RollbackTarget

(* Steps that leave the journal alone leave every record as it was.        *)
LEMMA GroundedStable ==
    ASSUME journal' = journal, NEW record
    PROVE  /\ Grounded(record)' = Grounded(record)
           /\ Consistent(record)' = Consistent(record)
  BY Zenon DEF Grounded, Consistent, EventAt, ValidPhaseFields, MatchesCandidate,
         MatchesRollback, MatchesPrevious, MatchesActivation, RollbackTarget, Latest

(* A checkpoint that rollout() accepts is at the newest event.             *)
LEMMA ConsistentFacts ==
    ASSUME TypeOK, NEW record \in Record, Grounded(record), Consistent(record)
    PROVE  /\ record.phase = "prepared" =>
                 Len(journal) = record.previous /\ Latest = record.before
           /\ record.phase = "activated" =>
                 Len(journal) = record.activated /\ MatchesActivation(record)
  BY Zenon DEF Consistent, MatchesPrevious, MatchesActivation

(* The record each mutation derives from the one it read.                  *)
LEMMA RecordActivated ==
    ASSUME NEW record \in Record, NEW n \in Nat
    PROVE  LET next == ActivatedAt(record, n)
           IN  /\ next \in Record
               /\ next.id = record.id
               /\ next.phase = "activated"
               /\ next.previous = record.previous
               /\ next.before = record.before
               /\ next.candidate = record.candidate
               /\ next.activated = n
               /\ next.rollback = record.rollback
  BY Zenon DEF Record, Phases, ActivatedAt

(* Likewise for a rollback.                                                *)
LEMMA RecordRolledBack ==
    ASSUME NEW record \in Record, NEW n \in Nat
    PROVE  LET next == RolledBackAt(record, n)
           IN  /\ next \in Record
               /\ next.id = record.id
               /\ next.phase = "rolledback"
               /\ next.previous = record.previous
               /\ next.before = record.before
               /\ next.candidate = record.candidate
               /\ next.activated = record.activated
               /\ next.rollback = n
  BY Zenon DEF Record, Phases, RolledBackAt

(* Likewise for a commit and for a cancellation.                           *)
LEMMA RecordClosed ==
    ASSUME NEW record \in Record, NEW phase \in Phases
    PROVE  LET next == InPhase(record, phase)
           IN  /\ next \in Record
               /\ next.id = record.id
               /\ next.phase = phase
               /\ next.previous = record.previous
               /\ next.before = record.before
               /\ next.candidate = record.candidate
               /\ next.activated = record.activated
               /\ next.rollback = record.rollback
  BY Zenon DEF Record, InPhase

(* The record activate_rollout writes, and the one it replaces, are both   *)
(* grounded once the candidate is in the journal.                          *)
LEMMA ActivateGrounds ==
    ASSUME TypeOK, NEW record \in Record, Grounded(record), Consistent(record),
           record.phase = "prepared",
           journal' = Append(journal, ApplyEvent(record.candidate)),
           NEW next, next = ActivatedAt(record, Len(journal) + 1)
    PROVE  /\ next \in Record
           /\ Grounded(record)'
           /\ Grounded(next)'
           /\ Consistent(next)'
  <1> DEFINE event == ApplyEvent(record.candidate)
  <1>1. event \in Event
    BY Zenon DEF ApplyEvent, Event, Record
  <1>2. /\ journal \in Seq(Event)
        /\ Len(journal) \in Nat
        /\ Len(journal') = Len(journal) + 1
        /\ Latest' = event
        /\ \A n \in 1..Len(journal) : journal'[n] = journal[n]
        /\ journal' \in Seq(Event)
    BY Zenon, <1>1, AppendFacts DEF TypeOK
  <1>3. /\ Len(journal) = record.previous
        /\ record.before = EventAt(record.previous)
        /\ record.activated = 0
        /\ record.rollback = 0
    BY Zenon, ConsistentFacts DEF Grounded, ValidPhaseFields
  <1>4. EventAt(record.previous)' = EventAt(record.previous)
    BY <1>2, <1>3 DEF EventAt
  <1>5. /\ next \in Record
        /\ next.phase = "activated"
        /\ next.previous = record.previous
        /\ next.before = record.before
        /\ next.candidate = record.candidate
        /\ next.activated = Len(journal) + 1
        /\ next.rollback = 0
    <2>1. Len(journal) + 1 \in Nat
      BY <1>2
    <2> QED
      BY Zenon, <2>1, <1>3, RecordActivated
  <1>6. journal'[Len(journal')] = event
    BY <1>2 DEF Latest
  <1>7. Grounded(record)'
    BY <1>2, <1>3, <1>4 DEF Grounded, ValidPhaseFields, MatchesCandidate
  <1>8. Grounded(next)'
    BY <1>2, <1>3, <1>4, <1>5, <1>6 DEF Grounded, ValidPhaseFields
  <1>9. Consistent(next)'
    BY Zenon, <1>2, <1>3, <1>5 DEF Consistent, MatchesActivation, MatchesCandidate
  <1> QED
    BY Zenon, <1>5, <1>7, <1>8, <1>9

(* Likewise for rollback_rollout.                                          *)
LEMMA RollbackGrounds ==
    ASSUME TypeOK, NEW record \in Record, Grounded(record),
           record.phase \in {"activated", "committed"},
           MatchesActivation(record),
           journal' = Append(journal, RollbackTarget(record)),
           NEW next, next = RolledBackAt(record, Len(journal) + 1)
    PROVE  /\ next \in Record
           /\ Grounded(record)'
           /\ Grounded(next)'
           /\ Consistent(next)'
  <1> DEFINE event == RollbackTarget(record)
  <1>1. event \in Event
    BY Zenon, RollbackTargetType
  <1>2. /\ journal \in Seq(Event)
        /\ Len(journal) \in Nat
        /\ Len(journal') = Len(journal) + 1
        /\ Latest' = event
        /\ \A n \in 1..Len(journal) : journal'[n] = journal[n]
        /\ journal' \in Seq(Event)
    BY Zenon, <1>1, AppendFacts DEF TypeOK
  <1>3. /\ Len(journal) = record.activated
        /\ record.previous \in Nat
        /\ record.before = EventAt(record.previous)
        /\ record.activated = record.previous + 1
        /\ record.rollback = 0
        /\ journal[record.activated] = ApplyEvent(record.candidate)
    BY Zenon DEF Grounded, ValidPhaseFields, MatchesActivation, Record
  <1>4. /\ EventAt(record.previous)' = EventAt(record.previous)
        /\ journal'[record.activated] = ApplyEvent(record.candidate)
    BY SMTT(60), <1>2, <1>3 DEF EventAt
  <1>5. /\ next \in Record
        /\ next.phase = "rolledback"
        /\ next.previous = record.previous
        /\ next.before = record.before
        /\ next.candidate = record.candidate
        /\ next.activated = record.activated
        /\ next.rollback = Len(journal) + 1
    <2>1. Len(journal) + 1 \in Nat
      BY <1>2
    <2> QED
      BY SMTT(60), <2>1, RecordRolledBack
  <1>6. /\ journal'[Len(journal')] = event
        /\ RollbackTarget(next) = event
    BY <1>2, <1>5 DEF Latest, RollbackTarget
  <1>7. MatchesRollback(record)'
    BY Zenon, <1>2, <1>3 DEF MatchesRollback, RollbackTarget
  <1>8. Grounded(record)'
    BY SMTT(60), <1>2, <1>3, <1>4, <1>7 DEF Grounded, ValidPhaseFields
  <1>9. Grounded(next)'
    BY SMTT(60), <1>2, <1>3, <1>4, <1>5, <1>6 DEF Grounded, ValidPhaseFields, RollbackTarget
  <1>10. Consistent(next)'
    BY Zenon, <1>5 DEF Consistent
  <1> QED
    BY Zenon, <1>5, <1>8, <1>9, <1>10

-----------------------------------------------------------------------------
(* The inductive invariant.                                                *)

(* The inductive invariant holds before the first event.                   *)
LEMMA InitIInv == Init => IInv
  BY ConstantAssumption
     DEF Init, IInv, TypeOK, StageInv, CheckpointInv, WritingInv, Checkpoint,
         Idle, Stages

(* A mutation that only begins a replacement keeps the invariant if the    *)
(* record it begins to write belongs at the newest event.                  *)
LEMMA BeginWriteIInv ==
    ASSUME IInv, backup = NoRecord, NEW record \in Record,
           BeginWrite(record), Grounded(record), Consistent(record),
           UNCHANGED <<journal, file, backup>>,
           archive' \in SUBSET Record, serial' \in Nat, execution' \in Nat
    PROVE  IInv'
  <1>1. TypeOK'
    BY Zenon DEF IInv, TypeOK, BeginWrite, Stages
  <1>2. record # NoRecord
    BY Zenon, ConstantAssumption
  <1>3. StageInv'
    BY Zenon, <1>2 DEF StageInv, Idle, BeginWrite
  <1>4. Checkpoint' = Checkpoint
    BY Zenon DEF Checkpoint
  <1>5. CheckpointInv'
    BY Zenon, <1>4, GroundedStable DEF IInv, CheckpointInv
  <1>6. WritingInv'
    BY Zenon, GroundedStable DEF WritingInv, BeginWrite
  <1> QED
    BY Zenon, <1>1, <1>3, <1>5, <1>6 DEF IInv

(* So does one that has first appended an event, if that event grounds     *)
(* both the record it replaces and the record it writes.                   *)
LEMMA AppendWriteIInv ==
    ASSUME IInv, Recovered, file # NoRecord, NEW record \in Record,
           NEW event \in Event, journal' = Append(journal, event),
           BeginWrite(record), Grounded(file)', Grounded(record)',
           Consistent(record)', UNCHANGED <<file, backup, archive, serial, execution>>
    PROVE  IInv'
  <1>1. TypeOK'
    BY Zenon, AppendFacts DEF IInv, TypeOK, BeginWrite, Stages
  <1>2. record # NoRecord
    BY Zenon, ConstantAssumption
  <1>3. StageInv'
    BY Zenon, <1>2 DEF Recovered, StageInv, Idle, BeginWrite
  <1>4. Checkpoint' = file'
    BY Zenon DEF Checkpoint
  <1>5. CheckpointInv'
    BY Zenon, <1>4 DEF CheckpointInv
  <1>6. WritingInv'
    BY Zenon DEF WritingInv, BeginWrite
  <1> QED
    BY Zenon, <1>1, <1>3, <1>5, <1>6 DEF IInv

(* Direct mutations.                                                       *)
LEMMA DirectMutationIInv ==
    ASSUME IInv, NEW event \in Event, DirectMutation(event)
    PROVE  IInv'
  <1>1. journal' = Append(journal, event)
    BY Zenon DEF DirectMutation, AppendEvent
  <1>2. UNCHANGED <<file, backup, archive, stage, writing, serial, execution>>
    BY Zenon DEF DirectMutation
  <1>3. TypeOK'
    BY Zenon, <1>1, <1>2, AppendFacts DEF IInv, TypeOK
  <1>4. StageInv'
    BY Zenon, <1>2 DEF IInv, StageInv, Idle
  <1>5. CheckpointInv'
    <2>1. CASE file = NoRecord
      BY Zenon, <1>2, <2>1
         DEF DirectMutation, NoActiveRollout, Recovered, CheckpointInv, Checkpoint
    <2>2. CASE file # NoRecord
      <3>1. file \in Record /\ Grounded(file) /\ ~Active(file)
        BY Zenon, <2>2 DEF DirectMutation, NoActiveRollout, IInv, TypeOK, CheckpointInv,
                    Checkpoint
      <3>2. Grounded(file)'
        <4>1. journal \in Seq(Event)
          BY Zenon DEF IInv, TypeOK
        <4>2. \A record \in Record :
                 Grounded(record) /\ ~Active(record) => Grounded(record)'
          BY Zenon, <1>1, <4>1, GroundedTerminal
        <4> QED
          BY Zenon, <1>2, <3>1, <4>2
      <3> QED
        BY Zenon, <1>2, <2>2, <3>2 DEF CheckpointInv, Checkpoint
    <2> QED
      BY Zenon, <2>1, <2>2
  <1>6. WritingInv'
    BY Zenon, <1>2 DEF DirectMutation, NoActiveRollout, Recovered, IInv, StageInv,
                WritingInv, Idle
  <1> QED
    BY Zenon, <1>3, <1>4, <1>5, <1>6 DEF IInv

(* apply keeps the inductive invariant.                                    *)
LEMMA ApplyIInv ==
    ASSUME IInv, NEW plan \in Plan, Apply(plan)
    PROVE  IInv'
  <1>1. ApplyEvent(plan) \in Event
    BY Zenon DEF ApplyEvent, Event
  <1> QED
    BY Zenon, <1>1, DirectMutationIInv DEF Apply

(* stop keeps the inductive invariant.                                     *)
LEMMA StopIInv ==
    ASSUME IInv, Stop
    PROVE  IInv'
  <1> DEFINE event == [kind |-> "stop", plan |-> Stopped(Latest.plan)]
  <1>1. Latest \in Event
    BY LatestType DEF IInv, TypeOK, Stop, NoEvent
  <1>2. Latest.plan \in Plan
    BY Zenon, <1>1 DEF Stop, Event
  <1>3. event \in Event
    BY Zenon, <1>2 DEF Stopped, Event, Plan
  <1> QED
    BY Zenon, <1>3, DirectMutationIInv DEF Stop

(* remove keeps the inductive invariant.                                   *)
LEMMA RemoveIInv ==
    ASSUME IInv, Remove
    PROVE  IInv'
  <1>1. [kind |-> "remove", plan |-> NoPlan] \in Event
    BY Zenon DEF Event
  <1> QED
    BY Zenon, <1>1, DirectMutationIInv DEF Remove

(* What a recovered checkpoint is.                                         *)
LEMMA RecoveredFacts ==
    ASSUME IInv, Recovered, file # NoRecord
    PROVE  /\ TypeOK
           /\ file \in Record
           /\ Grounded(file)
           /\ Consistent(file)
           /\ archive \in SUBSET Record
           /\ serial \in Nat
           /\ execution \in Nat
           /\ journal \in Seq(Event)
           /\ Len(journal) \in Nat
  BY DEF IInv, TypeOK, CheckpointInv, Checkpoint, Recovered

(* prepare_rollout keeps it: the record it writes describes the newest     *)
(* event.                                                                  *)
LEMMA PrepareIInv ==
    ASSUME IInv, NEW plan \in Plan, Prepare(plan)
    PROVE  IInv'
  <1>1. /\ Recovered
        /\ UNCHANGED <<journal, file, backup>>
        /\ serial \in Nat
        /\ Len(journal) \in Nat
        /\ journal \in Seq(Event)
    BY DEF Prepare, NoActiveRollout, IInv, TypeOK
  <1>2. archive' \in SUBSET Record /\ execution' \in Nat
    BY DEF Prepare, IInv, TypeOK
  <1>3. CASE UNCHANGED <<stage, writing, serial>>
    <2>1. TypeOK'
      BY Zenon, <1>1, <1>2, <1>3 DEF IInv, TypeOK
    <2>2. StageInv'
      BY Zenon, <1>1, <1>3 DEF IInv, StageInv, Idle
    <2>3. CheckpointInv'
      BY Zenon, <1>1, GroundedStable DEF IInv, CheckpointInv, Checkpoint
    <2>4. WritingInv'
      BY Zenon, <1>1, <1>3, GroundedStable DEF IInv, WritingInv
    <2> QED
      BY Zenon, <2>1, <2>2, <2>3, <2>4 DEF IInv
  <1>4. CASE BeginWrite(NewRecord(plan)) /\ serial' = serial + 1
    <2>1. NewRecord(plan) \in Record
      BY <1>1, LatestType DEF NewRecord, Record, Phases
    <2>2. Grounded(NewRecord(plan))
      BY <1>1, LatestType DEF Grounded, NewRecord, ValidPhaseFields
    <2>3. Consistent(NewRecord(plan))
      BY Zenon DEF Consistent, NewRecord, MatchesPrevious
    <2> QED
      BY <1>1, <1>2, <1>4, <2>1, <2>2, <2>3, BeginWriteIInv, SMTT(30) DEF Recovered
  <1> QED
    BY Zenon, <1>3, <1>4 DEF Prepare

(* activate_rollout keeps it, with the event in the journal and the record *)
(* still to be written.                                                    *)
LEMMA ActivateIInv ==
    ASSUME IInv, Activate
    PROVE  IInv'
  <1>1. PICK old : old = file
    BY Zenon
  <1>2. PICK new : new = ActivatedAt(file, Len(journal) + 1)
    BY Zenon
  <1>3. /\ Recovered
        /\ file # NoRecord
        /\ old.phase = "prepared"
        /\ journal' = Append(journal, ApplyEvent(old.candidate))
        /\ BeginWrite(new)
        /\ UNCHANGED <<file, backup, archive, serial, execution>>
    BY Zenon, <1>1, <1>2 DEF Activate, AppendEvent
  <1>4. /\ TypeOK
        /\ old \in Record
        /\ Grounded(old)
        /\ Consistent(old)
    BY Zenon, <1>1, <1>3, RecoveredFacts
  <1>5. /\ new \in Record
        /\ Grounded(old)'
        /\ Grounded(new)'
        /\ Consistent(new)'
    BY Zenon, <1>1, <1>2, <1>3, <1>4, ActivateGrounds
  <1>6. ApplyEvent(old.candidate) \in Event
    BY Zenon, <1>4 DEF ApplyEvent, Event, Record
  <1>7. Grounded(file)'
    BY Zenon, <1>1, <1>3, <1>5
  <1> QED
    BY Zenon, <1>3, <1>5, <1>6, <1>7, AppendWriteIInv

(* rollback_rollout keeps it, likewise.                                    *)
LEMMA RollbackIInv ==
    ASSUME IInv, Rollback
    PROVE  IInv'
  <1>1. PICK old : old = file
    BY Zenon
  <1>2. PICK new : new = RolledBackAt(file, Len(journal) + 1)
    BY Zenon
  <1>3. /\ Recovered
        /\ file # NoRecord
        /\ old.phase \in {"activated", "committed"}
        /\ MatchesActivation(old)
        /\ journal' = Append(journal, RollbackTarget(old))
        /\ BeginWrite(new)
        /\ UNCHANGED <<file, backup, archive, serial, execution>>
    BY Zenon, <1>1, <1>2 DEF Rollback, AppendEvent
  <1>4. /\ TypeOK
        /\ old \in Record
        /\ Grounded(old)
    BY Zenon, <1>1, <1>3, RecoveredFacts
  <1>5. /\ new \in Record
        /\ Grounded(old)'
        /\ Grounded(new)'
        /\ Consistent(new)'
    BY Zenon, <1>1, <1>2, <1>3, <1>4, RollbackGrounds
  <1>6. RollbackTarget(old) \in Event
    BY Zenon, <1>4, RollbackTargetType
  <1>7. Grounded(file)'
    BY Zenon, <1>1, <1>3, <1>5
  <1> QED
    BY Zenon, <1>3, <1>5, <1>6, <1>7, AppendWriteIInv

(* Closing a transaction without touching the journal: the record stays    *)
(* grounded in its new phase.                                              *)
LEMMA ClosedGrounds ==
    ASSUME TypeOK, NEW old \in Record, Grounded(old), Consistent(old),
           NEW phase,
           \/ old.phase = "prepared" /\ phase = "cancelled"
           \/ old.phase = "activated" /\ phase = "committed"
    PROVE  LET new == InPhase(old, phase)
           IN  new \in Record /\ Grounded(new) /\ Consistent(new)
  <1> DEFINE new == InPhase(old, phase)
  <1>1. phase \in Phases
    BY Zenon DEF Phases
  <1>2. /\ new \in Record
        /\ new.phase = phase
        /\ new.previous = old.previous
        /\ new.before = old.before
        /\ new.candidate = old.candidate
        /\ new.activated = old.activated
        /\ new.rollback = old.rollback
    BY Zenon, <1>1, RecordClosed
  <1> HIDE DEF new
  <1>3. Grounded(new)
    BY Zenon, <1>2 DEF Grounded, ValidPhaseFields
  <1>4. Consistent(new)
    BY Zenon, <1>2 DEF Consistent
  <1> QED
    BY Zenon, <1>2, <1>3, <1>4 DEF new

(* commit_rollout keeps it: the journal does not move.                     *)
LEMMA CommitIInv ==
    ASSUME IInv, NEW health, Commit(health)
    PROVE  IInv'
  <1>1. /\ Recovered
        /\ file # NoRecord
        /\ file.phase = "activated"
        /\ BeginWrite(InPhase(file, "committed"))
        /\ UNCHANGED <<journal, file, backup, archive, serial, execution>>
    BY Zenon DEF Commit
  <1>2. PICK new : new = InPhase(file, "committed")
    BY Zenon
  <1>3. new \in Record /\ Grounded(new) /\ Consistent(new)
    BY Zenon, <1>1, <1>2, RecoveredFacts, ClosedGrounds
  <1>4. archive' \in SUBSET Record /\ serial' \in Nat /\ execution' \in Nat
    BY Zenon, <1>1, RecoveredFacts
  <1> QED
    BY Zenon, <1>1, <1>2, <1>3, <1>4, BeginWriteIInv DEF Recovered

(* The cancellation of a preparation keeps it.                             *)
LEMMA CancelPreparedIInv ==
    ASSUME IInv, CancelPrepared
    PROVE  IInv'
  <1>1. /\ Recovered
        /\ file # NoRecord
        /\ file.phase = "prepared"
        /\ BeginWrite(InPhase(file, "cancelled"))
        /\ UNCHANGED <<journal, file, backup, archive, serial, execution>>
    BY Zenon DEF CancelPrepared
  <1>2. PICK new : new = InPhase(file, "cancelled")
    BY Zenon
  <1>3. new \in Record /\ Grounded(new) /\ Consistent(new)
    BY Zenon, <1>1, <1>2, RecoveredFacts, ClosedGrounds
  <1>4. archive' \in SUBSET Record /\ serial' \in Nat /\ execution' \in Nat
    BY Zenon, <1>1, RecoveredFacts
  <1> QED
    BY Zenon, <1>1, <1>2, <1>3, <1>4, BeginWriteIInv DEF Recovered

(* recover_rollout_checkpoint derives a record that belongs at the newest  *)
(* event.                                                                  *)
LEMMA CaughtUpGrounds ==
    ASSUME TypeOK, NEW old \in Record, Grounded(old), Behind(old)
    PROVE  LET new == CaughtUp(old)
           IN  new \in Record /\ Grounded(new) /\ Consistent(new)
  <1> DEFINE new == CaughtUp(old)
  <1>1. Len(journal) \in Nat /\ journal \in Seq(Event)
    BY DEF TypeOK
  <1>2. old.previous \in Nat /\ old.activated \in Nat /\ old.rollback \in Nat
    BY Zenon DEF Record
  <1>3. CASE old.phase = "prepared"
    <2>1. /\ MatchesCandidate(old)
          /\ new = ActivatedAt(old, Len(journal))
      BY Zenon, <1>3 DEF Behind, CaughtUp
    <2>2. /\ new \in Record
          /\ new.phase = "activated"
          /\ new.previous = old.previous
          /\ new.before = old.before
          /\ new.candidate = old.candidate
          /\ new.activated = Len(journal)
          /\ new.rollback = old.rollback
      BY SMTT(60), <1>1, <2>1, RecordActivated
    <2> HIDE DEF new
    <2>3. journal[Len(journal)] = ApplyEvent(old.candidate)
      BY <1>1, <1>2, <2>1 DEF MatchesCandidate, Latest
    <2>4. Grounded(new)
      BY <1>1, <1>2, <1>3, <2>1, <2>2, <2>3
         DEF Grounded, ValidPhaseFields, MatchesCandidate
    <2>5. Consistent(new)
      BY Zenon, <2>1, <2>2 DEF Consistent, MatchesActivation, MatchesCandidate
    <2> QED
      BY Zenon, <2>2, <2>4, <2>5 DEF new
  <1>4. CASE old.phase = "activated"
    <2>1. /\ MatchesRollback(old)
          /\ new = RolledBackAt(old, Len(journal))
      BY Zenon, <1>4 DEF Behind, CaughtUp
    <2>2. /\ new \in Record
          /\ new.phase = "rolledback"
          /\ new.previous = old.previous
          /\ new.before = old.before
          /\ new.candidate = old.candidate
          /\ new.activated = old.activated
          /\ new.rollback = Len(journal)
      BY SMTT(60), <1>1, <2>1, RecordRolledBack
    <2> HIDE DEF new
    <2>3. journal[Len(journal)] = RollbackTarget(old)
      BY <1>1, <1>2, <2>1 DEF MatchesRollback, Latest
    <2>4. Grounded(new)
      BY SMTT(60), <1>1, <1>2, <1>4, <2>1, <2>2, <2>3
         DEF Grounded, ValidPhaseFields, MatchesRollback, RollbackTarget
    <2>5. Consistent(new)
      BY Zenon, <2>2 DEF Consistent
    <2> QED
      BY Zenon, <2>2, <2>4, <2>5 DEF new
  <1> QED
    BY Zenon, <1>3, <1>4 DEF Behind

(* recover_rollout_checkpoint keeps it: the record it derives describes    *)
(* the journal.                                                            *)
LEMMA RecoverCheckpointIInv ==
    ASSUME IInv, RecoverCheckpoint
    PROVE  IInv'
  <1>1. /\ backup = NoRecord
        /\ file # NoRecord
        /\ Behind(file)
        /\ BeginWrite(CaughtUp(file))
        /\ UNCHANGED <<journal, file, backup, archive, serial, execution>>
    BY Zenon DEF RecoverCheckpoint
  <1>2. PICK new : new = CaughtUp(file)
    BY Zenon
  <1>3. file \in Record /\ Grounded(file) /\ TypeOK
    BY Zenon, <1>1 DEF IInv, TypeOK, CheckpointInv, Checkpoint
  <1>4. new \in Record /\ Grounded(new) /\ Consistent(new)
    BY Zenon, <1>1, <1>2, <1>3, CaughtUpGrounds
  <1>5. archive' \in SUBSET Record /\ serial' \in Nat /\ execution' \in Nat
    BY Zenon, <1>1 DEF IInv, TypeOK
  <1> QED
    BY Zenon, <1>1, <1>2, <1>4, <1>5, BeginWriteIInv

(* begin_rollout_progress touches neither the journal nor the checkpoint.  *)
LEMMA BeginExecutionIInv ==
    ASSUME IInv, BeginExecution
    PROVE  IInv'
  <1>1. UNCHANGED <<journal, file, backup, archive, stage, writing, serial>>
    BY Zenon DEF BeginExecution
  <1>2. execution' \in Nat
    BY Zenon DEF BeginExecution, IInv, TypeOK, Record
  <1>3. TypeOK' /\ StageInv' /\ Checkpoint' = Checkpoint
    BY Zenon, <1>1, <1>2 DEF IInv, TypeOK, StageInv, Idle, Checkpoint
  <1>4. CheckpointInv'
    BY Zenon, <1>1, <1>3, GroundedStable DEF IInv, CheckpointInv
  <1>5. WritingInv'
    BY Zenon, <1>1, GroundedStable DEF IInv, WritingInv
  <1> QED
    BY Zenon, <1>3, <1>4, <1>5 DEF IInv

(* The steps that only move files.  Each changes the checkpoint to a record*)
(* already known to be grounded, or not at all.                            *)
LEMMA FileStepIInv ==
    ASSUME IInv,
           RecoverFile \/ ReplaceFile \/ InstallFile \/ RemoveBackup \/ Interrupt
    PROVE  IInv'
  <1>1. UNCHANGED <<journal, archive, serial, execution>>
    BY Zenon DEF RecoverFile, ReplaceFile, InstallFile, RemoveBackup, Interrupt
  <1>2. TypeOK'
    BY Zenon, <1>1 DEF RecoverFile, ReplaceFile, InstallFile, RemoveBackup, Interrupt,
                EndWrite, IInv, TypeOK, Stages
  <1>3. StageInv'
    BY Zenon, ConstantAssumption
       DEF RecoverFile, ReplaceFile, InstallFile, RemoveBackup, Interrupt,
           EndWrite, IInv, TypeOK, StageInv, Idle, Stages
  <1>4. /\ Checkpoint' \in {Checkpoint, writing}
        /\ writing' \in {writing, NoRecord}
    BY Zenon DEF RecoverFile, ReplaceFile, InstallFile, RemoveBackup, Interrupt,
           EndWrite, IInv, StageInv, Idle, Checkpoint
  <1>5. CheckpointInv'
    BY <1>1, <1>4, GroundedStable DEF IInv, CheckpointInv, WritingInv
  <1>6. WritingInv'
    BY Zenon, <1>1, <1>4, GroundedStable DEF IInv, WritingInv
  <1> QED
    BY Zenon, <1>2, <1>3, <1>5, <1>6 DEF IInv

(* Every step keeps the inductive invariant.                               *)
LEMMA NextIInv == IInv /\ [Next]_vars => IInv'
  <1> SUFFICES ASSUME IInv, [Next]_vars PROVE IInv'
    BY Zenon
  <1>1. CASE UNCHANGED vars
    <2>1. UNCHANGED <<journal, file, backup, archive, stage, writing, serial, execution>>
      BY Zenon, <1>1 DEF vars
    <2>2. TypeOK' /\ StageInv' /\ Checkpoint' = Checkpoint
      BY Zenon, <2>1 DEF IInv, TypeOK, StageInv, Idle, Checkpoint
    <2>3. CheckpointInv'
      BY Zenon, <2>1, <2>2, GroundedStable DEF IInv, CheckpointInv
    <2>4. WritingInv'
      BY Zenon, <2>1, GroundedStable DEF IInv, WritingInv
    <2> QED
      BY Zenon, <2>2, <2>3, <2>4 DEF IInv
  <1>2. CASE Next
    BY Zenon, <1>2, ApplyIInv, StopIInv, RemoveIInv, PrepareIInv, ActivateIInv,
       BeginExecutionIInv, CommitIInv, CancelPreparedIInv, RollbackIInv, RecoverCheckpointIInv,
       FileStepIInv DEF Next
  <1> QED
    BY Zenon, <1>1, <1>2

(* The strengthened invariant holds in every reachable state, crashes      *)
(* included.                                                               *)
THEOREM InvariantIInv == Spec => []IInv
  BY InitIInv, NextIInv, PTL DEF Spec

(* TypeOK is part of the invariant.                                        *)
THEOREM TypeCorrect == Spec => []TypeOK
  BY InvariantIInv, PTL DEF IInv

(* The progress file belongs to every record in play, none of which is a   *)
(* preparation any more.                                                   *)
ExecutedBy(record) ==
    record # NoRecord =>
        record.id = execution /\ record.phase \in {"activated", "committed", "rolledback"}

ExecutionInv ==
    execution # 0 =>
        /\ Checkpoint # NoRecord
        /\ ExecutedBy(file) /\ ExecutedBy(backup) /\ ExecutedBy(writing)

(* A mutation that writes a later phase of the record it read.             *)
LEMMA NextPhaseExecution ==
    ASSUME ExecutionInv, file # NoRecord, NEW new, BeginWrite(new),
           UNCHANGED <<file, backup, execution>>, new.id = file.id,
           execution # 0 => new.phase \in {"committed", "rolledback"}
    PROVE  ExecutionInv'
  BY Zenon DEF ExecutionInv, ExecutedBy, BeginWrite, Checkpoint

(* Every step keeps the progress file with its transaction: prepare_rollout*)
(* removes it before a new record appears.                                 *)
LEMMA NextExecution == IInv /\ ExecutionInv /\ [Next]_vars => ExecutionInv'
  <1> SUFFICES ASSUME IInv, ExecutionInv, [Next]_vars PROVE ExecutionInv'
    BY Zenon
  <1>0. /\ file \in Record \cup {NoRecord}
        /\ Len(journal) \in Nat
    BY DEF IInv, TypeOK
  <1>1. CASE UNCHANGED <<file, backup, writing, execution>>
    BY Zenon, <1>1 DEF ExecutionInv, ExecutedBy, Checkpoint
  <1>2. ASSUME NEW plan \in Plan, Prepare(plan) PROVE ExecutionInv'
    BY Zenon, <1>2 DEF Prepare, NoActiveRollout, Recovered, ExecutionInv, Checkpoint
  <1>3. CASE Activate \/ CancelPrepared
    <2>1. execution = 0 /\ execution' = 0
      BY Zenon, <1>3 DEF Activate, CancelPrepared, ExecutionInv, ExecutedBy
    <2> QED
      BY Zenon, <2>1 DEF ExecutionInv
  <1>4. ASSUME NEW health, Commit(health) PROVE ExecutionInv'
    <2>1. file # NoRecord /\ file \in Record
      BY Zenon, <1>0, <1>4 DEF Commit
    <2>2. /\ InPhase(file, "committed").id = file.id
          /\ InPhase(file, "committed").phase = "committed"
      BY Zenon, <2>1 DEF InPhase, Record
    <2> QED
      BY Zenon, <1>4, <2>1, <2>2, NextPhaseExecution DEF Commit
  <1>5. CASE Rollback
    <2>1. file # NoRecord /\ file \in Record
      BY Zenon, <1>0, <1>5 DEF Rollback
    <2>2. /\ RolledBackAt(file, Len(journal) + 1).id = file.id
          /\ RolledBackAt(file, Len(journal) + 1).phase = "rolledback"
      BY Zenon, <2>1 DEF RolledBackAt, Record
    <2> QED
      BY Zenon, <1>5, <2>1, <2>2, NextPhaseExecution DEF Rollback
  <1>6. CASE RecoverCheckpoint
    <2>1. file # NoRecord /\ file \in Record
      BY Zenon, <1>0, <1>6 DEF RecoverCheckpoint
    <2>2. CaughtUp(file).id = file.id
      BY Zenon, <2>1 DEF CaughtUp, ActivatedAt, RolledBackAt, Record
    <2>3. execution # 0 => CaughtUp(file).phase = "rolledback"
      BY Zenon, <1>6, <2>1 DEF RecoverCheckpoint, Behind, ExecutionInv, ExecutedBy,
                               CaughtUp, RolledBackAt, Record
    <2> QED
      BY Zenon, <1>6, <2>1, <2>2, <2>3, NextPhaseExecution DEF RecoverCheckpoint
  <1>7. CASE RecoverFile \/ ReplaceFile \/ InstallFile \/ RemoveBackup \/ Interrupt
    BY Zenon, <1>7 DEF RecoverFile, ReplaceFile, InstallFile, RemoveBackup, Interrupt,
          EndWrite, Idle, IInv, StageInv, ExecutionInv, ExecutedBy, Checkpoint
  <1>8. CASE BeginExecution
    BY Zenon, <1>8 DEF BeginExecution, Recovered, Idle, IInv, StageInv, ExecutionInv,
          ExecutedBy, Checkpoint
  <1>9. ASSUME NEW event, DirectMutation(event) PROVE ExecutionInv'
    BY Zenon, <1>1, <1>9 DEF DirectMutation
  <1> QED
    BY Zenon, <1>1, <1>2, <1>3, <1>4, <1>5, <1>6, <1>7, <1>8, <1>9
       DEF Next, Apply, Stop, Remove, vars

(* Neither rollout() nor rollout_progress() ever fails closed on what a    *)
(* crash of the engine left behind, at whatever file operation it happened.*)
THEOREM CrashesReadable == Spec => []CheckpointReadable
  <1>1. IInv /\ Checkpoint # NoRecord => Behind(Checkpoint) \/ Consistent(Checkpoint)
    <2> SUFFICES ASSUME IInv, Checkpoint # NoRecord
                 PROVE  Behind(Checkpoint) \/ Consistent(Checkpoint)
      BY Zenon
    <2>1. /\ Checkpoint \in Record
          /\ Grounded(Checkpoint)
          /\ journal \in Seq(Event)
      BY Zenon DEF IInv, TypeOK, CheckpointInv, Checkpoint
    <2>2. CASE Checkpoint.phase = "prepared"
      BY Zenon, <2>1, <2>2, LatestType
         DEF Grounded, Behind, Consistent, MatchesPrevious
    <2>3. CASE Checkpoint.phase = "activated"
      BY <2>1, <2>3
         DEF Grounded, ValidPhaseFields, Behind, Consistent, MatchesActivation,
             MatchesCandidate, Latest, Record
    <2>4. CASE ~Active(Checkpoint)
      BY Zenon, <2>4 DEF Consistent, Active
    <2> QED
      BY Zenon, <2>2, <2>3, <2>4 DEF Active
  <1>2. IInv /\ ExecutionInv /\ execution # 0 => Checkpoint # NoRecord /\ Executes(Checkpoint)
    <2> SUFFICES ASSUME IInv, ExecutionInv, execution # 0
                 PROVE  Checkpoint # NoRecord /\ Executes(Checkpoint)
      BY Zenon
    <2>1. /\ Checkpoint # NoRecord
          /\ Checkpoint.id = execution
          /\ Checkpoint.phase \in {"activated", "committed", "rolledback"}
      BY Zenon DEF ExecutionInv, ExecutedBy, Checkpoint
    <2>2. Checkpoint \in Record /\ Grounded(Checkpoint)
      BY Zenon, <2>1 DEF IInv, TypeOK, CheckpointInv, Checkpoint
    <2>3. Checkpoint.previous \in Nat
      BY Zenon, <2>2 DEF Record
    <2>4. Checkpoint.activated = Checkpoint.previous + 1
      BY Zenon, <2>1, <2>2 DEF Grounded, ValidPhaseFields
    <2>5. Checkpoint.activated # 0
      BY <2>3, <2>4
    <2> QED
      BY Zenon, <2>1, <2>5 DEF Executes
  <1>3. Init => ExecutionInv
    BY Zenon DEF Init, ExecutionInv
  <1>4. IInv /\ ExecutionInv => CheckpointReadable
    BY Zenon, <1>1, <1>2 DEF CheckpointReadable
  <1> QED
    BY <1>3, <1>4, InitIInv, NextIInv, NextExecution, PTL DEF Spec

(* No mutation is refused by refresh() or by write_replace_atomic once it  *)
(* has changed the journal.                                                *)
THEOREM WritesNotRefused == Spec => [](WrittenRecordsValid /\ ReplacementUnblocked)
  <1>1. IInv => WrittenRecordsValid /\ ReplacementUnblocked
    BY Zenon DEF IInv, WritingInv, Grounded, StageInv, WrittenRecordsValid,
           ReplacementUnblocked
  <1> QED
    BY <1>1, InvariantIInv, PTL

(* write_replace_atomic never meets the backup of an earlier replacement.  *)
THEOREM ReplacementsUnblocked == Spec => []ReplacementUnblocked
  BY WritesNotRefused, PTL

(* A rolled back transaction has restored the desired state it found.      *)
THEOREM RollbackIsExact == Spec => []RollbackRestores
  <1>1. IInv => RollbackRestores
    <2> SUFFICES ASSUME IInv, Checkpoint # NoRecord, Checkpoint.phase = "rolledback"
                 PROVE  journal[Checkpoint.rollback] =
                          IF \/ Checkpoint.previous = 0
                             \/ journal[Checkpoint.previous].kind = "remove"
                          THEN [kind |-> "remove", plan |-> NoPlan]
                          ELSE journal[Checkpoint.previous]
      BY Zenon DEF RollbackRestores
    <2>1. /\ Checkpoint \in Record
          /\ Grounded(Checkpoint)
          /\ journal \in Seq(Event)
          /\ Checkpoint.previous \in Nat
      BY Zenon DEF IInv, TypeOK, CheckpointInv, Checkpoint, Record
    <2>2. journal[Checkpoint.rollback] = RollbackTarget(Checkpoint)
      BY Zenon, <2>1 DEF Grounded
    <2>3. CASE Checkpoint.previous = 0
      BY SMTT(60), <2>1, <2>2, <2>3 DEF Grounded, EventAt, NoEvent, RollbackTarget
    <2>4. CASE Checkpoint.previous # 0
      <3>1. Checkpoint.before = journal[Checkpoint.previous]
        BY Zenon, <2>1, <2>4 DEF Grounded, EventAt
      <3>2. journal[Checkpoint.previous] \in Event
        BY <2>1, <2>4 DEF Grounded
      <3>3. journal[Checkpoint.previous].kind # "none"
        BY Zenon, <3>2 DEF Event
      <3> QED
        BY Zenon, <2>2, <2>4, <3>1, <3>3 DEF RollbackTarget
    <2> QED
      BY Zenon, <2>3, <2>4
  <1> QED
    BY <1>1, InvariantIInv, PTL

(* While a transaction is active only its own events enter the journal.    *)
THEOREM MutationsFenced == Spec => JournalFenced
  <1> DEFINE Fenced ==
        journal' # journal =>
          \E event \in Event :
             /\ journal' = Append(journal, event)
             /\ Checkpoint # NoRecord /\ Active(Checkpoint) =>
                   /\ ~Behind(Checkpoint)
                   /\ event = IF Checkpoint.phase = "prepared"
                              THEN ApplyEvent(Checkpoint.candidate)
                              ELSE RollbackTarget(Checkpoint)
  <1>1. IInv /\ [Next]_vars => Fenced
    <2> SUFFICES ASSUME IInv, Next, journal' # journal PROVE Fenced
      BY Zenon DEF vars
    <2>1. CASE \E event \in Event : DirectMutation(event)
      BY Zenon, <2>1 DEF DirectMutation, AppendEvent, NoActiveRollout, Recovered, Checkpoint
    <2>2. CASE Activate
      <3>1. Checkpoint = file /\ file \in Record /\ ~Behind(file)
        BY Zenon, <2>2, RecoveredFacts DEF Activate, Recovered, Checkpoint
      <3>2. ApplyEvent(file.candidate) \in Event
        BY Zenon, <3>1 DEF ApplyEvent, Event, Record
      <3> QED
        BY Zenon, <2>2, <3>1, <3>2 DEF Activate, AppendEvent
    <2>3. CASE Rollback
      <3>1. Checkpoint = file /\ file \in Record /\ ~Behind(file)
        BY Zenon, <2>3, RecoveredFacts DEF Rollback, Recovered, Checkpoint
      <3>2. RollbackTarget(file) \in Event
        BY Zenon, <3>1, RollbackTargetType
      <3> QED
        BY Zenon, <2>3, <3>1, <3>2 DEF Rollback, AppendEvent, Active
    <2>4. CASE \E plan \in Plan : Apply(plan)
      BY Zenon, <2>1, <2>4 DEF Apply, ApplyEvent, Event
    <2>5. CASE Stop
      <3>1. Latest \in Event
        BY <2>5, LatestType DEF IInv, TypeOK, Stop, NoEvent
      <3>2. [kind |-> "stop", plan |-> Stopped(Latest.plan)] \in Event
        BY Zenon, <2>5, <3>1 DEF Stop, Stopped, Event, Plan
      <3> QED
        BY Zenon, <2>1, <2>5, <3>2 DEF Stop
    <2>6. CASE Remove
      BY Zenon, <2>1, <2>6 DEF Remove, Event
    <2>7. CASE ~(\/ \E plan \in Plan : Apply(plan)
                 \/ Stop \/ Remove \/ Activate \/ Rollback)
      BY Zenon, <2>7 DEF Next, Prepare, Commit, CancelPrepared, RecoverFile,
                  RecoverCheckpoint, ReplaceFile, InstallFile, RemoveBackup,
                  Interrupt, BeginExecution
    <2> QED
      BY Zenon, <2>2, <2>3, <2>4, <2>5, <2>6, <2>7
  <1> QED
    BY <1>1, InvariantIInv, PTL DEF Spec, JournalFenced

-----------------------------------------------------------------------------
(* How the record being written follows the checkpoint it will replace.    *)

SameTransaction(old, new) ==
    /\ new.id = old.id
    /\ new.previous = old.previous
    /\ new.before = old.before
    /\ new.candidate = old.candidate

(* Where the phase is in the journal, the checkpoint is already behind it. *)
Handover(old, new) ==
    \/ /\ SameTransaction(old, new)
       /\ <<old.phase, new.phase>> \in PhaseSteps
       /\ Active(old) => (Behind(old) <=> new.phase \in {"activated", "rolledback"})
    \/ /\ new.id > old.id
       /\ ~Active(old)
       /\ new.phase = "prepared"

HandoverInv ==
    /\ Checkpoint # NoRecord => Checkpoint.id <= serial
    /\ stage \in {"replace", "install"} =>
          /\ writing.id <= serial
          /\ IF Checkpoint = NoRecord
             THEN writing.phase = "prepared"
             ELSE Handover(Checkpoint, writing)

(* Steps that leave the journal alone leave records as far behind it.      *)
LEMMA BehindStable ==
    ASSUME journal' = journal, NEW record
    PROVE  Behind(record)' = Behind(record)
  BY Zenon DEF Behind, MatchesCandidate, MatchesRollback, RollbackTarget, Latest

(* A handover stays one while the journal stands still.                    *)
LEMMA HandoverStable ==
    ASSUME journal' = journal, NEW old, NEW new
    PROVE  Handover(old, new)' = Handover(old, new)
  BY Zenon, BehindStable DEF Handover, SameTransaction, Active

(* The records of one transaction, each written over the one before.       *)
LEMMA HandoverActivated ==
    ASSUME NEW old \in Record, old.phase = "prepared", Behind(old),
           NEW n \in Nat
    PROVE  Handover(old, ActivatedAt(old, n)) /\ ActivatedAt(old, n).id = old.id
  BY Zenon, RecordActivated DEF Handover, SameTransaction, PhaseSteps

(* The record of a rollback takes over from the one it rolls back.         *)
LEMMA HandoverRolledBack ==
    ASSUME NEW old \in Record, old.phase \in {"activated", "committed"},
           old.phase = "activated" => Behind(old), NEW n \in Nat
    PROVE  Handover(old, RolledBackAt(old, n)) /\ RolledBackAt(old, n).id = old.id
  BY RecordRolledBack DEF Handover, SameTransaction, PhaseSteps, Active

(* A committed or cancelled record takes over from the one it closes.      *)
LEMMA HandoverClosed ==
    ASSUME NEW old \in Record, ~Behind(old), NEW phase,
           \/ old.phase = "prepared" /\ phase = "cancelled"
           \/ old.phase = "activated" /\ phase = "committed"
    PROVE  Handover(old, InPhase(old, phase)) /\ InPhase(old, phase).id = old.id
  <1>1. phase \in Phases
    BY Zenon DEF Phases
  <1> QED
    BY Zenon, <1>1, RecordClosed DEF Handover, SameTransaction, PhaseSteps, Active

(* Activation and rollback leave the record they replace behind.           *)
LEMMA AppendLeavesBehind ==
    ASSUME TypeOK, NEW old \in Record, Grounded(old),
           \/ /\ old.phase = "prepared"
              /\ Consistent(old)
              /\ journal' = Append(journal, ApplyEvent(old.candidate))
           \/ /\ old.phase = "activated"
              /\ MatchesActivation(old)
              /\ journal' = Append(journal, RollbackTarget(old))
    PROVE  Behind(old)'
  <1>1. CASE old.phase = "prepared"
    <2>1. ApplyEvent(old.candidate) \in Event
      BY Zenon DEF ApplyEvent, Event, Record
    <2>2. /\ Len(journal') = Len(journal) + 1
          /\ Latest' = ApplyEvent(old.candidate)
      BY Zenon, <1>1, <2>1, AppendFacts DEF TypeOK
    <2> QED
      BY Zenon, <1>1, <2>2 DEF Behind, MatchesCandidate, Consistent, MatchesPrevious
  <1>2. CASE old.phase = "activated"
    <2>1. RollbackTarget(old) \in Event
      BY Zenon, RollbackTargetType
    <2>2. /\ Len(journal') = Len(journal) + 1
          /\ Latest' = RollbackTarget(old)
      BY Zenon, <1>2, <2>1, AppendFacts DEF TypeOK
    <2> QED
      BY Zenon, <1>2, <2>2 DEF Behind, MatchesRollback, MatchesActivation, RollbackTarget
  <1> QED
    BY Zenon, <1>1, <1>2

(* A step that begins a replacement establishes the handover.              *)
LEMMA BeginHandover ==
    ASSUME IInv, HandoverInv, backup = NoRecord, file # NoRecord,
           NEW old, old = file, NEW new,
           BeginWrite(new), UNCHANGED <<file, backup>>,
           new.id <= serial', serial' \in Nat, serial <= serial', Handover(old, new)'
    PROVE  HandoverInv'
  <1>1. Checkpoint = file /\ Checkpoint' = file
    BY Zenon DEF Checkpoint
  <1>2. file.id <= serial /\ file.id \in Nat /\ serial \in Nat
    BY Zenon, <1>1 DEF HandoverInv, IInv, TypeOK, Record
  <1> QED
    BY <1>1, <1>2 DEF HandoverInv, BeginWrite

(* No write is in progress at first.                                       *)
LEMMA InitHandover == Init => HandoverInv
  BY Zenon DEF Init, HandoverInv, Checkpoint

(* Every step keeps the relation between the checkpoint and the record     *)
(* being written.                                                          *)
LEMMA NextHandover == IInv /\ HandoverInv /\ [Next]_vars => HandoverInv'
  <1> SUFFICES ASSUME IInv, HandoverInv, [Next]_vars PROVE HandoverInv'
    BY Zenon
  <1>0. serial \in Nat /\ TypeOK /\ Len(journal) \in Nat
    BY DEF IInv, TypeOK
  <1>1. CASE UNCHANGED vars
    BY Zenon, <1>1, HandoverStable DEF vars, HandoverInv, Checkpoint
  <1>2. ASSUME NEW event, DirectMutation(event) PROVE HandoverInv'
    BY Zenon, <1>2 DEF DirectMutation, NoActiveRollout, Recovered, Idle, HandoverInv,
                Checkpoint
  <1>3. ASSUME NEW plan \in Plan, Prepare(plan) PROVE HandoverInv'
    <2>1. CASE UNCHANGED <<stage, writing, serial>>
      BY Zenon, <1>3, <2>1 DEF Prepare, NoActiveRollout, Recovered, Idle, HandoverInv,
                        Checkpoint
    <2>2. CASE BeginWrite(NewRecord(plan)) /\ serial' = serial + 1
      <3>1. PICK new : new = NewRecord(plan)
        BY Zenon
      <3>2. new.id = serial' /\ new.phase = "prepared"
        BY Zenon, <2>2, <3>1 DEF NewRecord
      <3>3. CASE file = NoRecord
        BY <1>0, <1>3, <2>2, <3>1, <3>2, <3>3, SMTT(30)
           DEF Prepare, NoActiveRollout, Recovered, HandoverInv, Checkpoint,
               BeginWrite
      <3>4. CASE file # NoRecord
        <4>1. PICK old : old = file
          BY Zenon
        <4>2. old.id <= serial /\ old.id \in Nat /\ ~Active(old)
          BY Zenon, <1>3, <3>4, <4>1 DEF Prepare, NoActiveRollout, HandoverInv,
                                  Checkpoint, IInv, TypeOK, Record
        <4>3. Handover(old, new)'
          BY <1>0, <2>2, <3>2, <4>2, SMTT(30) DEF Handover, Active
        <4>4. backup = NoRecord /\ UNCHANGED <<file, backup>>
          BY Zenon, <1>3 DEF Prepare, NoActiveRollout, Recovered
        <4>5. new.id <= serial' /\ serial' \in Nat /\ serial <= serial'
          BY <1>0, <2>2, <3>2
        <4>6. BeginWrite(new)
          BY Zenon, <2>2, <3>1
        <4> QED
          BY Zenon, <3>4, <4>1, <4>3, <4>4, <4>5, <4>6, BeginHandover
      <3> QED
        BY Zenon, <3>3, <3>4
    <2> QED
      BY Zenon, <1>3, <2>1, <2>2 DEF Prepare
  <1>4. CASE Activate
    <2>1. PICK old : old = file
      BY Zenon
    <2>2. PICK new : new = ActivatedAt(old, Len(journal) + 1)
      BY Zenon
    <2>3. old \in Record /\ Grounded(old) /\ Consistent(old)
      BY Zenon, <1>4, <2>1, RecoveredFacts DEF Activate
    <2>4. Behind(old)'
      BY Zenon, <1>0, <1>4, <2>1, <2>3, AppendLeavesBehind DEF Activate, AppendEvent
    <2>5. Len(journal) + 1 \in Nat
      BY <1>0
    <2>6. /\ new.id = old.id
          /\ new.phase = "activated"
          /\ new.previous = old.previous
          /\ new.before = old.before
          /\ new.candidate = old.candidate
      BY Zenon, <2>2, <2>3, <2>5, RecordActivated
    <2>7. Handover(old, new)'
      BY Zenon, <1>4, <2>1, <2>4, <2>6
         DEF Activate, Handover, SameTransaction, PhaseSteps
    <2>8. old.id <= serial
      BY Zenon, <1>4, <2>1 DEF Activate, HandoverInv, Checkpoint
    <2> QED
      BY <1>0, <1>4, <2>1, <2>2, <2>6, <2>7, <2>8, BeginHandover, SMTT(30)
         DEF Activate, Recovered
  <1>5. CASE Rollback
    <2>1. PICK old : old = file
      BY Zenon
    <2>2. PICK new : new = RolledBackAt(old, Len(journal) + 1)
      BY Zenon
    <2>3. old \in Record /\ Grounded(old)
      BY Zenon, <1>5, <2>1, RecoveredFacts DEF Rollback
    <2>4. old.phase = "activated" => Behind(old)'
      BY Zenon, <1>0, <1>5, <2>1, <2>3, AppendLeavesBehind DEF Rollback, AppendEvent
    <2>5. Len(journal) + 1 \in Nat
      BY <1>0
    <2>6. /\ new.id = old.id
          /\ new.phase = "rolledback"
          /\ new.previous = old.previous
          /\ new.before = old.before
          /\ new.candidate = old.candidate
      BY Zenon, <2>2, <2>3, <2>5, RecordRolledBack
    <2>7. Handover(old, new)'
      BY Zenon, <1>5, <2>1, <2>4, <2>6
         DEF Rollback, Handover, SameTransaction, PhaseSteps, Active
    <2>8. old.id <= serial
      BY Zenon, <1>5, <2>1 DEF Rollback, HandoverInv, Checkpoint
    <2> QED
      BY <1>0, <1>5, <2>1, <2>2, <2>6, <2>7, <2>8, BeginHandover, SMTT(30)
         DEF Rollback, Recovered
  <1>6. ASSUME NEW phase,
               \/ file.phase = "prepared" /\ phase = "cancelled"
               \/ file.phase = "activated" /\ phase = "committed",
               Recovered, file # NoRecord, BeginWrite(InPhase(file, phase)),
               UNCHANGED <<journal, file, backup, archive, serial>>
        PROVE  HandoverInv'
    <2>1. PICK old : old = file
      BY Zenon
    <2>2. PICK new : new = InPhase(old, phase)
      BY Zenon
    <2>3. old \in Record /\ ~Behind(old)
      BY Zenon, <1>6, <2>1, RecoveredFacts DEF Recovered
    <2>4. Handover(old, new) /\ new.id = old.id
      BY Zenon, <1>6, <2>1, <2>2, <2>3, HandoverClosed
    <2>5. Handover(old, new)'
      BY Zenon, <1>6, <2>4, HandoverStable
    <2>6. old.id <= serial
      BY Zenon, <1>6, <2>1 DEF HandoverInv, Checkpoint
    <2> QED
      BY <1>0, <1>6, <2>1, <2>2, <2>4, <2>5, <2>6, BeginHandover, SMTT(30) DEF Recovered
  <1>7. CASE RecoverCheckpoint
    <2>1. PICK old : old = file
      BY Zenon
    <2>2. PICK new : new = CaughtUp(old)
      BY Zenon
    <2>3. old \in Record /\ Behind(old)
      BY Zenon, <1>7, <2>1 DEF RecoverCheckpoint, IInv, TypeOK
    <2>4. Handover(old, new) /\ new.id = old.id
      BY Zenon, <1>0, <2>2, <2>3, HandoverActivated, HandoverRolledBack
         DEF CaughtUp, Behind
    <2>5. Handover(old, new)'
      BY Zenon, <1>7, <2>4, HandoverStable DEF RecoverCheckpoint
    <2>6. old.id <= serial
      BY Zenon, <1>7, <2>1 DEF RecoverCheckpoint, HandoverInv, Checkpoint
    <2> QED
      BY <1>0, <1>7, <2>1, <2>2, <2>4, <2>5, <2>6, BeginHandover, SMTT(30)
         DEF RecoverCheckpoint
  <1>8. CASE RecoverFile \/ RemoveBackup \/ Interrupt
    BY Zenon, <1>8 DEF RecoverFile, RemoveBackup, Interrupt, EndWrite, Idle, IInv,
                StageInv, HandoverInv, Checkpoint
  <1>9. CASE ReplaceFile \/ InstallFile
    BY Zenon, <1>9, HandoverStable
       DEF ReplaceFile, InstallFile, EndWrite, IInv, StageInv, HandoverInv, Checkpoint
  <1>10. CASE BeginExecution
    BY Zenon, <1>10, HandoverStable DEF BeginExecution, HandoverInv, Checkpoint
  <1> QED
    BY Zenon, <1>1, <1>2, <1>3, <1>4, <1>5, <1>6, <1>7, <1>8, <1>9, <1>10
       DEF Next, Apply, Stop, Remove, Commit, CancelPrepared

(* Both invariants hold throughout.                                        *)
LEMMA InvariantHandover == Spec => [](IInv /\ HandoverInv)
  <1>1. IInv /\ HandoverInv /\ [Next]_vars => (IInv /\ HandoverInv)'
    BY Zenon, NextIInv, NextHandover
  <1> QED
    BY <1>1, InitIInv, InitHandover, PTL DEF Spec

-----------------------------------------------------------------------------
(* The two ways a step can change what rollout() will read: the journal    *)
(* grows under the checkpoint, or the record being written takes its place.*)
LEMMA CheckpointStep ==
    ASSUME IInv, [Next]_vars
    PROVE  \/ Checkpoint' = Checkpoint
           \/ /\ stage \in {"replace", "install"}
              /\ Checkpoint' = writing
              /\ journal' = journal
  <1>1. CASE UNCHANGED vars
    BY Zenon, <1>1 DEF vars, Checkpoint
  <1>2. CASE ReplaceFile \/ InstallFile
    BY Zenon, <1>2 DEF ReplaceFile, InstallFile, EndWrite, IInv, StageInv, Checkpoint
  <1>3. CASE RecoverFile \/ RemoveBackup \/ Interrupt
    BY Zenon, <1>3, ConstantAssumption
       DEF RecoverFile, RemoveBackup, Interrupt, EndWrite, Idle, IInv, StageInv,
           Checkpoint
  <1>4. CASE ~(\/ ReplaceFile \/ InstallFile
               \/ RecoverFile \/ RemoveBackup \/ Interrupt)
    BY Zenon, <1>4 DEF Next, vars, Apply, Stop, Remove, DirectMutation, Prepare, Activate,
                Commit, CancelPrepared, Rollback, RecoverCheckpoint, BeginExecution, Checkpoint
  <1> QED
    BY Zenon, <1>1, <1>2, <1>3, <1>4

(* No crash takes the checkpoint back, and no transaction is abandoned     *)
(* while it is active.                                                     *)
THEOREM CheckpointNeverRegresses == Spec => CheckpointAdvances
  <1> DEFINE Advance ==
        Checkpoint' # Checkpoint /\ Checkpoint # NoRecord =>
          /\ Checkpoint' # NoRecord
          /\ \/ /\ Checkpoint'.id = Checkpoint.id
                /\ <<Checkpoint.phase, Checkpoint'.phase>> \in PhaseSteps
             \/ /\ Checkpoint'.id > Checkpoint.id
                /\ ~Active(Checkpoint)
                /\ Checkpoint'.phase = "prepared"
  <1>1. IInv /\ HandoverInv /\ [Next]_vars => Advance
    <2> SUFFICES ASSUME IInv, HandoverInv, [Next]_vars,
                        Checkpoint' # Checkpoint, Checkpoint # NoRecord
                 PROVE  Advance
      BY Zenon
    <2>1. stage \in {"replace", "install"} /\ Checkpoint' = writing
      BY Zenon, CheckpointStep
    <2>2. Handover(Checkpoint, writing)
      BY Zenon, <2>1 DEF HandoverInv
    <2>3. writing # NoRecord
      BY Zenon, <2>1 DEF IInv, StageInv, Idle
    <2> QED
      BY Zenon, <2>1, <2>2, <2>3 DEF Handover, SameTransaction
  <1> QED
    BY <1>1, InvariantHandover, PTL DEF Spec, CheckpointAdvances

-----------------------------------------------------------------------------
(* Refinement of AtomicRollout.                                            *)

(* A record at the newest event is not behind it.                          *)
LEMMA ConsistentNotBehind ==
    ASSUME TypeOK, NEW record \in Record, Consistent(record)
    PROVE  ~Behind(record)
  BY DEF TypeOK, Record, Consistent, Behind, MatchesPrevious, MatchesCandidate,
         MatchesActivation, MatchesRollback

(* What a client sees depends on the checkpoint and the journal only.      *)
LEMMA ViewStutters ==
    ASSUME journal' = journal, Checkpoint' = Checkpoint
    PROVE  UNCHANGED <<Latest, LogicalPhase, LogicalSaved, LogicalCandidate>>
  <1>1. Latest' = Latest
    BY Zenon DEF Latest
  <1>2. PICK record : record = Checkpoint
    BY Zenon
  <1>3. Behind(record)' = Behind(record)
    BY Zenon, BehindStable
  <1>4. LogicalPhase' = LogicalPhase
    BY Zenon, <1>2, <1>3 DEF LogicalPhase, Active
  <1> QED
    BY Zenon, <1>1, <1>4 DEF LogicalSaved, LogicalCandidate

(* The view of a state with no active transaction.                         *)
LEMMA OpenView ==
    ASSUME Checkpoint = NoRecord \/ ~Active(Checkpoint)
    PROVE  LogicalPhase = "open" /\ LogicalSaved = NoEvent /\ LogicalCandidate = NoPlan
  BY Zenon DEF LogicalPhase, LogicalSaved, LogicalCandidate

(* A direct mutation, and the rollback of a committed transaction.         *)
LEMMA OpenMutation ==
    ASSUME IInv, Checkpoint = NoRecord \/ ~Active(Checkpoint),
           Checkpoint' = Checkpoint, NEW event \in Event,
           journal' = Append(journal, event)
    PROVE  Atomic!AtomicMutate
  <1>1. Latest' = event
    BY Zenon, AppendFacts DEF IInv, TypeOK
  <1>2. Checkpoint' = NoRecord \/ ~Active(Checkpoint')
    BY Zenon
  <1>3. /\ LogicalPhase = "open" /\ LogicalPhase' = "open"
        /\ LogicalSaved' = LogicalSaved
        /\ LogicalCandidate' = LogicalCandidate
    BY Zenon, <1>2, OpenView DEF LogicalPhase, LogicalSaved, LogicalCandidate, Active
  <1> QED
    BY Zenon, <1>1, <1>3 DEF Atomic!AtomicMutate, Atomic!DesiredState, Event

(* Activation takes effect when its event enters the journal.              *)
LEMMA ActivationView ==
    ASSUME IInv, Activate
    PROVE  Atomic!AtomicActivate
  <1>1. PICK old : old = file
    BY Zenon
  <1>2. /\ TypeOK /\ old \in Record /\ Grounded(old) /\ Consistent(old)
        /\ old.phase = "prepared" /\ old # NoRecord /\ ~Behind(old)
    BY Zenon, <1>1, RecoveredFacts DEF Activate, Recovered
  <1>3. Checkpoint = old /\ Checkpoint' = old
    BY Zenon, <1>1, <1>2 DEF Activate, Checkpoint
  <1>4. journal' = Append(journal, ApplyEvent(old.candidate))
    BY Zenon, <1>1 DEF Activate, AppendEvent
  <1>5. Behind(old)'
    BY Zenon, <1>2, <1>4, AppendLeavesBehind
  <1>6. Latest' = ApplyEvent(old.candidate)
    <2>1. ApplyEvent(old.candidate) \in Event
      BY Zenon, <1>2 DEF ApplyEvent, Event, Record
    <2> QED
      BY Zenon, <1>2, <1>4, <2>1, AppendFacts DEF TypeOK
  <1>7. LogicalPhase = "prepared" /\ LogicalPhase' = "activated"
    BY Zenon, <1>2, <1>3, <1>5 DEF LogicalPhase, Active
  <1>8. /\ LogicalSaved' = LogicalSaved
        /\ LogicalCandidate = old.candidate /\ LogicalCandidate' = old.candidate
    BY Zenon, <1>3, <1>7 DEF LogicalSaved, LogicalCandidate
  <1> QED
    BY Zenon, <1>6, <1>7, <1>8 DEF Atomic!AtomicActivate, ApplyEvent

(* So does the rollback of an activated transaction.                       *)
LEMMA RollbackView ==
    ASSUME IInv, Rollback
    PROVE  Atomic!AtomicRollback \/ Atomic!AtomicMutate
  <1>1. PICK old : old = file
    BY Zenon
  <1>2. /\ TypeOK /\ old \in Record /\ Grounded(old) /\ ~Behind(old)
        /\ old.phase \in {"activated", "committed"} /\ old # NoRecord
        /\ MatchesActivation(old)
    BY Zenon, <1>1, RecoveredFacts DEF Rollback, Recovered
  <1>3. Checkpoint = old /\ Checkpoint' = old
    BY Zenon, <1>1, <1>2 DEF Rollback, Checkpoint
  <1>4. journal' = Append(journal, RollbackTarget(old))
    BY Zenon, <1>1 DEF Rollback, AppendEvent
  <1>5. RollbackTarget(old) \in Event
    BY Zenon, <1>2, RollbackTargetType
  <1>6. CASE old.phase = "committed"
    <2>1. ~Active(Checkpoint)
      BY Zenon, <1>3, <1>6 DEF Active
    <2> QED
      BY Zenon, <1>3, <1>4, <1>5, <2>1, OpenMutation
  <1>7. CASE old.phase = "activated"
    <2>1. Behind(old)'
      BY Zenon, <1>2, <1>4, <1>7, AppendLeavesBehind
    <2>2. Latest' = RollbackTarget(old)
      BY Zenon, <1>2, <1>4, <1>5, AppendFacts DEF TypeOK
    <2>3. LogicalPhase = "activated" /\ LogicalPhase' = "open"
      BY Zenon, <1>2, <1>3, <1>7, <2>1 DEF LogicalPhase, Active
    <2>4. /\ LogicalSaved = old.before
          /\ LogicalSaved' = NoEvent /\ LogicalCandidate' = NoPlan
      BY Zenon, <1>3, <2>3 DEF LogicalSaved, LogicalCandidate
    <2>5. RollbackTarget(old) = Atomic!Restored(LogicalSaved)
      BY Zenon, <2>4 DEF RollbackTarget, Atomic!Restored
    <2> QED
      BY Zenon, <2>2, <2>3, <2>4, <2>5
         DEF Atomic!AtomicRollback, Atomic!Closed, Atomic!NeverApplied, NoEvent
  <1> QED
    BY Zenon, <1>2, <1>6, <1>7

(* The record being written takes the place of the checkpoint.             *)
LEMMA InstallView ==
    ASSUME IInv, HandoverInv, stage \in {"replace", "install"},
           Checkpoint' = writing, journal' = journal
    PROVE  \/ Atomic!AtomicPrepare \/ Atomic!AtomicCancel \/ Atomic!AtomicCommit
           \/ UNCHANGED <<Latest, LogicalPhase, LogicalSaved, LogicalCandidate>>
  <1>1. PICK old : old = Checkpoint
    BY Zenon
  <1>2. PICK new : new = writing
    BY Zenon
  <1>3. /\ TypeOK /\ new \in Record /\ new # NoRecord /\ Consistent(new)
        /\ old \in Record \cup {NoRecord}
        /\ IF old = NoRecord THEN new.phase = "prepared" ELSE Handover(old, new)
    BY Zenon, <1>1, <1>2 DEF IInv, TypeOK, StageInv, Idle, WritingInv, HandoverInv,
                      Checkpoint
  <1>4. Latest' = Latest /\ Checkpoint' = new
    BY Zenon, <1>2 DEF Latest
  <1>5. ~Behind(new) /\ ~Behind(new)'
    BY Zenon, <1>3, ConsistentNotBehind, BehindStable
  <1>6. Behind(old)' = Behind(old)
    BY Zenon, BehindStable
  <1>7. CASE new.phase = "prepared" /\ (old = NoRecord \/ ~Active(old))
    <2>1. /\ LogicalPhase = "open"
          /\ LogicalPhase' = "prepared"
      BY Zenon, <1>1, <1>3, <1>4, <1>5, <1>7 DEF LogicalPhase, Active
    <2>2. LogicalSaved' = new.before /\ LogicalCandidate' = new.candidate
      BY Zenon, <1>4, <2>1 DEF LogicalSaved, LogicalCandidate
    <2>3. new.before = Latest /\ new.candidate \in Plan
      BY Zenon, <1>3, <1>7 DEF Consistent, MatchesPrevious, Record
    <2> QED
      BY Zenon, <1>4, <2>1, <2>2, <2>3 DEF Atomic!AtomicPrepare
  <1>8. CASE old # NoRecord /\ SameTransaction(old, new)
             /\ <<old.phase, new.phase>> \in PhaseSteps
             /\ (Active(old) => (Behind(old) <=> new.phase \in {"activated", "rolledback"}))
    <2>1. CASE old.phase = "prepared" /\ new.phase = "activated"
      <3>1. LogicalPhase = "activated" /\ LogicalPhase' = "activated"
        BY Zenon, <1>1, <1>3, <1>4, <1>5, <1>8, <2>1 DEF LogicalPhase, Active
      <3> QED
        BY Zenon, <1>1, <1>4, <1>8, <3>1
           DEF LogicalSaved, LogicalCandidate, SameTransaction
    <2>2. CASE old.phase \in {"prepared", "activated"}
               /\ new.phase \in {"cancelled", "committed"}
      <3>1. /\ LogicalPhase = old.phase
            /\ LogicalPhase' = "open"
            /\ LogicalSaved' = NoEvent /\ LogicalCandidate' = NoPlan
        BY Zenon, <1>1, <1>3, <1>4, <1>8, <2>2
           DEF LogicalPhase, LogicalSaved, LogicalCandidate, Active
      <3> QED
        BY Zenon, <1>4, <2>2, <3>1 DEF Atomic!AtomicCancel, Atomic!AtomicCommit,
              Atomic!Closed, Atomic!NeverApplied, NoEvent
    <2>3. CASE old.phase \in {"activated", "committed"} /\ new.phase = "rolledback"
      <3>1. LogicalPhase = "open" /\ LogicalPhase' = "open"
        BY Zenon, <1>1, <1>3, <1>4, <1>8, <2>3 DEF LogicalPhase, Active
      <3> QED
        BY Zenon, <1>4, <3>1 DEF LogicalSaved, LogicalCandidate
    <2> QED
      BY Zenon, <1>8, <2>1, <2>2, <2>3 DEF PhaseSteps
  <1> QED
    BY Zenon, <1>3, <1>7, <1>8 DEF Handover

(* Every behaviour of the journal and its checkpoint, with whatever        *)
(* crashes, is one of the indivisible transaction.                         *)
THEOREM RefinesAtomicRollout == Spec => ImplementsAtomicRollout
  <1>1. Init => Atomic!AtomicInit
    BY Zenon DEF Init, Atomic!AtomicInit, Atomic!NeverApplied, Latest, LogicalPhase,
           LogicalSaved, LogicalCandidate, Checkpoint, NoEvent
  <1>2. IInv /\ HandoverInv /\ [Next]_vars =>
          [Atomic!AtomicNext]_(Atomic!atomicVars)
    <2> SUFFICES ASSUME IInv, HandoverInv, [Next]_vars
                 PROVE  \/ Atomic!AtomicNext
                        \/ UNCHANGED <<Latest, LogicalPhase, LogicalSaved,
                                       LogicalCandidate>>
      BY Zenon DEF Atomic!atomicVars
    <2>1. CASE Activate
      BY Zenon, <2>1, ActivationView DEF Atomic!AtomicNext
    <2>2. CASE Rollback
      BY Zenon, <2>2, RollbackView DEF Atomic!AtomicNext
    <2>3. ASSUME NEW event \in Event, DirectMutation(event)
          PROVE  Atomic!AtomicNext
      <3>1. /\ Checkpoint = NoRecord \/ ~Active(Checkpoint)
            /\ Checkpoint' = Checkpoint
            /\ journal' = Append(journal, event)
        BY Zenon, <2>3 DEF DirectMutation, NoActiveRollout, Recovered, AppendEvent,
                    Checkpoint
      <3> QED
        BY Zenon, <3>1, OpenMutation DEF Atomic!AtomicNext
    <2>4. CASE \E plan \in Plan : Apply(plan)
      BY Zenon, <2>3, <2>4 DEF Apply, ApplyEvent, Event
    <2>5. CASE Stop
      <3>1. Latest \in Event
        BY <2>5, LatestType DEF IInv, TypeOK, Stop, NoEvent
      <3>2. [kind |-> "stop", plan |-> Stopped(Latest.plan)] \in Event
        BY Zenon, <2>5, <3>1 DEF Stop, Stopped, Event, Plan
      <3> QED
        BY Zenon, <2>3, <2>5, <3>2 DEF Stop
    <2>6. CASE Remove
      BY Zenon, <2>3, <2>6 DEF Remove, Event
    <2>7. CASE journal' = journal
      BY Zenon, <2>7, CheckpointStep, ViewStutters, InstallView DEF Atomic!AtomicNext
    <2>8. \/ journal' = journal
          \/ Activate \/ Rollback \/ Stop \/ Remove
          \/ \E plan \in Plan : Apply(plan)
      BY Zenon DEF Next, vars, Prepare, Commit, CancelPrepared, RecoverFile,
             RecoverCheckpoint, ReplaceFile, InstallFile, RemoveBackup, Interrupt,
             BeginExecution
    <2> QED
      BY Zenon, <2>1, <2>2, <2>4, <2>5, <2>6, <2>7, <2>8
  <1> QED
    BY <1>1, <1>2, InvariantHandover, PTL
       DEF Spec, ImplementsAtomicRollout, Atomic!AtomicSpec

-----------------------------------------------------------------------------
(* The archive.                                                            *)

(* archive_rollout would accept the record beside the archived one, or it  *)
(* was rolled back after it was archived.                                  *)
Fits(archived, record) ==
    archived.id = record.id =>
        archived = record \/ (archived.phase = "committed" /\ record.phase = "rolledback")

ArchiveInv ==
    \A archived \in archive :
        /\ ~Active(archived) /\ archived.id <= serial
        /\ file # NoRecord => Fits(archived, file)
        /\ backup # NoRecord => Fits(archived, backup)
        /\ writing # NoRecord => Fits(archived, writing)

(* A record that fits still does one phase later: the archive has no       *)
(* active record, so only a rollback can part the two.                     *)
LEMMA FitsNextPhase ==
    ASSUME NEW archived, NEW old, NEW new, ~Active(archived), Fits(archived, old),
           new.id = old.id, <<old.phase, new.phase>> \in PhaseSteps
    PROVE  Fits(archived, new)
  BY Zenon DEF Fits, Active, PhaseSteps

(* A mutation that writes the next phase over the checkpoint.              *)
LEMMA NextPhaseArchive ==
    ASSUME IInv, ArchiveInv, file # NoRecord, NEW new, new.id = file.id,
           <<file.phase, new.phase>> \in PhaseSteps,
           BeginWrite(new), UNCHANGED <<file, backup, archive, serial>>
    PROVE  ArchiveInv'
  <1> SUFFICES ASSUME NEW archived \in archive
               PROVE  /\ ~Active(archived) /\ archived.id <= serial
                      /\ file # NoRecord => Fits(archived, file)
                      /\ backup # NoRecord => Fits(archived, backup)
                      /\ Fits(archived, new)
    BY Zenon DEF ArchiveInv, BeginWrite, Active, Fits
  <1> QED
    BY Zenon, FitsNextPhase DEF ArchiveInv

LEMMA NextArchive == IInv /\ HandoverInv /\ ArchiveInv /\ [Next]_vars => ArchiveInv'
  <1> SUFFICES ASSUME IInv, HandoverInv, ArchiveInv, [Next]_vars PROVE ArchiveInv'
    BY Zenon
  <1>0. serial \in Nat /\ Len(journal) \in Nat
    BY DEF IInv, TypeOK
  <1>1. CASE UNCHANGED <<file, backup, archive, writing, serial>>
    BY Zenon, <1>1 DEF ArchiveInv, Fits, Active
  <1>2. ASSUME NEW plan \in Plan, Prepare(plan) PROVE ArchiveInv'
    <2>0. UNCHANGED <<file, backup>> /\ backup = NoRecord /\ Idle /\ writing = NoRecord
      BY Zenon, <1>2 DEF Prepare, NoActiveRollout, Recovered, IInv, StageInv
    <2>1. /\ \A archived \in archive' : archived \in archive \/ (archived = file /\ file # NoRecord)
          /\ file # NoRecord => ~Active(file)
      BY Zenon, <1>2 DEF Prepare, NoActiveRollout
    <2>2. /\ serial' \in Nat /\ serial <= serial'
          /\ writing' # NoRecord => writing'.id > serial
      <3>1. NewRecord(plan).id = serial + 1
        BY Zenon DEF NewRecord
      <3> QED
        BY SMTT(60), <1>0, <1>2, <2>0, <3>1 DEF Prepare, BeginWrite
    <2>3. file # NoRecord => file.id <= serial /\ file.id \in Nat
      BY Zenon DEF HandoverInv, Checkpoint, IInv, TypeOK, Record
    <2>4. \A archived \in archive : archived.id \in Nat
      BY Zenon DEF IInv, TypeOK, Record
    <2>5. ASSUME NEW archived \in archive'
          PROVE  /\ ~Active(archived) /\ archived.id <= serial /\ archived.id \in Nat
                 /\ file # NoRecord => Fits(archived, file)
      BY Zenon, <2>1, <2>3, <2>4 DEF ArchiveInv, Fits
    <2>6. ASSUME NEW archived \in archive', writing' # NoRecord
          PROVE  archived.id # writing'.id
      BY SMTT(60), <1>0, <2>2, <2>5, <2>6
    <2> QED
      BY SMTT(60), <1>0, <2>0, <2>2, <2>5, <2>6 DEF ArchiveInv, Fits, Active
  <1>3. CASE Activate
    <2>1. file \in Record /\ file # NoRecord /\ file.phase = "prepared"
      BY Zenon, <1>3 DEF Activate, IInv, TypeOK
    <2>2. ActivatedAt(file, Len(journal) + 1).id = file.id
          /\ ActivatedAt(file, Len(journal) + 1).phase = "activated"
      BY Zenon, <2>1 DEF ActivatedAt, Record
    <2> QED
      BY Zenon, <1>3, <2>1, <2>2, NextPhaseArchive DEF Activate, PhaseSteps
  <1>4. ASSUME NEW phase \in {"committed", "cancelled"}, file # NoRecord,
               BeginWrite(InPhase(file, phase)), UNCHANGED <<file, backup, archive, serial>>,
               <<file.phase, phase>> \in PhaseSteps
        PROVE  ArchiveInv'
    <2>1. InPhase(file, phase).id = file.id /\ InPhase(file, phase).phase = phase
      BY Zenon, <1>4 DEF InPhase, IInv, TypeOK, Record
    <2> QED
      BY Zenon, <1>4, <2>1, NextPhaseArchive
  <1>5. CASE Rollback
    <2>1. file \in Record /\ file # NoRecord /\ file.phase \in {"activated", "committed"}
      BY Zenon, <1>5 DEF Rollback, IInv, TypeOK
    <2>2. RolledBackAt(file, Len(journal) + 1).id = file.id
          /\ RolledBackAt(file, Len(journal) + 1).phase = "rolledback"
      BY Zenon, <2>1 DEF RolledBackAt, Record
    <2> QED
      BY Zenon, <1>5, <2>1, <2>2, NextPhaseArchive DEF Rollback, PhaseSteps
  <1>6. CASE RecoverCheckpoint
    <2>1. file \in Record /\ file # NoRecord /\ file.phase \in {"prepared", "activated"}
      BY Zenon, <1>6 DEF RecoverCheckpoint, IInv, TypeOK, Behind
    <2>2. CaughtUp(file).id = file.id /\ <<file.phase, CaughtUp(file).phase>> \in PhaseSteps
      BY Zenon, <2>1 DEF CaughtUp, ActivatedAt, RolledBackAt, Record, PhaseSteps
    <2> QED
      BY Zenon, <1>6, <2>1, <2>2, NextPhaseArchive DEF RecoverCheckpoint
  <1>7. CASE RecoverFile \/ ReplaceFile \/ InstallFile \/ RemoveBackup \/ Interrupt
    BY <1>7 DEF RecoverFile, ReplaceFile, InstallFile, RemoveBackup, Interrupt, EndWrite,
                ArchiveInv, Fits, Active, IInv, StageInv, Idle
  <1>8. ASSUME NEW event, DirectMutation(event) PROVE ArchiveInv'
    BY Zenon, <1>1, <1>8 DEF DirectMutation
  <1>9. ASSUME NEW health, Commit(health) PROVE ArchiveInv'
    BY Zenon, <1>4, <1>9 DEF Commit, PhaseSteps
  <1>10. CASE CancelPrepared
    BY Zenon, <1>4, <1>10 DEF CancelPrepared, PhaseSteps
  <1>11. CASE BeginExecution
    BY Zenon, <1>1, <1>11 DEF BeginExecution
  <1> QED
    BY Zenon, <1>1, <1>2, <1>3, <1>5, <1>6, <1>7, <1>8, <1>9, <1>10, <1>11
       DEF Next, Apply, Stop, Remove, vars

(* archive_rollout: a terminal checkpoint is refused for a collision only  *)
(* when an interrupted preparation archived it as committed and it was     *)
(* rolled back afterwards.                                                 *)
THEOREM CollisionsAreRollbacks == Spec => []CollidesByRollbackOnly
  <1>1. Init => ArchiveInv
    BY Zenon DEF Init, ArchiveInv
  <1>2. ArchiveInv => CollidesByRollbackOnly
    BY Zenon DEF ArchiveInv, CollidesByRollbackOnly, Fits
  <1> QED
    BY <1>1, <1>2, NextArchive, InitIInv, NextIInv, InitHandover, NextHandover, PTL DEF Spec

-----------------------------------------------------------------------------
(* The supervisor of a generation                                          *)

WorkerPhases == {"pending", "starting", "running", "backoff", "exhausted", "succeeded", "failed", "stopped"}

Probes == [phase : {"waiting", "ready", "unhealthy"}, seq : Nat, failures : Nat]

ReplicaStates == [phase : WorkerPhases, attempt : Nat, run : Nat, finished : Nat, next : Nat, probe : Probes]

Statuses == [observed : Nat, of : [Replicas -> ReplicaStates]]

Signals == [run : Nat, seq : Nat, kind : Reports]

Guests == [run : Nat, state : {"none", "alive", "exited"}, success : BOOLEAN, seq : Nat,
           writing : Reports \cup {"no"}, wasReady : BOOLEAN, last : Reports \cup {"none"}]

Watches == [on : BOOLEAN, first : BOOLEAN, ready : BOOLEAN, checks : BOOLEAN, digest : Nat]

Loops == [pc : {"off", "top", "drain", "poll", "open", "judge", "start", "spawn", "record", "done"},
          turn : Nat, todo : SUBSET Replicas, at : SUBSET Replicas,
          verdict : {"none", "counted", "unreadable", "unhealthy"}, boots : Nat]

SupervisorTypes ==
    /\ status \in Statuses /\ saved \in Statuses
    /\ guest \in [Replicas -> Guests]
    /\ channel \subseteq [id : Replicas, run : Nat, signal : Signals]
    /\ watch \in [Replicas -> Watches]
    /\ loop \in Loops
    /\ clock \in Nat
    /\ draining \subseteq Replicas
    /\ spawned \in [Replicas -> Nat]

\* What refresh checks, and that a replica that will start again may.
ReplicaOk(r, p) ==
    /\ ValidReplica(p)
    /\ p.phase = "backoff" => p.attempt <= MaxRestarts
    /\ r \in Probed => ValidProbe(p)
    /\ p.phase = "pending" => p.probe = Waiting

\* A worker that is watched is the one of the run that is live; what was heard
\* of it is what the status says, and no more than it reported.
WatchOk(r, p, w, g) ==
    w.on =>
       /\ p.phase \in {"starting", "running"} /\ p.run = g.run
       /\ w.digest = p.probe.seq /\ p.probe.seq <= g.seq
       /\ w.checks => p.probe.seq > 0
       /\ r \in Probed /\ p.phase = "running" => g.wasReady

\* One that reached its failure threshold is judged at once.
Patient(r) ==
    watch[r].on => \/ status.of[r].probe.failures < Threshold
                   \/ loop.pc = "judge" /\ loop.at = {r} /\ loop.verdict = "unhealthy"

\* Every attempt is on disk before its worker exists.
Counted(r) ==
    /\ status.of[r].attempt = saved.of[r].attempt
    /\ spawned[r] <= status.of[r].attempt
    /\ guest[r].state = "alive" => watch[r].on

\* Only a worker with a probe reports, and the first report is number one.
Writes(r) == guest[r].writing # "no" => r \in Probed /\ guest[r].seq > 0

\* A report on disk is the last one of the worker that is watched.
Current(f) ==
    LET g == guest[f.id]
    IN  /\ f.id \in Probed /\ watch[f.id].on
        /\ f.signal.run = f.run /\ f.run = g.run
        /\ g.writing = "no" /\ f.signal.seq = g.seq /\ f.signal.seq > 0
        /\ f.signal.kind = "ready" => g.wasReady

LoopInv ==
    /\ loop.pc \in {"off", "done"} => Watched = {}
    /\ loop.pc \in {"poll", "open", "judge"} => loop.todo \subseteq Watched
    /\ loop.pc \in {"open", "judge"} => \E r \in Watched \ loop.todo : loop.at = {r}
    /\ loop.pc = "spawn" =>
          \E r \in Replicas \ Watched :
             /\ loop.at = {r}
             /\ status.of[r].phase = "starting" /\ status.of[r].run = status.of[r].attempt
             /\ status.of[r].probe = Waiting
             /\ spawned[r] < status.of[r].attempt

SupervisorInv ==
    /\ SupervisorTypes
    /\ refused \subseteq {"clock"}
    /\ \A r \in Replicas : ReplicaOk(r, status.of[r]) /\ ReplicaOk(r, saved.of[r])
    /\ \A r \in Replicas : WatchOk(r, status.of[r], watch[r], guest[r])
    /\ \A r \in Replicas : Counted(r) /\ Patient(r) /\ Writes(r)
    /\ loop.pc # "off" => \A f \in channel : Current(f)
    /\ LoopInv
-----------------------------------------------------------------------------
LEMMA WithIs ==
    ASSUME NEW st \in Statuses, NEW r \in Replicas, NEW p \in ReplicaStates, NEW t \in Nat
    PROVE  /\ With(st, r, p, t) \in Statuses
           /\ With(st, r, p, t).of[r] = p
           /\ \A q \in Replicas : q # r => With(st, r, p, t).of[q] = st.of[q]
  BY Zenon DEF With, Statuses

LEMMA StatusHas ==
    ASSUME NEW st \in Statuses, NEW r \in Replicas
    PROVE  st.of[r] \in ReplicaStates /\ st.of[r].probe \in Probes
  BY Zenon DEF Statuses, ReplicaStates

\* An exit leaves a valid replica that is not live.
LEMMA FinishedOk ==
    ASSUME NEW p \in ReplicaStates, NEW r \in Replicas, NEW success \in BOOLEAN, NEW t \in Nat,
           ReplicaOk(r, p), p.phase \in {"starting", "running"}
    PROVE  /\ Finished(p, r, success, t) \in ReplicaStates
           /\ ReplicaOk(r, Finished(p, r, success, t))
           /\ Finished(p, r, success, t).attempt = p.attempt
           /\ Finished(p, r, success, t).phase \notin {"starting", "running"}
  <1> DEFINE e == Finished(p, r, success, t)
  <1>1. /\ e \in ReplicaStates
        /\ e.attempt = p.attempt /\ e.run = 0 /\ e.finished = t /\ e.probe = p.probe
        /\ \/ e.phase = "backoff" /\ p.attempt < MaxRestarts + 1 /\ e.next = t + 1
           \/ e.phase \in {"exhausted", "succeeded", "failed"} /\ e.next = 0
    <2> DEFINE again == Restart[r] = "always" \/ (Restart[r] = "on-failure" /\ ~success)
               room == p.attempt < MaxRestarts + 1
               ph == IF again THEN IF room THEN "backoff" ELSE "exhausted"
                     ELSE IF success THEN "succeeded" ELSE "failed"
               nx == IF again /\ room THEN t + Backoff ELSE 0
    <2>1. /\ ph \in WorkerPhases /\ nx \in Nat
          /\ \/ ph = "backoff" /\ room /\ nx = t + 1
             \/ ph \in {"exhausted", "succeeded", "failed"} /\ nx = 0
      BY DEF WorkerPhases, Backoff
    <2>2. e = [p EXCEPT !.run = 0, !.finished = t, !.phase = ph, !.next = nx]
      BY Zenon DEF Finished
    <2> HIDE DEF ph, nx, e, again
    <2>3. /\ e \in ReplicaStates /\ e.attempt = p.attempt /\ e.run = 0 /\ e.finished = t
          /\ e.probe = p.probe /\ e.phase = ph /\ e.next = nx
      BY Zenon, <2>1, <2>2 DEF ReplicaStates
    <2> QED
      BY Zenon, <2>1, <2>3
  <1>2. p.attempt > 0 /\ p.attempt <= MaxRestarts + 1 /\ p.attempt \in Nat
    BY Zenon DEF ReplicaOk, ValidReplica, ReplicaStates
  <1>3. r \in Probed => ValidProbe(p)
    BY Zenon DEF ReplicaOk
  <1> HIDE DEF e
  <1>4. r \in Probed => ValidProbe(e)
    BY Zenon, <1>1, <1>3 DEF ValidProbe
  <1>5. ValidReplica(e) /\ (e.phase = "backoff" => e.attempt <= MaxRestarts) /\ e.phase # "pending"
    BY <1>1, <1>2, SupervisorAssumption, SMTT(30) DEF ValidReplica
  <1>6. ReplicaOk(r, e)
    BY Zenon, <1>4, <1>5 DEF ReplicaOk
  <1> QED
    BY Zenon, <1>1, <1>6 DEF e

\* A start within the budget.
LEMMA StartedOk ==
    ASSUME NEW p \in ReplicaStates, NEW r \in Replicas,
           ReplicaOk(r, p), p.phase \in {"pending", "backoff"}
    PROVE  LET e == [phase |-> "starting", attempt |-> p.attempt + 1, run |-> p.attempt + 1,
                     finished |-> 0, next |-> 0, probe |-> Waiting]
           IN  /\ e \in ReplicaStates /\ ReplicaOk(r, e)
               /\ p.attempt <= MaxRestarts
  BY SupervisorAssumption DEF ReplicaStates, Probes, ReplicaOk, ValidReplica, ValidProbe, Waiting, WorkerPhases

\* A worker without a probe runs at once.
LEMMA RunningOk ==
    ASSUME NEW p \in ReplicaStates, NEW r \in Replicas \ Probed,
           ReplicaOk(r, p), p.phase \in {"starting", "running"}
    PROVE  LET e == [p EXCEPT !.phase = "running"]
           IN  /\ e \in ReplicaStates /\ ReplicaOk(r, e) /\ e.phase = "running"
               /\ e.attempt = p.attempt /\ e.run = p.run /\ e.probe = p.probe
  BY Zenon DEF ReplicaStates, ReplicaOk, ValidReplica, ValidProbe, WorkerPhases

\* What a report leaves of a replica that is live.
LEMMA HeardOk ==
    ASSUME NEW p \in ReplicaStates, NEW r \in Replicas, NEW signal \in Signals,
           ReplicaOk(r, p), p.phase \in {"starting", "running"}, signal.seq > p.probe.seq
    PROVE  LET e == Heard(p, signal)
           IN  /\ e \in ReplicaStates /\ ReplicaOk(r, e)
               /\ e.attempt = p.attempt /\ e.run = p.run
               /\ e.probe.seq = signal.seq
               /\ e.phase = IF signal.kind = "ready" THEN "running" ELSE p.phase
  <1>0. p.probe \in Probes /\ signal.seq \in Nat /\ signal.seq > 0
    BY DEF ReplicaStates, Signals, Probes
  <1>1. CASE signal.kind = "ready"
    BY Zenon, <1>0, <1>1 DEF Heard, ReplicaStates, Probes, ReplicaOk, ValidReplica, ValidProbe, Waiting, WorkerPhases
  <1>2. CASE signal.kind = "unhealthy"
    BY <1>0, <1>2 DEF Heard, ReplicaStates, Probes, ReplicaOk, ValidReplica, ValidProbe, Waiting, WorkerPhases
  <1>3. CASE signal.kind \notin {"ready", "unhealthy"}
    BY Zenon, <1>0, <1>3 DEF Heard, ReplicaStates, Probes, ReplicaOk, ValidReplica, ValidProbe, Waiting, WorkerPhases
  <1> QED
    BY Zenon, <1>1, <1>2, <1>3

\* A missed heartbeat of a replica that was heard of.
LEMMA MissedOk ==
    ASSUME NEW p \in ReplicaStates, NEW r \in Replicas,
           ReplicaOk(r, p), p.phase \in {"starting", "running"}, p.probe.seq > 0
    PROVE  /\ Missed(p) \in ReplicaStates /\ ReplicaOk(r, Missed(p))
           /\ Missed(p).attempt = p.attempt /\ Missed(p).run = p.run /\ Missed(p).phase = p.phase
           /\ Missed(p).probe.seq = p.probe.seq
  <1> DEFINE e == Missed(p)
  <1>0. p.probe \in Probes
    BY Zenon DEF ReplicaStates
  <1>1. /\ e \in ReplicaStates
        /\ e.attempt = p.attempt /\ e.run = p.run /\ e.phase = p.phase /\ e.next = p.next
        /\ e.finished = p.finished
        /\ e.probe = [phase |-> "unhealthy", seq |-> p.probe.seq, failures |-> p.probe.failures + 1]
    <2> DEFINE np == [phase |-> "unhealthy", seq |-> p.probe.seq, failures |-> p.probe.failures + 1]
    <2>1. np \in Probes
      BY <1>0 DEF Probes
    <2>2. e = [p EXCEPT !.probe = np]
      BY Zenon DEF Missed
    <2> HIDE DEF np, e
    <2>3. /\ e \in ReplicaStates /\ e.attempt = p.attempt /\ e.run = p.run /\ e.phase = p.phase
          /\ e.next = p.next /\ e.finished = p.finished /\ e.probe = np
      BY Zenon, <2>1, <2>2 DEF ReplicaStates
    <2> QED
      BY Zenon, <2>3 DEF np
  <1>2. e.probe.seq = p.probe.seq /\ e.probe.phase = "unhealthy" /\ e.probe.failures > 0
    BY <1>0, <1>1 DEF Probes
  <1> HIDE DEF e
  <1>3. ValidProbe(e)
    BY Zenon, <1>1, <1>2 DEF ValidProbe
  <1>4. ValidReplica(e)
    BY Zenon, <1>1 DEF ValidReplica, ReplicaOk
  <1>5. ReplicaOk(r, e)
    BY Zenon, <1>1, <1>3, <1>4 DEF ReplicaOk
  <1> QED
    BY Zenon, <1>1, <1>2, <1>5 DEF e

\* A drain.
LEMMA DrainedOk ==
    ASSUME NEW p \in ReplicaStates, NEW r \in Replicas, NEW t \in Nat, ReplicaOk(r, p)
    PROVE  LET e == [p EXCEPT !.phase = "stopped", !.run = 0, !.finished = t, !.next = 0]
           IN  e \in ReplicaStates /\ ReplicaOk(r, e) /\ e.attempt = p.attempt /\ e.phase = "stopped"
  BY Zenon DEF ReplicaStates, ReplicaOk, ValidReplica, ValidProbe, WorkerPhases

-----------------------------------------------------------------------------
\* What the types give of one replica.
LEMMA SupervisorHas ==
    ASSUME SupervisorInv, NEW r \in Replicas
    PROVE  /\ status \in Statuses /\ saved \in Statuses
           /\ status.of[r] \in ReplicaStates /\ status.of[r].probe \in Probes
           /\ guest[r] \in Guests /\ watch[r] \in Watches /\ spawned[r] \in Nat
           /\ loop \in Loops /\ clock \in Nat /\ loop.turn \in Nat
           /\ ReplicaOk(r, status.of[r]) /\ WatchOk(r, status.of[r], watch[r], guest[r])
           /\ Counted(r) /\ Patient(r) /\ Writes(r)
  <1>1. SupervisorTypes
    BY Zenon DEF SupervisorInv
  <1>2. /\ ReplicaOk(r, status.of[r]) /\ WatchOk(r, status.of[r], watch[r], guest[r])
        /\ Counted(r) /\ Patient(r) /\ Writes(r)
    BY Zenon DEF SupervisorInv
  <1>3. status \in Statuses /\ saved \in Statuses /\ loop \in Loops /\ clock \in Nat
    BY Zenon, <1>1 DEF SupervisorTypes
  <1>4. guest[r] \in Guests /\ watch[r] \in Watches /\ spawned[r] \in Nat
    BY Zenon, <1>1 DEF SupervisorTypes
  <1>5. loop.turn \in Nat
    BY Zenon, <1>3 DEF Loops
  <1> QED
    BY Zenon, <1>2, <1>3, <1>4, <1>5, StatusHas

\* A step that changes one replica alone.
Only(r) ==
    /\ status' \in Statuses /\ guest' \in [Replicas -> Guests] /\ watch' \in [Replicas -> Watches]
    /\ spawned' \in [Replicas -> Nat] /\ loop' \in Loops
    /\ channel' \subseteq [id : Replicas, run : Nat, signal : Signals]
    /\ \A q \in Replicas \ {r} : /\ status'.of[q] = status.of[q] /\ guest'[q] = guest[q]
                                 /\ watch'[q] = watch[q] /\ spawned'[q] = spawned[q]
    /\ \A f \in channel' : f.id # r => f \in channel
    /\ clock' = clock /\ draining' = draining /\ refused' = refused
    /\ saved' = saved \/ saved' = status'
    /\ loop.pc # "off"
    /\ loop' = loop \/ loop.pc # "judge" \/ loop.at = {r}

\* What is owed of that one.
Local(r) ==
    /\ ReplicaOk(r, status'.of[r])
    /\ status'.of[r].attempt = status.of[r].attempt \/ saved' = status'
    /\ WatchOk(r, status'.of[r], watch'[r], guest'[r])
    /\ spawned'[r] <= status'.of[r].attempt
    /\ guest'[r].state = "alive" => watch'[r].on
    /\ Patient(r)' /\ Writes(r)'
    /\ \A f \in channel' : f.id = r => Current(f)'

LEMMA LocalKeeps ==
    ASSUME SupervisorInv, NEW r \in Replicas, Only(r), Local(r), LoopInv'
    PROVE  SupervisorInv'
  <1> USE SupervisorInv DEF SupervisorInv
  <1>1. SupervisorTypes'
    <2>1. saved' \in Statuses
      BY Zenon DEF Only, SupervisorTypes
    <2> QED
      BY Zenon, <2>1 DEF Only, SupervisorTypes
  <1>2. (refused \subseteq {"clock"})'
    BY Zenon DEF Only
  <1>3. ASSUME NEW q \in Replicas
        PROVE  ReplicaOk(q, status'.of[q]) /\ ReplicaOk(q, saved'.of[q])
    <2>1. ReplicaOk(q, status'.of[q])
      BY Zenon DEF Only, Local
    <2> QED
      BY Zenon, <2>1 DEF Only
  <1>4. ASSUME NEW q \in Replicas
        PROVE  WatchOk(q, status'.of[q], watch'[q], guest'[q])
    BY Zenon DEF Only, Local
  <1>5. ASSUME NEW q \in Replicas
        PROVE  Counted(q)'
    <2>1. status'.of[q].attempt = saved'.of[q].attempt
      BY Zenon DEF Only, Local, Counted
    <2>2. spawned'[q] <= status'.of[q].attempt
      BY Zenon DEF Only, Local, Counted
    <2>3. guest'[q].state = "alive" => watch'[q].on
      BY Zenon DEF Only, Local, Counted
    <2> QED
      BY Zenon, <2>1, <2>2, <2>3 DEF Counted
  <1>6. ASSUME NEW q \in Replicas
        PROVE  Patient(q)'
    <2>1. CASE q = r
      BY Zenon, <2>1 DEF Local
    <2>2. CASE q # r
      <3>1. status'.of[q] = status.of[q] /\ watch'[q] = watch[q] /\ Patient(q)
        BY Zenon, <2>2 DEF Only
      <3>2. loop' = loop \/ loop.pc # "judge" \/ loop.at # {q}
        BY Zenon, <2>2 DEF Only
      <3> QED
        BY Zenon, <3>1, <3>2 DEF Patient
    <2> QED
      BY Zenon, <2>1, <2>2
  <1>7. ASSUME NEW f \in channel'
        PROVE  Current(f)'
    <2>1. CASE f.id = r
      BY Zenon, <2>1, <1>7 DEF Local
    <2>2. CASE f.id # r
      <3>1. f \in channel /\ Current(f)
        BY Zenon, <2>2, <1>7 DEF Only
      <3>2. f.id \in Replicas
        BY Zenon, <1>7 DEF Only
      <3>3. guest'[f.id] = guest[f.id] /\ watch'[f.id] = watch[f.id]
        BY Zenon, <2>2, <3>2 DEF Only
      <3> QED
        BY Zenon, <3>1, <3>3 DEF Current
    <2> QED
      BY Zenon, <2>1, <2>2
  <1>8. ASSUME NEW q \in Replicas
        PROVE  Writes(q)'
    BY Zenon DEF Only, Local, Writes
  <1> QED
    BY Zenon, <1>1, <1>2, <1>3, <1>4, <1>5, <1>6, <1>7, <1>8

\* A step that moves the loop alone, and may save the status.
LEMMA LoopMoves ==
    ASSUME SupervisorInv,
           status' \in Statuses, status'.of = status.of,
           saved' = saved \/ saved' = status \/ saved' = status',
           UNCHANGED <<guest, channel, watch, spawned, refused>>,
           clock' \in Nat, draining' \subseteq Replicas,
           loop' \in Loops, LoopInv',
           loop' = loop \/ (loop.pc # "off" /\ ~(loop.pc = "judge" /\ loop.verdict = "unhealthy"))
    PROVE  SupervisorInv'
  <1> USE SupervisorInv DEF SupervisorInv
  <1>1. SupervisorTypes'
    <2>1. saved' \in Statuses
      BY Zenon DEF SupervisorTypes
    <2> QED
      BY Zenon, <2>1 DEF SupervisorTypes
  <1>2. ASSUME NEW q \in Replicas
        PROVE  ReplicaOk(q, status'.of[q]) /\ ReplicaOk(q, saved'.of[q])
    BY Zenon
  <1>3. ASSUME NEW q \in Replicas
        PROVE  WatchOk(q, status'.of[q], watch'[q], guest'[q])
    BY Zenon
  <1>4. ASSUME NEW q \in Replicas
        PROVE  Counted(q)' /\ Writes(q)'
    BY Zenon DEF Counted, Writes
  <1>5. ASSUME NEW q \in Replicas
        PROVE  Patient(q)'
    BY Zenon DEF Patient
  <1>6. ASSUME NEW f \in channel', loop'.pc # "off"
        PROVE  Current(f)'
    BY Zenon, <1>6 DEF Current
  <1> QED
    BY Zenon, <1>1, <1>2, <1>3, <1>4, <1>5, <1>6

\* A step after which no worker is watched and none is alive.
LEMMA StopKeeps ==
    ASSUME SupervisorInv,
           status' \in Statuses, saved' = status',
           \A r \in Replicas : ReplicaOk(r, status'.of[r]) /\ status'.of[r].attempt = status.of[r].attempt,
           guest' \in [Replicas -> Guests], \A r \in Replicas : guest'[r].state # "alive" /\ Writes(r)',
           watch' = [r \in Replicas |-> None],
           loop' \in Loops, loop'.pc \in {"off", "top"}, loop'.pc = "top" => channel' = {},
           channel' \subseteq channel, refused' \subseteq {"clock"},
           UNCHANGED <<clock, draining, spawned>>
    PROVE  SupervisorInv'
  <1> USE SupervisorInv DEF SupervisorInv
  <1>0. \A r \in Replicas : watch'[r] = None /\ ~None.on
    BY Zenon DEF None
  <1>1. SupervisorTypes'
    <2>1. None \in Watches
      BY Zenon DEF None, Watches
    <2>2. watch' \in [Replicas -> Watches]
      BY Zenon, <2>1
    <2>3. channel' \subseteq [id : Replicas, run : Nat, signal : Signals]
      BY Zenon DEF SupervisorTypes
    <2> QED
      BY Zenon, <2>2, <2>3 DEF SupervisorTypes
  <1>2. \A r \in Replicas : WatchOk(r, status'.of[r], watch'[r], guest'[r])
    BY Zenon, <1>0 DEF WatchOk
  <1>3. \A r \in Replicas : Counted(r)' /\ Patient(r)'
    BY Zenon, <1>0 DEF Counted, Patient
  <1>4. LoopInv'
    <2>1. Watched' = {}
      BY Zenon, <1>0 DEF Watched
    <2> QED
      BY Zenon, <2>1 DEF LoopInv
  <1> QED
    BY Zenon, <1>1, <1>2, <1>3, <1>4

LEMMA AllAreKilled ==
    ASSUME SupervisorInv
    PROVE  /\ AllKilled \in [Replicas -> Guests]
           /\ \A r \in Replicas : AllKilled[r].state # "alive"
           /\ \A r \in Replicas : AllKilled[r] = guest[r] \/ AllKilled[r].writing = "no"
           /\ \A r \in Replicas : /\ Killed(r) \in [Replicas -> Guests]
                                  /\ Killed(r)[r].state # "alive"
                                  /\ Killed(r)[r] = guest[r] \/ Killed(r)[r].writing = "no"
                                  /\ \A q \in Replicas \ {r} : Killed(r)[q] = guest[q]
  <1>1. guest \in [Replicas -> Guests]
    BY Zenon DEF SupervisorInv, SupervisorTypes
  <1>2. NoGuest \in Guests /\ NoGuest.state # "alive" /\ NoGuest.writing = "no"
    BY Zenon DEF NoGuest, Guests
  <1> QED
    BY Zenon, <1>1, <1>2 DEF AllKilled, Killed

\* Killed workers write nothing.
LEMMA KilledWriteNot ==
    ASSUME SupervisorInv, guest' = AllKilled, NEW r \in Replicas
    PROVE  Writes(r)'
  BY Zenon, AllAreKilled, SupervisorHas DEF Writes

\* Nobody is alive while the supervisor is off.
LEMMA AliveIsWatched ==
    ASSUME SupervisorInv, NEW r \in Replicas, guest[r].state = "alive"
    PROVE  watch[r].on /\ loop.pc \notin {"off", "done"}
  <1>1. watch[r].on
    BY Zenon, SupervisorHas DEF Counted
  <1> QED
    BY Zenon, <1>1 DEF SupervisorInv, LoopInv, Watched

LEMMA FailsKeeps ==
    ASSUME SupervisorInv, NEW causes, causes \subseteq {"clock"}, Fails(causes)
    PROVE  SupervisorInv'
  <1>1. saved \in Statuses
    BY Zenon DEF SupervisorInv, SupervisorTypes
  <1>2. \A r \in Replicas : ReplicaOk(r, saved.of[r]) /\ saved.of[r].attempt = status.of[r].attempt
    BY Zenon DEF SupervisorInv, Counted
  <1>3. loop' \in Loops /\ loop'.pc = "off"
    <2>1. loop \in Loops
      BY Zenon DEF SupervisorInv, SupervisorTypes
    <2> QED
      BY Zenon, <2>1 DEF Loops, Fails
  <1>4. refused' \subseteq {"clock"}
    BY Zenon DEF SupervisorInv, Fails
  <1> QED
    BY Zenon, <1>1, <1>2, <1>3, <1>4, AllAreKilled, KilledWriteNot, StopKeeps DEF Fails

LEMMA DiesKeeps ==
    ASSUME SupervisorInv, Dies
    PROVE  SupervisorInv'
  <1>1. saved \in Statuses
    BY Zenon DEF SupervisorInv, SupervisorTypes
  <1>2. \A r \in Replicas : ReplicaOk(r, saved.of[r]) /\ saved.of[r].attempt = status.of[r].attempt
    BY Zenon DEF SupervisorInv, Counted
  <1>3. loop' \in Loops /\ loop'.pc = "off"
    <2>1. loop \in Loops
      BY Zenon DEF SupervisorInv, SupervisorTypes
    <2> QED
      BY Zenon, <2>1 DEF Loops, Dies
  <1>4. refused' \subseteq {"clock"} /\ channel' \subseteq channel
    BY Zenon DEF SupervisorInv, Dies
  <1> QED
    BY Zenon, <1>1, <1>2, <1>3, <1>4, AllAreKilled, KilledWriteNot, StopKeeps DEF Dies

\* An interrupt finishes the runs that are watched.
LEMMA InterruptedKeeps ==
    ASSUME SupervisorInv, Interrupted
    PROVE  SupervisorInv'
  <1>1. ASSUME NEW r \in Replicas
        PROVE  LET e == IF r \in Watched THEN Finished(status.of[r], r, FALSE, clock) ELSE status.of[r]
               IN  e \in ReplicaStates /\ ReplicaOk(r, e) /\ e.attempt = status.of[r].attempt
    <2>1. /\ status.of[r] \in ReplicaStates /\ ReplicaOk(r, status.of[r])
          /\ WatchOk(r, status.of[r], watch[r], guest[r]) /\ clock \in Nat
      BY Zenon, SupervisorHas
    <2>2. CASE r \in Watched
      <3>1. status.of[r].phase \in {"starting", "running"}
        BY Zenon, <2>1, <2>2 DEF Watched, WatchOk
      <3> QED
        BY Zenon, <2>1, <2>2, <3>1, FinishedOk
    <2> QED
      BY Zenon, <2>1, <2>2
  <1>2. status' \in Statuses /\ \A r \in Replicas : status'.of[r] =
            IF r \in Watched THEN Finished(status.of[r], r, FALSE, clock) ELSE status.of[r]
    <2>1. status.observed \in Nat /\ clock \in Nat
      BY Zenon DEF SupervisorInv, SupervisorTypes, Statuses
    <2> QED
      BY Zenon, <1>1, <2>1 DEF Interrupted, Statuses
  <1>3. loop' \in Loops /\ loop'.pc = "off"
    <2>1. loop \in Loops
      BY Zenon DEF SupervisorInv, SupervisorTypes
    <2> QED
      BY Zenon, <2>1 DEF Loops, Interrupted
  <1>4. refused' \subseteq {"clock"} /\ channel' \subseteq channel
    BY Zenon DEF SupervisorInv, Interrupted
  <1>5. \A r \in Replicas : ReplicaOk(r, status'.of[r]) /\ status'.of[r].attempt = status.of[r].attempt
    BY Zenon, <1>1, <1>2
  <1> QED
    BY Zenon, <1>2, <1>3, <1>4, <1>5, AllAreKilled, KilledWriteNot, StopKeeps DEF Interrupted

\* A new supervisor finishes the runs of the one before.
LEMMA BootKeeps ==
    ASSUME SupervisorInv, Boot
    PROVE  SupervisorInv'
  <1>1. ASSUME NEW r \in Replicas
        PROVE  LET e == IF Live(saved, r) THEN Finished(saved.of[r], r, FALSE, clock) ELSE saved.of[r]
               IN  e \in ReplicaStates /\ ReplicaOk(r, e) /\ e.attempt = status.of[r].attempt
    <2>1. /\ saved.of[r] \in ReplicaStates /\ ReplicaOk(r, saved.of[r]) /\ clock \in Nat
          /\ saved.of[r].attempt = status.of[r].attempt
      <3>1. saved \in Statuses /\ clock \in Nat
        BY Zenon DEF SupervisorInv, SupervisorTypes
      <3> QED
        BY Zenon, <3>1, StatusHas DEF SupervisorInv, Counted
    <2>2. CASE Live(saved, r)
      <3>1. saved.of[r].phase \in {"starting", "running"}
        BY Zenon, <2>2 DEF Live
      <3> QED
        BY Zenon, <2>1, <2>2, <3>1, FinishedOk
    <2> QED
      BY Zenon, <2>1, <2>2
  <1>2. status' \in Statuses /\ \A r \in Replicas : status'.of[r] =
            IF Live(saved, r) THEN Finished(saved.of[r], r, FALSE, clock) ELSE saved.of[r]
    <2>1. saved.observed \in Nat /\ clock \in Nat
      BY Zenon DEF SupervisorInv, SupervisorTypes, Statuses
    <2> QED
      BY Zenon, <1>1, <2>1 DEF Boot, Prepared, RecoveredStatus, Statuses
  <1>3. loop' \in Loops /\ loop'.pc = "top" /\ loop.pc = "off"
    <2>1. loop \in Loops
      BY Zenon DEF SupervisorInv, SupervisorTypes
    <2> QED
      <3>1. loop.boots + 1 \in Nat
        BY <2>1 DEF Loops
      <3> QED
        BY Zenon, <2>1, <3>1 DEF Loops, Boot
  <1>4. refused' \subseteq {"clock"} /\ channel' = {} /\ channel' \subseteq channel
    BY Zenon DEF SupervisorInv, Boot, ClearedChannels
  <1>5. \A r \in Replicas : ReplicaOk(r, status'.of[r]) /\ status'.of[r].attempt = status.of[r].attempt
    BY Zenon, <1>1, <1>2
  <1>6. guest' \in [Replicas -> Guests] /\ \A r \in Replicas : guest'[r].state # "alive" /\ Writes(r)'
    <2>1. guest \in [Replicas -> Guests] /\ guest' = guest
      BY Zenon DEF SupervisorInv, SupervisorTypes, Boot
    <2> QED
      BY Zenon, <1>3, <2>1, AliveIsWatched, SupervisorHas DEF Writes
  <1> QED
    BY Zenon, <1>2, <1>3, <1>4, <1>5, <1>6, StopKeeps DEF Boot

-----------------------------------------------------------------------------
\* The steps of the loop that change nothing else.
LEMMA QuietKeeps ==
    ASSUME SupervisorInv,
           ClockTicks \/ Turn \/ Drained \/ PersistStatus \/ EndTurn
             \/ (\E due \in BOOLEAN : Beat(due)) \/ \E r \in Replicas : Instruct(r) \/ Stat(r)
    PROVE  SupervisorInv'
  <1>0. /\ SupervisorTypes /\ LoopInv /\ status \in Statuses /\ loop \in Loops /\ clock \in Nat
        /\ draining \subseteq Replicas
    BY Zenon DEF SupervisorInv, SupervisorTypes
  <1>1. CASE ClockTicks
    <2>1. LoopInv' /\ clock' \in Nat
      BY <1>0, <1>1 DEF ClockTicks, LoopInv, Watched
    <2> QED
      BY ZenonT(40), <1>0, <1>1, <2>1, LoopMoves DEF ClockTicks
  <1>2. CASE Turn
    <2>1. loop' \in Loops /\ loop'.pc = "drain"
      BY Zenon, <1>0, <1>2 DEF Turn, Loops
    <2>2. LoopInv'
      BY Zenon, <2>1 DEF LoopInv
    <2> QED
      BY Zenon, <1>0, <1>2, <2>1, <2>2, LoopMoves DEF Turn
  <1>3. CASE Drained
    <2>1. loop' \in Loops /\ loop'.pc = "poll" /\ loop'.todo = Watched
      BY Zenon, <1>0, <1>3 DEF Drained, Loops, Watched
    <2>2. Watched' = Watched
      BY Zenon, <1>3 DEF Drained, Watched
    <2>3. LoopInv'
      BY Zenon, <2>1, <2>2 DEF LoopInv
    <2> QED
      BY Zenon, <1>0, <1>3, <2>1, <2>3, LoopMoves DEF Drained
  <1>4. CASE PersistStatus
    <2>1. loop' \in Loops /\ loop'.pc = "start"
      BY Zenon, <1>0, <1>4 DEF PersistStatus, Loops
    <2>2. LoopInv'
      BY Zenon, <2>1 DEF LoopInv
    <2> QED
      BY Zenon, <1>0, <1>4, <2>1, <2>2, LoopMoves DEF PersistStatus
  <1>5. CASE EndTurn
    <2>1. loop' \in Loops /\ (loop'.pc = "top" \/ (loop'.pc = "done" /\ Watched = {}))
      <3> DEFINE over == Watched = {} /\ \A r \in Replicas : status.of[r].phase \notin
                                          {"pending", "starting", "running", "backoff"}
      <3>1. loop' = [loop EXCEPT !.pc = IF over THEN "done" ELSE "top"]
        BY Zenon, <1>5 DEF EndTurn
      <3>2. over => Watched = {}
        BY Zenon
      <3> HIDE DEF over
      <3>3. CASE over
        <4>1. loop' = [loop EXCEPT !.pc = "done"]
          BY Zenon, <3>1, <3>3
        <4> QED
          <5>1. loop' \in Loops
            BY Zenon, <1>0, <4>1 DEF Loops
          <5>2. loop'.pc = "done"
            BY Zenon, <1>0, <4>1 DEF Loops
          <5> QED
            BY Zenon, <3>2, <3>3, <5>1, <5>2
      <3>4. CASE ~over
        <4>1. loop' = [loop EXCEPT !.pc = "top"]
          BY Zenon, <3>1, <3>4
        <4> QED
          <5>1. loop' \in Loops
            BY Zenon, <1>0, <4>1 DEF Loops
          <5>2. loop'.pc = "top"
            BY Zenon, <1>0, <4>1 DEF Loops
          <5> QED
            BY Zenon, <5>1, <5>2
      <3> QED
        BY Zenon, <3>3, <3>4
    <2>2. Watched' = Watched
      BY Zenon, <1>5 DEF EndTurn, Watched
    <2>3. LoopInv'
      BY Zenon, <2>1, <2>2 DEF LoopInv
    <2> QED
      BY Zenon, <1>0, <1>5, <2>1, <2>3, LoopMoves DEF EndTurn
  <1>6. ASSUME NEW due \in BOOLEAN, Beat(due)
        PROVE  SupervisorInv'
    <2>1. loop' \in Loops /\ loop'.pc = "start"
      BY Zenon, <1>0, <1>6 DEF Beat, Loops
    <2>2. LoopInv'
      BY Zenon, <2>1 DEF LoopInv
    <2>3. status' \in Statuses /\ status'.of = status.of
      BY Zenon, <1>0, <1>6 DEF Beat, Statuses
    <2> QED
      BY Zenon, <1>0, <1>6, <2>1, <2>2, <2>3, LoopMoves DEF Beat
  <1>7. ASSUME NEW r \in Replicas, Instruct(r)
        PROVE  SupervisorInv'
    <2>1. LoopInv' /\ draining' \subseteq Replicas
      BY Zenon, <1>0, <1>7 DEF Instruct, LoopInv, Watched
    <2> QED
      BY Zenon, <1>0, <1>7, <2>1, LoopMoves DEF Instruct
  <1>8. ASSUME NEW r \in Replicas, Stat(r)
        PROVE  SupervisorInv'
    <2>1. /\ loop' \in Loops /\ loop'.pc \in {"open", "judge"} /\ loop'.at = {r}
          /\ loop'.todo = loop.todo \ {r}
      BY <1>0, <1>8, ZenonT(40) DEF Stat, Loops
    <2>2. Watched' = Watched /\ loop.todo \subseteq Watched /\ r \in loop.todo
      BY Zenon, <1>0, <1>8 DEF Stat, Watched, LoopInv
    <2>3. LoopInv'
      BY Zenon, <2>1, <2>2 DEF LoopInv
    <2> QED
      BY ZenonT(40), <1>0, <1>8, <2>1, <2>3, LoopMoves DEF Stat
  <1> QED
    BY Zenon, <1>1, <1>2, <1>3, <1>4, <1>5, <1>6, <1>7, <1>8

-----------------------------------------------------------------------------
\* What the guests do is theirs alone.
LEMMA GuestsKeep ==
    ASSUME SupervisorInv, NEW r \in Replicas, GuestNext(r)
    PROVE  SupervisorInv'
  <1>0. /\ guest[r].state = "alive" /\ UNCHANGED <<status, saved, watch, loop, clock, draining, spawned, refused>>
    BY Zenon DEF GuestNext, StartReport, FinishReport, GuestExits
  <1>1. /\ SupervisorTypes /\ LoopInv
        /\ guest \in [Replicas -> Guests] /\ guest[r] \in Guests
        /\ channel \subseteq [id : Replicas, run : Nat, signal : Signals]
    BY Zenon DEF SupervisorInv, SupervisorTypes
  <1>2. /\ watch[r].on /\ loop.pc # "off"
        /\ \A f \in channel : Current(f)
    BY Zenon, <1>0, AliveIsWatched DEF SupervisorInv
  <1>3. /\ status \in Statuses /\ status.of[r] \in ReplicaStates /\ status.of[r].probe \in Probes
        /\ ReplicaOk(r, status.of[r]) /\ WatchOk(r, status.of[r], watch[r], guest[r])
        /\ Counted(r) /\ Patient(r)
    BY Zenon, SupervisorHas
  <1>4. LoopInv'
    BY Zenon, <1>0, <1>1 DEF LoopInv, Watched
  <1>5. ReplicaOk(r, status'.of[r]) /\ spawned'[r] <= status'.of[r].attempt /\ Patient(r)'
    BY Zenon, <1>0, <1>3 DEF Counted, Patient
  <1>6. ASSUME NEW g \in Guests, guest' = [guest EXCEPT ![r] = g],
               g.run = guest[r].run, g.seq >= guest[r].seq,
               guest[r].wasReady => g.wasReady,
               g.writing # "no" => r \in Probed /\ g.seq > 0,
               channel' \subseteq [id : Replicas, run : Nat, signal : Signals],
               \A f \in channel' : f.id # r => f \in channel,
               \A f \in channel' : f.id = r => Current(f)'
        PROVE  SupervisorInv'
    <2>1. /\ guest' \in [Replicas -> Guests] /\ guest'[r] = g
          /\ \A q \in Replicas \ {r} : guest'[q] = guest[q]
      BY Zenon, <1>1, <1>6
    <2>2. Only(r)
      BY Zenon, <1>0, <1>1, <1>2, <1>6, <2>1 DEF Only, SupervisorTypes
    <2>3. WatchOk(r, status'.of[r], watch'[r], guest'[r])
      <3>1. status.of[r].probe.seq <= g.seq
        <4>1. status.of[r].probe.seq <= guest[r].seq
          BY Zenon, <1>2, <1>3 DEF WatchOk
        <4>2. status.of[r].probe.seq \in Nat /\ guest[r].seq \in Nat /\ g.seq \in Nat
          BY Zenon, <1>1, <1>3 DEF Guests, Probes
        <4> QED
          BY ONLY <1>6, <4>1, <4>2, SMTT(30)
      <3> QED
        BY ZenonT(40), <1>0, <1>2, <1>3, <1>6, <2>1, <3>1 DEF WatchOk
    <2>4. Local(r)
      BY Zenon, <1>0, <1>2, <1>5, <1>6, <2>1, <2>3 DEF Local, Writes
    <2> QED
      BY Zenon, <1>4, <2>2, <2>4, LocalKeeps
  <1>7. ASSUME NEW kind \in Reports, StartReport(r, kind)
        PROVE  SupervisorInv'
    <2> DEFINE g == [guest[r] EXCEPT !.seq = @ + 1, !.writing = kind]
    <2>1. g \in Guests /\ g.run = guest[r].run /\ g.seq >= guest[r].seq /\ (guest[r].wasReady => g.wasReady)
          /\ g.seq > 0 /\ r \in Probed
      <3>1. guest[r].seq \in Nat /\ guest[r].seq + 1 \in Nat
        BY <1>1 DEF Guests
      <3>2. g \in Guests /\ g.run = guest[r].run /\ g.wasReady = guest[r].wasReady /\ r \in Probed
        BY Zenon, <1>1, <1>7, <3>1 DEF Guests, StartReport
      <3>3. g.seq = guest[r].seq + 1
        BY Zenon, <1>1 DEF Guests
      <3> HIDE DEF g
      <3>4. g.seq >= guest[r].seq /\ g.seq > 0
        BY <3>1, <3>3
      <3> QED
        BY Zenon, <3>2, <3>4
    <2>2. guest' = [guest EXCEPT ![r] = g]
      BY Zenon, <1>1, <1>7 DEF StartReport
    <2>3. channel' = channel \ Report(r, guest[r].run)
      BY Zenon, <1>7 DEF StartReport
    <2>4. ASSUME NEW f \in channel', f.id = r
          PROVE  FALSE
      BY Zenon, <1>2, <2>3, <2>4 DEF Report, Current
    <2> HIDE DEF g
    <2> QED
      BY Zenon, <1>1, <1>6, <2>1, <2>2, <2>3, <2>4
  <1>8. ASSUME FinishReport(r)
        PROVE  SupervisorInv'
    <2> DEFINE ready == guest[r].wasReady \/ guest[r].writing = "ready"
               g == [guest[r] EXCEPT !.writing = "no", !.wasReady = ready, !.last = guest[r].writing]
               s == Signal(r)
    <2>0. guest[r].writing \in Reports
      BY Zenon, <1>1, <1>8 DEF FinishReport, Guests
    <2>1. /\ g \in Guests /\ g.run = guest[r].run /\ g.seq = guest[r].seq /\ g.seq >= guest[r].seq
          /\ g.writing = "no"
      <3>1. ready \in BOOLEAN
        BY Zenon
      <3> HIDE DEF ready
      <3>2. g \in Guests /\ g.run = guest[r].run /\ g.seq = guest[r].seq /\ g.writing = "no"
        BY Zenon, <1>1, <2>0, <3>1 DEF Guests
      <3>3. guest[r].seq \in Nat
        BY Zenon, <1>1 DEF Guests
      <3> HIDE DEF g
      <3> QED
        BY <3>2, <3>3
    <2>2. g.wasReady = ready
      BY Zenon, <1>1 DEF Guests
    <2>3. guest' = [guest EXCEPT ![r] = g]
      BY Zenon, <1>1, <1>8 DEF FinishReport
    <2>4. channel' = channel \cup {Sealed(r, s)}
      BY Zenon, <1>8 DEF FinishReport
    <2>5. /\ s \in Signals /\ s.run = guest[r].run /\ s.seq = guest[r].seq /\ s.kind = guest[r].writing
          /\ Sealed(r, s) \in [id : Replicas, run : Nat, signal : Signals]
          /\ Sealed(r, s).id = r /\ Sealed(r, s).run = guest[r].run /\ Sealed(r, s).signal = s
      BY Zenon, <1>1, <2>0 DEF Signal, Signals, Sealed, Guests
    <2>6. s.seq > 0 /\ r \in Probed
      BY Zenon, SupervisorHas, <1>8, <2>5 DEF FinishReport, Writes
    <2>7. ASSUME NEW f \in channel', f.id = r
          PROVE  Current(f)'
      <3>1. f = Sealed(r, s)
        BY Zenon, <1>2, <2>4, <2>7, <1>8 DEF Current, FinishReport
      <3>2. guest'[f.id] = g /\ watch'[f.id].on
        BY Zenon, <1>0, <1>1, <1>2, <2>3, <2>7
      <3>3. f.signal.kind = "ready" => g.wasReady
        BY Zenon, <2>2, <2>5, <3>1
      <3> HIDE DEF g, s
      <3> QED
        BY Zenon, <2>1, <2>5, <2>6, <3>1, <3>2, <3>3 DEF Current
    <2>8. guest[r].wasReady => g.wasReady
      BY Zenon, <2>2
    <2> HIDE DEF g, s
    <2> QED
      BY Zenon, <1>1, <1>6, <2>1, <2>3, <2>4, <2>5, <2>7, <2>8
  <1>9. ASSUME NEW success \in BOOLEAN, GuestExits(r, success)
        PROVE  SupervisorInv'
    <2> DEFINE g == [guest[r] EXCEPT !.state = "exited", !.success = success]
    <2>0. g \in Guests /\ g.run = guest[r].run /\ g.seq = guest[r].seq
      BY Zenon, <1>1 DEF Guests
    <2>1. g.seq >= guest[r].seq
      <3>1. guest[r].seq \in Nat
        BY Zenon, <1>1 DEF Guests
      <3> HIDE DEF g
      <3> QED
        BY <2>0, <3>1
    <2>2. guest' = [guest EXCEPT ![r] = g] /\ channel' = channel
      BY Zenon, <1>1, <1>9 DEF GuestExits
    <2>3. g.wasReady = guest[r].wasReady /\ g.writing = guest[r].writing /\ g.seq = guest[r].seq
      BY Zenon, <1>1 DEF Guests
    <2>4. ASSUME NEW f \in channel', f.id = r
          PROVE  Current(f)'
      <3>1. Current(f) /\ guest'[f.id] = g
        BY Zenon, <1>1, <1>2, <2>2, <2>4
      <3> QED
        BY Zenon, <1>0, <2>0, <2>3, <2>4, <3>1 DEF Current
    <2> HIDE DEF g
    <2> QED
      BY Zenon, <1>1, <1>6, <2>0, <2>1, <2>2, <2>3, <2>4, SupervisorHas DEF Writes
  <1> QED
    BY Zenon, <1>7, <1>8, <1>9 DEF GuestNext

-----------------------------------------------------------------------------
\* The worker that is being polled or judged is watched, and live.
LEMMA AtIsWatched ==
    ASSUME SupervisorInv, NEW r \in Replicas, loop.pc \in {"open", "judge"}, loop.at = {r}
    PROVE  /\ r \in Watched \ loop.todo /\ watch[r].on /\ loop.todo \subseteq Watched
           /\ status.of[r].phase \in {"starting", "running"} /\ Live(status, r)
           /\ status.of[r].run = guest[r].run
           /\ \A f \in channel : Current(f)
  <1>1. LoopInv /\ (loop.pc # "off" => \A f \in channel : Current(f))
    BY Zenon DEF SupervisorInv
  <1>2. PICK q \in Watched \ loop.todo : loop.at = {q}
    BY Zenon, <1>1 DEF LoopInv
  <1>3. q = r
    BY Zenon, <1>2
  <1>4. watch[r].on
    BY Zenon, <1>2, <1>3 DEF Watched
  <1>5. WatchOk(r, status.of[r], watch[r], guest[r])
    BY Zenon, SupervisorHas
  <1>6. loop.pc # "off"
    BY Zenon
  <1> QED
    BY Zenon, <1>1, <1>2, <1>3, <1>4, <1>5, <1>6 DEF WatchOk, Live, LoopInv

\* A report that was not seen yet is newer than the last one: it can be applied,
\* if the time of it can.
LEMMA UnseenIsNew ==
    ASSUME SupervisorInv, NEW r \in Replicas, loop.pc \in {"open", "judge"}, loop.at = {r},
           NEW f \in Report(r, guest[r].run), Unseen(r, f), NEW t \in Nat
    PROVE  /\ f.signal \in Signals /\ f.signal.seq = guest[r].seq
           /\ f.signal.seq > status.of[r].probe.seq
           /\ f.signal.kind = "ready" => guest[r].wasReady
           /\ SignalRefusal(status, r, f.signal, t) \subseteq {"clock"}
  <1>1. /\ watch[r].on /\ Live(status, r) /\ status.of[r].run = guest[r].run
        /\ \A e \in channel : Current(e)
    BY Zenon, AtIsWatched
  <1>2. f \in channel /\ f.id = r /\ Current(f)
    BY Zenon, <1>1 DEF Report
  <1>3. /\ f.signal.run = guest[r].run /\ f.signal.seq = guest[r].seq
        /\ f.signal.kind = "ready" => guest[r].wasReady
    BY Zenon, <1>2 DEF Current
  <1>4. f.signal \in Signals
    <2>1. f \in [id : Replicas, run : Nat, signal : Signals]
      BY Zenon, <1>2 DEF SupervisorInv, SupervisorTypes
    <2> QED
      BY Zenon, <2>1
  <1>5. f.signal.seq > status.of[r].probe.seq
    <2>1. /\ WatchOk(r, status.of[r], watch[r], guest[r])
          /\ guest[r] \in Guests /\ status.of[r].probe \in Probes
      BY Zenon, SupervisorHas
    <2>2. guest[r].seq \in Nat /\ status.of[r].probe.seq \in Nat
      BY Zenon, <2>1 DEF Guests, Probes
    <2>3. status.of[r].probe.seq # guest[r].seq /\ status.of[r].probe.seq <= guest[r].seq
      BY Zenon, <1>1, <1>3, <2>1 DEF WatchOk, Unseen
    <2> QED
      BY ONLY <1>3, <2>2, <2>3, SMTT(30)
  <1>6. SignalRefusal(status, r, f.signal, t) \subseteq {"clock"}
    <2>1. ~(f.signal.seq <= status.of[r].probe.seq)
      <3>1. f.signal.seq \in Nat /\ status.of[r].probe.seq \in Nat
        BY Zenon, <1>4, SupervisorHas DEF Signals, Probes
      <3> QED
        BY ONLY <1>5, <3>1, SMTT(30)
    <2> QED
      BY Zenon, <1>1, <1>3, <2>1 DEF SignalRefusal
  <1> QED
    BY Zenon, <1>3, <1>4, <1>5, <1>6

\* A replica loses its worker: it is not watched, not alive, and has no report.
LEMMA LostKeeps ==
    ASSUME SupervisorInv, NEW r \in Replicas, NEW st \in Statuses, NEW p \in ReplicaStates, NEW t \in Nat,
           \A q \in Replicas \ {r} : st.of[q] = status.of[q],
           status' = With(st, r, p, t), ReplicaOk(r, p), p.attempt = status.of[r].attempt,
           guest' = Killed(r), channel' = {f \in channel : f.id # r},
           watch' = [watch EXCEPT ![r] = None],
           UNCHANGED <<saved, clock, draining, spawned, refused>>,
           loop.pc # "off", loop' \in Loops, LoopInv',
           loop' = loop \/ loop.pc # "judge" \/ loop.at = {r}
    PROVE  SupervisorInv'
  <1>1. /\ status' \in Statuses /\ status'.of[r] = p
        /\ \A q \in Replicas \ {r} : status'.of[q] = status.of[q]
    <2>1. /\ With(st, r, p, t) \in Statuses /\ With(st, r, p, t).of[r] = p
          /\ \A q \in Replicas : q # r => With(st, r, p, t).of[q] = st.of[q]
      BY WithIs
    <2> QED
      BY Zenon, <2>1
  <1>2. None \in Watches /\ ~None.on
    BY Zenon DEF None, Watches
  <1>3. SupervisorTypes
    BY Zenon DEF SupervisorInv
  <1>4. /\ watch' \in [Replicas -> Watches] /\ watch'[r] = None
        /\ \A q \in Replicas \ {r} : watch'[q] = watch[q]
    BY Zenon, <1>2, <1>3 DEF SupervisorTypes
  <1>5. Only(r)
    BY Zenon, <1>1, <1>3, <1>4, AllAreKilled DEF Only, SupervisorTypes
  <1>6. Local(r)
    <2>1. spawned'[r] <= status'.of[r].attempt
      BY Zenon, <1>1, SupervisorHas DEF Counted
    <2>2. Writes(r)'
      BY Zenon, AllAreKilled, SupervisorHas DEF Writes
    <2>3. WatchOk(r, status'.of[r], watch'[r], guest'[r]) /\ Patient(r)'
      BY Zenon, <1>2, <1>4 DEF WatchOk, Patient
    <2>4. \A f \in channel' : f.id = r => Current(f)'
      BY Zenon
    <2> QED
      BY Zenon, <1>1, <2>1, <2>2, <2>3, <2>4, AllAreKilled DEF Local
  <1> QED
    BY Zenon, <1>5, <1>6, LocalKeeps

LEMMA DrainKeeps ==
    ASSUME SupervisorInv, NEW r \in Replicas, Drain(r)
    PROVE  SupervisorInv'
  <1>1. /\ status \in Statuses /\ status.of[r] \in ReplicaStates /\ ReplicaOk(r, status.of[r])
        /\ clock \in Nat /\ loop \in Loops
    BY Zenon, SupervisorHas
  <1> DEFINE p == [status.of[r] EXCEPT !.phase = "stopped", !.run = 0, !.finished = clock, !.next = 0]
  <1>2. p \in ReplicaStates /\ ReplicaOk(r, p) /\ p.attempt = status.of[r].attempt
    BY Zenon, <1>1, DrainedOk
  <1>3. status' = With(status, r, p, clock)
    BY Zenon DEF Drain, MarkDrained
  <1> HIDE DEF p
  <1>4. loop' = loop /\ loop.pc = "drain"
    BY Zenon DEF Drain
  <1>5. LoopInv'
    BY Zenon, <1>4 DEF LoopInv
  <1> QED
    BY Zenon, <1>1, <1>2, <1>3, <1>4, <1>5, LostKeeps DEF Drain

\* An exit of the replica under judgement, from the status or from one in which
\* its last report was heard.
LEMMA LeavesKeeps ==
    ASSUME SupervisorInv, NEW r \in Replicas, loop.pc = "judge", loop.at = {r},
           NEW st \in Statuses, NEW success \in BOOLEAN,
           \A q \in Replicas \ {r} : st.of[q] = status.of[q],
           ReplicaOk(r, st.of[r]), st.of[r].phase \in {"starting", "running"},
           st.of[r].attempt = status.of[r].attempt, st.of[r].run = status.of[r].run,
           Leaves(st, r, success)
    PROVE  SupervisorInv'
  <1>1. /\ r \in Watched \ loop.todo /\ loop.todo \subseteq Watched
        /\ status.of[r].run = guest[r].run
    BY Zenon, AtIsWatched
  <1>2. ExitRefusal(st, r, guest[r].run, loop.turn) \subseteq {"clock"}
    BY Zenon, <1>1 DEF ExitRefusal, Live
  <1>3. CASE ExitRefusal(st, r, guest[r].run, loop.turn) # {}
    BY Zenon, <1>2, <1>3, FailsKeeps DEF Leaves
  <1>4. CASE ExitRefusal(st, r, guest[r].run, loop.turn) = {}
    <2>1. st.of[r] \in ReplicaStates /\ loop.turn \in Nat /\ loop \in Loops
      BY Zenon, StatusHas, SupervisorHas
    <2> DEFINE p == Finished(st.of[r], r, success, loop.turn)
    <2>2. p \in ReplicaStates /\ ReplicaOk(r, p) /\ p.attempt = status.of[r].attempt
      <3>1. p \in ReplicaStates /\ ReplicaOk(r, p) /\ p.attempt = st.of[r].attempt
        BY <2>1, FinishedOk
      <3> HIDE DEF p
      <3> QED
        BY Zenon, <3>1
    <2>3. status' = With(st, r, p, loop.turn)
      BY Zenon, <1>4 DEF Leaves, MarkExit
    <2> HIDE DEF p
    <2>4. loop' = [loop EXCEPT !.pc = "poll", !.at = {}, !.verdict = "none"]
      BY Zenon, <1>4 DEF Leaves
    <2>5. loop' \in Loops /\ loop'.pc = "poll" /\ loop'.todo = loop.todo
      BY Zenon, <2>1, <2>4 DEF Loops
    <2>6. /\ watch' = [watch EXCEPT ![r] = None] /\ guest' = Killed(r)
          /\ channel' = {f \in channel : f.id # r}
          /\ UNCHANGED <<saved, clock, draining, spawned, refused>>
      BY Zenon, <1>4 DEF Leaves
    <2>7. loop'.todo \subseteq Watched'
      BY Zenon, <1>1, <2>5, <2>6 DEF Watched, SupervisorInv, SupervisorTypes
    <2>8. LoopInv'
      BY Zenon, <2>5, <2>7 DEF LoopInv
    <2>9. loop.pc # "off"
      BY Zenon
    <2> QED
      BY Zenon, <2>1, <2>2, <2>3, <2>5, <2>6, <2>8, <2>9, LostKeeps
  <1> QED
    BY Zenon, <1>3, <1>4

LEMMA ExpireKeeps ==
    ASSUME SupervisorInv, NEW r \in Replicas, Expire(r)
    PROVE  SupervisorInv'
  BY Zenon, LeavesKeeps, AtIsWatched, SupervisorHas DEF Expire

\* Without a refusal, the report before the exit is heard and the exit recorded.
LEMMA JudgeKeeps ==
    ASSUME SupervisorInv, NEW r \in Replicas, Judge(r)
    PROVE  SupervisorInv'
  <1>0. /\ loop.pc = "judge" /\ loop.at = {r}
        /\ status \in Statuses /\ status.of[r] \in ReplicaStates /\ ReplicaOk(r, status.of[r])
        /\ loop \in Loops /\ clock \in Nat /\ guest[r] \in Guests
        /\ status.of[r].phase \in {"starting", "running"}
        /\ loop.todo \subseteq Watched
    BY Zenon, SupervisorHas, AtIsWatched DEF Judge
  <1>1. CASE loop.verdict \in {"unreadable", "unhealthy"}
    BY Zenon, <1>0, <1>1, LeavesKeeps DEF Judge
  <1>2. CASE loop.verdict \notin {"unreadable", "unhealthy"} /\ guest[r].state = "alive"
    <2>1. /\ loop' = [loop EXCEPT !.pc = "poll", !.at = {}, !.verdict = "none"]
          /\ UNCHANGED <<status, saved, guest, channel, watch, clock, draining, spawned, refused>>
      BY Zenon, <1>2 DEF Judge
    <2>2. loop' \in Loops /\ loop'.pc = "poll" /\ loop'.todo = loop.todo
      BY Zenon, <1>0, <2>1 DEF Loops
    <2>3. Watched' = Watched
      BY Zenon, <2>1 DEF Watched
    <2>4. LoopInv'
      BY Zenon, <1>0, <2>2, <2>3 DEF LoopInv
    <2>5. draining \subseteq Replicas
      BY Zenon DEF SupervisorInv, SupervisorTypes
    <2>6. loop.pc # "off" /\ loop.verdict # "unhealthy"
      BY Zenon, <1>0, <1>2
    <2> QED
      BY Zenon, <1>0, <2>1, <2>2, <2>4, <2>5, <2>6, LoopMoves
  <1>3. CASE loop.verdict \notin {"unreadable", "unhealthy"} /\ guest[r].state # "alive"
    <2> DEFINE last == {f.signal : f \in {e \in Report(r, guest[r].run) :
                                         /\ OpensFor(guest[r].run, e)
                                         /\ Unseen(r, e) /\ ~ProbeReady(status, r)}}
               bad == UNION {SignalRefusal(status, r, f, clock) : f \in last}
               st == IF last = {} THEN status
                     ELSE MarkSignal(status, r, CHOOSE f \in last : TRUE, clock)
               success == guest[r].success /\ ProbeReady(st, r)
    <2>1. IF bad # {} THEN Fails(bad) ELSE Leaves(st, r, success)
      BY Zenon, <1>3 DEF Judge
    <2>2. ASSUME NEW s \in last
          PROVE  /\ s \in Signals /\ s.seq > status.of[r].probe.seq
                 /\ SignalRefusal(status, r, s, clock) \subseteq {"clock"}
      <3>1. PICK f \in Report(r, guest[r].run) : s = f.signal /\ Unseen(r, f)
        BY Zenon, <2>2
      <3> HIDE DEF last
      <3> QED
        BY Zenon, <1>0, <3>1, UnseenIsNew
    <2>3. success \in BOOLEAN
      BY Zenon, <1>0 DEF Guests
    <2> HIDE DEF last
    <2>4. bad \subseteq {"clock"}
      BY Zenon, <2>2
    <2>5. /\ st \in Statuses /\ \A q \in Replicas \ {r} : st.of[q] = status.of[q]
          /\ ReplicaOk(r, st.of[r]) /\ st.of[r].phase \in {"starting", "running"}
          /\ st.of[r].attempt = status.of[r].attempt /\ st.of[r].run = status.of[r].run
      <3>1. CASE last = {}
        BY Zenon, <1>0, <3>1
      <3>2. CASE last # {}
        <4> DEFINE s == CHOOSE f \in last : TRUE
        <4>1. s \in last
          BY Zenon, <3>2
        <4>2. st = With(status, r, Heard(status.of[r], s), clock)
          BY Zenon, <3>2 DEF MarkSignal
        <4> HIDE DEF s, st
        <4>3. /\ Heard(status.of[r], s) \in ReplicaStates /\ ReplicaOk(r, Heard(status.of[r], s))
              /\ Heard(status.of[r], s).attempt = status.of[r].attempt
              /\ Heard(status.of[r], s).run = status.of[r].run
              /\ Heard(status.of[r], s).phase \in {"starting", "running"}
          BY <1>0, <2>2, <4>1, HeardOk, SMTT(30)
        <4>4. /\ st \in Statuses /\ st.of[r] = Heard(status.of[r], s)
              /\ \A q \in Replicas : q # r => st.of[q] = status.of[q]
          BY <1>0, <4>2, <4>3, WithIs, SMTT(30)
        <4> QED
          BY Zenon, <4>3, <4>4
      <3> QED
        BY Zenon, <3>1, <3>2
    <2> HIDE DEF st, success, bad
    <2>6. CASE bad # {}
      BY Zenon, <2>1, <2>4, <2>6, FailsKeeps
    <2>7. CASE bad = {}
      BY Zenon, <1>0, <2>1, <2>3, <2>5, <2>7, LeavesKeeps
    <2> QED
      BY Zenon, <2>6, <2>7
  <1> QED
    BY Zenon, <1>1, <1>2, <1>3

\* A change of the replica under judgement in the status alone, or with what its
\* worker was heard of.
LEMMA NotedKeeps ==
    ASSUME SupervisorInv, NEW r \in Replicas, loop.pc \in {"open", "judge"}, loop.at = {r},
           NEW p \in ReplicaStates, NEW w \in Watches, NEW t \in Nat,
           NEW verdict \in {"none", "counted", "unhealthy"},
           status' = With(status, r, p, t), watch' = [watch EXCEPT ![r] = w],
           ReplicaOk(r, p), p.attempt = status.of[r].attempt,
           w.on, WatchOk(r, p, w, guest[r]),
           TooMany(p.probe.failures) => verdict = "unhealthy",
           loop' = [loop EXCEPT !.pc = "judge", !.verdict = verdict],
           UNCHANGED <<saved, guest, channel, clock, draining, spawned, refused>>
    PROVE  SupervisorInv'
  <1>0. SupervisorTypes /\ loop \in Loops /\ status \in Statuses /\ loop.pc # "off"
    BY Zenon DEF SupervisorInv, SupervisorTypes
  <1>1. /\ status' \in Statuses /\ status'.of[r] = p
        /\ \A q \in Replicas : q # r => status'.of[q] = status.of[q]
    BY <1>0, WithIs
  <1>2. /\ watch' \in [Replicas -> Watches] /\ watch'[r] = w
        /\ \A q \in Replicas \ {r} : watch'[q] = watch[q]
    BY Zenon, <1>0 DEF SupervisorTypes
  <1>3. /\ loop' \in Loops /\ loop'.pc = "judge" /\ loop'.verdict = verdict /\ loop'.at = {r}
        /\ loop'.todo = loop.todo
    BY Zenon, <1>0 DEF Loops
  <1>4. Only(r)
    BY Zenon, <1>0, <1>1, <1>2, <1>3 DEF Only, SupervisorTypes
  <1>5. Patient(r)'
    <2>1. TooMany(p.probe.failures) \/ p.probe.failures < Threshold
      <3>1. p.probe.failures \in Nat
        BY Zenon DEF ReplicaStates, Probes
      <3> QED
        BY <3>1, SupervisorAssumption DEF TooMany
    <2> QED
      BY Zenon, <1>1, <1>3, <2>1 DEF Patient
  <1>6. r \in Watched \ loop.todo /\ loop.todo \subseteq Watched /\ \A f \in channel : Current(f)
    BY Zenon, AtIsWatched
  <1>7. Local(r)
    <2>1. \A f \in channel' : f.id = r => Current(f)'
      BY ZenonT(40), <1>2, <1>6 DEF Current
    <2>2. spawned'[r] <= status'.of[r].attempt /\ Writes(r)'
      BY Zenon, <1>1, SupervisorHas DEF Counted, Writes
    <2> QED
      BY Zenon, <1>1, <1>2, <1>5, <2>1, <2>2 DEF Local
  <1>8. LoopInv'
    <2>1. Watched' = Watched
      BY Zenon, <1>2, <1>6 DEF Watched
    <2> QED
      BY Zenon, <1>3, <1>6, <2>1 DEF LoopInv
  <1> QED
    BY Zenon, <1>4, <1>7, <1>8, LocalKeeps

\* The report that was found, opened and applied.
LEMMA OpenKeeps ==
    ASSUME SupervisorInv, NEW r \in Replicas, Open(r)
    PROVE  SupervisorInv'
  <1>0. /\ loop.pc = "open" /\ loop.at = {r} /\ loop.pc \in {"open", "judge"}
        /\ status \in Statuses /\ status.of[r] \in ReplicaStates /\ ReplicaOk(r, status.of[r])
        /\ loop \in Loops /\ loop.turn \in Nat /\ clock \in Nat /\ watch[r] \in Watches
        /\ WatchOk(r, status.of[r], watch[r], guest[r])
    BY Zenon, SupervisorHas DEF Open
  <1>1. /\ r \in Watched \ loop.todo /\ loop.todo \subseteq Watched /\ watch[r].on
        /\ status.of[r].phase \in {"starting", "running"} /\ status.of[r].run = guest[r].run
    BY Zenon, <1>0, AtIsWatched
  <1>2. ASSUME NEW verdict \in {"none", "unreadable"},
               loop' = [loop EXCEPT !.pc = "judge", !.verdict = verdict],
               UNCHANGED <<status, saved, guest, channel, watch, clock, draining, spawned, refused>>
        PROVE  SupervisorInv'
    <2>1. loop' \in Loops /\ loop'.pc = "judge" /\ loop'.todo = loop.todo /\ loop'.at = {r}
      BY Zenon, <1>0, <1>2 DEF Loops
    <2>2. Watched' = Watched
      BY Zenon, <1>2 DEF Watched
    <2>3. LoopInv'
      BY Zenon, <1>1, <2>1, <2>2 DEF LoopInv
    <2>4. draining \subseteq Replicas
      BY Zenon DEF SupervisorInv, SupervisorTypes
    <2>5. loop.pc # "off" /\ loop.pc # "judge"
      BY Zenon, <1>0
    <2> QED
      BY Zenon, <1>0, <1>2, <2>1, <2>3, <2>4, <2>5, LoopMoves
  <1>3. CASE Report(r, guest[r].run) = {}
    BY Zenon, <1>2, <1>3 DEF Open
  <1>4. CASE Report(r, guest[r].run) # {}
    <2>1. PICK f \in Report(r, guest[r].run) :
            IF ~Unseen(r, f) \/ ~OpensFor(guest[r].run, f)
            THEN /\ loop' = [loop EXCEPT !.pc = "judge", !.verdict = IF Unseen(r, f) THEN "unreadable" ELSE "none"]
                 /\ UNCHANGED <<status, saved, guest, channel, watch, clock, draining, spawned, refused>>
            ELSE IF SignalRefusal(status, r, f.signal, loop.turn) # {}
            THEN Fails(SignalRefusal(status, r, f.signal, loop.turn))
            ELSE /\ status' = MarkSignal(status, r, f.signal, loop.turn)
                 /\ watch' = [watch EXCEPT ![r] = Listened(watch[r], f.signal)]
                 /\ loop' = [loop EXCEPT !.pc = "judge",
                                         !.verdict = IF TooMany(status'.of[r].probe.failures)
                                                     THEN "unhealthy" ELSE "none"]
                 /\ UNCHANGED <<saved, guest, channel, clock, draining, spawned, refused>>
      BY Zenon, <1>4 DEF Open
    <2>2. CASE ~Unseen(r, f) \/ ~OpensFor(guest[r].run, f)
      <3> DEFINE verdict == IF Unseen(r, f) THEN "unreadable" ELSE "none"
      <3>1. verdict \in {"none", "unreadable"}
        BY Zenon
      <3>2. /\ loop' = [loop EXCEPT !.pc = "judge", !.verdict = verdict]
            /\ UNCHANGED <<status, saved, guest, channel, watch, clock, draining, spawned, refused>>
        BY Zenon, <2>1, <2>2
      <3> HIDE DEF verdict
      <3> QED
        BY Zenon, <1>2, <3>1, <3>2
    <2>3. CASE Unseen(r, f) /\ OpensFor(guest[r].run, f)
      <3> DEFINE s == f.signal
                 p == Heard(status.of[r], s)
                 w == Listened(watch[r], s)
      <3>1. /\ s \in Signals /\ s.seq = guest[r].seq /\ s.seq > status.of[r].probe.seq
            /\ s.kind = "ready" => guest[r].wasReady
            /\ SignalRefusal(status, r, s, loop.turn) \subseteq {"clock"}
        BY Zenon, <1>0, <2>3, UnseenIsNew
      <3>2. CASE SignalRefusal(status, r, s, loop.turn) # {}
        BY Zenon, <2>1, <2>3, <3>1, <3>2, FailsKeeps
      <3>3. CASE SignalRefusal(status, r, s, loop.turn) = {}
        <4> DEFINE verdict == IF TooMany(p.probe.failures) THEN "unhealthy" ELSE "none"
        <4>0. /\ status' = With(status, r, p, loop.turn)
              /\ watch' = [watch EXCEPT ![r] = w]
              /\ UNCHANGED <<saved, guest, channel, clock, draining, spawned, refused>>
              /\ loop' = [loop EXCEPT !.pc = "judge",
                                      !.verdict = IF TooMany(status'.of[r].probe.failures)
                                                  THEN "unhealthy" ELSE "none"]
          BY Zenon, <2>1, <2>3, <3>3 DEF MarkSignal
        <4>1. /\ p \in ReplicaStates /\ ReplicaOk(r, p)
              /\ p.attempt = status.of[r].attempt /\ p.run = status.of[r].run /\ p.probe.seq = s.seq
              /\ p.phase = IF s.kind = "ready" THEN "running" ELSE status.of[r].phase
          <5>1. status.of[r] \in ReplicaStates /\ ReplicaOk(r, status.of[r])
                /\ status.of[r].phase \in {"starting", "running"}
            BY Zenon, <1>0, <1>1
          <5> QED
            BY ZenonT(40), <3>1, <5>1, HeardOk
        <4>2. w \in Watches /\ w.on /\ w.digest = s.seq
          <5>1. s.seq \in Nat
            BY Zenon, <3>1 DEF Signals
          <5> QED
            BY Zenon, <1>0, <1>1, <5>1 DEF Watches, Listened
        <4> HIDE DEF p, w, s
        <4>3. status'.of[r] = p
          BY <1>0, <4>0, <4>1, WithIs, SMTT(30)
        <4>4. loop' = [loop EXCEPT !.pc = "judge", !.verdict = verdict]
          BY Zenon, <4>0, <4>3
        <4>5. /\ verdict \in {"none", "counted", "unhealthy"}
              /\ TooMany(p.probe.failures) => verdict = "unhealthy"
          BY Zenon
        <4>6. WatchOk(r, p, w, guest[r])
          <5>1. s.seq > 0 /\ p.probe.seq <= guest[r].seq
            <6>1. s.seq \in Nat /\ status.of[r].probe.seq \in Nat
              BY Zenon, <1>0, <3>1 DEF Signals, ReplicaStates, Probes
            <6> QED
              BY <3>1, <4>1, <6>1, SMTT(30)
          <5>2. p.phase \in {"starting", "running"}
            BY Zenon, <1>1, <4>1
          <5>3. r \in Probed /\ p.phase = "running" => guest[r].wasReady
            BY Zenon, <1>0, <1>1, <3>1, <4>1 DEF WatchOk
          <5> QED
            BY Zenon, <1>1, <4>1, <4>2, <5>1, <5>2, <5>3 DEF WatchOk
        <4> HIDE DEF verdict
        <4> QED
          BY Zenon, <1>0, <4>0, <4>1, <4>2, <4>4, <4>5, <4>6, NotedKeeps
      <3> QED
        BY Zenon, <3>2, <3>3
    <2> QED
      BY Zenon, <2>2, <2>3
  <1> QED
    BY Zenon, <1>3, <1>4

\* A heartbeat that did not come counts.
LEMMA MissedHeartbeatKeeps ==
    ASSUME SupervisorInv, NEW r \in Replicas, MissedHeartbeat(r)
    PROVE  SupervisorInv'
  <1>0. /\ loop.pc = "judge" /\ loop.at = {r} /\ loop.pc \in {"open", "judge"}
        /\ status \in Statuses /\ status.of[r] \in ReplicaStates /\ ReplicaOk(r, status.of[r])
        /\ loop \in Loops /\ loop.turn \in Nat /\ watch[r] \in Watches /\ watch[r].checks
        /\ WatchOk(r, status.of[r], watch[r], guest[r])
    BY Zenon, SupervisorHas DEF MissedHeartbeat
  <1>1. /\ watch[r].on /\ Live(status, r)
        /\ status.of[r].phase \in {"starting", "running"} /\ status.of[r].run = guest[r].run
    BY Zenon, <1>0, AtIsWatched
  <1>2. TimeoutRefusal(status, r, loop.turn) \subseteq {"clock"}
    BY Zenon, <1>1 DEF TimeoutRefusal
  <1>3. CASE TimeoutRefusal(status, r, loop.turn) # {}
    BY Zenon, <1>2, <1>3, FailsKeeps DEF MissedHeartbeat
  <1>4. CASE TimeoutRefusal(status, r, loop.turn) = {}
    <2> DEFINE p == Missed(status.of[r])
               verdict == IF TooMany(p.probe.failures) THEN "unhealthy" ELSE "counted"
    <2>0. /\ status' = With(status, r, p, loop.turn)
          /\ loop' = [loop EXCEPT !.verdict = IF TooMany(status'.of[r].probe.failures)
                                              THEN "unhealthy" ELSE "counted"]
          /\ UNCHANGED <<saved, guest, channel, watch, clock, draining, spawned, refused>>
      BY Zenon, <1>4 DEF MissedHeartbeat, MarkTimeout
    <2>1. status.of[r].probe.seq > 0
      BY Zenon, <1>0, <1>1 DEF WatchOk
    <2>2. /\ p \in ReplicaStates /\ ReplicaOk(r, p) /\ p.attempt = status.of[r].attempt
          /\ p.run = status.of[r].run /\ p.phase = status.of[r].phase
          /\ p.probe.seq = status.of[r].probe.seq
      BY ZenonT(40), <1>0, <1>1, <2>1, MissedOk
    <2> HIDE DEF p
    <2>3. status'.of[r] = p
      BY <1>0, <2>0, <2>2, WithIs, SMTT(30)
    <2>4. /\ verdict \in {"none", "counted", "unhealthy"}
          /\ TooMany(p.probe.failures) => verdict = "unhealthy"
          /\ loop' = [loop EXCEPT !.verdict = verdict]
      BY Zenon, <2>0, <2>3
    <2> HIDE DEF verdict
    <2>5. loop' = [loop EXCEPT !.pc = "judge", !.verdict = verdict]
      BY Zenon, <1>0, <2>4 DEF Loops
    <2>6. watch' = [watch EXCEPT ![r] = watch[r]]
      BY Zenon, <2>0 DEF SupervisorInv, SupervisorTypes
    <2>7. WatchOk(r, p, watch[r], guest[r])
      BY Zenon, <1>0, <2>2 DEF WatchOk
    <2> QED
      BY Zenon, <1>0, <1>1, <2>0, <2>2, <2>4, <2>5, <2>6, <2>7, NotedKeeps
  <1> QED
    BY Zenon, <1>3, <1>4

-----------------------------------------------------------------------------
\* A start is within the budget, and saved before the worker exists.
LEMMA StartKeeps ==
    ASSUME SupervisorInv, NEW r \in Replicas, Start(r)
    PROVE  SupervisorInv'
  <1>0. /\ loop.pc = "start" /\ r \notin Watched
        /\ status \in Statuses /\ status.of[r] \in ReplicaStates /\ ReplicaOk(r, status.of[r])
        /\ status.of[r].phase \in {"pending", "backoff"}
        /\ loop \in Loops /\ loop.turn \in Nat /\ Counted(r) /\ Writes(r)
    BY Zenon, SupervisorHas DEF Start, MayStart, Eligible
  <1> DEFINE p == [phase |-> "starting", attempt |-> status.of[r].attempt + 1,
                   run |-> status.of[r].attempt + 1, finished |-> 0, next |-> 0, probe |-> Waiting]
  <1>1. p \in ReplicaStates /\ ReplicaOk(r, p) /\ status.of[r].attempt <= MaxRestarts
    BY Zenon, <1>0, StartedOk
  <1>2. status.of[r].attempt \in Nat /\ spawned[r] \in Nat
    BY Zenon, <1>0, SupervisorHas DEF ReplicaStates
  <1>3. StartRefusal(status, r, loop.turn) \subseteq {"clock"}
    <2>1. ~(status.of[r].attempt + 1 > MaxRestarts + 1)
      BY <1>1, <1>2, SupervisorAssumption
    <2> QED
      BY Zenon, <2>1 DEF StartRefusal
  <1>4. CASE StartRefusal(status, r, loop.turn) # {}
    BY Zenon, <1>3, <1>4, FailsKeeps DEF Start
  <1>5. CASE StartRefusal(status, r, loop.turn) = {}
    <2>0. /\ status' = With(status, r, p, loop.turn) /\ saved' = status'
          /\ loop' = [loop EXCEPT !.pc = "spawn", !.at = {r}]
          /\ UNCHANGED <<guest, channel, watch, clock, draining, spawned, refused>>
      BY Zenon, <1>5 DEF Start, BeginStart, FreshProbe
    <2>1. p.phase = "starting" /\ p.run = p.attempt /\ p.probe = Waiting /\ p.attempt = status.of[r].attempt + 1
      BY Zenon
    <2> HIDE DEF p
    <2>2. /\ status' \in Statuses /\ status'.of[r] = p
          /\ \A q \in Replicas : q # r => status'.of[q] = status.of[q]
      BY <1>0, <1>1, <2>0, WithIs, SMTT(30)
    <2>3. loop' \in Loops /\ loop'.pc = "spawn" /\ loop'.at = {r}
      BY Zenon, <1>0, <2>0 DEF Loops
    <2>4. spawned[r] < p.attempt /\ spawned[r] <= p.attempt
      BY <1>0, <1>2, <2>1 DEF Counted
    <2>5. ~watch[r].on /\ guest[r].state # "alive"
      BY Zenon, <1>0 DEF Watched, Counted
    <2>6. SupervisorTypes /\ loop.pc # "off" /\ loop.pc # "judge" /\ \A f \in channel : Current(f)
      BY Zenon, <1>0 DEF SupervisorInv
    <2>7. Only(r)
      BY Zenon, <2>0, <2>2, <2>3, <2>6 DEF Only, SupervisorTypes
    <2>8. Local(r)
      <3>1. \A f \in channel' : f.id # r
        BY Zenon, <2>0, <2>5, <2>6 DEF Current
      <3>2. WatchOk(r, status'.of[r], watch'[r], guest'[r]) /\ Patient(r)'
        BY Zenon, <2>0, <2>5 DEF WatchOk, Patient
      <3> QED
        BY Zenon, <1>0, <1>1, <2>0, <2>2, <2>4, <2>5, <3>1, <3>2 DEF Local, Writes
    <2>9. LoopInv'
      <3>1. Watched' = Watched
        BY Zenon, <2>0 DEF Watched
      <3>2. /\ r \in Replicas \ Watched' /\ loop'.at = {r}
            /\ status'.of[r].phase = "starting" /\ status'.of[r].run = status'.of[r].attempt
            /\ status'.of[r].probe = Waiting /\ spawned'[r] < status'.of[r].attempt
        BY Zenon, <1>0, <2>0, <2>1, <2>2, <2>3, <2>4, <3>1
      <3>3. loop'.pc \notin {"off", "done", "poll", "open", "judge"}
        BY Zenon, <2>3
      <3> QED
        BY Zenon, <3>2, <3>3 DEF LoopInv
    <2> QED
      BY Zenon, <2>7, <2>8, <2>9, LocalKeeps
  <1> QED
    BY Zenon, <1>4, <1>5

\* The worker of the start that was saved, or its failure.
LEMMA SpawnKeeps ==
    ASSUME SupervisorInv, NEW r \in Replicas, NEW works \in BOOLEAN, Spawn(r, works)
    PROVE  SupervisorInv'
  <1>0. /\ loop.pc = "spawn" /\ loop.at = {r} /\ loop.pc # "off" /\ loop.pc # "judge"
        /\ status \in Statuses /\ status.of[r] \in ReplicaStates /\ ReplicaOk(r, status.of[r])
        /\ loop \in Loops /\ loop.turn \in Nat /\ Counted(r) /\ Writes(r) /\ SupervisorTypes
        /\ spawned[r] \in Nat
    BY Zenon, SupervisorHas DEF Spawn, SupervisorInv
  <1>1. /\ r \notin Watched /\ ~watch[r].on
        /\ status.of[r].phase = "starting" /\ status.of[r].run = status.of[r].attempt
        /\ status.of[r].probe = Waiting /\ spawned[r] < status.of[r].attempt
    <2>1. PICK q \in Replicas \ Watched :
             /\ loop.at = {q}
             /\ status.of[q].phase = "starting" /\ status.of[q].run = status.of[q].attempt
             /\ status.of[q].probe = Waiting /\ spawned[q] < status.of[q].attempt
      BY Zenon, <1>0 DEF SupervisorInv, LoopInv
    <2>2. q = r
      BY Zenon, <1>0, <2>1
    <2> QED
      BY Zenon, <2>1, <2>2 DEF Watched
  <1>2. \A f \in channel : f.id # r
    BY Zenon, <1>0, <1>1 DEF SupervisorInv, Current
  <1>3. Report(r, status.of[r].run) = {}
    BY Zenon, <1>2 DEF Report
  <1>4. /\ loop' = [loop EXCEPT !.pc = "record", !.at = {}]
        /\ UNCHANGED <<saved, channel, clock, draining, refused>>
    BY Zenon, <1>3 DEF Spawn
  <1>5. loop' \in Loops /\ loop'.pc = "record"
    BY Zenon, <1>0, <1>4 DEF Loops
  <1>6. LoopInv'
    BY ZenonT(40), <1>5 DEF LoopInv
  <1>7. /\ spawned[r] <= status.of[r].attempt /\ spawned[r] + 1 <= status.of[r].attempt
        /\ spawned[r] + 1 \in Nat
    <2>1. status.of[r].attempt \in Nat
      BY Zenon, <1>0 DEF ReplicaStates
    <2> QED
      BY <1>0, <1>1, <2>1, SMTT(30)
  <1>8. CASE works
    <2> DEFINE p == IF RunsAtOnce(r) THEN [status.of[r] EXCEPT !.phase = "running"] ELSE status.of[r]
               g == [NoGuest EXCEPT !.run = status.of[r].run, !.state = "alive"]
               w == [None EXCEPT !.on = TRUE]
    <2>0. /\ status' = IF RunsAtOnce(r) THEN MarkRunning(status, r, loop.turn) ELSE status
          /\ guest' = [guest EXCEPT ![r] = g]
          /\ watch' = [watch EXCEPT ![r] = w]
          /\ spawned' = [spawned EXCEPT ![r] = @ + 1]
      BY Zenon, <1>3, <1>8 DEF Spawn
    <2>1. /\ p \in ReplicaStates /\ ReplicaOk(r, p) /\ p.attempt = status.of[r].attempt
          /\ p.run = status.of[r].run /\ p.probe = Waiting
          /\ p.phase \in {"starting", "running"} /\ (r \in Probed => p.phase = "starting")
      <3>1. CASE RunsAtOnce(r)
        BY Zenon, <1>0, <1>1, <3>1, RunningOk DEF RunsAtOnce
      <3>2. CASE ~RunsAtOnce(r)
        BY Zenon, <1>0, <1>1, <3>2
      <3> QED
        BY Zenon, <3>1, <3>2
    <2>2. /\ status' \in Statuses /\ status'.of[r] = p
          /\ \A q \in Replicas : q # r => status'.of[q] = status.of[q]
      <3>1. CASE RunsAtOnce(r)
        <4>1. status' = With(status, r, p, loop.turn)
          BY Zenon, <2>0, <3>1 DEF MarkRunning
        <4> HIDE DEF p
        <4> QED
          BY <1>0, <2>1, <4>1, WithIs, SMTT(30)
      <3>2. CASE ~RunsAtOnce(r)
        BY Zenon, <1>0, <2>0, <3>2
      <3> QED
        BY ZenonT(40), <3>1, <3>2
    <2> HIDE DEF p
    <2>3. /\ g \in Guests /\ g.run = status.of[r].run /\ g.seq = 0 /\ g.writing = "no"
      <3>1. status.of[r].run \in Nat
        BY Zenon, <1>0 DEF ReplicaStates
      <3> QED
        BY Zenon, <3>1 DEF NoGuest, Guests
    <2>4. w \in Watches /\ w.on /\ w.digest = 0 /\ ~w.checks
      BY Zenon DEF None, Watches
    <2> HIDE DEF g, w
    <2>5. /\ guest' \in [Replicas -> Guests] /\ guest'[r] = g
          /\ \A q \in Replicas \ {r} : guest'[q] = guest[q]
      BY Zenon, <1>0, <2>0, <2>3 DEF SupervisorTypes
    <2>6. /\ watch' \in [Replicas -> Watches] /\ watch'[r] = w
          /\ \A q \in Replicas \ {r} : watch'[q] = watch[q]
      BY Zenon, <1>0, <2>0, <2>4 DEF SupervisorTypes
    <2>7. /\ spawned' \in [Replicas -> Nat] /\ spawned'[r] = spawned[r] + 1
          /\ \A q \in Replicas \ {r} : spawned'[q] = spawned[q]
      BY Zenon, <1>0, <1>7, <2>0 DEF SupervisorTypes
    <2>8. Only(r)
      BY Zenon, <1>0, <1>4, <1>5, <2>2, <2>5, <2>6, <2>7 DEF Only, SupervisorTypes
    <2>9. Local(r)
      <3>1. p.probe.seq = 0 /\ p.probe.failures < Threshold /\ 0 <= 0
        BY <2>1, SupervisorAssumption DEF Waiting
      <3>2. "running" # "starting"
        BY Zenon
      <3>3. WatchOk(r, p, w, g)
        BY Zenon, <2>1, <2>3, <2>4, <3>1, <3>2 DEF WatchOk
      <3>4. Patient(r)' /\ Writes(r)'
        BY Zenon, <2>2, <2>3, <2>5, <3>1 DEF Patient, Writes
      <3> QED
        BY Zenon, <1>2, <1>4, <1>7, <2>1, <2>2, <2>4, <2>5, <2>6, <2>7, <3>3, <3>4 DEF Local
    <2> QED
      BY Zenon, <1>6, <2>8, <2>9, LocalKeeps
  <1>9. CASE ~works
    <2> DEFINE p == Finished(status.of[r], r, FALSE, loop.turn)
    <2>0. /\ status' = With(status, r, p, loop.turn) /\ UNCHANGED <<guest, watch, spawned>>
      BY Zenon, <1>3, <1>9 DEF Spawn, MarkExit
    <2>1. p \in ReplicaStates /\ ReplicaOk(r, p) /\ p.attempt = status.of[r].attempt
      BY ZenonT(40), <1>0, <1>1, FinishedOk
    <2> HIDE DEF p
    <2>2. /\ status' \in Statuses /\ status'.of[r] = p
          /\ \A q \in Replicas : q # r => status'.of[q] = status.of[q]
      BY <1>0, <2>0, <2>1, WithIs, SMTT(30)
    <2>3. Only(r)
      BY Zenon, <1>0, <1>4, <1>5, <2>0, <2>2 DEF Only, SupervisorTypes
    <2>4. Local(r)
      <3>1. WatchOk(r, status'.of[r], watch'[r], guest'[r]) /\ Patient(r)'
        BY Zenon, <1>1, <2>0 DEF WatchOk, Patient
      <3> QED
        BY Zenon, <1>0, <1>1, <1>2, <1>4, <1>7, <2>0, <2>1, <2>2, <3>1 DEF Local, Writes, Counted
    <2> QED
      BY Zenon, <1>6, <2>3, <2>4, LocalKeeps
  <1> QED
    BY Zenon, <1>8, <1>9

-----------------------------------------------------------------------------
LEMMA SupervisorInitOk ==
    ASSUME SupervisorInit
    PROVE  SupervisorInv
  <1> DEFINE p == [phase |-> "pending", attempt |-> 0, run |-> 0, finished |-> 0, next |-> 0, probe |-> Waiting]
  <1>1. /\ p \in ReplicaStates /\ p.attempt = 0 /\ \A r \in Replicas : ReplicaOk(r, p)
    BY SupervisorAssumption DEF ReplicaStates, Probes, ReplicaOk, ValidReplica, ValidProbe, Waiting, WorkerPhases
  <1>2. FromPlan(0) \in Statuses /\ \A r \in Replicas : FromPlan(0).of[r] = p
    <2> HIDE DEF p
    <2> QED
      BY Zenon, <1>1 DEF FromPlan, Statuses, p
  <1>3. NoGuest \in Guests /\ NoGuest.state # "alive" /\ NoGuest.writing = "no"
    BY Zenon DEF NoGuest, Guests
  <1>4. None \in Watches /\ ~None.on
    BY Zenon DEF None, Watches
  <1>5. loop \in Loops /\ loop.pc = "off"
    BY Zenon DEF SupervisorInit, Loops
  <1> HIDE DEF p
  <1>6. SupervisorTypes
    <2>1. guest \in [Replicas -> Guests] /\ watch \in [Replicas -> Watches] /\ spawned \in [Replicas -> Nat]
      BY Zenon, <1>3, <1>4 DEF SupervisorInit
    <2>2. clock \in Nat
      BY Zenon DEF SupervisorInit
    <2> QED
      BY Zenon, <1>2, <1>5, <2>1, <2>2 DEF SupervisorInit, SupervisorTypes
  <1>7. ASSUME NEW r \in Replicas
        PROVE  /\ ReplicaOk(r, status.of[r]) /\ ReplicaOk(r, saved.of[r])
               /\ WatchOk(r, status.of[r], watch[r], guest[r])
               /\ Counted(r) /\ Patient(r) /\ Writes(r)
    <2>1. status.of[r] = p /\ saved.of[r] = p /\ guest[r] = NoGuest /\ watch[r] = None /\ spawned[r] = 0
      BY Zenon, <1>2 DEF SupervisorInit
    <2>2. 0 <= 0
      OBVIOUS
    <2> QED
      BY Zenon, <1>1, <1>3, <1>4, <2>1, <2>2 DEF WatchOk, Counted, Patient, Writes
  <1>8. LoopInv
    <2>1. Watched = {}
      BY Zenon, <1>4 DEF SupervisorInit, Watched
    <2> QED
      BY Zenon, <1>5, <2>1 DEF LoopInv
  <1>9. refused \subseteq {"clock"}
    BY Zenon DEF SupervisorInit
  <1> QED
    BY Zenon, <1>5, <1>6, <1>7, <1>8, <1>9 DEF SupervisorInv

LEMMA SupervisorNextKeeps ==
    ASSUME SupervisorInv, [SupervisorNext]_supervisorVars
    PROVE  SupervisorInv'
  <1>1. CASE UNCHANGED supervisorVars
    <2>1. /\ UNCHANGED <<status, saved, guest, channel, watch, loop, clock, draining, spawned, refused>>
          /\ status \in Statuses /\ clock \in Nat /\ draining \subseteq Replicas /\ loop \in Loops /\ LoopInv
      BY Zenon, <1>1 DEF supervisorVars, SupervisorInv, SupervisorTypes
    <2>2. LoopInv'
      BY Zenon, <2>1 DEF LoopInv, Watched
    <2> QED
      BY Zenon, <2>1, <2>2, LoopMoves
  <1>2. CASE CalmNext
    <2>1. CASE ClockTicks
      BY Zenon, <2>1, QuietKeeps
    <2>2. CASE LoopNext
      <3>1. CASE Boot
        BY Zenon, <3>1, BootKeeps
      <3>2. CASE Turn \/ Drained \/ PersistStatus \/ EndTurn \/ \E due \in BOOLEAN : Beat(due)
        BY Zenon, <3>2, QuietKeeps
      <3>3. ASSUME NEW r \in Replicas, Stat(r) \/ Open(r) \/ Judge(r) \/ Start(r) \/ Spawn(r, TRUE)
            PROVE  SupervisorInv'
        BY Zenon, <3>3, QuietKeeps, OpenKeeps, JudgeKeeps, StartKeeps, SpawnKeeps
      <3> QED
        BY Zenon, <2>2, <3>1, <3>2, <3>3 DEF LoopNext
    <2>3. CASE \E r \in Replicas : GuestNext(r)
      BY Zenon, <2>3, GuestsKeep
    <2> QED
      BY Zenon, <1>2, <2>1, <2>2, <2>3 DEF CalmNext
  <1>3. CASE MishapNext
    <2>1. CASE Dies
      BY Zenon, <2>1, DiesKeeps
    <2>2. CASE Interrupted
      BY Zenon, <2>2, InterruptedKeeps
    <2>3. ASSUME NEW r \in Replicas,
                 Instruct(r) \/ Drain(r) \/ Expire(r) \/ MissedHeartbeat(r) \/ Spawn(r, FALSE)
          PROVE  SupervisorInv'
      BY Zenon, <2>3, QuietKeeps, DrainKeeps, ExpireKeeps, MissedHeartbeatKeeps, SpawnKeeps
    <2> QED
      BY Zenon, <1>3, <2>1, <2>2, <2>3 DEF MishapNext
  <1> QED
    BY Zenon, <1>1, <1>2, <1>3 DEF SupervisorNext

LEMMA SupervisorInvHolds ==
    SupervisorSpec => []SupervisorInv
  <1>1. SupervisorInit => SupervisorInv
    BY Zenon, SupervisorInitOk
  <1>2. SupervisorInv /\ [SupervisorNext]_supervisorVars => SupervisorInv'
    BY Zenon, SupervisorNextKeeps
  <1> QED
    BY <1>1, <1>2, PTL DEF SupervisorSpec

\* For every set of replicas, probe and restart policy, budget and threshold, and
\* every order of reports, deadlines, exits, drains, interrupts and deaths: the
\* status that mark_exit, begin_start, mark_running, mark_probe_signal,
\* mark_probe_timeout, mark_drained and recover_interrupted build is valid, and
\* none of them refuses for another reason than a clock that went back.
THEOREM BookkeepingNeverRefuses ==
    SupervisorSpec => []OnlyTheClockRefuses
  <1>1. SupervisorInv => OnlyTheClockRefuses
    BY Zenon DEF SupervisorInv, ReplicaOk, OnlyTheClockRefuses
  <1> QED
    BY <1>1, SupervisorInvHolds, PTL

\* In all of them spawn_stack_worker starts at most max_restarts + 1 workers of a
\* replica, none is alive that ActiveStackWorkers does not hold, none with a probe
\* is running before its ready report was accepted, and none outlives a turn in
\* which it reached failure_threshold.
THEOREM WorkersAlwaysObeyPolicy ==
    SupervisorSpec => []WorkersObeyPolicy
  <1>1. ASSUME SupervisorInv, NEW r \in Replicas
        PROVE  /\ spawned[r] <= MaxRestarts + 1
               /\ guest[r].state = "alive" => watch[r].on
               /\ r \in Probed \cap Watched /\ status.of[r].phase = "running" => guest[r].wasReady
               /\ r \in Watched /\ loop.pc = "top" => status.of[r].probe.failures < Threshold
    <2>1. /\ status.of[r] \in ReplicaStates /\ spawned[r] \in Nat
          /\ ReplicaOk(r, status.of[r]) /\ WatchOk(r, status.of[r], watch[r], guest[r])
          /\ Counted(r) /\ Patient(r)
      BY ZenonT(40), <1>1, SupervisorHas
    <2>2. spawned[r] <= MaxRestarts + 1
      <3>1. /\ spawned[r] <= status.of[r].attempt /\ status.of[r].attempt <= MaxRestarts + 1
            /\ status.of[r].attempt \in Nat
        BY Zenon, <2>1 DEF Counted, ReplicaOk, ValidReplica, ReplicaStates
      <3> QED
        BY <2>1, <3>1, SupervisorAssumption, SMTT(30)
    <2>3. "top" # "judge"
      BY Zenon
    <2> QED
      BY Zenon, <2>1, <2>2, <2>3 DEF Counted, Patient, WatchOk, Watched
  <1>2. SupervisorInv => WorkersObeyPolicy
    BY Zenon, <1>1 DEF WorkersObeyPolicy
  <1> QED
    BY <1>2, SupervisorInvHolds, PTL
=============================================================================
