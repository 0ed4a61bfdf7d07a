------------------------- MODULE ReplicaSupervisor -------------------------
(* The supervisor of one generation: the loop that reads the health        *)
(* reports of its workers, judges them, records their exits, saves the     *)
(* status and starts the replicas that may start; the guests that report   *)
(* and exit on their own; and the deaths of the supervisor.                *)
(*                                                                         *)
(* Every change of the status carries a wall clock time, and the status    *)
(* refuses a time before the last one. The loop takes the time once, at    *)
(* its top ("turn"), and again where the code reads the clock anew. The    *)
(* deadlines of the loop are on another clock: they may pass at any time.  *)
EXTENDS Naturals, FiniteSets

CONSTANTS Replicas,    \* the replicas of the generation
          Probed,      \* those of an instance with a health policy
          Restart,     \* per replica: "never", "on-failure" or "always"
          MaxRestarts, \* max_restarts
          Threshold,   \* failure_threshold
          MaxWorkers,  \* max_workers
          MaxReports,  \* bound: health reports of a run
          MaxClock,    \* bound: the wall clock
          MaxBoots     \* bound: supervisors started one after the other

ASSUME SupervisorAssumption ==
    /\ Probed \subseteq Replicas
    /\ Restart \in [Replicas -> {"never", "on-failure", "always"}]
    /\ MaxRestarts \in Nat /\ Threshold \in Nat \ {0} /\ MaxWorkers \in Nat \ {0}
    /\ MaxReports \in Nat /\ MaxClock \in Nat /\ MaxBoots \in Nat

VARIABLES status,    \* StackRuntimeStatus in memory
          saved,     \* runtime.json
          guest,     \* per replica: the last worker process
          channel,   \* the health reports on disk
          watch,     \* per replica: ActiveStackWorker, or None
          loop,      \* the supervisor: its step and its local variables
          clock,     \* the wall clock
          draining,  \* replicas the rollout asks to drain
          spawned,   \* history: workers started per replica
          refused    \* history: why supervisors ended with an error

supervisorVars == <<status, saved, guest, channel, watch, loop, clock, draining, spawned, refused>>

Reports == {"started", "ready", "heartbeat", "unhealthy"}
None == [on |-> FALSE, first |-> FALSE, ready |-> FALSE, checks |-> FALSE, digest |-> 0]

Waiting == [phase |-> "waiting", seq |-> 0, failures |-> 0]

\* StackRuntimeStatus::from_plan for a plan that wants every replica running.
FromPlan(t) ==
    [observed |-> t,
     of |-> [r \in Replicas |-> [phase |-> "pending", attempt |-> 0, run |-> 0,
                                 finished |-> 0, next |-> 0, probe |-> Waiting]]]

NoGuest == [run |-> 0, state |-> "none", success |-> FALSE, seq |-> 0, writing |-> "no", wasReady |-> FALSE,
            last |-> "none"]

SupervisorInit ==
    /\ status = FromPlan(0)
    /\ saved = FromPlan(0)
    /\ guest = [r \in Replicas |-> NoGuest]
    /\ channel = {}
    /\ watch = [r \in Replicas |-> None]
    /\ loop = [pc |-> "off", turn |-> 0, todo |-> {}, at |-> {}, verdict |-> "none", boots |-> 0]
    /\ clock = 0
    /\ draining = {}
    /\ spawned = [r \in Replicas |-> 0]
    /\ refused = {}

----------------------------------------------------------------------------
(* Operations of the status: the result, or why it is refused.             *)

Live(st, r) == st.of[r].phase \in {"starting", "running"}

\* restart_backoff_ms is at least one tick.
Backoff == 1

\* One replica is changed, at time t.
With(st, r, p, t) == [observed |-> t, of |-> [st.of EXCEPT ![r] = p]]

\* finish_replica.
Finished(p, r, success, t) ==
    LET again == Restart[r] = "always" \/ (Restart[r] = "on-failure" /\ ~success)
        room == p.attempt < MaxRestarts + 1
    IN  [p EXCEPT !.run = 0,
                  !.finished = t,
                  !.phase = IF again THEN IF room THEN "backoff" ELSE "exhausted"
                            ELSE IF success THEN "succeeded" ELSE "failed",
                  !.next = IF again /\ room THEN t + Backoff ELSE 0]

\* mark_exit.
MarkExit(st, r, run, success, t) == With(st, r, Finished(st.of[r], r, success, t), t)
ExitRefusal(st, r, run, t) ==
    IF t < st.observed THEN {"clock"}
    ELSE IF ~Live(st, r) \/ st.of[r].run # run THEN {"stale"} ELSE {}

\* The probe state of a new run.
FreshProbe(st, r) == Waiting

\* begin_start.
BeginStart(st, r, t) ==
    With(st, r, [phase |-> "starting", attempt |-> st.of[r].attempt + 1, run |-> st.of[r].attempt + 1,
                 finished |-> 0, next |-> 0, probe |-> FreshProbe(st, r)], t)
StartRefusal(st, r, t) ==
    IF t < st.observed THEN {"clock"}
    ELSE IF st.of[r].attempt + 1 > MaxRestarts + 1 THEN {"budget"} ELSE {}

\* eligible_starts.
Eligible(st, r, t) ==
    \/ st.of[r].phase = "pending"
    \/ st.of[r].phase = "backoff" /\ st.of[r].next <= t

\* mark_running.
MarkRunning(st, r, t) == With(st, r, [st.of[r] EXCEPT !.phase = "running"], t)

\* mark_probe_signal.
Heard(p, report) ==
    CASE report.kind = "ready" ->
             [p EXCEPT !.probe = [phase |-> "ready", seq |-> report.seq, failures |-> 0], !.phase = "running"]
      [] report.kind = "unhealthy" ->
             [p EXCEPT !.probe = [phase |-> "unhealthy", seq |-> report.seq, failures |-> @.failures + 1]]
      [] OTHER -> [p EXCEPT !.probe = [@ EXCEPT !.seq = report.seq]]
MarkSignal(st, r, report, t) == With(st, r, Heard(st.of[r], report), t)
SignalRefusal(st, r, report, t) ==
    IF t < st.observed THEN {"clock"}
    ELSE IF ~Live(st, r) \/ st.of[r].run # report.run THEN {"stale"}
    ELSE IF report.seq <= st.of[r].probe.seq THEN {"replayed"} ELSE {}

\* mark_probe_timeout.
Missed(p) == [p EXCEPT !.probe = [phase |-> "unhealthy", seq |-> @.seq, failures |-> @.failures + 1]]
MarkTimeout(st, r, t) == With(st, r, Missed(st.of[r]), t)
TimeoutRefusal(st, r, t) ==
    IF t < st.observed THEN {"clock"} ELSE IF ~Live(st, r) THEN {"stale"} ELSE {}

\* mark_drained.
MarkDrained(st, r, t) ==
    With(st, r, [st.of[r] EXCEPT !.phase = "stopped", !.run = 0, !.finished = t, !.next = 0], t)

ProbeReady(st, r) == r \notin Probed \/ st.of[r].probe.phase = "ready"

\* recover_interrupted.
RecoveredStatus(st, t) ==
    [observed |-> IF \E r \in Replicas : Live(st, r) THEN t ELSE st.observed,
     of |-> [r \in Replicas |-> IF Live(st, r) THEN Finished(st.of[r], r, FALSE, t) ELSE st.of[r]]]

\* validate_replica and validate_probe_runtime: what refresh checks after
\* every operation.
ValidReplica(p) ==
    /\ p.attempt <= MaxRestarts + 1
    /\ p.phase \in {"starting", "running"} => p.attempt > 0 /\ p.run # 0 /\ p.next = 0
    /\ p.phase = "backoff" => p.attempt > 0 /\ p.run = 0 /\ p.next > p.finished
    /\ p.phase = "pending" => p.attempt = 0 /\ p.run = 0 /\ p.next = 0
    /\ p.phase \in {"succeeded", "failed", "exhausted"} => p.attempt > 0 /\ p.next = 0
    /\ p.phase \notin {"starting", "running"} => p.run = 0
ValidProbe(p) ==
    /\ p.probe = Waiting \/ p.probe.seq > 0
    /\ p.probe.phase = "ready" => p.probe.failures = 0
    /\ p.probe.phase = "unhealthy" => p.probe.failures > 0
    /\ p.phase = "running" => p.probe.phase # "waiting"
    /\ p.phase = "starting" => p.probe.phase # "ready"

----------------------------------------------------------------------------
(* Guests.                                                                 *)

\* replica_probe_path: every run of a replica has a file of its own.
Report(r, run) == {f \in channel : f.id = r /\ f.run = run}

\* ProbeSignal, and ProbeEnvelope: an envelope opens for the run it is bound to
\* and that its signal names.
Signal(r) == [run |-> guest[r].run, seq |-> guest[r].seq, kind |-> guest[r].writing]
Sealed(r, signal) == [id |-> r, run |-> signal.run, signal |-> signal]
OpensFor(run, envelope) == envelope.run = run /\ envelope.signal.run = run

\* FileHealthReporter::report and write_probe_replace: the report before is
\* removed, and the new one renamed into place.
StartReport(r, kind) ==
    /\ r \in Probed /\ guest[r].state = "alive" /\ guest[r].writing = "no"
    /\ guest[r].seq < MaxReports
    /\ guest' = [guest EXCEPT ![r].seq = @ + 1, ![r].writing = kind]
    /\ channel' = channel \ Report(r, guest[r].run)
    /\ UNCHANGED <<status, saved, watch, loop, clock, draining, spawned, refused>>

FinishReport(r) ==
    /\ guest[r].state = "alive" /\ guest[r].writing # "no"
    /\ guest' = [guest EXCEPT ![r].writing = "no", ![r].wasReady = @ \/ guest[r].writing = "ready",
                              ![r].last = guest[r].writing]
    /\ channel' = channel \cup {Sealed(r, Signal(r))}
    /\ UNCHANGED <<status, saved, watch, loop, clock, draining, spawned, refused>>

GuestExits(r, success) ==
    /\ guest[r].state = "alive"
    /\ guest' = [guest EXCEPT ![r].state = "exited", ![r].success = success]
    /\ UNCHANGED <<status, saved, channel, watch, loop, clock, draining, spawned, refused>>

Killed(r) == [guest EXCEPT ![r] = IF @.state = "alive" THEN NoGuest ELSE @]
AllKilled == [r \in Replicas |-> Killed(r)[r]]

ClockTicks ==
    /\ clock < MaxClock
    /\ clock' = clock + 1
    /\ UNCHANGED <<status, saved, guest, channel, watch, loop, draining, spawned, refused>>

----------------------------------------------------------------------------
(* The supervisor.                                                         *)

Watched == {r \in Replicas : watch[r].on}

\* prepare_runtime_status_for_generation.
Prepared == RecoveredStatus(saved, clock)

\* clear_probe_channels_for_generation.
ClearedChannels == {}

\* supervise_stack up to its loop.
Boot ==
    /\ loop.pc = "off" /\ loop.boots < MaxBoots
    /\ status' = Prepared
    /\ saved' = status'
    /\ channel' = ClearedChannels
    /\ watch' = [r \in Replicas |-> None]
    /\ loop' = [loop EXCEPT !.pc = "top", !.boots = @ + 1]
    /\ UNCHANGED <<guest, clock, draining, spawned, refused>>

\* An error leaves the loop: dropping ActiveStackWorkers ends the workers and
\* their channels; the status is not saved.
Fails(causes) ==
    /\ refused' = refused \cup causes
    /\ guest' = AllKilled
    /\ channel' = {}
    /\ watch' = [r \in Replicas |-> None]
    /\ loop' = [loop EXCEPT !.pc = "off", !.turn = 0, !.todo = {}, !.at = {}, !.verdict = "none"]
    /\ status' = saved
    /\ UNCHANGED <<saved, clock, draining, spawned>>

\* The process is killed; its workers follow it, their reports stay.
Dies ==
    /\ loop.pc \notin {"off", "done"}
    /\ guest' = AllKilled
    /\ watch' = [r \in Replicas |-> None]
    /\ loop' = [loop EXCEPT !.pc = "off", !.turn = 0, !.todo = {}, !.at = {}, !.verdict = "none"]
    /\ status' = saved
    /\ UNCHANGED <<saved, channel, clock, draining, spawned, refused>>

\* stop_active_workers after an interrupt.
Interrupted ==
    /\ loop.pc = "top"
    /\ status' = [observed |-> IF Watched = {} THEN status.observed ELSE clock,
                  of |-> [r \in Replicas |-> IF r \in Watched THEN Finished(status.of[r], r, FALSE, clock)
                                             ELSE status.of[r]]]
    /\ saved' = status'
    /\ guest' = AllKilled
    /\ channel' = {}
    /\ watch' = [r \in Replicas |-> None]
    /\ loop' = [loop EXCEPT !.pc = "off", !.turn = 0]
    /\ UNCHANGED <<clock, draining, spawned, refused>>

\* The top of the loop; the rollout controls are read now and then.
Turn ==
    /\ loop.pc = "top"
    /\ loop' = [loop EXCEPT !.pc = "drain", !.turn = clock]
    /\ UNCHANGED <<status, saved, guest, channel, watch, clock, draining, spawned, refused>>

Instruct(r) ==
    /\ draining' = draining \cup {r}
    /\ UNCHANGED <<status, saved, guest, channel, watch, loop, clock, spawned, refused>>

\* apply_rollout_drains, one replica: with the time of that moment.
Drain(r) ==
    /\ loop.pc = "drain"
    /\ r \in draining /\ status.of[r].phase # "stopped"
    /\ status' = MarkDrained(status, r, clock)
    /\ guest' = Killed(r)
    /\ channel' = {f \in channel : f.id # r}
    /\ watch' = [watch EXCEPT ![r] = None]
    /\ UNCHANGED <<saved, loop, clock, draining, spawned, refused>>

Drained ==
    /\ loop.pc = "drain"
    /\ \A r \in draining : status.of[r].phase = "stopped"
    /\ saved' = IF draining # {} THEN status ELSE saved
    /\ loop' = [loop EXCEPT !.pc = "poll", !.todo = Watched]
    /\ UNCHANGED <<status, guest, channel, watch, clock, draining, spawned, refused>>

\* poll_worker_probe, first half: is there a report?
Stat(r) ==
    /\ loop.pc = "poll" /\ r \in loop.todo
    /\ loop' = [loop EXCEPT !.at = {r}, !.todo = @ \ {r}, !.verdict = "none",
                            !.pc = IF Report(r, guest[r].run) = {} THEN "judge" ELSE "open"]
    /\ UNCHANGED <<status, saved, guest, channel, watch, clock, draining, spawned, refused>>

\* A poll that forgot which report it has seen.
UnseenAlways(r, f) == TRUE

\* The digest of the envelope before is remembered.
Unseen(r, f) == watch[r].digest # f.signal.seq

Listened(w, signal) ==
    [w EXCEPT !.digest = signal.seq, !.first = TRUE,
              !.ready = w.ready \/ signal.kind = "ready",
              !.checks = w.checks \/ w.ready \/ signal.kind = "ready"]

TooMany(failures) == failures >= Threshold

\* Second half: the file is opened and the signal applied with the time of the
\* turn. A report that vanished meanwhile counts as one that cannot be read.
Open(r) ==
    /\ loop.pc = "open" /\ loop.at = {r}
    /\ IF Report(r, guest[r].run) = {}
       THEN /\ loop' = [loop EXCEPT !.pc = "judge", !.verdict = "unreadable"]
            /\ UNCHANGED <<status, saved, guest, channel, watch, clock, draining, spawned, refused>>
       ELSE \E f \in Report(r, guest[r].run) :
            IF ~Unseen(r, f) \/ ~OpensFor(guest[r].run, f)
            THEN /\ loop' = [loop EXCEPT !.pc = "judge", !.verdict = IF Unseen(r, f) THEN "unreadable" ELSE "none"]
                 /\ UNCHANGED <<status, saved, guest, channel, watch, clock, draining, spawned, refused>>
            ELSE IF SignalRefusal(status, r, f.signal, loop.turn) # {}
            THEN Fails(SignalRefusal(status, r, f.signal, loop.turn))
            ELSE /\ status' = MarkSignal(status, r, f.signal, loop.turn)
                 /\ watch' = [watch EXCEPT ![r] = Listened(watch[r], f.signal)]
                 /\ loop' = [loop EXCEPT !.pc = "judge",
                                         !.verdict = IF TooMany(status'.of[r].probe.failures)
                                                     THEN "unhealthy" ELSE "none"]
                 /\ UNCHANGED <<saved, guest, channel, clock, draining, spawned, refused>>

\* mark_exit, and the worker leaves the table.
Leaves(st, r, success) ==
    IF ExitRefusal(st, r, guest[r].run, loop.turn) # {}
    THEN Fails(ExitRefusal(st, r, guest[r].run, loop.turn))
    ELSE /\ status' = MarkExit(st, r, guest[r].run, success, loop.turn)
         /\ guest' = Killed(r)
         /\ channel' = {f \in channel : f.id # r}
         /\ watch' = [watch EXCEPT ![r] = None]
         /\ loop' = [loop EXCEPT !.pc = "poll", !.at = {}, !.verdict = "none"]
         /\ UNCHANGED <<saved, clock, draining, spawned, refused>>

\* A deadline has passed: startup, first readiness, or that of the worker.
Expire(r) ==
    /\ loop.pc = "judge" /\ loop.at = {r} /\ loop.verdict = "none"
    /\ Leaves(status, r, FALSE)

\* The liveness deadline has passed: the failure counts, and is fatal at the
\* threshold.
MissedHeartbeat(r) ==
    /\ loop.pc = "judge" /\ loop.at = {r} /\ loop.verdict = "none"
    /\ watch[r].checks
    /\ IF TimeoutRefusal(status, r, loop.turn) # {} THEN Fails(TimeoutRefusal(status, r, loop.turn))
       ELSE /\ status' = MarkTimeout(status, r, loop.turn)
            /\ loop' = [loop EXCEPT !.verdict = IF TooMany(status'.of[r].probe.failures)
                                                THEN "unhealthy" ELSE "counted"]
            /\ UNCHANGED <<saved, guest, channel, watch, clock, draining, spawned, refused>>

\* The verdict, and try_wait: a worker that exited before it was ready has its
\* last report read once more, with the time of that moment.
Judge(r) ==
    /\ loop.pc = "judge" /\ loop.at = {r}
    /\ IF loop.verdict \in {"unreadable", "unhealthy"} THEN Leaves(status, r, FALSE)
       ELSE IF guest[r].state = "alive"
       THEN /\ loop' = [loop EXCEPT !.pc = "poll", !.at = {}, !.verdict = "none"]
            /\ UNCHANGED <<status, saved, guest, channel, watch, clock, draining, spawned, refused>>
       ELSE LET late == {f.signal : f \in {e \in Report(r, guest[r].run) :
                                         /\ OpensFor(guest[r].run, e)
                                         /\ Unseen(r, e) /\ ~ProbeReady(status, r)}}
                bad == UNION {SignalRefusal(status, r, f, clock) : f \in late}
                st == IF late = {} THEN status
                      ELSE MarkSignal(status, r, CHOOSE f \in late : TRUE, clock)
            IN  IF bad # {} THEN Fails(bad)
                ELSE Leaves(st, r, guest[r].success /\ ProbeReady(st, r))

\* The status is saved when something changed, and the heartbeat may be due.
Beat(due) ==
    /\ loop.pc = "poll" /\ loop.todo = {}
    /\ status' = IF due THEN [status EXCEPT !.observed = clock] ELSE status
    /\ saved' = status'
    /\ loop' = [loop EXCEPT !.pc = "start"]
    /\ UNCHANGED <<guest, channel, watch, clock, draining, spawned, refused>>

MayStart == {r \in Replicas \ (Watched \cup draining) : Eligible(status, r, loop.turn)}

\* A start that is saved only after the worker was started.
StartUnsaved(r) ==
    /\ loop.pc = "start" /\ Cardinality(Watched) < MaxWorkers /\ r \in MayStart
    /\ IF StartRefusal(status, r, loop.turn) # {} THEN Fails(StartRefusal(status, r, loop.turn))
       ELSE /\ status' = BeginStart(status, r, loop.turn)
            /\ loop' = [loop EXCEPT !.pc = "spawn", !.at = {r}]
            /\ UNCHANGED <<saved, guest, channel, watch, clock, draining, spawned, refused>>

\* begin_start is saved before the worker is started.
Start(r) ==
    /\ loop.pc = "start" /\ Cardinality(Watched) < MaxWorkers /\ r \in MayStart
    /\ IF StartRefusal(status, r, loop.turn) # {} THEN Fails(StartRefusal(status, r, loop.turn))
       ELSE /\ status' = BeginStart(status, r, loop.turn)
            /\ saved' = status'
            /\ loop' = [loop EXCEPT !.pc = "spawn", !.at = {r}]
            /\ UNCHANGED <<guest, channel, watch, clock, draining, spawned, refused>>

\* Only a worker without a probe runs as soon as it is started.
RunsAtOnce(r) == r \notin Probed

\* spawn_stack_worker: the worker runs, or the exit is recorded at once.
Spawn(r, works) ==
    /\ loop.pc = "spawn" /\ loop.at = {r}
    /\ LET run == status.of[r].run
       IN  IF Report(r, run) # {} THEN Fails({"channel"})
           ELSE /\ IF works
                   THEN /\ status' = IF RunsAtOnce(r) THEN MarkRunning(status, r, loop.turn) ELSE status
                        /\ guest' = [guest EXCEPT ![r] = [NoGuest EXCEPT !.run = run, !.state = "alive"]]
                        /\ watch' = [watch EXCEPT ![r] = [None EXCEPT !.on = TRUE]]
                        /\ spawned' = [spawned EXCEPT ![r] = @ + 1]
                   ELSE /\ status' = MarkExit(status, r, run, FALSE, loop.turn)
                        /\ UNCHANGED <<guest, watch, spawned>>
                /\ loop' = [loop EXCEPT !.pc = "record", !.at = {}]
                /\ UNCHANGED <<saved, channel, clock, draining, refused>>

\* The status with the running or the failed worker is saved.
PersistStatus ==
    /\ loop.pc = "record"
    /\ saved' = status
    /\ loop' = [loop EXCEPT !.pc = "start"]
    /\ UNCHANGED <<status, guest, channel, watch, clock, draining, spawned, refused>>

\* The end of the loop: done when nothing runs and nothing waits.
EndTurn ==
    /\ loop.pc = "start"
    /\ MayStart = {} \/ Cardinality(Watched) >= MaxWorkers
    /\ loop' = [loop EXCEPT !.pc = IF Watched = {} /\ \A r \in Replicas : status.of[r].phase \notin
                                          {"pending", "starting", "running", "backoff"}
                                   THEN "done" ELSE "top"]
    /\ UNCHANGED <<status, saved, guest, channel, watch, clock, draining, spawned, refused>>

GuestNext(r) ==
    \/ \E kind \in Reports : StartReport(r, kind)
    \/ FinishReport(r)
    \/ \E success \in BOOLEAN : GuestExits(r, success)

\* The loop, as long as no deadline passes and nobody stops it.
LoopNext ==
    \/ Boot \/ Turn \/ Drained \/ PersistStatus \/ EndTurn
    \/ \E due \in BOOLEAN : Beat(due)
    \/ \E r \in Replicas : Stat(r) \/ Open(r) \/ Judge(r) \/ Start(r) \/ Spawn(r, TRUE)

MishapNext ==
    \/ Dies \/ Interrupted
    \/ \E r \in Replicas : Instruct(r) \/ Drain(r) \/ Expire(r) \/ MissedHeartbeat(r) \/ Spawn(r, FALSE)

CalmNext == ClockTicks \/ LoopNext \/ \E r \in Replicas : GuestNext(r)

SupervisorNext == CalmNext \/ MishapNext

SupervisorSpec == SupervisorInit /\ [][SupervisorNext]_supervisorVars

----------------------------------------------------------------------------
(* Properties.                                                             *)

\* The loop never trips over its own bookkeeping: whatever reports, deadlines,
\* exits, drains, restarts and recoveries come in whatever order, the status
\* each operation builds passes validate_replica and validate_probe_runtime, no
\* report is applied twice, no operation meets a run that is over, no start
\* exceeds the budget and no channel of a new run exists already.  (The clock
\* can make it trip.)
OnlyTheClockRefuses ==
    /\ refused \subseteq {"clock"}
    /\ \A r \in Replicas : /\ ValidReplica(status.of[r]) /\ ValidReplica(saved.of[r])
                           /\ r \in Probed => ValidProbe(status.of[r]) /\ ValidProbe(saved.of[r])

\* Workers obey the restart and probe policies.  A replica gets max_restarts + 1
\* of them in the life of its generation, also when supervisors die at the worst
\* moments: an attempt is on disk before its worker exists.  None is alive that
\* the loop does not watch.  One with a probe counts as running only once a ready
\* signal of its current run was accepted (docs/security-audit-probes-0.1.md), and
\* one that has reached its failure threshold does not see the next turn.
WorkersObeyPolicy ==
    \A r \in Replicas :
        /\ spawned[r] <= MaxRestarts + 1
        /\ guest[r].state = "alive" => watch[r].on
        /\ r \in Probed \cap Watched /\ status.of[r].phase = "running" => guest[r].wasReady
        /\ r \in Watched /\ loop.pc = "top" => status.of[r].probe.failures < Threshold

\* docs/security-audit-probes-0.1.md, PROBE-06: a job that reports ready and
\* exits successfully between two polls is not taken for a failed one.
ReadyJobsSucceed ==
    \A r \in Replicas :
        (guest[r].state = "exited" /\ guest[r].success /\ guest[r].last = "ready"
            /\ guest[r].writing = "no" /\ status.of[r].attempt = guest[r].run)
                => status.of[r].phase \notin {"backoff", "failed", "exhausted"}
=============================================================================
