---------------------------- MODULE RollingUpdate ----------------------------
(***************************************************************************)
(* A rolling update in progress: the daemon's reconcile loop               *)
(* (cartridge-cli: engine_daemon.rs), the progress checkpoint it drives    *)
(* (cartridge-engine: rollout_progress.rs), the routing table it publishes *)
(* (routing.rs), and the two supervisors that run the replicas of the      *)
(* previous and of the candidate generation (cartridge-cli: main.rs,       *)
(* supervise_stack; supervisor.rs).  They are separate processes that      *)
(* share files: the daemon reads the supervisors' status files, each       *)
(* supervisor reads the progress checkpoint from time to time and acts on  *)
(* the copy it has.  The engine lock keeps them apart for one operation,   *)
(* which for the daemon is a whole pass.  Any of them may die between two  *)
(* steps.                                                                  *)
(*                                                                         *)
(* Abstractions.  The transaction of RolloutTransaction is one variable,   *)
(* from the activation of the candidate to its commit or rollback; the     *)
(* replicas are followed until then.  Each file is replaced atomically     *)
(* (write_replace_atomic, see RolloutTransaction).  Time is three events:  *)
(* the progress deadline passes, a ready replica has been ready for the    *)
(* minimum time and the stability window, a restart backoff elapses; all   *)
(* instances have the same deadline.  A worker process that exits and the  *)
(* supervisor's notice of it are one step; a worker dies with its          *)
(* supervisor.  max_supervisors is large enough for both generations.      *)
(***************************************************************************)
EXTENDS RollingScheduler

CONSTANTS Updates,    \* the updates of a behaviour: two plans and their policies
          NoStatus    \* an absent status file

(* ReplicaPhase.  "up" is Starting, or Running with a probe that is not    *)
(* ready; "ready" and "available" are Running and ready, the second for    *)
(* the stability window.                                                   *)
Running == {"up", "ready", "available"}
WaitingNotPending == {"backoff"} \cup Running     \* mutant
Waiting == {"pending", "backoff"} \cup Running
Ready == {"ready", "available"}
Ended == {"succeeded", "failed", "exhausted"}
ReplicaPhases == Waiting \cup Ended \cup {"stopped"}

(* What the two plans of an update say of each instance: the replicas they *)
(* want, max_surge, max_unavailable and RollingOrder; restart is "never",  *)
(* "on-failure" or "always"; maxWorkers is how many workers a supervisor   *)
(* may run at once.  Instance names are numbers in the order of names;     *)
(* from_rollout leaves out an instance without replicas on either side.    *)
(* The last two are model bounds: whether workers exit or turn unready,    *)
(* and the process deaths in a behaviour.                                  *)
ASSUME UpdatesAssumption ==
    \A u \in Updates :
        /\ u.instances \subseteq Nat /\ IsFiniteSet(u.instances)
        /\ u.previous \in [u.instances -> 0 .. MaxReplicas]
        /\ u.candidate \in [u.instances -> 0 .. MaxReplicas]
        /\ \A i \in u.instances :
              LET p == [startFirst |-> u.startFirst[i], surge |-> u.surge[i],
                        unavailable |-> u.unavailable[i]]
              IN  p \in Policy /\ PolicyValid(p, Larger(u.previous[i], u.candidate[i]))
        /\ u.restart \in {"never", "on-failure", "always"}
        /\ u.maxRestarts \in Nat /\ u.maxWorkers \in Nat
        /\ u.workersFail \in BOOLEAN /\ u.maxCrashes \in Nat

(* An absent status file is not a status.                                  *)
ASSUME NoStatusAssumption ==
    \A u \in Updates : \A replicas \in SUBSET (u.instances \X (1 .. MaxReplicas)) :
        NoStatus \notin [replicas -> [phase : ReplicaPhases, attempt : 0 .. u.maxRestarts + 1]]

VARIABLES update,     \* the update of this behaviour
          txn,        \* phase of the transaction, from Activated on
          progress,   \* the saved progress checkpoint
          expired,    \* the progress deadline has passed since the last progress
          status,     \* the status file of each generation
          sup,        \* the supervisor process of each generation
          controls,   \* the instructions each supervisor last read
          routes,     \* the published routing table
          pc,         \* where the daemon is in its reconcile loop
          seen,       \* the previous generation's status, as the daemon read it
          memory,     \* the progress it is about to save
          crashes     \* process deaths so far

daemonVars == <<pc, seen, memory>>
fileVars == <<txn, progress, expired, routes>>
supervisorVars == <<status, sup, controls>>
stepVars == <<txn, progress, expired, status, sup, controls, routes, pc, seen, memory, crashes>>
updateVars == <<update, stepVars>>

Generations == {"previous", "candidate"}

Instances == update.instances

(* The replicas of a plan: instance and ordinal.                           *)
Members(count) == UNION {{i} \X (1 .. count[i]) : i \in Instances}

Replicas(g) == Members(IF g = "previous" THEN update.previous ELSE update.candidate)

UpdatePolicy(i) ==
    [startFirst |-> update.startFirst[i], surge |-> update.surge[i],
     unavailable |-> update.unavailable[i]]

(* RolloutExecutionPhase; nothing sets Paused.                             *)
ProgressPhases ==
    {"none", "rolling", "completing", "rollingback", "completed", "rolledback"}

Progress ==
    [phase    : ProgressPhases,
     enabled  : SUBSET Replicas("candidate"),
     draining : SUBSET Replicas("previous")]

NoProgress == [phase |-> "none", enabled |-> {}, draining |-> {}]

Replica == [phase : ReplicaPhases, attempt : 0 .. update.maxRestarts + 1]

Has(replicas, r, phases) == replicas # NoStatus /\ replicas[r].phase \in phases

(* The worker processes that live.                                         *)
Workers(g) ==
    IF sup[g] = "off" THEN {} ELSE {r \in Replicas(g) : Has(status[g], r, Running)}

Pending(g) == [r \in Replicas(g) |-> [phase |-> "pending", attempt |-> 0]]

(* The candidate has just been activated.  The previous generation has     *)
(* either not been started yet or has a supervisor, with replicas up or    *)
(* ready; nothing is left of an earlier rollout's progress.                *)
UpdateInit ==
    /\ update \in Updates
    /\ txn = "activated"
    /\ progress = NoProgress
    /\ expired = FALSE
    /\ \/ /\ update.workersFail
          /\ status = [g \in Generations |-> NoStatus]
          /\ sup = [g \in Generations |-> "off"]
       \/ /\ \E phase \in [Replicas("previous") ->
                              IF update.workersFail THEN {"up", "ready"} ELSE {"ready"}] :
                status = [previous  |-> [r \in Replicas("previous") |->
                                            [phase |-> phase[r], attempt |-> 1]],
                          candidate |-> NoStatus]
          /\ sup = [previous |-> "on", candidate |-> "off"]
    /\ controls = [g \in Generations |-> {}]
    /\ routes = {"previous"} \X {r \in Replicas("previous") :
                                    Has(status["previous"], r, Ready)}
    /\ pc = "load"
    /\ seen = NoStatus
    /\ memory = NoProgress
    /\ crashes = 0

-----------------------------------------------------------------------------
(* The decision for the stack: RolloutProgress::next_action.               *)

Ordinals(i, replicas) == {n \in 1 .. MaxReplicas : <<i, n>> \in replicas}

(* Mutant: a ready candidate counts as available at once.                  *)
InstanceObservationUnaged(i, previous, candidate, p, late) ==
    LET In(replicas, g, phases) ==
            Ordinals(i, {r \in Replicas(g) : Has(replicas, r, phases)})
        enabled == Ordinals(i, p.enabled)
        terminal == In(candidate, "candidate", {"failed", "exhausted", "stopped"})
    IN  [previousReplicas   |-> update.previous[i],
         candidateReplicas  |-> update.candidate[i],
         previousActive     |-> In(previous, "previous", Waiting),
         previousReady      |-> In(previous, "previous", Ready),
         candidateActive    |-> enabled \ terminal,
         candidateReady     |-> enabled \cap In(candidate, "candidate", Ready \cup {"succeeded"}),
         candidateAvailable |-> enabled \cap In(candidate, "candidate", Ready \cup {"succeeded"}),
         candidateTerminal  |-> enabled \cap terminal,
         expired            |-> late]

(* instance_observation                                                    *)
InstanceObservation(i, previous, candidate, p, late) ==
    LET In(replicas, g, phases) ==
            Ordinals(i, {r \in Replicas(g) : Has(replicas, r, phases)})
        enabled == Ordinals(i, p.enabled)
        terminal == In(candidate, "candidate", {"failed", "exhausted", "stopped"})
    IN  [previousReplicas   |-> update.previous[i],
         candidateReplicas  |-> update.candidate[i],
         previousActive     |-> In(previous, "previous", Waiting),
         previousReady      |-> In(previous, "previous", Ready),
         candidateActive    |-> enabled \ terminal,
         candidateReady     |-> enabled \cap In(candidate, "candidate", Ready \cup {"succeeded"}),
         candidateAvailable |-> enabled \cap In(candidate, "candidate", {"available", "succeeded"}),
         candidateTerminal  |-> enabled \cap terminal,
         expired            |-> late]

(* "candidate replica ran without scheduler authority"                     *)
Unauthorised(candidate, p) ==
    \E r \in Replicas("candidate") \ p.enabled :
        Has(candidate, r, Running \cup {"backoff", "succeeded"})

(* stack_start_capacity: what may be active in the stack, and what is.     *)
StackLimit ==
    Larger(Cardinality(Replicas("previous")), Cardinality(Replicas("candidate")))
        + Cardinality(Members(update.surge))

StackActive(previous, candidate, p) ==
    Cardinality({r \in Replicas("previous") : Has(previous, r, Waiting)})
        + Cardinality(p.enabled \ {r \in Replicas("candidate") :
                          Has(candidate, r, {"failed", "exhausted", "stopped"})})

(* Mutant: one place is kept free.                                         *)
CapacityReserved(previous, candidate, p) ==
    Minus(StackLimit, StackActive(previous, candidate, p) + 1)

(* The places of the stack that are left.                                  *)
Capacity(previous, candidate, p) == Minus(StackLimit, StackActive(previous, candidate, p))

(* The previous generation has not written a status yet.                   *)
Unobserved(previous) == previous = NoStatus /\ Replicas("previous") # {}

(* next_action returns an error, which ends the daemon.                    *)
Refused(previous, candidate, p, late) ==
    /\ ~Unobserved(previous)
    /\ \/ Unauthorised(candidate, p)
       \/ StackActive(previous, candidate, p) > StackLimit
       \/ \E i \in Instances :
             ~Valid(InstanceObservation(i, previous, candidate, p, late), UpdatePolicy(i))

(* The first instance with something to do is served; a rollback of any    *)
(* instance comes before, and so does a drain that is still outstanding.   *)
NextAction(previous, candidate, p, late) ==
    LET decision == [i \in Instances |->
            Decision(InstanceObservation(i, previous, candidate, p, late), UpdatePolicy(i))]
        capacity == Capacity(previous, candidate, p)
        chosen == [i \in Instances |->
            CASE decision[i].kind = "start" -> Lowest(decision[i].ordinals, capacity)
              [] decision[i].kind = "drain" -> decision[i].ordinals
              [] OTHER -> {}]
        acting == {i \in Instances : chosen[i] # {}}
        first == CHOOSE i \in acting : \A j \in acting : i <= j
    IN  IF Unobserved(previous) THEN Act("wait", {})
        ELSE IF \E i \in Instances : decision[i].kind = "rollback" THEN Act("rollback", {})
        ELSE IF p.draining # {} THEN Act("wait", {})
        ELSE IF acting # {} THEN Act(decision[first].kind, {first} \X chosen[first])
        ELSE IF \A i \in Instances : decision[i].kind = "complete" THEN Act("complete", {})
        ELSE Act("wait", {})

(* acknowledge_drained                                                     *)
Acknowledged(p, previous) ==
    {r \in p.draining : Has(previous, r, {"stopped"})}

(* enable_candidate, request_previous_drain, set_phase                     *)
Decided(p, action) ==
    CASE action.kind = "start"    -> [p EXCEPT !.enabled = @ \cup action.ordinals]
      [] action.kind = "drain"    -> [p EXCEPT !.draining = @ \cup action.ordinals]
      [] action.kind = "complete" -> [p EXCEPT !.phase = "completing"]
      [] action.kind = "rollback" -> [p EXCEPT !.phase = "rollingback"]
      [] OTHER -> p

-----------------------------------------------------------------------------
(* Routing: which replicas a publication lists.                            *)

(* routing_controls                                                        *)
Routable(g, p) ==
    LET executing == p.phase \in {"rolling", "completing"}
    IN  CASE txn = "committed" -> IF g = "candidate" THEN Replicas(g) ELSE {}
          [] txn = "rolledback" -> {}
          [] g = "candidate" -> IF executing THEN p.enabled ELSE {}
          [] OTHER -> IF executing THEN Replicas(g) \ p.draining ELSE Replicas(g)

(* routing_targets                                                         *)
Targets(p) ==
    UNION {{g} \X {r \in Routable(g, p) : Has(status[g], r, Ready)} : g \in Generations}

-----------------------------------------------------------------------------
(* The daemon: reconcile_rollouts, then reconcile_routing, and again.      *)

(* reconcile_rollouts holds the engine lock, which whoever reads or writes *)
(* a file of the stack needs, and reads the clock once: during its pass    *)
(* the other processes can only end.                                       *)
Locked == pc \in {"observe", "decide", "publish", "save"}

(* The daemon process ends; the supervisors it started are on their own.   *)
DaemonEnds ==
    /\ pc' = "down" /\ seen' = NoStatus /\ memory' = NoProgress
    /\ sup' = [g \in Generations |-> IF sup[g] = "on" THEN "orphan" ELSE sup[g]]

(* begin_rollout_progress                                                  *)
BeginProgress ==
    /\ pc = "load" /\ txn = "activated" /\ progress.phase = "none"
    /\ progress' = [NoProgress EXCEPT !.phase = "rolling"]
    /\ expired' = FALSE
    /\ pc' = "observe"
    /\ UNCHANGED <<txn, routes, supervisorVars, seen, memory, crashes>>

(* The transaction was settled, by a client or before a crash: the         *)
(* progress follows it.                                                    *)
FollowTransaction ==
    /\ pc = "load" /\ txn # "activated"
    /\ progress' =
          IF txn = "committed" /\ progress.phase \in {"rolling", "completing"}
          THEN [progress EXCEPT !.phase = "completed"]
          ELSE IF txn = "rolledback"
                  /\ progress.phase \in {"rolling", "completing", "rollingback"}
          THEN [progress EXCEPT !.phase = "rolledback"]
          ELSE progress
    /\ pc' = "routing"
    /\ UNCHANGED <<txn, expired, routes, supervisorVars, seen, memory, crashes>>

(* StackHealthReport::ready, or a candidate that is stopped as a whole.    *)
HealthReady ==
    \A r \in Replicas("candidate") :
        Has(status["candidate"], r, Ready \cup {"succeeded"})

(* The stability window of commit_rollout, which a stack whose replicas    *)
(* have all succeeded need not pass.                                       *)
Stable ==
    \A r \in Replicas("candidate") :
        Has(status["candidate"], r, {"available", "succeeded"})

(* A report is stale when no supervisor has refreshed it for a while.      *)
MayBeStale == sup["candidate"] = "off"

CommitUpdate ==
    /\ pc = "load" /\ txn = "activated" /\ progress.phase = "completing"
    /\ HealthReady /\ Stable
    /\ txn' = "committed"
    /\ memory' = [progress EXCEPT !.phase = "completed"]
    /\ pc' = "publish"
    /\ UNCHANGED <<progress, expired, routes, supervisorVars, seen, crashes>>

(* "rollout stability window has not elapsed"                              *)
CommitErrs ==
    /\ pc = "load" /\ txn = "activated" /\ progress.phase = "completing"
    /\ HealthReady /\ ~Stable

(* Mutant: the deadline is not looked at while completing.                 *)
AwaitHealthForever ==
    /\ pc = "load" /\ txn = "activated" /\ progress.phase = "completing"
    /\ ~HealthReady \/ MayBeStale
    /\ pc' = "routing"
    /\ UNCHANGED <<fileVars, supervisorVars, seen, memory, crashes>>

(* The candidate is not healthy: wait until the deadline, then roll back.  *)
AwaitHealth ==
    /\ pc = "load" /\ txn = "activated" /\ progress.phase = "completing"
    /\ ~HealthReady \/ MayBeStale
    /\ IF expired
       THEN pc' = "publish" /\ memory' = [progress EXCEPT !.phase = "rollingback"]
       ELSE pc' = "routing" /\ UNCHANGED memory
    /\ UNCHANGED <<fileVars, supervisorVars, seen, crashes>>

RollbackUpdate ==
    /\ pc = "load" /\ txn = "activated" /\ progress.phase = "rollingback"
    /\ txn' = "rolledback"
    /\ memory' = [progress EXCEPT !.phase = "rolledback"]
    /\ pc' = "publish"
    /\ UNCHANGED <<progress, expired, routes, supervisorVars, seen, crashes>>

(* advance_active_rollout reads the previous generation's status first ... *)
Observe ==
    /\ \/ pc = "observe"
       \/ pc = "load" /\ txn = "activated" /\ progress.phase = "rolling"
    /\ seen' = status["previous"]
    /\ pc' = "decide"
    /\ UNCHANGED <<fileVars, supervisorVars, memory, crashes>>

(* ... then the candidate's, saves the drains it finds done, and decides.  *)
AdvanceRollout ==
    LET acknowledged == Acknowledged(progress, seen)
        current == [progress EXCEPT !.draining = @ \ acknowledged]
        late == expired /\ acknowledged = {}
        action == NextAction(seen, status["candidate"], current, late)
    IN  /\ pc = "decide"
        /\ ~Refused(seen, status["candidate"], current, late)
        /\ progress' = current
        /\ expired' = late
        /\ IF action.kind = "wait"
           THEN pc' = "routing" /\ UNCHANGED memory
           ELSE pc' = "publish" /\ memory' = Decided(current, action)
        /\ seen' = NoStatus
        /\ UNCHANGED <<txn, routes, supervisorVars, crashes>>

(* An error of a reconciliation ends the serve loop.                       *)
NextActionErrs ==
    pc = "decide" /\ LET acknowledged == Acknowledged(progress, seen)
                     IN  Refused(seen, status["candidate"],
                                 [progress EXCEPT !.draining = @ \ acknowledged],
                                 expired /\ acknowledged = {})

ReconcileFails ==
    /\ CommitErrs \/ NextActionErrs
    /\ DaemonEnds
    /\ UNCHANGED <<fileVars, status, controls, crashes>>

(* Mutant: the routes follow the saved progress, not the decision.         *)
PublishSaved ==
    /\ pc = "publish"
    /\ routes' = Targets(progress)
    /\ pc' = "save"
    /\ UNCHANGED <<txn, progress, expired, supervisorVars, seen, memory, crashes>>

(* publish_routing_snapshot_for_progress, or publish_routing_snapshot once *)
(* the transaction is settled.                                             *)
Publish ==
    /\ pc = "publish"
    /\ routes' = Targets(memory)
    /\ pc' = "save"
    /\ UNCHANGED <<txn, progress, expired, supervisorVars, seen, memory, crashes>>

(* save_rollout_progress                                                   *)
Save ==
    /\ pc = "save"
    /\ progress' = memory
    /\ expired' = FALSE
    /\ memory' = NoProgress
    /\ pc' = "routing"
    /\ UNCHANGED <<txn, routes, supervisorVars, seen, crashes>>

ReconcileRouting ==
    /\ pc = "routing"
    /\ routes' = Targets(progress)
    /\ pc' = "load"
    /\ UNCHANGED <<txn, progress, expired, supervisorVars, seen, memory, crashes>>

DaemonCrashes ==
    /\ pc # "down" /\ crashes < update.maxCrashes
    /\ crashes' = crashes + 1
    /\ DaemonEnds
    /\ UNCHANGED <<fileVars, status, controls>>

DaemonStarts ==
    /\ pc = "down"
    /\ pc' = "load"
    /\ UNCHANGED <<fileVars, supervisorVars, seen, memory, crashes>>

(* execute_rollout_request: an operator commits, or rolls back what is     *)
(* activated or committed.  The handler publishes the routes before it     *)
(* releases the lock; that is the routing pass, which comes next or, after *)
(* a crash, later.                                                         *)
ClientSettles(phase) ==
    /\ pc \in {"load", "routing"}
    /\ IF phase = "committed"
       THEN txn = "activated" /\ HealthReady /\ Stable
       ELSE txn \in {"activated", "committed"}
    /\ txn' = phase
    /\ pc' = "routing"
    /\ UNCHANGED <<progress, expired, routes, supervisorVars, seen, memory, crashes>>

-----------------------------------------------------------------------------
(* The supervisors, one process for each generation.                       *)

(* finish_replica                                                          *)
Finished(replica, success) ==
    LET restart == \/ update.restart = "always"
                   \/ update.restart = "on-failure" /\ ~success
    IN  [replica EXCEPT !.phase =
            CASE restart /\ replica.attempt < update.maxRestarts + 1 -> "backoff"
              [] restart -> "exhausted"
              [] success -> "succeeded"
              [] OTHER   -> "failed"]

(* recover_interrupted; stop_active_workers does the same to the workers   *)
(* of a supervisor that stops.                                             *)
Interrupted(replicas) ==
    [r \in DOMAIN replicas |->
        IF replicas[r].phase \in Running THEN Finished(replicas[r], FALSE) ELSE replicas[r]]

(* generation_controls: what the candidate may start, what the previous    *)
(* generation has to drain.                                                *)
Controls(g) == IF g = "candidate" THEN progress.enabled ELSE progress.draining

(* reconcile_supervisors spawns a supervisor where one is missing and has  *)
(* work; it prepares the status file and reads its instructions.           *)
Boot(g) ==
    /\ txn = "activated" /\ pc # "down" /\ sup[g] = "off"
    /\ \/ status[g] = NoStatus
       \/ \E r \in Replicas(g) : Has(status[g], r, Waiting)
    /\ status' = [status EXCEPT ![g] = IF @ = NoStatus THEN Pending(g) ELSE Interrupted(@)]
    /\ sup' = [sup EXCEPT ![g] = "on"]
    /\ controls' = [controls EXCEPT ![g] = Controls(g)]
    /\ UNCHANGED <<fileVars, daemonVars, crashes>>

(* A supervisor reads its instructions again, then stops every replica it  *)
(* is told to drain (apply_rollout_drains) and saves the result.           *)
Refresh(g) ==
    /\ txn = "activated" /\ pc # "down" /\ sup[g] = "on"
    /\ controls' = [controls EXCEPT ![g] = Controls(g)]
    /\ status' = [status EXCEPT ![g] =
          [r \in Replicas(g) |->
              IF g = "previous" /\ r \in Controls(g)
              THEN [@[r] EXCEPT !.phase = "stopped"] ELSE @[r]]]
    /\ UNCHANGED <<fileVars, sup, daemonVars, crashes>>

(* Mutant: a candidate starts without having been enabled.                 *)
StartableUnasked(g, r) ==
    /\ Has(status[g], r, {"pending", "backoff"})
    /\ g = "previous" => r \notin controls[g]
    /\ Cardinality(Workers(g)) < update.maxWorkers

(* eligible_starts, begin_start and the spawn of the worker.               *)
Startable(g, r) ==
    /\ Has(status[g], r, {"pending", "backoff"})
    /\ IF g = "candidate" THEN r \in controls[g] ELSE r \notin controls[g]
    /\ Cardinality(Workers(g)) < update.maxWorkers

Start(g, r) ==
    /\ txn = "activated" /\ sup[g] # "off" /\ Startable(g, r)
    /\ status' = [status EXCEPT ![g][r] = [phase |-> "up", attempt |-> @.attempt + 1]]
    /\ UNCHANGED <<fileVars, sup, controls, daemonVars, crashes>>

(* mark_running without a probe, mark_probe_signal and mark_probe_timeout  *)
(* with one.                                                               *)
Signal(g, r, from, to) ==
    /\ txn = "activated" /\ r \in Workers(g) /\ status[g][r].phase \in from
    /\ status' = [status EXCEPT ![g][r].phase = to]
    /\ UNCHANGED <<fileVars, sup, controls, daemonVars, crashes>>

BecomeReady(g, r) == Signal(g, r, {"up"}, "ready")

BecomeUnready(g, r) == update.workersFail /\ Signal(g, r, Ready, "up")

(* Time makes a replica available that its status file calls ready,        *)
(* whether or not its supervisor still lives.                              *)
BecomeAvailable(r) ==
    /\ txn = "activated" /\ Has(status["candidate"], r, {"ready"})
    /\ status' = [status EXCEPT !["candidate"][r].phase = "available"]
    /\ UNCHANGED <<fileVars, sup, controls, daemonVars, crashes>>

(* mark_exit; an exit before readiness is a failure whatever its code.     *)
WorkerExits(g, r, success) ==
    /\ update.workersFail
    /\ txn = "activated" /\ r \in Workers(g)
    /\ success => status[g][r].phase \in Ready
    /\ status' = [status EXCEPT ![g][r] = Finished(@, success)]
    /\ UNCHANGED <<fileVars, sup, controls, daemonVars, crashes>>

(* Nothing runs and nothing will: the supervisor returns.                  *)
SupervisorDone(g) ==
    /\ txn = "activated" /\ sup[g] # "off"
    /\ \A r \in Replicas(g) : ~Has(status[g], r, Waiting)
    /\ sup' = [sup EXCEPT ![g] = "off"]
    /\ UNCHANGED <<fileVars, status, controls, daemonVars, crashes>>

(* Its daemon is gone: it stops its workers, records that, and returns.    *)
SupervisorStops(g) ==
    /\ txn = "activated" /\ sup[g] = "orphan"
    /\ status' = [status EXCEPT ![g] = Interrupted(@)]
    /\ sup' = [sup EXCEPT ![g] = "off"]
    /\ UNCHANGED <<fileVars, controls, daemonVars, crashes>>

(* It dies and so do its workers; the parent's liveness pipe does this to  *)
(* it when the daemon dies.                                                *)
SupervisorCrashes(g) ==
    /\ txn = "activated"
    /\ \/ sup[g] = "orphan" /\ UNCHANGED crashes
       \/ sup[g] = "on" /\ crashes < update.maxCrashes /\ crashes' = crashes + 1
    /\ sup' = [sup EXCEPT ![g] = "off"]
    /\ UNCHANGED <<fileVars, status, controls, daemonVars>>

ProgressExpires ==
    /\ txn = "activated" /\ ~expired
    /\ expired' = TRUE
    /\ UNCHANGED <<txn, progress, routes, supervisorVars, daemonVars, crashes>>

-----------------------------------------------------------------------------
Daemon ==
    \/ BeginProgress \/ FollowTransaction
    \/ CommitUpdate \/ AwaitHealth \/ RollbackUpdate \/ ReconcileFails
    \/ Observe \/ AdvanceRollout
    \/ Publish \/ Save \/ ReconcileRouting
    \/ DaemonStarts

Supervisor(g) ==
    \/ Boot(g) \/ Refresh(g) \/ SupervisorStops(g)
    \/ \E r \in Replicas(g) : Start(g, r)

Worker(g, r) ==
    \/ BecomeReady(g, r) \/ BecomeUnready(g, r)
    \/ \E success \in BOOLEAN : WorkerExits(g, r, success)

UpdateStep ==
    \/ Daemon
    \/ DaemonCrashes
    \/ \E g \in Generations : SupervisorCrashes(g) \/ SupervisorDone(g)
    \/ \E phase \in {"committed", "rolledback"} : ClientSettles(phase)
    \/ /\ ~Locked
       /\ \/ \E g \in Generations :
                \/ Supervisor(g)
                \/ \E r \in Replicas(g) : Worker(g, r)
          \/ \E r \in Replicas("candidate") : BecomeAvailable(r)
          \/ ProgressExpires

UpdateNext == UpdateStep /\ UNCHANGED update

UpdateSpec == UpdateInit /\ [][UpdateNext]_updateVars

-----------------------------------------------------------------------------
(* Properties.                                                             *)

(* Every file and every process is in a state of its kind.                 *)
UpdateTypeOK ==
    /\ txn \in {"activated", "committed", "rolledback"}
    /\ progress \in Progress /\ memory \in Progress
    /\ expired \in BOOLEAN
    /\ \A g \in Generations :
          /\ status[g] = NoStatus \/ status[g] \in [Replicas(g) -> Replica]
          /\ sup[g] \in {"off", "on", "orphan"}
          /\ controls[g] \subseteq Replicas(g)
    /\ routes \subseteq UNION {{g} \X Replicas(g) : g \in Generations}
    /\ pc \in {"load", "observe", "decide", "publish", "save", "routing", "down"}
    /\ seen = NoStatus \/ seen \in [Replicas("previous") -> Replica]
    /\ crashes \in 0 .. update.maxCrashes

(* RLP-05, "never authorizes more than the stack-wide replica-plus-surge   *)
(* ceiling": the workers that really run, under whatever stale             *)
(* instructions, stay within replicas plus surge, for each instance and    *)
(* for the stack, and none of the previous generation is left, or comes    *)
(* back, once the daemon moves to commit (next_action,                     *)
(* reconcile_rollout_phase, supervise_stack).                              *)
SurgeBound ==
    txn = "activated" =>
        /\ Cardinality(Workers("previous")) + Cardinality(Workers("candidate"))
              <= StackLimit
        /\ \A i \in Instances :
              Cardinality(Ordinals(i, Workers("previous")))
                + Cardinality(Ordinals(i, Workers("candidate")))
                <= Larger(update.previous[i], update.candidate[i]) + update.surge[i]
        /\ progress.phase = "completing" => Workers("previous") = {}

(* The scheduler never meets an observation it refuses: no candidate runs  *)
(* without having been enabled, and no count exceeds its limit, in spite   *)
(* of crashes between publishing and saving a decision.  An error here     *)
(* would end the daemon on every start.                                    *)
SchedulerNeverRefuses == ~NextActionErrs

(* engine-routing.md, "The coordinator writes route removal before it      *)
(* saves drain intent": when a drain becomes visible to the supervisor,    *)
(* the routing table no longer lists the replica (advance_active_rollout,  *)
(* publish_routing_snapshot_for_progress).                                 *)
RouteRemoved ==
    \A r \in progress'.draining \ progress.draining : <<"previous", r>> \notin routes'

RouteRemovedFirst == [][RouteRemoved]_updateVars

(* engine-routing.md, "Supervisors therefore cannot observe an instruction *)
(* to drain while the authoritative routing table still contains that      *)
(* replica."                                                               *)
DrainedAreUnrouted ==
    txn = "activated" =>
        \A r \in controls["previous"] : <<"previous", r>> \notin routes

(* A terminal progress checkpoint has a settled transaction behind it, at  *)
(* whatever step a crash strikes; an operator may still roll back what is  *)
(* completed.                                                              *)
TerminalProgressIsSettled ==
    /\ progress.phase = "completed" => txn \in {"committed", "rolledback"}
    /\ progress.phase = "rolledback" => txn = "rolledback"

(* The files of an update are well formed and agree at whatever step a     *)
(* crash strikes: the scheduler never meets statuses and progress that it  *)
(* refuses, and a terminal progress has a settled transaction behind it    *)
(* (next_action, reconcile_rollout_phase).                                 *)
CheckpointsAgree == UpdateTypeOK /\ SchedulerNeverRefuses /\ TerminalProgressIsSettled

(* rolling-updates.md: with healthy workers and no crash, an update never  *)
(* has fewer replicas of an instance in service than its policy allows:    *)
(* candidate replicas minus max_unavailable, or what the previous          *)
(* generation had if that is less (drain_action, next_action).             *)
InService(i) ==
    Cardinality({n \in Ordinals(i, Workers("previous")) :
                    status["previous"][<<i, n>>].phase \in Ready})
      + Cardinality({n \in Ordinals(i, Workers("candidate")) :
                    status["candidate"][<<i, n>>].phase = "available"})

AvailabilityKept ==
    ~update.workersFail /\ update.maxCrashes = 0 /\ txn = "activated" =>
        \A i \in Instances :
            InService(i) >= Smaller(update.previous[i],
                                    Minus(update.candidate[i], update.unavailable[i]))

(* RLP-02 for the stack: when every enabled candidate is available and no  *)
(* drain is outstanding, the coordinator has something to start or to      *)
(* drain, or it is done, unless the stack-wide ceiling is reached: then a  *)
(* start that finds no place hides the drain that would make one           *)
(* (next_action).                                                          *)
IdleAtCeilingOnly ==
    (/\ pc = "decide" /\ ~Unobserved(seen) /\ progress.draining = {}
     /\ StackActive(seen, status["candidate"], progress) # StackLimit
     /\ \A r \in progress.enabled : Has(status["candidate"], r, {"available", "succeeded"})) =>
        NextAction(seen, status["candidate"], progress, expired).kind # "wait"

(* README.md, "The daemon owns reconciliation after the invoking terminal  *)
(* is gone": nothing that replicas do makes the reconcile loop end, only a *)
(* crash does.                                                             *)
DaemonStaysUp == pc = "down" => crashes > 0

-----------------------------------------------------------------------------
(* Liveness.  The daemon reconciles on a timer; a supervisor polls its     *)
(* instructions; time passes, so that a deadline expires and a report that *)
(* nobody refreshes becomes stale; an operator restarts a daemon that has  *)
(* ended.  The daemon keeps the engine lock for a moment of each period    *)
(* only and acquire_lock tries again, so whoever goes on wanting it gets   *)
(* it: the lock is no part of what is fair.  Nothing is asked of the       *)
(* workers, nor of the client.                                             *)

Fairness ==
    /\ []<><<Daemon>>_stepVars      \* it can always take a step
    /\ WF_stepVars(ProgressExpires)
    /\ SF_stepVars(MayBeStale /\ AwaitHealth)
    /\ \A g \in Generations :
          WF_stepVars(Boot(g)) /\ WF_stepVars(Refresh(g)) /\ WF_stepVars(SupervisorStops(g))

FairUpdateSpec == UpdateSpec /\ Fairness

(* RLP-06: the update is committed or rolled back in the end, though       *)
(* candidates may never turn ready and a process may die.                  *)
Settles == <>(txn # "activated")

(* RLP-08: a drain does not stay outstanding forever, which would pin both *)
(* generations.                                                            *)
DrainsEnd ==
    \A i \in UNION {u.instances : u \in Updates}, n \in 1 .. MaxReplicas :
        <<i, n>> \in progress.draining ~> (<<i, n>> \notin progress.draining \/ txn # "activated")

=============================================================================
