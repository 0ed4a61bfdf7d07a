------------------------- MODULE ServiceInvocation -------------------------
(* Calls of a service instance: a daemon thread writes a request into the  *)
(* mailbox directory of one ready run, the worker of that run claims it by *)
(* renaming, shows it to the guest and writes the response back, and the   *)
(* thread polls for it until the answer, its deadline, the loss of the     *)
(* route or the shutdown of the daemon, and then removes the files.        *)
(*                                                                         *)
(* A run is one worker process; the supervisor removes the mailbox of a    *)
(* run that ended and only then saves the status without its route.        *)
EXTENDS Naturals, FiniteSets

CONSTANTS Calls,       \* calls a client makes, each with an identity of its own
          NoCall,      \* no call
          MaxRuns,     \* bound: runs started one after the other or together
          MaxReplicas, \* replicas of the instance, runs alive at a time
          MaxQueued,   \* MAX_INVOCATIONS_PER_REPLICA
          MaxReady     \* bound: times a run reports that it is ready

ASSUME InvocationAssumption ==
    /\ NoCall \notin Calls
    /\ MaxRuns \in Nat /\ MaxReplicas \in Nat /\ MaxQueued \in Nat \ {0} /\ MaxReady \in Nat

VARIABLES call,       \* per call: the daemon thread that executes it
          late,       \* per call: 0 in time, 1 past the deadline by the wall
                      \* clock, 2 past it by the clock of the thread too
          files,      \* the envelopes in the mailboxes
          phase,      \* per run: none, live, dead, cleaned, gone
          readiness,  \* per run: 0, or the identity of its last ready signal
          signals,    \* per run: how many ready signals it has sent
          worker,     \* per run: host and broker inside the worker process
          abandoned,  \* runs whose supervisor was killed
          stopping,   \* the daemon shuts down
          delivered   \* history: the deliveries to guests

invocationVars == <<call, late, files, phase, readiness, signals, worker,
                    abandoned, stopping, delivered>>

Runs == 1..MaxRuns

\* InvocationRequestEnvelope and InvocationResponseEnvelope: a request is
\* renamed when it is claimed; a response tells whether it was in time.
Envelope == [run : Runs, call : Calls, kind : {"request", "active", "response"},
             inTime : BOOLEAN]

Letter(n, c, kind) == [run |-> n, call |-> c, kind |-> kind, inTime |-> TRUE]

\* InvocationResponseEnvelope, with the time of the answer.
Answer(n, c) == [Letter(n, c, "response") EXCEPT !.inTime = late[c] = 0]

\* replica_invocation_directory.
Mailbox(n) == {f \in files : f.run = n}

HasLetter(n, c, kind) == \E f \in files : f.run = n /\ f.call = c /\ f.kind = kind

Without(n, c, kind) == {f \in files : ~(f.run = n /\ f.call = c /\ f.kind = kind)}

\* FileInvocationBroker and the service_requests of the host: the request the
\* guest was given, the requests the broker would accept an answer for, and
\* the step of the host call in progress.
IdleWorker == [pc |-> "idle", opening |-> NoCall, holding |-> NoCall, claimed |-> {}]

InvocationInit ==
    /\ call = [c \in Calls |-> [pc |-> "new", run |-> 0, ready |-> 0, result |-> "none"]]
    /\ late = [c \in Calls |-> 0]
    /\ files = {}
    /\ phase = [n \in Runs |-> "none"]
    /\ readiness = [n \in Runs |-> 0]
    /\ signals = [n \in Runs |-> 0]
    /\ worker = [n \in Runs |-> IdleWorker]
    /\ abandoned = {}
    /\ stopping = FALSE
    /\ delivered = {}

----------------------------------------------------------------------------
(* The daemon thread.                                                      *)

\* route_target_is_ready: the exact run, with the same ready signal.
TargetReady(n, ready) == ready # 0 /\ readiness[n] = ready

\* append_ready_targets: the runs on the routes.
ReadyRuns == {n \in Runs : readiness[n] # 0}

Queued(n) == Cardinality({f \in Mailbox(n) : f.kind \in {"request", "active"}})

\* invocation_entry_count refuses a directory with too many entries.
MailboxReadable(n) == Cardinality(Mailbox(n)) <= 3 * MaxQueued

HasRoom(n) == Queued(n) < MaxQueued

Ended(c, result) == call' = [call EXCEPT ![c].pc = "ended", ![c].result = result]

\* execute_invocation up to the release of the mutation lock: nothing once the
\* daemon stops; no ready replica; a directory with too many entries on the way
\* round; every replica busy; or the request written for the first with room.
\* The identity of the request decides where the rotation starts.
Invoke(c) ==
    /\ call[c].pc = "new"
    /\ LET ready == ReadyRuns
       IN  \/ (stopping \/ ready = {}) /\ Ended(c, "refused") /\ UNCHANGED files
           \/ /\ ~stopping /\ \E n \in ready : ~MailboxReadable(n)
              /\ Ended(c, "refused") /\ UNCHANGED files
           \/ /\ ~stopping /\ ready # {} /\ \A n \in ready : ~HasRoom(n)
              /\ Ended(c, "busy") /\ UNCHANGED files
           \/ /\ ~stopping
              /\ \E n \in ready :
                    /\ MailboxReadable(n) /\ HasRoom(n)
                    /\ files' = files \cup {Letter(n, c, "request")}
                    /\ call' = [call EXCEPT ![c] = [pc |-> "waiting", run |-> n,
                                                    ready |-> readiness[n], result |-> "none"]]
    /\ UNCHANGED <<late, phase, readiness, signals, worker, abandoned, stopping, delivered>>

Concluded(c, result) == call' = [call EXCEPT ![c].pc = "rmRequest", ![c].result = result]

\* A thread that took every answer.
AcceptsAnyAnswer(c, f) == TRUE

\* InvocationResponseEnvelope::open refuses an answer that is too late.
AcceptsAnswer(c, f) == f.inTime

\* read_invocation_file: the response, when it is there.
Answers(c) == {f \in Mailbox(call[c].run) : f.call = c /\ f.kind = "response"}

\* One turn of the waiting loop, first half: shutdown, then the response.
PollResponse(c) ==
    /\ call[c].pc = "waiting"
    /\ IF stopping THEN Concluded(c, "stopping")
       ELSE IF Answers(c) # {}
       THEN \E f \in Answers(c) :
                Concluded(c, IF AcceptsAnswer(c, f) THEN "answered" ELSE "invalid")
       ELSE call' = [call EXCEPT ![c].pc = "polled"]
    /\ UNCHANGED <<late, files, phase, readiness, signals, worker, abandoned, stopping, delivered>>

\* A loop that looked at the route only.
PollRoute(c) ==
    /\ call[c].pc = "polled"
    /\ IF ~TargetReady(call[c].run, call[c].ready) THEN Concluded(c, "moved")
       ELSE call' = [call EXCEPT ![c].pc = "waiting"]
    /\ UNCHANGED <<late, files, phase, readiness, signals, worker, abandoned, stopping, delivered>>

\* Second half: the deadline of the thread, then the route.
PollDeadline(c) ==
    /\ call[c].pc = "polled"
    /\ IF late[c] = 2 THEN Concluded(c, "timeout")
       ELSE IF ~TargetReady(call[c].run, call[c].ready) THEN Concluded(c, "moved")
       ELSE call' = [call EXCEPT ![c].pc = "waiting"]
    /\ UNCHANGED <<late, files, phase, readiness, signals, worker, abandoned, stopping, delivered>>

\* remove_invocation_file for the request, the claimed request and the response.
CleanUp(c) ==
    /\ \/ /\ call[c].pc = "rmRequest"
          /\ files' = Without(call[c].run, c, "request")
          /\ call' = [call EXCEPT ![c].pc = "rmActive"]
       \/ /\ call[c].pc = "rmActive"
          /\ files' = Without(call[c].run, c, "active")
          /\ call' = [call EXCEPT ![c].pc = "rmResponse"]
       \/ /\ call[c].pc = "rmResponse"
          /\ files' = Without(call[c].run, c, "response")
          /\ Ended(c, call[c].result)
    /\ UNCHANGED <<late, phase, readiness, signals, worker, abandoned, stopping, delivered>>

\* The wall clock of the envelope starts before the clock of the thread.
TimePasses(c) ==
    /\ call[c].pc \notin {"new", "ended"}
    /\ late[c] < 2
    /\ late' = [late EXCEPT ![c] = @ + 1]
    /\ UNCHANGED <<call, files, phase, readiness, signals, worker, abandoned, stopping, delivered>>

Shutdown ==
    /\ ~stopping
    /\ stopping' = TRUE
    /\ UNCHANGED <<call, late, files, phase, readiness, signals, worker, abandoned, delivered>>

----------------------------------------------------------------------------
(* The worker.                                                             *)

\* serve_next: the guest must have answered the previous request.
MayReceive(n) == phase[n] = "live" /\ worker[n].pc = "idle" /\ worker[n].holding = NoCall

\* serve_respond: the answer is to the request the guest was given.
MayAnswer(n) ==
    /\ phase[n] = "live" /\ worker[n].pc = "idle"
    /\ worker[n].holding \in worker[n].claimed

\* A worker that copied the request instead of renaming it.
ClaimCopy(n, c) ==
    /\ MayReceive(n)
    /\ MailboxReadable(n)
    /\ HasLetter(n, c, "request")
    /\ files' = files \cup {Letter(n, c, "active")}
    /\ worker' = [worker EXCEPT ![n].pc = "opening", ![n].opening = c]
    /\ UNCHANGED <<call, late, phase, readiness, signals, abandoned, stopping, delivered>>

\* take_request: a request is claimed by renaming it.
Claim(n, c) ==
    /\ MayReceive(n)
    /\ MailboxReadable(n)
    /\ HasLetter(n, c, "request")
    /\ files' = Without(n, c, "request") \cup {Letter(n, c, "active")}
    /\ worker' = [worker EXCEPT ![n].pc = "opening", ![n].opening = c]
    /\ UNCHANGED <<call, late, phase, readiness, signals, abandoned, stopping, delivered>>

\* open_claimed: the file may have been removed meanwhile; an expired request
\* and one whose route changed are removed; otherwise the guest gets it.
Deliverable(n, c) ==
    HasLetter(n, c, "active") /\ late[c] = 0 /\ TargetReady(n, call[c].ready)

OpenClaimed(n) ==
    /\ phase[n] = "live" /\ worker[n].pc = "opening"
    /\ LET c == worker[n].opening
       IN  \/ /\ Deliverable(n, c)
              /\ worker' = [worker EXCEPT ![n] = [pc |-> "idle", opening |-> NoCall, holding |-> c,
                                                  claimed |-> worker[n].claimed \cup {c}]]
              /\ delivered' = delivered \cup
                    {[call |-> c, run |-> n, nth |-> Cardinality({d \in delivered : d.call = c}) + 1]}
              /\ UNCHANGED files
           \/ /\ ~Deliverable(n, c)
              /\ worker' = [worker EXCEPT ![n].pc = "idle", ![n].opening = NoCall]
              /\ files' = Without(n, c, "active")
              /\ UNCHANGED delivered
    /\ UNCHANGED <<call, late, phase, readiness, signals, abandoned, stopping>>

\* serve_respond and respond up to the deadline: an answer that comes too late
\* is refused, and the broker forgets the request; the host does not.
Respond(n) ==
    /\ MayAnswer(n)
    /\ worker' = IF late[worker[n].holding] > 0
                 THEN [worker EXCEPT ![n].claimed = @ \ {worker[n].holding}]
                 ELSE [worker EXCEPT ![n].pc = "writing"]
    /\ UNCHANGED <<call, late, files, phase, readiness, signals, abandoned, stopping, delivered>>

\* The response is written with the time of that moment. A response that is
\* there already is an error: both keep the request.
WriteResponse(n) ==
    /\ phase[n] = "live" /\ worker[n].pc = "writing"
    /\ LET c == worker[n].holding
       IN  IF HasLetter(n, c, "response")
           THEN /\ worker' = [worker EXCEPT ![n].pc = "idle"]
                /\ UNCHANGED files
           ELSE /\ files' = files \cup {Answer(n, c)}
                /\ worker' = [worker EXCEPT ![n].pc = "closing", ![n].claimed = @ \ {c}]
    /\ UNCHANGED <<call, late, phase, readiness, signals, abandoned, stopping, delivered>>

\* The claimed request is removed and the host forgets the request.
CloseRequest(n) ==
    /\ phase[n] = "live" /\ worker[n].pc = "closing"
    /\ files' = Without(n, worker[n].holding, "active")
    /\ worker' = [worker EXCEPT ![n].pc = "idle", ![n].holding = NoCall]
    /\ UNCHANGED <<call, late, phase, readiness, signals, abandoned, stopping, delivered>>

----------------------------------------------------------------------------
(* Runs come and go.                                                       *)

\* replica_run_id and spawn_stack_worker: a run of its own identity, with a
\* directory of its own.
StartRun(n) ==
    /\ phase[n] = "none"
    /\ \A m \in 1..(n - 1) : phase[m] # "none"
    /\ Cardinality({m \in Runs : phase[m] \in {"live", "dead", "cleaned"} /\ m \notin abandoned})
           < MaxReplicas
    /\ phase' = [phase EXCEPT ![n] = "live"]
    /\ UNCHANGED <<call, late, files, readiness, signals, worker, abandoned, stopping, delivered>>

\* A ready signal, also a repeated one, is a new readiness identity.
SignalReady(n) ==
    /\ phase[n] = "live" /\ signals[n] < MaxReady
    /\ signals' = [signals EXCEPT ![n] = @ + 1]
    /\ readiness' = [readiness EXCEPT ![n] = signals[n] + 1]
    /\ UNCHANGED <<call, late, files, phase, worker, abandoned, stopping, delivered>>

\* An unhealthy signal, a drain, a stop or a rollout takes the run off the
\* routes while its worker goes on.
LoseRoute(n) ==
    /\ phase[n] = "live" /\ readiness[n] # 0
    /\ readiness' = [readiness EXCEPT ![n] = 0]
    /\ UNCHANGED <<call, late, files, phase, signals, worker, abandoned, stopping, delivered>>

WorkerEnds(n) ==
    /\ phase[n] = "live"
    /\ phase' = [phase EXCEPT ![n] = "dead"]
    /\ worker' = [worker EXCEPT ![n] = IdleWorker]
    /\ UNCHANGED <<call, late, files, readiness, signals, abandoned, stopping, delivered>>

\* A sweep that left the responses.
SweptQueue(n) == IF MailboxReadable(n) THEN {f \in files : f.run = n => f.kind = "response"} ELSE files

\* cleanup_worker_channels: every envelope of the run, unless there are too many.
Swept(n) == IF MailboxReadable(n) THEN files \ Mailbox(n) ELSE files

CleanMailbox(n) ==
    /\ phase[n] = "dead" /\ n \notin abandoned
    /\ phase' = [phase EXCEPT ![n] = "cleaned"]
    /\ files' = Swept(n)
    /\ UNCHANGED <<call, late, readiness, signals, worker, abandoned, stopping, delivered>>

\* mark_exit, saved: the run leaves the status, and with it the routes.
SaveExit(n) ==
    /\ phase[n] = "cleaned"
    /\ phase' = [phase EXCEPT ![n] = "gone"]
    /\ readiness' = [readiness EXCEPT ![n] = 0]
    /\ UNCHANGED <<call, late, files, signals, worker, abandoned, stopping, delivered>>

\* The supervisor is killed and its workers with it; its successor finishes
\* the run in the status and leaves the mailbox.
SupervisorKilled(n) ==
    /\ phase[n] \in {"live", "dead"} /\ n \notin abandoned
    /\ phase' = [phase EXCEPT ![n] = "dead"]
    /\ worker' = [worker EXCEPT ![n] = IdleWorker]
    /\ abandoned' = abandoned \cup {n}
    /\ UNCHANGED <<call, late, files, readiness, signals, stopping, delivered>>

RecoverInterrupted(n) ==
    /\ n \in abandoned /\ phase[n] = "dead"
    /\ phase' = [phase EXCEPT ![n] = "gone"]
    /\ readiness' = [readiness EXCEPT ![n] = 0]
    /\ UNCHANGED <<call, late, files, signals, worker, abandoned, stopping, delivered>>

ThreadNext(c) == Invoke(c) \/ PollResponse(c) \/ PollDeadline(c) \/ CleanUp(c) \/ TimePasses(c)

WorkerNext(n) == (\E c \in Calls : Claim(n, c)) \/ OpenClaimed(n) \/ Respond(n)
                 \/ WriteResponse(n) \/ CloseRequest(n)

RunNext(n) == StartRun(n) \/ SignalReady(n) \/ LoseRoute(n) \/ WorkerEnds(n)
              \/ CleanMailbox(n) \/ SaveExit(n) \/ SupervisorKilled(n) \/ RecoverInterrupted(n)

\* The steps of the given calls and runs.
InvocationNext(calls, runs) ==
    Shutdown \/ (\E c \in calls : ThreadNext(c)) \/ (\E n \in runs : WorkerNext(n) \/ RunNext(n))

\* The daemon schedules its threads, and time passes.
InvocationFairness ==
    \A c \in Calls : /\ WF_invocationVars(PollResponse(c) \/ PollDeadline(c) \/ CleanUp(c))
                     /\ WF_invocationVars(TimePasses(c))

InvocationSpec == InvocationInit /\ [][InvocationNext(Calls, Runs)]_invocationVars /\ InvocationFairness

----------------------------------------------------------------------------
(* Properties.                                                             *)

\* docs/service-invocation.md: delivery is at most once, and a request is never
\* moved to another process: whatever the cleanup, the claim and the end of a
\* run do to each other, a call reaches one guest, that of the run it was
\* written for, at most once.
DeliveredAtMostOnce ==
    \A d \in delivered : d.nth = 1 /\ d.run = call[d.call].run

\* An answer comes from the guest the call was delivered to, and it was written
\* before the deadline, whichever of the response, the deadline and the loss of
\* the route came first.
AnswersAreReal ==
    \A c \in Calls : call[c].result = "answered" =>
        /\ \E d \in delivered : d.call = c /\ d.run = call[c].run
        /\ \A f \in files : f.call = c /\ f.kind = "response" => f.inTime

\* A replica has at most MaxQueued queued or claimed requests, although the
\* thread that counts and the worker that renames do not exclude each other; and
\* a request, claimed or not, is gone when its call ends.
RequestsAreBounded ==
    /\ \A n \in Runs : Queued(n) <= MaxQueued
    /\ \A f \in files : f.kind \in {"request", "active"} => call[f.call].pc # "ended"

\* The mailboxes stay bounded: the requests are, and no response outlives both
\* its call and its run either: what a thread leaves behind goes with the run,
\* and what is written for a run that ended goes with the thread.  (A killed
\* supervisor leaves the mailboxes of its runs behind.)
MailboxesAreBounded ==
    /\ RequestsAreBounded
    /\ \A f \in files : \/ phase[f.run] \in {"live", "dead"}
                        \/ f.run \in abandoned
                        \/ call[f.call].pc # "ended"

\* Every call that was accepted comes to an end, whatever happens to its worker.
CallsEnd == \A c \in Calls : (call[c].pc = "waiting") ~> (call[c].pc = "ended")
=============================================================================
