--------------------------- MODULE DaemonControl ---------------------------
(* The engine daemon and its clients: the lease that lets one daemon at a  *)
(* time own an engine root, the endpoint file that tells clients and       *)
(* supervisors which one, the threads that serve sealed requests, the      *)
(* cache that refuses a request seen before, and the shutdown.             *)
(*                                                                         *)
(* An instance is one boot of the daemon with a key of its own: a frame    *)
(* sealed for an instance opens under no other.                            *)
EXTENDS Integers, FiniteSets

CONSTANTS MaxInstances,  \* bound: daemons started
          Requests,      \* requests clients send, each with a random identity
          MaxClients,    \* MAX_CLIENTS
          Skew,          \* REQUEST_MAX_SKEW_MS
          Retention,     \* REPLAY_RETENTION_MS
          MaxReplayIds,  \* MAX_REPLAY_IDS
          MaxTime        \* bound: the wall clock

ASSUME DaemonAssumption ==
    /\ MaxInstances \in Nat /\ MaxTime \in Nat
    /\ MaxClients \in Nat \ {0} /\ MaxReplayIds \in Nat \ {0}
    /\ Skew \in Nat /\ Retention \in Nat /\ Retention >= 2 * Skew

VARIABLES lease,     \* who holds the lock of daemon.lock: Free, an instance, or Probing
          endpoint,  \* the instance daemon.json names, or 0
          daemon,    \* per instance: off, leased, serving, draining, ended
          stop,      \* per instance: the stopping flag
          fence,     \* the client thread that holds the mutation lock, or 0
          thread,    \* client threads of the serving daemon
          seen,      \* ReplayCache: when each identity was accepted, or Never
          request,   \* per request: its client
          owned,     \* per instance: its supervisors run
          now,       \* the wall clock
          executed,  \* history: requests executed, with the instance and the count
          fenced     \* history: instances that have answered a shutdown

daemonVars == <<lease, endpoint, daemon, stop, fence, thread, seen, request, owned, now,
                executed, fenced>>

Boots == 1..MaxInstances
Slots == 1..MaxClients
Never == -1
Free == 0
Probing == MaxInstances + 1
Kinds == {"read", "mutate", "shutdown"}

FreeThread == [pc |-> "free", req |-> 0]

NewRequest == [pc |-> "new", instance |-> 0, kind |-> "read", issued |-> 0]

DaemonInit ==
    /\ lease = Free
    /\ endpoint = 0
    /\ daemon = [i \in Boots |-> "off"]
    /\ stop = [i \in Boots |-> FALSE]
    /\ fence = 0
    /\ thread = [s \in Slots |-> FreeThread]
    /\ seen = [q \in Requests |-> Never]
    /\ request = [q \in Requests |-> NewRequest]
    /\ owned = [i \in Boots |-> FALSE]
    /\ now = 0
    /\ executed = {}
    /\ fenced = {}

\* DaemonCodec: a frame carries the instance whose key sealed it and its
\* direction, and opens only for both.
Frame(i, direction, q) == [instance |-> i, direction |-> direction, id |-> q]
Opens(i, direction, frame) == frame.instance = i /\ frame.direction = direction
RequestFrame(q) == Frame(request[q].instance, "request", q)
ResponseFrame(i, q) == Frame(i, "response", q)

\* open_request and open_response; the response must be to this request.
OpensRequest(i, frame) == Opens(i, "request", frame)
OpensResponse(q, frame) == Opens(request[q].instance, "response", frame) /\ frame.id = q

Serving(i) == daemon[i] \in {"serving", "draining"}

----------------------------------------------------------------------------
(* The daemon process.                                                     *)

\* A daemon that went on although the lock is taken.
AcquireAnyway(i) ==
    /\ daemon[i] = "off"
    /\ \A j \in 1..(i - 1) : daemon[j] # "off"
    /\ lease' = i /\ daemon' = [daemon EXCEPT ![i] = "leased"]
    /\ UNCHANGED <<endpoint, stop, fence, thread, seen, request, owned, now, executed, fenced>>

\* DaemonLease::acquire: the lock is taken or the start refused.
Acquire(i) ==
    /\ daemon[i] = "off"
    /\ \A j \in 1..(i - 1) : daemon[j] # "off"
    /\ IF lease = Free
       THEN lease' = i /\ daemon' = [daemon EXCEPT ![i] = "leased"]
       ELSE daemon' = [daemon EXCEPT ![i] = "ended"] /\ UNCHANGED lease
    /\ UNCHANGED <<endpoint, stop, fence, thread, seen, request, owned, now, executed, fenced>>

\* A new codec, an empty replay cache, and DaemonLease::publish.
Publish(i) ==
    /\ daemon[i] = "leased"
    /\ daemon' = [daemon EXCEPT ![i] = "serving"]
    /\ endpoint' = i
    /\ seen' = [q \in Requests |-> Never]
    /\ UNCHANGED <<lease, stop, fence, thread, request, owned, now, executed, fenced>>

\* reconcile_supervisors: the daemon starts a supervisor.
SpawnSupervisor(i) ==
    /\ daemon[i] = "serving" /\ ~stop[i] /\ ~owned[i]
    /\ owned' = [owned EXCEPT ![i] = TRUE]
    /\ UNCHANGED <<lease, endpoint, daemon, stop, fence, thread, seen, request, now, executed, fenced>>

\* daemon_owner_is_active is false: the supervisor stops its workers and ends.
SupervisorLeaves(i) ==
    /\ owned[i]
    /\ endpoint # i \/ lease = Free
    /\ owned' = [owned EXCEPT ![i] = FALSE]
    /\ UNCHANGED <<lease, endpoint, daemon, stop, fence, thread, seen, request, now, executed, fenced>>

Interrupt(i) ==
    /\ daemon[i] = "serving" /\ ~stop[i]
    /\ stop' = [stop EXCEPT ![i] = TRUE]
    /\ UNCHANGED <<lease, endpoint, daemon, fence, thread, seen, request, owned, now, executed, fenced>>

\* The end of the serve loop and remove_endpoint: an endpoint that names
\* another instance is left alone and reported.
Withdraw(i) ==
    /\ daemon[i] = "serving" /\ stop[i]
    /\ daemon' = [daemon EXCEPT ![i] = "draining"]
    /\ endpoint' = IF endpoint = i THEN 0 ELSE endpoint
    /\ UNCHANGED <<lease, stop, fence, thread, seen, request, owned, now, executed, fenced>>

\* drain_clients ends with the last thread or with its deadline; then
\* stop_supervisors, and the process ends, its threads and its lock with it.
Exit(i) ==
    /\ daemon' = [daemon EXCEPT ![i] = "ended"]
    /\ lease' = IF lease = i THEN Free ELSE lease
    /\ thread' = [s \in Slots |-> FreeThread]
    /\ fence' = 0
    /\ request' = [q \in Requests |-> IF request[q].pc = "sent" /\ request[q].instance = i
                                      THEN [request[q] EXCEPT !.pc = "failed"] ELSE request[q]]

StopServing(i) ==
    /\ daemon[i] = "draining"
    /\ Exit(i)
    /\ owned' = [owned EXCEPT ![i] = FALSE]
    /\ UNCHANGED <<endpoint, stop, seen, now, executed, fenced>>

DaemonDies(i) ==
    /\ daemon[i] \in {"leased", "serving", "draining"}
    /\ Exit(i)
    /\ UNCHANGED <<endpoint, stop, seen, owned, now, executed, fenced>>

----------------------------------------------------------------------------
(* The client.                                                             *)

Client(q, pc) == request' = [request EXCEPT ![q].pc = pc]

\* DaemonEndpoint::read.
ReadEndpoint(q) ==
    /\ request[q].pc = "new"
    /\ IF endpoint = 0 THEN Client(q, "failed")
       ELSE request' = [request EXCEPT ![q].pc = "found", ![q].instance = endpoint]
    /\ UNCHANGED <<lease, endpoint, daemon, stop, fence, thread, seen, owned, now, executed, fenced>>

\* DaemonLease::is_active tries to take the lock: when it gets it no daemon is
\* running, and the lock is released with the file.
ProbeLease(q) ==
    /\ request[q].pc = "found"
    /\ IF lease = Free THEN lease' = Probing /\ Client(q, "probing")
       ELSE Client(q, "active") /\ UNCHANGED lease
    /\ UNCHANGED <<endpoint, daemon, stop, fence, thread, seen, owned, now, executed, fenced>>

DropProbe(q) ==
    /\ request[q].pc = "probing"
    /\ lease' = Free
    /\ Client(q, "failed")
    /\ UNCHANGED <<endpoint, daemon, stop, fence, thread, seen, owned, now, executed, fenced>>

\* seal_request, connect and write_frame_before. The clock of the client may
\* differ from that of the daemon.
SendRequest(q, kind, issued) ==
    /\ request[q].pc = "active"
    /\ request' = [request EXCEPT ![q] = [pc |-> IF Serving(request[q].instance) THEN "sent" ELSE "failed",
                                          instance |-> request[q].instance,
                                          kind |-> kind, issued |-> issued]]
    /\ UNCHANGED <<lease, endpoint, daemon, stop, fence, thread, seen, owned, now, executed, fenced>>

\* The client gives up at its deadline; the daemon goes on.
GiveUp(q) ==
    /\ request[q].pc = "sent"
    /\ Client(q, "failed")
    /\ UNCHANGED <<lease, endpoint, daemon, stop, fence, thread, seen, owned, now, executed, fenced>>

----------------------------------------------------------------------------
(* A client thread of the daemon.                                          *)

Issued(q) == request[q].instance # 0 /\ request[q].pc \in {"sent", "answered", "failed"}

\* accept_clients and reserve_client: a connection carries a frame that was
\* sealed for this instance; the same frame may arrive more than once.
AcceptClient(i, s, q) ==
    /\ daemon[i] = "serving" /\ ~stop[i]
    /\ thread[s].pc = "free" /\ \A r \in 1..(s - 1) : thread[r].pc # "free"
    /\ Issued(q) /\ OpensRequest(i, RequestFrame(q))
    /\ thread' = [thread EXCEPT ![s] = [pc |-> "accepted", req |-> q]]
    /\ UNCHANGED <<lease, endpoint, daemon, stop, fence, seen, request, owned, now, executed, fenced>>

\* ReplayCache::accept.
Fresh(q) == now - request[q].issued <= Skew /\ request[q].issued - now <= Skew

\* A cache that forgets an identity one tick too early.
RetainedShort == [q \in Requests |-> IF seen[q] > now - Retention THEN seen[q] ELSE Never]

Retained == [q \in Requests |-> IF seen[q] >= now - Retention THEN seen[q] ELSE Never]

Admit(i, s) ==
    /\ Serving(i) /\ thread[s].pc = "accepted"
    /\ LET q == thread[s].req
           kept == Retained
       IN  IF ~Fresh(q) THEN thread' = [thread EXCEPT ![s] = FreeThread] /\ UNCHANGED seen
           ELSE IF kept[q] # Never \/ Cardinality({r \in Requests : kept[r] # Never}) >= MaxReplayIds
           THEN thread' = [thread EXCEPT ![s] = FreeThread] /\ seen' = kept
           ELSE thread' = [thread EXCEPT ![s].pc = "admitted"] /\ seen' = [kept EXCEPT ![q] = now]
    /\ UNCHANGED <<lease, endpoint, daemon, stop, fence, request, owned, now, executed, fenced>>

Count(i, q) == Cardinality({e \in executed : e.instance = i /\ e.req = q})

Ran(i, q) == executed \cup {[instance |-> i, req |-> q, nth |-> Count(i, q) + 1,
                             late |-> request[q].kind = "mutate" /\ i \in fenced]}

\* execute_request for a request that changes nothing.
ExecuteRead(i, s) ==
    /\ Serving(i) /\ thread[s].pc = "admitted" /\ request[thread[s].req].kind = "read"
    /\ thread' = [thread EXCEPT ![s].pc = "done"]
    /\ executed' = Ran(i, thread[s].req)
    /\ UNCHANGED <<lease, endpoint, daemon, stop, fence, seen, request, owned, now, fenced>>

TakeFence(i, s) ==
    /\ Serving(i) /\ thread[s].pc = "admitted" /\ request[thread[s].req].kind # "read"
    /\ fence = 0
    /\ fence' = s
    /\ thread' = [thread EXCEPT ![s].pc = "fenced"]
    /\ UNCHANGED <<lease, endpoint, daemon, stop, seen, request, owned, now, executed, fenced>>

\* A mutation that does not look at the flag again.
MayMutateAlways(i) == TRUE

\* lock_mutation refuses once the daemon stops; otherwise the mutation is
\* executed. A shutdown only sets the flag.
MayMutate(i) == ~stop[i]

ExecuteFenced(i, s) ==
    /\ Serving(i) /\ thread[s].pc = "fenced"
    /\ LET q == thread[s].req
       IN  \/ /\ request[q].kind = "shutdown"
              /\ stop' = [stop EXCEPT ![i] = TRUE]
              /\ fenced' = fenced \cup {i}
              /\ executed' = Ran(i, q)
           \/ /\ request[q].kind = "mutate" /\ MayMutate(i)
              /\ executed' = Ran(i, q)
              /\ UNCHANGED <<stop, fenced>>
           \/ /\ request[q].kind = "mutate" /\ ~MayMutate(i)
              /\ UNCHANGED <<stop, fenced, executed>>
    /\ fence' = 0
    /\ thread' = [thread EXCEPT ![s].pc = "done"]
    /\ UNCHANGED <<lease, endpoint, daemon, seen, request, owned, now>>

\* seal_response, write_frame, and the slot is given back with the thread.
Reply(i, s) ==
    /\ Serving(i) /\ thread[s].pc = "done"
    /\ thread' = [thread EXCEPT ![s] = FreeThread]
    /\ LET q == thread[s].req
       IN  request' = [request EXCEPT ![q].pc = IF @ = "sent" /\ OpensResponse(q, ResponseFrame(i, q))
                                                THEN "answered" ELSE @]
    /\ UNCHANGED <<lease, endpoint, daemon, stop, fence, seen, owned, now, executed, fenced>>

Tick(until) ==
    /\ now < until
    /\ now' = now + 1
    /\ UNCHANGED <<lease, endpoint, daemon, stop, fence, thread, seen, request, owned, executed, fenced>>

ThreadStep(i, s) == Admit(i, s) \/ ExecuteRead(i, s) \/ TakeFence(i, s) \/ ExecuteFenced(i, s) \/ Reply(i, s)

\* The clocks of client and daemon differ by at most the skew the daemon allows
\* and one more.
ClientStep(q) == ReadEndpoint(q) \/ ProbeLease(q) \/ DropProbe(q) \/ GiveUp(q)
                 \/ \E kind \in Kinds, issued \in (now - Skew - 1)..(now + Skew + 1) :
                        SendRequest(q, kind, issued)

DaemonStep(i) == Acquire(i) \/ Publish(i) \/ SpawnSupervisor(i) \/ SupervisorLeaves(i) \/ Interrupt(i)
                 \/ Withdraw(i) \/ StopServing(i) \/ DaemonDies(i)

\* The steps of the given instances and requests until the given time.
DaemonNext(instances, requests, until) ==
    \/ Tick(until)
    \/ \E q \in requests : ClientStep(q)
    \/ \E i \in instances : \/ DaemonStep(i)
                            \/ \E s \in Slots : ThreadStep(i, s) \/ \E q \in requests : AcceptClient(i, s, q)

DaemonSpec == DaemonInit /\ [][DaemonNext(Boots, Requests, MaxTime)]_daemonVars

----------------------------------------------------------------------------
(* Properties.                                                             *)

\* A request is executed at most once by a daemon, however often its frame
\* arrives and whatever the clock of the client shows: an identity is forgotten
\* only when the freshness window of its request is over.
ExecutedAtMostOnce == \A e \in executed : e.nth = 1

\* docs/security-audit-daemon-0.1.md, DAE-06: no mutation lands once a shutdown
\* was answered, although both wait for the same lock.
NoMutationAfterShutdown == \A e \in executed : ~e.late

\* One daemon at a time holds the lease, from the moment it starts to serve to
\* its end, and while it serves the endpoint file is its own: no other daemon,
\* on its way up, down or dying, replaces or removes it (DaemonLease, publish,
\* remove_endpoint).
EndpointIsOwn ==
    \A i \in Boots :
        /\ daemon[i] \in {"leased", "serving", "draining"} => lease = i
        /\ daemon[i] = "serving" => endpoint = i
=============================================================================
