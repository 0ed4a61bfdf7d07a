----------------------------- MODULE HostReplay -----------------------------
(***************************************************************************)
(* Recording a run of a guest and replaying it (cartridge-runtime,         *)
(* host.rs, host/storage.rs and lib.rs; cartridge-trace).  Every call of   *)
(* the guest goes through the host, which answers it from the world while  *)
(* recording and from the trace while replaying.  A state replay also      *)
(* performs the storage calls on a branch of the state before the run.     *)
(*                                                                         *)
(* The guest is a deterministic program: as long as a replay has given it  *)
(* the answers of the recording it makes the calls of the recording, and   *)
(* after a different answer it may do anything.                            *)
(*                                                                         *)
(* A recorded event is a call with its outcome; its sequence number is its *)
(* place.  An event of capability and operation is named by the operation. *)
(* Deadlines, fuel and traps are left out: the output stands for both      *)
(* fields of TraceResult.                                                  *)
(***************************************************************************)
EXTENDS StorageContract, SequencesExt, MediaCapture

CONSTANTS MaxCalls,     \* bound: calls of a run
          MaxEvents,    \* MAX_TRACE_EVENTS, with MAX_TRACE_BYTES
          MaxRandom,    \* MAX_RANDOM_BYTES
          Pending,      \* input and MIDI events given to a run
          GuestKeys,    \* the keys the guest uses, of Keys
          Exchanges,    \* compare_exchange requests of the guest
          BatchRequests \* apply_batch requests of the guest

ASSUME HostAssumption == {MaxCalls, MaxEvents, MaxRandom, Pending} \subseteq Nat

VARIABLES
    session,    \* the step, whether it is a state replay, the verdict
    grants,    \* effective_permissions of the run
    host,       \* HostState: its events, its flags, its media, its queue
    view,       \* the calls of the guest so far, with the answers
    tape,       \* the recording: events, view, output, and the state it left
    live,       \* the namespace on disk
    source,     \* the state before the run, of which a snapshot was taken
    branch,     \* SnapshotStorage of a state replay
    meddled     \* whether someone else wrote during the recording (history)

hostVars == <<session, grants, host, view, tape, live, source, branch, meddled>>

Capabilities == {"clock", "random", "assets", "storage", "graphics", "audio", "midi", "http", "serve"}

EmptyNamespace == [entries |-> NoEntries, bytes |-> 0, revision |-> 0]

NoTape == [events |-> <<>>, view |-> <<>>, output |-> 0, grants |-> {}, state |-> EmptyNamespace]

\* The output of a run whose guest returned an error.
GuestError == 2

\* HostState::new_with_permissions
NewHost(pending) == [events |-> <<>>, overflow |-> FALSE, divergence |-> FALSE,
                     media |-> NewMedia, pending |-> pending, serving |-> FALSE]

\* effective_permissions: what the package requests and the ceiling allows.
EffectivePermissions(requested, ceiling) == requested \cap ceiling

\* A run for which the user holds back one capability.
HostInit(withheld) ==
    /\ session = [step |-> "live", stateful |-> FALSE, verdict |-> "none"]
    /\ \E missing \in withheld :
          grants = EffectivePermissions(Capabilities, Capabilities \ {missing})
    /\ host = NewHost(Pending)
    /\ view = <<>>
    /\ tape = NoTape
    /\ live = EmptyNamespace
    /\ source = live
    /\ branch = EmptyNamespace
    /\ meddled = FALSE

-----------------------------------------------------------------------------
(* The trace.                                                              *)

Replaying == session.step = "replay"

Call(op, key, value) == [op |-> op, key |-> key, value |-> value]

Denied == [tag |-> "denied"]

Bare(op) == Call(op, Absent, 0)

\* What an event keeps of the call: a refusal or a failure of a device leaves
\* out the fields that did not matter to it.
Shown(call, out) ==
    CASE out.tag = "ok" -> call
      [] call.op \in {"open", "audio", "random"} -> Bare(call.op)
      [] call.op \in {"resize", "present"} -> Call(call.op, call.key, 0)
      [] out = Denied /\ call.op \in {"put", "exchange"} -> Call(call.op, call.key, 0)
      [] out = Denied /\ call.op = "apply" -> Bare("apply")
      [] OTHER -> call

Event(call, out) == [call |-> Shown(call, out), out |-> out]

\* set_divergence: the first one stays.
Diverge(h) == [h EXCEPT !.divergence = TRUE]

\* The next event of the trace; cursor, sequence and events move together.
HasNext(h) == Len(h.events) < Len(tape.events)

NextEvent(h) == tape.events[Len(h.events) + 1]

\* A recorder that drops what is over the budget and says nothing.
RecordQuietly(h, event) ==
    IF Len(h.events) >= MaxEvents THEN h
    ELSE [h EXCEPT !.events = Append(@, event),
                   !.divergence = @ \/ (Replaying /\ ~(HasNext(h) /\ NextEvent(h) = event))]

\* HostState::record
Record(h, event) ==
    IF h.overflow THEN h
    ELSE IF Len(h.events) >= MaxEvents
    THEN [Diverge(h) EXCEPT !.overflow = TRUE]
    ELSE [h EXCEPT !.events = Append(@, event),
                   !.divergence = @ \/ (Replaying /\ ~(HasNext(h) /\ NextEvent(h) = event))]

\* replay_outcome
Replayable(call) == HasNext(host) /\ NextEvent(host).call.op = call.op

-----------------------------------------------------------------------------
(* Calls of the guest.                                                     *)

\* The guest so far got the answers of the recording.
OnTape == view = SubSeq(tape.view, 1, Min({Len(view), Len(tape.view)}))

MayCall(call) ==
    /\ session.step \in {"live", "replay"}
    /\ Len(view) < MaxCalls
    /\ Replaying /\ OnTape => /\ Len(view) < Len(tape.view)
                              /\ tape.view[Len(view) + 1].call = call

Answer(call, h, out) ==
    /\ host' = h
    /\ view' = Append(view, [call |-> call, out |-> out])
    /\ UNCHANGED <<session, grants, tape, source, meddled>>

\* The call is recorded with its answer.
Answered(call, h, out) == Answer(call, Record(h, Event(call, out)), out)

\* A capability that was not granted.
Refusal(call) == Answered(call, host, Denied)

\* log
Log(level) ==
    /\ MayCall(Call("log", Absent, level))
    /\ Answered(Call("log", Absent, level), host, Ok(0))
    /\ UNCHANGED <<live, branch>>

\* health_report is kept out of the trace.
HealthReport ==
    /\ MayCall(Bare("health"))
    /\ Answer(Bare("health"), host, Ok(0))
    /\ UNCHANGED <<live, branch>>

\* A replay that asks the world again.
InjectedAfresh(call, answers) == \E out \in answers : Answered(call, host, out)

\* A call whose answer comes from the world, and in a replay from the trace.
Injected(call, answers) ==
    IF ~Replaying THEN \E out \in answers : Answered(call, host, out)
    ELSE IF Replayable(call) /\ NextEvent(host).call = call /\ NextEvent(host).out.tag = "ok"
    THEN Answered(call, host, NextEvent(host).out)
    ELSE Answer(call, Diverge(host), Err)

\* wall_clock_ms
WallClock ==
    LET call == Bare("clock")
    IN  /\ MayCall(call)
        /\ IF "clock" \notin grants THEN Refusal(call)
           ELSE Injected(call, {Ok(1), Ok(2)})
        /\ UNCHANGED <<live, branch>>

\* random_bytes
RandomBytes(length) ==
    LET call == Call("random", Absent, length)
    IN  /\ MayCall(call)
        /\ IF "random" \notin grants \/ length > MaxRandom THEN Refusal(call)
           ELSE Injected(call, {[tag |-> "ok", bytes |-> <<length, b>>] : b \in 1 .. 2})
        /\ UNCHANGED <<live, branch>>

\* read_asset: assets are part of the package.
ReadAsset(path) ==
    LET call == Call("asset", Absent, path)
    IN  /\ MayCall(call)
        /\ IF "assets" \notin grants THEN Refusal(call)
           ELSE Answered(call, host, IF path = 0 THEN Err ELSE Ok(path))
        /\ UNCHANGED <<live, branch>>

\* http_fetch: a transport that fails leaves no event; a recorded refusal of
\* the policy has no response.
\* Request 0 names a header twice, request 1 is against the policy.
HttpFetch(request) ==
    LET call == Call("http", Absent, request)
    IN  /\ MayCall(call)
        /\ IF request = 0 THEN Answer(call, host, Err)
           ELSE IF "http" \notin grants \/ request = 1 THEN Refusal(call)
           ELSE IF ~Replaying
           THEN \/ \E body \in 1 .. 2 : Answered(call, host, Ok(body))
                \/ Answer(call, host, Err)
           ELSE IF ~Replayable(call) \/ NextEvent(host).call # call
           THEN Answer(call, Diverge(host), Err)
           ELSE IF NextEvent(host).out.tag # "ok" THEN Answer(call, host, Err)
           ELSE Answered(call, host, NextEvent(host).out)
        /\ UNCHANGED <<live, branch>>

\* input_next and midi_next: the queue is given before the run; an event with
\* no input reads as an empty queue.
DeviceNext(op, capability) ==
    LET call == Bare(op)
    IN  /\ MayCall(call)
        /\ IF capability \notin grants THEN Refusal(call)
           ELSE IF Replaying
           THEN IF Replayable(call)
                THEN Answer(call, Record(host, NextEvent(host)),
                            IF NextEvent(host).out.tag = "ok" THEN NextEvent(host).out ELSE Ok(0))
                ELSE Answer(call, Diverge(host), Err)
           ELSE Answered(call, [host EXCEPT !.pending = IF @ = 0 THEN 0 ELSE @ - 1], Ok(host.pending))
        /\ UNCHANGED <<live, branch>>

InputNext == DeviceNext("input", "graphics")

MidiNext == DeviceNext("midi", "midi")

\* Media calls are performed in a replay too, and their results compared.
MediaCall(call, capability, result) ==
    /\ MayCall(call)
    /\ IF capability \notin grants THEN Refusal(call)
       ELSE Answered(call, [host EXCEPT !.media = result.media], result.out)
    /\ UNCHANGED <<live, branch>>

WindowOpen(size) ==
    MediaCall(Call("open", Absent, size), "graphics", OpenWindow(host.media, size))

WindowResize(handle, size) ==
    MediaCall(Call("resize", handle, size), "graphics",
              ResizeWindow(host.media, handle, size))

WindowClose(handle) ==
    MediaCall(Call("close", handle, 0), "graphics",
              CloseWindow(host.media, handle))

GraphicsPresent(handle, tick) ==
    MediaCall(Call("present", handle, tick), "graphics",
              PresentFrame(host.media, handle, tick))

AudioRender(length) ==
    MediaCall(Call("audio", Absent, length), "audio", RenderSound(host.media, length))

\* serve_next: a timeout leaves no event, and a replay has no requests.
ServeNext ==
    LET call == Bare("serve")
    IN  /\ MayCall(call)
        /\ IF "serve" \notin grants \/ Replaying \/ host.serving THEN Answer(call, host, Err)
           ELSE \/ Answer(call, host, Ok(0))
                \/ Answered(call, [host EXCEPT !.serving = TRUE], Ok(1))
        /\ UNCHANGED <<live, branch>>

\* serve_respond
ServeRespond ==
    LET call == Bare("respond")
    IN  /\ MayCall(call)
        /\ IF "serve" \notin grants \/ ~host.serving THEN Answer(call, host, Err)
           ELSE Answered(call, [host EXCEPT !.serving = FALSE], Ok(0))
        /\ UNCHANGED <<live, branch>>
-----------------------------------------------------------------------------
(* Storage calls: what an operation does to a namespace.                   *)

Moved(ns, write) ==
    [entries |-> write.entries, bytes |-> write.bytes,
     revision |-> IF write.entries = ns.entries THEN ns.revision ELSE ns.revision + 1]

\* A value or a list over the limits of the runtime is not handed out.
Got(ns, key) ==
    [ns |-> ns, out |-> IF Size(ns.entries[key]) > Limits.max_value_bytes THEN Err
                        ELSE [tag |-> "ok", found |-> ns.entries[key]]]

Put(ns, key, value) ==
    LET write == PutWrite(ns.entries, ns.bytes, key, value)
    IN  IF value > Limits.max_value_bytes \/ write.error # "ok"
        THEN [ns |-> ns, out |-> Err]
        ELSE [ns |-> Moved(ns, write), out |-> Ok(0)]

Deleted(ns, key) ==
    [ns |-> Moved(ns, DeleteWrite(ns.entries, ns.bytes, key)),
     out |-> [tag |-> "ok", deleted |-> ns.entries[key] # Absent]]

Listed(ns) ==
    [ns |-> ns, out |-> IF Cardinality(Present(ns.entries)) > Limits.max_keys THEN Err
                        ELSE [tag |-> "ok", keys |-> Present(ns.entries)]]

Revision(ns) == [ns |-> ns, out |-> [tag |-> "ok", revision |-> ns.revision]]

\* record_transaction: the event has the result and the revision after it.
TransactionOutcome(applied, ns) ==
    [ns |-> ns, out |-> [tag |-> "ok", applied |-> applied, at |-> ns.revision]]

\* compare_exchange and apply_batch: the revision the caller gives must be the
\* current one.
Transacted(ns, revision, matches, mutations) ==
    LET write == ApplyMutations(ns.entries, ns.bytes, mutations)
    IN  IF ~ValidMutations(mutations) THEN [ns |-> ns, out |-> Err]
        ELSE IF ns.revision # revision \/ ~matches THEN TransactionOutcome(FALSE, ns)
        ELSE IF write.error # "ok" THEN [ns |-> ns, out |-> Err]
        ELSE TransactionOutcome(TRUE, Moved(ns, write))

\* The decode_recorded functions: a result, or the error that was recorded.
RecordedResult == NextEvent(host).out

\* check_replay_field, for every field of the call.
FieldsMatch(call) == NextEvent(host).call = call

\* The replay of a storage call: the fields of the call must be those of the
\* event, a recorded error counts as a divergence, and a state replay performs
\* a recorded success on the branch and compares the results.
FromTape(call, result) ==
    LET recorded == RecordedResult
        h == IF recorded.tag = "ok" THEN host ELSE Diverge(host)
        checks == session.stateful /\ recorded.tag = "ok"
    IN  IF ~Replayable(call) \/ ~FieldsMatch(call)
        THEN Answer(call, Diverge(host), Err) /\ UNCHANGED branch
        ELSE /\ IF checks /\ result.out # recorded THEN Answer(call, Diverge(h), Err)
                ELSE Answer(call, Record(h, NextEvent(host)), recorded)
             /\ branch' = IF checks THEN result.ns ELSE branch

\* The live state after a call that would leave it as next: a replay answers
\* from the trace before it comes to the backend.
Committed(next) == IF Replaying THEN live ELSE next

\* The namespace a storage call works on: the branch of a replay, else the state
\* of the backend.
Backend == IF Replaying THEN branch ELSE live

\* The common form of the storage calls of host/storage.rs; result is what the
\* call does to the Backend.
StorageCall(call, result) ==
    /\ MayCall(call)
    /\ IF "storage" \notin grants THEN Refusal(call) /\ UNCHANGED <<live, branch>>
       ELSE /\ IF Replaying THEN FromTape(call, result)
               ELSE Answered(call, host, result.out) /\ UNCHANGED branch
            /\ live' = Committed(result.ns)

GetStorage(key) ==
    StorageCall(Call("get", key, 0), Got(Backend, key))

PutStorage(key, value) ==
    StorageCall(Call("put", key, value), Put(Backend, key, value))

DeleteStorage(key) ==
    StorageCall(Call("delete", key, 0), Deleted(Backend, key))

ListStorage == StorageCall(Bare("list"), Listed(Backend))

StorageRevision == StorageCall(Bare("revision"), Revision(Backend))

\* mutation_identity: what a batch is recorded by; of one with too many
\* operations only their number.
Identity(revision, content) ==
    [revision |-> revision, operations |-> Len(content),
     content |-> IF Len(content) > MaxOperations THEN <<>> ELSE content]

\* value_identities: what a compare-exchange is recorded by.
ValueIdentities(revision, expected, replacement) ==
    [revision |-> revision, values |-> <<expected, replacement>>]

CompareExchange(revision, key, expected, replacement) ==
    LET mutations == <<[key |-> key, value |-> replacement]>>
        call == [op |-> "exchange", key |-> key,
                 request |-> ValueIdentities(revision, expected, replacement)]
    IN  StorageCall(call,
            Transacted(Backend, revision, Backend.entries[key] = expected, mutations))

ApplyBatch(revision, mutations) ==
    LET call == [op |-> "apply", request |-> Identity(revision, mutations)]
    IN  StorageCall(call, Transacted(Backend, revision, TRUE, mutations))

\* Another process writes the same namespace during the recording.
Meddle(key, value) ==
    /\ session.step = "live"
    /\ ~meddled
    /\ live' = Put(live, key, value).ns
    /\ live' # live
    /\ meddled' = TRUE
    /\ UNCHANGED <<session, grants, host, view, tape, source, branch>>
-----------------------------------------------------------------------------
(* The run.                                                                *)

\* The end of a recorded run: execute keeps the trace of a run that returned.
FinishRecording(output) ==
    /\ session.step = "live"
    /\ IF host.divergence \/ output = GuestError
       THEN session' = [session EXCEPT !.step = "failed"] /\ UNCHANGED tape
       ELSE /\ session' = [session EXCEPT !.step = "recorded"]
            /\ tape' = [events |-> host.events, view |-> view, output |-> output,
                       grants |-> grants, state |-> live]
    /\ UNCHANGED <<grants, host, view, live, source, branch, meddled>>

\* ExecutionTrace::validate
ValidTrace(events) == Len(events) <= MaxEvents

\* validate_invocation: package, runtime and arguments are those of the trace.
ValidInvocation(same) == ValidTrace(tape.events) /\ same

\* replay, and replay_from_snapshot with a branch of the source.
StartReplay(stateful, same, ceiling) ==
    /\ session.step = "recorded"
    /\ session' = [step |-> IF ValidInvocation(same) THEN "replay" ELSE "over", stateful |-> stateful,
                   verdict |-> IF ValidInvocation(same) THEN "none" ELSE "refused"]
    /\ grants' = EffectivePermissions(Capabilities, ceiling)
    /\ host' = NewHost(0)
    /\ view' = <<>>
    /\ branch' = IF stateful THEN source ELSE branch
    /\ UNCHANGED <<tape, live, source, meddled>>

\* finish_replay: no divergence, and no event left.
Complete == ~host.divergence /\ Len(host.events) >= Len(tape.events)

\* TraceResult::compare
SameResult(output) == output = tape.output

\* The end of a replay: finish_replay, then TraceResult::compare.
FinishReplay(output) ==
    /\ Replaying
    /\ OnTape => Len(view) >= Len(tape.view) /\ output = tape.output
    /\ session' = [session EXCEPT !.step = "over",
                       !.verdict = IF Complete /\ SameResult(output) THEN "accepted" ELSE "refused"]
    /\ UNCHANGED <<grants, host, view, tape, live, source, branch, meddled>>

DeviceCalls ==
    \/ Log(1) \/ HealthReport \/ WallClock \/ InputNext \/ MidiNext \/ ServeNext \/ ServeRespond
    \/ \E n \in 1 .. MaxRandom + 1 : RandomBytes(n)
    \/ \E n \in 0 .. 1 : ReadAsset(n)
    \/ \E n \in 0 .. 2 : HttpFetch(n)

MediaCalls ==
    \/ \E size \in 1 .. MaxPixels + 1 : WindowOpen(size)
    \/ \E handle \in 1 .. 2, size \in 1 .. MaxPixels : WindowResize(handle, size)
    \/ \E handle \in 1 .. 2 : WindowClose(handle)
    \/ \E handle \in 1 .. 2, tick \in 0 .. 1 : GraphicsPresent(handle, tick)
    \/ \E length \in 1 .. MaxSound : AudioRender(length)

StorageCalls ==
    \/ \E k \in GuestKeys : GetStorage(k) \/ DeleteStorage(k)
    \/ \E k \in GuestKeys, v \in Values \ {0} : PutStorage(k, v)
    \/ ListStorage \/ StorageRevision
    \/ \E x \in Exchanges : CompareExchange(x.revision, x.key, x.expected, x.replacement)
    \/ \E b \in BatchRequests : ApplyBatch(b.revision, b.mutations)

\* A run: its calls, whether others write the namespace, and whether state is
\* replayed with it.
HostNext(Calls, stateful) ==
    \/ Calls
    \/ stateful /\ Meddle(Min(GuestKeys), 1)
    \/ \E output \in {0, GuestError} : FinishRecording(output)
    \/ \E output \in 0 .. GuestError : FinishReplay(output)
    \/ \E branching, same \in BOOLEAN, ceiling \in {grants, Capabilities \ {"clock"}} :
          (branching => stateful) /\ StartReplay(branching, same, ceiling)
-----------------------------------------------------------------------------
\* The calls of a recording whose answers are in no event.
Unrecorded(entry) ==
    \/ entry.call.op = "health"
    \/ entry.call.op = "http" /\ entry.out = Err
    \/ entry.call.op = "serve" /\ entry.out \in {Err, Ok(0)}
    \/ entry.call.op = "respond" /\ entry.out = Err

\* A recording that is kept holds every answer it should, in order: a run that
\* outgrew the trace budget is not kept as a shorter one (record, execute).
RecordingIsComplete ==
    session.step = "recorded" =>
        LET kept == SelectSeq(tape.view, LAMBDA e : ~Unrecorded(e))
        IN  /\ Len(kept) = Len(tape.events)
            /\ \A i \in DOMAIN kept : tape.events[i] = Event(kept[i].call, kept[i].out)

\* A replay under the permissions of the recording; a state replay also of a
\* run that nobody disturbed.  No service requests: they cannot be replayed.
SameWorld ==
    /\ Replaying
    /\ grants = tape.grants
    /\ session.stateful => ~meddled
    /\ \A i \in DOMAIN tape.view : tape.view[i].call.op # "serve"

\* No call to a transport failed: such a call leaves nothing to replay.
NoLostFailure ==
    \A i \in DOMAIN tape.view : tape.view[i].call.op = "http" => tape.view[i].out # Err

StorageOperations == {"get", "put", "delete", "list", "revision", "exchange", "apply"}

\* Replay refuses nothing it should accept, and accepts nothing else.  An
\* unchanged package replays what it recorded, when no storage call failed: the
\* answers of the trace keep the guest on the calls of the trace to its end.
\* (docs/storage.md records outcomes, but a recorded error of a storage call is a
\* divergence of the replay.)  docs/trace-format.md: replay fails when execution
\* produces an extra event, leaves recorded events unused or changes its output;
\* so what an accepted replay told the guest of the world is what the recording
\* told it.  docs/capsule-format.md: an accepted state replay of a run nobody
\* disturbed rebuilds the state the run left, its revision included.
ReplayIsExact ==
    /\ (/\ SameWorld /\ NoLostFailure
        /\ \A i \in DOMAIN tape.view :
              tape.view[i].call.op \in StorageOperations => tape.view[i].out # Err)
       => OnTape /\ ~host.divergence
    /\ session.verdict = "accepted" =>
          /\ host.events = tape.events
          /\ LET told(v) == SelectSeq(v, LAMBDA e : /\ e.call.op \in {"clock", "random", "http", "get"}
                                                    /\ e.out.tag = "ok")
             IN  told(view) = told(tape.view)
          /\ session.stateful /\ ~meddled => branch = tape.state
=============================================================================
