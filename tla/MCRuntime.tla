------------------------------ MODULE MCRuntime -----------------------------
(***************************************************************************)
(* What one runtime process does for its guests, one part at a time:       *)
(* recorded and replayed runs whose guest talks to devices, to the media   *)
(* host or to storage, the memory backend under several clients, and the   *)
(* headless display alone, for longer than a recorded run lasts here.  A   *)
(* last part compares pairs of small traces.                               *)
(***************************************************************************)
EXTENDS HostReplay, MemoryStorage, TraceTools

CONSTANT MaxHandles     \* bound: windows the display ever opens

VARIABLES part,         \* the part that is explored
          display,      \* the captures of the display explored alone
          traces        \* two traces to compare

runtimeVars == <<hostVars, memoryVars, part, display, traces>>

NoTrace == [header |-> <<0>>, events |-> <<>>, result |-> <<0, 0>>]

SmallTraces ==
    [header: {<<0>>, <<1>>},
     events: BoundedSeq([capability: {"clock", "log"}, outcome: 0 .. 1], 2),
     result: {<<0, 0>>, <<0, 1>>, <<1, 0>>}]

SmallLimits == [max_bytes |-> 3, max_keys |-> 2, max_value_bytes |-> 2]

SomeExchanges ==
    {[revision |-> 0, key |-> 1, expected |-> Absent, replacement |-> 1],
     [revision |-> 1, key |-> 1, expected |-> 1, replacement |-> 2],
     [revision |-> 1, key |-> 1, expected |-> 1, replacement |-> Absent]}

\* A swap of keys, a write, a write over the quota, and too many operations.
SomeBatches ==
    {[revision |-> 1, mutations |-> <<[key |-> 1, value |-> Absent], [key |-> 2, value |-> 2]>>],
     [revision |-> 0, mutations |-> <<[key |-> 1, value |-> 1]>>],
     [revision |-> 0, mutations |-> <<[key |-> 1, value |-> 2], [key |-> 2, value |-> 2]>>],
     [revision |-> 0, mutations |-> [i \in 1 .. 3 |-> [key |-> i, value |-> 0]]]}

RuntimeInit ==
    /\ display = NewMedia
    /\ traces = <<NoTrace, NoTrace>>
    /\ \/ part = "devices" /\ HostInit({"graphics"})
       \/ part \in {"media", "display", "memory", "traces"} /\ HostInit({"audio"})
       \/ part = "storage" /\ HostInit({"storage", "clock"})
    /\ IF part = "memory" THEN MemoryInit
       ELSE memory = VacantNamespace /\ granted = NotGranted /\ held = [c \in MemoryClients |-> NoToken]

DisplayNext ==
    \E handle \in 1 .. MaxHandles :
        \/ \E size \in 1 .. MaxPixels + 1 :
              \/ display.next <= MaxHandles /\ display' = OpenWindow(display, size).media
              \/ display' = ResizeWindow(display, handle, size).media
        \/ display' = CloseWindow(display, handle).media
        \/ \E tick \in 0 .. 1 : display' = PresentFrame(display, handle, tick).media
        \/ \E length \in 1 .. MaxSound : display' = RenderSound(display, length).media

RuntimeNext ==
    /\ UNCHANGED part
    /\ \/ /\ part \in {"devices", "media", "storage"}
          /\ HostNext(\/ part = "devices" /\ DeviceCalls
                      \/ part = "media" /\ MediaCalls
                      \/ part = "storage" /\ StorageCalls, part = "storage")
          /\ UNCHANGED <<memoryVars, display, traces>>
       \/ part = "memory" /\ MemoryNext /\ UNCHANGED <<hostVars, display, traces>>
       \/ part = "display" /\ DisplayNext /\ UNCHANGED <<hostVars, memoryVars, traces>>
       \/ /\ part = "traces"
          /\ traces = <<NoTrace, NoTrace>>
          /\ \E left, right \in SmallTraces : traces' = <<left, right>>
          /\ UNCHANGED <<hostVars, memoryVars, display>>

RuntimeSpec == RuntimeInit /\ [][RuntimeNext]_runtimeVars

\* What a run leaves behind is exact: a trace that is kept holds every answer it
\* should, in order, and is never a shortened one; captured frames and sounds are
\* within the budget, numbered without gaps and in order; and the trace tools name
\* the first difference in the order identity, events, result, and none for equal
\* traces, before and after redaction (record, execute, HeadlessDisplay::present,
\* ExecutionTrace::compare, redact).
RecordingsAreExact ==
    /\ RecordingIsComplete
    /\ CaptureIsOrdered(display) /\ CaptureIsOrdered(host.media)
    /\ part = "traces" =>
          ComparisonIsExact(traces[1], traces[2]) /\ RedactionIsFaithful(traces[1], traces[2])
=============================================================================
