----------------------------- MODULE TraceTools -----------------------------
(***************************************************************************)
(* The tools that read traces without running anything: comparison,        *)
(* summary and redaction (cartridge-trace).  A trace here is its header    *)
(* fields in order, its events and the fields of its result in order; an   *)
(* event is its capability and its outcome.                                *)
(***************************************************************************)
EXTENDS Integers, Sequences, FiniteSetsExt

Identical == [kind |-> "none", at |-> 0]

\* The first place where two sequences of fields differ, if there is one.
FirstFieldDifference(kind, left, right) ==
    LET differ == {i \in DOMAIN left : left[i] # right[i]}
    IN  IF differ = {} THEN Identical ELSE [kind |-> kind, at |-> Min(differ)]

\* Option: the event at an index, or nothing.
EventAt(events, i) == IF i \in DOMAIN events THEN <<events[i]>> ELSE <<>>

\* first_event_difference: the longer trace decides how far to look.
FirstEventDifference(left, right) ==
    LET differ == {i \in 1 .. Max({Len(left), Len(right)}) : EventAt(left, i) # EventAt(right, i)}
    IN  IF differ = {} THEN Identical ELSE [kind |-> "event", at |-> Min(differ)]

\* first_header_difference
FirstHeaderDifference(left, right) == FirstFieldDifference("header", left, right)

\* first_result_difference
FirstResultDifference(left, right) == FirstFieldDifference("result", left, right)

\* ExecutionTrace::compare
Compare(left, right) ==
    LET header == FirstHeaderDifference(left.header, right.header)
        events == FirstEventDifference(left.events, right.events)
    IN  IF header # Identical THEN header
        ELSE IF events # Identical THEN events
        ELSE FirstResultDifference(left.result, right.result)

\* ExecutionTrace::summary
CapabilityCounts(trace) ==
    [c \in {trace.events[i].capability : i \in DOMAIN trace.events} |->
        Cardinality({i \in DOMAIN trace.events : trace.events[i].capability = c})]

\* ExecutionTrace::redact: an event keeps its place, its label and a digest.
Redact(trace, profile) ==
    [count |-> Len(trace.events), capabilities |-> CapabilityCounts(trace),
     events |-> IF profile = "summary" THEN <<>>
                ELSE [i \in DOMAIN trace.events |->
                        [sequence |-> i, capability |-> trace.events[i].capability,
                         digest |-> <<"sha256", trace.events[i].outcome>>]],
     result |-> <<"sha256", trace.result>>]
-----------------------------------------------------------------------------
\* docs/trace-format.md: comparison reports the first difference in the order
\* identity, events, result.  It calls two traces identical only when they are,
\* and everything before the difference it names is the same in both, also
\* when one trace goes on where the other ends.
ComparisonIsExact(left, right) ==
    LET d == Compare(left, right)
    IN  /\ (d = Identical) = (left = right)
        /\ d.kind \in {"event", "result"} => left.header = right.header
        /\ d.kind = "result" => left.events = right.events
        /\ d.kind = "event" =>
              /\ SubSeq(left.events, 1, d.at - 1) = SubSeq(right.events, 1, d.at - 1)
              /\ EventAt(left.events, d.at) # EventAt(right.events, d.at)

\* The counts of a redacted trace add up to its events, and two traces with
\* the same metadata export have the same events.
RedactionIsFaithful(left, right) ==
    /\ MapThenSumSet(LAMBDA c : CapabilityCounts(left)[c], DOMAIN CapabilityCounts(left))
           = Redact(left, "summary").count
    /\ Redact(left, "metadata") = Redact(right, "metadata") => left.events = right.events
=============================================================================
