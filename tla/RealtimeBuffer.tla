--------------------------- MODULE RealtimeBuffer ---------------------------
(***************************************************************************)
(* The ring between the thread that renders sound and the audio callback   *)
(* (cartridge-media/src/audio.rs, RealtimeBuffer): one producer in push,   *)
(* one consumer in fill_callback, and a third thread that reads telemetry. *)
(* A step is one access to an atomic the threads share.  The indices are   *)
(* stored with Release and read with Acquire, so what a thread did to a    *)
(* slot before it moved an index is seen by whoever read that index; the   *)
(* steps may be interleaved as they are.                                   *)
(*                                                                         *)
(* Samples are numbered in the order they are pushed; 0 is silence.        *)
(***************************************************************************)
EXTENDS Integers, Sequences

CONSTANTS Capacity,     \* slots of the ring, a power of two
          MaxSamples    \* bound: samples ever pushed

\* RealtimeBuffer::new: the mask of a power of two is a remainder.
ASSUME RingAssumption == Capacity \in Nat /\ Capacity >= 2 /\ MaxSamples \in Nat

VARIABLES ring,         \* the samples
          read, write,  \* the two indices
          producer,     \* where push is, and the sample it holds
          consumer,     \* where fill_callback is, and the slot it read from
          meter,        \* where telemetry is, and what it has loaded
          heard,        \* the samples played, without the silence (history)
          peak          \* peak_fill

ringVars == <<ring, read, write, producer, consumer, meter, heard, peak>>

RingSlots == 0 .. Capacity - 1

\* The index after another, by the mask.
After(i) == (i + 1) % Capacity

Fill(w, r) == (w - r) % Capacity

\* RealtimeBuffer::new
RingInit ==
    /\ ring = [i \in RingSlots |-> 0]
    /\ read = 0 /\ write = 0
    /\ producer = [pc |-> "check", sample |-> 1]
    /\ consumer = [pc |-> "check", slot |-> 0]
    /\ meter = [pc |-> "idle", write |-> 0, fill |-> 0]
    /\ heard = <<>>
    /\ peak = 0

\* A full test that forgets the mask.
PushCheckUnmasked ==
    /\ producer.pc = "check" /\ producer.sample <= MaxSamples
    /\ producer' = IF write + 1 = read THEN [producer EXCEPT !.pc = "full"]
                   ELSE [producer EXCEPT !.pc = "store"]
    /\ UNCHANGED <<ring, read, write, consumer, meter, heard, peak>>

\* push: one slot stays free; a sample that finds none is dropped.
PushCheck ==
    /\ producer.pc = "check" /\ producer.sample <= MaxSamples
    /\ producer' = IF After(write) = read THEN [producer EXCEPT !.pc = "full"]
                   ELSE [producer EXCEPT !.pc = "store"]
    /\ UNCHANGED <<ring, read, write, consumer, meter, heard, peak>>

\* The caller of push comes back with what was not written.
PushAgain ==
    /\ producer.pc = "full"
    /\ producer' = [producer EXCEPT !.pc = "check"]
    /\ UNCHANGED <<ring, read, write, consumer, meter, heard, peak>>

PushStore ==
    /\ producer.pc = "store"
    /\ ring' = [ring EXCEPT ![write] = producer.sample]
    /\ producer' = [producer EXCEPT !.pc = "publish"]
    /\ UNCHANGED <<read, write, consumer, meter, heard, peak>>

PushPublish ==
    /\ producer.pc = "publish"
    /\ write' = After(write)
    /\ producer' = [producer EXCEPT !.pc = "peak"]
    /\ UNCHANGED <<ring, read, consumer, meter, heard, peak>>

PushPeak ==
    /\ producer.pc = "peak"
    /\ peak' = IF Fill(write, read) > peak THEN Fill(write, read) ELSE peak
    /\ producer' = [pc |-> "check", sample |-> producer.sample + 1]
    /\ UNCHANGED <<ring, read, write, consumer, meter, heard>>

\* fill_callback: an empty ring gives silence and counts an underrun.
FillCheck ==
    /\ consumer.pc = "check"
    /\ read # write
    /\ consumer' = [pc |-> "load", slot |-> read]
    /\ UNCHANGED <<ring, read, write, producer, meter, heard, peak>>

FillLoad ==
    /\ consumer.pc = "load"
    /\ heard' = Append(heard, ring[consumer.slot])
    /\ consumer' = [consumer EXCEPT !.pc = "advance"]
    /\ UNCHANGED <<ring, read, write, producer, meter, peak>>

FillAdvance ==
    /\ consumer.pc = "advance"
    /\ read' = After(consumer.slot)
    /\ consumer' = [consumer EXCEPT !.pc = "check"]
    /\ UNCHANGED <<ring, write, producer, meter, heard, peak>>

\* telemetry loads one index, and then the other.
MeterWrite ==
    /\ meter.pc = "idle"
    /\ meter' = [pc |-> "read", write |-> write, fill |-> 0]
    /\ UNCHANGED <<ring, read, write, producer, consumer, heard, peak>>

MeterRead ==
    /\ meter.pc = "read"
    /\ meter' = [meter EXCEPT !.pc = "done", !.fill = Fill(meter.write, read)]
    /\ UNCHANGED <<ring, read, write, producer, consumer, heard, peak>>

RingNext ==
    \/ PushCheck \/ PushAgain \/ PushStore \/ PushPublish \/ PushPeak
    \/ FillCheck \/ FillLoad \/ FillAdvance
    \/ MeterWrite \/ MeterRead

RingSpec == RingInit /\ [][RingNext]_ringVars
-----------------------------------------------------------------------------
\* The samples that are in the ring for the consumer.
Published == (producer.sample - 1) + (IF producer.pc = "peak" THEN 1 ELSE 0)

\* What is played is what was pushed, every sample once and in order, however
\* the two threads interleave: no slot is overwritten before it was copied,
\* none is copied before it was written (push, fill_callback).
PlayedInOrder ==
    /\ \A i \in DOMAIN heard : heard[i] = i
    /\ Len(heard) <= Published

\* The peak that telemetry reports is a fill the ring can have had: the index
\* of the callback that push subtracts never runs ahead of its own.
PeakIsBounded == peak <= Capacity - 1 /\ peak <= Published
=============================================================================
