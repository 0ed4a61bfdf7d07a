---------------------------- MODULE SharingProofs ----------------------------
(***************************************************************************)
(* Parties that share a ring or a directory stay out of each other's way.  *)
(*                                                                         *)
(* The ring of the audio backends is a queue, for every capacity: the      *)
(* samples between the two indices are the ones that were pushed and not   *)
(* yet copied, in order, and the slot the producer writes is never one of  *)
(* them.                                                                   *)
(*                                                                         *)
(* One daemon serves an engine root at a time, and it executes a request   *)
(* at most once, for every number of daemons, requests and client threads. *)
(* The argument has four layers, each an invariant that rests on the ones  *)
(* before it: the types; the lease; the client threads of the one serving  *)
(* daemon; and the requests that were admitted, which the replay cache     *)
(* remembers until their freshness window is over.                         *)
(*                                                                         *)
(* The processes of an engine share the files of its stacks: what one of   *)
(* them was told is saved is what the others find, and no routing snapshot *)
(* has the number of an earlier one, for every number of processes, files  *)
(* and deaths.                                                             *)
(***************************************************************************)
EXTENDS RealtimeBuffer, DaemonControl, EngineFiles, TLAPS

\* How far the ring has to be followed from one slot to the other.
Dist(from, to) == IF to >= from THEN to - from ELSE to - from + Capacity

\* The samples whose slots the consumer has given back.
Consumed == Len(heard) - (IF consumer.pc = "advance" THEN 1 ELSE 0)

RingTypeOK ==
    /\ ring \in [RingSlots -> Nat]
    /\ read \in RingSlots /\ write \in RingSlots
    /\ producer \in [pc : {"check", "full", "store", "publish", "peak"}, sample : Nat \ {0}]
    /\ consumer \in [pc : {"check", "load", "advance"}, slot : RingSlots]
    /\ heard \in Seq(Nat)
    /\ peak \in Nat

\* The inductive invariant.
RingInv ==
    /\ RingTypeOK
    /\ consumer.pc # "check" => consumer.slot = read /\ Dist(read, write) > 0
    /\ Consumed \in Nat
    /\ Consumed + Dist(read, write) = Published
    /\ producer.pc \in {"store", "publish"} => Dist(read, write) < Capacity - 1
    /\ producer.pc = "publish" => ring[write] = producer.sample
    /\ \A i \in RingSlots : Dist(read, i) < Dist(read, write) => ring[i] = Consumed + Dist(read, i) + 1
    /\ \A i \in DOMAIN heard : heard[i] = i
    /\ peak <= Capacity - 1 /\ peak <= Published

\* The mask wraps the last index round to the first.
LEMMA AfterWraps ==
    ASSUME NEW i \in RingSlots
    PROVE  After(i) = IF i = Capacity - 1 THEN 0 ELSE i + 1
  <1>1. CASE i = Capacity - 1
    <2>1. Capacity % Capacity = 0
      BY RingAssumption, SMT
    <2> QED
      BY <1>1, <2>1, RingAssumption DEF After, RingSlots
  <1>2. CASE i # Capacity - 1
    <2>1. i + 1 \in 0 .. Capacity - 1
      BY <1>2, RingAssumption DEF RingSlots
    <2>2. (i + 1) % Capacity = i + 1
      BY <2>1, RingAssumption, SMT
    <2> QED
      BY Zenon, <1>2, <2>2 DEF After
  <1> QED
    BY Zenon, <1>1, <1>2

\* The difference of two indices under the mask is their distance.
LEMMA FillIsDist ==
    ASSUME NEW w \in RingSlots, NEW r \in RingSlots
    PROVE  Fill(w, r) = Dist(r, w)
  <1>1. CASE w >= r
    <2>1. w - r \in 0 .. Capacity - 1
      BY <1>1, RingAssumption DEF RingSlots
    <2>2. (w - r) % Capacity = w - r
      BY <2>1, RingAssumption, SMT
    <2> QED
      BY Zenon, <1>1, <2>2 DEF Fill, Dist
  <1>2. CASE w < r
    <2>1. w - r \in Int /\ w - r < 0 /\ w - r + Capacity >= 0
      BY <1>2, RingAssumption DEF RingSlots
    <2>2. (w - r) % Capacity = w - r + Capacity
      BY <2>1, RingAssumption, SMT
    <2> QED
      BY <1>2, <2>2 DEF Fill, Dist, RingSlots
  <1> QED
    BY <1>1, <1>2 DEF RingSlots

\* Distances are those of slots, and a step along the ring changes them by one.
LEMMA DistFacts ==
    ASSUME NEW r \in RingSlots, NEW w \in RingSlots
    PROVE  /\ Dist(r, w) \in 0 .. Capacity - 1
           /\ Dist(r, w) = 0 <=> r = w
           /\ Dist(r, w) < Capacity - 1 => Dist(r, After(w)) = Dist(r, w) + 1
           /\ r # w => \A i \in RingSlots : i # r => Dist(After(r), i) = Dist(r, i) - 1
           /\ After(w) \in RingSlots
           /\ After(w) = r => Dist(r, w) = Capacity - 1
           /\ After(w) # r => Dist(r, w) < Capacity - 1
  BY AfterWraps, RingAssumption DEF Dist, RingSlots

\* The first state is a ring without samples.
LEMMA RingInvInit == RingInit => RingInv
  BY RingAssumption DEF RingInit, RingInv, RingTypeOK, Consumed, Published, Dist, RingSlots

\* A step of the producer.
LEMMA PushKeepsInv ==
    ASSUME RingInv, PushCheck \/ PushAgain \/ PushStore \/ PushPublish \/ PushPeak
    PROVE  RingInv'
  <1> USE RingAssumption DEF RingInv, RingTypeOK
  <1>1. CASE PushCheck
    <2>1. After(write) # read => Dist(read, write) < Capacity - 1
      BY Zenon, DistFacts
    <2> QED
      BY Zenon, <1>1, <2>1 DEF PushCheck, Consumed, Published, Dist
  <1>2. CASE PushAgain
    BY Zenon, <1>2 DEF PushAgain, Consumed, Published, Dist
  <1>3. CASE PushStore
    <2>1. \A i \in RingSlots : Dist(read, i) < Dist(read, write) => i # write
      BY DistFacts
    <2>2. \A i \in RingSlots : Dist(read, i) < Dist(read, write) => ring'[i] = ring[i]
      BY Zenon, <1>3, <2>1 DEF PushStore
    <2>3. ring' \in [RingSlots -> Nat] /\ ring'[write] = producer.sample
      BY Zenon, <1>3 DEF PushStore
    <2> QED
      BY Zenon, <1>3, <2>2, <2>3 DEF PushStore, Consumed, Published, Dist
  <1>4. CASE PushPublish
    <2>1. /\ write' \in RingSlots /\ write' = After(write) /\ read' = read /\ ring' = ring
          /\ Dist(read, write') = Dist(read, write) + 1
      BY <1>4, DistFacts DEF PushPublish
    <2>2. Published' = Published + 1 /\ Consumed' = Consumed
      BY <1>4 DEF PushPublish, Published, Consumed
    <2>3. ASSUME NEW i \in RingSlots, Dist(read, i) < Dist(read, write) + 1
          PROVE  ring[i] = Consumed + Dist(read, i) + 1
      <3>1. CASE i = write
        BY SMTT(60), <1>4, <3>1 DEF PushPublish, Published
      <3>2. CASE i # write
        <4>1. Dist(read, i) # Dist(read, write)
          BY SMTT(60), <3>2 DEF Dist, RingSlots
        <4>2. Dist(read, i) \in Int /\ Dist(read, write) \in Int
          BY DistFacts
        <4> QED
          BY SMTT(60), <2>3, <4>1, <4>2
      <3> QED
        BY Zenon, <3>1, <3>2
    <2>4. Dist(read, write)' = Dist(read, write) + 1
      BY Zenon, <2>1 DEF Dist
    <2>5. \A i \in RingSlots : Dist(read, i)' = Dist(read, i)
      BY Zenon, <2>1 DEF Dist
    <2>6. \A i \in RingSlots : Dist(read, i)' < Dist(read, write)' => ring'[i] = Consumed' + Dist(read, i)' + 1
      BY Zenon, <2>1, <2>2, <2>3, <2>4, <2>5
    <2>7. RingTypeOK'
      BY Zenon, <1>4, <2>1 DEF PushPublish
    <2>8. heard' = heard /\ peak' = peak /\ producer'.pc = "peak" /\ consumer' = consumer
      BY Zenon, <1>4 DEF PushPublish
    <2>9. Dist(read, write) \in 0 .. Capacity - 1
      BY Zenon, DistFacts
    <2> QED
      BY SMTT(60), <2>1, <2>2, <2>4, <2>6, <2>7, <2>8, <2>9
  <1>5. CASE PushPeak
    <2>1. Fill(write, read) = Dist(read, write) /\ Dist(read, write) \in 0 .. Capacity - 1
      BY Zenon, FillIsDist, DistFacts
    <2>2. Published' = Published /\ Consumed' = Consumed
      BY <1>5 DEF PushPeak, Published, Consumed
    <2>3. Dist(read, write)' = Dist(read, write) /\ \A i \in RingSlots : Dist(read, i)' = Dist(read, i)
      BY Zenon, <1>5 DEF PushPeak, Dist
    <2>4. RingTypeOK'
      BY SMTT(60), <1>5, <2>1 DEF PushPeak
    <2>5. peak' <= Capacity - 1 /\ peak' <= Published
      BY SMTT(60), <1>5, <2>1 DEF PushPeak
    <2>6. ring' = ring /\ heard' = heard /\ producer'.pc = "check" /\ consumer' = consumer /\ read' = read
      BY Zenon, <1>5 DEF PushPeak
    <2> QED
      BY Zenon, <2>2, <2>3, <2>4, <2>5, <2>6
  <1> QED
    BY Zenon, <1>1, <1>2, <1>3, <1>4, <1>5

\* What fill_callback has played after it plays one more sample.
LEMMA OneMoreHeard ==
    ASSUME NEW h \in Seq(Nat), \A i \in DOMAIN h : h[i] = i
    PROVE  LET g == Append(h, Len(h) + 1)
           IN  g \in Seq(Nat) /\ Len(g) = Len(h) + 1 /\ \A i \in DOMAIN g : g[i] = i
  <1> DEFINE g == Append(h, Len(h) + 1)
  <1>1. Len(h) \in Nat /\ DOMAIN h = 1 .. Len(h)
    OBVIOUS
  <1>2. g \in Seq(Nat) /\ Len(g) = Len(h) + 1 /\ DOMAIN g = 1 .. Len(h) + 1
    BY <1>1
  <1>3. \A i \in 1 .. Len(h) : g[i] = h[i]
    BY <1>1
  <1>4. g[Len(h) + 1] = Len(h) + 1
    BY <1>1
  <1> HIDE DEF g
  <1>5. \A i \in DOMAIN g : g[i] = i
    BY <1>1, <1>2, <1>3, <1>4
  <1> QED
    BY Zenon, <1>2, <1>5 DEF g

\* A step of the consumer.
LEMMA FillKeepsInv ==
    ASSUME RingInv, FillCheck \/ FillLoad \/ FillAdvance
    PROVE  RingInv'
  <1> USE RingAssumption DEF RingInv, RingTypeOK
  <1>0. Dist(read, write) \in 0 .. Capacity - 1 /\ (Dist(read, write) = 0 <=> read = write)
    BY Zenon, DistFacts
  <1>1. CASE FillCheck
    <2>1. Published' = Published /\ Consumed' = Consumed
      BY Zenon, <1>1 DEF FillCheck, Published, Consumed
    <2>2. Dist(read, write)' = Dist(read, write) /\ \A i \in RingSlots : Dist(read, i)' = Dist(read, i)
      BY Zenon, <1>1 DEF FillCheck, Dist
    <2>3. RingTypeOK' /\ consumer'.slot = read
      BY Zenon, <1>1 DEF FillCheck
    <2>4. UNCHANGED <<ring, read, write, producer, heard, peak>> /\ read # write
      BY Zenon, <1>1 DEF FillCheck
    <2> QED
      BY <1>0, <2>1, <2>2, <2>3, <2>4
  <1>2. CASE FillLoad
    <2>1. consumer.slot = read /\ Dist(read, write) > 0 /\ Dist(read, read) = 0
      BY Zenon, <1>2, DistFacts DEF FillLoad
    <2>2. Consumed = Len(heard) /\ ring[read] = Len(heard) + 1
      BY <1>2, <2>1 DEF FillLoad, Consumed
    <2>3. heard' = Append(heard, Len(heard) + 1) /\ consumer' = [consumer EXCEPT !.pc = "advance"]
      BY Zenon, <1>2, <2>1, <2>2 DEF FillLoad
    <2>4. heard' \in Seq(Nat) /\ Len(heard') = Len(heard) + 1 /\ \A i \in DOMAIN heard' : heard'[i] = i
      BY Zenon, <2>3, OneMoreHeard
    <2>5. Published' = Published /\ Consumed' = Consumed
      BY <1>2, <2>2, <2>3, <2>4 DEF FillLoad, Published, Consumed
    <2>6. Dist(read, write)' = Dist(read, write) /\ \A i \in RingSlots : Dist(read, i)' = Dist(read, i)
      BY Zenon, <1>2 DEF FillLoad, Dist
    <2>7. UNCHANGED <<ring, read, write, producer, peak>>
      BY Zenon, <1>2 DEF FillLoad
    <2>8. RingTypeOK' /\ consumer'.slot = read
      BY Zenon, <2>1, <2>3, <2>4, <2>7
    <2> QED
      BY Zenon, <2>1, <2>4, <2>5, <2>6, <2>7, <2>8
  <1>3. CASE FillAdvance
    <2>1. consumer.slot = read /\ Dist(read, write) > 0 /\ read # write
      BY <1>0, <1>3 DEF FillAdvance
    <2>2. read' = After(read) /\ read' \in RingSlots /\ consumer' = [consumer EXCEPT !.pc = "check"]
      BY Zenon, <1>3, <2>1, DistFacts DEF FillAdvance
    <2>3. UNCHANGED <<ring, write, producer, heard, peak>>
      BY Zenon, <1>3 DEF FillAdvance
    <2>4. Published' = Published /\ Consumed' = Consumed + 1
      BY SMTT(60), <1>3, <2>2, <2>3 DEF FillAdvance, Published, Consumed
    <2>5. \A i \in RingSlots : i # read => Dist(After(read), i) = Dist(read, i) - 1
      BY <2>1, DistFacts
    <2>6. Dist(read, write)' = Dist(read, write) - 1
      BY Zenon, <2>1, <2>2, <2>3, <2>5 DEF Dist
    <2>7. \A i \in RingSlots : Dist(read, i)' = Dist(After(read), i)
      BY Zenon, <2>2 DEF Dist
    <2>8. ASSUME NEW i \in RingSlots, Dist(read, i)' < Dist(read, write)'
          PROVE  ring'[i] = Consumed' + Dist(read, i)' + 1
      <3>1. i # read
        <4>0. read \in Int /\ After(read) = IF read = Capacity - 1 THEN 0 ELSE read + 1
          BY SMTT(60), AfterWraps DEF RingSlots
        <4>1. Dist(After(read), read) = Capacity - 1
          BY <4>0 DEF Dist, RingSlots
        <4> QED
          BY <1>0, <2>6, <2>7, <2>8, <4>1
      <3>2. Dist(read, i) \in Int /\ Dist(read, i)' = Dist(read, i) - 1
        BY <2>5, <2>7, <3>1, DistFacts
      <3>3. Dist(read, i) < Dist(read, write)
        BY <1>0, <2>6, <2>8, <3>2
      <3>4. ring[i] = Consumed + Dist(read, i) + 1
        BY Zenon, <3>3
      <3> QED
        BY <2>3, <2>4, <3>2, <3>4
    <2>9. RingTypeOK' /\ consumer'.pc = "check"
      BY Zenon, <2>2, <2>3
    <2>10. Consumed' \in Nat /\ Consumed' + Dist(read, write)' = Published'
      BY <1>0, <2>4, <2>6
    <2>11. producer'.pc \in {"store", "publish"} => Dist(read, write)' < Capacity - 1
      BY <1>0, <2>3, <2>6
    <2>12. /\ producer'.pc = "publish" => ring'[write'] = producer'.sample
           /\ \A i \in DOMAIN heard' : heard'[i] = i
           /\ peak' <= Capacity - 1 /\ peak' <= Published'
      BY Zenon, <2>3, <2>4
    <2> QED
      BY Zenon, <2>8, <2>9, <2>10, <2>11, <2>12
  <1> QED
    BY Zenon, <1>1, <1>2, <1>3

\* Telemetry only reads.
LEMMA MeterKeepsInv ==
    ASSUME RingInv, MeterWrite \/ MeterRead \/ UNCHANGED ringVars
    PROVE  RingInv'
  BY ZenonT(60) DEF RingInv, RingTypeOK, MeterWrite, MeterRead, ringVars, Consumed, Published, Dist

LEMMA RingInvariant == RingSpec => []RingInv
  <1>1. RingInv /\ [RingNext]_ringVars => RingInv'
    BY Zenon, PushKeepsInv, FillKeepsInv, MeterKeepsInv DEF RingNext
  <1> QED
    BY RingInvInit, <1>1, PTL DEF RingSpec

\* push and fill_callback, for every capacity and however they interleave: what
\* is played is what was pushed, every sample once and in order.
THEOREM RingIsAQueue == RingSpec => []PlayedInOrder
  <1>1. RingInv => PlayedInOrder
    <2> SUFFICES ASSUME RingInv PROVE Len(heard) <= Published
      BY Zenon DEF RingInv, PlayedInOrder
    <2>1. Dist(read, write) \in 0 .. Capacity - 1
      BY Zenon, DistFacts DEF RingInv, RingTypeOK
    <2> QED
      BY <2>1 DEF RingInv, RingTypeOK, Consumed
  <1> QED
    BY RingInvariant, <1>1, PTL

\* push: the peak that telemetry reports is never more than the ring holds, nor
\* more than was pushed.
THEOREM PeakIsAFill == RingSpec => []PeakIsBounded
  <1>1. RingInv => PeakIsBounded
    BY Zenon DEF RingInv, PeakIsBounded
  <1> QED
    BY RingInvariant, <1>1, PTL

-----------------------------------------------------------------------------
\* No element is counted in an empty set.
LEMMA NothingIsNone == Cardinality({}) = 0
  <1> DEFINE Body(g) == [T \in SUBSET {} |-> IF T = {} THEN 0 ELSE 1 + g[T \ {CHOOSE x : x \in T}]]
             CS == CHOOSE g : g = Body(g)
             zero == [T \in SUBSET {} |-> 0]
  <1>1. Cardinality({}) = CS[{}]
    BY Zenon DEF Cardinality
  <1>2. \A T \in SUBSET {} : T = {}
    BY Zenon
  <1>3. \A g : Body(g) = zero
    BY Zenon, <1>2
  <1>4. CS = Body(CS)
    BY ZenonT(60), <1>3
  <1> QED
    BY Zenon, <1>1, <1>3, <1>4

Live(i) == daemon[i] \in {"leased", "serving", "draining"}

Thread == [pc : {"free", "accepted", "admitted", "fenced", "done"}, req : Requests \cup {0}]

RequestPc == {"new", "found", "probing", "active", "sent", "answered", "failed"}

Request == [pc : RequestPc, instance : 0 .. MaxInstances, kind : Kinds, issued : Int]

DaemonTypes ==
    /\ lease \in 0 .. MaxInstances + 1
    /\ endpoint \in 0 .. MaxInstances
    /\ daemon \in [Boots -> {"off", "leased", "serving", "draining", "ended"}]
    /\ stop \in [Boots -> BOOLEAN]
    /\ fence \in 0 .. MaxClients
    /\ thread \in [Slots -> Thread]
    /\ seen \in [Requests -> Never .. MaxTime]
    /\ request \in [Requests -> Request]
    /\ now \in 0 .. MaxTime
    /\ fenced \subseteq Boots

\* The lock: a live daemon holds it, and a client that probes it.
LeaseInv ==
    /\ \A i \in Boots : Live(i) => lease = i
    /\ \A i \in Boots : daemon[i] = "serving" => endpoint = i
    /\ \A q \in Requests : request[q].pc = "probing" => lease = Probing
    /\ \A p, q \in Requests : request[p].pc = "probing" /\ request[q].pc = "probing" => p = q

\* A thread works for the daemon that serves, on a request sealed for it.
ThreadInv ==
    /\ fence # 0 => thread[fence].pc = "fenced"
    /\ \A s \in Slots : thread[s].pc = "fenced" => fence = s
    /\ \A s \in Slots : thread[s].pc # "free" =>
          /\ thread[s].req \in Requests
          /\ Issued(thread[s].req)
          /\ request[thread[s].req].instance \in Boots
          /\ Serving(request[thread[s].req].instance)
    /\ \A i \in fenced : stop[i]

\* The replay cache would refuse the request, now or when it has forgotten it.
Spent(q) == \/ seen[q] # Never /\ request[q].issued <= seen[q] + Skew
            \/ now > request[q].issued + Skew

Pending(s) == thread[s].pc \in {"admitted", "fenced"}

ExecutedInv ==
    /\ \A e \in executed : /\ e.instance \in Boots /\ e.req \in Requests
                           /\ daemon[e.instance] \in {"serving", "draining", "ended"}
                           /\ e.nth = 1 /\ ~e.late
    /\ \A e \in executed : Serving(e.instance) =>
          /\ Spent(e.req) /\ Issued(e.req)
          /\ request[e.req].instance = e.instance
    /\ \A s \in Slots : Pending(s) =>
          /\ Spent(thread[s].req)
          /\ \A e \in executed : e.req = thread[s].req => e.instance # request[thread[s].req].instance
    /\ \A s, r \in Slots : Pending(s) /\ Pending(r) /\ thread[s].req = thread[r].req => s = r

LEMMA TypesInit == DaemonInit => DaemonTypes
  BY DaemonAssumption DEF DaemonInit, DaemonTypes, Boots, Slots, Never, Free, Kinds, FreeThread, NewRequest,
     Thread, Request, RequestPc

\* A client that moves on is still a client.
LEMMA ClientTypes ==
    ASSUME NEW r \in Request, NEW pc \in RequestPc, NEW i \in 0 .. MaxInstances
    PROVE  /\ [r EXCEPT !.pc = pc] \in Request
           /\ [[r EXCEPT !.pc = pc] EXCEPT !.instance = i] \in Request
  BY Zenon DEF Request

LEMMA ClientMoves ==
    ASSUME NEW f \in [Requests -> Request], NEW q \in Requests, NEW pc \in RequestPc
    PROVE  [f EXCEPT ![q].pc = pc] \in [Requests -> Request]
  <1>1. [f[q] EXCEPT !.pc = pc] \in Request
    BY Zenon DEF Request
  <1> QED
    BY Zenon, <1>1

\* Every step keeps the types.
LEMMA TypesStep ==
    ASSUME DaemonTypes, [DaemonNext(Boots, Requests, MaxTime)]_daemonVars
    PROVE  DaemonTypes'
  <1> USE DaemonAssumption DEF DaemonTypes, Boots, Slots, Never, Free, Probing
  <1>0. Thread' = Thread /\ Request' = Request
    BY Zenon DEF Thread, Request, RequestPc, Kinds
  <1>1. ASSUME Tick(MaxTime) PROVE DaemonTypes'
    BY <1>0, <1>1 DEF Tick
  <1>2. ASSUME NEW q \in Requests, ClientStep(q) PROVE DaemonTypes'
    <2> SUFFICES request' \in [Requests -> Request] /\ lease' \in 0 .. MaxInstances + 1
      BY Zenon, <1>0, <1>2 DEF ClientStep, ReadEndpoint, ProbeLease, DropProbe, GiveUp, SendRequest
    <2>1. /\ [request EXCEPT ![q].pc = "failed"] \in [Requests -> Request]
          /\ [request EXCEPT ![q].pc = "probing"] \in [Requests -> Request]
          /\ [request EXCEPT ![q].pc = "active"] \in [Requests -> Request]
      BY Zenon, ClientMoves DEF RequestPc
    <2>2. CASE ReadEndpoint(q)
      <3>1. [[request[q] EXCEPT !.pc = "found"] EXCEPT !.instance = endpoint] \in Request
        BY Zenon, ClientTypes DEF RequestPc
      <3> QED
        BY ZenonT(60), <2>1, <2>2, <3>1 DEF ReadEndpoint, Client
    <2>3. CASE ProbeLease(q)
      <3>1. request' \in [Requests -> Request]
        BY Zenon, <2>1, <2>3 DEF ProbeLease, Client
      <3> QED
        BY <2>3, <3>1 DEF ProbeLease
    <2>4. CASE DropProbe(q) \/ GiveUp(q)
      <3>1. request' \in [Requests -> Request]
        BY Zenon, <2>1, <2>4 DEF DropProbe, GiveUp, Client
      <3> QED
        BY SMTT(60), <2>4, <3>1 DEF DropProbe, GiveUp
    <2>5. ASSUME NEW kind \in Kinds, NEW issued \in (now - Skew - 1) .. (now + Skew + 1),
                 SendRequest(q, kind, issued)
          PROVE  request' \in [Requests -> Request] /\ lease' \in 0 .. MaxInstances + 1
      BY SMTT(60), <2>5 DEF SendRequest, Request, RequestPc
    <2> QED
      BY Zenon, <1>2, <2>1, <2>2, <2>3, <2>4, <2>5 DEF ClientStep
  <1>3. ASSUME NEW i \in Boots, DaemonStep(i) PROVE DaemonTypes'
    <2>1. CASE Acquire(i)
      BY <1>0, <2>1 DEF Acquire
    <2>2. CASE Publish(i)
      BY <1>0, <2>2 DEF Publish
    <2>3. CASE SpawnSupervisor(i) \/ SupervisorLeaves(i)
      BY Zenon, <1>0, <2>3 DEF SpawnSupervisor, SupervisorLeaves
    <2>4. CASE Interrupt(i)
      BY Zenon, <1>0, <2>4 DEF Interrupt
    <2>5. CASE Withdraw(i)
      BY <1>0, <2>5 DEF Withdraw
    <2>6. CASE StopServing(i) \/ DaemonDies(i)
      <3>1. Exit(i) /\ UNCHANGED <<endpoint, stop, seen, now, fenced>>
        BY Zenon, <2>6 DEF StopServing, DaemonDies
      <3>2. thread' \in [Slots -> Thread]
        BY Zenon, <3>1 DEF Exit, FreeThread, Thread
      <3>3. request' \in [Requests -> Request]
        <4>1. \A q \in Requests : [request[q] EXCEPT !.pc = "failed"] \in Request
          BY ZenonT(60), ClientTypes DEF RequestPc
        <4> QED
          BY Zenon, <3>1, <4>1 DEF Exit
      <3> QED
        BY SMTT(60), <1>0, <3>1, <3>2, <3>3 DEF Exit
    <2> QED
      BY Zenon, <1>3, <2>1, <2>2, <2>3, <2>4, <2>5, <2>6 DEF DaemonStep
  <1>4. ASSUME NEW i \in Boots, NEW s \in Slots, ThreadStep(i, s) PROVE DaemonTypes'
    <2>1. CASE Admit(i, s)
      <3>0. FreeThread \in Thread /\ [thread[s] EXCEPT !.pc = "admitted"] \in Thread
        BY Zenon DEF FreeThread, Thread
      <3>1. thread' \in [Slots -> Thread]
        BY Zenon, <2>1, <3>0 DEF Admit
      <3>2. Retained \in [Requests -> -1 .. MaxTime]
        BY DEF Retained
      <3>3. seen' \in [Requests -> -1 .. MaxTime]
        <4>1. seen' = seen \/ seen' = Retained \/ seen' = [Retained EXCEPT ![thread[s].req] = now]
          BY Zenon, <2>1 DEF Admit
        <4>2. ASSUME NEW f \in [Requests -> -1 .. MaxTime], NEW q
              PROVE  [f EXCEPT ![q] = now] \in [Requests -> -1 .. MaxTime]
          <5>1. now \in -1 .. MaxTime
            OBVIOUS
          <5> QED
            BY Zenon, <5>1
        <4> HIDE DEF DaemonTypes
        <4> QED
          BY SMTT(60), <3>2, <4>1, <4>2 DEF DaemonTypes
      <3> QED
        BY Zenon, <1>0, <2>1, <3>1, <3>3 DEF Admit
    <2>2. CASE ExecuteRead(i, s)
      <3>1. thread' \in [Slots -> Thread]
        BY ZenonT(60), <2>2 DEF ExecuteRead, Thread
      <3> QED
        BY Zenon, <1>0, <2>2, <3>1 DEF ExecuteRead
    <2>3. CASE TakeFence(i, s)
      <3>1. thread' \in [Slots -> Thread]
        BY ZenonT(60), <2>3 DEF TakeFence, Thread
      <3>2. fence' \in 0 .. MaxClients
        BY <2>3, SMTT(30) DEF TakeFence
      <3> QED
        BY Zenon, <1>0, <2>3, <3>1, <3>2 DEF TakeFence
    <2>4. CASE ExecuteFenced(i, s)
      <3>1. thread' \in [Slots -> Thread]
        BY ZenonT(60), <2>4 DEF ExecuteFenced, Thread
      <3>2. stop' \in [Boots -> BOOLEAN] /\ fenced' \subseteq Boots /\ fence' = 0
        BY ZenonT(60), <2>4 DEF ExecuteFenced
      <3>3. UNCHANGED <<lease, endpoint, daemon, seen, request, now>>
        BY Zenon, <2>4 DEF ExecuteFenced
      <3> QED
        BY <1>0, <3>1, <3>2, <3>3
    <2>5. CASE Reply(i, s)
      <3>1. thread' \in [Slots -> Thread]
        BY Zenon, <2>5 DEF Reply, FreeThread, Thread
      <3>2. request' \in [Requests -> Request]
        <4>1. \A q \in Requests : request[q].pc \in RequestPc /\ "answered" \in RequestPc
          BY Zenon DEF Request, RequestPc
        <4> QED
          BY Zenon, <2>5, <4>1, ClientMoves DEF Reply
      <3> QED
        BY Zenon, <1>0, <2>5, <3>1, <3>2 DEF Reply
    <2> QED
      BY Zenon, <1>4, <2>1, <2>2, <2>3, <2>4, <2>5 DEF ThreadStep
  <1>5. ASSUME NEW i \in Boots, NEW s \in Slots, NEW q \in Requests, AcceptClient(i, s, q)
        PROVE  DaemonTypes'
    <2>1. thread' \in [Slots -> Thread]
      BY Zenon, <1>5 DEF AcceptClient, Thread
    <2> QED
      BY ZenonT(60), <1>0, <1>5, <2>1 DEF AcceptClient
  <1>6. CASE UNCHANGED daemonVars
    BY Zenon, <1>0, <1>6 DEF daemonVars
  <1> QED
    BY Zenon, <1>1, <1>2, <1>3, <1>4, <1>5, <1>6 DEF DaemonNext

LEMMA LeaseInit == DaemonInit => LeaseInv
  BY SMTT(60), DaemonAssumption DEF DaemonInit, LeaseInv, Live, Boots, NewRequest

\* Acquire, publish, withdraw, exit and the probe of a client: the lock passes
\* from one holder to the next and is never shared.
LEMMA LeaseStep ==
    ASSUME DaemonTypes, LeaseInv, [DaemonNext(Boots, Requests, MaxTime)]_daemonVars
    PROVE  LeaseInv'
  <1> USE DaemonAssumption DEF LeaseInv, Live
  <1>0. Probing \notin Boots /\ Free \notin Boots /\ Probing # Free
    BY DEF Probing, Boots, Free
  <1>1. ASSUME UNCHANGED <<lease, endpoint, daemon, request>> PROVE LeaseInv'
    BY Zenon, <1>1 DEF Probing
  <1>2. ASSUME NEW q \in Requests, ClientStep(q) PROVE LeaseInv'
    <2>0. UNCHANGED <<endpoint, daemon>> /\ \A p \in Requests : p # q => request'[p] = request[p]
      BY Zenon, <1>2 DEF ClientStep, ReadEndpoint, ProbeLease, DropProbe, GiveUp, SendRequest, Client, DaemonTypes
    <2>1. CASE ReadEndpoint(q) \/ GiveUp(q)
      <3>1. lease' = lease /\ request'[q].pc # "probing"
        BY <2>1 DEF ReadEndpoint, GiveUp, Client, DaemonTypes, Request
      <3> QED
        BY Zenon, <2>0, <3>1 DEF Probing
    <2>2. CASE ProbeLease(q)
      <3>1. CASE lease = Free
        <4>1. lease' = Probing /\ \A p \in Requests : request[p].pc # "probing"
          BY Zenon, <1>0, <2>2, <3>1 DEF ProbeLease
        <4>2. \A i \in Boots : daemon[i] \notin {"leased", "serving", "draining"}
          BY Zenon, <1>0, <3>1
        <4> QED
          BY Zenon, <2>0, <4>1, <4>2 DEF Probing
      <3>2. CASE lease # Free
        <4>1. lease' = lease /\ request'[q].pc # "probing"
          BY <2>2, <3>2 DEF ProbeLease, Client, DaemonTypes, Request
        <4> QED
          BY Zenon, <2>0, <4>1 DEF Probing
      <3> QED
        BY Zenon, <3>1, <3>2
    <2>3. CASE DropProbe(q)
      <3>1. request'[q].pc # "probing" /\ lease = Probing /\ \A p \in Requests : p # q => request[p].pc # "probing"
        BY Zenon, <2>3 DEF DropProbe, Client, DaemonTypes, Request
      <3>2. \A i \in Boots : daemon[i] \notin {"leased", "serving", "draining"}
        BY Zenon, <1>0, <3>1
      <3> QED
        BY Zenon, <2>0, <3>1, <3>2
    <2>4. ASSUME NEW kind \in Kinds, NEW issued \in (now - Skew - 1) .. (now + Skew + 1),
                 SendRequest(q, kind, issued)
          PROVE  LeaseInv'
      <3>1. lease' = lease /\ request'[q].pc # "probing"
        BY Zenon, <2>4 DEF SendRequest, DaemonTypes, Request
      <3> QED
        BY Zenon, <2>0, <3>1 DEF Probing
    <2> QED
      BY Zenon, <1>2, <2>1, <2>2, <2>3, <2>4 DEF ClientStep
  <1>3. ASSUME NEW i \in Boots, DaemonStep(i) PROVE LeaseInv'
    <2>1. CASE Acquire(i)
      BY <1>0, <2>1 DEF Acquire, DaemonTypes, Probing
    <2>2. CASE Publish(i)
      BY Zenon, <1>0, <2>2 DEF Publish, DaemonTypes, Probing
    <2>3. CASE SpawnSupervisor(i) \/ SupervisorLeaves(i) \/ Interrupt(i)
      BY Zenon, <1>1, <2>3 DEF SpawnSupervisor, SupervisorLeaves, Interrupt
    <2>4. CASE Withdraw(i)
      BY Zenon, <1>0, <2>4 DEF Withdraw, DaemonTypes, Probing
    <2>5. CASE StopServing(i) \/ DaemonDies(i)
      <3>1. Exit(i) /\ UNCHANGED endpoint /\ Live(i)
        BY Zenon, <2>5 DEF StopServing, DaemonDies
      <3>2. \A q \in Requests : request[q].pc # "probing" /\ request'[q].pc # "probing"
        BY <1>0, <3>1 DEF Exit, DaemonTypes, Request
      <3>3. \A j \in Boots : daemon'[j] \notin {"leased", "serving", "draining"}
        BY Zenon, <3>1 DEF Exit, DaemonTypes
      <3> QED
        BY Zenon, <3>2, <3>3
    <2> QED
      BY Zenon, <1>3, <2>1, <2>2, <2>3, <2>4, <2>5 DEF DaemonStep
  <1>4. ASSUME NEW i \in Boots, NEW s \in Slots, ThreadStep(i, s) PROVE LeaseInv'
    <2>1. UNCHANGED <<lease, endpoint, daemon>>
      BY Zenon, <1>4 DEF ThreadStep, Admit, ExecuteRead, TakeFence, ExecuteFenced, Reply
    <2>2. \A q \in Requests : request'[q].pc = "probing" <=> request[q].pc = "probing"
      BY SMTT(60), <1>4 DEF ThreadStep, Admit, ExecuteRead, TakeFence, ExecuteFenced, Reply, DaemonTypes, Request
    <2> QED
      BY Zenon, <2>1, <2>2 DEF Probing
  <1>5. ASSUME NEW i \in Boots, NEW s \in Slots, NEW q \in Requests, AcceptClient(i, s, q)
        PROVE  LeaseInv'
    BY Zenon, <1>1, <1>5 DEF AcceptClient
  <1> QED
    BY Zenon, <1>1, <1>2, <1>3, <1>4, <1>5 DEF DaemonNext, Tick, daemonVars

\* At most one daemon is live.
LEMMA OneLive ==
    ASSUME LeaseInv, NEW i \in Boots, NEW j \in Boots, Live(i), Live(j)
    PROVE  i = j
  BY Zenon DEF LeaseInv

\* What a client thread works on stays issued, for the same instance and with
\* the same time.
LEMMA IssuedStays ==
    ASSUME DaemonTypes, [DaemonNext(Boots, Requests, MaxTime)]_daemonVars,
           NEW q \in Requests, Issued(q)
    PROVE  /\ Issued(q)'
           /\ request'[q].instance = request[q].instance
           /\ request'[q].issued = request[q].issued
           /\ request'[q].kind = request[q].kind
  <1> USE DEF Issued, DaemonTypes, Request
  <1>1. ASSUME NEW p \in Requests, ClientStep(p)
        PROVE  request'[q] = request[q] \/ request'[q] = [request[q] EXCEPT !.pc = "failed"]
    BY Zenon, <1>1 DEF ClientStep, ReadEndpoint, ProbeLease, DropProbe, GiveUp, SendRequest, Client
  <1>2. ASSUME NEW i \in Boots, DaemonStep(i)
        PROVE  request'[q] = request[q] \/ request'[q] = [request[q] EXCEPT !.pc = "failed"]
    BY Zenon, <1>2 DEF DaemonStep, Acquire, Publish, SpawnSupervisor, SupervisorLeaves, Interrupt, Withdraw,
                StopServing, DaemonDies, Exit
  <1>3. ASSUME NEW i \in Boots, NEW s \in Slots, ThreadStep(i, s)
        PROVE  request'[q] = request[q] \/ request'[q] = [request[q] EXCEPT !.pc = "answered"]
    BY SMTT(60), <1>3 DEF ThreadStep, Admit, ExecuteRead, TakeFence, ExecuteFenced, Reply
  <1>4. ASSUME UNCHANGED request PROVE request'[q] = request[q]
    BY Zenon, <1>4
  <1>5. \/ request'[q] = request[q]
        \/ request'[q] = [request[q] EXCEPT !.pc = "failed"]
        \/ request'[q] = [request[q] EXCEPT !.pc = "answered"]
    BY Zenon, <1>1, <1>2, <1>3, <1>4 DEF DaemonNext, Tick, AcceptClient, daemonVars
  <1> QED
    BY SMTT(60), <1>5

LEMMA ThreadInit == DaemonInit => ThreadInv
  BY SMTT(60), DaemonAssumption DEF DaemonInit, ThreadInv, FreeThread

\* Every step keeps the threads those of the daemon that serves.
LEMMA ThreadKept ==
    ASSUME DaemonTypes, LeaseInv, ThreadInv, [DaemonNext(Boots, Requests, MaxTime)]_daemonVars
    PROVE  ThreadInv'
  <1> USE DaemonAssumption DEF ThreadInv
  <1>0. \A q \in Requests : Issued(q) => Issued(q)' /\ request'[q].instance = request[q].instance
    BY Zenon, IssuedStays
  <1>1. ASSUME UNCHANGED <<daemon, fence, thread, fenced>>, \A i \in Boots : stop[i] => stop'[i]
        PROVE  ThreadInv'
    BY Zenon, <1>0, <1>1 DEF Serving, DaemonTypes, Thread, Slots, Boots
  <1>2. ASSUME NEW q \in Requests, ClientStep(q) PROVE ThreadInv'
    BY Zenon, <1>1, <1>2 DEF ClientStep, ReadEndpoint, ProbeLease, DropProbe, GiveUp, SendRequest
  <1>3. ASSUME NEW i \in Boots, DaemonStep(i) PROVE ThreadInv'
    <2>1. CASE Acquire(i) \/ Publish(i)
      <3>1. UNCHANGED <<fence, thread, fenced, stop, request>> /\ ~Serving(i)
        BY Zenon, <2>1 DEF Acquire, Publish, Serving
      <3>2. \A j \in Boots : Serving(j) => Serving(j)'
        BY Zenon, <2>1 DEF Acquire, Publish, Serving, DaemonTypes
      <3> QED
        BY Zenon, <1>0, <3>1, <3>2 DEF DaemonTypes, Thread
    <2>2. CASE SpawnSupervisor(i) \/ SupervisorLeaves(i)
      BY Zenon, <1>1, <2>2 DEF SpawnSupervisor, SupervisorLeaves
    <2>3. CASE Interrupt(i)
      BY Zenon, <1>1, <2>3 DEF Interrupt, DaemonTypes
    <2>4. CASE Withdraw(i)
      <3>1. UNCHANGED <<fence, thread, fenced, stop, request>>
        BY Zenon, <2>4 DEF Withdraw
      <3>2. \A j \in Boots : Serving(j) => Serving(j)'
        BY Zenon, <2>4 DEF Withdraw, Serving, DaemonTypes
      <3> QED
        BY Zenon, <1>0, <3>1, <3>2 DEF DaemonTypes, Thread
    <2>5. CASE StopServing(i) \/ DaemonDies(i)
      <3>1. Exit(i) /\ UNCHANGED <<stop, fenced>>
        BY Zenon, <2>5 DEF StopServing, DaemonDies
      <3> QED
        BY Zenon, <3>1 DEF Exit, FreeThread
    <2> QED
      BY Zenon, <1>3, <2>1, <2>2, <2>3, <2>4, <2>5 DEF DaemonStep
  <1>4. ASSUME NEW i \in Boots, NEW s \in Slots, ThreadStep(i, s) PROVE ThreadInv'
    <2>0. /\ UNCHANGED daemon /\ thread' = [thread EXCEPT ![s] = thread'[s]] /\ thread'[s].pc # "accepted"
          /\ thread[s].pc # "free" /\ (thread'[s].pc # "free" => thread'[s].req = thread[s].req)
          /\ (thread'[s].pc = "fenced" => fence' = s)
          /\ (thread[s].pc = "fenced" => fence' = 0)
          /\ (thread'[s].pc # "fenced" /\ thread[s].pc # "fenced" => fence' = fence)
          /\ (thread'[s].pc = "fenced" => fence = 0)
          /\ (thread[s].pc = "fenced" => thread'[s].pc = "done")
      BY SMTT(60), <1>4 DEF ThreadStep, Admit, ExecuteRead, TakeFence, ExecuteFenced, Reply, FreeThread,
                  DaemonTypes, Thread
    <2>1. \A j \in fenced' : stop'[j]
      BY SMTT(60), <1>4 DEF ThreadStep, Admit, ExecuteRead, TakeFence, ExecuteFenced, Reply, DaemonTypes
    <2>2. \A r \in Slots : r # s => thread'[r] = thread[r]
      BY Zenon, <2>0 DEF DaemonTypes
    <2>3. \A r \in Slots : thread'[r].pc # "free" =>
             /\ thread'[r].req \in Requests /\ thread'[r].req = thread[r].req /\ Issued(thread[r].req)
             /\ request[thread[r].req].instance \in Boots
             /\ Serving(request[thread[r].req].instance)
      BY Zenon, <2>0, <2>2
    <2>4. ASSUME NEW r \in Slots, thread'[r].pc # "free"
          PROVE  /\ thread'[r].req \in Requests
                 /\ Issued(thread[r].req)'
                 /\ request'[thread'[r].req].instance \in Boots
                 /\ Serving(request[thread[r].req].instance)'
      <3> DEFINE q == thread[r].req
      <3>1. q \in Requests /\ q = thread'[r].req /\ Issued(q) /\ request[q].instance \in Boots
        BY Zenon, <2>3, <2>4
      <3>2. daemon'[request[q].instance] \in {"serving", "draining"}
        BY Zenon, <2>0, <2>3, <2>4 DEF Serving
      <3>3. request'[q].instance = request[q].instance
        BY Zenon, <1>0, <3>1
      <3>4. request'[q].pc \in {"sent", "answered", "failed"} /\ request'[q].instance # 0
        BY Zenon, <1>0, <3>1 DEF Issued
      <3> HIDE DEF q
      <3> QED
        BY Zenon, <3>1, <3>2, <3>3, <3>4 DEF Issued, Serving
    <2>5. fence' # 0 => thread'[fence'].pc = "fenced"
      BY SMTT(60), <2>0, <2>2 DEF DaemonTypes, Slots
    <2>6. \A r \in Slots : thread'[r].pc = "fenced" => fence' = r
      BY SMTT(60), <2>0, <2>2 DEF DaemonTypes, Slots
    <2> QED
      BY Zenon, <2>1, <2>4, <2>5, <2>6
  <1>5. ASSUME NEW i \in Boots, NEW s \in Slots, NEW q \in Requests, AcceptClient(i, s, q)
        PROVE  ThreadInv'
    BY SMTT(60), <1>0, <1>5 DEF AcceptClient, DaemonTypes, Thread, Serving, OpensRequest, Opens, RequestFrame, Frame
  <1> QED
    BY Zenon, <1>1, <1>2, <1>3, <1>4, <1>5 DEF DaemonNext, Tick, daemonVars

\* Retained: the cache forgets an identity only when its request is no longer
\* fresh, because it keeps it for twice the skew.
LEMMA ForgottenIsStale ==
    ASSUME DaemonTypes, NEW q \in Requests, Spent(q)
    PROVE  \/ Retained[q] = seen[q] /\ seen[q] # Never /\ request[q].issued <= seen[q] + Skew
           \/ now > request[q].issued + Skew
  <1>1. seen[q] \in Int /\ now \in Int /\ request[q].issued \in Int /\ Never = -1
    BY DEF DaemonTypes, Request, Never
  <1>2. Retained[q] = IF seen[q] >= now - Retention THEN seen[q] ELSE Never
    BY Zenon DEF Retained
  <1> QED
    BY <1>1, <1>2, DaemonAssumption DEF Spent

\* A request that was admitted stays refused, by every step but the start of
\* another daemon.
LEMMA SpentStays ==
    ASSUME DaemonTypes, [DaemonNext(Boots, Requests, MaxTime)]_daemonVars,
           NEW q \in Requests, Issued(q), Spent(q),
           seen' = seen \/ \E i \in Boots, s \in Slots : Admit(i, s)
    PROVE  Spent(q)'
  <1>0. seen[q] \in Int /\ now \in Int /\ request[q].issued \in Int /\ Never = -1
    BY SMTT(60) DEF DaemonTypes, Request, Never
  <1>1. request'[q].issued = request[q].issued
    BY Zenon, IssuedStays
  <1>2. now' \in Int /\ now' >= now
    <2>1. ASSUME NEW p \in Requests, ClientStep(p) PROVE now' = now
      BY Zenon, <2>1 DEF ClientStep, ReadEndpoint, ProbeLease, DropProbe, GiveUp, SendRequest
    <2>2. ASSUME NEW i \in Boots, DaemonStep(i) PROVE now' = now
      BY Zenon, <2>2 DEF DaemonStep, Acquire, Publish, SpawnSupervisor, SupervisorLeaves, Interrupt, Withdraw,
                  StopServing, DaemonDies
    <2>3. ASSUME NEW i \in Boots, NEW s \in Slots, ThreadStep(i, s) PROVE now' = now
      BY Zenon, <2>3 DEF ThreadStep, Admit, ExecuteRead, TakeFence, ExecuteFenced, Reply
    <2>4. now' = now \/ now' = now + 1
      BY ZenonT(60), <2>1, <2>2, <2>3 DEF DaemonNext, Tick, AcceptClient, daemonVars
    <2> QED
      BY SMTT(60), <1>0, <2>4
  <1>3. CASE seen' = seen
    BY SMTT(60), <1>0, <1>1, <1>2, <1>3, DaemonAssumption DEF Spent, Never
  <1>4. ASSUME NEW i \in Boots, NEW s \in Slots, Admit(i, s)
        PROVE  Spent(q)'
    <2>1. \/ Retained[q] = seen[q] /\ seen[q] # Never /\ request[q].issued <= seen[q] + Skew
          \/ now > request[q].issued + Skew
      BY Zenon, ForgottenIsStale
    <2>2. CASE now > request[q].issued + Skew
      BY SMTT(60), <1>0, <1>1, <1>2, <2>2, DaemonAssumption DEF Spent
    <2>3. CASE Retained[q] = seen[q] /\ seen[q] # Never /\ request[q].issued <= seen[q] + Skew
      <3>1. CASE thread[s].req = q /\ seen' # seen
        <4>1. seen' = Retained
          <5>1. Fresh(thread[s].req)
            BY Zenon, <1>4, <3>1 DEF Admit
          <5> QED
            BY Zenon, <1>4, <2>3, <3>1, <5>1 DEF Admit
        <4> QED
          BY Zenon, <1>1, <2>3, <4>1 DEF Spent, Never
      <3>2. CASE thread[s].req # q \/ seen' = seen
        <4>1. seen'[q] = seen[q]
          <5>1. seen' = seen \/ seen' = Retained \/ seen' = [Retained EXCEPT ![thread[s].req] = now]
            BY Zenon, <1>4 DEF Admit
          <5>2. Retained \in [Requests -> Int]
            BY DEF Retained, DaemonTypes, Never
          <5> QED
            BY Zenon, <2>3, <3>2, <5>1, <5>2
        <4> QED
          BY Zenon, <1>1, <2>3, <4>1 DEF Spent, Never
      <3> QED
        BY Zenon, <3>1, <3>2
    <2> QED
      BY Zenon, <2>1, <2>2, <2>3
  <1> QED
    BY Zenon, <1>3, <1>4

\* ReplayCache::accept: a request it admits has not been admitted before.
LEMMA AdmittedIsNew ==
    ASSUME DaemonTypes, NEW q \in Requests, Fresh(q), Retained[q] = Never
    PROVE  ~Spent(q)
  <1>1. seen[q] \in Int /\ now \in Int /\ request[q].issued \in Int /\ Never = -1
    BY SMTT(60) DEF DaemonTypes, Request, Never
  <1> QED
    BY <1>1, ForgottenIsStale, DaemonAssumption DEF Fresh

LEMMA ExecutedInit == DaemonInit => ExecutedInv
  BY SMTT(60) DEF DaemonInit, ExecutedInv, Pending, FreeThread

\* Every step keeps it: what is executed was admitted once.
LEMMA ExecutedStep ==
    ASSUME DaemonTypes, LeaseInv, ThreadInv, ExecutedInv,
           [DaemonNext(Boots, Requests, MaxTime)]_daemonVars
    PROVE  ExecutedInv'
  <1>0. \A q \in Requests : Issued(q) => /\ Issued(q)' /\ request'[q].instance = request[q].instance
                                         /\ request'[q].kind = request[q].kind
    BY Zenon, IssuedStays
  <1>s. \A q \in Requests : Issued(q) /\ Spent(q)
            /\ (seen' = seen \/ \E i \in Boots, s \in Slots : Admit(i, s)) => Spent(q)'
    BY Zenon, SpentStays
  <1>t. \A s \in Slots : Pending(s) => /\ thread[s].req \in Requests /\ Issued(thread[s].req)
                                       /\ request[thread[s].req].instance \in Boots
                                       /\ Serving(request[thread[s].req].instance)
    BY Zenon DEF ThreadInv, Pending
  <1> DEFINE SeenKept == seen' = seen \/ \E i \in Boots, s \in Slots : Admit(i, s)
             DaemonsKept == \A i \in Boots : /\ daemon[i] \in {"serving", "draining", "ended"} =>
                                                   daemon'[i] \in {"serving", "draining", "ended"}
                                             /\ daemon[i] = "ended" => daemon'[i] = "ended"
  \* What was executed before the step.
  <1>e. ASSUME SeenKept, DaemonsKept, NEW e \in executed
        PROVE  /\ e.instance \in Boots /\ e.req \in Requests
               /\ daemon'[e.instance] \in {"serving", "draining", "ended"}
               /\ e.nth = 1 /\ ~e.late
               /\ Serving(e.instance)' => Spent(e.req)' /\ Issued(e.req)' /\ request'[e.req].instance = e.instance
    <2>1. /\ e.instance \in Boots /\ e.req \in Requests /\ e.nth = 1 /\ ~e.late
          /\ daemon[e.instance] \in {"serving", "draining", "ended"}
      BY Zenon, <1>e DEF ExecutedInv
    <2>2. ASSUME Serving(e.instance)'
          PROVE  Spent(e.req)' /\ Issued(e.req)' /\ request'[e.req].instance = e.instance
      <3>1. Serving(e.instance)
        BY Zenon, <1>e, <2>1, <2>2 DEF Serving
      <3>2. Spent(e.req) /\ Issued(e.req) /\ request[e.req].instance = e.instance
        BY Zenon, <3>1 DEF ExecutedInv
      <3> QED
        BY Zenon, <1>0, <1>s, <1>e, <2>1, <3>2
    <2> QED
      BY Zenon, <1>e, <2>1, <2>2
  \* A request that was admitted before the step and still waits.
  <1>p. ASSUME SeenKept, NEW s \in Slots, Pending(s), thread'[s].req = thread[s].req
        PROVE  /\ Spent(thread[s].req)'
               /\ \A e \in executed : e.req = thread'[s].req => e.instance # request'[thread'[s].req].instance
    <2>1. Spent(thread[s].req) /\ \A e \in executed : e.req = thread[s].req =>
                                      e.instance # request[thread[s].req].instance
      BY Zenon, <1>p DEF ExecutedInv
    <2>2. \A q \in Requests : q = thread[s].req => Spent(q)'
      BY Zenon, <1>s, <1>t, <1>p, <2>1
    <2>3. \A q \in Requests : q = thread'[s].req => Spent(q)'
      BY Zenon, <1>p, <2>2
    <2> QED
      BY Zenon, <1>0, <1>t, <1>p, <2>1, <2>3 DEF Spent
  \* A step that executes nothing and admits nothing.
  <1>1. ASSUME SeenKept, DaemonsKept, UNCHANGED executed,
               \A s \in Slots : Pending(s)' => Pending(s) /\ thread'[s].req = thread[s].req
        PROVE  ExecutedInv'
    <2>1. \A s, r \in Slots : Pending(s)' /\ Pending(r)' /\ thread'[s].req = thread'[r].req => s = r
      BY Zenon, <1>1 DEF ExecutedInv
    <2> HIDE DEF SeenKept, DaemonsKept
    <2> QED
      BY Zenon, <1>e, <1>p, <1>1, <2>1 DEF ExecutedInv
  <1>2. ASSUME UNCHANGED <<executed, seen, thread, daemon>> PROVE ExecutedInv'
    <2>1. \A s \in Slots : Pending(s)' => Pending(s)
      BY Zenon, <1>2 DEF Pending
    <2> QED
      BY Zenon, <1>1, <1>2, <2>1
  <1>3. ASSUME NEW q \in Requests, ClientStep(q) PROVE ExecutedInv'
    BY Zenon, <1>2, <1>3 DEF ClientStep, ReadEndpoint, ProbeLease, DropProbe, GiveUp, SendRequest
  <1>4. ASSUME NEW i \in Boots, DaemonStep(i) PROVE ExecutedInv'
    <2>1. CASE Acquire(i)
      <3>1. UNCHANGED <<executed, seen, thread>> /\ \A s \in Slots : Pending(s)' => Pending(s)
        BY Zenon, <2>1 DEF Acquire, Pending
      <3>2. \A j \in Boots : daemon[j] # "off" => daemon'[j] = daemon[j]
        BY Zenon, <2>1 DEF Acquire, DaemonTypes
      <3> QED
        BY Zenon, <1>1, <3>1, <3>2
    <2>2. CASE Publish(i)
      <3>1. daemon[i] = "leased" /\ UNCHANGED <<executed, thread>> /\ \A j \in Boots : j # i => daemon'[j] = daemon[j]
        BY Zenon, <2>2 DEF Publish, DaemonTypes
      <3>2. \A j \in Boots : ~Serving(j)
        BY Zenon, <3>1, OneLive DEF Serving, Live
      <3>3. \A s \in Slots : ~Pending(s)'
        <4>1. \A s \in Slots : ~Pending(s)
          BY Zenon, <1>t, <3>2
        <4> QED
          BY Zenon, <3>1, <4>1 DEF Pending
      <3>4. ASSUME NEW e \in executed
            PROVE  /\ e.instance \in Boots /\ e.req \in Requests /\ e.nth = 1 /\ ~e.late
                   /\ e.instance # i /\ daemon'[e.instance] \in {"serving", "draining", "ended"}
                   /\ ~Serving(e.instance)'
        BY Zenon, <3>1, <3>2 DEF ExecutedInv, Serving
      <3> QED
        BY Zenon, <3>1, <3>3, <3>4 DEF ExecutedInv
    <2>3. CASE SpawnSupervisor(i) \/ SupervisorLeaves(i) \/ Interrupt(i)
      BY Zenon, <1>2, <2>3 DEF SpawnSupervisor, SupervisorLeaves, Interrupt
    <2>4. CASE Withdraw(i)
      <3>1. UNCHANGED <<executed, seen, thread>> /\ \A s \in Slots : Pending(s)' => Pending(s)
        BY Zenon, <2>4 DEF Withdraw, Pending
      <3>2. \A j \in Boots : daemon'[j] = daemon[j] \/ (daemon[j] = "serving" /\ daemon'[j] = "draining")
        BY Zenon, <2>4 DEF Withdraw, DaemonTypes
      <3> QED
        BY Zenon, <1>1, <3>1, <3>2
    <2>5. CASE StopServing(i) \/ DaemonDies(i)
      <3>1. Exit(i) /\ UNCHANGED <<executed, seen>>
        BY Zenon, <2>5 DEF StopServing, DaemonDies
      <3>2. \A s \in Slots : ~Pending(s)'
        BY Zenon, <3>1 DEF Exit, FreeThread, Pending
      <3>3. \A j \in Boots : daemon'[j] = daemon[j] \/ daemon'[j] = "ended"
        BY Zenon, <3>1 DEF Exit, DaemonTypes
      <3> QED
        BY Zenon, <1>1, <3>1, <3>2, <3>3
    <2> QED
      BY Zenon, <1>4, <2>1, <2>2, <2>3, <2>4, <2>5 DEF DaemonStep
  <1>5. ASSUME NEW i \in Boots, NEW s \in Slots, NEW q \in Requests, AcceptClient(i, s, q)
        PROVE  ExecutedInv'
    <2>1. UNCHANGED <<executed, seen, daemon>>
      BY Zenon, <1>5 DEF AcceptClient
    <2>2. \A r \in Slots : Pending(r)' => Pending(r) /\ thread'[r].req = thread[r].req
      BY Zenon, <1>5 DEF AcceptClient, Pending, DaemonTypes
    <2> QED
      BY Zenon, <1>1, <2>1, <2>2
  <1>6. ASSUME NEW i \in Boots, NEW s \in Slots, TakeFence(i, s) \/ Reply(i, s)
        PROVE  ExecutedInv'
    <2>1. UNCHANGED <<executed, seen, daemon>>
      BY Zenon, <1>6 DEF TakeFence, Reply
    <2>2. \A r \in Slots : Pending(r)' => Pending(r) /\ thread'[r].req = thread[r].req
      BY <1>6 DEF TakeFence, Reply, Pending, DaemonTypes, Thread, FreeThread
    <2> QED
      BY Zenon, <1>1, <2>1, <2>2
  <1>7. ASSUME NEW i \in Boots, NEW s \in Slots, Admit(i, s) PROVE ExecutedInv'
    <2> DEFINE q == thread[s].req
    <2>0. SeenKept /\ DaemonsKept /\ UNCHANGED <<executed, daemon, request, now>>
      BY Zenon, <1>7 DEF Admit
    <2>1. CASE thread' = [thread EXCEPT ![s] = FreeThread]
      <3>1. \A r \in Slots : Pending(r)' => Pending(r) /\ thread'[r].req = thread[r].req
        BY Zenon, <2>1 DEF Pending, DaemonTypes, FreeThread
      <3> QED
        BY Zenon, <1>1, <2>0, <3>1
    <2>2. CASE /\ Fresh(q) /\ Retained[q] = Never
               /\ thread' = [thread EXCEPT ![s].pc = "admitted"] /\ seen' = [Retained EXCEPT ![q] = now]
      <3>1. q \in Requests /\ Issued(q) /\ request[q].instance \in Boots /\ Serving(request[q].instance)
        BY Zenon, <1>7 DEF Admit, ThreadInv
      <3>2. ~Spent(q)
        BY Zenon, <2>2, <3>1, AdmittedIsNew
      <3>3. thread'[s].req = q /\ \A r \in Slots : r # s => thread'[r] = thread[r]
        BY Zenon, <2>2 DEF DaemonTypes, Thread
      <3>4. \A r \in Slots : r # s /\ Pending(r)' => Pending(r) /\ thread'[r].req = thread[r].req /\ thread[r].req # q
        BY ZenonT(60), <3>2, <3>3 DEF Pending, ExecutedInv
      <3>5. \A e \in executed : e.req = q => e.instance # request[q].instance
        BY Zenon, <3>1, <3>2 DEF ExecutedInv
      <3>6. Spent(thread[s].req)'
        <4>1. seen'[q] = now /\ now \in Nat /\ now' = now /\ request'[q] = request[q] /\ request[q].issued \in Int
          BY SMTT(60), <2>0, <2>2, <3>1 DEF Retained, DaemonTypes, Request
        <4>2. seen'[q] # Never /\ request'[q].issued <= seen'[q] + Skew
          BY SMTT(60), <2>2, <4>1, DaemonAssumption DEF Never, Fresh
        <4> QED
          BY Zenon, <3>3, <4>2 DEF Spent, Never
      <3>7. \A r, t \in Slots : Pending(r)' /\ Pending(t)' /\ thread'[r].req = thread'[t].req => r = t
        BY SMTT(60), <3>3, <3>4 DEF ExecutedInv
      <3>8. \A r \in Slots : Pending(r)' =>
               /\ Spent(thread[r].req)'
               /\ \A e \in executed : e.req = thread'[r].req => e.instance # request'[thread'[r].req].instance
        BY SMTT(60), <1>p, <2>0, <3>3, <3>4, <3>5, <3>6
      <3> HIDE DEF SeenKept, DaemonsKept
      <3> QED
        BY ZenonT(60), <1>e, <2>0, <3>7, <3>8 DEF ExecutedInv
    <2> QED
      BY Zenon, <1>7, <2>1, <2>2 DEF Admit
  \* A thread that executes its request.
  <1>8. ASSUME NEW i \in Boots, NEW s \in Slots, Serving(i), Pending(s), UNCHANGED <<daemon, seen, request, now>>,
               thread' = [thread EXCEPT ![s].pc = "done"],
               executed' = Ran(i, thread[s].req),
               request[thread[s].req].kind = "mutate" => i \notin fenced
        PROVE  ExecutedInv'
    <2> DEFINE q == thread[s].req
               ran == [instance |-> i, req |-> q, nth |-> 1, late |-> FALSE]
    <2>0. SeenKept /\ DaemonsKept
      BY Zenon, <1>8
    <2>1. q \in Requests /\ Issued(q) /\ Spent(q) /\ request[q].instance = i
      <3>1. q \in Requests /\ Issued(q) /\ request[q].instance \in Boots /\ Serving(request[q].instance)
        BY Zenon, <1>t, <1>8
      <3>2. request[q].instance = i
        BY Zenon, <1>8, <3>1, OneLive DEF Serving, Live
      <3>3. Spent(q)
        BY Zenon, <1>8 DEF ExecutedInv
      <3> QED
        BY Zenon, <3>1, <3>2, <3>3
    <2>2. {e \in executed : e.instance = i /\ e.req = q} = {}
      BY Zenon, <1>8, <2>1 DEF ExecutedInv
    <2>3. Count(i, q) = 0
      BY Zenon, <2>2, NothingIsNone DEF Count
    <2>4. executed' = executed \cup {ran}
      <3>1. (request[q].kind = "mutate" /\ i \in fenced) = FALSE
        BY Zenon, <1>8
      <3>2. Count(i, q) + 1 = 1
        BY <2>3
      <3> QED
        BY Zenon, <1>8, <3>1, <3>2 DEF Ran
    <2>5. \A r \in Slots : Pending(r)' => r # s /\ Pending(r) /\ thread'[r].req = thread[r].req
      BY Zenon, <1>8 DEF Pending, DaemonTypes, Thread
    <2>6. \A r \in Slots : Pending(r)' => thread'[r].req # q
      BY Zenon, <1>8, <2>5 DEF ExecutedInv
    <2>7. \A r, t \in Slots : Pending(r)' /\ Pending(t)' /\ thread'[r].req = thread'[t].req => r = t
      BY Zenon, <2>5 DEF ExecutedInv
    <2>8. \A p \in Requests : p = q => Spent(p)' /\ Issued(p)' /\ request'[p].instance = i
      BY Zenon, <1>0, <1>s, <1>8, <2>1
    <2>9. \A e \in executed' : /\ e.instance \in Boots /\ e.req \in Requests
                               /\ daemon'[e.instance] \in {"serving", "draining", "ended"}
                               /\ e.nth = 1 /\ ~e.late
      <3> HIDE DEF SeenKept, DaemonsKept
      <3>1. /\ ran.instance = i /\ ran.req = q /\ ran.nth = 1 /\ ~ran.late
            /\ daemon'[i] \in {"serving", "draining", "ended"}
        BY Zenon, <1>8 DEF Serving
      <3> HIDE DEF ran
      <3> QED
        BY Zenon, <1>e, <2>0, <2>1, <2>4, <3>1
    <2>10. \A e \in executed' : Serving(e.instance)' =>
              Spent(e.req)' /\ Issued(e.req)' /\ request'[e.req].instance = e.instance
      <3>1. ran.instance = i /\ ran.req = q
        BY Zenon
      <3> HIDE DEF SeenKept, DaemonsKept, ran
      <3>2. ASSUME NEW e \in executed', Serving(e.instance)'
            PROVE  Spent(e.req)' /\ Issued(e.req)' /\ request'[e.req].instance = e.instance
        <4>1. CASE e \in executed
          BY Zenon, <1>e, <2>0, <3>2, <4>1
        <4>2. CASE e = ran
          BY Zenon, <2>1, <2>8, <3>1, <4>2
        <4> QED
          BY Zenon, <2>4, <4>1, <4>2
      <3> QED
        BY Zenon, <3>2
    <2>11. \A r \in Slots : Pending(r)' =>
              /\ Spent(thread[r].req)'
              /\ \A e \in executed' : e.req = thread'[r].req => e.instance # request'[thread'[r].req].instance
      <3>1. ran.req = q
        BY Zenon
      <3> HIDE DEF SeenKept, DaemonsKept, ran
      <3> QED
        BY Zenon, <1>p, <2>0, <2>4, <2>5, <2>6, <3>1
    <2> QED
      BY Zenon, <2>7, <2>9, <2>10, <2>11 DEF ExecutedInv
  <1>9. ASSUME NEW i \in Boots, NEW s \in Slots, ExecuteRead(i, s) PROVE ExecutedInv'
    BY Zenon, <1>8, <1>9 DEF ExecuteRead, Pending
  <1>10. ASSUME NEW i \in Boots, NEW s \in Slots, ExecuteFenced(i, s) PROVE ExecutedInv'
    <2>1. CASE executed' = Ran(i, thread[s].req) /\ (request[thread[s].req].kind = "mutate" => ~stop[i])
      BY Zenon, <1>8, <1>10, <2>1 DEF ExecuteFenced, Pending, ThreadInv
    <2>2. CASE UNCHANGED executed
      <3>1. UNCHANGED <<seen, daemon>> /\ \A r \in Slots : Pending(r)' => Pending(r) /\ thread'[r].req = thread[r].req
        BY Zenon, <1>10 DEF ExecuteFenced, Pending, DaemonTypes, Thread
      <3> QED
        BY Zenon, <1>1, <2>2, <3>1
    <2> QED
      BY Zenon, <1>10, <2>1, <2>2 DEF ExecuteFenced, MayMutate
  <1> QED
    BY Zenon, <1>2, <1>3, <1>4, <1>5, <1>6, <1>7, <1>9, <1>10 DEF DaemonNext, ThreadStep, Tick, daemonVars

DaemonInv == DaemonTypes /\ LeaseInv /\ ThreadInv /\ ExecutedInv

LEMMA DaemonInvariant == DaemonSpec => []DaemonInv
  <1>1. DaemonInit => DaemonInv
    BY Zenon, TypesInit, LeaseInit, ThreadInit, ExecutedInit DEF DaemonInv
  <1>2. DaemonInv /\ [DaemonNext(Boots, Requests, MaxTime)]_daemonVars => DaemonInv'
    BY Zenon, TypesStep, LeaseStep, ThreadKept, ExecutedStep DEF DaemonInv
  <1> QED
    BY <1>1, <1>2, PTL DEF DaemonSpec

\* DaemonLease, publish and remove_endpoint: only the daemon that holds the
\* lease serves, and while it does the endpoint file names it, whatever other
\* daemons start, stop or die.
THEOREM OneDaemonServes == DaemonSpec => []EndpointIsOwn
  <1>1. DaemonInv => EndpointIsOwn
    BY Zenon DEF DaemonInv, LeaseInv, EndpointIsOwn, Live
  <1> QED
    BY DaemonInvariant, <1>1, PTL

\* ReplayCache::accept: a daemon executes a request at most once, for every
\* skew and every retention of at least twice the skew.
THEOREM RequestsRunOnce == DaemonSpec => []ExecutedAtMostOnce
  <1>1. DaemonInv => ExecutedAtMostOnce
    BY Zenon DEF DaemonInv, ExecutedInv, ExecutedAtMostOnce
  <1> QED
    BY DaemonInvariant, <1>1, PTL

\* lock_mutation: no mutation lands after a shutdown was answered.
THEOREM ShutdownIsFinal == DaemonSpec => []NoMutationAfterShutdown
  <1>1. DaemonInv => NoMutationAfterShutdown
    BY Zenon DEF DaemonInv, ExecutedInv, NoMutationAfterShutdown
  <1> QED
    BY DaemonInvariant, <1>1, PTL

-----------------------------------------------------------------------------
(* The files of a stack                                                    *)

Operations ==
    {"save", "saveLegacy", "saveProgress", "removeProgress", "read", "readRoutes", "publish", "append"}

WholeDocuments == [kind : {"ok"}, stamp : Nat, generation : Nat, epoch : Nat, sequence : Nat]

Contents == WholeDocuments \cup {Absent, Bad}

Events == [revision : Nat, previous : Nat, kind : {"apply", "stop", "remove"}]

RoutesFile == <<"routes", 0>>

Writing == {"staged", "aside", "installed", "synced"}

Holding == {"open", "linking"} \cup Writing

Stages == {"idle", "opening"} \cup Holding

Carried == Contents \cup Events

Results == {"none", "error"}

\* What a process knows of its operation.
FileProcesses ==
    [pc : Stages, op : Operations \cup {"none"}, file : Files, generation : 0 .. MaxEvents,
     next : Carried, tries : Nat, result : Results]

FilesTypes ==
    /\ engineLock \in Processes \cup {Nobody}
    /\ slots \in [Files -> [path : Contents, previous : Contents]]
    /\ process \in [Processes -> FileProcesses]
    /\ durable \in [Files -> Nat]
    /\ snapshots \subseteq WholeDocuments
    /\ spoiled \subseteq Files
    /\ writes \in Nat
    /\ workload \subseteq Operations

\* The journal is a chain, and within the limit.
JournalInv ==
    /\ journal \in Seq(Events)
    /\ Len(journal) \in 1 .. MaxEvents
    /\ JournalValid

\* A status belongs to the generation its file is named for.
OwnGeneration(f, d) == f[1] = "runtime" /\ d \in WholeDocuments => d.generation = f[2]

\* A routing snapshot that follows all that were in place.
Follows(d) ==
    /\ d.epoch <= writes
    /\ \A s \in snapshots : s.epoch = d.epoch => s.sequence < d.sequence

\* A process that is in the store holds the lock and works on its file; what it
\* has written is newer than what was acknowledged.
Inside(p) ==
    LET me == process[p]
        slot == slots[me.file]
        placed == slot.path = me.next \/ (slot.path = Bad /\ me.file \in spoiled)
    IN  /\ me.pc # "idle" => me.op \in Operations /\ me.generation # 0 /\ me.file = FileOf(me.op, me.generation)
        /\ me.pc \in Holding => engineLock = p
        /\ me.pc = "linking" => Len(journal) < MaxEvents /\ \E kind \in {"apply", "stop", "remove"} : me.next = NextEvent(kind)
        /\ me.pc \in Writing =>
              /\ me.next \in WholeDocuments
              /\ durable[me.file] < me.next.stamp /\ me.next.stamp <= writes
              /\ OwnGeneration(me.file, me.next)
              /\ me.op = "publish" <=> me.file = RoutesFile
        /\ me.pc \in {"staged", "aside"} /\ me.op = "publish" => Follows(me.next)
        /\ me.pc = "staged" => slot.previous = Absent
        /\ me.pc = "aside" => slot.path = Absent /\ slot.previous # Absent
        /\ me.pc = "installed" => placed /\ slot.previous # Absent
        /\ me.pc = "synced" => placed /\ slot.previous = Absent

\* What is kept in a file, whoever opens it next.
KeptIn(f) ==
    /\ durable[f] <= writes
    /\ OwnGeneration(f, slots[f].path) /\ OwnGeneration(f, slots[f].previous)
    /\ f \notin spoiled =>
          /\ slots[f].path # Bad /\ slots[f].previous # Bad
          /\ durable[f] > 0 => Readable(Value(slots[f])) /\ Value(slots[f]).stamp >= durable[f]

\* The routing table that is found was the last in place of its epoch.
RoutesInv ==
    LET found == Value(slots[RoutesFile])
    IN  /\ \A s \in snapshots : s.epoch <= writes
        /\ Readable(found) => found \in snapshots /\ \A s \in snapshots : s.epoch = found.epoch => s.sequence <= found.sequence

FilesInv ==
    /\ FilesTypes
    /\ JournalInv
    /\ \A p \in Processes : Inside(p)
    /\ \A f \in Files : KeptIn(f)
    /\ RoutesInv
    /\ SequencesAreNotReused
    /\ spoiled = {} => \A p \in Processes : process[p].result # "error"
    /\ ~misread

StackSlots == [path : Contents, previous : Contents]

\* What is absent, spoiled and whole differ in their kind.
LEMMA ContentKinds ==
    /\ Absent \notin WholeDocuments /\ Bad \notin WholeDocuments /\ Absent # Bad
    /\ Absent \in Contents /\ Bad \in Contents /\ WholeDocuments \subseteq Contents
    /\ \A d \in Contents : Readable(d) <=> d \in WholeDocuments
  <1>1. Absent.kind = "absent" /\ Bad.kind = "bad" /\ \A d \in WholeDocuments : d.kind = "ok"
    BY Zenon DEF Absent, Bad, WholeDocuments
  <1>2. Absent \notin WholeDocuments /\ Bad \notin WholeDocuments /\ Absent # Bad
    BY Zenon, <1>1
  <1> QED
    BY Zenon, <1>1, <1>2 DEF Contents, Readable

\* The file an operation works on: of the status the one its generation has.
LEMMA FileOfOperation ==
    ASSUME NEW op \in Operations, NEW g \in 1 .. MaxEvents
    PROVE  /\ FileOf(op, g) \in Files
           /\ FileOf(op, g)[1] = "runtime" => FileOf(op, g)[2] = g
           /\ FileOf(op, g) = RoutesFile <=> op \in {"publish", "readRoutes", "append"}
  <1>1. CASE op \in {"save", "read"}
    BY Zenon, <1>1 DEF FileOf, Files, RoutesFile
  <1>2. CASE op = "saveLegacy"
    BY Zenon, <1>2 DEF FileOf, Files, RoutesFile
  <1>3. CASE op \in {"saveProgress", "removeProgress"}
    BY Zenon, <1>3 DEF FileOf, Files, RoutesFile
  <1>4. CASE op \in {"publish", "readRoutes", "append"}
    BY Zenon, <1>4 DEF FileOf, Files, RoutesFile
  <1> QED
    BY Zenon, <1>1, <1>2, <1>3, <1>4 DEF Operations

\* A process that opened a file works for a generation.
LEMMA OpenGeneration ==
    ASSUME NEW p \in Processes, process[p] \in FileProcesses, Inside(p), process[p].pc = "open"
    PROVE  process[p].generation \in 1 .. MaxEvents
  <1>1. process[p].generation # 0
    BY Zenon DEF Inside
  <1>2. process[p].generation \in 0 .. MaxEvents
    BY Zenon DEF FileProcesses
  <1> QED
    BY ONLY <1>1, <1>2, FilesAssumption, SMT

\* What is found in a file: the document if there is one, else its backup; a
\* recovery leaves just that.
LEMMA FoundInFile ==
    ASSUME NEW slot \in StackSlots
    PROVE  /\ slot.path \in Contents /\ slot.previous \in Contents
           /\ slot.previous = Absent => Value(slot) = slot.path
           /\ slot.path = Absent => Value(slot) = slot.previous
           /\ slot.path # Absent => Value(slot) = slot.path
           /\ Recovered(slot) = [path |-> Value(slot), previous |-> Absent]
           /\ Value(slot) \in Contents
           /\ slot.path # Bad /\ slot.previous # Bad => Recoverable(slot) /\ Value(slot) # Bad
  <1>0. slot = [path |-> slot.path, previous |-> slot.previous] /\ slot.path \in Contents /\ slot.previous \in Contents
    BY Zenon DEF StackSlots
  <1>1. Recovered(slot) = [path |-> Value(slot), previous |-> Absent]
    BY Zenon DEF Recovered, Value
  <1>2. Value(slot) = IF slot.path = Absent /\ slot.previous # Absent THEN slot.previous ELSE slot.path
    BY Zenon DEF Recovered, Value
  <1> QED
    BY Zenon, <1>0, <1>1, <1>2, ContentKinds DEF Contents, Recoverable

\* Of the processes only one is in the store; what it does there leaves the
\* others outside.
LEMMA OthersStayOutside ==
    ASSUME FilesInv, NEW p \in Processes, process[p].pc \in Holding,
           NEW me, process' = [process EXCEPT ![p] = me],
           NEW q \in Processes, q # p
    PROVE  Inside(q)'
  <1>1. process'[q] = process[q] /\ Inside(q) /\ Inside(p)
    BY Zenon DEF FilesInv, FilesTypes
  <1>2. process[q].pc \notin Holding
    BY Zenon, <1>1 DEF Inside
  <1>3. process[q].pc \notin Writing /\ process[q].pc \notin {"linking", "staged", "aside", "installed", "synced"}
    BY Zenon, <1>2 DEF Holding, Writing
  <1> QED
    BY Zenon, <1>1, <1>2, <1>3 DEF Inside

\* Documents that change places within their file, with what is found staying
\* the same unless it was spoiled and is given up.
Shuffled(new) ==
    /\ new \in [Files -> StackSlots]
    /\ \A f \in Files :
          /\ {new[f].path, new[f].previous} \subseteq {slots[f].path, slots[f].previous, Absent}
          /\ \/ Value(new[f]) = Value(slots[f])
             \/ f \in spoiled /\ Value(new[f]) = Absent

LEMMA ShufflingKeeps ==
    ASSUME FilesInv, Shuffled(slots'), UNCHANGED <<durable, spoiled, snapshots>>,
           writes' \in Nat, writes <= writes'
    PROVE  (\A f \in Files : KeptIn(f)') /\ RoutesInv'
  <1>1. ASSUME NEW f \in Files PROVE KeptIn(f)'
    <2>1. KeptIn(f) /\ durable[f] \in Nat /\ writes \in Nat
      BY Zenon, <1>1 DEF FilesInv, FilesTypes
    <2>2. durable'[f] <= writes'
      BY SMT, <2>1 DEF KeptIn
    <2>3. OwnGeneration(f, slots'[f].path) /\ OwnGeneration(f, slots'[f].previous)
      BY Zenon, <1>1, <2>1, ContentKinds DEF KeptIn, Shuffled, OwnGeneration
    <2>4. ASSUME f \notin spoiled
          PROVE  /\ slots'[f].path # Bad /\ slots'[f].previous # Bad
                 /\ durable[f] > 0 => Readable(Value(slots'[f])) /\ Value(slots'[f]).stamp >= durable[f]
      BY Zenon, <1>1, <2>1, <2>4, ContentKinds DEF KeptIn, Shuffled
    <2> QED
      BY Zenon, <2>2, <2>3, <2>4 DEF KeptIn, OwnGeneration
  <1>2. RoutesInv'
    <2>1. RoutesFile \in Files
      BY Zenon DEF RoutesFile, Files
    <2>2. RoutesInv /\ snapshots \subseteq WholeDocuments /\ writes \in Nat
      BY Zenon DEF FilesInv, FilesTypes
    <2>3. \A s \in snapshots : s.epoch <= writes'
      BY SMT, <2>2 DEF RoutesInv, WholeDocuments
    <2>4. \/ Value(slots'[RoutesFile]) = Value(slots[RoutesFile])
          \/ Value(slots'[RoutesFile]) = Absent
      BY Zenon, <2>1 DEF Shuffled
    <2>5. ~Readable(Absent)
      BY Zenon, ContentKinds
    <2> QED
      BY Zenon, <2>2, <2>3, <2>4, <2>5 DEF RoutesInv
  <1> QED
    BY Zenon, <1>1, <1>2

\* Files as they are count as shuffled.
LEMMA NothingShuffled ==
    ASSUME FilesInv, UNCHANGED slots
    PROVE  Shuffled(slots')
  BY Zenon DEF FilesInv, FilesTypes, Shuffled, StackSlots

\* So does the recovery of some of them.
LEMMA RecoveryShuffles ==
    ASSUME FilesInv, NEW opened \in SUBSET Files,
           slots' = [f \in Files |-> IF f \in opened THEN Recovered(slots[f]) ELSE slots[f]]
    PROVE  Shuffled(slots')
  <1>1. ASSUME NEW f \in Files
        PROVE  /\ slots'[f] \in StackSlots
               /\ {slots'[f].path, slots'[f].previous} \subseteq {slots[f].path, slots[f].previous, Absent}
               /\ Value(slots'[f]) = Value(slots[f])
    <2>1. slots[f] \in StackSlots
      BY Zenon, <1>1 DEF FilesInv, FilesTypes, StackSlots
    <2>2. CASE f \notin opened
      BY Zenon, <1>1, <2>1, <2>2
    <2>3. CASE f \in opened
      <3>1. slots'[f] = [path |-> Value(slots[f]), previous |-> Absent]
        BY Zenon, <1>1, <2>1, <2>3, FoundInFile
      <3>2. slots'[f].path = Value(slots[f]) /\ slots'[f].previous = Absent
        BY SMT, <3>1
      <3>3. slots'[f] \in StackSlots
        BY Zenon, <2>1, <3>1, FoundInFile, ContentKinds DEF StackSlots
      <3>4. Value(slots'[f]) = Value(slots[f])
        BY Zenon, <3>2, <3>3, FoundInFile
      <3> QED
        BY Zenon, <2>1, <3>2, <3>3, <3>4, FoundInFile
    <2> QED
      BY Zenon, <2>2, <2>3
  <1>2. slots' \in [Files -> StackSlots]
    BY Zenon, <1>1
  <1> QED
    BY Zenon, <1>1, <1>2 DEF Shuffled

\* The recovery of one of them, as it is written.
LEMMA OneRecoveryShuffles ==
    ASSUME FilesInv, NEW f \in Files, slots' = [slots EXCEPT ![f] = Recovered(@)]
    PROVE  /\ Shuffled(slots') /\ slots'[f].previous = Absent
           /\ slots'[f].path = Value(slots[f])
  <1>1. slots' = [g \in Files |-> IF g \in {f} THEN Recovered(slots[g]) ELSE slots[g]]
    BY Zenon DEF FilesInv, FilesTypes
  <1>2. slots'[f] = [path |-> Value(slots[f]), previous |-> Absent]
    BY Zenon, <1>1, FoundInFile DEF FilesInv, FilesTypes, StackSlots
  <1>3. {f} \in SUBSET Files
    BY Zenon
  <1>4. Shuffled(slots')
    BY Zenon, <1>1, <1>3, RecoveryShuffles
  <1> QED
    BY SMT, <1>2, <1>4

\* A file that was not spoiled is never refused.
LEMMA OnlySpoiledRefused ==
    ASSUME FilesInv, NEW f \in Files, f \notin spoiled
    PROVE  Recoverable(slots[f]) /\ Value(slots[f]) # Bad /\ slots[f].path # Bad
  <1>1. KeptIn(f) /\ slots[f] \in StackSlots
    BY Zenon DEF FilesInv, FilesTypes, StackSlots
  <1> QED
    BY Zenon, <1>1, FoundInFile DEF KeptIn

\* What a process does in the store keeps the invariant when its files are
\* only shuffled.
LEMMA StoreStepKeeps ==
    ASSUME FilesInv, NEW p \in Processes, process[p].pc \in Holding,
           NEW me \in FileProcesses, process' = [process EXCEPT ![p] = me], Inside(p)',
           engineLock' \in Processes \cup {Nobody}, Shuffled(slots'),
           UNCHANGED <<journal, durable, snapshots, spoiled, workload>>,
           writes' \in Nat, writes <= writes', ~misread', spoiled = {} => me.result # "error"
    PROVE  FilesInv'
  <1>1. FilesTypes'
    BY Zenon DEF FilesInv, FilesTypes, Shuffled, StackSlots
  <1>2. JournalInv' /\ SequencesAreNotReused'
    BY Zenon DEF FilesInv, JournalInv, JournalValid, SequencesAreNotReused
  <1>3. ASSUME NEW q \in Processes PROVE Inside(q)'
    BY Zenon, <1>3, OthersStayOutside
  <1>4. spoiled' = {} => \A q \in Processes : process'[q].result # "error"
    BY Zenon DEF FilesInv, FilesTypes
  <1> QED
    BY Zenon, <1>1, <1>2, <1>3, <1>4, ShufflingKeeps DEF FilesInv

LEMMA IdleIs ==
    ASSUME NEW r \in {"none", "error"}
    PROVE  /\ [Idle EXCEPT !.result = r] \in FileProcesses
           /\ [Idle EXCEPT !.result = r].pc = "idle" /\ [Idle EXCEPT !.result = r].result = r
           /\ Idle = [Idle EXCEPT !.result = "none"]
  <1>1. <<"legacy", 0>> \in Files /\ 0 \in 0 .. MaxEvents
    BY SMT, FilesAssumption DEF Files
  <1>2. Absent \in Carried /\ "idle" \in Stages /\ r \in Results
    BY Zenon, ContentKinds DEF Carried, Stages, Results
  <1> QED
    BY SMT, <1>1, <1>2 DEF FileProcesses, Idle

\* An operation that returns keeps the invariant, provided that it fails only
\* when a file was spoiled.
LEMMA ReturningKeeps ==
    ASSUME FilesInv, NEW p \in Processes, process[p].pc \in Holding, NEW r \in {"none", "error"},
           Closed(p, r), Shuffled(slots'), spoiled = {} => r = "none",
           UNCHANGED <<journal, durable, snapshots, spoiled, workload, writes>>, ~misread'
    PROVE  FilesInv'
  <1> DEFINE me == [Idle EXCEPT !.result = r]
  <1>1. me \in FileProcesses /\ me.pc = "idle" /\ me.result = r
    BY Zenon, IdleIs
  <1>2. process' = [process EXCEPT ![p] = me] /\ process'[p] = me
    BY Zenon DEF Closed, FilesInv, FilesTypes
  <1>3. Inside(p)'
    BY Zenon, <1>1, <1>2 DEF Inside, Holding, Writing
  <1>4. engineLock' \in Processes \cup {Nobody}
    BY Zenon DEF Closed, FilesInv, FilesTypes
  <1>5. writes' \in Nat /\ writes <= writes'
    BY SMT DEF FilesInv, FilesTypes
  <1> HIDE DEF me
  <1> QED
    BY Zenon, <1>1, <1>2, <1>3, <1>4, <1>5, StoreStepKeeps

\* A process that has written the temporary of its document or event.
Written(w, pc, next) == [w EXCEPT !.pc = pc, !.next = next]

LEMMA WrittenProcess ==
    ASSUME NEW w \in FileProcesses, NEW pc \in Stages, NEW next \in Carried,
           NEW me, me = Written(w, pc, next)
    PROVE  /\ me \in FileProcesses
           /\ me.pc = pc /\ me.next = next /\ me.op = w.op /\ me.file = w.file
           /\ me.generation = w.generation /\ me.result = w.result
  <1>0. me = [w EXCEPT !.pc = pc, !.next = next]
    BY Zenon DEF Written
  <1>1. /\ w.op \in Operations \cup {"none"} /\ w.file \in Files /\ w.generation \in 0 .. MaxEvents
        /\ w.tries \in Nat /\ w.result \in Results
    BY Zenon DEF FileProcesses
  <1>2. me = [pc |-> pc, op |-> w.op, file |-> w.file, generation |-> w.generation, next |-> next,
              tries |-> w.tries, result |-> w.result]
    BY Zenon, <1>0 DEF FileProcesses
  <1>3. me \in FileProcesses
    BY SMT, <1>1, <1>2 DEF FileProcesses
  <1> QED
    BY SMT, <1>2, <1>3

\* The temporary of a document that is newer than all before it.
LEMMA StagingKeeps ==
    ASSUME FilesInv, NEW p \in Processes, process[p].pc = "open",
           process[p].op \in {"save", "saveLegacy", "saveProgress", "publish"},
           NEW d \in WholeDocuments, d.stamp = writes + 1, OwnGeneration(process[p].file, d),
           process[p].op = "publish" =>
              d.epoch <= writes + 1 /\ \A s \in snapshots : s.epoch = d.epoch => s.sequence < d.sequence,
           Stage(p, d), Shuffled(slots'), slots'[process[p].file].previous = Absent,
           UNCHANGED <<engineLock, journal, durable, snapshots, misread, spoiled, workload>>
    PROVE  FilesInv'
  <1> DEFINE me == [process[p] EXCEPT !.pc = "staged", !.next = d]
             f == process[p].file
  <1>1. process[p] \in FileProcesses /\ Inside(p) /\ KeptIn(f) /\ f \in Files
    BY Zenon DEF FilesInv, FilesTypes, FileProcesses
  <1>2. process' = [process EXCEPT ![p] = me] /\ process'[p] = me
    BY Zenon DEF Stage, FilesInv, FilesTypes
  <1>3. /\ me.pc = "staged" /\ me.next = d /\ me.op = process[p].op /\ me.file = f
        /\ me.generation = process[p].generation /\ me.result = process[p].result
        /\ me \in FileProcesses
    <2>1. "staged" \in Stages /\ d \in Carried
      BY Zenon, ContentKinds DEF Stages, Carried, Holding, Writing
    <2>2. me = Written(process[p], "staged", d)
      BY Zenon DEF Written
    <2>3. process[p] \in FileProcesses
      BY Zenon, <1>1
    <2> HIDE DEF me
    <2> QED
      BY ONLY <2>1, <2>2, <2>3, WrittenProcess, SMT
  <1>5. writes' \in Nat /\ writes <= writes' /\ writes' = writes + 1 /\ durable[f] < d.stamp /\ d.stamp <= writes'
    BY SMT, <1>1 DEF Stage, KeptIn, FilesInv, FilesTypes
  <1>6. process[p].op = "publish" <=> f = RoutesFile
    <2>1. process[p].generation \in 1 .. MaxEvents
      BY Zenon, <1>1, OpenGeneration
    <2>2. process[p].op \in Operations /\ f = FileOf(process[p].op, process[p].generation)
      BY Zenon, <1>1 DEF Inside
    <2> QED
      BY Zenon, <2>1, <2>2, FileOfOperation
  <1>7. process[p].op = "publish" => Follows(d)'
    BY Zenon, <1>5 DEF Follows
  <1> HIDE DEF me
  <1>8. Inside(p)'
    <2>1. /\ me.op \in Operations /\ me.generation # 0 /\ me.file = FileOf(me.op, me.generation)
          /\ engineLock' = p
      BY Zenon, <1>1, <1>3 DEF Inside, Holding
    <2> QED
      BY Zenon, <1>2, <1>3, <1>5, <1>6, <1>7, <2>1 DEF Inside, OwnGeneration
  <1>9. ~misread' /\ engineLock' \in Processes \cup {Nobody} /\ (spoiled = {} => me.result # "error")
    BY Zenon, <1>3 DEF FilesInv, FilesTypes
  <1> QED
    BY Zenon, <1>2, <1>3, <1>5, <1>8, <1>9, StoreStepKeeps DEF Holding

\* A process that goes on with the replacement of its file.
LEMMA MovingKeeps ==
    ASSUME FilesInv, NEW p \in Processes, process[p].pc \in Writing, NEW pc \in Writing,
           process' = [process EXCEPT ![p].pc = pc], Inside(p)', Shuffled(slots'),
           UNCHANGED <<engineLock, journal, durable, snapshots, misread, spoiled, workload, writes>>
    PROVE  FilesInv'
  <1> DEFINE me == [process[p] EXCEPT !.pc = pc]
  <1>1. process[p] \in FileProcesses
    BY Zenon DEF FilesInv, FilesTypes
  <1>2. process' = [process EXCEPT ![p] = me]
    BY Zenon DEF FilesInv, FilesTypes
  <1>3. me \in FileProcesses /\ me.result = process[p].result
    <2>1. pc \in Stages
      BY Zenon DEF Stages, Holding
    <2> QED
      BY Zenon, <1>1, <2>1 DEF FileProcesses
  <1>4. writes' \in Nat /\ writes <= writes'
    BY SMT DEF FilesInv, FilesTypes
  <1> HIDE DEF me
  <1>5. ~misread' /\ engineLock' \in Processes \cup {Nobody} /\ (spoiled = {} => me.result # "error")
    BY Zenon, <1>3 DEF FilesInv, FilesTypes
  <1> QED
    BY Zenon, <1>2, <1>3, <1>4, <1>5, StoreStepKeeps DEF Holding

\* The fields of a process that moves on.
LEMMA MovedProcess ==
    ASSUME FilesInv, NEW p \in Processes, NEW pc, process' = [process EXCEPT ![p].pc = pc]
    PROVE  /\ process'[p].pc = pc /\ process'[p].op = process[p].op /\ process'[p].file = process[p].file
           /\ process'[p].generation = process[p].generation /\ process'[p].next = process[p].next
           /\ process'[p].result = process[p].result
           /\ \A q \in Processes \ {p} : process'[q] = process[q]
           /\ pc \in Holding => process' \in [Processes -> FileProcesses]
  <1>1. process \in [Processes -> FileProcesses]
    BY Zenon DEF FilesInv, FilesTypes
  <1>2. process' = [process EXCEPT ![p] = [process[p] EXCEPT !.pc = pc]]
    BY Zenon, <1>1
  <1>3. pc \in Stages => [process[p] EXCEPT !.pc = pc] \in FileProcesses
    BY Zenon, <1>1 DEF FileProcesses
  <1>4. pc \in Holding => process' \in [Processes -> FileProcesses]
    BY Zenon, <1>1, <1>2, <1>3 DEF Stages
  <1> QED
    BY SMT, <1>1, <1>2, <1>4 DEF FileProcesses

\* A process that has moved within its file is where its next stage says.
LEMMA StillInside ==
    ASSUME FilesInv, NEW p \in Processes, process[p].pc \in Writing, Inside(p),
           NEW pc, process' = [process EXCEPT ![p].pc = pc],
           \/ /\ process[p].pc = "staged" /\ pc = "aside"
              /\ slots'[process[p].file].path = Absent /\ slots'[process[p].file].previous # Absent
           \/ /\ process[p].pc = "installed" /\ pc = "synced"
              /\ slots'[process[p].file].path = slots[process[p].file].path
              /\ slots'[process[p].file].previous = Absent,
           UNCHANGED <<engineLock, durable, snapshots, spoiled, writes>>
    PROVE  Inside(p)'
  <1>1. /\ process'[p].pc = pc /\ process'[p].op = process[p].op /\ process'[p].file = process[p].file
        /\ process'[p].generation = process[p].generation /\ process'[p].next = process[p].next
    BY Zenon, MovedProcess
  <1>2. \A d : Follows(d)' <=> Follows(d)
    BY Zenon DEF Follows
  <1>3. pc \in Writing /\ pc \in Holding /\ process[p].pc \in Holding /\ process[p].pc # "idle" /\ pc # "linking"
    BY Zenon DEF Writing, Holding
  <1>4. /\ process'[p].op \in Operations /\ process'[p].generation # 0
        /\ process'[p].file = FileOf(process'[p].op, process'[p].generation) /\ engineLock' = p
    BY Zenon, <1>1, <1>3 DEF Inside
  <1>5. /\ process'[p].next \in WholeDocuments
        /\ durable'[process'[p].file] < process'[p].next.stamp /\ process'[p].next.stamp <= writes'
        /\ OwnGeneration(process'[p].file, process'[p].next)
        /\ process'[p].op = "publish" <=> process'[p].file = RoutesFile
    BY Zenon, <1>1, <1>3 DEF Inside
  <1>6. CASE process[p].pc = "staged" /\ pc = "aside"
    <2>1. process'[p].op = "publish" => Follows(process[p].next)
      BY Zenon, <1>1, <1>6 DEF Inside
    <2> QED
      BY Zenon, <1>1, <1>2, <1>3, <1>4, <1>5, <1>6, <2>1 DEF Inside, OwnGeneration
  <1>7. CASE process[p].pc = "installed" /\ pc = "synced"
    <2>1. slots'[process[p].file].path = process[p].next \/ (slots'[process[p].file].path = Bad /\ process[p].file \in spoiled')
      BY Zenon, <1>7 DEF Inside
    <2> QED
      BY Zenon, <1>1, <1>3, <1>4, <1>5, <1>7, <2>1 DEF Inside, OwnGeneration
  <1> QED
    BY Zenon, <1>6, <1>7

\* The new document gets its name.
LEMMA PlacingKeeps ==
    ASSUME FilesInv, NEW p \in Processes, NEW pc,
           \/ process[p].pc = "staged" /\ pc = "synced"
           \/ process[p].pc = "aside" /\ pc = "installed",
           slots[process[p].file].path = Absent,
           slots' = [slots EXCEPT ![process[p].file].path = process[p].next],
           InPlace(p), Keeps(p, pc), UNCHANGED workload
    PROVE  FilesInv'
  <1> DEFINE f == process[p].file
             d == process[p].next
  <1>1. /\ process[p] \in FileProcesses /\ Inside(p) /\ f \in Files /\ slots \in [Files -> StackSlots]
        /\ process[p].pc \in Writing /\ process[p].pc \in Holding /\ pc \in Writing /\ pc \in Holding
    BY Zenon DEF FilesInv, FilesTypes, FileProcesses, StackSlots, Writing, Holding
  <1>2. /\ d \in WholeDocuments /\ d \in Contents /\ durable[f] < d.stamp /\ OwnGeneration(f, d)
        /\ process[p].op = "publish" <=> f = RoutesFile
        /\ process[p].op = "publish" => Follows(d)
    BY Zenon, <1>1, ContentKinds DEF Inside
  <1>3. /\ slots' \in [Files -> StackSlots]
        /\ slots'[f].path = d /\ slots'[f].previous = slots[f].previous
        /\ \A g \in Files \ {f} : slots'[g] = slots[g]
    BY Zenon, <1>1, <1>2 DEF StackSlots
  <1>4. Value(slots'[f]) = d
    BY Zenon, <1>1, <1>2, <1>3, FoundInFile, ContentKinds
  <1>5. process' = [process EXCEPT ![p].pc = pc]
    BY Zenon DEF Keeps
  <1>6. FilesTypes'
    <2>1. process' \in [Processes -> FileProcesses]
      BY Zenon, <1>1, <1>5, MovedProcess
    <2>2. snapshots' \subseteq WholeDocuments
      BY Zenon, <1>2 DEF InPlace, FilesInv, FilesTypes
    <2> QED
      BY Zenon, <1>3, <2>1, <2>2 DEF Keeps, FilesInv, FilesTypes, StackSlots
  <1>7. ASSUME NEW q \in Processes PROVE Inside(q)'
    <2>1. CASE q = p
      <3>1. /\ process'[p].op \in Operations /\ process'[p].generation # 0
            /\ process'[p].file = FileOf(process'[p].op, process'[p].generation)
            /\ engineLock' = p
        BY Zenon, <1>1, <1>5, MovedProcess DEF Keeps, Inside, Holding, Writing
      <3>2. pc # "linking" /\ pc # "staged" /\ pc # "aside"
        BY Zenon
      <3>3. durable'[f] < d.stamp /\ d.stamp <= writes'
        BY Zenon, <1>1, <1>2 DEF Inside, Keeps
      <3>4. pc = "installed" => slots'[f].previous # Absent
        BY Zenon, <1>1, <1>3 DEF Inside
      <3>5. pc = "synced" => slots'[f].previous = Absent
        BY Zenon, <1>1, <1>3 DEF Inside
      <3> QED
        <4>1. process'[p].pc = pc /\ process'[p].op = process[p].op /\ process'[p].file = f /\ process'[p].next = d
          BY Zenon, <1>5, MovedProcess
        <4> HIDE DEF f, d
        <4> QED
          BY Zenon, <1>1, <1>2, <1>3, <2>1, <3>1, <3>2, <3>3, <3>4, <3>5, <4>1 DEF Inside, OwnGeneration
    <2>2. CASE q # p
      <3>1. process' = [process EXCEPT ![p] = [process[p] EXCEPT !.pc = pc]]
        BY Zenon, <1>5 DEF FilesInv, FilesTypes
      <3> QED
        BY Zenon, <1>1, <1>7, <2>2, <3>1, OthersStayOutside
    <2> QED
      BY Zenon, <2>1, <2>2
  <1>8. ASSUME NEW g \in Files PROVE KeptIn(g)'
    <2>1. KeptIn(g)
      BY Zenon, <1>8 DEF FilesInv
    <2>2. CASE g # f
      BY Zenon, <1>3, <1>8, <2>1, <2>2 DEF KeptIn, OwnGeneration, Keeps
    <2>3. CASE g = f
      <3>1. Readable(d) /\ d # Bad
        BY Zenon, <1>2, ContentKinds
      <3>2. d.stamp >= durable[f]
        BY SMT, <1>1, <1>2 DEF FilesInv, FilesTypes, WholeDocuments
      <3> QED
        BY Zenon, <1>2, <1>3, <1>4, <2>1, <2>3, <3>1, <3>2 DEF KeptIn, OwnGeneration, Keeps
    <2> QED
      BY Zenon, <2>2, <2>3
  <1>9. RoutesInv' /\ SequencesAreNotReused'
    <2>0. /\ RoutesInv /\ SequencesAreNotReused /\ snapshots \subseteq WholeDocuments /\ writes' = writes
          /\ RoutesFile \in Files /\ writes \in Nat
      BY Zenon DEF FilesInv, FilesTypes, Keeps, RoutesFile, Files
    <2>1. CASE f # RoutesFile
      <3>1. snapshots' = snapshots
        BY Zenon, <1>2, <2>1 DEF InPlace
      <3> QED
        BY Zenon, <1>3, <2>0, <2>1, <3>1 DEF RoutesInv, SequencesAreNotReused
    <2>2. CASE f = RoutesFile
      <3>1. snapshots' = snapshots \cup {d} /\ Follows(d)
        BY Zenon, <1>2, <2>2 DEF InPlace
      <3>2. SequencesAreNotReused'
        BY SMT, <1>2, <2>0, <3>1 DEF Follows, SequencesAreNotReused, WholeDocuments
      <3>3. \A s \in snapshots' : s.epoch <= writes'
        BY Zenon, <2>0, <3>1 DEF Follows, RoutesInv
      <3>4. \A s \in snapshots' : s.epoch = d.epoch => s.sequence <= d.sequence
        BY SMT, <1>2, <2>0, <3>1 DEF Follows, WholeDocuments
      <3> QED
        <4>1. Value(slots'[RoutesFile]) = d /\ d \in snapshots'
          BY Zenon, <1>4, <2>2, <3>1
        <4> HIDE DEF d
        <4> QED
          BY Zenon, <3>2, <3>3, <3>4, <4>1 DEF RoutesInv
    <2> QED
      BY Zenon, <2>1, <2>2
  <1>10. spoiled' = {} => \A q \in Processes : process'[q].result # "error"
    <2>1. \A q \in Processes : process'[q].result = process[q].result
      BY Zenon, <1>5, MovedProcess
    <2> QED
      BY Zenon, <2>1 DEF FilesInv, Keeps
  <1>11. JournalInv' /\ ~misread'
    BY Zenon DEF FilesInv, JournalInv, JournalValid, Keeps
  <1> QED
    BY Zenon, <1>6, <1>7, <1>8, <1>9, <1>10, <1>11 DEF FilesInv

\* The acknowledgement: what is found is the document that was written.
LEMMA AcknowledgeKeeps ==
    ASSUME FilesInv, NEW p \in Processes, Acknowledge(p), UNCHANGED workload
    PROVE  FilesInv'
  <1> DEFINE f == process[p].file
             d == process[p].next
  <1>1. /\ process[p] \in FileProcesses /\ Inside(p) /\ f \in Files /\ slots \in [Files -> StackSlots]
        /\ process[p].pc \in Writing /\ process[p].pc \in Holding /\ process[p].pc = "synced"
    BY Zenon DEF Acknowledge, FilesInv, FilesTypes, FileProcesses, StackSlots, Writing, Holding
  <1>2. /\ d \in WholeDocuments /\ d.stamp \in Nat /\ d.stamp <= writes
        /\ slots[f].path = d \/ f \in spoiled
        /\ slots[f].previous = Absent
    BY Zenon, <1>1 DEF Inside, WholeDocuments
  <1>3. durable' \in [Files -> Nat] /\ durable'[f] = d.stamp /\ \A g \in Files \ {f} : durable'[g] = durable[g]
    BY Zenon, <1>1, <1>2 DEF Acknowledge, FilesInv, FilesTypes
  <1> DEFINE me == [Idle EXCEPT !.result = "none"]
  <1>4. process' = [process EXCEPT ![p] = me] /\ process'[p] = me /\ me \in FileProcesses
        /\ me.pc = "idle" /\ me.result = "none"
    BY Zenon, IdleIs DEF Acknowledge, Closed, FilesInv, FilesTypes
  <1> HIDE DEF me
  <1>5. FilesTypes'
    BY Zenon, <1>3, <1>4 DEF Acknowledge, Closed, FilesInv, FilesTypes
  <1>6. ASSUME NEW q \in Processes PROVE Inside(q)'
    <2>1. CASE q = p
      BY Zenon, <1>4, <2>1 DEF Inside, Holding, Writing
    <2> QED
      BY Zenon, <1>1, <1>4, <1>6, <2>1, OthersStayOutside
  <1>7. ASSUME NEW g \in Files PROVE KeptIn(g)'
    <2>1. KeptIn(g)
      BY Zenon, <1>7 DEF FilesInv
    <2>2. CASE g # f
      BY Zenon, <1>3, <1>7, <2>1, <2>2 DEF KeptIn, OwnGeneration, Acknowledge
    <2>3. CASE g = f
      <3>1. f \notin spoiled => Value(slots[f]) = d
        BY Zenon, <1>1, <1>2, FoundInFile
      <3>2. Readable(d) /\ d.stamp >= d.stamp
        BY SMT, <1>2, ContentKinds
      <3> QED
        BY Zenon, <1>2, <1>3, <2>1, <2>3, <3>1, <3>2 DEF KeptIn, OwnGeneration, Acknowledge
    <2> QED
      BY Zenon, <2>2, <2>3
  <1>8. RoutesInv' /\ SequencesAreNotReused' /\ JournalInv' /\ ~misread'
    BY Zenon DEF Acknowledge, FilesInv, RoutesInv, SequencesAreNotReused, JournalInv, JournalValid
  <1>9. spoiled' = {} => \A q \in Processes : process'[q].result # "error"
    BY Zenon, <1>4 DEF Acknowledge, FilesInv, FilesTypes
  <1> QED
    BY Zenon, <1>5, <1>6, <1>7, <1>8, <1>9 DEF FilesInv

\* The progress of a rollout that is over is given up.
LEMMA RemoveProgressKeeps ==
    ASSUME FilesInv, NEW p \in Processes, RemoveProgress(p), UNCHANGED workload
    PROVE  FilesInv'
  <1> DEFINE f == process[p].file
  <1>1. /\ process[p] \in FileProcesses /\ Inside(p) /\ f \in Files /\ slots \in [Files -> StackSlots]
        /\ process[p].pc \in Holding /\ process[p].pc = "open" /\ process[p].op = "removeProgress"
    BY Zenon DEF RemoveProgress, FilesInv, FilesTypes, FileProcesses, StackSlots, Holding
  <1>2. f # RoutesFile /\ RoutesFile \in Files
    <2>1. process[p].generation \in 1 .. MaxEvents
      BY Zenon, <1>1, OpenGeneration
    <2> QED
      BY Zenon, <1>1, <2>1, FileOfOperation DEF Inside, RoutesFile, Files, Operations
  <1>3. CASE ~Recoverable(slots[f]) \/ Value(slots[f]) = Bad
    <2>1. Closed(p, "error") /\ UNCHANGED <<slots, misread, journal, durable, snapshots, writes, spoiled>>
      BY Zenon, <1>3 DEF RemoveProgress, Returns
    <2>2. spoiled # {} /\ ~misread'
      BY Zenon, <1>1, <1>3, <2>1, OnlySpoiledRefused DEF FilesInv
    <2> QED
      BY Zenon, <1>1, <2>1, <2>2, NothingShuffled, ReturningKeeps
  <1>4. CASE ~(~Recoverable(slots[f]) \/ Value(slots[f]) = Bad)
    <2>1. /\ slots' = [slots EXCEPT ![f] = [path |-> Absent, previous |-> Absent]]
          /\ durable' = [durable EXCEPT ![f] = 0] /\ Closed(p, "none")
          /\ UNCHANGED <<journal, snapshots, misread, writes, faults, spoiled>>
      BY Zenon, <1>4 DEF RemoveProgress
    <2> DEFINE nothing == [path |-> Absent, previous |-> Absent]
    <2>2. nothing \in StackSlots /\ nothing.path = Absent /\ nothing.previous = Absent
      BY Zenon, ContentKinds DEF StackSlots
    <2>3. /\ slots' \in [Files -> StackSlots] /\ slots'[f] = nothing
          /\ \A g \in Files \ {f} : slots'[g] = slots[g]
      BY Zenon, <1>1, <2>1, <2>2
    <2>4. durable' \in [Files -> Nat] /\ durable'[f] = 0 /\ \A g \in Files \ {f} : durable'[g] = durable[g]
      <3>1. 0 \in Nat
        BY Zenon
      <3> QED
        BY Zenon, <1>1, <2>1, <3>1 DEF FilesInv, FilesTypes
    <2> HIDE DEF nothing
    <2> DEFINE me == [Idle EXCEPT !.result = "none"]
    <2>5. process' = [process EXCEPT ![p] = me] /\ process'[p] = me /\ me \in FileProcesses
          /\ me.pc = "idle" /\ me.result = "none"
      BY Zenon, <2>1, IdleIs DEF Closed, FilesInv, FilesTypes
    <2> HIDE DEF me
    <2>6. FilesTypes'
      BY Zenon, <2>1, <2>3, <2>4, <2>5 DEF Closed, FilesInv, FilesTypes, StackSlots
    <2>7. ASSUME NEW q \in Processes PROVE Inside(q)'
      <3>1. CASE q = p
        BY Zenon, <2>5, <3>1 DEF Inside, Holding, Writing
      <3> QED
        BY Zenon, <1>1, <2>5, <2>7, <3>1, OthersStayOutside
    <2>8. ASSUME NEW g \in Files PROVE KeptIn(g)'
      <3>1. KeptIn(g)
        BY Zenon, <2>8 DEF FilesInv
      <3>2. CASE g # f
        BY Zenon, <2>1, <2>3, <2>4, <2>8, <3>1, <3>2 DEF KeptIn, OwnGeneration
      <3>3. CASE g = f
        <4>1. 0 <= writes /\ ~(0 > 0)
          BY SMT DEF FilesInv, FilesTypes
        <4> QED
          BY Zenon, <2>1, <2>2, <2>3, <2>4, <3>3, <4>1, ContentKinds DEF KeptIn, OwnGeneration
      <3> QED
        BY Zenon, <3>2, <3>3
    <2>9. RoutesInv' /\ SequencesAreNotReused' /\ JournalInv' /\ ~misread'
      BY Zenon, <1>2, <2>1, <2>3 DEF FilesInv, RoutesInv, SequencesAreNotReused, JournalInv, JournalValid
    <2>10. spoiled' = {} => \A q \in Processes : process'[q].result # "error"
      BY Zenon, <2>1, <2>5 DEF FilesInv, FilesTypes
    <2> QED
      BY Zenon, <2>6, <2>7, <2>8, <2>9, <2>10 DEF FilesInv
  <1> QED
    BY Zenon, <1>3, <1>4

\* A process is where it was when its file and what it knows of are.
LEMMA InsideStays ==
    ASSUME NEW q, Inside(q), process'[q] = process[q], slots'[process[q].file] = slots[process[q].file],
           spoiled \subseteq spoiled',
           UNCHANGED <<engineLock, journal, durable, snapshots, writes>>
    PROVE  Inside(q)'
  <1> DEFINE me == process[q]
             slot == slots[me.file]
  <1>1. \A d : Follows(d)' <=> Follows(d)
    BY Zenon DEF Follows
  <1>2. \A kind : NextEvent(kind)' = NextEvent(kind)
    BY Zenon DEF NextEvent
  <1>3. /\ me'.pc # "idle" => me'.op \in Operations /\ me'.generation # 0 /\ me'.file = FileOf(me'.op, me'.generation)
        /\ me'.pc \in Holding => engineLock' = q
        /\ me'.pc = "linking" => Len(journal') < MaxEvents
                                 /\ \E kind \in {"apply", "stop", "remove"} : me'.next = NextEvent(kind)'
    BY Zenon, <1>2 DEF Inside
  <1>4. me'.pc \in Writing =>
           /\ me'.next \in WholeDocuments
           /\ durable'[me'.file] < me'.next.stamp /\ me'.next.stamp <= writes'
           /\ OwnGeneration(me'.file, me'.next)
           /\ me'.op = "publish" <=> me'.file = RoutesFile
    BY Zenon DEF Inside
  <1>5. me'.pc \in {"staged", "aside"} /\ me'.op = "publish" => Follows(me.next)'
    BY Zenon, <1>1 DEF Inside
  <1>6. /\ me'.pc = "staged" => slot'.previous = Absent
        /\ me'.pc = "aside" => slot'.path = Absent /\ slot'.previous # Absent
    BY Zenon DEF Inside
  <1>7. /\ me'.pc = "installed" =>
              /\ slot'.path = me'.next \/ (slot'.path = Bad /\ me'.file \in spoiled')
              /\ slot'.previous # Absent
        /\ me'.pc = "synced" =>
              /\ slot'.path = me'.next \/ (slot'.path = Bad /\ me'.file \in spoiled')
              /\ slot'.previous = Absent
    BY Zenon DEF Inside
  <1> QED
    BY Zenon, <1>3, <1>4, <1>5, <1>6, <1>7 DEF Inside

\* A file that is spoiled from outside; a replacement under way goes on.
LEMMA DamageKeeps ==
    ASSUME FilesInv, Damage, UNCHANGED workload
    PROVE  FilesInv'
  <1>1. PICK f \in Files : /\ slots[f].path # Absent /\ slots' = [slots EXCEPT ![f].path = Bad]
                           /\ spoiled' = spoiled \cup {f}
    BY Zenon DEF Damage
  <1>2. UNCHANGED <<engineLock, journal, process, durable, snapshots, misread, writes>>
    BY Zenon DEF Damage
  <1>3. slots \in [Files -> StackSlots]
    BY Zenon DEF FilesInv, FilesTypes, StackSlots
  <1>4. /\ slots' \in [Files -> StackSlots] /\ slots'[f].path = Bad /\ slots'[f].previous = slots[f].previous
        /\ \A g \in Files \ {f} : slots'[g] = slots[g]
    BY Zenon, <1>1, <1>3, ContentKinds DEF StackSlots
  <1>5. FilesTypes'
    BY Zenon, <1>1, <1>2, <1>4 DEF FilesInv, FilesTypes, StackSlots
  <1>6. ASSUME NEW q \in Processes PROVE Inside(q)'
    <2>1. Inside(q) /\ process[q].file \in Files
      BY Zenon, <1>6 DEF FilesInv, FilesTypes, FileProcesses
    <2>2. CASE process[q].file # f
      BY Zenon, <1>1, <1>2, <1>4, <2>1, <2>2, InsideStays
    <2>3. CASE process[q].file = f
      <3>1. process[q].pc # "aside"
        BY Zenon, <1>1, <2>1, <2>3 DEF Inside
      <3> QED
        BY Zenon, <1>1, <1>2, <1>4, <2>1, <2>3, <3>1 DEF Inside, Follows, OwnGeneration, NextEvent
    <2> QED
      BY Zenon, <2>2, <2>3
  <1>7. ASSUME NEW g \in Files PROVE KeptIn(g)'
    <2>1. KeptIn(g)
      BY Zenon, <1>7 DEF FilesInv
    <2>2. CASE g # f
      BY Zenon, <1>1, <1>2, <1>4, <1>7, <2>1, <2>2 DEF KeptIn, OwnGeneration
    <2>3. CASE g = f
      BY Zenon, <1>1, <1>2, <1>4, <2>1, <2>3, ContentKinds DEF KeptIn, OwnGeneration
    <2> QED
      BY Zenon, <2>2, <2>3
  <1>8. RoutesInv'
    <2>0. RoutesInv /\ RoutesFile \in Files
      BY Zenon DEF FilesInv, RoutesFile, Files
    <2>1. CASE f # RoutesFile
      BY Zenon, <1>2, <1>4, <2>0, <2>1 DEF RoutesInv
    <2>2. CASE f = RoutesFile
      <3>1. Value(slots'[RoutesFile]) = Bad
        BY Zenon, <1>4, <2>2, FoundInFile, ContentKinds
      <3>2. ~Readable(Bad)
        BY Zenon, ContentKinds
      <3> QED
        BY Zenon, <1>2, <2>0, <3>1, <3>2 DEF RoutesInv
    <2> QED
      BY Zenon, <2>1, <2>2
  <1>9. SequencesAreNotReused' /\ JournalInv' /\ ~misread' /\ spoiled' # {}
    BY Zenon, <1>1, <1>2 DEF FilesInv, SequencesAreNotReused, JournalInv, JournalValid
  <1> QED
    BY Zenon, <1>5, <1>6, <1>7, <1>8, <1>9 DEF FilesInv

\* A process that comes for the lock, gives up or dies.
LEMMA OutsideStepKeeps ==
    ASSUME FilesInv, NEW p \in Processes, NEW me \in FileProcesses, process' = [process EXCEPT ![p] = me],
           Inside(p)', me.result # "error" \/ spoiled # {}, engineLock' \in Processes \cup {Nobody},
           \A q \in Processes \ {p} : engineLock = q => engineLock' = q,
           UNCHANGED <<slots, journal, durable, snapshots, spoiled, workload, misread, writes>>
    PROVE  FilesInv'
  <1>1. FilesTypes'
    BY Zenon DEF FilesInv, FilesTypes
  <1>2. ASSUME NEW q \in Processes, q # p PROVE Inside(q)'
    <2>1. process'[q] = process[q] /\ Inside(q)
      BY Zenon, <1>2 DEF FilesInv, FilesTypes
    <2>2. process[q].pc \in Holding => engineLock' = q
      BY Zenon, <1>2, <2>1 DEF Inside
    <2> QED
      <3>1. CASE process[q].pc \in Holding
        BY Zenon, <2>1, <2>2, <3>1, InsideStays DEF Inside
      <3>2. CASE process[q].pc \notin Holding
        <4>1. process[q].pc \notin Writing /\ process[q].pc \notin {"linking", "staged", "aside", "installed", "synced"}
          BY Zenon, <3>2 DEF Holding, Writing
        <4> QED
          BY Zenon, <2>1, <3>2, <4>1 DEF Inside
      <3> QED
        BY Zenon, <3>1, <3>2
  <1>3. \A f \in Files : KeptIn(f)'
    BY Zenon DEF FilesInv, KeptIn, OwnGeneration
  <1>4. RoutesInv' /\ SequencesAreNotReused' /\ JournalInv' /\ ~misread'
    BY Zenon DEF FilesInv, RoutesInv, SequencesAreNotReused, JournalInv, JournalValid
  <1>5. spoiled' = {} => \A q \in Processes : process'[q].result # "error"
    BY Zenon DEF FilesInv, FilesTypes
  <1> QED
    BY Zenon, <1>1, <1>2, <1>3, <1>4, <1>5 DEF FilesInv

LEMMA BeginKeeps ==
    ASSUME FilesInv, NEW p \in Processes, Begin(p), UNCHANGED workload
    PROVE  FilesInv'
  <1>1. PICK op \in workload, g \in 1 .. Len(journal) :
           process' = [process EXCEPT ![p] =
                         [pc |-> "opening", op |-> op, file |-> FileOf(op, g), generation |-> g,
                          next |-> Absent, tries |-> 0, result |-> "none"]]
    BY Zenon DEF Begin
  <1>2. op \in Operations /\ g \in 1 .. MaxEvents /\ g # 0 /\ g \in 0 .. MaxEvents
    BY SMT, FilesAssumption DEF FilesInv, FilesTypes, JournalInv
  <1>3. FileOf(op, g) \in Files /\ Absent \in Carried /\ "opening" \in Stages /\ "none" \in Results
    BY Zenon, <1>2, FileOfOperation, ContentKinds DEF Carried, Stages, Results
  <1> DEFINE me == [pc |-> "opening", op |-> op, file |-> FileOf(op, g), generation |-> g, next |-> Absent,
                    tries |-> 0, result |-> "none"]
  <1>5. me \in FileProcesses
    BY Zenon, <1>2, <1>3 DEF FileProcesses
  <1>6. /\ me.pc = "opening" /\ me.op = op /\ me.generation = g /\ me.file = FileOf(op, g)
        /\ me.result = "none"
    BY Zenon
  <1>7. process' = [process EXCEPT ![p] = me] /\ process'[p] = me
    BY Zenon, <1>1 DEF FilesInv, FilesTypes
  <1> HIDE DEF me
  <1>8. Inside(p)'
    BY Zenon, <1>2, <1>6, <1>7 DEF Inside, Holding, Writing
  <1>9. /\ engineLock' \in Processes \cup {Nobody} /\ engineLock' = engineLock
        /\ UNCHANGED <<slots, journal, durable, snapshots, spoiled, misread, writes>>
    BY Zenon DEF Begin, FilesInv, FilesTypes
  <1> QED
    BY Zenon, <1>5, <1>6, <1>7, <1>8, <1>9, OutsideStepKeeps

LEMMA TryLockKeeps ==
    ASSUME FilesInv, NEW p \in Processes, TryLock(p), UNCHANGED workload
    PROVE  FilesInv'
  <1>1. /\ process[p] \in FileProcesses /\ Inside(p) /\ process[p].pc = "opening"
        /\ UNCHANGED <<slots, journal, durable, snapshots, spoiled, misread, writes>>
        /\ engineLock \in Processes \cup {Nobody} /\ process \in [Processes -> FileProcesses]
    BY Zenon DEF TryLock, FilesInv, FilesTypes
  <1>2. CASE engineLock = Nobody
    <2>1. engineLock' = p /\ process' = [process EXCEPT ![p].pc = "open"]
      BY Zenon, <1>2 DEF TryLock
    <2> DEFINE me == [process[p] EXCEPT !.pc = "open"]
    <2>2. process' = [process EXCEPT ![p] = me] /\ process'[p] = me
      BY Zenon, <1>1, <2>1
    <2>3. "open" \in Stages
      BY Zenon DEF Stages, Holding
    <2>4. /\ me \in FileProcesses /\ me.pc = "open" /\ me.op = process[p].op /\ me.file = process[p].file
          /\ me.generation = process[p].generation /\ me.result = process[p].result
      BY Zenon, <1>1, <2>3 DEF FileProcesses
    <2> HIDE DEF me
    <2>5. Inside(p)'
      BY Zenon, <1>1, <2>1, <2>2, <2>4 DEF Inside, Writing
    <2>6. me.result # "error" \/ spoiled # {}
      BY Zenon, <2>4 DEF FilesInv
    <2>7. engineLock' \in Processes \cup {Nobody} /\ \A q \in Processes \ {p} : engineLock # q
      BY Zenon, <1>2, <2>1, FilesAssumption
    <2> QED
      BY Zenon, <1>1, <2>2, <2>4, <2>5, <2>6, <2>7, OutsideStepKeeps
  <1>3. CASE engineLock # Nobody
    <2>1. /\ engineLock' = engineLock
          /\ \/ process' = [process EXCEPT ![p] = Idle]
             \/ process' = [process EXCEPT ![p].tries = process[p].tries + 1]
      BY Zenon, <1>1, <1>3 DEF TryLock
    <2>2. CASE process' = [process EXCEPT ![p] = Idle]
      <3>1. Idle \in FileProcesses /\ Idle.pc = "idle" /\ Idle.result = "none"
        BY Zenon, IdleIs
      <3>2. Inside(p)'
        BY Zenon, <1>1, <2>2, <3>1 DEF Inside, Holding, Writing
      <3> QED
        BY Zenon, <1>1, <2>1, <2>2, <3>1, <3>2, OutsideStepKeeps
    <2>3. CASE process' = [process EXCEPT ![p].tries = process[p].tries + 1]
      <3> DEFINE me == [process[p] EXCEPT !.tries = process[p].tries + 1]
      <3>1. /\ me \in FileProcesses /\ me.pc = "opening" /\ me.op = process[p].op /\ me.file = process[p].file
            /\ me.generation = process[p].generation /\ me.result = process[p].result
        BY SMT, <1>1 DEF FileProcesses
      <3>2. process' = [process EXCEPT ![p] = me] /\ process'[p] = me
        BY Zenon, <1>1, <2>3
      <3> HIDE DEF me
      <3>3. Inside(p)'
        BY Zenon, <1>1, <3>1, <3>2 DEF Inside, Holding, Writing
      <3>4. me.result # "error" \/ spoiled # {}
        BY Zenon, <3>1 DEF FilesInv
      <3> QED
        BY Zenon, <1>1, <2>1, <3>1, <3>2, <3>3, <3>4, OutsideStepKeeps
    <2> QED
      BY Zenon, <2>1, <2>2, <2>3
  <1> QED
    BY Zenon, <1>2, <1>3

LEMMA DyingKeeps ==
    ASSUME FilesInv, NEW p \in Processes, ProcessDies(p), UNCHANGED workload
    PROVE  FilesInv'
  <1>1. Idle \in FileProcesses /\ Idle.pc = "idle" /\ Idle.result = "none"
    BY Zenon, IdleIs
  <1>2. process' = [process EXCEPT ![p] = Idle] /\ process'[p] = Idle
    BY Zenon DEF ProcessDies, FilesInv, FilesTypes
  <1>3. Inside(p)'
    BY Zenon, <1>1, <1>2 DEF Inside, Holding, Writing
  <1>4. /\ engineLock' \in Processes \cup {Nobody}
        /\ \A q \in Processes \ {p} : engineLock = q => engineLock' = q
        /\ UNCHANGED <<slots, journal, durable, snapshots, spoiled, misread, writes>>
    BY Zenon DEF ProcessDies, FilesInv, FilesTypes
  <1> QED
    BY Zenon, <1>1, <1>2, <1>3, <1>4, OutsideStepKeeps

\* An operation that returns without having touched a file.
LEMMA LeavingKeeps ==
    ASSUME FilesInv, NEW p \in Processes, process[p].pc \in Holding, NEW r \in {"none", "error"},
           Returns(p, r), UNCHANGED <<slots, misread, workload>>, spoiled = {} => r = "none"
    PROVE  FilesInv'
  <1>1. Closed(p, r) /\ UNCHANGED <<journal, durable, snapshots, spoiled, workload, writes>> /\ ~misread'
    BY Zenon DEF Returns, FilesInv
  <1> QED
    BY Zenon, <1>1, NothingShuffled, ReturningKeeps

\* What a process that is in the store works on.
LEMMA WorkingOn ==
    ASSUME FilesInv, NEW p \in Processes, process[p].pc \in Holding
    PROVE  LET me == process[p] IN
           /\ me \in FileProcesses /\ Inside(p) /\ me.file \in Files /\ me.op \in Operations
           /\ me.generation \in 1 .. MaxEvents /\ me.generation \in Nat
           /\ me.file = FileOf(me.op, me.generation)
           /\ me.file[1] = "runtime" => me.file[2] = me.generation
           /\ me.file = RoutesFile <=> me.op \in {"publish", "readRoutes", "append"}
           /\ slots[me.file] \in StackSlots
  <1>1. process[p] \in FileProcesses /\ Inside(p) /\ process[p].file \in Files /\ slots[process[p].file] \in StackSlots
    BY Zenon DEF FilesInv, FilesTypes, FileProcesses, StackSlots
  <1>2. process[p].pc # "idle"
    BY Zenon DEF Holding, Writing
  <1>3. /\ process[p].op \in Operations /\ process[p].generation # 0
        /\ process[p].file = FileOf(process[p].op, process[p].generation)
    BY Zenon, <1>1, <1>2 DEF Inside
  <1>4. process[p].generation \in 0 .. MaxEvents
    BY Zenon, <1>1 DEF FileProcesses
  <1>5. process[p].generation \in 1 .. MaxEvents /\ process[p].generation \in Nat
    BY SMT, <1>3, <1>4, FilesAssumption
  <1> QED
    BY Zenon, <1>1, <1>3, <1>5, FileOfOperation

LEMMA CurrentIs ==
    ASSUME FilesInv
    PROVE  Current \in Nat
  <1>1. journal \in Seq(Events) /\ Len(journal) \in 1 .. MaxEvents
    BY Zenon DEF FilesInv, JournalInv
  <1>2. journal[Len(journal)] \in Events
    BY SMT, <1>1, FilesAssumption
  <1> QED
    BY Zenon, <1>2 DEF Current, Events

\* save_runtime_status and save_rollout_progress, after their checks.
LEMMA RecoverAndStageKeeps ==
    ASSUME FilesInv, NEW p \in Processes, process[p].pc = "open",
           process[p].op \in {"save", "saveLegacy", "saveProgress"},
           RecoverAndStage(p), UNCHANGED workload
    PROVE  FilesInv'
  <1> DEFINE f == process[p].file
             d == Doc(writes + 1, process[p].generation, 0, 0)
  <1>1. process[p].pc \in Holding
    BY Zenon DEF Holding
  <1>2. f \in Files /\ process[p].generation \in Nat /\ (f[1] = "runtime" => f[2] = process[p].generation)
    BY Zenon, <1>1, WorkingOn
  <1>3. CASE ~Recoverable(slots[f])
    <2>1. Returns(p, "error") /\ UNCHANGED <<slots, misread>>
      BY Zenon, <1>3 DEF RecoverAndStage
    <2>2. spoiled # {}
      BY Zenon, <1>2, <1>3, OnlySpoiledRefused
    <2> QED
      BY Zenon, <1>1, <2>1, <2>2, LeavingKeeps
  <1>4. CASE Recoverable(slots[f])
    <2>1. /\ slots' = [slots EXCEPT ![f] = Recovered(@)] /\ Stage(p, d)
          /\ UNCHANGED <<engineLock, journal, durable, snapshots, misread, spoiled>>
      BY Zenon, <1>4 DEF RecoverAndStage
    <2>2. d \in WholeDocuments /\ d.stamp = writes + 1 /\ d.generation = process[p].generation
      BY SMT, <1>2 DEF Doc, WholeDocuments, FilesInv, FilesTypes
    <2>3. OwnGeneration(f, d)
      BY Zenon, <1>2, <2>2 DEF OwnGeneration
    <2>4. Shuffled(slots') /\ slots'[f].previous = Absent
      BY Zenon, <1>2, <2>1, OneRecoveryShuffles
    <2> HIDE DEF d
    <2> QED
      BY Zenon, <2>1, <2>2, <2>3, <2>4, StagingKeeps
  <1> QED
    BY Zenon, <1>3, <1>4

\* publish_routing_snapshot_inner: the next table follows all that were in
\* place, in its epoch or in a new one.
LEMMA PublishKeeps ==
    ASSUME FilesInv, NEW p \in Processes, PublishRoutes(p), UNCHANGED workload
    PROVE  FilesInv'
  <1> DEFINE f == process[p].file
             previous == PreviousRoutes(slots[f])
             next == IF previous = Absent THEN Doc(writes + 1, Current, FreshEpoch, 1)
                     ELSE Doc(writes + 1, Current, previous.epoch, previous.sequence + 1)
  <1>1. process[p].pc = "open" /\ process[p].op = "publish" /\ process[p].pc \in Holding
    BY Zenon DEF PublishRoutes, Holding
  <1>2. f = RoutesFile /\ f \in Files /\ slots[f] \in StackSlots
    BY Zenon, <1>1, WorkingOn
  <1>3. slots' = [slots EXCEPT ![f] = ResetOrRecovered(@)]
    BY Zenon DEF PublishRoutes
  <1>4. Shuffled(slots') /\ slots'[f].previous = Absent
    <2>1. CASE Recoverable(slots[f]) /\ Value(slots[f]) # Bad
      <3>1. slots' = [slots EXCEPT ![f] = Recovered(@)]
        BY Zenon, <1>3, <2>1 DEF ResetOrRecovered
      <3> QED
        BY Zenon, <1>2, <3>1, OneRecoveryShuffles
    <2>2. CASE ~(Recoverable(slots[f]) /\ Value(slots[f]) # Bad)
      <3> DEFINE nothing == [path |-> Absent, previous |-> Absent]
      <3>1. slots' = [slots EXCEPT ![f] = nothing]
        BY Zenon, <1>3, <2>2 DEF ResetOrRecovered
      <3>2. f \in spoiled
        BY Zenon, <1>2, <2>2, OnlySpoiledRefused
      <3>3. nothing \in StackSlots /\ nothing.path = Absent /\ nothing.previous = Absent
        BY Zenon, ContentKinds DEF StackSlots
      <3>4. Value(nothing) = Absent
        BY Zenon, <3>3, FoundInFile
      <3> HIDE DEF nothing
      <3>5. /\ slots' \in [Files -> StackSlots] /\ slots'[f] = nothing
            /\ \A g \in Files \ {f} : slots'[g] = slots[g]
        BY Zenon, <1>2, <3>1, <3>3 DEF FilesInv, FilesTypes, StackSlots
      <3> QED
        BY Zenon, <3>2, <3>3, <3>4, <3>5 DEF Shuffled
    <2> QED
      BY Zenon, <2>1, <2>2
  <1>5. CASE previous # Absent /\ Returns(p, "none") /\ UNCHANGED misread
    <2>1. Closed(p, "none") /\ UNCHANGED <<journal, durable, snapshots, spoiled, workload, writes>> /\ ~misread'
      BY Zenon, <1>5 DEF Returns, FilesInv
    <2> QED
      BY Zenon, <1>1, <1>4, <2>1, ReturningKeeps
  <1>6. CASE Stage(p, next) /\ UNCHANGED <<engineLock, journal, durable, snapshots, misread, spoiled>>
    <2>1. writes \in Nat /\ snapshots \subseteq WholeDocuments /\ Current \in Nat /\ RoutesInv
      BY Zenon, CurrentIs DEF FilesInv, FilesTypes
    <2>2. /\ next \in WholeDocuments /\ next.stamp = writes + 1 /\ next.epoch <= writes + 1
          /\ \A s \in snapshots : s.epoch = next.epoch => s.sequence < next.sequence
      <3>1. CASE previous = Absent
        <4>1. next = Doc(writes + 1, Current, writes + 1, 1)
          BY Zenon, <3>1 DEF FreshEpoch
        <4>2. \A s \in snapshots : s.epoch <= writes /\ s.epoch \in Nat
          BY Zenon, <2>1 DEF RoutesInv, WholeDocuments
        <4> HIDE DEF next
        <4> QED
          BY SMT, <2>1, <4>1, <4>2 DEF Doc, WholeDocuments
      <3>2. CASE previous # Absent
        <4>1. previous = Value(slots[RoutesFile]) /\ previous # Bad
          BY Zenon, <1>2, <3>2, ContentKinds DEF PreviousRoutes
        <4>2. Readable(previous) /\ previous \in WholeDocuments
          BY Zenon, <1>2, <3>2, <4>1, FoundInFile, ContentKinds DEF Contents
        <4>3. /\ previous \in snapshots /\ previous.epoch <= writes
              /\ \A s \in snapshots : s.epoch = previous.epoch => s.sequence <= previous.sequence
          BY Zenon, <2>1, <4>1, <4>2 DEF RoutesInv
        <4>4. next = Doc(writes + 1, Current, previous.epoch, previous.sequence + 1)
          BY Zenon, <3>2
        <4> HIDE DEF next, previous
        <4>5. /\ next \in WholeDocuments /\ next.stamp = writes + 1 /\ next.epoch = previous.epoch
              /\ next.sequence = previous.sequence + 1
          BY SMT, <2>1, <4>2, <4>4 DEF Doc, WholeDocuments
        <4>6. \A s \in snapshots : s.sequence \in Nat
          BY Zenon, <2>1 DEF WholeDocuments
        <4>7. previous.epoch \in Nat /\ previous.sequence \in Nat
          BY Zenon, <4>2 DEF WholeDocuments
        <4> QED
          BY SMT, <2>1, <4>3, <4>5, <4>6, <4>7
      <3> QED
        BY Zenon, <3>1, <3>2
    <2>3. OwnGeneration(f, next)
      BY SMT, <1>2 DEF OwnGeneration, RoutesFile
    <2> HIDE DEF next
    <2> QED
      BY Zenon, <1>1, <1>4, <1>6, <2>2, <2>3, StagingKeeps
  <1> QED
    BY Zenon, <1>5, <1>6 DEF PublishRoutes

\* runtime_status: the status found is that of the generation, in its own file
\* or in the legacy one.
LEMMA ReadStatusKeeps ==
    ASSUME FilesInv, NEW p \in Processes, ReadStatus(p), UNCHANGED workload
    PROVE  FilesInv'
  <1> DEFINE own == process[p].file
             old == <<"legacy", 0>>
             ownFirst == Recoverable(slots[own]) /\ Value(slots[own]) # Absent
             found == IF ownFirst THEN Value(slots[own]) ELSE LegacyStatus(Recovered(slots[old]))
             opened == IF ownFirst THEN {own} ELSE {own, old}
  <1>1. process[p].pc = "open" /\ process[p].op = "read" /\ process[p].pc \in Holding
    BY Zenon DEF ReadStatus, Holding
  <1>2. /\ own \in Files /\ slots[own] \in StackSlots /\ own[1] = "runtime" /\ own[2] = process[p].generation
        /\ old \in Files /\ slots[old] \in StackSlots
    <2>1. own = FileOf("read", process[p].generation) /\ own \in Files /\ slots[own] \in StackSlots
      BY Zenon, <1>1, WorkingOn
    <2>2. FileOf("read", process[p].generation) = <<"runtime", process[p].generation>>
      BY Zenon DEF FileOf
    <2>3. <<"runtime", process[p].generation>>[1] = "runtime"
          /\ <<"runtime", process[p].generation>>[2] = process[p].generation
      BY Zenon
    <2>4. old \in Files
      BY Zenon DEF Files
    <2> QED
      BY Zenon, <2>1, <2>2, <2>3, <2>4 DEF FilesInv, FilesTypes, StackSlots
  <1> HIDE DEF own, old
  <1>3. opened \in SUBSET Files
    BY Zenon, <1>2
  <1>4. CASE ~Authorized(p)
    <2>1. Returns(p, "none") /\ UNCHANGED <<slots, misread>>
      BY Zenon, <1>4 DEF ReadStatus
    <2> QED
      BY Zenon, <1>1, <2>1, LeavingKeeps
  <1>5. CASE Authorized(p) /\ \E f \in opened : ~Recoverable(slots[f])
    <2>1. Returns(p, "error") /\ UNCHANGED <<slots, misread>>
      BY Zenon, <1>5 DEF ReadStatus, own, old
    <2>2. spoiled # {}
      BY Zenon, <1>3, <1>5, OnlySpoiledRefused
    <2> QED
      BY Zenon, <1>1, <2>1, <2>2, LeavingKeeps
  <1>6. CASE Authorized(p) /\ ~\E f \in opened : ~Recoverable(slots[f])
    <2> DEFINE result == IF found = Bad THEN "error" ELSE "none"
    <2>1. /\ slots' = [f \in Files |-> IF f \in opened THEN Recovered(slots[f]) ELSE slots[f]]
          /\ misread' = (misread \/ (Readable(found) /\ found.generation # Current))
          /\ Closed(p, result) /\ UNCHANGED <<journal, durable, snapshots, spoiled, workload, writes>>
      BY Zenon, <1>6 DEF ReadStatus, Returns, own, old
    <2>2. Shuffled(slots')
      BY Zenon, <1>3, <2>1, RecoveryShuffles
    <2>3. /\ Readable(found) => found.generation = Current
          /\ spoiled = {} => found # Bad
      <3>1. CASE ownFirst
        <4>1. found = Value(slots[own]) /\ Value(slots[own]) \in {slots[own].path, slots[own].previous}
          BY Zenon, <1>2, <3>1, FoundInFile
        <4>2. OwnGeneration(own, slots[own].path) /\ OwnGeneration(own, slots[own].previous)
          BY Zenon, <1>2 DEF FilesInv, KeptIn
        <4>3. Readable(found) => found \in WholeDocuments
          BY Zenon, <1>2, <4>1, FoundInFile, ContentKinds
        <4>4. process[p].generation = Current
          BY Zenon, <1>6 DEF Authorized
        <4>5. spoiled = {} => Value(slots[own]) # Bad
          BY Zenon, <1>2, OnlySpoiledRefused
        <4> HIDE DEF found
        <4> QED
          BY Zenon, <1>2, <4>1, <4>2, <4>3, <4>4, <4>5 DEF OwnGeneration
      <3>2. CASE ~ownFirst
        <4>1. found = LegacyStatus(Recovered(slots[old]))
          BY Zenon, <3>2
        <4>2. Recovered(slots[old]).path = Value(slots[old])
          BY Zenon DEF Value
        <4>3. \/ found = Absent
              \/ found = Value(slots[old]) /\ (Readable(found) => found.generation = Current)
          BY Zenon, <4>1, <4>2 DEF LegacyStatus
        <4>4. spoiled = {} => Value(slots[old]) # Bad
          BY Zenon, <1>2, OnlySpoiledRefused
        <4> HIDE DEF found
        <4> QED
          BY Zenon, <4>3, <4>4, ContentKinds
      <3> QED
        BY Zenon, <3>1, <3>2
    <2>4. ~misread' /\ result \in {"none", "error"} /\ (spoiled = {} => result = "none")
      BY Zenon, <2>1, <2>3 DEF FilesInv
    <2> HIDE DEF result
    <2> QED
      BY Zenon, <1>1, <2>1, <2>2, <2>4, ReturningKeeps
  <1> QED
    BY Zenon, <1>4, <1>5, <1>6

LEMMA ReadRoutesKeeps ==
    ASSUME FilesInv, NEW p \in Processes, ReadRoutes(p), UNCHANGED workload
    PROVE  FilesInv'
  <1> DEFINE f == process[p].file
             result == IF Value(slots[f]) = Bad THEN "error" ELSE "none"
  <1>1. process[p].pc \in Holding
    BY Zenon DEF ReadRoutes, Holding
  <1>2. f \in Files
    BY Zenon, <1>1, WorkingOn
  <1>3. CASE ~Recoverable(slots[f])
    <2>1. Returns(p, "error") /\ UNCHANGED <<slots, misread>>
      BY Zenon, <1>3 DEF ReadRoutes
    <2>2. spoiled # {}
      BY Zenon, <1>2, <1>3, OnlySpoiledRefused
    <2> QED
      BY Zenon, <1>1, <2>1, <2>2, LeavingKeeps
  <1>4. CASE Recoverable(slots[f])
    <2>1. /\ slots' = [slots EXCEPT ![f] = Recovered(@)] /\ Closed(p, result)
          /\ UNCHANGED <<journal, durable, snapshots, spoiled, workload, writes>> /\ ~misread'
      BY Zenon, <1>4 DEF ReadRoutes, Returns, FilesInv
    <2>2. Shuffled(slots')
      BY Zenon, <1>2, <2>1, OneRecoveryShuffles
    <2>3. result \in {"none", "error"} /\ (spoiled = {} => result = "none")
      BY Zenon, <1>2, OnlySpoiledRefused
    <2> HIDE DEF result
    <2> QED
      BY Zenon, <1>1, <2>1, <2>2, <2>3, ReturningKeeps
  <1> QED
    BY Zenon, <1>3, <1>4

\* apply, stop and remove: the event that is prepared continues the journal.
LEMMA AppendKeeps ==
    ASSUME FilesInv, NEW p \in Processes, AppendEvent(p), UNCHANGED workload
    PROVE  FilesInv'
  <1>1. /\ process[p].pc = "open" /\ process[p].pc \in Holding /\ JournalValid
        /\ process[p] \in FileProcesses /\ Inside(p)
    BY Zenon DEF AppendEvent, Holding, FilesInv, FilesTypes, JournalInv
  <1>2. CASE Returns(p, "none") /\ UNCHANGED <<slots, misread>>
    BY Zenon, <1>1, <1>2, LeavingKeeps
  <1>3. ASSUME NEW kind \in {"apply", "stop", "remove"},
               process' = [process EXCEPT ![p] = [@ EXCEPT !.pc = "linking", !.next = NextEvent(kind)]],
               UNCHANGED <<engineLock, journal, slots, durable, snapshots, misread, writes, faults, spoiled>>,
               Len(journal) < MaxEvents
        PROVE  FilesInv'
    <2> DEFINE event == NextEvent(kind)
    <2>1. event \in Events
      BY SMT, <1>3 DEF NextEvent, Events, FilesInv, JournalInv
    <2>2. "linking" \in Stages /\ event \in Carried
      BY Zenon, <2>1 DEF Stages, Holding, Carried
    <2> DEFINE me == Written(process[p], "linking", event)
    <2>3. process' = [process EXCEPT ![p] = me] /\ process'[p] = me
      BY Zenon, <1>3 DEF Written, FilesInv, FilesTypes
    <2>4. event' = event
      BY Zenon, <1>3 DEF NextEvent
    <2> HIDE DEF event
    <2>5. /\ me \in FileProcesses /\ me.pc = "linking" /\ me.next = event /\ me.op = process[p].op
          /\ me.file = process[p].file /\ me.generation = process[p].generation /\ me.result = process[p].result
      <3>1. me = Written(process[p], "linking", event)
        BY Zenon
      <3>2. process[p] \in FileProcesses
        BY Zenon, <1>1
      <3> HIDE DEF me
      <3> QED
        BY ONLY <2>2, <3>1, <3>2, WrittenProcess, SMT
    <2> HIDE DEF me
    <2>6. \E k \in {"apply", "stop", "remove"} : event = NextEvent(k)'
      BY Zenon, <1>3, <2>4 DEF event
    <2>7. Inside(p)'
      <3>1. /\ me.op \in Operations /\ me.generation # 0 /\ me.file = FileOf(me.op, me.generation)
            /\ engineLock' = p
        BY Zenon, <1>1, <1>3, <2>5 DEF Inside, Holding
      <3> QED
        BY Zenon, <1>3, <2>3, <2>5, <2>6, <3>1 DEF Inside, Writing
    <2>8. ~misread' /\ engineLock' \in Processes \cup {Nobody} /\ (spoiled = {} => me.result # "error")
      BY Zenon, <1>3, <2>5 DEF FilesInv, FilesTypes
    <2>9. writes' \in Nat /\ writes <= writes'
      BY SMTT(30), <1>3 DEF FilesInv, FilesTypes
    <2> QED
      BY Zenon, <1>1, <1>3, <2>3, <2>5, <2>7, <2>8, <2>9, NothingShuffled, StoreStepKeeps
  <1>4. ~(Len(journal) >= MaxEvents) => Len(journal) < MaxEvents
    BY SMT, FilesAssumption DEF FilesInv, JournalInv
  <1> QED
    BY Zenon, <1>1, <1>2, <1>3, <1>4 DEF AppendEvent

LEMMA LenIsNatural ==
    ASSUME NEW S, NEW s \in Seq(S)
    PROVE  Len(s) \in Nat
  OBVIOUS

\* write_new_atomic: the event that is linked is the next of the journal.
LEMMA LinkKeeps ==
    ASSUME FilesInv, NEW p \in Processes, LinkEvent(p), UNCHANGED workload
    PROVE  FilesInv'
  <1>1. /\ process[p].pc = "linking" /\ process[p].pc \in Holding /\ process[p] \in FileProcesses /\ Inside(p)
        /\ journal \in Seq(Events) /\ Len(journal) \in 1 .. MaxEvents /\ JournalValid
    BY Zenon DEF LinkEvent, Holding, FilesInv, FilesTypes, JournalInv
  <1>2. PICK kind \in {"apply", "stop", "remove"} : process[p].next = NextEvent(kind)
    BY Zenon, <1>1 DEF Inside
  <1> DEFINE event == process[p].next
  <1>3. event \in Events /\ event.revision = Len(journal) + 1 /\ event.previous = Len(journal)
    BY SMTT(30), <1>1, <1>2 DEF NextEvent, Events
  <1>4. /\ journal' = Append(journal, event) /\ Closed(p, "none")
        /\ UNCHANGED <<durable, snapshots, misread, writes, spoiled, slots>>
    BY Zenon, <1>3 DEF LinkEvent
  <1> HIDE DEF event
  <1>5. JournalInv'
    <2>0. journal \in Seq(Events) /\ event \in Events /\ journal' = Append(journal, event)
      BY Zenon, <1>1, <1>3, <1>4
    <2>1. journal' \in Seq(Events) /\ Len(journal') = Len(journal) + 1
      BY ONLY <2>0, SMT
    <2>2. Len(journal) < MaxEvents
      BY Zenon, <1>1 DEF Inside
    <2>3. Len(journal') \in 1 .. MaxEvents
      BY SMTT(30), <1>1, <2>1, <2>2, FilesAssumption
    <2>4. ASSUME NEW i \in DOMAIN journal' PROVE journal'[i].revision = i /\ journal'[i].previous = i - 1
      <3>1. i \in 1 .. Len(journal) + 1
        BY SMTT(30), <2>1, <2>4
      <3>2. CASE i = Len(journal) + 1
        <4>1. journal' = Append(journal, event) /\ journal \in Seq(Events)
          BY Zenon, <1>1, <1>4
        <4>2. journal'[i] = event
          BY ONLY <3>2, <4>1, SMT
        <4> QED
          BY SMT, <1>1, <1>3, <3>2, <4>2
      <3>3. CASE i # Len(journal) + 1
        <4>1. i \in DOMAIN journal /\ journal'[i] = journal[i]
          <5>1. Len(journal) \in Nat
            BY Zenon, <2>0, LenIsNatural
          <5>2. i \in 1 .. Len(journal)
            BY ONLY <3>1, <3>3, <5>1, SMTT(30)
          <5>3. i \in DOMAIN journal /\ Append(journal, event)[i] = journal[i]
            BY ONLY <2>0, <5>2, SMT
          <5> QED
            BY Zenon, <2>0, <5>3
        <4> QED
          BY Zenon, <1>1, <4>1 DEF JournalValid
      <3> QED
        BY Zenon, <3>2, <3>3
    <2> QED
      BY Zenon, <2>1, <2>3, <2>4 DEF JournalInv, JournalValid
  <1> DEFINE me == [Idle EXCEPT !.result = "none"]
  <1>6. process' = [process EXCEPT ![p] = me] /\ process'[p] = me /\ me \in FileProcesses
        /\ me.pc = "idle" /\ me.result = "none"
    BY Zenon, <1>4, IdleIs DEF Closed, FilesInv, FilesTypes
  <1> HIDE DEF me
  <1>7. FilesTypes'
    BY Zenon, <1>4, <1>6 DEF Closed, FilesInv, FilesTypes
  <1>8. ASSUME NEW q \in Processes PROVE Inside(q)'
    <2>1. CASE q = p
      BY Zenon, <1>6, <2>1 DEF Inside, Holding, Writing
    <2> QED
      BY Zenon, <1>1, <1>6, <1>8, <2>1, OthersStayOutside
  <1>9. (\A f \in Files : KeptIn(f)') /\ RoutesInv' /\ SequencesAreNotReused' /\ ~misread'
    BY Zenon, <1>4 DEF FilesInv, KeptIn, OwnGeneration, RoutesInv, SequencesAreNotReused
  <1>10. spoiled' = {} => \A q \in Processes : process'[q].result # "error"
    BY Zenon, <1>4, <1>6 DEF FilesInv, FilesTypes
  <1> QED
    BY Zenon, <1>5, <1>7, <1>8, <1>9, <1>10 DEF FilesInv

\* write_replace_atomic, one rename after the other.
LEMMA ReplaceKeeps ==
    ASSUME FilesInv, NEW p \in Processes, ReplaceDocument(p), UNCHANGED workload
    PROVE  FilesInv'
  <1> DEFINE f == process[p].file
  <1>1. process[p].pc = "staged" /\ process[p].pc \in Holding /\ process[p].pc \in Writing /\ "aside" \in Writing
    BY Zenon DEF ReplaceDocument, Holding, Writing
  <1>2. f \in Files /\ slots[f] \in StackSlots /\ Inside(p) /\ slots[f].previous = Absent
    BY Zenon, <1>1, WorkingOn DEF Inside
  <1>3. CASE slots[f].path = Absent
    <2>1. slots' = [slots EXCEPT ![f].path = process[p].next] /\ InPlace(p) /\ Keeps(p, "synced")
      BY Zenon, <1>3 DEF ReplaceDocument
    <2> QED
      BY Zenon, <1>1, <1>3, <2>1, PlacingKeeps
  <1>4. CASE slots[f].path # Absent
    <2> DEFINE aside == [path |-> Absent, previous |-> slots[f].path]
    <2>1. slots' = [slots EXCEPT ![f] = aside] /\ Keeps(p, "aside") /\ UNCHANGED snapshots
      BY Zenon, <1>2, <1>4 DEF ReplaceDocument
    <2>2. aside \in StackSlots /\ aside.path = Absent /\ aside.previous = slots[f].path
      BY Zenon, <1>2, FoundInFile, ContentKinds DEF StackSlots
    <2>3. Value(aside) = Value(slots[f])
      BY Zenon, <1>2, <2>2, FoundInFile
    <2> HIDE DEF aside
    <2>4. slots' \in [Files -> StackSlots] /\ slots'[f] = aside /\ \A g \in Files \ {f} : slots'[g] = slots[g]
      BY Zenon, <1>2, <2>1, <2>2 DEF FilesInv, FilesTypes, StackSlots
    <2>5. Shuffled(slots')
      BY Zenon, <2>2, <2>3, <2>4 DEF Shuffled
    <2>6. /\ process' = [process EXCEPT ![p].pc = "aside"]
          /\ UNCHANGED <<engineLock, journal, durable, snapshots, misread, spoiled, writes>>
      BY Zenon, <2>1 DEF Keeps
    <2>7. slots'[f].path = Absent /\ slots'[f].previous # Absent
      BY Zenon, <1>4, <2>2, <2>4
    <2>8. Inside(p)'
      BY Zenon, <1>1, <1>2, <2>6, <2>7, StillInside
    <2> QED
      BY Zenon, <1>1, <2>5, <2>6, <2>8, MovingKeeps
  <1> QED
    BY Zenon, <1>3, <1>4

LEMMA InstallKeeps ==
    ASSUME FilesInv, NEW p \in Processes, InstallDocument(p), UNCHANGED workload
    PROVE  FilesInv'
  <1>1. /\ process[p].pc = "aside" /\ process[p].pc \in Holding
        /\ slots' = [slots EXCEPT ![process[p].file].path = process[p].next]
        /\ InPlace(p) /\ Keeps(p, "installed")
    BY Zenon DEF InstallDocument, Holding, Writing
  <1>2. slots[process[p].file].path = Absent
    BY Zenon, <1>1 DEF FilesInv, Inside
  <1> QED
    BY Zenon, <1>1, <1>2, PlacingKeeps

LEMMA InstallFailsKeeps ==
    ASSUME FilesInv, NEW p \in Processes, InstallFails(p), UNCHANGED workload
    PROVE  FilesInv'
  <1> DEFINE f == process[p].file
             back == [path |-> slots[f].previous, previous |-> Absent]
  <1>1. process[p].pc = "aside" /\ process[p].pc \in Holding
    BY Zenon DEF InstallFails, Holding, Writing
  <1>2. f \in Files /\ slots[f] \in StackSlots /\ slots[f].path = Absent
    BY Zenon, <1>1, WorkingOn DEF Inside
  <1>3. /\ slots' = [slots EXCEPT ![f] = back] /\ Closed(p, "none")
        /\ UNCHANGED <<journal, durable, snapshots, writes, spoiled>> /\ ~misread'
    BY Zenon DEF InstallFails, FilesInv
  <1>4. back \in StackSlots /\ back.path = slots[f].previous /\ back.previous = Absent
    BY Zenon, <1>2, FoundInFile, ContentKinds DEF StackSlots
  <1>5. Value(back) = Value(slots[f])
    BY Zenon, <1>2, <1>4, FoundInFile
  <1> HIDE DEF back
  <1>6. slots' \in [Files -> StackSlots] /\ slots'[f] = back /\ \A g \in Files \ {f} : slots'[g] = slots[g]
    BY Zenon, <1>2, <1>3, <1>4 DEF FilesInv, FilesTypes, StackSlots
  <1>7. Shuffled(slots')
    BY Zenon, <1>4, <1>5, <1>6 DEF Shuffled
  <1> QED
    BY Zenon, <1>1, <1>3, <1>7, ReturningKeeps

LEMMA RemoveBackupKeeps ==
    ASSUME FilesInv, NEW p \in Processes, RemoveBackup(p), UNCHANGED workload
    PROVE  FilesInv'
  <1> DEFINE f == process[p].file
  <1>1. process[p].pc = "installed" /\ process[p].pc \in Holding /\ process[p].pc \in Writing /\ "synced" \in Writing
    BY Zenon DEF RemoveBackup, Holding, Writing
  <1>2. /\ f \in Files /\ slots[f] \in StackSlots /\ Inside(p) /\ slots[f].previous # Absent
        /\ slots[f].path = process[p].next \/ (slots[f].path = Bad /\ f \in spoiled)
        /\ process[p].next \in WholeDocuments
    BY Zenon, <1>1, WorkingOn DEF Inside
  <1>3. slots' = [slots EXCEPT ![f].previous = Absent] /\ Keeps(p, "synced") /\ UNCHANGED snapshots
    BY Zenon, <1>2 DEF RemoveBackup
  <1>4. slots[f].path # Absent
    BY Zenon, <1>2, ContentKinds
  <1>5. /\ slots' \in [Files -> StackSlots] /\ slots'[f].path = slots[f].path /\ slots'[f].previous = Absent
        /\ \A g \in Files \ {f} : slots'[g] = slots[g]
    <2>1. slots \in [Files -> StackSlots]
      BY Zenon DEF FilesInv, FilesTypes, StackSlots
    <2> QED
      BY Zenon, <1>2, <1>3, <2>1, ContentKinds DEF StackSlots
  <1>6. Value(slots'[f]) = Value(slots[f])
    BY Zenon, <1>2, <1>4, <1>5, FoundInFile
  <1>7. Shuffled(slots')
    BY Zenon, <1>5, <1>6 DEF Shuffled
  <1>8. /\ process' = [process EXCEPT ![p].pc = "synced"]
        /\ UNCHANGED <<engineLock, journal, durable, snapshots, misread, spoiled, writes>>
    BY Zenon, <1>3 DEF Keeps
  <1>9. Inside(p)'
    BY Zenon, <1>1, <1>2, <1>5, <1>8, StillInside
  <1> QED
    BY Zenon, <1>1, <1>7, <1>8, <1>9, MovingKeeps

LEMMA FilesInvInit == FilesInit => FilesInv
  <1> SUFFICES ASSUME FilesInit PROVE FilesInv
    BY Zenon
  <1>1. /\ engineLock = Nobody /\ snapshots = {} /\ ~misread /\ writes = 0 /\ spoiled = {}
        /\ workload \in Workloads /\ durable = [f \in Files |-> 0] /\ process = [p \in Processes |-> Idle]
    BY Zenon DEF FilesInit
  <1>2. Idle \in FileProcesses /\ Idle.pc = "idle" /\ Idle.result = "none"
    BY Zenon, IdleIs
  <1>3. \A p \in Processes : process[p] = Idle
    BY Zenon, <1>1
  <1>4. PICK legacy \in {Absent, Doc(0, 1, 0, 0)} :
           slots = [f \in Files |-> [path |-> IF f[1] = "legacy" THEN legacy ELSE Absent, previous |-> Absent]]
    BY Zenon DEF FilesInit
  <1>5. legacy \in Contents
    BY Zenon, ContentKinds DEF Doc, WholeDocuments, Contents
  <1>6. ASSUME NEW f \in Files
        PROVE  /\ slots[f] \in StackSlots /\ slots[f].previous = Absent
               /\ slots[f].path = IF f[1] = "legacy" THEN legacy ELSE Absent
    BY Zenon, <1>4, <1>5, <1>6, ContentKinds DEF StackSlots
  <1>7. slots \in [Files -> StackSlots]
    BY Zenon, <1>4, <1>6
  <1>8. FilesTypes
    <2>1. workload \subseteq Operations
      BY Zenon, <1>1, FilesAssumption DEF Operations
    <2>2. durable \in [Files -> Nat] /\ writes \in Nat
      BY Zenon, <1>1
    <2> QED
      BY Zenon, <1>1, <1>2, <1>7, <2>1, <2>2 DEF FilesTypes, StackSlots
  <1>9. JournalInv
    BY SMT, FilesAssumption DEF FilesInit, JournalInv, JournalValid, Events
  <1>10. \A p \in Processes : Inside(p)
    BY Zenon, <1>2, <1>3 DEF Inside, Holding, Writing
  <1>11. ASSUME NEW f \in Files PROVE KeptIn(f)
    <2>1. durable[f] = 0 /\ durable[f] <= writes /\ ~(durable[f] > 0)
      BY SMTT(30), <1>1, <1>11
    <2>2. slots[f].path # Bad /\ slots[f].previous # Bad
      <3>1. Absent # Bad /\ legacy # Bad
        BY SMT, ContentKinds DEF Doc, Bad
      <3> QED
        BY Zenon, <1>6, <1>11, <3>1
    <2>3. OwnGeneration(f, slots[f].path) /\ OwnGeneration(f, slots[f].previous)
      BY Zenon, <1>6, <1>11, ContentKinds DEF OwnGeneration
    <2> QED
      BY Zenon, <2>1, <2>2, <2>3 DEF KeptIn
  <1>12. RoutesInv /\ SequencesAreNotReused
    <2>1. RoutesFile \in Files /\ RoutesFile[1] = "routes"
      BY Zenon DEF RoutesFile, Files
    <2>2. Value(slots[RoutesFile]) = Absent /\ ~Readable(Absent)
      BY Zenon, <1>6, <2>1, FoundInFile, ContentKinds
    <2> QED
      BY Zenon, <1>1, <2>2 DEF RoutesInv, SequencesAreNotReused
  <1> QED
    BY Zenon, <1>1, <1>2, <1>3, <1>8, <1>9, <1>10, <1>11, <1>12 DEF FilesInv

LEMMA FilesStepKeeps ==
    ASSUME FilesInv, [FilesNext]_storeVars
    PROVE  FilesInv'
  <1>1. CASE UNCHANGED storeVars
    <2>1. \A q \in Processes : Inside(q)'
      BY Zenon, <1>1, InsideStays DEF storeVars, FilesInv
    <2>2. FilesTypes' /\ JournalInv' /\ RoutesInv' /\ SequencesAreNotReused' /\ ~misread'
      BY Zenon, <1>1 DEF storeVars, FilesInv, FilesTypes, JournalInv, JournalValid, RoutesInv, SequencesAreNotReused
    <2>3. \A f \in Files : KeptIn(f)'
      BY Zenon, <1>1 DEF storeVars, FilesInv, KeptIn, OwnGeneration
    <2> QED
      BY Zenon, <1>1, <2>1, <2>2, <2>3 DEF storeVars, FilesInv
  <1>2. CASE FilesNext
    <2>1. UNCHANGED workload
      BY Zenon, <1>2 DEF FilesNext
    <2>2. CASE Damage
      BY Zenon, <2>1, <2>2, DamageKeeps
    <2>3. ASSUME NEW p \in Processes,
                 SaveStatus(p) \/ SaveLegacyStatus(p) \/ SaveProgress(p)
          PROVE  FilesInv'
      <3>1. /\ process[p].pc = "open" /\ process[p].pc \in Holding
            /\ process[p].op \in {"save", "saveLegacy", "saveProgress"}
            /\ RecoverAndStage(p) \/ (Returns(p, "none") /\ UNCHANGED <<slots, misread>>)
        BY Zenon, <2>3 DEF SaveStatus, SaveLegacyStatus, SaveProgress, Holding
      <3> QED
        BY Zenon, <2>1, <3>1, RecoverAndStageKeeps, LeavingKeeps
    <2>4. ASSUME NEW p \in Processes,
                 Begin(p) \/ TryLock(p) \/ ProcessDies(p) \/ Acknowledge(p) \/ RemoveProgress(p)
          PROVE  FilesInv'
      BY Zenon, <2>1, <2>4, BeginKeeps, TryLockKeeps, DyingKeeps, AcknowledgeKeeps, RemoveProgressKeeps
    <2>5. ASSUME NEW p \in Processes,
                 ReadStatus(p) \/ ReadRoutes(p) \/ PublishRoutes(p) \/ AppendEvent(p) \/ LinkEvent(p)
          PROVE  FilesInv'
      BY Zenon, <2>1, <2>5, ReadStatusKeeps, ReadRoutesKeeps, PublishKeeps, AppendKeeps, LinkKeeps
    <2>6. ASSUME NEW p \in Processes,
                 ReplaceDocument(p) \/ InstallDocument(p) \/ InstallFails(p) \/ RemoveBackup(p)
          PROVE  FilesInv'
      BY Zenon, <2>1, <2>6, ReplaceKeeps, InstallKeeps, InstallFailsKeeps, RemoveBackupKeeps
    <2> QED
      BY Zenon, <1>2, <2>2, <2>3, <2>4, <2>5, <2>6 DEF FilesNext
  <1> QED
    BY Zenon, <1>1, <1>2

LEMMA FilesInvariant == FilesSpec => []FilesInv
  BY FilesInvInit, FilesStepKeeps, PTL DEF FilesSpec

\* What was acknowledged is found again, whatever number of processes recover,
\* replace and die; no operation fails for the files it finds unless they were
\* spoiled; and no observer is given the status of another generation
\* (EngineStore::open, write_replace_atomic, recover_runtime_status).
THEOREM SavedAlwaysStays == FilesSpec => []SavedStays
  <1>1. FilesInv => SavedStays
    BY Zenon DEF FilesInv, KeptIn, SavedStays
  <1> QED
    BY <1>1, FilesInvariant, PTL

\* No epoch and sequence name two routing tables, however many publications are
\* interrupted and however often the file is spoiled and reset
\* (publish_routing_snapshot_inner, routing_snapshot_for_publish).
THEOREM SequencesAreNeverReused == FilesSpec => []SequencesAreNotReused
  <1>1. FilesInv => SequencesAreNotReused
    BY Zenon DEF FilesInv
  <1> QED
    BY <1>1, FilesInvariant, PTL
=============================================================================
