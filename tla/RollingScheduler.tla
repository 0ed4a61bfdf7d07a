-------------------------- MODULE RollingScheduler --------------------------
(***************************************************************************)
(* The decision of the rolling update scheduler for one instance           *)
(* (cartridge-engine: rolling.rs): given a policy and an observation of    *)
(* the replicas of the previous and of the candidate generation, which     *)
(* replicas to start or to drain next.                                     *)
(*                                                                         *)
(* Abstractions.  Time enters as the one question the code asks of it:     *)
(* has the progress deadline passed since the last progress.  The upper    *)
(* bounds on durations are left to the manifest.                           *)
(***************************************************************************)
EXTENDS Naturals, FiniteSets

CONSTANT MaxReplicas   \* MAX_STACK_REPLICAS

ASSUME MaxReplicasAssumption == MaxReplicas \in Nat

(* RollingUpdatePolicy.                                                    *)
Policy ==
    [startFirst : BOOLEAN, surge : 0 .. MaxReplicas, unavailable : 0 .. MaxReplicas]

(* RollingObservation.  The sets hold ordinals.                            *)
Observation ==
    [previousReplicas   : 0 .. MaxReplicas,
     candidateReplicas  : 0 .. MaxReplicas,
     previousActive     : SUBSET (1 .. MaxReplicas),
     previousReady      : SUBSET (1 .. MaxReplicas),
     candidateActive    : SUBSET (1 .. MaxReplicas),
     candidateReady     : SUBSET (1 .. MaxReplicas),
     candidateAvailable : SUBSET (1 .. MaxReplicas),
     candidateTerminal  : SUBSET (1 .. MaxReplicas),
     expired            : BOOLEAN]

Larger(m, n) == IF m >= n THEN m ELSE n

Smaller(m, n) == IF m <= n THEN m ELSE n

(* saturating_sub                                                          *)
Minus(m, n) == IF m >= n THEN m - n ELSE 0

(* The k lowest members of a set of ordinals, all of them if it has fewer. *)
Lowest(set, k) == {n \in set : Cardinality({m \in set : m <= n}) <= k}

PolicyReplicas(o) == Larger(o.previousReplicas, o.candidateReplicas)

(* A slip in the policy check: a policy that may neither surge nor miss a   *)
(* replica is let through.                                                 *)
PolicyMayStall(p, replicas) ==
    /\ replicas > 0
    /\ p.surge <= replicas
    /\ p.unavailable <= replicas

PolicyValid(p, replicas) ==
    /\ replicas > 0
    /\ p.surge <= replicas
    /\ p.unavailable <= replicas
    /\ p.surge > 0 \/ p.unavailable > 0

(* replicas plus surge: what may be active at once.                        *)
ActiveLimit(o, p) == PolicyReplicas(o) + p.surge

ActiveCount(o) == Cardinality(o.previousActive) + Cardinality(o.candidateActive)

(* RollingObservation::validate.                                           *)
Valid(o, p) ==
    /\ PolicyValid(p, PolicyReplicas(o))
    /\ o.previousActive \subseteq 1 .. o.previousReplicas
    /\ o.candidateActive \subseteq 1 .. o.candidateReplicas
    /\ o.candidateTerminal \subseteq 1 .. o.candidateReplicas
    /\ o.previousReady \subseteq o.previousActive
    /\ o.candidateReady \subseteq o.candidateActive
    /\ o.candidateAvailable \subseteq o.candidateReady
    /\ o.candidateTerminal \cap o.candidateActive = {}
    /\ ActiveCount(o) <= ActiveLimit(o, p)

-----------------------------------------------------------------------------
(* start_action: the ordinals it starts, none when there is nothing to do. *)

Missing(o) ==
    (1 .. o.candidateReplicas) \ (o.candidateActive \cup o.candidateTerminal)

(* A slip in start_action: the remaining capacity is not consulted.        *)
StartEverything(o, p) == Minus(o.candidateReplicas, Cardinality(o.candidateActive))

StartCount(o, p) ==
    Smaller(Minus(o.candidateReplicas, Cardinality(o.candidateActive)),
            Minus(ActiveLimit(o, p), ActiveCount(o)))

Starts(o, p) == Lowest(Missing(o), StartCount(o, p))

(* drain_action: every active replica that is not ready, and as many ready *)
(* ones as the availability budget allows.                                 *)

MinimumAvailable(o, p) == Minus(o.candidateReplicas, p.unavailable)

AvailableCount(o) ==
    Cardinality(o.previousReady) + Cardinality(o.candidateAvailable)

ReadyBudget(o, p) == Minus(AvailableCount(o), MinimumAvailable(o, p))

Drains(o, p) ==
    (o.previousActive \ o.previousReady)
        \cup Lowest(o.previousReady, ReadyBudget(o, p))

-----------------------------------------------------------------------------
(* RollingObservation::next, on an observation that validate accepts.      *)

Act(kind, ordinals) == [kind |-> kind, ordinals |-> ordinals]

Complete(o) ==
    /\ o.previousActive = {}
    /\ Cardinality(o.candidateAvailable) = o.candidateReplicas

(* The preferred action if there is one, otherwise the other, otherwise a  *)
(* wait.                                                                   *)
Schedule(o, p) ==
    LET start == Starts(o, p)
        drain == Drains(o, p)
    IN  IF start # {} /\ (p.startFirst \/ drain = {}) THEN Act("start", start)
        ELSE IF drain # {} THEN Act("drain", drain)
        ELSE Act("wait", {})

Decision(o, p) ==
    IF o.candidateTerminal # {} THEN Act("rollback", {})
    ELSE IF Complete(o) THEN Act("complete", {})
    ELSE IF o.expired THEN Act("rollback", {})
    ELSE Schedule(o, p)

=============================================================================
