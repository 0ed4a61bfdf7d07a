-------------------------- MODULE RollingStepProofs --------------------------
(***************************************************************************)
(* The decision of the rolling scheduler, for every number of replicas,    *)
(* every policy and every sequence of decisions; and the steps of a        *)
(* rolling update, one by one: what each does to the invariants of the     *)
(* update (UpdateInv, CalmInv).  The arithmetic of the limits and the      *)
(* theorems about the update are in RollingUpdateProofs.                   *)
(***************************************************************************)
EXTENDS RollingUpdate, RollingDecision, FiniteSetTheorems, WellFoundedInduction, TLAPS

-----------------------------------------------------------------------------
(* The decision of the scheduler.                                          *)

(* A set of naturals that is not empty has a least member.                 *)
LEMMA LeastNatural ==
    ASSUME NEW T \in SUBSET Nat, T # {}
    PROVE  \E x \in T : \A y \in T : x <= y
  <1>1. \E x \in T : \A y \in T : ~(<<y, x>> \in OpToRel(<, Nat))
    BY Zenon, WFMin, NatLessThanWellFounded
  <1>2. PICK x \in T : \A y \in T : ~(<<y, x>> \in OpToRel(<, Nat))
    BY Zenon, <1>1
  <1>3. ASSUME NEW y \in T PROVE x <= y
    <2>1. ~(y < x)
      BY Zenon, <1>2, <1>3 DEF OpToRel
    <2> QED
      BY <2>1
  <1> QED
    BY <1>3

(* A set of ordinals that is not empty has a greatest member.              *)
LEMMA GreatestOrdinal ==
    ASSUME NEW T \in SUBSET (1 .. MaxReplicas), T # {}
    PROVE  \E x \in T : \A y \in T : y <= x
  <1> DEFINE Reflected == {MaxReplicas - y : y \in T}
  <1>1. Reflected \in SUBSET Nat /\ Reflected # {}
    <2>1. PICK some \in T : TRUE
      BY Zenon
    <2>2. MaxReplicas - some \in Reflected
      OBVIOUS
    <2>3. ASSUME NEW y \in T PROVE MaxReplicas - y \in Nat
      BY MaxReplicasAssumption
    <2> QED
      BY <2>2, <2>3
  <1>2. PICK r \in Reflected : \A q \in Reflected : r <= q
    BY Zenon, <1>1, LeastNatural
  <1>3. PICK x \in T : r = MaxReplicas - x
    BY <1>2
  <1>4. ASSUME NEW y \in T PROVE y <= x
    <2>1. r <= MaxReplicas - y
      BY <1>2
    <2> QED
      BY <1>3, <2>1, MaxReplicasAssumption
  <1> QED
    BY <1>4

(* The ordinals of n replicas are n.                                       *)
LEMMA IntervalCount ==
    ASSUME NEW n \in Nat
    PROVE  IsFiniteSet(1 .. n) /\ Cardinality(1 .. n) = n
  <1>1. 1 \in Int /\ n \in Int
    OBVIOUS
  <1>2. /\ IsFiniteSet(1 .. n)
        /\ Cardinality(1 .. n) = IF 1 > n THEN 0 ELSE n - 1 + 1
    BY ONLY <1>1, FS_Interval
  <1>3. (IF 1 > n THEN 0 ELSE n - 1 + 1) = n
    OBVIOUS
  <1> QED
    BY <1>2, <1>3

(* Sets of ordinals are finite.                                            *)
LEMMA OrdinalsFinite ==
    ASSUME NEW T \in SUBSET (1 .. MaxReplicas)
    PROVE  IsFiniteSet(T) /\ Cardinality(T) \in Nat
  <1>1. IsFiniteSet(1 .. MaxReplicas)
    BY IntervalCount, MaxReplicasAssumption
  <1>2. IsFiniteSet(T)
    BY Zenon, <1>1, FS_Subset
  <1> QED
    BY <1>2, FS_CardinalityType

(* Lowest(set, k) takes at most k members of the set.                      *)
LEMMA LowestBound ==
    ASSUME NEW set \in SUBSET (1 .. MaxReplicas), NEW k \in Nat
    PROVE  Lowest(set, k) \subseteq set /\ Cardinality(Lowest(set, k)) <= k
  <1>1. Lowest(set, k) \subseteq set
    BY DEF Lowest
  <1>2. CASE Lowest(set, k) = {}
    BY <1>1, <1>2, FS_EmptySet
  <1>3. CASE Lowest(set, k) # {}
    <2>1. PICK top \in Lowest(set, k) : \A y \in Lowest(set, k) : y <= top
      BY Zenon, <1>1, <1>3, GreatestOrdinal
    <2> DEFINE Below == {m \in set : m <= top}
    <2>2. Lowest(set, k) \in SUBSET Below
      BY <1>1, <2>1
    <2>3. Cardinality(Below) <= k
      BY <2>1 DEF Lowest
    <2>4. Below \in SUBSET (1 .. MaxReplicas)
      BY Zenon
    <2>5. /\ Cardinality(Lowest(set, k)) <= Cardinality(Below)
          /\ Cardinality(Below) \in Nat
          /\ Cardinality(Lowest(set, k)) \in Nat
      <3>1. IsFiniteSet(Below) /\ Cardinality(Below) \in Nat
        BY <2>4, OrdinalsFinite
      <3>2. Lowest(set, k) \in SUBSET (1 .. MaxReplicas)
        BY Zenon, <1>1
      <3> QED
        BY <2>2, <3>1, <3>2, FS_Subset, OrdinalsFinite
    <2> QED
      BY <1>1, <2>3, <2>5
  <1> QED
    BY <1>2, <1>3

(* Lowest(set, k) takes something when it may and there is something.      *)
LEMMA LowestTakes ==
    ASSUME NEW set \in SUBSET (1 .. MaxReplicas), set # {},
           NEW k \in Nat, k > 0
    PROVE  Lowest(set, k) # {}
  <1>1. PICK least \in set : \A y \in set : least <= y
    BY LeastNatural
  <1>2. {m \in set : m <= least} = {least}
    <2>1. least <= least
      BY MaxReplicasAssumption
    <2>2. ASSUME NEW m \in set, m <= least PROVE m = least
      <3>1. m \in Nat /\ least \in Nat /\ least <= m
        BY <1>1, MaxReplicasAssumption
      <3> QED
        BY <2>2, <3>1
    <2> QED
      BY Zenon, <2>1, <2>2
  <1>3. Cardinality({m \in set : m <= least}) = 1
    BY <1>2, FS_Singleton
  <1>4. least \in Lowest(set, k)
    BY <1>3 DEF Lowest
  <1> QED
    BY <1>4

-----------------------------------------------------------------------------
(* The counts of an observation.                                           *)

(* Every count the scheduler computes is a natural number.                 *)
LEMMA CountTypes ==
    ASSUME NEW o \in Observation, NEW p \in Policy
    PROVE  /\ IsFiniteSet(o.previousActive) /\ Cardinality(o.previousActive) \in Nat
           /\ IsFiniteSet(o.previousReady) /\ Cardinality(o.previousReady) \in Nat
           /\ IsFiniteSet(o.candidateActive) /\ Cardinality(o.candidateActive) \in Nat
           /\ IsFiniteSet(o.candidateAvailable)
           /\ Cardinality(o.candidateAvailable) \in Nat
           /\ ActiveCount(o) \in Nat /\ ActiveLimit(o, p) \in Nat
           /\ AvailableCount(o) \in Nat /\ MinimumAvailable(o, p) \in Nat
           /\ StartCount(o, p) \in Nat /\ ReadyBudget(o, p) \in Nat
           /\ Missing(o) \in SUBSET (1 .. MaxReplicas)
  <1>1. /\ o.previousActive \in SUBSET (1 .. MaxReplicas)
        /\ o.previousReady \in SUBSET (1 .. MaxReplicas)
        /\ o.candidateActive \in SUBSET (1 .. MaxReplicas)
        /\ o.candidateAvailable \in SUBSET (1 .. MaxReplicas)
        /\ o.previousReplicas \in Nat /\ o.candidateReplicas \in 0 .. MaxReplicas
        /\ p.surge \in Nat /\ p.unavailable \in Nat
    BY MaxReplicasAssumption DEF Observation, Policy
  <1>2. /\ IsFiniteSet(o.previousActive) /\ Cardinality(o.previousActive) \in Nat
        /\ IsFiniteSet(o.previousReady) /\ Cardinality(o.previousReady) \in Nat
        /\ IsFiniteSet(o.candidateActive) /\ Cardinality(o.candidateActive) \in Nat
        /\ IsFiniteSet(o.candidateAvailable)
        /\ Cardinality(o.candidateAvailable) \in Nat
    BY <1>1, OrdinalsFinite
  <1>3. ActiveCount(o) \in Nat /\ AvailableCount(o) \in Nat
    BY <1>2 DEF ActiveCount, AvailableCount
  <1>4. /\ ActiveLimit(o, p) \in Nat
        /\ MinimumAvailable(o, p) \in Nat
    BY <1>1, MaxReplicasAssumption
       DEF ActiveLimit, PolicyReplicas, Larger, MinimumAvailable, Minus
  <1>5. StartCount(o, p) \in Nat
    BY <1>1, <1>2, <1>3, <1>4, MaxReplicasAssumption DEF StartCount, Smaller, Minus
  <1>6. ReadyBudget(o, p) \in Nat
    BY <1>3, <1>4 DEF ReadyBudget, Minus
  <1>7. Missing(o) \in SUBSET (1 .. MaxReplicas)
    <2>1. 1 .. o.candidateReplicas \subseteq 1 .. MaxReplicas
      BY <1>1, MaxReplicasAssumption
    <2> QED
      BY <2>1 DEF Missing
  <1> QED
    BY <1>2, <1>3, <1>4, <1>5, <1>6, <1>7

(* A start leaves the active replicas within replicas plus surge.          *)
LEMMA StartWithinLimit ==
    ASSUME NEW o \in Observation, NEW p \in Policy, Valid(o, p)
    PROVE  /\ Starts(o, p) \subseteq Missing(o)
           /\ Cardinality(o.previousActive)
                 + Cardinality(o.candidateActive \cup Starts(o, p))
                 <= ActiveLimit(o, p)
  <1>1. /\ Starts(o, p) \subseteq Missing(o)
        /\ Cardinality(Starts(o, p)) <= StartCount(o, p)
    BY Zenon, CountTypes, LowestBound DEF Starts
  <1>2. Starts(o, p) \in SUBSET (1 .. MaxReplicas)
    BY <1>1, CountTypes
  <1>3. IsFiniteSet(Starts(o, p)) /\ Cardinality(Starts(o, p)) \in Nat
    BY <1>2, OrdinalsFinite
  <1>4. o.candidateActive \cap Starts(o, p) = {}
    BY <1>1 DEF Missing
  <1>5. Cardinality(o.candidateActive \cup Starts(o, p)) =
          Cardinality(o.candidateActive) + Cardinality(Starts(o, p))
    <2>1. Cardinality(o.candidateActive \cup Starts(o, p)) =
            Cardinality(o.candidateActive) + Cardinality(Starts(o, p))
              - Cardinality(o.candidateActive \cap Starts(o, p))
      BY <1>3, CountTypes, FS_Union
    <2>2. Cardinality(o.candidateActive \cap Starts(o, p)) = 0
      BY <1>4, FS_EmptySet
    <2> QED
      BY <1>3, <2>1, <2>2, CountTypes
  <1>6. StartCount(o, p) <= ActiveLimit(o, p) - ActiveCount(o)
    <2>1. ActiveCount(o) <= ActiveLimit(o, p)
      BY DEF Valid
    <2>2. Minus(ActiveLimit(o, p), ActiveCount(o)) = ActiveLimit(o, p) - ActiveCount(o)
      BY <2>1, CountTypes DEF Minus
    <2>3. Minus(o.candidateReplicas, Cardinality(o.candidateActive)) \in Nat
      BY CountTypes, MaxReplicasAssumption DEF Minus, Observation
    <2> QED
      BY <2>1, <2>2, <2>3, CountTypes DEF StartCount, Smaller
  <1> QED
    BY <1>1, <1>3, <1>5, <1>6, CountTypes DEF ActiveCount

(* A drain takes no more ready replicas than the availability budget.      *)
LEMMA DrainWithinBudget ==
    ASSUME NEW o \in Observation, NEW p \in Policy, Valid(o, p)
    PROVE  /\ Drains(o, p) \subseteq o.previousActive
           /\ Cardinality(o.previousReady \ Drains(o, p))
                 + Cardinality(o.candidateAvailable) >=
               Smaller(AvailableCount(o), MinimumAvailable(o, p))
  <1> DEFINE taken == Lowest(o.previousReady, ReadyBudget(o, p))
  <1>1. o.previousReady \in SUBSET (1 .. MaxReplicas)
    BY DEF Observation
  <1>2. taken \subseteq o.previousReady /\ Cardinality(taken) <= ReadyBudget(o, p)
    BY Zenon, <1>1, CountTypes, LowestBound
  <1>3. IsFiniteSet(taken) /\ Cardinality(taken) \in Nat
    BY <1>1, <1>2, OrdinalsFinite
  <1>4. Drains(o, p) \subseteq o.previousActive
    BY <1>2 DEF Drains, Valid
  <1>5. o.previousReady \ Drains(o, p) = o.previousReady \ taken
    BY DEF Drains
  <1>6. Cardinality(o.previousReady \ taken) =
          Cardinality(o.previousReady) - Cardinality(taken)
    <2>1. Cardinality(o.previousReady \ taken) =
            Cardinality(o.previousReady) - Cardinality(o.previousReady \cap taken)
      BY Zenon, CountTypes, FS_Difference
    <2>2. o.previousReady \cap taken = taken
      BY <1>2
    <2> QED
      BY <2>1, <2>2
  <1>7. AvailableCount(o) - ReadyBudget(o, p) >=
          Smaller(AvailableCount(o), MinimumAvailable(o, p))
    BY CountTypes DEF ReadyBudget, Minus, Smaller
  <1>8. Cardinality(o.previousReady) - Cardinality(taken)
          + Cardinality(o.candidateAvailable) >= AvailableCount(o) - ReadyBudget(o, p)
    BY <1>2, <1>3, CountTypes DEF AvailableCount
  <1>9. Smaller(AvailableCount(o), MinimumAvailable(o, p)) \in Nat
    BY CountTypes DEF Smaller
  <1>10. Cardinality(o.previousReady \ Drains(o, p)) =
           Cardinality(o.previousReady) - Cardinality(taken)
    BY <1>5, <1>6
  <1> HIDE DEF taken
  <1>11. Cardinality(o.previousReady \ Drains(o, p))
           + Cardinality(o.candidateAvailable) >=
         Smaller(AvailableCount(o), MinimumAvailable(o, p))
    BY <1>3, <1>7, <1>8, <1>9, <1>10, CountTypes
  <1> QED
    BY <1>4, <1>11

(* A subset of the replicas has at most as many members, so an observation *)
(* with fewer active replicas is within the limit when the larger one is.  *)
LEMMA FewerActive ==
    ASSUME NEW o \in Observation, NEW r \in Observation, NEW p \in Policy,
           Valid(o, p),
           r.previousActive \subseteq o.previousActive,
           r.candidateActive \subseteq o.candidateActive,
           r.previousReplicas = o.previousReplicas,
           r.candidateReplicas = o.candidateReplicas
    PROVE  ActiveCount(r) <= ActiveLimit(r, p)
  <1>1. /\ Cardinality(r.previousActive) <= Cardinality(o.previousActive)
        /\ Cardinality(r.candidateActive) <= Cardinality(o.candidateActive)
    BY CountTypes, FS_Subset
  <1>2. ActiveLimit(r, p) = ActiveLimit(o, p)
    BY DEF ActiveLimit, PolicyReplicas
  <1>3. ActiveCount(o) <= ActiveLimit(o, p)
    BY DEF Valid
  <1>4. /\ Cardinality(r.previousActive) \in Nat
        /\ Cardinality(r.candidateActive) \in Nat
        /\ Cardinality(o.previousActive) \in Nat
        /\ Cardinality(o.candidateActive) \in Nat
        /\ ActiveLimit(o, p) \in Nat
    BY CountTypes
  <1> QED
    BY <1>1, <1>2, <1>3, <1>4 DEF ActiveCount

(* What the scheduler starts and drains keeps the observation valid.       *)
LEMMA StartedValid ==
    ASSUME NEW o \in Observation, NEW p \in Policy, Valid(o, p)
    PROVE  /\ Started(o, Starts(o, p)) \in Observation
           /\ Valid(Started(o, Starts(o, p)), p)
  <1> DEFINE r == Started(o, Starts(o, p))
  <1>1. /\ Starts(o, p) \subseteq Missing(o)
        /\ Cardinality(o.previousActive)
             + Cardinality(o.candidateActive \cup Starts(o, p))
             <= ActiveLimit(o, p)
    BY StartWithinLimit
  <1>2. Starts(o, p) \in SUBSET (1 .. MaxReplicas)
    BY <1>1, CountTypes
  <1>3. r \in Observation
    BY Zenon, <1>2 DEF Started, Observation
  <1>4. /\ r.previousReplicas = o.previousReplicas
        /\ r.candidateReplicas = o.candidateReplicas
        /\ r.previousActive = o.previousActive
        /\ r.previousReady = o.previousReady
        /\ r.candidateActive = o.candidateActive \cup Starts(o, p)
        /\ r.candidateReady = o.candidateReady
        /\ r.candidateAvailable = o.candidateAvailable
        /\ r.candidateTerminal = o.candidateTerminal
    BY DEF Started, Observation
  <1>5. ActiveLimit(r, p) = ActiveLimit(o, p) /\ PolicyReplicas(r) = PolicyReplicas(o)
    BY <1>4 DEF ActiveLimit, PolicyReplicas
  <1>6. ActiveCount(r) <= ActiveLimit(r, p)
    BY <1>1, <1>4, <1>5 DEF ActiveCount
  <1> HIDE DEF r
  <1>7. Valid(r, p)
    BY <1>1, <1>4, <1>5, <1>6 DEF Valid, Missing
  <1> QED
    BY <1>3, <1>7 DEF r

(* A drain takes replicas away and keeps the observation valid.            *)
LEMMA DrainedValid ==
    ASSUME NEW o \in Observation, NEW p \in Policy, Valid(o, p),
           NEW ordinals
    PROVE  /\ Drained(o, ordinals) \in Observation
           /\ Valid(Drained(o, ordinals), p)
  <1> DEFINE r == Drained(o, ordinals)
  <1>1. r \in Observation
    BY Zenon DEF Drained, Observation
  <1>2. /\ r.previousReplicas = o.previousReplicas
        /\ r.candidateReplicas = o.candidateReplicas
        /\ r.previousActive = o.previousActive \ ordinals
        /\ r.previousReady = o.previousReady \ ordinals
        /\ r.candidateActive = o.candidateActive
        /\ r.candidateReady = o.candidateReady
        /\ r.candidateAvailable = o.candidateAvailable
        /\ r.candidateTerminal = o.candidateTerminal
    BY DEF Drained, Observation
  <1> HIDE DEF r
  <1>3. ActiveCount(r) <= ActiveLimit(r, p)
    BY <1>1, <1>2, FewerActive
  <1>4. PolicyReplicas(r) = PolicyReplicas(o)
    BY <1>2 DEF PolicyReplicas
  <1>5. Valid(r, p)
    BY <1>2, <1>3, <1>4 DEF Valid
  <1> QED
    BY <1>1, <1>5 DEF r

-----------------------------------------------------------------------------
(* The invariant.                                                          *)

IInv == DecisionTypeOK /\ ObservationStaysValid /\ CompletesCleanly

(* A change that starts no replica and keeps the sets nested is harmless.  *)
LEMMA ChangeValid ==
    ASSUME NEW o \in Observation, NEW r \in Observation, NEW p \in Policy,
           Valid(o, p),
           r.previousReplicas = o.previousReplicas,
           r.candidateReplicas = o.candidateReplicas,
           r.previousActive \subseteq o.previousActive,
           r.candidateActive \subseteq o.candidateActive,
           r.previousReady \subseteq r.previousActive,
           r.candidateReady \subseteq r.candidateActive,
           r.candidateAvailable \subseteq r.candidateReady,
           r.candidateTerminal \subseteq o.candidateTerminal \cup o.candidateActive,
           r.candidateTerminal \cap r.candidateActive = {}
    PROVE  Valid(r, p)
  <1>1. ActiveCount(r) <= ActiveLimit(r, p)
    BY FewerActive
  <1>2. PolicyReplicas(r) = PolicyReplicas(o)
    BY DEF PolicyReplicas
  <1> QED
    BY <1>1, <1>2 DEF Valid

(* A step of the replicas or of the clock to such an observation keeps the *)
(* invariant.                                                              *)
LEMMA ObservedIInv ==
    ASSUME IInv, NEW r \in Observation, Observed(r),
           r.previousReplicas = observation.previousReplicas,
           r.candidateReplicas = observation.candidateReplicas,
           r.previousActive \subseteq observation.previousActive,
           r.candidateActive \subseteq observation.candidateActive,
           r.previousReady \subseteq r.previousActive,
           r.candidateReady \subseteq r.candidateActive,
           r.candidateAvailable \subseteq r.candidateReady,
           r.candidateTerminal \subseteq
              observation.candidateTerminal \cup observation.candidateActive,
           r.candidateTerminal \cap r.candidateActive = {}
    PROVE  IInv'
  <1>1. /\ outcome = "running" /\ outcome' = outcome /\ policy' = policy
        /\ observation' = r
    BY DEF Observed
  <1>2. observation \in Observation /\ policy \in Policy /\ Valid(observation, policy)
    BY DEF IInv, DecisionTypeOK, ObservationStaysValid
  <1>3. Valid(r, policy)
    BY <1>2, ChangeValid
  <1> QED
    BY <1>1, <1>3 DEF IInv, DecisionTypeOK, ObservationStaysValid, CompletesCleanly

(* Each change among the replicas, and the deadline, keeps the invariant.  *)
LEMMA ReplicasIInv ==
    ASSUME IInv, NEW n \in 1 .. MaxReplicas,
           \/ PreviousBecomesReady(n) \/ PreviousBecomesUnready(n)
           \/ PreviousEnds(n)
           \/ CandidateBecomesReady(n) \/ CandidateBecomesAvailable(n)
           \/ CandidateBecomesUnready(n) \/ CandidateEnds(n)
           \/ DeadlinePasses
    PROVE  IInv'
  <1> DEFINE o == observation
  <1>1. /\ o \in Observation
        /\ o.previousReady \subseteq o.previousActive
        /\ o.candidateReady \subseteq o.candidateActive
        /\ o.candidateAvailable \subseteq o.candidateReady
        /\ o.candidateTerminal \cap o.candidateActive = {}
    BY DEF IInv, DecisionTypeOK, ObservationStaysValid, Valid
  <1>2. CASE PreviousBecomesReady(n)
    <2> DEFINE r == [o EXCEPT !.previousReady = @ \cup {n}]
    <2>1. n \in o.previousActive /\ Observed(r)
      BY <1>2 DEF PreviousBecomesReady
    <2>2. r \in Observation
      BY <1>1 DEF Observation
    <2> QED
      BY <1>1, <2>1, <2>2, ObservedIInv DEF Observation
  <1>3. CASE PreviousBecomesUnready(n)
    <2> DEFINE r == [o EXCEPT !.previousReady = @ \ {n}]
    <2>1. n \in o.previousReady /\ Observed(r)
      BY <1>3 DEF PreviousBecomesUnready
    <2>2. r \in Observation
      BY <1>1 DEF Observation
    <2> QED
      BY <1>1, <2>1, <2>2, ObservedIInv DEF Observation
  <1>4. CASE PreviousEnds(n)
    <2> DEFINE r == [o EXCEPT !.previousActive = @ \ {n},
                              !.previousReady = @ \ {n}]
    <2>1. n \in o.previousActive /\ Observed(r)
      BY <1>4 DEF PreviousEnds
    <2>2. r \in Observation
      BY Zenon, <1>1 DEF Observation
    <2> QED
      BY Zenon, <1>1, <2>1, <2>2, ObservedIInv DEF Observation
  <1>5. CASE CandidateBecomesReady(n)
    <2> DEFINE r == [o EXCEPT !.candidateReady = @ \cup {n}]
    <2>1. n \in o.candidateActive /\ Observed(r)
      BY <1>5 DEF CandidateBecomesReady
    <2>2. r \in Observation
      BY <1>1 DEF Observation
    <2> QED
      BY <1>1, <2>1, <2>2, ObservedIInv DEF Observation
  <1>6. CASE CandidateBecomesAvailable(n)
    <2> DEFINE r == [o EXCEPT !.candidateAvailable = @ \cup {n}]
    <2>1. n \in o.candidateReady /\ Observed(r)
      BY <1>6 DEF CandidateBecomesAvailable
    <2>2. r \in Observation
      BY <1>1 DEF Observation
    <2> QED
      BY <1>1, <2>1, <2>2, ObservedIInv DEF Observation
  <1>7. CASE CandidateBecomesUnready(n)
    <2> DEFINE r == [o EXCEPT !.candidateReady = @ \ {n},
                              !.candidateAvailable = @ \ {n}]
    <2>1. n \in o.candidateReady /\ Observed(r)
      BY <1>7 DEF CandidateBecomesUnready
    <2>2. r \in Observation
      BY Zenon, <1>1 DEF Observation
    <2> QED
      BY Zenon, <1>1, <2>1, <2>2, ObservedIInv DEF Observation
  <1>8. CASE CandidateEnds(n)
    <2> DEFINE r == [o EXCEPT !.candidateActive = @ \ {n},
                              !.candidateReady = @ \ {n},
                              !.candidateAvailable = @ \ {n},
                              !.candidateTerminal = @ \cup {n}]
    <2>1. n \in o.candidateActive /\ Observed(r)
      BY <1>8 DEF CandidateEnds
    <2>2. r \in Observation
      BY Zenon, <1>1 DEF Observation
    <2> QED
      BY ZenonT(60), <1>1, <2>1, <2>2, ObservedIInv DEF Observation
  <1>9. CASE DeadlinePasses
    <2> DEFINE r == [o EXCEPT !.expired = TRUE]
    <2>1. Observed(r)
      BY <1>9 DEF DeadlinePasses
    <2>2. r \in Observation
      BY Zenon, <1>1 DEF Observation
    <2> QED
      BY <1>1, <2>1, <2>2, ObservedIInv DEF Observation
  <1> QED
    BY SMTT(60), <1>2, <1>3, <1>4, <1>5, <1>6, <1>7, <1>8, <1>9

(* What each kind of decision says of the observation it was taken on.     *)
LEMMA DecisionMeaning ==
    ASSUME NEW o, NEW p
    PROVE  /\ Decision(o, p).kind = "start" =>
                 Decision(o, p).ordinals = Starts(o, p)
           /\ Decision(o, p).kind = "drain" =>
                 Decision(o, p).ordinals = Drains(o, p)
           /\ Decision(o, p).kind = "complete" => Complete(o)
           /\ Decision(o, p).kind = "wait" =>
                 ~Complete(o) /\ Starts(o, p) = {} /\ Drains(o, p) = {}
                              /\ o.candidateTerminal = {}
  BY DEF Decision, Schedule, Act

(* With as many available replicas as the instance has, all of them are.   *)
LEMMA AllAvailable ==
    ASSUME NEW o \in Observation, NEW set \in SUBSET (1 .. o.candidateReplicas),
           Cardinality(set) >= o.candidateReplicas
    PROVE  set = 1 .. o.candidateReplicas
  <1>1. o.candidateReplicas \in Nat
    BY MaxReplicasAssumption DEF Observation
  <1>2. /\ IsFiniteSet(1 .. o.candidateReplicas)
        /\ Cardinality(1 .. o.candidateReplicas) = o.candidateReplicas
    BY <1>1, IntervalCount
  <1>3. IsFiniteSet(set) /\ Cardinality(set) \in Nat
        /\ Cardinality(set) <= o.candidateReplicas
    BY ZenonT(60), <1>2, FS_Subset, FS_CardinalityType
  <1>4. Cardinality(set) = Cardinality(1 .. o.candidateReplicas)
    BY <1>1, <1>2, <1>3
  <1> QED
    BY Zenon, <1>2, <1>4, FS_Subset

(* A decision keeps the invariant.                                         *)
LEMMA DecideIInv ==
    ASSUME IInv, NEW kind \in {"start", "drain", "complete", "rollback"}, Decide(kind)
    PROVE  IInv'
  <1>1. /\ observation \in Observation /\ policy \in Policy
        /\ Valid(observation, policy) /\ outcome = "running" /\ policy' = policy
        /\ Decision(observation, policy).kind = kind
    BY DEF IInv, DecisionTypeOK, ObservationStaysValid, Decide
  <1>2. CASE kind = "start"
    <2>1. /\ observation' = Started(observation, Starts(observation, policy))
          /\ outcome' = "running"
      BY <1>1, <1>2, DecisionMeaning DEF Decide
    <2>2. observation' \in Observation /\ Valid(observation', policy)
      BY <1>1, <2>1, StartedValid
    <2> QED
      BY <1>1, <2>1, <2>2 DEF IInv, DecisionTypeOK, ObservationStaysValid, CompletesCleanly
  <1>3. CASE kind = "drain"
    <2>1. /\ observation' = Drained(observation, Drains(observation, policy))
          /\ outcome' = "running"
      BY <1>1, <1>3, DecisionMeaning DEF Decide
    <2>2. observation' \in Observation /\ Valid(observation', policy)
      BY <1>1, <2>1, DrainedValid
    <2> QED
      BY <1>1, <2>1, <2>2 DEF IInv, DecisionTypeOK, ObservationStaysValid, CompletesCleanly
  <1>4. CASE kind = "complete"
    <2>1. observation' = observation /\ outcome' = "complete" /\ Complete(observation)
      BY <1>1, <1>4, DecisionMeaning DEF Decide
    <2>2. observation.candidateAvailable \in SUBSET (1 .. observation.candidateReplicas)
      BY <1>1 DEF Valid
    <2>3. Cardinality(observation.candidateAvailable) >= observation.candidateReplicas
      BY <1>1, <2>1, CountTypes DEF Complete
    <2>4. observation.candidateAvailable = 1 .. observation.candidateReplicas
      BY SMTT(60), <1>1, <2>2, <2>3, AllAvailable
    <2>5. CompletesCleanly'
      BY <2>1, <2>4 DEF CompletesCleanly, Complete
    <2> QED
      BY <1>1, <2>1, <2>5 DEF IInv, DecisionTypeOK, ObservationStaysValid
  <1>5. CASE kind = "rollback"
    <2>1. observation' = observation /\ outcome' = "rollback"
      BY <1>1, <1>5 DEF Decide
    <2> QED
      BY <1>1, <2>1 DEF IInv, DecisionTypeOK, ObservationStaysValid, CompletesCleanly
  <1> QED
    BY <1>2, <1>3, <1>4, <1>5

(* The invariant holds at the start of an update and every step keeps it.  *)
LEMMA InitIInv == DecisionInit => IInv
  <1> SUFFICES ASSUME DecisionInit PROVE IInv
    OBVIOUS
  <1>1. observation \in Observation
    BY Zenon DEF DecisionInit, Observation
  <1> QED
    BY <1>1 DEF DecisionInit, IInv, DecisionTypeOK, ObservationStaysValid, CompletesCleanly

(* Every step keeps the invariant.                                         *)
LEMMA NextIInv == IInv /\ [DecisionNext]_decisionVars => IInv'
  <1> SUFFICES ASSUME IInv, [DecisionNext]_decisionVars PROVE IInv'
    OBVIOUS
  <1>1. CASE UNCHANGED decisionVars
    BY <1>1 DEF decisionVars, IInv, DecisionTypeOK, ObservationStaysValid, CompletesCleanly
  <1>2. CASE \E kind \in {"start", "drain", "complete", "rollback"} : Decide(kind)
    BY <1>2, DecideIInv
  <1>3. ASSUME NEW n \in 1 .. MaxReplicas,
               \/ PreviousBecomesReady(n) \/ PreviousBecomesUnready(n)
               \/ PreviousEnds(n)
               \/ CandidateBecomesReady(n) \/ CandidateBecomesAvailable(n)
               \/ CandidateBecomesUnready(n) \/ CandidateEnds(n)
        PROVE  IInv'
    BY <1>3, ReplicasIInv
  <1>4. CASE DeadlinePasses
    <2>1. PolicyReplicas(observation) > 0
      BY DEF IInv, ObservationStaysValid, Valid, PolicyValid
    <2>2. 1 \in 1 .. MaxReplicas
      BY <2>1, MaxReplicasAssumption
         DEF IInv, DecisionTypeOK, Observation, PolicyReplicas, Larger
    <2> QED
      BY <1>4, <2>2, ReplicasIInv
  <1> QED
    BY <1>1, <1>2, <1>3, <1>4 DEF DecisionNext

-----------------------------------------------------------------------------
(* Why the scheduler is never idle.  Were it to wait while no started      *)
(* candidate is still on its way, then no ready previous replica could be  *)
(* spared and no candidate could be started; the first needs every         *)
(* active replica, the second the full surge, and a policy with neither    *)
(* surge nor tolerance is refused.                                         *)

(* Where starts are exhausted, there is no room or nothing to start.       *)
LEMMA NoStart ==
    ASSUME NEW o \in Observation, NEW p \in Policy, Valid(o, p),
           o.candidateTerminal = {}, Starts(o, p) = {}
    PROVE  \/ Cardinality(o.candidateActive) >= o.candidateReplicas
           \/ ActiveCount(o) >= ActiveLimit(o, p)
  <1> SUFFICES ASSUME Cardinality(o.candidateActive) < o.candidateReplicas,
                      ActiveCount(o) < ActiveLimit(o, p)
               PROVE  FALSE
    BY CountTypes, MaxReplicasAssumption DEF Observation
  <1>1. o.candidateReplicas \in Nat
    BY MaxReplicasAssumption DEF Observation
  <1>2. Missing(o) # {}
    <2>1. SUFFICES ASSUME Missing(o) = {} PROVE FALSE
      OBVIOUS
    <2>2. o.candidateActive = 1 .. o.candidateReplicas
      BY ZenonT(60), <2>1 DEF Missing, Valid
    <2>3. Cardinality(o.candidateActive) = o.candidateReplicas
      BY <1>1, <2>2, IntervalCount, SMTT(30)
    <2> QED
      BY <1>1, <2>3
  <1>3. StartCount(o, p) > 0
    BY <1>1, CountTypes DEF StartCount, Smaller, Minus
  <1> QED
    BY <1>2, <1>3, CountTypes, LowestTakes DEF Starts

(* Where drains are exhausted, every active previous replica is ready and  *)
(* needed.                                                                 *)
LEMMA NoDrain ==
    ASSUME NEW o \in Observation, NEW p \in Policy, Valid(o, p),
           o.previousActive # {}, Drains(o, p) = {}
    PROVE  /\ o.previousReady = o.previousActive
           /\ AvailableCount(o) <= MinimumAvailable(o, p)
  <1>1. o.previousReady = o.previousActive
    BY SMTT(60) DEF Drains, Valid
  <1>2. o.previousReady \in SUBSET (1 .. MaxReplicas)
    BY DEF Observation
  <1>3. ReadyBudget(o, p) = 0
    BY <1>1, <1>2, CountTypes, LowestTakes DEF Drains
  <1>4. AvailableCount(o) <= MinimumAvailable(o, p)
    BY <1>3, CountTypes DEF ReadyBudget, Minus
  <1> QED
    BY <1>1, <1>4, SMTT(30)

(* The invariant implies NeverIdle.                                        *)
LEMMA ValidNeverIdle ==
    ASSUME NEW o \in Observation, NEW p \in Policy, Valid(o, p),
           o.candidateAvailable = o.candidateActive
    PROVE  Decision(o, p).kind # "wait"
  <1> SUFFICES ASSUME Decision(o, p).kind = "wait" PROVE FALSE
    BY SMTT(60)
  <1> DEFINE a == Cardinality(o.candidateActive)
             c == o.candidateReplicas
  <1>1. /\ ~Complete(o) /\ Starts(o, p) = {} /\ Drains(o, p) = {}
        /\ o.candidateTerminal = {}
    BY DecisionMeaning
  <1>2. a >= c \/ ActiveCount(o) >= ActiveLimit(o, p)
    BY <1>1, NoStart
  <1>3. /\ c \in Nat /\ a \in Nat /\ p.surge \in Nat /\ p.unavailable \in Nat
        /\ ActiveLimit(o, p) >= c + p.surge
        /\ ActiveCount(o) = Cardinality(o.previousActive) + a
        /\ p.surge > 0 \/ p.unavailable > 0
    <2>1. /\ c \in Nat /\ o.previousReplicas \in Nat
          /\ p.surge \in Nat /\ p.unavailable \in Nat
      BY MaxReplicasAssumption DEF Observation, Policy
    <2>2. ActiveLimit(o, p) >= c + p.surge
      BY <2>1 DEF ActiveLimit, PolicyReplicas, Larger
    <2>3. p.surge > 0 \/ p.unavailable > 0
      BY DEF Valid, PolicyValid
    <2> QED
      BY <2>1, <2>2, <2>3, CountTypes DEF ActiveCount
  <1>4. CASE o.previousActive = {}
    <2>1. Cardinality(o.previousActive) = 0
      BY SMTT(60), <1>4, FS_EmptySet
    <2>2. a >= c
      BY SMTT(60), <1>2, <1>3, <2>1, CountTypes
    <2>3. o.candidateAvailable \in SUBSET (1 .. c)
      BY DEF Valid
    <2>4. o.candidateAvailable = 1 .. c
      BY <2>2, <2>3, AllAvailable
    <2>5. Cardinality(o.candidateAvailable) = c
      <3>1. c \in Nat
        BY <1>3
      <3>2. Cardinality(1 .. c) = c
        <4> HIDE DEF c
        <4> QED
          BY <3>1, IntervalCount
      <3> QED
        BY <2>4, <3>2
    <2> QED
      BY SMTT(60), <1>1, <1>4, <2>5 DEF Complete
  <1>5. CASE o.previousActive # {}
    <2>1. /\ o.previousReady = o.previousActive
          /\ AvailableCount(o) <= MinimumAvailable(o, p)
      BY <1>1, <1>5, NoDrain
    <2>2. Cardinality(o.previousActive) > 0
      <3>1. Cardinality(o.previousActive) # 0
        BY <1>5, CountTypes, FS_EmptySet
      <3> QED
        BY SMTT(60), <3>1, CountTypes
    <2>3. AvailableCount(o) = Cardinality(o.previousActive) + a
      BY <2>1 DEF AvailableCount
    <2>4. /\ Cardinality(o.previousActive) \in Nat
          /\ ActiveLimit(o, p) \in Nat /\ MinimumAvailable(o, p) \in Nat
      BY CountTypes
    <2>5. /\ MinimumAvailable(o, p) <= c
          /\ p.unavailable > 0 /\ c > 0 => MinimumAvailable(o, p) < c
      BY <1>3 DEF MinimumAvailable, Minus
    <2> HIDE DEF a, c
    <2>6. Cardinality(o.previousActive) + a <= MinimumAvailable(o, p)
      BY <2>1, <2>3
    <2>7. a < c /\ c > 0
      BY SMTT(60), <1>3, <2>2, <2>4, <2>5, <2>6
    <2>8. c + p.surge <= Cardinality(o.previousActive) + a
      BY <1>2, <1>3, <2>4, <2>7
    <2> QED
      BY SMTT(60), <1>3, <2>4, <2>5, <2>6, <2>7, <2>8
  <1> QED
    BY <1>4, <1>5

-----------------------------------------------------------------------------
(* The theorems.                                                           *)

(* The invariant holds throughout an update.                               *)
THEOREM InvariantIInv == DecisionSpec => []IInv
  BY InitIInv, NextIInv, PTL DEF DecisionSpec

(* Policy, observation and outcome keep their types.                       *)
THEOREM TypeCorrect == DecisionSpec => []DecisionTypeOK
  <1>1. IInv => DecisionTypeOK
    BY DEF IInv
  <1> QED
    BY InvariantIInv, <1>1, PTL

(* RLP-05: validate refuses no observation, whatever the decisions of      *)
(* RollingObservation::next and the changes among the replicas.            *)
THEOREM ObservationsAccepted == DecisionSpec => []ObservationStaysValid
  <1>1. IInv => ObservationStaysValid
    BY DEF IInv
  <1> QED
    BY InvariantIInv, <1>1, PTL

(* RLP-02: the scheduler always has something to do when no candidate is   *)
(* on its way.                                                             *)
THEOREM SchedulerNeverIdle == DecisionSpec => []NeverIdle
  <1>1. IInv => NeverIdle
    BY ValidNeverIdle DEF IInv, DecisionTypeOK, ObservationStaysValid, NeverIdle
  <1> QED
    BY InvariantIInv, <1>1, PTL

(* RollingAction::Complete means that nothing is left to do.               *)
THEOREM CompletionIsClean == DecisionSpec => []CompletesCleanly
  <1>1. IInv => CompletesCleanly
    BY DEF IInv
  <1> QED
    BY InvariantIInv, <1>1, PTL

(* drain_action never takes availability below the policy's minimum.       *)
THEOREM DrainsKeepAvailability == DecisionSpec => DrainKeepsAvailability
  <1>1. IInv /\ [DecisionNext]_decisionVars => [DrainWithinPolicy]_decisionVars
    <2> SUFFICES ASSUME IInv, Decide("drain")
                 PROVE  AvailableCount(observation') >=
                          Smaller(AvailableCount(observation),
                                  MinimumAvailable(observation, policy))
      BY DEF DrainWithinPolicy
    <2>1. /\ observation \in Observation /\ policy \in Policy
          /\ Valid(observation, policy)
      BY DEF IInv, DecisionTypeOK, ObservationStaysValid
    <2>2. observation' = Drained(observation, Drains(observation, policy))
      BY DecisionMeaning DEF Decide
    <2>3. /\ observation'.previousReady =
                observation.previousReady \ Drains(observation, policy)
          /\ observation'.candidateAvailable = observation.candidateAvailable
      BY <2>1, <2>2 DEF Drained, Observation
    <2> QED
      BY <2>1, <2>3, DrainWithinBudget DEF AvailableCount
  <1> QED
    BY InvariantIInv, <1>1, PTL DEF DecisionSpec, DrainKeepsAvailability

-----------------------------------------------------------------------------
(* The vocabulary of RollingUpdate as operators of an update u, of reports *)
(* s (status files) and of checkpoints p.                                  *)

Group(u, count) == UNION {{i} \X (1 .. count[i]) : i \in u.instances}

Wanted(u, g) == Group(u, IF g = "previous" THEN u.previous ELSE u.candidate)

Ceiling(u) ==
    Larger(Cardinality(Wanted(u, "previous")), Cardinality(Wanted(u, "candidate")))
        + Cardinality(Group(u, u.surge))

(* A replica that waits to be started has a start left.                    *)
Entry(u) ==
    {e \in [phase : ReplicaPhases, attempt : 0 .. u.maxRestarts + 1] :
        e.phase \in {"pending", "backoff"} => e.attempt <= u.maxRestarts}

Report(u, g) == [Wanted(u, g) -> Entry(u)]

CheckpointRecord(u) ==
    [phase : ProgressPhases, enabled : SUBSET Wanted(u, "candidate"),
     draining : SUBSET Wanted(u, "previous")]

(* What may still run of the previous generation, and what has ended for   *)
(* good of the candidate.                                                  *)
ActiveReplicas(u, s) == {r \in Wanted(u, "previous") : Has(s, r, Waiting)}

Lost(u, s) == {r \in Wanted(u, "candidate") : Has(s, r, {"failed", "exhausted", "stopped"})}

Unseen(u, s) == s = NoStatus /\ Wanted(u, "previous") # {}

(* A candidate in one of these phases has been started.                    *)
Begun == Running \cup {"backoff", "succeeded"}

(* The replicas of both generations respect the ceiling of the stack and   *)
(* the limit of every instance.                                            *)
Within(u, previous, candidate) ==
    /\ Cardinality(previous) + Cardinality(candidate) <= Ceiling(u)
    /\ \A i \in u.instances :
          Cardinality(Ordinals(i, previous)) + Cardinality(Ordinals(i, candidate))
            <= Larger(u.previous[i], u.candidate[i]) + u.surge[i]

(* A checkpoint the reports agree with: what it enables fits beside what   *)
(* the previous generation may still run; it enables nothing as long as    *)
(* the previous generation has not reported; it completes only when the    *)
(* previous generation is gone.                                            *)
Safe(u, previous, candidate, p) ==
    /\ Within(u, ActiveReplicas(u, previous), p.enabled \ Lost(u, candidate))
    /\ Unseen(u, previous) => p.enabled = {} /\ p.phase # "completing"
    /\ p.phase = "completing" => ActiveReplicas(u, previous) = {}

Settled(p, phase) ==
    /\ p.phase = "completed" => phase \in {"committed", "rolledback"}
    /\ p.phase = "rolledback" => phase = "rolledback"

-----------------------------------------------------------------------------
(* The inductive invariant.                                                *)

UpdateTypes ==
    /\ update \in Updates
    /\ txn \in {"activated", "committed", "rolledback"}
    /\ progress \in CheckpointRecord(update) /\ memory \in CheckpointRecord(update)
    /\ expired \in BOOLEAN
    /\ status = [g \in Generations |-> status[g]]
    /\ controls = [g \in Generations |-> controls[g]]
    /\ sup \in [Generations -> {"off", "on", "orphan"}]
    /\ \A g \in Generations :
          /\ status[g] = NoStatus \/ status[g] \in Report(update, g)
          /\ controls[g] \subseteq Wanted(update, g)
          /\ sup[g] # "off" => status[g] # NoStatus
    /\ routes \subseteq UNION {{g} \X Wanted(update, g) : g \in Generations}
    /\ pc \in {"load", "observe", "decide", "publish", "save", "routing", "down"}
    /\ seen = NoStatus \/ seen \in Report(update, "previous")
    /\ crashes \in 0 .. update.maxCrashes

(* No candidate has been started, or will be under instructions that are   *)
(* out of date, that the saved checkpoint does not enable.                 *)
OnlyEnabledBegin ==
    /\ \A r \in Wanted(update, "candidate") :
          Has(status["candidate"], r, Begun) => r \in progress.enabled
    /\ controls["candidate"] \subseteq progress.enabled

(* The saved checkpoint.                                                   *)
ProgressIsSafe ==
    /\ Safe(update, status["previous"], status["candidate"], progress)
    /\ Settled(progress, txn)
    /\ progress.phase = "none" => progress.enabled = {}

(* While the daemon decides, on a report that may be out of date.          *)
DecisionIsSafe ==
    /\ pc \in {"observe", "decide"} => txn = "activated" /\ progress.phase = "rolling"
    /\ pc = "decide" /\ ~Unseen(update, seen) =>
          /\ ~Unseen(update, status["previous"])
          /\ ActiveReplicas(update, status["previous"]) \subseteq ActiveReplicas(update, seen)
          /\ Within(update, ActiveReplicas(update, seen),
                    progress.enabled \ Lost(update, status["candidate"]))

(* Between a decision and its checkpoint.                                  *)
MemoryIsSafe ==
    /\ pc \in {"publish", "save"} =>
          /\ Safe(update, status["previous"], status["candidate"], memory)
          /\ Settled(memory, txn)
          /\ memory.phase # "none"
          /\ progress.enabled \subseteq memory.enabled
          /\ \/ txn # "activated"
             \/ memory.phase \in {"rolling", "completing"}
             \/ memory.draining \subseteq progress.draining
    /\ pc = "save" =>
          \A r \in memory.draining \ progress.draining : <<"previous", r>> \notin routes

UpdateInv ==
    UpdateTypes /\ OnlyEnabledBegin /\ ProgressIsSafe /\ DecisionIsSafe /\ MemoryIsSafe

-----------------------------------------------------------------------------
(* Availability, when workers stay healthy and no process dies.            *)

ReadyOf(u, s) == {r \in Wanted(u, "previous") : Has(s, r, Ready)}

AvailableOf(u, c) == {r \in Wanted(u, "candidate") : Has(c, r, {"available"})}

(* What the policy of an instance asks for.                                *)
Least(u, i) == Smaller(u.previous[i], Minus(u.candidate[i], u.unavailable[i]))

Kept(u, ready, available) ==
    \A i \in u.instances :
        Cardinality(Ordinals(i, ready)) + Cardinality(Ordinals(i, available)) >= Least(u, i)

(* A checkpoint whose drains the policy can bear, and which completes only *)
(* with all candidates available.                                          *)
Bearable(u, s, c, p) ==
    /\ Kept(u, ReadyOf(u, s) \ p.draining, AvailableOf(u, c))
    /\ p.phase = "completing" => AvailableOf(u, c) = Wanted(u, "candidate")

Calm == ~update.workersFail /\ update.maxCrashes = 0 /\ txn = "activated"

(* The reports of healthy workers: the previous generation is ready until  *)
(* it is drained, the candidate's replicas only ever improve.              *)
ReportsAreCalm ==
    /\ pc # "down"
    /\ status["previous"] # NoStatus
    /\ \A r \in Wanted(update, "previous") :
          status["previous"][r].phase \in {"ready", "stopped"}
    /\ status["candidate"] # NoStatus => \A r \in Wanted(update, "candidate") :
          status["candidate"][r].phase \in {"pending", "up", "ready", "available"}
    /\ \A g \in Generations :
          /\ sup[g] # "orphan"
          /\ sup[g] = "off" => \A r \in Wanted(update, g) : ~Has(status[g], r, Waiting)

(* Only a saved drain changes the previous generation's report after the   *)
(* daemon has read it.                                                     *)
SightIsCalm ==
    pc = "decide" => \A r \in Wanted(update, "previous") :
        /\ seen # NoStatus
        /\ seen[r].phase \in {"ready", "stopped"}
        /\ seen[r].phase = "stopped" => status["previous"][r].phase = "stopped"
        /\ r \notin progress.draining => status["previous"][r].phase = seen[r].phase

CheckpointsAreBearable ==
    /\ Bearable(update, status["previous"], status["candidate"], progress)
    /\ pc \in {"publish", "save"} =>
          /\ Bearable(update, status["previous"], status["candidate"], memory)
          /\ progress.draining \subseteq memory.draining

CalmInv == Calm => ReportsAreCalm /\ SightIsCalm /\ CheckpointsAreBearable

-----------------------------------------------------------------------------
(* What the steps need of the limits: fewer replicas stay within them,     *)
(* more in service are enough.  RollingUpdateProofs shows it by counting.  *)
LimitsAreMonotone ==
    \A u \in Updates :
        /\ Within(u, Wanted(u, "previous"), {})
        /\ \A A \in SUBSET Wanted(u, "previous"), B \in SUBSET Wanted(u, "candidate") :
              Within(u, A, B) => \A A1 \in SUBSET A, B1 \in SUBSET B : Within(u, A1, B1)
        /\ \A R1, V1 : \A R \in SUBSET R1, V \in SUBSET V1 : Kept(u, R, V) => Kept(u, R1, V1)

-----------------------------------------------------------------------------
(* The plans.                                                              *)

-----------------------------------------------------------------------------
(* The two vocabularies agree, before and after a step.                    *)
LEMMA Translation ==
    /\ \A g : Replicas(g) = Wanted(update, g) /\ Replicas(g)' = Wanted(update', g)
    /\ StackLimit = Ceiling(update) /\ StackLimit' = Ceiling(update')
    /\ Progress = CheckpointRecord(update) /\ Progress' = CheckpointRecord(update')
    /\ Instances = update.instances /\ Instances' = update'.instances
  BY Zenon DEF Replicas, Members, Instances, Wanted, Group, StackLimit, Ceiling, Progress, CheckpointRecord

(* The numbers of an instance.                                             *)
LEMMA InstanceNumbers ==
    ASSUME NEW u \in Updates, NEW i \in u.instances
    PROVE  /\ u.previous[i] \in 0 .. MaxReplicas /\ u.previous[i] \in Nat
           /\ u.candidate[i] \in 0 .. MaxReplicas /\ u.candidate[i] \in Nat
           /\ u.surge[i] \in 0 .. MaxReplicas /\ u.surge[i] \in Nat
           /\ Larger(u.previous[i], u.candidate[i]) + u.surge[i] \in Nat
  <1>1. [startFirst |-> u.startFirst[i], surge |-> u.surge[i],
         unavailable |-> u.unavailable[i]] \in Policy
    BY Zenon, UpdatesAssumption
  <1>2. u.surge[i] \in 0 .. MaxReplicas
    BY Zenon, <1>1 DEF Policy
  <1>3. u.previous[i] \in 0 .. MaxReplicas /\ u.candidate[i] \in 0 .. MaxReplicas
    BY Zenon, UpdatesAssumption
  <1> QED
    BY <1>2, <1>3, MaxReplicasAssumption DEF Larger

(* The replicas of a plan.                                                 *)
LEMMA WantedBounded ==
    ASSUME NEW u \in Updates, NEW g
    PROVE  Wanted(u, g) \in SUBSET (u.instances \X (1 .. MaxReplicas))
  <1>1. ASSUME NEW count, \A i \in u.instances : count[i] \in 0 .. MaxReplicas
        PROVE  Group(u, count) \subseteq u.instances \X (1 .. MaxReplicas)
    BY <1>1, MaxReplicasAssumption DEF Group
  <1>2. /\ \A i \in u.instances : u.previous[i] \in 0 .. MaxReplicas
        /\ \A i \in u.instances : u.candidate[i] \in 0 .. MaxReplicas
    BY Zenon, InstanceNumbers
  <1>3. /\ Group(u, u.previous) \subseteq u.instances \X (1 .. MaxReplicas)
        /\ Group(u, u.candidate) \subseteq u.instances \X (1 .. MaxReplicas)
    BY Zenon, <1>1, <1>2
  <1> QED
    BY Zenon, <1>3 DEF Wanted

-----------------------------------------------------------------------------
(* The steps of supervisors and workers.                                   *)

LEMMA FewerWithin ==
    ASSUME LimitsAreMonotone, NEW u \in Updates,
           NEW A \in SUBSET Wanted(u, "previous"), NEW B \in SUBSET Wanted(u, "candidate"),
           NEW A1 \in SUBSET A, NEW B1 \in SUBSET B, Within(u, A, B)
    PROVE  Within(u, A1, B1)
  BY Zenon DEF LimitsAreMonotone

(* A checkpoint stays safe when the previous generation reports for the    *)
(* first time, when what it may run shrinks, and when candidates are lost. *)
LEMMA SafeStays ==
    ASSUME LimitsAreMonotone, NEW u \in Updates, NEW p \in CheckpointRecord(u), NEW s, NEW t, NEW c, NEW d,
           Safe(u, s, c, p),
           s = NoStatus \/ ActiveReplicas(u, t) \subseteq ActiveReplicas(u, s),
           Unseen(u, t) => Unseen(u, s),
           Lost(u, c) \subseteq Lost(u, d)
    PROVE  Safe(u, t, d, p)
  <1>1. /\ p.enabled \subseteq Wanted(u, "candidate")
        /\ ActiveReplicas(u, s) \subseteq Wanted(u, "previous") /\ ActiveReplicas(u, t) \subseteq Wanted(u, "previous")
    BY Zenon DEF CheckpointRecord, ActiveReplicas
  <1>2. CASE Unseen(u, s)
    <2>1. p.enabled = {} /\ p.phase # "completing"
      BY ZenonT(40), <1>2 DEF Safe
    <2>2. Within(u, ActiveReplicas(u, t), p.enabled \ Lost(u, d))
      BY <1>1, <2>1, FewerWithin DEF LimitsAreMonotone
    <2> QED
      BY Zenon, <2>1, <2>2 DEF Safe
  <1>3. CASE ~Unseen(u, s)
    <2>1. ActiveReplicas(u, t) \subseteq ActiveReplicas(u, s)
      BY Zenon, <1>1, <1>3 DEF Unseen
    <2>2. Within(u, ActiveReplicas(u, t), p.enabled \ Lost(u, d))
      BY <1>1, <2>1, FewerWithin DEF Safe
    <2> QED
      BY Zenon, <1>3, <2>1, <2>2 DEF Safe
  <1> QED
    BY Zenon, <1>2, <1>3

(* A report is not the absence of one.                                     *)
LEMMA ReportsAreReports ==
    ASSUME NEW u \in Updates, NEW g
    PROVE  NoStatus \notin Report(u, g)
  <1>1. NoStatus \notin [Wanted(u, g) -> [phase : ReplicaPhases, attempt : 0 .. u.maxRestarts + 1]]
    BY Zenon, WantedBounded, NoStatusAssumption
  <1>2. Entry(u) \subseteq [phase : ReplicaPhases, attempt : 0 .. u.maxRestarts + 1]
    BY Zenon DEF Entry
  <1> QED
    BY Zenon, <1>1, <1>2 DEF Report

Terminal == {"failed", "exhausted", "stopped"}

(* A supervisor installs a new report of its generation, in which nothing  *)
(* that has ended is back, nothing lost is recovered and no candidate has  *)
(* begun that is not enabled.                                              *)
NewReport(g, new) ==
    /\ update' = update
    /\ UNCHANGED <<fileVars, daemonVars>>
    /\ crashes' \in 0 .. update.maxCrashes
    /\ new \in Report(update, g)
    /\ status' = [status EXCEPT ![g] = new]
    /\ sup' \in [Generations -> {"off", "on", "orphan"}]
    /\ \A h \in Generations : h # g => sup'[h] = sup[h]
    /\ \E c \in SUBSET Wanted(update, g) :
          /\ controls' = [controls EXCEPT ![g] = c]
          /\ g = "candidate" => c \subseteq progress.enabled
    /\ status[g] # NoStatus => \A r \in Wanted(update, g) :
          /\ new[r].phase \in Waiting => status[g][r].phase \in Waiting
          /\ status[g][r].phase \in Terminal => new[r].phase \in Terminal
    /\ g = "candidate" => \A r \in Wanted(update, g) :
          new[r].phase \in Begun => r \in progress.enabled

LEMMA NewReportKeepsInv ==
    ASSUME LimitsAreMonotone, UpdateInv, NEW g \in Generations, NEW new, NewReport(g, new)
    PROVE  UpdateInv'
  <1> USE DEF UpdateInv
  <1>1. /\ new \in Report(update, g) /\ new # NoStatus
        /\ status'[g] = new /\ \A h \in Generations : h # g => status'[h] = status[h]
        /\ status' = [h \in Generations |-> status'[h]]
    BY ReportsAreReports DEF NewReport, UpdateTypes
  <1>2. /\ update' = update /\ txn' = txn /\ progress' = progress /\ expired' = expired
        /\ routes' = routes /\ pc' = pc /\ seen' = seen /\ memory' = memory
    BY Zenon DEF NewReport, fileVars, daemonVars
  <1>3. PICK c \in SUBSET Wanted(update, g) :
            /\ controls' = [controls EXCEPT ![g] = c]
            /\ g = "candidate" => c \subseteq progress.enabled
    BY Zenon DEF NewReport
  <1>4. /\ controls'[g] = c /\ \A h \in Generations : h # g => controls'[h] = controls[h]
        /\ controls' = [h \in Generations |-> controls'[h]]
    BY Zenon, <1>3 DEF UpdateTypes
  <1>5. UpdateTypes'
    <2>1. \A h \in Generations :
            /\ status'[h] = NoStatus \/ status'[h] \in Report(update', h)
            /\ controls'[h] \subseteq Wanted(update', h)
            /\ sup'[h] # "off" => status'[h] # NoStatus
      BY Zenon, <1>1, <1>2, <1>4 DEF UpdateTypes, NewReport
    <2>2. sup' \in [Generations -> {"off", "on", "orphan"}] /\ crashes' \in 0 .. update'.maxCrashes
      BY Zenon, <1>2 DEF NewReport
    <2> QED
      BY <1>1, <1>2, <1>4, <2>1, <2>2 DEF UpdateTypes
  <1>6. /\ status["previous"] = NoStatus
             \/ ActiveReplicas(update, status'["previous"]) \subseteq ActiveReplicas(update, status["previous"])
        /\ Unseen(update, status'["previous"]) => Unseen(update, status["previous"])
    BY Zenon, <1>1 DEF NewReport, ActiveReplicas, Unseen, Has, Generations
  <1>7. Lost(update, status["candidate"]) \subseteq Lost(update, status'["candidate"])
    BY Zenon, <1>1 DEF NewReport, Lost, Has, Terminal, Generations
  <1>8. /\ update \in Updates /\ progress \in CheckpointRecord(update) /\ memory \in CheckpointRecord(update)
    BY Zenon DEF UpdateTypes
  <1>9. OnlyEnabledBegin'
    <2>1. \A r \in Wanted(update, "candidate") :
            Has(status'["candidate"], r, Begun) => r \in progress.enabled
      BY Zenon, <1>1 DEF OnlyEnabledBegin, NewReport, Has, Generations
    <2>2. controls'["candidate"] \subseteq progress.enabled
      BY Zenon, <1>3, <1>4 DEF OnlyEnabledBegin, Generations
    <2> QED
      BY Zenon, <1>2, <2>1, <2>2 DEF OnlyEnabledBegin
  <1>10. ProgressIsSafe'
    <2>1. Safe(update, status'["previous"], status'["candidate"], progress)
      BY Zenon, <1>6, <1>7, <1>8, SafeStays DEF ProgressIsSafe
    <2> QED
      BY Zenon, <1>2, <2>1 DEF ProgressIsSafe
  <1>11. DecisionIsSafe'
    <2>1. ASSUME pc = "decide", ~Unseen(update, seen)
          PROVE  /\ ~Unseen(update, status'["previous"])
                 /\ ActiveReplicas(update, status'["previous"]) \subseteq ActiveReplicas(update, seen)
                 /\ Within(update, ActiveReplicas(update, seen),
                           progress.enabled \ Lost(update, status'["candidate"]))
      <3>1. /\ ~Unseen(update, status["previous"])
            /\ ActiveReplicas(update, status["previous"]) \subseteq ActiveReplicas(update, seen)
            /\ Within(update, ActiveReplicas(update, seen),
                      progress.enabled \ Lost(update, status["candidate"]))
        BY Zenon, <2>1 DEF DecisionIsSafe
      <3>2. ActiveReplicas(update, status'["previous"]) \subseteq ActiveReplicas(update, status["previous"])
        BY Zenon, <1>6, <3>1 DEF Unseen, ActiveReplicas
      <3>3. /\ ActiveReplicas(update, seen) \subseteq Wanted(update, "previous")
            /\ progress.enabled \ Lost(update, status["candidate"]) \subseteq Wanted(update, "candidate")
            /\ progress.enabled \ Lost(update, status'["candidate"])
                 \subseteq progress.enabled \ Lost(update, status["candidate"])
        BY Zenon, <1>7, <1>8 DEF ActiveReplicas, CheckpointRecord
      <3> QED
        BY <1>6, <1>8, <3>1, <3>2, <3>3, FewerWithin, SMTT(30)
    <2> QED
      BY ZenonT(40), <1>2, <2>1 DEF DecisionIsSafe
  <1>12. MemoryIsSafe'
    <2>1. pc \in {"publish", "save"} =>
            Safe(update, status'["previous"], status'["candidate"], memory)
      BY Zenon, <1>6, <1>7, <1>8, SafeStays DEF MemoryIsSafe
    <2> QED
      BY Zenon, <1>2, <2>1 DEF MemoryIsSafe
  <1> QED
    BY Zenon, <1>5, <1>9, <1>10, <1>11, <1>12

(* finish_replica ends a worker, or lets it wait for a restart it has left. *)
LEMMA FinishedEntry ==
    ASSUME update \in Updates, NEW e \in Entry(update), e.phase \in Running, NEW success \in BOOLEAN
    PROVE  /\ Finished(e, success) \in Entry(update)
           /\ Finished(e, success).phase \in {"backoff", "exhausted", "succeeded", "failed"}
  <1> DEFINE restart == \/ update.restart = "always"
                        \/ update.restart = "on-failure" /\ ~success
             phase == CASE restart /\ e.attempt < update.maxRestarts + 1 -> "backoff"
                        [] restart -> "exhausted"
                        [] success -> "succeeded"
                        [] OTHER   -> "failed"
  <1>1. e \in [phase : ReplicaPhases, attempt : 0 .. update.maxRestarts + 1]
    BY Zenon DEF Entry
  <1>2. Finished(e, success) = [e EXCEPT !.phase = phase]
    BY Zenon DEF Finished
  <1>3. /\ phase \in {"backoff", "exhausted", "succeeded", "failed"}
        /\ phase = "backoff" => e.attempt < update.maxRestarts + 1
    BY Zenon
  <1> HIDE DEF phase
  <1>4. update.maxRestarts \in Nat
    BY Zenon, UpdatesAssumption
  <1>5. /\ Finished(e, success) \in [phase : ReplicaPhases, attempt : 0 .. update.maxRestarts + 1]
        /\ Finished(e, success).phase = phase /\ Finished(e, success).attempt = e.attempt
    BY Zenon, <1>1, <1>2, <1>3 DEF ReplicaPhases, Waiting, Ended
  <1>6. Finished(e, success).phase \in {"pending", "backoff"} =>
            Finished(e, success).attempt <= update.maxRestarts
    BY <1>1, <1>3, <1>4, <1>5
  <1> QED
    BY Zenon, <1>3, <1>5, <1>6 DEF Entry

(* recover_interrupted keeps a report a report.                            *)
LEMMA InterruptedReport ==
    ASSUME update \in Updates, NEW g, NEW s \in Report(update, g)
    PROVE  /\ Interrupted(s) \in Report(update, g)
           /\ \A r \in Wanted(update, g) :
                 /\ s[r].phase \in Running =>
                       Interrupted(s)[r].phase \in {"backoff", "exhausted", "succeeded", "failed"}
                 /\ s[r].phase \notin Running => Interrupted(s)[r] = s[r]
  <1>1. DOMAIN s = Wanted(update, g) /\ \A r \in Wanted(update, g) : s[r] \in Entry(update)
    BY Zenon DEF Report
  <1>2. Interrupted(s) = [r \in Wanted(update, g) |->
            IF s[r].phase \in Running THEN Finished(s[r], FALSE) ELSE s[r]]
    BY Zenon, <1>1, Zenon DEF Interrupted
  <1>3. \A r \in Wanted(update, g) :
            s[r].phase \in Running =>
                /\ Finished(s[r], FALSE) \in Entry(update)
                /\ Finished(s[r], FALSE).phase \in {"backoff", "exhausted", "succeeded", "failed"}
    BY Zenon, <1>1, FinishedEntry, Zenon
  <1> HIDE DEF Interrupted
  <1>4. Interrupted(s) \in Report(update, g)
    BY Zenon, <1>1, <1>2, <1>3 DEF Report
  <1> QED
    BY Zenon, <1>2, <1>3, <1>4

(* Each step of a supervisor, or of one of its workers, installs such a    *)
(* report.                                                                 *)
LEMMA BootReports ==
    ASSUME UpdateInv, NEW g \in Generations, Boot(g), update' = update
    PROVE  \E new : NewReport(g, new)
  <1> DEFINE new == IF status[g] = NoStatus THEN Pending(g) ELSE Interrupted(status[g])
  <1>1. /\ update \in Updates /\ progress \in CheckpointRecord(update)
        /\ status[g] = NoStatus \/ status[g] \in Report(update, g)
        /\ status = [h \in Generations |-> status[h]]
        /\ sup \in [Generations -> {"off", "on", "orphan"}] /\ crashes \in 0 .. update.maxCrashes
    BY Zenon DEF UpdateInv, UpdateTypes
  <1>2. Pending(g) \in Report(update, g) /\ \A r \in Wanted(update, g) : Pending(g)[r].phase = "pending"
    <2>1. update.maxRestarts \in Nat
      BY Zenon, <1>1, Zenon, UpdatesAssumption
    <2>2. [phase |-> "pending", attempt |-> 0] \in Entry(update)
      BY <2>1 DEF Entry, ReplicaPhases, Waiting
    <2> QED
      BY Zenon, <2>2, Translation DEF Pending, Report
  <1>3. new \in Report(update, g)
    BY Zenon, <1>1, <1>2, InterruptedReport
  <1>4. status' = [status EXCEPT ![g] = new]
    BY Zenon DEF Boot
  <1>5. /\ Controls(g) \in SUBSET Wanted(update, g)
        /\ g = "candidate" => Controls(g) \subseteq progress.enabled
    BY Zenon, <1>1 DEF Controls, CheckpointRecord, Generations
  <1>6. /\ controls' = [controls EXCEPT ![g] = Controls(g)]
        /\ sup' = [sup EXCEPT ![g] = "on"] /\ UNCHANGED <<fileVars, daemonVars>> /\ crashes' = crashes
    BY Zenon DEF Boot
  <1>7. ASSUME status[g] # NoStatus, NEW r \in Wanted(update, g)
        PROVE  /\ new[r].phase \in Waiting => status[g][r].phase \in Waiting
               /\ status[g][r].phase \in Terminal => new[r].phase \in Terminal
    BY <1>1, <1>7, InterruptedReport DEF Waiting, Running, Terminal
  <1>8. ASSUME g = "candidate", NEW r \in Wanted(update, g), new[r].phase \in Begun
        PROVE  r \in progress.enabled
    <2>1. status[g] # NoStatus
      BY Zenon, <1>2, <1>8 DEF Begun, Running
    <2>2. status[g][r].phase \in Begun
      BY Zenon, <1>1, <1>8, <2>1, InterruptedReport DEF Begun
    <2> QED
      BY Zenon, <1>8, <2>1, <2>2 DEF UpdateInv, OnlyEnabledBegin, Has
  <1>9. /\ sup' \in [Generations -> {"off", "on", "orphan"}]
        /\ \A h \in Generations : h # g => sup'[h] = sup[h]
    BY Zenon, <1>1, <1>6
  <1> HIDE DEF new
  <1> QED
    BY Zenon, <1>1, <1>3, <1>4, <1>5, <1>6, <1>7, <1>8, <1>9 DEF NewReport

LEMMA RefreshReports ==
    ASSUME UpdateInv, NEW g \in Generations, Refresh(g), update' = update
    PROVE  \E new : NewReport(g, new)
  <1> DEFINE drained(r) == g = "previous" /\ r \in Controls(g)
             new == [r \in Wanted(update, g) |->
                        IF drained(r) THEN [status[g][r] EXCEPT !.phase = "stopped"] ELSE status[g][r]]
  <1>1. /\ update \in Updates /\ progress \in CheckpointRecord(update)
        /\ status[g] # NoStatus /\ status[g] \in Report(update, g)
        /\ status = [h \in Generations |-> status[h]]
        /\ sup \in [Generations -> {"off", "on", "orphan"}] /\ crashes \in 0 .. update.maxCrashes
    BY Zenon DEF UpdateInv, UpdateTypes, Refresh
  <1>2. \A r \in Wanted(update, g) :
            status[g][r] \in Entry(update) /\ [status[g][r] EXCEPT !.phase = "stopped"] \in Entry(update)
    BY <1>1 DEF Report, Entry, ReplicaPhases
  <1>3. new \in Report(update, g)
    BY Zenon, <1>2 DEF Report
  <1>4. status' = [status EXCEPT ![g] = new]
    BY Zenon, <1>1, Translation DEF Refresh
  <1>5. /\ Controls(g) \in SUBSET Wanted(update, g)
        /\ g = "candidate" => Controls(g) \subseteq progress.enabled
    BY Zenon, <1>1 DEF Controls, CheckpointRecord, Generations
  <1>6. /\ controls' = [controls EXCEPT ![g] = Controls(g)]
        /\ sup' = sup /\ UNCHANGED <<fileVars, daemonVars>> /\ crashes' = crashes
    BY Zenon DEF Refresh
  <1>7. \A r \in Wanted(update, g) :
          /\ new[r].phase \in Waiting => status[g][r].phase \in Waiting
          /\ status[g][r].phase \in Terminal => new[r].phase \in Terminal
    BY Zenon, <1>2 DEF Waiting, Running, Terminal, Entry
  <1>8. g = "candidate" => \A r \in Wanted(update, g) : new[r].phase \in Begun => r \in progress.enabled
    BY Zenon, <1>1 DEF UpdateInv, OnlyEnabledBegin, Has
  <1> HIDE DEF new
  <1> QED
    BY Zenon, <1>1, <1>3, <1>4, <1>5, <1>6, <1>7, <1>8 DEF NewReport

(* The report of one replica changes.                                      *)
LEMMA OneReports ==
    ASSUME UpdateInv, NEW g \in Generations, NEW r \in Wanted(update, g), NEW e \in Entry(update),
           update' = update, UNCHANGED <<fileVars, sup, controls, daemonVars, crashes>>,
           status[g] # NoStatus, status' = [status EXCEPT ![g][r] = e],
           status[g][r].phase \in Waiting,
           g = "candidate" /\ e.phase \in Begun => r \in progress.enabled
    PROVE  \E new : NewReport(g, new)
  <1> DEFINE new == [status[g] EXCEPT ![r] = e]
  <1>1. /\ status[g] \in Report(update, g) /\ controls[g] \in SUBSET Wanted(update, g)
        /\ controls = [h \in Generations |-> controls[h]]
        /\ sup \in [Generations -> {"off", "on", "orphan"}] /\ crashes \in 0 .. update.maxCrashes
    BY Zenon DEF UpdateInv, UpdateTypes
  <1>2. new \in Report(update, g) /\ status' = [status EXCEPT ![g] = new]
    BY Zenon, <1>1 DEF Report
  <1>3. \A q \in Wanted(update, g) :
          /\ new[q].phase \in Waiting => status[g][q].phase \in Waiting
          /\ status[g][q].phase \in Terminal => new[q].phase \in Terminal
    BY Zenon, <1>1 DEF Report, Waiting, Running, Terminal
  <1>4. g = "candidate" => \A q \in Wanted(update, g) : new[q].phase \in Begun => q \in progress.enabled
    BY Zenon, <1>1 DEF Report, UpdateInv, OnlyEnabledBegin, Has
  <1>5. /\ controls' = [controls EXCEPT ![g] = controls[g]]
        /\ g = "candidate" => controls[g] \subseteq progress.enabled
    BY Zenon, <1>1 DEF UpdateInv, OnlyEnabledBegin
  <1> HIDE DEF new
  <1> QED
    BY Zenon, <1>1, <1>2, <1>3, <1>4, <1>5 DEF NewReport

LEMMA WorkerReports ==
    ASSUME UpdateInv, NEW g \in Generations, NEW r \in Wanted(update, g), update' = update,
           \/ Start(g, r) \/ BecomeReady(g, r) \/ BecomeUnready(g, r)
           \/ g = "candidate" /\ BecomeAvailable(r)
           \/ \E success \in BOOLEAN : WorkerExits(g, r, success)
    PROVE  \E new : NewReport(g, new)
  <1>1. /\ update \in Updates /\ update.maxRestarts \in Nat
        /\ status[g] = NoStatus \/ status[g] \in Report(update, g)
        /\ status = [h \in Generations |-> status[h]]
    BY Zenon, UpdatesAssumption DEF UpdateInv, UpdateTypes
  <1>2. CASE Start(g, r)
    <2> DEFINE e == [phase |-> "up", attempt |-> status[g][r].attempt + 1]
    <2>1. /\ status[g] # NoStatus /\ status[g][r].phase \in {"pending", "backoff"}
          /\ g = "candidate" => r \in controls[g]
      BY Zenon, <1>2 DEF Start, Startable, Has
    <2>2. e \in Entry(update)
      BY <1>1, <2>1 DEF Report, Entry, ReplicaPhases, Waiting, Running
    <2>3. status' = [status EXCEPT ![g][r] = e]
      BY Zenon, <1>2 DEF Start
    <2>4. g = "candidate" => r \in progress.enabled
      BY Zenon, <2>1 DEF UpdateInv, OnlyEnabledBegin
    <2>5. UNCHANGED <<fileVars, sup, controls, daemonVars, crashes>> /\ status[g][r].phase \in Waiting
      BY Zenon, <1>2, <2>1 DEF Start, Waiting
    <2> HIDE DEF e
    <2> QED
      BY Zenon, <2>1, <2>2, <2>3, <2>4, <2>5, OneReports
  <1>3. ASSUME NEW from, NEW to \in Running, Signal(g, r, from, to)
        PROVE  \E new : NewReport(g, new)
    <2> DEFINE e == [status[g][r] EXCEPT !.phase = to]
    <2>1. status[g] # NoStatus /\ status[g][r].phase \in Running
      BY Zenon, <1>3, Translation DEF Signal, Workers, Has
    <2>2. e \in Entry(update)
      BY Zenon, <1>1, <2>1 DEF Report, Entry, ReplicaPhases, Waiting, Running
    <2>3. status' = [status EXCEPT ![g][r] = e]
      BY Zenon, <1>3 DEF Signal
    <2>4. g = "candidate" => r \in progress.enabled
      BY Zenon, <2>1 DEF UpdateInv, OnlyEnabledBegin, Has, Begun
    <2>5. UNCHANGED <<fileVars, sup, controls, daemonVars, crashes>> /\ status[g][r].phase \in Waiting
      BY Zenon, <1>3, <2>1 DEF Signal, Waiting
    <2> HIDE DEF e
    <2> QED
      BY Zenon, <2>1, <2>2, <2>3, <2>4, <2>5, OneReports
  <1>4. ASSUME NEW success \in BOOLEAN, WorkerExits(g, r, success)
        PROVE  \E new : NewReport(g, new)
    <2> DEFINE e == Finished(status[g][r], success)
    <2>1. status[g] # NoStatus /\ status[g][r].phase \in Running
      BY Zenon, <1>4, Translation DEF WorkerExits, Workers, Has
    <2>2. e \in Entry(update)
      BY Zenon, <1>1, <2>1, FinishedEntry DEF Report
    <2>3. status' = [status EXCEPT ![g][r] = e]
      BY Zenon, <1>4 DEF WorkerExits
    <2>4. g = "candidate" => r \in progress.enabled
      BY Zenon, <2>1 DEF UpdateInv, OnlyEnabledBegin, Has, Begun
    <2>5. UNCHANGED <<fileVars, sup, controls, daemonVars, crashes>> /\ status[g][r].phase \in Waiting
      BY Zenon, <1>4, <2>1 DEF WorkerExits, Waiting
    <2> HIDE DEF e
    <2> QED
      BY Zenon, <2>1, <2>2, <2>3, <2>4, <2>5, OneReports
  <1>5. CASE BecomeReady(g, r) \/ BecomeUnready(g, r)
    BY Zenon, <1>3, <1>5 DEF BecomeReady, BecomeUnready, Running
  <1>6. CASE g = "candidate" /\ BecomeAvailable(r)
    <2> DEFINE e == [status[g][r] EXCEPT !.phase = "available"]
    <2>1. status[g] # NoStatus /\ status[g][r].phase = "ready"
      BY Zenon, <1>6 DEF BecomeAvailable, Has
    <2>2. e \in Entry(update)
      BY Zenon, <1>1, <2>1 DEF Report, Entry, ReplicaPhases, Waiting, Running
    <2>3. status' = [status EXCEPT ![g][r] = e]
      BY Zenon, <1>6 DEF BecomeAvailable
    <2>4. r \in progress.enabled
      BY Zenon, <1>6, <2>1 DEF UpdateInv, OnlyEnabledBegin, Has, Begun, Running
    <2>5. UNCHANGED <<fileVars, sup, controls, daemonVars, crashes>> /\ status[g][r].phase \in Waiting
      BY Zenon, <1>6, <2>1 DEF BecomeAvailable, Waiting, Running
    <2> HIDE DEF e
    <2> QED
      BY Zenon, <2>1, <2>2, <2>3, <2>4, <2>5, OneReports
  <1> QED
    BY Zenon, <1>2, <1>4, <1>5, <1>6

LEMMA SupervisorEndReports ==
    ASSUME UpdateInv, NEW g \in Generations, update' = update,
           SupervisorDone(g) \/ SupervisorStops(g) \/ SupervisorCrashes(g)
    PROVE  \E new : NewReport(g, new)
  <1> DEFINE new == IF status' = status THEN status[g] ELSE Interrupted(status[g])
  <1>1. /\ update \in Updates /\ update.maxCrashes \in Nat
        /\ status[g] # NoStatus /\ status[g] \in Report(update, g)
        /\ status = [h \in Generations |-> status[h]]
        /\ controls = [h \in Generations |-> controls[h]] /\ controls[g] \in SUBSET Wanted(update, g)
        /\ sup \in [Generations -> {"off", "on", "orphan"}] /\ crashes \in 0 .. update.maxCrashes
    BY Zenon, UpdatesAssumption DEF UpdateInv, UpdateTypes, SupervisorDone, SupervisorStops, SupervisorCrashes
  <1>2. status' = [status EXCEPT ![g] = new]
    BY Zenon, <1>1, Zenon DEF SupervisorDone, SupervisorStops, SupervisorCrashes
  <1>3. /\ sup' = [sup EXCEPT ![g] = "off"] /\ controls' = controls
        /\ UNCHANGED <<fileVars, daemonVars>> /\ crashes' \in 0 .. update.maxCrashes
    BY <1>1 DEF SupervisorDone, SupervisorStops, SupervisorCrashes
  <1>4. /\ new \in Report(update, g)
        /\ \A r \in Wanted(update, g) :
              new[r] = status[g][r]
                \/ /\ status[g][r].phase \in Running
                   /\ new[r].phase \in {"backoff", "exhausted", "succeeded", "failed"}
    BY <1>1, InterruptedReport
  <1> HIDE DEF new
  <1>5. \A r \in Wanted(update, g) :
          /\ new[r].phase \in Waiting => status[g][r].phase \in Waiting
          /\ status[g][r].phase \in Terminal => new[r].phase \in Terminal
    BY Zenon, <1>4 DEF Waiting, Running, Terminal
  <1>6. g = "candidate" => \A r \in Wanted(update, g) : new[r].phase \in Begun => r \in progress.enabled
    BY Zenon, <1>1, <1>4 DEF UpdateInv, OnlyEnabledBegin, Has, Begun
  <1>7. /\ controls' = [controls EXCEPT ![g] = controls[g]]
        /\ g = "candidate" => controls[g] \subseteq progress.enabled
    BY Zenon, <1>1, <1>3 DEF UpdateInv, OnlyEnabledBegin
  <1>8. /\ sup' \in [Generations -> {"off", "on", "orphan"}]
        /\ \A h \in Generations : h # g => sup'[h] = sup[h]
    BY Zenon, <1>1, <1>3
  <1> QED
    BY <1>1, <1>2, <1>3, <1>4, <1>5, <1>6, <1>7, <1>8, ZenonT(40) DEF NewReport

-----------------------------------------------------------------------------
(* The steps of the daemon.                                                *)

(* What a step that leaves the supervisors' files alone has to establish.  *)
LEMMA DaemonTypes ==
    ASSUME UpdateInv, update' = update, status' = status, controls' = controls,
           sup' \in [Generations -> {"off", "on", "orphan"}],
           \A g \in Generations : sup'[g] # "off" => sup[g] # "off",
           txn' \in {"activated", "committed", "rolledback"}, expired' \in BOOLEAN,
           progress' \in CheckpointRecord(update), memory' \in CheckpointRecord(update),
           routes' \subseteq UNION {{g} \X Wanted(update, g) : g \in Generations},
           pc' \in {"load", "observe", "decide", "publish", "save", "routing", "down"},
           seen' = NoStatus \/ seen' \in Report(update, "previous"),
           crashes' \in 0 .. update.maxCrashes
    PROVE  UpdateTypes'
  <1>1. UpdateTypes
    BY Zenon DEF UpdateInv
  <1>2. /\ status' = [g \in Generations |-> status'[g]]
        /\ controls' = [g \in Generations |-> controls'[g]]
        /\ update' \in Updates
    BY Zenon, <1>1 DEF UpdateTypes
  <1>3. ASSUME NEW g \in Generations
        PROVE  /\ status'[g] = NoStatus \/ status'[g] \in Report(update', g)
               /\ controls'[g] \subseteq Wanted(update', g)
               /\ sup'[g] # "off" => status'[g] # NoStatus
    BY Zenon, <1>1 DEF UpdateTypes
  <1>4. /\ progress' \in CheckpointRecord(update') /\ memory' \in CheckpointRecord(update')
        /\ routes' \subseteq UNION {{g} \X Wanted(update', g) : g \in Generations}
        /\ seen' = NoStatus \/ seen' \in Report(update', "previous")
        /\ crashes' \in 0 .. update'.maxCrashes
    BY Zenon
  <1> QED
    BY Zenon, <1>2, <1>3, <1>4 DEF UpdateTypes

(* The phases a checkpoint may end in.                                     *)
LEMMA UpdatePhases ==
    \A phase \in {"completed", "rolledback", "rollingback"} :
        phase \in ProgressPhases /\ phase # "completing"
  BY Zenon DEF ProgressPhases

(* A change of phase changes nothing else.                                 *)
LEMMA PhaseChanges ==
    ASSUME NEW u \in Updates, NEW p \in CheckpointRecord(u), NEW phase \in ProgressPhases,
           NEW s, NEW c, Safe(u, s, c, p), phase # "completing"
    PROVE  LET q == [p EXCEPT !.phase = phase]
           IN  /\ q \in CheckpointRecord(u) /\ q.phase = phase
               /\ q.enabled = p.enabled /\ q.draining = p.draining
               /\ Safe(u, s, c, q)
  <1> DEFINE q == [p EXCEPT !.phase = phase]
  <1>1. q \in CheckpointRecord(u) /\ q.phase = phase /\ q.enabled = p.enabled /\ q.draining = p.draining
    BY Zenon DEF CheckpointRecord
  <1> HIDE DEF q
  <1>2. Safe(u, s, c, q)
    BY Zenon, <1>1 DEF Safe
  <1> QED
    BY Zenon, <1>1, <1>2 DEF q

(* The empty checkpoint.                                                   *)
LEMMA EmptyCheckpoint ==
    ASSUME NEW u \in Updates, NEW phase \in ProgressPhases
    PROVE  /\ NoProgress \in CheckpointRecord(u)
           /\ [NoProgress EXCEPT !.phase = phase] \in CheckpointRecord(u)
           /\ [NoProgress EXCEPT !.phase = phase].phase = phase
           /\ [NoProgress EXCEPT !.phase = phase].enabled = {}
           /\ [NoProgress EXCEPT !.phase = phase].draining = {}
  BY Zenon DEF NoProgress, CheckpointRecord, ProgressPhases

(* A publication lists replicas of the plans.                              *)
LEMMA TargetsAreReplicas ==
    ASSUME NEW p \in CheckpointRecord(update)
    PROVE  /\ Targets(p) \subseteq UNION {{g} \X Wanted(update, g) : g \in Generations}
           /\ \A r : <<"previous", r>> \in Targets(p) => r \in Routable("previous", p)
  <1>1. \A g \in Generations : Routable(g, p) \subseteq Wanted(update, g)
    BY Zenon, Translation DEF Routable, CheckpointRecord, Generations
  <1>2. Targets(p) \subseteq UNION {{g} \X Wanted(update, g) : g \in Generations}
    BY <1>1 DEF Targets
  <1>3. \A r : <<"previous", r>> \in Targets(p) => r \in Routable("previous", p)
    BY DEF Targets
  <1> QED
    BY Zenon, <1>2, <1>3

LEMMA BeginKeepsInv ==
    ASSUME UpdateInv, update' = update, BeginProgress
    PROVE  UpdateInv'
  <1> USE DEF UpdateInv
  <1>1. /\ progress' = [NoProgress EXCEPT !.phase = "rolling"] /\ expired' = FALSE /\ pc' = "observe"
        /\ txn' = txn /\ txn = "activated" /\ progress.phase = "none" /\ progress.enabled = {}
        /\ UNCHANGED <<routes, status, sup, controls, seen, memory, crashes>>
    BY Zenon DEF BeginProgress, supervisorVars, ProgressIsSafe
  <1>2. /\ progress' \in CheckpointRecord(update) /\ progress'.phase = "rolling" /\ progress'.enabled = {}
    BY Zenon, <1>1, EmptyCheckpoint DEF UpdateTypes, ProgressPhases
  <1>3. UpdateTypes'
    BY Zenon, <1>1, <1>2, DaemonTypes DEF UpdateTypes
  <1>4. OnlyEnabledBegin'
    BY Zenon, <1>1, <1>2 DEF OnlyEnabledBegin
  <1>5. ProgressIsSafe'
    BY Zenon, <1>1, <1>2 DEF ProgressIsSafe, Safe, Settled
  <1>6. DecisionIsSafe' /\ MemoryIsSafe'
    BY Zenon, <1>1, <1>2 DEF DecisionIsSafe, MemoryIsSafe
  <1> QED
    BY Zenon, <1>3, <1>4, <1>5, <1>6

(* A checkpoint that ends stays safe.                                      *)
LEMMA Endings ==
    ASSUME UpdateInv
    PROVE  \A phase \in {"completed", "rolledback", "rollingback"} :
              LET q == [progress EXCEPT !.phase = phase]
              IN  /\ q \in CheckpointRecord(update) /\ q.phase = phase
                  /\ q.enabled = progress.enabled /\ q.draining = progress.draining
                  /\ Safe(update, status["previous"], status["candidate"], q)
  <1>1. /\ update \in Updates /\ progress \in CheckpointRecord(update)
        /\ Safe(update, status["previous"], status["candidate"], progress)
    BY Zenon DEF UpdateInv, UpdateTypes, ProgressIsSafe
  <1> QED
    BY Zenon, <1>1, PhaseChanges, UpdatePhases

LEMMA FollowKeepsInv ==
    ASSUME UpdateInv, update' = update, FollowTransaction
    PROVE  UpdateInv'
  <1> USE DEF UpdateInv
  <1>1. /\ pc' = "routing"
        /\ UNCHANGED <<txn, expired, routes, status, sup, controls, seen, memory, crashes>>
    BY Zenon DEF FollowTransaction, supervisorVars
  <1>2. \/ progress' = progress
        \/ /\ progress' = [progress EXCEPT !.phase = "completed"]
           /\ txn = "committed" /\ progress.phase # "none"
        \/ /\ progress' = [progress EXCEPT !.phase = "rolledback"]
           /\ txn = "rolledback" /\ progress.phase # "none"
    BY Zenon DEF FollowTransaction
  <1>3. /\ progress' \in CheckpointRecord(update) /\ progress'.enabled = progress.enabled
        /\ Safe(update, status["previous"], status["candidate"], progress')
        /\ Settled(progress', txn)
        /\ progress'.phase = "none" => progress'.enabled = {}
    <2> DEFINE End(phase) == [progress EXCEPT !.phase = phase]
    <2>1. \A phase \in {"completed", "rolledback", "rollingback"} :
             /\ End(phase) \in CheckpointRecord(update) /\ End(phase).phase = phase
             /\ End(phase).enabled = progress.enabled /\ End(phase).draining = progress.draining
             /\ Safe(update, status["previous"], status["candidate"], End(phase))
      BY Zenon, Endings
    <2> HIDE DEF End
    <2>2. \/ progress' = progress
          \/ progress' = End("completed") /\ txn = "committed"
          \/ progress' = End("rolledback") /\ txn = "rolledback"
      BY Zenon, <1>2 DEF End
    <2> QED
      BY Zenon, <2>1, <2>2 DEF UpdateTypes, ProgressIsSafe, Settled
  <1>4. UpdateTypes'
    BY Zenon, <1>1, <1>3, DaemonTypes DEF UpdateTypes
  <1>5. OnlyEnabledBegin' /\ ProgressIsSafe'
    BY Zenon, <1>1, <1>3 DEF OnlyEnabledBegin, ProgressIsSafe
  <1>6. DecisionIsSafe' /\ MemoryIsSafe'
    BY Zenon, <1>1 DEF DecisionIsSafe, MemoryIsSafe
  <1> QED
    BY Zenon, <1>4, <1>5, <1>6

(* commit_rollout, rollback_rollout, and the deadline while completing: a  *)
(* change of phase, not saved yet.                                         *)
LEMMA SettleKeepsInv ==
    ASSUME UpdateInv, update' = update, CommitUpdate \/ RollbackUpdate \/ AwaitHealth
    PROVE  UpdateInv'
  <1> USE DEF UpdateInv
  <1>1. /\ UNCHANGED <<progress, expired, routes, status, sup, controls, seen, crashes>>
        /\ progress.phase \in {"completing", "rollingback"}
        /\ \/ pc' = "routing" /\ memory' = memory /\ txn' = txn
           \/ /\ pc' = "publish" /\ txn' = "committed"
              /\ memory' = [progress EXCEPT !.phase = "completed"]
           \/ /\ pc' = "publish" /\ txn' = "rolledback"
              /\ memory' = [progress EXCEPT !.phase = "rolledback"]
           \/ /\ pc' = "publish" /\ txn' = txn
              /\ memory' = [progress EXCEPT !.phase = "rollingback"]
    BY Zenon DEF CommitUpdate, RollbackUpdate, AwaitHealth, supervisorVars, fileVars
  <1>2. /\ memory' \in CheckpointRecord(update)
        /\ pc' = "publish" =>
              /\ memory'.enabled = progress.enabled /\ memory'.draining = progress.draining
              /\ Safe(update, status["previous"], status["candidate"], memory')
              /\ Settled(memory', txn') /\ memory'.phase # "none"
    <2> DEFINE End(phase) == [progress EXCEPT !.phase = phase]
    <2>1. \A phase \in {"completed", "rolledback", "rollingback"} :
             /\ End(phase) \in CheckpointRecord(update) /\ End(phase).phase = phase
             /\ End(phase).enabled = progress.enabled /\ End(phase).draining = progress.draining
             /\ Safe(update, status["previous"], status["candidate"], End(phase))
      BY Zenon, Endings
    <2> HIDE DEF End
    <2>2. \/ pc' = "routing" /\ memory' = memory
          \/ memory' = End("completed") /\ txn' = "committed"
          \/ memory' = End("rolledback") /\ txn' = "rolledback"
          \/ memory' = End("rollingback")
      BY Zenon, <1>1 DEF End
    <2> QED
      BY Zenon, <2>1, <2>2 DEF UpdateTypes, Settled
  <1>3. UpdateTypes'
    BY Zenon, <1>1, <1>2, DaemonTypes DEF UpdateTypes
  <1>4. OnlyEnabledBegin' /\ ProgressIsSafe'
    BY Zenon, <1>1 DEF OnlyEnabledBegin, ProgressIsSafe, Settled
  <1>5. DecisionIsSafe' /\ MemoryIsSafe'
    BY Zenon, <1>1, <1>2 DEF DecisionIsSafe, MemoryIsSafe
  <1> QED
    BY Zenon, <1>3, <1>4, <1>5

LEMMA ObserveKeepsInv ==
    ASSUME UpdateInv, update' = update, Observe
    PROVE  UpdateInv'
  <1> USE DEF UpdateInv
  <1>1. /\ UNCHANGED <<txn, progress, expired, routes, status, sup, controls, memory, crashes>>
        /\ seen' = status["previous"] /\ pc' = "decide"
        /\ txn = "activated" /\ progress.phase = "rolling"
    BY Zenon DEF Observe, fileVars, supervisorVars, DecisionIsSafe
  <1>2. UpdateTypes'
    BY Zenon, <1>1, DaemonTypes DEF UpdateTypes, Generations
  <1>3. OnlyEnabledBegin' /\ ProgressIsSafe'
    BY Zenon, <1>1 DEF OnlyEnabledBegin, ProgressIsSafe
  <1>4. DecisionIsSafe' /\ MemoryIsSafe'
    BY Zenon, <1>1 DEF DecisionIsSafe, MemoryIsSafe, ProgressIsSafe, Safe
  <1> QED
    BY Zenon, <1>2, <1>3, <1>4

(* The daemon dies; so do, later, the supervisors it has left behind.      *)
LEMMA DaemonEndKeepsInv ==
    ASSUME UpdateInv, update' = update, ReconcileFails \/ DaemonCrashes
    PROVE  UpdateInv'
  <1> USE DEF UpdateInv
  <1>1. /\ UNCHANGED <<txn, progress, expired, routes, status, controls>>
        /\ seen' = NoStatus /\ memory' = NoProgress /\ pc' = "down"
        /\ sup' = [g \in Generations |-> IF sup[g] = "on" THEN "orphan" ELSE sup[g]]
        /\ crashes' = crashes \/ (crashes < update.maxCrashes /\ crashes' = crashes + 1)
    <2>1. CASE ReconcileFails
      BY Zenon, <2>1 DEF ReconcileFails, DaemonEnds, fileVars
    <2>2. CASE DaemonCrashes
      BY Zenon, <2>2 DEF DaemonCrashes, DaemonEnds, fileVars
    <2> QED
      BY Zenon, <2>1, <2>2
  <1>2. sup' \in [Generations -> {"off", "on", "orphan"}]
        /\ \A g \in Generations : sup'[g] # "off" => sup[g] # "off"
    BY Zenon, <1>1 DEF UpdateTypes
  <1>3. crashes' \in 0 .. update.maxCrashes
    <2>1. update.maxCrashes \in Nat
      BY Zenon, UpdatesAssumption DEF UpdateTypes
    <2> QED
      BY <1>1, <2>1 DEF UpdateTypes
  <1>4. memory' \in CheckpointRecord(update)
    BY Zenon, <1>1, EmptyCheckpoint DEF UpdateTypes, ProgressPhases
  <1>5. UpdateTypes'
    BY Zenon, <1>1, <1>2, <1>3, <1>4, DaemonTypes DEF UpdateTypes
  <1>6. OnlyEnabledBegin' /\ ProgressIsSafe'
    BY Zenon, <1>1 DEF OnlyEnabledBegin, ProgressIsSafe
  <1>7. DecisionIsSafe' /\ MemoryIsSafe'
    BY Zenon, <1>1 DEF DecisionIsSafe, MemoryIsSafe
  <1> QED
    BY Zenon, <1>5, <1>6, <1>7

LEMMA PublishKeepsInv ==
    ASSUME UpdateInv, update' = update, Publish
    PROVE  UpdateInv'
  <1> USE DEF UpdateInv
  <1>1. /\ UNCHANGED <<txn, progress, expired, status, sup, controls, seen, memory, crashes>>
        /\ routes' = Targets(memory) /\ pc = "publish" /\ pc' = "save"
    BY Zenon DEF Publish, supervisorVars
  <1>2. UpdateTypes'
    BY Zenon, <1>1, TargetsAreReplicas, DaemonTypes DEF UpdateTypes
  <1>3. OnlyEnabledBegin' /\ ProgressIsSafe' /\ DecisionIsSafe'
    BY Zenon, <1>1 DEF OnlyEnabledBegin, ProgressIsSafe, DecisionIsSafe
  <1>4. ASSUME NEW r \in memory.draining \ progress.draining
        PROVE  <<"previous", r>> \notin Targets(memory)
    <2>1. txn # "activated" \/ memory.phase \in {"rolling", "completing"}
      BY Zenon, <1>1 DEF MemoryIsSafe
    <2>2. r \notin Routable("previous", memory)
      BY Zenon, <2>1 DEF Routable, UpdateTypes
    <2> QED
      BY Zenon, <2>2, TargetsAreReplicas DEF UpdateTypes
  <1>5. MemoryIsSafe'
    BY Zenon, <1>1, <1>4 DEF MemoryIsSafe
  <1> QED
    BY Zenon, <1>2, <1>3, <1>5

LEMMA SaveKeepsInv ==
    ASSUME UpdateInv, update' = update, Save
    PROVE  UpdateInv'
  <1> USE DEF UpdateInv
  <1>1. /\ UNCHANGED <<txn, routes, status, sup, controls, seen, crashes>>
        /\ progress' = memory /\ expired' = FALSE /\ memory' = NoProgress
        /\ pc = "save" /\ pc' = "routing"
    BY Zenon DEF Save, supervisorVars
  <1>2. memory' \in CheckpointRecord(update)
    BY Zenon, <1>1, EmptyCheckpoint DEF UpdateTypes, ProgressPhases
  <1>3. UpdateTypes'
    BY Zenon, <1>1, <1>2, DaemonTypes DEF UpdateTypes
  <1>4. OnlyEnabledBegin'
    BY Zenon, <1>1 DEF OnlyEnabledBegin, MemoryIsSafe
  <1>5. ProgressIsSafe'
    BY Zenon, <1>1 DEF ProgressIsSafe, MemoryIsSafe
  <1>6. DecisionIsSafe' /\ MemoryIsSafe'
    BY Zenon, <1>1 DEF DecisionIsSafe, MemoryIsSafe
  <1> QED
    BY Zenon, <1>3, <1>4, <1>5, <1>6

(* The routing pass, the start of a daemon, an operator, and the clock.    *)
LEMMA PassKeepsInv ==
    ASSUME UpdateInv, update' = update,
           \/ ReconcileRouting \/ DaemonStarts \/ ProgressExpires
           \/ \E phase \in {"committed", "rolledback"} : ClientSettles(phase)
    PROVE  UpdateInv'
  <1> USE DEF UpdateInv
  <1>1. /\ UNCHANGED <<progress, status, sup, controls, seen, memory, crashes>>
        /\ expired' \in BOOLEAN
        /\ routes' = routes \/ (routes' = Targets(progress) /\ pc' = "load")
        /\ \/ pc' = pc /\ routes' = routes /\ txn' = txn
           \/ pc' \in {"load", "routing"} /\ txn' = txn
           \/ pc' \in {"load", "routing"} /\ txn = "activated" /\ txn' = "committed"
           \/ pc' \in {"load", "routing"} /\ txn' = "rolledback"
    <2>1. CASE ReconcileRouting
      BY Zenon, <2>1 DEF ReconcileRouting, supervisorVars, UpdateTypes
    <2>2. CASE DaemonStarts
      BY Zenon, <2>2 DEF DaemonStarts, fileVars, supervisorVars, UpdateTypes
    <2>3. CASE ProgressExpires
      BY Zenon, <2>3 DEF ProgressExpires, supervisorVars, daemonVars
    <2>4. CASE \E phase \in {"committed", "rolledback"} : ClientSettles(phase)
      BY Zenon, <2>4 DEF ClientSettles, supervisorVars, UpdateTypes
    <2> QED
      BY Zenon, <2>1, <2>2, <2>3, <2>4
  <1>2. UpdateTypes'
    BY Zenon, <1>1, TargetsAreReplicas, DaemonTypes DEF UpdateTypes
  <1>3. OnlyEnabledBegin' /\ ProgressIsSafe'
    BY Zenon, <1>1 DEF OnlyEnabledBegin, ProgressIsSafe, Settled
  <1>4. DecisionIsSafe' /\ MemoryIsSafe'
    BY Zenon, <1>1 DEF DecisionIsSafe, MemoryIsSafe
  <1> QED
    BY Zenon, <1>2, <1>3, <1>4


-----------------------------------------------------------------------------
(* The whole step.                                                         *)

(* An update begins in the invariant.                                      *)
LEMMA InitUpdateInv ==
    ASSUME LimitsAreMonotone, UpdateInit
    PROVE  UpdateInv
  <1> DEFINE W == Wanted(update, "previous")
  <1>1. /\ update \in Updates /\ txn = "activated" /\ progress = NoProgress /\ expired = FALSE
        /\ controls = [g \in Generations |-> {}] /\ pc = "load" /\ seen = NoStatus
        /\ memory = NoProgress /\ crashes = 0
        /\ routes = {"previous"} \X {r \in Replicas("previous") : Has(status["previous"], r, Ready)}
    BY Zenon DEF UpdateInit
  <1>2. update.maxRestarts \in Nat /\ update.maxCrashes \in Nat
    BY Zenon, <1>1, UpdatesAssumption
  <1>3. /\ status = [g \in Generations |-> status[g]]
        /\ sup \in [Generations -> {"off", "on", "orphan"}]
        /\ status["candidate"] = NoStatus /\ sup["candidate"] = "off"
        /\ \/ status["previous"] = NoStatus /\ sup["previous"] = "off"
           \/ status["previous"] \in Report(update, "previous")
    <2>1. CASE status = [g \in Generations |-> NoStatus] /\ sup = [g \in Generations |-> "off"]
      BY Zenon, <2>1 DEF Generations
    <2>2. CASE /\ \E phase \in [Replicas("previous") ->
                                  IF update.workersFail THEN {"up", "ready"} ELSE {"ready"}] :
                     status = [previous  |-> [r \in Replicas("previous") |->
                                                [phase |-> phase[r], attempt |-> 1]],
                               candidate |-> NoStatus]
               /\ sup = [previous |-> "on", candidate |-> "off"]
      <3>1. PICK phase \in [W -> IF update.workersFail THEN {"up", "ready"} ELSE {"ready"}] :
               status = [previous  |-> [r \in W |-> [phase |-> phase[r], attempt |-> 1]],
                         candidate |-> NoStatus]
        BY Zenon, <2>2, Translation
      <3>2. /\ status = [g \in Generations |-> status[g]]
            /\ sup \in [Generations -> {"off", "on", "orphan"}]
            /\ status["candidate"] = NoStatus /\ sup["candidate"] = "off"
            /\ status["previous"] = [r \in W |-> [phase |-> phase[r], attempt |-> 1]]
        <4> HIDE DEF W
        <4> QED
          BY <2>2, <3>1 DEF Generations
      <3>3. \A r \in W : phase[r] \in {"up", "ready"}
        BY Zenon, <3>1
      <3>4. \A r \in W : [phase |-> phase[r], attempt |-> 1] \in Entry(update)
        BY <1>2, <3>3 DEF Entry, ReplicaPhases, Waiting, Running
      <3> HIDE DEF W
      <3>5. status["previous"] \in [W -> Entry(update)]
        BY Zenon, <3>2, <3>4
      <3> QED
        BY Zenon, <3>2, <3>5 DEF Report, W
    <2> QED
      BY Zenon, <2>1, <2>2 DEF UpdateInit
  <1>4. NoProgress \in CheckpointRecord(update) /\ NoProgress.enabled = {} /\ NoProgress.phase = "none"
    BY Zenon, <1>1 DEF NoProgress, CheckpointRecord, ProgressPhases
  <1>5. UpdateTypes
    <2>1. \A g \in Generations :
             /\ status[g] = NoStatus \/ status[g] \in Report(update, g)
             /\ controls[g] \subseteq Wanted(update, g)
             /\ sup[g] # "off" => status[g] # NoStatus
      <3>1. NoStatus \notin Report(update, "previous")
        BY Zenon, <1>1, ReportsAreReports
      <3> QED
        BY Zenon, <1>1, <1>3, <3>1 DEF Generations
    <2>2. controls = [g \in Generations |-> controls[g]]
      BY Zenon, <1>1
    <2>3. routes \subseteq UNION {{g} \X Wanted(update, g) : g \in Generations}
      BY <1>1, Translation DEF Generations
    <2>4. crashes \in 0 .. update.maxCrashes
      BY <1>1, <1>2
    <2> QED
      BY Zenon, <1>1, <1>3, <1>4, <2>1, <2>2, <2>3, <2>4 DEF UpdateTypes
  <1>6. OnlyEnabledBegin
    BY Zenon, <1>1, <1>3 DEF OnlyEnabledBegin, Has, Generations
  <1>7. ProgressIsSafe
    <2>1. /\ ActiveReplicas(update, status["previous"]) \in SUBSET Wanted(update, "previous")
          /\ Wanted(update, "previous") \in SUBSET Wanted(update, "previous")
          /\ {} \in SUBSET Wanted(update, "candidate") /\ {} \in SUBSET {}
      BY Zenon DEF ActiveReplicas
    <2>2. Within(update, ActiveReplicas(update, status["previous"]), {})
      BY Zenon, <1>1, <2>1, FewerWithin DEF LimitsAreMonotone
    <2>3. progress.enabled \ Lost(update, status["candidate"]) = {}
      BY Zenon, <1>1, <1>4
    <2> QED
      BY Zenon, <1>1, <1>4, <2>2, <2>3 DEF ProgressIsSafe, Safe, Settled
  <1>8. DecisionIsSafe /\ MemoryIsSafe
    BY Zenon, <1>1 DEF DecisionIsSafe, MemoryIsSafe
  <1> QED
    BY Zenon, <1>5, <1>6, <1>7, <1>8 DEF UpdateInv

(* What the supervisor of a generation and its workers do.                 *)
Supervised(g) ==
    \/ Boot(g) \/ Refresh(g)
    \/ SupervisorDone(g) \/ SupervisorStops(g) \/ SupervisorCrashes(g)
    \/ \E r \in Wanted(update, g) :
          \/ Start(g, r) \/ BecomeReady(g, r) \/ BecomeUnready(g, r)
          \/ g = "candidate" /\ BecomeAvailable(r)
          \/ \E success \in BOOLEAN : WorkerExits(g, r, success)

(* The steps of UpdateNext, one by one.                                    *)
LEMMA StepCases ==
    ASSUME UpdateNext
    PROVE  /\ update' = update
           /\ \/ BeginProgress \/ FollowTransaction
              \/ CommitUpdate \/ RollbackUpdate \/ AwaitHealth
              \/ ReconcileFails \/ DaemonCrashes
              \/ Observe \/ AdvanceRollout \/ Publish \/ Save
              \/ ReconcileRouting \/ DaemonStarts \/ ProgressExpires
              \/ \E phase \in {"committed", "rolledback"} : ClientSettles(phase)
              \/ \E g \in Generations : Supervised(g)
  <1>1. \A g : Replicas(g) = Wanted(update, g)
    BY Zenon, Translation
  <1>2. "candidate" \in Generations
    BY Zenon DEF Generations
  <1>3. update' = update /\ UpdateStep
    BY Zenon DEF UpdateNext
  <1> QED
    BY Zenon, <1>1, <1>2, <1>3 DEF UpdateStep, Daemon, Supervisor, Worker, Supervised

(* A step of a supervisor or of a worker installs a new report.            *)
LEMMA SupervisorSteps ==
    ASSUME UpdateInv, update' = update, NEW g \in Generations,
           Supervised(g)
    PROVE  \E new : NewReport(g, new)
  BY Zenon, BootReports, RefreshReports, SupervisorEndReports, WorkerReports DEF Supervised

(* Every step but the decision keeps the invariant.                        *)
LEMMA StepsKeepInv ==
    ASSUME LimitsAreMonotone, UpdateInv, [UpdateNext]_updateVars
    PROVE  UpdateInv' \/ AdvanceRollout
  <1>1. CASE UpdateNext
    <2>1. CASE \E g \in Generations : Supervised(g)
      <3>1. update' = update
        BY Zenon, <1>1, StepCases
      <3>2. \E g \in Generations : \E new : NewReport(g, new)
        BY Zenon, <2>1, <3>1, SupervisorSteps
      <3> QED
        BY Zenon, <3>2, NewReportKeepsInv
    <2> QED
      BY Zenon, <1>1, <2>1, StepCases, BeginKeepsInv, FollowKeepsInv, SettleKeepsInv, DaemonEndKeepsInv,
         ObserveKeepsInv, PublishKeepsInv, SaveKeepsInv, PassKeepsInv
  <1>2. CASE UNCHANGED updateVars
    <2>1. /\ UNCHANGED <<update, txn, progress, expired, status, sup, controls>>
          /\ UNCHANGED <<routes, pc, seen, memory, crashes>>
      BY Zenon, <1>2 DEF updateVars, stepVars
    <2>2. UpdateTypes'
      BY Zenon, <2>1, DaemonTypes DEF UpdateInv, UpdateTypes
    <2>3. OnlyEnabledBegin' /\ ProgressIsSafe'
      BY Zenon, <2>1 DEF UpdateInv, OnlyEnabledBegin, ProgressIsSafe
    <2>4. DecisionIsSafe' /\ MemoryIsSafe'
      BY Zenon, <2>1 DEF UpdateInv, DecisionIsSafe, MemoryIsSafe
    <2> QED
      BY Zenon, <2>2, <2>3, <2>4 DEF UpdateInv
  <1> QED
    BY Zenon, <1>1, <1>2

LEMMA TypesFromInv == UpdateInv => UpdateTypeOK
  <1> SUFFICES ASSUME UpdateInv PROVE UpdateTypeOK
    BY Zenon
  <1>1. UpdateTypes
    BY Zenon DEF UpdateInv
  <1>2. \A g : Replicas(g) = Wanted(update, g)
    BY Zenon, Translation
  <1>3. progress \in Progress /\ memory \in Progress
    BY Zenon, <1>1, Translation DEF UpdateTypes
  <1>4. \A g : Report(update, g) \subseteq [Replicas(g) -> Replica]
    BY Zenon, <1>2 DEF Report, Entry, Replica
  <1>5. \A g \in Generations :
           /\ status[g] = NoStatus \/ status[g] \in [Replicas(g) -> Replica]
           /\ sup[g] \in {"off", "on", "orphan"}
           /\ controls[g] \subseteq Replicas(g)
    BY Zenon, <1>1, <1>2, <1>4 DEF UpdateTypes
  <1>6. routes \subseteq UNION {{g} \X Replicas(g) : g \in Generations}
    BY <1>1, <1>2 DEF UpdateTypes
  <1>7. seen = NoStatus \/ seen \in [Replicas("previous") -> Replica]
    BY Zenon, <1>1, <1>4 DEF UpdateTypes
  <1>8. /\ txn \in {"activated", "committed", "rolledback"} /\ expired \in BOOLEAN
        /\ pc \in {"load", "observe", "decide", "publish", "save", "routing", "down"}
        /\ crashes \in 0 .. update.maxCrashes
    BY Zenon, <1>1 DEF UpdateTypes
  <1> QED
    BY Zenon, <1>3, <1>5, <1>6, <1>7, <1>8 DEF UpdateTypeOK

LEMMA SurgeFromInv ==
    ASSUME LimitsAreMonotone, UpdateInv
    PROVE  SurgeBound
  <1> DEFINE A == ActiveReplicas(update, status["previous"])
             B == progress.enabled \ Lost(update, status["candidate"])
  <1>1. /\ update \in Updates /\ Within(update, A, B)
        /\ progress.phase = "completing" => A = {}
    BY Zenon DEF UpdateInv, UpdateTypes, ProgressIsSafe, Safe
  <1>2. Workers("previous") \in SUBSET A
    BY Zenon, Translation DEF Workers, ActiveReplicas, Has, Waiting
  <1>3. Workers("candidate") \in SUBSET B
    <2>1. \A r \in Workers("candidate") : r \in Wanted(update, "candidate")
                                          /\ Has(status["candidate"], r, Running)
      BY Zenon, Translation DEF Workers
    <2>2. \A r \in Workers("candidate") : r \in progress.enabled
      BY Zenon, <2>1 DEF UpdateInv, OnlyEnabledBegin, Has, Begun
    <2>3. \A r \in Workers("candidate") : r \notin Lost(update, status["candidate"])
      BY Zenon, <2>1 DEF Lost, Has, Running
    <2> QED
      BY Zenon, <2>2, <2>3
  <1>4. A \in SUBSET Wanted(update, "previous") /\ B \in SUBSET Wanted(update, "candidate")
    BY Zenon DEF ActiveReplicas, UpdateInv, UpdateTypes, CheckpointRecord
  <1> HIDE DEF A, B
  <1>5. Within(update, Workers("previous"), Workers("candidate"))
    BY Zenon, <1>1, <1>2, <1>3, <1>4, FewerWithin
  <1>6. progress.phase = "completing" => Workers("previous") = {}
    BY Zenon, <1>1, <1>2
  <1> QED
    BY Zenon, <1>5, <1>6, Translation DEF SurgeBound, Within

LEMMA DrainsAppearInSave ==
    ASSUME UpdateInv, [UpdateNext]_updateVars
    PROVE  progress'.draining \subseteq progress.draining \/ Save
  <1>1. CASE UNCHANGED updateVars
    BY Zenon, <1>1 DEF updateVars, stepVars
  <1>2. CASE UpdateNext
    <2>1. update' = update
      BY Zenon, <1>2, StepCases
    <2>2. CASE BeginProgress
      BY Zenon, <2>2 DEF BeginProgress, NoProgress
    <2>3. CASE FollowTransaction
      <3>1. progress \in CheckpointRecord(update)
        BY Zenon DEF UpdateInv, UpdateTypes
      <3> QED
        BY Zenon, <2>3, <3>1 DEF FollowTransaction, CheckpointRecord
    <2>4. CASE AdvanceRollout
      <3>1. progress \in CheckpointRecord(update)
        BY Zenon DEF UpdateInv, UpdateTypes
      <3>2. progress' = [progress EXCEPT !.draining = @ \ Acknowledged(progress, seen)]
        BY Zenon, <2>4 DEF AdvanceRollout
      <3> QED
        BY Zenon, <3>1, <3>2 DEF CheckpointRecord
    <2>5. CASE CommitUpdate \/ RollbackUpdate \/ AwaitHealth \/ ReconcileFails \/ DaemonCrashes
      BY Zenon, <2>5 DEF CommitUpdate, RollbackUpdate, AwaitHealth, ReconcileFails, DaemonCrashes, fileVars
    <2>6. CASE \/ Observe \/ Publish \/ ReconcileRouting \/ DaemonStarts \/ ProgressExpires
               \/ \E phase \in {"committed", "rolledback"} : ClientSettles(phase)
      BY Zenon, <2>6 DEF Observe, Publish, ReconcileRouting, DaemonStarts, ProgressExpires, ClientSettles,
                  fileVars
    <2>7. CASE \E g \in Generations : Supervised(g)
      <3>1. \E g \in Generations : \E new : NewReport(g, new)
        BY Zenon, <2>1, <2>7, SupervisorSteps
      <3> QED
        BY Zenon, <3>1 DEF NewReport, fileVars
    <2> QED
      BY Zenon, <1>2, <2>2, <2>3, <2>4, <2>5, <2>6, <2>7, StepCases
  <1> QED
    BY Zenon, <1>1, <1>2

-----------------------------------------------------------------------------
(* The steps in calm.                                                      *)

LEMMA KeptMore ==
    ASSUME LimitsAreMonotone, NEW u \in Updates, NEW R, NEW R1, NEW V, NEW V1,
           R \in SUBSET R1, V \in SUBSET V1, Kept(u, R, V)
    PROVE  Kept(u, R1, V1)
  BY Zenon DEF LimitsAreMonotone

LEMMA BearableStays ==
    ASSUME LimitsAreMonotone, NEW u \in Updates, NEW p, NEW q, NEW s, NEW t, NEW c, NEW d, Bearable(u, s, c, p),
           ReadyOf(u, s) \ p.draining \subseteq ReadyOf(u, t) \ q.draining,
           AvailableOf(u, c) \subseteq AvailableOf(u, d),
           q.phase = "completing" => p.phase = "completing"
    PROVE  Bearable(u, t, d, q)
  <1>1. Kept(u, ReadyOf(u, t) \ q.draining, AvailableOf(u, d))
    <2>1. /\ ReadyOf(u, s) \ p.draining \in SUBSET (ReadyOf(u, t) \ q.draining)
          /\ AvailableOf(u, c) \in SUBSET AvailableOf(u, d)
      BY Zenon
    <2>2. Kept(u, ReadyOf(u, s) \ p.draining, AvailableOf(u, c))
      BY Zenon DEF Bearable
    <2> QED
      BY <2>1, <2>2, KeptMore
  <1>2. q.phase = "completing" => AvailableOf(u, d) = Wanted(u, "candidate")
    BY Zenon DEF Bearable, AvailableOf
  <1> QED
    BY Zenon, <1>1, <1>2 DEF Bearable

(* A supervisor installs a report in which only drained replicas have      *)
(* stopped and every candidate is at least where it was.                   *)
CalmReport(g, new) ==
    /\ update' = update /\ UNCHANGED <<fileVars, daemonVars>>
    /\ new # NoStatus
    /\ status' = [status EXCEPT ![g] = new]
    /\ sup' \in [Generations -> {"off", "on"}]
    /\ \A h \in Generations : h # g => sup'[h] = sup[h]
    /\ sup'[g] = "off" => \A r \in Wanted(update, g) : new[r].phase \notin Waiting
    /\ g = "previous" => \A r \in Wanted(update, g) :
          \/ new[r].phase = status[g][r].phase
          \/ new[r].phase = "stopped" /\ r \in progress.draining
    /\ g = "candidate" => \A r \in Wanted(update, g) :
          /\ new[r].phase \in {"pending", "up", "ready", "available"}
          /\ status[g] # NoStatus /\ status[g][r].phase = "available" => new[r].phase = "available"

LEMMA CalmReportKeepsInv ==
    ASSUME LimitsAreMonotone, UpdateInv, CalmInv, Calm, NEW g \in Generations, NEW new, CalmReport(g, new)
    PROVE  CalmInv'
  <1> USE DEF Generations
  <1>1. ReportsAreCalm /\ SightIsCalm /\ CheckpointsAreBearable /\ UpdateTypes
    BY Zenon DEF CalmInv, UpdateInv
  <1>2. /\ update' = update /\ UNCHANGED <<txn, progress, expired, routes, pc, seen, memory>>
        /\ update \in Updates
        /\ status'[g] = new /\ \A h \in Generations : h # g => status'[h] = status[h]
    BY Zenon, <1>1 DEF CalmReport, fileVars, daemonVars, UpdateTypes
  <1>3. \A r \in Wanted(update, "previous") :
           \/ status'["previous"][r].phase = status["previous"][r].phase
           \/ status'["previous"][r].phase = "stopped" /\ r \in progress.draining
    BY <1>2, SMTT(30) DEF CalmReport
  <1>4. /\ status'["previous"] # NoStatus
        /\ status["candidate"] # NoStatus => status'["candidate"] # NoStatus
        /\ status'["candidate"] # NoStatus => \A r \in Wanted(update, "candidate") :
              /\ status'["candidate"][r].phase \in {"pending", "up", "ready", "available"}
              /\ status["candidate"] # NoStatus /\ status["candidate"][r].phase = "available" =>
                    status'["candidate"][r].phase = "available"
    BY <1>1, <1>2 DEF CalmReport, ReportsAreCalm
  <1>5. \A h \in Generations :
           /\ sup'[h] # "orphan"
           /\ sup'[h] = "off" => \A r \in Wanted(update, h) : ~Has(status'[h], r, Waiting)
    <2>1. \A h \in Generations : sup'[h] \in {"off", "on"}
      BY Zenon DEF CalmReport
    <2>2. sup'[g] = "off" => \A r \in Wanted(update, g) : ~Has(status'[g], r, Waiting)
      BY Zenon, <1>2 DEF CalmReport, Has
    <2>3. ASSUME NEW h \in Generations, h # g, sup'[h] = "off"
          PROVE  \A r \in Wanted(update, h) : ~Has(status'[h], r, Waiting)
      <3>1. sup[h] = "off" /\ status'[h] = status[h]
        BY Zenon, <1>2, <2>3 DEF CalmReport
      <3> QED
        BY Zenon, <1>1, <3>1 DEF ReportsAreCalm
    <2> QED
      BY Zenon, <2>1, <2>2, <2>3
  <1>6. ReportsAreCalm'
    BY Zenon, <1>1, <1>2, <1>3, <1>4, <1>5 DEF ReportsAreCalm
  <1>7. SightIsCalm'
    BY Zenon, <1>1, <1>2, <1>3 DEF SightIsCalm
  <1>8. \A p \in {progress, memory} : progress.draining \subseteq p.draining =>
           ReadyOf(update, status["previous"]) \ p.draining
             \subseteq ReadyOf(update, status'["previous"]) \ p.draining
    BY Zenon, <1>3, <1>4 DEF ReadyOf, Has
  <1>9. AvailableOf(update, status["candidate"]) \subseteq AvailableOf(update, status'["candidate"])
    BY Zenon, <1>4 DEF AvailableOf, Has
  <1>10. \A p \in {progress, memory} : progress.draining \subseteq p.draining
            /\ Bearable(update, status["previous"], status["candidate"], p) =>
               Bearable(update, status'["previous"], status'["candidate"], p)
    BY Zenon, <1>2, <1>8, <1>9, BearableStays
  <1>11. CheckpointsAreBearable'
    BY Zenon, <1>1, <1>2, <1>10 DEF CheckpointsAreBearable
  <1> QED
    BY Zenon, <1>6, <1>7, <1>11 DEF CalmInv

(* A step of a supervisor or of a worker, in calm.                         *)
LEMMA CalmSupervisorSteps ==
    ASSUME UpdateInv, CalmInv, Calm, update' = update, NEW g \in Generations,
           Supervised(g)
    PROVE  \E new : CalmReport(g, new)
  <1> USE DEF Generations
  <1>1. ReportsAreCalm /\ UpdateTypes
    BY Zenon DEF CalmInv, UpdateInv
  <1>2. /\ update \in Updates /\ ~update.workersFail /\ crashes \in 0 .. 0 /\ update.maxCrashes = 0
        /\ sup \in [Generations -> {"off", "on"}]
        /\ status = [h \in Generations |-> status[h]]
    BY <1>1 DEF Calm, UpdateTypes, ReportsAreCalm
  <1>3. \A h : Replicas(h) = Wanted(update, h)
    BY Zenon, Translation
  <1>4. \A h \in Generations : status[h] # NoStatus => status[h] \in Report(update, h)
    BY Zenon, <1>1 DEF UpdateTypes
  <1>5. CASE Boot(g)
    <2>1. /\ sup[g] = "off" /\ status[g] = NoStatus /\ g = "candidate"
      BY Zenon, <1>1, <1>3, <1>5 DEF Boot, ReportsAreCalm
    <2>2. /\ status' = [status EXCEPT ![g] = Pending(g)] /\ sup' = [sup EXCEPT ![g] = "on"]
          /\ UNCHANGED <<fileVars, daemonVars>>
      BY Zenon, <1>5, <2>1 DEF Boot
    <2>3. \A r \in Wanted(update, g) : Pending(g)[r].phase = "pending"
      BY Zenon, <1>3 DEF Pending
    <2>4. Pending(g) # NoStatus
      <3>1. Pending(g) \in Report(update, g)
        <4>1. update.maxRestarts \in Nat
          BY Zenon, <1>2, UpdatesAssumption
        <4>2. [phase |-> "pending", attempt |-> 0] \in Entry(update)
          BY <4>1 DEF Entry, ReplicaPhases, Waiting
        <4> QED
          BY Zenon, <1>3, <4>2 DEF Pending, Report
      <3> QED
        BY Zenon, <1>2, <3>1, ReportsAreReports
    <2>5. CalmReport(g, Pending(g))
      BY Zenon, <1>2, <2>1, <2>2, <2>3, <2>4 DEF CalmReport
    <2> QED
      BY Zenon, <2>5
  <1>6. CASE Refresh(g)
    <2> DEFINE drained(r) == g = "previous" /\ r \in Controls(g)
               new == [r \in Wanted(update, g) |->
                          IF drained(r) THEN [status[g][r] EXCEPT !.phase = "stopped"] ELSE status[g][r]]
    <2>1. sup[g] = "on" /\ status[g] # NoStatus
      BY Zenon, <1>1, <1>6 DEF Refresh, UpdateTypes
    <2>2. status' = [status EXCEPT ![g] = new] /\ sup' = sup /\ UNCHANGED <<fileVars, daemonVars>>
      BY Zenon, <1>3, <1>6 DEF Refresh
    <2>3. \A r \in Wanted(update, g) : status[g][r] \in Entry(update)
      BY Zenon, <1>4, <2>1 DEF Report
    <2>4. \A r \in Wanted(update, g) : /\ drained(r) => new[r].phase = "stopped"
                                       /\ ~drained(r) => new[r] = status[g][r]
      BY Zenon, <2>3 DEF Entry
    <2>5. \E new2 : new2 = new /\ new2 # NoStatus
      <3>1. \E x : NewReport(g, x)
        BY Zenon, <1>6, RefreshReports
      <3>2. status'[g] = new
        <4> HIDE DEF new
        <4> QED
          BY Zenon, <1>2, <2>2
      <3>3. status'[g] # NoStatus
        BY <1>2, <3>1, ReportsAreReports DEF NewReport
      <3> QED
        BY Zenon, <3>2, <3>3
    <2>7. \A r : drained(r) => g = "previous" /\ r \in progress.draining
      BY Zenon DEF Controls
    <2> HIDE DEF new, drained
    <2>8. CalmReport(g, new)
      <3>1. g = "candidate" => \A r \in Wanted(update, g) : new[r] = status[g][r]
        BY Zenon, <2>4, <2>7
      <3>2. g = "candidate" => \A r \in Wanted(update, g) :
               /\ new[r].phase \in {"pending", "up", "ready", "available"}
               /\ status[g] # NoStatus /\ status[g][r].phase = "available" => new[r].phase = "available"
        BY Zenon, <1>1, <2>1, <3>1 DEF ReportsAreCalm
      <3>3. g = "previous" => \A r \in Wanted(update, g) :
               \/ new[r].phase = status[g][r].phase
               \/ new[r].phase = "stopped" /\ r \in progress.draining
        BY Zenon, <2>4, <2>7
      <3> QED
        BY Zenon, <1>2, <2>1, <2>2, <2>5, <3>2, <3>3 DEF CalmReport
    <2> QED
      BY Zenon, <2>8
  <1>7. CASE SupervisorDone(g)
    <2>1. /\ sup[g] # "off" /\ \A r \in Wanted(update, g) : ~Has(status[g], r, Waiting)
          /\ sup' = [sup EXCEPT ![g] = "off"] /\ status' = status /\ UNCHANGED <<fileVars, daemonVars>>
      BY Zenon, <1>3, <1>7 DEF SupervisorDone
    <2>2. status[g] # NoStatus /\ status' = [status EXCEPT ![g] = status[g]]
      BY Zenon, <1>1, <1>2, <2>1 DEF UpdateTypes
    <2>3. CalmReport(g, status[g])
      BY Zenon, <1>1, <1>2, <2>1, <2>2 DEF CalmReport, ReportsAreCalm, Has
    <2> QED
      BY Zenon, <2>3
  <1>8. CASE SupervisorStops(g) \/ SupervisorCrashes(g)
    BY <1>1, <1>2, <1>8 DEF SupervisorStops, SupervisorCrashes, ReportsAreCalm
  <1>9. ASSUME NEW r \in Wanted(update, g),
               \/ Start(g, r) \/ BecomeReady(g, r) \/ BecomeUnready(g, r)
               \/ g = "candidate" /\ BecomeAvailable(r)
               \/ \E success \in BOOLEAN : WorkerExits(g, r, success)
        PROVE  \E new : CalmReport(g, new)
    <2>1. /\ UNCHANGED <<fileVars, daemonVars, sup>> /\ Has(status[g], r, Waiting)
          /\ status[g][r].phase # "available"
          /\ \/ Start(g, r) /\ status' = [status EXCEPT ![g][r] = [phase |-> "up", attempt |-> @.attempt + 1]]
             \/ status' = [status EXCEPT ![g][r].phase = "ready"] /\ status[g][r].phase = "up"
             \/ g = "candidate" /\ status' = [status EXCEPT ![g][r].phase = "available"]
      <3>1. CASE Start(g, r)
        BY Zenon, <3>1 DEF Start, Startable, Has, Waiting
      <3>2. CASE BecomeReady(g, r)
        BY Zenon, <3>2 DEF BecomeReady, Signal, Workers, Has, Waiting, Running
      <3>3. CASE g = "candidate" /\ BecomeAvailable(r)
        BY Zenon, <3>3 DEF BecomeAvailable, Has, Waiting, Running
      <3>4. CASE BecomeUnready(g, r) \/ \E success \in BOOLEAN : WorkerExits(g, r, success)
        BY Zenon, <1>2, <3>4 DEF BecomeUnready, WorkerExits
      <3> QED
        BY Zenon, <1>9, <3>1, <3>2, <3>3, <3>4
    <2>2. g = "candidate" /\ status[g] # NoStatus
      <3>1. g = "previous" => status[g][r].phase \in {"ready", "stopped"}
        BY Zenon, <1>1 DEF ReportsAreCalm
      <3>2. g = "previous" => status[g][r].phase # "stopped"
        BY Zenon, <2>1 DEF Has, Waiting, Running
      <3>3. g = "previous" => ~Start(g, r)
        BY Zenon, <3>1 DEF Start, Startable, Has
      <3>4. g # "previous"
        BY Zenon, <2>1, <3>1, <3>3
      <3> QED
        BY Zenon, <2>1, <3>4 DEF Has
    <2> DEFINE new == status'[g]
    <2>3. status[g] \in [Wanted(update, g) -> Entry(update)]
      BY Zenon, <1>4, <2>2 DEF Report
    <2>4. ASSUME NEW e, status' = [status EXCEPT ![g][r] = e],
                 e.phase \in {"up", "ready", "available"}
          PROVE  /\ status' = [status EXCEPT ![g] = new]
                 /\ new[r].phase \in {"up", "ready", "available"}
                 /\ \A t \in Wanted(update, g) : t # r => new[t] = status[g][t]
      BY Zenon, <1>2, <2>3, <2>4
    <2>5. ASSUME NEW phase \in {"ready", "available"}, status' = [status EXCEPT ![g][r].phase = phase]
          PROVE  /\ status' = [status EXCEPT ![g] = new]
                 /\ new[r].phase \in {"up", "ready", "available"}
                 /\ \A t \in Wanted(update, g) : t # r => new[t] = status[g][t]
      <3> DEFINE e == [status[g][r] EXCEPT !.phase = phase]
      <3>1. e.phase \in {"up", "ready", "available"}
        BY Zenon, <2>3, <2>5 DEF Entry
      <3>2. status' = [status EXCEPT ![g][r] = e]
        BY Zenon, <2>5
      <3> HIDE DEF e
      <3> QED
        BY Zenon, <2>4, <3>1, <3>2
    <2>6. /\ status' = [status EXCEPT ![g] = new]
          /\ new[r].phase \in {"up", "ready", "available"}
          /\ \A t \in Wanted(update, g) : t # r => new[t] = status[g][t]
      <3>1. CASE status' = [status EXCEPT ![g][r] = [phase |-> "up", attempt |-> @.attempt + 1]]
        <4> DEFINE e == [phase |-> "up", attempt |-> status[g][r].attempt + 1]
        <4>1. status' = [status EXCEPT ![g][r] = e] /\ e.phase \in {"up", "ready", "available"}
          BY Zenon, <3>1
        <4> HIDE DEF e
        <4> QED
          BY Zenon, <2>4, <4>1
      <3> QED
        BY Zenon, <2>1, <2>5, <3>1
    <2>7. new # NoStatus
      <3>1. \E x : NewReport(g, x)
        BY Zenon, <1>9, WorkerReports
      <3> QED
        BY <1>2, <3>1, ReportsAreReports DEF NewReport
    <2>8. sup[g] # "off"
      BY Zenon, <1>1, <2>1 DEF ReportsAreCalm
    <2> HIDE DEF new
    <2>9. CalmReport(g, new)
      <3>1. \A t \in Wanted(update, g) :
               /\ new[t].phase \in {"pending", "up", "ready", "available"}
               /\ status[g] # NoStatus /\ status[g][t].phase = "available" => new[t].phase = "available"
        BY Zenon, <1>1, <2>1, <2>2, <2>6 DEF ReportsAreCalm
      <3> QED
        BY Zenon, <1>2, <2>1, <2>2, <2>6, <2>7, <2>8, <3>1 DEF CalmReport
    <2> QED
      BY Zenon, <2>9
  <1> QED
    BY Zenon, <1>5, <1>6, <1>7, <1>8, <1>9 DEF Supervised

(* What a step that leaves the supervisors alone has to establish.         *)
LEMMA CalmDaemonStep ==
    ASSUME CalmInv, Calm, update' = update, UNCHANGED <<status, sup>>, pc' # "down",
           pc' = "decide" => \/ seen' = status["previous"]
                             \/ pc = "decide" /\ seen' = seen /\ progress' = progress,
           Bearable(update, status["previous"], status["candidate"], progress'),
           pc' \in {"publish", "save"} =>
              /\ Bearable(update, status["previous"], status["candidate"], memory')
              /\ progress'.draining \subseteq memory'.draining
    PROVE  CalmInv'
  <1>1. ReportsAreCalm /\ SightIsCalm
    BY Zenon DEF CalmInv
  <1>2. ReportsAreCalm'
    BY Zenon, <1>1 DEF ReportsAreCalm
  <1>3. SightIsCalm'
    <2>1. CASE seen' = status["previous"]
      BY Zenon, <1>1, <2>1 DEF SightIsCalm, ReportsAreCalm
    <2>2. CASE pc = "decide" /\ seen' = seen /\ progress' = progress
      BY Zenon, <1>1, <2>2 DEF SightIsCalm
    <2> QED
      BY Zenon, <2>1, <2>2 DEF SightIsCalm
  <1>4. CheckpointsAreBearable'
    BY Zenon DEF CheckpointsAreBearable
  <1> QED
    BY Zenon, <1>2, <1>3, <1>4 DEF CalmInv

(* Every step but the decision keeps the calm.                             *)
LEMMA CalmSteps ==
    ASSUME LimitsAreMonotone, UpdateInv, CalmInv, [UpdateNext]_updateVars, Calm', SchedulerNeverRefuses
    PROVE  CalmInv' \/ (Calm /\ AdvanceRollout)
  <1>1. CASE UNCHANGED updateVars
    <2>1. /\ UNCHANGED <<update, txn, progress, status, sup>>
          /\ UNCHANGED <<pc, seen, memory>>
      BY Zenon, <1>1 DEF updateVars, stepVars
    <2> QED
      BY Zenon, <2>1 DEF CalmInv, Calm, ReportsAreCalm, SightIsCalm, CheckpointsAreBearable
  <1>2. CASE UpdateNext
    <2>1. update' = update
      BY Zenon, <1>2, StepCases
    <2>2. CASE FollowTransaction \/ CommitUpdate \/ RollbackUpdate
               \/ \E phase \in {"committed", "rolledback"} : ClientSettles(phase)
      BY Zenon, <2>2 DEF FollowTransaction, CommitUpdate, RollbackUpdate, ClientSettles, Calm
    <2>3. CASE \E g \in Generations : Supervised(g)
      <3>1. \E g \in Generations : \E new : NewReport(g, new)
        BY Zenon, <2>1, <2>3, SupervisorSteps
      <3>2. txn' = txn
        BY Zenon, <3>1 DEF NewReport, fileVars
      <3>3. Calm
        BY Zenon, <2>1, <3>2 DEF Calm
      <3>4. \E g \in Generations : \E new : CalmReport(g, new)
        BY Zenon, <2>1, <2>3, <3>3, CalmSupervisorSteps
      <3> QED
        BY Zenon, <3>3, <3>4, CalmReportKeepsInv
    <2>4. CASE \/ BeginProgress \/ AwaitHealth \/ ReconcileFails \/ DaemonCrashes \/ Observe
               \/ AdvanceRollout \/ Publish \/ Save \/ ReconcileRouting \/ DaemonStarts
               \/ ProgressExpires
      <3>1. txn' = txn
        BY Zenon, <2>4 DEF BeginProgress, AwaitHealth, ReconcileFails, DaemonCrashes, Observe, AdvanceRollout,
                    Publish, Save, ReconcileRouting, DaemonStarts, ProgressExpires, fileVars
      <3>2. Calm
        BY Zenon, <2>1, <3>1 DEF Calm
      <3>3. /\ ReportsAreCalm /\ SightIsCalm /\ CheckpointsAreBearable /\ UpdateTypes
            /\ update \in Updates /\ progress \in CheckpointRecord(update)
        BY Zenon, <3>2 DEF CalmInv, UpdateInv, UpdateTypes
      <3> DEFINE s == status["previous"]
                 c == status["candidate"]
      <3>4. Bearable(update, s, c, progress)
        BY Zenon, <3>3 DEF CheckpointsAreBearable
      <3>5. CASE BeginProgress
        <4>1. /\ progress' = [NoProgress EXCEPT !.phase = "rolling"] /\ UNCHANGED <<status, sup>>
              /\ pc' = "observe"
          BY Zenon, <3>5 DEF BeginProgress, supervisorVars
        <4>2. progress'.draining = {} /\ progress'.phase = "rolling"
          BY Zenon, <4>1 DEF NoProgress
        <4>3. Bearable(update, s, c, progress')
          BY Zenon, <3>3, <3>4, <4>2, BearableStays
        <4> QED
          BY Zenon, <2>1, <3>2, <4>1, <4>3, CalmDaemonStep
      <3>6. CASE AwaitHealth
        <4>1. /\ progress' = progress /\ UNCHANGED <<status, sup>>
              /\ \/ pc' = "routing"
                 \/ pc' = "publish" /\ memory' = [progress EXCEPT !.phase = "rollingback"]
          BY Zenon, <3>6 DEF AwaitHealth, supervisorVars, fileVars
        <4>2. pc' = "publish" => /\ memory'.draining = progress.draining
                                 /\ memory'.phase = "rollingback"
          BY Zenon, <3>3, <4>1 DEF CheckpointRecord
        <4>3. pc' = "publish" => Bearable(update, s, c, memory')
          BY Zenon, <3>4, <4>2 DEF Bearable
        <4> QED
          BY Zenon, <2>1, <3>2, <3>4, <4>1, <4>2, <4>3, CalmDaemonStep
      <3>7. CASE ReconcileFails
        <4>1. ~NextActionErrs
          BY Zenon DEF SchedulerNeverRefuses
        <4>2. CommitErrs
          BY Zenon, <3>7, <4>1 DEF ReconcileFails
        <4>3. progress.phase = "completing" /\ ~Stable
          BY Zenon, <4>2 DEF CommitErrs
        <4>4. AvailableOf(update, c) = Wanted(update, "candidate")
          BY Zenon, <3>4, <4>3 DEF Bearable
        <4>5. Stable
          BY Zenon, <4>4, Translation DEF Stable, AvailableOf, Has
        <4> QED
          BY Zenon, <4>3, <4>5
      <3>8. CASE DaemonCrashes
        BY <3>2, <3>3, <3>8, SMTT(30) DEF DaemonCrashes, Calm, UpdateTypes
      <3>9. CASE Observe
        <4>1. /\ UNCHANGED <<progress, status, sup>> /\ pc' = "decide" /\ seen' = status["previous"]
          BY Zenon, <3>9 DEF Observe, supervisorVars, fileVars
        <4> QED
          BY Zenon, <2>1, <3>2, <3>4, <4>1, CalmDaemonStep
      <3>10. CASE AdvanceRollout
        BY Zenon, <3>2, <3>10
      <3>11. CASE Publish
        <4>1. /\ UNCHANGED <<progress, status, sup, memory>> /\ pc = "publish" /\ pc' = "save"
          BY Zenon, <3>11 DEF Publish, supervisorVars
        <4> QED
          BY Zenon, <2>1, <3>2, <3>3, <3>4, <4>1, CalmDaemonStep DEF CheckpointsAreBearable
      <3>12. CASE Save
        <4>1. /\ UNCHANGED <<status, sup>> /\ progress' = memory /\ pc = "save" /\ pc' = "routing"
          BY Zenon, <3>12 DEF Save, supervisorVars
        <4> QED
          BY Zenon, <2>1, <3>2, <3>3, <4>1, CalmDaemonStep DEF CheckpointsAreBearable
      <3>13. CASE ReconcileRouting
        <4>1. /\ UNCHANGED <<status, sup, progress>> /\ pc' = "load"
          BY Zenon, <3>13 DEF ReconcileRouting, supervisorVars
        <4> QED
          BY Zenon, <2>1, <3>2, <3>4, <4>1, CalmDaemonStep
      <3>14. CASE DaemonStarts
        BY Zenon, <3>3, <3>14 DEF DaemonStarts, ReportsAreCalm
      <3>15. CASE ProgressExpires
        <4>1. /\ UNCHANGED <<status, sup, progress>> /\ UNCHANGED <<pc, seen, memory>>
          BY Zenon, <3>15 DEF ProgressExpires, supervisorVars, daemonVars
        <4> QED
          BY Zenon, <2>1, <3>2, <3>3, <3>4, <4>1, CalmDaemonStep DEF CheckpointsAreBearable, ReportsAreCalm
      <3> QED
        BY Zenon, <2>4, <3>5, <3>6, <3>7, <3>8, <3>9, <3>10, <3>11, <3>12, <3>13, <3>14, <3>15
    <2> QED
      BY Zenon, <1>2, <2>2, <2>3, <2>4, StepCases
  <1> QED
    BY Zenon, <1>1, <1>2

-----------------------------------------------------------------------------
(* What the decision is made on.                                           *)

(* What instance_observation counts for one instance is what the stack     *)
(* counts for all of them.                                                 *)
Counted(o, i, s, c, p) ==
    /\ o.previousReplicas = update.previous[i] /\ o.candidateReplicas = update.candidate[i]
    /\ o.previousActive = Ordinals(i, ActiveReplicas(update, s))
    /\ o.candidateActive = Ordinals(i, p.enabled \ Lost(update, c))
    /\ o.previousReady = Ordinals(i, {r \in Wanted(update, "previous") : Has(s, r, Ready)})
    /\ o.candidateReady = Ordinals(i, p.enabled) \cap
          Ordinals(i, {r \in Wanted(update, "candidate") : Has(c, r, Ready \cup {"succeeded"})})
    /\ o.candidateAvailable = Ordinals(i, p.enabled) \cap
          Ordinals(i, {r \in Wanted(update, "candidate") : Has(c, r, {"available", "succeeded"})})
    /\ o.candidateTerminal = Ordinals(i, p.enabled) \cap Ordinals(i, Lost(update, c))
    /\ ActiveLimit(o, UpdatePolicy(i)) =
          Larger(update.previous[i], update.candidate[i]) + update.surge[i]

LEMMA ObservationMeaning ==
    ASSUME update \in Updates, NEW i \in update.instances, NEW s, NEW c,
           NEW p \in CheckpointRecord(update), NEW late \in BOOLEAN
    PROVE  /\ InstanceObservation(i, s, c, p, late) \in Observation
           /\ UpdatePolicy(i) \in Policy
           /\ PolicyValid(UpdatePolicy(i),
                          PolicyReplicas(InstanceObservation(i, s, c, p, late)))
           /\ Counted(InstanceObservation(i, s, c, p, late), i, s, c, p)
  <1> DEFINE o == InstanceObservation(i, s, c, p, late)
             In(t, g, phases) == Ordinals(i, {r \in Wanted(update, g) : Has(t, r, phases)})
  <1>1. o = [previousReplicas   |-> update.previous[i],
             candidateReplicas  |-> update.candidate[i],
             previousActive     |-> In(s, "previous", Waiting),
             previousReady      |-> In(s, "previous", Ready),
             candidateActive    |-> Ordinals(i, p.enabled) \ Ordinals(i, Lost(update, c)),
             candidateReady     |-> Ordinals(i, p.enabled)
                                      \cap In(c, "candidate", Ready \cup {"succeeded"}),
             candidateAvailable |-> Ordinals(i, p.enabled)
                                      \cap In(c, "candidate", {"available", "succeeded"}),
             candidateTerminal  |-> Ordinals(i, p.enabled) \cap Ordinals(i, Lost(update, c)),
             expired            |-> late]
    BY Zenon, Translation DEF InstanceObservation, Lost
  <1>2. \A S : Ordinals(i, S) \in SUBSET (1 .. MaxReplicas)
    BY Zenon DEF Ordinals
  <1>3. /\ update.previous[i] \in 0 .. MaxReplicas /\ update.candidate[i] \in 0 .. MaxReplicas
    BY Zenon, InstanceNumbers
  <1>4. o \in Observation
    <2> HIDE DEF o
    <2> QED
      BY Zenon, <1>1, <1>2, <1>3 DEF Observation
  <1>5. UpdatePolicy(i) \in Policy
        /\ PolicyValid(UpdatePolicy(i), Larger(update.previous[i], update.candidate[i]))
    BY Zenon, UpdatesAssumption DEF UpdatePolicy
  <1>6. In(s, "previous", Waiting) = Ordinals(i, ActiveReplicas(update, s))
    BY Zenon DEF ActiveReplicas
  <1>7. Ordinals(i, p.enabled) \ Ordinals(i, Lost(update, c))
          = Ordinals(i, p.enabled \ Lost(update, c))
    BY Zenon DEF Ordinals
  <1>8. UpdatePolicy(i).surge = update.surge[i]
    BY Zenon DEF UpdatePolicy
  <1> HIDE DEF o
  <1>9. /\ o.previousReplicas = update.previous[i] /\ o.candidateReplicas = update.candidate[i]
        /\ o.previousActive = Ordinals(i, ActiveReplicas(update, s))
        /\ o.candidateActive = Ordinals(i, p.enabled \ Lost(update, c))
        /\ o.previousReady = In(s, "previous", Ready)
        /\ o.candidateReady = Ordinals(i, p.enabled) \cap In(c, "candidate", Ready \cup {"succeeded"})
        /\ o.candidateAvailable =
              Ordinals(i, p.enabled) \cap In(c, "candidate", {"available", "succeeded"})
        /\ o.candidateTerminal = Ordinals(i, p.enabled) \cap Ordinals(i, Lost(update, c))
    BY Zenon, <1>1, <1>6, <1>7
  <1>10. /\ PolicyValid(UpdatePolicy(i), PolicyReplicas(o))
         /\ ActiveLimit(o, UpdatePolicy(i)) =
               Larger(update.previous[i], update.candidate[i]) + update.surge[i]
    BY Zenon, <1>5, <1>8, <1>9 DEF PolicyReplicas, ActiveLimit
  <1> QED
    BY Zenon, <1>4, <1>5, <1>9, <1>10 DEF o, Counted

(* RollingObservation::validate accepts what it counts when the stack is   *)
(* within its limits.                                                      *)
LEMMA ObservationAccepted ==
    ASSUME update \in Updates, NEW i \in update.instances, NEW s, NEW c,
           NEW p \in CheckpointRecord(update), NEW late \in BOOLEAN,
           Within(update, ActiveReplicas(update, s), p.enabled \ Lost(update, c))
    PROVE  Valid(InstanceObservation(i, s, c, p, late), UpdatePolicy(i))
  <1> DEFINE o == InstanceObservation(i, s, c, p, late)
             Of(t, g, phases) == {r \in Wanted(update, g) : Has(t, r, phases)}
  <1>1. /\ PolicyValid(UpdatePolicy(i), PolicyReplicas(o))
        /\ o.previousReplicas = update.previous[i] /\ o.candidateReplicas = update.candidate[i]
        /\ o.previousActive = Ordinals(i, ActiveReplicas(update, s))
        /\ o.candidateActive = Ordinals(i, p.enabled \ Lost(update, c))
        /\ o.previousReady = Ordinals(i, Of(s, "previous", Ready))
        /\ o.candidateReady =
              Ordinals(i, p.enabled) \cap Ordinals(i, Of(c, "candidate", Ready \cup {"succeeded"}))
        /\ o.candidateAvailable =
              Ordinals(i, p.enabled) \cap Ordinals(i, Of(c, "candidate", {"available", "succeeded"}))
        /\ o.candidateTerminal = Ordinals(i, p.enabled) \cap Ordinals(i, Lost(update, c))
        /\ ActiveLimit(o, UpdatePolicy(i)) =
              Larger(update.previous[i], update.candidate[i]) + update.surge[i]
    <2>1. PolicyValid(UpdatePolicy(i), PolicyReplicas(o)) /\ Counted(o, i, s, c, p)
      BY Zenon, ObservationMeaning
    <2> QED
      BY Zenon, <2>1 DEF Counted
  <1> HIDE DEF o
  <1>2. ASSUME NEW S, S \subseteq Wanted(update, "previous")
        PROVE  Ordinals(i, S) \subseteq 1 .. update.previous[i]
    BY <1>2, SMTT(30) DEF Ordinals, Wanted, Group
  <1>3. ASSUME NEW S, S \subseteq Wanted(update, "candidate")
        PROVE  Ordinals(i, S) \subseteq 1 .. update.candidate[i]
    BY <1>3 DEF Ordinals, Wanted, Group
  <1>4. /\ ActiveReplicas(update, s) \subseteq Wanted(update, "previous")
        /\ p.enabled \subseteq Wanted(update, "candidate")
    BY Zenon DEF ActiveReplicas, CheckpointRecord
  <1>5. /\ o.previousActive \subseteq 1 .. o.previousReplicas
        /\ o.candidateActive \subseteq 1 .. o.candidateReplicas
        /\ o.candidateTerminal \subseteq 1 .. o.candidateReplicas
    <2>1. /\ Ordinals(i, ActiveReplicas(update, s)) \subseteq 1 .. update.previous[i]
          /\ Ordinals(i, p.enabled \ Lost(update, c)) \subseteq 1 .. update.candidate[i]
          /\ Ordinals(i, p.enabled) \subseteq 1 .. update.candidate[i]
      BY Zenon, <1>2, <1>3, <1>4
    <2> QED
      BY Zenon, <1>1, <2>1
  <1>6. o.previousReady \subseteq o.previousActive
    <2>1. Of(s, "previous", Ready) \subseteq ActiveReplicas(update, s)
      BY Zenon DEF ActiveReplicas, Has, Ready, Waiting, Running
    <2> QED
      BY Zenon, <1>1, <2>1 DEF Ordinals
  <1>7. o.candidateReady \subseteq o.candidateActive
    <2>1. Of(c, "candidate", Ready \cup {"succeeded"}) \cap Lost(update, c) = {}
      BY Zenon DEF Lost, Has, Ready
    <2> QED
      BY Zenon, <1>1, <2>1 DEF Ordinals
  <1>8. o.candidateAvailable \subseteq o.candidateReady
    <2>1. Of(c, "candidate", {"available", "succeeded"})
            \subseteq Of(c, "candidate", Ready \cup {"succeeded"})
      BY Zenon DEF Has, Ready
    <2> QED
      BY Zenon, <1>1, <2>1 DEF Ordinals
  <1>9. o.candidateTerminal \cap o.candidateActive = {}
    BY Zenon, <1>1 DEF Ordinals
  <1>10. ActiveCount(o) <= ActiveLimit(o, UpdatePolicy(i))
    BY Zenon, <1>1 DEF ActiveCount, Within
  <1> QED
    BY Zenon, <1>1, <1>5, <1>6, <1>7, <1>8, <1>9, <1>10 DEF Valid, o

(* The instance the stack comes to first is chosen by its number.          *)
Ordered(S) == \A T \in SUBSET S : T # {} => \E i \in T : \A j \in T : i <= j

(* What an action of next_action says about the instances.                 *)
Means(a, s, c, p, late) ==
    LET D(i) == Decision(InstanceObservation(i, s, c, p, late), UpdatePolicy(i))
    IN  /\ a.kind \in {"wait", "start", "drain", "complete", "rollback"}
        /\ a.kind # "wait" => ~Unobserved(s)
        /\ a.kind = "start" => \E i \in update.instances :
              D(i).kind = "start" /\ a.ordinals = {i} \X Lowest(D(i).ordinals, Capacity(s, c, p))
        /\ a.kind = "drain" => \E i \in update.instances :
              D(i).kind = "drain" /\ a.ordinals = {i} \X D(i).ordinals
        /\ a.kind = "complete" => \A i \in update.instances : D(i).kind = "complete"
        /\ a.kind \in {"start", "drain", "complete"} => p.draining = {}
        /\ a.kind = "wait" /\ ~Unobserved(s) /\ p.draining = {} =>
              /\ \E i \in update.instances : D(i).kind # "complete"
              /\ \A i \in update.instances :
                    /\ D(i).kind # "rollback"
                    /\ D(i).kind = "start" => Lowest(D(i).ordinals, Capacity(s, c, p)) = {}
                    /\ D(i).kind = "drain" => D(i).ordinals = {}

LEMMA NextActionMeaning ==
    ASSUME update \in Updates, Ordered(update.instances), NEW s, NEW c, NEW p, NEW late
    PROVE  Means(NextAction(s, c, p, late), s, c, p, late)
  <1> DEFINE D(i) == Decision(InstanceObservation(i, s, c, p, late), UpdatePolicy(i))
             capacity == Capacity(s, c, p)
             decision == [i \in Instances |-> D(i)]
             Chosen(i) == CASE decision[i].kind = "start" -> Lowest(decision[i].ordinals, capacity)
                            [] decision[i].kind = "drain" -> decision[i].ordinals
                            [] OTHER -> {}
             chosen == [i \in Instances |-> Chosen(i)]
             acting == {i \in Instances : chosen[i] # {}}
             first == CHOOSE i \in acting : \A j \in acting : i <= j
             a == NextAction(s, c, p, late)
  <1>1. a = IF Unobserved(s) THEN Act("wait", {})
            ELSE IF \E i \in Instances : decision[i].kind = "rollback" THEN Act("rollback", {})
            ELSE IF p.draining # {} THEN Act("wait", {})
            ELSE IF acting # {} THEN Act(decision[first].kind, {first} \X chosen[first])
            ELSE IF \A i \in Instances : decision[i].kind = "complete" THEN Act("complete", {})
            ELSE Act("wait", {})
    BY Zenon DEF NextAction
  <1>2. Instances = update.instances /\ Instances \subseteq Nat
    BY Zenon, Translation, UpdatesAssumption
  <1>3. acting # {} => first \in acting
    <2>1. acting \in SUBSET update.instances
      BY Zenon, <1>2
    <2>2. acting # {} => \E i \in acting : \A j \in acting : i <= j
      <3> HIDE DEF acting
      <3> QED
        BY Zenon, <2>1 DEF Ordered
    <2> HIDE DEF acting
    <2> QED
      BY Zenon, <2>2
  <1>4. \A i \in Instances : decision[i] = D(i) /\ chosen[i] = Chosen(i)
    BY Zenon
  <1>5. \A i \in Instances :
           /\ D(i).kind = "start" => chosen[i] = Lowest(D(i).ordinals, capacity)
           /\ D(i).kind = "drain" => chosen[i] = D(i).ordinals
           /\ chosen[i] # {} => D(i).kind \in {"start", "drain"}
    <2> HIDE DEF D, chosen, decision, capacity
    <2> QED
      BY Zenon, <1>4
  <1>6. acting # {} => /\ first \in Instances /\ chosen[first] # {}
                       /\ D(first).kind \in {"start", "drain"}
    <2> HIDE DEF D, chosen, first
    <2> QED
      BY Zenon, <1>3, <1>5
  <1>7. \A i \in Instances : chosen[i] # {} => acting # {}
    <2> HIDE DEF chosen
    <2> QED
      BY Zenon
  <1> HIDE DEF D, chosen, decision, acting, first, a, capacity
  <1>8. /\ a.kind \in {"wait", "start", "drain", "complete", "rollback"}
        /\ a.kind # "wait" => ~Unobserved(s)
        /\ a.kind = "complete" => \A i \in update.instances : D(i).kind = "complete"
        /\ a.kind \in {"start", "drain", "complete"} => p.draining = {}
    BY Zenon, <1>1, <1>2, <1>4, <1>6 DEF Act
  <1>9. a.kind \in {"start", "drain"} =>
           acting # {} /\ a.kind = D(first).kind /\ a.ordinals = {first} \X chosen[first]
    BY Zenon, <1>1, <1>4, <1>6 DEF Act
  <1>10. a.kind = "start" => \E i \in update.instances :
            D(i).kind = "start" /\ a.ordinals = {i} \X Lowest(D(i).ordinals, capacity)
    BY Zenon, <1>2, <1>5, <1>6, <1>9
  <1>11. a.kind = "drain" => \E i \in update.instances :
            D(i).kind = "drain" /\ a.ordinals = {i} \X D(i).ordinals
    BY Zenon, <1>2, <1>5, <1>6, <1>9
  <1>12. a.kind = "wait" /\ ~Unobserved(s) /\ p.draining = {} =>
            /\ acting = {}
            /\ \E i \in Instances : D(i).kind # "complete"
            /\ \A i \in Instances : D(i).kind # "rollback"
    BY Zenon, <1>1, <1>4, <1>6 DEF Act
  <1>13. acting = {} => \A i \in Instances :
            /\ D(i).kind = "start" => Lowest(D(i).ordinals, capacity) = {}
            /\ D(i).kind = "drain" => D(i).ordinals = {}
    BY Zenon, <1>5, <1>7
  <1> QED
    BY Zenon, <1>2, <1>8, <1>10, <1>11, <1>12, <1>13 DEF D, a, capacity, Means

(* A decision to start or to drain is never empty.                         *)
LEMMA DecisionActs ==
    ASSUME NEW o, NEW p
    PROVE  /\ Decision(o, p).kind \in {"start", "drain", "complete", "rollback", "wait"}
           /\ Decision(o, p).kind = "start" => Starts(o, p) # {}
           /\ Decision(o, p).kind = "drain" => Drains(o, p) # {}
  BY Zenon DEF Decision, Schedule, Act

(* What a decision made on reports s and c may change in a checkpoint.     *)
Agrees(s, c, p, q) ==
    /\ q \in CheckpointRecord(update)
    /\ p.enabled \subseteq q.enabled
    /\ Within(update, ActiveReplicas(update, s), q.enabled \ Lost(update, c))
    /\ q.phase \in {"rolling", "completing", "rollingback"}
    /\ q.phase = "completing" => ActiveReplicas(update, s) = {}
    /\ q.phase = "rollingback" => q.draining = p.draining

DecisionsAreSafe ==
    \A s, c : \A p \in CheckpointRecord(update), late \in BOOLEAN :
        /\ Within(update, ActiveReplicas(update, s), p.enabled \ Lost(update, c))
        /\ p.phase = "rolling" /\ NextAction(s, c, p, late).kind # "wait"
        => Agrees(s, c, p, Decided(p, NextAction(s, c, p, late)))

LEMMA AdvanceKeepsInv ==
    ASSUME LimitsAreMonotone, Ordered(update.instances), DecisionsAreSafe,
           UpdateInv, update' = update, AdvanceRollout
    PROVE  UpdateInv'
  <1> DEFINE acknowledged == Acknowledged(progress, seen)
             current == [progress EXCEPT !.draining = @ \ acknowledged]
             late == expired /\ acknowledged = {}
             action == NextAction(seen, status["candidate"], current, late)
             p == status["previous"]
             c == status["candidate"]
  <1>0. UpdateTypes /\ OnlyEnabledBegin /\ ProgressIsSafe /\ DecisionIsSafe /\ MemoryIsSafe
    BY Zenon DEF UpdateInv
  <1>1. /\ progress' = current /\ expired' = late /\ seen' = NoStatus
        /\ UNCHANGED <<txn, routes, status, sup, controls, crashes>>
        /\ IF action.kind = "wait" THEN pc' = "routing" /\ memory' = memory
           ELSE pc' = "publish" /\ memory' = Decided(current, action)
        /\ pc = "decide" /\ txn = "activated" /\ progress.phase = "rolling"
    BY Zenon, <1>0 DEF AdvanceRollout, supervisorVars, DecisionIsSafe
  <1>2. /\ current \in CheckpointRecord(update) /\ current.enabled = progress.enabled
        /\ current.phase = progress.phase /\ current.draining \subseteq progress.draining
    BY Zenon, <1>0 DEF UpdateTypes, CheckpointRecord
  <1>3. late \in BOOLEAN /\ update \in Updates /\ update.instances = Instances
    BY Zenon, <1>0, Translation DEF UpdateTypes
  <1> HIDE DEF current, late
  <1>4. action.kind # "wait" =>
           /\ ~Unseen(update, p) /\ ActiveReplicas(update, p) \subseteq ActiveReplicas(update, seen)
           /\ Within(update, ActiveReplicas(update, seen), current.enabled \ Lost(update, c))
    <2>1. action.kind # "wait" => ~Unseen(update, seen)
      <3>1. Means(action, seen, c, current, late)
        BY Zenon, <1>3, NextActionMeaning
      <3> HIDE DEF action
      <3>2. action.kind # "wait" => ~Unobserved(seen)
        BY Zenon, <3>1 DEF Means
      <3> QED
        BY Zenon, <3>2, Translation DEF Unobserved, Unseen
    <2> HIDE DEF action
    <2> QED
      BY Zenon, <1>0, <1>1, <1>2, <2>1 DEF DecisionIsSafe
  <1>5. action.kind # "wait" => Agrees(seen, c, current, memory')
    <2> SUFFICES ASSUME action.kind # "wait" PROVE Agrees(seen, c, current, memory')
      BY Zenon
    <2>1. /\ Within(update, ActiveReplicas(update, seen), current.enabled \ Lost(update, c))
          /\ current.phase = "rolling"
      BY Zenon, <1>1, <1>2, <1>4
    <2>2. Agrees(seen, c, current, Decided(current, action))
      BY Zenon, <1>2, <1>3, <2>1 DEF DecisionsAreSafe
    <2>3. memory' = Decided(current, action)
      BY Zenon, <1>1
    <2> QED
      BY Zenon, <2>2, <2>3
  <1> HIDE DEF action
  <1>6. UpdateTypes'
    <2>1. memory' \in CheckpointRecord(update)
      BY Zenon, <1>0, <1>1, <1>5 DEF UpdateTypes, Agrees
    <2> QED
      BY Zenon, <1>0, <1>1, <1>2, <1>3, <2>1, DaemonTypes DEF UpdateTypes
  <1>7. OnlyEnabledBegin'
    BY Zenon, <1>0, <1>1, <1>2 DEF OnlyEnabledBegin
  <1>8. ProgressIsSafe'
    BY Zenon, <1>0, <1>1, <1>2 DEF ProgressIsSafe, Safe, Settled
  <1>9. DecisionIsSafe'
    BY Zenon, <1>1 DEF DecisionIsSafe
  <1>10. MemoryIsSafe'
    <2>1. CASE action.kind = "wait"
      BY Zenon, <1>1, <2>1 DEF MemoryIsSafe
    <2>2. CASE action.kind # "wait"
      <3>1. /\ memory' \in CheckpointRecord(update) /\ current.enabled \subseteq memory'.enabled
            /\ Within(update, ActiveReplicas(update, seen), memory'.enabled \ Lost(update, c))
            /\ memory'.phase \in {"rolling", "completing", "rollingback"}
            /\ memory'.phase = "completing" => ActiveReplicas(update, seen) = {}
            /\ memory'.phase = "rollingback" => memory'.draining = current.draining
        BY Zenon, <1>5, <2>2 DEF Agrees
      <3>2. /\ ActiveReplicas(update, p) \in SUBSET ActiveReplicas(update, seen)
            /\ ActiveReplicas(update, seen) \in SUBSET Wanted(update, "previous")
            /\ ~Unseen(update, p)
        BY Zenon, <1>4, <2>2 DEF ActiveReplicas
      <3>3. memory'.enabled \ Lost(update, c) \in SUBSET Wanted(update, "candidate")
        BY Zenon, <3>1 DEF CheckpointRecord
      <3>4. Within(update, ActiveReplicas(update, p), memory'.enabled \ Lost(update, c))
        <4>1. memory'.enabled \ Lost(update, c) \in SUBSET (memory'.enabled \ Lost(update, c))
          BY Zenon
        <4> QED
          BY <1>3, <3>1, <3>2, <3>3, <4>1, FewerWithin, SMTT(30)
      <3>5. Safe(update, p, c, memory')
        BY Zenon, <3>1, <3>2, <3>4 DEF Safe
      <3>6. Settled(memory', txn) /\ memory'.phase # "none"
        BY Zenon, <3>1 DEF Settled
      <3> QED
        BY Zenon, <1>0, <1>1, <1>2, <3>1, <3>5, <3>6 DEF MemoryIsSafe
    <2> QED
      BY Zenon, <2>1, <2>2
  <1> QED
    BY Zenon, <1>6, <1>7, <1>8, <1>9, <1>10 DEF UpdateInv

=============================================================================
