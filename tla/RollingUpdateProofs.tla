------------------------- MODULE RollingUpdateProofs -------------------------
(***************************************************************************)
(* Proofs about rolling updates: for every stack, every pair of plans,     *)
(* every policy and any number of crashes.                                 *)
(***************************************************************************)
EXTENDS RollingStepProofs

-----------------------------------------------------------------------------
(* Counting.                                                               *)

(* The replicas of a plan are finitely many.                               *)
LEMMA WantedFinite ==
    ASSUME NEW u \in Updates
    PROVE  /\ \A g : IsFiniteSet(Wanted(u, g)) /\ Cardinality(Wanted(u, g)) \in Nat
           /\ Cardinality(Group(u, u.surge)) \in Nat /\ Ceiling(u) \in Nat
           /\ \A g : Cardinality(Wanted(u, g)) <= Ceiling(u)
  <1> DEFINE All == u.instances \X (1 .. MaxReplicas)
  <1>0. \A i \in u.instances : u.surge[i] \in 0 .. MaxReplicas
    BY Zenon, InstanceNumbers
  <1>1. ASSUME NEW count, \A i \in u.instances : count[i] \in 0 .. MaxReplicas
        PROVE  Group(u, count) \subseteq All
    BY <1>1, MaxReplicasAssumption DEF Group
  <1>2. IsFiniteSet(All)
    <2>1. IsFiniteSet(1 .. MaxReplicas)
      BY Zenon, IntervalCount, MaxReplicasAssumption
    <2>2. IsFiniteSet(u.instances)
      BY Zenon, UpdatesAssumption
    <2> QED
      BY Zenon, <2>1, <2>2, FS_Product
  <1> HIDE DEF All
  <1>3. \A T \in SUBSET All : IsFiniteSet(T) /\ Cardinality(T) \in Nat
    BY Zenon, <1>2, FS_Subset, FS_CardinalityType
  <1>4. \A g : Wanted(u, g) \in SUBSET All
    BY Zenon, WantedBounded DEF All
  <1>5. Cardinality(Group(u, u.surge)) \in Nat
    BY <1>0, <1>1, <1>3, SMTT(30)
  <1>6. \A g : IsFiniteSet(Wanted(u, g)) /\ Cardinality(Wanted(u, g)) \in Nat
    BY <1>3, <1>4, SMTT(30)
  <1>7. \A g : Wanted(u, g) = Wanted(u, "previous") \/ Wanted(u, g) = Wanted(u, "candidate")
    BY Zenon DEF Wanted
  <1>8. Ceiling(u) \in Nat /\ \A g : Cardinality(Wanted(u, g)) <= Ceiling(u)
    <2>1. /\ Ceiling(u) \in Nat
          /\ Cardinality(Wanted(u, "previous")) <= Ceiling(u)
          /\ Cardinality(Wanted(u, "candidate")) <= Ceiling(u)
      BY <1>5, <1>6 DEF Ceiling, Larger
    <2> QED
      BY Zenon, <1>7, <2>1
  <1> QED
    BY Zenon, <1>5, <1>6, <1>8

(* The ordinals of the replicas of an instance.                            *)
LEMMA OrdinalsCount ==
    ASSUME NEW i, NEW S
    PROVE  /\ Ordinals(i, S) \in SUBSET (1 .. MaxReplicas)
           /\ IsFiniteSet(Ordinals(i, S)) /\ Cardinality(Ordinals(i, S)) \in Nat
  <1>1. Ordinals(i, S) \in SUBSET (1 .. MaxReplicas)
    BY Zenon DEF Ordinals
  <1> QED
    BY <1>1, OrdinalsFinite

(* Fewer replicas have fewer of them.                                      *)
LEMMA OrdinalsOf ==
    ASSUME NEW i, NEW S, NEW T \in SUBSET S
    PROVE  /\ Ordinals(i, T) \subseteq Ordinals(i, S)
           /\ Cardinality(Ordinals(i, T)) <= Cardinality(Ordinals(i, S))
  <1>1. Ordinals(i, T) \in SUBSET Ordinals(i, S)
    BY Zenon DEF Ordinals
  <1> QED
    BY <1>1, OrdinalsCount, FS_Subset

(* Fewer replicas stay within the limits.                                  *)
LEMMA WithinFewer ==
    ASSUME NEW u \in Updates,
           NEW A \in SUBSET Wanted(u, "previous"), NEW B \in SUBSET Wanted(u, "candidate"),
           NEW A1 \in SUBSET A, NEW B1 \in SUBSET B, Within(u, A, B)
    PROVE  Within(u, A1, B1)
  <1>1. /\ IsFiniteSet(A) /\ IsFiniteSet(B)
    BY WantedFinite, FS_Subset
  <1>2. /\ Cardinality(A1) <= Cardinality(A) /\ Cardinality(B1) <= Cardinality(B)
        /\ Cardinality(A) \in Nat /\ Cardinality(B) \in Nat
        /\ Cardinality(A1) \in Nat /\ Cardinality(B1) \in Nat
    BY <1>1, FS_Subset, FS_CardinalityType
  <1>3. Cardinality(A1) + Cardinality(B1) <= Ceiling(u)
    BY <1>2, WantedFinite, SMTT(30) DEF Within
  <1>4. ASSUME NEW i \in u.instances
        PROVE  Cardinality(Ordinals(i, A1)) + Cardinality(Ordinals(i, B1))
                 <= Larger(u.previous[i], u.candidate[i]) + u.surge[i]
    <2>1. Larger(u.previous[i], u.candidate[i]) + u.surge[i] \in Nat
      BY Zenon, InstanceNumbers
    <2>2. Cardinality(Ordinals(i, A)) + Cardinality(Ordinals(i, B))
            <= Larger(u.previous[i], u.candidate[i]) + u.surge[i]
      BY Zenon DEF Within
    <2>3. /\ Cardinality(Ordinals(i, A1)) \in Nat /\ Cardinality(Ordinals(i, B1)) \in Nat
          /\ Cardinality(Ordinals(i, A)) \in Nat /\ Cardinality(Ordinals(i, B)) \in Nat
          /\ Cardinality(Ordinals(i, A1)) <= Cardinality(Ordinals(i, A))
          /\ Cardinality(Ordinals(i, B1)) <= Cardinality(Ordinals(i, B))
      BY OrdinalsOf, OrdinalsCount, SMTT(30)
    <2> QED
      BY <2>1, <2>2, <2>3, SMTT(30)
  <1> QED
    BY <1>3, <1>4, SMTT(30) DEF Within

(* The whole previous generation alone is within the limits.               *)
LEMMA PreviousWithin ==
    ASSUME NEW u \in Updates
    PROVE  Within(u, Wanted(u, "previous"), {})
  <1>1. Cardinality(Wanted(u, "previous")) + Cardinality({}) <= Ceiling(u)
    BY WantedFinite, FS_EmptySet, SMTT(30)
  <1>2. ASSUME NEW i \in u.instances
        PROVE  Cardinality(Ordinals(i, Wanted(u, "previous"))) + Cardinality(Ordinals(i, {}))
                 <= Larger(u.previous[i], u.candidate[i]) + u.surge[i]
    <2>1. Ordinals(i, Wanted(u, "previous")) \subseteq 1 .. u.previous[i] /\ Ordinals(i, {}) = {}
      BY DEF Ordinals, Wanted, Group
    <2>2. u.previous[i] \in Nat /\ u.candidate[i] \in Nat /\ u.surge[i] \in Nat
      BY Zenon, InstanceNumbers
    <2>3. IsFiniteSet(1 .. u.previous[i]) /\ Cardinality(1 .. u.previous[i]) = u.previous[i]
      BY Zenon, <2>2, IntervalCount
    <2>4. /\ Cardinality(Ordinals(i, Wanted(u, "previous"))) <= u.previous[i]
          /\ Cardinality(Ordinals(i, {})) = 0
      <3>1. Cardinality(Ordinals(i, Wanted(u, "previous"))) <= Cardinality(1 .. u.previous[i])
        BY Zenon, <2>1, <2>3, FS_Subset
      <3> QED
        BY <2>1, <2>3, <3>1, FS_EmptySet, Zenon
    <2>5. Cardinality(Ordinals(i, Wanted(u, "previous"))) \in Nat
      BY Zenon, OrdinalsCount
    <2> QED
      BY <2>2, <2>4, <2>5, SMTT(30) DEF Larger
  <1> QED
    BY <1>1, <1>2, SMTT(30) DEF Within

LEMMA LeastIsNatural ==
    ASSUME NEW u \in Updates, NEW i \in u.instances
    PROVE  Least(u, i) \in Nat /\ u.unavailable[i] \in Nat
  <1>1. [startFirst |-> u.startFirst[i], surge |-> u.surge[i],
         unavailable |-> u.unavailable[i]] \in Policy
    BY Zenon, UpdatesAssumption
  <1>2. u.unavailable[i] \in Nat
    BY <1>1, MaxReplicasAssumption DEF Policy
  <1> QED
    BY <1>2, InstanceNumbers, SMTT(30) DEF Least, Smaller, Minus

(* More in service is enough.                                              *)
LEMMA MoreKept ==
    ASSUME NEW u \in Updates, NEW R, NEW R1, NEW V, NEW V1,
           R \in SUBSET R1, V \in SUBSET V1, Kept(u, R, V)
    PROVE  Kept(u, R1, V1)
  <1> SUFFICES ASSUME NEW i \in u.instances
               PROVE  Cardinality(Ordinals(i, R1)) + Cardinality(Ordinals(i, V1)) >= Least(u, i)
    BY Zenon DEF Kept
  <1>1. Cardinality(Ordinals(i, R)) + Cardinality(Ordinals(i, V)) >= Least(u, i)
    BY Zenon DEF Kept
  <1>2. /\ Cardinality(Ordinals(i, R)) <= Cardinality(Ordinals(i, R1))
        /\ Cardinality(Ordinals(i, V)) <= Cardinality(Ordinals(i, V1))
    BY Zenon, OrdinalsOf
  <1>3. /\ Cardinality(Ordinals(i, R)) \in Nat /\ Cardinality(Ordinals(i, R1)) \in Nat
        /\ Cardinality(Ordinals(i, V)) \in Nat /\ Cardinality(Ordinals(i, V1)) \in Nat
        /\ Least(u, i) \in Nat
    BY OrdinalsCount, LeastIsNatural, SMTT(30)
  <1> QED
    BY <1>1, <1>2, <1>3

LEMMA LimitsHold == LimitsAreMonotone
  <1>1. ASSUME NEW u \in Updates
        PROVE  \A A \in SUBSET Wanted(u, "previous"), B \in SUBSET Wanted(u, "candidate") :
                  Within(u, A, B) => \A A1 \in SUBSET A, B1 \in SUBSET B : Within(u, A1, B1)
    BY Zenon, WithinFewer
  <1>2. ASSUME NEW u \in Updates
        PROVE  \A R1, V1 : \A R \in SUBSET R1, V \in SUBSET V1 : Kept(u, R, V) => Kept(u, R1, V1)
    BY Zenon, MoreKept
  <1> QED
    BY Zenon, <1>1, <1>2, PreviousWithin DEF LimitsAreMonotone

(* The instances of a plan are numbered.                                   *)
LEMMA InstancesOrdered ==
    ASSUME NEW u \in Updates
    PROVE  Ordered(u.instances)
  <1>1. u.instances \in SUBSET Nat
    BY Zenon, UpdatesAssumption
  <1> QED
    BY Zenon, <1>1, LeastNatural DEF Ordered

-----------------------------------------------------------------------------
(* The decision.                                                           *)


(* Starting what fits keeps the stack and every instance within limits.    *)
LEMMA StartsWithin ==
    ASSUME NEW u \in Updates,
           NEW A \in SUBSET Wanted(u, "previous"), NEW E \in SUBSET Wanted(u, "candidate"),
           Within(u, A, E), NEW i \in u.instances, NEW L \in SUBSET (1 .. u.candidate[i]),
           Cardinality(L) <= Minus(Ceiling(u), Cardinality(A) + Cardinality(E)),
           Cardinality(Ordinals(i, A)) + Cardinality(Ordinals(i, E) \cup L)
              <= Larger(u.previous[i], u.candidate[i]) + u.surge[i]
    PROVE  /\ {i} \X L \subseteq Wanted(u, "candidate")
           /\ Within(u, A, E \cup ({i} \X L))
  <1> DEFINE N == {i} \X L
  <1>1. N \subseteq Wanted(u, "candidate")
    <2>1. N \subseteq {i} \X (1 .. u.candidate[i])
      BY Zenon
    <2>2. {i} \X (1 .. u.candidate[i]) \subseteq Wanted(u, "candidate")
      BY Zenon DEF Wanted, Group
    <2> QED
      BY Zenon, <2>1, <2>2
  <1>2. u.candidate[i] \in 0 .. MaxReplicas /\ MaxReplicas \in Nat
    BY InstanceNumbers, MaxReplicasAssumption, SMTT(30)
  <1>3. L \in SUBSET (1 .. MaxReplicas)
    BY <1>2, SMTT(30)
  <1>4. IsFiniteSet(L) /\ Cardinality(L) \in Nat
    BY Zenon, <1>3, OrdinalsFinite
  <1>5. IsFiniteSet(N) /\ Cardinality(N) = Cardinality(L)
    <2>1. IsFiniteSet({i}) /\ Cardinality({i}) = 1
      BY Zenon, FS_Singleton
    <2>2. IsFiniteSet({i} \X L) /\ Cardinality({i} \X L) = Cardinality({i}) * Cardinality(L)
      BY <1>4, <2>1, FS_Product, SMTT(30)
    <2> QED
      BY <1>4, <2>1, <2>2, SMTT(30)
  <1>6. /\ IsFiniteSet(A) /\ Cardinality(A) \in Nat
        /\ IsFiniteSet(E) /\ Cardinality(E) \in Nat
    BY WantedFinite, FS_Subset, FS_CardinalityType, SMTT(30)
  <1>7. Ceiling(u) \in Nat
    BY Zenon, WantedFinite
  <1>8. Cardinality(E \cup N) <= Cardinality(E) + Cardinality(N)
    <2>1. Cardinality(E \cup N) = Cardinality(E) + Cardinality(N) - Cardinality(E \cap N)
      BY ZenonT(40), <1>5, <1>6, FS_Union
    <2>2. Cardinality(E \cap N) \in Nat
      <3>1. E \cap N \in SUBSET E
        BY Zenon
      <3> QED
        BY ZenonT(60), <1>6, <3>1, FS_Subset, FS_CardinalityType
    <2> QED
      BY <1>4, <1>5, <1>6, <2>1, <2>2, SMTT(30)
  <1>9. Cardinality(E \cup N) \in Nat
    BY ZenonT(60), <1>5, <1>6, FS_Union, FS_CardinalityType
  <1>10. Cardinality(A) + Cardinality(E \cup N) <= Ceiling(u)
    <2>1. Cardinality(A) + Cardinality(E) <= Ceiling(u)
      BY Zenon DEF Within
    <2> HIDE DEF N
    <2> QED
      BY SMTT(60), <1>4, <1>5, <1>6, <1>7, <1>8, <1>9, <2>1 DEF Minus
  <1>11. Ordinals(i, E \cup N) = Ordinals(i, E) \cup L
    BY Zenon, <1>3 DEF Ordinals
  <1>12. \A j \in u.instances : j # i => Ordinals(j, E \cup N) = Ordinals(j, E)
    BY Zenon DEF Ordinals
  <1> HIDE DEF N
  <1>13. \A j \in u.instances :
            Cardinality(Ordinals(j, A)) + Cardinality(Ordinals(j, E \cup N))
              <= Larger(u.previous[j], u.candidate[j]) + u.surge[j]
    BY Zenon, <1>11, <1>12 DEF Within
  <1> QED
    BY Zenon, <1>1, <1>10, <1>13 DEF Within, N

(* Enough of the decision for the invariant: its checkpoint is one the     *)
(* reports it was made on agree with.                                      *)
LEMMA DecidedIsSafe ==
    ASSUME update \in Updates, NEW s, NEW c, NEW p \in CheckpointRecord(update), NEW late \in BOOLEAN,
           Within(update, ActiveReplicas(update, s), p.enabled \ Lost(update, c)),
           p.phase = "rolling", NextAction(s, c, p, late).kind # "wait"
    PROVE  Agrees(s, c, p, Decided(p, NextAction(s, c, p, late)))
  <1> DEFINE a == NextAction(s, c, p, late)
             q == Decided(p, a)
             O(i) == InstanceObservation(i, s, c, p, late)
             D(i) == Decision(O(i), UpdatePolicy(i))
             A == ActiveReplicas(update, s)
             E == p.enabled \ Lost(update, c)
             capacity == Capacity(s, c, p)
  <1>1. /\ p \in [phase : ProgressPhases, enabled : SUBSET Wanted(update, "candidate"),
                  draining : SUBSET Wanted(update, "previous")]
        /\ A \in SUBSET Wanted(update, "previous") /\ E \in SUBSET Wanted(update, "candidate")
    BY Zenon DEF CheckpointRecord, ActiveReplicas
  <1>2. \A i \in update.instances :
           /\ O(i) \in Observation /\ UpdatePolicy(i) \in Policy
           /\ Counted(O(i), i, s, c, p) /\ Valid(O(i), UpdatePolicy(i))
    BY Zenon, ObservationMeaning, ObservationAccepted
  <1>3. /\ a.kind \in {"start", "drain", "complete", "rollback"}
        /\ a.kind = "start" => \E i \in update.instances :
              D(i).kind = "start" /\ a.ordinals = {i} \X Lowest(D(i).ordinals, capacity)
        /\ a.kind = "drain" => \E i \in update.instances :
              D(i).kind = "drain" /\ a.ordinals = {i} \X D(i).ordinals
        /\ a.kind = "complete" => \A i \in update.instances : D(i).kind = "complete"
    <2>1. Means(a, s, c, p, late)
      BY Zenon, NextActionMeaning, InstancesOrdered
    <2>2. a.kind # "wait"
      BY Zenon
    <2> HIDE DEF a
    <2> QED
      BY Zenon, <2>1, <2>2 DEF Means
  <1> HIDE DEF a, O
  <1>4. CASE a.kind = "start"
    <2>1. PICK i \in update.instances :
             D(i).kind = "start" /\ a.ordinals = {i} \X Lowest(D(i).ordinals, capacity)
      BY <1>3, <1>4
    <2> DEFINE L == Lowest(Starts(O(i), UpdatePolicy(i)), capacity)
    <2>2. a.ordinals = {i} \X L
      BY Zenon, <2>1, DecisionMeaning
    <2>3. capacity = Minus(Ceiling(update), Cardinality(A) + Cardinality(E))
      BY Zenon, Translation DEF Capacity, StackActive, ActiveReplicas, Lost
    <2>4. capacity \in Nat
      <3>1. /\ Ceiling(update) \in Nat /\ Cardinality(A) \in Nat /\ Cardinality(E) \in Nat
        BY <1>1, WantedFinite, FS_Subset, FS_CardinalityType, SMTT(30)
      <3> HIDE DEF capacity, A, E
      <3> QED
        BY <2>3, <3>1, SMTT(30) DEF Minus
    <2>5. /\ Starts(O(i), UpdatePolicy(i)) \subseteq Missing(O(i))
          /\ Cardinality(O(i).previousActive)
                + Cardinality(O(i).candidateActive \cup Starts(O(i), UpdatePolicy(i)))
                <= ActiveLimit(O(i), UpdatePolicy(i))
          /\ Missing(O(i)) \in SUBSET (1 .. MaxReplicas)
      BY Zenon, <1>2, StartWithinLimit, CountTypes
    <2>6. /\ Counted(O(i), i, s, c, p) /\ Missing(O(i)) \subseteq 1 .. update.candidate[i]
      <3>1. Counted(O(i), i, s, c, p)
        BY Zenon, <1>2
      <3>2. Missing(O(i)) \subseteq 1 .. O(i).candidateReplicas
        BY Zenon DEF Missing
      <3> QED
        BY Zenon, <3>1, <3>2 DEF Counted
    <2>7. L \subseteq Starts(O(i), UpdatePolicy(i)) /\ Cardinality(L) <= capacity
      <3>1. Starts(O(i), UpdatePolicy(i)) \in SUBSET (1 .. MaxReplicas)
        BY Zenon, <2>5
      <3> QED
        BY Zenon, <2>4, <3>1, LowestBound
    <2>8. L \in SUBSET (1 .. update.candidate[i])
      BY Zenon, <2>5, <2>6, <2>7
    <2>9. Cardinality(Ordinals(i, A)) + Cardinality(Ordinals(i, E) \cup L)
             <= Larger(update.previous[i], update.candidate[i]) + update.surge[i]
      <3> DEFINE S == Starts(O(i), UpdatePolicy(i))
                 limit == Larger(update.previous[i], update.candidate[i]) + update.surge[i]
      <3>1. Cardinality(Ordinals(i, A)) + Cardinality(Ordinals(i, E) \cup S) <= limit
        BY Zenon, <2>5, <2>6 DEF Counted
      <3>2. /\ Ordinals(i, E) \cup S \in SUBSET (1 .. MaxReplicas)
            /\ Ordinals(i, E) \cup L \in SUBSET (Ordinals(i, E) \cup S)
        BY Zenon, <2>5, <2>7, OrdinalsCount
      <3>3. /\ IsFiniteSet(Ordinals(i, E) \cup S) /\ Cardinality(Ordinals(i, E) \cup S) \in Nat
        BY ZenonT(40), <3>2, OrdinalsFinite
      <3>4. /\ Cardinality(Ordinals(i, E) \cup L) <= Cardinality(Ordinals(i, E) \cup S)
            /\ Cardinality(Ordinals(i, E) \cup L) \in Nat
        BY Zenon, <3>2, <3>3, FS_Subset, FS_CardinalityType
      <3>5. Cardinality(Ordinals(i, A)) \in Nat /\ limit \in Nat
        BY Zenon, OrdinalsCount, InstanceNumbers
      <3> HIDE DEF S, L, A, E, limit
      <3>6. Cardinality(Ordinals(i, A)) + Cardinality(Ordinals(i, E) \cup L) <= limit
        BY <3>1, <3>3, <3>4, <3>5, SMTT(30)
      <3> QED
        BY Zenon, <3>6 DEF limit
    <2>10. /\ a.ordinals \subseteq Wanted(update, "candidate")
           /\ Within(update, A, E \cup a.ordinals)
      <3>1. Cardinality(L) <= Minus(Ceiling(update), Cardinality(A) + Cardinality(E))
        BY Zenon, <2>3, <2>7
      <3> HIDE DEF L, A, E
      <3>2. Within(update, A, E)
        BY Zenon DEF A, E
      <3>3. /\ {i} \X L \subseteq Wanted(update, "candidate")
            /\ Within(update, A, E \cup ({i} \X L))
        BY ZenonT(60), <1>1, <2>8, <2>9, <3>1, <3>2, StartsWithin
      <3> QED
        BY Zenon, <2>2, <3>3
    <2>11. q = [p EXCEPT !.enabled = @ \cup a.ordinals]
      BY Zenon, <1>4 DEF Decided
    <2>12. /\ q \in CheckpointRecord(update) /\ q.enabled = p.enabled \cup a.ordinals
           /\ q.phase = "rolling" /\ q.draining = p.draining
      <3> HIDE DEF q
      <3> QED
        BY <1>1, <2>10, <2>11, SMTT(30) DEF CheckpointRecord
    <2>13. Within(update, A, q.enabled \ Lost(update, c))
      <3>1. q.enabled \ Lost(update, c) \in SUBSET (E \cup a.ordinals)
        BY Zenon, <2>12
      <3>2. E \cup a.ordinals \in SUBSET Wanted(update, "candidate")
        BY Zenon, <1>1, <2>10
      <3>3. A \in SUBSET A /\ A \in SUBSET Wanted(update, "previous")
        BY Zenon, <1>1
      <3> HIDE DEF A, E, q
      <3> QED
        BY <2>10, <3>1, <3>2, <3>3, WithinFewer, SMTT(30)
    <2> HIDE DEF q
    <2> QED
      BY <2>12, <2>13, SMTT(30) DEF q, a, Agrees
  <1>5. CASE a.kind = "drain"
    <2>1. PICK i \in update.instances : D(i).kind = "drain" /\ a.ordinals = {i} \X D(i).ordinals
      BY <1>3, <1>5
    <2>2. a.ordinals = {i} \X Drains(O(i), UpdatePolicy(i))
      BY Zenon, <2>1, DecisionMeaning
    <2>3. Drains(O(i), UpdatePolicy(i)) \subseteq Ordinals(i, A)
      <3>1. Drains(O(i), UpdatePolicy(i)) \subseteq O(i).previousActive
        BY Zenon, <1>2, DrainWithinBudget
      <3>2. O(i).previousActive = Ordinals(i, A)
        BY Zenon, <1>2 DEF Counted
      <3> QED
        BY Zenon, <3>1, <3>2
    <2>4. a.ordinals \subseteq A
      BY <2>2, <2>3 DEF Ordinals
    <2>5. q = [p EXCEPT !.draining = @ \cup a.ordinals]
      BY Zenon, <1>5 DEF Decided
    <2>6. /\ q \in CheckpointRecord(update) /\ q.enabled = p.enabled /\ q.phase = "rolling"
      <3> HIDE DEF q
      <3> QED
        BY <1>1, <2>4, <2>5, SMTT(30) DEF CheckpointRecord
    <2> HIDE DEF q
    <2> QED
      BY Zenon, <2>6 DEF q, a, Agrees
  <1>6. CASE a.kind = "complete"
    <2>1. \A i \in update.instances : Ordinals(i, A) = {}
      <3> SUFFICES ASSUME NEW i \in update.instances PROVE Ordinals(i, A) = {}
        BY ZenonT(40)
      <3>1. D(i).kind = "complete" /\ Counted(O(i), i, s, c, p)
        BY <1>2, <1>3, <1>6, SMTT(30)
      <3>2. Complete(O(i))
        BY ZenonT(60), <3>1, DecisionMeaning
      <3> QED
        BY ZenonT(40), <3>1, <3>2 DEF Complete, Counted
    <2>2. A = {}
      <3>1. A \subseteq update.instances \X (1 .. MaxReplicas)
        BY Zenon, <1>1, WantedBounded
      <3> HIDE DEF A
      <3> QED
        BY <2>1, <3>1, SMTT(30) DEF Ordinals
    <2>3. q = [p EXCEPT !.phase = "completing"]
      BY Zenon, <1>6 DEF Decided
    <2>4. q \in CheckpointRecord(update) /\ q.enabled = p.enabled /\ q.phase = "completing"
      <3> HIDE DEF q
      <3> QED
        BY <1>1, <2>3 DEF CheckpointRecord, ProgressPhases
    <2> HIDE DEF q
    <2> QED
      BY <2>2, <2>4, SMTT(30) DEF q, a, Agrees
  <1>7. CASE a.kind = "rollback"
    <2>1. q = [p EXCEPT !.phase = "rollingback"]
      BY Zenon, <1>7 DEF Decided
    <2>2. /\ q \in CheckpointRecord(update) /\ q.enabled = p.enabled /\ q.phase = "rollingback"
          /\ q.draining = p.draining
      <3> HIDE DEF q
      <3> QED
        BY <1>1, <2>1, SMTT(30) DEF CheckpointRecord, ProgressPhases
    <2> HIDE DEF q
    <2> QED
      BY Zenon, <2>2 DEF q, a, Agrees
  <1> QED
    BY <1>3, <1>4, <1>5, <1>6, <1>7, SMTT(30)

-----------------------------------------------------------------------------
(* The theorems.                                                           *)

LEMMA NextUpdateInv == UpdateInv /\ [UpdateNext]_updateVars => UpdateInv'
  <1> SUFFICES ASSUME UpdateInv, [UpdateNext]_updateVars PROVE UpdateInv'
    BY Zenon
  <1>1. update' = update /\ update \in Updates
    BY Zenon, StepCases DEF updateVars, UpdateInv, UpdateTypes
  <1>2. DecisionsAreSafe
    BY ZenonT(40), <1>1, DecidedIsSafe DEF DecisionsAreSafe
  <1>3. UpdateInv' \/ AdvanceRollout
    BY Zenon, StepsKeepInv, LimitsHold
  <1>4. AdvanceRollout => UpdateInv'
    BY ZenonT(60), <1>1, <1>2, AdvanceKeepsInv, LimitsHold, InstancesOrdered
  <1> QED
    BY Zenon, <1>3, <1>4

THEOREM InvariantUpdateInv == UpdateSpec => []UpdateInv
  <1>1. UpdateInit => UpdateInv
    BY Zenon, InitUpdateInv, LimitsHold
  <1> QED
    BY <1>1, NextUpdateInv, PTL DEF UpdateSpec

(* Every file and every process of an update stays in a state of its kind, *)
(* for any stack, policies, failures and crashes.                          *)
THEOREM UpdateTypesCorrect == UpdateSpec => []UpdateTypeOK
  BY InvariantUpdateInv, TypesFromInv, PTL

(* The workers that really run, of both generations, stay within replicas  *)
(* plus surge for the stack and for every instance, and none of the        *)
(* previous generation is left once the daemon moves to commit, whatever   *)
(* stale instructions the supervisors act on and whichever process dies    *)
(* (next_action, reconcile_rollout_phase, supervise_stack).                *)
THEOREM SurgeIsBounded == UpdateSpec => []SurgeBound
  <1>1. UpdateInv => SurgeBound
    BY Zenon, SurgeFromInv, LimitsHold
  <1> QED
    BY <1>1, InvariantUpdateInv, PTL

LEMMA NeverRefusedFromInv == UpdateInv => SchedulerNeverRefuses
  <1> SUFFICES ASSUME UpdateInv, NextActionErrs PROVE FALSE
    BY Zenon DEF SchedulerNeverRefuses
  <1> DEFINE acknowledged == Acknowledged(progress, seen)
             current == [progress EXCEPT !.draining = @ \ acknowledged]
             late == expired /\ acknowledged = {}
             c == status["candidate"]
  <1>1. pc = "decide" /\ Refused(seen, c, current, late)
    BY Zenon DEF NextActionErrs
  <1>2. /\ current \in CheckpointRecord(update) /\ current.enabled = progress.enabled
        /\ late \in BOOLEAN /\ update \in Updates
    BY Zenon DEF UpdateInv, UpdateTypes, CheckpointRecord
  <1> HIDE DEF current, late
  <1>3. ~Unseen(update, seen)
    BY <1>1, Translation, SMTT(30) DEF Refused, Unobserved, Unseen
  <1>4. Within(update, ActiveReplicas(update, seen), current.enabled \ Lost(update, c))
    BY SMTT(60), <1>1, <1>2, <1>3 DEF UpdateInv, DecisionIsSafe
  <1>5. ~Unauthorised(c, current)
    BY <1>2, Translation, SMTT(30) DEF Unauthorised, UpdateInv, OnlyEnabledBegin, Begun
  <1>6. ~(StackActive(seen, c, current) > StackLimit)
    <2>1. StackActive(seen, c, current) <= StackLimit
      BY ZenonT(60), <1>4, Translation DEF StackActive, Within, ActiveReplicas, Lost
    <2>2. StackLimit \in Nat /\ StackActive(seen, c, current) \in Nat
      <3>1. /\ ActiveReplicas(update, seen) \in SUBSET Wanted(update, "previous")
            /\ current.enabled \ Lost(update, c) \in SUBSET Wanted(update, "candidate")
        BY Zenon, <1>2 DEF ActiveReplicas, CheckpointRecord
      <3>2. /\ Cardinality(ActiveReplicas(update, seen)) \in Nat
            /\ Cardinality(current.enabled \ Lost(update, c)) \in Nat
        BY SMTT(60), <1>2, <3>1, WantedFinite, FS_Subset, FS_CardinalityType
      <3>3. StackActive(seen, c, current) = Cardinality(ActiveReplicas(update, seen))
                                              + Cardinality(current.enabled \ Lost(update, c))
        BY Zenon, Translation DEF StackActive, ActiveReplicas, Lost
      <3>4. StackLimit \in Nat
        BY ZenonT(60), <1>2, WantedFinite, Translation
      <3> QED
        BY <3>2, <3>3, <3>4
    <2> QED
      BY <2>1, <2>2
  <1>7. \A i \in Instances : Valid(InstanceObservation(i, seen, c, current, late), UpdatePolicy(i))
    BY ZenonT(60), <1>2, <1>4, Translation, ObservationAccepted
  <1> QED
    BY <1>1, <1>5, <1>6, <1>7, SMTT(30) DEF Refused

(* The scheduler never meets files it refuses and a terminal checkpoint    *)
(* always has a settled transaction behind it, at whatever step a crash    *)
(* strikes (next_action, reconcile_rollout_phase).                         *)
THEOREM CheckpointsAlwaysAgree == UpdateSpec => []CheckpointsAgree
  <1>1. UpdateInv => TerminalProgressIsSettled
    BY Zenon DEF UpdateInv, ProgressIsSafe, Settled, TerminalProgressIsSettled
  <1>2. UpdateInv => CheckpointsAgree
    BY <1>1, TypesFromInv, NeverRefusedFromInv, SMTT(30) DEF CheckpointsAgree
  <1> QED
    BY <1>2, InvariantUpdateInv, PTL

(* A drain becomes visible to the supervisor only when the routing table   *)
(* no longer lists the replica (advance_active_rollout,                    *)
(* publish_routing_snapshot_for_progress, save_rollout_progress).          *)
THEOREM RoutesAreRemovedFirst == UpdateSpec => RouteRemovedFirst
  <1>1. UpdateInv /\ [UpdateNext]_updateVars => [RouteRemoved]_updateVars
    <2> SUFFICES ASSUME UpdateInv, [UpdateNext]_updateVars PROVE RouteRemoved
      BY Zenon
    <2>1. CASE progress'.draining \subseteq progress.draining
      BY <2>1 DEF RouteRemoved
    <2>2. CASE Save
      <3>1. progress' = memory /\ routes' = routes /\ pc = "save"
        BY SMTT(60), <2>2 DEF Save
      <3> QED
        BY <3>1, Zenon DEF RouteRemoved, UpdateInv, MemoryIsSafe
    <2> QED
      BY <2>1, <2>2, DrainsAppearInSave, SMTT(30)
  <1> QED
    BY <1>1, InvariantUpdateInv, PTL DEF UpdateSpec, RouteRemovedFirst

(* With every enabled candidate available, no drain outstanding and a      *)
(* place left in the stack, the coordinator has something to start or to   *)
(* drain, or it is done (next_action, stack_start_capacity).               *)
THEOREM IdlesAtCeilingOnly == UpdateSpec => []IdleAtCeilingOnly
  <1>1. UpdateInv => IdleAtCeilingOnly
    <2> DEFINE c == status["candidate"]
               O(i) == InstanceObservation(i, seen, c, progress, expired)
               D(i) == Decision(O(i), UpdatePolicy(i))
               A == ActiveReplicas(update, seen)
               E == progress.enabled \ Lost(update, c)
    <2> SUFFICES ASSUME UpdateInv, pc = "decide", ~Unobserved(seen), progress.draining = {},
                        StackActive(seen, c, progress) # StackLimit,
                        \A r \in progress.enabled : Has(c, r, {"available", "succeeded"}),
                        NextAction(seen, c, progress, expired).kind = "wait"
                 PROVE  FALSE
      BY Zenon DEF IdleAtCeilingOnly
    <2>1. /\ update \in Updates /\ progress \in CheckpointRecord(update) /\ expired \in BOOLEAN
          /\ progress.enabled \subseteq Wanted(update, "candidate")
      BY Zenon DEF UpdateInv, UpdateTypes, CheckpointRecord
    <2>2. Within(update, A, E)
      <3>1. ~Unseen(update, seen)
        BY Zenon, Translation DEF Unobserved, Unseen
      <3> QED
        BY Zenon, <3>1 DEF UpdateInv, DecisionIsSafe
    <2>3. ASSUME NEW i \in update.instances
          PROVE  /\ O(i) \in Observation /\ UpdatePolicy(i) \in Policy
                 /\ Valid(O(i), UpdatePolicy(i)) /\ D(i).kind # "wait"
      <3>1. /\ O(i) \in Observation /\ UpdatePolicy(i) \in Policy
            /\ Counted(O(i), i, seen, c, progress) /\ Valid(O(i), UpdatePolicy(i))
        BY ZenonT(60), <2>1, <2>2, ObservationMeaning, ObservationAccepted
      <3>2. /\ E = progress.enabled
            /\ progress.enabled \subseteq
                  {r \in Wanted(update, "candidate") : Has(c, r, {"available", "succeeded"})}
        BY Zenon, <2>1 DEF Lost, Has
      <3>3. Ordinals(i, progress.enabled) \cap
               Ordinals(i, {r \in Wanted(update, "candidate") : Has(c, r, {"available", "succeeded"})})
              = Ordinals(i, progress.enabled)
        BY <3>2, OrdinalsOf
      <3>4. O(i).candidateAvailable = O(i).candidateActive
        BY ZenonT(60), <3>1, <3>2, <3>3 DEF Counted
      <3> QED
        BY ZenonT(60), <3>1, <3>4, ValidNeverIdle
    <2>4. /\ \E i \in update.instances : D(i).kind # "complete"
          /\ \A i \in update.instances :
                /\ D(i).kind # "rollback"
                /\ D(i).kind = "start" => Lowest(D(i).ordinals, Capacity(seen, c, progress)) = {}
                /\ D(i).kind = "drain" => D(i).ordinals = {}
      BY ZenonT(60), <2>1, NextActionMeaning, InstancesOrdered DEF Means
    <2>5. Capacity(seen, c, progress) \in Nat /\ Capacity(seen, c, progress) > 0
      <3>1. /\ A \in SUBSET Wanted(update, "previous") /\ E \in SUBSET Wanted(update, "candidate")
        BY Zenon, <2>1 DEF ActiveReplicas
      <3>2. Cardinality(A) \in Nat /\ Cardinality(E) \in Nat /\ Ceiling(update) \in Nat
        BY SMTT(60), <2>1, <3>1, WantedFinite, FS_Subset, FS_CardinalityType
      <3>3. StackActive(seen, c, progress) = Cardinality(A) + Cardinality(E)
        BY Zenon, Translation DEF StackActive, ActiveReplicas, Lost
      <3>4. StackLimit = Ceiling(update) /\ Cardinality(A) + Cardinality(E) <= Ceiling(update)
        BY ZenonT(60), <2>2, Translation DEF Within
      <3> HIDE DEF A, E
      <3> QED
        BY SMTT(60), <3>2, <3>3, <3>4 DEF Capacity, Minus
    <2>6. PICK i \in update.instances : D(i).kind # "complete"
      BY Zenon, <2>4
    <2>7. CASE D(i).kind = "start"
      <3>1. D(i).ordinals = Starts(O(i), UpdatePolicy(i)) /\ Starts(O(i), UpdatePolicy(i)) # {}
        BY ZenonT(60), <2>7, DecisionMeaning, DecisionActs
      <3>2. D(i).ordinals \in SUBSET (1 .. MaxReplicas)
        <4>1. /\ Starts(O(i), UpdatePolicy(i)) \subseteq Missing(O(i))
              /\ Missing(O(i)) \in SUBSET (1 .. MaxReplicas)
          BY ZenonT(60), <2>3, StartWithinLimit, CountTypes
        <4> QED
          BY Zenon, <3>1, <4>1
      <3>3. Lowest(D(i).ordinals, Capacity(seen, c, progress)) # {}
        BY ZenonT(60), <2>5, <3>1, <3>2, LowestTakes
      <3> QED
        BY ZenonT(60), <2>4, <2>7, <3>3
    <2>8. CASE D(i).kind = "drain"
      BY ZenonT(60), <2>4, <2>8, DecisionMeaning, DecisionActs
    <2>9. D(i).kind \in {"start", "drain", "complete", "rollback", "wait"}
      BY Zenon, DecisionActs
    <2> HIDE DEF D
    <2> QED
      BY SMTT(60), <2>3, <2>4, <2>6, <2>7, <2>8, <2>9
  <1> QED
    BY <1>1, InvariantUpdateInv, PTL

(* The decision in calm: what it drains the policy can bear.               *)
LEMMA CalmAdvance ==
    ASSUME UpdateInv, CalmInv, Calm, update' = update, AdvanceRollout
    PROVE  CalmInv'
  <1> DEFINE acknowledged == Acknowledged(progress, seen)
             current == [progress EXCEPT !.draining = @ \ acknowledged]
             late == expired /\ acknowledged = {}
             s == status["previous"]
             c == status["candidate"]
             action == NextAction(seen, c, current, late)
             R == ReadyOf(update, s)
             V == AvailableOf(update, c)
             O(i) == InstanceObservation(i, seen, c, current, late)
             D(i) == Decision(O(i), UpdatePolicy(i))
  <1>1. /\ progress' = current /\ UNCHANGED <<status, sup>> /\ pc = "decide"
        /\ IF action.kind = "wait" THEN pc' = "routing"
           ELSE pc' = "publish" /\ memory' = Decided(current, action)
    BY Zenon DEF AdvanceRollout, supervisorVars
  <1>2. /\ ReportsAreCalm /\ SightIsCalm /\ CheckpointsAreBearable /\ UpdateTypes
        /\ update \in Updates /\ progress \in CheckpointRecord(update)
        /\ progress.phase = "rolling" /\ OnlyEnabledBegin
    BY <1>1 DEF CalmInv, UpdateInv, UpdateTypes, DecisionIsSafe
  <1>3. /\ current \in CheckpointRecord(update) /\ current.enabled = progress.enabled
        /\ current.phase = "rolling" /\ current.draining = progress.draining \ acknowledged
        /\ late \in BOOLEAN
    BY <1>2 DEF CheckpointRecord, UpdateTypes
  <1>4. acknowledged \cap R = {}
    <2>1. \A r \in acknowledged : r \in Wanted(update, "previous") /\ seen[r].phase = "stopped"
      BY Zenon, <1>2 DEF Acknowledged, Has, CheckpointRecord
    <2>2. \A r \in acknowledged : s[r].phase = "stopped"
      BY <1>1, <1>2, <2>1, SMTT(30) DEF SightIsCalm
    <2> QED
      BY Zenon, <2>2 DEF ReadyOf, Has, Ready
  <1> HIDE DEF current, late, acknowledged
  <1>5. Bearable(update, s, c, current)
    <2>1. R \ progress.draining \subseteq R \ current.draining
      BY <1>3
    <2>2. Bearable(update, s, c, progress)
      BY <1>2 DEF CheckpointsAreBearable
    <2>3. current.phase = "completing" => progress.phase = "completing"
      BY Zenon, <1>3
    <2> QED
      BY ZenonT(60), <1>2, <2>1, <2>2, <2>3, BearableStays, LimitsHold
  <1>6. CASE action.kind = "wait"
    BY SMTT(60), <1>1, <1>5, <1>6, CalmDaemonStep
  <1>7. CASE action.kind # "wait"
    <2> DEFINE q == Decided(current, action)
    <2> SUFFICES Bearable(update, s, c, q) /\ current.draining \subseteq q.draining
      <3> HIDE DEF action
      <3> QED
        BY SMTT(60), <1>1, <1>5, <1>7, CalmDaemonStep
    <2>1. /\ action.kind \in {"start", "drain", "complete", "rollback"}
          /\ ~Unobserved(seen)
          /\ action.kind = "drain" => current.draining = {} /\ \E i \in update.instances :
                D(i).kind = "drain" /\ action.ordinals = {i} \X D(i).ordinals
          /\ action.kind = "complete" => \A i \in update.instances : D(i).kind = "complete"
      <3>1. Means(action, seen, c, current, late)
        BY ZenonT(60), <1>2, NextActionMeaning, InstancesOrdered
      <3> HIDE DEF action
      <3> QED
        BY ZenonT(60), <1>7, <3>1 DEF Means
    <2> HIDE DEF action, O
    <2>2. Within(update, ActiveReplicas(update, seen), current.enabled \ Lost(update, c))
      <3>1. ~Unseen(update, seen)
        BY <2>1, Translation DEF Unobserved, Unseen
      <3> QED
        BY SMTT(60), <1>1, <1>3, <3>1 DEF UpdateInv, DecisionIsSafe
    <2>3. ASSUME NEW i \in update.instances
          PROVE  /\ O(i) \in Observation /\ UpdatePolicy(i) \in Policy
                 /\ Counted(O(i), i, seen, c, current) /\ Valid(O(i), UpdatePolicy(i))
                 /\ O(i).candidateAvailable = Ordinals(i, V)
      <3>1. /\ O(i) \in Observation /\ UpdatePolicy(i) \in Policy
            /\ Counted(O(i), i, seen, c, current) /\ Valid(O(i), UpdatePolicy(i))
        BY ZenonT(60), <1>2, <1>3, <2>2, ObservationMeaning, ObservationAccepted DEF O
      <3>2. {r \in Wanted(update, "candidate") : Has(c, r, {"available", "succeeded"})} = V
        BY Zenon, <1>2 DEF ReportsAreCalm, AvailableOf, Has
      <3>3. V \subseteq current.enabled
        BY <1>2, <1>3 DEF OnlyEnabledBegin, AvailableOf, Has, Begun, Running
      <3>4. Ordinals(i, current.enabled) \cap Ordinals(i, V) = Ordinals(i, V)
        BY Zenon, <3>3 DEF Ordinals
      <3> QED
        BY ZenonT(60), <3>1, <3>2, <3>4 DEF Counted
    <2>4. CASE action.kind = "start"
      <3>1. q = [current EXCEPT !.enabled = @ \cup action.ordinals]
        BY Zenon, <2>4 DEF Decided
      <3>2. q.draining = current.draining /\ q.phase = current.phase
        <4> HIDE DEF q
        <4> QED
          BY <1>3, <3>1 DEF CheckpointRecord
      <3> HIDE DEF q
      <3> QED
        BY <1>5, <3>2 DEF Bearable
    <2>5. CASE action.kind = "rollback"
      <3>1. q = [current EXCEPT !.phase = "rollingback"]
        BY Zenon, <2>5 DEF Decided
      <3>2. q.draining = current.draining /\ q.phase = "rollingback"
        <4> HIDE DEF q
        <4> QED
          BY <1>3, <3>1, SMTT(30) DEF CheckpointRecord
      <3> HIDE DEF q
      <3> QED
        BY Zenon, <1>5, <3>2 DEF Bearable
    <2>6. CASE action.kind = "complete"
      <3>1. q = [current EXCEPT !.phase = "completing"]
        BY Zenon, <2>6 DEF Decided
      <3>2. q.draining = current.draining
        <4> HIDE DEF q
        <4> QED
          BY <1>3, <3>1 DEF CheckpointRecord
      <3>3. \A i \in update.instances : Ordinals(i, V) = 1 .. update.candidate[i]
        <4> SUFFICES ASSUME NEW i \in update.instances
                     PROVE  Ordinals(i, V) = 1 .. update.candidate[i]
          BY Zenon
        <4>1. D(i).kind = "complete"
          BY <2>1, <2>6
        <4>2. Complete(O(i))
          BY Zenon, <4>1, DecisionMeaning
        <4>3. O(i).candidateReplicas = update.candidate[i]
          BY ZenonT(60), <2>3 DEF Counted
        <4>4. /\ Cardinality(Ordinals(i, V)) = update.candidate[i]
              /\ update.candidate[i] \in Nat
          BY SMTT(60), <1>2, <2>3, <4>2, <4>3, InstanceNumbers DEF Complete
        <4>5. Ordinals(i, V) \in SUBSET (1 .. update.candidate[i])
          BY DEF Ordinals, AvailableOf, Wanted, Group
        <4>6. Cardinality(Ordinals(i, V)) >= O(i).candidateReplicas
          BY <4>3, <4>4
        <4> HIDE DEF V
        <4> QED
          BY ZenonT(60), <2>3, <4>3, <4>5, <4>6, AllAvailable
      <3>4. V = Wanted(update, "candidate")
        <4>1. V \subseteq Wanted(update, "candidate")
          BY Zenon DEF AvailableOf
        <4> HIDE DEF V
        <4>2. Wanted(update, "candidate") \subseteq V
          BY <3>3 DEF Wanted, Group, Ordinals
        <4> QED
          BY <4>1, <4>2
      <3> HIDE DEF q
      <3> QED
        BY <1>5, <3>2, <3>4, SMTT(30) DEF Bearable
    <2>7. CASE action.kind = "drain"
      <3>1. PICK i \in update.instances :
               D(i).kind = "drain" /\ action.ordinals = {i} \X D(i).ordinals
        BY <2>1, <2>7
      <3> DEFINE X == Drains(O(i), UpdatePolicy(i))
      <3>2. action.ordinals = {i} \X X
        BY Zenon, <3>1, DecisionMeaning
      <3>3. q = [current EXCEPT !.draining = @ \cup action.ordinals]
        BY Zenon, <2>7 DEF Decided
      <3>4. q.draining = {i} \X X /\ q.phase = "rolling" /\ current.draining = {}
        <4> HIDE DEF q, X
        <4> QED
          BY SMTT(60), <1>3, <2>1, <2>7, <3>2, <3>3 DEF CheckpointRecord
      <3>5. ReadyOf(update, seen) = R
        <4>1. progress.draining \subseteq acknowledged
          BY <1>3, <3>4, SMTT(30)
        <4>2. \A r \in Wanted(update, "previous") : /\ seen # NoStatus /\ s # NoStatus
                                                    /\ s[r].phase = seen[r].phase
          <5>1. \A r \in progress.draining : seen[r].phase = "stopped"
            BY Zenon, <4>1 DEF acknowledged, Acknowledged, Has
          <5> QED
            BY <1>1, <1>2, <5>1, SMTT(30) DEF SightIsCalm, ReportsAreCalm
        <4> QED
          BY <4>2 DEF ReadyOf, Has
      <3>6. /\ Cardinality(O(i).previousReady \ X) + Cardinality(O(i).candidateAvailable)
                  >= Smaller(AvailableCount(O(i)), MinimumAvailable(O(i), UpdatePolicy(i)))
        BY Zenon, <2>3, DrainWithinBudget
      <3>7. O(i).previousReady = Ordinals(i, R) /\ O(i).candidateAvailable = Ordinals(i, V)
        BY Zenon, <2>3, <3>5 DEF Counted, ReadyOf
      <3>8. MinimumAvailable(O(i), UpdatePolicy(i)) = Minus(update.candidate[i], update.unavailable[i])
        <4>1. O(i).candidateReplicas = update.candidate[i]
          BY Zenon, <2>3 DEF Counted
        <4>2. UpdatePolicy(i).unavailable = update.unavailable[i]
          BY Zenon DEF UpdatePolicy
        <4> QED
          BY ZenonT(60), <4>1, <4>2 DEF MinimumAvailable
      <3>9. Kept(update, R, V)
        <4>1. Kept(update, R \ current.draining, V)
          BY Zenon, <1>5 DEF Bearable
        <4>2. R \ current.draining = R
          BY SMTT(60), <3>4
        <4> QED
          BY Zenon, <4>1, <4>2
      <3> HIDE DEF R, V, X
      <3>10. Cardinality(Ordinals(i, R) \ X) + Cardinality(Ordinals(i, V)) >= Least(update, i)
        <4>1. Cardinality(Ordinals(i, R)) + Cardinality(Ordinals(i, V)) >= Least(update, i)
          BY Zenon, <3>9 DEF Kept
        <4>2. Cardinality(Ordinals(i, R) \ X) + Cardinality(Ordinals(i, V))
                >= Smaller(Cardinality(Ordinals(i, R)) + Cardinality(Ordinals(i, V)),
                           Minus(update.candidate[i], update.unavailable[i]))
          BY ZenonT(60), <3>6, <3>7, <3>8 DEF AvailableCount
        <4>3. /\ Cardinality(Ordinals(i, R)) \in Nat /\ Cardinality(Ordinals(i, V)) \in Nat
              /\ Cardinality(Ordinals(i, R) \ X) \in Nat
          <5>1. Ordinals(i, R) \ X \in SUBSET (1 .. MaxReplicas)
            BY Zenon, OrdinalsCount
          <5> QED
            BY SMTT(60), <5>1, OrdinalsCount, OrdinalsFinite
        <4>4. /\ update.candidate[i] \in Nat /\ update.previous[i] \in Nat
              /\ update.unavailable[i] \in Nat
          BY SMTT(60), <1>2, InstanceNumbers, LeastIsNatural
        <4> QED
          BY SMTT(60), <4>1, <4>2, <4>3, <4>4 DEF Least, Smaller, Minus
      <3>11. /\ Ordinals(i, R \ q.draining) = Ordinals(i, R) \ X
             /\ \A j \in update.instances : j # i => Ordinals(j, R \ q.draining) = Ordinals(j, R)
        <4> HIDE DEF q
        <4> QED
          BY Zenon, <3>4 DEF Ordinals
      <3> HIDE DEF q
      <3>12. Kept(update, R \ q.draining, V)
        BY ZenonT(60), <3>9, <3>10, <3>11 DEF Kept
      <3> QED
        BY Zenon, <3>4, <3>12 DEF Bearable, R, V
    <2> QED
      BY SMTT(60), <2>1, <2>4, <2>5, <2>6, <2>7
  <1> QED
    BY Zenon, <1>6, <1>7

LEMMA InitCalmInv == UpdateInit => CalmInv
  <1> SUFFICES ASSUME UpdateInit, Calm
               PROVE  ReportsAreCalm /\ SightIsCalm /\ CheckpointsAreBearable
    BY Zenon DEF CalmInv
  <1> DEFINE W == Wanted(update, "previous")
  <1>1. /\ update \in Updates /\ progress = NoProgress /\ pc = "load" /\ ~update.workersFail
    BY Zenon DEF UpdateInit, Calm
  <1>2. /\ \E phase \in [W -> {"ready"}] :
              status = [previous  |-> [r \in W |-> [phase |-> phase[r], attempt |-> 1]],
                        candidate |-> NoStatus]
        /\ sup = [previous |-> "on", candidate |-> "off"]
    BY ZenonT(60), <1>1, Translation DEF UpdateInit
  <1> HIDE DEF W
  <1>3. /\ status["candidate"] = NoStatus /\ sup["previous"] = "on" /\ sup["candidate"] = "off"
        /\ \A r \in W : status["previous"][r].phase = "ready"
    BY <1>2
  <1>4. UpdateInv
    BY SMTT(60), InitUpdateInv, LimitsHold
  <1>5. status["previous"] # NoStatus
    BY SMTT(60), <1>3, <1>4 DEF UpdateInv, UpdateTypes, Generations
  <1>6. ReportsAreCalm /\ SightIsCalm
    BY SMTT(60), <1>1, <1>3, <1>5 DEF ReportsAreCalm, SightIsCalm, Generations, Has, W
  <1>7. ReadyOf(update, status["previous"]) \ progress.draining = W
    BY <1>1, <1>3, <1>5, SMTT(30) DEF ReadyOf, Has, Ready, NoProgress, W
  <1>8. \A i \in update.instances : Cardinality(Ordinals(i, W)) = update.previous[i]
    <2> SUFFICES ASSUME NEW i \in update.instances
                 PROVE  Cardinality(Ordinals(i, W)) = update.previous[i]
      BY Zenon
    <2>1. update.previous[i] \in 0 .. MaxReplicas /\ update.previous[i] \in Nat /\ MaxReplicas \in Nat
      BY <1>1, InstanceNumbers, MaxReplicasAssumption, SMTT(30)
    <2>2. Ordinals(i, W) = 1 .. update.previous[i]
      BY <2>1, SMTT(30) DEF Ordinals, W, Wanted, Group
    <2> QED
      BY <2>1, <2>2, IntervalCount, SMTT(30)
  <1>9. Kept(update, W, AvailableOf(update, status["candidate"]))
    <2> SUFFICES ASSUME NEW i \in update.instances
                 PROVE  Cardinality(Ordinals(i, W))
                          + Cardinality(Ordinals(i, AvailableOf(update, status["candidate"])))
                          >= Least(update, i)
      BY Zenon DEF Kept
    <2>1. /\ Cardinality(Ordinals(i, AvailableOf(update, status["candidate"]))) \in Nat
          /\ update.previous[i] \in Nat /\ update.candidate[i] \in Nat
          /\ update.unavailable[i] \in Nat
      BY SMTT(60), <1>1, OrdinalsCount, InstanceNumbers, LeastIsNatural
    <2> QED
      BY <1>8, <2>1 DEF Least, Smaller, Minus
  <1>10. CheckpointsAreBearable
    BY <1>1, <1>7, <1>9, SMTT(30) DEF CheckpointsAreBearable, Bearable, NoProgress
  <1> QED
    BY <1>6, <1>10

LEMMA NextCalmInv == UpdateInv /\ CalmInv /\ [UpdateNext]_updateVars => CalmInv'
  <1> SUFFICES ASSUME UpdateInv, CalmInv, [UpdateNext]_updateVars, Calm' PROVE CalmInv'
    BY Zenon DEF CalmInv
  <1>1. CalmInv' \/ (Calm /\ AdvanceRollout)
    BY CalmSteps, LimitsHold, NeverRefusedFromInv, SMTT(30)
  <1>2. update' = update
    BY StepCases DEF updateVars
  <1> QED
    BY <1>1, <1>2, CalmAdvance, SMTT(30)

(* With healthy workers and no crash, an update never has fewer replicas   *)
(* of an instance in service than its policy allows, although the daemon   *)
(* decides on a report that may be out of date (next_action, drain_action, *)
(* acknowledge_drained, apply_rollout_drains).                             *)
THEOREM AvailabilityIsKept == UpdateSpec => []AvailabilityKept
  <1>1. UpdateInv /\ CalmInv => AvailabilityKept
    <2> SUFFICES ASSUME UpdateInv, CalmInv, Calm, NEW i \in Instances
                 PROVE  InService(i) >= Least(update, i)
      BY Zenon DEF AvailabilityKept, Calm, Least
    <2> DEFINE R == ReadyOf(update, status["previous"])
               V == AvailableOf(update, status["candidate"])
               P == {n \in Ordinals(i, Workers("previous")) :
                        status["previous"][<<i, n>>].phase \in Ready}
               C == {n \in Ordinals(i, Workers("candidate")) :
                        status["candidate"][<<i, n>>].phase = "available"}
    <2>1. ReportsAreCalm /\ CheckpointsAreBearable /\ update \in Updates /\ i \in update.instances
      BY Zenon, Translation DEF CalmInv, UpdateInv, UpdateTypes
    <2>2. Cardinality(Ordinals(i, R \ progress.draining)) + Cardinality(Ordinals(i, V))
            >= Least(update, i)
      BY Zenon, <2>1 DEF CheckpointsAreBearable, Bearable, Kept
    <2>3. \A r \in R : r \in Workers("previous") /\ status["previous"][r].phase \in Ready
      <3>1. \A r \in R : /\ r \in Replicas("previous") /\ Has(status["previous"], r, Running)
                         /\ Has(status["previous"], r, Waiting)
                         /\ status["previous"][r].phase \in Ready
        BY Zenon, Translation DEF ReadyOf, Has, Ready, Running, Waiting
      <3> QED
        BY SMTT(60), <2>1, <3>1, Translation DEF ReportsAreCalm, Workers, Generations
    <2>4. \A r \in V : r \in Workers("candidate") /\ status["candidate"][r].phase = "available"
      <3>1. \A r \in V : /\ r \in Replicas("candidate") /\ Has(status["candidate"], r, Running)
                         /\ Has(status["candidate"], r, Waiting)
                         /\ status["candidate"][r].phase = "available"
        BY Zenon, Translation DEF AvailableOf, Has, Running, Waiting
      <3> QED
        BY SMTT(60), <2>1, <3>1, Translation DEF ReportsAreCalm, Workers, Generations
    <2>5. /\ Ordinals(i, R \ progress.draining) \in SUBSET P /\ Ordinals(i, V) \in SUBSET C
      BY SMTT(60), <2>3, <2>4 DEF Ordinals
    <2>6. P \in SUBSET (1 .. MaxReplicas) /\ C \in SUBSET (1 .. MaxReplicas)
      BY Zenon DEF Ordinals
    <2> HIDE DEF P, C, R, V
    <2>7. /\ IsFiniteSet(P) /\ IsFiniteSet(C) /\ Cardinality(P) \in Nat /\ Cardinality(C) \in Nat
      BY <2>6, OrdinalsFinite
    <2>8. /\ Cardinality(Ordinals(i, R \ progress.draining)) <= Cardinality(P)
          /\ Cardinality(Ordinals(i, V)) <= Cardinality(C)
      BY ZenonT(60), <2>5, <2>7, FS_Subset
    <2>9. /\ Cardinality(Ordinals(i, R \ progress.draining)) \in Nat
          /\ Cardinality(Ordinals(i, V)) \in Nat /\ Least(update, i) \in Nat
      BY <2>1, OrdinalsCount, LeastIsNatural, SMTT(30)
    <2>10. InService(i) = Cardinality(P) + Cardinality(C)
      BY Zenon DEF InService, P, C
    <2> QED
      BY SMTT(60), <2>2, <2>7, <2>8, <2>9, <2>10
  <1>2. UpdateInit => UpdateInv /\ CalmInv
    BY InitUpdateInv, LimitsHold, InitCalmInv, SMTT(30)
  <1>3. UpdateInv /\ CalmInv /\ [UpdateNext]_updateVars => (UpdateInv /\ CalmInv)'
    BY Zenon, NextUpdateInv, NextCalmInv
  <1> QED
    BY <1>1, <1>2, <1>3, PTL DEF UpdateSpec

=============================================================================
