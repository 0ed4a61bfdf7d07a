--------------------------- MODULE RollingDecision ---------------------------
(***************************************************************************)
(* The scheduler of one instance in a loop with the replicas it observes   *)
(* (cartridge-engine: rolling.rs, and the observation of                   *)
(* rollout_progress.rs).  Each decision takes effect at once; between two  *)
(* decisions the replicas of either generation change on their own.        *)
(***************************************************************************)
EXTENDS RollingScheduler

VARIABLES policy,        \* RollingUpdatePolicy of the instance
          observation,   \* what the scheduler sees
          outcome        \* "running", or how the update ended

decisionVars == <<policy, observation, outcome>>

(* An update begins with any replicas of the previous generation, whatever *)
(* their health, and none of the candidate.                                *)
DecisionInit ==
    /\ policy \in Policy
    /\ observation \in
          {o \in [previousReplicas   : 0 .. MaxReplicas,
                  candidateReplicas  : 0 .. MaxReplicas,
                  previousActive     : SUBSET (1 .. MaxReplicas),
                  previousReady      : SUBSET (1 .. MaxReplicas),
                  candidateActive    : {{}},
                  candidateReady     : {{}},
                  candidateAvailable : {{}},
                  candidateTerminal  : {{}},
                  expired            : {FALSE}] : Valid(o, policy)}
    /\ outcome = "running"

-----------------------------------------------------------------------------
(* One decision of the scheduler.                                          *)

Started(o, ordinals) ==
    [o EXCEPT !.candidateActive = @ \cup ordinals, !.expired = FALSE]

Drained(o, ordinals) ==
    [o EXCEPT !.previousActive = @ \ ordinals,
              !.previousReady  = @ \ ordinals,
              !.expired        = FALSE]

Decide(kind) ==
    /\ outcome = "running"
    /\ Valid(observation, policy)
    /\ LET decision == Decision(observation, policy)
       IN  /\ decision.kind = kind
           /\ observation' =
                 CASE kind = "start" -> Started(observation, decision.ordinals)
                   [] kind = "drain" -> Drained(observation, decision.ordinals)
                   [] OTHER -> observation
           /\ outcome' = IF kind \in {"complete", "rollback"} THEN kind ELSE outcome
    /\ UNCHANGED policy

-----------------------------------------------------------------------------
(* What the replicas do on their own, as the observation shows it.         *)

Observed(o) ==
    /\ outcome = "running"
    /\ observation' = o
    /\ UNCHANGED <<policy, outcome>>

PreviousBecomesReady(n) ==
    /\ n \in observation.previousActive
    /\ Observed([observation EXCEPT !.previousReady = @ \cup {n}])

PreviousBecomesUnready(n) ==
    /\ n \in observation.previousReady
    /\ Observed([observation EXCEPT !.previousReady = @ \ {n}])

(* Failed, exhausted, or finished.                                         *)
PreviousEnds(n) ==
    /\ n \in observation.previousActive
    /\ Observed([observation EXCEPT !.previousActive = @ \ {n},
                                    !.previousReady  = @ \ {n}])

CandidateBecomesReady(n) ==
    /\ n \in observation.candidateActive
    /\ Observed([observation EXCEPT !.candidateReady = @ \cup {n}])

(* Ready for the minimum time.                                             *)
CandidateBecomesAvailable(n) ==
    /\ n \in observation.candidateReady
    /\ Observed([observation EXCEPT !.candidateAvailable = @ \cup {n}])

CandidateBecomesUnready(n) ==
    /\ n \in observation.candidateReady
    /\ Observed([observation EXCEPT !.candidateReady     = @ \ {n},
                                    !.candidateAvailable = @ \ {n}])

CandidateEnds(n) ==
    /\ n \in observation.candidateActive
    /\ Observed([observation EXCEPT !.candidateActive    = @ \ {n},
                                    !.candidateReady     = @ \ {n},
                                    !.candidateAvailable = @ \ {n},
                                    !.candidateTerminal  = @ \cup {n}])

DeadlinePasses ==
    /\ ~observation.expired
    /\ Observed([observation EXCEPT !.expired = TRUE])

DecisionNext ==
    \/ \E kind \in {"start", "drain", "complete", "rollback"} : Decide(kind)
    \/ \E n \in 1 .. MaxReplicas :
          \/ PreviousBecomesReady(n)
          \/ PreviousBecomesUnready(n)
          \/ PreviousEnds(n)
          \/ CandidateBecomesReady(n)
          \/ CandidateBecomesAvailable(n)
          \/ CandidateBecomesUnready(n)
          \/ CandidateEnds(n)
    \/ DeadlinePasses

DecisionSpec == DecisionInit /\ [][DecisionNext]_decisionVars

-----------------------------------------------------------------------------
(* Properties.                                                             *)

(* Policy, observation and outcome are values of their kinds.              *)
DecisionTypeOK ==
    /\ policy \in Policy
    /\ observation \in Observation
    /\ outcome \in {"running", "complete", "rollback"}

(* RLP-05: no sequence of decisions and of changes among the replicas      *)
(* brings the scheduler an observation that validate refuses; above all,   *)
(* active replicas never exceed replicas plus surge, an error that would   *)
(* end the daemon's loop.                                                  *)
ObservationStaysValid == Valid(observation, policy)

(* A drain never takes the available replicas below replicas minus         *)
(* max_unavailable when they were at or above it, nor any lower when they  *)
(* were below it already.                                                  *)
DrainWithinPolicy ==
    Decide("drain") =>
        AvailableCount(observation') >=
            Smaller(AvailableCount(observation), MinimumAvailable(observation, policy))

DrainKeepsAvailability == [][DrainWithinPolicy]_decisionVars

(* RLP-02: with a legal policy the scheduler does not deadlock.  While no  *)
(* started candidate has yet to become available, it finds something to    *)
(* start or to drain, or it is done.                                       *)
NeverIdle ==
    observation.candidateAvailable = observation.candidateActive =>
        Decision(observation, policy).kind # "wait"

(* The update completes only with every candidate replica available and    *)
(* with no previous replica left.                                          *)
CompletesCleanly ==
    outcome = "complete" =>
        /\ observation.previousActive = {}
        /\ observation.candidateAvailable = 1 .. observation.candidateReplicas

=============================================================================
