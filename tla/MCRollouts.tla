----------------------------- MODULE MCRollouts -----------------------------
(***************************************************************************)
(* Rollouts, for TLC: the durable transaction of one stack, with plans "a" *)
(* and "b"; rolling updates of an instance that grows without surge, of    *)
(* one that gives way to another, and of two with opposite policies and    *)
(* healthy workers; and the decisions for a single instance under every    *)
(* policy.  `shape' says which of them a behaviour is about.               *)
(***************************************************************************)
EXTENDS MCRolloutTransaction, RollingDecision, RollingUpdate, TLC

VARIABLE shape

\* The names of plans are interchangeable.
NameSymmetry == Permutations(Names)

\* From one replica to two: the limit is tight.
Grow ==
    [instances |-> {1}, previous |-> <<1>>, candidate |-> <<2>>, surge |-> <<0>>,
     unavailable |-> <<1>>, startFirst |-> <<TRUE>>, restart |-> "on-failure",
     maxRestarts |-> 0, maxWorkers |-> 2, workersFail |-> TRUE, maxCrashes |-> 1]

\* Two disjoint instances: only the stack-wide ceiling keeps them apart.
Rename ==
    [instances |-> {1, 2}, previous |-> <<0, 1>>, candidate |-> <<1, 0>>, surge |-> <<0, 0>>,
     unavailable |-> <<1, 1>>, startFirst |-> <<TRUE, TRUE>>, restart |-> "on-failure",
     maxRestarts |-> 1, maxWorkers |-> 2, workersFail |-> TRUE, maxCrashes |-> 1]

\* Two instances with opposite policies, one of them growing.
Mixed ==
    [instances |-> {1, 2}, previous |-> <<2, 1>>, candidate |-> <<2, 2>>, surge |-> <<1, 0>>,
     unavailable |-> <<0, 1>>, startFirst |-> <<TRUE, FALSE>>, restart |-> "on-failure",
     maxRestarts |-> 0, maxWorkers |-> 4, workersFail |-> FALSE, maxCrashes |-> 0]

\* One instance appears while another shrinks under start-first.
Starved ==
    [instances |-> {1, 2}, previous |-> <<0, 2>>, candidate |-> <<1, 1>>, surge |-> <<0, 1>>,
     unavailable |-> <<1, 0>>, startFirst |-> <<TRUE, TRUE>>, restart |-> "on-failure",
     maxRestarts |-> 0, maxWorkers |-> 2, workersFail |-> FALSE, maxCrashes |-> 0]

Shapes == {Grow, Rename, Mixed, Starved}

rolloutVars == <<shape, vars, updateVars, decisionVars>>

\* An update of one replica that is over.
NoDecision ==
    /\ policy = [startFirst |-> TRUE, surge |-> 1, unavailable |-> 0]
    /\ observation = [previousReplicas |-> 0, candidateReplicas |-> 1, previousActive |-> {},
                      previousReady |-> {}, candidateActive |-> {1}, candidateReady |-> {1},
                      candidateAvailable |-> {1}, candidateTerminal |-> {}, expired |-> FALSE]
    /\ outcome = "complete"

\* An update of which nothing has been started.
NoUpdate == UpdateInit /\ update = Rename /\ sup["previous"] = "off"

RolloutsInit ==
    /\ Init
    /\ \/ shape = "transaction" /\ NoUpdate /\ NoDecision
       \/ shape = "update" /\ UpdateInit /\ NoDecision
       \/ shape = "one" /\ DecisionInit /\ NoUpdate

RolloutsNext ==
    /\ UNCHANGED shape
    /\ \/ shape = "transaction" /\ Next /\ UNCHANGED <<updateVars, decisionVars>>
       \/ shape = "update" /\ UpdateNext /\ UNCHANGED <<vars, decisionVars>>
       \/ shape = "one" /\ DecisionNext /\ UNCHANGED <<vars, updateVars>>

RolloutsSpec == RolloutsInit /\ [][RolloutsNext]_rolloutVars
=============================================================================
