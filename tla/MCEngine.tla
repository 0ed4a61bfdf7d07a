------------------------------ MODULE MCEngine ------------------------------
(***************************************************************************)
(* The processes of the engine that run next to a rollout: the calls of a  *)
(* service, the daemon with its clients, and the supervisor of one         *)
(* generation.  They share no variable at this level of detail, so each is *)
(* explored alone ("part"): calls of one run that compete for its queue,   *)
(* one call while runs come and go, two daemons, one daemon over time, two *)
(* clients of one daemon, and a supervisor with one probed replica.        *)
(***************************************************************************)
EXTENDS ServiceInvocation, DaemonControl, ReplicaSupervisor

CONSTANTS c1, c2, q1, q2

VARIABLE part

RestartOnFailure == [r \in Replicas |-> "on-failure"]

EngineInit ==
    /\ part \in {"queue", "runs", "daemons", "time", "clients", "supervisor"}
    /\ InvocationInit /\ DaemonInit /\ SupervisorInit

EngineNext ==
    /\ UNCHANGED part
    /\ \/ /\ part = "queue"
          /\ InvocationNext({c1, c2}, {1})
          /\ UNCHANGED <<daemonVars, supervisorVars>>
       \/ /\ part = "runs"
          /\ InvocationNext({c1}, {1, 2})
          /\ UNCHANGED <<daemonVars, supervisorVars>>
       \/ /\ part = "daemons"
          /\ DaemonNext({1, 2}, {q1}, 0)
          /\ UNCHANGED <<invocationVars, supervisorVars>>
       \/ /\ part = "time"
          /\ DaemonNext({1}, {q1}, MaxTime)
          /\ UNCHANGED <<invocationVars, supervisorVars>>
       \/ /\ part = "clients"
          /\ DaemonNext({1}, {q1, q2}, 0)
          /\ UNCHANGED <<invocationVars, supervisorVars>>
       \/ /\ part = "supervisor"
          /\ SupervisorNext
          /\ UNCHANGED <<invocationVars, daemonVars>>

engineVars == <<part, invocationVars, daemonVars, supervisorVars>>

EngineSpec == EngineInit /\ [][EngineNext]_engineVars /\ InvocationFairness

\* A supervisor that nothing disturbs and whose deadlines do not pass.
CalmSpec ==
    /\ part = "supervisor" /\ InvocationInit /\ DaemonInit /\ SupervisorInit
    /\ [][CalmNext /\ UNCHANGED <<part, invocationVars, daemonVars>>]_engineVars
=============================================================================
