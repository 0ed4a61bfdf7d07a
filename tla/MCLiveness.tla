----------------------------- MODULE MCLiveness -----------------------------
(***************************************************************************)
(* What must come to an end: the rolling update of one replica, and one    *)
(* service call while runs come and go.  `part' says which of them a       *)
(* behaviour is about.                                                     *)
(***************************************************************************)
EXTENDS MCRollingUpdate

CONSTANTS Calls, NoCall

VARIABLES call, late, files, phase, readiness, signals, worker, abandoned, stopping, delivered, part

Service == INSTANCE ServiceInvocation WITH MaxRuns <- 2, MaxQueued <- 1, MaxReady <- 1

serviceVars == <<call, late, files, phase, readiness, signals, worker, abandoned, stopping, delivered>>

liveVars == <<part, updateVars, serviceVars>>

LiveInit == part \in {"rolling", "service"} /\ UpdateInit /\ Service!InvocationInit

LiveNext ==
    /\ UNCHANGED part
    /\ \/ part = "rolling" /\ UpdateNext /\ UNCHANGED serviceVars
       \/ part = "service" /\ Service!InvocationNext(Calls, {1, 2}) /\ UNCHANGED updateVars

\* Calls are not fair to an update that does not run, and there are none to be
\* fair to beside one.
LiveSpec ==
    LiveInit /\ [][LiveNext]_liveVars /\ (part = "rolling" => Fairness) /\ Service!InvocationFairness

\* Every call that was accepted comes to an end, whatever happens to its worker
\* (wait_for_response, serve_invocation of the daemon).
CallsEnd == Service!CallsEnd

\* RLP-06: the update is committed or rolled back in the end, though candidates
\* may never turn ready and a process may die (advance_rolling_rollout).
UpdateSettles == part = "rolling" => Settles
=============================================================================
