-------------------------- MODULE MCRollingUpdate --------------------------
(* A rolling update of one replica, for TLC.                               *)
EXTENDS RollingUpdate

\* One instance, one replica replaced with a surge of one.
Replace ==
    [instances |-> {1}, previous |-> <<1>>, candidate |-> <<1>>, surge |-> <<1>>,
     unavailable |-> <<0>>, startFirst |-> <<TRUE>>, restart |-> "on-failure",
     maxRestarts |-> 0, maxWorkers |-> 2, workersFail |-> TRUE, maxCrashes |-> 0]

\* A replica that fails for good at its first failure, one that is restarted
\* once, and one whose workers are well while a process of the engine may die.
FailsForGood == {Replace}
RestartsOnce == {[Replace EXCEPT !.maxRestarts = 1]}
ProcessDies == {[Replace EXCEPT !.maxRestarts = 1, !.workersFail = FALSE, !.maxCrashes = 1]}

============================================================================
