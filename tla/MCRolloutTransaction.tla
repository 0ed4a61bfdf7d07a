------------------------ MODULE MCRolloutTransaction ------------------------
(* Instances of RolloutTransaction for TLC: one stack, plans "a" and "b",  *)
(* each with its instances running or stopped.                             *)
EXTENDS RolloutTransaction

=============================================================================
