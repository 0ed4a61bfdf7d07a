--------------------------- MODULE AtomicRollout ---------------------------
(***************************************************************************)
(* What the rollout transaction of one stack promises its clients.         *)
(*                                                                         *)
(* A stack has a desired state, which ordinary mutations change freely     *)
(* while no transaction is open.  A transaction reserves the desired state *)
(* (prepare), replaces it by a candidate (activate) and ends by keeping    *)
(* the candidate (commit) or by restoring what was there (rollback).  Each *)
(* of those is one indivisible step: there are no files and no crashes.    *)
(***************************************************************************)

CONSTANTS Plan,      \* resolved stack plans
          NoPlan     \* the plan of a removed, or never applied, stack

VARIABLES desired,   \* the desired state: an event kind and a plan
          phase,     \* "open", "prepared" or "activated"
          saved,     \* the desired state a rollback restores
          candidate  \* the plan the transaction is about

atomicVars == <<desired, phase, saved, candidate>>

(* The desired state of a stack with an empty journal.                     *)
NeverApplied == [kind |-> "none", plan |-> NoPlan]

(* The desired states a mutation can produce.                              *)
DesiredState ==
    [kind : {"apply", "stop"}, plan : Plan] \cup [kind : {"remove"}, plan : {NoPlan}]

(* A rollback to nothing leaves a tombstone.                               *)
Restored(previous) ==
    IF previous.kind \in {"none", "remove"}
    THEN [kind |-> "remove", plan |-> NoPlan]
    ELSE previous

(* Values of saved and candidate while no transaction is open.             *)
Closed == phase' = "open" /\ saved' = NeverApplied /\ candidate' = NoPlan

AtomicInit ==
    /\ desired = NeverApplied
    /\ phase = "open"
    /\ saved = NeverApplied
    /\ candidate = NoPlan

(* Apply, stop and remove, and the rollback of a committed transaction.    *)
AtomicMutate ==
    /\ phase = "open"
    /\ desired' \in DesiredState
    /\ UNCHANGED <<phase, saved, candidate>>

AtomicPrepare ==
    /\ phase = "open"
    /\ phase' = "prepared"
    /\ saved' = desired
    /\ candidate' \in Plan
    /\ UNCHANGED desired

AtomicCancel == phase = "prepared" /\ Closed /\ UNCHANGED desired

AtomicActivate ==
    /\ phase = "prepared"
    /\ phase' = "activated"
    /\ desired' = [kind |-> "apply", plan |-> candidate]
    /\ UNCHANGED <<saved, candidate>>

AtomicCommit == phase = "activated" /\ Closed /\ UNCHANGED desired

AtomicRollback ==
    /\ phase = "activated"
    /\ Closed
    /\ desired' = Restored(saved)

AtomicNext ==
    \/ AtomicMutate
    \/ AtomicPrepare
    \/ AtomicCancel
    \/ AtomicActivate
    \/ AtomicCommit
    \/ AtomicRollback

AtomicSpec == AtomicInit /\ [][AtomicNext]_atomicVars

=============================================================================
