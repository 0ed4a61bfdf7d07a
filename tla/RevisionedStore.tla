-------------------------- MODULE RevisionedStore --------------------------
(***************************************************************************)
(* What the storage documentation promises of a durable namespace: a log   *)
(* of immutable states, each with a larger revision than the one before    *)
(* it.  The newest state of the log is the one readers see; the oldest is  *)
(* the one that is certain to survive a power failure.  The revisions      *)
(* order the log, so it is a set of states.  No locks, files, temporaries  *)
(* or pruning.                                                             *)
(***************************************************************************)
EXTENDS Integers

CONSTANT States     \* records with a field revision

VARIABLES
    log,            \* states not yet superseded by a durable one
    promised        \* the largest revision a client was told is stored

storeVars == <<log, promised>>

StoreInit ==
    /\ \E s \in States : s.revision = 0 /\ log = {s}
    /\ promised = 0

\* A write becomes visible: a new state with a new, larger revision.
Write ==
    /\ \E s \in States :
          /\ \A other \in log : other.revision < s.revision
          /\ log' = log \cup {s}
    /\ UNCHANGED promised

\* The visible state becomes durable.
Persist ==
    /\ \E s \in log :
          /\ \A other \in log : other.revision <= s.revision
          /\ log' = {s}
    /\ UNCHANGED promised

\* A client is told that the state it wrote is stored: it is durable.
Promise ==
    /\ \E s \in log : log = {s} /\ promised' = s.revision
    /\ UNCHANGED log

\* A power failure keeps one of the visible states, at least the durable
\* one; what was kept is durable.
PowerFailure ==
    /\ \E s \in log : log' = {s}
    /\ UNCHANGED promised

StoreNext == Write \/ Persist \/ Promise \/ PowerFailure

\* What a client may rely on: whatever a power failure leaves is not older
\* than what it was promised.
PromiseKept == \A s \in log : promised <= s.revision
=============================================================================
