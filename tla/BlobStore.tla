----------------------------- MODULE BlobStore -----------------------------
(***************************************************************************)
(* The content-addressed blob store (crates/cartridge-storage/src/blob.rs) *)
(* and its garbage collection from the command line (blob gc, blob roots). *)
(*                                                                         *)
(* Store operations hold one lock file; "blobJob" is the one that holds    *)
(* it, one step per durable effect, and the process may die between two    *)
(* steps.  Collection reads its roots (snapshots, capsules, reachability   *)
(* manifests) before it takes the lock.  An artifact is a set of           *)
(* references with declared sizes; artifacts are created only where no     *)
(* file exists, so they never change.                                      *)
(***************************************************************************)
EXTENDS Integers, FiniteSets

CONSTANTS
    Blobs,          \* contents, known by their digests
    Artifacts,      \* snapshot, capsule and manifest files a user may write
    References,     \* what an artifact references: [Artifacts -> [Blobs -> Nat]],
                    \* the declared size, 0 for no reference
    BlobBytes,      \* the true size of every blob (at least 1)
    MaxDamaged      \* bound: objects damaged by something outside the code

ASSUME BlobAssumption ==
    /\ References \in [Artifacts -> [Blobs -> Nat]]
    /\ BlobBytes \in [Blobs -> Nat \ {0}]

VARIABLES
    objects,        \* objects/<shard>/<digest>: "none", "ok" or "damaged"
    temporaries,    \* tmp/.cartridge-blob-incoming-*
    artifacts,      \* artifact files that exist
    blobJob,        \* the operation holding the store lock
    collector,      \* blob gc between reading its roots and taking the lock
    damaged         \* objects damaged so far (history)

blobVars == <<objects, temporaries, artifacts, blobJob, collector, damaged>>

NoJob == [step |-> "none", blob |-> {}, removals |-> {}, references |-> {}]

NoCollector == [step |-> "idle", references |-> {}]

BlobInit ==
    /\ objects = [b \in Blobs |-> "none"]
    /\ temporaries = 0
    /\ artifacts = {}
    /\ blobJob = NoJob
    /\ collector = NoCollector
    /\ damaged = 0

\* remove_abandoned_temporary_files: what stays of the temporaries that a dead
\* process left.
AbandonedLeft == 0

\* BlobStore::open, which every command starts with: the lock is taken and
\* abandoned temporaries are removed.
OpenStore(job, left) ==
    /\ blobJob.step = "none"
    /\ blobJob' = job
    /\ temporaries' = AbandonedLeft + left

\* put_locked: the input is copied and flushed under tmp/.
PutBlob(b) ==
    /\ OpenStore([NoJob EXCEPT !.step = "incoming", !.blob = {b}], 1)
    /\ UNCHANGED <<objects, artifacts, collector, damaged>>

\* verify_object_path_locked hashes the object it finds.
Verified(b) == objects[b] = "ok"

\* put_locked: an object that exists is verified and kept, a new one is
\* linked into place.  Returning drops the temporary (PendingFile::drop).
LinkObject ==
    /\ blobJob.step = "incoming"
    /\ \E b \in blobJob.blob :
          IF objects[b] # "none"
          THEN /\ UNCHANGED objects
               /\ blobJob' = NoJob
               /\ temporaries' = 0
          ELSE /\ objects' = [objects EXCEPT ![b] = "ok"]
               /\ blobJob' = [blobJob EXCEPT !.step = "linked"]
               /\ UNCHANGED temporaries
    /\ UNCHANGED <<artifacts, collector, damaged>>

\* temporary.remove, and the flushes of the shard and of objects/.
RemoveTemporary ==
    /\ blobJob.step = "linked"
    /\ temporaries' = 0
    /\ blobJob' = NoJob
    /\ UNCHANGED <<objects, artifacts, collector, damaged>>

\* The process holding the lock dies; what it wrote stays.
BlobProcessDies ==
    /\ blobJob.step # "none"
    /\ blobJob' = NoJob
    /\ UNCHANGED <<objects, temporaries, artifacts, collector, damaged>>

\* A snapshot, a capsule or a reachability manifest is written (write_new).
WriteArtifact(a) ==
    /\ a \notin artifacts
    /\ artifacts' = artifacts \cup {a}
    /\ UNCHANGED <<objects, temporaries, blobJob, collector, damaged>>

\* blob_references: the references of one artifact.
ArtifactReferences(a) ==
    {[blob |-> b, bytes |-> References[a][b]] :
        b \in {c \in Blobs : References[a][c] # 0}}

\* merge_blob_references refuses two sizes for one blob.
Consistent(references) ==
    \A r, s \in references : r.blob = s.blob => r.bytes = s.bytes

\* blob_gc_command reads the roots it is given; they must exist and agree.
ReadRoots(roots) ==
    /\ collector.step = "idle"
    /\ roots \subseteq artifacts
    /\ LET references == UNION {ArtifactReferences(a) : a \in roots}
       IN  /\ Consistent(references)
           /\ collector' = [step |-> "read", references |-> references]
    /\ UNCHANGED <<objects, temporaries, artifacts, blobJob, damaged>>

\* A form that trusts the references it is given.
ReferencesTrusted(references) == \A r \in references : r.blob \in Blobs

\* verify_references_locked: every reference names a valid object of the
\* declared size.
ReferencesVerified(references) ==
    \A r \in references : Verified(r.blob) /\ r.bytes = BlobBytes[r.blob]

\* gc_locked: the objects that are not retained, all of them verified before
\* the first is removed.
Removable(references) ==
    {b \in Blobs : objects[b] # "none" /\ \A r \in references : r.blob # b}

\* gc_with_references_locked
StartCollection ==
    LET references == collector.references
        removable == Removable(references)
    IN  /\ collector.step = "read"
        /\ collector' = NoCollector
        /\ IF ReferencesVerified(references) /\ \A b \in removable : Verified(b)
           THEN OpenStore([NoJob EXCEPT !.step = "removing", !.removals = removable,
                                        !.references = references], 0)
           ELSE OpenStore(NoJob, 0)
        /\ UNCHANGED <<objects, artifacts, damaged>>

\* gc_locked removes one file after the other; a dry run removes none.
RemoveObject ==
    /\ blobJob.step = "removing"
    /\ \E b \in blobJob.removals :
          /\ objects' = [objects EXCEPT ![b] = "none"]
          /\ blobJob' = [blobJob EXCEPT !.removals = @ \ {b}]
    /\ UNCHANGED <<temporaries, artifacts, collector, damaged>>

FinishCollection ==
    /\ blobJob.step = "removing"
    /\ blobJob.removals = {}
    /\ blobJob' = NoJob
    /\ UNCHANGED <<objects, temporaries, artifacts, collector, damaged>>

\* An object is damaged by something outside the code; not while an operation
\* holds the lock.
DamageObject(b) ==
    /\ damaged < MaxDamaged
    /\ blobJob.step = "none"
    /\ objects[b] = "ok"
    /\ objects' = [objects EXCEPT ![b] = "damaged"]
    /\ damaged' = damaged + 1
    /\ UNCHANGED <<temporaries, artifacts, blobJob, collector>>

BlobNext ==
    \/ \E b \in Blobs : PutBlob(b)
    \/ LinkObject
    \/ RemoveTemporary
    \/ BlobProcessDies
    \/ \E a \in Artifacts : WriteArtifact(a)
    \/ \E roots \in SUBSET artifacts : ReadRoots(roots)
    \/ StartCollection
    \/ RemoveObject
    \/ FinishCollection
    \/ \E b \in Blobs : DamageObject(b)

BlobSpec == BlobInit /\ [][BlobNext]_blobVars
-----------------------------------------------------------------------------
\* A collection that removes anything keeps every blob its roots reference,
\* and all of them are whole: whatever was put, collected or damaged between
\* reading the roots and taking the lock (gc_with_references).
RootsSurvive ==
    blobJob.step = "removing" =>
        \A r \in blobJob.references :
            objects[r.blob] = "ok" /\ r.blob \notin blobJob.removals

\* No operation removes or replaces an object whose content does not match
\* its digest: the evidence of damage stays for blob audit.
DamageIsKept ==
    [][\A b \in Blobs : objects[b] = "damaged" => objects'[b] = "damaged"]_blobVars
=============================================================================
