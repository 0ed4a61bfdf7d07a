---------------------------- MODULE StoreProofs ----------------------------
(***************************************************************************)
(* What the durable stores keep, for every set of blobs, packages and      *)
(* releases and however often a process dies: the blob store's collector   *)
(* keeps what its roots reference and never destroys the evidence of       *)
(* damage; a document that is replaced in place is found again; what the   *)
(* runtime updater and the registry find there is stored whole; and the    *)
(* desktop library, for every set of installable versions and every bound  *)
(* on the history, names only stored packages and runs only programs that  *)
(* its approvals and the failures since the last success or reset allow.   *)
(***************************************************************************)
EXTENDS BlobStore, PackageRegistry, RuntimeUpdater, DesktopLibrary, TLAPS

Reference == [blob : Blobs, bytes : Nat]

\* The inductive invariant: while a collection removes, its references and
\* what is left to remove are whole and disjoint.
BlobInv ==
    /\ objects \in [Blobs -> {"none", "ok", "damaged"}]
    /\ blobJob \in [step : {"none", "incoming", "linked", "removing"}, blob : SUBSET Blobs,
                    removals : SUBSET Blobs, references : SUBSET Reference]
    /\ collector \in [step : {"idle", "read"}, references : SUBSET Reference]
    /\ artifacts \subseteq Artifacts
    /\ RootsSurvive
    /\ blobJob.step = "removing" => \A b \in blobJob.removals : objects[b] = "ok"

LEMMA BlobInvInit == BlobInit => BlobInv
  BY DEF BlobInit, BlobInv, NoJob, NoCollector, RootsSurvive

\* A step keeps the invariant, and damaged objects as they are.
LEMMA BlobStepKeeps ==
    ASSUME BlobInv, [BlobNext]_blobVars
    PROVE  BlobInv' /\ \A b \in Blobs : objects[b] = "damaged" => objects'[b] = "damaged"
  <1> USE BlobAssumption DEF BlobInv
  <1>0. Reference' = Reference /\ NoJob.step = "none"
    BY Zenon DEF Reference, NoJob
  <1>1. ASSUME NEW b \in Blobs, PutBlob(b)
        PROVE  BlobInv' /\ UNCHANGED objects
    <2>1. blobJob' = [step |-> "incoming", blob |-> {b}, removals |-> {}, references |-> {}]
      BY Zenon, <1>1 DEF PutBlob, OpenStore, NoJob
    <2> QED
      BY Zenon, <1>0, <1>1, <2>1 DEF PutBlob, RootsSurvive
  <1>2. CASE LinkObject
    <2>1. PICK b \in blobJob.blob :
             \/ UNCHANGED objects /\ blobJob' = NoJob
             \/ /\ objects[b] = "none" /\ objects' = [objects EXCEPT ![b] = "ok"]
                /\ blobJob' = [blobJob EXCEPT !.step = "linked"]
      BY Zenon, <1>2 DEF LinkObject
    <2>2. UNCHANGED <<artifacts, collector>> /\ b \in Blobs
      BY Zenon, <1>2 DEF LinkObject
    <2>3. CASE UNCHANGED objects /\ blobJob' = NoJob
      BY Zenon, <1>0, <2>2, <2>3 DEF NoJob, RootsSurvive
    <2>4. CASE /\ objects[b] = "none" /\ objects' = [objects EXCEPT ![b] = "ok"]
               /\ blobJob' = [blobJob EXCEPT !.step = "linked"]
      BY Zenon, <1>0, <2>2, <2>4 DEF RootsSurvive
    <2> QED
      BY Zenon, <2>1, <2>3, <2>4
  <1>3. CASE RemoveTemporary \/ BlobProcessDies \/ FinishCollection
    BY <1>0, <1>3 DEF RemoveTemporary, BlobProcessDies, FinishCollection, NoJob, RootsSurvive
  <1>4. ASSUME NEW a \in Artifacts, WriteArtifact(a) PROVE BlobInv' /\ UNCHANGED objects
    BY Zenon, <1>0, <1>4 DEF WriteArtifact, RootsSurvive
  <1>5. ASSUME NEW roots \in SUBSET artifacts, ReadRoots(roots) PROVE BlobInv' /\ UNCHANGED objects
    <2>1. \A a \in Artifacts : ArtifactReferences(a) \subseteq Reference
      BY DEF ArtifactReferences, Reference
    <2>2. collector' \in [step : {"idle", "read"}, references : SUBSET Reference]
      BY <1>5, <2>1 DEF ReadRoots
    <2>3. UNCHANGED <<objects, artifacts, blobJob>>
      BY Zenon, <1>5 DEF ReadRoots
    <2> QED
      BY Zenon, <1>0, <2>2, <2>3 DEF RootsSurvive
  <1>6. CASE StartCollection
    <2> DEFINE references == collector.references
               removable == Removable(references)
    <2>0. UNCHANGED <<objects, artifacts>> /\ collector' = NoCollector /\ references \subseteq Reference
      BY Zenon, <1>6 DEF StartCollection
    <2>1. NoCollector \in [step : {"idle", "read"}, references : SUBSET Reference]
      BY Zenon DEF NoCollector
    <2>2. CASE blobJob' = NoJob
      BY Zenon, <1>0, <2>0, <2>1, <2>2 DEF NoJob, RootsSurvive
    <2>3. CASE /\ ReferencesVerified(references) /\ \A b \in removable : Verified(b)
               /\ blobJob' = [NoJob EXCEPT !.step = "removing", !.removals = removable, !.references = references]
      <3>1. blobJob' = [step |-> "removing", blob |-> {}, removals |-> removable, references |-> references]
        BY Zenon, <2>3 DEF NoJob
      <3>2. removable \subseteq Blobs /\ \A r \in references : r.blob \in Blobs /\ r.blob \notin removable
        BY Zenon, <2>0 DEF Removable, Reference
      <3>3. (\A b \in removable : objects[b] = "ok") /\ \A r \in references : objects[r.blob] = "ok"
        BY Zenon, <2>3 DEF ReferencesVerified, Verified
      <3> QED
        BY Zenon, <1>0, <2>0, <2>1, <3>1, <3>2, <3>3 DEF RootsSurvive
    <2> QED
      BY Zenon, <1>6, <2>2, <2>3 DEF StartCollection, OpenStore
  <1>7. CASE RemoveObject
    <2>1. PICK b \in blobJob.removals : /\ objects' = [objects EXCEPT ![b] = "none"]
                                        /\ blobJob' = [blobJob EXCEPT !.removals = @ \ {b}]
      BY Zenon, <1>7 DEF RemoveObject
    <2>2. b \in Blobs /\ objects[b] = "ok" /\ blobJob.step = "removing" /\ UNCHANGED <<artifacts, collector>>
      BY Zenon, <1>7 DEF RemoveObject
    <2>3. \A r \in blobJob.references : r.blob \in Blobs /\ r.blob # b /\ objects[r.blob] = "ok"
      BY <2>2 DEF RootsSurvive, Reference
    <2>4. /\ blobJob'.step = "removing" /\ blobJob'.removals = blobJob.removals \ {b}
          /\ blobJob'.references = blobJob.references
      BY Zenon, <2>1, <2>2
    <2>5. RootsSurvive'
      BY Zenon, <2>1, <2>3, <2>4 DEF RootsSurvive
    <2>6. blobJob' \in [step : {"none", "incoming", "linked", "removing"}, blob : SUBSET Blobs,
                        removals : SUBSET Blobs, references : SUBSET Reference]
      BY Zenon, <2>1
    <2>7. /\ objects' \in [Blobs -> {"none", "ok", "damaged"}]
          /\ \A c \in blobJob'.removals : objects'[c] = "ok"
      BY Zenon, <2>1, <2>2, <2>4
    <2> QED
      BY Zenon, <1>0, <2>1, <2>2, <2>5, <2>6, <2>7
  <1>8. ASSUME NEW b \in Blobs, DamageObject(b)
        PROVE  BlobInv' /\ \A c \in Blobs : objects[c] = "damaged" => objects'[c] = "damaged"
    BY Zenon, <1>0, <1>8 DEF DamageObject, RootsSurvive
  <1>9. CASE UNCHANGED blobVars
    BY Zenon, <1>0, <1>9 DEF blobVars, RootsSurvive
  <1> QED
    BY Zenon, <1>1, <1>2, <1>3, <1>4, <1>5, <1>6, <1>7, <1>8, <1>9
       DEF BlobNext, RemoveTemporary, BlobProcessDies, FinishCollection, StartCollection

LEMMA BlobInvariant == BlobSpec => []BlobInv
  BY BlobInvInit, BlobStepKeeps, PTL DEF BlobSpec

\* gc_with_references: whatever was put, collected or damaged after the roots
\* were read, a collection that removes anything keeps what they reference.
THEOREM CollectionKeepsRoots == BlobSpec => []RootsSurvive
  <1>1. BlobInv => RootsSurvive
    BY Zenon DEF BlobInv
  <1> QED
    BY BlobInvariant, <1>1, PTL

\* put_locked and gc_locked: no operation removes or replaces a damaged object.
THEOREM DamageStays == BlobSpec => DamageIsKept
  <1>1. BlobInv /\ [BlobNext]_blobVars =>
            [\A b \in Blobs : objects[b] = "damaged" => objects'[b] = "damaged"]_blobVars
    BY Zenon, BlobStepKeeps
  <1> QED
    BY BlobInvariant, <1>1, PTL DEF BlobSpec, DamageIsKept

-----------------------------------------------------------------------------
\* A document that is replaced in place (AtomicDocument).  "allowed" is what
\* the next process may find.
Documents(values) == {NoDocument, Unreadable} \cup [kind : {"ok"}, value : values]

Slots(values) ==
    [path : Documents(values), previous : Documents(values),
     step : {"idle", "staged", "cleared", "aside", "published"}, next : Documents(values)]

\* A process that recovered the slot works on it.
Clean(slot) == slot.path # Unreadable /\ (slot.path = NoDocument => slot.previous = NoDocument)

Sound(slot, allowed) ==
    /\ slot.previous # Unreadable
    /\ slot.path = Unreadable => slot.step = "idle" /\ slot.previous # NoDocument
    /\ slot.step \in {"staged", "cleared"} => Clean(slot)
    /\ slot.step = "cleared" => slot.path.kind = "ok" /\ slot.previous = NoDocument
    /\ slot.step = "aside" => slot.path = NoDocument /\ slot.previous.kind = "ok"
    /\ slot.step = "published" => slot.path = slot.next
    /\ slot.step # "idle" => slot.next.kind = "ok" /\ slot.next \in allowed
    /\ slot.path.kind = "ok" \/ slot.previous = NoDocument => slot.path \in allowed
    /\ slot.path.kind # "ok" /\ slot.previous # NoDocument => slot.previous \in allowed

LEMMA DocumentKinds ==
    ASSUME NEW values, NEW d \in Documents(values)
    PROVE  /\ d.kind = "none" <=> d = NoDocument
           /\ d.kind = "bad" <=> d = Unreadable
           /\ d.kind = "ok" <=> d \notin {NoDocument, Unreadable}
           /\ d.kind = "ok" => d.value \in values /\ d = Document(d.value)
  BY DEF Documents, NoDocument, Unreadable, Document

LEMMA DocumentsAre ==
    ASSUME NEW values
    PROVE  /\ NoDocument \in Documents(values) /\ Unreadable \in Documents(values)
           /\ \A v \in values : Document(v) \in Documents(values) /\ Document(v).kind = "ok"
           /\ \A v \in values : Document(v).value = v
           /\ NoDocument.kind = "none" /\ Unreadable.kind = "bad" /\ NoDocument # Unreadable
           /\ \A v \in values : Document(v) # NoDocument /\ Document(v) # Unreadable
  BY Zenon DEF Documents, NoDocument, Unreadable, Document

\* Recovery never refuses, and finds what is allowed.
LEMMA RecoveryFinds ==
    ASSUME NEW values, NEW slot \in Slots(values), NEW allowed, Sound(slot, allowed)
    PROVE  /\ CanRecover(slot)
           /\ RecoveredSlot(slot).path \in allowed
           /\ RecoveredSlot(slot) \in Slots(values)
           /\ Clean(RecoveredSlot(slot))
           /\ RecoveredSlot(slot).previous = NoDocument
           /\ RecoveredSlot(slot).step = slot.step
           /\ slot.step = "idle" => Sound(RecoveredSlot(slot), {RecoveredSlot(slot).path})
  <1>1. slot.path \in Documents(values) /\ slot.previous \in Documents(values)
    BY Zenon DEF Slots
  <1>2. slot.previous # NoDocument => slot.previous.kind = "ok"
    BY Zenon, <1>1, DocumentKinds DEF Sound
  <1>3. NoDocument \in Documents(values) /\ NoDocument.kind = "none" /\ NoDocument # Unreadable
    BY Zenon, DocumentsAre
  <1>4. slot.path.kind = "ok" => slot.path \notin {NoDocument, Unreadable}
    BY Zenon, <1>1, DocumentKinds
  <1>5. CASE slot.previous = NoDocument
    <2>0. [slot EXCEPT !.previous = NoDocument] = slot
      BY Zenon, <1>5 DEF Slots
    <2>1. RecoveredSlot(slot) = slot
      BY Zenon, <1>5, <2>0 DEF RecoveredSlot
    <2> QED
      BY Zenon, <1>1, <1>2, <1>3, <1>4, <1>5, <2>1 DEF Sound, Clean, CanRecover
  <1>6. CASE slot.previous # NoDocument /\ slot.path.kind = "ok"
    <2>1. RecoveredSlot(slot) = [slot EXCEPT !.previous = NoDocument]
      BY Zenon, <1>6 DEF RecoveredSlot
    <2>2. RecoveredSlot(slot) = [path |-> slot.path, previous |-> NoDocument, step |-> slot.step, next |-> slot.next]
      BY Zenon, <2>1 DEF Slots
    <2> QED
      BY <1>1, <1>2, <1>3, <1>4, <1>6, <2>2 DEF Sound, Clean, CanRecover, Slots
  <1>7. CASE slot.previous # NoDocument /\ slot.path.kind # "ok"
    <2>1. RecoveredSlot(slot) = [slot EXCEPT !.path = slot.previous, !.previous = NoDocument]
      BY Zenon, <1>7 DEF RecoveredSlot
    <2>2. RecoveredSlot(slot) = [path |-> slot.previous, previous |-> NoDocument, step |-> slot.step, next |-> slot.next]
      BY Zenon, <2>1 DEF Slots
    <2>3. slot.previous \notin {NoDocument, Unreadable}
      BY Zenon, <1>7 DEF Sound
    <2> QED
      BY <1>1, <1>2, <1>3, <1>7, <2>2, <2>3 DEF Sound, Clean, CanRecover, Slots
  <1> QED
    BY Zenon, <1>5, <1>6, <1>7

\* The temporary is written.
LEMMA StartKeepsSound ==
    ASSUME NEW values, NEW slot \in Slots(values), NEW allowed, Sound(slot, allowed),
           Clean(slot), NEW v \in values
    PROVE  /\ StartReplace(slot, v) \in Slots(values)
           /\ Sound(StartReplace(slot, v), allowed \cup {Document(v)})
           /\ StartReplace(slot, v).step = "staged" /\ StartReplace(slot, v).next = Document(v)
           /\ StartReplace(slot, v).previous = slot.previous
  <1>1. Document(v) \in Documents(values) /\ Document(v).kind = "ok"
    BY Zenon, DocumentsAre
  <1> DEFINE next == StartReplace(slot, v)
  <1>2. /\ next.path = slot.path /\ next.previous = slot.previous
        /\ next.step = "staged" /\ next.next = Document(v)
    BY Zenon DEF Slots, StartReplace
  <1>3. next \in Slots(values)
    BY Zenon, <1>1 DEF Slots, StartReplace
  <1> QED
    BY Zenon, <1>1, <1>2, <1>3 DEF Sound, Clean

\* Every step of the replacement; the last one leaves the new document.
LEMMA StepKeepsSound ==
    ASSUME NEW values, NEW slot \in Slots(values), NEW allowed, Sound(slot, allowed),
           Replacing(slot)
    PROVE  /\ ReplaceStep(slot) \in Slots(values)
           /\ Replacing(ReplaceStep(slot)) =>
                  Sound(ReplaceStep(slot), allowed) /\ ReplaceStep(slot).next = slot.next
           /\ ~Replacing(ReplaceStep(slot)) =>
                  Sound(ReplaceStep(slot), {slot.next}) /\ Clean(ReplaceStep(slot))
           /\ ReplaceStep(slot).previous \in {NoDocument, slot.path, slot.previous}
           /\ ~Replacing(ReplaceStep(slot)) => ReplaceStep(slot).previous = NoDocument
           /\ ReplaceStep(slot).previous = slot.path => slot.step = "cleared" \/ slot.previous = slot.path
  <1>1. slot.path \in Documents(values) /\ slot.previous \in Documents(values) /\ slot.next \in Documents(values)
    BY Zenon DEF Slots
  <1>2. NoDocument \in Documents(values) /\ NoDocument.kind = "none" /\ NoDocument # Unreadable
    BY Zenon, DocumentsAre
  <1>3. \A d \in {slot.path, slot.previous, slot.next} : d.kind = "ok" <=> d \notin {NoDocument, Unreadable}
    BY Zenon, <1>1, DocumentKinds
  <1> DEFINE next == ReplaceStep(slot)
  <1>4. CASE slot.step = "staged" /\ slot.path = NoDocument
    <2>1. next = [path |-> slot.next, previous |-> slot.previous, step |-> "published", next |-> slot.next]
      BY Zenon, <1>4 DEF ReplaceStep, Slots
    <2> QED
      BY <1>1, <1>2, <1>3, <1>4, <2>1 DEF Sound, Clean, Slots, Replacing
  <1>5. CASE slot.step = "staged" /\ slot.path # NoDocument
    <2>1. next = [path |-> slot.path, previous |-> NoDocument, step |-> "cleared", next |-> slot.next]
      BY Zenon, <1>5 DEF ReplaceStep, Slots
    <2> QED
      BY <1>1, <1>2, <1>3, <1>5, <2>1 DEF Sound, Clean, Slots, Replacing
  <1>6. CASE slot.step = "cleared"
    <2>1. next = [path |-> NoDocument, previous |-> slot.path, step |-> "aside", next |-> slot.next]
      BY Zenon, <1>6 DEF ReplaceStep, SetAside, Slots
    <2> QED
      BY <1>1, <1>2, <1>3, <1>6, <2>1 DEF Sound, Clean, Slots, Replacing
  <1>7. CASE slot.step = "aside"
    <2>1. next = [path |-> slot.next, previous |-> slot.previous, step |-> "published", next |-> slot.next]
      BY Zenon, <1>7 DEF ReplaceStep, Slots
    <2> QED
      BY <1>1, <1>2, <1>3, <1>7, <2>1 DEF Sound, Clean, Slots, Replacing
  <1>8. CASE slot.step = "published"
    <2>1. next = [path |-> slot.path, previous |-> NoDocument, step |-> "idle", next |-> NoDocument]
      BY Zenon, <1>8 DEF ReplaceStep, Slots
    <2> QED
      BY <1>1, <1>2, <1>3, <1>8, <2>1 DEF Sound, Clean, Slots, Replacing
  <1> QED
    BY Zenon, <1>4, <1>5, <1>6, <1>7, <1>8 DEF Slots, Replacing

\* The process dies, or its second rename fails.
LEMMA StopKeepsSound ==
    ASSUME NEW values, NEW slot \in Slots(values), NEW allowed, Sound(slot, allowed)
    PROVE  /\ Interrupt(slot) \in Slots(values) /\ Sound(Interrupt(slot), allowed)
           /\ Interrupt(slot).step = "idle" /\ Interrupt(slot).previous = slot.previous
           /\ slot.step = "aside" =>
                  /\ PutBack(slot) \in Slots(values) /\ Sound(PutBack(slot), {slot.previous})
                  /\ PutBack(slot).step = "idle" /\ PutBack(slot).previous = NoDocument
  <1>1. NoDocument \in Documents(values) /\ NoDocument.kind = "none" /\ NoDocument # Unreadable
    BY Zenon, DocumentsAre
  <1>2. /\ Interrupt(slot).path = slot.path /\ Interrupt(slot).previous = slot.previous
        /\ Interrupt(slot).step = "idle" /\ Interrupt(slot) \in Slots(values)
    BY Zenon, <1>1 DEF Interrupt, Slots
  <1>3. /\ PutBack(slot).path = slot.previous /\ PutBack(slot).previous = NoDocument
        /\ PutBack(slot).step = "idle" /\ PutBack(slot) \in Slots(values)
    BY Zenon, <1>1 DEF PutBack, Slots
  <1>4. slot.previous \in Documents(values) /\ slot.path \in Documents(values)
    BY Zenon DEF Slots
  <1> QED
    BY Zenon, <1>1, <1>2, <1>3, <1>4 DEF Sound, Clean

-----------------------------------------------------------------------------
\* The runtime updater.
ReleaseOrNone == Releases \cup {NoRelease}

UpdateStates ==
    [active : ReleaseOrNone, previous : ReleaseOrNone, installed : [ReleaseVersions -> ReleaseOrNone]]

FileStates == {r.artifact : r \in Releases} \cup {"none", "partial"}

\* The selected releases are whole on disk.
Complete(state, files) ==
    \A r \in {state.active, state.previous} \ {NoRelease} : files[r.version] = r.artifact

\* The inductive invariant: what the updater holds in memory and every document
\* the next process may find select whole releases only, and the release being
\* copied is none of them.
UpdaterInv ==
    /\ selection \in Slots(UpdateStates) /\ Sound(selection, selectable)
    /\ selectable \subseteq Documents(UpdateStates)
    /\ selection.previous # NoDocument => selection.previous \in selectable
    /\ updater \in [step : {"none", "open", "copying", "saving"}, state : UpdateStates,
                    release : ReleaseOrNone]
    /\ updater.step = "saving" <=> Replacing(selection)
    /\ updater.step \in {"open", "copying"} => Clean(selection) /\ selection.previous = NoDocument
    /\ releaseFiles \in [ReleaseVersions -> FileStates]
    /\ \A d \in selectable : d.kind = "ok" => Complete(d.value, releaseFiles)
    /\ Complete(updater.state, releaseFiles)
    /\ updater.step = "copying" =>
          updater.release \in Releases /\ releaseFiles[updater.release.version] = "partial"

LEMMA ReleaseFacts ==
    /\ \A r \in ReleaseOrNone : r # NoRelease => r \in Releases
    /\ \A r \in Releases : r.version \in ReleaseVersions /\ r.artifact \in FileStates
                           /\ r.artifact \notin {"none", "partial"} /\ r # NoRelease
    /\ NoRelease \in ReleaseOrNone /\ UpdateState \in UpdateStates
    /\ \A files : Complete(UpdateState, files)
  BY ReleasesAssumption
     DEF ReleaseOrNone, ReleaseVersions, FileStates, NoRelease, UpdateState, UpdateStates, Complete

\* A file that was not whole changes.
LEMMA OtherFilesStay ==
    ASSUME NEW files \in [ReleaseVersions -> FileStates], NEW v \in ReleaseVersions,
           files[v] \in {"none", "partial"}, NEW f \in FileStates,
           NEW state \in UpdateStates, Complete(state, files)
    PROVE  Complete(state, [files EXCEPT ![v] = f])
  <1> SUFFICES ASSUME NEW r \in {state.active, state.previous} \ {NoRelease}
               PROVE  [files EXCEPT ![v] = f][r.version] = r.artifact
    BY Zenon DEF Complete
  <1>1. r \in Releases /\ files[r.version] = r.artifact
    BY Zenon, ReleaseFacts DEF Complete, UpdateStates
  <1>2. r.version \in ReleaseVersions /\ r.version # v
    BY Zenon, <1>1, ReleaseFacts
  <1> QED
    BY Zenon, <1>1, <1>2

\* install selects a release that is whole.
LEMMA ActivatedIsComplete ==
    ASSUME NEW files \in [ReleaseVersions -> FileStates], NEW state \in UpdateStates,
           Complete(state, files), NEW r \in Releases, files[r.version] = r.artifact
    PROVE  Activated(state, r) \in UpdateStates /\ Complete(Activated(state, r), files)
  <1>1. r \in ReleaseOrNone /\ r.version \in ReleaseVersions
    BY Zenon, ReleaseFacts DEF ReleaseOrNone
  <1> QED
    BY Zenon, <1>1 DEF Activated, UpdateStates, Complete

\* save_state: the replacement starts, or the validation refuses.
LEMMA SaveStateKeepsInv ==
    ASSUME UpdaterInv, updater.step \in {"open", "copying"}, NEW state \in UpdateStates,
           SaveState(state), NEW files \in [ReleaseVersions -> FileStates], releaseFiles' = files,
           Complete(state, files), \A d \in selectable : d.kind = "ok" => Complete(d.value, files),
           Complete(updater.state, files)
    PROVE  UpdaterInv'
  <1>1. CASE ~ValidState(state)
    <2>1. updater' = NoUpdater /\ UNCHANGED <<selection, selectable>>
      BY Zenon, <1>1 DEF SaveState
    <2> QED
      BY Zenon, <2>1, ReleaseFacts DEF UpdaterInv, NoUpdater
  <1>2. CASE ValidState(state)
    <2>1. /\ selection' = StartReplace(selection, state)
          /\ selectable' = selectable \cup {Document(state)}
          /\ updater' = [updater EXCEPT !.step = "saving", !.state = state]
      BY Zenon, <1>2 DEF SaveState
    <2>2. /\ selection' \in Slots(UpdateStates) /\ Sound(selection', selectable')
          /\ selection'.step = "staged" /\ selection'.previous = selection.previous
      BY <2>1, StartKeepsSound DEF UpdaterInv
    <2>3. Document(state) \in Documents(UpdateStates) /\ Document(state).value = state
      BY Zenon, DocumentsAre
    <2>4. /\ updater' \in [step : {"none", "open", "copying", "saving"}, state : UpdateStates,
                          release : ReleaseOrNone]
          /\ updater'.step = "saving" /\ updater'.state = state
      BY Zenon, <2>1 DEF UpdaterInv
    <2>5. Replacing(selection')
      BY Zenon, <2>2 DEF Replacing
    <2> QED
      BY Zenon, <2>1, <2>2, <2>3, <2>4, <2>5 DEF UpdaterInv
  <1> QED
    BY Zenon, <1>1, <1>2

LEMMA UpdaterInvInit == UpdaterInit => UpdaterInv
  <1> SUFFICES ASSUME UpdaterInit PROVE UpdaterInv
    BY Zenon
  <1>1. /\ NoDocument \in Documents(UpdateStates) /\ NoDocument.kind = "none"
        /\ NoDocument # Unreadable
    BY Zenon, DocumentsAre
  <1>2. selection \in Slots(UpdateStates) /\ Sound(selection, selectable) /\ ~Replacing(selection)
    BY Zenon, <1>1 DEF UpdaterInit, EmptySlot, Slots, Sound, Replacing
  <1> QED
    BY Zenon, <1>1, <1>2, ReleaseFacts DEF UpdaterInit, UpdaterInv, EmptySlot, NoUpdater, FileStates

LEMMA UpdaterStepKeeps ==
    ASSUME UpdaterInv, [UpdaterNext]_updaterVars
    PROVE  UpdaterInv'
  <1>0. Slots(UpdateStates)' = Slots(UpdateStates) /\ NoUpdater.step = "none"
        /\ NoUpdater.state = UpdateState /\ NoUpdater.release = NoRelease
    BY Zenon DEF NoUpdater
  <1>1. CASE OpenUpdater
    <2> DEFINE slot == RecoveredSlot(selection)
               state == IF slot.path.kind = "ok" THEN slot.path.value ELSE UpdateState
    <2>1. /\ selection' = slot /\ selectable' = {slot.path} /\ slot.path # Unreadable
          /\ updater' = [NoUpdater EXCEPT !.step = "open", !.state = state]
          /\ UNCHANGED releaseFiles /\ updater = NoUpdater
      BY Zenon, <1>1 DEF OpenUpdater
    <2>2. selection.step = "idle"
      BY Zenon, <1>0, <2>1 DEF UpdaterInv, Replacing
    <2>3. /\ slot \in Slots(UpdateStates) /\ slot.path \in selectable /\ Clean(slot)
          /\ slot.previous = NoDocument /\ slot.step = "idle" /\ Sound(slot, {slot.path})
      BY Zenon, <2>2, RecoveryFinds DEF UpdaterInv
    <2>4. state \in UpdateStates /\ Complete(state, releaseFiles)
      BY Zenon, <2>3, DocumentKinds, ReleaseFacts DEF UpdaterInv
    <2>5. /\ updater' \in [step : {"none", "open", "copying", "saving"}, state : UpdateStates,
                          release : ReleaseOrNone]
          /\ updater'.step = "open" /\ updater'.state = state
      BY Zenon, <2>1, <2>4, ReleaseFacts DEF NoUpdater
    <2> QED
      BY Zenon, <2>1, <2>3, <2>4, <2>5 DEF UpdaterInv, Replacing
  <1>2. ASSUME NEW r \in Releases, NEW allow \in BOOLEAN, Install(r, allow)
        PROVE  UpdaterInv'
    <2>0. r.version \in ReleaseVersions /\ updater.step = "open"
      BY Zenon, <1>2, ReleaseFacts DEF Install
    <2>1. CASE releaseFiles[r.version] = "none"
      <3>1. /\ releaseFiles' = [releaseFiles EXCEPT ![r.version] = "partial"]
            /\ updater' = [updater EXCEPT !.step = "copying", !.release = r]
            /\ UNCHANGED <<selection, selectable>>
        BY Zenon, <1>2, <2>1, ReleaseFacts DEF Install
      <3>2. "partial" \in FileStates
        BY Zenon DEF FileStates
      <3>3. /\ releaseFiles' \in [ReleaseVersions -> FileStates]
            /\ releaseFiles'[r.version] = "partial"
        BY Zenon, <2>0, <3>1, <3>2 DEF UpdaterInv
      <3>4. \A s \in UpdateStates : Complete(s, releaseFiles) => Complete(s, releaseFiles')
        BY Zenon, <2>0, <2>1, <3>1, <3>2, OtherFilesStay DEF UpdaterInv
      <3>5. \A d \in selectable : d.kind = "ok" => d.value \in UpdateStates
        BY Zenon, DocumentKinds DEF UpdaterInv
      <3>6. /\ updater' \in [step : {"none", "open", "copying", "saving"}, state : UpdateStates,
                            release : ReleaseOrNone]
            /\ updater'.step = "copying" /\ updater'.release = r /\ updater'.state = updater.state
        BY ZenonT(60), <3>1 DEF UpdaterInv, ReleaseOrNone
      <3> QED
        BY Zenon, <2>0, <3>1, <3>3, <3>4, <3>5, <3>6 DEF UpdaterInv
    <2>2. CASE releaseFiles[r.version] = r.artifact
      <3>1. SaveState(Activated(updater.state, r)) /\ UNCHANGED releaseFiles
        BY Zenon, <1>2, <2>2, ReleaseFacts DEF Install
      <3>2. /\ Activated(updater.state, r) \in UpdateStates
            /\ Complete(Activated(updater.state, r), releaseFiles)
        BY Zenon, <2>2, ActivatedIsComplete DEF UpdaterInv
      <3> QED
        BY Zenon, <2>0, <3>1, <3>2, SaveStateKeepsInv DEF UpdaterInv
    <2>3. CASE releaseFiles[r.version] \notin {"none", r.artifact}
      <3>1. updater' = NoUpdater /\ UNCHANGED <<selection, selectable, releaseFiles>>
        BY Zenon, <1>2, <2>3 DEF Install
      <3> QED
        BY Zenon, <2>0, <3>1, ReleaseFacts DEF UpdaterInv, NoUpdater
    <2> QED
      BY Zenon, <2>1, <2>2, <2>3
  <1>3. CASE FinishCopy
    <2> DEFINE r == updater.release
    <2>1. /\ updater.step = "copying"
          /\ releaseFiles' = [releaseFiles EXCEPT ![r.version] = r.artifact]
          /\ SaveState(Activated(updater.state, r))
      BY Zenon, <1>3 DEF FinishCopy
    <2>2. /\ r \in Releases /\ r.version \in ReleaseVersions /\ r.artifact \in FileStates
          /\ releaseFiles[r.version] = "partial"
      BY Zenon, <2>1, ReleaseFacts DEF UpdaterInv
    <2>3. /\ releaseFiles' \in [ReleaseVersions -> FileStates]
          /\ releaseFiles'[r.version] = r.artifact
      BY Zenon, <2>1, <2>2 DEF UpdaterInv
    <2>4. \A s \in UpdateStates : Complete(s, releaseFiles) => Complete(s, releaseFiles')
      BY Zenon, <2>1, <2>2, OtherFilesStay DEF UpdaterInv
    <2>5. \A d \in selectable : d.kind = "ok" => Complete(d.value, releaseFiles')
      BY Zenon, <2>4, DocumentKinds DEF UpdaterInv
    <2>6. updater.state \in UpdateStates /\ Complete(updater.state, releaseFiles')
      BY Zenon, <2>4 DEF UpdaterInv
    <2>7. /\ Activated(updater.state, r) \in UpdateStates
          /\ Complete(Activated(updater.state, r), releaseFiles')
      BY Zenon, <2>2, <2>3, <2>6, ActivatedIsComplete
    <2> QED
      BY Zenon, <2>1, <2>3, <2>5, <2>6, <2>7, SaveStateKeepsInv
  <1>4. CASE DropCopy
    <2> DEFINE r == updater.release
    <2>1. /\ updater.step = "copying" /\ updater' = NoUpdater
          /\ releaseFiles' = [releaseFiles EXCEPT ![r.version] = "none"]
          /\ UNCHANGED <<selection, selectable>>
      BY Zenon, <1>4 DEF DropCopy
    <2>2. /\ r \in Releases /\ r.version \in ReleaseVersions /\ "none" \in FileStates
          /\ releaseFiles[r.version] = "partial"
      BY Zenon, <2>1, ReleaseFacts DEF UpdaterInv, FileStates
    <2>3. releaseFiles' \in [ReleaseVersions -> FileStates]
      BY Zenon, <2>1, <2>2 DEF UpdaterInv
    <2>4. \A s \in UpdateStates : Complete(s, releaseFiles) => Complete(s, releaseFiles')
      BY Zenon, <2>1, <2>2, OtherFilesStay DEF UpdaterInv
    <2>5. \A d \in selectable : d.kind = "ok" => Complete(d.value, releaseFiles')
      BY Zenon, <2>4, DocumentKinds DEF UpdaterInv
    <2> QED
      BY Zenon, <2>1, <2>3, <2>5, ReleaseFacts DEF UpdaterInv, NoUpdater
  <1>5. CASE Rollback
    <2> DEFINE back == [updater.state EXCEPT !.active = updater.state.previous,
                                             !.previous = updater.state.active]
    <2>1. updater.step = "open" /\ SaveState(back) /\ UNCHANGED releaseFiles
      BY Zenon, <1>5 DEF Rollback
    <2>2. back \in UpdateStates
      BY Zenon DEF UpdaterInv, UpdateStates
    <2>3. Complete(back, releaseFiles)
      BY Zenon DEF UpdaterInv, UpdateStates, Complete
    <2> QED
      BY Zenon, <2>1, <2>2, <2>3, SaveStateKeepsInv DEF UpdaterInv
  <1>6. CASE SaveStep
    <2>1. /\ updater.step = "saving" /\ selection' = ReplaceStep(selection)
          /\ UNCHANGED releaseFiles /\ Replacing(selection)
      BY Zenon, <1>6 DEF SaveStep, UpdaterInv
    <2>2. /\ selection' \in Slots(UpdateStates)
          /\ Replacing(selection') => Sound(selection', selectable)
          /\ ~Replacing(selection') => Sound(selection', {selection.next}) /\ Clean(selection')
          /\ selection'.previous \in {NoDocument, selection.path, selection.previous}
          /\ ~Replacing(selection') => selection'.previous = NoDocument
          /\ selection'.previous = selection.path => selection.step = "cleared" \/ selection.previous = selection.path
      BY Zenon, <2>1, StepKeepsSound DEF UpdaterInv
    <2>3. CASE Replacing(selection')
      <3>1. UNCHANGED <<updater, selectable>>
        BY Zenon, <1>6, <2>3 DEF SaveStep
      <3>2. selection'.previous # NoDocument => selection'.previous \in selectable
        BY Zenon, <2>2 DEF UpdaterInv, Sound
      <3> QED
        BY Zenon, <2>1, <2>2, <2>3, <3>1, <3>2 DEF UpdaterInv
    <2>4. CASE ~Replacing(selection')
      <3>1. updater' = NoUpdater /\ selectable' = {selection.next}
        BY Zenon, <1>6, <2>4 DEF SaveStep
      <3>2. selection.next \in selectable
        BY Zenon, <2>1 DEF UpdaterInv, Sound, Replacing
      <3> QED
        BY Zenon, <1>0, <2>1, <2>2, <2>4, <3>1, <3>2, ReleaseFacts DEF UpdaterInv, NoUpdater
    <2> QED
      BY Zenon, <2>3, <2>4
  <1>7. CASE SaveFails
    <2>1. /\ selection.step = "aside" /\ selection' = PutBack(selection)
          /\ selectable' = {selection.previous} /\ updater' = NoUpdater /\ UNCHANGED releaseFiles
      BY Zenon, <1>7 DEF SaveFails
    <2>2. /\ selection' \in Slots(UpdateStates) /\ Sound(selection', selectable')
          /\ selection'.step = "idle" /\ selection'.previous = NoDocument
      BY Zenon, <2>1, StopKeepsSound DEF UpdaterInv
    <2>3. selection.previous \in selectable
      BY Zenon, <2>1, DocumentsAre DEF UpdaterInv, Sound
    <2> QED
      BY Zenon, <2>1, <2>2, <2>3, ReleaseFacts DEF UpdaterInv, NoUpdater, Replacing
  <1>8. CASE UpdaterEnds
    <2>1. /\ selection' = Interrupt(selection) /\ updater' = NoUpdater
          /\ UNCHANGED <<selectable, releaseFiles>>
      BY Zenon, <1>8 DEF UpdaterEnds
    <2>2. /\ selection' \in Slots(UpdateStates) /\ Sound(selection', selectable)
          /\ selection'.step = "idle" /\ selection'.previous = selection.previous
      BY Zenon, <2>1, StopKeepsSound DEF UpdaterInv
    <2> QED
      BY Zenon, <2>1, <2>2, ReleaseFacts DEF UpdaterInv, NoUpdater, Replacing
  <1>9. CASE DamageSelection
    <2>1. /\ updater = NoUpdater /\ selection.path.kind = "ok" /\ selection.previous.kind = "ok"
          /\ selection' = [selection EXCEPT !.path = Unreadable]
          /\ UNCHANGED <<releaseFiles, updater, selectable>>
      BY Zenon, <1>9 DEF DamageSelection
    <2>2. /\ selection'.path = Unreadable /\ selection'.previous = selection.previous
          /\ selection'.step = selection.step /\ selection' \in Slots(UpdateStates)
      BY Zenon, <2>1, DocumentsAre DEF UpdaterInv, Slots
    <2>3. selection.previous \notin {NoDocument, Unreadable} /\ selection.previous \in selectable
      BY Zenon, <2>1, DocumentsAre DEF UpdaterInv
    <2>4. selection.step = "idle" /\ Unreadable.kind = "bad"
      BY Zenon, <1>0, <2>1, DocumentsAre DEF UpdaterInv, Replacing
    <2>5. Sound(selection', selectable)
      BY Zenon, <2>2, <2>3, <2>4 DEF Sound
    <2> QED
      BY <1>0, <2>1, <2>2, <2>3, <2>4, <2>5 DEF UpdaterInv, Replacing
  <1>10. CASE UNCHANGED updaterVars
    BY Zenon, <1>10 DEF updaterVars, UpdaterInv
  <1> QED
    BY Zenon, <1>1, <1>2, <1>3, <1>4, <1>5, <1>6, <1>7, <1>8, <1>9, <1>10 DEF UpdaterNext

\* recover_state, save_state and install: the next process always opens the
\* updater and finds a selection whose releases are whole.
THEOREM SelectionAlwaysSurvives == UpdaterSpec => []SelectionSurvives
  <1>1. UpdaterInv => SelectionSurvives
    <2> SUFFICES ASSUME UpdaterInv PROVE SelectionSurvives
      BY Zenon
    <2>1. CanRecover(selection) /\ Selection \in selectable
      BY Zenon, RecoveryFinds DEF UpdaterInv, Selection
    <2> QED
      BY Zenon, <2>1 DEF UpdaterInv, SelectionSurvives, Complete
  <1> QED
    BY UpdaterInvInit, UpdaterStepKeeps, <1>1, PTL DEF UpdaterSpec

-----------------------------------------------------------------------------
\* The package registry.
TrustStores == [trusted : SUBSET Signers, revoked : SUBSET Signers]

Versions == {NoVersion} \cup [digest : Digests, key : Signers]

Indexes == [packages : [Names -> Versions], transparency : Seq([name : Names, version : Versions])]

RegistryProcesses ==
    [step : {"none", "trusting", "open", "object", "signature", "stored", "saving"},
     index : Indexes, keys : SUBSET Signers,
     package : Packages \cup {NoRegistry.package}, key : Signers \cup {"none"}]

IndexIn(document) == IF document.kind = "ok" THEN document.value ELSE RegistryIndex

\* An index that may be found: its log is exact, it lists what publishers were
\* told is published, and what it lists is stored.
Faithful(value, told, files) ==
    /\ ValidRegistry(value)
    /\ \A p \in told : value.packages[p.name].digest = p.digest
    /\ \A n \in Names : value.packages[n] # NoVersion => files[value.packages[n].digest] = "ok"

\* The inductive invariant: every index the next process may find is faithful;
\* the process that holds the lock works on the one there is, and adds a
\* version that index does not list, once its package is stored.
RegistryInv ==
    /\ trust \in Documents(TrustStores)
    /\ index \in Slots(Indexes) /\ Sound(index, indexable) /\ indexable \subseteq Documents(Indexes)
    /\ packageFiles \in [Digests -> {"none", "partial", "ok"}]
    /\ published \subseteq Packages
    /\ registry \in RegistryProcesses
    /\ registry.step = "saving" <=> Replacing(index)
    /\ registry.step \in {"open", "object", "signature", "stored"} =>
          Clean(index) /\ indexable = {index.path} /\ registry.index = IndexIn(index.path)
    /\ registry.step \in {"object", "signature", "stored"} =>
          /\ registry.package \in Packages /\ registry.key \in Signers
          /\ registry.index.packages[registry.package.name] = NoVersion
    /\ registry.step \in {"signature", "stored"} => packageFiles[registry.package.digest] = "ok"
    /\ registry.step = "saving" =>
          /\ registry.package \in Packages /\ index.next = Document(registry.index)
          /\ registry.index.packages[registry.package.name].digest = registry.package.digest
    /\ \A d \in indexable : Faithful(IndexIn(d), published, packageFiles)

LEMMA RegistryFacts ==
    /\ \A p \in Packages : p.name \in Names /\ p.digest \in Digests /\ p.digest # "none"
    /\ NoVersion \in Versions /\ NoVersion.digest = "none" /\ RegistryIndex \in Indexes
    /\ \A d \in Documents(Indexes) : IndexIn(d) \in Indexes
    /\ IndexIn(NoDocument) = RegistryIndex
    /\ \A v \in Indexes : IndexIn(Document(v)) = v
  <1>1. NoVersion \in Versions /\ NoVersion.digest = "none"
    BY Zenon DEF NoVersion, Versions
  <1>2. RegistryIndex \in Indexes
    BY <1>1 DEF RegistryIndex, Indexes
  <1>3. \A d \in Documents(Indexes) : IndexIn(d) \in Indexes
    BY Zenon, <1>2, DocumentKinds DEF IndexIn
  <1>4. IndexIn(NoDocument) = RegistryIndex
    BY Zenon DEF IndexIn, NoDocument
  <1>5. \A v \in Indexes : IndexIn(Document(v)) = v
    BY Zenon DEF IndexIn, Document
  <1>6. \A p \in Packages : p.name \in Names /\ p.digest \in Digests /\ p.digest # "none"
    BY Zenon, PackagesAssumption DEF Names, Digests
  <1> QED
    BY Zenon, <1>1, <1>2, <1>3, <1>4, <1>5, <1>6

LEMMA NoProcess ==
    /\ NoRegistry \in RegistryProcesses
    /\ NoRegistry.step = "none"
  BY Zenon, RegistryFacts DEF NoRegistry, RegistryProcesses

\* An empty index is faithful before anything is published.
LEMMA EmptyIsFaithful ==
    ASSUME NEW files PROVE Faithful(RegistryIndex, {}, files)
  <1>1. \A n \in Names : RegistryIndex.packages[n] = NoVersion
    BY Zenon DEF RegistryIndex
  <1>2. RegistryIndex.transparency = <<>>
    BY Zenon DEF RegistryIndex
  <1>3. IsInjective(<<>>) /\ Range(<<>>) = {}
    BY DEF IsInjective, Range
  <1> QED
    BY Zenon, <1>1, <1>2, <1>3 DEF Faithful, ValidRegistry

LEMMA RegistryInvInit == RegistryInit => RegistryInv
  <1> SUFFICES ASSUME RegistryInit PROVE RegistryInv
    BY Zenon
  <1>1. /\ NoDocument \in Documents(Indexes) /\ NoDocument \in Documents(TrustStores)
        /\ NoDocument.kind = "none" /\ NoDocument # Unreadable
    BY Zenon, DocumentsAre
  <1>2. index \in Slots(Indexes) /\ Sound(index, indexable) /\ ~Replacing(index)
    BY Zenon, <1>1 DEF RegistryInit, EmptySlot, Slots, Sound, Replacing
  <1>3. \A d \in indexable : Faithful(IndexIn(d), published, packageFiles)
    BY Zenon, RegistryFacts, EmptyIsFaithful DEF RegistryInit
  <1> QED
    BY Zenon, <1>1, <1>2, <1>3, NoProcess DEF RegistryInit, RegistryInv

\* Package files only become whole.
LEMMA FaithfulStays ==
    ASSUME NEW told, NEW files \in [Digests -> {"none", "partial", "ok"}], NEW later,
           \A d \in Digests : files[d] = "ok" => later[d] = "ok",
           NEW value \in Indexes, Faithful(value, told, files)
    PROVE  Faithful(value, told, later)
  <1>1. \A n \in Names : value.packages[n] # NoVersion => value.packages[n].digest \in Digests
    BY Zenon DEF Indexes, Versions
  <1>2. ASSUME NEW n \in Names, value.packages[n] # NoVersion
        PROVE  later[value.packages[n].digest] = "ok"
    <2>1. files[value.packages[n].digest] = "ok"
      BY Zenon, <1>2 DEF Faithful
    <2> QED
      BY Zenon, <1>1, <1>2, <2>1
  <1> QED
    BY Zenon, <1>2 DEF Faithful

\* append_transparency and the new version: what was published keeps its place.
LEMMA IndexedIsFaithful ==
    ASSUME NEW told \in SUBSET Packages, NEW files, NEW value \in Indexes, Faithful(value, told, files),
           NEW package \in Packages, value.packages[package.name] = NoVersion,
           files[package.digest] = "ok", NEW key \in Signers,
           ValidRegistry(Indexed(value, package, key))
    PROVE  /\ Indexed(value, package, key) \in Indexes
           /\ Faithful(Indexed(value, package, key), told, files)
  <1> DEFINE version == [digest |-> package.digest, key |-> key]
             added == Indexed(value, package, key)
  <1>1. package.name \in Names /\ version \in Versions /\ version.digest = package.digest
    BY Zenon, RegistryFacts DEF Versions
  <1>2. /\ added.packages = [value.packages EXCEPT ![package.name] = version]
        /\ added.transparency = Append(value.transparency, [name |-> package.name, version |-> version])
    BY Zenon DEF Indexed
  <1>3. added.packages \in [Names -> Versions]
    BY Zenon, <1>1, <1>2 DEF Indexes
  <1>4. added.transparency \in Seq([name : Names, version : Versions])
    BY SMTT(60), <1>1, <1>2 DEF Indexes
  <1>5. added \in Indexes
    BY Zenon, <1>3, <1>4 DEF Indexed, Indexes
  <1>6. \A n \in Names \ {package.name} : added.packages[n] = value.packages[n]
    BY Zenon, <1>2 DEF Indexes
  <1>7. added.packages[package.name] = version
    BY Zenon, <1>1, <1>2 DEF Indexes
  <1>8. \A p \in told : p.name \in Names /\ p.name # package.name
    BY RegistryFacts DEF Faithful
  <1> QED
    BY <1>1, <1>5, <1>6, <1>7, <1>8 DEF Faithful

LEMMA RegistryStepKeeps ==
    ASSUME RegistryInv, [RegistryNext(Packages, Signers)]_registryVars
    PROVE  RegistryInv'
  <1>1. CASE TrustNext(Signers)
    <2>0. UNCHANGED <<index, packageFiles, signatureFiles, registry, indexable, published>>
      BY Zenon, <1>1 DEF TrustNext
    <2>1. EmptyTrust \in TrustStores
      BY Zenon DEF EmptyTrust, TrustStores
    <2>2. trust.kind = "ok" => trust.value \in TrustStores
      BY Zenon, DocumentKinds DEF RegistryInv
    <2>3. ASSUME NEW key \in Signers, TrustKey(key) PROVE trust' \in Documents(TrustStores)
      <3> DEFINE store == IF trust.kind = "ok" THEN trust.value ELSE EmptyTrust
      <3>1. [store EXCEPT !.trusted = @ \cup {key}] \in TrustStores
        BY Zenon, <2>1, <2>2 DEF TrustStores
      <3> QED
        BY Zenon, <2>3, <3>1, DocumentsAre DEF TrustKey
    <2>4. ASSUME NEW old \in Signers, NEW new \in Signers, ApplyRotation(old, new)
          PROVE  trust' \in Documents(TrustStores)
      <3>1. [trust.value EXCEPT !.trusted = (@ \ {old}) \cup {new}] \in TrustStores
        BY Zenon, <2>2, <2>4 DEF TrustStores, ApplyRotation
      <3> QED
        BY Zenon, <2>4, <3>1, DocumentsAre DEF ApplyRotation
    <2>5. ASSUME NEW key \in Signers, NEW signer \in Signers, ApplyRevocation(key, signer)
          PROVE  trust' \in Documents(TrustStores)
      <3>1. [trust.value EXCEPT !.revoked = @ \cup {key}] \in TrustStores
        BY Zenon, <2>2, <2>5 DEF TrustStores, ApplyRevocation
      <3> QED
        BY <2>5, <3>1, DocumentsAre DEF ApplyRevocation
    <2>6. ASSUME TrustInterrupted PROVE trust' \in Documents(TrustStores)
      BY Zenon, <2>6, DocumentsAre DEF TrustInterrupted
    <2>7. trust' \in Documents(TrustStores)
      BY Zenon, <1>1, <2>3, <2>4, <2>5, <2>6 DEF TrustNext
    <2> QED
      BY Zenon, <2>0, <2>7 DEF RegistryInv
  <1>2. CASE ReadTrust
    <2>1. /\ registry = NoRegistry /\ trust.kind = "ok"
          /\ registry' = [NoRegistry EXCEPT !.step = "trusting", !.keys = Accepted(trust.value)]
          /\ UNCHANGED <<trust, index, packageFiles, indexable, published>>
      BY Zenon, <1>2 DEF ReadTrust
    <2>2. Accepted(trust.value) \in SUBSET Signers
      <3>1. trust.value \in TrustStores
        BY Zenon, <2>1, DocumentKinds DEF RegistryInv
      <3> QED
        BY Zenon, <3>1 DEF Accepted, TrustStores
    <2>3. /\ registry' \in RegistryProcesses
          /\ registry'.step = "trusting"
      BY Zenon, <2>1, <2>2, NoProcess DEF RegistryProcesses
    <2> QED
      BY Zenon, <2>1, <2>3, NoProcess DEF RegistryInv
  <1>3. CASE OpenRegistry
    <2> DEFINE slot == RecoveredSlot(index)
               value == IndexIn(slot.path)
    <2>1. /\ registry.step = "trusting" /\ index' = slot /\ indexable' = {slot.path}
          /\ registry' = [registry EXCEPT !.step = "open", !.index = value]
          /\ UNCHANGED <<trust, packageFiles, published>>
      BY Zenon, <1>3 DEF OpenRegistry, IndexIn
    <2>2. index.step = "idle"
      BY Zenon, <2>1 DEF RegistryInv, Replacing
    <2>3. /\ slot \in Slots(Indexes) /\ slot.path \in indexable /\ Clean(slot)
          /\ slot.step = "idle" /\ Sound(slot, {slot.path})
      BY ZenonT(60), <2>2, RecoveryFinds DEF RegistryInv
    <2>4. value \in Indexes /\ slot.path \in Documents(Indexes)
      BY Zenon, <2>3, RegistryFacts DEF RegistryInv
    <2>5. /\ registry' \in RegistryProcesses
          /\ registry'.step = "open" /\ registry'.index = value
      BY Zenon, <2>1, <2>4 DEF RegistryInv, RegistryProcesses
    <2> QED
      BY Zenon, <2>1, <2>3, <2>4, <2>5 DEF RegistryInv, Replacing
  <1>4. ASSUME NEW p \in Packages, NEW key \in Signers, Publish(p, key)
        PROVE  RegistryInv'
    <2>1. registry.step = "open" /\ UNCHANGED <<trust, index, indexable>>
      BY Zenon, <1>4 DEF Publish
    <2>2. CASE registry.index.packages[p.name] # NoVersion
      <3>1. /\ registry' = NoRegistry /\ UNCHANGED packageFiles
            /\ published' = IF registry.index.packages[p.name].digest = p.digest
                            THEN published \cup {p} ELSE published
        BY Zenon, <1>4, <2>2 DEF Publish
      <3>2. \A d \in indexable : IndexIn(d) = registry.index
        BY Zenon, <2>1 DEF RegistryInv
      <3>3. \A d \in indexable : Faithful(IndexIn(d), published', packageFiles)
        BY Zenon, <3>1, <3>2 DEF RegistryInv, Faithful
      <3> QED
        BY Zenon, <2>1, <3>1, <3>3, NoProcess DEF RegistryInv
    <2>3. CASE registry.index.packages[p.name] = NoVersion
      <3>1. /\ registry' = [registry EXCEPT !.step = "object", !.package = p, !.key = key]
            /\ packageFiles' = [packageFiles EXCEPT ![p.digest] = IF @ = "none" THEN "partial" ELSE @]
            /\ UNCHANGED published
        BY Zenon, <1>4, <2>3 DEF Publish
      <3>2. /\ packageFiles' \in [Digests -> {"none", "partial", "ok"}]
            /\ \A d \in Digests : packageFiles[d] = "ok" => packageFiles'[d] = "ok"
        BY Zenon, <3>1, RegistryFacts DEF RegistryInv
      <3>3. /\ registry' \in RegistryProcesses
            /\ registry'.step = "object" /\ registry'.index = registry.index
            /\ registry'.package = p /\ registry'.key = key
        BY ZenonT(60), <3>1 DEF RegistryInv, RegistryProcesses
      <3>4. \A d \in indexable : Faithful(IndexIn(d), published, packageFiles')
        BY Zenon, <3>2, FaithfulStays, RegistryFacts DEF RegistryInv
      <3> QED
        BY Zenon, <2>1, <2>3, <3>1, <3>2, <3>3, <3>4 DEF RegistryInv
    <2> QED
      BY Zenon, <2>2, <2>3
  <1>5. CASE StoreObject
    <2> DEFINE digest == registry.package.digest
    <2>1. /\ registry.step = "object" /\ UNCHANGED <<trust, index, indexable, published>>
          /\ packageFiles' = [packageFiles EXCEPT ![digest] = "ok"]
      BY Zenon, <1>5 DEF StoreObject
    <2>2. \E s \in {"signature", "stored"} : registry' = [registry EXCEPT !.step = s]
      BY Zenon, <1>5 DEF StoreObject
    <2>3. registry.package \in Packages /\ digest \in Digests
      BY Zenon, <2>1, RegistryFacts DEF RegistryInv
    <2>4. /\ packageFiles' \in [Digests -> {"none", "partial", "ok"}]
          /\ packageFiles'[digest] = "ok"
          /\ \A d \in Digests : packageFiles[d] = "ok" => packageFiles'[d] = "ok"
      BY Zenon, <2>1, <2>3 DEF RegistryInv
    <2>5. /\ registry' \in RegistryProcesses
          /\ registry'.step \in {"signature", "stored"} /\ registry'.index = registry.index
          /\ registry'.package = registry.package /\ registry'.key = registry.key
      BY Zenon, <2>2 DEF RegistryInv, RegistryProcesses
    <2>6. \A d \in indexable : Faithful(IndexIn(d), published, packageFiles')
      BY Zenon, <2>4, FaithfulStays, RegistryFacts DEF RegistryInv
    <2> QED
      BY Zenon, <2>1, <2>3, <2>4, <2>5, <2>6 DEF RegistryInv
  <1>6. CASE StoreSignature
    <2>1. /\ registry.step = "signature" /\ registry' = [registry EXCEPT !.step = "stored"]
          /\ UNCHANGED <<trust, index, packageFiles, indexable, published>>
      BY Zenon, <1>6 DEF StoreSignature
    <2>2. /\ registry' \in RegistryProcesses
          /\ registry'.step = "stored" /\ registry'.index = registry.index
          /\ registry'.package = registry.package /\ registry'.key = registry.key
      BY Zenon, <2>1 DEF RegistryInv, RegistryProcesses
    <2> QED
      BY Zenon, <2>1, <2>2 DEF RegistryInv
  <1>7. CASE AddVersion
    <2> DEFINE package == registry.package
               value == Indexed(registry.index, package, registry.key)
    <2>1. registry.step = "stored" /\ UNCHANGED <<trust, packageFiles, published>>
      BY Zenon, <1>7 DEF AddVersion
    <2>2. CASE ~ValidRegistry(value)
      <3>1. registry' = NoRegistry /\ UNCHANGED <<index, indexable>>
        BY Zenon, <1>7, <2>2 DEF AddVersion
      <3> QED
        BY Zenon, <2>1, <3>1, NoProcess DEF RegistryInv
    <2>3. CASE ValidRegistry(value)
      <3>1. /\ registry' = [registry EXCEPT !.step = "saving", !.index = value]
            /\ index' = StartReplace(index, value)
            /\ indexable' = indexable \cup {Document(value)}
        BY Zenon, <1>7, <2>3 DEF AddVersion
      <3>2. /\ package \in Packages /\ package.name \in Names /\ package.digest \in Digests
            /\ registry.index \in Indexes /\ registry.index.packages[package.name] = NoVersion
            /\ packageFiles[package.digest] = "ok" /\ registry.key \in Signers
            /\ Faithful(registry.index, published, packageFiles)
        BY ZenonT(60), <2>1, RegistryFacts DEF RegistryInv
      <3>3. value \in Indexes /\ Faithful(value, published, packageFiles)
        BY Zenon, <2>3, <3>2, IndexedIsFaithful DEF RegistryInv
      <3>5. /\ index' \in Slots(Indexes) /\ Sound(index', indexable')
            /\ index'.step = "staged" /\ index'.next = Document(value)
        BY <2>1, <3>1, <3>3, StartKeepsSound DEF RegistryInv
      <3>6. /\ registry' \in RegistryProcesses
            /\ registry'.step = "saving" /\ registry'.index = value
            /\ registry'.package = package
        BY Zenon, <3>1, <3>3 DEF RegistryInv, RegistryProcesses
      <3>7. value.packages[package.name].digest = package.digest
        BY Zenon, <3>2 DEF Indexed, Indexes
      <3>8. \A d \in indexable' : Faithful(IndexIn(d), published, packageFiles) /\ d \in Documents(Indexes)
        BY <3>1, <3>3, RegistryFacts, DocumentsAre DEF RegistryInv
      <3> QED
        BY Zenon, <2>1, <3>2, <3>5, <3>6, <3>7, <3>8 DEF RegistryInv, Replacing
    <2> QED
      BY Zenon, <2>2, <2>3
  <1>8. CASE SaveIndexStep
    <2>1. /\ registry.step = "saving" /\ index' = ReplaceStep(index) /\ Replacing(index)
          /\ UNCHANGED <<trust, packageFiles>>
      BY Zenon, <1>8 DEF SaveIndexStep, RegistryInv
    <2>2. /\ index' \in Slots(Indexes)
          /\ Replacing(index') => Sound(index', indexable) /\ index'.next = index.next
          /\ ~Replacing(index') => Sound(index', {index.next})
      BY ZenonT(60), <2>1, StepKeepsSound DEF RegistryInv
    <2>3. CASE Replacing(index')
      <3>1. UNCHANGED <<registry, indexable, published>>
        BY Zenon, <1>8, <2>3 DEF SaveIndexStep
      <3> QED
        BY Zenon, <2>1, <2>2, <2>3, <3>1 DEF RegistryInv
    <2>4. CASE ~Replacing(index')
      <3>1. /\ registry' = NoRegistry /\ indexable' = {index.next}
            /\ published' = published \cup {registry.package}
        BY Zenon, <1>8, <2>4 DEF SaveIndexStep
      <3>2. index.next \in indexable /\ IndexIn(index.next) = registry.index
        <4>1. index.next \in indexable
          BY Zenon, <2>1 DEF RegistryInv, Sound, Replacing
        <4>2. registry.index \in Indexes /\ index.next = Document(registry.index)
          BY Zenon, <2>1 DEF RegistryInv, RegistryProcesses
        <4> QED
          BY Zenon, <4>1, <4>2, RegistryFacts
      <3>3. /\ Faithful(registry.index, published, packageFiles)
            /\ registry.index.packages[registry.package.name].digest = registry.package.digest
        BY Zenon, <2>1, <3>2 DEF RegistryInv
      <3>4. Faithful(IndexIn(index.next), published', packageFiles)
        BY Zenon, <3>1, <3>2, <3>3 DEF Faithful
      <3> QED
        BY Zenon, <2>1, <2>2, <2>4, <3>1, <3>2, <3>4, NoProcess DEF RegistryInv
    <2> QED
      BY Zenon, <2>3, <2>4
  <1>9. CASE RegistryEnds
    <2>1. /\ registry' = NoRegistry /\ index' = Interrupt(index)
          /\ UNCHANGED <<trust, packageFiles, indexable, published>>
      BY Zenon, <1>9 DEF RegistryEnds
    <2>2. index' \in Slots(Indexes) /\ Sound(index', indexable) /\ index'.step = "idle"
      BY ZenonT(60), <2>1, StopKeepsSound DEF RegistryInv
    <2> QED
      BY Zenon, <2>1, <2>2, NoProcess DEF RegistryInv, Replacing
  <1>10. CASE UNCHANGED registryVars
    BY Zenon, <1>10 DEF registryVars, RegistryInv
  <1> QED
    BY Zenon, <1>1, <1>2, <1>3, <1>4, <1>5, <1>6, <1>7, <1>8, <1>9, <1>10 DEF RegistryNext

\* recover_atomic and Registry::publish: the next command always opens the
\* registry and finds an exact index, with every version a publisher was told
\* of, each stored whole.
THEOREM PublishedAlwaysStays == RegistrySpec => []PublishedStays
  <1>1. RegistryInv => PublishedStays
    <2> SUFFICES ASSUME RegistryInv PROVE PublishedStays
      BY Zenon
    <2>1. CanRecover(index) /\ RecoveredSlot(index).path \in indexable
      BY Zenon, RecoveryFinds DEF RegistryInv
    <2>2. Index = IndexIn(RecoveredSlot(index).path)
      BY Zenon DEF Index, IndexIn
    <2> QED
      BY ZenonT(60), <2>1, <2>2 DEF RegistryInv, PublishedStays, Faithful
  <1> QED
    BY RegistryInvInit, RegistryStepKeeps, <1>1, PTL DEF RegistrySpec
-----------------------------------------------------------------------------
\* The launch history.
LaunchRecords ==
    [id : Nat \ {0}, version : InstallVersions, status : {"running", "succeeded", "failed", "terminated"}]

Bad(history, id) ==
    \E i \in DOMAIN history : history[i].id = id /\ history[i].status \in {"failed", "terminated"}

\* Launch ids grow, and only the last launch may be running.
HistoryOk(history) ==
    /\ history \in Seq(LaunchRecords)
    /\ \A i, j \in DOMAIN history : i < j => history[i].id < history[j].id
    /\ \A i \in DOMAIN history : history[i].status = "running" => i = Len(history)

LEMMA IsSequence ==
    ASSUME NEW S, NEW s \in Seq(S), NEW f, DOMAIN f = DOMAIN s, f = [i \in DOMAIN s |-> f[i]], \A i \in DOMAIN s : f[i] \in S
    PROVE  f \in Seq(S) /\ Len(f) = Len(s)
  OBVIOUS

LEMMA SuffixIs ==
    ASSUME NEW S, NEW s \in Seq(S), NEW m \in 1..Len(s)
    PROVE  /\ SubSeq(s, m, Len(s)) \in Seq(S)
           /\ Len(SubSeq(s, m, Len(s))) = Len(s) - m + 1
           /\ \A i \in 1..Len(SubSeq(s, m, Len(s))) : SubSeq(s, m, Len(s))[i] = s[i + (m - 1)]
  OBVIOUS

LEMMA NextLaunchIs ==
    ASSUME NEW h, HistoryOk(h)
    PROVE  /\ NextLaunch(h) \in Nat \ {0}
           /\ \A i \in DOMAIN h : h[i].id < NextLaunch(h) /\ h[i].id \in Nat \ {0}
           /\ \A i \in DOMAIN h : h[i].status = "running" => h[i].id = NextLaunch(h) - 1
           /\ h = <<>> => NextLaunch(h) = 1
           /\ h # <<>> => NextLaunch(h) = h[Len(h)].id + 1
  <1>0. \A i \in DOMAIN h : h[i] \in LaunchRecords
    BY DEF HistoryOk
  <1>1. \A i \in DOMAIN h : h[i].id \in Nat \ {0}
    BY Zenon, <1>0 DEF LaunchRecords
  <1>2. h # <<>> => Len(h) \in DOMAIN h /\ \A i \in DOMAIN h : i <= Len(h)
    BY DEF HistoryOk
  <1>3. h = <<>> => DOMAIN h = {}
    OBVIOUS
  <1>4. DOMAIN h \subseteq Nat
    BY DEF HistoryOk
  <1> QED
    BY SMTT(60), <1>1, <1>2, <1>3, <1>4 DEF HistoryOk, NextLaunch

LEMMA EndedKeeps ==
    ASSUME NEW h, HistoryOk(h), NEW id \in RunningIn(h), NEW status \in {"succeeded", "failed", "terminated"}
    PROVE  /\ HistoryOk(Ended(h, id, status))
           /\ NextLaunch(Ended(h, id, status)) = NextLaunch(h)
           /\ id = NextLaunch(h) - 1
           /\ RunningIn(Ended(h, id, status)) = {}
           /\ \A x : x # id => (Bad(Ended(h, id, status), x) <=> Bad(h, x))
           /\ Bad(Ended(h, id, status), id) => status # "succeeded"
  <1> DEFINE e == Ended(h, id, status)
  <1>1. DOMAIN e = DOMAIN h /\ e = [i \in DOMAIN h |-> e[i]]
    BY Zenon DEF Ended
  <1>2. \A i \in DOMAIN h : h[i] \in LaunchRecords
    BY DEF HistoryOk
  <1>3. \A i \in DOMAIN h : /\ e[i] \in LaunchRecords /\ e[i].id = h[i].id
                            /\ h[i].id = id => e[i].status = status
                            /\ h[i].id # id => e[i].status = h[i].status
    BY Zenon, <1>2 DEF Ended, LaunchRecords
  <1>4. e \in Seq(LaunchRecords) /\ Len(e) = Len(h)
    <2>1. h \in Seq(LaunchRecords)
      BY Zenon DEF HistoryOk
    <2> HIDE DEF e
    <2> QED
      BY Zenon, <1>1, <1>3, <2>1, IsSequence
  <1> HIDE DEF e
  <1>5. PICK k \in DOMAIN h : h[k].id = id /\ h[k].status = "running"
    BY Zenon DEF RunningIn
  <1>6. k = Len(h) /\ h # <<>> /\ id = NextLaunch(h) - 1
    BY <1>5, NextLaunchIs DEF HistoryOk
  <1>7. HistoryOk(e)
    BY <1>1, <1>3, <1>4, <1>5, SMTT(30) DEF HistoryOk
  <1>8. NextLaunch(e) = NextLaunch(h)
    BY <1>1, <1>3, <1>4, <1>5, <1>6 DEF NextLaunch
  <1>9. \A i \in DOMAIN e : e[i].status # "running"
    BY Zenon, <1>1, <1>3, <1>5, <1>6 DEF HistoryOk
  <1>10. RunningIn(e) = {}
    BY Zenon, <1>9 DEF RunningIn
  <1>11. \A x : x # id => (Bad(e, x) <=> Bad(h, x))
    BY Zenon, <1>1, <1>3 DEF Bad
  <1>12. Bad(e, id) => status # "succeeded"
    BY Zenon, <1>1, <1>3 DEF Bad
  <1> QED
    BY Zenon, <1>6, <1>7, <1>8, <1>10, <1>11, <1>12 DEF e

LEMMA BegunKeeps ==
    ASSUME NEW h, HistoryOk(h), RunningIn(h) = {}, NEW v \in InstallVersions,
           NEW r, r = [id |-> NextLaunch(h), version |-> v, status |-> "running"]
    PROVE  /\ HistoryOk(Trim(Append(h, r)))
           /\ Trim(Append(h, r)) # <<>> /\ Trim(Append(h, r))[Len(Trim(Append(h, r)))] = r
           /\ RunningIn(Trim(Append(h, r))) = {NextLaunch(h)}
           /\ \A x : Bad(Trim(Append(h, r)), x) => Bad(h, x)
  <1> DEFINE a == Append(h, r)
             t == Trim(a)
  <1>1. r \in LaunchRecords /\ r.id = NextLaunch(h) /\ r.status = "running" /\ r.version = v
    BY Zenon, NextLaunchIs DEF LaunchRecords
  <1>2. h \in Seq(LaunchRecords) /\ Len(h) \in Nat
    BY DEF HistoryOk
  <1>3. a \in Seq(LaunchRecords) /\ Len(a) = Len(h) + 1 /\ a[Len(a)] = r
        /\ \A i \in 1..Len(h) : a[i] = h[i]
    BY <1>1, <1>2
  <1>4. \A i \in DOMAIN h : h[i].status # "running"
    BY Zenon DEF RunningIn
  <1>5. HistoryOk(a)
    BY <1>1, <1>2, <1>3, <1>4, NextLaunchIs, SMTT(30) DEF HistoryOk
  <1>6. \E k \in Nat : /\ t \in Seq(LaunchRecords) /\ Len(t) \in Nat \ {0} /\ Len(t) + k = Len(a)
                       /\ \A i \in 1..Len(t) : t[i] = a[i + k]
    <2>0. MaxHistory \in Nat \ {0} /\ Len(a) \in Nat
      BY <1>2, <1>3, InstallableAssumption
    <2>1. CASE ~(Len(a) > MaxHistory)
      <3>1. t = a
        BY Zenon, <2>1 DEF Trim
      <3> HIDE DEF a, t
      <3>2. \A i \in 1..Len(t) : i + 0 = i
        BY <2>0, <3>1
      <3>3. 0 \in Nat /\ Len(t) + 0 = Len(a) /\ Len(t) # 0
        BY <1>2, <1>3, <2>0, <3>1
      <3> QED
        BY Zenon, <1>3, <2>0, <3>1, <3>2, <3>3
    <2>2. CASE Len(a) > MaxHistory
      <3> HIDE DEF a
      <3>1. t = SubSeq(a, Len(a) - MaxHistory + 1, Len(a))
        BY Zenon, <2>2 DEF Trim
      <3>2. Len(a) - MaxHistory + 1 \in 1..Len(a) /\ Len(a) - MaxHistory \in Nat
        BY <2>0, <2>2
      <3> DEFINE m == Len(a) - MaxHistory + 1
      <3> HIDE DEF m, t
      <3>3. t = SubSeq(a, m, Len(a)) /\ m \in 1..Len(a)
        BY Zenon, <3>1, <3>2 DEF m
      <3>4. t \in Seq(LaunchRecords) /\ Len(t) = Len(a) - m + 1
            /\ \A i \in 1..Len(t) : t[i] = a[i + (m - 1)]
        BY Zenon, <1>3, <3>3, SuffixIs
      <3>5. m - 1 \in Nat /\ Len(t) \in Nat \ {0} /\ Len(t) + (m - 1) = Len(a)
        BY <2>0, <3>3, <3>4
      <3> QED
        BY Zenon, <3>4, <3>5
    <2> QED
      BY Zenon, <2>1, <2>2
  <1> HIDE DEF a, t
  <1>7. PICK k \in Nat : /\ t \in Seq(LaunchRecords) /\ Len(t) \in Nat \ {0} /\ Len(t) + k = Len(a)
                         /\ \A i \in 1..Len(t) : t[i] = a[i + k]
    BY Zenon, <1>6
  <1>8. DOMAIN t = 1..Len(t) /\ DOMAIN a = 1..Len(a) /\ \A i \in 1..Len(t) : i + k \in 1..Len(a)
    BY <1>2, <1>3, <1>7
  <1>9. t # <<>> /\ t[Len(t)] = r
    BY <1>3, <1>7, <1>8
  <1>10. HistoryOk(t)
    <2>1. \A i, j \in DOMAIN t : i < j => t[i].id < t[j].id
      <3> SUFFICES ASSUME NEW i \in DOMAIN t, NEW j \in DOMAIN t, i < j PROVE t[i].id < t[j].id
        BY Zenon
      <3>1. i + k \in DOMAIN a /\ j + k \in DOMAIN a /\ i + k < j + k
        BY <1>7, <1>8
      <3> QED
        BY Zenon, <1>5, <1>7, <1>8, <3>1 DEF HistoryOk
    <2>2. \A i \in DOMAIN t : t[i].status = "running" => i = Len(t)
      <3> SUFFICES ASSUME NEW i \in DOMAIN t, t[i].status = "running" PROVE i = Len(t)
        BY Zenon
      <3>1. i + k \in DOMAIN a /\ a[i + k].status = "running"
        BY Zenon, <1>7, <1>8
      <3>2. i + k = Len(a)
        BY Zenon, <1>5, <3>1 DEF HistoryOk
      <3> QED
        BY <1>7, <1>8, <3>2
    <2> QED
      BY Zenon, <1>7, <2>1, <2>2 DEF HistoryOk
  <1>11. RunningIn(t) = {NextLaunch(h)}
    <2>1. \A i \in DOMAIN t : t[i].status = "running" => t[i].id = NextLaunch(h)
      BY Zenon, <1>1, <1>9, <1>10 DEF HistoryOk
    <2>2. Len(t) \in DOMAIN t /\ t[Len(t)].status = "running" /\ t[Len(t)].id = NextLaunch(h)
      BY <1>1, <1>7, <1>8, <1>9
    <2> QED
      BY Zenon, <2>1, <2>2 DEF RunningIn
  <1>12. ASSUME NEW x, Bad(t, x) PROVE Bad(h, x)
    <2>1. PICK i \in DOMAIN t : t[i].id = x /\ t[i].status \in {"failed", "terminated"}
      BY Zenon, <1>12 DEF Bad
    <2>2. i + k \in 1..Len(a) /\ a[i + k] = t[i] /\ i + k # Len(a)
      BY Zenon, <1>1, <1>3, <1>7, <1>8, <2>1
    <2>3. i + k \in DOMAIN h /\ h[i + k] = t[i]
      BY <1>2, <1>3, <2>2, SMTT(30)
    <2> QED
      BY Zenon, <2>1, <2>3 DEF Bad
  <1> QED
    BY Zenon, <1>9, <1>10, <1>11, <1>12 DEF t, a
-----------------------------------------------------------------------------
\* The documents of the library, and what a process makes of them.
LibraryDocuments ==
    [installed : [InstallVersions -> Installable \cup {NoPackage}],
     grant : [requests : SUBSET Capabilities, capabilities : SUBSET Capabilities],
     history : Seq(LaunchRecords), failures : Nat, safe_mode : BOOLEAN]

\* The last launch that has ended.
LastEnded(history) ==
    IF RunningIn(history) = {} THEN NextLaunch(history) - 1 ELSE NextLaunch(history) - 2

\* The failures counted are at least the unsuccessful launches since the last
\* successful one and the last reset.
FailuresCount(document, reset) ==
    \A k \in 1..SafeModeThreshold :
        /\ \A id \in LastEnded(document.history) - k + 1 .. LastEnded(document.history) :
               Bad(document.history, id)
        /\ reset <= LastEnded(document.history) - k
        => document.failures >= k

Stored(document, stored) ==
    \A v \in InstallVersions :
        document.installed[v] # NoPackage => document.installed[v].digest \in stored

\* A document some process may find.
Healthy(document, stored, allowed, reset, launched) ==
    /\ document \in LibraryDocuments /\ HistoryOk(document.history)
    /\ Stored(document, stored)
    /\ document.grant.capabilities \subseteq allowed[document.grant.requests]
    /\ launched < NextLaunch(document.history)
    /\ FailuresCount(document, reset)
    /\ document.failures >= SafeModeThreshold => document.safe_mode

Shells ==
    [step : {"none", "saving", "open", "linked"}, document : LibraryDocuments,
     session : SUBSET Capabilities, launch : Nat, then : {"none", "open", "revoked", "launched"}]

\* What is on disk for a set of documents that may be found; an empty library
\* may have no file.
OnDisk(documents) ==
    {Document(d) : d \in documents} \cup {n \in {NoDocument} : EmptyLibrary \in documents}

LaunchPermitted ==
    LET history == shell.document.history
        record == history[Len(history)]
        requests == shell.document.installed[record.version].requests
    IN  /\ history # <<>> /\ record.id = shell.launch
        /\ requests \subseteq approved[requests] \cup shell.session

\* begin_launch refuses after three unsuccessful launches without a reset.
ResetInTime ==
    (/\ shell.launch > SafeModeThreshold
     /\ \A id \in shell.launch - SafeModeThreshold .. shell.launch - 1 :
            Bad(shell.document.history, id))
    => resetAt >= shell.launch - SafeModeThreshold

\* The inductive invariant: every document that may be found is healthy, and so
\* is the one in memory; only the process's own launch runs, it was permitted,
\* and it was not the fourth after three failures.
LibraryInv ==
    /\ library \in Slots(LibraryDocuments) /\ Sound(library, OnDisk(findable))
    /\ approved \in [SUBSET Capabilities -> SUBSET Capabilities]
    /\ resetAt \in Nat /\ begun \in Nat
    /\ \A d \in findable : Healthy(d, storedPackages, approved, resetAt, begun)
    /\ shell \in Shells
    /\ shell.step = "none" => shell.launch = 0 /\ shell.then = "none"
    /\ shell.step = "saving" <=> Replacing(library)
    /\ shell.step \in {"open", "linked"} => Clean(library) /\ shell.then = "none"
    /\ shell.step = "open" => findable = {shell.document}
    /\ shell.step = "saving" => shell.document \in findable /\ library.next = Document(shell.document)
    /\ shell.step # "none" =>
          /\ Healthy(shell.document, storedPackages, approved, resetAt, begun)
          /\ RunningIn(shell.document.history) \subseteq {shell.launch}
    /\ shell.then = "launched" => LaunchPermitted
    /\ ResetInTime

LEMMA SoundMore ==
    ASSUME NEW slot, NEW allowed, NEW more, allowed \subseteq more, Sound(slot, allowed)
    PROVE  Sound(slot, more)
  BY Zenon DEF Sound

LEMMA EmptyIsHealthy ==
    ASSUME NEW stored, NEW allowed \in [SUBSET Capabilities -> SUBSET Capabilities], NEW reset \in Nat
    PROVE  Healthy(EmptyLibrary, stored, allowed, reset, 0) /\ RunningIn(EmptyLibrary.history) = {}
  <1>1. /\ EmptyLibrary.history = <<>> /\ EmptyLibrary.failures = 0 /\ EmptyLibrary.grant.capabilities = {}
        /\ \A v \in InstallVersions : EmptyLibrary.installed[v] = NoPackage
    BY Zenon DEF EmptyLibrary
  <1>2. EmptyLibrary \in LibraryDocuments
    BY DEF EmptyLibrary, LibraryDocuments
  <1>3. HistoryOk(<<>>) /\ RunningIn(<<>>) = {} /\ NextLaunch(<<>>) = 1
    BY DEF HistoryOk, RunningIn, NextLaunch
  <1>4. LastEnded(<<>>) = 0
    BY <1>3 DEF LastEnded
  <1>5. \A id : ~Bad(<<>>, id)
    BY DEF Bad
  <1>6. FailuresCount(EmptyLibrary, reset)
    <2> SUFFICES ASSUME NEW k \in 1..SafeModeThreshold PROVE 0 \in 0 - k + 1 .. 0
      BY Zenon, <1>1, <1>4, <1>5 DEF FailuresCount
    <2> QED
      BY DEF SafeModeThreshold
  <1> QED
    BY <1>1, <1>2, <1>3, <1>6 DEF Healthy, Stored, SafeModeThreshold

\* What the next process finds, and the slot it goes on with.
LEMMA FoundIsAllowed ==
    ASSUME NEW slot \in Slots(LibraryDocuments), NEW documents \in SUBSET LibraryDocuments,
           Sound(slot, OnDisk(documents))
    PROVE  /\ Found(slot) \in documents
           /\ slot.step = "idle" => /\ RecoverOrReset(slot) \in Slots(LibraryDocuments)
                                    /\ Clean(RecoverOrReset(slot))
                                    /\ Sound(RecoverOrReset(slot), OnDisk({Found(slot)}))
  <1> DEFINE D == Documents(LibraryDocuments)
             after == RecoverOrReset(slot)
  <1>1. /\ slot.path \in D /\ slot.previous \in D /\ slot.next \in D
        /\ NoDocument \in D /\ NoDocument.kind = "none" /\ NoDocument # Unreadable /\ Unreadable.kind = "bad"
    BY Zenon, DocumentsAre DEF Slots
  <1>2. \A d \in D : /\ d.kind = "ok" <=> d \notin {NoDocument, Unreadable}
                     /\ d.kind = "ok" => d.value \in LibraryDocuments /\ d = Document(d.value)
    BY Zenon, DocumentKinds
  <1>3. ASSUME NEW d \in OnDisk(documents)
        PROVE  \/ d = NoDocument /\ EmptyLibrary \in documents
               \/ d.kind = "ok" /\ d.value \in documents
    <2>1. CASE \E v \in documents : d = Document(v)
      BY SMTT(60), <2>1 DEF Document
    <2> QED
      BY Zenon, <1>3, <2>1 DEF OnDisk
  <1>4. after = [path |-> IF slot.path.kind = "ok" THEN slot.path ELSE slot.previous,
                 previous |-> IF slot.path.kind = "ok" THEN slot.previous ELSE NoDocument,
                 step |-> slot.step, next |-> slot.next]
    <2>1. CASE slot.path.kind = "ok"
      <3>1. after = slot
        BY Zenon, <1>1, <1>2, <2>1 DEF RecoverOrReset
      <3> QED
        BY Zenon, <2>1, <3>1 DEF Slots
    <2>2. CASE slot.path.kind # "ok" /\ slot.previous.kind = "ok"
      <3>1. after = [slot EXCEPT !.path = slot.previous, !.previous = NoDocument]
        <4> DEFINE restored == [slot EXCEPT !.path = slot.previous, !.previous = NoDocument]
        <4>1. restored.path # Unreadable
          BY Zenon, <1>1, <1>2, <2>2 DEF Slots
        <4> QED
          BY Zenon, <2>2, <4>1 DEF RecoverOrReset
      <3> QED
        BY Zenon, <2>2, <3>1 DEF Slots
    <2>3. CASE slot.path.kind # "ok" /\ slot.previous.kind # "ok"
      <3>1. slot.previous = NoDocument /\ slot.path = NoDocument
        BY Zenon, <1>1, <1>2, <2>3 DEF Sound
      <3>2. [slot EXCEPT !.previous = NoDocument] = slot
        BY Zenon, <3>1 DEF Slots
      <3>3. after = slot
        BY Zenon, <1>1, <2>3, <3>1, <3>2 DEF RecoverOrReset
      <3> QED
        BY Zenon, <2>3, <3>1, <3>3 DEF Slots
    <2> QED
      BY Zenon, <2>1, <2>2, <2>3
  <1> HIDE DEF after
  <1>5. /\ after.path \in OnDisk(documents) /\ after.path \in D /\ after.previous \in D
        /\ after.step = slot.step /\ after.next = slot.next /\ after.path # Unreadable
        /\ after.path = NoDocument => after.previous = NoDocument
        /\ after.previous # Unreadable /\ after \in Slots(LibraryDocuments)
    <2>1. /\ after.path \in OnDisk(documents) /\ after.path # Unreadable /\ after.previous # Unreadable
          /\ after.path = NoDocument => after.previous = NoDocument
      BY Zenon, <1>1, <1>2, <1>4 DEF Sound
    <2>2. /\ after.path \in D /\ after.previous \in D /\ after.step = slot.step /\ after.next = slot.next
      BY Zenon, <1>1, <1>4
    <2>3. after \in Slots(LibraryDocuments)
      BY Zenon, <1>1, <1>4 DEF Slots
    <2> QED
      BY Zenon, <2>1, <2>2, <2>3
  <1>6. Found(slot) = IF after.path = NoDocument THEN EmptyLibrary ELSE after.path.value
    BY Zenon DEF Found, after
  <1>7. Found(slot) \in documents /\ after.path \in OnDisk({Found(slot)})
    <2>1. CASE after.path = NoDocument
      BY Zenon, <1>1, <1>3, <1>5, <1>6, <2>1 DEF OnDisk
    <2>2. CASE after.path # NoDocument
      <3>1. after.path.kind = "ok" /\ after.path.value \in documents
        BY Zenon, <1>3, <1>5, <2>2
      <3>2. after.path = Document(Found(slot))
        BY Zenon, <1>2, <1>5, <1>6, <2>2, <3>1
      <3> QED
        BY Zenon, <1>6, <2>2, <3>1, <3>2 DEF OnDisk
    <2> QED
      BY Zenon, <2>1, <2>2
  <1>8. slot.step = "idle" => Clean(after) /\ Sound(after, OnDisk({Found(slot)}))
    BY Zenon, <1>2, <1>5, <1>7 DEF Clean, Sound
  <1> QED
    BY Zenon, <1>5, <1>7, <1>8 DEF after

\* finish_launch after a failure, and recover_interrupted_launches: one more
\* failure is counted.
LEMMA FailureKeepsHealth ==
    ASSUME resetAt \in Nat, begun \in Nat, NEW document,
           Healthy(document, storedPackages, approved, resetAt, begun),
           NEW id \in RunningIn(document.history), NEW status \in {"failed", "terminated"},
           NEW after, after = CountFailure([document EXCEPT !.history = Ended(@, id, status)])
    PROVE  /\ Healthy(after, storedPackages, approved, resetAt, begun)
           /\ after.history = Ended(document.history, id, status)
           /\ RunningIn(after.history) = {}
  <1> DEFINE h == document.history
             e == Ended(h, id, status)
  <1>1. /\ document \in LibraryDocuments /\ HistoryOk(h) /\ document.failures \in Nat
    BY Zenon DEF Healthy, LibraryDocuments
  <1>2. /\ HistoryOk(e) /\ NextLaunch(e) = NextLaunch(h) /\ id = NextLaunch(h) - 1 /\ RunningIn(e) = {}
        /\ \A x : x # id => (Bad(e, x) <=> Bad(h, x))
    BY Zenon, <1>1, EndedKeeps
  <1>3. /\ after.history = e /\ after.failures = document.failures + 1
        /\ after.safe_mode = (document.failures + 1 >= SafeModeThreshold)
        /\ after.installed = document.installed /\ after.grant = document.grant
    BY Zenon, <1>1 DEF CountFailure, LibraryDocuments
  <1>4. after \in LibraryDocuments
    <2>1. e \in Seq(LaunchRecords)
      BY Zenon, <1>2 DEF HistoryOk
    <2>2. document.failures + 1 \in Nat /\ (document.failures + 1 >= SafeModeThreshold) \in BOOLEAN
      BY <1>1
    <2> QED
      BY Zenon, <1>1, <2>1, <2>2 DEF CountFailure, LibraryDocuments
  <1>5. NextLaunch(h) \in Nat
    BY Zenon, <1>1, NextLaunchIs
  <1>6. LastEnded(e) = NextLaunch(h) - 1 /\ LastEnded(h) = NextLaunch(h) - 2
    BY Zenon, <1>2 DEF LastEnded
  <1>7. FailuresCount(after, resetAt)
    <2> SUFFICES ASSUME NEW k \in 1..SafeModeThreshold,
                        \A x \in LastEnded(e) - k + 1 .. LastEnded(e) : Bad(e, x),
                        resetAt <= LastEnded(e) - k
                 PROVE  after.failures >= k
      BY Zenon, <1>3 DEF FailuresCount
    <2>1. CASE k = 1
      BY <1>1, <1>3, <2>1
    <2>2. CASE k # 1
      <3> DEFINE j == k - 1
      <3>1. j \in 1..SafeModeThreshold /\ resetAt <= LastEnded(h) - j
        BY <1>5, <1>6, <2>2 DEF SafeModeThreshold
      <3>2. \A x \in LastEnded(h) - j + 1 .. LastEnded(h) : x \in LastEnded(e) - k + 1 .. LastEnded(e) /\ x # id
        BY <1>2, <1>5, <1>6, <2>2 DEF SafeModeThreshold
      <3>3. \A x \in LastEnded(h) - j + 1 .. LastEnded(h) : Bad(h, x)
        BY Zenon, <1>2, <3>2
      <3>4. document.failures >= j
        BY Zenon, <3>1, <3>3 DEF Healthy, FailuresCount
      <3> QED
        BY <1>1, <1>3, <3>4 DEF SafeModeThreshold
    <2> QED
      BY Zenon, <2>1, <2>2
  <1> QED
    BY Zenon, <1>1, <1>2, <1>3, <1>4, <1>7 DEF Healthy, Stored

\* finish_launch after a success.
LEMMA SuccessKeepsHealth ==
    ASSUME resetAt \in Nat, begun \in Nat, NEW document,
           Healthy(document, storedPackages, approved, resetAt, begun), NEW id \in RunningIn(document.history),
           NEW after,
           after = [[document EXCEPT !.history = Ended(@, id, "succeeded")] EXCEPT !.failures = 0]
    PROVE  /\ Healthy(after, storedPackages, approved, resetAt, begun)
           /\ after.history = Ended(document.history, id, "succeeded")
           /\ RunningIn(after.history) = {}
  <1> DEFINE h == document.history
             e == Ended(h, id, "succeeded")
  <1>1. document \in LibraryDocuments /\ HistoryOk(h)
    BY Zenon DEF Healthy
  <1>2. /\ HistoryOk(e) /\ NextLaunch(e) = NextLaunch(h) /\ id = NextLaunch(h) - 1 /\ RunningIn(e) = {}
        /\ ~Bad(e, id)
    BY Zenon, <1>1, EndedKeeps
  <1>3. /\ after.history = e /\ after.failures = 0 /\ after.safe_mode = document.safe_mode
        /\ after.installed = document.installed /\ after.grant = document.grant
    BY Zenon, <1>1 DEF LibraryDocuments
  <1>4. after \in LibraryDocuments
    <2>1. e \in Seq(LaunchRecords)
      BY Zenon, <1>2 DEF HistoryOk
    <2> QED
      BY Zenon, <1>1, <2>1 DEF LibraryDocuments
  <1>5. LastEnded(e) = id /\ NextLaunch(h) \in Nat
    BY Zenon, <1>1, <1>2, NextLaunchIs DEF LastEnded
  <1>6. \A k \in 1..SafeModeThreshold : id \in id - k + 1 .. id
    BY <1>2, <1>5 DEF SafeModeThreshold
  <1>7. FailuresCount(after, resetAt)
    BY Zenon, <1>2, <1>3, <1>5, <1>6 DEF FailuresCount
  <1> QED
    BY <1>1, <1>2, <1>3, <1>4, <1>7, SMTT(30) DEF Healthy, Stored, SafeModeThreshold

\* The document a finished launch leaves.
AfterLaunch(document, id, status) ==
    LET ended == [document EXCEPT !.history = Ended(@, id, status)]
    IN  IF status = "succeeded" THEN [ended EXCEPT !.failures = 0] ELSE CountFailure(ended)

LEMMA EndKeepsHealth ==
    ASSUME resetAt \in Nat, begun \in Nat, NEW document,
           Healthy(document, storedPackages, approved, resetAt, begun),
           NEW id \in RunningIn(document.history), NEW status \in {"succeeded", "failed", "terminated"}
    PROVE  /\ Healthy(AfterLaunch(document, id, status), storedPackages, approved, resetAt, begun)
           /\ AfterLaunch(document, id, status).history = Ended(document.history, id, status)
           /\ RunningIn(AfterLaunch(document, id, status).history) = {}
  <1> DEFINE after == AfterLaunch(document, id, status)
  <1>1. CASE status = "succeeded"
    <2>1. after = [[document EXCEPT !.history = Ended(@, id, "succeeded")] EXCEPT !.failures = 0]
      BY Zenon, <1>1 DEF AfterLaunch
    <2> HIDE DEF after
    <2>2. /\ Healthy(after, storedPackages, approved, resetAt, begun)
          /\ after.history = Ended(document.history, id, "succeeded") /\ RunningIn(after.history) = {}
      BY Zenon, <2>1, SuccessKeepsHealth
    <2> QED
      BY Zenon, <1>1, <2>2 DEF after
  <1>2. CASE status # "succeeded"
    <2>1. after = CountFailure([document EXCEPT !.history = Ended(@, id, status)])
      BY Zenon, <1>2 DEF AfterLaunch
    <2>2. status \in {"failed", "terminated"}
      BY Zenon, <1>2
    <2> HIDE DEF after
    <2>3. /\ Healthy(after, storedPackages, approved, resetAt, begun)
          /\ after.history = Ended(document.history, id, status) /\ RunningIn(after.history) = {}
      BY Zenon, <2>1, <2>2, FailureKeepsHealth
    <2> QED
      BY Zenon, <2>3 DEF after
  <1> QED
    BY Zenon, <1>1, <1>2

\* Library::open.
LEMMA RecoveryKeepsHealth ==
    ASSUME resetAt \in Nat, begun \in Nat, NEW document,
           Healthy(document, storedPackages, approved, resetAt, begun)
    PROVE  /\ Healthy(RecoverInterrupted(document), storedPackages, approved, resetAt, begun)
           /\ RunningIn(RecoverInterrupted(document).history) = {}
  <1>1. CASE RunningIn(document.history) = {}
    BY Zenon, <1>1 DEF RecoverInterrupted
  <1>2. CASE RunningIn(document.history) # {}
    <2> DEFINE id == CHOOSE x \in RunningIn(document.history) : TRUE
    <2>1. id \in RunningIn(document.history)
      BY Zenon, <1>2
    <2>2. RecoverInterrupted(document) = CountFailure([document EXCEPT !.history = Ended(@, id, "terminated")])
      BY Zenon, <1>2 DEF RecoverInterrupted
    <2> HIDE DEF id
    <2>3. RecoverInterrupted(document) = AfterLaunch(document, id, "terminated")
      BY Zenon, <2>2 DEF AfterLaunch
    <2> QED
      BY Zenon, <2>1, <2>3, EndKeepsHealth
  <1> QED
    BY Zenon, <1>1, <1>2

\* begin_launch: the running record is appended.
LaunchRecord(document, v) == [id |-> NextLaunch(document.history), version |-> v, status |-> "running"]

WithLaunch(document, v) == [document EXCEPT !.history = Trim(Append(@, LaunchRecord(document, v)))]

LEMMA LaunchKeepsHealth ==
    ASSUME resetAt \in Nat, begun \in Nat, NEW document,
           Healthy(document, storedPackages, approved, resetAt, begun), RunningIn(document.history) = {},
           NEW v \in InstallVersions
    PROVE  /\ Healthy(WithLaunch(document, v), storedPackages, approved, resetAt, begun)
           /\ WithLaunch(document, v).history # <<>>
           /\ WithLaunch(document, v).history[Len(WithLaunch(document, v).history)] = LaunchRecord(document, v)
           /\ RunningIn(WithLaunch(document, v).history) = {NextLaunch(document.history)}
           /\ \A x : Bad(WithLaunch(document, v).history, x) => Bad(document.history, x)
           /\ WithLaunch(document, v).installed = document.installed
  <1> DEFINE after == WithLaunch(document, v)
             record == LaunchRecord(document, v)
  <1>0. /\ record = [id |-> NextLaunch(document.history), version |-> v, status |-> "running"]
        /\ after = [document EXCEPT !.history = Trim(Append(@, record))]
    BY Zenon DEF WithLaunch, LaunchRecord
  <1> HIDE DEF after, record
  <1> DEFINE h == document.history
             t == Trim(Append(h, record))
  <1>1. document \in LibraryDocuments /\ HistoryOk(h)
    BY Zenon DEF Healthy
  <1>2. /\ HistoryOk(t) /\ t # <<>> /\ t[Len(t)] = record /\ RunningIn(t) = {NextLaunch(h)}
        /\ \A x : Bad(t, x) => Bad(h, x)
    BY <1>0, <1>1, BegunKeeps
  <1>3. /\ after.history = t /\ after.failures = document.failures /\ after.safe_mode = document.safe_mode
        /\ after.installed = document.installed /\ after.grant = document.grant
    BY Zenon, <1>0, <1>1 DEF LibraryDocuments
  <1>4. after \in LibraryDocuments
    <2>1. t \in Seq(LaunchRecords)
      BY Zenon, <1>2 DEF HistoryOk
    <2> HIDE DEF t
    <2> QED
      BY Zenon, <1>0, <1>1, <2>1 DEF LibraryDocuments, t
  <1> HIDE DEF t
  <1>5. NextLaunch(t) = NextLaunch(h) + 1 /\ NextLaunch(h) \in Nat /\ record.id = NextLaunch(h)
    BY <1>0, <1>1, <1>2, NextLaunchIs, SMTT(30)
  <1>6. LastEnded(t) = LastEnded(h)
    BY <1>2, <1>5 DEF LastEnded
  <1>7. FailuresCount(after, resetAt)
    <2> SUFFICES ASSUME NEW k \in 1..SafeModeThreshold,
                        \A x \in LastEnded(h) - k + 1 .. LastEnded(h) : Bad(t, x),
                        resetAt <= LastEnded(h) - k
                 PROVE  document.failures >= k
      BY Zenon, <1>3, <1>6 DEF FailuresCount
    <2>1. \A x \in LastEnded(h) - k + 1 .. LastEnded(h) : Bad(h, x)
      BY Zenon, <1>2
    <2> QED
      BY Zenon, <2>1 DEF Healthy, FailuresCount
  <1>8. begun < NextLaunch(t)
    BY SMTT(60), <1>5 DEF Healthy
  <1> QED
    BY Zenon, <1>1, <1>2, <1>3, <1>4, <1>5, <1>7, <1>8 DEF Healthy, Stored, after, record

\* A save starts: from the slot that was recovered, or the one at hand.
LEMMA SavingKeepsInv ==
    ASSUME NEW slot \in Slots(LibraryDocuments), NEW documents, Clean(slot), Sound(slot, OnDisk(documents)),
           NEW document, library' = StartReplace(slot, document), findable' = documents \cup {document},
           shell' \in Shells, shell'.step = "saving", shell'.document = document,
           approved' \in [SUBSET Capabilities -> SUBSET Capabilities], resetAt' \in Nat, begun' \in Nat,
           \A d \in documents \cup {document} : Healthy(d, storedPackages', approved', resetAt', begun'),
           RunningIn(document.history) \subseteq {shell'.launch},
           shell'.then = "launched" => LaunchPermitted', ResetInTime'
    PROVE  LibraryInv'
  <1>1. document \in LibraryDocuments
    BY Zenon DEF Healthy
  <1>2. /\ library' \in Slots(LibraryDocuments) /\ Sound(library', OnDisk(documents) \cup {Document(document)})
        /\ library'.step = "staged" /\ library'.next = Document(document)
    BY <1>1, StartKeepsSound
  <1>3. OnDisk(documents) \cup {Document(document)} \subseteq OnDisk(findable')
    BY Zenon DEF OnDisk
  <1>4. Sound(library', OnDisk(findable'))
    BY Zenon, <1>2, <1>3, SoundMore
  <1> QED
    BY Zenon, <1>2, <1>4 DEF LibraryInv, Replacing

\* The newest package is one of the packages.
LEMMA NewestRequests ==
    ASSUME NEW document \in LibraryDocuments, HasPackage(document)
    PROVE  Newest(document).requests \in SUBSET Capabilities
  <1> DEFINE present == {v \in InstallVersions : document.installed[v] # NoPackage}
  <1>1. present \in (SUBSET InstallVersions) \ {{}}
    BY Zenon DEF HasPackage
  <1>2. \E n \in present : \A v \in present : v <= n
    BY Zenon, <1>1, InstallableAssumption
  <1>3. \A v \in present : v \in Nat
    BY Zenon, InstallableAssumption DEF InstallVersions
  <1>4. \E n \in present : \A v \in present : n >= v
    BY Zenon, <1>2, <1>3
  <1>5. Max(present) \in present
    BY Zenon, <1>4 DEF Max
  <1>6. document.installed[Max(present)] \in Installable
    BY Zenon, <1>5 DEF LibraryDocuments
  <1> QED
    BY Zenon, <1>6, InstallableAssumption DEF Newest

LEMMA LibraryInvInit == LibraryInit => LibraryInv
  <1> SUFFICES ASSUME LibraryInit PROVE LibraryInv
    BY Zenon
  <1>1. /\ NoDocument \in Documents(LibraryDocuments) /\ NoDocument.kind = "none" /\ NoDocument # Unreadable
    BY Zenon, DocumentsAre
  <1>2. NoDocument \in OnDisk(findable)
    BY Zenon DEF LibraryInit, OnDisk
  <1>3. library \in Slots(LibraryDocuments) /\ Sound(library, OnDisk(findable)) /\ ~Replacing(library)
    BY Zenon, <1>1, <1>2 DEF LibraryInit, EmptySlot, Slots, Sound, Replacing
  <1>4. approved \in [SUBSET Capabilities -> SUBSET Capabilities] /\ resetAt = 0 /\ begun = 0
        /\ findable = {EmptyLibrary}
    BY Zenon DEF LibraryInit
  <1>5. Healthy(EmptyLibrary, storedPackages, approved, 0, 0)
    BY Zenon, <1>4, EmptyIsHealthy
  <1>6. /\ shell.step = "none" /\ shell.launch = 0 /\ shell.then = "none" /\ shell \in Shells
    <2>1. EmptyLibrary \in LibraryDocuments
      BY Zenon, <1>5 DEF Healthy
    <2> QED
      BY Zenon, <2>1 DEF LibraryInit, NoShell, Shells
  <1>7. ResetInTime
    BY <1>6 DEF ResetInTime, SafeModeThreshold
  <1> QED
    BY Zenon, <1>3, <1>4, <1>5, <1>6, <1>7 DEF LibraryInv

LEMMA LibraryStepKeeps ==
    ASSUME LibraryInv, [\E n \in Nat : LibraryNext(Installable, n)]_libraryVars
    PROVE  LibraryInv'
  <1>0. /\ library \in Slots(LibraryDocuments) /\ Sound(library, OnDisk(findable))
        /\ findable \subseteq LibraryDocuments /\ shell \in Shells
        /\ approved \in [SUBSET Capabilities -> SUBSET Capabilities] /\ resetAt \in Nat /\ begun \in Nat
    BY Zenon DEF LibraryInv, Healthy
  <1>n. /\ NoShell \in Shells /\ NoShell.step = "none" /\ NoShell.launch = 0 /\ NoShell.then = "none"
        /\ NoShell.session = {}
    BY Zenon, EmptyIsHealthy, <1>0 DEF NoShell, Shells, Healthy
  <1>1. CASE OpenLibrary
    <2> DEFINE slot == RecoverOrReset(library)
               found == Found(library)
               document == RecoverInterrupted(found)
    <2>1. /\ shell = NoShell /\ library' = StartReplace(slot, document) /\ findable' = {found} \cup {document}
          /\ shell' = [NoShell EXCEPT !.step = "saving", !.document = document, !.then = "open"]
          /\ UNCHANGED <<storedPackages, approved, resetAt, begun>>
      BY Zenon, <1>1 DEF OpenLibrary
    <2>2. library.step = "idle"
      BY Zenon, <1>n, <2>1 DEF LibraryInv, Replacing
    <2>3. found \in findable /\ slot \in Slots(LibraryDocuments) /\ Clean(slot) /\ Sound(slot, OnDisk({found}))
      BY Zenon, <1>0, <2>2, FoundIsAllowed
    <2>4. Healthy(found, storedPackages, approved, resetAt, begun)
      BY Zenon, <2>3 DEF LibraryInv
    <2> HIDE DEF found
    <2>5. Healthy(document, storedPackages, approved, resetAt, begun) /\ RunningIn(document.history) = {}
      BY Zenon, <1>0, <2>4, RecoveryKeepsHealth
    <2> HIDE DEF document, slot
    <2>6. /\ shell' \in Shells /\ shell'.step = "saving" /\ shell'.document = document
          /\ shell'.then = "open" /\ shell'.launch = 0
      BY Zenon, <1>n, <2>1, <2>5 DEF Shells, Healthy
    <2>7. ResetInTime'
      BY <2>6 DEF ResetInTime, SafeModeThreshold
    <2> QED
      BY <1>0, <2>1, <2>3, <2>4, <2>5, <2>6, <2>7, SavingKeepsInv
  <1>2. CASE LibrarySaveStep
    <2>1. /\ shell.step = "saving" /\ library' = ReplaceStep(library) /\ Replacing(library)
          /\ UNCHANGED <<storedPackages, resetAt>>
      BY Zenon, <1>2 DEF LibrarySaveStep, LibraryInv
    <2>2. /\ library' \in Slots(LibraryDocuments)
          /\ Replacing(library') => Sound(library', OnDisk(findable)) /\ library'.next = library.next
          /\ ~Replacing(library') => Sound(library', {library.next}) /\ Clean(library')
      BY Zenon, <1>0, <2>1, StepKeepsSound
    <2>3. CASE Replacing(library')
      <3>1. UNCHANGED <<shell, findable, begun, approved>>
        BY Zenon, <1>2, <2>3 DEF LibrarySaveStep
      <3> QED
        BY Zenon, <2>1, <2>2, <2>3, <3>1 DEF LibraryInv, LaunchPermitted, ResetInTime
    <2>4. CASE ~Replacing(library')
      <3>1. /\ findable' = {shell.document} /\ shell' = [shell EXCEPT !.step = "open", !.then = "none"]
            /\ begun' = IF shell.then = "launched" THEN shell.launch ELSE begun
        BY Zenon, <1>2, <2>4 DEF LibrarySaveStep
      <3>2. /\ shell' \in Shells /\ shell'.step = "open" /\ shell'.then = "none"
            /\ shell'.document = shell.document /\ shell'.launch = shell.launch
        BY ZenonT(60), <1>0, <3>1 DEF Shells
      <3>3. library.next = Document(shell.document)
        BY Zenon, <2>1 DEF LibraryInv
      <3>4. Sound(library', OnDisk(findable'))
        <4>1. {library.next} \subseteq OnDisk(findable')
          BY Zenon, <3>1, <3>3 DEF OnDisk
        <4> QED
          BY Zenon, <2>2, <2>4, <4>1, SoundMore
      <3>5. /\ approved' \in [SUBSET Capabilities -> SUBSET Capabilities]
            /\ shell.document.grant.capabilities \subseteq approved'[shell.document.grant.requests]
        <4>1. /\ shell.document.grant.requests \in SUBSET Capabilities
              /\ shell.document.grant.capabilities \in SUBSET Capabilities
              /\ shell.document.grant.capabilities \subseteq approved[shell.document.grant.requests]
          BY Zenon, <2>1 DEF LibraryInv, Healthy, LibraryDocuments
        <4>2. CASE shell.then = "revoked"
          <5>1. approved' = [r \in SUBSET Capabilities |->
                               IF r = shell.document.grant.requests
                               THEN approved[r] \cap shell.document.grant.capabilities ELSE {}]
            BY Zenon, <1>2, <2>4, <4>2 DEF LibrarySaveStep
          <5> QED
            BY Zenon, <1>0, <4>1, <5>1
        <4>3. CASE shell.then # "revoked"
          <5>1. approved' = approved
            BY Zenon, <1>2, <4>3 DEF LibrarySaveStep
          <5> QED
            BY Zenon, <1>0, <4>1, <5>1
        <4> QED
          BY Zenon, <4>2, <4>3
      <3>6. begun' \in Nat /\ begun' < NextLaunch(shell.document.history)
        <4>1. CASE shell.then = "launched"
          <5>1. shell.document.history # <<>> /\ shell.document.history[Len(shell.document.history)].id = shell.launch
            BY Zenon, <4>1 DEF LibraryInv, LaunchPermitted
          <5>2. shell.launch \in Nat
            BY Zenon, <1>0 DEF Shells
          <5> QED
            BY SMTT(60), <3>1, <4>1, <5>1, <5>2 DEF NextLaunch
        <4>2. CASE shell.then # "launched"
          BY Zenon, <1>0, <2>1, <3>1, <4>2 DEF LibraryInv, Healthy
        <4> QED
          BY Zenon, <4>1, <4>2
      <3>7. Healthy(shell.document, storedPackages', approved', resetAt', begun')
        BY Zenon, <2>1, <3>5, <3>6 DEF LibraryInv, Healthy
      <3>8. ResetInTime' /\ RunningIn(shell.document.history) \subseteq {shell.launch}
        BY Zenon, <2>1, <3>2 DEF LibraryInv, ResetInTime
      <3> QED
        BY <1>0, <2>1, <2>2, <2>4, <3>1, <3>2, <3>4, <3>5, <3>6, <3>7, <3>8, SMTT(30) DEF LibraryInv
    <2> QED
      BY Zenon, <2>3, <2>4
  <1>3. ASSUME NEW p \in Installable, InstallPackage(p) PROVE LibraryInv'
    <2> DEFINE document == [shell.document EXCEPT !.installed[p.version] = p]
    <2>1. /\ shell.step = "open" /\ storedPackages' = storedPackages \cup {p.digest}
          /\ shell' = [shell EXCEPT !.step = "linked", !.document.installed[p.version] = p]
          /\ UNCHANGED <<library, findable, approved, resetAt, begun>>
      BY Zenon, <1>3 DEF InstallPackage
    <2>2. p.version \in InstallVersions
      BY Zenon DEF InstallVersions
    <2>3. shell.document \in LibraryDocuments /\ Healthy(shell.document, storedPackages, approved, resetAt, begun)
      BY Zenon, <1>0, <2>1 DEF LibraryInv, Shells
    <2>4. /\ document \in LibraryDocuments /\ document.history = shell.document.history
          /\ document.grant = shell.document.grant /\ document.failures = shell.document.failures
          /\ document.safe_mode = shell.document.safe_mode
          /\ document.installed = [shell.document.installed EXCEPT ![p.version] = p]
      BY Zenon, <2>2, <2>3 DEF LibraryDocuments
    <2>5. /\ shell' \in Shells /\ shell'.step = "linked" /\ shell'.document = document
          /\ shell'.launch = shell.launch /\ shell'.then = shell.then
      BY Zenon, <1>0, <2>1, <2>4 DEF Shells
    <2>6. Stored(document, storedPackages')
      BY Zenon, <2>1, <2>2, <2>3, <2>4 DEF Healthy, Stored, LibraryDocuments
    <2>7. Healthy(document, storedPackages', approved, resetAt, begun)
      BY Zenon, <2>3, <2>4, <2>6 DEF Healthy, FailuresCount
    <2>8. \A d \in findable : Healthy(d, storedPackages', approved, resetAt, begun)
      BY Zenon, <2>1 DEF LibraryInv, Healthy, Stored
    <2>9. ResetInTime'
      BY Zenon, <2>1, <2>4, <2>5 DEF LibraryInv, ResetInTime
    <2> HIDE DEF document
    <2> QED
      BY Zenon, <1>0, <2>1, <2>4, <2>5, <2>7, <2>8, <2>9 DEF LibraryInv
  <1>4. CASE RecordPackage
    <2>1. /\ shell.step = "linked" /\ library' = StartReplace(library, shell.document)
          /\ findable' = findable \cup {shell.document}
          /\ shell' = [shell EXCEPT !.step = "saving", !.document = shell.document, !.then = "open"]
          /\ UNCHANGED <<storedPackages, approved, resetAt, begun>>
      BY Zenon, <1>4 DEF RecordPackage, Save
    <2>2. /\ shell' \in Shells /\ shell'.step = "saving" /\ shell'.document = shell.document
          /\ shell'.launch = shell.launch /\ shell'.then = "open"
      BY Zenon, <1>0, <2>1 DEF Shells
    <2>3. ResetInTime' /\ Clean(library) /\ RunningIn(shell.document.history) \subseteq {shell.launch}
      BY Zenon, <2>1, <2>2 DEF LibraryInv, ResetInTime
    <2>4. \A d \in findable \cup {shell.document} : Healthy(d, storedPackages', approved', resetAt', begun')
      BY Zenon, <2>1 DEF LibraryInv
    <2> QED
      BY Zenon, <1>0, <2>1, <2>2, <2>3, <2>4, SavingKeepsInv
  <1>5. ASSUME NEW c \in SUBSET Capabilities, GrantPersistent(c) PROVE LibraryInv'
    <2> DEFINE requests == Newest(shell.document).requests
               old == shell.document.grant
               document == [shell.document EXCEPT !.grant = Granted(@, requests, c)]
    <2>1. /\ shell.step = "open" /\ HasPackage(shell.document) /\ library' = StartReplace(library, document)
          /\ findable' = findable \cup {document}
          /\ shell' = [shell EXCEPT !.step = "saving", !.document = document, !.then = "open"]
          /\ approved' = [approved EXCEPT ![requests] = @ \cup c]
          /\ UNCHANGED <<storedPackages, resetAt, begun>>
      BY Zenon, <1>5 DEF GrantPersistent, Save
    <2>2. shell.document \in LibraryDocuments /\ Healthy(shell.document, storedPackages, approved, resetAt, begun)
      BY Zenon, <1>0, <2>1 DEF LibraryInv, Shells
    <2>3. requests \in SUBSET Capabilities
      BY Zenon, <2>1, <2>2, NewestRequests
    <2> HIDE DEF requests
    <2>4. /\ old.requests \in SUBSET Capabilities /\ old.capabilities \in SUBSET Capabilities
          /\ old.capabilities \subseteq approved[old.requests]
      BY Zenon, <2>2 DEF LibraryDocuments, Healthy
    <2>5. /\ Granted(old, requests, c).requests = requests
          /\ Granted(old, requests, c).capabilities
               = c \cup (IF old.requests = requests THEN old.capabilities ELSE {})
          /\ Granted(old, requests, c) \in [requests : SUBSET Capabilities, capabilities : SUBSET Capabilities]
      BY Zenon, <2>3, <2>4 DEF Granted
    <2>6. /\ document \in LibraryDocuments /\ document.history = shell.document.history
          /\ document.grant = Granted(old, requests, c) /\ document.failures = shell.document.failures
          /\ document.safe_mode = shell.document.safe_mode
          /\ document.installed = shell.document.installed
      BY Zenon, <2>2, <2>5 DEF LibraryDocuments
    <2>7. /\ approved' \in [SUBSET Capabilities -> SUBSET Capabilities]
          /\ approved'[requests] = approved[requests] \cup c
          /\ \A r \in SUBSET Capabilities : approved[r] \subseteq approved'[r]
      BY Zenon, <1>0, <2>1, <2>3
    <2>8. document.grant.capabilities \subseteq approved'[document.grant.requests]
      BY Zenon, <2>4, <2>5, <2>6, <2>7
    <2>9. Healthy(document, storedPackages, approved', resetAt, begun)
      BY Zenon, <2>2, <2>6, <2>8 DEF Healthy, Stored, FailuresCount
    <2>10. Healthy(shell.document, storedPackages, approved', resetAt, begun)
      BY Zenon, <2>2, <2>4, <2>7 DEF Healthy
    <2>11. \A d \in findable \cup {document} : Healthy(d, storedPackages', approved', resetAt', begun')
      BY Zenon, <2>1, <2>9, <2>10 DEF LibraryInv
    <2> HIDE DEF document
    <2>12. /\ shell' \in Shells /\ shell'.step = "saving" /\ shell'.document = document
           /\ shell'.launch = shell.launch /\ shell'.then = "open"
      BY Zenon, <1>0, <2>1, <2>6 DEF Shells
    <2>13. ResetInTime' /\ Clean(library) /\ RunningIn(document.history) \subseteq {shell.launch}
      BY Zenon, <2>1, <2>6, <2>12 DEF LibraryInv, ResetInTime
    <2> QED
      BY <1>0, <2>1, <2>7, <2>11, <2>12, <2>13, SavingKeepsInv
  <1>6. ASSUME NEW c \in SUBSET Capabilities, GrantSession(c) PROVE LibraryInv'
    <2>1. /\ shell.step = "open" /\ shell' = [shell EXCEPT !.session = @ \cup c]
          /\ UNCHANGED <<library, storedPackages, findable, approved, resetAt, begun>>
      BY Zenon, <1>6 DEF GrantSession
    <2>2. /\ shell' \in Shells /\ shell'.step = "open" /\ shell'.document = shell.document
          /\ shell'.launch = shell.launch /\ shell'.then = shell.then
      BY Zenon, <1>0, <2>1 DEF Shells
    <2>3. ResetInTime'
      BY Zenon, <2>1, <2>2 DEF LibraryInv, ResetInTime
    <2> QED
      BY Zenon, <2>1, <2>2, <2>3 DEF LibraryInv
  <1>7. ASSUME NEW c \in SUBSET Capabilities, Revoke(c) PROVE LibraryInv'
    <2> DEFINE left == [shell.document.grant EXCEPT !.capabilities = @ \ c]
               document == [shell.document EXCEPT !.grant = left]
    <2>1. /\ shell.step = "open" /\ library' = StartReplace(library, document)
          /\ findable' = findable \cup {document}
          /\ shell' = [shell EXCEPT !.step = "saving", !.document = document, !.then = "revoked",
                                    !.session = @ \ c]
          /\ UNCHANGED <<storedPackages, approved, resetAt, begun>>
      BY Zenon, <1>7 DEF Revoke
    <2>2. shell.document \in LibraryDocuments /\ Healthy(shell.document, storedPackages, approved, resetAt, begun)
      BY Zenon, <1>0, <2>1 DEF LibraryInv, Shells
    <2>3. /\ left \in [requests : SUBSET Capabilities, capabilities : SUBSET Capabilities]
          /\ left.requests = shell.document.grant.requests
          /\ left.capabilities \subseteq shell.document.grant.capabilities
      BY Zenon, <2>2 DEF LibraryDocuments
    <2> HIDE DEF left
    <2>4. /\ document \in LibraryDocuments /\ document.history = shell.document.history
          /\ document.grant = left /\ document.failures = shell.document.failures
          /\ document.safe_mode = shell.document.safe_mode
          /\ document.installed = shell.document.installed
      BY Zenon, <2>2, <2>3 DEF LibraryDocuments
    <2>5. Healthy(document, storedPackages, approved, resetAt, begun)
      BY Zenon, <2>2, <2>3, <2>4 DEF Healthy, Stored, FailuresCount
    <2>6. \A d \in findable \cup {document} : Healthy(d, storedPackages', approved', resetAt', begun')
      BY Zenon, <2>1, <2>5 DEF LibraryInv
    <2> HIDE DEF document
    <2>7. /\ shell' \in Shells /\ shell'.step = "saving" /\ shell'.document = document
          /\ shell'.launch = shell.launch /\ shell'.then = "revoked"
      BY Zenon, <1>0, <2>1, <2>4 DEF Shells
    <2>8. ResetInTime' /\ Clean(library) /\ RunningIn(document.history) \subseteq {shell.launch}
      BY Zenon, <2>1, <2>4, <2>7 DEF LibraryInv, ResetInTime
    <2> QED
      BY Zenon, <1>0, <2>1, <2>6, <2>7, <2>8, SavingKeepsInv
  <1>8. ASSUME NEW v \in InstallVersions, NEW launches, BeginLaunch(v, launches) PROVE LibraryInv'
    <2> DEFINE old == shell.document
               package == old.installed[v]
               id == NextLaunch(old.history)
               record == [id |-> id, version |-> v, status |-> "running"]
               document == [old EXCEPT !.history = Trim(Append(@, record))]
    <2>1. /\ shell.step = "open" /\ shell.launch = 0 /\ ~old.safe_mode
          /\ Preflight(old, shell.session, package) = package.requests
          /\ shell' = [shell EXCEPT !.step = "saving", !.document = document,
                                    !.then = "launched", !.launch = id]
          /\ library' = StartReplace(library, document) /\ findable' = findable \cup {document}
          /\ UNCHANGED <<storedPackages, approved, resetAt, begun>>
      BY Zenon, <1>8 DEF BeginLaunch
    <2>2. old \in LibraryDocuments /\ Healthy(old, storedPackages, approved, resetAt, begun)
      BY Zenon, <1>0, <2>1 DEF LibraryInv, Shells
    <2>3. HistoryOk(old.history) /\ id \in Nat \ {0}
      BY Zenon, <2>2, NextLaunchIs DEF Healthy
    <2>4. RunningIn(old.history) = {}
      <3>1. 0 \notin RunningIn(old.history)
        BY Zenon, <2>3, NextLaunchIs DEF RunningIn
      <3>2. RunningIn(old.history) \subseteq {0}
        BY Zenon, <2>1 DEF LibraryInv
      <3> QED
        BY Zenon, <3>1, <3>2
    <2> HIDE DEF document, record
    <2>5. /\ Healthy(document, storedPackages, approved, resetAt, begun)
          /\ document.history # <<>> /\ document.history[Len(document.history)] = record
          /\ RunningIn(document.history) = {id}
          /\ \A x : Bad(document.history, x) => Bad(old.history, x)
          /\ document.installed = old.installed
      <3>1. record = LaunchRecord(old, v) /\ document = WithLaunch(old, v)
        BY Zenon DEF document, record, LaunchRecord, WithLaunch
      <3> QED
        BY Zenon, <1>0, <2>2, <2>4, <3>1, LaunchKeepsHealth
    <2>6. record.id = id /\ record.version = v
      BY Zenon DEF record
    <2>7. document \in LibraryDocuments
      BY Zenon, <2>5 DEF Healthy
    <2> HIDE DEF id
    <2>8. /\ shell' \in Shells /\ shell'.step = "saving" /\ shell'.document = document
          /\ shell'.launch = id /\ shell'.then = "launched" /\ shell'.session = shell.session
      BY Zenon, <1>0, <2>1, <2>3, <2>7 DEF Shells
    <2>9. LaunchPermitted'
      <3>1. package.requests \subseteq approved[package.requests] \cup shell.session
        BY Zenon, <2>1, <2>2 DEF Preflight, Healthy
      <3> QED
        BY Zenon, <2>1, <2>5, <2>6, <2>8, <3>1 DEF LaunchPermitted
    <2>10. ResetInTime'
      <3> SUFFICES ASSUME id > SafeModeThreshold,
                          \A x \in id - SafeModeThreshold .. id - 1 : Bad(old.history, x),
                          resetAt < id - SafeModeThreshold
                   PROVE  FALSE
        BY <1>0, <2>1, <2>3, <2>5, <2>8 DEF ResetInTime, SafeModeThreshold
      <3>1. LastEnded(old.history) = id - 1
        BY Zenon, <2>4 DEF LastEnded, id
      <3>2. resetAt <= LastEnded(old.history) - SafeModeThreshold
        BY <1>0, <2>3, <3>1 DEF SafeModeThreshold
      <3>3. LastEnded(old.history) - SafeModeThreshold + 1 = id - SafeModeThreshold
        BY <2>3, <3>1 DEF SafeModeThreshold
      <3>4. SafeModeThreshold \in 1..SafeModeThreshold
        BY DEF SafeModeThreshold
      <3>5. old.failures >= SafeModeThreshold
        BY Zenon, <2>2, <3>1, <3>2, <3>3, <3>4 DEF Healthy, FailuresCount
      <3> QED
        BY Zenon, <2>1, <2>2, <3>5 DEF Healthy
    <2>11. \A d \in findable \cup {document} : Healthy(d, storedPackages', approved', resetAt', begun')
      BY Zenon, <2>1, <2>5 DEF LibraryInv
    <2>12. Clean(library) /\ RunningIn(document.history) \subseteq {shell'.launch}
      BY Zenon, <2>1, <2>5, <2>6, <2>8 DEF LibraryInv
    <2> QED
      BY Zenon, <1>0, <2>1, <2>8, <2>9, <2>10, <2>11, <2>12, SavingKeepsInv
  <1>9. ASSUME NEW s \in {"succeeded", "failed"}, FinishLaunch(s) PROVE LibraryInv'
    <2> DEFINE old == shell.document
               ended == [old EXCEPT !.history = Ended(@, shell.launch, s)]
               document == IF s = "succeeded" THEN [ended EXCEPT !.failures = 0] ELSE CountFailure(ended)
    <2>1. /\ shell.step = "open" /\ shell.launch \in RunningIn(old.history)
          /\ library' = StartReplace(library, document) /\ findable' = findable \cup {document}
          /\ shell' = [shell EXCEPT !.step = "saving", !.document = document, !.then = "open"]
          /\ UNCHANGED <<storedPackages, approved, resetAt, begun>>
      BY Zenon, <1>9 DEF FinishLaunch, Save
    <2>2. Healthy(old, storedPackages, approved, resetAt, begun) /\ HistoryOk(old.history)
      BY Zenon, <2>1 DEF LibraryInv, Healthy
    <2>3. /\ Healthy(document, storedPackages, approved, resetAt, begun)
          /\ document.history = Ended(old.history, shell.launch, s) /\ RunningIn(document.history) = {}
      <3>1. document = AfterLaunch(old, shell.launch, s)
        BY Zenon DEF AfterLaunch
      <3>2. s \in {"succeeded", "failed", "terminated"}
        BY Zenon
      <3> HIDE DEF document
      <3> QED
        BY Zenon, <1>0, <2>1, <2>2, <3>1, <3>2, EndKeepsHealth
    <2> HIDE DEF document
    <2>4. /\ shell' \in Shells /\ shell'.step = "saving" /\ shell'.document = document
          /\ shell'.launch = shell.launch /\ shell'.then = "open" /\ shell.launch \in Nat
      BY Zenon, <1>0, <2>1, <2>3 DEF Shells, Healthy
    <2>5. \A x : x # shell.launch => (Bad(document.history, x) <=> Bad(old.history, x))
      BY <2>1, <2>2, <2>3, EndedKeeps
    <2>6. \A x \in shell.launch - SafeModeThreshold .. shell.launch - 1 : x # shell.launch
      BY <2>4 DEF SafeModeThreshold
    <2>7. ResetInTime'
      BY Zenon, <2>1, <2>4, <2>5, <2>6 DEF LibraryInv, ResetInTime
    <2>8. \A d \in findable \cup {document} : Healthy(d, storedPackages', approved', resetAt', begun')
      BY Zenon, <2>1, <2>3 DEF LibraryInv
    <2>9. Clean(library)
      BY Zenon, <2>1 DEF LibraryInv
    <2> QED
      BY Zenon, <1>0, <2>1, <2>3, <2>4, <2>7, <2>8, <2>9, SavingKeepsInv
  <1>10. CASE ResetSafeMode
    <2> DEFINE old == shell.document
               document == [old EXCEPT !.failures = 0, !.safe_mode = FALSE]
    <2>1. /\ shell.step = "open" /\ shell.launch = 0
          /\ library' = StartReplace(library, document) /\ findable' = findable \cup {document}
          /\ shell' = [shell EXCEPT !.step = "saving", !.document = document, !.then = "open"]
          /\ resetAt' = NextLaunch(old.history) - 1
          /\ UNCHANGED <<storedPackages, approved, begun>>
      BY Zenon, <1>10 DEF ResetSafeMode, Save
    <2>2. /\ old \in LibraryDocuments /\ Healthy(old, storedPackages, approved, resetAt, begun)
          /\ HistoryOk(old.history)
      BY Zenon, <1>0, <2>1 DEF LibraryInv, Shells, Healthy
    <2>3. RunningIn(old.history) = {} /\ NextLaunch(old.history) \in Nat \ {0}
      <3>1. 0 \notin RunningIn(old.history)
        BY Zenon, <2>2, NextLaunchIs DEF RunningIn
      <3>2. RunningIn(old.history) \subseteq {0}
        BY Zenon, <2>1 DEF LibraryInv
      <3> QED
        BY Zenon, <2>2, <3>1, <3>2, NextLaunchIs
    <2>4. LastEnded(old.history) = resetAt' /\ resetAt' \in Nat
      BY <2>1, <2>3 DEF LastEnded
    <2>5. \A k \in 1..SafeModeThreshold : ~(resetAt' <= LastEnded(old.history) - k)
      <3>1. \A n \in Nat : \A k \in 1..3 : ~(n <= n - k)
        BY SMTT(60)
      <3> QED
        BY Zenon, <2>4, <3>1 DEF SafeModeThreshold
    <2>6. /\ document \in LibraryDocuments /\ document.history = old.history
          /\ document.grant = old.grant /\ document.failures = 0 /\ document.installed = old.installed
      BY Zenon, <2>2 DEF LibraryDocuments
    <2> HIDE DEF document
    <2>7. FailuresCount(old, resetAt') /\ FailuresCount(document, resetAt')
      BY Zenon, <2>5, <2>6 DEF FailuresCount
    <2>8. Healthy(old, storedPackages, approved, resetAt', begun)
      BY ZenonT(40), <2>2, <2>7 DEF Healthy
    <2>9. Healthy(document, storedPackages, approved, resetAt', begun)
      BY <2>2, <2>6, <2>7 DEF Healthy, Stored, SafeModeThreshold
    <2>10. \A d \in findable \cup {document} : Healthy(d, storedPackages', approved', resetAt', begun')
      BY Zenon, <2>1, <2>8, <2>9 DEF LibraryInv
    <2>11. /\ shell' \in Shells /\ shell'.step = "saving" /\ shell'.document = document
           /\ shell'.launch = 0 /\ shell'.then = "open"
      BY Zenon, <1>0, <2>1, <2>6 DEF Shells
    <2>12. ResetInTime' /\ Clean(library) /\ RunningIn(document.history) \subseteq {0}
      BY SMTT(60), <2>1, <2>3, <2>6, <2>11 DEF LibraryInv, ResetInTime, SafeModeThreshold
    <2> QED
      BY Zenon, <1>0, <2>1, <2>4, <2>10, <2>11, <2>12, SavingKeepsInv
  <1>11. CASE ShellEnds
    <2>1. /\ shell' = NoShell /\ library' = Interrupt(library)
          /\ UNCHANGED <<storedPackages, findable, approved, resetAt, begun>>
      BY Zenon, <1>11 DEF ShellEnds
    <2>2. library' \in Slots(LibraryDocuments) /\ Sound(library', OnDisk(findable)) /\ library'.step = "idle"
      BY Zenon, <1>0, <2>1, StopKeepsSound
    <2>3. ResetInTime'
      BY <1>n, <2>1 DEF ResetInTime, SafeModeThreshold
    <2> QED
      BY Zenon, <1>n, <2>1, <2>2, <2>3 DEF LibraryInv, Replacing
  <1>12. CASE UNCHANGED libraryVars
    BY ZenonT(60), <1>12 DEF libraryVars, LibraryInv, LaunchPermitted, ResetInTime
  <1>13. ASSUME NEW n \in Nat, LibraryNext(Installable, n) PROVE LibraryInv'
    <2>1. \A c \in SUBSET UNION {p.requests : p \in Installable} : c \in SUBSET Capabilities
      BY Zenon, InstallableAssumption
    <2> QED
      BY Zenon, <1>1, <1>2, <1>3, <1>4, <1>5, <1>6, <1>7, <1>8, <1>9, <1>10, <1>11, <1>13, <2>1 DEF LibraryNext
  <1> QED
    BY Zenon, <1>12, <1>13

LEMMA LibraryInvariant == LibrarySpec => []LibraryInv
  BY LibraryInvInit, LibraryStepKeeps, PTL DEF LibrarySpec

\* recover_library_document, recover_interrupted_launches and install: the next
\* process finds a document that was saved, with its packages stored and every
\* launch that was begun, and only its own launch runs.
THEOREM LibraryAlwaysSurvives == LibrarySpec => []LibrarySurvives
  <1>1. LibraryInv => LibrarySurvives
    <2> SUFFICES ASSUME LibraryInv PROVE LibrarySurvives
      BY Zenon
    <2>1. findable \in SUBSET LibraryDocuments
      BY Zenon DEF LibraryInv, Healthy
    <2>2. Found(library) \in findable
      BY ZenonT(60), <2>1, FoundIsAllowed DEF LibraryInv
    <2>3. Healthy(Found(library), storedPackages, approved, resetAt, begun)
      BY Zenon, <2>2 DEF LibraryInv
    <2> QED
      BY Zenon, <2>2, <2>3 DEF LibraryInv, LibrarySurvives, Healthy, Stored
  <1> QED
    BY LibraryInvariant, <1>1, PTL

\* preflight, begin_launch and finish_launch: a launch runs with approved
\* capabilities only, and never as the fourth after three failures.
THEOREM LaunchesAlwaysAllowed == LibrarySpec => []LaunchesAreAllowed
  <1>1. LibraryInv => LaunchesAreAllowed
    <2> SUFFICES ASSUME LibraryInv PROVE LaunchesAreAllowed
      BY Zenon
    <2> DEFINE h == shell.document.history
    <2>1. ASSUME shell.then = "launched", NEW i \in DOMAIN h, h[i].id = shell.launch
          PROVE  shell.document.installed[h[i].version].requests
                   \subseteq approved[shell.document.installed[h[i].version].requests] \cup shell.session
      <3>1. LaunchPermitted /\ HistoryOk(h)
        BY Zenon, <2>1 DEF LibraryInv, Healthy
      <3>2. i = Len(h)
        <4>1. h # <<>> /\ h[Len(h)].id = shell.launch
          BY Zenon, <3>1 DEF LaunchPermitted
        <4>2. Len(h) \in DOMAIN h /\ i \in Nat /\ i <= Len(h) /\ h[i] \in LaunchRecords
          BY <2>1, <3>1, <4>1 DEF HistoryOk
        <4>3. h[i].id \in Nat
          BY Zenon, <4>2 DEF LaunchRecords
        <4>4. i < Len(h) => h[i].id < h[Len(h)].id
          BY Zenon, <2>1, <3>1, <4>2 DEF HistoryOk
        <4> QED
          BY SMTT(60), <2>1, <4>1, <4>2, <4>3, <4>4
      <3> QED
        BY ZenonT(60), <3>1, <3>2 DEF LaunchPermitted
    <2>2. ResetInTime /\ \A id : Unsuccessful(id) <=> Bad(h, id)
      BY Zenon DEF LibraryInv, Unsuccessful, Bad
    <2> QED
      BY Zenon, <2>1, <2>2 DEF LaunchesAreAllowed, ResetInTime
  <1> QED
    BY LibraryInvariant, <1>1, PTL
=============================================================================
