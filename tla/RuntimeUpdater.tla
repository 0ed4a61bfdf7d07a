--------------------------- MODULE RuntimeUpdater ---------------------------
(***************************************************************************)
(* The runtime updater (crates/cartridge-release/src/lib.rs) behind the    *)
(* release install, rollback and status commands.  A command opens the     *)
(* updater under its lock, recovers the selection document, does one       *)
(* operation and exits; it may die at any step.  Releases given to Install *)
(* are those whose signature verifies.                                     *)
(***************************************************************************)
EXTENDS AtomicDocument, Integers

CONSTANTS
    Releases,       \* verified releases: records [version, artifact, key]
    MaxUnreadable   \* bound: documents that something outside the code damages

ASSUME ReleasesAssumption ==
    \A r \in Releases :
        /\ DOMAIN r = {"version", "artifact", "key"} /\ r.version \in Nat
        /\ r.artifact \notin {"none", "partial"}

VARIABLES
    selection,      \* the slot of update.json
    releaseFiles,   \* releases/<version>/<file>
    updater,        \* the process that holds the updater lock
    selectable,     \* documents the next process may find (history)
    unreadable      \* documents damaged so far (history)

updaterVars == <<selection, releaseFiles, updater, selectable, unreadable>>

ReleaseVersions == {r.version : r \in Releases}

NoRelease == [version |-> 0, artifact |-> "none", key |-> "none"]

UpdateState == [active |-> NoRelease, previous |-> NoRelease,
                installed |-> [v \in ReleaseVersions |-> NoRelease]]

NoUpdater == [step |-> "none", state |-> UpdateState, release |-> NoRelease]

UpdaterInit ==
    /\ selection = EmptySlot
    /\ releaseFiles = [v \in ReleaseVersions |-> "none"]
    /\ updater = NoUpdater
    /\ selectable = {NoDocument}
    /\ unreadable = 0

\* Updater::open: recover_state, then the document must be readable.
OpenUpdater ==
    /\ updater = NoUpdater
    /\ CanRecover(selection)
    /\ LET slot == RecoveredSlot(selection)
           state == IF slot.path.kind = "ok" THEN slot.path.value ELSE UpdateState
       IN  /\ slot.path # Unreadable
           /\ selection' = slot
           /\ updater' = [NoUpdater EXCEPT !.step = "open", !.state = state]
           /\ selectable' = {slot.path}
    /\ UNCHANGED <<releaseFiles, unreadable>>

\* validate_state: the active and the previous release are the ones the
\* index names for their versions.
ValidState(state) ==
    \A r \in {state.active, state.previous} \ {NoRelease} : state.installed[r.version] = r

\* save_state, or the error of its validation.
SaveState(state) ==
    IF ValidState(state)
    THEN /\ selection' = StartReplace(selection, state)
         /\ selectable' = selectable \cup {Document(state)}
         /\ updater' = [updater EXCEPT !.step = "saving", !.state = state]
    ELSE /\ updater' = NoUpdater
         /\ UNCHANGED <<selection, selectable>>

\* install, the state it saves.
Activated(state, release) ==
    [active |-> release,
     previous |-> IF state.active = release THEN state.previous ELSE state.active,
     installed |-> [state.installed EXCEPT ![release.version] = release]]

\* install: a lower version needs approval; an artifact that exists must be
\* the signed one, one that does not is created and copied.
Install(release, allowDowngrade) ==
    /\ updater.step = "open"
    /\ allowDowngrade \/ updater.state.active.version <= release.version
    /\ UNCHANGED unreadable
    /\ CASE releaseFiles[release.version] = "none" ->
                /\ releaseFiles' = [releaseFiles EXCEPT ![release.version] = "partial"]
                /\ updater' = [updater EXCEPT !.step = "copying", !.release = release]
                /\ UNCHANGED <<selection, selectable>>
         [] releaseFiles[release.version] = release.artifact ->
                /\ SaveState(Activated(updater.state, release))
                /\ UNCHANGED releaseFiles
         [] OTHER ->
                /\ updater' = NoUpdater
                /\ UNCHANGED <<selection, selectable, releaseFiles>>

\* copy_runtime_new finishes, flushed, with the signed digest.
FinishCopy ==
    /\ updater.step = "copying"
    /\ releaseFiles' = [releaseFiles EXCEPT ![updater.release.version] = updater.release.artifact]
    /\ SaveState(Activated(updater.state, updater.release))
    /\ UNCHANGED unreadable

\* The copy fails, or its digest is not the signed one: the file is removed.
DropCopy ==
    /\ updater.step = "copying"
    /\ releaseFiles' = [releaseFiles EXCEPT ![updater.release.version] = "none"]
    /\ updater' = NoUpdater
    /\ UNCHANGED <<selection, selectable, unreadable>>

\* rollback: the previous artifact is verified, and the two change places.
Rollback ==
    /\ updater.step = "open"
    /\ LET state == updater.state
       IN  /\ state.previous # NoRelease
           /\ releaseFiles[state.previous.version] = state.previous.artifact
           /\ SaveState([state EXCEPT !.active = state.previous, !.previous = state.active])
    /\ UNCHANGED <<releaseFiles, unreadable>>

\* atomic_json_replace goes on.
SaveStep ==
    /\ updater.step = "saving"
    /\ selection' = ReplaceStep(selection)
    /\ IF Replacing(selection')
       THEN UNCHANGED <<updater, selectable>>
       ELSE /\ updater' = NoUpdater
            /\ selectable' = {selection.next}
    /\ UNCHANGED <<releaseFiles, unreadable>>

\* Its second rename fails.
SaveFails ==
    /\ updater.step = "saving"
    /\ selection.step = "aside"
    /\ selection' = PutBack(selection)
    /\ selectable' = {selection.previous}
    /\ updater' = NoUpdater
    /\ UNCHANGED <<releaseFiles, unreadable>>

\* The command exits (status, or an error before it wrote) or is killed.
UpdaterEnds ==
    /\ updater # NoUpdater
    /\ updater' = NoUpdater
    /\ selection' = Interrupt(selection)
    /\ UNCHANGED <<releaseFiles, selectable, unreadable>>

\* The document an interrupted replacement published is damaged while its
\* backup still exists.
DamageSelection ==
    /\ updater = NoUpdater
    /\ unreadable < MaxUnreadable
    /\ selection.path.kind = "ok"
    /\ selection.previous.kind = "ok"
    /\ selection' = [selection EXCEPT !.path = Unreadable]
    /\ unreadable' = unreadable + 1
    /\ UNCHANGED <<releaseFiles, updater, selectable>>

UpdaterNext ==
    \/ OpenUpdater
    \/ \E r \in Releases, allow \in BOOLEAN : Install(r, allow)
    \/ FinishCopy
    \/ DropCopy
    \/ Rollback
    \/ SaveStep
    \/ SaveFails
    \/ UpdaterEnds
    \/ DamageSelection

UpdaterSpec == UpdaterInit /\ [][UpdaterNext]_updaterVars

-----------------------------------------------------------------------------
\* What a process that opens the updater now reads.
Selection == RecoveredSlot(selection).path

\* However the steps of a replacement and of its recovery are cut short, the
\* next process finds the selection of the last completed save or the one
\* that was being saved, and never refuses to open ("Startup restores a valid
\* backup when the active document is missing or corrupt"); the active release
\* and the rollback slot are complete artifacts, which no later install, failed
\* copy or crash takes away ("Activation changes only a checksummed local
\* selection document after the complete artifact is durable",
\* docs/runtime-updates.md).
SelectionSurvives ==
    /\ CanRecover(selection) /\ Selection \in selectable
    /\ Selection.kind = "ok" =>
          \A r \in {Selection.value.active, Selection.value.previous} \ {NoRelease} :
              releaseFiles[r.version] = r.artifact
=============================================================================
