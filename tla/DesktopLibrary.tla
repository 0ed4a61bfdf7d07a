--------------------------- MODULE DesktopLibrary ---------------------------
(***************************************************************************)
(* The desktop library (crates/cartridge-desktop/src/lib.rs) behind the    *)
(* library commands: installed packages, permission grants, the launch     *)
(* history and safe mode, for one cartridge.  A process holds the library  *)
(* lock from Library::open until it exits, does operations one at a time,  *)
(* at most one launch among them (library run), and may die at any step.   *)
(***************************************************************************)
EXTENDS AtomicDocument, Integers, Sequences, FiniteSetsExt

CONSTANTS
    Installable,    \* packages: records [version, digest, requests]
    Capabilities,   \* capabilities a package may request
    MaxInstalled,   \* MAX_INSTALLED_PACKAGES
    MaxHistory      \* MAX_LAUNCH_HISTORY

VARIABLES
    library,        \* the slot of library.json
    storedPackages, \* packages/<id>/<version>/<digest>.cartridge that exist
    shell,          \* the process that holds the library lock
    findable,       \* documents the next process may find (history)
    approved,       \* what the user approved for each request set (history)
    resetAt,        \* the last launch before the last safe-mode reset (history)
    begun           \* the last launch begin_launch returned (history)

libraryVars ==
    <<library, storedPackages, shell, findable, approved, resetAt, begun>>

SafeModeThreshold == 3

InstallVersions == {p.version : p \in Installable}

ASSUME InstallableAssumption ==
    /\ \A p \in Installable : p.version \in Nat /\ p.requests \in SUBSET Capabilities
    /\ \A some \in (SUBSET InstallVersions) \ {{}} :
          \E newest \in some : \A v \in some : v <= newest
    /\ MaxHistory \in Nat \ {0}

NoPackage == [version |-> 0, digest |-> "none", requests |-> {}]

\* LibraryDocument::default.
EmptyLibrary ==
    [installed |-> [v \in InstallVersions |-> NoPackage],
     grant |-> [requests |-> {}, capabilities |-> {}],
     history |-> <<>>,
     failures |-> 0,
     safe_mode |-> FALSE]

NoShell == [step |-> "none", document |-> EmptyLibrary, session |-> {}, launch |-> 0,
            then |-> "none"]

LibraryInit ==
    /\ library = EmptySlot
    /\ storedPackages = {}
    /\ shell = NoShell
    /\ findable = {EmptyLibrary}
    /\ approved = [requests \in SUBSET Capabilities |-> {}]
    /\ resetAt = 0
    /\ begun = 0

\* What a process finds: the recovered document, or an empty one.
Found(slot) ==
    LET restored == RecoverOrReset(slot)
    IN  IF restored.path = NoDocument THEN EmptyLibrary ELSE restored.path.value

\* save: the document in memory is written; "then" is what the operation
\* goes on with.
Save(document, next) ==
    /\ shell' = [shell EXCEPT !.step = "saving", !.document = document, !.then = next]
    /\ library' = StartReplace(library, document)
    /\ findable' = findable \cup {document}

\* A form that enables safe mode one failure late.
CountFailureLate(document) ==
    LET failures == document.failures + 1
    IN  [document EXCEPT !.failures = failures, !.safe_mode = failures > SafeModeThreshold]

\* An unsuccessful end of a launch, in finish_launch and in
\* recover_interrupted_launches.
CountFailure(document) ==
    LET failures == document.failures + 1
    IN  [document EXCEPT !.failures = failures, !.safe_mode = failures >= SafeModeThreshold]

Ended(history, id, status) ==
    [i \in DOMAIN history |->
        IF history[i].id = id THEN [history[i] EXCEPT !.status = status] ELSE history[i]]

RunningIn(history) == {history[i].id : i \in {j \in DOMAIN history : history[j].status = "running"}}

\* A form that forgets interrupted launches.
RecoverInterruptedNot(document) == document

\* recover_interrupted_launches: launches are one at a time, so at most one
\* record is running.
RecoverInterrupted(document) ==
    IF RunningIn(document.history) = {}
    THEN document
    ELSE CountFailure([document EXCEPT
            !.history = Ended(@, CHOOSE id \in RunningIn(document.history) : TRUE, "terminated")])

\* Library::open: the document is recovered, interrupted launches are
\* terminated, and the result is saved.
OpenLibrary ==
    /\ shell = NoShell
    /\ LET document == RecoverInterrupted(Found(library))
       IN  /\ shell' = [NoShell EXCEPT !.step = "saving", !.document = document, !.then = "open"]
           /\ library' = StartReplace(RecoverOrReset(library), document)
           /\ findable' = {Found(library), document}
    /\ UNCHANGED <<storedPackages, approved, resetAt, begun>>

\* atomic_replace goes on; when it ends, so does the operation.
LibrarySaveStep ==
    /\ shell.step = "saving"
    /\ library' = ReplaceStep(library)
    /\ IF Replacing(library')
       THEN UNCHANGED <<shell, findable, begun>>
       ELSE /\ findable' = {shell.document}
            /\ shell' = [shell EXCEPT !.step = "open", !.then = "none"]
            /\ begun' = IF shell.then = "launched" THEN shell.launch ELSE begun
    /\ approved' = IF shell.then = "revoked" /\ ~Replacing(library')
                   THEN [r \in SUBSET Capabilities |->
                            IF r = shell.document.grant.requests
                            THEN approved[r] \cap shell.document.grant.capabilities ELSE {}]
                   ELSE approved
    /\ UNCHANGED <<storedPackages, resetAt>>

\* install, up to the package file: a version that is installed stays as it
\* is; the staged copy is linked to its content address.
InstallPackage(package) ==
    /\ shell.step = "open"
    /\ LET installed == shell.document.installed
       IN  /\ installed[package.version] = NoPackage
           /\ Cardinality({v \in InstallVersions : installed[v] # NoPackage}) < MaxInstalled
    /\ storedPackages' = storedPackages \cup {package.digest}
    /\ shell' = [shell EXCEPT !.step = "linked",
                              !.document.installed[package.version] = package]
    /\ UNCHANGED <<library, findable, approved, resetAt, begun>>

\* install: the staged copy is removed and the document saved.
RecordPackage ==
    /\ shell.step = "linked"
    /\ Save(shell.document, "open")
    /\ UNCHANGED <<storedPackages, approved, resetAt, begun>>

\* installed_version without a version: the newest.
Newest(document) ==
    LET present == {v \in InstallVersions : document.installed[v] # NoPackage}
    IN  document.installed[Max(present)]

HasPackage(document) == \E v \in InstallVersions : document.installed[v] # NoPackage

\* grant, persistent: bound to the complete request set; a grant for another
\* set is dropped.
Granted(grant, requests, capabilities) ==
    [requests |-> requests,
     capabilities |-> capabilities \cup
         (IF grant.requests = requests THEN grant.capabilities ELSE {})]

GrantPersistent(capabilities) ==
    /\ shell.step = "open"
    /\ HasPackage(shell.document)
    /\ LET requests == Newest(shell.document).requests
       IN  /\ capabilities \subseteq requests
           /\ Save([shell.document EXCEPT !.grant = Granted(@, requests, capabilities)], "open")
           /\ approved' = [approved EXCEPT ![requests] = @ \cup capabilities]
    /\ UNCHANGED <<storedPackages, resetAt, begun>>

\* grant, for this process only.
GrantSession(capabilities) ==
    /\ shell.step = "open"
    /\ HasPackage(shell.document)
    /\ capabilities \subseteq Newest(shell.document).requests
    /\ shell' = [shell EXCEPT !.session = @ \cup capabilities]
    /\ UNCHANGED <<library, storedPackages, findable, approved, resetAt, begun>>

\* revoke, one capability or the whole grant.
Revoke(capabilities) ==
    /\ shell.step = "open"
    /\ LET left == [shell.document.grant EXCEPT !.capabilities = @ \ capabilities]
           document == [shell.document EXCEPT !.grant = left]
       IN  /\ shell' = [shell EXCEPT !.step = "saving", !.document = document, !.then = "revoked",
                                     !.session = @ \ capabilities]
           /\ library' = StartReplace(library, document)
           /\ findable' = findable \cup {document}
    /\ UNCHANGED <<storedPackages, approved, resetAt, begun>>

\* preflight: what the grants allow of a version's requests.
Preflight(document, session, package) ==
    package.requests \cap
        (session \cup (IF document.grant.requests = package.requests
                       THEN document.grant.capabilities ELSE {}))

\* The id of the next launch.
NextLaunch(history) == IF history = <<>> THEN 1 ELSE history[Len(history)].id + 1

\* trim_history: the oldest records go.
Trim(history) ==
    IF Len(history) > MaxHistory
    THEN SubSeq(history, Len(history) - MaxHistory + 1, Len(history)) ELSE history

\* begin_launch: refused in safe mode and while a permission is missing; the
\* running record is saved before the caller starts the cartridge.
BeginLaunch(version, launches) ==
    /\ shell.step = "open"
    /\ shell.launch = 0
    /\ ~shell.document.safe_mode
    /\ LET package == shell.document.installed[version]
           id == NextLaunch(shell.document.history)
           record == [id |-> id, version |-> version, status |-> "running"]
           document == [shell.document EXCEPT !.history = Trim(Append(@, record))]
       IN  /\ package # NoPackage
           /\ Preflight(shell.document, shell.session, package) = package.requests
           /\ id <= launches
           /\ shell' = [shell EXCEPT !.step = "saving", !.document = document,
                                     !.then = "launched", !.launch = id]
           /\ library' = StartReplace(library, document)
           /\ findable' = findable \cup {document}
    /\ UNCHANGED <<storedPackages, approved, resetAt, begun>>

\* finish_launch, after which library run exits.
FinishLaunch(status) ==
    /\ shell.step = "open"
    /\ shell.launch \in RunningIn(shell.document.history)
    /\ LET ended == [shell.document EXCEPT !.history = Ended(@, shell.launch, status)]
       IN  Save(IF status = "succeeded" THEN [ended EXCEPT !.failures = 0]
                ELSE CountFailure(ended), "open")
    /\ UNCHANGED <<storedPackages, approved, resetAt, begun>>

\* reset_safe_mode.
ResetSafeMode ==
    /\ shell.step = "open"
    /\ shell.launch = 0
    /\ Save([shell.document EXCEPT !.failures = 0, !.safe_mode = FALSE], "open")
    /\ resetAt' = NextLaunch(shell.document.history) - 1
    /\ UNCHANGED <<storedPackages, approved, begun>>

\* The process exits or is killed.
ShellEnds ==
    /\ shell # NoShell
    /\ shell' = NoShell
    /\ library' = Interrupt(library)
    /\ UNCHANGED <<storedPackages, findable, approved, resetAt, begun>>

\* What the library does with some packages, up to a number of launches.
LibraryNext(packages, launches) ==
    \/ OpenLibrary
    \/ LibrarySaveStep
    \/ \E p \in packages : InstallPackage(p)
    \/ RecordPackage
    \/ \E c \in SUBSET UNION {p.requests : p \in packages} :
          c # {} /\ (GrantPersistent(c) \/ GrantSession(c) \/ Revoke(c))
    \/ \E v \in InstallVersions : BeginLaunch(v, launches)
    \/ \E s \in {"succeeded", "failed"} : FinishLaunch(s)
    \/ ResetSafeMode
    \/ ShellEnds

LibrarySpec == LibraryInit /\ [][\E n \in Nat : LibraryNext(Installable, n)]_libraryVars

-----------------------------------------------------------------------------
\* However saving and recovery are cut short, the next process finds the
\* document of the last completed save or of the one in flight, and every
\* package it lists is stored.  "Launches are written as running before
\* execution. If the shell opens after an interrupted launch, that record
\* becomes terminated" (docs/desktop-library.md): a launch that was begun is in
\* that document, and once a process has the library open only its own launch
\* is running.
LibrarySurvives ==
    /\ Found(library) \in findable
    /\ \A v \in InstallVersions :
         LET package == Found(library).installed[v]
         IN  package # NoPackage => package.digest \in storedPackages
    /\ begun < NextLaunch(Found(library).history)
    /\ shell.step = "open" => RunningIn(shell.document.history) \subseteq {shell.launch}

Unsuccessful(id) ==
    \E i \in DOMAIN shell.document.history :
        /\ shell.document.history[i].id = id
        /\ shell.document.history[i].status \in {"failed", "terminated"}

\* What docs/desktop-library.md asks of a launch.  "Persistent grants are bound
\* to the complete requested-capability set": it runs only with capabilities
\* the user approved for exactly its request set and has not revoked since, or
\* allowed for this process.  "Three consecutive failed or interrupted launches
\* enable safe mode": it runs after three unsuccessful ones only if safe mode
\* was reset since the first of them.
LaunchesAreAllowed ==
    /\ shell.then = "launched" =>
          \A i \in DOMAIN shell.document.history :
              LET record == shell.document.history[i]
                  requests == shell.document.installed[record.version].requests
              IN  record.id = shell.launch => requests \subseteq approved[requests] \cup shell.session
    /\ (/\ shell.launch > SafeModeThreshold
        /\ \A id \in shell.launch - SafeModeThreshold .. shell.launch - 1 : Unsuccessful(id))
       => resetAt >= shell.launch - SafeModeThreshold
=============================================================================
