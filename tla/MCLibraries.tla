----------------------------- MODULE MCLibraries ----------------------------
(***************************************************************************)
(* The durable stores that a command opens, changes once and closes: the   *)
(* blob store, the package registry, the runtime updater and the desktop   *)
(* library.  They share no files, so each is explored alone ("store"); the *)
(* library twice, for its grants and for its launches, and the registry    *)
(* twice, for publishers with two keys and for several versions.           *)
(***************************************************************************)
EXTENDS BlobStore, PackageRegistry, RuntimeUpdater, DesktopLibrary

VARIABLE store

ThreeBlobs == {"x", "y", "z"}

\* One artifact names a blob with its true size, the other one too, and
\* another blob with a wrong size.
TwoArtifacts == {"snapshot", "capsule"}

ArtifactReferencesOf ==
    [a \in TwoArtifacts |->
        [b \in ThreeBlobs |-> CASE b = "x" -> 2
                                [] b # "x" /\ a = "capsule" -> 3
                                [] OTHER -> 0]]

TwoBytesEach == [b \in ThreeBlobs |-> 2]

\* Two packages that claim one version, and another version.
TwoPackages ==
    {[name |-> "app-1", digest |-> "d1"], [name |-> "app-1", digest |-> "d2"]}

ThreePackages == TwoPackages \cup {[name |-> "app-2", digest |-> "d3"]}

OneRecoveryKey == [k \in {"k1", "k2"} |-> IF k = "k1" THEN {"k2"} ELSE {}]

\* Version 1 exists with two artifacts, version 2 signed by two keys.
FourReleases ==
    {[version |-> 1, artifact |-> "a", key |-> "k1"],
     [version |-> 1, artifact |-> "c", key |-> "k1"],
     [version |-> 2, artifact |-> "b", key |-> "k1"],
     [version |-> 2, artifact |-> "b", key |-> "k2"]}

\* An update that requests more, and a package that requests nothing.
Requesting ==
    {[version |-> 1, digest |-> "p1", requests |-> {"http"}],
     [version |-> 2, digest |-> "p2", requests |-> {"http", "storage"}]}

Plain == {[version |-> 3, digest |-> "p3", requests |-> {}]}

ThreeInstallable == Requesting \cup Plain

librariesVars == <<store, blobVars, registryVars, updaterVars, libraryVars>>

LibrariesInit ==
    /\ store \in {"blobs", "registry", "versions", "updater", "grants", "launches"}
    /\ BlobInit /\ RegistryInit /\ UpdaterInit /\ LibraryInit

LibrariesNext ==
    /\ UNCHANGED store
    /\ \/ /\ store = "blobs"
          /\ BlobNext
          /\ UNCHANGED <<registryVars, updaterVars, libraryVars>>
       \/ /\ store = "registry"
          /\ RegistryNext(TwoPackages, Signers)
          /\ UNCHANGED <<blobVars, updaterVars, libraryVars>>
       \/ /\ store = "versions"
          /\ RegistryNext(ThreePackages, {"k1"})
          /\ UNCHANGED <<blobVars, updaterVars, libraryVars>>
       \/ /\ store = "updater"
          /\ UpdaterNext
          /\ UNCHANGED <<blobVars, registryVars, libraryVars>>
       \/ /\ store = "grants"
          /\ LibraryNext(Requesting, 1)
          /\ UNCHANGED <<blobVars, registryVars, updaterVars>>
       \/ /\ store = "launches"
          /\ LibraryNext(Plain, 5)
          /\ UNCHANGED <<blobVars, registryVars, updaterVars>>
=============================================================================
