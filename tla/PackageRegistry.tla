--------------------------- MODULE PackageRegistry --------------------------
(***************************************************************************)
(* The signed package registry and the trust store                         *)
(* (crates/cartridge-identity/src/lib.rs) behind the registry and identity *)
(* commands.  A registry command reads the trust store, opens the registry *)
(* under its lock, does one operation and exits; it may die at any step.   *)
(* A package is a name (cartridge id and version) and a digest; a signature *)
(* is the key that made it, and every signature offered is well formed.    *)
(***************************************************************************)
EXTENDS AtomicDocument, FiniteSets, Sequences, Functions

CONSTANTS
    Packages,       \* records [name, digest]
    Signers,        \* developer keys
    RecoveryKeys,   \* [Signers -> SUBSET Signers], given when a key is trusted
    MaxVersions     \* MAX_REGISTRY_VERSIONS

ASSUME PackagesAssumption ==
    \A p \in Packages : DOMAIN p = {"name", "digest"} /\ p.digest # "none"

VARIABLES
    trust,          \* the trust store file, NoDocument when there is none
    index,          \* the slot of index.json
    packageFiles,   \* objects/<digest>.cartridge
    signatureFiles, \* objects/<digest>.signature.json
    registry,       \* the process that holds the registry lock
    indexable,      \* documents the next process may find (history)
    published       \* names some process saw published, with digests (history)

registryVars ==
    <<trust, index, packageFiles, signatureFiles, registry, indexable, published>>

Names == {p.name : p \in Packages}

Digests == {p.digest : p \in Packages}

\* TrustStore::new.
EmptyTrust == [trusted |-> {}, revoked |-> {}]

NoVersion == [digest |-> "none", key |-> "none"]

RegistryIndex == [packages |-> [n \in Names |-> NoVersion], transparency |-> <<>>]

NoRegistry == [step |-> "none", index |-> RegistryIndex, keys |-> {},
               package |-> [name |-> "none", digest |-> "none"], key |-> "none"]

RegistryInit ==
    /\ trust = NoDocument
    /\ index = EmptySlot
    /\ packageFiles = [d \in Digests |-> "none"]
    /\ signatureFiles = [d \in Digests |-> "none"]
    /\ registry = NoRegistry
    /\ indexable = {NoDocument}
    /\ published = {}

-----------------------------------------------------------------------------
\* identity trust: load_or_create_trust, trust, save_trust.
TrustKey(key) ==
    LET store == IF trust.kind = "ok" THEN trust.value ELSE EmptyTrust
    IN  trust' = Document([store EXCEPT !.trusted = @ \cup {key}])

\* identity rotate-apply: the old key must be trusted; the new one takes its
\* place.
ApplyRotation(old, new) ==
    /\ trust.kind = "ok"
    /\ old \in trust.value.trusted
    /\ trust' = Document([trust.value EXCEPT !.trusted = (@ \ {old}) \cup {new}])

\* identity revoke-apply: signed by the key itself or by a recovery key.
ApplyRevocation(key, signer) ==
    /\ trust.kind = "ok"
    /\ key \in trust.value.trusted
    /\ signer = key \/ signer \in RecoveryKeys[key]
    /\ trust' = Document([trust.value EXCEPT !.revoked = @ \cup {key}])

\* A trust command dies while the store is set aside.  No command reads the
\* store's backup.
TrustInterrupted ==
    /\ trust.kind = "ok"
    /\ trust' = NoDocument

TrustNext(signers) ==
    /\ \/ \E key \in signers : TrustKey(key)
       \/ \E old, new \in signers : ApplyRotation(old, new)
       \/ \E key, signer \in signers : ApplyRevocation(key, signer)
       \/ TrustInterrupted
    /\ UNCHANGED <<index, packageFiles, signatureFiles, registry, indexable, published>>

\* TrustStore::verify_bytes: the keys whose signatures a store accepts.
Accepted(store) == store.trusted \ store.revoked

-----------------------------------------------------------------------------
\* registry publish: TrustStore::read, before the registry is opened.
ReadTrust ==
    /\ registry = NoRegistry
    /\ trust.kind = "ok"
    /\ registry' = [NoRegistry EXCEPT !.step = "trusting", !.keys = Accepted(trust.value)]
    /\ UNCHANGED <<trust, index, packageFiles, signatureFiles, indexable, published>>

\* validate_registry: the transparency log has one entry for each indexed
\* version and none besides.
ValidRegistry(value) ==
    /\ IsInjective(value.transparency)
    /\ Range(value.transparency)
         = {[name |-> n, version |-> value.packages[n]] :
                n \in {m \in Names : value.packages[m] # NoVersion}}

VersionCount(value) == Cardinality({n \in Names : value.packages[n] # NoVersion})

\* Registry::open: recover_registry_index, then the index must be readable
\* and valid.
OpenRegistry ==
    /\ registry.step = "trusting"
    /\ CanRecover(index)
    /\ LET slot == RecoveredSlot(index)
           value == IF slot.path.kind = "ok" THEN slot.path.value ELSE RegistryIndex
       IN  /\ ValidRegistry(value)
           /\ index' = slot
           /\ registry' = [registry EXCEPT !.step = "open", !.index = value]
           /\ indexable' = {slot.path}
    /\ UNCHANGED <<trust, packageFiles, signatureFiles, published>>

\* publish: the signature is verified, the limit and the index are checked,
\* and the package file is created (or compared, when it exists).  A version
\* that is published already is returned if its digest is the same.
Publish(package, key) ==
    /\ registry.step = "open"
    /\ key \in registry.keys
    /\ VersionCount(registry.index) < MaxVersions
    /\ UNCHANGED <<trust, index, signatureFiles, indexable>>
    /\ IF registry.index.packages[package.name] # NoVersion
       THEN /\ registry' = NoRegistry
            /\ published' =
                 IF registry.index.packages[package.name].digest = package.digest
                 THEN published \cup {package} ELSE published
            /\ UNCHANGED packageFiles
       ELSE /\ packageFiles[package.digest] # "partial"
            /\ registry' = [registry EXCEPT !.step = "object", !.package = package, !.key = key]
            /\ packageFiles' =
                 [packageFiles EXCEPT ![package.digest] = IF @ = "none" THEN "partial" ELSE @]
            /\ UNCHANGED published

\* A form that goes on to the index while the package file is being written.
StoreObjectLate ==
    /\ registry.step = "object"
    /\ registry' = [registry EXCEPT !.step = "stored"]
    /\ UNCHANGED <<trust, index, packageFiles, signatureFiles, indexable, published>>

\* write_bytes_new finishes; the signature file is created if there is none.
StoreObject ==
    /\ registry.step = "object"
    /\ LET digest == registry.package.digest
       IN  /\ packageFiles' = [packageFiles EXCEPT ![digest] = "ok"]
           /\ IF signatureFiles[digest] = "none"
              THEN /\ signatureFiles' = [signatureFiles EXCEPT ![digest] = "partial"]
                   /\ registry' = [registry EXCEPT !.step = "signature"]
              ELSE /\ registry' = [registry EXCEPT !.step = "stored"]
                   /\ UNCHANGED signatureFiles
    /\ UNCHANGED <<trust, index, indexable, published>>

\* write_json_new finishes the signature file.
StoreSignature ==
    /\ registry.step = "signature"
    /\ signatureFiles' = [signatureFiles EXCEPT ![registry.package.digest] = registry.key]
    /\ registry' = [registry EXCEPT !.step = "stored"]
    /\ UNCHANGED <<trust, index, packageFiles, indexable, published>>

\* The index with the version and its transparency entry (append_transparency).
Indexed(value, package, key) ==
    LET version == [digest |-> package.digest, key |-> key]
    IN  [packages |-> [value.packages EXCEPT ![package.name] = version],
         transparency |-> Append(value.transparency, [name |-> package.name, version |-> version])]

\* The version and its log entry are added, and save validates the index.
AddVersion ==
    /\ registry.step = "stored"
    /\ LET value == Indexed(registry.index, registry.package, registry.key)
       IN  IF ValidRegistry(value)
           THEN /\ registry' = [registry EXCEPT !.step = "saving", !.index = value]
                /\ index' = StartReplace(index, value)
                /\ indexable' = indexable \cup {Document(value)}
           ELSE /\ registry' = NoRegistry
                /\ UNCHANGED <<index, indexable>>
    /\ UNCHANGED <<trust, packageFiles, signatureFiles, published>>

\* atomic_json_replace goes on.
SaveIndexStep ==
    /\ registry.step = "saving"
    /\ index' = ReplaceStep(index)
    /\ IF Replacing(index')
       THEN UNCHANGED <<registry, indexable, published>>
       ELSE /\ registry' = NoRegistry
            /\ indexable' = {index.next}
            /\ published' = published \cup {registry.package}
    /\ UNCHANGED <<trust, packageFiles, signatureFiles>>

\* The command exits (resolve, audit, or an error) or is killed.
RegistryEnds ==
    /\ registry # NoRegistry
    /\ registry' = NoRegistry
    /\ index' = Interrupt(index)
    /\ UNCHANGED <<trust, packageFiles, signatureFiles, indexable, published>>

\* What the registry does with some packages and keys.
RegistryNext(packages, signers) ==
    \/ TrustNext(signers)
    \/ ReadTrust
    \/ OpenRegistry
    \/ \E p \in packages, key \in signers : Publish(p, key)
    \/ StoreObject
    \/ StoreSignature
    \/ AddVersion
    \/ SaveIndexStep
    \/ RegistryEnds

RegistrySpec == RegistryInit /\ [][RegistryNext(Packages, Signers)]_registryVars

-----------------------------------------------------------------------------
\* What a process that opens the registry now reads.
Index == LET found == RecoveredSlot(index).path
         IN  IF found.kind = "ok" THEN found.value ELSE RegistryIndex

\* audit, what it finds of a version in objects/ (that the key is still
\* trusted is a matter of the trust store).
Auditable(version) ==
    /\ packageFiles[version.digest] = "ok"
    /\ signatureFiles[version.digest] = version.key

\* Every version in the index passes "registry audit", which "re-verifies
\* every stored package and signature" (docs/identity-and-registry.md).  It is
\* no invariant: a publisher that dies leaves a signature file, cut short or
\* made by its own key, that a later publish of the same package keeps.
IndexedIsAuditable ==
    \A n \in Names : Index.packages[n] # NoVersion => Auditable(Index.packages[n])

\* "Registry versions are immutable" (docs/identity-and-registry.md): however
\* publishing and recovery are cut short, the next command can open the index,
\* which is the last one saved or the one being saved and whose log describes
\* exactly its versions; a version some publisher was told is published keeps
\* its digest; and every version listed is stored whole under its digest
\* (recover_atomic, Registry::publish).
PublishedStays ==
    /\ CanRecover(index) /\ RecoveredSlot(index).path \in indexable
    /\ ValidRegistry(Index)
    /\ \A p \in published : Index.packages[p.name].digest = p.digest
    /\ \A n \in Names : Index.packages[n] # NoVersion =>
          packageFiles[Index.packages[n].digest] = "ok"
=============================================================================
