---------------------------- MODULE StackPlanning ----------------------------
(***************************************************************************)
(* From a stack manifest to a plan, and from a plan to the packages that   *)
(* are run (cartridge-engine/src/lib.rs: StackPlan; the catalog of         *)
(* cartridge-desktop/src/lib.rs).  A plan is built against the library of  *)
(* one moment; the daemon and every supervisor verify it against the       *)
(* library of a later one, after packages were installed or damaged.       *)
(*                                                                         *)
(* A package is [manifest, digest, requests, limits]; the limits are the   *)
(* two that depend on each other, the storage and the bytes of one value.  *)
(* A stack is [profile, sandboxed, instances, resources, secrets].         *)
(***************************************************************************)
EXTENDS DependencyResolver, FiniteSetsExt

CONSTANTS Catalog,       \* packages that can be installed
          Stacks,        \* stack manifests
          Balanced,      \* balanced_capabilities
          MaxTotal,      \* MAX_STACK_TOTAL_REPLICAS
          MaxSurge,      \* MAX_STACK_TOTAL_SURGE_REPLICAS
          MaxBroken      \* bound: package files damaged from outside

VARIABLES installed,     \* the library's packages
          broken,        \* packages whose file is missing or changed
          plan,          \* the planned stack, or NoPlan
          builds         \* how the last build ended

planningVars == <<installed, broken, plan, builds>>

NoPlan == [name |-> "none"]

PlanningInit == installed = {} /\ broken = {} /\ plan = NoPlan /\ builds = "none"

PackageKey(p) == KeyOf(p.manifest)

\* locked_package
LockedPackage(p) == [key |-> PackageKey(p), digest |-> p.digest]

Smaller(a, b) == IF a <= b THEN a ELSE b

\* RuntimeLimits::constrained_by
ConstrainedBy(limits, ceiling) ==
    LET storage == Smaller(limits.storage, ceiling.storage)
    IN [storage |-> storage, value |-> Smaller(Smaller(limits.value, ceiling.value), storage)]
-----------------------------------------------------------------------------
(* The catalog                                                             *)

\* catalog_record and open_catalog_archive: the file still is what was installed.
Opens(p) == p \notin broken

\* catalog_versions: all installed versions of an id, if all of their files are
\* whole and there are not too many.
Versions(id) == {p \in installed : p.manifest.id = id}

CanList(ids) ==
    /\ \A id \in ids : \A p \in Versions(id) : Opens(p)
    /\ Cardinality(UNION {Versions(id) : id \in ids}) <= MaxCandidates

\* catalog_package with a version: that one and no other.
CatalogPackageNewest(key) ==
    {p \in Versions(key[1]) : Opens(p) /\ \A q \in Versions(key[1]) : ~Newer(q.manifest.version, p.manifest.version)}

CatalogPackage(key) == {p \in Versions(key[1]) : PackageKey(p) = key /\ Opens(p)}
-----------------------------------------------------------------------------
(* plan_instance                                                           *)

\* direct_composition_lock
DependencyIds(p) == {p.manifest.deps[i].cartridge : i \in DOMAIN p.manifest.deps}

Resolution(p) ==
    ResolveDependencies(p.manifest, SetToSeq({q.manifest : q \in UNION {Versions(id) : id \in DependencyIds(p)}}))

DirectCompositionLock(p) == NewLock(LockedPackage(p), {LockedPackage(q) : q \in installed}, Resolution(p))

\* What the profile allows of what is requested, with the grants of the
\* manifest, before its denials.
ProfileAllows(profile, requested, granted) ==
    CASE profile = "strict" -> granted
      [] profile = "balanced" -> (requested \cap Balanced) \cup granted
      [] profile = "permissive" -> requested

Allowed(spec, profile, requested) == ProfileAllows(profile, requested, spec.allow) \ spec.deny

PlannedInstance(spec, profile, p) ==
    [name |-> spec.name, replicas |-> spec.replicas, surge |-> spec.surge, secrets |-> spec.secrets,
     lock |-> DirectCompositionLock(p), requested |-> p.requests, granted |-> spec.allow,
     blocked |-> spec.deny, allowed |-> Allowed(spec, profile, p.requests),
     denied |-> p.requests \ Allowed(spec, profile, p.requests),
     limits |-> ConstrainedBy(p.limits, spec.ceiling), desired |-> "running"]

\* The package of an instance: the newest installed version in its range.
Chosen(spec) ==
    LET fitting == {p \in Versions(spec.cartridge) : p.manifest.version \in spec.req}
    IN {p \in fitting : \A q \in fitting : ~Newer(q.manifest.version, p.manifest.version)}

CanPlanInstance(spec) ==
    /\ CanList({spec.cartridge}) /\ Chosen(spec) # {}
    /\ \A p \in Chosen(spec) : /\ CanList(DependencyIds(p))
                               /\ Resolution(p).error = "none"
                               /\ spec.allow \cup spec.deny \subseteq p.requests
-----------------------------------------------------------------------------
(* A stack and its plan, each with its own validation                      *)

\* validate_instance: what is allowed is not denied as well.
InstanceValid(spec) == spec.replicas > 0 /\ spec.allow \cap spec.deny = {}

\* The sums that both validations bound.
WithinTotals(instances) ==
    /\ MapThenSumSet(LAMBDA i : i.replicas, instances) <= MaxTotal
    /\ MapThenSumSet(LAMBDA i : i.surge, instances) <= MaxSurge

NamesOnce(items) == Cardinality({i.name : i \in items}) = Cardinality(items)

ManifestValid(stack) ==
    /\ stack.instances # {} /\ NamesOnce(stack.instances) /\ NamesOnce(stack.resources)
    /\ \A i \in stack.instances : InstanceValid(i) /\ i.secrets \subseteq stack.secrets
    /\ WithinTotals(stack.instances)
    /\ \A r \in stack.resources : r.quota > 0 /\ r.owner \in {i.name : i \in stack.instances}

\* validate_planned_capabilities
CapabilitiesValid(i, profile) ==
    /\ i.allowed = ProfileAllows(profile, i.requested, i.granted) \ i.blocked
    /\ i.denied = i.requested \ i.allowed

\* validate_planned_instance
PlannedValid(i, profile, secrets) ==
    /\ i.replicas > 0 /\ i.limits.value <= i.limits.storage
    /\ i.allowed \cup i.denied = i.requested /\ i.allowed \cap i.denied = {}
    /\ i.granted \cup i.blocked \subseteq i.requested /\ i.granted \cap i.blocked = {}
    /\ i.secrets \subseteq secrets
    /\ LockValid(i.lock)
    /\ CapabilitiesValid(i, profile)

\* validate_planned_instances
InstancesValid(value) ==
    /\ value.instances # {} /\ NamesOnce(value.instances) /\ WithinTotals(value.instances)
    /\ \A i \in value.instances : PlannedValid(i, value.profile, value.secrets)

\* validate_planned_resources
ResourcesValid(value) ==
    /\ NamesOnce(value.resources)
    /\ \A r \in value.resources : r.quota > 0 /\ r.owner \in {i.name : i \in value.instances}

\* StackPlan::validate
PlanValid(value) ==
    /\ InstancesValid(value) /\ ResourcesValid(value)
    /\ Cardinality(value.warnings) <= Cardinality(value.instances) + 1

\* One warning for a disabled sandbox, one for every instance that is denied
\* something it requests.
Warnings(stack, instances) ==
    (IF stack.sandboxed THEN {} ELSE {"sandbox"}) \cup {i.name : i \in {j \in instances : j.denied # {}}}

\* StackPlan::build: every instance is planned, then the plan is validated.
Build(stack) ==
    IF ~ManifestValid(stack) \/ \E spec \in stack.instances : ~CanPlanInstance(spec)
    THEN builds' = "refused" /\ UNCHANGED <<installed, broken, plan>>
    ELSE LET instances == UNION {{PlannedInstance(spec, stack.profile, p) : p \in Chosen(spec)} :
                                    spec \in stack.instances}
             value == [name |-> "planned", profile |-> stack.profile, instances |-> instances,
                       resources |-> stack.resources, secrets |-> stack.secrets,
                       warnings |-> Warnings(stack, instances)]
         IN /\ builds' = IF PlanValid(value) THEN "planned" ELSE "invalid"
            /\ plan' = IF PlanValid(value) THEN value ELSE plan
            /\ UNCHANGED <<installed, broken>>

\* StackPlan::stopped
Stopped ==
    /\ plan # NoPlan
    /\ LET value == [plan EXCEPT !.instances = {[i EXCEPT !.desired = "stopped"] : i \in plan.instances}]
       IN /\ builds' = IF PlanValid(value) THEN "planned" ELSE "invalid"
          /\ plan' = IF PlanValid(value) THEN value ELSE plan
    /\ UNCHANGED <<installed, broken>>
-----------------------------------------------------------------------------
(* The library between planning and running                                *)

\* Library::install: an installed version is immutable.
InstallVersion(p) ==
    /\ \A q \in installed : PackageKey(q) # PackageKey(p)
    /\ installed' = installed \cup {p}
    /\ UNCHANGED <<broken, plan, builds>>

DamagePackage(p) ==
    /\ p \in installed \ broken /\ Cardinality(broken) < MaxBroken
    /\ broken' = broken \cup {p}
    /\ UNCHANGED <<installed, plan, builds>>

PlanningNext ==
    \/ \E stack \in Stacks : Build(stack)
    \/ Stopped
    \/ \E p \in Catalog : InstallVersion(p) \/ DamagePackage(p)

PlanningSpec == PlanningInit /\ [][PlanningNext]_planningVars
-----------------------------------------------------------------------------
(* StackPlan::verify_installed                                             *)

LockedPackages(value) == UNION {{i.lock.root} \cup i.lock.providers : i \in value.instances}

\* verify_locked_package_installed
VerifyLocked(locked) == \E p \in CatalogPackage(locked.key) : LockedPackage(p) = locked

VerifyInstalled(value) ==
    /\ PlanValid(value)
    /\ \A locked \in LockedPackages(value) : VerifyLocked(locked)
    /\ \A i \in value.instances : \A p \in CatalogPackage(i.lock.root.key) :
           ConstrainedBy(p.limits, i.limits) = i.limits

\* A plan that was built stays good for as long as its own packages are whole,
\* whatever newer versions are installed in the meantime, and it is refused as
\* soon as one of them is not; and what build puts together from a valid
\* manifest is never refused by the validation of the plan, nor is its stopped
\* form (StackManifest::validate, StackPlan::build, stopped, verify_installed).
PlansStayVerifiable ==
    /\ builds # "invalid"
    /\ plan # NoPlan =>
          (VerifyInstalled(plan) <=>
               \A locked \in LockedPackages(plan) :
                   \E p \in installed \ broken : LockedPackage(p) = locked)
=============================================================================
