------------------------------- MODULE MCPlans -------------------------------
(***************************************************************************)
(* What is installed, what the engine decides to run of it and where both  *)
(* are kept: the stores of MCLibraries, resolution and graphs over small   *)
(* sets of manifests, a stack plan beside a library that changes, and the  *)
(* files of a stack under several processes.  `part' says which of them a  *)
(* behaviour is about.                                                     *)
(***************************************************************************)
EXTENDS MCLibraries, StackPlanning, EngineFiles

VARIABLES part,
          world   \* a root and the candidates for its graph

(* Ids of which two can be written alike, two versions of one of them.     *)
A == <<"dev", "ex", "a">>

A2 == <<"dev", "ex", "a", "2">>

B == <<"dev", "ex", "b">>

D == <<"dev", "ex", "d">>

R == <<"dev", "ex", "r">>

V1 == <<0, 1>>

V2 == <<0, 2>>

V3 == <<1, 0>>

V4 == <<2, 0>>

Dependency(alias, id, req, optional) ==
    [alias |-> alias, cartridge |-> id, req |-> req, interfaces |-> {"i"}, optional |-> optional]

Manifest(id, version, visibility, deps) ==
    [id |-> id, version |-> version, services |-> {[interface |-> "i", visibility |-> visibility]}, deps |-> deps]

RootDeps ==
    {<<Dependency("a", A, req, optional)>> \o others :
        req \in {{V3}, {V3, V4}}, optional \in BOOLEAN,
        others \in {<<>>, <<Dependency("b", B, {V1}, FALSE)>>,
                    <<Dependency("b", B, {V1}, FALSE), Dependency("c", A2, {V1, V3}, TRUE)>>}}

\* A provider needs nothing, or one of the others, or the root.
Needs(id) == {<<>>} \cup {<<Dependency("x", other, {V1, V3}, TRUE)>> : other \in {A, B, R} \ {id}}

Worlds ==
    {[root |-> Manifest(R, V1, "export", root),
      candidates |-> << Manifest(A, V3, "export", a), Manifest(A, V4, visible, newA),
                        Manifest(A2, major, "export", c), Manifest(B, V1, "export", b),
                        Manifest(D, V1, "export", <<>>), Manifest(R, V1, "export", root) >>] :
        root \in RootDeps, visible \in {"export", "private"}, a \in Needs(A), newA \in Needs(A), b \in Needs(B),
        major \in {V1, V3}, c \in {<<>>, <<Dependency("d", D, {V1}, FALSE)>>}}

NoWorld == [root |-> Manifest(R, V1, "export", <<>>), candidates |-> <<>>]
-----------------------------------------------------------------------------
(* A library with an application, three versions of its provider, two of   *)
(* which claim the same number.                                            *)

Package(id, version, digest, visibility, deps) ==
    [manifest |-> Manifest(id, version, visibility, deps), digest |-> digest,
     requests |-> {"clock", "http"}, limits |-> [storage |-> 2, value |-> 2]]

MCCatalog ==
    {Package(A, V1, "a1", "export", <<Dependency("b", B, {V1, V2}, FALSE)>>),
     Package(A, V2, "a2", "export", <<Dependency("b", B, {V2}, TRUE), Dependency("c", A2, {V1}, TRUE)>>),
     Package(B, V1, "b1", "export", <<>>), Package(B, V2, "b2", "export", <<>>),
     Package(B, V2, "b2x", "private", <<>>), Package(B, V3, "b3", "export", <<>>)}

Asked(name, allow, deny, storage) ==
    [name |-> name, cartridge |-> A, req |-> {V1, V2}, allow |-> allow, deny |-> deny,
     ceiling |-> [storage |-> storage, value |-> 1], replicas |-> 1, surge |-> 1, secrets |-> {"token"}]

Stack(profile, instances, owner) ==
    [profile |-> profile, sandboxed |-> profile # "permissive", instances |-> instances,
     resources |-> {[name |-> "disk", owner |-> owner, quota |-> 1]}, secrets |-> {"token"}]

\* Stacks of one instance with every profile, and of two; one allows what it
\* denies, one what its package does not request, one has a resource of nobody,
\* one too many instances.
MCStacks ==
    {Stack(profile, {Asked("x", allow, {"clock"}, 1)}, "x") : profile \in {"strict", "balanced", "permissive"},
                                                             allow \in {{}, {"http"}}}
        \cup {Stack("balanced", {Asked("x", {"http"}, {}, 1), Asked("y", {}, {"http"}, 3)}, "y"),
              Stack("balanced", {Asked("x", {"http"}, {}, 1), Asked("y", {}, {}, 3), Asked("z", {}, {}, 3)}, "x"),
              Stack("strict", {Asked("x", {"audio"}, {}, 3)}, "x"), Stack("strict", {Asked("x", {}, {}, 3)}, "y"),
              Stack("balanced", {Asked("x", {"http"}, {"http"}, 3)}, "x")}

MCWorkloads ==
    {{"save", "saveLegacy", "read", "append"}, {"publish", "readRoutes"},
     {"saveProgress", "removeProgress"}}
-----------------------------------------------------------------------------
plansVars == <<part, world, librariesVars, planningVars, storeVars>>

PlansInit ==
    /\ part \in {"libraries", "graph", "planning", "files"}
    /\ world \in IF part = "graph" THEN Worlds ELSE {NoWorld}
    /\ LibrariesInit
    /\ part # "libraries" => store = "blobs"
    /\ PlanningInit
    /\ FilesInit
    /\ part # "files" => slots[<<"legacy", 0>>].path = Absent /\ "publish" \in workload

PlansNext ==
    /\ UNCHANGED <<part, world>>
    /\ \/ part = "libraries" /\ LibrariesNext /\ UNCHANGED <<planningVars, storeVars>>
       \/ part = "planning" /\ PlanningNext /\ UNCHANGED <<librariesVars, storeVars>>
       \/ part = "files" /\ FilesNext /\ UNCHANGED <<librariesVars, planningVars>>

PlansSpec == PlansInit /\ [][PlansNext]_plansVars
-----------------------------------------------------------------------------
(* The reference definitions of resolution and graph, for every world.     *)

\* For every world, resolution and graph are what the reference definitions
\* say.  Every dependency is resolved to the newest candidate that suits it; a
\* valid graph holds exactly the packages resolution reaches, and its edges lead
\* to exactly what it chose; cycles below the root are reported, and nothing else
\* is; and whatever is built can be validated, but for instances written alike
\* (resolve_dependencies, expand_graph, build_approved_graph,
\* ApprovedGraph::validate).
GraphsAreExact ==
    part = "graph" =>
        /\ ResolutionIsBest(world.root, world.candidates)
        /\ GraphIsExact(world.root, world.candidates)
        /\ CyclesAreReported(world.root, world.candidates)
        /\ AcceptedValidates(world.root, world.candidates)
=============================================================================
