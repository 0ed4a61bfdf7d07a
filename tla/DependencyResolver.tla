-------------------------- MODULE DependencyResolver --------------------------
(***************************************************************************)
(* How the dependencies of a cartridge are resolved and locked, and how    *)
(* the graph of a root and all its providers is built                      *)
(* (cartridge-core/src/resolver.rs, validate_relationships of manifest.rs).*)
(*                                                                         *)
(* A manifest is [id, version, services, deps].  An id is the sequence of  *)
(* its words, a version is <<major, minor>>, a service is [interface,      *)
(* visibility], a dependency is [alias, cartridge, req, interfaces,        *)
(* optional] where req is the set of versions its range matches.  Digests, *)
(* lengths and characters of names are left out.                           *)
(***************************************************************************)
EXTENDS Integers, Sequences, FiniteSets, TLC, SequencesExt

CONSTANTS MaxCandidates,   \* MAX_RESOLUTION_CANDIDATES
          MaxDepth,        \* MAX_TRANSITIVE_DEPTH
          MaxNodes,        \* MAX_GRAPH_NODES
          MaxEdges         \* MAX_GRAPH_EDGES

KeyOf(m) == <<m.id, m.version>>

\* validate_relationships
ValidRelationships(m) ==
    /\ \A i, j \in DOMAIN m.deps : i # j => /\ m.deps[i].alias # m.deps[j].alias
                                            /\ m.deps[i].cartridge # m.deps[j].cartridge
    /\ \A i \in DOMAIN m.deps : m.deps[i].cartridge # m.id /\ m.deps[i].interfaces # {}
    /\ \A s, t \in m.services : s.interface = t.interface => s = t

\* The interfaces that others may ask for.
Public(m) == {s.interface : s \in {t \in m.services : t.visibility # "private"}}

Newer(v, w) == v[1] > w[1] \/ (v[1] = w[1] /\ v[2] > w[2])
-----------------------------------------------------------------------------
(* resolve_dependencies                                                    *)

Unresolved == [id |-> <<>>, version |-> <<0, 0>>]

Matching(dep, candidates) ==
    SortSeq(SelectSeq(candidates, LAMBDA c : c.id = dep.cartridge /\ c.version \in dep.req),
            LAMBDA c, d : Newer(c.version, d.version))

\* The first of them that publishes every interface asked for.
Provider(dep, candidates) ==
    LET suited == SelectSeq(Matching(dep, candidates), LAMBDA c : dep.interfaces \subseteq Public(c))
    IN IF suited = <<>> THEN Unresolved ELSE [id |-> suited[1].id, version |-> suited[1].version]

\* unavailable_reason
UnavailableReason(dep, candidates) ==
    LET named == SelectSeq(candidates, LAMBDA c : c.id = dep.cartridge)
    IN CASE named = <<>> -> "not installed"
         [] SelectSeq(named, LAMBDA c : c.version \in dep.req) = <<>> -> "out of range"
         [] OTHER -> "interfaces missing"

Refused(error) == [error |-> error, resolved |-> <<>>, unavailable |-> <<>>]

ResolvedEdge(dep, candidates) ==
    [alias |-> dep.alias, key |-> <<Provider(dep, candidates).id, Provider(dep, candidates).version>>,
     interfaces |-> dep.interfaces]

UnavailableEdge(dep, candidates) ==
    [alias |-> dep.alias, cartridge |-> dep.cartridge, reason |-> UnavailableReason(dep, candidates)]

ResolveDependencies(root, candidates) ==
    LET found(dep) == Provider(dep, candidates) # Unresolved
        here == SelectSeq(root.deps, found)
        gone == SelectSeq(root.deps, LAMBDA d : ~found(d))
    IN CASE Len(candidates) > MaxCandidates -> Refused("limit")
         [] ~ValidRelationships(root) \/ \E i \in DOMAIN candidates : ~ValidRelationships(candidates[i])
              -> Refused("invalid")
         [] \E i, j \in DOMAIN candidates : i # j /\ KeyOf(candidates[i]) = KeyOf(candidates[j])
              -> Refused("duplicate")
         [] \E i \in DOMAIN gone : ~gone[i].optional -> Refused("required")
         [] OTHER -> [error |-> "none",
                      resolved |-> [i \in DOMAIN here |-> ResolvedEdge(here[i], candidates)],
                      unavailable |-> [i \in DOMAIN gone |-> UnavailableEdge(gone[i], candidates)]]
-----------------------------------------------------------------------------
(* CompositionLock: packages are [key, digest]                             *)

\* CompositionLock::validate; that the providers are in strict order says that
\* no key occurs twice.
LockValid(lock) ==
    LET edges == lock.plan.resolved
        aliases == [i \in DOMAIN edges |-> edges[i].alias]
                       \o [i \in DOMAIN lock.plan.unavailable |-> lock.plan.unavailable[i].alias]
        keys == {p.key : p \in lock.providers}
    IN /\ Cardinality(keys) = Cardinality(lock.providers)
       /\ IsInjective(aliases)
       /\ \A i \in DOMAIN edges : edges[i].interfaces # {} /\ edges[i].key \in keys
       /\ keys = {edges[i].key : i \in DOMAIN edges}

\* The packages a plan selects, each once (composition_lock and
\* direct_composition_lock), then CompositionLock::new.
NewLock(root, packages, plan) ==
    [root |-> root,
     providers |-> {p \in packages : \E i \in DOMAIN plan.resolved : plan.resolved[i].key = p.key},
     plan |-> plan]
-----------------------------------------------------------------------------
(* build_approved_graph                                                    *)

\* next_instance_id and the suffix of a major: '.' becomes '-', so a name is
\* the words of the id followed by the suffixes.
InstanceName(id, version, count) ==
    id \o (IF count > 1 THEN <<ToString(count)>> ELSE <<>>)
       \o (IF version[1] > 0 THEN <<"v" \o ToString(version[1])>> ELSE <<>>)

GraphNode(m, instance) == [instance |-> instance, key |-> KeyOf(m), interfaces |-> Public(m)]

Failed(g, error) == [g EXCEPT !.error = error]

RECURSIVE ExpandGraph(_, _, _, _, _, _)

\* A provider that was not met before: it is named, entered and expanded, with
\* its key on the path below the root.
EnterPathless(m, candidates, path, depth, g) ==
    LET count == Cardinality({k \in DOMAIN g.visited : k[1] = m.id /\ g.visited[k] # <<"root">>}) + 1
        name == InstanceName(m.id, m.version, count)
        entered == [g EXCEPT !.nodes = Append(@, GraphNode(m, name)),
                             !.visited = (KeyOf(m) :> name) @@ @]
    IN ExpandGraph(m, name, candidates, path, depth + 1, entered)

Enter(m, candidates, path, depth, g) ==
    LET count == Cardinality({k \in DOMAIN g.visited : k[1] = m.id /\ g.visited[k] # <<"root">>}) + 1
        name == InstanceName(m.id, m.version, count)
        entered == [g EXCEPT !.nodes = Append(@, GraphNode(m, name)),
                             !.visited = (KeyOf(m) :> name) @@ @]
    IN ExpandGraph(m, name, candidates, path \cup {KeyOf(m)}, depth + 1, entered)

\* One dependency of an instance.
AddEdge(dep, instance, candidates, path, depth, g) ==
    LET provider == SelectSeq(candidates, LAMBDA c : KeyOf(c) = dep.key)[1]
        expanded == IF dep.key \in DOMAIN g.visited THEN g ELSE Enter(provider, candidates, path, depth, g)
    IN IF g.error # "none" THEN g
       ELSE IF dep.key \in path THEN Failed(g, "cycle")
       ELSE IF expanded.error # "none" THEN expanded
       ELSE [expanded EXCEPT !.edges = Append(@, [caller |-> instance, provider |-> expanded.visited[dep.key],
                                                  alias |-> dep.alias, interfaces |-> dep.interfaces])]

WithinLimits(depth, g) == depth <= MaxDepth /\ Len(g.nodes) <= MaxNodes

ExpandGraph(m, instance, candidates, path, depth, g) ==
    LET plan == ResolveDependencies(m, candidates)
    IN IF ~WithinLimits(depth, g) THEN Failed(g, "limit")
       ELSE IF plan.error # "none" THEN Failed(g, "resolution")
       ELSE FoldLeft(LAMBDA acc, dep : AddEdge(dep, instance, candidates, path, depth, acc),
                     [g EXCEPT !.unavailable = @ \o plan.unavailable], plan.resolved)

BuildApprovedGraph(root, candidates) ==
    ExpandGraph(root, <<"root">>, candidates, {}, 0,
                [nodes |-> << GraphNode(root, <<"root">>) >>, edges |-> <<>>, unavailable |-> <<>>,
                 visited |-> (KeyOf(root) :> <<"root">>), error |-> "none"])

GraphValid(g) ==
    LET names == [i \in DOMAIN g.nodes |-> g.nodes[i].instance]
    IN /\ Len(g.nodes) <= MaxNodes /\ Len(g.edges) <= MaxEdges
       /\ IsInjective(names) /\ <<"root">> \in Range(names)
       /\ \A i \in DOMAIN g.edges : /\ {g.edges[i].caller, g.edges[i].provider} \subseteq Range(names)
                                    /\ g.edges[i].interfaces # {}
-----------------------------------------------------------------------------
(* RelationshipAuthority                                                   *)

FromGraph(g) ==
    [i \in DOMAIN g.edges |-> [caller |-> g.edges[i].caller, provider |-> g.edges[i].provider,
                               interfaces |-> g.edges[i].interfaces, scope |-> g.edges[i].alias,
                               kind |-> "session"]]

ActiveGrantsForCaller(grants, caller) ==
    SelectSeq(grants, LAMBDA grant : grant.caller = caller /\ grant.kind # "revoked")

\* provider_authority_is_isolated: no two instances call each other.
ProviderAuthorityIsIsolated(grants) ==
    \A i \in DOMAIN grants :
        grants[i].kind # "revoked" =>
            \A j \in DOMAIN ActiveGrantsForCaller(grants, grants[i].provider) :
                ActiveGrantsForCaller(grants, grants[i].provider)[j].provider # grants[i].caller
-----------------------------------------------------------------------------
(* The reference: what the resolution and the graph should be              *)

Suits(dep, c) == c.id = dep.cartridge /\ c.version \in dep.req /\ dep.interfaces \subseteq Public(c)

\* A plan edge leads to the newest candidate that suits its dependency, and an
\* optional dependency is reported as unavailable exactly when no candidate
\* does (resolve_dependencies).
ResolutionIsBest(root, candidates) ==
    LET plan == ResolveDependencies(root, candidates)
        suiting(d) == {c \in Range(candidates) : Suits(d, c)}
    IN /\ plan.error = "none" =>
             \A d \in Range(root.deps) :
                 IF suiting(d) = {}
                 THEN d.alias \in {u.alias : u \in Range(plan.unavailable)}
                 ELSE \E e \in Range(plan.resolved) :
                         /\ e.alias = d.alias
                         /\ \E c \in suiting(d) : /\ e.key = KeyOf(c)
                                                  /\ \A o \in suiting(d) : ~Newer(o.version, c.version)
       /\ plan.error \in {"none", "required"} =>
             (plan.error = "required" <=> \E d \in Range(root.deps) : ~d.optional /\ suiting(d) = {})

\* The keys that the manifest of a key depends on.
ManifestOf(key, root, candidates) ==
    IF key = KeyOf(root) THEN root ELSE CHOOSE c \in Range(candidates) : KeyOf(c) = key

DependsOn(key, root, candidates) ==
    {e.key : e \in Range(ResolveDependencies(ManifestOf(key, root, candidates), candidates).resolved)}

RECURSIVE Reached(_, _, _)

\* All that can be reached from a set of keys without passing through the root.
Reached(keys, root, candidates) ==
    LET more == keys \cup UNION {DependsOn(k, root, candidates) : k \in keys \ {KeyOf(root)}}
    IN IF more = keys THEN keys ELSE Reached(more, root, candidates)

BelowRoot(root, candidates) ==
    Reached(DependsOn(KeyOf(root), root, candidates), root, candidates)

\* A provider that needs itself through providers other than the root.
HasCycle(root, candidates) ==
    \E k \in BelowRoot(root, candidates) \ {KeyOf(root)} :
        k \in Reached(DependsOn(k, root, candidates), root, candidates)

\* An accepted graph that validates has one instance for the root and for every
\* package that resolution reaches, and its edges lead, by their instance
\* names, from each of them to exactly what its own resolution chose
\* (build_approved_graph, expand_graph, ApprovedGraph::validate).
GraphIsExact(root, candidates) ==
    LET g == BuildApprovedGraph(root, candidates)
        keyOf(instance) == {n.key : n \in {m \in Range(g.nodes) : m.instance = instance}}
    IN g.error = "none" /\ GraphValid(g) =>
          /\ {n.key : n \in Range(g.nodes)} = BelowRoot(root, candidates) \cup {KeyOf(root)}
          /\ \A n \in Range(g.nodes) :
                 LET plan == ResolveDependencies(ManifestOf(n.key, root, candidates), candidates)
                 IN {<<e.alias, keyOf(e.provider)>> : e \in {f \in Range(g.edges) : f.caller = n.instance}}
                        = {<<e.alias, {e.key}>> : e \in Range(plan.resolved)}

\* A cycle is reported exactly when a provider needs itself without the root in
\* between, unless another error comes first; so in an accepted graph nobody is
\* both caller and provider of the same instance, but for a provider that calls
\* the root back (expand_graph, provider_authority_is_isolated).
CyclesAreReported(root, candidates) ==
    LET g == BuildApprovedGraph(root, candidates)
    IN /\ g.error = "cycle" => HasCycle(root, candidates)
       /\ g.error = "none" => ~HasCycle(root, candidates)
       /\ g.error = "none" /\ GraphValid(g) /\ (\A e \in Range(g.edges) : e.provider # <<"root">>)
             => ProviderAuthorityIsIsolated(FromGraph(g))

\* Two instances got the same name.
NamesCollide(g) ==
    ~IsInjective([i \in DOMAIN g.nodes |-> g.nodes[i].instance])

\* Whatever build_approved_graph accepts, ApprovedGraph::validate accepts too,
\* but for too many edges or two instances whose names are written alike.
AcceptedValidates(root, candidates) ==
    LET g == BuildApprovedGraph(root, candidates)
    IN g.error = "none" /\ Len(g.edges) <= MaxEdges /\ ~NamesCollide(g) => GraphValid(g)
=============================================================================
