-------------------------- MODULE ResourceDiscovery --------------------------
(* The Discoverer of gwctl/pkg/resourcediscovery and the graph it builds, a  *)
(* ResourceModel.  Every call of the API server is a step of its own, and    *)
(* the cluster changes between them: there is no snapshot.  The spec of an   *)
(* object does not change as long as it has its name.                        *)
EXTENDS Naturals, Sequences, FiniteSets

CONSTANTS
    Namespaces, GatewayClasses,     \* names
    Gateways,       \* name -> [ns, class]
    HTTPRoutes,     \* name -> [ns, parents, backends], sets of names
    Backends,       \* name -> [ns]
    ReferenceGrants,\* name -> [ns, to, from]; backends and namespaces
    Changing,       \* objects that may be created or deleted
    Settings        \* sequence of the bounds of a command: [deployments,
                    \* initially, asked, changes, failures]

VARIABLES
    setting,    \* the bounds that hold: an index of Settings
    policies,   \* the cache of the PolicyManager: namespace/name -> policy
    cluster,    \* names of the objects that exist
    changes, failures,
    operation,  \* the kind that was asked for, "" before
    steps,      \* what is left to do
    visited,    \* what the loops of the current step have looked at
    nodes,      \* the ResourceModel: names of its nodes,
    edges,      \*   connections, from the referring to the referred node,
    attached,   \*   names of policies, each connected to its target,
    errors,     \*   and node errors, pairs of node and referred object
    absent,     \* history: objects missing at some time of the discovery
    outcome     \* "running", "done", "error", "exit" or "panic"

worldVars == <<cluster, changes, failures>>
modelVars == <<nodes, edges, attached, errors>>
discoveryVars == <<worldVars, operation, steps, visited, modelVars, absent, outcome>>

Objects == Namespaces \cup GatewayClasses \cup DOMAIN Gateways
           \cup DOMAIN HTTPRoutes \cup DOMAIN Backends \cup DOMAIN ReferenceGrants

\* Those with a namespace in the model, and all those that have one.
Members == DOMAIN Gateways \cup DOMAIN HTTPRoutes \cup DOMAIN Backends
Namespaced == Members \cup DOMAIN ReferenceGrants

NamespaceOf(x) ==
    CASE x \in DOMAIN Gateways -> Gateways[x].ns
      [] x \in DOMAIN HTTPRoutes -> HTTPRoutes[x].ns
      [] x \in DOMAIN Backends -> Backends[x].ns
      [] x \in DOMAIN ReferenceGrants -> ReferenceGrants[x].ns

OfKind(kind) ==
    CASE kind = "GatewayClass" -> GatewayClasses
      [] kind = "Gateway" -> DOMAIN Gateways
      [] kind = "HTTPRoute" -> DOMAIN HTTPRoutes
      [] kind = "Backend" -> DOMAIN Backends
      [] kind = "Namespace" -> Namespaces

\* Names are unique among all kinds, and a reference to an object of a kind is
\* not the name of an object of another kind.
ASSUME NamesAssumption ==
    /\ LET kinds == <<Namespaces, GatewayClasses, DOMAIN Gateways, DOMAIN HTTPRoutes,
                      DOMAIN Backends, DOMAIN ReferenceGrants>>
       IN  \A i, j \in DOMAIN kinds : i # j => kinds[i] \cap kinds[j] = {}
    /\ "" \notin Objects /\ "default" \in Namespaces
    /\ \A x \in Namespaced : NamespaceOf(x) \in Namespaces
    /\ \A g \in DOMAIN Gateways : Gateways[g].class \notin Objects \ GatewayClasses
    /\ \A r \in DOMAIN HTTPRoutes : \A g \in HTTPRoutes[r].parents :
         g \notin Objects \ DOMAIN Gateways

\* A command asks for objects of one kind.
ASSUME SettingsAssumption ==
    \A s \in DOMAIN Settings : \A a \in Settings[s].asked :
        /\ a[1] \in {"GatewayClass", "Gateway", "HTTPRoute", "Backend", "Namespace"}
        /\ a[2] \subseteq OfKind(a[1])

\* asked holds pairs of a kind and the objects of it that a filter selects.
Bound == Settings[setting]

DiscoveryInit ==
    /\ cluster \in Bound.initially
    /\ changes = 0 /\ failures = 0
    /\ operation = "" /\ steps = <<>> /\ visited = {}
    /\ nodes = {} /\ edges = {} /\ attached = {} /\ errors = {}
    /\ absent = {} /\ outcome = "running"

\* A user creates or deletes an object.  A namespace goes when it is empty.
Change(o) ==
    /\ operation # "" /\ outcome = "running"
    /\ changes < Bound.changes
    /\ changes' = changes + 1
    /\ o \in Namespaced /\ o \notin cluster => NamespaceOf(o) \in cluster
    /\ o \in Namespaces /\ o \in cluster =>
         \A x \in Namespaced \cap cluster : NamespaceOf(x) # o
    /\ cluster' = IF o \in cluster THEN cluster \ {o} ELSE cluster \cup {o}
    /\ absent' = absent \cup {o}
    /\ UNCHANGED <<failures, operation, steps, visited, modelVars, outcome>>

-----------------------------------------------------------------------------
\* Mutant: namespaces are looked up before the Gateways of routes are known.
StepsForNamespacesFirst(kind) ==
    CASE kind \in {"GatewayClass", "Namespace"} -> <<"policies">>
      [] kind = "Gateway" ->
           <<"routesFromGateways", "classes", "namespaces", "policies", "effective">>
      [] kind = "HTTPRoute" ->
           <<"namespaces", "gateways", "classes", "policies", "effective">>
      [] kind = "Backend" ->
           <<"grants", "routesFromBackends", "gateways", "classes",
             "namespaces", "policies", "effective">>

StepsFor(kind) ==
    CASE kind \in {"GatewayClass", "Namespace"} -> <<"policies">>
      [] kind = "Gateway" ->
           <<"routesFromGateways", "classes", "namespaces", "policies", "effective">>
      [] kind = "HTTPRoute" ->
           <<"gateways", "classes", "namespaces", "policies", "effective">>
      [] kind = "Backend" ->
           <<"grants", "routesFromBackends", "gateways", "classes",
             "namespaces", "policies", "effective">>

\* A call of the API server that succeeds, or one that fails.
Call == UNCHANGED worldVars
FailedCall ==
    /\ failures < Bound.failures
    /\ failures' = failures + 1
    /\ UNCHANGED <<cluster, changes>>

\* One object is fetched by its name with Get, several with List.
Found(selected) == Cardinality(selected) > 1 \/ selected \subseteq cluster

\* DiscoverResourcesFor a kind.
Discover(kind, selected) ==
    /\ operation = ""
    /\ operation' = kind
    /\ absent' = Objects \ cluster
    /\ \/ /\ Call /\ Found(selected)
          /\ nodes' = selected \cap cluster
          /\ steps' = StepsFor(kind)
          /\ UNCHANGED outcome
       \/ /\ (Call /\ ~Found(selected)) \/ FailedCall
          /\ outcome' = "error"
          /\ UNCHANGED <<nodes, steps>>
    /\ UNCHANGED <<visited, edges, attached, errors>>

At(step) == outcome = "running" /\ steps # <<>> /\ Head(steps) = step

\* The next step of a discovery.
Advance == steps' = Tail(steps) /\ UNCHANGED <<operation, absent>>

Listed(kind) == OfKind(kind) \cap cluster

ReferenceGrantExposes(x, b) ==
    ReferenceGrants[x].ns = Backends[b].ns /\ b \in ReferenceGrants[x].to

ReferenceGrantAccepts(x, r) == HTTPRoutes[r].ns \in ReferenceGrants[x].from

\* All parents, whatever kind their references give.
FindGatewayRefsForHTTPRoute(r) == HTTPRoutes[r].parents

\* The loop over all listed routes.
RoutesFromGateways(routes) ==
    LET parents == {e \in routes \X (nodes \cap DOMAIN Gateways) :
                       e[2] \in FindGatewayRefsForHTTPRoute(e[1])}
    IN  /\ nodes' = nodes \cup {e[1] : e \in parents}
        /\ edges' = edges \cup parents

discoverHTTPRoutesFromGateways ==
    /\ At("routesFromGateways")
    /\ \/ Call /\ RoutesFromGateways(Listed("HTTPRoute"))
       \/ FailedCall /\ RoutesFromGateways({})
    /\ Advance
    /\ UNCHANGED <<visited, attached, errors, outcome>>

\* The loop over the Gateways of the model, with the listed classes.
ClassesFromGateways(classes) ==
    LET gateways == nodes \cap DOMAIN Gateways
        known == {g \in gateways : Gateways[g].class \in classes}
    IN  /\ nodes' = nodes \cup {Gateways[g].class : g \in known}
        /\ edges' = edges \cup {<<g, Gateways[g].class>> : g \in known}
        /\ errors' = errors \cup {<<g, Gateways[g].class>> : g \in gateways \ known}

discoverGatewayClassesFromGateways ==
    /\ At("classes")
    /\ \/ Call /\ ClassesFromGateways(Listed("GatewayClass"))
       \/ FailedCall /\ ClassesFromGateways({})
    /\ Advance
    /\ UNCHANGED <<visited, attached, outcome>>

GatewayRefs ==
    UNION {{r} \X FindGatewayRefsForHTTPRoute(r) : r \in nodes \cap DOMAIN HTTPRoutes}

\* Mutant: a reference that could not be resolved is only logged.
FetchGatewayQuietly(r, g) ==
    /\ At("gateways")
    /\ <<r, g>> \in GatewayRefs \ visited /\ g \notin nodes
    /\ visited' = visited \cup {<<r, g>>}
    /\ Call /\ nodes' = nodes \cup ({g} \cap DOMAIN Gateways \cap cluster)
    /\ UNCHANGED <<errors, operation, steps, edges, attached, absent, outcome>>

\* The first loop of discoverGatewaysFromHTTPRoutes, one reference: a Get of a
\* Gateway that is not in the model yet.
FetchGateway(r, g) ==
    /\ At("gateways")
    /\ <<r, g>> \in GatewayRefs \ visited /\ g \notin nodes
    /\ visited' = visited \cup {<<r, g>>}
    /\ \/ /\ Call /\ g \in DOMAIN Gateways \cap cluster
          /\ nodes' = nodes \cup {g} /\ UNCHANGED errors
       \/ /\ Call /\ g \notin DOMAIN Gateways \cap cluster
          /\ errors' = errors \cup {<<r, g>>} /\ UNCHANGED nodes
       \/ FailedCall /\ UNCHANGED <<nodes, errors>>
    /\ UNCHANGED <<operation, steps, edges, attached, absent, outcome>>

\* Its second loop, once every reference has been looked at.
ConnectGateways ==
    /\ At("gateways")
    /\ \A e \in GatewayRefs : e \in visited \/ e[2] \in nodes
    /\ edges' = edges \cup {e \in GatewayRefs : e[2] \in nodes}
    /\ Advance
    /\ UNCHANGED <<worldVars, visited, nodes, attached, errors, outcome>>

-----------------------------------------------------------------------------
\* discoverReferenceGrantsFromBackends, one backend: its List.
FetchReferenceGrants(b) ==
    /\ At("grants")
    /\ b \in nodes \cap DOMAIN Backends /\ <<b>> \notin visited
    /\ visited' = visited \cup {<<b>>}
    /\ \/ LET exposing == {x \in DOMAIN ReferenceGrants \cap cluster :
                                ReferenceGrantExposes(x, b)}
          IN  /\ Call
              /\ nodes' = nodes \cup exposing
              /\ edges' = edges \cup (exposing \X {b})
              /\ UNCHANGED outcome
       \/ FailedCall /\ outcome' = "exit" /\ UNCHANGED <<nodes, edges>>
    /\ UNCHANGED <<operation, steps, attached, errors, absent>>

ReferenceGrantsFetched ==
    /\ At("grants")
    /\ \A b \in nodes \cap DOMAIN Backends : <<b>> \in visited
    /\ Advance
    /\ UNCHANGED <<worldVars, visited, modelVars, outcome>>

\* Whether a route may refer to a backend, by the grants found for it.
Permitted(r, b) ==
    \/ HTTPRoutes[r].ns = Backends[b].ns
    \/ \E e \in edges : /\ e[2] = b /\ e[1] \in DOMAIN ReferenceGrants
                        /\ ReferenceGrantAccepts(e[1], r)

\* Mutant: the loop over the references of a route ends at the first match.
RoutesFromBackendsFirst(routes) ==
    LET refs == {e \in routes \X (nodes \cap DOMAIN Backends) :
                    e[2] = CHOOSE b \in HTTPRoutes[e[1]].backends : TRUE}
        permitted == {e \in refs : Permitted(e[1], e[2])}
    IN  /\ nodes' = nodes \cup {e[1] : e \in permitted}
        /\ edges' = edges \cup permitted
        /\ errors' = errors \cup {<<e[2], e[1]>> : e \in refs \ permitted}

\* The loop over all listed routes.
RoutesFromBackends(routes) ==
    LET refs == {e \in routes \X (nodes \cap DOMAIN Backends) :
                    e[2] \in HTTPRoutes[e[1]].backends}
        permitted == {e \in refs : Permitted(e[1], e[2])}
    IN  /\ nodes' = nodes \cup {e[1] : e \in permitted}
        /\ edges' = edges \cup permitted
        /\ errors' = errors \cup {<<e[2], e[1]>> : e \in refs \ permitted}

discoverHTTPRoutesFromBackends ==
    /\ At("routesFromBackends")
    /\ \/ Call /\ RoutesFromBackends(Listed("HTTPRoute"))
       \/ FailedCall /\ RoutesFromBackends({})
    /\ Advance
    /\ UNCHANGED <<visited, attached, outcome>>

\* A namespace that is not in the list is looked up as the zero value, whose
\* node is that of the namespace "default"; its member is not connected.
discoverNamespaces ==
    LET members == nodes \cap Members
        known == {m \in members : NamespaceOf(m) \in cluster}
    IN  /\ At("namespaces")
        /\ \/ /\ Call
              /\ nodes' = nodes \cup {NamespaceOf(m) : m \in known}
                                \cup (IF known # members THEN {"default"} ELSE {})
              /\ edges' = edges \cup {<<m, NamespaceOf(m)>> : m \in known}
              /\ Advance /\ UNCHANGED outcome
           \/ /\ FailedCall /\ outcome' = "exit"
              /\ UNCHANGED <<nodes, edges, operation, steps, absent>>
        /\ UNCHANGED <<visited, attached, errors>>

\* addPolicyIfTargetExists.
discoverPolicies ==
    /\ At("policies")
    /\ attached' = {n \in DOMAIN policies : policies[n].target \in nodes}
    /\ Advance
    /\ UNCHANGED <<worldVars, visited, nodes, edges, errors, outcome>>

Connected(x, S) == \E e \in edges : e[1] = x /\ e[2] \in S

\* The nodes whose Namespace calculateEffectivePolicies reads.
NeedNamespace ==
    {x \in nodes \cap Members :
        x \in DOMAIN Gateways => Connected(x, GatewayClasses)}

\* calculateEffectivePolicies dereferences nil.
Panic ==
    /\ At("effective")
    /\ \E x \in NeedNamespace : ~Connected(x, Namespaces)
    /\ outcome' = "panic"
    /\ Advance
    /\ UNCHANGED <<worldVars, visited, modelVars>>

Return ==
    /\ operation # "" /\ outcome = "running" /\ steps = <<>>
    /\ outcome' = "done"
    /\ UNCHANGED <<worldVars, operation, steps, visited, modelVars, absent>>

DiscoveryNext ==
    \/ \E o \in Changing : Change(o)
    \/ discoverHTTPRoutesFromGateways
    \/ discoverGatewayClassesFromGateways
    \/ \E r \in DOMAIN HTTPRoutes : \E g \in HTTPRoutes[r].parents : FetchGateway(r, g)
    \/ ConnectGateways
    \/ \E b \in DOMAIN Backends : FetchReferenceGrants(b)
    \/ ReferenceGrantsFetched
    \/ discoverHTTPRoutesFromBackends
    \/ discoverNamespaces
    \/ discoverPolicies
    \/ Panic
    \/ Return

-----------------------------------------------------------------------------
\* An object that exists during the whole discovery.
Lasting(x) == x \in Objects \ absent

\* Node errors are true although the cluster changes: an object reported as
\* non-existent was missing at some time, and a reference is reported as not
\* permitted only if no grant that was there all the time permits it.  And no
\* reference is dropped silently: a Gateway of a complete model is connected
\* to its class or has an error about it, and so are routes, unless they were
\* reached from a Gateway, and their parents.  All of this as long as no call
\* fails, since a failed List looks like an empty one.
ErrorsAreExact ==
    failures = 0 =>
        /\ \A e \in errors :
             IF e[1] \in DOMAIN Backends
             THEN /\ HTTPRoutes[e[2]].ns # Backends[e[1]].ns
                  /\ \A x \in DOMAIN ReferenceGrants : Lasting(x) =>
                         ~(ReferenceGrantExposes(x, e[1]) /\ ReferenceGrantAccepts(x, e[2]))
             ELSE ~Lasting(e[2])
        /\ outcome = "done" =>
             \A g \in nodes \cap DOMAIN Gateways :
                <<g, Gateways[g].class>> \in edges \cup errors
        /\ outcome = "done" /\ operation # "Gateway" =>
             \A r \in nodes \cap DOMAIN HTTPRoutes : \A g \in HTTPRoutes[r].parents :
                <<r, g>> \in edges \cup errors

\* A lasting route may refer to a backend, in its own namespace or by a
\* lasting grant.
LastingReference(r, b) ==
    /\ Lasting(r) /\ b \in HTTPRoutes[r].backends
    /\ \/ HTTPRoutes[r].ns = Backends[b].ns
       \/ \E x \in DOMAIN ReferenceGrants :
            Lasting(x) /\ ReferenceGrantExposes(x, b) /\ ReferenceGrantAccepts(x, r)

\* What exists all the time and is related to the model is in it: routes of its
\* Gateways, routes of its backends, parents, namespaces, and all cached
\* policies of its objects.
LastingIsConnected ==
    /\ operation = "Gateway" =>
         \A r \in DOMAIN HTTPRoutes : Lasting(r) =>
            \A g \in HTTPRoutes[r].parents \cap nodes : <<r, g>> \in edges
    /\ operation = "Backend" =>
         \A r \in DOMAIN HTTPRoutes, b \in nodes \cap DOMAIN Backends :
            LastingReference(r, b) => <<r, b>> \in edges
    /\ operation # "Gateway" =>
         \A r \in nodes \cap DOMAIN HTTPRoutes : \A g \in HTTPRoutes[r].parents :
            Lasting(g) => <<r, g>> \in edges
    /\ \A m \in nodes \cap Members : Lasting(NamespaceOf(m)) =>
         <<m, NamespaceOf(m)>> \in edges
    /\ \A n \in DOMAIN policies : policies[n].target \in nodes => n \in attached

\* gwctl panics on a node without its namespace only if that namespace was
\* missing at some time of the discovery: it was deleted, with its objects,
\* after they had been read.
PanicNeedsLostNamespace ==
    outcome = "panic" => \E x \in NeedNamespace : ~Lasting(NamespaceOf(x))
=============================================================================
