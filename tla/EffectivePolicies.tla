------------------------- MODULE EffectivePolicies --------------------------
(* The policies of gwctl: PolicyManager.Init caches the policies of every    *)
(* policy CRD, and calculateEffectivePolicies merges those that are attached *)
(* to the nodes of a ResourceModel along the hierarchy GatewayClass, Gateway, *)
(* HTTPRoute, Backend, with the namespaces in between.  The loops over maps  *)
(* run in any order.                                                         *)
EXTENDS Naturals, Sequences, FiniteSets

(* How gwctl/pkg/policymanager merges policies.  The content of a policy is  *)
(* its metadata, name (the rank of namespace/name in alphabetical order) and *)
(* created, and its settings under spec.default and spec.override; those of  *)
(* a direct policy, which has neither, are in default.                       *)

CONSTANTS
    Inherited   \* kinds of inherited policies; all other kinds are direct

\* A map is patched: what the patch does not have stays.
mergeUnstructured(map, patch) ==
    [s \in DOMAIN map \cup DOMAIN patch |-> IF s \in DOMAIN patch THEN patch[s] ELSE map[s]]

\* Mutant: the child wins everywhere.
mergePolicyChildWins(parent, child) ==
    [child EXCEPT !.default = mergeUnstructured(parent.default, @),
                  !.override = mergeUnstructured(parent.override, @)]

\* The child is a JSON merge patch of the parent, metadata included; then the
\* overrides of an inherited parent are patched into the result.
mergePolicy(parent, child) ==
    [child EXCEPT !.default = mergeUnstructured(parent.default, @),
                  !.override = IF parent.kind \in Inherited
                               THEN mergeUnstructured(@, parent.override)
                               ELSE mergeUnstructured(parent.override, @)]

\* The older policy has precedence, then the first by name.
Beats(a, b) == IF a.created = b.created THEN b.name > a.name ELSE b.created > a.created

\* The policy with precedence is the second one.
orderPolicyByPrecedence(a, b) == IF Beats(a, b) THEN <<b, a>> ELSE <<a, b>>

\* Two maps from kinds to policies are merged kind by kind; precedence orders
\* the two policies of each kind that both have.
mergePolicies(policies1, policies2, precedence) ==
    [k \in DOMAIN policies1 \cup DOMAIN policies2 |->
        IF k \in DOMAIN precedence
        THEN mergePolicy(precedence[k][1], precedence[k][2])
        ELSE IF k \in DOMAIN policies1 THEN policies1[k] ELSE policies2[k]]

MergePoliciesOfSameHierarchy(policies1, policies2) ==
    mergePolicies(policies1, policies2,
        [k \in DOMAIN policies1 \cap DOMAIN policies2 |->
            orderPolicyByPrecedence(policies1[k], policies2[k])])

MergePoliciesOfDifferentHierarchy(parents, children) ==
    mergePolicies(parents, children,
        [k \in DOMAIN parents \cap DOMAIN children |-> <<parents[k], children[k]>>])

\* The policies of one kind in the order of convertPoliciesMapToSlice.
ByName(sorted) == \A i, j \in DOMAIN sorted : i < j => sorted[i].name < sorted[j].name
Sorted(ps) == CHOOSE sorted \in [1..Cardinality(ps) -> ps] : ByName(sorted)

\* Policies of one level and kind are merged one after the other, ...
MergedInOrder(k, sorted) ==
    LET merged[i \in DOMAIN sorted] ==
            IF i = 1 THEN sorted[1]
            ELSE MergePoliciesOfSameHierarchy([x \in {k} |-> merged[i - 1]],
                                              [x \in {k} |-> sorted[i]])[k]
    IN  merged[Len(sorted)]

\* ... and those of one level kind by kind.
MergePoliciesOfSimilarKind(policies) ==
    [k \in {p.kind : p \in policies} |-> MergedInOrder(k, Sorted({p \in policies : p.kind = k}))]

\* What a merged policy amounts to.
EffectiveSpec(policy) == mergeUnstructured(policy.default, policy.override)

-----------------------------------------------------------------------------
CONSTANTS
    NamespaceMap    \* Gateway, HTTPRoute or Backend -> namespace

VARIABLES
    deployed,   \* the policies in the cluster, with their targets
    crds,       \* kinds whose policies have not been listed yet
    policies,   \* the cache of the PolicyManager: namespace/name -> policy
    attached,   \* names of the cached policies that a node is connected with
    graph,      \* the connections of the ResourceModel: [classOf, parents,
                \* routesOf], see ResourceModel
    phase,      \* "load", "gateways", "routes", "backends", "done" or "error"
    left,       \* nodes left in the loop of this phase
    backend,    \* the Backend that is being calculated, "" for none,
    todo,       \*   its routes that are left,
    result,     \*   and Gateway -> kind -> policy, so far
    effective   \* node -> its EffectivePolicies

loopVars == <<graph, phase, left, backend, todo, result, effective>>
policyVars == <<deployed, crds, policies, loopVars>>

KindsOf(ps) == {p.kind : p \in ps}

\* Gateway -> its GatewayClass, "" if it is connected to none; HTTPRoute -> the
\* Gateways it is connected to; Backend -> the HTTPRoutes it is connected to.
ResourceModel(classOf, parents, routesOf) ==
    [classOf |-> classOf, parents |-> parents, routesOf |-> routesOf]

ClassOf == graph.classOf
Parents == graph.parents
RoutesOf == graph.routesOf

PoliciesInit(deployments) ==
    /\ deployed \in deployments
    /\ crds = KindsOf(deployed) \cup {"unused"}
    /\ policies = <<>>
    /\ graph = ResourceModel(<<>>, <<>>, <<>>)
    /\ phase = "load" /\ left = {}
    /\ backend = "" /\ todo = {} /\ result = <<>>
    /\ effective = <<>>

-----------------------------------------------------------------------------
\* AddPolicy for all policies of a kind.  The key does not contain the kind.
AddPolicy(kind) ==
    LET listed == {p \in deployed : p.kind = kind}
    IN  policies' = [n \in DOMAIN policies \cup {p.name : p \in listed} |->
                        IF \E p \in listed : p.name = n THEN CHOOSE p \in listed : p.name = n
                        ELSE policies[n]]

\* Init of the manager lists the policies of one CRD after the other.
fetchPolicies(kind) ==
    /\ phase = "load" /\ kind \in crds
    /\ crds' = crds \ {kind}
    /\ \/ AddPolicy(kind) /\ UNCHANGED loopVars
       \/ /\ phase' = "error"
          /\ UNCHANGED <<policies, graph, left, backend, todo, result, effective>>
    /\ UNCHANGED deployed

\* calculateEffectivePolicies begins with the Gateways of the ResourceModel.
Start(model) ==
    /\ phase = "load" /\ crds = {}
    /\ phase' = "gateways" /\ graph' = model /\ left' = DOMAIN model.classOf
    /\ UNCHANGED <<deployed, crds, policies, backend, todo, result, effective>>

\* The loop over the nodes of the next kind begins.
Enter(from, to, nodes) ==
    /\ phase = from /\ left = {} /\ backend = ""
    /\ phase' = to /\ left' = nodes
    /\ UNCHANGED <<deployed, crds, policies, graph, backend, todo, result, effective>>

NextPhase ==
    \/ Enter("gateways", "routes", DOMAIN Parents)
    \/ Enter("routes", "backends", DOMAIN RoutesOf)
    \/ Enter("backends", "done", {})

\* The policies attached to an object, merged by kind.
ByKind(x) ==
    MergePoliciesOfSimilarKind({p \in {policies[n] : n \in attached} : p.target = x})

\* Policies from above, those of a node's namespace and its own.
Below(parents, x) ==
    MergePoliciesOfDifferentHierarchy(
        MergePoliciesOfDifferentHierarchy(parents, ByKind(NamespaceMap[x])),
        ByKind(x))

\* The EffectivePolicies of a node are set.
WithEffective(x, value) ==
    [y \in DOMAIN effective \cup {x} |-> IF y = x THEN value ELSE effective[y]]

calculateEffectivePoliciesForGateways(g) ==
    /\ phase = "gateways" /\ g \in left
    /\ left' = left \ {g}
    /\ effective' = IF ClassOf[g] = "" THEN effective
                    ELSE WithEffective(g, Below(ByKind(ClassOf[g]), g))
    /\ UNCHANGED <<deployed, crds, policies, graph, phase, backend, todo, result>>

\* The EffectivePolicies of a Gateway, none if they were not calculated.
OfGateway(g) == IF g \in DOMAIN effective THEN effective[g] ELSE <<>>

calculateEffectivePoliciesForHTTPRoutes(r) ==
    /\ phase = "routes" /\ r \in left
    /\ left' = left \ {r}
    /\ effective' = WithEffective(r, [g \in Parents[r] |-> Below(OfGateway(g), r)])
    /\ UNCHANGED <<deployed, crds, policies, graph, phase, backend, todo, result>>

\* calculateEffectivePoliciesForBackends: a Backend, ...
BackendBegin(b) ==
    /\ phase = "backends" /\ backend = "" /\ b \in left
    /\ left' = left \ {b}
    /\ backend' = b /\ todo' = RoutesOf[b] /\ result' = <<>>
    /\ UNCHANGED <<deployed, crds, policies, graph, phase, effective>>

\* Mutant: the policies of the last route replace those of the others.
BackendRouteReplaces(r) ==
    /\ backend # "" /\ r \in todo
    /\ todo' = todo \ {r}
    /\ result' = [g \in DOMAIN result \cup DOMAIN effective[r] |->
                    IF g \in DOMAIN effective[r] THEN effective[r][g] ELSE result[g]]
    /\ UNCHANGED <<deployed, crds, policies, graph, phase, left, backend, effective>>

\* ... one of its routes, ...
BackendRoute(r) ==
    /\ backend # "" /\ r \in todo
    /\ todo' = todo \ {r}
    /\ result' = [g \in DOMAIN result \cup DOMAIN effective[r] |->
                    MergePoliciesOfSameHierarchy(
                        IF g \in DOMAIN result THEN result[g] ELSE <<>>,
                        IF g \in DOMAIN effective[r] THEN effective[r][g] ELSE <<>>)]
    /\ UNCHANGED <<deployed, crds, policies, graph, phase, left, backend, effective>>

\* ... and, after all of them, its own policies.
BackendEnd ==
    /\ backend # "" /\ todo = {}
    /\ effective' = WithEffective(backend, [g \in DOMAIN result |-> Below(result[g], backend)])
    /\ backend' = "" /\ result' = <<>>
    /\ UNCHANGED <<deployed, crds, policies, graph, phase, left, todo>>

CalculateNext ==
    \/ NextPhase
    \/ \E g \in DOMAIN ClassOf : calculateEffectivePoliciesForGateways(g)
    \/ \E r \in DOMAIN Parents : calculateEffectivePoliciesForHTTPRoutes(r)
    \/ \E b \in DOMAIN RoutesOf : BackendBegin(b)
    \/ \E r \in DOMAIN Parents : BackendRoute(r)
    \/ BackendEnd

-----------------------------------------------------------------------------
Cached == {policies[n] : n \in DOMAIN policies}

\* The levels above and including a node, from the top; those of a Gateway
\* without a class count for nothing.
GatewayChain(g) == IF ClassOf[g] = "" THEN <<>> ELSE <<ClassOf[g], NamespaceMap[g], g>>
RouteChain(r, g) == GatewayChain(g) \o <<NamespaceMap[r], r>>
BackendChain(b, r, g) == RouteChain(r, g) \o <<NamespaceMap[b], b>>

Attached(x, k) == {p \in Cached : p.target = x /\ p.kind = k}

Elements(seq) == {seq[i] : i \in DOMAIN seq}

Values(ps, s) == {p.override[s] : p \in {q \in ps : s \in DOMAIN q.override}}
Defaults(ps, s) == {p.default[s] : p \in {q \in ps : s \in DOMAIN q.default}}
SettingsOf(ps) == UNION {DOMAIN p.override \cup DOMAIN p.default : p \in ps}

\* The policies of a chain with their levels, from the top, at each level the one
\* with precedence last.
Places(chain, k) ==
    UNION {{i} \X Attached(chain[i], k) : i \in DOMAIN chain}
Before(a, b) == a[1] < b[1] \/ (a[1] = b[1] /\ Beats(b[2], a[2]))

\* The first override from the top, else the last default.
Highest(places) == CHOOSE a \in places : \A b \in places \ {a} : Before(a, b)
Lowest(places) == CHOOSE a \in places : \A b \in places \ {a} : Before(b, a)
Expected(places) ==
    [s \in SettingsOf({a[2] : a \in places}) |->
        LET overrides == {a \in places : s \in DOMAIN a[2].override}
            defaults == {a \in places : s \in DOMAIN a[2].default}
        IN  IF overrides # {} THEN Highest(overrides)[2].override[s]
            ELSE Lowest(defaults)[2].default[s]]

\* The settings that two policies of one level both override: the newer one wins.
Contested(places) ==
    {s \in SettingsOf({a[2] : a \in places}) : \E a, b \in places :
        a # b /\ a[1] = b[1] /\ s \in DOMAIN a[2].override \cap DOMAIN b[2].override}

\* A node has the settings of the chain, for each kind of which no level has three
\* policies, and but for the contested ones they are as the chain says.
Matches(byKind, chain) ==
    \A k \in KindsOf(deployed) :
        (\A x \in Elements(chain) : Cardinality(Attached(x, k)) <= 2) =>
            LET places == Places(chain, k)
                spec == EffectiveSpec(byKind[k])
                expected == Expected(places)
            IN  IF places = {} THEN k \notin DOMAIN byKind
                ELSE /\ k \in DOMAIN byKind
                     /\ DOMAIN spec = DOMAIN expected
                     /\ \A s \in DOMAIN spec \ Contested(places) : spec[s] = expected[s]

\* "A override > B override > C override > C default > B default > A default"
\* along the whole hierarchy. Of two policies of one level an override beats a
\* default and the older default the newer; where both override a setting the
\* code does not do what is documented, see OldestWins.
PrecedenceHolds ==
    phase = "done" =>
        /\ \A g \in DOMAIN ClassOf :
              ClassOf[g] # "" => Matches(effective[g], GatewayChain(g))
        /\ \A r \in DOMAIN Parents : \A g \in Parents[r] :
              Matches(effective[r][g], RouteChain(r, g))
        /\ \A b \in DOMAIN RoutesOf : \A r \in RoutesOf[b] : \A g \in Parents[r] :
              {q \in RoutesOf[b] : g \in Parents[q]} = {r} =>
                 Matches(effective[b][g], BackendChain(b, r, g))

\* Every policy is cached, unless one of another kind that has its name is.
NoneIsForgotten ==
    \A p \in deployed : \E q \in Cached : q.name = p.name /\ (q = p \/ q.kind # p.kind)

\* However many policies and routes there are and in whatever order they are
\* merged: no policy is lost on the way to the nodes, but to its namesake; and a
\* setting is effective for a Backend if and only if a policy above it has the
\* setting, an override if there is one, and its value is one that such a
\* policy gives.
NothingIsLostOrMadeUp ==
    phase = "done" =>
    /\ NoneIsForgotten
    /\ \A b \in DOMAIN RoutesOf : \A g \in DOMAIN effective[b], k \in KindsOf(deployed) :
        LET above == UNION {Attached(x, k) :
                x \in UNION {Elements(BackendChain(b, r, g)) :
                             r \in {q \in RoutesOf[b] : g \in Parents[q]}}}
            spec == IF k \in DOMAIN effective[b][g]
                    THEN EffectiveSpec(effective[b][g][k]) ELSE <<>>
        IN  /\ DOMAIN spec = SettingsOf(above)
            /\ \A s \in DOMAIN spec :
                 spec[s] \in IF Values(above, s) # {} THEN Values(above, s)
                             ELSE Defaults(above, s)

\* "The oldest Policy based on creation timestamp beats a newer one.": where only
\* policies of the Gateway itself are of a kind, a setting is as the oldest that
\* overrides it says, or else the oldest that has a default for it.
OldestWins ==
    phase = "done" =>
        \A g \in DOMAIN ClassOf, k \in KindsOf(deployed) :
            LET ps == Attached(g, k)
            IN  /\ ClassOf[g] # ""
                /\ Attached(ClassOf[g], k) = {} /\ Attached(NamespaceMap[g], k) = {}
                => \A s \in SettingsOf(ps) :
                     LET part == IF Values(ps, s) # {} THEN "override" ELSE "default"
                         having == {p \in ps : s \in DOMAIN p[part]}
                     IN  \A p \in having :
                           (\A q \in having \ {p} : q.created > p.created) =>
                               EffectiveSpec(effective[g][k])[s] = p[part][s]
=============================================================================
