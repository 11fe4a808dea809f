-------------------------------- MODULE Gwctl --------------------------------
(* A gwctl command that describes objects: the PolicyManager reads all       *)
(* policies, the Discoverer builds a ResourceModel while the cluster changes *)
(* (ResourceDiscovery), and the effective policies are calculated for the    *)
(* model it has got (EffectivePolicies).                                     *)
EXTENDS ResourceDiscovery

CONSTANTS Inherited     \* kinds of inherited policies

VARIABLES deployed, crds, graph, phase, left, backend, todo, result, effective

loopVars == <<graph, phase, left, backend, todo, result, effective>>
vars == <<setting, deployed, crds, policies, loopVars, discoveryVars>>

Effective == INSTANCE EffectivePolicies WITH
                NamespaceMap <- [x \in Members |-> NamespaceOf(x)]

\* Policies are finitely many and differ in kind or name, and a direct policy has
\* no overrides.
ASSUME PoliciesAssumption ==
    \A s \in DOMAIN Settings : \A ps \in Settings[s].deployments :
        /\ IsFiniteSet(ps)
        /\ \A p \in ps :
             /\ p \in [kind : {p.kind}, name : Nat, created : Nat, target : {p.target},
                      default : {p.default}, override : {p.override}]
             /\ p.kind \notin Inherited => DOMAIN p.override = {}
        /\ \A p, q \in ps : p.kind = q.kind /\ p.name = q.name => p = q

Init ==
    /\ setting \in DOMAIN Settings
    /\ Effective!PoliciesInit(Bound.deployments)
    /\ DiscoveryInit

\* PolicyManager.Init, before anything is discovered.
Load ==
    /\ \E k \in crds : Effective!fetchPolicies(k)
    /\ UNCHANGED discoveryVars

\* One of the DiscoverResourcesFor functions is called, ...
Describe ==
    /\ phase = "load" /\ crds = {}
    /\ \E a \in Bound.asked : Discover(a[1], a[2])
    /\ UNCHANGED <<deployed, crds, policies, loopVars>>

\* ... and does its steps.
Steps ==
    /\ DiscoveryNext
    /\ UNCHANGED <<deployed, crds, policies, loopVars>>

\* The connections that calculateEffectivePolicies follows.
Model ==
    Effective!ResourceModel(
        [g \in nodes \cap DOMAIN Gateways |->
            IF Connected(g, GatewayClasses) THEN Gateways[g].class ELSE ""],
        [r \in nodes \cap DOMAIN HTTPRoutes |->
            {g \in nodes \cap DOMAIN Gateways : <<r, g>> \in edges}],
        [b \in nodes \cap DOMAIN Backends |->
            {r \in nodes \cap DOMAIN HTTPRoutes : <<r, b>> \in edges}])

\* calculateEffectivePolicies, the last step of most functions: what it does
\* when no namespace is missing.
calculateEffectivePolicies ==
    /\ At("effective") /\ \A x \in NeedNamespace : Connected(x, Namespaces)
    /\ \/ Effective!Start(Model) /\ UNCHANGED discoveryVars
       \/ Effective!CalculateNext /\ UNCHANGED discoveryVars
       \/ /\ phase = "done" /\ Advance
          /\ UNCHANGED <<deployed, crds, policies, loopVars>>
          /\ UNCHANGED <<worldVars, visited, modelVars, outcome>>

Ended == (outcome # "running" \/ phase = "error") /\ UNCHANGED vars

Next ==
    /\ Load \/ Describe \/ Steps \/ calculateEffectivePolicies \/ Ended
    /\ UNCHANGED setting

Spec == Init /\ [][Next]_vars

-----------------------------------------------------------------------------
\* "A override > B override > C override > C default > B default > A default"
\* along every chain of the model, as it has been discovered, with all cached
\* policies of its nodes. Of two policies of one level an override beats a default
\* and the older default the newer; settings that both override are left out, the
\* code does not do there what is documented (OldestWins), and so are levels with
\* three policies of a kind.
PrecedenceHolds == Effective!PrecedenceHolds

\* However many policies and routes there are and in whatever order they are
\* merged: no policy is lost on the way to the nodes, but to its namesake of
\* another kind; and a setting is effective for a Backend if and only if a
\* policy above it has the setting, an override if there is one, and its value
\* is one that such a policy gives.
NothingIsLostOrMadeUp == Effective!NothingIsLostOrMadeUp

\* "The oldest Policy based on creation timestamp beats a newer one.": where only
\* policies of the Gateway itself are of a kind, a setting is as the oldest that
\* overrides it says, or else the oldest that has a default for it.
OldestWins == Effective!OldestWins

\* What exists from the beginning to the end of a command is described, whatever
\* else comes and goes between its calls: it is connected in the model, and a
\* Backend has effective policies for every lasting Gateway that lasting routes
\* connect it to; as long as no call fails.
LastingIsDescribed ==
    outcome = "done" /\ failures = 0 =>
        /\ LastingIsConnected
        /\ operation = "Backend" =>
             \A b \in nodes \cap DOMAIN Backends, r \in DOMAIN HTTPRoutes :
             \A g \in HTTPRoutes[r].parents :
                LastingReference(r, b) /\ Lasting(g) => g \in DOMAIN effective[b]
=============================================================================
