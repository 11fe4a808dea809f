----------------------------- MODULE GwctlProofs -----------------------------
(* What a gwctl command finds out while the cluster changes, for every set   *)
(* of objects, changes, failed calls and policies.                           *)
EXTENDS Gwctl, TLAPS

-----------------------------------------------------------------------------
(* Every step of a discovery keeps what the Discoverer knows.               *)

(* What is left to do, from the last step of a discovery to the first.       *)

FromEffective == <<"effective">>
FromPolicies == <<"policies", "effective">>
FromNamespaces == <<"namespaces", "policies", "effective">>
FromClasses == <<"classes", "namespaces", "policies", "effective">>
FromGateways == <<"gateways", "classes", "namespaces", "policies", "effective">>
FromRoutesOfGateways ==
    <<"routesFromGateways", "classes", "namespaces", "policies", "effective">>
FromRoutesOfBackends ==
    <<"routesFromBackends", "gateways", "classes", "namespaces", "policies", "effective">>
FromGrants ==
    <<"grants", "routesFromBackends", "gateways", "classes",
      "namespaces", "policies", "effective">>

PoliciesDone == {<<>>, FromEffective}
NamespacesDone == PoliciesDone \cup {FromPolicies}
ClassesDone == NamespacesDone \cup {FromNamespaces}
GatewaysDone == ClassesDone \cup {FromClasses}

\* The steps that an operation may have left.
StepsLeft(kind) ==
    CASE kind \in {"GatewayClass", "Namespace"} -> {<<>>, <<"policies">>}
      [] kind = "Gateway" -> GatewaysDone \cup {FromRoutesOfGateways}
      [] kind = "HTTPRoute" -> GatewaysDone \cup {FromGateways}
      [] kind = "Backend" ->
           GatewaysDone \cup {FromGateways, FromRoutesOfBackends, FromGrants}

-----------------------------------------------------------------------------
Kinds == {"GatewayClass", "Gateway", "HTTPRoute", "Backend", "Namespace"}

StartInv ==
    /\ setting \in DOMAIN Settings /\ failures \in Nat
    /\ operation \in Kinds \cup {""}
    /\ operation = "" =>
         /\ steps = <<>> /\ visited = {} /\ outcome = "running"
         /\ nodes = {} /\ edges = {} /\ errors = {}
    /\ operation # "" =>
         /\ Objects \ cluster \subseteq absent
         /\ steps \in StepsLeft(operation)
    /\ outcome = "done" => steps = <<>> /\ operation # ""

\* The ResourceModel is a graph of objects.
GraphInv ==
    /\ nodes \subseteq Objects
    /\ edges \subseteq nodes \X nodes
    /\ operation \in {"GatewayClass", "Namespace"} => nodes \cap Members = {}

\* What is known about an error at any time.
ErrorsAreTrue ==
    \A e \in errors :
        IF e[1] \in DOMAIN Backends
        THEN /\ HTTPRoutes[e[2]].ns # Backends[e[1]].ns
             /\ \A x \in DOMAIN ReferenceGrants : Lasting(x) =>
                    ~(ReferenceGrantExposes(x, e[1]) /\ ReferenceGrantAccepts(x, e[2]))
        ELSE ~Lasting(e[2])

\* A backend that was visited has all lasting grants that expose it.
GrantsInv ==
    /\ \A b \in nodes \cap DOMAIN Backends : <<b>> \in visited =>
         \A x \in DOMAIN ReferenceGrants :
            Lasting(x) /\ ReferenceGrantExposes(x, b) => <<x, b>> \in edges
    /\ steps = FromRoutesOfBackends =>
         \A b \in nodes \cap DOMAIN Backends : <<b>> \in visited

\* A reference that was visited was resolved or has an error.
RefsInv ==
    /\ \A r \in DOMAIN HTTPRoutes : \A g \in HTTPRoutes[r].parents :
         <<r, g>> \in visited => g \in nodes \/ <<r, g>> \in errors
    /\ steps \in GatewaysDone /\ operation # "Gateway" =>
         \A r \in nodes \cap DOMAIN HTTPRoutes : \A g \in HTTPRoutes[r].parents :
            <<r, g>> \in edges \cup errors

ClassesInv ==
    steps \in ClassesDone =>
        \A g \in nodes \cap DOMAIN Gateways : <<g, Gateways[g].class>> \in edges \cup errors

NamespacesInv ==
    steps \in NamespacesDone =>
        \A m \in nodes \cap Members :
            <<m, NamespaceOf(m)>> \in edges \/ ~Lasting(NamespaceOf(m))

\* Lasting routes are connected.
RoutesInv ==
    /\ operation = "Gateway" /\ steps # FromRoutesOfGateways =>
         \A r \in DOMAIN HTTPRoutes : Lasting(r) =>
            \A g \in HTTPRoutes[r].parents \cap nodes : <<r, g>> \in edges
    /\ operation = "Backend" /\ steps \in GatewaysDone \cup {FromGateways} =>
         \A r \in DOMAIN HTTPRoutes, b \in nodes \cap DOMAIN Backends :
            LastingReference(r, b) => <<r, b>> \in edges

DiscoveryInv ==
    /\ StartInv /\ GraphInv /\ ClassesInv /\ NamespacesInv
    /\ failures = 0 => ErrorsAreTrue /\ GrantsInv /\ RefsInv /\ RoutesInv
    /\ PanicNeedsLostNamespace

-----------------------------------------------------------------------------
(* Names and steps.                                                          *)

LEMMA KindsAreDisjoint ==
    /\ \A x \in Namespaces :
         x \notin GatewayClasses \cup DOMAIN Gateways \cup DOMAIN HTTPRoutes
               \cup DOMAIN Backends \cup DOMAIN ReferenceGrants
    /\ \A x \in GatewayClasses :
         x \notin DOMAIN Gateways \cup DOMAIN HTTPRoutes \cup DOMAIN Backends
               \cup DOMAIN ReferenceGrants
    /\ \A x \in DOMAIN Gateways :
         x \notin DOMAIN HTTPRoutes \cup DOMAIN Backends \cup DOMAIN ReferenceGrants
    /\ \A x \in DOMAIN HTTPRoutes : x \notin DOMAIN Backends \cup DOMAIN ReferenceGrants
    /\ \A x \in DOMAIN Backends : x \notin DOMAIN ReferenceGrants
<1> DEFINE kinds == <<Namespaces, GatewayClasses, DOMAIN Gateways, DOMAIN HTTPRoutes,
                      DOMAIN Backends, DOMAIN ReferenceGrants>>
<1>0. DOMAIN kinds = 1..6
  OBVIOUS
<1>1. \A i, j \in 1..6 : i # j => kinds[i] \cap kinds[j] = {}
  BY <1>0, NamesAssumption, Zenon
<1>2. /\ kinds[1] = Namespaces /\ kinds[2] = GatewayClasses /\ kinds[3] = DOMAIN Gateways
      /\ kinds[4] = DOMAIN HTTPRoutes /\ kinds[5] = DOMAIN Backends
      /\ kinds[6] = DOMAIN ReferenceGrants
  OBVIOUS
<1> HIDE DEF kinds
<1>3. /\ kinds[1] \cap kinds[2] = {} /\ kinds[1] \cap kinds[3] = {} /\ kinds[1] \cap kinds[4] = {}
      /\ kinds[1] \cap kinds[5] = {} /\ kinds[1] \cap kinds[6] = {} /\ kinds[2] \cap kinds[3] = {}
      /\ kinds[2] \cap kinds[4] = {} /\ kinds[2] \cap kinds[5] = {} /\ kinds[2] \cap kinds[6] = {}
      /\ kinds[3] \cap kinds[4] = {} /\ kinds[3] \cap kinds[5] = {} /\ kinds[3] \cap kinds[6] = {}
      /\ kinds[4] \cap kinds[5] = {} /\ kinds[4] \cap kinds[6] = {} /\ kinds[5] \cap kinds[6] = {}
  BY <1>1
<1> QED
  BY <1>2, <1>3

LEMMA ReferencesAreOfTheirKind ==
    /\ "" \notin Objects /\ "default" \in Namespaces
    /\ \A x \in Members : NamespaceOf(x) \in Namespaces
    /\ \A g \in DOMAIN Gateways : Gateways[g].class \in Objects => Gateways[g].class \in GatewayClasses
    /\ \A r \in DOMAIN HTTPRoutes : \A g \in HTTPRoutes[r].parents :
         g \in Objects => g \in DOMAIN Gateways
  BY NamesAssumption, Zenon DEF Namespaced

LEMMA StepsAreDistinct ==
    /\ FromEffective \notin {<<>>}
    /\ FromPolicies \notin PoliciesDone
    /\ FromNamespaces \notin NamespacesDone
    /\ FromClasses \notin ClassesDone
    /\ FromGateways \notin GatewaysDone
    /\ FromRoutesOfGateways \notin GatewaysDone
    /\ FromRoutesOfBackends \notin
         GatewaysDone \cup {FromGateways, FromRoutesOfGateways, <<"policies">>}
    /\ FromGrants \notin GatewaysDone \cup {FromGateways, FromRoutesOfBackends}
    /\ <<"policies">> \notin GatewaysDone
  BY DEF FromEffective, FromPolicies, FromNamespaces, FromClasses, FromGateways,
     FromRoutesOfGateways, FromRoutesOfBackends, FromGrants,
     PoliciesDone, NamespacesDone, ClassesDone, GatewaysDone

LEMMA HeadsAndTails ==
    /\ Head(FromEffective) = "effective" /\ Tail(FromEffective) = <<>>
    /\ Head(FromPolicies) = "policies" /\ Tail(FromPolicies) = FromEffective
    /\ Head(FromNamespaces) = "namespaces" /\ Tail(FromNamespaces) = FromPolicies
    /\ Head(FromClasses) = "classes" /\ Tail(FromClasses) = FromNamespaces
    /\ Head(FromGateways) = "gateways" /\ Tail(FromGateways) = FromClasses
    /\ Head(FromRoutesOfGateways) = "routesFromGateways" /\ Tail(FromRoutesOfGateways) = FromClasses
    /\ Head(FromRoutesOfBackends) = "routesFromBackends" /\ Tail(FromRoutesOfBackends) = FromGateways
    /\ Head(FromGrants) = "grants" /\ Tail(FromGrants) = FromRoutesOfBackends
    /\ Head(<<"policies">>) = "policies" /\ Tail(<<"policies">>) = <<>>
  BY DEF FromEffective, FromPolicies, FromNamespaces, FromClasses, FromGateways,
     FromRoutesOfGateways, FromRoutesOfBackends, FromGrants

LEMMA FirstSteps ==
    /\ \A kind \in Kinds : StepsFor(kind) \in StepsLeft(kind)
    /\ StepsFor("Gateway") = FromRoutesOfGateways
    /\ StepsFor("HTTPRoute") = FromGateways
    /\ StepsFor("Backend") = FromGrants
    /\ StepsFor("GatewayClass") = <<"policies">> /\ StepsFor("Namespace") = <<"policies">>
  BY DEF Kinds, StepsFor, StepsLeft, FromGateways, FromRoutesOfGateways, FromGrants

\* What the operation is, and what is left after it, when a step is done.
LEMMA StepIsOfOperation ==
    ASSUME StartInv, NEW s, At(s)
    PROVE  /\ operation # "" /\ Objects \ cluster \subseteq absent /\ outcome = "running"
           /\ Tail(steps) \in StepsLeft(operation)
           /\ \/ steps = <<"policies">> /\ operation \in {"GatewayClass", "Namespace"}
              \/ /\ operation \in {"Gateway", "HTTPRoute", "Backend"}
                 /\ \/ steps \in {FromEffective, FromPolicies, FromNamespaces, FromClasses}
                    \/ steps = FromRoutesOfGateways /\ operation = "Gateway"
                    \/ steps = FromGateways /\ operation \in {"HTTPRoute", "Backend"}
                    \/ steps \in {FromRoutesOfBackends, FromGrants} /\ operation = "Backend"
<1>1. operation \in Kinds /\ steps # <<>> /\ outcome = "running"
  BY Zenon DEF StartInv, At
<1>2. steps \in StepsLeft(operation) /\ Objects \ cluster \subseteq absent
  BY <1>1, Zenon DEF StartInv, Kinds
<1>3. CASE operation \in {"GatewayClass", "Namespace"}
  <2>1. steps = <<"policies">> /\ StepsLeft(operation) = {<<>>, <<"policies">>}
    BY <1>1, <1>2, <1>3 DEF StepsLeft
  <2> QED
    BY <1>1, <1>2, <1>3, <2>1, HeadsAndTails, Zenon
<1>4. CASE operation \in {"Gateway", "HTTPRoute", "Backend"}
  <2> DEFINE F == GatewaysDone \cup (IF operation = "Gateway" THEN {FromRoutesOfGateways}
                       ELSE IF operation = "HTTPRoute" THEN {FromGateways}
                       ELSE {FromGateways, FromRoutesOfBackends, FromGrants})
  <2>1. StepsLeft(operation) = F
    BY <1>4 DEF StepsLeft
  <2>2. steps \in F
    BY <1>2, <2>1
  <2>3. \/ steps \in {FromEffective, FromPolicies, FromNamespaces, FromClasses}
        \/ steps = FromRoutesOfGateways /\ operation = "Gateway"
        \/ steps = FromGateways /\ operation \in {"HTTPRoute", "Backend"}
        \/ steps \in {FromRoutesOfBackends, FromGrants} /\ operation = "Backend"
    BY <1>1, <1>4, <2>2 DEF GatewaysDone, ClassesDone, NamespacesDone, PoliciesDone
  <2>4. Tail(steps) \in F
    BY <1>4, <2>3, HeadsAndTails, Zenon DEF GatewaysDone, ClassesDone, NamespacesDone, PoliciesDone
  <2> QED
    BY <1>1, <1>2, <1>4, <2>1, <2>3, <2>4, Zenon
<1> QED
  BY <1>1, <1>3, <1>4, Zenon DEF Kinds

LEMMA AtRoutesOfGateways ==
    ASSUME StartInv, At("routesFromGateways")
    PROVE  steps = FromRoutesOfGateways /\ Tail(steps) = FromClasses /\ operation = "Gateway"
  BY StepIsOfOperation, HeadsAndTails, Zenon DEF At

LEMMA AtRoutesOfBackends ==
    ASSUME StartInv, At("routesFromBackends")
    PROVE  steps = FromRoutesOfBackends /\ Tail(steps) = FromGateways /\ operation = "Backend"
  BY StepIsOfOperation, HeadsAndTails, Zenon DEF At

LEMMA AtGrants ==
    ASSUME StartInv, At("grants")
    PROVE  steps = FromGrants /\ Tail(steps) = FromRoutesOfBackends /\ operation = "Backend"
  BY StepIsOfOperation, HeadsAndTails, Zenon DEF At

LEMMA AtGateways ==
    ASSUME StartInv, At("gateways")
    PROVE  /\ steps = FromGateways /\ Tail(steps) = FromClasses
           /\ operation \in {"HTTPRoute", "Backend"}
  BY StepIsOfOperation, HeadsAndTails, Zenon DEF At

LEMMA AtClasses ==
    ASSUME StartInv, At("classes")
    PROVE  /\ steps = FromClasses /\ Tail(steps) = FromNamespaces
           /\ operation \in {"Gateway", "HTTPRoute", "Backend"}
  BY StepIsOfOperation, HeadsAndTails, Zenon DEF At

LEMMA AtNamespaces ==
    ASSUME StartInv, At("namespaces")
    PROVE  /\ steps = FromNamespaces /\ Tail(steps) = FromPolicies
           /\ operation \in {"Gateway", "HTTPRoute", "Backend"}
  BY StepIsOfOperation, HeadsAndTails, Zenon DEF At

LEMMA AtPolicies ==
    ASSUME StartInv, At("policies")
    PROVE  \/ /\ steps = FromPolicies /\ Tail(steps) = FromEffective
              /\ operation \in {"Gateway", "HTTPRoute", "Backend"}
           \/ /\ steps = <<"policies">> /\ Tail(steps) = <<>>
              /\ operation \in {"GatewayClass", "Namespace"}
  BY StepIsOfOperation, HeadsAndTails, Zenon DEF At

LEMMA AtEffective ==
    ASSUME StartInv, At("effective")
    PROVE  /\ steps = FromEffective /\ Tail(steps) = <<>>
           /\ operation \in {"Gateway", "HTTPRoute", "Backend"}
  BY StepIsOfOperation, HeadsAndTails, Zenon DEF At

-----------------------------------------------------------------------------
(* One lemma per action.                                                     *)

\* Nothing lasts that has not lasted before.
LEMMA LastingShrinks ==
    ASSUME absent \subseteq absent'
    PROVE  \A x : Lasting(x)' => Lasting(x)
  BY DEF Lasting

LEMMA ChangeStep ==
    ASSUME DiscoveryInv, NEW o, Change(o), UNCHANGED setting
    PROVE  DiscoveryInv'
<1> USE DEF DiscoveryInv
<1>1. /\ UNCHANGED <<setting, failures, operation, steps, visited, nodes, edges, errors, outcome>>
      /\ outcome = "running" /\ absent \subseteq absent' /\ operation # ""
  BY Zenon DEF Change, modelVars
<1>2. \A x : Lasting(x)' => Lasting(x)
  BY <1>1, LastingShrinks, Zenon
<1>3. Objects \ cluster' \subseteq absent'
  BY Zenon DEF Change, StartInv
<1>4. StartInv'
  BY <1>1, <1>3, Zenon DEF StartInv
<1>5. GraphInv' /\ ClassesInv' /\ PanicNeedsLostNamespace'
  BY <1>1, Zenon DEF GraphInv, ClassesInv, PanicNeedsLostNamespace
<1>6. NamespacesInv'
  BY <1>1, <1>2, Zenon DEF NamespacesInv
<1>7. ASSUME failures' = 0 PROVE ErrorsAreTrue' /\ GrantsInv' /\ RefsInv'
  BY <1>1, <1>2, <1>7, Zenon DEF ErrorsAreTrue, GrantsInv, RefsInv
<1>8. ASSUME failures' = 0 PROVE RoutesInv'
  BY <1>1, <1>2, <1>8, Zenon DEF RoutesInv, LastingReference
<1> QED
  BY <1>4, <1>5, <1>6, <1>7, <1>8

\* What no step but a change of the cluster touches.
LEMMA CallStep ==
    ASSUME StartInv, Call \/ FailedCall
    PROVE  /\ UNCHANGED cluster /\ failures' \in Nat
           /\ failures' = 0 => failures = 0 /\ Call
<1>1. CASE Call
  BY <1>1, Zenon DEF StartInv, Call, worldVars
<1>2. CASE FailedCall
  <2>1. UNCHANGED cluster /\ failures' = failures + 1 /\ failures \in Nat
    BY <1>2, Zenon DEF StartInv, FailedCall
  <2> QED
    BY <2>1
<1> QED
  BY <1>1, <1>2

LEMMA CallIsNoFailure == StartInv /\ FailedCall => ~Call
<1>1. FailedCall => failures' = failures + 1
  BY DEF FailedCall
<1>2. Call => failures' = failures
  BY DEF Call, worldVars
<1>3. StartInv => failures \in Nat
  BY Zenon DEF StartInv
<1> QED
  BY <1>1, <1>2, <1>3

LEMMA ListedAre ==
    /\ Listed("HTTPRoute") = DOMAIN HTTPRoutes \cap cluster
    /\ Listed("GatewayClass") = GatewayClasses \cap cluster
  BY DEF Listed, OfKind

\* What lasts is there when it is looked for.
LEMMA LastingExists ==
    ASSUME Objects \ cluster \subseteq absent
    PROVE  \A x : Lasting(x) => x \in cluster /\ x \in Objects
  BY DEF Lasting

LEMMA DiscoverStep ==
    ASSUME DiscoveryInv, NEW a \in Bound.asked, Discover(a[1], a[2]), UNCHANGED setting
    PROVE  DiscoveryInv'
<1> USE DEF DiscoveryInv
<1>1. a[1] \in Kinds /\ a[2] \subseteq OfKind(a[1])
  BY SettingsAssumption, Zenon DEF StartInv, Bound, Kinds
<1>2. /\ operation' = a[1] /\ absent' = Objects \ cluster /\ UNCHANGED cluster
      /\ failures' \in Nat /\ a[1] # ""
      /\ visited' = {} /\ edges' = {} /\ errors' = {}
  BY <1>1, CallStep, Zenon DEF Discover, StartInv, Kinds
<1>3. \/ nodes' = a[2] \cap cluster /\ steps' = StepsFor(a[1]) /\ outcome' = "running"
      \/ nodes' = {} /\ steps' = <<>> /\ outcome' = "error"
  BY Zenon DEF Discover, StartInv
<1>4. /\ OfKind(a[1]) \subseteq Objects
      /\ a[1] \in {"GatewayClass", "Namespace"} => OfKind(a[1]) \cap Members = {}
      /\ a[1] # "HTTPRoute" => OfKind(a[1]) \cap DOMAIN HTTPRoutes = {}
  BY <1>1, KindsAreDisjoint DEF Kinds, OfKind, Objects, Members
<1>5. <<>> \in StepsLeft(a[1])
  BY <1>1 DEF Kinds, StepsLeft, GatewaysDone, ClassesDone, NamespacesDone, PoliciesDone
<1>6. StartInv'
  BY <1>1, <1>2, <1>3, <1>5, FirstSteps, Zenon DEF StartInv
<1>7. GraphInv'
  BY <1>1, <1>2, <1>3, <1>4, Zenon DEF GraphInv
<1>8. steps' \in GatewaysDone => nodes' = {}
  BY <1>1, <1>3, FirstSteps, StepsAreDistinct DEF Kinds
<1>9. ClassesInv' /\ NamespacesInv'
  BY <1>8 DEF ClassesInv, NamespacesInv, GatewaysDone, ClassesDone
<1>10. PanicNeedsLostNamespace'
  BY <1>3 DEF PanicNeedsLostNamespace
<1>11. ErrorsAreTrue'
  BY <1>2, Zenon DEF ErrorsAreTrue
<1>12. steps' # FromRoutesOfBackends /\ (operation' = "Backend" => steps' # FromGateways)
  BY <1>1, <1>2, <1>3, FirstSteps, StepsAreDistinct, Zenon DEF Kinds, GatewaysDone, ClassesDone, NamespacesDone, PoliciesDone
<1>13. GrantsInv' /\ RefsInv'
  BY <1>2, <1>8, <1>12, Zenon DEF GrantsInv, RefsInv
<1>14. operation' = "Gateway" /\ steps' # FromRoutesOfGateways => nodes' = {}
  BY <1>2, <1>3, FirstSteps
<1>15. RoutesInv'
  BY <1>8, <1>12, <1>14 DEF RoutesInv
<1> QED
  BY <1>6, <1>7, <1>9, <1>10, <1>11, <1>13, <1>15

LEMMA RoutesOfGatewaysStep ==
    ASSUME DiscoveryInv, discoverHTTPRoutesFromGateways, UNCHANGED setting
    PROVE  DiscoveryInv'
<1> USE DEF DiscoveryInv
<1>1. /\ At("routesFromGateways") /\ outcome = "running" /\ (Call \/ FailedCall)
      /\ UNCHANGED <<operation, absent, visited, errors, outcome, setting>> /\ steps' = Tail(steps)
  BY DEF discoverHTTPRoutesFromGateways, At, Advance
<1>2. /\ steps' = FromClasses /\ operation = "Gateway" /\ Objects \ cluster \subseteq absent
      /\ steps' \in StepsLeft(operation)
  BY <1>1, StepIsOfOperation, AtRoutesOfGateways
<1>3. PICK routes \in SUBSET DOMAIN HTTPRoutes :
         RoutesFromGateways(routes) /\ (Call => routes = DOMAIN HTTPRoutes \cap cluster)
  <2>1. CASE Call /\ RoutesFromGateways(Listed("HTTPRoute"))
    BY <2>1, ListedAre
  <2>2. CASE FailedCall /\ RoutesFromGateways({})
    BY <2>2, CallIsNoFailure
  <2> QED
    BY <2>1, <2>2 DEF discoverHTTPRoutesFromGateways
<1> DEFINE parents == {e \in routes \X (nodes \cap DOMAIN Gateways) : e[2] \in HTTPRoutes[e[1]].parents}
<1>4. nodes' = nodes \cup {e[1] : e \in parents} /\ edges' = edges \cup parents
  BY <1>3 DEF RoutesFromGateways, FindGatewayRefsForHTTPRoute
<1>5. {e[1] : e \in parents} \subseteq DOMAIN HTTPRoutes
  OBVIOUS
<1>6. StartInv'
  BY <1>1, <1>2, CallStep DEF StartInv
<1>7. GraphInv'
  <2>1. nodes' \subseteq Objects
    BY <1>4, <1>5 DEF GraphInv, Objects
  <2>2. edges' \subseteq nodes' \X nodes'
    BY <1>4 DEF GraphInv
  <2> QED
    BY <1>1, <1>2, <2>1, <2>2 DEF GraphInv
<1>8. ClassesInv' /\ NamespacesInv' /\ PanicNeedsLostNamespace'
  <2>1. steps' \notin ClassesDone /\ steps' \notin NamespacesDone
    BY <1>2, StepsAreDistinct DEF ClassesDone
  <2> QED
    BY <1>1, <2>1 DEF ClassesInv, NamespacesInv, PanicNeedsLostNamespace
<1>9. ASSUME failures' = 0 PROVE ErrorsAreTrue' /\ GrantsInv' /\ RefsInv'
  <2>1. ErrorsAreTrue /\ GrantsInv /\ RefsInv
    BY <1>1, <1>9, CallStep
  <2>2. \A b \in nodes' \cap DOMAIN Backends : b \in nodes
    BY <1>4, <1>5, KindsAreDisjoint
  <2>3. ErrorsAreTrue'
    BY <1>1, <2>1 DEF ErrorsAreTrue, Lasting
  <2>4. GrantsInv'
    BY <1>1, <1>2, <1>4, <2>1, <2>2, StepsAreDistinct, Zenon DEF GrantsInv, Lasting, GatewaysDone
  <2>5. RefsInv'
    BY <1>1, <1>2, <1>4, <2>1 DEF RefsInv
  <2> QED
    BY <2>3, <2>4, <2>5
<1>10. ASSUME failures' = 0 PROVE RoutesInv'
  <2>1. ASSUME NEW r \in DOMAIN HTTPRoutes, Lasting(r), NEW g \in HTTPRoutes[r].parents \cap nodes'
        PROVE  <<r, g>> \in edges'
    <3>1. r \in routes
      BY <1>1, <1>2, <1>3, <1>10, <2>1, LastingExists, CallStep
    <3>2. g \in DOMAIN Gateways
      BY <1>7, ReferencesAreOfTheirKind, Zenon DEF GraphInv
    <3>3. g \in nodes
      BY <1>4, <1>5, <3>2, KindsAreDisjoint
    <3> QED
      BY <1>4, <3>1, <3>2, <3>3
  <2> QED
    BY <1>1, <1>2, <2>1 DEF RoutesInv, Lasting
<1> QED
  BY <1>6, <1>7, <1>8, <1>9, <1>10

LEMMA ClassesStep ==
    ASSUME DiscoveryInv, discoverGatewayClassesFromGateways, UNCHANGED setting
    PROVE  DiscoveryInv'
<1> USE DEF DiscoveryInv
<1>1. /\ At("classes") /\ outcome = "running" /\ (Call \/ FailedCall)
      /\ UNCHANGED <<operation, absent, visited, outcome, setting>> /\ steps' = Tail(steps)
  BY DEF discoverGatewayClassesFromGateways, At, Advance
<1>2. /\ steps = FromClasses /\ steps' = FromNamespaces /\ operation \in {"Gateway", "HTTPRoute", "Backend"}
      /\ Objects \ cluster \subseteq absent /\ steps' \in StepsLeft(operation)
  BY <1>1, StepIsOfOperation, AtClasses, Zenon
<1>3. PICK classes \in SUBSET GatewayClasses :
         ClassesFromGateways(classes) /\ (Call => classes = GatewayClasses \cap cluster)
  <2>1. CASE Call /\ ClassesFromGateways(Listed("GatewayClass"))
    BY <2>1, ListedAre
  <2>2. CASE FailedCall /\ ClassesFromGateways({})
    BY <2>2, CallIsNoFailure
  <2> QED
    BY <2>1, <2>2 DEF discoverGatewayClassesFromGateways
<1> DEFINE gateways == nodes \cap DOMAIN Gateways
           known == {g \in gateways : Gateways[g].class \in classes}
<1>4. /\ nodes' = nodes \cup {Gateways[g].class : g \in known}
      /\ edges' = edges \cup {<<g, Gateways[g].class>> : g \in known}
      /\ errors' = errors \cup {<<g, Gateways[g].class>> : g \in gateways \ known}
  BY <1>3 DEF ClassesFromGateways
<1>5. {Gateways[g].class : g \in known} \subseteq GatewayClasses
  OBVIOUS
<1>6. StartInv'
  BY <1>1, <1>2, CallStep, Zenon DEF StartInv
<1>7. GraphInv'
  <2>1. nodes' \subseteq Objects
    BY <1>4, <1>5 DEF GraphInv, Objects
  <2>2. edges' \subseteq nodes' \X nodes'
    BY <1>4 DEF GraphInv
  <2> QED
    BY <1>1, <1>2, <2>1, <2>2 DEF GraphInv
<1>8. /\ nodes' \cap DOMAIN Gateways = nodes \cap DOMAIN Gateways
      /\ nodes' \cap DOMAIN HTTPRoutes = nodes \cap DOMAIN HTTPRoutes
      /\ nodes' \cap DOMAIN Backends = nodes \cap DOMAIN Backends
      /\ nodes \subseteq nodes' /\ edges \subseteq edges' /\ errors \subseteq errors'
  BY <1>4, <1>5, KindsAreDisjoint
<1>9. ClassesInv'
  BY <1>4, <1>8 DEF ClassesInv
<1>10. NamespacesInv' /\ PanicNeedsLostNamespace'
  BY <1>1, <1>2, StepsAreDistinct, Zenon DEF NamespacesInv, PanicNeedsLostNamespace
<1>11. ASSUME failures' = 0 PROVE ErrorsAreTrue'
  <2>1. ErrorsAreTrue /\ classes = GatewayClasses \cap cluster
    BY <1>1, <1>3, <1>11, CallStep
  <2>2. ASSUME NEW g \in gateways \ known PROVE ~Lasting(Gateways[g].class)
    BY <1>2, <2>1, LastingExists, ReferencesAreOfTheirKind, Zenon
  <2>3. \A e \in errors' \ errors : e[1] \notin DOMAIN Backends /\ ~Lasting(e[2])
    BY <1>4, <2>2, KindsAreDisjoint
  <2> QED
    BY <1>1, <2>1, <2>3 DEF ErrorsAreTrue, Lasting
<1>12. ASSUME failures' = 0 PROVE GrantsInv' /\ RefsInv'
  <2>1. GrantsInv /\ RefsInv
    BY <1>1, <1>12, CallStep
  <2>2. GrantsInv'
    BY <1>1, <1>2, <1>8, <2>1, StepsAreDistinct, Zenon
       DEF GrantsInv, Lasting, GatewaysDone, ClassesDone
  <2>3. RefsInv'
    BY <1>1, <1>2, <1>8, <2>1 DEF RefsInv, GatewaysDone
  <2> QED
    BY <2>2, <2>3
<1>13. ASSUME failures' = 0 PROVE RoutesInv'
  <2>1. RoutesInv
    BY <1>1, <1>13, CallStep
  <2>2. \A r \in DOMAIN HTTPRoutes : \A g \in HTTPRoutes[r].parents \cap nodes' : g \in nodes
    BY <1>7, <1>8, ReferencesAreOfTheirKind, Zenon DEF GraphInv
  <2>3. steps # FromRoutesOfGateways /\ steps \in GatewaysDone
    BY <1>2, StepsAreDistinct DEF GatewaysDone
  <2> QED
    BY <1>1, <1>8, <2>1, <2>2, <2>3 DEF RoutesInv, LastingReference, Lasting
<1> QED
  BY <1>6, <1>7, <1>9, <1>10, <1>11, <1>12, <1>13

LEMMA FetchGatewayStep ==
    ASSUME DiscoveryInv, NEW r \in DOMAIN HTTPRoutes, NEW g \in HTTPRoutes[r].parents,
           FetchGateway(r, g), UNCHANGED setting
    PROVE  DiscoveryInv'
<1> USE DEF DiscoveryInv
<1>1. /\ At("gateways") /\ outcome = "running" /\ (Call \/ FailedCall)
      /\ UNCHANGED <<operation, steps, edges, absent, outcome, setting>>
      /\ visited' = visited \cup {<<r, g>>}
  BY DEF FetchGateway, At
<1>2. /\ steps = FromGateways /\ operation \in {"HTTPRoute", "Backend"}
      /\ Objects \ cluster \subseteq absent
  BY <1>1, StepIsOfOperation, AtGateways, Zenon
<1>3. \/ nodes' = nodes \cup {g} /\ g \in DOMAIN Gateways /\ UNCHANGED errors
      \/ errors' = errors \cup {<<r, g>>} /\ UNCHANGED nodes /\ Call /\ g \notin DOMAIN Gateways \cap cluster
      \/ FailedCall /\ UNCHANGED <<nodes, errors>>
  BY DEF FetchGateway
<1>4. /\ nodes' \cap DOMAIN HTTPRoutes = nodes \cap DOMAIN HTTPRoutes
      /\ nodes' \cap DOMAIN Backends = nodes \cap DOMAIN Backends
      /\ nodes \subseteq nodes' /\ errors \subseteq errors'
  BY <1>3, KindsAreDisjoint
<1>5. StartInv'
  BY <1>1, <1>2, CallStep, Zenon DEF StartInv
<1>6. GraphInv'
  BY <1>1, <1>2, <1>3 DEF GraphInv, Objects
<1>7. steps' \notin ClassesDone /\ steps' \notin NamespacesDone /\ steps' \notin GatewaysDone
  BY <1>1, <1>2, StepsAreDistinct DEF GatewaysDone, ClassesDone
<1>8. ClassesInv' /\ NamespacesInv' /\ PanicNeedsLostNamespace'
  BY <1>1, <1>7 DEF ClassesInv, NamespacesInv, PanicNeedsLostNamespace
<1>9. ASSUME failures' = 0 PROVE ErrorsAreTrue'
  <2>1. ErrorsAreTrue
    BY <1>1, <1>9, CallStep
  <2>2. \A e \in errors' \ errors : e[1] \notin DOMAIN Backends /\ ~Lasting(e[2])
    <3>1. r \notin DOMAIN Backends
      BY KindsAreDisjoint
    <3>2. g \notin DOMAIN Gateways \cap cluster => ~Lasting(g)
      BY <1>2, LastingExists, ReferencesAreOfTheirKind, Zenon
    <3> QED
      BY <1>3, <3>1, <3>2
  <2> QED
    BY <1>1, <2>1, <2>2 DEF ErrorsAreTrue, Lasting
<1>10. ASSUME failures' = 0 PROVE GrantsInv' /\ RefsInv' /\ RoutesInv'
  <2>1. GrantsInv /\ RefsInv /\ RoutesInv
    BY <1>1, <1>10, CallStep
  <2>2. GrantsInv'
    BY <1>1, <1>2, <1>4, <2>1, StepsAreDistinct DEF GrantsInv, Lasting
  <2>3. g \in nodes' \/ <<r, g>> \in errors'
    BY <1>1, <1>3, <1>10, CallStep, CallIsNoFailure
  <2>4. RefsInv'
    BY <1>1, <1>4, <1>7, <2>1, <2>3 DEF RefsInv
  <2>5. RoutesInv'
    BY <1>1, <1>2, <1>4, <2>1 DEF RoutesInv, LastingReference, Lasting
  <2> QED
    BY <2>2, <2>4, <2>5
<1> QED
  BY <1>5, <1>6, <1>8, <1>9, <1>10

LEMMA GatewayRefsAre ==
    \A r \in nodes \cap DOMAIN HTTPRoutes : \A g \in HTTPRoutes[r].parents :
        <<r, g>> \in GatewayRefs
  BY DEF GatewayRefs, FindGatewayRefsForHTTPRoute

LEMMA GatewayRefsAreOfNodes == \A e \in GatewayRefs : e = <<e[1], e[2]>> /\ e[1] \in nodes
  BY DEF GatewayRefs

LEMMA ConnectGatewaysStep ==
    ASSUME DiscoveryInv, ConnectGateways, UNCHANGED setting
    PROVE  DiscoveryInv'
<1> USE DEF DiscoveryInv
<1>1. /\ At("gateways") /\ outcome = "running" /\ steps' = Tail(steps)
      /\ UNCHANGED <<operation, absent, cluster, failures, visited, nodes, errors, outcome, setting>>
      /\ edges' = edges \cup {e \in GatewayRefs : e[2] \in nodes}
      /\ \A e \in GatewayRefs : e \in visited \/ e[2] \in nodes
  BY DEF ConnectGateways, At, Advance, worldVars
<1>2. /\ steps = FromGateways /\ steps' = FromClasses /\ operation \in {"HTTPRoute", "Backend"}
      /\ Objects \ cluster \subseteq absent /\ steps' \in StepsLeft(operation)
  BY <1>1, StepIsOfOperation, AtGateways, Zenon
<1>3. StartInv'
  BY <1>1, <1>2, Zenon DEF StartInv
<1>4. edges' \subseteq nodes \X nodes /\ edges \subseteq edges'
  BY <1>1, GatewayRefsAreOfNodes DEF GraphInv
<1>5. GraphInv'
  BY <1>1, <1>2, <1>4 DEF GraphInv
<1>6. steps' \notin ClassesDone /\ steps' \notin NamespacesDone
  BY <1>2, StepsAreDistinct DEF ClassesDone
<1>7. ClassesInv' /\ NamespacesInv' /\ PanicNeedsLostNamespace'
  BY <1>1, <1>6 DEF ClassesInv, NamespacesInv, PanicNeedsLostNamespace
<1>8. ASSUME failures' = 0 PROVE ErrorsAreTrue' /\ GrantsInv' /\ RoutesInv'
  <2>1. ErrorsAreTrue'
    BY <1>1, <1>8 DEF ErrorsAreTrue, Lasting
  <2>2. GrantsInv'
    BY <1>1, <1>2, <1>4, <1>8, StepsAreDistinct, Zenon DEF GrantsInv, Lasting, GatewaysDone
  <2>3. RoutesInv'
    BY <1>1, <1>2, <1>4, <1>8 DEF RoutesInv, LastingReference, Lasting
  <2> QED
    BY <2>1, <2>2, <2>3
<1>9. ASSUME failures' = 0 PROVE RefsInv'
  <2>1. RefsInv
    BY <1>1, <1>9
  <2>2. ASSUME NEW r \in nodes \cap DOMAIN HTTPRoutes, NEW g \in HTTPRoutes[r].parents
        PROVE  <<r, g>> \in edges' \cup errors
    <3>1. <<r, g>> \in GatewayRefs
      BY GatewayRefsAre
    <3>2. <<r, g>>[2] = g
      OBVIOUS
    <3>3. CASE g \in nodes
      BY <1>1, <3>1, <3>2, <3>3
    <3>4. CASE g \notin nodes
      <4>1. <<r, g>> \in visited
        BY <1>1, <3>1, <3>2, <3>4
      <4> QED
        BY <2>1, <3>4, <4>1 DEF RefsInv
    <3> QED
      BY <3>3, <3>4
  <2> QED
    BY <1>1, <2>1, <2>2 DEF RefsInv
<1> QED
  BY <1>3, <1>5, <1>7, <1>8, <1>9

LEMMA FetchReferenceGrantsStep ==
    ASSUME DiscoveryInv, NEW b \in DOMAIN Backends, FetchReferenceGrants(b), UNCHANGED setting
    PROVE  DiscoveryInv'
<1> USE DEF DiscoveryInv
<1> DEFINE exposing == {x \in DOMAIN ReferenceGrants \cap cluster : ReferenceGrantExposes(x, b)}
<1>1. /\ At("grants") /\ outcome = "running" /\ (Call \/ FailedCall) /\ b \in nodes
      /\ UNCHANGED <<operation, steps, errors, absent, setting>>
      /\ visited' = visited \cup {<<b>>} /\ outcome' \in {"running", "exit"}
  BY DEF FetchReferenceGrants, At
<1>2. /\ steps = FromGrants /\ operation = "Backend" /\ Objects \ cluster \subseteq absent
  BY <1>1, StepIsOfOperation, AtGrants
<1>3. \/ Call /\ nodes' = nodes \cup exposing /\ edges' = edges \cup (exposing \X {b})
      \/ FailedCall /\ UNCHANGED <<nodes, edges>>
  BY DEF FetchReferenceGrants
<1>4. /\ nodes' \cap DOMAIN HTTPRoutes = nodes \cap DOMAIN HTTPRoutes
      /\ nodes' \cap DOMAIN Backends = nodes \cap DOMAIN Backends
      /\ nodes \subseteq nodes' /\ edges \subseteq edges'
  BY <1>3, KindsAreDisjoint
<1>5. StartInv'
  BY <1>1, <1>2, CallStep DEF StartInv
<1>6. GraphInv'
  <2>1. nodes' \subseteq Objects
    BY <1>3 DEF GraphInv, Objects
  <2>2. edges' \subseteq nodes' \X nodes'
    BY <1>1, <1>3 DEF GraphInv
  <2> QED
    BY <1>1, <1>2, <2>1, <2>2 DEF GraphInv
<1>7. /\ steps' \notin ClassesDone /\ steps' \notin NamespacesDone
      /\ steps' \notin GatewaysDone \cup {FromGateways, FromRoutesOfBackends}
  BY <1>1, <1>2, StepsAreDistinct DEF GatewaysDone, ClassesDone
<1>8. ClassesInv' /\ NamespacesInv' /\ PanicNeedsLostNamespace'
  BY <1>1, <1>7 DEF ClassesInv, NamespacesInv, PanicNeedsLostNamespace
<1>9. ASSUME failures' = 0 PROVE GrantsInv'
  <2>1. GrantsInv /\ Call
    BY <1>1, <1>9, CallStep
  <2>2. edges' = edges \cup (exposing \X {b})
    BY <1>3, <2>1, CallIsNoFailure
  <2>3. ASSUME NEW x \in DOMAIN ReferenceGrants, Lasting(x), ReferenceGrantExposes(x, b)
        PROVE  <<x, b>> \in edges'
    BY <1>2, <2>2, <2>3, LastingExists
  <2>4. \A c \in DOMAIN Backends : c # b => <<c>> # <<b>>
    OBVIOUS
  <2> QED
    BY <1>1, <1>4, <1>7, <2>1, <2>3, <2>4, Zenon DEF GrantsInv, Lasting
<1>10. ASSUME failures' = 0 PROVE ErrorsAreTrue' /\ RefsInv' /\ RoutesInv'
  <2>1. ErrorsAreTrue /\ RefsInv /\ RoutesInv
    BY <1>1, <1>10, CallStep
  <2>2. ErrorsAreTrue'
    BY <1>1, <2>1 DEF ErrorsAreTrue, Lasting
  <2>3. \A r, g : <<r, g>> # <<b>>
    OBVIOUS
  <2>4. RefsInv'
    BY <1>1, <1>4, <1>7, <2>1, <2>3 DEF RefsInv
  <2>5. RoutesInv'
    BY <1>1, <1>2, <1>7 DEF RoutesInv
  <2> QED
    BY <2>2, <2>4, <2>5
<1> QED
  BY <1>5, <1>6, <1>8, <1>9, <1>10

LEMMA ReferenceGrantsFetchedStep ==
    ASSUME DiscoveryInv, ReferenceGrantsFetched, UNCHANGED setting
    PROVE  DiscoveryInv'
<1> USE DEF DiscoveryInv
<1>1. /\ At("grants") /\ outcome = "running" /\ steps' = Tail(steps)
      /\ UNCHANGED <<operation, absent, cluster, failures, visited, nodes, edges, errors, outcome, setting>>
      /\ \A b \in nodes \cap DOMAIN Backends : <<b>> \in visited
  BY DEF ReferenceGrantsFetched, At, Advance, worldVars, modelVars
<1>2. /\ steps = FromGrants /\ steps' = FromRoutesOfBackends /\ operation = "Backend"
      /\ Objects \ cluster \subseteq absent /\ steps' \in StepsLeft(operation)
  BY <1>1, StepIsOfOperation, AtGrants
<1>3. StartInv'
  BY <1>1, <1>2 DEF StartInv
<1>4. GraphInv'
  BY <1>1 DEF GraphInv
<1>5. /\ steps' \notin ClassesDone /\ steps' \notin NamespacesDone
      /\ steps' \notin GatewaysDone \cup {FromGateways}
  BY <1>2, StepsAreDistinct DEF GatewaysDone, ClassesDone
<1>6. ClassesInv' /\ NamespacesInv' /\ PanicNeedsLostNamespace'
  BY <1>1, <1>5 DEF ClassesInv, NamespacesInv, PanicNeedsLostNamespace
<1>7. ASSUME failures' = 0 PROVE ErrorsAreTrue' /\ GrantsInv' /\ RefsInv' /\ RoutesInv'
  <2>1. ErrorsAreTrue'
    BY <1>1, <1>7 DEF ErrorsAreTrue, Lasting
  <2>2. GrantsInv'
    BY <1>1, <1>7 DEF GrantsInv, Lasting
  <2>3. RefsInv' /\ RoutesInv'
    BY <1>1, <1>2, <1>5, <1>7 DEF RefsInv, RoutesInv
  <2> QED
    BY <2>1, <2>2, <2>3
<1> QED
  BY <1>3, <1>4, <1>6, <1>7

LEMMA RoutesOfBackendsStep ==
    ASSUME DiscoveryInv, discoverHTTPRoutesFromBackends, UNCHANGED setting
    PROVE  DiscoveryInv'
<1> USE DEF DiscoveryInv
<1>1. /\ At("routesFromBackends") /\ outcome = "running" /\ (Call \/ FailedCall)
      /\ UNCHANGED <<operation, absent, visited, outcome, setting>> /\ steps' = Tail(steps)
  BY DEF discoverHTTPRoutesFromBackends, At, Advance
<1>2. /\ steps = FromRoutesOfBackends /\ steps' = FromGateways /\ operation = "Backend"
      /\ Objects \ cluster \subseteq absent /\ steps' \in StepsLeft(operation)
  BY <1>1, StepIsOfOperation, AtRoutesOfBackends
<1>3. PICK routes \in SUBSET DOMAIN HTTPRoutes :
         RoutesFromBackends(routes) /\ (Call => routes = DOMAIN HTTPRoutes \cap cluster)
  <2>1. CASE Call /\ RoutesFromBackends(Listed("HTTPRoute"))
    BY <2>1, ListedAre
  <2>2. CASE FailedCall /\ RoutesFromBackends({})
    BY <2>2, CallIsNoFailure
  <2> QED
    BY <2>1, <2>2 DEF discoverHTTPRoutesFromBackends
<1> DEFINE refs == {e \in routes \X (nodes \cap DOMAIN Backends) : e[2] \in HTTPRoutes[e[1]].backends}
           permitted == {e \in refs : Permitted(e[1], e[2])}
<1>4. /\ nodes' = nodes \cup {e[1] : e \in permitted}
      /\ edges' = edges \cup permitted
      /\ errors' = errors \cup {<<e[2], e[1]>> : e \in refs \ permitted}
  BY <1>3 DEF RoutesFromBackends
<1>5. {e[1] : e \in permitted} \subseteq DOMAIN HTTPRoutes
  OBVIOUS
<1>6. /\ nodes' \cap DOMAIN Backends = nodes \cap DOMAIN Backends
      /\ nodes \subseteq nodes' /\ edges \subseteq edges' /\ errors \subseteq errors'
  BY <1>4, <1>5, KindsAreDisjoint
<1>7. StartInv'
  BY <1>1, <1>2, CallStep DEF StartInv
<1>8. GraphInv'
  <2>1. nodes' \subseteq Objects
    BY <1>4, <1>5 DEF GraphInv, Objects
  <2>2. permitted \subseteq nodes' \X nodes'
    BY <1>4, Zenon
  <2>3. edges' \subseteq nodes' \X nodes'
    BY <1>4, <1>6, <2>2 DEF GraphInv
  <2> QED
    BY <1>1, <1>2, <2>1, <2>3 DEF GraphInv
<1>9. /\ steps' \notin ClassesDone /\ steps' \notin NamespacesDone /\ steps' \notin GatewaysDone
      /\ steps' # FromRoutesOfBackends
  BY <1>2, StepsAreDistinct DEF GatewaysDone, ClassesDone
<1>10. ClassesInv' /\ NamespacesInv' /\ PanicNeedsLostNamespace'
  BY <1>1, <1>9 DEF ClassesInv, NamespacesInv, PanicNeedsLostNamespace
<1>11. ASSUME failures' = 0, NEW r \in DOMAIN HTTPRoutes, NEW b \in nodes \cap DOMAIN Backends,
              NEW x \in DOMAIN ReferenceGrants, Lasting(x),
              ReferenceGrantExposes(x, b), ReferenceGrantAccepts(x, r)
       PROVE  Permitted(r, b)
  <2>1. GrantsInv
    BY <1>1, <1>11, CallStep
  <2>2. <<x, b>> \in edges
    BY <1>2, <1>11, <2>1, Zenon DEF GrantsInv
  <2>3. <<x, b>>[1] = x /\ <<x, b>>[2] = b
    OBVIOUS
  <2> QED
    BY <1>11, <2>2, <2>3 DEF Permitted
<1>12. ASSUME failures' = 0 PROVE ErrorsAreTrue'
  <2>1. ErrorsAreTrue
    BY <1>1, <1>12, CallStep
  <2>2. ASSUME NEW e \in refs \ permitted
        PROVE  /\ HTTPRoutes[e[1]].ns # Backends[e[2]].ns
               /\ \A x \in DOMAIN ReferenceGrants : Lasting(x) =>
                     ~(ReferenceGrantExposes(x, e[2]) /\ ReferenceGrantAccepts(x, e[1]))
    <3>1. e[1] \in DOMAIN HTTPRoutes /\ e[2] \in nodes \cap DOMAIN Backends /\ ~Permitted(e[1], e[2])
      OBVIOUS
    <3>2. HTTPRoutes[e[1]].ns # Backends[e[2]].ns
      BY <3>1 DEF Permitted
    <3> QED
      BY <1>11, <1>12, <3>1, <3>2
  <2>3. \A e \in refs : e[2] \in DOMAIN Backends
    OBVIOUS
  <2>4. ASSUME NEW d \in errors' \ errors
        PROVE  /\ d[1] \in DOMAIN Backends
               /\ HTTPRoutes[d[2]].ns # Backends[d[1]].ns
               /\ \A x \in DOMAIN ReferenceGrants : Lasting(x) =>
                     ~(ReferenceGrantExposes(x, d[1]) /\ ReferenceGrantAccepts(x, d[2]))
    <3>1. PICK e \in refs \ permitted : d = <<e[2], e[1]>>
      BY <1>4
    <3>2. d[1] = e[2] /\ d[2] = e[1]
      BY <3>1
    <3> QED
      BY <2>2, <2>3, <3>2
  <2> QED
    BY <1>1, <2>1, <2>4, Zenon DEF ErrorsAreTrue, Lasting
<1>13. ASSUME failures' = 0 PROVE GrantsInv' /\ RefsInv'
  <2>1. GrantsInv /\ RefsInv
    BY <1>1, <1>13, CallStep
  <2>2. GrantsInv'
    BY <1>1, <1>6, <1>9, <2>1 DEF GrantsInv, Lasting
  <2>3. RefsInv'
    BY <1>1, <1>6, <1>9, <2>1 DEF RefsInv
  <2> QED
    BY <2>2, <2>3
<1>14. ASSUME failures' = 0 PROVE RoutesInv'
  <2>1. ASSUME NEW r \in DOMAIN HTTPRoutes, NEW b \in nodes \cap DOMAIN Backends, LastingReference(r, b)
        PROVE  <<r, b>> \in edges'
    <3>1. Permitted(r, b)
      BY <1>11, <1>14, <2>1 DEF LastingReference, Permitted
    <3>2. r \in routes /\ b \in HTTPRoutes[r].backends
      BY <1>1, <1>2, <1>3, <1>14, <2>1, LastingExists, CallStep DEF LastingReference
    <3>3. <<r, b>>[1] = r /\ <<r, b>>[2] = b
      OBVIOUS
    <3>4. <<r, b>> \in permitted
      BY <3>1, <3>2, <3>3
    <3> QED
      BY <1>4, <3>4
  <2> QED
    BY <1>1, <1>2, <1>6, <2>1 DEF RoutesInv, LastingReference, Lasting
<1> QED
  BY <1>7, <1>8, <1>10, <1>12, <1>13, <1>14

LEMMA NamespacesStep ==
    ASSUME DiscoveryInv, discoverNamespaces, UNCHANGED setting
    PROVE  DiscoveryInv'
<1> USE DEF DiscoveryInv
<1> DEFINE members == nodes \cap Members
           known == {m \in members : NamespaceOf(m) \in cluster}
<1>1. /\ At("namespaces") /\ outcome = "running" /\ (Call \/ FailedCall)
      /\ UNCHANGED <<operation, absent, visited, errors, setting>>
  BY DEF discoverNamespaces, At, Advance
<1>2. /\ steps = FromNamespaces /\ Tail(steps) = FromPolicies
      /\ operation \in {"Gateway", "HTTPRoute", "Backend"}
      /\ Objects \ cluster \subseteq absent /\ Tail(steps) \in StepsLeft(operation)
  BY <1>1, StepIsOfOperation, AtNamespaces, Zenon
<1>3. \/ /\ nodes' = nodes \cup {NamespaceOf(m) : m \in known}
                          \cup (IF known # members THEN {"default"} ELSE {})
         /\ edges' = edges \cup {<<m, NamespaceOf(m)>> : m \in known}
         /\ steps' = Tail(steps) /\ outcome' = "running"
      \/ UNCHANGED <<nodes, edges, steps>> /\ outcome' = "exit"
  BY <1>1 DEF discoverNamespaces, Advance
<1>4. {NamespaceOf(m) : m \in known} \subseteq Namespaces
  BY ReferencesAreOfTheirKind, Zenon
<1>5. nodes' \ nodes \subseteq Namespaces /\ nodes \subseteq nodes' /\ edges \subseteq edges'
  BY <1>3, <1>4, ReferencesAreOfTheirKind, Zenon
<1>6. /\ nodes' \cap DOMAIN Gateways = nodes \cap DOMAIN Gateways
      /\ nodes' \cap DOMAIN HTTPRoutes = nodes \cap DOMAIN HTTPRoutes
      /\ nodes' \cap DOMAIN Backends = nodes \cap DOMAIN Backends
  BY <1>5, KindsAreDisjoint
<1>7. StartInv'
  BY <1>1, <1>2, <1>3, CallStep, Zenon DEF StartInv
<1>8. GraphInv'
  <2>1. nodes' \subseteq Objects
    BY <1>5 DEF GraphInv, Objects
  <2>2. edges' \subseteq nodes' \X nodes'
    BY <1>3, <1>5 DEF GraphInv
  <2> QED
    BY <1>1, <1>2, <2>1, <2>2 DEF GraphInv
<1>9. ClassesInv' /\ PanicNeedsLostNamespace'
  BY <1>1, <1>2, <1>3, <1>5, <1>6 DEF ClassesInv, ClassesDone, PanicNeedsLostNamespace
<1>10. NamespacesInv'
  <2>1. CASE steps' = steps
    BY <1>2, <2>1, StepsAreDistinct DEF NamespacesInv
  <2>2. CASE edges' = edges \cup {<<m, NamespaceOf(m)>> : m \in known}
    <3>1. \A m \in nodes' \cap Members : m \in members
      BY <1>6 DEF Members
    <3>2. \A m \in members \ known : ~Lasting(NamespaceOf(m))
      BY <1>2, LastingExists
    <3> QED
      BY <1>1, <2>2, <3>1, <3>2 DEF NamespacesInv, Lasting
  <2> QED
    BY <1>3, <2>1, <2>2
<1>11. /\ steps \in GatewaysDone /\ steps # FromRoutesOfGateways
       /\ steps' # FromRoutesOfBackends
  BY <1>2, <1>3, StepsAreDistinct, Zenon DEF GatewaysDone, ClassesDone, NamespacesDone
<1>12. ASSUME failures' = 0 PROVE ErrorsAreTrue' /\ GrantsInv' /\ RefsInv'
  <2>1. ErrorsAreTrue /\ GrantsInv /\ RefsInv
    BY <1>1, <1>12, CallStep
  <2>2. ErrorsAreTrue'
    BY <1>1, <2>1, Zenon DEF ErrorsAreTrue, Lasting
  <2>3. GrantsInv'
    BY <1>1, <1>5, <1>6, <1>11, <2>1 DEF GrantsInv, Lasting
  <2>4. RefsInv'
    BY <1>1, <1>5, <1>6, <1>11, <2>1 DEF RefsInv
  <2> QED
    BY <2>2, <2>3, <2>4
<1>13. ASSUME failures' = 0 PROVE RoutesInv'
  <2>1. RoutesInv
    BY <1>1, <1>13, CallStep
  <2>2. \A r \in DOMAIN HTTPRoutes : \A g \in HTTPRoutes[r].parents \cap nodes' : g \in nodes
    BY <1>6, <1>8, ReferencesAreOfTheirKind, Zenon DEF GraphInv
  <2> QED
    BY <1>1, <1>5, <1>6, <1>11, <2>1, <2>2, Zenon DEF RoutesInv, LastingReference, Lasting
<1> QED
  BY <1>7, <1>8, <1>9, <1>10, <1>12, <1>13

\* The last steps leave the graph as it is.
LEMMA LastStep ==
    ASSUME DiscoveryInv, operation # "",
           steps' \in StepsLeft(operation), steps' = steps \/ steps' \in PoliciesDone,
           steps \in ClassesDone \/ nodes \cap Members = {},
           steps \in NamespacesDone \/ nodes \cap Members = {},
           steps \in GatewaysDone \/ operation \in {"GatewayClass", "Namespace"},
           outcome' \in {"running", "done", "panic"},
           outcome' = "done" => steps' = <<>>,
           PanicNeedsLostNamespace',
           UNCHANGED <<setting, operation, absent, cluster, failures, visited, nodes, edges, errors>>
    PROVE  DiscoveryInv'
<1> USE DEF DiscoveryInv
<1>1. StartInv'
  BY Zenon DEF StartInv
<1>2. GraphInv'
  BY Zenon DEF GraphInv
<1>3. nodes \cap Members = {} => nodes \cap DOMAIN Gateways = {} /\ nodes \cap DOMAIN HTTPRoutes = {}
  BY Zenon DEF Members
<1>4. ClassesInv'
  BY <1>3, Zenon DEF ClassesInv
<1>5. NamespacesInv'
  BY Zenon DEF NamespacesInv, Lasting
<1>6. ASSUME failures' = 0 PROVE ErrorsAreTrue' /\ GrantsInv' /\ RefsInv' /\ RoutesInv'
  <2>1. ErrorsAreTrue /\ GrantsInv /\ RefsInv /\ RoutesInv
    BY <1>6, Zenon
  <2>2. ErrorsAreTrue'
    BY <2>1, Zenon DEF ErrorsAreTrue, Lasting
  <2>3. steps' = FromRoutesOfBackends => steps = FromRoutesOfBackends
    BY StepsAreDistinct, Zenon DEF GatewaysDone, ClassesDone, NamespacesDone
  <2>4. GrantsInv'
    BY <2>1, <2>3, Zenon DEF GrantsInv, Lasting
  <2>5. operation \in {"GatewayClass", "Namespace"} => nodes \cap DOMAIN HTTPRoutes = {}
    BY <1>3, Zenon DEF GraphInv
  <2>6. RefsInv'
    BY <2>1, <2>5, Zenon DEF RefsInv
  <2>7. operation = "Gateway" => steps # FromRoutesOfGateways
    BY StepsAreDistinct
  <2>8. RoutesInv'
    BY <2>1, <2>7, Zenon DEF RoutesInv, LastingReference, Lasting
  <2> QED
    BY <2>2, <2>4, <2>6, <2>8, Zenon
<1> QED
  BY <1>1, <1>2, <1>4, <1>5, <1>6, Zenon

LEMMA PoliciesStep ==
    ASSUME DiscoveryInv, discoverPolicies, UNCHANGED setting
    PROVE  DiscoveryInv'
<1>1. /\ At("policies") /\ outcome = "running" /\ steps' = Tail(steps)
      /\ UNCHANGED <<operation, absent, cluster, failures, visited, nodes, edges, errors, outcome>>
  BY DEF discoverPolicies, At, Advance, worldVars
<1>2. StartInv /\ GraphInv
  BY DEF DiscoveryInv
<1>3. operation # "" /\ Tail(steps) \in StepsLeft(operation)
  BY <1>1, <1>2, StepIsOfOperation, Zenon
<1>4. /\ Tail(steps) \in PoliciesDone
      /\ steps \in NamespacesDone \/ operation \in {"GatewayClass", "Namespace"}
  BY <1>1, <1>2, AtPolicies DEF PoliciesDone, NamespacesDone
<1>5. steps \in NamespacesDone => steps \in ClassesDone /\ steps \in GatewaysDone
  BY DEF ClassesDone, GatewaysDone
<1>6. operation \in {"GatewayClass", "Namespace"} => nodes \cap Members = {}
  BY <1>2 DEF GraphInv
<1>7. PanicNeedsLostNamespace'
  BY <1>1 DEF PanicNeedsLostNamespace
<1> QED
  BY <1>1, <1>3, <1>4, <1>5, <1>6, <1>7, LastStep, Zenon

\* At its end, a discovery has all that it needs to know.
LEMMA AllIsDone ==
    ASSUME DiscoveryInv, operation # "", steps \in PoliciesDone
    PROVE  /\ steps \in ClassesDone /\ steps \in NamespacesDone /\ steps \in GatewaysDone
  BY Zenon DEF GatewaysDone, ClassesDone, NamespacesDone

\* A member whose namespace is not connected has lost it.
LEMMA UnconnectedIsLost ==
    ASSUME DiscoveryInv, steps \in NamespacesDone,
           NEW x \in NeedNamespace, ~Connected(x, Namespaces)
    PROVE  ~Lasting(NamespaceOf(x))
<1>1. x \in nodes \cap Members
  BY DEF NeedNamespace
<1>2. NamespaceOf(x) \in Namespaces
  BY <1>1, ReferencesAreOfTheirKind, Zenon
<1>3. <<x, NamespaceOf(x)>>[1] = x /\ <<x, NamespaceOf(x)>>[2] = NamespaceOf(x)
  OBVIOUS
<1>4. <<x, NamespaceOf(x)>> \notin edges
  BY <1>2, <1>3 DEF Connected
<1> QED
  BY <1>1, <1>4 DEF DiscoveryInv, NamespacesInv

LEMMA PanicStep ==
    ASSUME DiscoveryInv, Panic, UNCHANGED setting
    PROVE  DiscoveryInv'
<1>1. /\ At("effective") /\ steps' = Tail(steps) /\ outcome' = "panic"
      /\ UNCHANGED <<operation, absent, cluster, failures, visited, nodes, edges, errors>>
  BY DEF Panic, Advance, worldVars, modelVars
<1>2. StartInv
  BY DEF DiscoveryInv
<1>3. /\ steps = FromEffective /\ steps' = <<>> /\ operation # ""
      /\ steps' \in StepsLeft(operation)
  BY <1>1, <1>2, AtEffective, StepIsOfOperation, Zenon
<1>4. steps \in PoliciesDone /\ steps' \in PoliciesDone
  BY <1>3, Zenon DEF PoliciesDone
<1>5. steps \in ClassesDone /\ steps \in NamespacesDone /\ steps \in GatewaysDone
  BY <1>3, <1>4, AllIsDone, Zenon
<1>6. PanicNeedsLostNamespace'
  <2>1. PICK x \in NeedNamespace : ~Connected(x, Namespaces)
    BY DEF Panic
  <2>2. ~Lasting(NamespaceOf(x))
    BY <1>5, <2>1, UnconnectedIsLost
  <2>3. NeedNamespace' = NeedNamespace
    BY <1>1 DEF NeedNamespace, Connected
  <2> QED
    BY <1>1, <2>2, <2>3 DEF PanicNeedsLostNamespace, Lasting
<1> QED
  BY <1>1, <1>3, <1>4, <1>5, <1>6, LastStep, Zenon

LEMMA ReturnStep ==
    ASSUME DiscoveryInv, Return, UNCHANGED setting
    PROVE  DiscoveryInv'
<1>1. /\ operation # "" /\ steps = <<>> /\ steps' = steps /\ outcome' = "done"
      /\ UNCHANGED <<operation, absent, cluster, failures, visited, nodes, edges, errors>>
  BY Zenon DEF Return, worldVars, modelVars
<1>2. steps \in PoliciesDone
  BY <1>1, Zenon DEF PoliciesDone
<1>3. steps \in ClassesDone /\ steps \in NamespacesDone /\ steps \in GatewaysDone
  BY <1>1, <1>2, AllIsDone, Zenon
<1>4. steps' \in StepsLeft(operation)
  BY <1>1, Zenon DEF DiscoveryInv, StartInv
<1>5. PanicNeedsLostNamespace'
  BY <1>1, Zenon DEF PanicNeedsLostNamespace
<1> QED
  BY <1>1, <1>3, <1>4, <1>5, LastStep, Zenon

\* calculateEffectivePolicies has done all of its loops.
LEMMA CalculatedStep ==
    ASSUME DiscoveryInv, At("effective"), Advance,
           UNCHANGED <<setting, worldVars, visited, modelVars, outcome>>
    PROVE  DiscoveryInv'
<1>1. /\ steps' = Tail(steps) /\ outcome' = "running"
      /\ UNCHANGED <<operation, absent, cluster, failures, visited, nodes, edges, errors>>
  BY DEF At, Advance, worldVars, modelVars
<1>2. StartInv
  BY DEF DiscoveryInv
<1>3. /\ steps = FromEffective /\ steps' = <<>> /\ operation # ""
      /\ steps' \in StepsLeft(operation)
  BY <1>1, <1>2, AtEffective, StepIsOfOperation, Zenon
<1>4. steps \in PoliciesDone /\ steps' \in PoliciesDone
  BY <1>3, Zenon DEF PoliciesDone
<1>5. steps \in ClassesDone /\ steps \in NamespacesDone /\ steps \in GatewaysDone
  BY <1>3, <1>4, AllIsDone, Zenon
<1>6. PanicNeedsLostNamespace'
  BY <1>1 DEF PanicNeedsLostNamespace
<1> QED
  BY <1>1, <1>3, <1>4, <1>5, <1>6, LastStep, Zenon

LEMMA DiscoveryNextStep ==
    ASSUME DiscoveryInv, DiscoveryNext, UNCHANGED setting
    PROVE  DiscoveryInv'
<1>1. CASE \E o \in Changing : Change(o)
  BY <1>1, ChangeStep
<1>2. CASE discoverHTTPRoutesFromGateways
  BY <1>2, RoutesOfGatewaysStep
<1>3. CASE discoverGatewayClassesFromGateways
  BY <1>3, ClassesStep
<1>4. CASE \E r \in DOMAIN HTTPRoutes : \E g \in HTTPRoutes[r].parents : FetchGateway(r, g)
  BY <1>4, FetchGatewayStep
<1>5. CASE ConnectGateways
  BY <1>5, ConnectGatewaysStep
<1>6. CASE \E b \in DOMAIN Backends : FetchReferenceGrants(b)
  BY <1>6, FetchReferenceGrantsStep
<1>7. CASE ReferenceGrantsFetched
  BY <1>7, ReferenceGrantsFetchedStep
<1>8. CASE discoverHTTPRoutesFromBackends
  BY <1>8, RoutesOfBackendsStep
<1>9. CASE discoverNamespaces
  BY <1>9, NamespacesStep
<1>10. CASE discoverPolicies
  BY <1>10, PoliciesStep
<1>11. CASE Panic
  BY <1>11, PanicStep
<1>12. CASE Return
  BY <1>12, ReturnStep
<1> QED
  BY <1>1, <1>2, <1>3, <1>4, <1>5, <1>6, <1>7, <1>8, <1>9, <1>10, <1>11, <1>12
     DEF DiscoveryNext

\* Whatever leaves the discovery alone.
LEMMA DiscoveryStays ==
    ASSUME DiscoveryInv, UNCHANGED setting, UNCHANGED discoveryVars
    PROVE  DiscoveryInv'
<1>1. UNCHANGED <<setting, cluster, failures, operation, steps, visited, nodes, edges, errors, absent, outcome>>
  BY DEF discoveryVars, worldVars, modelVars
<1>2. StartInv' /\ GraphInv' /\ ClassesInv'
  BY <1>1, Zenon DEF DiscoveryInv, StartInv, GraphInv, ClassesInv
<1>3. NamespacesInv' /\ PanicNeedsLostNamespace'
  BY <1>1 DEF DiscoveryInv, NamespacesInv, PanicNeedsLostNamespace, Lasting, NeedNamespace, Connected
<1>4. ASSUME failures' = 0 PROVE ErrorsAreTrue' /\ GrantsInv' /\ RefsInv' /\ RoutesInv'
  <2>1. ErrorsAreTrue' /\ GrantsInv' /\ RefsInv'
    BY <1>1, <1>4, Zenon DEF DiscoveryInv, ErrorsAreTrue, GrantsInv, RefsInv, Lasting
  <2>2. RoutesInv'
    BY <1>1, <1>4, Zenon DEF DiscoveryInv, RoutesInv, LastingReference, Lasting
  <2> QED
    BY <2>1, <2>2
<1> QED
  BY <1>2, <1>3, <1>4 DEF DiscoveryInv

\* Once the policies are attached, a discovery does not change its model.
LEMMA ModelIsComplete ==
    ASSUME DiscoveryInv, DiscoveryNext
    PROVE  /\ operation' = operation /\ operation # "" /\ outcome = "running"
           /\ discoverPolicies \/ attached' = attached
           /\ steps \in PoliciesDone => UNCHANGED <<nodes, edges, attached>> /\ steps' \in PoliciesDone
           /\ steps \notin PoliciesDone => discoverPolicies \/ steps' \notin PoliciesDone
           /\ steps' = <<>> /\ outcome' \in {"running", "done"} =>
                steps = <<>> \/ operation \in {"GatewayClass", "Namespace"}
<1>1. StartInv
  BY DEF DiscoveryInv
<1>2. CASE \E o \in Changing : Change(o)
  BY <1>2, Zenon DEF Change, modelVars
<1>3. CASE discoverHTTPRoutesFromGateways
  <2>1. At("routesFromGateways") /\ steps' = Tail(steps) /\ UNCHANGED <<operation, attached, outcome>>
    BY <1>3 DEF discoverHTTPRoutesFromGateways, Advance
  <2>2. steps = FromRoutesOfGateways /\ steps' = FromClasses /\ operation # "" /\ outcome = "running"
    BY <1>1, <2>1, AtRoutesOfGateways, StepIsOfOperation
  <2> QED
    BY <2>1, <2>2, StepsAreDistinct, Zenon DEF GatewaysDone, ClassesDone, NamespacesDone, PoliciesDone
<1>4. CASE discoverGatewayClassesFromGateways
  <2>1. At("classes") /\ steps' = Tail(steps) /\ UNCHANGED <<operation, attached, outcome>>
    BY <1>4 DEF discoverGatewayClassesFromGateways, Advance
  <2>2. steps = FromClasses /\ steps' = FromNamespaces /\ operation # "" /\ outcome = "running"
    BY <1>1, <2>1, AtClasses, StepIsOfOperation, Zenon
  <2> QED
    BY <2>1, <2>2, StepsAreDistinct, Zenon DEF GatewaysDone, ClassesDone, NamespacesDone, PoliciesDone
<1>5. CASE \E r \in DOMAIN HTTPRoutes : \E g \in HTTPRoutes[r].parents : FetchGateway(r, g)
  <2>1. At("gateways") /\ UNCHANGED <<steps, operation, attached, outcome>>
    BY <1>5 DEF FetchGateway
  <2>2. steps = FromGateways /\ operation # "" /\ outcome = "running"
    BY <1>1, <2>1, AtGateways, StepIsOfOperation, Zenon
  <2> QED
    BY <2>1, <2>2, StepsAreDistinct, Zenon DEF GatewaysDone, ClassesDone, NamespacesDone, PoliciesDone
<1>6. CASE ConnectGateways
  <2>1. At("gateways") /\ steps' = Tail(steps) /\ UNCHANGED <<operation, attached, outcome>>
    BY <1>6 DEF ConnectGateways, Advance
  <2>2. steps = FromGateways /\ steps' = FromClasses /\ operation # "" /\ outcome = "running"
    BY <1>1, <2>1, AtGateways, StepIsOfOperation, Zenon
  <2> QED
    BY <2>1, <2>2, StepsAreDistinct, Zenon DEF GatewaysDone, ClassesDone, NamespacesDone, PoliciesDone
<1>7. CASE \E b \in DOMAIN Backends : FetchReferenceGrants(b)
  <2>1. At("grants") /\ UNCHANGED <<steps, operation, attached>>
    BY <1>7 DEF FetchReferenceGrants
  <2>2. steps = FromGrants /\ operation # "" /\ outcome = "running"
    BY <1>1, <2>1, AtGrants, StepIsOfOperation
  <2> QED
    BY <2>1, <2>2, StepsAreDistinct, Zenon DEF GatewaysDone, ClassesDone, NamespacesDone, PoliciesDone
<1>8. CASE ReferenceGrantsFetched
  <2>1. At("grants") /\ steps' = Tail(steps) /\ UNCHANGED <<operation, attached, outcome>>
    BY <1>8 DEF ReferenceGrantsFetched, Advance, modelVars
  <2>2. steps = FromGrants /\ steps' = FromRoutesOfBackends /\ operation # "" /\ outcome = "running"
    BY <1>1, <2>1, AtGrants, StepIsOfOperation
  <2> QED
    BY <2>1, <2>2, StepsAreDistinct, Zenon DEF GatewaysDone, ClassesDone, NamespacesDone, PoliciesDone
<1>9. CASE discoverHTTPRoutesFromBackends
  <2>1. At("routesFromBackends") /\ steps' = Tail(steps) /\ UNCHANGED <<operation, attached, outcome>>
    BY <1>9 DEF discoverHTTPRoutesFromBackends, Advance
  <2>2. steps = FromRoutesOfBackends /\ steps' = FromGateways /\ operation # "" /\ outcome = "running"
    BY <1>1, <2>1, AtRoutesOfBackends, StepIsOfOperation
  <2> QED
    BY <2>1, <2>2, StepsAreDistinct, Zenon DEF GatewaysDone, ClassesDone, NamespacesDone, PoliciesDone
<1>10. CASE discoverNamespaces
  <2>1. /\ At("namespaces") /\ UNCHANGED <<operation, attached>>
        /\ steps' = Tail(steps) \/ steps' = steps
    BY <1>10 DEF discoverNamespaces, Advance
  <2>2. /\ steps = FromNamespaces /\ steps' \in {FromPolicies, FromNamespaces}
        /\ operation # "" /\ outcome = "running"
    BY <1>1, <2>1, AtNamespaces, StepIsOfOperation, Zenon
  <2> QED
    BY <2>1, <2>2, StepsAreDistinct, Zenon DEF GatewaysDone, ClassesDone, NamespacesDone, PoliciesDone
<1>11. CASE discoverPolicies
  <2>1. At("policies") /\ steps' = Tail(steps) /\ UNCHANGED <<operation, outcome>>
    BY <1>11 DEF discoverPolicies, Advance
  <2>2. operation # "" /\ outcome = "running"
    BY <1>1, <2>1, StepIsOfOperation, Zenon
  <2>3. \/ steps = FromPolicies /\ steps' = FromEffective
        \/ steps = <<"policies">> /\ operation \in {"GatewayClass", "Namespace"}
    BY <1>1, <2>1, AtPolicies
  <2> QED
    BY <1>11, <2>1, <2>2, <2>3, StepsAreDistinct, Zenon DEF GatewaysDone, ClassesDone, NamespacesDone
<1>12. CASE Panic
  <2>1. /\ At("effective") /\ steps' = Tail(steps) /\ outcome' = "panic"
        /\ UNCHANGED <<operation, nodes, edges, attached>>
    BY <1>12 DEF Panic, Advance, modelVars
  <2>2. steps = FromEffective /\ steps' = <<>> /\ operation # "" /\ outcome = "running"
    BY <1>1, <2>1, AtEffective, StepIsOfOperation, Zenon
  <2> QED
    BY <2>1, <2>2, Zenon DEF PoliciesDone
<1>13. CASE Return
  BY <1>13, Zenon DEF Return, modelVars
<1> QED
  BY <1>2, <1>3, <1>4, <1>5, <1>6, <1>7, <1>8, <1>9, <1>10, <1>11, <1>12, <1>13, Zenon DEF DiscoveryNext

-----------------------------------------------------------------------------
\* The policies are cached before anything is discovered, and all those of the
\* model are attached.
AttachedInv ==
    /\ operation # "" => crds = {}
    /\ operation # "" /\ steps \in PoliciesDone /\ outcome # "error" =>
         \A n \in DOMAIN policies : policies[n].target \in nodes => n \in attached

PhaseInv ==
    /\ phase \in {"load", "gateways", "routes", "backends", "done", "error"}
    /\ phase \notin {"load", "error"} =>
         steps \in PoliciesDone /\ graph = Model /\ operation # ""
    /\ operation \in {"Gateway", "HTTPRoute", "Backend"} /\ steps = <<>>
       /\ outcome \in {"running", "done"} => phase = "done"

RouteIsCalculated(r) == r \in DOMAIN effective /\ DOMAIN effective[r] = graph.parents[r]

BackendIsCalculated(b) ==
    /\ b \in DOMAIN effective
    /\ \A r \in graph.routesOf[b] : graph.parents[r] \subseteq DOMAIN effective[b]

LoopInv ==
    /\ phase = "routes" => \A r \in DOMAIN graph.parents \ left : RouteIsCalculated(r)
    /\ phase \in {"backends", "done"} =>
         /\ \A r \in DOMAIN graph.parents : RouteIsCalculated(r)
         /\ \A b \in DOMAIN graph.routesOf \ (left \cup {backend}) : BackendIsCalculated(b)
    /\ phase = "done" => left = {} /\ backend = ""
    /\ backend # "" =>
         /\ phase = "backends" /\ backend \in DOMAIN graph.routesOf
         /\ \A r \in graph.routesOf[backend] \ todo : graph.parents[r] \subseteq DOMAIN result

Inv == DiscoveryInv /\ AttachedInv /\ PhaseInv /\ LoopInv

-----------------------------------------------------------------------------
(* The policies and the loops of calculateEffectivePolicies.                 *)

LEMMA ModelStays ==
    ASSUME UNCHANGED <<nodes, edges>>
    PROVE  Model' = Model
  BY DEF Model, Connected, Effective!ResourceModel

LEMMA ModelIs ==
    /\ Model.classOf = [g \in nodes \cap DOMAIN Gateways |->
            IF Connected(g, GatewayClasses) THEN Gateways[g].class ELSE ""]
    /\ Model.parents = [r \in nodes \cap DOMAIN HTTPRoutes |->
            {g \in nodes \cap DOMAIN Gateways : <<r, g>> \in edges}]
    /\ Model.routesOf = [b \in nodes \cap DOMAIN Backends |->
            {r \in nodes \cap DOMAIN HTTPRoutes : <<r, b>> \in edges}]
  BY DEF Model, Effective!ResourceModel

\* The EffectivePolicies of one node are set.
LEMMA OneMore ==
    ASSUME NEW x, NEW v, effective' = Effective!WithEffective(x, v)
    PROVE  /\ DOMAIN effective' = DOMAIN effective \cup {x}
           /\ effective'[x] = v
           /\ \A y \in DOMAIN effective \ {x} : effective'[y] = effective[y]
  BY DEF Effective!WithEffective

LEMMA StepsKeepLoops ==
    ASSUME Inv, Steps
    PROVE  AttachedInv' /\ PhaseInv' /\ LoopInv'
<1>1. DiscoveryInv /\ AttachedInv /\ PhaseInv /\ LoopInv
  BY DEF Inv
<1>2. /\ DiscoveryNext
      /\ UNCHANGED <<crds, policies, graph, phase, left, backend, todo, result, effective>>
  BY DEF Steps, loopVars
<1>3. /\ operation' = operation /\ operation # "" /\ outcome = "running"
      /\ steps \in PoliciesDone => UNCHANGED <<nodes, edges, attached>> /\ steps' \in PoliciesDone
      /\ steps \notin PoliciesDone => discoverPolicies \/ steps' \notin PoliciesDone
      /\ steps' = <<>> /\ outcome' \in {"running", "done"} =>
           steps = <<>> \/ operation \in {"GatewayClass", "Namespace"}
  BY <1>1, <1>2, ModelIsComplete, Zenon
<1>4. AttachedInv'
  <2>1. CASE steps \in PoliciesDone
    BY <1>1, <1>2, <1>3, <2>1, Zenon DEF AttachedInv
  <2>2. CASE discoverPolicies
    <3>1. attached' = {n \in DOMAIN policies : policies[n].target \in nodes} /\ nodes' = nodes
      BY <2>2 DEF discoverPolicies
    <3> QED
      BY <1>1, <1>2, <1>3, <3>1, Zenon DEF AttachedInv
  <2>3. CASE steps' \notin PoliciesDone
    BY <1>1, <1>2, <1>3, <2>3, Zenon DEF AttachedInv
  <2> QED
    BY <1>3, <2>1, <2>2, <2>3, Zenon
<1>5. PhaseInv'
  <2>1. ASSUME phase \notin {"load", "error"}
        PROVE  steps' \in PoliciesDone /\ graph = Model' /\ operation # ""
    BY <1>1, <1>3, <2>1, ModelStays, Zenon DEF PhaseInv
  <2>2. ASSUME operation \in {"Gateway", "HTTPRoute", "Backend"}, steps' = <<>>,
               outcome' \in {"running", "done"}
        PROVE  phase = "done"
    BY <1>1, <1>3, <2>2, Zenon DEF PhaseInv
  <2> QED
    BY <1>1, <1>2, <1>3, <2>1, <2>2, Zenon DEF PhaseInv
<1>6. LoopInv'
  BY <1>1, <1>2, Zenon DEF LoopInv, RouteIsCalculated, BackendIsCalculated
<1> QED
  BY <1>4, <1>5, <1>6

LEMMA LoadKeepsInv ==
    ASSUME Inv, Load, UNCHANGED setting
    PROVE  Inv'
<1>1. DiscoveryInv /\ AttachedInv /\ PhaseInv /\ LoopInv
  BY DEF Inv
<1>2. /\ phase = "load" /\ crds # {} /\ phase' \in {"load", "error"}
      /\ UNCHANGED <<graph, left, backend, todo, result, effective>> /\ UNCHANGED discoveryVars
  BY DEF Load, Effective!fetchPolicies, Effective!loopVars
<1>3. operation = "" /\ operation' = ""
  BY <1>1, <1>2, Zenon DEF AttachedInv, discoveryVars
<1>4. DiscoveryInv'
  BY <1>1, <1>2, DiscoveryStays
<1>5. AttachedInv' /\ PhaseInv'
  BY <1>2, <1>3, Zenon DEF AttachedInv, PhaseInv
<1>6. LoopInv'
  BY <1>1, <1>2, Zenon DEF LoopInv
<1> QED
  BY <1>4, <1>5, <1>6 DEF Inv

LEMMA DescribeKeepsInv ==
    ASSUME Inv, Describe, UNCHANGED setting
    PROVE  Inv'
<1>1. DiscoveryInv /\ AttachedInv /\ PhaseInv /\ LoopInv
  BY DEF Inv
<1>2. /\ phase = "load" /\ crds = {}
      /\ UNCHANGED <<crds, policies, graph, phase, left, backend, todo, result, effective>>
  BY DEF Describe, loopVars
<1>3. PICK a \in Bound.asked : Discover(a[1], a[2])
  BY DEF Describe
<1>4. setting \in DOMAIN Settings
  BY <1>1, Zenon DEF DiscoveryInv, StartInv
<1>5. a[1] \in Kinds /\ a[2] \subseteq OfKind(a[1])
  BY <1>3, <1>4, SettingsAssumption DEF Bound, Kinds
<1>6. DiscoveryInv'
  BY <1>1, <1>3, <1>5, DiscoverStep
<1>7. operation = "" /\ operation' = a[1] /\ operation' # ""
  BY <1>3, <1>5, Zenon DEF Discover, Kinds
<1>8. outcome' # "error" => steps' = StepsFor(a[1])
  BY <1>1, <1>3, <1>7, Zenon DEF Discover, DiscoveryInv, StartInv
<1>9. StepsFor(a[1]) \notin PoliciesDone
  BY <1>5, FirstSteps, StepsAreDistinct DEF Kinds, GatewaysDone, ClassesDone, NamespacesDone
<1>10. AttachedInv'
  BY <1>2, <1>7, <1>8, <1>9, Zenon DEF AttachedInv
<1>11. PhaseInv'
  BY <1>1, <1>2, <1>8, <1>9 DEF PhaseInv, PoliciesDone
<1>12. LoopInv'
  BY <1>1, <1>2, Zenon DEF LoopInv
<1> QED
  BY <1>6, <1>10, <1>11, <1>12, Zenon DEF Inv

LEMMA StartKeepsInv ==
    ASSUME Inv, At("effective"), Effective!Start(Model), UNCHANGED <<setting, discoveryVars>>
    PROVE  Inv'
<1>1. DiscoveryInv /\ AttachedInv /\ PhaseInv /\ LoopInv
  BY DEF Inv
<1>2. /\ phase = "load" /\ phase' = "gateways" /\ graph' = Model
      /\ UNCHANGED <<crds, policies, backend, todo, result, effective>>
      /\ UNCHANGED <<operation, steps, outcome, nodes, edges, attached>>
  BY DEF Effective!Start, discoveryVars, modelVars
<1>3. steps = FromEffective /\ operation # ""
  BY <1>1, AtEffective, Zenon DEF DiscoveryInv
<1>4. steps \in PoliciesDone /\ steps # <<>>
  BY <1>3, StepsAreDistinct, Zenon DEF PoliciesDone
<1>5. DiscoveryInv'
  BY <1>1, DiscoveryStays
<1>6. AttachedInv'
  BY <1>1, <1>2, Zenon DEF AttachedInv
<1>7. PhaseInv'
  BY <1>2, <1>3, <1>4, ModelStays, Zenon DEF PhaseInv
<1>8. LoopInv'
  BY <1>1, <1>2, Zenon DEF LoopInv
<1> QED
  BY <1>5, <1>6, <1>7, <1>8 DEF Inv

\* What the loops of calculateEffectivePolicies leave alone.
LEMMA LoopsKeepModel ==
    ASSUME Inv, Effective!CalculateNext
    PROVE  /\ UNCHANGED <<deployed, crds, policies, graph>>
           /\ phase \in {"gateways", "routes", "backends"}
           /\ phase' \in {"gateways", "routes", "backends", "done"}
<1>1. CASE Effective!NextPhase
  BY <1>1, Zenon DEF Effective!NextPhase, Effective!Enter
<1>2. CASE \E g \in DOMAIN Effective!ClassOf : Effective!calculateEffectivePoliciesForGateways(g)
  BY <1>2, Zenon DEF Effective!calculateEffectivePoliciesForGateways
<1>3. CASE \E r \in DOMAIN Effective!Parents : Effective!calculateEffectivePoliciesForHTTPRoutes(r)
  BY <1>3 DEF Effective!calculateEffectivePoliciesForHTTPRoutes
<1>4. CASE \E b \in DOMAIN Effective!RoutesOf : Effective!BackendBegin(b)
  BY <1>4, Zenon DEF Effective!BackendBegin
<1>5. CASE \E r \in DOMAIN Effective!Parents : Effective!BackendRoute(r)
  BY <1>5, Zenon DEF Inv, LoopInv, Effective!BackendRoute
<1>6. CASE Effective!BackendEnd
  BY <1>6, Zenon DEF Inv, LoopInv, Effective!BackendEnd
<1> QED
  BY <1>1, <1>2, <1>3, <1>4, <1>5, <1>6 DEF Effective!CalculateNext

LEMMA LoopsKeepLoopInv ==
    ASSUME Inv, Effective!CalculateNext
    PROVE  LoopInv'
<1> USE DEF LoopInv, RouteIsCalculated, BackendIsCalculated
<1>1. LoopInv
  BY Zenon DEF Inv
<1>2. /\ UNCHANGED graph /\ phase \in {"gateways", "routes", "backends"}
      /\ graph = Model
  BY LoopsKeepModel, Zenon DEF Inv, PhaseInv
<1>3. DOMAIN graph.parents \subseteq DOMAIN HTTPRoutes /\ DOMAIN graph.routesOf \subseteq DOMAIN Backends
  BY <1>2, ModelIs, Zenon
<1>4. DOMAIN graph.parents \cap DOMAIN graph.routesOf = {}
  BY <1>3, KindsAreDisjoint
<1>5. CASE Effective!NextPhase
  BY <1>1, <1>2, <1>5, Zenon
     DEF Effective!NextPhase, Effective!Enter, Effective!Parents, Effective!RoutesOf
<1>6. ASSUME NEW g \in DOMAIN Effective!ClassOf, Effective!calculateEffectivePoliciesForGateways(g)
      PROVE  LoopInv'
  BY <1>1, <1>6, Zenon DEF Effective!calculateEffectivePoliciesForGateways
<1>7. ASSUME NEW r \in DOMAIN Effective!Parents, Effective!calculateEffectivePoliciesForHTTPRoutes(r)
      PROVE  LoopInv'
  <2> DEFINE v == [g \in Effective!Parents[r] |-> Effective!Below(Effective!OfGateway(g), r)]
  <2>1. /\ phase = "routes" /\ left' = left \ {r} /\ effective' = Effective!WithEffective(r, v)
        /\ UNCHANGED <<graph, phase, backend, todo, result>>
    BY <1>7 DEF Effective!calculateEffectivePoliciesForHTTPRoutes
  <2>2. DOMAIN v = graph.parents[r]
    BY DEF Effective!Parents
  <2> HIDE DEF v
  <2>3. /\ DOMAIN effective' = DOMAIN effective \cup {r} /\ effective'[r] = v
        /\ \A y \in DOMAIN effective \ {r} : effective'[y] = effective[y]
    BY <2>1, OneMore, Zenon
  <2> QED
    BY <1>1, <2>1, <2>2, <2>3, Zenon
<1>8. ASSUME NEW b \in DOMAIN Effective!RoutesOf, Effective!BackendBegin(b)
      PROVE  LoopInv'
  <2>1. "" \notin DOMAIN graph.routesOf
    BY <1>3, ReferencesAreOfTheirKind, Zenon DEF Objects
  <2> QED
    BY <1>1, <1>8, <2>1, Zenon DEF Effective!BackendBegin, Effective!RoutesOf
<1>9. ASSUME NEW r \in DOMAIN Effective!Parents, Effective!BackendRoute(r)
      PROVE  LoopInv'
  <2>1. /\ backend # "" /\ todo' = todo \ {r}
        /\ DOMAIN result' = DOMAIN result \cup DOMAIN effective[r]
        /\ UNCHANGED <<graph, phase, left, backend, effective>>
    BY <1>9, Zenon DEF Effective!BackendRoute
  <2>2. DOMAIN effective[r] = graph.parents[r]
    BY <1>1, <2>1, Zenon DEF Effective!Parents
  <2> QED
    BY <1>1, <2>1, <2>2, Zenon
<1>10. CASE Effective!BackendEnd
  <2>1. PICK b : b = backend
    OBVIOUS
  <2>2. PICK v : v = [g \in DOMAIN result |-> Effective!Below(result[g], backend)]
    BY Zenon
  <2>3. /\ backend # "" /\ todo = {} /\ backend' = "" /\ effective' = Effective!WithEffective(b, v)
        /\ UNCHANGED <<graph, phase, left, todo>>
    BY <1>10, <2>1, <2>2, Zenon DEF Effective!BackendEnd
  <2>4. DOMAIN v = DOMAIN result
    BY <2>2
  <2>5. /\ DOMAIN effective' = DOMAIN effective \cup {b} /\ effective'[b] = v
        /\ \A y \in DOMAIN effective \ {b} : effective'[y] = effective[y]
    BY <2>3, OneMore, Zenon
  <2>6. b \notin DOMAIN graph.parents /\ phase = "backends"
    BY <1>1, <1>4, <2>1, <2>3, Zenon
  <2>7. \A r \in DOMAIN graph.parents : RouteIsCalculated(r)'
    BY <1>1, <2>3, <2>5, <2>6, Zenon
  <2>8. BackendIsCalculated(b)'
    BY <1>1, <2>1, <2>3, <2>4, <2>5, Zenon
  <2>9. \A c \in DOMAIN graph.routesOf \ left : BackendIsCalculated(c)'
    BY <1>1, <2>1, <2>3, <2>5, <2>6, <2>8, Zenon
  <2> QED
    BY <2>3, <2>6, <2>7, <2>9, Zenon
<1> QED
  BY <1>5, <1>6, <1>7, <1>8, <1>9, <1>10, Zenon DEF Effective!CalculateNext

LEMMA LoopsKeepInv ==
    ASSUME Inv, At("effective"), Effective!CalculateNext, UNCHANGED <<setting, discoveryVars>>
    PROVE  Inv'
<1>1. DiscoveryInv /\ AttachedInv /\ PhaseInv
  BY DEF Inv
<1>2. /\ UNCHANGED <<crds, policies, graph>> /\ phase \in {"gateways", "routes", "backends"}
      /\ phase' \in {"gateways", "routes", "backends", "done"}
      /\ UNCHANGED <<operation, steps, outcome, nodes, edges, attached>>
  BY LoopsKeepModel DEF discoveryVars, modelVars
<1>3. DiscoveryInv'
  BY <1>1, DiscoveryStays
<1>4. AttachedInv'
  BY <1>1, <1>2, Zenon DEF AttachedInv
<1>5. steps # <<>>
  BY DEF At
<1>6. PhaseInv'
  BY <1>1, <1>2, <1>5, ModelStays, Zenon DEF PhaseInv
<1> QED
  BY <1>3, <1>4, <1>6, LoopsKeepLoopInv DEF Inv

LEMMA CalculatedKeepsInv ==
    ASSUME Inv, At("effective"), phase = "done", Advance,
           UNCHANGED <<setting, crds, policies, loopVars, worldVars, visited, modelVars, outcome>>
    PROVE  Inv'
<1>1. DiscoveryInv /\ AttachedInv /\ PhaseInv /\ LoopInv
  BY DEF Inv
<1>2. DiscoveryInv'
  BY <1>1, CalculatedStep
<1>3. /\ UNCHANGED <<graph, phase, left, backend, todo, result, effective>>
      /\ UNCHANGED <<operation, outcome, nodes, edges, attached>> /\ steps' = Tail(steps)
  BY DEF loopVars, modelVars, Advance
<1>4. steps = FromEffective /\ steps' = <<>> /\ operation # "" /\ outcome = "running"
  BY <1>1, <1>3, AtEffective, Zenon DEF DiscoveryInv, At
<1>5. AttachedInv'
  BY <1>1, <1>3, <1>4, Zenon DEF AttachedInv, PoliciesDone
<1>6. PhaseInv'
  BY <1>1, <1>3, <1>4, ModelStays, Zenon DEF PhaseInv, PoliciesDone
<1>7. LoopInv'
  BY <1>1, <1>3, Zenon DEF LoopInv, RouteIsCalculated, BackendIsCalculated
<1> QED
  BY <1>2, <1>5, <1>6, <1>7 DEF Inv

LEMMA InitInv ==
    Init => Inv
<1> SUFFICES ASSUME Init PROVE Inv
  OBVIOUS
<1>1. /\ setting \in DOMAIN Settings /\ failures = 0 /\ operation = "" /\ steps = <<>> /\ visited = {}
      /\ nodes = {} /\ edges = {} /\ errors = {} /\ outcome = "running"
      /\ phase = "load" /\ backend = ""
  BY Zenon DEF Init, DiscoveryInit, Effective!PoliciesInit
<1>2. StartInv /\ GraphInv
  BY <1>1, Zenon DEF StartInv, GraphInv
<1>3. ClassesInv /\ NamespacesInv /\ ErrorsAreTrue /\ RoutesInv /\ PanicNeedsLostNamespace
  BY <1>1, Zenon DEF ClassesInv, NamespacesInv, ErrorsAreTrue, RoutesInv, PanicNeedsLostNamespace
<1>4. GrantsInv /\ RefsInv
  BY <1>1, Zenon DEF GrantsInv, RefsInv
<1>5. AttachedInv /\ PhaseInv /\ LoopInv
  BY <1>1, Zenon DEF AttachedInv, PhaseInv, LoopInv
<1> QED
  BY <1>2, <1>3, <1>4, <1>5 DEF Inv, DiscoveryInv

LEMMA InvStays ==
    ASSUME Inv, UNCHANGED vars
    PROVE  Inv'
<1>1. DiscoveryInv /\ AttachedInv /\ PhaseInv /\ LoopInv
  BY DEF Inv
<1>2. DiscoveryInv'
  BY <1>1, DiscoveryStays DEF vars
<1>3. /\ UNCHANGED <<crds, policies, graph, phase, left, backend, todo, result, effective>>
      /\ UNCHANGED <<operation, steps, outcome, nodes, edges, attached>>
  BY DEF vars, loopVars, discoveryVars, modelVars
<1>4. AttachedInv' /\ LoopInv'
  BY <1>1, <1>3, Zenon DEF AttachedInv, LoopInv, RouteIsCalculated, BackendIsCalculated
<1>5. PhaseInv'
  BY <1>1, <1>3, ModelStays, Zenon DEF PhaseInv
<1> QED
  BY <1>2, <1>4, <1>5 DEF Inv

LEMMA NextInv ==
    Inv /\ [Next]_vars => Inv'
<1> SUFFICES ASSUME Inv, [Next]_vars PROVE Inv'
  OBVIOUS
<1>1. CASE Load /\ UNCHANGED setting
  BY <1>1, LoadKeepsInv
<1>2. CASE Describe /\ UNCHANGED setting
  BY <1>2, DescribeKeepsInv
<1>3. CASE Steps /\ UNCHANGED setting
  BY <1>3, DiscoveryNextStep, StepsKeepLoops DEF Inv, Steps
<1>4. CASE calculateEffectivePolicies /\ UNCHANGED setting
  <2>1. At("effective")
    BY <1>4 DEF calculateEffectivePolicies
  <2>2. CASE Effective!Start(Model) /\ UNCHANGED discoveryVars
    BY <1>4, <2>1, <2>2, StartKeepsInv
  <2>3. CASE Effective!CalculateNext /\ UNCHANGED discoveryVars
    BY <1>4, <2>1, <2>3, LoopsKeepInv
  <2>4. CASE /\ phase = "done" /\ Advance
             /\ UNCHANGED <<deployed, crds, policies, loopVars>>
             /\ UNCHANGED <<worldVars, visited, modelVars, outcome>>
    BY <1>4, <2>1, <2>4, CalculatedKeepsInv
  <2> QED
    BY <1>4, <2>2, <2>3, <2>4 DEF calculateEffectivePolicies
<1>5. CASE Ended \/ UNCHANGED vars
  BY <1>5, InvStays DEF Ended
<1> QED
  BY <1>1, <1>2, <1>3, <1>4, <1>5 DEF Next

LEMMA Invariance ==
    Spec => []Inv
  BY InitInv, NextInv, PTL DEF Spec

-----------------------------------------------------------------------------
\* For every cluster, however it changes between the calls of the Discoverer,
\* the errors that it attaches to nodes are true and complete: an object that
\* is reported as missing was missing at some time, a reference is refused
\* only if no grant that was there all the time permits it, and what a
\* complete model does not connect, it reports; unless a call has failed.
THEOREM Errors ==
    Spec => []ErrorsAreExact
<1>1. Inv => ErrorsAreExact
  <2> SUFFICES ASSUME Inv, failures = 0
      PROVE  /\ ErrorsAreTrue
             /\ outcome = "done" =>
                  \A g \in nodes \cap DOMAIN Gateways :
                     <<g, Gateways[g].class>> \in edges \cup errors
             /\ outcome = "done" /\ operation # "Gateway" =>
                  \A r \in nodes \cap DOMAIN HTTPRoutes : \A g \in HTTPRoutes[r].parents :
                     <<r, g>> \in edges \cup errors
    BY Zenon DEF ErrorsAreExact, ErrorsAreTrue
  <2>1. ErrorsAreTrue /\ RefsInv /\ ClassesInv /\ StartInv
    BY DEF Inv, DiscoveryInv
  <2>2. outcome = "done" => steps \in ClassesDone /\ steps \in GatewaysDone
    BY <2>1, Zenon DEF StartInv, ClassesDone, GatewaysDone, NamespacesDone, PoliciesDone
  <2> QED
    BY <2>1, <2>2 DEF RefsInv, ClassesInv
<1> QED
  BY <1>1, Invariance, PTL

\* For every cluster: gwctl dereferences a missing namespace node only if that
\* namespace was missing at some time of the discovery.
THEOREM Panics ==
    Spec => []PanicNeedsLostNamespace
<1>1. Inv => PanicNeedsLostNamespace
  BY DEF Inv, DiscoveryInv
<1> QED
  BY <1>1, Invariance, PTL

\* For every cluster and all policies: what exists from the beginning to the
\* end of a command is connected in the model, and a Backend has effective
\* policies for every lasting Gateway that lasting routes connect it to,
\* whatever else comes and goes between the calls; unless a call has failed.
THEOREM LastingObjects ==
    Spec => []LastingIsDescribed
<1>1. Inv => LastingIsDescribed
  <2> SUFFICES ASSUME Inv, outcome = "done", failures = 0
      PROVE  /\ LastingIsConnected
             /\ operation = "Backend" =>
                  \A b \in nodes \cap DOMAIN Backends, r \in DOMAIN HTTPRoutes :
                  \A g \in HTTPRoutes[r].parents :
                     LastingReference(r, b) /\ Lasting(g) => g \in DOMAIN effective[b]
    BY Zenon DEF LastingIsDescribed
  <2>1. /\ ErrorsAreTrue /\ RefsInv /\ RoutesInv /\ NamespacesInv /\ GraphInv
        /\ StartInv /\ AttachedInv /\ PhaseInv /\ LoopInv
    BY DEF Inv, DiscoveryInv
  <2>2. steps = <<>> /\ operation # ""
    BY <2>1, Zenon DEF StartInv
  <2>3. steps \in PoliciesDone /\ steps \in NamespacesDone /\ steps \in GatewaysDone
    BY <2>2, Zenon DEF ClassesDone, GatewaysDone, NamespacesDone, PoliciesDone
  <2>4. steps # FromRoutesOfGateways
    BY <2>3, StepsAreDistinct
  <2>5. ASSUME operation # "Gateway", NEW r \in nodes \cap DOMAIN HTTPRoutes,
               NEW g \in HTTPRoutes[r].parents, Lasting(g)
        PROVE  <<r, g>> \in edges
    <3>1. <<r, g>> \in edges \cup errors
      BY <2>1, <2>3, <2>5 DEF RefsInv
    <3>2. <<r, g>>[1] = r /\ <<r, g>>[2] = g /\ r \notin DOMAIN Backends
      BY KindsAreDisjoint
    <3> QED
      BY <2>1, <2>5, <3>1, <3>2 DEF ErrorsAreTrue
  <2>6. LastingIsConnected
    <3>1. operation = "Gateway" =>
             \A r \in DOMAIN HTTPRoutes : Lasting(r) =>
                \A g \in HTTPRoutes[r].parents \cap nodes : <<r, g>> \in edges
      BY <2>1, <2>4, Zenon DEF RoutesInv
    <3>2. operation = "Backend" =>
             \A r \in DOMAIN HTTPRoutes, b \in nodes \cap DOMAIN Backends :
                LastingReference(r, b) => <<r, b>> \in edges
      BY <2>1, <2>3 DEF RoutesInv
    <3>3. \A m \in nodes \cap Members : Lasting(NamespaceOf(m)) =>
             <<m, NamespaceOf(m)>> \in edges
      BY <2>1, <2>3 DEF NamespacesInv
    <3>4. \A n \in DOMAIN policies : policies[n].target \in nodes => n \in attached
      BY <2>1, <2>2, <2>3, Zenon DEF AttachedInv
    <3> QED
      BY <2>5, <3>1, <3>2, <3>3, <3>4, Zenon DEF LastingIsConnected
  <2>7. ASSUME operation = "Backend", NEW b \in nodes \cap DOMAIN Backends,
               NEW r \in DOMAIN HTTPRoutes, NEW g \in HTTPRoutes[r].parents,
               LastingReference(r, b), Lasting(g)
        PROVE  g \in DOMAIN effective[b]
    <3>1. <<r, b>> \in edges
      BY <2>6, <2>7 DEF LastingIsConnected
    <3>2. r \in nodes
      BY <2>1, <3>1 DEF GraphInv
    <3>3. <<r, g>> \in edges
      BY <2>5, <2>7, <3>2
    <3>4. g \in nodes \cap DOMAIN Gateways
      BY <2>1, <3>3, ReferencesAreOfTheirKind, Zenon DEF GraphInv
    <3>5. phase = "done" /\ graph = Model
      BY <2>1, <2>2, <2>7 DEF PhaseInv
    <3>6. b \in DOMAIN graph.routesOf /\ r \in graph.routesOf[b] /\ g \in graph.parents[r]
      <4>1. /\ graph.parents = [q \in nodes \cap DOMAIN HTTPRoutes |->
                    {h \in nodes \cap DOMAIN Gateways : <<q, h>> \in edges}]
            /\ graph.routesOf = [c \in nodes \cap DOMAIN Backends |->
                    {q \in nodes \cap DOMAIN HTTPRoutes : <<q, c>> \in edges}]
        BY <3>5, ModelIs, Zenon
      <4>2. b \in DOMAIN graph.routesOf /\ r \in graph.routesOf[b]
        BY <3>1, <3>2, <4>1
      <4>3. g \in graph.parents[r]
        BY <3>2, <3>3, <3>4, <4>1
      <4> QED
        BY <4>2, <4>3
    <3>7. b # ""
      BY ReferencesAreOfTheirKind, Zenon DEF Objects
    <3>8. BackendIsCalculated(b)
      BY <2>1, <3>5, <3>6, <3>7, Zenon DEF LoopInv
    <3> QED
      BY <3>6, <3>8 DEF BackendIsCalculated
  <2> QED
    BY <2>6, <2>7
<1> QED
  BY <1>1, Invariance, PTL

-----------------------------------------------------------------------------
(* The connections of the model.                                             *)

\* A node of the model is connected with no namespace and no class but its own.
IsOwn(e) ==
    /\ e[1] \in Members /\ e[2] \in Namespaces => e[2] = NamespaceOf(e[1])
    /\ e[1] \in DOMAIN Gateways /\ e[2] \in GatewayClasses => e[2] = Gateways[e[1]].class

EdgesInv == \A e \in edges : IsOwn(e)

LEMMA OthersAreOwn ==
    ASSUME NEW e, e[2] \in DOMAIN Gateways \cup DOMAIN Backends \cup DOMAIN HTTPRoutes
    PROVE  IsOwn(e)
  BY KindsAreDisjoint DEF IsOwn

LEMMA StepsKeepEdges ==
    ASSUME DiscoveryInv, EdgesInv, DiscoveryNext
    PROVE  EdgesInv'
<1> SUFFICES ASSUME NEW e \in edges', e \notin edges
             PROVE  IsOwn(e)
  BY Zenon DEF EdgesInv
<1>1. CASE \E o \in Changing : Change(o)
  BY <1>1, Zenon DEF Change, modelVars
<1>2. CASE discoverHTTPRoutesFromGateways
  <2>1. e[2] \in DOMAIN Gateways
    BY <1>2 DEF discoverHTTPRoutesFromGateways, RoutesFromGateways
  <2> QED
    BY <2>1, OthersAreOwn, Zenon
<1>3. CASE discoverGatewayClassesFromGateways
  <2>1. PICK classes : ClassesFromGateways(classes)
    BY <1>3, Zenon DEF discoverGatewayClassesFromGateways
  <2>2. PICK g \in nodes \cap DOMAIN Gateways : e = <<g, Gateways[g].class>>
    BY <2>1 DEF ClassesFromGateways
  <2>3. e[1] = g /\ e[2] = Gateways[g].class
    BY <2>2
  <2>4. e[2] \notin Namespaces
    BY <2>3, NamesAssumption, KindsAreDisjoint, Zenon DEF Objects
  <2> QED
    BY <2>3, <2>4, Zenon DEF IsOwn
<1>4. CASE \E r \in DOMAIN HTTPRoutes : \E g \in HTTPRoutes[r].parents : FetchGateway(r, g)
  BY <1>4, Zenon DEF FetchGateway
<1>5. CASE ConnectGateways
  <2>1. e \in GatewayRefs /\ e[2] \in nodes
    BY <1>5 DEF ConnectGateways
  <2>2. \E r \in DOMAIN HTTPRoutes : e[2] \in HTTPRoutes[r].parents
    BY <2>1 DEF GatewayRefs, FindGatewayRefsForHTTPRoute
  <2>3. nodes \subseteq Objects
    BY Zenon DEF DiscoveryInv, GraphInv
  <2>4. e[2] \in DOMAIN Gateways
    BY <2>1, <2>2, <2>3, ReferencesAreOfTheirKind, Zenon
  <2> QED
    BY <2>4, OthersAreOwn, Zenon
<1>6. CASE \E b \in DOMAIN Backends : FetchReferenceGrants(b)
  <2>1. e[2] \in DOMAIN Backends
    BY <1>6 DEF FetchReferenceGrants
  <2> QED
    BY <2>1, OthersAreOwn, Zenon
<1>7. CASE ReferenceGrantsFetched
  BY <1>7, Zenon DEF ReferenceGrantsFetched, modelVars
<1>8. CASE discoverHTTPRoutesFromBackends
  <2>1. e[2] \in DOMAIN Backends
    <3>1. PICK routes : RoutesFromBackends(routes)
      BY <1>8, Zenon DEF discoverHTTPRoutesFromBackends
    <3>2. e \in routes \X (nodes \cap DOMAIN Backends)
      BY <3>1, Zenon DEF RoutesFromBackends
    <3> QED
      BY ONLY <3>2
  <2> QED
    BY <2>1, OthersAreOwn, Zenon
<1>9. CASE discoverNamespaces
  <2>1. PICK m \in nodes \cap Members : e = <<m, NamespaceOf(m)>>
    BY <1>9 DEF discoverNamespaces
  <2>2. e[1] = m /\ e[2] = NamespaceOf(m)
    BY <2>1
  <2>3. e[2] \notin GatewayClasses
    BY <2>2, ReferencesAreOfTheirKind, KindsAreDisjoint, Zenon
  <2> QED
    BY <2>2, <2>3, Zenon DEF IsOwn
<1>10. CASE discoverPolicies
  BY <1>10, Zenon DEF discoverPolicies
<1>11. CASE Panic
  BY <1>11, Zenon DEF Panic, modelVars
<1>12. CASE Return
  BY <1>12, Zenon DEF Return, modelVars
<1> QED
  BY <1>1, <1>2, <1>3, <1>4, <1>5, <1>6, <1>7, <1>8, <1>9, <1>10, <1>11, <1>12, Zenon
     DEF DiscoveryNext

=============================================================================
