----------------------------- MODULE PolicyProofs ----------------------------
(* What calculateEffectivePolicies finds out, for every model, all policies  *)
(* and every order of its loops.                                             *)
EXTENDS GwctlProofs, MergeProofs
-----------------------------------------------------------------------------
(* The levels above a node.                                                  *)

LEMMA LevelsAre ==
    ASSUME Inv, EdgesInv, LevelsInv, phase \notin {"load", "error"}
    PROVE  Levels
<1>1. /\ \A x \in nodes : AllAttached(x)
      /\ \A x \in NeedNamespace : Connected(x, Namespaces)
  BY Zenon DEF LevelsInv
<1>2. edges \subseteq nodes \X nodes /\ graph = Model
  BY Zenon DEF Inv, DiscoveryInv, GraphInv, PhaseInv
<1>3. \A e \in edges : e[2] \in nodes
  BY <1>2
<1>4. \A x \in NeedNamespace : NamespaceOf(x) \in nodes
  <2> SUFFICES ASSUME NEW x \in NeedNamespace PROVE NamespaceOf(x) \in nodes
    OBVIOUS
  <2>1. PICK e \in edges : e[1] = x /\ e[2] \in Namespaces
    BY <1>1, Zenon DEF Connected
  <2>2. x \in Members
    BY DEF NeedNamespace
  <2>3. e[2] = NamespaceOf(x)
    BY <2>1, <2>2, Zenon DEF EdgesInv, IsOwn
  <2> QED
    BY <1>3, <2>1, <2>3, Zenon
<1>5. PICK C, R, B : C = graph.classOf /\ R = graph.parents /\ B = graph.routesOf
  OBVIOUS
<1>6. /\ C = [g \in nodes \cap DOMAIN Gateways |->
                IF Connected(g, GatewayClasses) THEN Gateways[g].class ELSE ""]
      /\ R = [r \in nodes \cap DOMAIN HTTPRoutes |->
                {g \in nodes \cap DOMAIN Gateways : <<r, g>> \in edges}]
      /\ B = [b \in nodes \cap DOMAIN Backends |->
                {r \in nodes \cap DOMAIN HTTPRoutes : <<r, b>> \in edges}]
  BY <1>2, <1>5, ModelIs, Zenon
<1>7. ASSUME NEW g \in DOMAIN C
      PROVE  /\ g \in DOMAIN Gateways /\ g \in nodes
             /\ C[g] # "" => C[g] \in nodes /\ NamespaceOf(g) \in nodes
  <2>1. g \in DOMAIN Gateways /\ g \in nodes /\ (C[g] # "" => Connected(g, GatewayClasses))
    BY <1>6, Zenon
  <2>2. ASSUME C[g] # "" PROVE C[g] \in nodes
    <3>1. C[g] = Gateways[g].class
      BY <1>6, <2>2, Zenon
    <3> QED
      BY <1>3, <2>1, <2>2, <3>1, Zenon DEF Connected, EdgesInv, IsOwn
  <2>3. ASSUME C[g] # "" PROVE NamespaceOf(g) \in nodes
    BY <1>4, <2>1, <2>3, Zenon DEF NeedNamespace, Members
  <2> QED
    BY <2>1, <2>2, <2>3, Zenon
<1>8. ASSUME NEW r \in DOMAIN R
      PROVE  /\ r \in DOMAIN HTTPRoutes /\ r \in nodes /\ NamespaceOf(r) \in nodes
             /\ R[r] \subseteq DOMAIN C
  <2>1. r \in DOMAIN HTTPRoutes /\ r \in nodes /\ R[r] \subseteq DOMAIN C
    BY <1>6, Zenon
  <2>2. r \notin DOMAIN Gateways
    BY <2>1, KindsAreDisjoint
  <2> QED
    BY <1>4, <2>1, <2>2, Zenon DEF NeedNamespace, Members
<1>9. ASSUME NEW b \in DOMAIN B
      PROVE  /\ b \in DOMAIN Backends /\ b \in nodes /\ NamespaceOf(b) \in nodes
             /\ B[b] \subseteq DOMAIN R
  <2>1. b \in DOMAIN Backends /\ b \in nodes /\ B[b] \subseteq DOMAIN R
    BY <1>6, Zenon
  <2>2. b \notin DOMAIN Gateways
    BY <2>1, KindsAreDisjoint
  <2> QED
    BY <1>4, <2>1, <2>2, Zenon DEF NeedNamespace, Members
<1> QED
  BY <1>1, <1>5, <1>7, <1>8, <1>9, Zenon DEF Levels

-----------------------------------------------------------------------------
(* The loops of calculateEffectivePolicies.                                  *)

LEMMA GatewayKeepsEffective ==
    ASSUME DeployedInv, CacheInv, Levels, LoopInv, EffectiveInv,
           NEW g \in DOMAIN graph.classOf, Effective!calculateEffectivePoliciesForGateways(g)
    PROVE  EffectiveInv'
<1>1. PICK v : v = Effective!Below(Effective!ByKind(graph.classOf[g]), g)
  OBVIOUS
<1>2. /\ phase = "gateways" /\ phase' = phase /\ g \in left /\ left' = left \ {g}
      /\ graph.classOf[g] = "" => effective' = effective
      /\ graph.classOf[g] # "" => effective' = Effective!WithEffective(g, v)
      /\ UNCHANGED <<policies, graph, backend>>
  BY <1>1, Zenon DEF Effective!calculateEffectivePoliciesForGateways, Effective!ClassOf
<1>3. backend' = ""
  BY <1>2, Zenon DEF LoopInv
<1>4. /\ DOMAIN effective \subseteq DOMAIN graph.classOf \ left
      /\ \A h \in DOMAIN graph.classOf \ left : GatewayFits(h)
  BY <1>2, Zenon DEF EffectiveInv
<1>5. /\ graph.classOf[g] # "" => DOMAIN effective' = DOMAIN effective \cup {g} /\ effective'[g] = v
      /\ DOMAIN effective' \subseteq DOMAIN effective \cup {g} /\ DOMAIN effective \subseteq DOMAIN effective'
      /\ \A h \in DOMAIN effective \ {g} : effective'[h] = effective[h]
  BY <1>2, OneMore, Zenon
<1>6. DOMAIN effective' \subseteq DOMAIN graph.classOf \ left'
  BY <1>2, <1>4, <1>5, Zenon
<1>7. ASSUME NEW h \in DOMAIN graph.classOf \ left, h # g PROVE GatewayFits(h)'
  <2>1. h \in DOMAIN effective' <=> h \in DOMAIN effective
    BY <1>5, <1>7, Zenon
  <2>2. h \in DOMAIN effective => effective'[h] = effective[h]
    BY <1>5, <1>7, Zenon
  <2> QED
    BY <1>2, <1>4, <1>7, <2>1, <2>2, FitsStay, Zenon
<1>8. GatewayFits(g)'
  <2>1. CASE graph.classOf[g] = ""
    <3>1. g \notin DOMAIN effective'
      BY <1>2, <1>4, <2>1, Zenon
    <3> QED
      BY <1>2, <2>1, <3>1, Zenon DEF GatewayFits
  <2>2. CASE graph.classOf[g] # ""
    <3>1. Good(v, Effective!GatewayChain(g))
      BY <1>1, <2>2, GatewayIsGood, Zenon
    <3>2. \A m, chain : Good(m, chain)' <=> Good(m, chain)
      BY <1>2, CoversStays, Zenon
    <3>3. Effective!GatewayChain(g)' = Effective!GatewayChain(g)
      BY <1>2, ChainsStay, Zenon
    <3>4. g \in DOMAIN effective' /\ effective'[g] = v
      BY <1>5, <2>2, Zenon
    <3>5. \A m, chain : m = effective'[g] /\ chain = Effective!GatewayChain(g)' => Good(m, chain)'
      BY <3>1, <3>2, <3>3, <3>4, Zenon
    <3> QED
      BY <1>2, <2>2, <3>4, <3>5, Zenon DEF GatewayFits
  <2> QED
    BY <2>1, <2>2, Zenon
<1>9. \A h \in DOMAIN graph.classOf \ left' : GatewayFits(h)'
  BY <1>2, <1>7, <1>8, Zenon
<1> QED
  BY <1>2, <1>3, <1>6, <1>9, Zenon DEF EffectiveInv

LEMMA RouteKeepsEffective ==
    ASSUME DeployedInv, CacheInv, Levels, LoopInv, EffectiveInv,
           NEW r \in DOMAIN graph.parents, Effective!calculateEffectivePoliciesForHTTPRoutes(r)
    PROVE  EffectiveInv'
<1>1. PICK v : v = [g \in graph.parents[r] |-> Effective!Below(Effective!OfGateway(g), r)]
  BY Zenon
<1>2. /\ phase = "routes" /\ phase' = phase /\ left' = left \ {r}
      /\ effective' = Effective!WithEffective(r, v)
      /\ UNCHANGED <<policies, graph, backend>>
  BY <1>1, Zenon DEF Effective!calculateEffectivePoliciesForHTTPRoutes, Effective!Parents
<1>3. backend' = ""
  BY <1>2, Zenon DEF LoopInv
<1>4. /\ \A g \in DOMAIN graph.classOf : GatewayFits(g)
      /\ \A q \in DOMAIN graph.parents \ left : RouteFits(q) /\ q \in DOMAIN effective
  BY <1>2, Zenon DEF EffectiveInv, LoopInv, RouteIsCalculated
<1>5. /\ DOMAIN effective' = DOMAIN effective \cup {r} /\ effective'[r] = v
      /\ \A y \in DOMAIN effective \ {r} : effective'[y] = effective[y]
  BY <1>2, OneMore, Zenon
<1>6. ASSUME NEW g \in DOMAIN graph.classOf PROVE GatewayFits(g)'
  <2>1. g # r
    BY KindsAreDisjoint, Zenon DEF Levels
  <2>2. g \in DOMAIN effective' <=> g \in DOMAIN effective
    BY <1>5, <2>1, Zenon
  <2>3. g \in DOMAIN effective => effective'[g] = effective[g]
    BY <1>5, <2>1, Zenon
  <2> QED
    BY <1>2, <1>4, <2>2, <2>3, FitsStay, Zenon
<1>7. ASSUME NEW q \in DOMAIN graph.parents \ left, q # r PROVE RouteFits(q)'
  <2>1. effective'[q] = effective[q]
    BY <1>4, <1>5, <1>7, Zenon
  <2> QED
    BY <1>2, <1>4, <1>7, <2>1, FitsStay, Zenon
<1>8. RouteFits(r)'
  <2>1. ASSUME NEW g \in graph.parents[r] PROVE Good(v[g], Effective!RouteChain(r, g))
    <3>1. g \in DOMAIN graph.classOf
      BY Zenon DEF Levels
    <3>2. Good(Effective!OfGateway(g), Effective!GatewayChain(g))
      BY <1>4, <3>1, OfGatewayIsGood, Zenon
    <3>3. v[g] = Effective!Below(Effective!OfGateway(g), r)
      BY <1>1, Zenon
    <3> QED
      BY <3>2, <3>3, RouteIsGood, Zenon
  <2>2. \A m, chain : Good(m, chain)' <=> Good(m, chain)
    BY <1>2, CoversStays
  <2>3. \A g : Effective!RouteChain(r, g)' = Effective!RouteChain(r, g)
    BY <1>2, ChainsStay, Zenon
  <2> QED
    BY <1>2, <1>5, <2>1, <2>2, <2>3, Zenon DEF RouteFits
<1>9. \A q \in DOMAIN graph.parents \ left' : RouteFits(q)'
  BY <1>2, <1>7, <1>8, Zenon
<1> QED
  BY <1>2, <1>3, <1>6, <1>9, Zenon DEF EffectiveInv

\* While the Backends are calculated, nothing changes for Gateways, routes and
\* the other Backends.
LEMMA OthersStay ==
    ASSUME Levels, LoopInv, EffectiveInv, phase = "backends", UNCHANGED <<policies, graph>>,
           NEW b \in DOMAIN graph.routesOf,
           \A x : x # b => /\ x \in DOMAIN effective' <=> x \in DOMAIN effective
                           /\ x \in DOMAIN effective => effective'[x] = effective[x]
    PROVE  /\ \A g \in DOMAIN graph.classOf : GatewayFits(g)'
           /\ \A r \in DOMAIN graph.parents : RouteFits(r)'
           /\ \A c \in DOMAIN graph.routesOf \ (left \cup {backend}) : c # b => BackendFits(c)'
<1>1. /\ \A g \in DOMAIN graph.classOf : GatewayFits(g)
      /\ \A r \in DOMAIN graph.parents : RouteFits(r) /\ r \in DOMAIN effective
      /\ \A c \in DOMAIN graph.routesOf \ (left \cup {backend}) : BackendFits(c) /\ c \in DOMAIN effective
  BY Zenon DEF EffectiveInv, LoopInv, RouteIsCalculated, BackendIsCalculated
<1>2. b \notin DOMAIN graph.classOf /\ b \notin DOMAIN graph.parents
  BY KindsAreDisjoint, Zenon DEF Levels
<1>3. ASSUME NEW g \in DOMAIN graph.classOf PROVE GatewayFits(g)'
  <2>1. /\ g \in DOMAIN effective' <=> g \in DOMAIN effective
        /\ g \in DOMAIN effective => effective'[g] = effective[g]
    BY <1>2, Zenon
  <2> QED
    BY <1>1, <2>1, FitsStay, Zenon
<1>4. ASSUME NEW r \in DOMAIN graph.parents PROVE RouteFits(r)'
  <2>1. effective'[r] = effective[r]
    BY <1>1, <1>2, Zenon
  <2> QED
    BY <1>1, <2>1, FitsStay, Zenon
<1>5. ASSUME NEW c \in DOMAIN graph.routesOf \ (left \cup {backend}), c # b PROVE BackendFits(c)'
  <2>1. effective'[c] = effective[c]
    BY <1>1, <1>5, Zenon
  <2> QED
    BY <1>1, <2>1, FitsStay, Zenon
<1> QED
  BY <1>3, <1>4, <1>5, Zenon

LEMMA BackendBeginKeepsEffective ==
    ASSUME Levels, LoopInv, EffectiveInv, NEW b \in DOMAIN graph.routesOf, Effective!BackendBegin(b)
    PROVE  EffectiveInv'
<1>1. /\ phase = "backends" /\ phase' = phase /\ backend = "" /\ left' = left \ {b} /\ backend' = b
      /\ todo' = graph.routesOf[b] /\ result' = <<>> /\ UNCHANGED <<policies, graph, effective>>
  BY Zenon DEF Effective!BackendBegin, Effective!RoutesOf
<1>2. /\ \A g \in DOMAIN graph.classOf : GatewayFits(g)'
      /\ \A r \in DOMAIN graph.parents : RouteFits(r)'
      /\ \A c \in DOMAIN graph.routesOf \ (left \cup {backend}) : c # b => BackendFits(c)'
  BY <1>1, OthersStay, Zenon
<1>3. "" \notin DOMAIN graph.routesOf
  BY ReferencesAreOfTheirKind, Zenon DEF Levels, Objects
<1>4. \A c \in DOMAIN graph.routesOf \ (left' \cup {backend'}) : BackendFits(c)'
  BY <1>1, <1>2, <1>3, Zenon
<1>5. DOMAIN <<>> = {}
  OBVIOUS
<1>6. DOMAIN result' = {}
  BY <1>1, <1>5, Zenon
<1>7. \A g : Via(graph.routesOf[backend] \ todo, g)' = {}
  BY <1>1, Zenon DEF Via
<1>8. ResultFits'
  BY <1>6, <1>7, Zenon DEF ResultFits
<1> QED
  BY <1>1, <1>2, <1>4, <1>8, Zenon DEF EffectiveInv

LEMMA BackendRouteKeepsEffective ==
    ASSUME Levels, LoopInv, EffectiveInv, NEW r \in DOMAIN graph.parents, Effective!BackendRoute(r)
    PROVE  EffectiveInv'
<1>1. PICK new : new = result'
  OBVIOUS
<1>2. /\ backend # "" /\ r \in todo /\ todo' = todo \ {r}
      /\ new = [g \in DOMAIN result \cup DOMAIN effective[r] |->
                    Effective!MergePoliciesOfSameHierarchy(
                        IF g \in DOMAIN result THEN result[g] ELSE <<>>,
                        IF g \in DOMAIN effective[r] THEN effective[r][g] ELSE <<>>)]
      /\ UNCHANGED <<policies, graph, phase, left, backend, effective>>
  BY <1>1, Zenon DEF Effective!BackendRoute
<1>3. phase = "backends" /\ backend \in DOMAIN graph.routesOf
  BY <1>2, Zenon DEF LoopInv
<1>4. /\ todo \subseteq graph.routesOf[backend] /\ ResultFits
      /\ RouteFits(r) /\ DOMAIN effective[r] = graph.parents[r]
  BY <1>2, <1>3, Zenon DEF EffectiveInv, LoopInv, RouteIsCalculated
<1>5. \A g, rs : rs = Via(graph.routesOf[backend] \ (todo \ {r}), g) =>
        IF rs = {} THEN g \notin DOMAIN new
        ELSE g \in DOMAIN new /\ Gathered(new[g], rs, g)
  BY <1>2, <1>3, <1>4, RouteIsMerged, Zenon
<1>6. /\ \A m, rs, g : Gathered(m, rs, g)' <=> Gathered(m, rs, g)
      /\ \A rs, g : Via(rs, g)' = Via(rs, g)
  BY <1>2, GatheredStays, ChainsStay, Zenon
<1>7. \A g : Via(graph.routesOf[backend] \ todo, g)' = Via(graph.routesOf[backend] \ (todo \ {r}), g)
  BY <1>2, Zenon DEF Via
<1>8. ResultFits'
  BY <1>1, <1>5, <1>6, <1>7, Zenon DEF ResultFits
<1>9. todo' \subseteq graph'.routesOf[backend']
  BY <1>2, <1>4, Zenon
<1>10. /\ \A g \in DOMAIN graph.classOf : GatewayFits(g)'
       /\ \A q \in DOMAIN graph.parents : RouteFits(q)'
       /\ \A c \in DOMAIN graph.routesOf \ (left \cup {backend}) : c # backend => BackendFits(c)'
  BY <1>2, <1>3, OthersStay, Zenon
<1> QED
  BY <1>2, <1>3, <1>8, <1>9, <1>10, Zenon DEF EffectiveInv

LEMMA BackendEndKeepsEffective ==
    ASSUME DeployedInv, CacheInv, Levels, LoopInv, EffectiveInv, Effective!BackendEnd
    PROVE  EffectiveInv'
<1>1. PICK b : b = backend
  OBVIOUS
<1>2. PICK v : v = [g \in DOMAIN result |-> Effective!Below(result[g], b)]
  BY Zenon
<1>3. /\ backend # "" /\ todo = {} /\ backend' = "" /\ effective' = Effective!WithEffective(b, v)
      /\ UNCHANGED <<policies, graph, phase, left>>
  BY <1>1, <1>2, Zenon DEF Effective!BackendEnd
<1>4. phase = "backends" /\ b \in DOMAIN graph.routesOf
  BY <1>1, <1>3, Zenon DEF LoopInv
<1>5. /\ DOMAIN effective' = DOMAIN effective \cup {b} /\ effective'[b] = v
      /\ \A y \in DOMAIN effective \ {b} : effective'[y] = effective[y]
  BY <1>3, OneMore, Zenon
<1>6. \A x : x # b => /\ x \in DOMAIN effective' <=> x \in DOMAIN effective
                      /\ x \in DOMAIN effective => effective'[x] = effective[x]
  BY <1>5, Zenon
<1>7. /\ \A g \in DOMAIN graph.classOf : GatewayFits(g)'
      /\ \A q \in DOMAIN graph.parents : RouteFits(q)'
      /\ \A c \in DOMAIN graph.routesOf \ (left \cup {backend}) : c # b => BackendFits(c)'
  BY <1>3, <1>4, <1>6, OthersStay, Zenon
<1>8. ASSUME NEW g, NEW rs, rs = Via(graph.routesOf[b], g)
      PROVE  IF rs = {} THEN g \notin DOMAIN v
             ELSE g \in DOMAIN v /\ Reached(v[g], b, rs, g)
  <2>1. rs = Via(graph.routesOf[backend] \ todo, g)
    BY <1>1, <1>3, <1>8, Zenon DEF Via
  <2>2. IF rs = {} THEN g \notin DOMAIN result
        ELSE g \in DOMAIN result /\ Gathered(result[g], rs, g)
    BY <1>3, <2>1, Zenon DEF EffectiveInv, ResultFits
  <2>3. DOMAIN v = DOMAIN result /\ (g \in DOMAIN result => v[g] = Effective!Below(result[g], b))
    BY <1>2, Zenon
  <2>4. rs \subseteq graph.routesOf[b] /\ \A r \in rs : g \in graph.parents[r]
    BY <1>8, Zenon DEF Via
  <2>5. rs # {} => Reached(Effective!Below(result[g], b), b, rs, g)
    BY <1>4, <2>2, <2>4, BackendIsReached, Zenon
  <2> QED
    BY <2>2, <2>3, <2>5, Zenon
<1>9. BackendFits(b)'
  <2>1. \A m, rs, g : Reached(m, b, rs, g)' <=> Reached(m, b, rs, g)
    BY <1>3, GatheredStays, Zenon
  <2>2. \A g : Via(graph.routesOf[b], g)' = Via(graph.routesOf[b], g)
    BY <1>3, Zenon DEF Via
  <2> QED
    BY <1>5, <1>8, <2>1, <2>2, Zenon DEF BackendFits
<1>10. \A c \in DOMAIN graph.routesOf \ (left' \cup {backend'}) : BackendFits(c)'
  BY <1>1, <1>3, <1>7, <1>9, Zenon
<1> QED
  BY <1>3, <1>4, <1>7, <1>10, Zenon DEF EffectiveInv

LEMMA LoopsKeepEffective ==
    ASSUME DeployedInv, CacheInv, Levels, LoopInv, EffectiveInv, Effective!CalculateNext
    PROVE  EffectiveInv'
<1>1. CASE Effective!NextPhase
  BY <1>1, NextPhaseKeepsEffective
<1>2. CASE \E g \in DOMAIN graph.classOf : Effective!calculateEffectivePoliciesForGateways(g)
  BY <1>2, GatewayKeepsEffective, Zenon
<1>3. CASE \E r \in DOMAIN graph.parents : Effective!calculateEffectivePoliciesForHTTPRoutes(r)
  BY <1>3, RouteKeepsEffective, Zenon
<1>4. CASE \E b \in DOMAIN graph.routesOf : Effective!BackendBegin(b)
  BY <1>4, BackendBeginKeepsEffective, Zenon
<1>5. CASE \E r \in DOMAIN graph.parents : Effective!BackendRoute(r)
  BY <1>5, BackendRouteKeepsEffective, Zenon
<1>6. CASE Effective!BackendEnd
  BY <1>6, BackendEndKeepsEffective
<1> QED
  BY <1>1, <1>2, <1>3, <1>4, <1>5, <1>6, Zenon
     DEF Effective!CalculateNext, Effective!ClassOf, Effective!Parents, Effective!RoutesOf

-----------------------------------------------------------------------------
PolicyInv == DeployedInv /\ CacheInv /\ EdgesInv /\ LevelsInv /\ EffectiveInv

\* Nothing is calculated yet.
LEMMA NothingIsCalculated ==
    ASSUME LoopInv, EffectiveInv, phase = "load", phase' \in {"load", "error"},
           UNCHANGED <<backend, effective>>
    PROVE  LevelsInv' /\ EffectiveInv'
<1>1. backend' = ""
  BY Zenon DEF LoopInv
<1> QED
  BY <1>1, Zenon DEF LevelsInv, EffectiveInv

\* Nothing is calculated by this step.
LEMMA PoliciesStay ==
    ASSUME PolicyInv, UNCHANGED <<deployed, crds, policies, loopVars>>,
           attached' = attached \/ attached' \subseteq DOMAIN policies, EdgesInv',
           phase \notin {"load", "error"} => UNCHANGED <<nodes, edges, attached>>
    PROVE  PolicyInv'
<1>1. UNCHANGED <<deployed, crds, policies, graph, phase, left, backend, todo, result, effective>>
  BY DEF loopVars
<1>2. DeployedInv'
  BY <1>1, Zenon DEF PolicyInv, DeployedInv
<1>3. CacheInv'
  BY <1>1, CacheStays, Zenon DEF PolicyInv
<1>4. LevelsInv'
  <2> SUFFICES ASSUME phase \notin {"load", "error"}
               PROVE  /\ \A x \in nodes : AllAttached(x)'
                      /\ \A x \in NeedNamespace' : Connected(x, Namespaces)'
    BY <1>1, Zenon DEF LevelsInv
  <2>1. /\ \A x \in nodes : AllAttached(x)
        /\ \A x \in NeedNamespace : Connected(x, Namespaces)
    BY Zenon DEF PolicyInv, LevelsInv
  <2>2. NeedNamespace' = NeedNamespace /\ \A x : Connected(x, Namespaces)' <=> Connected(x, Namespaces)
    BY DEF NeedNamespace, Connected
  <2>3. \A x : AllAttached(x)' <=> AllAttached(x)
    BY <1>1, Zenon DEF AllAttached
  <2> QED
    BY <2>1, <2>2, <2>3, Zenon
<1>5. EffectiveInv'
  <2>1. /\ \A g : GatewayFits(g) => GatewayFits(g)'
        /\ \A r : RouteFits(r) => RouteFits(r)'
        /\ \A b : BackendFits(b) => BackendFits(b)'
        /\ ResultFits => ResultFits'
    BY <1>1, FitsStay, Zenon
  <2> QED
    BY <1>1, <2>1, Zenon DEF PolicyInv, EffectiveInv
<1> QED
  BY <1>2, <1>3, <1>4, <1>5, Zenon DEF PolicyInv

LEMMA StartKeepsPolicies ==
    ASSUME Inv, PolicyInv, At("effective"), \A x \in NeedNamespace : Connected(x, Namespaces),
           Effective!Start(Model), UNCHANGED discoveryVars
    PROVE  PolicyInv'
<1>1. /\ phase = "load" /\ phase' = "gateways" /\ graph' = Model /\ left' = DOMAIN Model.classOf
      /\ UNCHANGED <<deployed, crds, policies, backend, effective>>
      /\ UNCHANGED <<nodes, edges, attached>>
  BY DEF Effective!Start, discoveryVars, modelVars
<1>2. DeployedInv'
  BY <1>1, Zenon DEF PolicyInv, DeployedInv
<1>3. CacheInv'
  BY <1>1, CacheStays, Zenon DEF PolicyInv
<1>4. EdgesInv'
  BY <1>1, Zenon DEF PolicyInv, EdgesInv
<1>5. steps = FromEffective /\ operation # "" /\ outcome = "running"
  BY AtEffective, Zenon DEF Inv, DiscoveryInv, At
<1>6. \A n \in DOMAIN policies : policies[n].target \in nodes => n \in attached
  BY <1>5, Zenon DEF Inv, AttachedInv, PoliciesDone
<1>7. \A x \in nodes' : AllAttached(x)'
  BY <1>1, <1>6, Zenon DEF AllAttached
<1>8. NeedNamespace' = NeedNamespace /\ \A x : Connected(x, Namespaces)' <=> Connected(x, Namespaces)
  BY <1>1, Zenon DEF NeedNamespace, Connected
<1>9. LevelsInv'
  BY <1>7, <1>8, Zenon DEF LevelsInv
<1>10. backend' = "" /\ DOMAIN effective' = {}
  BY <1>1, Zenon DEF Inv, LoopInv, PolicyInv, EffectiveInv
<1>11. left' = DOMAIN graph'.classOf
  BY <1>1, Zenon
<1>12. EffectiveInv'
  BY <1>1, <1>10, <1>11, Zenon DEF EffectiveInv
<1> QED
  BY <1>2, <1>3, <1>4, <1>9, <1>12, Zenon DEF PolicyInv

LEMMA LoopsKeepPolicies ==
    ASSUME Inv, PolicyInv, Effective!CalculateNext, UNCHANGED discoveryVars
    PROVE  PolicyInv'
<1>1. /\ UNCHANGED <<deployed, crds, policies, graph>> /\ UNCHANGED <<nodes, edges, attached>>
      /\ phase \in {"gateways", "routes", "backends"}
  BY LoopsKeepModel DEF discoveryVars, modelVars
<1>2. DeployedInv'
  BY <1>1, Zenon DEF PolicyInv, DeployedInv
<1>3. CacheInv'
  BY <1>1, CacheStays, Zenon DEF PolicyInv
<1>4. EdgesInv'
  BY <1>1, Zenon DEF PolicyInv, EdgesInv
<1>5. phase \notin {"load", "error"}
  BY <1>1
<1>6. /\ \A x \in nodes : AllAttached(x)
      /\ \A x \in NeedNamespace : Connected(x, Namespaces)
  BY <1>5, Zenon DEF PolicyInv, LevelsInv
<1>7. NeedNamespace' = NeedNamespace /\ \A x : Connected(x, Namespaces)' <=> Connected(x, Namespaces)
  BY <1>1 DEF NeedNamespace, Connected
<1>8. \A x : AllAttached(x)' <=> AllAttached(x)
  BY <1>1, Zenon DEF AllAttached
<1>9. LevelsInv'
  BY <1>1, <1>6, <1>7, <1>8, Zenon DEF LevelsInv
<1>10. Levels
  BY <1>5, LevelsAre DEF PolicyInv
<1>11. EffectiveInv'
  BY <1>10, LoopsKeepEffective, Zenon DEF Inv, PolicyInv
<1> QED
  BY <1>2, <1>3, <1>4, <1>9, <1>11, Zenon DEF PolicyInv

LEMMA NextPolicyInv ==
    Inv /\ PolicyInv /\ [Next]_vars => PolicyInv'
<1> SUFFICES ASSUME Inv, PolicyInv, [Next]_vars PROVE PolicyInv'
  OBVIOUS
<1>1. CASE Load
  <2>1. /\ phase = "load" /\ phase' \in {"load", "error"}
        /\ UNCHANGED <<deployed, backend, effective, edges>>
    BY <1>1 DEF Load, Effective!fetchPolicies, Effective!loopVars, discoveryVars, modelVars
  <2>2. DeployedInv' /\ EdgesInv'
    BY <2>1, Zenon DEF PolicyInv, DeployedInv, EdgesInv
  <2>3. CacheInv'
    BY <1>1, LoadKeepsCache, Zenon DEF PolicyInv
  <2>4. LevelsInv' /\ EffectiveInv'
    BY <2>1, NothingIsCalculated, Zenon DEF Inv, PolicyInv
  <2> QED
    BY <2>2, <2>3, <2>4, Zenon DEF PolicyInv
<1>2. CASE Describe
  <2>1. /\ phase = "load" /\ UNCHANGED <<deployed, crds, policies, loopVars>>
        /\ UNCHANGED <<edges, attached>>
    BY <1>2, Zenon DEF Describe, Discover
  <2>2. EdgesInv'
    BY <2>1, Zenon DEF PolicyInv, EdgesInv
  <2> QED
    BY <2>1, <2>2, PoliciesStay, Zenon
<1>3. CASE Steps
  <2>1. DiscoveryNext /\ UNCHANGED <<deployed, crds, policies, loopVars>>
    BY <1>3 DEF Steps
  <2>2. /\ discoverPolicies \/ attached' = attached
        /\ steps \in PoliciesDone => UNCHANGED <<nodes, edges, attached>>
    BY <2>1, ModelIsComplete, Zenon DEF Inv
  <2>3. discoverPolicies => attached' \subseteq DOMAIN policies
    BY DEF discoverPolicies
  <2>4. phase \notin {"load", "error"} => steps \in PoliciesDone
    BY Zenon DEF Inv, PhaseInv
  <2>5. EdgesInv'
    BY <2>1, StepsKeepEdges, Zenon DEF Inv, PolicyInv
  <2> QED
    BY <2>1, <2>2, <2>3, <2>4, <2>5, PoliciesStay, Zenon
<1>4. CASE calculateEffectivePolicies
  <2>1. At("effective") /\ \A x \in NeedNamespace : Connected(x, Namespaces)
    BY <1>4 DEF calculateEffectivePolicies
  <2>2. CASE Effective!Start(Model) /\ UNCHANGED discoveryVars
    BY <2>1, <2>2, StartKeepsPolicies
  <2>3. CASE Effective!CalculateNext /\ UNCHANGED discoveryVars
    BY <2>3, LoopsKeepPolicies
  <2>4. CASE UNCHANGED <<deployed, crds, policies, loopVars>> /\ UNCHANGED modelVars
    <3>1. UNCHANGED <<nodes, edges, attached>>
      BY <2>4 DEF modelVars
    <3>2. EdgesInv'
      BY <3>1, Zenon DEF PolicyInv, EdgesInv
    <3> QED
      BY <2>4, <3>1, <3>2, PoliciesStay, Zenon
  <2> QED
    BY <1>4, <2>2, <2>3, <2>4 DEF calculateEffectivePolicies
<1>5. CASE Ended \/ UNCHANGED vars
  <2>1. UNCHANGED <<deployed, crds, policies, loopVars>> /\ UNCHANGED <<nodes, edges, attached>>
    BY <1>5 DEF Ended, vars, discoveryVars, modelVars
  <2>2. EdgesInv'
    BY <2>1, Zenon DEF PolicyInv, EdgesInv
  <2> QED
    BY <2>1, <2>2, PoliciesStay, Zenon
<1> QED
  BY <1>1, <1>2, <1>3, <1>4, <1>5 DEF Next

LEMMA InitPolicyInv ==
    Init => PolicyInv
<1> SUFFICES ASSUME Init PROVE PolicyInv
  OBVIOUS
<1>1. DeployedInv /\ CacheInv
  BY InitDeployed
<1>2. phase = "load" /\ backend = "" /\ effective = <<>> /\ edges = {}
  BY Zenon DEF Init, DiscoveryInit, Effective!PoliciesInit
<1>3. DOMAIN <<>> = {}
  OBVIOUS
<1>4. DOMAIN effective = {}
  BY <1>2, <1>3, Zenon
<1>5. EdgesInv /\ LevelsInv /\ EffectiveInv
  BY <1>2, <1>4, Zenon DEF EdgesInv, LevelsInv, EffectiveInv
<1> QED
  BY <1>1, <1>5, Zenon DEF PolicyInv

LEMMA PolicyInvariance ==
    Spec => []PolicyInv
  BY InitPolicyInv, NextPolicyInv, Invariance, PTL DEF Spec

LEMMA AllIsCalculated ==
    ASSUME Inv, PolicyInv, phase = "done"
    PROVE  /\ Levels /\ crds = {}
           /\ \A g \in DOMAIN graph.classOf : GatewayFits(g)
           /\ \A r \in DOMAIN graph.parents : RouteFits(r)
           /\ \A b \in DOMAIN graph.routesOf : BackendFits(b)
<1>1. phase \notin {"load", "error"}
  OBVIOUS
<1>2. Levels
  BY <1>1, LevelsAre DEF PolicyInv
<1>3. crds = {}
  BY <1>1, Zenon DEF Inv, PhaseInv, AttachedInv
<1>4. left = {} /\ backend = ""
  BY Zenon DEF Inv, LoopInv
<1>5. "" \notin DOMAIN graph.routesOf
  BY <1>2, ReferencesAreOfTheirKind, Zenon DEF Levels, Objects
<1> QED
  BY <1>2, <1>3, <1>4, <1>5, Zenon DEF PolicyInv, EffectiveInv

\* For all policies, routes and orders of the loops: no policy is lost on its
\* way to the nodes, but to its namesake of another kind, and a setting is
\* effective for a Backend if and only if a policy above it has the setting, an
\* override if there is one, with a value that such a policy gives.
THEOREM NothingLost ==
    Spec => []NothingIsLostOrMadeUp
<1>1. Inv /\ PolicyInv => NothingIsLostOrMadeUp
  <2> SUFFICES ASSUME Inv, PolicyInv, phase = "done"
               PROVE  NothingIsLostOrMadeUp
    BY Zenon DEF NothingIsLostOrMadeUp, Effective!NothingIsLostOrMadeUp
  <2>1. DeployedInv /\ CacheInv /\ crds = {} /\ \A b \in DOMAIN graph.routesOf : BackendFits(b)
    BY AllIsCalculated, Zenon DEF PolicyInv
  <2>2. Effective!NoneIsForgotten
    <3> SUFFICES ASSUME NEW p \in deployed
                 PROVE  \E q \in Effective!Cached : q.name = p.name /\ (q = p \/ q.kind # p.kind)
      BY Zenon DEF Effective!NoneIsForgotten
    <3>1. PICK n, q : n = p.name /\ q = policies[n]
      OBVIOUS
    <3>2. n \in DOMAIN policies /\ (q = p \/ q.kind # p.kind)
      BY <2>1, <3>1 DEF CacheInv
    <3>3. q \in Effective!Cached /\ q.name = n
      BY <2>1, <3>1, <3>2, Zenon DEF CacheInv, Effective!Cached
    <3> QED
      BY <3>1, <3>2, <3>3, Zenon
  <2>3. ASSUME NEW b \in DOMAIN graph.routesOf, NEW g \in DOMAIN effective[b], NEW k
        PROVE  IsDrawnFrom(IF k \in DOMAIN effective[b][g]
                           THEN Effective!EffectiveSpec(effective[b][g][k]) ELSE <<>>,
                           Above(LevelsTo(b, Via(graph.routesOf[b], g), g), k))
    <3>1. PICK m, rs, X : /\ m = effective[b][g] /\ rs = Via(graph.routesOf[b], g)
                          /\ X = LevelsTo(b, rs, g)
      BY Zenon
    <3>2. Reached(m, b, rs, g)
      BY <2>1, <2>3, <3>1, Zenon DEF BackendFits
    <3>3. Covers(m, X)
      BY <3>1, <3>2, Zenon DEF Reached
    <3>4. IsDrawnFrom(IF k \in DOMAIN m THEN Effective!EffectiveSpec(m[k]) ELSE <<>>, Above(X, k))
      BY <3>3, CoversSpec, Zenon
    <3> QED
      BY <3>1, <3>4, Zenon
  <2>4. \A b \in DOMAIN Effective!RoutesOf :
        \A g \in DOMAIN effective[b], k \in Effective!KindsOf(deployed) :
            LET above == UNION {Effective!Attached(x, k) :
                    x \in UNION {Effective!Elements(Effective!BackendChain(b, r, g)) :
                        r \in {q \in Effective!RoutesOf[b] : g \in Effective!Parents[q]}}}
                spec == IF k \in DOMAIN effective[b][g]
                        THEN Effective!EffectiveSpec(effective[b][g][k]) ELSE <<>>
            IN  /\ DOMAIN spec = Effective!SettingsOf(above)
                /\ \A s \in DOMAIN spec :
                     spec[s] \in IF Effective!Values(above, s) # {}
                                 THEN Effective!Values(above, s)
                                 ELSE Effective!Defaults(above, s)
    <3> TAKE b \in DOMAIN Effective!RoutesOf
    <3> TAKE g \in DOMAIN effective[b], k \in Effective!KindsOf(deployed)
    <3>1. IsDrawnFrom(IF k \in DOMAIN effective[b][g]
                      THEN Effective!EffectiveSpec(effective[b][g][k]) ELSE <<>>,
                      Above(LevelsTo(b, Via(Effective!RoutesOf[b], g), g), k))
      BY <2>3, Zenon DEF Effective!RoutesOf
    <3> QED
      BY <3>1, Zenon DEF IsDrawnFrom, Above, LevelsTo, Via, Effective!Parents
  <2> QED
    BY <2>2, <2>4, Zenon DEF NothingIsLostOrMadeUp, Effective!NothingIsLostOrMadeUp
<1> QED
  BY <1>1, Invariance, PolicyInvariance, PTL

\* For all policies and every model: along the hierarchy of GatewayClass,
\* namespace, Gateway, namespace, HTTPRoute, namespace and Backend, the first
\* override from the top wins, else the last default, whatever the order of the
\* loops; as long as no level has three policies of a kind, for settings that no
\* two policies of one level override, and for a Backend that one route connects
\* with a Gateway.
THEOREM Precedence ==
    Spec => []PrecedenceHolds
<1>1. Inv /\ PolicyInv => PrecedenceHolds
  <2> SUFFICES ASSUME Inv, PolicyInv, phase = "done"
               PROVE  /\ \A g \in DOMAIN graph.classOf :
                           graph.classOf[g] # "" =>
                             Effective!Matches(effective[g], Effective!GatewayChain(g))
                      /\ \A r \in DOMAIN graph.parents : \A g \in graph.parents[r] :
                           Effective!Matches(effective[r][g], Effective!RouteChain(r, g))
                      /\ \A b \in DOMAIN graph.routesOf : \A r \in graph.routesOf[b] :
                         \A g \in graph.parents[r] :
                           {q \in graph.routesOf[b] : g \in graph.parents[q]} = {r} =>
                             Effective!Matches(effective[b][g], Effective!BackendChain(b, r, g))
    BY Zenon DEF PrecedenceHolds, Effective!PrecedenceHolds,
       Effective!ClassOf, Effective!Parents, Effective!RoutesOf
  <2>1. /\ DeployedInv /\ CacheInv /\ Levels
        /\ \A g \in DOMAIN graph.classOf : GatewayFits(g)
        /\ \A r \in DOMAIN graph.parents : RouteFits(r)
        /\ \A b \in DOMAIN graph.routesOf : BackendFits(b)
    BY AllIsCalculated, Zenon DEF PolicyInv
  <2>2. ASSUME NEW g \in DOMAIN graph.classOf, graph.classOf[g] # ""
        PROVE  Effective!Matches(effective[g], Effective!GatewayChain(g))
    <3>1. PICK m, chain : m = effective[g] /\ chain = Effective!GatewayChain(g)
      OBVIOUS
    <3>2. Fits(m, chain) /\ chain \in Seq(nodes)
      BY <2>1, <2>2, <3>1, ChainsAre, Zenon DEF GatewayFits, Good
    <3> QED
      BY <2>1, <3>1, <3>2, FitsMatches, Zenon
  <2>3. ASSUME NEW r \in DOMAIN graph.parents, NEW g \in graph.parents[r]
        PROVE  Effective!Matches(effective[r][g], Effective!RouteChain(r, g))
    <3>1. PICK m, chain : m = effective[r][g] /\ chain = Effective!RouteChain(r, g)
      OBVIOUS
    <3>2. Fits(m, chain) /\ chain \in Seq(nodes)
      BY <2>1, <3>1, ChainsAre, Zenon DEF RouteFits, Good
    <3> QED
      BY <2>1, <3>1, <3>2, FitsMatches, Zenon
  <2>4. ASSUME NEW b \in DOMAIN graph.routesOf, NEW r \in graph.routesOf[b],
               NEW g \in graph.parents[r],
               {q \in graph.routesOf[b] : g \in graph.parents[q]} = {r}
        PROVE  Effective!Matches(effective[b][g], Effective!BackendChain(b, r, g))
    <3>1. PICK m, chain : m = effective[b][g] /\ chain = Effective!BackendChain(b, r, g)
      OBVIOUS
    <3>2. Via(graph.routesOf[b], g) = {r}
      BY <2>4, Zenon DEF Via
    <3>3. Reached(m, b, {r}, g)
      BY <2>1, <3>1, <3>2, Zenon DEF BackendFits
    <3>4. Fits(m, chain) /\ chain \in Seq(nodes)
      BY <2>1, <3>1, <3>3, ChainsAre, Zenon DEF Reached
    <3> QED
      BY <2>1, <3>1, <3>4, FitsMatches, Zenon
  <2> QED
    BY <2>2, <2>3, <2>4, Zenon
<1> QED
  BY <1>1, Invariance, PolicyInvariance, PTL
=============================================================================
