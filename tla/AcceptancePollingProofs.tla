----------------------- MODULE AcceptancePollingProofs -----------------------
(* What the answers of the polling helpers say about a Gateway and a route,  *)
(* for any listeners, parents, numbers of generations, polls and faults.     *)
EXTENDS AcceptancePolling, TLAPS

\* The status of a listener of a Gateway with the conditions c.
ListedWith(listener, c) ==
    \E kinds, attached, refs :
        listener = [kinds |-> kinds, attached |-> attached,
                    conditions |-> [Accepted |-> c.Accepted, Programmed |-> c.Programmed,
                                    ResolvedRefs |-> refs]]

\* What a controller has written of the Gateway is of a generation that it has
\* read, and its listeners have its conditions.
GatewayInv ==
    /\ gen \in 1..MaxGen /\ seen \in 0..gen
    /\ conditions = [Accepted |-> conditions.Accepted, Programmed |-> conditions.Programmed]
    /\ \A t \in {"Accepted", "Programmed"} :
         \/ conditions[t] = Gateway!Pending
         \/ conditions[t].gen \in 1..seen /\ conditions[t] = Gateway!Verdict(conditions[t].gen)
    /\ IF listeners = <<>>
       THEN \A t \in {"Accepted", "Programmed"} : conditions[t] = Gateway!Pending
       ELSE /\ DOMAIN listeners = Listeners
            /\ \A l \in Listeners : ListedWith(listeners[l], conditions)
    /\ address => conditions.Programmed.value = "True"
    /\ polls \in Nat /\ (result = "polling" => polls < Timeout)

Entries ==
    [ref : Refs, namespace : {"nil", "same"},
     conditions : [Accepted : [value : {"True", "False"}, gen : Nat]]]

\* The same for the parents of the route.
StatusInv ==
    /\ routeGen \in 1..MaxGen
    /\ routeSeen \in [Refs -> 0..routeGen]
    /\ status \in Seq(Entries)
    /\ \A i \in 1..Len(status) :
         LET accepted == status[i].conditions.Accepted
         IN  /\ accepted.gen \in 1..routeGen
             /\ accepted.value = "True" <=> status[i].ref \in routeSpec[accepted.gen]

\* A helper that still polls, or has timed out, has not seen what it waits for.
HelperInv ==
    /\ routePolls \in Nat /\ (routeResult = "polling" => routePolls < Timeout)
    /\ emptyChecked => routePolls > 0
    /\ routeCall.helper = "HTTPRouteMustHaveCondition" => routeCall.value \in {"True", "False"}
    /\ DecoderReuses =>
         /\ actual \in Seq(Entries) /\ Len(actual) <= Len(status)
         /\ routeResult \in {"polling", "timeout"} => ~good

\* The Gateway is accepted and programmed as it is now.
GatewayIsCurrent ==
    spec[gen] /\ \A t \in {"Accepted", "Programmed"} : conditions[t] = Gateway!Verdict(gen)

\* WaitForGatewayAddress has returned.
AddressFound ==
    step \in {"routes", "tls", "listeners"} \/ (step = "address" /\ result = "ok")

\* The wait for the parents of the route has returned.
RouteFound ==
    step = "listeners" \/ (step \in {"routes", "tls"} /\ routeResult = "ok")

\* What the helpers that have returned have found still holds, unless the
\* Gateway has been edited.
AcceptedInv ==
    test = "accepted" =>
        /\ routeGen = 1 /\ since \in 0..gen
        /\ step = "address" => call.helper = "WaitForGatewayAddress"
        /\ step \in {"routes", "tls"} =>
             /\ routeCall.helper \in {"RouteMustHaveParents", "TLSRouteMustHaveParents"}
             /\ routeCall.value = "True"
        /\ RouteFound => Refs \subseteq routeSpec[routeGen]
        /\ since = gen /\ AddressFound => GatewayIsCurrent

Inv == GatewayInv /\ StatusInv /\ HelperInv /\ AcceptedInv

LEMMA Generations ==
    ASSUME GatewayInv
    PROVE  gen \in Nat /\ gen > 0 /\ seen \in Nat /\ seen <= gen
<1>1. gen \in 1..MaxGen /\ seen \in 0..gen
  BY DEF GatewayInv
<1> QED
  BY <1>1, PollingAssumption

-----------------------------------------------------------------------------
(* The Gateway.                                                              *)

GatewayPolls ==
    \/ Gateway!Poll \/ Gateway!GetFails \/ \E c : Gateway!Begin(c)

GatewayStep ==
    \/ Gateway!Edit \/ Gateway!RoutesChange \/ Gateway!PodsStart
    \/ Gateway!Observe \/ Gateway!Accept \/ Gateway!Program
    \/ GatewayPolls
    \/ UNCHANGED gatewayVars

LEMMA EveryStepOfGateway ==
    ASSUME [Next]_vars
    PROVE  GatewayStep
<1>1. CASE test = "gateway" /\ Gateway!Next
  BY <1>1 DEF Gateway!Next, GatewayStep, GatewayPolls
<1>2. CASE test = "route" /\ UNCHANGED gatewayVars
  BY <1>2 DEF GatewayStep
<1>3. CASE Call \/ WaitForListeners
  BY <1>3 DEF Call, WaitForListeners, GatewayStep, GatewayPolls
<1>4. CASE WaitForRoute \/ WaitForTLSRoute \/ Return \/ Ended
  BY <1>4 DEF WaitForRoute, WaitForTLSRoute, Return, Ended, GatewayStep
<1>5. CASE Meanwhile
  BY <1>5 DEF Meanwhile, GatewayStep, GatewayPolls
<1>6. CASE UNCHANGED vars
  BY <1>6 DEF vars, GatewayStep
<1> QED
  BY <1>1, <1>2, <1>3, <1>4, <1>5, <1>6 DEF Next, GatewayAndRoutesMustBeAccepted

\* A poll that goes on is one before the timeout, and it ends with "ok" only
\* if what it looked at was as expected.
LEMMA EndPollIs ==
    ASSUME NEW done, polls \in Nat, polls < Timeout, Gateway!EndPoll(done)
    PROVE  /\ polls' \in Nat /\ (result' = "polling" => polls' < Timeout)
           /\ result' = "ok" => done
           /\ UNCHANGED <<gen, spec, excluded, conditions, listeners, address, routes,
                          podsReady, seen, call>>
<1>1. Timeout \in Nat
  BY PollingAssumption
<1>2. /\ polls' = polls + 1
      /\ result' = CASE done -> "ok"
                     [] ~done /\ polls + 1 = Timeout -> "timeout"
                     [] ~done /\ polls + 1 < Timeout -> "polling"
      /\ UNCHANGED <<gen, spec, excluded, conditions, listeners, address, routes,
                     podsReady, seen, call>>
  BY DEF Gateway!EndPoll, Gateway!world
<1>3. CASE done
  BY <1>1, <1>2, <1>3
<1>4. CASE ~done /\ polls + 1 = Timeout
  BY <1>1, <1>2, <1>4
<1>5. CASE ~done /\ polls + 1 < Timeout
  BY <1>1, <1>2, <1>5
<1> QED
  BY <1>1, <1>3, <1>4, <1>5

\* The helpers leave the Gateway as it is.
LEMMA PollsOfGateway ==
    ASSUME GatewayInv, GatewayPolls
    PROVE  /\ UNCHANGED <<gen, spec, excluded, conditions, listeners, address, routes,
                          podsReady, seen>>
           /\ polls' \in Nat /\ (result' = "polling" => polls' < Timeout)
           /\ result = "polling" => call' = call
<1> USE DEF GatewayInv
<1>1. CASE \E c : Gateway!Begin(c)
  BY <1>1, PollingAssumption DEF Gateway!Begin, Gateway!world
<1>2. CASE Gateway!GetFails
  BY <1>2 DEF Gateway!GetFails, Gateway!world
<1>3. CASE Gateway!GatewayMustHaveCondition /\ ~Gateway!Latest
  BY <1>3 DEF Gateway!GatewayMustHaveCondition, Gateway!world
<1>4. ASSUME Gateway!Poll, ~(Gateway!GatewayMustHaveCondition /\ ~Gateway!Latest)
      PROVE  \E done : Gateway!EndPoll(done) /\ result = "polling"
  BY <1>4, Zenon
     DEF Gateway!Poll, Gateway!gwcMustBeAccepted, Gateway!GatewayMustHaveLatestConditions,
         Gateway!GatewayMustHaveCondition, Gateway!WaitForGatewayAddress,
         Gateway!GatewayListenersMustHaveConditions, Gateway!GatewayMustHaveZeroRoutes,
         Gateway!GatewayStatusMustHaveListeners, Gateway!NamespacesMustBeReady,
         Gateway!MeshNamespacesMustBeReady, Gateway!Polling
<1> QED
  BY <1>1, <1>2, <1>3, <1>4, EndPollIs DEF GatewayPolls

LEMMA VerdictIs ==
    ASSUME NEW g
    PROVE  /\ Gateway!Verdict(g).gen = g
           /\ Gateway!Verdict(g).value = "True" => spec[g]
<1>1. Gateway!Verdict(g) = [value |-> IF spec[g] THEN "True" ELSE "False", gen |-> g]
  BY DEF Gateway!Verdict
<1>2. CASE spec[g]
  BY <1>1, <1>2
<1>3. CASE ~spec[g]
  BY <1>1, <1>3
<1> QED
  BY <1>2, <1>3

LEMMA ListedConditions ==
    ASSUME NEW listener, NEW c, ListedWith(listener, c)
    PROVE  \A t \in {"Accepted", "Programmed"} : listener.conditions[t] = c[t]
<1>1. PICK k, a, f :
         listener = [kinds |-> k, attached |-> a,
                     conditions |-> [Accepted |-> c.Accepted, Programmed |-> c.Programmed,
                                     ResolvedRefs |-> f]]
  BY DEF ListedWith
<1> QED
  BY <1>1

\* A status that is of the Gateway's generation is about its spec.
LEMMA LatestIsVerdict ==
    ASSUME GatewayInv, Gateway!Latest
    PROVE  /\ \A t \in {"Accepted", "Programmed"} : conditions[t] = Gateway!Verdict(gen)
           /\ DOMAIN listeners = Listeners
           /\ \A l \in Listeners, t \in {"Accepted", "Programmed"} :
                listeners[l].conditions[t] = conditions[t]
<1>1. \A t \in {"Accepted", "Programmed"} : t \in DOMAIN conditions
  BY DEF GatewayInv
<1>2. \A t \in {"Accepted", "Programmed"} : conditions[t].gen = gen
  BY <1>1 DEF Gateway!Latest, Gateway!ConditionsHaveLatestObservedGeneration,
               Gateway!FilterStaleConditions
<1>3. gen # 0 /\ Gateway!Pending.gen = 0
  BY DEF GatewayInv, Gateway!Pending
<1>4. \A t \in {"Accepted", "Programmed"} : conditions[t] = Gateway!Verdict(gen)
  BY <1>2, <1>3 DEF GatewayInv
<1>5. listeners # <<>>
  BY <1>2, <1>3 DEF GatewayInv
<1>6. \A l \in Listeners : ListedWith(listeners[l], conditions)
  BY <1>5 DEF GatewayInv
<1> QED
  BY <1>4, <1>5, <1>6, ListedConditions DEF GatewayInv

LEMMA AcceptKeepsGatewayInv ==
    ASSUME GatewayInv, Gateway!Accept
    PROVE  GatewayInv'
<1> DEFINE v == Gateway!Verdict(seen)
<1>1. /\ seen \in 1..gen /\ gen \in 1..MaxGen
      /\ UNCHANGED <<gen, spec, address, seen, polls, result>>
  BY DEF GatewayInv, Gateway!Accept, Gateway!helperVars
<1>2. conditions' = [Accepted |-> v, Programmed |-> conditions.Programmed]
  <2>1. conditions' = [conditions EXCEPT !.Accepted = v]
    BY DEF Gateway!Accept
  <2>2. conditions = [Accepted |-> conditions.Accepted, Programmed |-> conditions.Programmed]
    BY DEF GatewayInv
  <2> HIDE DEF v
  <2> QED
    BY <2>1, <2>2
<1>3. conditions'.Accepted = v /\ conditions'.Programmed = conditions.Programmed
  BY <1>2
<1>4. Gateway!Verdict(seen)' = v /\ Gateway!Pending' = Gateway!Pending /\ v.gen = seen
  BY <1>1, VerdictIs DEF Gateway!Verdict, Gateway!Pending
<1>5. \A t \in {"Accepted", "Programmed"} :
         \/ conditions'[t] = Gateway!Pending'
         \/ conditions'[t].gen \in 1..seen' /\ conditions'[t] = Gateway!Verdict(conditions[t].gen)'
  <2>1. conditions'.Accepted.gen = seen
    BY <1>3, <1>4
  <2>2. Gateway!Verdict(conditions.Accepted.gen)' = v
    BY <1>1, <2>1 DEF Gateway!Verdict
  <2>3. \/ conditions'.Programmed = Gateway!Pending'
        \/ conditions'.Programmed.gen \in 1..seen'
           /\ conditions'.Programmed = Gateway!Verdict(conditions.Programmed.gen)'
    BY <1>1, <1>3, <1>4 DEF GatewayInv, Gateway!Verdict
  <2> QED
    BY <1>1, <1>3, <2>1, <2>2, <2>3
<1>6. /\ DOMAIN listeners' = Listeners /\ listeners' # <<>>
      /\ \A l \in Listeners : ListedWith(listeners'[l], conditions')
  <2> DEFINE k == {[group |-> "gateway", kind |-> "HTTPRoute"]}
             p(l) == IF listeners = <<>> THEN Gateway!Pending
                     ELSE listeners[l].conditions.Programmed
             r(f, l) == [value |-> f[l], gen |-> seen]
  <2>1. PICK f : listeners' = [l \in Listeners |->
            [kinds |-> k, attached |-> routes,
             conditions |-> [Accepted |-> v, Programmed |-> p(l), ResolvedRefs |-> r(f, l)]]]
    BY DEF Gateway!Accept
  <2>2. ASSUME NEW l \in Listeners PROVE p(l) = conditions.Programmed
    BY ListedConditions DEF GatewayInv
  <2> HIDE DEF k, p, r
  <2>3. ASSUME NEW l \in Listeners PROVE ListedWith(listeners'[l], conditions')
    <3>1. listeners'[l] = [kinds |-> k, attached |-> routes,
              conditions |-> [Accepted |-> conditions'.Accepted,
                              Programmed |-> conditions'.Programmed, ResolvedRefs |-> r(f, l)]]
      BY <1>3, <2>1, <2>2
    <3> QED
      BY <3>1, Zenon DEF ListedWith
  <2>4. DOMAIN listeners' = Listeners /\ listeners' # <<>>
    BY <2>1, PollingAssumption
  <2> QED
    BY <2>3, <2>4
<1>7. address' => conditions'.Programmed.value = "True"
  BY <1>1, <1>3 DEF GatewayInv
<1> QED
  BY <1>1, <1>2, <1>3, <1>5, <1>6, <1>7 DEF GatewayInv

LEMMA ProgramKeepsGatewayInv ==
    ASSUME GatewayInv, Gateway!Program
    PROVE  GatewayInv'
<1> DEFINE v == conditions.Accepted
<1>1. UNCHANGED <<gen, spec, seen, polls, result>>
  BY DEF Gateway!Program, Gateway!helperVars
<1>2. conditions' = [Accepted |-> v, Programmed |-> v]
  <2>1. conditions' = [conditions EXCEPT !.Programmed = v]
    BY DEF Gateway!Program
  <2>2. conditions = [Accepted |-> conditions.Accepted, Programmed |-> conditions.Programmed]
    BY DEF GatewayInv
  <2> QED
    BY <2>1, <2>2
<1>3. conditions'.Accepted = v /\ conditions'.Programmed = v
  BY <1>2
<1>4. listeners # <<>>
  BY DEF GatewayInv, Gateway!Program, Gateway!Pending
<1>5. \A t \in {"Accepted", "Programmed"} :
         \/ conditions'[t] = Gateway!Pending'
         \/ conditions'[t].gen \in 1..seen' /\ conditions'[t] = Gateway!Verdict(conditions[t].gen)'
  BY <1>1, <1>3 DEF GatewayInv, Gateway!Verdict, Gateway!Pending
<1>6. /\ DOMAIN listeners' = Listeners /\ listeners' # <<>>
      /\ \A l \in Listeners : ListedWith(listeners'[l], conditions')
  <2>1. listeners' = [l \in Listeners |-> [listeners[l] EXCEPT !.conditions.Programmed = v]]
    BY DEF Gateway!Program
  <2>2. DOMAIN listeners' = Listeners /\ listeners' # <<>>
    BY <2>1, PollingAssumption
  <2>3. ASSUME NEW l \in Listeners PROVE ListedWith(listeners'[l], conditions')
    <3>1. PICK k, a, f :
             listeners[l] = [kinds |-> k, attached |-> a,
                             conditions |-> [Accepted |-> v, Programmed |-> conditions.Programmed,
                                             ResolvedRefs |-> f]]
      BY <1>4 DEF GatewayInv, ListedWith
    <3>2. listeners'[l] = [listeners[l] EXCEPT !.conditions.Programmed = v]
      BY <2>1
    <3>3. listeners'[l] = [kinds |-> k, attached |-> a,
                           conditions |-> [Accepted |-> v, Programmed |-> v, ResolvedRefs |-> f]]
      BY <3>1, <3>2
    <3> QED
      BY <1>3, <3>3, Zenon DEF ListedWith
  <2> QED
    BY <2>2, <2>3
<1>7. address' => conditions'.Programmed.value = "True"
  BY <1>3, Zenon DEF Gateway!Program
<1> QED
  BY <1>1, <1>2, <1>3, <1>5, <1>6, <1>7 DEF GatewayInv

LEMMA GatewayInvStays ==
    ASSUME GatewayInv, UNCHANGED <<spec, conditions, listeners, address>>,
           gen' \in gen..MaxGen, seen' \in seen..gen',
           polls' \in Nat, result' = "polling" => polls' < Timeout
    PROVE  GatewayInv'
<1>1. gen' \in 1..MaxGen /\ seen' \in 0..gen' /\ 1..seen \subseteq 1..seen'
  BY PollingAssumption DEF GatewayInv
<1>2. \A t \in {"Accepted", "Programmed"} :
         \/ conditions'[t] = Gateway!Pending'
         \/ conditions'[t].gen \in 1..seen' /\ conditions'[t] = Gateway!Verdict(conditions[t].gen)'
  BY <1>1 DEF GatewayInv, Gateway!Verdict, Gateway!Pending
<1>3. Gateway!Pending' = Gateway!Pending
  BY DEF Gateway!Pending
<1> QED
  BY <1>1, <1>2, <1>3 DEF GatewayInv

LEMMA GatewayStepKeepsInv ==
    ASSUME GatewayInv, GatewayStep
    PROVE  GatewayInv'
<1>1. gen \in 1..MaxGen /\ seen \in 0..gen /\ MaxGen \in Nat
      /\ polls \in Nat /\ (result = "polling" => polls < Timeout)
  BY PollingAssumption DEF GatewayInv
<1>2. CASE Gateway!Edit
  BY <1>1, <1>2, GatewayInvStays DEF Gateway!Edit, Gateway!helperVars
<1>3. CASE Gateway!RoutesChange \/ Gateway!PodsStart
  BY <1>1, <1>3, GatewayInvStays DEF Gateway!RoutesChange, Gateway!PodsStart, Gateway!helperVars
<1>4. CASE Gateway!Observe
  BY <1>1, <1>4, GatewayInvStays DEF Gateway!Observe, Gateway!helperVars
<1>5. CASE Gateway!Accept
  BY <1>5, AcceptKeepsGatewayInv
<1>6. CASE Gateway!Program
  BY <1>6, ProgramKeepsGatewayInv
<1>7. CASE GatewayPolls
  BY <1>1, <1>7, PollsOfGateway, GatewayInvStays
<1>8. CASE UNCHANGED gatewayVars
  BY <1>1, <1>8, GatewayInvStays DEF gatewayVars
<1> QED
  BY <1>2, <1>3, <1>4, <1>5, <1>6, <1>7, <1>8 DEF GatewayStep

\* What a poll that succeeds has seen.
LEMMA PollSees ==
    ASSUME GatewayInv, GatewayStep, result = "polling", result' = "ok"
    PROVE  /\ Gateway!Poll
           /\ call.helper \in {"GatewayMustHaveLatestConditions", "GatewayMustHaveCondition",
                               "WaitForGatewayAddress", "GatewayStatusMustHaveListeners"}
                => Gateway!Latest
           /\ call.helper = "WaitForGatewayAddress" => address
<1>1. polls \in Nat /\ polls < Timeout
  BY DEF GatewayInv
<1>2. Gateway!Poll
  <2>1. CASE Gateway!Edit \/ Gateway!RoutesChange \/ Gateway!PodsStart
    BY <2>1 DEF Gateway!Edit, Gateway!RoutesChange, Gateway!PodsStart, Gateway!helperVars
  <2>2. CASE Gateway!Observe \/ Gateway!Accept \/ Gateway!Program
    BY <2>2 DEF Gateway!Observe, Gateway!Accept, Gateway!Program, Gateway!helperVars
  <2>3. CASE Gateway!GetFails \/ (\E c : Gateway!Begin(c)) \/ UNCHANGED gatewayVars
    BY <2>3 DEF Gateway!GetFails, Gateway!Begin, gatewayVars
  <2> QED
    BY <2>1, <2>2, <2>3 DEF GatewayStep, GatewayPolls
<1>3. CASE Gateway!GatewayMustHaveLatestConditions
  BY <1>1, <1>2, <1>3, EndPollIs DEF Gateway!GatewayMustHaveLatestConditions, Gateway!Polling
<1>4. CASE Gateway!GatewayMustHaveCondition
  BY <1>1, <1>2, <1>4 DEF Gateway!GatewayMustHaveCondition, Gateway!Polling
<1>5. CASE Gateway!WaitForGatewayAddress
  <2>1. Gateway!EndPoll(Gateway!Latest /\ address)
    BY <1>5 DEF Gateway!WaitForGatewayAddress
  <2>2. Gateway!Latest /\ address
    BY <1>1, <2>1, EndPollIs
  <2> QED
    BY <1>2, <2>2
<1>6. CASE Gateway!GatewayStatusMustHaveListeners
  <2>1. \E match : Gateway!EndPoll(Gateway!Latest /\ match)
    BY <1>6 DEF Gateway!GatewayStatusMustHaveListeners
  <2>2. Gateway!Latest /\ call.helper = "GatewayStatusMustHaveListeners"
    BY <1>1, <1>6, <2>1, EndPollIs DEF Gateway!GatewayStatusMustHaveListeners, Gateway!Polling
  <2> QED
    BY <1>2, <2>2
<1>7. CASE \/ Gateway!gwcMustBeAccepted \/ Gateway!GatewayListenersMustHaveConditions
           \/ Gateway!GatewayMustHaveZeroRoutes \/ Gateway!NamespacesMustBeReady
           \/ Gateway!MeshNamespacesMustBeReady
  BY <1>2, <1>7
     DEF Gateway!gwcMustBeAccepted, Gateway!GatewayListenersMustHaveConditions,
         Gateway!GatewayMustHaveZeroRoutes, Gateway!NamespacesMustBeReady,
         Gateway!MeshNamespacesMustBeReady, Gateway!Polling
<1> QED
  BY <1>2, <1>3, <1>4, <1>5, <1>6, <1>7 DEF Gateway!Poll

LEMMA GatewayAnswers ==
    ASSUME GatewayInv, GatewayStep
    PROVE  Gateway!AnswersAreCurrent
<1> SUFFICES ASSUME result = "polling", result' = "ok",
                    call.helper \in {"GatewayMustHaveLatestConditions", "GatewayMustHaveCondition",
                                     "WaitForGatewayAddress", "GatewayStatusMustHaveListeners"}
             PROVE  /\ conditions.Accepted = Gateway!Verdict(gen)
                    /\ conditions.Programmed = Gateway!Verdict(gen)
                    /\ \A l \in DOMAIN listeners, t \in {"Accepted", "Programmed"} :
                          listeners[l].conditions[t] = Gateway!Verdict(gen)
  BY DEF Gateway!AnswersAreCurrent, Gateway!Succeeds
<1>1. Gateway!Latest
  BY PollSees
<1> QED
  BY <1>1, LatestIsVerdict

\* GatewayIsReady looks at the Gateway as it is now, unless it is excluded.
LEMMA ReadyIsProgrammed ==
    ASSUME GatewayInv, Gateway!GatewayIsReady, ~excluded
    PROVE  spec[gen] /\ conditions.Programmed = Gateway!Verdict(gen)
<1>1. Gateway!Latest /\ Gateway!findConditionInList(conditions, "Programmed", "True")
  BY DEF Gateway!GatewayIsReady
<1>2. conditions.Programmed = Gateway!Verdict(gen)
  BY <1>1, LatestIsVerdict
<1>3. conditions.Programmed.value = "True"
  BY <1>1 DEF Gateway!findConditionInList, Gateway!AnyValue
<1> QED
  BY <1>2, <1>3, VerdictIs

LEMMA ReadyNamespaces ==
    ASSUME GatewayInv, GatewayStep
    PROVE  Gateway!ReadyIsReady
<1> SUFFICES ASSUME result = "polling", result' = "ok",
                    call.helper = "NamespacesMustBeReady", ~marked'
             PROVE  podsReady /\ (excluded \/ (spec[gen] /\ conditions.Programmed = Gateway!Verdict(gen)))
  BY DEF Gateway!ReadyIsReady, Gateway!Succeeds
<1>1. polls \in Nat /\ polls < Timeout
  BY DEF GatewayInv
<1>2. Gateway!NamespacesMustBeReady
  BY PollSees
     DEF Gateway!Poll, Gateway!gwcMustBeAccepted, Gateway!GatewayMustHaveLatestConditions,
         Gateway!GatewayMustHaveCondition, Gateway!WaitForGatewayAddress,
         Gateway!GatewayListenersMustHaveConditions, Gateway!GatewayMustHaveZeroRoutes,
         Gateway!GatewayStatusMustHaveListeners, Gateway!MeshNamespacesMustBeReady, Gateway!Polling
<1>3. PICK gateways \in BOOLEAN, pods \in BOOLEAN :
         /\ Gateway!ListFails((IF gateways THEN 0 ELSE 1)
                              + (IF pods \/ (gateways /\ ~Gateway!GatewayIsReady) THEN 0 ELSE 1))
         /\ Gateway!EndPoll((gateways => Gateway!GatewayIsReady) /\ (pods => podsReady))
  BY <1>2 DEF Gateway!NamespacesMustBeReady
<1>4. (gateways => Gateway!GatewayIsReady) /\ (pods => podsReady)
  BY <1>1, <1>3, EndPollIs
<1>5. ASSUME NEW failures, Gateway!ListFails(failures) PROVE ~(failures > 0)
  BY <1>5, Zenon DEF Gateway!ListFails
<1>6. ~((IF gateways THEN 0 ELSE 1)
        + (IF pods \/ (gateways /\ ~Gateway!GatewayIsReady) THEN 0 ELSE 1) > 0)
  BY <1>3, <1>5
<1>7. gateways /\ (pods \/ ~Gateway!GatewayIsReady)
  BY <1>6
<1>8. podsReady /\ Gateway!GatewayIsReady
  BY <1>4, <1>7
<1> QED
  BY <1>8, ReadyIsProgrammed

-----------------------------------------------------------------------------
(* The route.                                                                *)

\* A helper is called with what HTTPRouteMustHaveCondition expects.
IsCall(c) == c.helper = "HTTPRouteMustHaveCondition" => c.value \in {"True", "False"}

RouteStep ==
    \/ Route!Edit \/ (\E r \in Refs : Route!Observe(r) \/ Route!WriteStatus(r))
    \/ Route!Poll \/ Route!GetFails \/ (\E c : IsCall(c) /\ Route!Begin(c))
    \/ UNCHANGED routeVars

LEMMA EveryStepOfRoute ==
    ASSUME [Next]_vars
    PROVE  RouteStep
<1>1. Route!Refs = Refs
  BY DEF Route!Refs, Refs
<1>2. CASE test = "gateway" /\ UNCHANGED routeVars
  BY <1>2 DEF RouteStep
<1>3. CASE test = "route" /\ Route!Next
  <2>1. \A c \in Route!Calls : IsCall(c)
    BY DEF Route!Calls, IsCall
  <2> QED
    BY <1>1, <1>3, <2>1 DEF Route!Next, RouteStep
<1>4. CASE Call \/ WaitForListeners \/ Return \/ Ended
  BY <1>4 DEF Call, WaitForListeners, Return, Ended, RouteStep
<1>5. CASE WaitForRoute \/ WaitForTLSRoute
  <2>1. \A h \in {"RouteMustHaveParents", "TLSRouteMustHaveParents"}, required \in BOOLEAN :
           IsCall(ParentsCall(h, required))
    BY DEF IsCall, ParentsCall
  <2> QED
    BY <1>5, <2>1 DEF WaitForRoute, WaitForTLSRoute, RouteStep
<1>6. CASE Meanwhile
  BY <1>6 DEF Meanwhile, RouteStep
<1>7. CASE UNCHANGED vars
  BY <1>7 DEF vars, RouteStep
<1> QED
  BY <1>2, <1>3, <1>4, <1>5, <1>6, <1>7 DEF Next, GatewayAndRoutesMustBeAccepted

LEMMA EndRoutePollIs ==
    ASSUME NEW done, NEW isGood, routePolls \in Nat, routePolls < Timeout,
           Route!EndPoll(done, isGood)
    PROVE  /\ routePolls' = routePolls + 1 /\ routePolls' > 0
           /\ routeResult' = "polling" => routePolls' < Timeout
           /\ routeResult' = "ok" => done
           /\ routeResult' \in {"polling", "timeout"} => ~done
           /\ ~good /\ ~isGood => ~good'
           /\ UNCHANGED <<routeGen, routeSpec, status, routeSeen, routeCall>>
<1>1. Timeout \in Nat
  BY PollingAssumption
<1>2. /\ routePolls' = routePolls + 1
      /\ routeResult' = CASE done -> "ok"
                          [] ~done /\ routePolls + 1 = Timeout -> "timeout"
                          [] ~done /\ routePolls + 1 < Timeout -> "polling"
      /\ UNCHANGED <<routeGen, routeSpec, status, routeSeen, routeCall>>
  BY DEF Route!EndPoll
<1>3. ~good /\ ~isGood => ~good'
  BY Zenon DEF Route!EndPoll
<1>4. CASE done
  BY <1>1, <1>2, <1>3, <1>4
<1>5. CASE ~done /\ routePolls + 1 = Timeout
  BY <1>1, <1>2, <1>3, <1>5
<1>6. CASE ~done /\ routePolls + 1 < Timeout
  BY <1>1, <1>2, <1>3, <1>6
<1> QED
  BY <1>1, <1>4, <1>5, <1>6

LEMMA EntryIs ==
    ASSUME StatusInv, NEW r \in Refs, routeSeen[r] > 0
    PROVE  LET e == Route!Entry(r)
           IN  /\ e \in Entries /\ e.ref = r
               /\ e.conditions.Accepted.gen \in 1..routeGen
               /\ e.conditions.Accepted.value = "True" <=>
                    e.ref \in routeSpec[e.conditions.Accepted.gen]
<1>1. PICK h : h = routeSeen[r] /\ h \in 1..routeGen /\ h \in Nat
  BY DEF StatusInv
<1>2. PICK n \in {"nil", "same"} : n = IF r \in OmitNamespace THEN "nil" ELSE "same"
  OBVIOUS
<1>3. PICK w \in {"True", "False"} : w = IF r \in routeSpec[h] THEN "True" ELSE "False"
  OBVIOUS
<1>4. Route!Entry(r) = [ref |-> r, namespace |-> n,
                        conditions |-> [Accepted |-> [value |-> w, gen |-> h]]]
  BY <1>1, <1>2, <1>3 DEF Route!Entry
<1>5. w = "True" <=> r \in routeSpec[h]
  BY <1>3
<1>6. Route!Entry(r) \in Entries
  BY <1>1, <1>4 DEF Entries
<1> QED
  BY <1>1, <1>4, <1>5, <1>6

LEMMA WriteStatusKeepsInv ==
    ASSUME StatusInv, NEW r \in Refs, Route!WriteStatus(r)
    PROVE  StatusInv' /\ Len(status) <= Len(status') /\ status' \in Seq(Entries)
<1>1. PICK e : e = Route!Entry(r)
  OBVIOUS
<1>2. /\ e \in Entries
      /\ e.conditions.Accepted.gen \in 1..routeGen
      /\ e.conditions.Accepted.value = "True" <=>
           e.ref \in routeSpec[e.conditions.Accepted.gen]
  BY <1>1, EntryIs DEF Route!WriteStatus
<1>3. UNCHANGED <<routeGen, routeSpec, routeSeen>> /\ status \in Seq(Entries)
  BY DEF Route!WriteStatus, StatusInv
<1>4. \/ status' = Append(status, e)
      \/ \E i \in 1..Len(status) : status' = [status EXCEPT ![i] = e]
  <2> DEFINE mine == {i \in 1..Len(status) : status[i].ref = r}
  <2>1. mine # {} => (CHOOSE i \in mine : TRUE) \in mine
    OBVIOUS
  <2>2. mine # {} => (CHOOSE i \in mine : TRUE) \in 1..Len(status)
    BY <2>1
  <2>3. status' = IF mine = {} THEN Append(status, e)
                  ELSE [status EXCEPT ![CHOOSE i \in mine : TRUE] = e]
    BY <1>1 DEF Route!WriteStatus
  <2> HIDE DEF mine
  <2> QED
    BY <2>2, <2>3
<1>5. CASE status' = Append(status, e)
  <2>1. /\ status' \in Seq(Entries) /\ Len(status') = Len(status) + 1 /\ Len(status) \in Nat
        /\ \A i \in 1..Len(status') : status'[i] = IF i = Len(status) + 1 THEN e ELSE status[i]
    BY <1>2, <1>3, <1>5
  <2>2. Len(status) <= Len(status')
    BY <2>1
  <2>3. \A i \in 1..Len(status') : i = Len(status) + 1 \/ i \in 1..Len(status)
    BY <2>1
  <2> QED
    BY <1>2, <1>3, <2>1, <2>2, <2>3 DEF StatusInv
<1>6. ASSUME NEW k \in 1..Len(status), status' = [status EXCEPT ![k] = e]
      PROVE  StatusInv' /\ Len(status) <= Len(status') /\ status' \in Seq(Entries)
  <2>1. /\ status' \in Seq(Entries) /\ Len(status') = Len(status) /\ Len(status) \in Nat
        /\ \A i \in 1..Len(status') : status'[i] = IF i = k THEN e ELSE status[i]
    BY <1>2, <1>3, <1>6
  <2>2. Len(status) <= Len(status')
    BY <2>1
  <2> QED
    BY <1>2, <1>3, <2>1, <2>2 DEF StatusInv
<1> QED
  BY <1>4, <1>5, <1>6

\* The end of a poll that misses nothing of what is waited for.
LEMMA PollKeepsInv ==
    ASSUME StatusInv, HelperInv, routeResult = "polling",
           NEW done, NEW isGood, Route!EndPoll(done, isGood),
           DecoderReuses => (isGood => done),
           DecoderReuses => actual' \in Seq(Entries) /\ Len(actual') <= Len(status)
    PROVE  StatusInv' /\ HelperInv'
<1>1. /\ routePolls \in Nat /\ routePolls < Timeout
      /\ routePolls' = routePolls + 1 /\ routePolls' > 0
      /\ routeResult' = "polling" => routePolls' < Timeout
      /\ routeResult' \in {"polling", "timeout"} => ~done
      /\ ~good /\ ~isGood => ~good'
      /\ UNCHANGED <<routeGen, routeSpec, status, routeSeen, routeCall>>
  BY EndRoutePollIs DEF HelperInv
<1>2. StatusInv'
  BY <1>1 DEF StatusInv
<1>3. DecoderReuses /\ routeResult' \in {"polling", "timeout"} => ~good'
  BY <1>1 DEF HelperInv
<1> QED
  BY <1>1, <1>2, <1>3 DEF HelperInv

\* A decoder that reuses slices shows all entries that are checked as they are
\* now: a poll that sees an up-to-date status finds no stale one.
LEMMA ParentsPollKeepsInv ==
    ASSUME StatusInv, HelperInv, Route!RouteMustHaveParents
    PROVE  StatusInv' /\ HelperInv'
<1>1. PICK checked :
         /\ checked = IF DecoderReuses THEN [i \in 1..Len(actual) |-> status[i]] ELSE actual
         /\ actual' = IF Route!ParentsAreLatest(routeGen, checked) THEN status ELSE checked
         /\ Route!EndPoll(Route!ParentsAreLatest(routeGen, checked) /\ Route!Matches,
                          Route!ParentsAreLatest(routeGen, status) /\ Route!Matches)
         /\ routeResult = "polling"
  BY DEF Route!RouteMustHaveParents, Route!Polling
<1>2. status \in Seq(Entries)
  BY DEF StatusInv
<1>3. ASSUME DecoderReuses
      PROVE  /\ Route!ParentsAreLatest(routeGen, status) => Route!ParentsAreLatest(routeGen, checked)
             /\ actual' \in Seq(Entries) /\ Len(actual') <= Len(status)
  <2>1. /\ checked = [i \in 1..Len(actual) |-> status[i]]
        /\ Len(actual) \in Nat /\ Len(actual) <= Len(status) /\ Len(status) \in Nat
    BY <1>1, <1>2, <1>3 DEF HelperInv
  <2>2. 1..Len(actual) \subseteq 1..Len(status)
    BY <2>1
  <2>3. /\ checked \in Seq(Entries) /\ Len(checked) = Len(actual)
        /\ \A i \in 1..Len(checked) : i \in 1..Len(status) /\ checked[i] = status[i]
    BY <1>2, <2>1, <2>2
  <2>4. Route!ParentsAreLatest(routeGen, status) => Route!ParentsAreLatest(routeGen, checked)
    BY <2>3 DEF Route!ParentsAreLatest
  <2> QED
    BY <1>1, <1>2, <2>1, <2>3, <2>4
<1> QED
  BY <1>1, <1>3, PollKeepsInv

LEMMA RouteStepKeepsInv ==
    ASSUME StatusInv, HelperInv, RouteStep
    PROVE  StatusInv' /\ HelperInv'
<1>1. status \in Seq(Entries) /\ Len(status) \in Nat
  BY DEF StatusInv
<1>2. CASE Route!Edit
  <2>1. /\ routeGen' \in 1..MaxGen /\ 0..routeGen \subseteq 0..routeGen' /\ 1..routeGen \subseteq 1..routeGen'
    BY <1>2, PollingAssumption DEF Route!Edit, StatusInv
  <2>2. UNCHANGED <<routeSpec, status, routeSeen, routeCall, actual, emptyChecked, routePolls, routeResult, good>>
    BY <1>2 DEF Route!Edit, Route!helperVars
  <2>3. StatusInv'
    BY <2>1, <2>2 DEF StatusInv
  <2> QED
    BY <2>2, <2>3 DEF HelperInv
<1>3. ASSUME NEW r \in Refs, Route!Observe(r)
      PROVE  StatusInv' /\ HelperInv'
  <2>1. UNCHANGED <<routeGen, routeSpec, status, routeCall, actual, emptyChecked, routePolls, routeResult, good>>
    BY <1>3 DEF Route!Observe, Route!helperVars
  <2>2. routeSeen' \in [Refs -> 0..routeGen]
    BY <1>3 DEF Route!Observe, StatusInv
  <2>3. StatusInv'
    BY <2>1, <2>2 DEF StatusInv
  <2> QED
    BY <2>1, <2>3 DEF HelperInv
<1>4. ASSUME NEW r \in Refs, Route!WriteStatus(r)
      PROVE  StatusInv' /\ HelperInv'
  <2>1. UNCHANGED <<routeCall, actual, emptyChecked, routePolls, routeResult, good>>
    BY <1>4 DEF Route!WriteStatus, Route!helperVars
  <2>2. StatusInv' /\ Len(status) <= Len(status') /\ Len(status') \in Nat
    BY <1>4, WriteStatusKeepsInv
  <2> QED
    BY <1>1, <2>1, <2>2 DEF HelperInv
<1>5. CASE Route!RouteMustHaveParents
  BY <1>5, ParentsPollKeepsInv
<1>6. CASE Route!TLSRouteMustHaveParents
  BY <1>1, <1>6, PollKeepsInv DEF Route!TLSRouteMustHaveParents, Route!Polling
<1>7. CASE Route!HTTPRouteMustHaveCondition
  BY <1>1, <1>7, PollKeepsInv DEF Route!HTTPRouteMustHaveCondition, Route!Polling, HelperInv
<1>8. CASE Route!HTTPRouteMustHaveNoAcceptedParents
  BY <1>1, <1>8, PollKeepsInv DEF Route!HTTPRouteMustHaveNoAcceptedParents, Route!Polling
<1>9. CASE Route!GetFails
  BY <1>9 DEF Route!GetFails, StatusInv, HelperInv
<1>10. ASSUME NEW c, IsCall(c), Route!Begin(c)
       PROVE  StatusInv' /\ HelperInv'
  <2>1. StatusInv'
    BY <1>10 DEF Route!Begin, StatusInv
  <2>2. /\ routePolls' = 0 /\ emptyChecked' = FALSE /\ actual' = <<>> /\ good' = FALSE
        /\ routeCall' = c /\ status' = status
    BY <1>10 DEF Route!Begin
  <2>3. <<>> \in Seq(Entries) /\ Len(<<>>) = 0
    OBVIOUS
  <2> QED
    BY <1>1, <1>10, <2>1, <2>2, <2>3, PollingAssumption DEF HelperInv, IsCall
<1>11. CASE UNCHANGED routeVars
  BY <1>11 DEF routeVars, StatusInv, HelperInv
<1> QED
  BY <1>2, <1>3, <1>4, <1>5, <1>6, <1>7, <1>8, <1>9, <1>10, <1>11 DEF RouteStep, Route!Poll

\* A condition of the route's generation says whether its parent accepts it.
LEMMA LatestIsTrue ==
    ASSUME StatusInv, Route!ParentsAreLatest(routeGen, status), NEW i \in 1..Len(status)
    PROVE  status[i].conditions.Accepted.value = "True" <=> status[i].ref \in routeSpec[routeGen]
<1>1. status[i] \in Entries
  BY DEF StatusInv
<1>2. "Accepted" \in DOMAIN status[i].conditions
  BY <1>1 DEF Entries
<1>3. status[i].conditions.Accepted.gen = routeGen
  BY <1>2 DEF Route!ParentsAreLatest, Route!ConditionsHaveLatestObservedGeneration,
              Route!FilterStaleConditions
<1> QED
  BY <1>3 DEF StatusInv

LEMMA RouteAnswers ==
    ASSUME StatusInv, HelperInv, RouteStep
    PROVE  Route!ConditionIsCurrent /\ Route!RejectionIsCurrent
<1> SUFFICES ASSUME routeResult = "polling", routeResult' = "ok"
             PROVE  Route!ConditionIsCurrent /\ Route!RejectionIsCurrent
  BY DEF Route!ConditionIsCurrent, Route!RejectionIsCurrent, Route!Succeeds
<1>1. routePolls \in Nat /\ routePolls < Timeout
  BY DEF HelperInv
<1>2. Route!Poll
  BY DEF RouteStep, Route!Edit, Route!Observe, Route!WriteStatus, Route!GetFails, Route!Begin,
         Route!helperVars, routeVars
<1>3. ASSUME routeCall.helper = "HTTPRouteMustHaveCondition"
      PROVE  (routeCall.ref \in routeSpec[routeGen]) = (routeCall.value = "True")
  <2>1. Route!HTTPRouteMustHaveCondition
    BY <1>2, <1>3 DEF Route!Poll, Route!RouteMustHaveParents, Route!TLSRouteMustHaveParents,
          Route!HTTPRouteMustHaveNoAcceptedParents, Route!Polling
  <2>2. Route!ConditionFound
    BY <1>1, <2>1, EndRoutePollIs DEF Route!HTTPRouteMustHaveCondition
  <2>3. PICK i \in 1..Len(status) :
           /\ status[i].ref = routeCall.ref
           /\ Route!findConditionInList(status[i].conditions, "Accepted", routeCall.value)
    BY <2>2 DEF Route!ConditionFound
  <2>4. routeCall.value \in {"True", "False"}
    BY <1>3 DEF HelperInv
  <2>5. status[i].conditions.Accepted.value = routeCall.value
    BY <2>3, <2>4 DEF Route!findConditionInList, Route!AnyValue
  <2>6. Route!ParentsAreLatest(routeGen, status)
    BY <2>2 DEF Route!ConditionFound
  <2>7. status[i].conditions.Accepted.value = "True" <=> status[i].ref \in routeSpec[routeGen]
    BY <2>6, LatestIsTrue
  <2>8. routeCall.ref \in routeSpec[routeGen] <=> routeCall.value = "True"
    BY <2>3, <2>5, <2>7
  <2> QED
    BY <2>8
<1>4. ASSUME routeCall.helper = "HTTPRouteMustHaveNoAcceptedParents"
      PROVE  IF status = <<>> THEN routePolls > 0 ELSE status[1].ref \notin routeSpec[routeGen]
  <2>1. Route!HTTPRouteMustHaveNoAcceptedParents
    BY <1>2, <1>4 DEF Route!Poll, Route!RouteMustHaveParents, Route!TLSRouteMustHaveParents,
          Route!HTTPRouteMustHaveCondition, Route!Polling
  <2>2. Route!NotAccepted
    BY <1>1, <2>1, EndRoutePollIs DEF Route!HTTPRouteMustHaveNoAcceptedParents
  <2>3. CASE status = <<>> /\ emptyChecked
    BY <2>3 DEF HelperInv
  <2>4. CASE /\ Len(status) = 1 /\ Route!ParentsAreLatest(routeGen, status)
             /\ Route!conditionsMatch([Accepted |-> "False"], status[1].conditions)
    <3>1. Route!findConditionInList(status[1].conditions, "Accepted", "False")
      <4>1. "Accepted" \in DOMAIN [Accepted |-> "False"] /\ [Accepted |-> "False"]["Accepted"] = "False"
        OBVIOUS
      <4> QED
        BY <2>4, <4>1 DEF Route!conditionsMatch
    <3>2. status[1].conditions.Accepted.value = "False"
      BY <3>1 DEF Route!findConditionInList, Route!AnyValue
    <3>3. status # <<>> /\ 1 \in 1..Len(status)
      BY <2>4
    <3> QED
      BY <2>4, <3>2, <3>3, LatestIsTrue
  <2> QED
    BY <2>2, <2>3, <2>4 DEF Route!NotAccepted
<1> QED
  BY <1>3, <1>4 DEF Route!ConditionIsCurrent, Route!RejectionIsCurrent, Route!Succeeds

-----------------------------------------------------------------------------
(* GatewayAndRoutesMustBeAccepted and GatewayAndTLSRoutesMustBeAccepted.     *)

LEMMA CurrentIsLatest ==
    ASSUME GatewayInv, GatewayIsCurrent
    PROVE  Gateway!Latest
<1>1. \A t \in {"Accepted", "Programmed"} : conditions[t].gen = gen
  BY VerdictIs DEF GatewayIsCurrent
<1>2. \A t \in DOMAIN conditions : t \in {"Accepted", "Programmed"}
  BY DEF GatewayInv
<1> QED
  BY <1>1, <1>2 DEF Gateway!Latest, Gateway!ConditionsHaveLatestObservedGeneration,
                    Gateway!FilterStaleConditions

\* As long as the Gateway is not edited, what its controller writes is the same.
LEMMA CurrentStays ==
    ASSUME GatewayInv, GatewayStep, GatewayIsCurrent, gen' = gen
    PROVE  GatewayIsCurrent'
<1>1. /\ \A t \in {"Accepted", "Programmed"} : conditions[t] = Gateway!Verdict(gen)
      /\ \A t \in {"Accepted", "Programmed"} : conditions[t].gen = gen
      /\ spec[gen]
  BY VerdictIs DEF GatewayIsCurrent
<1>2. gen \in Nat /\ gen > 0 /\ seen \in Nat /\ seen <= gen
  BY Generations
<1>3. CASE UNCHANGED <<spec, conditions>>
  BY <1>1, <1>3 DEF GatewayIsCurrent, Gateway!Verdict
<1>4. CASE Gateway!Accept
  <2>1. conditions.Accepted # Gateway!Pending
    BY <1>1, <1>2 DEF Gateway!Pending
  <2>2. conditions.Accepted.gen \in 1..seen
    BY <2>1 DEF GatewayInv
  <2>3. seen = gen
    BY <1>1, <1>2, <2>2
  <2>4. spec' = spec /\ conditions' = [conditions EXCEPT !.Accepted = Gateway!Verdict(gen)]
    BY <1>4, <2>3 DEF Gateway!Accept
  <2>5. conditions' = conditions
    <3>1. conditions = [Accepted |-> conditions.Accepted, Programmed |-> conditions.Programmed]
      BY DEF GatewayInv
    <3> QED
      BY <1>1, <2>4, <3>1
  <2> QED
    BY <1>3, <2>4, <2>5
<1>5. CASE Gateway!Program
  BY <1>1, <1>2, <1>5 DEF Gateway!Program
<1>6. CASE Gateway!Edit \/ Gateway!RoutesChange \/ Gateway!PodsStart \/ Gateway!Observe
  BY <1>3, <1>6 DEF Gateway!Edit, Gateway!RoutesChange, Gateway!PodsStart, Gateway!Observe
<1>7. CASE GatewayPolls
  BY <1>3, <1>7, PollsOfGateway
<1>8. CASE UNCHANGED gatewayVars
  BY <1>3, <1>8 DEF gatewayVars
<1> QED
  BY <1>4, <1>5, <1>6, <1>7, <1>8 DEF GatewayStep

\* An address is found only on a Gateway that is programmed as it is now.
LEMMA AddressIsCurrent ==
    ASSUME GatewayInv, GatewayStep, result = "polling", result' = "ok",
           call.helper = "WaitForGatewayAddress"
    PROVE  GatewayIsCurrent
<1>1. Gateway!Latest /\ address
  BY PollSees
<1>2. \A t \in {"Accepted", "Programmed"} : conditions[t] = Gateway!Verdict(gen)
  BY <1>1, LatestIsVerdict
<1>3. conditions.Programmed.value = "True"
  BY <1>1 DEF GatewayInv
<1> QED
  BY <1>2, <1>3, VerdictIs DEF GatewayIsCurrent

\* Parents that match have accepted the route; it has one generation.
LEMMA MatchingAccept ==
    ASSUME StatusInv, routeGen = 1, routeCall.value = "True", Route!Matches
    PROVE  Refs \subseteq routeSpec[routeGen]
<1> SUFFICES ASSUME NEW i \in 1..Len(Parents)
             PROVE  Parents[i] \in routeSpec[routeGen]
  BY DEF Refs
<1>1. PICK expected : expected = Route!Expected
  OBVIOUS
<1>2. expected = [j \in 1..Len(Parents) |->
                    [ref |-> Parents[j], conditions |-> [Accepted |-> "True"]]]
  BY <1>1 DEF Route!Expected
<1>3. Len(expected) = Len(Parents)
  BY <1>2, PollingAssumption
<1>4. /\ Len(expected) = Len(status)
      /\ status[i].ref = expected[i].ref
      /\ Route!conditionsMatch(expected[i].conditions, status[i].conditions)
  BY <1>1, <1>3 DEF Route!Matches, Route!parentsForRouteMatch
<1>5. expected[i].ref = Parents[i] /\ expected[i].conditions = [Accepted |-> "True"]
  BY <1>2
<1>6. "Accepted" \in DOMAIN expected[i].conditions /\ expected[i].conditions["Accepted"] = "True"
  <2>1. "Accepted" \in DOMAIN [Accepted |-> "True"] /\ [Accepted |-> "True"]["Accepted"] = "True"
    OBVIOUS
  <2> QED
    BY <1>5, <2>1, Zenon
<1>7. Route!findConditionInList(status[i].conditions, "Accepted", "True")
  BY <1>4, <1>6 DEF Route!conditionsMatch
<1>8. status[i].conditions.Accepted.value = "True"
  BY <1>7 DEF Route!findConditionInList, Route!AnyValue
<1>9. i \in 1..Len(status)
  BY <1>3, <1>4
<1>10. status[i].conditions.Accepted.gen = 1
  BY <1>9 DEF StatusInv
<1> QED
  BY <1>4, <1>5, <1>8, <1>9, <1>10 DEF StatusInv

LEMMA MeanwhileKeepsAcceptedInv ==
    ASSUME GatewayInv, StatusInv, HelperInv, AcceptedInv, test = "accepted", test' = test,
           Meanwhile, GatewayStep
    PROVE  AcceptedInv'
<1> USE DEF AcceptedInv
<1>1. UNCHANGED <<step, since>>
  BY DEF Meanwhile
<1>2. CASE /\ \/ Gateway!Edit \/ Gateway!Observe \/ Gateway!Accept \/ Gateway!Program
              \/ Gateway!Poll \/ Gateway!GetFails
           /\ UNCHANGED routeVars
  <2>1. gen \in Nat /\ (gen' = gen \/ gen' = gen + 1)
    <3>1. gen \in Nat
      BY Generations
    <3>2. CASE Gateway!Poll \/ Gateway!GetFails
      BY <3>1, <3>2, PollsOfGateway DEF GatewayPolls
    <3> QED
      BY <1>2, <3>1, <3>2 DEF Gateway!Edit, Gateway!Observe, Gateway!Accept, Gateway!Program
  <2>2. since \in 0..gen'
    BY <2>1
  <2>3. /\ call' = call
        /\ result' = result \/ result = "polling"
    <3>1. CASE Gateway!Poll
      <4>1. result = "polling"
        BY <3>1 DEF Gateway!Poll, Gateway!gwcMustBeAccepted, Gateway!GatewayMustHaveLatestConditions,
            Gateway!GatewayMustHaveCondition, Gateway!WaitForGatewayAddress,
            Gateway!GatewayListenersMustHaveConditions, Gateway!GatewayMustHaveZeroRoutes,
            Gateway!GatewayStatusMustHaveListeners, Gateway!NamespacesMustBeReady,
            Gateway!MeshNamespacesMustBeReady, Gateway!Polling
      <4> QED
        BY <3>1, <4>1, PollsOfGateway DEF GatewayPolls
    <3> QED
      BY <1>2, <3>1 DEF Gateway!Edit, Gateway!Observe, Gateway!Accept, Gateway!Program,
                        Gateway!GetFails, Gateway!helperVars
  <2>4. ASSUME since = gen', AddressFound'
        PROVE  GatewayIsCurrent'
    <3>1. gen' = gen
      BY <2>1, <2>4
    <3>2. CASE AddressFound
      BY <2>4, <3>1, <3>2, CurrentStays
    <3>3. CASE step = "address" /\ result = "polling" /\ result' = "ok"
      BY <3>1, <3>3, AddressIsCurrent, CurrentStays
    <3> QED
      BY <1>1, <2>3, <2>4, <3>2, <3>3 DEF AddressFound
  <2>5. UNCHANGED <<routeGen, routeSpec, routeCall, routeResult>>
    BY <1>2 DEF routeVars
  <2>6. RouteFound' = RouteFound
    BY <1>1, <2>5 DEF RouteFound
  <2> QED
    BY <1>1, <2>2, <2>3, <2>4, <2>5, <2>6
<1>3. CASE /\ \/ \E r \in Refs : Route!Observe(r) \/ Route!WriteStatus(r)
              \/ Route!Poll \/ Route!GetFails
           /\ UNCHANGED gatewayVars
  <2>1. UNCHANGED <<gen, spec, conditions, call, result>>
    BY <1>3 DEF gatewayVars
  <2>2. /\ UNCHANGED <<routeGen, routeSpec, routeCall>>
        /\ routeResult' = "ok" => routeResult = "ok" \/ (routeResult = "polling" /\ Route!Poll)
    <3>1. CASE Route!Poll
      BY <3>1 DEF Route!Poll, Route!RouteMustHaveParents, Route!TLSRouteMustHaveParents,
          Route!HTTPRouteMustHaveCondition, Route!HTTPRouteMustHaveNoAcceptedParents,
          Route!Polling, Route!EndPoll
    <3> QED
      BY <1>3, <3>1 DEF Route!Observe, Route!WriteStatus, Route!GetFails, Route!helperVars
  <2>3. ASSUME step \in {"routes", "tls"}, routeResult = "polling", Route!Poll, routeResult' = "ok"
        PROVE  Refs \subseteq routeSpec[routeGen]
    <3>1. routePolls \in Nat /\ routePolls < Timeout
      BY <2>3 DEF HelperInv
    <3>2. Route!RouteMustHaveParents \/ Route!TLSRouteMustHaveParents
      BY <2>3 DEF Route!Poll, Route!HTTPRouteMustHaveCondition,
                  Route!HTTPRouteMustHaveNoAcceptedParents, Route!Polling
    <3>3. PICK latest, isGood : \/ Route!EndPoll(latest /\ Route!Matches, isGood)
                                \/ Route!EndPoll(Route!Matches, isGood)
      BY <3>2, Zenon DEF Route!RouteMustHaveParents, Route!TLSRouteMustHaveParents
    <3>4. Route!EndPoll(latest /\ Route!Matches, isGood) => latest /\ Route!Matches
      BY <2>3, <3>1, EndRoutePollIs
    <3>5. Route!EndPoll(Route!Matches, isGood) => Route!Matches
      BY <2>3, <3>1, EndRoutePollIs
    <3> QED
      BY <2>3, <3>3, <3>4, <3>5, MatchingAccept
  <2>4. RouteFound' => Refs \subseteq routeSpec[routeGen]
    BY <1>1, <2>2, <2>3 DEF RouteFound
  <2>5. AddressFound' = AddressFound /\ GatewayIsCurrent' = GatewayIsCurrent
    BY <1>1, <2>1 DEF AddressFound, GatewayIsCurrent, Gateway!Verdict
  <2> QED
    BY <1>1, <2>1, <2>2, <2>4, <2>5
<1> QED
  BY <1>2, <1>3 DEF Meanwhile

LEMMA StepKeepsAcceptedInv ==
    ASSUME GatewayInv, StatusInv, HelperInv, AcceptedInv, [Next]_vars
    PROVE  AcceptedInv'
<1>1. gen \in Nat
  BY Generations
<1> USE DEF AcceptedInv
<1> SUFFICES ASSUME test = "accepted", test' = "accepted" PROVE AcceptedInv'
  BY DEF Next, vars
<1>2. CASE Call
  <2>1. /\ step' = "address" /\ since' = gen /\ result' = "polling"
        /\ call' = [helper |-> "WaitForGatewayAddress"] /\ gen' = gen /\ routeGen' = routeGen
    BY <1>2 DEF Call, Gateway!Begin, Gateway!world, routeVars
  <2>2. ~AddressFound' /\ ~RouteFound' /\ since' \in 0..gen'
    <3>1. step' = "address" /\ result' = "polling"
      BY <2>1
    <3>2. ~AddressFound' /\ ~RouteFound'
      BY <3>1 DEF AddressFound, RouteFound
    <3> QED
      BY <1>1, <2>1, <3>2
  <2> QED
    BY <2>1, <2>2
<1>3. ASSUME NEW h \in {"RouteMustHaveParents", "TLSRouteMustHaveParents"}, NEW required,
             step = "address", result = "ok", step' \in {"routes", "tls"},
             Route!Begin(ParentsCall(h, required)), UNCHANGED <<gatewayVars, since>>
      PROVE  AcceptedInv'
  <2>1. /\ routeCall' = ParentsCall(h, required) /\ routeResult' = "polling"
        /\ UNCHANGED <<routeGen, gen, spec, conditions, since>>
    BY <1>3 DEF Route!Begin, gatewayVars
  <2>2. routeCall'.helper = h /\ routeCall'.value = "True"
    BY <2>1 DEF ParentsCall
  <2>3. ~RouteFound' /\ AddressFound
    BY <1>3, <2>1 DEF RouteFound, AddressFound
  <2>4. GatewayIsCurrent' = GatewayIsCurrent
    BY <2>1 DEF GatewayIsCurrent, Gateway!Verdict
  <2> QED
    BY <1>3, <2>1, <2>2, <2>3, <2>4
<1>4. CASE WaitForRoute
  BY <1>3, <1>4 DEF WaitForRoute
<1>5. CASE WaitForTLSRoute
  BY <1>3, <1>5 DEF WaitForTLSRoute
<1>6. CASE WaitForListeners
  <2>1. /\ step = "routes" /\ routeResult = "ok" /\ step' = "listeners"
        /\ UNCHANGED <<gen, spec, conditions, routeGen, routeSpec, since>>
    BY <1>6 DEF WaitForListeners, Gateway!Begin, Gateway!world, routeVars
  <2>2. RouteFound /\ AddressFound
    BY <2>1 DEF RouteFound, AddressFound
  <2>3. GatewayIsCurrent' = GatewayIsCurrent
    BY <2>1 DEF GatewayIsCurrent, Gateway!Verdict
  <2> QED
    BY <2>1, <2>2, <2>3
<1>7. CASE Return \/ Ended
  <2>1. step' \in {"returned", "failed"} /\ UNCHANGED <<routeGen, since, gen>>
    BY <1>7 DEF Return, Ended, routeVars, gatewayVars
  <2>2. ~RouteFound' /\ ~AddressFound'
    BY <2>1 DEF RouteFound, AddressFound
  <2> QED
    BY <2>1, <2>2
<1>8. CASE Meanwhile
  BY <1>8, EveryStepOfGateway, MeanwhileKeepsAcceptedInv
<1>9. CASE UNCHANGED vars
  <2>1. /\ UNCHANGED <<gen, spec, conditions, routeGen, routeSpec, since, step, call, result>>
        /\ UNCHANGED <<routeCall, routeResult>>
    BY <1>9 DEF vars, gatewayVars, routeVars
  <2>2. RouteFound' = RouteFound /\ AddressFound' = AddressFound
    BY <2>1 DEF RouteFound, AddressFound
  <2>3. GatewayIsCurrent' = GatewayIsCurrent
    BY <2>1 DEF GatewayIsCurrent, Gateway!Verdict
  <2> QED
    BY <2>1, <2>2, <2>3
<1> QED
  BY <1>2, <1>4, <1>5, <1>6, <1>7, <1>8, <1>9 DEF Next, GatewayAndRoutesMustBeAccepted

LEMMA InitInv ==
    Init => Inv
<1> SUFFICES ASSUME Init PROVE Inv
  OBVIOUS
<1>1. /\ gen = 1 /\ seen = 0 /\ conditions = [Accepted |-> Gateway!Pending, Programmed |-> Gateway!Pending]
      /\ listeners = <<>> /\ address = FALSE /\ polls = 0 /\ result = "idle"
  BY DEF Init, Gateway!Init
<1>2. /\ routeGen = 1 /\ status = <<>> /\ routeSeen = [r \in Refs |-> 0] /\ routeCall = [helper |-> "none"]
      /\ emptyChecked = FALSE /\ routePolls = 0 /\ routeResult = "idle" /\ actual = <<>>
  BY DEF Init, Route!Init, Route!NoCall, Route!Refs, Refs
<1>3. MaxGen \in Nat \ {0}
  BY PollingAssumption
<1>4. GatewayInv
  BY <1>1, <1>3 DEF GatewayInv
<1>5. <<>> \in Seq(Entries) /\ Len(<<>>) = 0
  OBVIOUS
<1>6. StatusInv
  BY <1>2, <1>3, <1>5, SMTT(30) DEF StatusInv
<1>7. HelperInv
  BY <1>2, <1>5 DEF HelperInv
<1>8. AcceptedInv
  <2>1. step = "idle" /\ since = 0
    BY DEF Init
  <2>2. ~RouteFound /\ ~AddressFound
    BY <2>1 DEF RouteFound, AddressFound
  <2>3. gen = 1 /\ routeGen = 1
    BY <1>1, <1>2
  <2>4. since \in 0..gen
    BY <2>1, <2>3
  <2> QED
    BY <2>1, <2>2, <2>3, <2>4 DEF AcceptedInv
<1> QED
  BY <1>4, <1>6, <1>7, <1>8 DEF Inv

LEMMA NextInv ==
    Inv /\ [Next]_vars => Inv'
  BY EveryStepOfGateway, GatewayStepKeepsInv, EveryStepOfRoute, RouteStepKeepsInv,
     StepKeepsAcceptedInv DEF Inv

LEMMA Invariance ==
    Spec => []Inv
  BY InitInv, NextInv, PTL DEF Spec

-----------------------------------------------------------------------------
\* For any listeners and generations: a helper that looks at observedGeneration
\* succeeds only on a Gateway that its controller has accepted and programmed
\* as its spec is now, with all its listeners.
THEOREM GatewayAnswersHold ==
    Spec => GatewayAnswersAreCurrent
<1>1. Inv /\ [Next]_vars => [Gateway!AnswersAreCurrent]_vars
  BY EveryStepOfGateway, GatewayAnswers DEF Inv
<1> QED
  BY <1>1, Invariance, PTL DEF Spec, GatewayAnswersAreCurrent

\* For any generations and faults: NamespacesMustBeReady returns, with no List
\* failing, only when pods and Gateways are ready.
THEOREM NamespacesAreReady ==
    Spec => ReadyNamespacesAreReady
<1>1. Inv /\ [Next]_vars => [Gateway!ReadyIsReady]_vars
  BY EveryStepOfGateway, ReadyNamespaces DEF Inv
<1> QED
  BY <1>1, Invariance, PTL DEF Spec, ReadyNamespacesAreReady

\* For any parents and generations: HTTPRouteMustHaveCondition and
\* HTTPRouteMustHaveNoAcceptedParents succeed only with a verdict on the route
\* as it is now, whenever its controllers write.
THEOREM RouteAnswersHold ==
    Spec => RouteAnswersAreCurrent
<1>1. Inv /\ [Next]_vars => [Route!ConditionIsCurrent /\ Route!RejectionIsCurrent]_vars
  BY EveryStepOfRoute, RouteAnswers DEF Inv
<1> QED
  BY <1>1, Invariance, PTL DEF Spec, RouteAnswersAreCurrent

\* For any parents and generations, with a decoder that reuses the slices of
\* the object: a helper of routes that times out has met no poll at which the
\* route had the status that it waits for, up to date.  (With a copying client
\* RouteMustHaveParents may check parents of an earlier poll and miss it.)
THEOREM TimeoutsAreEarned ==
    DecoderReuses => (Spec => []TimeoutMeansNeverSeen)
<1> SUFFICES ASSUME DecoderReuses PROVE Spec => []TimeoutMeansNeverSeen
  OBVIOUS
<1>1. Inv => TimeoutMeansNeverSeen
  BY DEF Inv, HelperInv, TimeoutMeansNeverSeen, Route!TimeoutMeansNeverSeen
<1> QED
  BY <1>1, Invariance, PTL

\* For any listeners, parents and generations: GatewayAndRoutesMustBeAccepted
\* and GatewayAndTLSRoutesMustBeAccepted return only when all parents accept
\* the route and the Gateway, unless it was edited since the call, is accepted
\* and programmed with all its listeners as its spec is now.
THEOREM AcceptanceHolds ==
    Spec => AcceptanceIsEarned
<1> DEFINE A == step # "returned" /\ step' = "returned" =>
                  /\ Refs \subseteq routeSpec[routeGen]
                  /\ gen = since =>
                       /\ spec[gen] /\ DOMAIN listeners = Listeners
                       /\ \A t \in {"Accepted", "Programmed"} :
                            /\ conditions[t] = Gateway!Verdict(gen)
                            /\ \A l \in Listeners :
                                  listeners[l].conditions[t] = Gateway!Verdict(gen)
<1>1. Inv /\ [Next]_vars => [A]_vars
  <2> SUFFICES ASSUME Inv, Next, step # "returned", step' = "returned"
               PROVE  A
    OBVIOUS
  <2>1. test = "accepted" /\ Return
    BY DEF Next, GatewayAndRoutesMustBeAccepted, Call, WaitForRoute, WaitForListeners,
           WaitForTLSRoute, Ended, Meanwhile
  <2>2. RouteFound /\ AddressFound
    BY <2>1 DEF Return, LastResult, RouteFound, AddressFound
  <2>3. /\ Refs \subseteq routeSpec[routeGen]
        /\ gen = since => GatewayIsCurrent
    BY <2>1, <2>2 DEF Inv, AcceptedInv
  <2>4. GatewayIsCurrent => /\ DOMAIN listeners = Listeners
                            /\ \A l \in Listeners, t \in {"Accepted", "Programmed"} :
                                 listeners[l].conditions[t] = conditions[t]
    BY CurrentIsLatest, LatestIsVerdict DEF Inv
  <2> QED
    BY <2>3, <2>4 DEF GatewayIsCurrent
<1> QED
  BY <1>1, Invariance, PTL DEF Spec, AcceptanceIsEarned
=============================================================================
