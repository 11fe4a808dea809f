------------------------- MODULE AcceptancePolling ---------------------------
(* A test and the objects it waits for: a Gateway and a route of it, each    *)
(* with the helpers that poll its status, and                                *)
(* GatewayAndRoutesMustBeAccepted and GatewayAndTLSRoutesMustBeAccepted      *)
(* (conformance/utils/kubernetes/helpers.go), which call several of them one *)
(* after the other while both objects change.                                *)
EXTENDS StatusChecks

VARIABLES
    test,       \* what the test waits for: "gateway", "route" or "accepted"
    \* of GatewayPolling
    gen, spec, excluded, conditions, listeners, address, routes, podsReady,
    seen, call, polls, result, marked, faults,
    \* of RoutePolling
    routeGen, routeSpec, status, routeSeen, routeCall, actual, emptyChecked,
    routePolls, routeResult, good, routeFaults,
    step,       \* of GatewayAndRoutesMustBeAccepted: "idle", "address",
                \* "routes" or "tls", "listeners", "returned" or "failed"
    since       \* history: the generation of the Gateway when it was called

gatewayVars == <<gen, spec, excluded, conditions, listeners, address, routes,
                 podsReady, seen, call, polls, result, marked, faults>>
routeVars == <<routeGen, routeSpec, status, routeSeen, routeCall, actual,
               emptyChecked, routePolls, routeResult, good, routeFaults>>
vars == <<test, gatewayVars, routeVars, step, since>>

Gateway == INSTANCE GatewayPolling
Route == INSTANCE RoutePolling WITH
            gen <- routeGen, spec <- routeSpec, seen <- routeSeen,
            call <- routeCall, polls <- routePolls, result <- routeResult,
            faults <- routeFaults

\* With only one of them waited for, the other object does not matter.
Init ==
    /\ test \in {"gateway", "route", "accepted"}
    /\ Gateway!Init /\ Route!Init
    /\ test = "route" => ~excluded /\ spec = [g \in 1..MaxGen |-> TRUE]
    /\ test = "gateway" => routeSpec = [g \in 1..MaxGen |-> {}]
    /\ test = "accepted" =>
         ~excluded /\ \E accepting \in SUBSET Refs :
                         routeSpec = [g \in 1..MaxGen |-> accepting]
    /\ step = "idle" /\ since = 0

-----------------------------------------------------------------------------
\* A controller's steps, those of the user of the Gateway and the polls go on
\* between and during the waits.  The route is as the test has applied it.
Meanwhile ==
    /\ \/ /\ \/ Gateway!Edit \/ Gateway!Observe
             \/ Gateway!Accept \/ Gateway!Program
             \/ Gateway!Poll \/ Gateway!GetFails
          /\ UNCHANGED routeVars
       \/ /\ \/ \E r \in Refs : Route!Observe(r) \/ Route!WriteStatus(r)
             \/ Route!Poll \/ Route!GetFails
          /\ UNCHANGED gatewayVars
    /\ UNCHANGED <<step, since>>

ParentsCall(helper, required) ==
    [helper |-> helper, value |-> "True", namespaceRequired |-> required]

\* Mutant: whether the Gateway has an address is not waited for.
CallWithoutAddress ==
    /\ step = "idle"
    /\ Route!Begin(ParentsCall("RouteMustHaveParents", FALSE))
    /\ step' = "routes" /\ since' = gen
    /\ UNCHANGED gatewayVars

\* GatewayAndRoutesMustBeAccepted waits for an address of the Gateway, ...
Call ==
    /\ step = "idle"
    /\ Gateway!Begin([helper |-> "WaitForGatewayAddress"])
    /\ step' = "address" /\ since' = gen
    /\ UNCHANGED routeVars

\* ... then for the parents of the route to accept it, ...
WaitForRoute ==
    /\ step = "address" /\ result = "ok"
    /\ \E required \in BOOLEAN :
         Route!Begin(ParentsCall("RouteMustHaveParents", required))
    /\ step' = "routes"
    /\ UNCHANGED <<gatewayVars, since>>

\* ... then for the conditions of the listeners, which GatewayAndTLSRoutes-
\* MustBeAccepted leaves out.
WaitForListeners ==
    /\ step = "routes" /\ routeResult = "ok"
    /\ Gateway!Begin([helper |-> "GatewayListenersMustHaveConditions"])
    /\ step' = "listeners"
    /\ UNCHANGED <<routeVars, since>>

WaitForTLSRoute ==
    /\ step = "address" /\ result = "ok"
    /\ \E required \in BOOLEAN :
         Route!Begin(ParentsCall("TLSRouteMustHaveParents", required))
    /\ step' = "tls"
    /\ UNCHANGED <<gatewayVars, since>>

\* The result of the helper that was called last.
LastResult == IF step \in {"routes", "tls"} THEN routeResult ELSE result

\* The last of them has returned, or one has failed and ends the test.
Return ==
    /\ \/ step \in {"listeners", "tls"} /\ LastResult = "ok" /\ step' = "returned"
       \/ /\ step \in {"address", "routes", "tls", "listeners"}
          /\ LastResult \in {"timeout", "error"}
          /\ step' = "failed"
    /\ UNCHANGED <<gatewayVars, routeVars, since>>

Ended ==
    /\ step \in {"returned", "failed"}
    /\ UNCHANGED <<gatewayVars, routeVars, step, since>>

GatewayAndRoutesMustBeAccepted ==
    Call \/ WaitForRoute \/ WaitForListeners \/ WaitForTLSRoute \/ Return \/ Ended

Next ==
    /\ \/ test = "gateway" /\ Gateway!Next /\ UNCHANGED <<routeVars, step, since>>
       \/ test = "route" /\ Route!Next /\ UNCHANGED <<gatewayVars, step, since>>
       \/ test = "accepted" /\ (GatewayAndRoutesMustBeAccepted \/ Meanwhile)
    /\ UNCHANGED test

Spec == Init /\ [][Next]_vars

-----------------------------------------------------------------------------
\* When a helper that looks at observedGeneration succeeds, the controller has
\* accepted and programmed the Gateway as its spec is now; in particular an
\* address that is returned, or listeners that match, are not left over from
\* an earlier spec.
GatewayAnswersAreCurrent == [][Gateway!AnswersAreCurrent]_vars

\* NamespacesMustBeReady returns, with no List failing, only when pods and
\* Gateways are ready.
ReadyNamespacesAreReady == [][Gateway!ReadyIsReady]_vars

\* HTTPRouteMustHaveCondition and HTTPRouteMustHaveNoAcceptedParents succeed
\* only with a verdict on the route as it is now.
RouteAnswersAreCurrent ==
    [][Route!ConditionIsCurrent /\ Route!RejectionIsCurrent]_vars

\* A helper of routes that times out has met no poll at which the route had
\* the status that it waits for, up to date.
TimeoutMeansNeverSeen == Route!TimeoutMeansNeverSeen

\* When GatewayAndRoutesMustBeAccepted or GatewayAndTLSRoutesMustBeAccepted
\* returns, all parents accept the route, and if the Gateway has not been
\* edited since the call, its listeners are all in the status and, like the
\* Gateway, accepted and programmed as the spec is now: although the helper
\* called last looks at no generation, and GatewayListenersMustHaveConditions
\* is content with an empty status.
AcceptanceIsEarned ==
    [][step # "returned" /\ step' = "returned" =>
        /\ Refs \subseteq routeSpec[routeGen]
        /\ gen = since =>
             /\ spec[gen] /\ DOMAIN listeners = Listeners
             /\ \A t \in {"Accepted", "Programmed"} :
                  /\ conditions[t] = Gateway!Verdict(gen)
                  /\ \A l \in Listeners :
                        listeners[l].conditions[t] = Gateway!Verdict(gen)]_vars

\* RouteMustHaveParents succeeds only when the parents' verdicts are of the
\* current generation: "expected observedGeneration to be updated to %d for
\* all conditions".
ParentsAreCurrent == [][Route!ParentsAreCurrent]_vars
=============================================================================
