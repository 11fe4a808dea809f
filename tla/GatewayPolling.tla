--------------------------- MODULE GatewayPolling ----------------------------
(* The helpers that wait for the status of a Gateway or GatewayClass and for *)
(* the readiness of namespaces (conformance/utils/kubernetes/helpers.go),    *)
(* against a controller that first accepts and later programs what it last   *)
(* saw of the Gateway.  Helpers poll as in RoutePolling.                     *)
EXTENDS StatusChecks

VARIABLES
    gen,        \* metadata.generation
    spec,       \* generation -> whether the controller accepts it
    excluded,   \* the Gateway is annotated to be skipped in readiness checks
    conditions, \* status.conditions
    listeners,  \* status.listeners
    address,    \* status.addresses has an IP address or hostname
    routes,     \* whether a route is attached
    podsReady,
    seen,       \* generation the controller last read, 0 if none
    call, polls, result,
    marked,     \* the test is marked as failed (t.Errorf) during the call
    faults

world == <<gen, spec, excluded, conditions, listeners, address, routes,
           podsReady, seen>>

Verdict(g) == [value |-> IF spec[g] THEN "True" ELSE "False", gen |-> g]

Expectations == {"True", "False"}

\* The calls of the helpers, with the arguments they have.
Calls ==
    [helper : {"gwcMustBeAccepted"}, value : {"True", AnyValue}]
    \cup [helper : {"GatewayMustHaveCondition"},
          type : {"Accepted", "Programmed"}, value : Expectations]
    \cup [helper : {"GatewayStatusMustHaveListeners"},
          value : Expectations, attached : {0, 1}]
    \cup [helper : {"GatewayMustHaveLatestConditions", "WaitForGatewayAddress",
                    "GatewayListenersMustHaveConditions",
                    "GatewayMustHaveZeroRoutes", "NamespacesMustBeReady",
                    "MeshNamespacesMustBeReady"}]

\* Conditions as the API server defaults them.
Pending == [value |-> "Unknown", gen |-> 0]

Init ==
    /\ gen = 1
    /\ spec \in [1..MaxGen -> BOOLEAN]
    /\ excluded \in BOOLEAN
    /\ conditions = [Accepted |-> Pending, Programmed |-> Pending]
    /\ listeners = <<>>
    /\ address = FALSE
    /\ routes = 0
    /\ podsReady = FALSE
    /\ seen = 0
    /\ call = [helper |-> "none"]
    /\ polls = 0
    /\ result = "idle"
    /\ marked = FALSE
    /\ faults = 0

-----------------------------------------------------------------------------
helperVars == <<call, polls, result, marked, faults>>

\* The spec is edited; routes attach and detach; pods start.
Edit ==
    /\ gen < MaxGen
    /\ gen' = gen + 1
    /\ UNCHANGED <<spec, excluded, conditions, listeners, address, routes,
                   podsReady, seen, helperVars>>

RoutesChange ==
    /\ routes' = 1 - routes
    /\ UNCHANGED <<gen, spec, excluded, conditions, listeners, address,
                   podsReady, seen, helperVars>>

PodsStart ==
    /\ ~podsReady
    /\ podsReady' = TRUE
    /\ UNCHANGED <<gen, spec, excluded, conditions, listeners, address, routes,
                   seen, helperVars>>

Observe ==
    /\ seen # gen
    /\ seen' = gen
    /\ UNCHANGED <<gen, spec, excluded, conditions, listeners, address, routes,
                   podsReady, helperVars>>

\* The controller writes whether it accepts the Gateway, with the status of
\* the listeners.  Whether it finds what a listener refers to may change with
\* no edit.  A listener's Programmed condition stays as it was.
Accept ==
    /\ seen > 0
    /\ conditions' = [conditions EXCEPT !.Accepted = Verdict(seen)]
    /\ \E found \in [Listeners -> Expectations] :
         listeners' =
           [l \in Listeners |->
              [kinds |-> {[group |-> "gateway", kind |-> "HTTPRoute"]},
               attached |-> routes,
               conditions |->
                  [Accepted |-> Verdict(seen),
                   Programmed |-> IF listeners = <<>> THEN Pending
                                  ELSE listeners[l].conditions.Programmed,
                   ResolvedRefs |-> [value |-> found[l], gen |-> seen]]]]
    /\ UNCHANGED <<gen, spec, excluded, address, routes, podsReady, seen, helperVars>>

\* The data plane has what was accepted.
Program ==
    /\ conditions.Accepted.gen > conditions.Programmed.gen
    /\ LET v == conditions.Accepted
       IN  /\ conditions' = [conditions EXCEPT !.Programmed = v]
           /\ listeners' = [l \in Listeners |->
                 [listeners[l] EXCEPT !.conditions.Programmed = v]]
           /\ address' = (v.value = "True")
    /\ UNCHANGED <<gen, spec, excluded, routes, podsReady, seen, helperVars>>

-----------------------------------------------------------------------------
Begin(c) ==
    /\ result # "polling"
    /\ call' = c
    /\ polls' = 0
    /\ result' = "polling"
    /\ marked' = FALSE
    /\ UNCHANGED <<world, faults>>

Polling(helper) == result = "polling" /\ call.helper = helper

\* The end of a poll: the helper returns, or waits for the next one.
EndPoll(done) ==
    /\ polls' = polls + 1
    /\ result' = CASE done -> "ok"
                   [] ~done /\ polls + 1 = Timeout -> "timeout"
                   [] ~done /\ polls + 1 < Timeout -> "polling"
    /\ UNCHANGED <<world, call>>

Latest == ConditionsHaveLatestObservedGeneration(gen, conditions)

\* The status of the GatewayClass is the Accepted part.
gwcMustBeAccepted ==
    /\ Polling("gwcMustBeAccepted")
    /\ LET class == [Accepted |-> conditions.Accepted]
       IN  EndPoll(/\ ConditionsHaveLatestObservedGeneration(gen, class)
                   /\ findConditionInList(class, "Accepted", call.value))
    /\ UNCHANGED <<marked, faults>>

GatewayMustHaveLatestConditions ==
    /\ Polling("GatewayMustHaveLatestConditions")
    /\ EndPoll(Latest)
    /\ UNCHANGED <<marked, faults>>

\* Stale conditions are returned as an error, which ends the polling.
GatewayMustHaveCondition ==
    /\ Polling("GatewayMustHaveCondition")
    /\ IF Latest
       THEN EndPoll(findConditionInList(conditions, call.type, call.value))
       ELSE /\ result' = "error"
            /\ UNCHANGED <<world, call, polls>>
    /\ UNCHANGED <<marked, faults>>

WaitForGatewayAddress ==
    /\ Polling("WaitForGatewayAddress")
    /\ EndPoll(Latest /\ address)
    /\ UNCHANGED <<marked, faults>>

\* The listeners of the status are looked at, not those of the spec, and
\* their conditions may be stale.
GatewayListenersMustHaveConditions ==
    /\ Polling("GatewayListenersMustHaveConditions")
    /\ EndPoll(\A l \in DOMAIN listeners, t \in {"ResolvedRefs", "Accepted", "Programmed"} :
                 findConditionInList(listeners[l].conditions, t, "True"))
    /\ UNCHANGED <<marked, faults>>

GatewayMustHaveZeroRoutes ==
    /\ Polling("GatewayMustHaveZeroRoutes")
    /\ EndPoll(/\ Latest
               /\ \/ DOMAIN listeners = {}
                  \/ \E l \in DOMAIN listeners :
                        DOMAIN listeners = {l} /\ listeners[l].attached = 0)
    /\ UNCHANGED <<marked, faults>>

GatewayStatusMustHaveListeners ==
    /\ Polling("GatewayStatusMustHaveListeners")
    /\ LET expected == [l \in Listeners |->
                          [kinds |-> {[group |-> "nil", kind |-> "HTTPRoute"]},
                           attached |-> call.attached,
                           conditions |-> [Accepted |-> call.value]]]
       IN  EndPoll(Latest /\ listenersMatch(expected, listeners))
    /\ UNCHANGED <<marked, faults>>

GatewayIsReady ==
    \/ excluded
    \/ /\ Latest
       /\ findConditionInList(conditions, "Accepted", "True")
       /\ findConditionInList(conditions, "Programmed", "True")

\* Mutant: a failing List leaves no mark on the test.
ListFailsSilently(failures) ==
    /\ faults' = faults + failures
    /\ UNCHANGED marked

\* A List fails: the test is marked as failed and the list is taken as empty.
ListFails(failures) ==
    /\ faults' = faults + failures
    /\ marked' = (marked \/ failures > 0)

\* Gateways and Pods are listed, each of them with or without an error.
NamespacesMustBeReady ==
    /\ Polling("NamespacesMustBeReady")
    /\ \E gateways, pods \in BOOLEAN :
         LET failures == (IF gateways THEN 0 ELSE 1)
                             + (IF pods \/ (gateways /\ ~GatewayIsReady)
                                THEN 0 ELSE 1)
         IN  /\ faults + failures <= MaxFaults
             /\ ListFails(failures)
             /\ EndPoll((gateways => GatewayIsReady) /\ (pods => podsReady))

MeshNamespacesMustBeReady ==
    /\ Polling("MeshNamespacesMustBeReady")
    /\ \E pods \in BOOLEAN :
         LET failures == IF pods THEN 0 ELSE 1
         IN  /\ faults + failures <= MaxFaults
             /\ ListFails(failures)
             /\ EndPoll(pods => podsReady)

\* A failing Get ends the other helpers at once.
GetFails ==
    /\ result = "polling"
    /\ call.helper \notin {"NamespacesMustBeReady", "MeshNamespacesMustBeReady"}
    /\ faults < MaxFaults
    /\ faults' = faults + 1
    /\ result' = "error"
    /\ UNCHANGED <<world, call, polls, marked>>

Poll ==
    \/ gwcMustBeAccepted \/ GatewayMustHaveLatestConditions
    \/ GatewayMustHaveCondition \/ WaitForGatewayAddress
    \/ GatewayListenersMustHaveConditions \/ GatewayMustHaveZeroRoutes
    \/ GatewayStatusMustHaveListeners \/ NamespacesMustBeReady
    \/ MeshNamespacesMustBeReady

Next ==
    \/ Edit \/ RoutesChange \/ PodsStart
    \/ Observe \/ Accept \/ Program
    \/ \E c \in Calls : Begin(c)
    \/ Poll
    \/ GetFails

-----------------------------------------------------------------------------
Succeeds(helpers) ==
    result = "polling" /\ result' = "ok" /\ call.helper \in helpers

\* When a helper that looks at observedGeneration succeeds, the controller has
\* accepted and programmed the Gateway as its spec is now; in particular an
\* address that is returned, or listeners that match, are not left over from
\* an earlier spec.
AnswersAreCurrent ==
    Succeeds({"GatewayMustHaveLatestConditions", "GatewayMustHaveCondition",
              "WaitForGatewayAddress", "GatewayStatusMustHaveListeners"}) =>
        /\ conditions.Accepted = Verdict(gen)
        /\ conditions.Programmed = Verdict(gen)
        /\ \A l \in DOMAIN listeners, t \in {"Accepted", "Programmed"} :
              listeners[l].conditions[t] = Verdict(gen)

\* When NamespacesMustBeReady returns and no List failed during the call, all
\* pods are ready and the Gateway is programmed as its spec is now, unless it
\* is excluded from the check.
ReadyIsReady ==
    Succeeds({"NamespacesMustBeReady"}) /\ ~marked' =>
        /\ podsReady
        /\ excluded \/ (spec[gen] /\ conditions.Programmed = Verdict(gen))
=============================================================================
