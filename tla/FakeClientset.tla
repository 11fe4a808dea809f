---------------------------- MODULE FakeClientset ----------------------------
(***************************************************************************)
(* The generated fake clientset (clientset/versioned/fake and the fake      *)
(* typed clients) over the object tracker of client-go, which is external.  *)
(* The tracker keeps one store per group version resource: a function from  *)
(* <<resource, namespace, name>> to objects, for the version in use.        *)
(***************************************************************************)
EXTENDS Naturals, Sequences

newFake(version, resource, kind, namespaced) ==
    [version |-> version, resource |-> resource, kind |-> kind, namespaced |-> namespaced]

FakeGatewayClassesV1 == newFake("v1", "gatewayclasses", "GatewayClass", FALSE)
FakeGatewaysV1 == newFake("v1", "gateways", "Gateway", TRUE)
FakeHTTPRoutesV1 == newFake("v1", "httproutes", "HTTPRoute", TRUE)
FakeGRPCRoutesV1 == newFake("v1", "grpcroutes", "GRPCRoute", TRUE)
FakeGatewayClassesV1beta1 == newFake("v1beta1", "gatewayclasses", "GatewayClass", FALSE)
FakeGatewaysV1beta1 == newFake("v1beta1", "gateways", "Gateway", TRUE)
FakeHTTPRoutesV1beta1 == newFake("v1beta1", "httproutes", "HTTPRoute", TRUE)
FakeReferenceGrantsV1beta1 == newFake("v1beta1", "referencegrants", "ReferenceGrant", TRUE)
FakeBackendLBPoliciesV1alpha2 ==
    newFake("v1alpha2", "backendlbpolicies", "BackendLBPolicy", TRUE)
FakeGRPCRoutesV1alpha2 == newFake("v1alpha2", "grpcroutes", "GRPCRoute", TRUE)
FakeReferenceGrantsV1alpha2 == newFake("v1alpha2", "referencegrants", "ReferenceGrant", TRUE)
FakeTCPRoutesV1alpha2 == newFake("v1alpha2", "tcproutes", "TCPRoute", TRUE)
FakeTLSRoutesV1alpha2 == newFake("v1alpha2", "tlsroutes", "TLSRoute", TRUE)
FakeUDPRoutesV1alpha2 == newFake("v1alpha2", "udproutes", "UDPRoute", TRUE)
FakeBackendTLSPoliciesV1alpha3 ==
    newFake("v1alpha3", "backendtlspolicies", "BackendTLSPolicy", TRUE)

\* The fakes behind the getters of the fake clientset, by version.
FakeGatewayV1 == {FakeGatewayClassesV1, FakeGatewaysV1, FakeHTTPRoutesV1, FakeGRPCRoutesV1}

FakeGatewayV1beta1 ==
    {FakeGatewayClassesV1beta1, FakeGatewaysV1beta1, FakeHTTPRoutesV1beta1,
     FakeReferenceGrantsV1beta1}

FakeGatewayV1alpha2 ==
    {FakeBackendLBPoliciesV1alpha2, FakeGRPCRoutesV1alpha2, FakeReferenceGrantsV1alpha2,
     FakeTCPRoutesV1alpha2, FakeTLSRoutesV1alpha2, FakeUDPRoutesV1alpha2}

FakeGatewayV1alpha3 == {FakeBackendTLSPoliciesV1alpha3}

FakeOf(version, resource) ==
    CHOOSE f \in FakeGatewayV1 \cup FakeGatewayV1beta1 \cup FakeGatewayV1alpha2
                    \cup FakeGatewayV1alpha3 :
        f.version = version /\ f.resource = resource

-----------------------------------------------------------------------------
(* The actions the fakes' methods invoke.  The fake of a cluster-scoped     *)
(* kind invokes root actions, which have no namespace.                      *)

Action(f, verb, ns) ==
    [verb |-> verb, resource |-> f.resource, namespace |-> IF f.namespaced THEN ns ELSE "",
     name |-> "", subresource |-> "", options |-> <<>>, object |-> <<>>]

FakeGet(f, ns, name) == [Action(f, "get", ns) EXCEPT !.name = name]

FakeCreate(f, ns, object) ==
    [Action(f, "create", ns) EXCEPT !.name = object.name, !.object = object]

FakeUpdate(f, ns, object) ==
    [Action(f, "update", ns) EXCEPT !.name = object.name, !.object = object]

\* The tracker treats an update of a subresource as an update.
FakeUpdateStatus(f, ns, object) ==
    [Action(f, "update", ns) EXCEPT !.subresource = "status", !.name = object.name,
                                    !.object = object]

FakeDelete(f, ns, name) == [Action(f, "delete", ns) EXCEPT !.name = name]

\* The tracker has no reaction for it: it succeeds and deletes nothing.
FakeDeleteCollection(f, ns, options) ==
    [Action(f, "delete-collection", ns) EXCEPT !.options = options]

FakePatch(f, ns, name, data, subresource) ==
    [Action(f, "patch", ns) EXCEPT !.subresource = subresource, !.name = name, !.object = data]

\* The tracker patches what it has: an Apply creates nothing.
FakeApply(f, ns, config) == FakePatch(f, ns, config.name, config, "")

-----------------------------------------------------------------------------
(* The object tracker (external) *)

EmptyTracker == <<>>

TrackerKey(action) == << action.resource, action.namespace, action.name >>

Tracked(tracker, key) == key \in DOMAIN tracker

\* A merge patch: the fields that the data has replace those of the object.
MergePatch(object, data) ==
    [f \in DOMAIN object |-> IF f \in DOMAIN data THEN data[f] ELSE object[f]]

\* What the tracker answers and what it holds afterwards.
ObjectReaction(tracker, action) ==
    LET key == TrackerKey(action)
        with(object) ==
            [k \in DOMAIN tracker \cup {key} |-> IF k = key THEN object ELSE tracker[k]]
    IN IF action.verb = "delete-collection" THEN [ok |-> TRUE, tracker |-> tracker]
       ELSE IF Tracked(tracker, key) <=> action.verb = "create"
       THEN [ok |-> FALSE, tracker |-> tracker]
       ELSE [ok |-> TRUE,
             tracker |-> CASE action.verb = "get" -> tracker
                           [] action.verb \in {"create", "update"} -> with(action.object)
                           [] action.verb = "patch" -> with(MergePatch(tracker[key], action.object))
                           [] action.verb = "delete" ->
                                  [k \in DOMAIN tracker \ {key} |-> tracker[k]]]

\* The plural that Add guesses from a kind (meta.UnsafeGuessKindToResource): a
\* final y becomes ies, also in "gateway".
GuessedResource ==
    [GatewayClass |-> "gatewayclasses", Gateway |-> "gatewaies", HTTPRoute |-> "httproutes",
     GRPCRoute |-> "grpcroutes", TCPRoute |-> "tcproutes", TLSRoute |-> "tlsroutes",
     UDPRoute |-> "udproutes", BackendLBPolicy |-> "backendlbpolicies",
     BackendTLSPolicy |-> "backendtlspolicies", ReferenceGrant |-> "referencegrants"]

\* NewSimpleClientset: every object provided is added to the tracker.
NewSimpleClientset(f, objects) ==
    [k \in {<< GuessedResource[f.kind], o.namespace, o.name >> : o \in objects} |->
        CHOOSE o \in objects : k[2] = o.namespace /\ k[3] = o.name]

\* Those of the objects provided that the fake finds.
Found(f, objects) == IF GuessedResource[f.kind] = f.resource THEN objects ELSE {}

\* List: the tracker filters by namespace, the fake client by label.
FakeList(f, tracker, ns, options) ==
    {tracker[k] : k \in {k \in DOMAIN tracker :
        /\ k[1] = f.resource
        /\ f.namespaced /\ ns # "" => k[2] = ns
        /\ options.labelled => tracker[k].label}}
=============================================================================
