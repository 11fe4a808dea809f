----------------------------- MODULE Clientset ------------------------------
(***************************************************************************)
(* The generated clientset (pkg/client/clientset/versioned): the requests   *)
(* its typed clients send, and the types its scheme can decode.  The files  *)
(* of the typed clients are alike but for the kind; a client is the record  *)
(* of what differs, and the methods are operators on it.                    *)
(***************************************************************************)
EXTENDS Naturals, Sequences

\* setConfigDefaults: the group version every request of a client goes to.
GatewayV1Client == "v1"
GatewayV1beta1Client == "v1beta1"
GatewayV1alpha2Client == "v1alpha2"
GatewayV1alpha3Client == "v1alpha3"

newClient(version, resource, kind, namespaced, hasStatus) ==
    [version |-> version, resource |-> resource, kind |-> kind, list |-> kind \o "List",
     namespaced |-> namespaced, hasStatus |-> hasStatus]

gatewayClassesV1 == newClient(GatewayV1Client, "gatewayclasses", "GatewayClass", FALSE, TRUE)
gatewaysV1 == newClient(GatewayV1Client, "gateways", "Gateway", TRUE, TRUE)
hTTPRoutesV1 == newClient(GatewayV1Client, "httproutes", "HTTPRoute", TRUE, TRUE)
gRPCRoutesV1 == newClient(GatewayV1Client, "grpcroutes", "GRPCRoute", TRUE, TRUE)

gatewayClassesV1beta1 ==
    newClient(GatewayV1beta1Client, "gatewayclasses", "GatewayClass", FALSE, TRUE)
gatewaysV1beta1 == newClient(GatewayV1beta1Client, "gateways", "Gateway", TRUE, TRUE)
hTTPRoutesV1beta1 == newClient(GatewayV1beta1Client, "httproutes", "HTTPRoute", TRUE, TRUE)
referenceGrantsV1beta1 ==
    newClient(GatewayV1beta1Client, "referencegrants", "ReferenceGrant", TRUE, FALSE)

backendLBPoliciesV1alpha2 ==
    newClient(GatewayV1alpha2Client, "backendlbpolicies", "BackendLBPolicy", TRUE, TRUE)
gRPCRoutesV1alpha2 == newClient(GatewayV1alpha2Client, "grpcroutes", "GRPCRoute", TRUE, TRUE)
referenceGrantsV1alpha2 ==
    newClient(GatewayV1alpha2Client, "referencegrants", "ReferenceGrant", TRUE, FALSE)
tCPRoutesV1alpha2 == newClient(GatewayV1alpha2Client, "tcproutes", "TCPRoute", TRUE, TRUE)
tLSRoutesV1alpha2 == newClient(GatewayV1alpha2Client, "tlsroutes", "TLSRoute", TRUE, TRUE)
uDPRoutesV1alpha2 == newClient(GatewayV1alpha2Client, "udproutes", "UDPRoute", TRUE, TRUE)

backendTLSPoliciesV1alpha3 ==
    newClient(GatewayV1alpha3Client, "backendtlspolicies", "BackendTLSPolicy", TRUE, TRUE)

\* The clients NewForConfigAndClient puts into a clientset.
NewForConfigAndClient ==
    { gatewayClassesV1, gatewaysV1, hTTPRoutesV1, gRPCRoutesV1,
      gatewayClassesV1beta1, gatewaysV1beta1, hTTPRoutesV1beta1, referenceGrantsV1beta1,
      backendLBPoliciesV1alpha2, gRPCRoutesV1alpha2, referenceGrantsV1alpha2,
      tCPRoutesV1alpha2, tLSRoutesV1alpha2, uDPRoutesV1alpha2, backendTLSPoliciesV1alpha3 }

-----------------------------------------------------------------------------
(* Requests.  A cluster-scoped client names no namespace.                  *)

NewRequest(c, verb, ns) ==
    [verb |-> verb, version |-> c.version, resource |-> c.resource,
     namespace |-> IF c.namespaced THEN ns ELSE "", name |-> "", subresource |-> "",
     options |-> <<>>, body |-> <<>>]

Get(c, ns, name) == [NewRequest(c, "get", ns) EXCEPT !.name = name]

List(c, ns, options) == [NewRequest(c, "list", ns) EXCEPT !.options = options]

Watch(c, ns, options) == [NewRequest(c, "watch", ns) EXCEPT !.options = options]

Create(c, ns, body) == [NewRequest(c, "post", ns) EXCEPT !.name = body.name, !.body = body]

Update(c, ns, body) == [NewRequest(c, "put", ns) EXCEPT !.name = body.name, !.body = body]

\* Mutant: the status is patched, whatever the resource version.
PatchStatus(c, ns, body) ==
    [NewRequest(c, "patch", ns) EXCEPT !.subresource = "status", !.name = body.name,
                                       !.body = [status |-> body.status]]

UpdateStatus(c, ns, body) ==
    [NewRequest(c, "put", ns) EXCEPT !.subresource = "status", !.name = body.name, !.body = body]

Delete(c, ns, name) == [NewRequest(c, "delete", ns) EXCEPT !.name = name]

DeleteCollection(c, ns, options) ==
    [NewRequest(c, "deletecollection", ns) EXCEPT !.options = options]

Patch(c, ns, name, data, subresource) ==
    [NewRequest(c, "patch", ns) EXCEPT !.subresource = subresource, !.name = name, !.body = data]

\* An apply configuration without a name is refused before a request is made.
CanApply(config) == "name" \in DOMAIN config

\* The patches of type ApplyPatchType.
Apply(c, ns, config) ==
    [NewRequest(c, "apply", ns) EXCEPT !.name = config.name, !.body = config]

ApplyStatus(c, ns, config) == [Apply(c, ns, config) EXCEPT !.subresource = "status"]

-----------------------------------------------------------------------------
(* The scheme: addKnownTypes of each version, the kinds and their lists.    *)

addKnownTypesV1 ==
    {"GRPCRoute", "GRPCRouteList", "Gateway", "GatewayClass", "GatewayClassList",
     "GatewayList", "HTTPRoute", "HTTPRouteList"}

addKnownTypesV1alpha2 ==
    {"BackendLBPolicy", "BackendLBPolicyList", "GRPCRoute", "GRPCRouteList",
     "ReferenceGrant", "ReferenceGrantList", "TCPRoute", "TCPRouteList", "TLSRoute",
     "TLSRouteList", "UDPRoute", "UDPRouteList"}

addKnownTypesV1alpha3 == {"BackendTLSPolicy", "BackendTLSPolicyList"}

\* Mutant: a list type is not registered.
addKnownTypesV1beta1Short ==
    {"Gateway", "GatewayClass", "GatewayClassList", "HTTPRoute", "HTTPRouteList",
     "ReferenceGrant", "ReferenceGrantList"}

addKnownTypesV1beta1 ==
    {"Gateway", "GatewayClass", "GatewayClassList", "GatewayList", "HTTPRoute",
     "HTTPRouteList", "ReferenceGrant", "ReferenceGrantList"}

Scheme ==
    [v1 |-> addKnownTypesV1, v1alpha2 |-> addKnownTypesV1alpha2,
     v1alpha3 |-> addKnownTypesV1alpha3, v1beta1 |-> addKnownTypesV1beta1]

Decodes(version, type) == type \in Scheme[version]

-----------------------------------------------------------------------------
(***************************************************************************)
(* The generated informers and listers (pkg/client/informers and           *)
(* pkg/client/listers).  An informer is the pair of functions its cache is  *)
(* filled by, both bound to one typed client; a lister reads that cache.    *)
(***************************************************************************)

\* NewFiltered...Informer: ListFunc and WatchFunc go through the client it
\* names; the objects the cache holds are of that client's type.
Informer(client) == [client |-> client, type |-> client.kind]

gatewayClassInformerV1 == Informer(gatewayClassesV1)
gatewayInformerV1 == Informer(gatewaysV1)
hTTPRouteInformerV1 == Informer(hTTPRoutesV1)
gRPCRouteInformerV1 == Informer(gRPCRoutesV1)
gatewayClassInformerV1beta1 == Informer(gatewayClassesV1beta1)
gatewayInformerV1beta1 == Informer(gatewaysV1beta1)
hTTPRouteInformerV1beta1 == Informer(hTTPRoutesV1beta1)
referenceGrantInformerV1beta1 == Informer(referenceGrantsV1beta1)
backendLBPolicyInformerV1alpha2 == Informer(backendLBPoliciesV1alpha2)
gRPCRouteInformerV1alpha2 == Informer(gRPCRoutesV1alpha2)
referenceGrantInformerV1alpha2 == Informer(referenceGrantsV1alpha2)
tCPRouteInformerV1alpha2 == Informer(tCPRoutesV1alpha2)
tLSRouteInformerV1alpha2 == Informer(tLSRoutesV1alpha2)
uDPRouteInformerV1alpha2 == Informer(uDPRoutesV1alpha2)
backendTLSPolicyInformerV1alpha3 == Informer(backendTLSPoliciesV1alpha3)

\* The informers of each version (interface.go), by resource.
V1 ==
    [grpcroutes |-> gRPCRouteInformerV1, gateways |-> gatewayInformerV1,
     gatewayclasses |-> gatewayClassInformerV1, httproutes |-> hTTPRouteInformerV1]

V1alpha2 ==
    [backendlbpolicies |-> backendLBPolicyInformerV1alpha2,
     grpcroutes |-> gRPCRouteInformerV1alpha2,
     referencegrants |-> referenceGrantInformerV1alpha2,
     tcproutes |-> tCPRouteInformerV1alpha2, tlsroutes |-> tLSRouteInformerV1alpha2,
     udproutes |-> uDPRouteInformerV1alpha2]

V1alpha3 == [backendtlspolicies |-> backendTLSPolicyInformerV1alpha3]

V1beta1 ==
    [gateways |-> gatewayInformerV1beta1, gatewayclasses |-> gatewayClassInformerV1beta1,
     httproutes |-> hTTPRouteInformerV1beta1,
     referencegrants |-> referenceGrantInformerV1beta1]

Gateway == [v1 |-> V1, v1alpha2 |-> V1alpha2, v1alpha3 |-> V1alpha3, v1beta1 |-> V1beta1]

\* generic.go: the informer of a group version resource.
ForResource(version, resource) == Gateway[version][resource]

-----------------------------------------------------------------------------
(* What an informer asks for.  tweak stands for tweakListOptions, a change  *)
(* of the options: here, whether only labelled objects are asked for.       *)

ListFunc(i, ns, tweak) == List(i.client, ns, [labelled |-> tweak])

\* Mutant: the watch is not tweaked.
UntweakedWatchFunc(i, ns, tweak, from) ==
    Watch(i.client, ns, [labelled |-> FALSE, from |-> from])

WatchFunc(i, ns, tweak, from) == Watch(i.client, ns, [labelled |-> tweak, from |-> from])

-----------------------------------------------------------------------------
(* Listers, over the cache: a function from <<namespace, name>> to a        *)
(* sequence of at most one object.  A lister is the resource it is for.     *)

Lister(resource, namespaced) == [resource |-> resource, namespaced |-> namespaced]

gatewayClassListerV1 == Lister("gatewayclasses", FALSE)
gatewayListerV1 == Lister("gateways", TRUE)
hTTPRouteListerV1 == Lister("httproutes", TRUE)
gRPCRouteListerV1 == Lister("grpcroutes", TRUE)
gatewayClassListerV1beta1 == Lister("gatewayclasses", FALSE)
gatewayListerV1beta1 == Lister("gateways", TRUE)
hTTPRouteListerV1beta1 == Lister("httproutes", TRUE)
referenceGrantListerV1beta1 == Lister("referencegrants", TRUE)
backendLBPolicyListerV1alpha2 == Lister("backendlbpolicies", TRUE)
gRPCRouteListerV1alpha2 == Lister("grpcroutes", TRUE)
referenceGrantListerV1alpha2 == Lister("referencegrants", TRUE)
tCPRouteListerV1alpha2 == Lister("tcproutes", TRUE)
tLSRouteListerV1alpha2 == Lister("tlsroutes", TRUE)
uDPRouteListerV1alpha2 == Lister("udproutes", TRUE)
backendTLSPolicyListerV1alpha3 == Lister("backendtlspolicies", TRUE)

Listers ==
    [v1 |-> {gatewayClassListerV1, gatewayListerV1, hTTPRouteListerV1, gRPCRouteListerV1},
     v1beta1 |-> {gatewayClassListerV1beta1, gatewayListerV1beta1, hTTPRouteListerV1beta1,
                  referenceGrantListerV1beta1},
     v1alpha2 |-> {backendLBPolicyListerV1alpha2, gRPCRouteListerV1alpha2,
                   referenceGrantListerV1alpha2, tCPRouteListerV1alpha2,
                   tLSRouteListerV1alpha2, uDPRouteListerV1alpha2},
     v1alpha3 |-> {backendTLSPolicyListerV1alpha3}]

ListerOf(version, resource) == CHOOSE l \in Listers[version] : l.resource = resource

\* The key an object has in the indexer: its name alone if it has no namespace.
KeyIn(l, ns, name) == << IF l.namespaced THEN ns ELSE "", name >>

ListerGet(l, cache, ns, name) ==
    IF KeyIn(l, ns, name) \in DOMAIN cache THEN cache[KeyIn(l, ns, name)] ELSE <<>>

\* ListAllByNamespace: the keys of the cached objects of a namespace.
ListerList(l, cache, ns) ==
    {k \in DOMAIN cache : cache[k] # <<>> /\ (l.namespaced => k[1] = ns)}
=============================================================================
