---------------------------- MODULE CRDGenerator ----------------------------
(***************************************************************************)
(* From the Go types to the CustomResourceDefinitions of the two release   *)
(* channels (pkg/generator/main.go).  controller-gen, which turns one type  *)
(* into one schema, is not part of the repository; what the generator does *)
(* with its output is: it leaves kinds out of the standard channel, stops   *)
(* serving alpha versions there, and rewrites the schema (gatewayTweaks).   *)
(***************************************************************************)
EXTENDS RouteTypes, GatewayTypes

-----------------------------------------------------------------------------
(* The versions of each kind, from the markers on the type that declares    *)
(* it.  Every version of a kind is the same Go struct under another name.   *)

Version(name, storage, subresources) ==
    [name |-> name, storage |-> storage, subresources |-> subresources]

GatewayClassV1 == Version("v1", TRUE, {"status"})
GatewayClassV1beta1 == Version("v1beta1", FALSE, {"status"})
GatewayV1 == Version("v1", TRUE, {"status"})
GatewayV1beta1 == Version("v1beta1", FALSE, {"status"})
HTTPRouteV1 == Version("v1", TRUE, {"status"})
HTTPRouteV1beta1 == Version("v1beta1", FALSE, {"status"})
GRPCRouteV1 == Version("v1", TRUE, {"status"})
GRPCRouteV1alpha2 == Version("v1alpha2", FALSE, {})
TCPRouteV1alpha2 == Version("v1alpha2", TRUE, {"status"})
TLSRouteV1alpha2 == Version("v1alpha2", TRUE, {"status"})
UDPRouteV1alpha2 == Version("v1alpha2", TRUE, {"status"})
BackendLBPolicyV1alpha2 == Version("v1alpha2", TRUE, {"status"})
BackendTLSPolicyV1alpha3 == Version("v1alpha3", TRUE, {"status"})
ReferenceGrantV1beta1 == Version("v1beta1", TRUE, {})
ReferenceGrantV1alpha2 == Version("v1alpha2", FALSE, {})

Resource(kind, schema, namespaced, versions) ==
    [kind |-> kind, schema |-> schema, namespaced |-> namespaced, versions |-> versions]

\* What controller-gen hands to the generator (crdRaw), by plural name.
kubeKinds ==
    [gatewayclasses |-> Resource("GatewayClass", GatewayClass, FALSE,
                                 {GatewayClassV1, GatewayClassV1beta1}),
     gateways |-> Resource("Gateway", Gateway, TRUE, {GatewayV1, GatewayV1beta1}),
     httproutes |-> Resource("HTTPRoute", HTTPRoute, TRUE, {HTTPRouteV1, HTTPRouteV1beta1}),
     grpcroutes |-> Resource("GRPCRoute", GRPCRoute, TRUE, {GRPCRouteV1, GRPCRouteV1alpha2}),
     tcproutes |-> Resource("TCPRoute", TCPRoute, TRUE, {TCPRouteV1alpha2}),
     tlsroutes |-> Resource("TLSRoute", TLSRoute, TRUE, {TLSRouteV1alpha2}),
     udproutes |-> Resource("UDPRoute", UDPRoute, TRUE, {UDPRouteV1alpha2}),
     backendlbpolicies |-> Resource("BackendLBPolicy", BackendLBPolicy, TRUE,
                                    {BackendLBPolicyV1alpha2}),
     backendtlspolicies |-> Resource("BackendTLSPolicy", BackendTLSPolicy, TRUE,
                                     {BackendTLSPolicyV1alpha3}),
     referencegrants |-> Resource("ReferenceGrant", ReferenceGrant, TRUE,
                                  {ReferenceGrantV1beta1, ReferenceGrantV1alpha2})]

AlphaVersions == {"v1alpha2", "v1alpha3"}

-----------------------------------------------------------------------------
(* The generator *)

standardKinds == {"GatewayClass", "Gateway", "GRPCRoute", "HTTPRoute", "ReferenceGrant"}

\* The rewriting of one property: the address check on the elements of a list,
\* the rules that only this channel has, then the properties below it, which
\* are those of a struct or of the elements of a list.
RECURSIVE gatewayTweaks(_, _)
Tweaked(channel, field) ==
    LET addressed ==
            IF "validateIPAddress" \in field.tags
            THEN [field.schema EXCEPT !.of.rules = @ \cup {"IPAddressValue"}]
            ELSE field.schema
        ruled ==
            IF field.validations[channel] = {} THEN addressed
            ELSE [addressed EXCEPT !.rules = @ \cup field.validations[channel]]
    IN CASE ruled.t = "struct" ->
                [ruled EXCEPT !.fields = gatewayTweaks(channel, @)]
         [] ruled.t = "list" /\ ruled.of.t = "struct" ->
                [ruled EXCEPT !.of.fields = gatewayTweaks(channel, @)]
         [] OTHER -> ruled

\* In the standard channel the properties tagged <gateway:experimental> go.
gatewayTweaks(channel, props) ==
    LET kept == {f \in DOMAIN props :
                    ~(channel = "standard" /\ "experimental" \in props[f].tags)}
    IN [f \in kept |-> [props[f] EXCEPT !.schema = Tweaked(channel, props[f])]]

\* Mutant: without the deep copy, the second channel starts from what the first
\* one left.
SharedChannelSchema(channel, raw) ==
    [raw EXCEPT !.fields = gatewayTweaks(channel, gatewayTweaks("standard", @))]

\* Each channel rewrites its own deep copy of what controller-gen produced.
ChannelSchema(channel, raw) ==
    [raw EXCEPT !.fields = gatewayTweaks(channel, @)]

\* A kind the channel has a CRD for: its schema and the versions it serves.
ChannelCRD(channel, raw) ==
    [schema |-> ChannelSchema(channel, raw.schema),
     served |-> {v \in raw.versions :
                    ~(channel = "standard" /\ v.name \in AlphaVersions)}]

\* main: a CRD per channel and kind, except that the standard channel has only
\* the standard kinds.
CRDs ==
    [channel \in Channels |->
        [r \in {x \in DOMAIN kubeKinds :
                    ~(channel = "standard" /\ kubeKinds[x].kind \notin standardKinds)} |->
            ChannelCRD(channel, kubeKinds[r])]]
=============================================================================
