----------------------------- MODULE DeepCopies -----------------------------
(***************************************************************************)
(* The generated deep copies (zz_generated.deepcopy.go).  *out = *in copies  *)
(* every field, so a field that refers to something (a pointer, a list, a   *)
(* map) is shared with the original until the function makes a new one.     *)
(* For each struct: the fields it copies by the DeepCopyInto of what they    *)
(* refer to, and the fields of which it copies what they refer to as it is. *)
(***************************************************************************)
EXTENDS StructuralSchemas

Copies(deep, flat) == [deep |-> deep, flat |-> flat]

\* A struct that embeds another calls its DeepCopyInto, or copies it by value.
Inline(embedded, own) ==
    Copies(embedded.deep \cup own.deep, embedded.flat \cup own.flat)

-----------------------------------------------------------------------------
(* apis/v1 *)

AllowedRoutesDeepCopyInto == Copies({"namespaces", "kinds"}, {})
BackendObjectReferenceDeepCopyInto == Copies({}, {"group", "kind", "namespace", "port"})
BackendRefDeepCopyInto == Inline(BackendObjectReferenceDeepCopyInto, Copies({}, {"weight"}))
CommonRouteSpecDeepCopyInto == Copies({"parentRefs"}, {})
CookieConfigDeepCopyInto == Copies({}, {"lifetimeType"})
FrontendTLSValidationDeepCopyInto == Copies({"caCertificateRefs"}, {})
GRPCBackendRefDeepCopyInto == Inline(BackendRefDeepCopyInto, Copies({"filters"}, {}))
GRPCHeaderMatchDeepCopyInto == Copies({}, {"type"})
GRPCMethodMatchDeepCopyInto == Copies({}, {"type", "service", "method"})
GRPCRouteV1DeepCopyInto == Copies({"spec", "status"}, {})
GRPCRouteFilterDeepCopyInto ==
    Copies({"requestHeaderModifier", "responseHeaderModifier", "requestMirror"},
           {"extensionRef"})

GRPCRouteListV1DeepCopyInto == Copies({"items"}, {})
GRPCRouteMatchDeepCopyInto == Copies({"method", "headers"}, {})
GRPCRouteRuleDeepCopyInto ==
    Copies({"matches", "filters", "backendRefs", "sessionPersistence"}, {})

GRPCRouteSpecDeepCopyInto ==
    Inline(CommonRouteSpecDeepCopyInto, Copies({"rules"}, {"hostnames"}))

RouteStatusDeepCopyInto == Copies({"parents"}, {})
GRPCRouteStatusDeepCopyInto == Inline(RouteStatusDeepCopyInto, Copies({}, {}))
GatewayV1DeepCopyInto == Copies({"spec", "status"}, {})
GatewayAddressDeepCopyInto == Copies({}, {"type"})
GatewayClassV1DeepCopyInto == Copies({"spec", "status"}, {})
GatewayClassListV1DeepCopyInto == Copies({"items"}, {})
GatewayClassSpecDeepCopyInto == Copies({"parametersRef"}, {"description"})
GatewayClassStatusDeepCopyInto == Copies({"conditions"}, {"supportedFeatures"})
GatewayInfrastructureDeepCopyInto == Copies({}, {"labels", "annotations", "parametersRef"})
GatewayListV1DeepCopyInto == Copies({"items"}, {})
GatewaySpecDeepCopyInto == Copies({"listeners", "addresses", "infrastructure"}, {})
GatewayStatusDeepCopyInto == Copies({"addresses", "conditions", "listeners"}, {})
GatewayStatusAddressDeepCopyInto == Copies({}, {"type"})
GatewayTLSConfigDeepCopyInto ==
    Copies({"certificateRefs", "frontendValidation"}, {"mode", "options"})

HTTPBackendRefDeepCopyInto == Inline(BackendRefDeepCopyInto, Copies({"filters"}, {}))
HTTPHeaderDeepCopyInto == Copies({}, {})
HTTPHeaderFilterDeepCopyInto == Copies({}, {"set", "add", "remove"})
HTTPHeaderMatchDeepCopyInto == Copies({}, {"type"})
HTTPPathMatchDeepCopyInto == Copies({}, {"type", "value"})
HTTPPathModifierDeepCopyInto == Copies({}, {"replaceFullPath", "replacePrefixMatch"})
HTTPQueryParamMatchDeepCopyInto == Copies({}, {"type"})
HTTPRequestMirrorFilterDeepCopyInto == Copies({"backendRef"}, {})
HTTPRequestRedirectFilterDeepCopyInto ==
    Copies({"path"}, {"scheme", "hostname", "port", "statusCode"})

HTTPRouteV1DeepCopyInto == Copies({"spec", "status"}, {})
HTTPRouteFilterDeepCopyInto ==
    Copies({"requestHeaderModifier", "responseHeaderModifier", "requestMirror",
           "requestRedirect", "urlRewrite"}, {"extensionRef"})

HTTPRouteListV1DeepCopyInto == Copies({"items"}, {})
HTTPRouteMatchDeepCopyInto == Copies({"path", "headers", "queryParams"}, {"method"})
\* Mutant: generated before the filters were added.
HTTPRouteRuleWithoutFilters ==
    Copies({"matches", "backendRefs", "timeouts", "sessionPersistence"}, {})

HTTPRouteRuleDeepCopyInto ==
    Copies({"matches", "filters", "backendRefs", "timeouts", "sessionPersistence"}, {})

HTTPRouteSpecDeepCopyInto ==
    Inline(CommonRouteSpecDeepCopyInto, Copies({"rules"}, {"hostnames"}))

HTTPRouteStatusDeepCopyInto == Inline(RouteStatusDeepCopyInto, Copies({}, {}))
HTTPRouteTimeoutsDeepCopyInto == Copies({}, {"request", "backendRequest"})
HTTPURLRewriteFilterDeepCopyInto == Copies({"path"}, {"hostname"})
ListenerDeepCopyInto == Copies({"tls", "allowedRoutes"}, {"hostname"})
ListenerStatusDeepCopyInto == Copies({"supportedKinds", "conditions"}, {})
LocalObjectReferenceDeepCopyInto == Copies({}, {})
LocalParametersReferenceDeepCopyInto == Copies({}, {})
ObjectReferenceDeepCopyInto == Copies({}, {"namespace"})
ParametersReferenceDeepCopyInto == Copies({}, {"namespace"})
ParentReferenceDeepCopyInto ==
    Copies({}, {"group", "kind", "namespace", "sectionName", "port"})

RouteGroupKindDeepCopyInto == Copies({}, {"group"})
RouteNamespacesDeepCopyInto == Copies({"selector"}, {"from"})
\* Mutant: generated before the conditions were added.
RouteParentStatusWithoutConditions == Copies({"parentRef"}, {})

RouteParentStatusDeepCopyInto == Copies({"parentRef", "conditions"}, {})
SecretObjectReferenceDeepCopyInto == Copies({}, {"group", "kind", "namespace"})
SessionPersistenceDeepCopyInto ==
    Copies({"cookieConfig"}, {"sessionName", "absoluteTimeout", "idleTimeout", "type"})

-----------------------------------------------------------------------------
(* apis/v1alpha2 *)

BackendLBPolicyV1alpha2DeepCopyInto == Copies({"spec", "status"}, {})
BackendLBPolicyListV1alpha2DeepCopyInto == Copies({"items"}, {})
BackendLBPolicySpecDeepCopyInto == Copies({"sessionPersistence"}, {"targetRefs"})
GRPCRouteV1alpha2DeepCopyInto == Copies({"spec", "status"}, {})
GRPCRouteListV1alpha2DeepCopyInto == Copies({"items"}, {})
LocalPolicyTargetReferenceDeepCopyInto == Copies({}, {})
LocalPolicyTargetReferenceWithSectionNameDeepCopyInto == Copies({}, {"sectionName"})
PolicyAncestorStatusDeepCopyInto == Copies({"ancestorRef", "conditions"}, {})
PolicyStatusDeepCopyInto == Copies({"ancestors"}, {})
ReferenceGrantV1alpha2DeepCopyInto == Copies({"spec"}, {})
ReferenceGrantListV1alpha2DeepCopyInto == Copies({"items"}, {})
TCPRouteV1alpha2DeepCopyInto == Copies({"spec", "status"}, {})
TCPRouteListV1alpha2DeepCopyInto == Copies({"items"}, {})
TCPRouteRuleDeepCopyInto == Copies({"backendRefs"}, {})
TCPRouteSpecDeepCopyInto == Inline(CommonRouteSpecDeepCopyInto, Copies({"rules"}, {}))
TCPRouteStatusDeepCopyInto == Inline(RouteStatusDeepCopyInto, Copies({}, {}))
TLSRouteV1alpha2DeepCopyInto == Copies({"spec", "status"}, {})
TLSRouteListV1alpha2DeepCopyInto == Copies({"items"}, {})
TLSRouteRuleDeepCopyInto == Copies({"backendRefs"}, {})
TLSRouteSpecDeepCopyInto ==
    Inline(CommonRouteSpecDeepCopyInto, Copies({"rules"}, {"hostnames"}))

TLSRouteStatusDeepCopyInto == Inline(RouteStatusDeepCopyInto, Copies({}, {}))
UDPRouteV1alpha2DeepCopyInto == Copies({"spec", "status"}, {})
UDPRouteListV1alpha2DeepCopyInto == Copies({"items"}, {})
UDPRouteRuleDeepCopyInto == Copies({"backendRefs"}, {})
UDPRouteSpecDeepCopyInto == Inline(CommonRouteSpecDeepCopyInto, Copies({"rules"}, {}))
UDPRouteStatusDeepCopyInto == Inline(RouteStatusDeepCopyInto, Copies({}, {}))
-----------------------------------------------------------------------------
(* apis/v1alpha3 *)

BackendTLSPolicyV1alpha3DeepCopyInto == Copies({"spec", "status"}, {})
BackendTLSPolicyListV1alpha3DeepCopyInto == Copies({"items"}, {})
BackendTLSPolicySpecDeepCopyInto == Copies({"targetRefs", "validation"}, {})
BackendTLSPolicyValidationDeepCopyInto ==
    Copies({}, {"caCertificateRefs", "wellKnownCACertificates"})

-----------------------------------------------------------------------------
(* apis/v1beta1 *)

GatewayV1beta1DeepCopyInto == Copies({"spec", "status"}, {})
GatewayClassV1beta1DeepCopyInto == Copies({"spec", "status"}, {})
GatewayClassListV1beta1DeepCopyInto == Copies({"items"}, {})
GatewayListV1beta1DeepCopyInto == Copies({"items"}, {})
HTTPRouteV1beta1DeepCopyInto == Copies({"spec", "status"}, {})
HTTPRouteListV1beta1DeepCopyInto == Copies({"items"}, {})
ReferenceGrantV1beta1DeepCopyInto == Copies({"spec"}, {})
ReferenceGrantFromDeepCopyInto == Copies({}, {})
ReferenceGrantListV1beta1DeepCopyInto == Copies({"items"}, {})
ReferenceGrantSpecDeepCopyInto == Copies({"to"}, {"from"})
ReferenceGrantToDeepCopyInto == Copies({}, {"name"})

-----------------------------------------------------------------------------
(* The tables by struct, and those of the kinds by version *)

Structs ==
    [AllowedRoutes |-> AllowedRoutesDeepCopyInto, BackendObjectReference |->
     BackendObjectReferenceDeepCopyInto, BackendRef |-> BackendRefDeepCopyInto,
     CommonRouteSpec |-> CommonRouteSpecDeepCopyInto, CookieConfig |->
     CookieConfigDeepCopyInto, FrontendTLSValidation |->
     FrontendTLSValidationDeepCopyInto, GRPCBackendRef |-> GRPCBackendRefDeepCopyInto,
     GRPCHeaderMatch |-> GRPCHeaderMatchDeepCopyInto, GRPCMethodMatch |->
     GRPCMethodMatchDeepCopyInto, GRPCRouteFilter |-> GRPCRouteFilterDeepCopyInto,
     GRPCRouteMatch |-> GRPCRouteMatchDeepCopyInto, GRPCRouteRule |->
     GRPCRouteRuleDeepCopyInto, GRPCRouteSpec |-> GRPCRouteSpecDeepCopyInto,
     GRPCRouteStatus |-> GRPCRouteStatusDeepCopyInto, GatewayAddress |->
     GatewayAddressDeepCopyInto, GatewayClassSpec |-> GatewayClassSpecDeepCopyInto,
     GatewayClassStatus |-> GatewayClassStatusDeepCopyInto, GatewayInfrastructure |->
     GatewayInfrastructureDeepCopyInto, GatewaySpec |-> GatewaySpecDeepCopyInto,
     GatewayStatus |-> GatewayStatusDeepCopyInto, GatewayStatusAddress |->
     GatewayStatusAddressDeepCopyInto, GatewayTLSConfig |->
     GatewayTLSConfigDeepCopyInto, HTTPBackendRef |-> HTTPBackendRefDeepCopyInto,
     HTTPHeader |-> HTTPHeaderDeepCopyInto, HTTPHeaderFilter |->
     HTTPHeaderFilterDeepCopyInto, HTTPHeaderMatch |-> HTTPHeaderMatchDeepCopyInto,
     HTTPPathMatch |-> HTTPPathMatchDeepCopyInto, HTTPPathModifier |->
     HTTPPathModifierDeepCopyInto, HTTPQueryParamMatch |->
     HTTPQueryParamMatchDeepCopyInto, HTTPRequestMirrorFilter |->
     HTTPRequestMirrorFilterDeepCopyInto, HTTPRequestRedirectFilter |->
     HTTPRequestRedirectFilterDeepCopyInto, HTTPRouteFilter |->
     HTTPRouteFilterDeepCopyInto, HTTPRouteMatch |-> HTTPRouteMatchDeepCopyInto,
     HTTPRouteRule |-> HTTPRouteRuleDeepCopyInto, HTTPRouteSpec |->
     HTTPRouteSpecDeepCopyInto, HTTPRouteStatus |-> HTTPRouteStatusDeepCopyInto,
     HTTPRouteTimeouts |-> HTTPRouteTimeoutsDeepCopyInto, HTTPURLRewriteFilter |->
     HTTPURLRewriteFilterDeepCopyInto, Listener |-> ListenerDeepCopyInto, ListenerStatus
     |-> ListenerStatusDeepCopyInto, LocalObjectReference |->
     LocalObjectReferenceDeepCopyInto, LocalParametersReference |->
     LocalParametersReferenceDeepCopyInto, ObjectReference |->
     ObjectReferenceDeepCopyInto, ParametersReference |->
     ParametersReferenceDeepCopyInto, ParentReference |-> ParentReferenceDeepCopyInto,
     RouteGroupKind |-> RouteGroupKindDeepCopyInto, RouteNamespaces |->
     RouteNamespacesDeepCopyInto, RouteParentStatus |-> RouteParentStatusDeepCopyInto,
     RouteStatus |-> RouteStatusDeepCopyInto, SecretObjectReference |->
     SecretObjectReferenceDeepCopyInto, SessionPersistence |->
     SessionPersistenceDeepCopyInto, BackendLBPolicySpec |->
     BackendLBPolicySpecDeepCopyInto, LocalPolicyTargetReference |->
     LocalPolicyTargetReferenceDeepCopyInto, LocalPolicyTargetReferenceWithSectionName
     |-> LocalPolicyTargetReferenceWithSectionNameDeepCopyInto, PolicyAncestorStatus |->
     PolicyAncestorStatusDeepCopyInto, PolicyStatus |-> PolicyStatusDeepCopyInto,
     TCPRouteRule |-> TCPRouteRuleDeepCopyInto, TCPRouteSpec |->
     TCPRouteSpecDeepCopyInto, TCPRouteStatus |-> TCPRouteStatusDeepCopyInto,
     TLSRouteRule |-> TLSRouteRuleDeepCopyInto, TLSRouteSpec |->
     TLSRouteSpecDeepCopyInto, TLSRouteStatus |-> TLSRouteStatusDeepCopyInto,
     UDPRouteRule |-> UDPRouteRuleDeepCopyInto, UDPRouteSpec |->
     UDPRouteSpecDeepCopyInto, UDPRouteStatus |-> UDPRouteStatusDeepCopyInto,
     BackendTLSPolicySpec |-> BackendTLSPolicySpecDeepCopyInto,
     BackendTLSPolicyValidation |-> BackendTLSPolicyValidationDeepCopyInto,
     ReferenceGrantFrom |-> ReferenceGrantFromDeepCopyInto, ReferenceGrantSpec |->
     ReferenceGrantSpecDeepCopyInto, ReferenceGrantTo |-> ReferenceGrantToDeepCopyInto]

KindsV1 ==
    [GRPCRoute |-> GRPCRouteV1DeepCopyInto, GRPCRouteList |->
     GRPCRouteListV1DeepCopyInto, Gateway |-> GatewayV1DeepCopyInto, GatewayClass |->
     GatewayClassV1DeepCopyInto, GatewayClassList |-> GatewayClassListV1DeepCopyInto,
     GatewayList |-> GatewayListV1DeepCopyInto, HTTPRoute |-> HTTPRouteV1DeepCopyInto,
     HTTPRouteList |-> HTTPRouteListV1DeepCopyInto]

KindsV1alpha2 ==
    [BackendLBPolicy |-> BackendLBPolicyV1alpha2DeepCopyInto, BackendLBPolicyList |->
     BackendLBPolicyListV1alpha2DeepCopyInto, GRPCRoute |->
     GRPCRouteV1alpha2DeepCopyInto, GRPCRouteList |-> GRPCRouteListV1alpha2DeepCopyInto,
     ReferenceGrant |-> ReferenceGrantV1alpha2DeepCopyInto, ReferenceGrantList |->
     ReferenceGrantListV1alpha2DeepCopyInto, TCPRoute |-> TCPRouteV1alpha2DeepCopyInto,
     TCPRouteList |-> TCPRouteListV1alpha2DeepCopyInto, TLSRoute |->
     TLSRouteV1alpha2DeepCopyInto, TLSRouteList |-> TLSRouteListV1alpha2DeepCopyInto,
     UDPRoute |-> UDPRouteV1alpha2DeepCopyInto, UDPRouteList |->
     UDPRouteListV1alpha2DeepCopyInto]

KindsV1alpha3 ==
    [BackendTLSPolicy |-> BackendTLSPolicyV1alpha3DeepCopyInto, BackendTLSPolicyList |->
     BackendTLSPolicyListV1alpha3DeepCopyInto]

KindsV1beta1 ==
    [Gateway |-> GatewayV1beta1DeepCopyInto, GatewayClass |->
     GatewayClassV1beta1DeepCopyInto, GatewayClassList |->
     GatewayClassListV1beta1DeepCopyInto, GatewayList |->
     GatewayListV1beta1DeepCopyInto, HTTPRoute |-> HTTPRouteV1beta1DeepCopyInto,
     HTTPRouteList |-> HTTPRouteListV1beta1DeepCopyInto, ReferenceGrant |->
     ReferenceGrantV1beta1DeepCopyInto, ReferenceGrantList |->
     ReferenceGrantListV1beta1DeepCopyInto]

KindsOf == [v1 |-> KindsV1, v1alpha2 |-> KindsV1alpha2, v1alpha3 |-> KindsV1alpha3,
            v1beta1 |-> KindsV1beta1]

-----------------------------------------------------------------------------
(* What a copy still shares with the original *)

IsReference(field) == field.pointer \/ field.schema.t \in {"list", "map"}

\* What a pointer or a list refers to.
Referent(field) == IF field.schema.t = "list" THEN field.schema.of ELSE field.schema

RECURSIVE HoldsReference(_)
HoldsReference(s) ==
    s.t = "struct" /\ \E f \in DOMAIN s.fields :
        IsReference(s.fields[f]) \/ HoldsReference(s.fields[f].schema)

\* Whether, under the struct's table, a copy shares something below the field.
RECURSIVE SharesIn(_, _, _)
SharesIn(table, f, field) ==
    LET inner == Referent(field)
        below == /\ inner.t = "struct" /\ inner.name \in DOMAIN Structs
                 /\ \E g \in DOMAIN inner.fields :
                        SharesIn(Structs[inner.name], g, inner.fields[g])
    IN CASE f \in table.deep -> below
         [] f \in table.flat -> HoldsReference(inner)
         [] OTHER -> IsReference(field) \/ HoldsReference(inner)

\* The parts of an object of a kind that its DeepCopy shares with it, and those
\* that the items of a list's DeepCopy share with the items of the list.
SharedParts(version, schema) ==
    {f \in DOMAIN schema.fields :
        SharesIn(KindsOf[version][schema.name], f, schema.fields[f])}

SharedInList(version, listKind, schema) ==
    IF "items" \in KindsOf[version][listKind].deep
    THEN SharedParts(version, schema)
    ELSE {f \in DOMAIN schema.fields : HoldsReference(schema.fields[f].schema)}
=============================================================================
