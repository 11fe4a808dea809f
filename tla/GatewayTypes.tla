---------------------------- MODULE GatewayTypes ----------------------------
(***************************************************************************)
(* Gateway and GatewayClass (gateway_types.go and gatewayclass_types.go of *)
(* apis/v1), BackendLBPolicy (apis/v1alpha2), BackendTLSPolicy             *)
(* (apis/v1alpha3), the status policies share, and ReferenceGrant          *)
(* (apis/v1beta1): schemas, defaults and CEL rules.                        *)
(***************************************************************************)
EXTENDS SharedTypes

\* A condition as a controller has not set it yet.
Unset(type, reason) == [type |-> type, status |-> "Unknown", reason |-> reason]

-----------------------------------------------------------------------------
(* Listeners *)

ProtocolType == Text

TLSModeType == Enum({"Terminate", "Passthrough"})

FromNamespaces == Enum({"All", "Selector", "Same"})

RouteGroupKind ==
    Struct("RouteGroupKind",
           [group |-> Default(Optional(Group), GatewayGroup), kind |-> Required(Kind)], {})

RouteNamespaces ==
    Struct("RouteNamespaces",
           [from |-> Default(Optional(FromNamespaces), "Same"),
            selector |-> Optional(MapOf(Text, Text, 65535))], {})

AllowedRoutes ==
    Struct("AllowedRoutes",
           [namespaces |-> Default(Optional(RouteNamespaces), [from |-> "Same"]),
            kinds |-> ByValue(AtomicList(RouteGroupKind, 0, 8, {}))], {})

FrontendTLSValidation ==
    Struct("FrontendTLSValidation",
           [caCertificateRefs |-> ByValue(AtomicList(ObjectReference, 1, 8, {}))], {})

\* "certificateRefs or options must be specified when mode is Terminate": the
\* size of an absent field is an error, which the other disjunct absorbs.
TerminateNeedsCertificate(self) ==
    self.mode = "Terminate" =>
        \/ has(self, "certificateRefs") /\ Len(self.certificateRefs) > 0
        \/ has(self, "options") /\ DOMAIN self.options # {}

GatewayTLSConfig ==
    Struct("GatewayTLSConfig",
           [mode |-> Default(Optional(TLSModeType), "Terminate"),
            certificateRefs |-> ByValue(AtomicList(SecretObjectReference, 0, 64, {})),
            frontendValidation |-> Experimental(Optional(FrontendTLSValidation)),
            options |-> ByValue(MapOf(AnnotationKey, AnnotationValue, 16))],
           {"TerminateNeedsCertificate"})

Listener ==
    Struct("Listener",
           [name |-> Required(SectionName),
            hostname |-> Optional(Hostname),
            port |-> Required(PortNumber),
            protocol |-> Required(ProtocolType),
            tls |-> Optional(GatewayTLSConfig),
            allowedRoutes |-> Default(Optional(AllowedRoutes),
                                      [namespaces |-> [from |-> "Same"]])], {})

\* Two listeners take the same connections: same port, protocol and hostname.
SameCombination(l1, l2) ==
    l1.port = l2.port /\ l1.protocol = l2.protocol
        /\ OrEmpty(l1, "hostname") = OrEmpty(l2, "hostname")

\* Mutant: only the names of listeners are unique.
ListenerNamesUnique(self) ==
    \A i \in DOMAIN self :
        LET l == self[i]
            sameName(l2) == l.name = l2.name
        IN /\ l.protocol \in {"HTTP", "TCP", "UDP"} => ~has(l, "tls")
           /\ l.protocol = "HTTPS" /\ has(l, "tls") => l.tls.mode = "Terminate"
           /\ l.protocol \in {"TCP", "UDP"} => ~has(l, "hostname")
           /\ exists_one(self, sameName)

ListenerRules(self) ==
    /\ \A i \in DOMAIN self :
        LET l == self[i] IN
        /\ l.protocol \in {"HTTP", "TCP", "UDP"} => ~has(l, "tls")
        /\ l.protocol = "HTTPS" /\ has(l, "tls") => l.tls.mode = "Terminate"
        /\ l.protocol \in {"TCP", "UDP"} => ~has(l, "hostname")
        /\ LET sameName(l2) == l.name = l2.name
               sameFlow(l2) == SameCombination(l, l2)
           IN exists_one(self, sameName) /\ exists_one(self, sameFlow)

-----------------------------------------------------------------------------
(* Addresses.  A value is "ip.." for an address, "host.." for a host name.  *)

IPAddresses == {"ip1", "ip2"}

HostAddresses == {"host1", "host2"}

\* "Hostname value must only contain valid characters"
HostnameAddress(self) == self.type = "Hostname" => self.value \in HostAddresses

\* The oneOf the generator puts on the elements of a list of addresses.
IPAddressValue(self) == self.type = "IPAddress" => self.value \in IPAddresses

GatewayAddress ==
    Struct("GatewayAddress",
           [type |-> Default(Optional(AddressType), "IPAddress"), value |-> Required(Text)],
           {"HostnameAddress"})

GatewayStatusAddress ==
    Struct("GatewayStatusAddress",
           [type |-> Default(Optional(AddressType), "IPAddress"), value |-> Required(Text)],
           {"HostnameAddress"})

\* "IPAddress values must be unique", "Hostname values must be unique"
AddressesUnique(self) ==
    \A i, j \in DOMAIN self :
        self[i] = self[j] /\ self[i].type \in {"IPAddress", "Hostname"} => i = j

-----------------------------------------------------------------------------
(* Gateway *)

LocalParametersReference ==
    Struct("LocalParametersReference",
           [group |-> Required(Group), kind |-> Required(Kind), name |-> Required(Text)], {})

GatewayInfrastructure ==
    Struct("GatewayInfrastructure",
           [labels |-> ByValue(MapOf(AnnotationKey, AnnotationValue, 8)),
            annotations |-> ByValue(MapOf(AnnotationKey, AnnotationValue, 8)),
            parametersRef |-> Optional(LocalParametersReference)], {})

GatewaySpec ==
    Struct("GatewaySpec",
           [gatewayClassName |-> Required(Text),
            listeners |-> Required(MapList(Listener, 1, 64, {"name"}, {"ListenerRules"})),
            addresses |-> ValidateIPAddress(
                ByValue(AtomicList(GatewayAddress, 0, 16, {"AddressesUnique"}))),
            infrastructure |-> Experimental(Optional(GatewayInfrastructure))], {})

ListenerStatus ==
    Struct("ListenerStatus",
           [name |-> Required(SectionName),
            supportedKinds |-> Required(AtomicList(RouteGroupKind, 0, 8, {})),
            attachedRoutes |-> Required(IntRange(0, 65535)),
            conditions |-> Required(MapList(Condition, 0, 8, {"type"}, {}))], {})

GatewayPending == << Unset("Accepted", "Pending"), Unset("Programmed", "Pending") >>

GatewayStatus ==
    Struct("GatewayStatus",
           [addresses |-> ValidateIPAddress(
                ByValue(AtomicList(GatewayStatusAddress, 0, 16, {}))),
            conditions |-> Default(ByValue(MapList(Condition, 0, 8, {"type"}, {})),
                                   GatewayPending),
            listeners |-> ByValue(MapList(ListenerStatus, 0, 64, {"name"}, {}))], {})

Gateway ==
    Struct("Gateway",
           [spec |-> Required(GatewaySpec),
            status |-> Default(ByValue(GatewayStatus), [conditions |-> GatewayPending])], {})

-----------------------------------------------------------------------------
(* GatewayClass *)

ParametersReference ==
    Struct("ParametersReference",
           [group |-> Required(Group), kind |-> Required(Kind), name |-> Required(Text),
            namespace |-> Optional(Namespace)], {})

\* "Value is immutable": self == oldSelf, asked only where there is an old value.
Immutable(self, old) == old # <<>> => self = old[1]

GatewayClassSpec ==
    Struct("GatewayClassSpec",
           [controllerName |-> Required(Unchanging),
            parametersRef |-> Optional(ParametersReference),
            description |-> Optional(Text)], {})

SupportedFeature == Text

GatewayClassStatus ==
    Struct("GatewayClassStatus",
           [conditions |-> Default(ByValue(MapList(Condition, 0, 8, {"type"}, {})),
                                   << Unset("Accepted", "Pending") >>),
            supportedFeatures |-> Experimental(ByValue(SetList(SupportedFeature, 64)))], {})

GatewayClass ==
    Struct("GatewayClass",
           [spec |-> Required(GatewayClassSpec),
            status |-> Default(ByValue(GatewayClassStatus),
                               [conditions |-> << Unset("Accepted", "Waiting") >>])], {})

-----------------------------------------------------------------------------
(* Policies *)

LocalPolicyTargetReferenceFields ==
    [group |-> Required(Group), kind |-> Required(Kind), name |-> Required(ObjectName)]

LocalPolicyTargetReference ==
    Struct("LocalPolicyTargetReference", LocalPolicyTargetReferenceFields, {})

LocalPolicyTargetReferenceWithSectionName ==
    Struct("LocalPolicyTargetReferenceWithSectionName",
           LocalPolicyTargetReferenceFields @@ [sectionName |-> Optional(SectionName)], {})

PolicyAncestorStatus ==
    Struct("PolicyAncestorStatus",
           [ancestorRef |-> Required(ParentReference),
            controllerName |-> Required(GatewayController),
            conditions |-> ByValue(MapList(Condition, 1, 8, {"type"}, {}))], {})

PolicyStatus ==
    Struct("PolicyStatus",
           [ancestors |-> Required(AtomicList(PolicyAncestorStatus, 0, 16, {}))], {})

BackendLBPolicySpec ==
    Struct("BackendLBPolicySpec",
           [targetRefs |-> Required(MapList(LocalPolicyTargetReference, 1, 16,
                                            {"group", "kind", "name"}, {})),
            sessionPersistence |-> Optional(SessionPersistence)], {})

BackendLBPolicy ==
    Struct("BackendLBPolicy",
           [spec |-> Required(BackendLBPolicySpec), status |-> ByValue(PolicyStatus)], {})

\* Certificates come from references or from a well-known set, not from both
\* and not from neither.
OneCertificateSource(self) ==
    LET refs == has(self, "caCertificateRefs") /\ Len(self.caCertificateRefs) > 0
        known == has(self, "wellKnownCACertificates")
    IN ~(refs /\ known) /\ (refs \/ known)

WellKnownCACertificatesType == Enum({"System"})

BackendTLSPolicyValidation ==
    Struct("BackendTLSPolicyValidation",
           [caCertificateRefs |-> ByValue(AtomicList(LocalObjectReference, 0, 8, {})),
            wellKnownCACertificates |-> Optional(WellKnownCACertificatesType),
            hostname |-> Required(PreciseHostname)],
           {"OneCertificateSource"})

BackendTLSPolicySpec ==
    Struct("BackendTLSPolicySpec",
           [targetRefs |-> Required(AtomicList(LocalPolicyTargetReferenceWithSectionName,
                                               1, 16, {})),
            validation |-> Required(BackendTLSPolicyValidation)], {})

BackendTLSPolicy ==
    Struct("BackendTLSPolicy",
           [spec |-> Required(BackendTLSPolicySpec), status |-> ByValue(PolicyStatus)], {})

-----------------------------------------------------------------------------
(* ReferenceGrant, the one kind without a status *)

ReferenceGrantFrom ==
    Struct("ReferenceGrantFrom",
           [group |-> Required(Group), kind |-> Required(Kind), namespace |-> Required(Namespace)],
           {})

ReferenceGrantTo ==
    Struct("ReferenceGrantTo",
           [group |-> Required(Group), kind |-> Required(Kind), name |-> Optional(ObjectName)], {})

ReferenceGrantSpec ==
    Struct("ReferenceGrantSpec",
           [from |-> Required(AtomicList(ReferenceGrantFrom, 1, 16, {})),
            to |-> Required(AtomicList(ReferenceGrantTo, 1, 16, {}))], {})

ReferenceGrant ==
    Struct("ReferenceGrant", [spec |-> ByValue(ReferenceGrantSpec)], {})
=============================================================================
