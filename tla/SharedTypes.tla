----------------------------- MODULE SharedTypes -----------------------------
(***************************************************************************)
(* The types every route and policy is built from: references to parents,  *)
(* backends and secrets, the status of a route with respect to its         *)
(* parents, and session persistence (apis/v1/shared_types.go and           *)
(* object_reference_types.go), with the CEL rules on them.                  *)
(***************************************************************************)
EXTENDS StructuralSchemas

GatewayGroup == "gateway.networking.k8s.io"

PortNumber == IntRange(1, 65535)

\* Names, as texts: every value of the models matches its pattern.
Group == Text
Kind == Text
ObjectName == Text
Namespace == Text
SectionName == Text
GatewayController == Text
AddressType == Text
HeaderName == Text
AnnotationKey == Text
AnnotationValue == Text

Hostname == Host(TRUE)

PreciseHostname == Host(FALSE)

\* metav1.Condition, without the message and the times no rule reads.
Condition ==
    Struct("Condition",
           [type |-> Required(Text),
            status |-> Required(Enum({"True", "False", "Unknown"})),
            reason |-> Required(Text),
            observedGeneration |-> ByValue(IntRange(0, 65535))], {})

-----------------------------------------------------------------------------
(* References *)

LocalObjectReference ==
    Struct("LocalObjectReference",
           [group |-> Required(Group), kind |-> Required(Kind), name |-> Required(ObjectName)], {})

SecretObjectReference ==
    Struct("SecretObjectReference",
           [group |-> Default(Optional(Group), ""),
            kind |-> Default(Optional(Kind), "Secret"),
            name |-> Required(ObjectName),
            namespace |-> Optional(Namespace)], {})

ObjectReference ==
    Struct("ObjectReference",
           [group |-> Required(Group), kind |-> Required(Kind), name |-> Required(ObjectName),
            namespace |-> Optional(Namespace)], {})

BackendObjectReferenceFields ==
    [group |-> Default(Optional(Group), ""),
     kind |-> Default(Optional(Kind), "Service"),
     name |-> Required(ObjectName),
     namespace |-> Optional(Namespace),
     port |-> Optional(PortNumber)]

\* "Must have port for Service reference"
ServiceHasPort(self) == self.group = "" /\ self.kind = "Service" => has(self, "port")

BackendObjectReference ==
    Struct("BackendObjectReference", BackendObjectReferenceFields, {"ServiceHasPort"})

\* BackendRef embeds BackendObjectReference inline: its fields and its rule.
BackendRefFields ==
    BackendObjectReferenceFields
        @@ [weight |-> Default(Optional(IntRange(0, 1000000)), 1)]

BackendRef == Struct("BackendRef", BackendRefFields, {"ServiceHasPort"})

-----------------------------------------------------------------------------
(* Parents of a route *)

ParentReference ==
    Struct("ParentReference",
           [group |-> Default(Optional(Group), GatewayGroup),
            kind |-> Default(Optional(Kind), "Gateway"),
            namespace |-> Optional(Namespace),
            name |-> Required(ObjectName),
            sectionName |-> Optional(SectionName),
            port |-> Optional(PortNumber)], {})

\* The rules' notion of two references to one parent: an absent namespace and
\* the route's own namespace written out are different parents.
SameParent(p1, p2) ==
    /\ p1.group = p2.group /\ p1.kind = p2.kind /\ p1.name = p2.name
    /\ OrEmpty(p1, "namespace") = OrEmpty(p2, "namespace")

SetAlike(self, fields) ==
    \A i, j \in DOMAIN self :
        SameParent(self[i], self[j]) =>
            \A f \in fields : has(self[i], f) <=> has(self[j], f)

UniqueIn(self, fields) ==
    \A i, j \in DOMAIN self :
        /\ SameParent(self[i], self[j])
        /\ \A f \in fields : OrEmpty(self[i], f) = OrEmpty(self[j], f)
        => i = j

\* The rules on parentRefs of the standard channel ...
StandardParentRefs(self) ==
    SetAlike(self, {"sectionName"}) /\ UniqueIn(self, {"sectionName"})

\* ... and of the experimental channel, which also read the port.
ExperimentalParentRefs(self) ==
    SetAlike(self, {"sectionName", "port"}) /\ UniqueIn(self, {"sectionName", "port"})

CommonRouteSpecFields ==
    [parentRefs |-> ChannelRules(ByValue(AtomicList(ParentReference, 0, 32, {})),
                                 {"StandardParentRefs"}, {"ExperimentalParentRefs"})]

RouteParentStatus ==
    Struct("RouteParentStatus",
           [parentRef |-> Required(ParentReference),
            controllerName |-> Required(GatewayController),
            conditions |-> ByValue(MapList(Condition, 1, 8, {"type"}, {}))], {})

RouteStatusFields == [parents |-> Required(AtomicList(RouteParentStatus, 0, 32, {}))]

-----------------------------------------------------------------------------
(* Session persistence (experimental).  A duration is its length.          *)

Duration == IntRange(0, 99999)

SessionPersistenceType == Enum({"Cookie", "Header"})

CookieLifetimeType == Enum({"Permanent", "Session"})

CookieConfig ==
    Struct("CookieConfig",
           [lifetimeType |-> Default(Optional(CookieLifetimeType), "Session")],
           {})

\* The rule reads self.cookieConfig.lifetimeType without asking whether
\* cookieConfig is there: an absent cookieConfig is an evaluation error, which
\* rejects the object unless the last disjunct of the rule is true.
PermanentNeedsTimeout(self) ==
    \/ has(self, "absoluteTimeout")
    \/ /\ has(self, "cookieConfig")
       /\ \/ ~has(self.cookieConfig, "lifetimeType")
          \/ self.cookieConfig.lifetimeType # "Permanent"

SessionPersistence ==
    Struct("SessionPersistence",
           [sessionName |-> Optional(Text),
            absoluteTimeout |-> Optional(Duration),
            idleTimeout |-> Optional(Duration),
            type |-> Default(Optional(SessionPersistenceType), "Cookie"),
            cookieConfig |-> Optional(CookieConfig)],
           {"PermanentNeedsTimeout"})
=============================================================================
