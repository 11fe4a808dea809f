----------------------------- MODULE Admission ------------------------------
(***************************************************************************)
(* The life of one object of one kind under the CRDs of this repository:    *)
(* it is created, updated, given a status and deleted through any version   *)
(* the installed CRD serves, while the cluster's administrator moves        *)
(* between the release channels.  What is stored survives such a move.      *)
(***************************************************************************)
EXTENDS CRDGenerator

(***************************************************************************)
(* The API server with the CRDs of one release channel installed, serving  *)
(* one kind.  The server itself is not part of the repository; the schemas,  *)
(* rules and versions it acts on are those of CRDGenerator.                 *)
(***************************************************************************)

VARIABLES
    resource,   \* the kind under consideration, by its plural name
    channel,    \* the channel its installed CRD is from, "none" before that
    crd         \* that CRD: its schema and the versions it serves

\* The CEL rule with this name, of the struct or list `self'.
Holds(rule, self) ==
    CASE rule = "ServiceHasPort" -> ServiceHasPort(self)
      [] rule = "StandardParentRefs" -> StandardParentRefs(self)
      [] rule = "ExperimentalParentRefs" -> ExperimentalParentRefs(self)
      [] rule = "PermanentNeedsTimeout" -> PermanentNeedsTimeout(self)
      [] rule = "NormalisedPath" -> NormalisedPath(self)
      [] rule = "ModifierMatchesType" -> ModifierMatchesType(self)
      [] rule = "FilterIsUnion" -> FilterIsUnion(self)
      [] rule = "HTTPFilterList" -> HTTPFilterList(self)
      [] rule = "BackendTimeoutFits" -> BackendTimeoutFits(self)
      [] rule = "RedirectWithoutBackends" -> RedirectWithoutBackends(self)
      [] rule = "PrefixToReplace" -> PrefixToReplace(self)
      [] rule = "PrefixToReplaceInBackends" -> PrefixToReplaceInBackends(self)
      [] rule = "GRPCMethodMatchRules" -> GRPCMethodMatchRules(self)
      [] rule = "GRPCFilterIsUnion" -> GRPCFilterIsUnion(self)
      [] rule = "GRPCFilterList" -> GRPCFilterList(self)
      [] rule = "TerminateNeedsCertificate" -> TerminateNeedsCertificate(self)
      [] rule = "ListenerRules" -> ListenerRules(self)
      [] rule = "HostnameAddress" -> HostnameAddress(self)
      [] rule = "IPAddressValue" -> IPAddressValue(self)
      [] rule = "AddressesUnique" -> AddressesUnique(self)
      [] rule = "OneCertificateSource" -> OneCertificateSource(self)

\* An object is valid when every value in it satisfies its schema and, only
\* once they all do, every CEL rule holds.  old is the value before the update,
\* as a sequence of at most one; it is followed into structs, not into lists.
RECURSIVE Satisfies(_, _, _)
Satisfies(s, v, old) ==
    CASE s.t = "struct" ->
            /\ \A f \in DOMAIN s.fields : s.fields[f].required => f \in DOMAIN v
            /\ \A f \in DOMAIN v :
                Satisfies(s.fields[f].schema, v[f],
                          IF old # <<>> /\ f \in DOMAIN old[1] THEN <<old[1][f]>> ELSE <<>>)
      [] s.t = "list" ->
            /\ Len(v) \in s.min .. s.max
            /\ \A i \in DOMAIN v : Satisfies(s.of, v[i], <<>>)
            /\ DistinctElements(s, v)
      [] s.t = "unchanging" -> Immutable(v, old)
      [] OTHER -> ScalarIsValid(s, v)

RECURSIVE RulesHold(_, _)
RulesHold(s, v) ==
    CASE s.t = "struct" ->
            /\ \A f \in DOMAIN v : RulesHold(s.fields[f].schema, v[f])
            /\ \A r \in s.rules : Holds(r, v)
      [] s.t = "list" ->
            /\ \A i \in DOMAIN v : RulesHold(s.of, v[i])
            /\ \A r \in s.rules : Holds(r, v)
      [] OTHER -> TRUE

Valid(s, v, old) == Satisfies(s, v, old) /\ RulesHold(s, v)

-----------------------------------------------------------------------------
(* Requests *)

NotInstalled == [schema |-> Text, served |-> {}]

Schema == crd.schema

ServedVersions == {v.name : v \in crd.served}

HasStatusEndpoint(version) ==
    \E v \in kubeKinds[resource].versions : v.name = version /\ "status" \in v.subresources

\* An object as it is read: what is stored, pruned and defaulted by the schema
\* that is installed now.
Read(body) == Conformed(Schema, body)

WithStatusOf(body, source) ==
    [f \in (DOMAIN body \ {"status"}) \cup (DOMAIN source \cap {"status"}) |->
        IF f = "status" THEN source.status ELSE body[f]]

WithoutStatus(body) == [f \in DOMAIN body \ {"status"} |-> body[f]]

\* What a write through an endpoint is taken to ask for: a version with a
\* status subresource ignores the status in a create or an update.
ToCreate(version, body) ==
    Read(IF HasStatusEndpoint(version) THEN WithoutStatus(body) ELSE body)

ToUpdate(version, body, old) ==
    Read(IF HasStatusEndpoint(version) THEN WithStatusOf(body, old) ELSE body)

\* A write to the status endpoint takes nothing but the status.
ToUpdateStatus(body, old) == Read(WithStatusOf(old, body))

\* kubectl apply of a channel's CRDs: it replaces the CRD of every kind the
\* channel has and leaves the others as they are.
Install(c) ==
    /\ IF resource \in DOMAIN CRDs[c]
       THEN channel' = c /\ crd' = CRDs[c][resource]
       ELSE UNCHANGED << channel, crd >>
    /\ UNCHANGED resource

-----------------------------------------------------------------------------
CONSTANTS
    Specs,      \* Specs[r]: the specs a user of kind r tries
    Statuses    \* Statuses[r]: the statuses a controller of kind r writes

ASSUME InputsAssumption ==
    DOMAIN Specs = DOMAIN kubeKinds /\ DOMAIN Statuses = DOMAIN kubeKinds

VARIABLES
    stored,     \* the object, as a sequence of at most one
    sent,       \* the spec that was sent when its spec was last written
    writtenIn   \* the channels it was written under since then

avars == << resource, channel, crd, stored, sent, writtenIn >>

Init ==
    /\ resource \in DOMAIN kubeKinds
    /\ channel = "none"
    /\ crd = NotInstalled
    /\ stored = <<>>
    /\ sent = <<>>
    /\ writtenIn = {}

InstallChannel(c) ==
    /\ Install(c)
    /\ UNCHANGED << stored, sent, writtenIn >>

\* A write is refused, or it replaces the object.
Write(body, old) ==
    /\ \E object \in {o \in {body} : Valid(Schema, o, old)} : stored' = <<object>>
    /\ UNCHANGED << resource, channel, crd >>

Create(version, spec) ==
    /\ version \in ServedVersions
    /\ stored = <<>>
    /\ Write(ToCreate(version, [spec |-> spec]), <<>>)
    /\ sent' = <<spec>>
    /\ writtenIn' = {channel}

\* A user reads the object, replaces its spec and sends it back.
Update(version, spec) ==
    /\ version \in ServedVersions
    /\ stored # <<>>
    /\ LET old == Read(stored[1])
       IN Write(ToUpdate(version, [old EXCEPT !.spec = spec], old), <<old>>)
    /\ sent' = <<spec>>
    /\ writtenIn' = {channel}

\* A controller reads the object, replaces its status and sends it back.
UpdateStatus(version, status) ==
    /\ version \in ServedVersions
    /\ HasStatusEndpoint(version)
    /\ stored # <<>>
    /\ LET old == Read(stored[1])
       IN Write(ToUpdateStatus([spec |-> old.spec, status |-> status], old), <<old>>)
    /\ writtenIn' = writtenIn \cup {channel}
    /\ UNCHANGED sent

Delete(version) ==
    /\ version \in ServedVersions
    /\ stored # <<>>
    /\ stored' = <<>>
    /\ sent' = <<>>
    /\ writtenIn' = {}
    /\ UNCHANGED << resource, channel, crd >>

Versions == {"v1", "v1beta1", "v1alpha2", "v1alpha3"}

Next ==
    \/ \E c \in Channels : InstallChannel(c)
    \/ \E version \in Versions :
        \/ \E spec \in Specs[resource] : Create(version, spec) \/ Update(version, spec)
        \/ \E status \in Statuses[resource] : UpdateStatus(version, status)
        \/ Delete(version)

Spec == Init /\ [][Next]_avars

-----------------------------------------------------------------------------
(* Properties *)

\* y has every field and element of x, as the Go type s lays them out.
RECURSIVE Keeps(_, _, _)
Keeps(s, x, y) ==
    CASE s.t = "struct" -> /\ DOMAIN x \subseteq DOMAIN y
                           /\ \A f \in DOMAIN x : Keeps(s.fields[f].schema, x[f], y[f])
      [] s.t = "list" -> Len(x) = Len(y) /\ \A i \in DOMAIN x : Keeps(s.of, x[i], y[i])
      [] OTHER -> x = y

GoSpec == kubeKinds[resource].schema.fields["spec"].schema

\* The generator rewrites the schema of a kind once per channel, deleting
\* properties in place.  Nothing the standard channel deletes may be missing
\* from the experimental CRDs: a spec that was only ever written under them is
\* stored with every field its writer sent.
ExperimentalLosesNothing ==
    writtenIn = {"experimental"} => Keeps(GoSpec, sent[1], stored[1].spec)

\* The object as it reads under a channel's CRD.
ReadIn(c) == Conformed(CRDs[c][resource].schema, stored[1])

\* Moving a cluster to the experimental channel changes no object: whatever was
\* written under the standard CRDs reads the same under the experimental ones,
\* so no field that is new there comes with a default.
UpgradeIsInvisible ==
    writtenIn = {"standard"} => ReadIn("experimental") = ReadIn("standard")

\* The release channels as documented: "The Experimental release channel
\* includes everything in the Standard release channel".  An object written
\* under the standard CRDs is still valid under the experimental ones, so an
\* update that changes nothing is accepted after the move.
ExperimentalIncludesStandard ==
    writtenIn = {"standard"} =>
        \A object \in {ReadIn("experimental")} :
            Valid(CRDs["experimental"][resource].schema, object, <<object>>)

-----------------------------------------------------------------------------

\* What a listener's hostname matches: itself, or below its wildcard.
HostMatches(pattern, host) ==
    IF pattern[1] = "*"
    THEN /\ Len(host) >= Len(pattern)
         /\ \A i \in 0 .. Len(pattern) - 2 : host[Len(host) - i] = pattern[Len(pattern) - i]
    ELSE host = pattern

\* What arrives at a port for each protocol: it does not say which listener it is
\* for.  A TLS handshake carries a host name, and so does an HTTP request.
Traffic(protocol) ==
    CASE protocol = "HTTP" -> {"plain"}
      [] protocol \in {"HTTPS", "TLS"} -> {"handshake"}
      [] protocol = "TCP" -> {"plain", "handshake"}
      [] OTHER -> {protocol}

Takes(l, port, traffic, host) ==
    /\ l.port = port /\ traffic \in Traffic(l.protocol)
    /\ has(l, "hostname") => HostMatches(l.hostname, host)

\* Protocols that the same traffic may be for.
Overlapping == {{"HTTPS", "TLS"}, {"TCP", "HTTP"}, {"TCP", "HTTPS"}, {"TCP", "TLS"}}

\* How specific a match is: an exact host, then the longest wildcard, then none.
Specificity(l) ==
    IF ~has(l, "hostname") THEN 0
    ELSE IF l.hostname[1] = "*" THEN Len(l.hostname) ELSE 100

\* "A traffic flow MUST be able to be assigned to exactly one listener": for
\* whatever arrives at an admitted Gateway there is at most one most specific
\* listener, by the uniqueness rule on port, protocol and hostname.  The rule
\* takes listeners of different protocols for distinct, so it lets pass two on
\* one port with the same hostname or none if one is for HTTPS and the other for
\* TLS, or one for TCP: only these are left to compete.
OneListenerPerFlow ==
    resource = "gateways" /\ stored # <<>> =>
        LET ls == stored[1].spec.listeners
            hosts == {ls[i].hostname : i \in {j \in DOMAIN ls : has(ls[j], "hostname")}}
            asked == {h \in hosts : h[1] # "*"} \cup {<<"x">> \o SubSeq(h, 2, Len(h)) : h \in hosts}
        IN \A i, j \in DOMAIN ls, host \in asked \cup {<<"other">>} :
            /\ i # j /\ Specificity(ls[i]) = Specificity(ls[j])
            /\ \E traffic \in Traffic(ls[i].protocol) :
                  /\ Takes(ls[i], ls[i].port, traffic, host)
                  /\ Takes(ls[j], ls[i].port, traffic, host)
            => {ls[i].protocol, ls[j].protocol} \in Overlapping

\* A rule of an admitted HTTPRoute that replaces the matched prefix has exactly
\* one match, and it is a prefix.  The rule that asks for it counts the filters
\* with exists_one, so it is the ban on repeated filters that makes it hold.
PrefixIsDefined ==
    resource = "httproutes" /\ stored # <<>> =>
        \A i \in DOMAIN stored[1].spec.rules :
            LET rule == stored[1].spec.rules[i] IN
            /\ has(rule, "filters")
            /\ \E j \in DOMAIN rule.filters :
                \E member \in {"requestRedirect", "urlRewrite"} :
                    ReplacesPrefix(rule.filters[j], member)
            => OnePathPrefixMatch(rule)
=============================================================================
