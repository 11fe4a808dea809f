----------------------------- MODULE RouteTypes -----------------------------
(***************************************************************************)
(* HTTPRoute and GRPCRoute (httproute_types.go and grpcroute_types.go of   *)
(* apis/v1), TCPRoute, TLSRoute and UDPRoute (apis/v1alpha2): the schema   *)
(* of every struct, its defaults and its CEL rules.                        *)
(* A path is the sequence of its elements: "/a/b" is <<"", "a", "b">>,     *)
(* "/" is <<"", "">>, "a" is <<"a">>.                                      *)
(***************************************************************************)
EXTENDS SharedTypes

Root == <<"", "">>

HeaderMatchType == Enum({"Exact", "RegularExpression"})

QueryParamMatchType == Enum({"Exact", "RegularExpression"})

HTTPHeaderName == HeaderName

HTTPMethod ==
    Enum({"GET", "HEAD", "POST", "PUT", "DELETE", "CONNECT", "OPTIONS", "TRACE", "PATCH"})

PathMatchType == Enum({"Exact", "PathPrefix", "RegularExpression"})

-----------------------------------------------------------------------------
(* Matches *)

\* The rules on the value of an Exact or a PathPrefix match: it is absolute
\* and normalised.  "//" is an empty element that is neither first nor last,
\* "/." and "/.." may neither end the path nor occur inside it, and a "#" or
\* an escaped slash in an element is refused.
NormalisedPath(self) ==
    self.type \in {"Exact", "PathPrefix"} =>
        LET v == self.value IN
        /\ Len(v) > 1 /\ v[1] = ""
        /\ \A i \in 2 .. Len(v) - 1 : v[i] # ""
        /\ \A i \in 2 .. Len(v) : v[i] \notin {".", "..", "a%2fb", "a%2Fb", "a#b", "a b"}

HTTPPathMatch ==
    Struct("HTTPPathMatch",
           [type |-> Default(Optional(PathMatchType), "PathPrefix"),
            value |-> Default(Optional(Text), Root)],
           {"NormalisedPath"})

HTTPHeaderMatch ==
    Struct("HTTPHeaderMatch",
           [type |-> Default(Optional(HeaderMatchType), "Exact"),
            name |-> Required(HTTPHeaderName), value |-> Required(Text)], {})

HTTPQueryParamMatch ==
    Struct("HTTPQueryParamMatch",
           [type |-> Default(Optional(QueryParamMatchType), "Exact"),
            name |-> Required(HTTPHeaderName), value |-> Required(Text)], {})

HTTPRouteMatch ==
    Struct("HTTPRouteMatch",
           [path |-> Default(Optional(HTTPPathMatch), [type |-> "PathPrefix", value |-> Root]),
            headers |-> ByValue(MapList(HTTPHeaderMatch, 0, 16, {"name"}, {})),
            queryParams |-> ByValue(MapList(HTTPQueryParamMatch, 0, 16, {"name"}, {})),
            method |-> Optional(HTTPMethod)], {})

-----------------------------------------------------------------------------
(* Filters *)

HTTPHeader ==
    Struct("HTTPHeader", [name |-> Required(HTTPHeaderName), value |-> Required(Text)], {})

HTTPHeaderFilter ==
    Struct("HTTPHeaderFilter",
           [set |-> ByValue(MapList(HTTPHeader, 0, 16, {"name"}, {})),
            add |-> ByValue(MapList(HTTPHeader, 0, 16, {"name"}, {})),
            remove |-> ByValue(SetList(Text, 16))], {})

HTTPPathModifierType == Enum({"ReplaceFullPath", "ReplacePrefixMatch"})

\* Each of the two replacements is set exactly when the type names it.
ModifierMatchesType(self) ==
    /\ has(self, "replaceFullPath") <=> self.type = "ReplaceFullPath"
    /\ has(self, "replacePrefixMatch") <=> self.type = "ReplacePrefixMatch"

HTTPPathModifier ==
    Struct("HTTPPathModifier",
           [type |-> Required(HTTPPathModifierType),
            replaceFullPath |-> Optional(Text),
            replacePrefixMatch |-> Optional(Text)],
           {"ModifierMatchesType"})

HTTPRequestRedirectFilter ==
    Struct("HTTPRequestRedirectFilter",
           [scheme |-> Optional(Enum({"http", "https"})),
            hostname |-> Optional(PreciseHostname),
            path |-> Optional(HTTPPathModifier),
            port |-> Optional(PortNumber),
            statusCode |-> Default(Optional(Enum({301, 302})), 302)], {})

HTTPURLRewriteFilter ==
    Struct("HTTPURLRewriteFilter",
           [hostname |-> Optional(PreciseHostname), path |-> Optional(HTTPPathModifier)], {})

HTTPRequestMirrorFilter ==
    Struct("HTTPRequestMirrorFilter", [backendRef |-> Required(BackendObjectReference)], {})

\* The member of the union each filter type selects.
MemberOf ==
    [RequestHeaderModifier |-> "requestHeaderModifier",
     ResponseHeaderModifier |-> "responseHeaderModifier",
     RequestMirror |-> "requestMirror",
     RequestRedirect |-> "requestRedirect",
     URLRewrite |-> "urlRewrite",
     ExtensionRef |-> "extensionRef"]

\* "filter.x must be nil if the filter.type is not X" and "filter.x must be
\* specified for X filter.type", for every member.
FilterIsUnion(self) ==
    \A x \in DOMAIN MemberOf : has(self, MemberOf[x]) <=> self.type = x

HTTPRouteFilterType == Enum(DOMAIN MemberOf)

HTTPRouteFilter ==
    Struct("HTTPRouteFilter",
           [type |-> Required(HTTPRouteFilterType),
            requestHeaderModifier |-> Optional(HTTPHeaderFilter),
            responseHeaderModifier |-> Optional(HTTPHeaderFilter),
            requestMirror |-> Optional(HTTPRequestMirrorFilter),
            requestRedirect |-> Optional(HTTPRequestRedirectFilter),
            urlRewrite |-> Optional(HTTPURLRewriteFilter),
            extensionRef |-> Optional(LocalObjectReference)],
           {"FilterIsUnion"})

OfType(self, type) == {i \in DOMAIN self : self[i].type = type}

NotRepeated(self, types) == \A x \in types : Cardinality(OfType(self, x)) <= 1

\* Mutant: a rewrite may be repeated.
RepeatableRewrites(self) ==
    /\ ~(OfType(self, "RequestRedirect") # {} /\ OfType(self, "URLRewrite") # {})
    /\ NotRepeated(self, {"RequestHeaderModifier", "ResponseHeaderModifier", "RequestRedirect"})

\* The rules on the filters of a rule and of a backend.
HTTPFilterList(self) ==
    /\ ~(OfType(self, "RequestRedirect") # {} /\ OfType(self, "URLRewrite") # {})
    /\ NotRepeated(self, {"RequestHeaderModifier", "ResponseHeaderModifier",
                          "RequestRedirect", "URLRewrite"})

HTTPRouteFilters == AtomicList(HTTPRouteFilter, 0, 16, {"HTTPFilterList"})

-----------------------------------------------------------------------------
(* Rules *)

HTTPBackendRef ==
    Struct("HTTPBackendRef", BackendRefFields @@ [filters |-> ByValue(HTTPRouteFilters)],
           {"ServiceHasPort"})

\* A request timeout of 0s means no timeout and bounds nothing.
BackendTimeoutFits(self) ==
    has(self, "request") /\ has(self, "backendRequest") /\ self.request # 0
        => self.backendRequest <= self.request

HTTPRouteTimeouts ==
    Struct("HTTPRouteTimeouts",
           [request |-> Optional(Duration), backendRequest |-> Optional(Duration)],
           {"BackendTimeoutFits"})

\* "RequestRedirect filter must not be used together with backendRefs"
RedirectWithoutBackends(self) ==
    has(self, "backendRefs") /\ self.backendRefs # <<>> /\ has(self, "filters")
        => \A i \in DOMAIN self.filters : ~has(self.filters[i], "requestRedirect")

\* A filter that replaces the matched prefix, by redirect or by rewrite.
ReplacesPrefix(f, member) ==
    /\ has(f, member) /\ has(f[member], "path")
    /\ f[member].path.type = "ReplacePrefixMatch"
    /\ has(f[member].path, "replacePrefixMatch")

\* Exactly one of the filters replaces the prefix (exists_one).
OneReplacesPrefix(self, member) ==
    /\ has(self, "filters")
    /\ LET replaces(f) == ReplacesPrefix(f, member) IN exists_one(self.filters, replaces)

OnePathPrefixMatch(self) ==
    /\ Len(self.matches) = 1
    /\ has(self.matches[1], "path")
    /\ self.matches[1].path.type = "PathPrefix"

\* "When using RequestRedirect (URLRewrite) filter with
\* path.replacePrefixMatch, exactly one PathPrefix match must be specified"
PrefixToReplace(self) ==
    \A member \in {"requestRedirect", "urlRewrite"} :
        OneReplacesPrefix(self, member) => OnePathPrefixMatch(self)

\* "Within backendRefs, ...": asked of exactly one backend (exists_one).
PrefixToReplaceInBackends(self) ==
    \A member \in {"requestRedirect", "urlRewrite"} :
        LET replaces(b) == OneReplacesPrefix(b, member) IN
        has(self, "backendRefs") /\ exists_one(self.backendRefs, replaces)
            => OnePathPrefixMatch(self)

\* Mutant: the experimental timeouts come with a default.
HTTPRouteRuleWithTimeouts ==
    Struct("HTTPRouteRule",
           [matches |-> Default(ByValue(AtomicList(HTTPRouteMatch, 0, 8, {})),
                                << [path |-> [type |-> "PathPrefix", value |-> Root]] >>),
            filters |-> ByValue(HTTPRouteFilters),
            backendRefs |-> ByValue(AtomicList(HTTPBackendRef, 0, 16, {})),
            timeouts |-> Experimental(Default(Optional(HTTPRouteTimeouts), [request |-> 10])),
            sessionPersistence |-> Experimental(Optional(SessionPersistence))],
           {"RedirectWithoutBackends", "PrefixToReplace", "PrefixToReplaceInBackends"})

HTTPRouteRule ==
    Struct("HTTPRouteRule",
           [matches |-> Default(ByValue(AtomicList(HTTPRouteMatch, 0, 8, {})),
                                << [path |-> [type |-> "PathPrefix", value |-> Root]] >>),
            filters |-> ByValue(HTTPRouteFilters),
            backendRefs |-> ByValue(AtomicList(HTTPBackendRef, 0, 16, {})),
            timeouts |-> Experimental(Optional(HTTPRouteTimeouts)),
            sessionPersistence |-> Experimental(Optional(SessionPersistence))],
           {"RedirectWithoutBackends", "PrefixToReplace", "PrefixToReplaceInBackends"})

HTTPRouteSpec ==
    Struct("HTTPRouteSpec",
           CommonRouteSpecFields
               @@ [hostnames |-> ByValue(AtomicList(Hostname, 0, 16, {})),
                   rules |-> Default(ByValue(AtomicList(HTTPRouteRule, 0, 16, {})),
                       << [matches |-> << [path |-> [type |-> "PathPrefix",
                                                     value |-> Root]] >>] >>)],
           {})

HTTPRouteStatus == Struct("HTTPRouteStatus", RouteStatusFields, {})

HTTPRoute ==
    Struct("HTTPRoute",
           [spec |-> Required(HTTPRouteSpec), status |-> ByValue(HTTPRouteStatus)], {})

-----------------------------------------------------------------------------
(* GRPCRoute.  Unlike an HTTPRoute, neither rules nor matches have a         *)
(* default, and there is no redirect and no rewrite.                         *)

GRPCMethodMatchType == Enum({"Exact", "RegularExpression"})

\* A service or method name that is not a legal identifier.
IllegalName == "0illegal"

GRPCMethodMatchRules(self) ==
    /\ has(self, "type") => has(self, "service") \/ has(self, "method")
    /\ ~has(self, "type") \/ self.type = "Exact" =>
        \A f \in {"service", "method"} : has(self, f) => self[f] # IllegalName

GRPCMethodMatch ==
    Struct("GRPCMethodMatch",
           [type |-> Default(Optional(GRPCMethodMatchType), "Exact"),
            service |-> Optional(Text), method |-> Optional(Text)],
           {"GRPCMethodMatchRules"})

GRPCHeaderMatchType == Enum({"Exact", "RegularExpression"})

GRPCHeaderName == HeaderName

GRPCHeaderMatch ==
    Struct("GRPCHeaderMatch",
           [type |-> Default(Optional(GRPCHeaderMatchType), "Exact"),
            name |-> Required(GRPCHeaderName), value |-> Required(Text)], {})

GRPCRouteMatch ==
    Struct("GRPCRouteMatch",
           [method |-> Optional(GRPCMethodMatch),
            headers |-> ByValue(MapList(GRPCHeaderMatch, 0, 16, {"name"}, {}))], {})

GRPCFilterTypes ==
    {"ResponseHeaderModifier", "RequestHeaderModifier", "RequestMirror", "ExtensionRef"}

GRPCFilterIsUnion(self) ==
    \A x \in GRPCFilterTypes : has(self, MemberOf[x]) <=> self.type = x

GRPCRouteFilterType == Enum(GRPCFilterTypes)

GRPCRouteFilter ==
    Struct("GRPCRouteFilter",
           [type |-> Required(GRPCRouteFilterType),
            requestHeaderModifier |-> Optional(HTTPHeaderFilter),
            responseHeaderModifier |-> Optional(HTTPHeaderFilter),
            requestMirror |-> Optional(HTTPRequestMirrorFilter),
            extensionRef |-> Optional(LocalObjectReference)],
           {"GRPCFilterIsUnion"})

GRPCFilterList(self) == NotRepeated(self, {"RequestHeaderModifier", "ResponseHeaderModifier"})

GRPCRouteFilters == AtomicList(GRPCRouteFilter, 0, 16, {"GRPCFilterList"})

GRPCBackendRef ==
    Struct("GRPCBackendRef", BackendRefFields @@ [filters |-> ByValue(GRPCRouteFilters)],
           {"ServiceHasPort"})

GRPCRouteRule ==
    Struct("GRPCRouteRule",
           [matches |-> ByValue(AtomicList(GRPCRouteMatch, 0, 8, {})),
            filters |-> ByValue(GRPCRouteFilters),
            backendRefs |-> ByValue(AtomicList(GRPCBackendRef, 0, 16, {})),
            sessionPersistence |-> Experimental(Optional(SessionPersistence))], {})

GRPCRouteSpec ==
    Struct("GRPCRouteSpec",
           CommonRouteSpecFields
               @@ [hostnames |-> ByValue(AtomicList(Hostname, 0, 16, {})),
                   rules |-> ByValue(AtomicList(GRPCRouteRule, 0, 16, {}))], {})

GRPCRouteStatus == Struct("GRPCRouteStatus", RouteStatusFields, {})

GRPCRoute ==
    Struct("GRPCRoute",
           [spec |-> ByValue(GRPCRouteSpec), status |-> ByValue(GRPCRouteStatus)], {})

-----------------------------------------------------------------------------
(* Routes below HTTP: a rule is a list of backends *)

TCPRouteRule ==
    Struct("TCPRouteRule", [backendRefs |-> ByValue(AtomicList(BackendRef, 1, 16, {}))], {})

TCPRouteSpec ==
    Struct("TCPRouteSpec",
           CommonRouteSpecFields @@ [rules |-> Required(AtomicList(TCPRouteRule, 1, 16, {}))],
           {})

TCPRouteStatus == Struct("TCPRouteStatus", RouteStatusFields, {})

TCPRoute ==
    Struct("TCPRoute", [spec |-> Required(TCPRouteSpec), status |-> ByValue(TCPRouteStatus)],
           {})

UDPRouteRule ==
    Struct("UDPRouteRule", [backendRefs |-> ByValue(AtomicList(BackendRef, 1, 16, {}))], {})

UDPRouteSpec ==
    Struct("UDPRouteSpec",
           CommonRouteSpecFields @@ [rules |-> Required(AtomicList(UDPRouteRule, 1, 16, {}))],
           {})

UDPRouteStatus == Struct("UDPRouteStatus", RouteStatusFields, {})

UDPRoute ==
    Struct("UDPRoute", [spec |-> Required(UDPRouteSpec), status |-> ByValue(UDPRouteStatus)],
           {})

TLSRouteRule ==
    Struct("TLSRouteRule", [backendRefs |-> ByValue(AtomicList(BackendRef, 1, 16, {}))], {})

TLSRouteSpec ==
    Struct("TLSRouteSpec",
           CommonRouteSpecFields
               @@ [hostnames |-> ByValue(AtomicList(Hostname, 0, 16, {})),
                   rules |-> Required(AtomicList(TLSRouteRule, 1, 16, {}))], {})

TLSRouteStatus == Struct("TLSRouteStatus", RouteStatusFields, {})

TLSRoute ==
    Struct("TLSRoute", [spec |-> Required(TLSRouteSpec), status |-> ByValue(TLSRouteStatus)],
           {})
=============================================================================
