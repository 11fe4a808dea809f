----------------------------- MODULE MCAdmission -----------------------------
(* Small instances of Admission: for every kind, specs that meet its rules   *)
(* and specs that miss one of them.                                          *)
EXTENDS Admission

-----------------------------------------------------------------------------
(* Routes *)

Service == [name |-> "svc", port |-> 80]

Parents ==
    LET gw == [name |-> "gw"]
        refs == {gw, gw @@ [sectionName |-> "a"], gw @@ [sectionName |-> "b"],
                 gw @@ [sectionName |-> "b", port |-> 80], gw @@ [namespace |-> "ns"]}
    IN {<<p>> : p \in refs} \cup {<<p, q>> : p, q \in refs}

Prefix == [path |-> [type |-> "PathPrefix", value |-> <<"", "a">>]]

Matches ==
    { <<Prefix>>, <<[path |-> [type |-> "Exact", value |-> <<"", "a">>]]>>,
      <<Prefix, [method |-> "GET"]>>, <<>>,
      <<[path |-> [value |-> <<"", "a", "", "b">>]]>>, <<[path |-> [value |-> <<"a">>]]>>,
      <<[headers |-> <<[name |-> "h", value |-> "1"], [name |-> "h", value |-> "2"]>>]>> }

ReplacePrefix == [type |-> "ReplacePrefixMatch", replacePrefixMatch |-> "b"]
Redirect == [type |-> "RequestRedirect", requestRedirect |-> [path |-> ReplacePrefix]]
Rewrite == [type |-> "URLRewrite", urlRewrite |-> [path |-> ReplacePrefix]]
SetHeader ==
    [type |-> "RequestHeaderModifier",
     requestHeaderModifier |-> [set |-> <<[name |-> "h", value |-> "1"]>>]]

Filters ==
    { <<Redirect>>, <<Rewrite>>, <<Rewrite, Rewrite>>, <<Redirect, Rewrite>>, <<SetHeader>>,
      <<SetHeader, SetHeader>>, <<[type |-> "URLRewrite"]>>,
      <<[type |-> "URLRewrite", urlRewrite |-> [path |-> [type |-> "ReplaceFullPath"]]]>> }

Backends ==
    { <<Service>>, <<[name |-> "svc"]>>, <<Service @@ [filters |-> <<Rewrite>>]>>,
      <<Service @@ [filters |-> <<Rewrite>>], Service @@ [filters |-> <<Rewrite>>]>> }

Maybe(field, values) == {<<>>} \cup {field :> v : v \in values}

Merge(x, y) == x @@ y

HTTPRules ==
    {Merge(m, f) : m \in Maybe("matches", Matches), f \in Maybe("filters", Filters)}
        \cup {Merge(m, b) : m \in Maybe("matches", {<<Prefix>>, <<Prefix, Prefix>>}),
                            b \in Maybe("backendRefs", Backends)}
        \cup {[filters |-> <<Redirect>>, backendRefs |-> <<Service>>],
              [timeouts |-> [request |-> 1, backendRequest |-> 2]],
              [timeouts |-> [request |-> 0, backendRequest |-> 2]],
              [sessionPersistence |-> [type |-> "Cookie"]],
              [sessionPersistence |-> [cookieConfig |-> [lifetimeType |-> "Session"]]]}

HTTPSpecs ==
    {[rules |-> <<r>>] : r \in HTTPRules} \cup {[parentRefs |-> p] : p \in Parents}
        \cup {[hostnames |-> <<h>>] : h \in {<<"a">>, <<"*", "a">>, <<"*">>}}

GRPCSpecs ==
    {[rules |-> <<[matches |-> <<m>>]>>] :
        m \in {[method |-> [service |-> "s"]], [method |-> [type |-> "Exact"]],
               [method |-> [method |-> IllegalName]]}}
    \cup {[rules |-> <<[filters |-> f]>>] :
        f \in {<<SetHeader>>, <<SetHeader, SetHeader>>, <<Rewrite>>}}
    \cup {[rules |-> <<[sessionPersistence |-> [absoluteTimeout |-> 1]]>>],
          [parentRefs |-> <<[name |-> "gw", port |-> 80]>>]}

L4Specs ==
    {[rules |-> <<[backendRefs |-> b]>>] :
        b \in {<<Service>>, <<[name |-> "svc"]>>, <<>>, <<Service @@ [weight |-> 0]>>}}

-----------------------------------------------------------------------------
(* Gateways and the other kinds *)

Listeners ==
    { [port |-> 80, protocol |-> "HTTP"],
      [port |-> 80, protocol |-> "HTTP", hostname |-> <<"a", "com">>],
      [port |-> 80, protocol |-> "HTTP", hostname |-> <<"*", "com">>],
      [port |-> 80, protocol |-> "TCP"],
      [port |-> 80, protocol |-> "TCP", hostname |-> <<"a", "com">>],
      [port |-> 443, protocol |-> "HTTPS", hostname |-> <<"a", "com">>,
       tls |-> [certificateRefs |-> <<[name |-> "c"]>>]],
      [port |-> 80, protocol |-> "HTTPS", tls |-> [certificateRefs |-> <<[name |-> "c"]>>]],
      [port |-> 443, protocol |-> "TLS", hostname |-> <<"a", "com">>,
       tls |-> [mode |-> "Passthrough"]],
      [port |-> 443, protocol |-> "HTTPS", tls |-> [mode |-> "Passthrough"]],
      [port |-> 443, protocol |-> "TLS", tls |-> [mode |-> "Terminate"]],
      [port |-> 443, protocol |-> "TLS",
       tls |-> [options |-> ("k" :> "v"),
                frontendValidation |->
                    [caCertificateRefs |-> <<[group |-> "", kind |-> "ConfigMap", name |-> "c"]>>]]] }

Named(l, n) == [name |-> n] @@ l

GatewaySpecs ==
    {[gatewayClassName |-> "gc", listeners |-> ls] :
        ls \in {<<Named(l, "l1")>> : l \in Listeners}
               \cup {<<Named(l, "l1"), Named(k, "l2")>> : l, k \in Listeners}
               \cup {<<Named(l, "l1"), Named(l, "l1")>> : l \in Listeners}}
    \cup {[gatewayClassName |-> "gc",
           listeners |-> <<[name |-> "l1", port |-> 80, protocol |-> "HTTP"]>>] @@ x :
        x \in {[infrastructure |-> [labels |-> ("k" :> "v")]],
               [addresses |-> <<[value |-> "ip1"]>>],
               [addresses |-> <<[value |-> "ip1"], [value |-> "ip1"]>>],
               [addresses |-> <<[type |-> "Hostname", value |-> "host1"]>>],
               [addresses |-> <<[value |-> "host1"]>>]}}

ClassSpecs ==
    {[controllerName |-> c] @@ x :
        c \in {"c1", "c2"}, x \in {<<>>, [description |-> "d"]}}

LBSpecs ==
    LET target == [group |-> "", kind |-> "Service", name |-> "s"] IN
    {[targetRefs |-> <<target>>], [targetRefs |-> <<target, target>>],
     [targetRefs |-> <<target>>, sessionPersistence |-> [idleTimeout |-> 1]],
     [targetRefs |-> <<target>>,
      sessionPersistence |-> [cookieConfig |-> [lifetimeType |-> "Permanent"]]],
     [targetRefs |-> <<target>>,
      sessionPersistence |-> [absoluteTimeout |-> 1,
                              cookieConfig |-> [lifetimeType |-> "Permanent"]]]}

TLSPolicySpecs ==
    LET target == [group |-> "", kind |-> "Service", name |-> "s", sectionName |-> "p"]
        ca == [group |-> "", kind |-> "ConfigMap", name |-> "c"]
    IN {[targetRefs |-> <<target>>, validation |-> v @@ [hostname |-> h]] :
            v \in {[caCertificateRefs |-> <<ca>>], [wellKnownCACertificates |-> "System"],
                   [caCertificateRefs |-> <<ca>>, wellKnownCACertificates |-> "System"],
                   [caCertificateRefs |-> <<>>]},
            h \in {<<"a">>, <<"*", "a">>}}

GrantSpecs ==
    {[from |-> <<[group |-> GatewayGroup, kind |-> "HTTPRoute", namespace |-> "ns"]>>,
      to |-> to] :
        to \in {<<[group |-> "", kind |-> "Service"]>>,
                <<[group |-> "", kind |-> "Service", name |-> "s"]>>, <<>>}}

-----------------------------------------------------------------------------

MCSpecs ==
    [gatewayclasses |-> ClassSpecs, gateways |-> GatewaySpecs, httproutes |-> HTTPSpecs,
     grpcroutes |-> GRPCSpecs, tcproutes |-> L4Specs, tlsroutes |-> L4Specs,
     udproutes |-> L4Specs, backendlbpolicies |-> LBSpecs,
     backendtlspolicies |-> TLSPolicySpecs, referencegrants |-> GrantSpecs]

Accepted == [type |-> "Accepted", status |-> "True", reason |-> "Accepted"]

RouteStatuses ==
    {[parents |-> <<[parentRef |-> [name |-> "gw"], controllerName |-> "c1",
                     conditions |-> <<Accepted>>]>>]}

PolicyStatuses ==
    {[ancestors |-> <<[ancestorRef |-> [name |-> "gw"], controllerName |-> "c1",
                       conditions |-> <<Accepted>>]>>]}

MCStatuses ==
    [gatewayclasses |-> {[conditions |-> <<Accepted>>, supportedFeatures |-> <<"f">>]},
     gateways |-> {[conditions |-> <<Accepted>>]}, httproutes |-> RouteStatuses,
     grpcroutes |-> RouteStatuses, tcproutes |-> RouteStatuses, tlsroutes |-> RouteStatuses,
     udproutes |-> RouteStatuses, backendlbpolicies |-> PolicyStatuses,
     backendtlspolicies |-> PolicyStatuses, referencegrants |-> {}]
=============================================================================
