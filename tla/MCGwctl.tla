------------------------------- MODULE MCGwctl -------------------------------
(* Instances of Gwctl for TLC: two teams that share a Gateway and a backend, *)
(* and a Gateway whose class may be missing.                                 *)
EXTENDS Gwctl, TLC

MCNamespaces == {"default", "infra", "team"}
MCGatewayClasses == {"gc", "gc2"}
MCGateways ==
    "gw1" :> [ns |-> "infra", class |-> "gc"]
    @@ "gw2" :> [ns |-> "team", class |-> "gc2"]
MCHTTPRoutes ==
    "r1" :> [ns |-> "team", parents |-> {"gw1"}, backends |-> {"b1", "b2"}]
    @@ "r2" :> [ns |-> "infra", parents |-> {"gw1", "gw2", "svc"}, backends |-> {"b1"}]
    @@ "r3" :> [ns |-> "team", parents |-> {"gw1"}, backends |-> {"b1"}]
MCBackends == "b1" :> [ns |-> "infra"] @@ "b2" :> [ns |-> "infra"] @@ "b3" :> [ns |-> "team"]
MCReferenceGrants ==
    "grant" :> [ns |-> "infra", to |-> {"b1"}, from |-> {"team"}]
    @@ "other" :> [ns |-> "infra", to |-> {"b2"}, from |-> {"team"}]

\* A policy sets settings to its own name.
Policy(kind, name, created, target, default, override) ==
    [kind |-> kind, name |-> name, created |-> created, target |-> target,
     default |-> [s \in default |-> name], override |-> [s \in override |-> name]]

\* Any choice of a default or an override for each of some slots, or nothing.
Contents == {<<{"a"}, {}>>, <<{}, {"a"}>>, <<{"b"}, {"a"}>>}
Deployable(kind, slots, contents) ==
    {{Policy(kind, n, slots[n].created, slots[n].target, f[n][1], f[n][2]) :
        n \in {m \in DOMAIN slots : f[m] # <<>>}} :
     f \in [DOMAIN slots -> contents \cup {<<>>}]}

Slot(target, created) == [target |-> target, created |-> created]

Hierarchy ==
    <<Slot("gc", 4), Slot("gw1", 3), Slot("r1", 5), Slot("r2", 5), Slot("b1", 1)>>
Spaces == <<Slot("infra", 3), Slot("team", 2), Slot("team", 1), Slot("r3", 4)>>
Three == <<Slot("gw1", 1), Slot("gw1", 3), Slot("gw1", 2)>>

\* Kinds that share a name.
Collision ==
    {{Policy("Timeout", 1, 1, "gw1", {"a"}, {}), Policy("Retry", 1, 1, "gw1", {"a"}, {}),
      Policy("Retry", 2, 2, "gc", {"b"}, {"a"})}}

ManyDeployments ==
    Deployable("Retry", Hierarchy, Contents) \cup Deployable("Retry", Spaces, Contents)
    \cup Deployable("Timeout", Three, {<<{"a"}, {}>>, <<{"b"}, {}>>}) \cup Collision

\* A policy for everything.
OneDeployment ==
    {{Policy("Retry", 1, 1, "gw1", {"a"}, {}), Policy("Retry", 2, 2, "infra", {}, {"a"}),
      Policy("Retry", 3, 3, "gc", {"b"}, {}), Policy("Retry", 4, 4, "b1", {"a"}, {"b"}),
      Policy("Retry", 5, 5, "default", {"a"}, {}), Policy("Retry", 6, 6, "r2", {"b"}, {})}}

EveryQuestion ==
    {<<"GatewayClass", {"gc"}>>, <<"Namespace", {"infra", "team"}>>,
     <<"Gateway", {"gw1"}>>, <<"Gateway", {"gw1", "gw2"}>>,
     <<"HTTPRoute", {"r1"}>>, <<"HTTPRoute", {"r1", "r2"}>>,
     <<"Backend", {"b1"}>>, <<"Backend", {"b1", "b2", "b3"}>>}

MCChanging == {"r1", "gw1", "gc", "grant", "team"}

\* Every question while the cluster changes and calls fail, and the backends
\* with all kinds of policies while nothing happens.
Disturbed ==
    [deployments |-> OneDeployment, asked |-> EveryQuestion,
     initially |-> {Objects, Objects \ {"gw2", "gc2", "b3"}, Objects \ {"grant", "gc"}},
     changes |-> 2, failures |-> 1]
Quiet(deployments) ==
    [deployments |-> deployments, asked |-> {<<"Backend", {"b1", "b2"}>>},
     initially |-> {Objects \ {"gc2"}}, changes |-> 0, failures |-> 0]

MCSettings == <<Disturbed, Quiet(ManyDeployments)>>

\* Policies of one Gateway only, three direct ones or two inherited ones.
Two == <<Slot("gw1", 1), Slot("gw1", 2)>>
OneLevel ==
    Deployable("Timeout", Three, {<<{"a"}, {}>>, <<{"a", "b"}, {}>>, <<{"b"}, {}>>})
    \cup Deployable("Retry", Two, Contents)
OneLevelSettings == <<Quiet(OneLevel)>>
=============================================================================
