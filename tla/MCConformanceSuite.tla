-------------------------- MODULE MCConformanceSuite --------------------------
(* An instance of ConformanceSuite for TLC.                                  *)
EXTENDS ConformanceSuite

MCTests == <<"HTTPRouteSimple", "HTTPRouteQuery", "MeshGRPC">>

MCFeaturesOf ==
    [HTTPRouteSimple |-> {"Gateway", "HTTPRoute"},
     HTTPRouteQuery |-> {"Gateway", "HTTPRoute", "HTTPRouteQueryParamMatching"},
     MeshGRPC |-> {"Mesh", "GRPCRoute"}]

OneParallelTest == {"MeshGRPC"}

TwoMaps == [m1 |-> {}, m2 |-> {"HTTPRouteQueryParamMatching", "GRPCRoute"}]

Option(all, set, exempt, profiles, skip, runTest) ==
    [all |-> all, set |-> set, exempt |-> exempt, profiles |-> profiles,
     skip |-> skip, runTest |-> runTest]

\* The options by the map that they work on; m2 has two lists of exemptions, and
\* so has features.AllFeatures.
OnM1(profiles, skip, runTest) == Option(FALSE, "m1", {}, profiles, skip, runTest)
OnM2(profiles, skip, runTest) ==
    Option(FALSE, "m2", {"HTTPRouteQueryParamMatching", "Gateway"}, profiles, skip, runTest)
OnAll(profiles, skip, runTest) == Option(TRUE, "m1", {}, profiles, skip, runTest)

AllProfiles == {"GatewayHTTP", "MeshHTTP", "MeshGRPC"}
ExemptsFromAll(profiles) ==
    Option(TRUE, "m1", {"GatewayPort8080", "HTTPRoute"}, profiles, {}, "")
ExemptsLess == Option(FALSE, "m2", {"Gateway"}, {"GatewayHTTP"}, {}, "")
ProfileChoices ==
    {{}, {"GatewayHTTP"}, {"GatewayTLS", "GatewayGRPC"}, AllProfiles,
     {"MeshHTTP", Unregistered}}

Skips == OnM1(AllProfiles, {"HTTPRouteSimple"}, "")
SkipsExtended == OnAll({"GatewayHTTP"}, {"HTTPRouteQuery", "MeshGRPC"}, "")
OneTest == OnM1({"GatewayHTTP"}, {}, "HTTPRouteQuery")

SharedOptions ==
    UNION {{OnM1(p, {}, ""), OnM2(p, {}, ""), OnAll(p, {}, "")} : p \in ProfileChoices}
    \cup {Skips, SkipsExtended, OneTest, ExemptsLess}
    \cup {ExemptsFromAll(p) : p \in {{}, {"GatewayHTTP"}, {"MeshHTTP", Unregistered}}}

\* A suite whose features a later one exempts; core only, and with a second suite
\* that adds the core of other profiles to the same map; all features, asked for
\* twice; with an exemption; a skip list; one test, after a construction that
\* failed.
MCUses ==
    {<<<<ExemptsLess, OnM2({"GatewayHTTP"}, {}, "")>>, 1>>,
     <<<<OnM1({"GatewayHTTP"}, {}, "")>>, 1>>,
     <<<<OnM1({"GatewayHTTP"}, {}, ""), Skips>>, 1>>,
     <<<<OnAll({"GatewayHTTP"}, {}, ""), OnAll(AllProfiles, {}, "")>>, 2>>,
     <<<<SkipsExtended>>, 1>>,
     <<<<OnM2(AllProfiles, {}, "")>>, 1>>,
     <<<<OnM1({"MeshHTTP", Unregistered}, {}, ""), OneTest>>, 1>>}
=============================================================================
