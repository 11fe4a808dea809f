------------------------- MODULE ConformanceProfiles -------------------------
(* Conformance profiles, the feature selection of a new suite and the       *)
(* compilation of a report: the pure part of conformance/utils/suite        *)
(* (profiles.go, reports.go and the feature loops of suite.go).             *)
(*                                                                          *)
(* Features are the names of pkg/features/features.go; each family of       *)
(* extended or experimental features is represented by one member.          *)
EXTENDS Naturals, FiniteSets

GatewayExtendedFeatures == {"GatewayPort8080"}
HTTPRouteExtendedFeatures == {"HTTPRouteQueryParamMatching"}
HTTPRouteExperimentalFeatures == {"HTTPRouteDestinationPortMatching"}
MeshExtendedFeatures == {"MeshClusterIPMatching"}

\* features.AllFeatures as the package initialises it.
AllFeatures ==
    {"Gateway", "ReferenceGrant", "HTTPRoute", "TLSRoute", "GRPCRoute", "Mesh"}
        \cup GatewayExtendedFeatures \cup HTTPRouteExtendedFeatures
        \cup HTTPRouteExperimentalFeatures \cup MeshExtendedFeatures

Features == AllFeatures \cup {"UDPRoute"}

\* The built-in profiles by the name they are selected with.  The profile that
\* is selected as MESH-GRPC carries the Name of MESH-HTTP.
conformanceProfileMap == [
    GatewayHTTP |-> [Name |-> "GatewayHTTP",
                     core |-> {"Gateway", "ReferenceGrant", "HTTPRoute"},
                     extended |-> GatewayExtendedFeatures
                                      \cup HTTPRouteExtendedFeatures],
    GatewayTLS |-> [Name |-> "GatewayTLS",
                    core |-> {"Gateway", "ReferenceGrant", "TLSRoute"},
                    extended |-> GatewayExtendedFeatures],
    GatewayGRPC |-> [Name |-> "GatewayGRPC",
                     core |-> {"Gateway", "ReferenceGrant", "GRPCRoute"},
                     extended |-> GatewayExtendedFeatures],
    MeshHTTP |-> [Name |-> "MeshHTTP",
                  core |-> {"Mesh", "HTTPRoute"},
                  extended |-> HTTPRouteExtendedFeatures
                                   \cup MeshExtendedFeatures],
    MeshGRPC |-> [Name |-> "MeshHTTP",
                  core |-> {"Mesh", "GRPCRoute"},
                  extended |-> MeshExtendedFeatures]]

ProfileNames == DOMAIN conformanceProfileMap

\* No extended feature of a built-in profile is core in another one, so the
\* order in which a new suite visits the selected profiles does not matter.
ASSUME LevelsAreDisjoint ==
    \A p, q \in ProfileNames :
        conformanceProfileMap[p].extended \cap conformanceProfileMap[q].core = {}

-----------------------------------------------------------------------------
\* The set a suite starts from, without the exempt features.
Requested(selection) == selection.supported \ selection.exempt

\* A selected profile adds its core features, exempt or not.
SupportedFeatures(selection) ==
    Requested(selection) \cup
        UNION {conformanceProfileMap[p].core : p \in selection.profiles}

\* The extended features of a selected profile, split by support.
extendedSupportedFeatures(selection, p) ==
    conformanceProfileMap[p].extended \cap SupportedFeatures(selection)

extendedUnsupportedFeatures(selection, p) ==
    (conformanceProfileMap[p].extended \ SupportedFeatures(selection))
        \cup (conformanceProfileMap[p].extended \cap selection.exempt)

-----------------------------------------------------------------------------
\* The selected profiles that know all features of a test.
getConformanceProfilesForTest(features, profiles) ==
    {p \in profiles :
        features \subseteq conformanceProfileMap[p].core
                               \cup conformanceProfileMap[p].extended}

isTestExtended(p, features) == ~(features \subseteq conformanceProfileMap[p].core)

\* addTestResults over all tests and their profiles: the tests with outcome r
\* that are counted under the profile Name n at one support level.  A test is
\* counted once per profile, so the cells are sets of <<test, profile>> pairs.
Counted(results, featuresOf, profiles, n, extended, r) ==
    {x \in (DOMAIN results) \X profiles :
        LET t == x[1]
            p == x[2]
        IN  /\ results[t] = r
            /\ p \in getConformanceProfilesForTest(featuresOf[t], profiles)
            /\ conformanceProfileMap[p].Name = n
            /\ isTestExtended(p, featuresOf[t]) = extended}

\* Mutant: skips do not count against the result of a level.
StatusIgnoringSkips(passed, failed, skipped) ==
    [result |-> IF failed # {} THEN "failure" ELSE "success",
     passed |-> Cardinality(passed),
     failedTests |-> {x[1] : x \in failed},
     skippedTests |-> {x[1] : x \in skipped}]

\* One support level of compileResults.
Status(passed, failed, skipped) ==
    [result |-> CASE failed # {} -> "failure"
                  [] failed = {} /\ skipped # {} -> "partial"
                  [] failed = {} /\ skipped = {} -> "success",
     passed |-> Cardinality(passed),
     failedTests |-> {x[1] : x \in failed},
     skippedTests |-> {x[1] : x \in skipped}]

\* The report of one profile Name; extended is absent (<<>>) when no extended
\* test had an outcome that is counted.  The features are those that the suite
\* has noted under that Name.
ProfileReport(results, featuresOf, suite, n) ==
    LET cell(extended, r) ==
            Counted(results, featuresOf, suite.profiles, n, extended, r)
        level(extended) ==
            Status(cell(extended, "SUCCEEDED"), cell(extended, "FAILED"),
                   cell(extended, "SKIPPED"))
        seen == cell(TRUE, "SUCCEEDED") \cup cell(TRUE, "FAILED")
                    \cup cell(TRUE, "SKIPPED")
        noted(features) ==
            IF seen # {} /\ n \in suite.profiles THEN features[n] ELSE {}
    IN  [core |-> level(FALSE),
         extended |-> IF seen = {} THEN <<>> ELSE <<level(TRUE)>>,
         supportedFeatures |-> noted(suite.supported),
         unsupportedFeatures |-> noted(suite.unsupported)]

\* Report: one entry for each Name that some test of the run belongs to.
CompileReport(results, featuresOf, suite) ==
    LET names == {conformanceProfileMap[p].Name :
                    p \in UNION {getConformanceProfilesForTest(
                                     featuresOf[t], suite.profiles) :
                                 t \in DOMAIN results}}
    IN  [n \in names |-> ProfileReport(results, featuresOf, suite, n)]
=============================================================================
