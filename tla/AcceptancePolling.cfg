SPECIFICATION Spec
CONSTANTS
    Listeners <- OneListener
    Parents <- TwoParents
    OmitNamespace <- FirstOmits
    DecoderReuses = TRUE
    MaxGen = 2
    Timeout = 3
    MaxFaults = 2
INVARIANT
    TimeoutMeansNeverSeen
PROPERTIES
    GatewayAnswersAreCurrent
    ReadyNamespacesAreReady
    RouteAnswersAreCurrent
    AcceptanceIsEarned
