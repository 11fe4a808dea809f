SPECIFICATION Spec
CONSTANTS
    Namespaces <- MCNamespaces
    GatewayClasses <- MCGatewayClasses
    Gateways <- MCGateways
    HTTPRoutes <- MCHTTPRoutes
    Backends <- MCBackends
    ReferenceGrants <- MCReferenceGrants
    Changing <- MCChanging
    Settings <- MCSettings
    Inherited = {"Retry"}
INVARIANTS
    LastingIsDescribed
    ErrorsAreExact
    PanicNeedsLostNamespace
    PrecedenceHolds
    NothingIsLostOrMadeUp
