SPECIFICATION Spec
CONSTANTS
    Namespaces <- MCNamespaces
    GatewayClasses <- MCGatewayClasses
    Gateways <- MCGateways
    HTTPRoutes <- MCHTTPRoutes
    Backends <- MCBackends
    ReferenceGrants <- MCReferenceGrants
    Changing <- MCChanging
    Settings <- OneLevelSettings
    Inherited = {"Retry"}
INVARIANT OldestWins
