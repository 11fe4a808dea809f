SPECIFICATION Spec
CONSTANTS
    Clients <- AllClients
    Spaces = {"a", "b"}
    Names = {"x"}
    Scopes <- TwoScopes
    Preloaded <- GivenClients
    MaxWrites <- Writes
    MaxBreaks = 1
    Endpoints <- StatusEndpoints
    Defaulting <- KindsWithDefaults
    Shared <- SharedWithCopies
INVARIANTS
    CacheCatchesUp
    FakeAgrees
PROPERTIES
    WritersKeepApart
    StatusIsOfItsSpec
    StatusCatchesUp
CHECK_DEADLOCK FALSE
