SPECIFICATION ApplierSpec
CONSTANTS
    Objects <- MCObjects
    Base <- MCBase
    Secrets <- MCSecrets
    Manifests <- MCTests
    CleanupBase = TRUE
    Finalizers <- Slow
    PreExisting <- Anything
    MaxForeign = 2
    MaxFaults = 1
INVARIANTS
    CreatedAreRemoved
    TestStartsWithItsObjects
    BaseOutlivesTests
