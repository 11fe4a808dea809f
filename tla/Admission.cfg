SPECIFICATION Spec
CONSTANTS
    Specs <- MCSpecs
    Statuses <- MCStatuses
INVARIANTS
    ExperimentalLosesNothing
    UpgradeIsInvisible
    OneListenerPerFlow
    PrefixIsDefined
