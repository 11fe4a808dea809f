SPECIFICATION Spec
CONSTANTS
    Specs <- MCSpecs
    Statuses <- MCStatuses
INVARIANTS
    ExperimentalIncludesStandard
