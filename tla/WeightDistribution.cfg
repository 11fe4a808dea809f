SPECIFICATION WeightSpec
CONSTANTS
    concurrentRequests = 2
    totalRequests = 20
    Rounds = 2
INVARIANT VerdictIsJustified
