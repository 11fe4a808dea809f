SPECIFICATION Spec
CONSTANTS
    Types = {t1, t2}
    Stops = {s1}
    Callers = {c1, c2}
    None = None
INVARIANTS
    NoAddDuringWait
    ShutdownIsFinal
    OneRunOfOneInstance
    SyncResultsHold
PROPERTIES
    ShutdownReturns
