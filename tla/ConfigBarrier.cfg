\* Two apply requests against a task and a direct reaction, with a crash.
CONSTANTS
    Tasks = {t1}
    Chains = {c1}
    Refs = {A, B}
    RequestIds = {q1, q2}
    NoRef = NoRef
    NoChange = NoChange
    NoRequest = NoRequest
    Reactor = reactor
    Cli = cli
    NoOwner = NoOwner
    FirstRef = A
    MaxApplies = 2
    MaxRetries = 0
    MaxCrashes = 1
SPECIFICATION Spec
SYMMETRY RequestSymmetry
CHECK_DEADLOCK FALSE
INVARIANTS
    AppliedOnce
PROPERTIES
    BarrierHolds
