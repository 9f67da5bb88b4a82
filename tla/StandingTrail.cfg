\* The stipend is one charge: the second dispatch of a tick waits for honey.
CONSTANTS
    TaskIds = {1, 2}
    Bees = {builder, guard}
    NoBee = "none"
    Sources = {1, 2, 3}
    Stamps = {1, 2}
    DefaultBudget = 1
    Autorun = {1, 2}
    Builder = builder
    Guard = guard
    RejectionCap = 1
    MaxRuns = 3
    MaxFaults = 1
    Legacies <- TrailsBefore
SPECIFICATION TickSpec
INVARIANTS
    EvidenceFirst
    MeasuredIsReal
    
\* Every tick is refused or done and the trail is still.
CHECK_DEADLOCK FALSE
