CONSTANTS
    TaskIds = {1, 2, 3, 4, 5}
    Bees = {}
    NoBee = NoBee
    Sources = {}
    Stamps = {1}
    DefaultBudget = 1
    Work = {1}
    Reviewed = {}
    Rework = {2}
    Closing <- TwoRounds
    MergeGate = 5
    Proposing = {1, 2}
    Deliveries = {"local_merge", "pull_request"}
    Loop = loop
    Poll = poll
    Leaving = leaving
    Cli = cli
    Free = Free
    MaxCalls = 2
    MaxFaults = 1
    MaxRevision = 4
SPECIFICATION Spec
CHECK_DEADLOCK FALSE
INVARIANTS
    AnnouncedIsEvidenced
    DeliveredIsEvidenced
    CertifiedWorkIsIdle
PROPERTIES
    KeepsMilestone
