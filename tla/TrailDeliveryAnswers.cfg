CONSTANTS
    TaskIds = {1, 3, 4, 5}
    Bees = {}
    NoBee = NoBee
    Sources = {}
    Stamps = {1}
    DefaultBudget = 1
    Work = {1}
    Reviewed = {1}
    Rework = {}
    Closing <- TwoRounds
    MergeGate = 5
    Proposing = {1}
    Deliveries = {"local_merge"}
    Loop = loop
    Poll = poll
    Leaving = leaving
    Cli = cli
    Free = Free
    MaxCalls = 2
    MaxFaults = 0
    MaxRevision = 4
SPECIFICATION Spec
CHECK_DEADLOCK FALSE
INVARIANTS
    OneClosingRound
PROPERTIES
    CompletedWorkIsAnnounced
    FinishedTrailReachesGate
