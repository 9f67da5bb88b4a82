\* Two writers race the operations that seed, defer, pause and settle a trail; one unit moves unanswered.
CONSTANTS
    TaskIds = {1}
    Bees = {b1}
    NoBee = NoBee
    Sources = {}
    Stamps = {1}
    DefaultBudget = 1
    Writers = {w1, w2}
    Kinds = {"energy.consume", "energy.stipend", "seed", "defer", "claim", "clear"}
    MaxAttempts = 2
    HoneyBound = 1
    QueueBound = 1
    RevisionBound = 2
    MaxUnknown = 1
SPECIFICATION StoreSpec
INVARIANTS
    HoneyAddsUp
    OneSeedWinner
    OnePausedObservation
PROPERTIES
    LinearizesToTaskLedger
