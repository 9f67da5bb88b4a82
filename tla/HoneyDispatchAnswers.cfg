\* A kick, a top-up and a stipend through a crash, a failed publish and late acknowledgements.
CONSTANTS
    TaskIds = {1}
    Bees = {builder}
    NoBee = NoBee
    Sources = {}
    Stamps = {1}
    DefaultBudget = 3
    Events <- KickAddAndStipend
    NoEvent = NoEvent
    MaxCopies = 2
    Handler = handler
    Startup = startup
    Goroutines = {g1, g2}
    NoWorker = NoWorker
    Dependencies <- Chain
    DefaultBee = builder
    StartHoney = 0
    TopUp = 1
    Outcomes = {"completed", "waiting_review", "gate_failed"}
    MaxCrashes = 1
    MaxFaults = 1
SPECIFICATION FairSpec

    
PROPERTIES
    EveryEventIsAnswered
