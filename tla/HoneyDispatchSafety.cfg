\* Two kicks, a top-up and a kill around a crash; every run closes its attempt.
CONSTANTS
    TaskIds = {1, 2}
    Bees = {builder}
    NoBee = NoBee
    Sources = {}
    Stamps = {1}
    DefaultBudget = 3
    Events <- KickTwiceAddAndKill
    NoEvent = NoEvent
    MaxCopies = 1
    Handler = handler
    Startup = startup
    Goroutines = {g1, g2}
    NoWorker = NoWorker
    Dependencies <- Chain
    DefaultBee = builder
    StartHoney = 1
    TopUp = 2
    Outcomes = {"completed", "failed"}
    MaxCrashes = 1
    MaxFaults = 0
SPECIFICATION Spec
SYMMETRY GoroutineSymmetry
INVARIANTS
    
    ResumedOnce
