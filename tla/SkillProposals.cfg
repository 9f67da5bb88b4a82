SPECIFICATION Spec
CONSTANTS
    Trails = {1, 2}
    Names = {n1, n2}
    Hashes = {h1, h2}
    Operators = {o1, o2}
    MaxProposals = 2
    MaxCalls = 2
    MaxFaults = 1
    NoHash = NoHash
    NoEntry = NoEntry
    NoName = NoName
    Nobody = Nobody
    Dead = Dead
SYMMETRY Symmetric
INVARIANTS DecisionsAreFinal InstalledWasAnnounced RefusedIsNotInstalled NoLockCycle
CHECK_DEADLOCK FALSE
