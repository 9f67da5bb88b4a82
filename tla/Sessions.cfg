\* Five pairs of sessions; two events of the runtime, two chunks of output, one
\* failed access to state.json.
CONSTANTS
    first = first
    second = second
    SessionIds = {first, second}
    NoSession = NoSession
    Setups <- MCSetups
    MaxEvents = 2
    MaxOutput = 2
    Capacity = 1
SPECIFICATION SessionSpec
CHECK_DEADLOCK FALSE
INVARIANTS
    
    OneLiveContinuation
    AcceptedIsLive
    
PROPERTIES
    WaitersReturn
