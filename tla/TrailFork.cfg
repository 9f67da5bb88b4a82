\* One request, two operators, a reactor that stops or an operator that dies.
CONSTANTS
    RequestIds = {q1}
    Operators = {o1, o2}
    Reactor = reactor
    NoRequest = NoRequest
    NoFork = NoFork
    Free = Free
    Quota = 1
    MaxForks = 2
    MaxCalls = 3
    MaxCrashes = 1
SPECIFICATION Spec
SYMMETRY ForkSymmetry
CHECK_DEADLOCK FALSE
INVARIANTS
    OneForkPerRequest
    RunnableWasPublished
    DropIsFinal
