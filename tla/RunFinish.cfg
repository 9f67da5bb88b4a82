\* One run, at most two events of the agent, an operator and two deaths.
CONSTANTS
    Setups <- MCSetups
    Kinds = {"work", "proposal", "artifact"}
    MaxEvents = 2
SPECIFICATION Spec
CHECK_DEADLOCK FALSE
INVARIANTS
    
    PublicationIsHonest
    RejectedRunIsSilent
    OneProposal
    OutcomeFailsClosed
