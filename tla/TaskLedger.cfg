\* One task: kicks, honey, deferred dispatches, the pause episode, kill, revisions and completion.
CONSTANTS
    TaskIds = {1}
    Bees = {b1}
    NoBee = NoBee
    Sources = {1}
    Stamps = {1}
    DefaultBudget = 1
    Plans <- OneTask
    StatusEvents = {"ready", "running", "waiting_review"}
    CompletedEvents = {"completed"}
    Workspaces = {"isolated"}
    Analyses = {FALSE}
    Amounts = {1}
    MaxHoney = 2
    MaxEntries = 2
    MaxRevision = 2
SPECIFICATION Spec
INVARIANTS
    KilledIsQuiet
    OneActiveEntryPerDispatch
    ParkedKickIsUndispatched
