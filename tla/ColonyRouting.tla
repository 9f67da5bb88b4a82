--------------------------- MODULE ColonyRouting ---------------------------
(***************************************************************************)
(* Which bee reacts to which event: the subscription and publication rules *)
(* of a colony, the proposal-workspace invariants, the closing policy and  *)
(* the diagram of it all (routing.go, proposal.go, closing.go, topology.go *)
(* of internal/colony, and the kind family of internal/protocol).          *)
(*                                                                         *)
(* A rule is a type and a kind, "" standing for any kind.  A bee is given  *)
(* as far as routing reads it; `bees` is a function from roles to bees.    *)
(***************************************************************************)
EXTENDS Integers, FiniteSets

DomainEvents == {"SIGNAL", "INSIGHT", "MUTATION", "VERIFICATION"}
TaskKinds == {"task.plan", "task.ready", "task.status", "task.completed"}
PlatformObservations == {"energy.seeded", "energy.paused", "energy.resumed", "cue.ingress"}
TrailWorkCompleted == "trail.work.completed"

-----------------------------------------------------------------------------
(* Matching *)

\* The bare proposal kind is an alias of the isolated one.
CodeProposalFamily(kind) ==
    CASE kind \in {"code.proposal", "code.proposal.isolated"} -> "code.proposal.isolated"
      [] kind = "code.proposal.root" -> "code.proposal.root"
      [] OTHER -> ""

CodeProposalKindsMatch(a, b) ==
    CodeProposalFamily(a) # "" /\ CodeProposalFamily(a) = CodeProposalFamily(b)

Matches(rule, type, kind) ==
    /\ rule.type \in DomainEvents
    /\ rule.type = type
    /\ \/ rule.kind = ""
       \/ IF type = "MUTATION" /\ (\E k \in {rule.kind, kind} : CodeProposalFamily(k) # "")
          THEN CodeProposalKindsMatch(rule.kind, kind)
          ELSE rule.kind = kind

ResolvedDispatch(sub) ==
    CASE sub.dispatch # "" -> sub.dispatch
      [] sub.kind \in TaskKinds -> "task"
      [] OTHER -> "direct"

\* A bee without subscriptions takes any task assigned to it.
CanHandleTaskReady(bee) ==
    \/ bee.subscribes = {}
    \/ \E sub \in bee.subscribes :
          ResolvedDispatch(sub) = "task" /\ Matches(sub, "SIGNAL", "task.ready")

\* At most one reaction per bee, and an analysis subscription decides it.
DirectReactions(bees, type, kind) ==
    LET matching(role) == {sub \in bees[role].subscribes :
                              ResolvedDispatch(sub) = "direct" /\ Matches(sub, type, kind)}
    IN  IF kind \in PlatformObservations THEN {}
        ELSE {[bee |-> role,
               purpose |-> IF \E sub \in matching(role) : sub.purpose = "analysis"
                           THEN "analysis" ELSE "work"] :
                 role \in {r \in DOMAIN bees : matching(r) # {}}}

DirectSubscribers(bees, type, kind) == {r.bee : r \in DirectReactions(bees, type, kind)}

ExplicitlyDeclaresPublish(bee, type, kind) ==
    \E pub \in bee.publishes : Matches(pub, type, kind)

\* A bee that lists nothing may publish anything.
DeclaresPublish(bee, type, kind) ==
    bee.publishes = {} \/ ExplicitlyDeclaresPublish(bee, type, kind)

AnyBeeDeclaresPublish(bees, type, kind) ==
    \E role \in DOMAIN bees : ExplicitlyDeclaresPublish(bees[role], type, kind)

-----------------------------------------------------------------------------
(* What a colony may say *)

Purposes == {"work", "closing", "analysis"}

\* Only analysis can be configured, as a direct reaction to one observation.
ValidPurpose(sub) ==
    sub.purpose # "" =>
        /\ sub.purpose \in Purposes
        /\ sub.purpose = "analysis"
        /\ ResolvedDispatch(sub) = "direct"
        /\ sub.type = "SIGNAL" /\ sub.kind = TrailWorkCompleted

ValidEventRules(bee) ==
    /\ \A sub \in bee.subscribes :
          /\ sub.type \in DomainEvents
          /\ ResolvedDispatch(sub) \in {"task", "direct"}
          /\ ValidPurpose(sub)
    /\ \A pub \in bee.publishes : pub.type \in DomainEvents

DeclaresIsolated(bee) ==
    \E kind \in {"code.proposal", "code.proposal.isolated"} :
        ExplicitlyDeclaresPublish(bee, "MUTATION", kind)
DeclaresRoot(bee) == ExplicitlyDeclaresPublish(bee, "MUTATION", "code.proposal.root")

\* The workspace that a bee's proposals come from, when it declares one only.
ExpectedProposalWorkspace(bee) ==
    CASE DeclaresRoot(bee) /\ ~DeclaresIsolated(bee) -> "root"
      [] DeclaresIsolated(bee) /\ ~DeclaresRoot(bee) -> "isolated"
      [] OTHER -> "none"

PublishesFromItsWorkspace(bee) ==
    /\ bee.worktree => ExpectedProposalWorkspace(bee) # "root"
    /\ ~bee.worktree => ExpectedProposalWorkspace(bee) # "isolated"

ReviewsInItsWorkspace(bee) ==
    \A sub \in bee.subscribes :
        /\ CodeProposalKindsMatch(sub.kind, "code.proposal.isolated") => bee.worktree
        /\ CodeProposalKindsMatch(sub.kind, "code.proposal.root") => ~bee.worktree

ValidProposals(bee) == PublishesFromItsWorkspace(bee) /\ ReviewsInItsWorkspace(bee)

UsesBareAlias(bee) == \E r \in bee.subscribes \cup bee.publishes : r.kind = "code.proposal"

SubscribesToRoot(bee) ==
    \E sub \in bee.subscribes :
        ResolvedDispatch(sub) = "direct" /\ Matches(sub, "MUTATION", "code.proposal.root")

\* Doctor's report: <<severity, role, about>>.
DiagnoseCodeProposal(bees) ==
    {<<"error", r, "publishes">> : r \in {r \in DOMAIN bees : ~PublishesFromItsWorkspace(bees[r])}}
    \cup {<<"error", r, "subscribes">> : r \in {r \in DOMAIN bees : ~ReviewsInItsWorkspace(bees[r])}}
    \cup {<<"warning", r, "alias">> : r \in {r \in DOMAIN bees : UsesBareAlias(bees[r])}}
    \cup {<<"advisory", r, "isolated">> : r \in {r \in DOMAIN bees : DeclaresIsolated(bees[r])
             /\ DirectSubscribers(bees, "MUTATION", "code.proposal.isolated") = {}}}
    \cup {<<"advisory", r, "root">> : r \in {r \in DOMAIN bees : DeclaresRoot(bees[r])
             /\ DirectSubscribers(bees, "MUTATION", "code.proposal.root") = {}}}
    \cup {<<"advisory", r, "verdict">> : r \in {r \in DOMAIN bees : SubscribesToRoot(bees[r])
             /\ \E verdict \in {"verification.success", "verification.failed"} :
                    ~ExplicitlyDeclaresPublish(bees[r], "VERIFICATION", verdict)}}

EffectiveTaskBee(bee, defaults) ==
    CASE bee # "" -> bee
      [] defaults.bee # "" -> defaults.bee
      [] OTHER -> "builder"

\* A final review reads a branch, so its bee must not work in the root.
ValidTaskReview(spec, bees, defaults) ==
    LET role == EffectiveTaskBee(spec.bee, defaults)
    IN  spec.review = "final" /\ role \in DOMAIN bees =>
            ExpectedProposalWorkspace(bees[role]) # "root"

-----------------------------------------------------------------------------
(* The closing policy *)

\* max_rounds is -1 when the manifest leaves it out.
Unset == -1
DefaultMaxRounds == 2
NoClosing == [enabled |-> FALSE, min_work_tasks |-> 0, has_isolated_proposal |-> FALSE,
              bee |-> "", review |-> "", phase |-> "", params |-> {}, max_rounds |-> Unset]

Configured(policy) == policy # NoClosing
ResolvedMaxRounds(policy) ==
    IF policy.max_rounds = Unset THEN DefaultMaxRounds ELSE policy.max_rounds

Resolved(policy, defaults) ==
    [policy EXCEPT !.max_rounds = ResolvedMaxRounds(policy),
                   !.bee = EffectiveTaskBee(@, defaults)]

ClosingMatches(policy, tasks, isolated) ==
    /\ policy.min_work_tasks > 0 => tasks >= policy.min_work_tasks
    /\ policy.has_isolated_proposal => isolated

\* Whether the bee exists is asked only of an enabled policy.
ValidClosing(policy, bees, defaults, validParams) ==
    LET role == EffectiveTaskBee(policy.bee, defaults)
    IN  /\ policy.min_work_tasks >= 0
        /\ policy.review \in {"", "none", "required"}
        /\ policy.phase = ""
        /\ policy.params \subseteq validParams
        /\ policy.max_rounds # Unset => policy.max_rounds >= 1
        /\ policy.enabled => role \in DOMAIN bees /\ CanHandleTaskReady(bees[role])

-----------------------------------------------------------------------------
(* Auto-invites: a payload is a function from the fields an event sets *)

Text(payload, field) == IF field \in DOMAIN payload THEN payload[field] ELSE ""

MatchAutoInvite(event, rule) ==
    /\ event.kind \notin PlatformObservations
    /\ Matches(rule.when, event.type, event.kind)
    /\ \A field \in DOMAIN rule.match : Text(event.payload, field) = rule.match[field]

ResolveField(field, payload) ==
    IF field.from # "" /\ Text(payload, field.from) # "" THEN Text(payload, field.from)
    ELSE field.default

\* The value of the newest signal of that kind that has the field.
LatestTraceField(trace, kind, field) ==
    LET told == {i \in DOMAIN trace : trace[i].type = "SIGNAL" /\ trace[i].kind = kind
                                         /\ field \in DOMAIN trace[i].payload}
    IN  IF told = {} THEN "" ELSE trace[CHOOSE i \in told : \A j \in told : j <= i].payload[field]

\* The prefix is put before what the trace says, never before the event's own.
ResolveTask(task, payload, trace) ==
    LET traced == IF task.from_trace_kind = "" THEN ""
                  ELSE LatestTraceField(trace, task.from_trace_kind, task.from_trace_field)
    IN  CASE traced # "" -> <<task.prefix, traced>>
          [] task.from # "" /\ Text(payload, task.from) # "" -> <<"", Text(payload, task.from)>>
          [] task.fallback_from # "" /\ Text(payload, task.fallback_from) # "" ->
                <<"", Text(payload, task.fallback_from)>>
          [] OTHER -> <<"", task.default>>

NoInvite == [bee |-> "", task |-> <<"", "">>]

\* An invite is built only when its bee and its task resolve.
BuildInvite(event, rule, trace) ==
    LET invite == [bee |-> ResolveField(rule.bee, event.payload),
                   intent |-> ResolveField(rule.intent, event.payload),
                   task |-> ResolveTask(rule.task, event.payload, trace),
                   status |-> IF rule.status = "" THEN "pending" ELSE rule.status,
                   artifactRef |-> ResolveField(rule.artifactRef, event.payload)]
    IN  IF \/ rule.task.from_trace_kind # "" /\ rule.task.from_trace_field = ""
           \/ invite.bee = "" \/ invite.task[2] = ""
        THEN NoInvite ELSE invite

DedupeKeys == {"bee", "intent", "artifactRef"}

HasPendingDedupe(invites, payload, keys) ==
    keys # {} /\ \E inv \in invites :
        inv.status = "pending" /\ \A k \in keys : k \in DedupeKeys /\ inv[k] = payload[k]

ValidAutoInvite(rule) ==
    /\ rule.when.type \in DomainEvents
    /\ rule.bee.from # "" \/ rule.bee.default # ""
    /\ \/ rule.task.from_trace_kind # "" /\ rule.task.from_trace_field # ""
       \/ \E name \in {"from", "fallback_from", "default"} : rule.task[name] # ""
    /\ rule.status \in {"", "pending", "accepted", "cancelled", "completed",
                       "incomplete", "deferred"}
    /\ rule.dedupe \subseteq DedupeKeys

-----------------------------------------------------------------------------
(* The diagram of the colony *)

EventOf(rule) == [type |-> rule.type, kind |-> rule.kind]
TaskReadyEvent == [type |-> "SIGNAL", kind |-> "task.ready"]

Subscriptions(role, bee) ==
    IF bee.subscribes = {}
    THEN {[kind |-> "subscribe", from |-> TaskReadyEvent, to |-> role,
           dispatch |-> "task", implicit |-> TRUE]}
    ELSE {[kind |-> "subscribe", from |-> EventOf(sub), to |-> role,
           dispatch |-> ResolvedDispatch(sub), implicit |-> FALSE] : sub \in bee.subscribes}

Publications(role, bee) ==
    {[kind |-> "publish", from |-> role, to |-> EventOf(pub)] : pub \in bee.publishes}

InviteEdge(rule) ==
    [kind |-> "invite", from |-> EventOf(rule.when), to |-> rule.bee.default,
     bee_from |-> IF rule.bee.default = "" THEN rule.bee.from ELSE "",
     intent |-> rule.intent.default, match |-> rule.match]

Edges(bees, rules) ==
    UNION {Subscriptions(r, bees[r]) : r \in DOMAIN bees}
    \cup UNION {Publications(r, bees[r]) : r \in DOMAIN bees}
    \cup {InviteEdge(rule) : rule \in rules}

Events(bees, rules) ==
    {e.from : e \in UNION {Subscriptions(r, bees[r]) : r \in DOMAIN bees}}
    \cup {e.to : e \in UNION {Publications(r, bees[r]) : r \in DOMAIN bees}}
    \cup {EventOf(rule.when) : rule \in rules}

-----------------------------------------------------------------------------
(* What the rules promise together *)

\* Two bees of one colony agree on the workspace of a proposal: a reviewer
\* that names the kind runs where the author declared to work.  A wildcard
\* subscription escapes the check, as it does in the code.
ReviewersShareWorkspace(bees) ==
    (\A r \in DOMAIN bees : ValidEventRules(bees[r]) /\ ValidProposals(bees[r])) =>
        \A author, reviewer \in DOMAIN bees :
            \A sub \in bees[reviewer].subscribes :
                /\ sub.kind # "" /\ sub.type = "MUTATION"
                /\ ExpectedProposalWorkspace(bees[author]) # "none"
                /\ \E pub \in bees[author].publishes :
                      /\ pub.type = "MUTATION" /\ pub.kind # ""
                      /\ CodeProposalKindsMatch(pub.kind, sub.kind)
                => bees[reviewer].worktree = bees[author].worktree

\* The diagram and the dispatcher tell the same story of an event that is not
\* a platform observation: a bee reacts exactly when an arrow says so.
DiagramTellsReactions(bees, type, kind) ==
    LET arrows == {e \in Edges(bees, {}) : e.kind = "subscribe" /\ Matches(e.from, type, kind)}
    IN  (\A r \in DOMAIN bees : ValidEventRules(bees[r])) =>
          /\ kind \notin PlatformObservations =>
                DirectSubscribers(bees, type, kind)
                    = {e.to : e \in {e \in arrows : e.dispatch = "direct"}}
          /\ <<type, kind>> = <<"SIGNAL", "task.ready">> =>
                {r \in DOMAIN bees : CanHandleTaskReady(bees[r])}
                    = {e.to : e \in {e \in arrows : e.dispatch = "task"}}

\* An analysis is only ever a reaction to a finished trail.
AnalysisFollowsCompletion(bees, type, kind) ==
    (\A r \in DOMAIN bees : ValidEventRules(bees[r])) =>
        \A reaction \in DirectReactions(bees, type, kind) :
            reaction.purpose = "analysis" => kind = TrailWorkCompleted

\* The closing round of a valid, enabled policy goes to a bee that takes tasks.
ClosingIsTaken(policy, bees, defaults, validParams) ==
    policy.enabled /\ ValidClosing(policy, bees, defaults, validParams) =>
        /\ CanHandleTaskReady(bees[Resolved(policy, defaults).bee])
        /\ Resolved(policy, defaults).max_rounds >= 1

\* A valid rule builds an invite from every event it matches whose task does
\* not rest on missing text, and a second one for the same work is a duplicate.
SecondInviteIsDuplicate(event, rule, trace) ==
    LET invite == BuildInvite(event, rule, trace)
    IN  /\ ValidAutoInvite(rule) /\ rule.bee.default # "" /\ rule.task.default # ""
              /\ (rule.task.from_trace_kind # "" => rule.task.from_trace_field # "")
              => invite # NoInvite
        /\ ValidAutoInvite(rule) /\ invite # NoInvite /\ invite.status = "pending"
              /\ rule.dedupe # {} => HasPendingDedupe({invite}, invite, rule.dedupe)
=============================================================================
