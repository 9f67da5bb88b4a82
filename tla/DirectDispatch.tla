--------------------------- MODULE DirectDispatch ---------------------------
(***************************************************************************)
(* A bee's direct reaction to an event (event_context.go, dispatch_direct. *)
(* go, attempt.go and routing.go of internal/runtime): which events wake a *)
(* bee, under whose configuration, how often, and what it may publish.     *)
(*                                                                         *)
(* A trail is what outlives a process - attempts, deferred reactions, the  *)
(* admissions of analyses, honey - and `processed`, which does not; `runs` *)
(* is its history.  A colony `w` has the bees of each configuration in     *)
(* dispatch order, the bees of the agents that published, and how a run of *)
(* each bee ends.  Reactions run one after another here; HoneyDispatch and *)
(* StandingTrail interleave them.                                          *)
(***************************************************************************)
EXTENDS DispatchPlan
LOCAL INSTANCE Sequences
LOCAL INSTANCE SequencesExt
LOCAL INSTANCE FiniteSetsExt

LiveRef == "live"       \* the colony as it is, of a trail without a manifest

-----------------------------------------------------------------------------
(* Events *)

DirectSignalDenylist ==
    {"task.ready", "task.status", "energy.add", "energy.consume", "energy.stipend", "energy.seeded",
     "energy.paused", "energy.resumed", "system.kill", "session.invite", "beekeeper.ready",
     "trail.fork", "trail.fork.approve", "trail.fork.reject", "trail.fork.cancel"}

\* What can be made into a task for a bee, however broad its subscription.
EventDispatchContext(ev) ==
    \/ ev.type = "SIGNAL" /\ ev.kind \notin DirectSignalDenylist
    \/ ev.type = "MUTATION" /\ CodeProposalFamily(ev.kind) # ""
    \/ ev.type = "VERIFICATION" /\ ev.kind \in {"verification.success", "verification.failed"}

ProposalDispatchFields(ev) ==
    IF ev.type = "MUTATION" THEN [sector |-> ev.sector, kind |-> CodeProposalFamily(ev.kind)]
    ELSE [sector |-> "", kind |-> ""]

AnalysisMilestoneOf(ev) == IF ev.kind = TrailWorkCompleted THEN ev.completion ELSE ""

\* Every turn of a rework cycle counts; other events of a task count once.
DirectDispatchPerEvent(ev) ==
    \/ ev.type = "MUTATION" /\ CodeProposalFamily(ev.kind) # ""
    \/ ev.type = "VERIFICATION" /\ ev.kind = "verification.failed"
DirectEventFingerprint(ev) ==
    [agent |-> ev.agent, seq |-> ev.seq, at |-> IF ev.seq > 0 THEN 0 ELSE ev.at]
DirectDispatchKey(ev, bee) ==
    LET once == ~DirectDispatchPerEvent(ev) /\ ev.task # ""
    IN  [bee |-> bee, type |-> ev.type, kind |-> ev.kind, task |-> IF once THEN ev.task ELSE ""]
            @@ (IF once THEN [agent |-> "", seq |-> 0, at |-> 0] ELSE DirectEventFingerprint(ev))

PublisherBee(w, ev) == IF ev.agent \in DOMAIN w.agents THEN w.agents[ev.agent] ELSE ""

-----------------------------------------------------------------------------
(* Attempts: an index, 0 for none *)

ActiveRef(s) == IF s.bound THEN s.active ELSE LiveRef
LatestTaskAttempt(s, task) ==
    Max({0} \cup {i \in DOMAIN s.attempts :
                    task # "" /\ s.attempts[i].chain = {} /\ s.attempts[i].task = task})
ChainAttempt(s, key) == {i \in DOMAIN s.attempts : key \in s.attempts[i].chain}

NewTaskAttempt(task, ref) ==
    [task |-> task, chain |-> {}, ref |-> ref, open |-> TRUE, last |-> {}, count |-> 0]
NewChainAttempt(key, task, ref) ==
    [task |-> task, chain |-> {key}, ref |-> ref, open |-> TRUE, last |-> {}, count |-> 0]

\* The attempt that an event names, or else that its task is in; an event that
\* is nobody's is routed by what is active.
OwningAttempts(s, ev) ==
    IF ev.attempt # 0 THEN {ev.attempt} \cap DOMAIN s.attempts
    ELSE {LatestTaskAttempt(s, ev.task)} \ {0}
Independent(s, ev) == ev.attempt = 0 /\ LatestTaskAttempt(s, ev.task) = 0

\* The late events of a closed attempt are not routed by anything.
DirectRoutingContext(s, ev) ==
    IF Independent(s, ev) THEN {ActiveRef(s)}
    ELSE {s.attempts[i].ref : i \in {i \in OwningAttempts(s, ev) : s.attempts[i].open}}

\* Side effects of an event that is owned keep to its attempt even when closed.
RecordedAttemptContext(s, ev) ==
    LET owners == OwningAttempts(s, ev)
    IN  IF owners = {} THEN ActiveRef(s) ELSE s.attempts[CHOOSE i \in owners : TRUE].ref

DirectAdmissionHeld(s, ev, bee) ==
    s.pending /\ Independent(s, ev) /\ ChainAttempt(s, DirectDispatchKey(ev, bee)) = {}

DirectRoleSubscribed(w, ref, ev, bee) ==
    bee \in DirectSubscribers(w.bees[ref], ev.type, ev.kind)

\* The trail with the attempt that may start, and its configuration; a chain is
\* admitted even for a bee that turns out not to be subscribed.
PrepareDirectAttempt(s, w, ev, bee, active) ==
    LET key == DirectDispatchKey(ev, bee)
        admits == Independent(s, ev) /\ ChainAttempt(s, key) = {} /\ ~s.pending
        t == IF admits THEN [s EXCEPT !.attempts = Append(@, NewChainAttempt(key, ev.task, active))] ELSE s
        mine == IF Independent(s, ev) THEN ChainAttempt(t, key) ELSE OwningAttempts(s, ev)
        ready == {i \in mine : /\ t.attempts[i].open
                               /\ DirectRoleSubscribed(w, t.attempts[i].ref, ev, bee)
                               /\ key \notin t.attempts[i].last}
    IN  CASE ~s.bound ->
                [trail |-> s,
                 starts |-> {<<0, r>> : r \in {r \in {active} : DirectRoleSubscribed(w, r, ev, bee)}}]
          [] s.bound /\ ready = {} -> [trail |-> t, starts |-> {}]
          [] OTHER ->
                LET i == CHOOSE i \in ready : TRUE
                IN  [trail |-> [t EXCEPT !.attempts[i].last = {key}, !.attempts[i].count = @ + 1],
                     starts |-> {<<i, t.attempts[i].ref>>}]

-----------------------------------------------------------------------------
(* A reaction *)

\* A milestone and a bee name an analysis; checking it writes nothing, so what
\* is put off keeps its identity.
AnalysisAdmitted(s, of, bee) == <<of, bee>> \in DOMAIN s.analyses

\* The record is written before the agent starts and settled after it; a death
\* in between leaves it running.
WriteAnalysisAdmission(analyses, of, bee, outcome) ==
    LET status == CASE outcome = "crash" -> "running"
                    [] outcome = "completed" -> "completed"
                    [] OTHER -> "failed"
    IN  [a \in {<<of, bee>>} |-> status] @@ analyses

\* Refused for good without a trace of it.
Ignored(s, w, ev, bee, purpose, of) ==
    \/ s.killed
    \/ ~EventDispatchContext(ev)
    \/ PublisherBee(w, ev) = bee
    \/ DirectDispatchKey(ev, bee) \in s.processed
    \/ purpose = "analysis" /\ AnalysisAdmitted(s, of, bee)

DeferDirectDispatch(s, ev, bee, purpose, of, reason) ==
    LET key == DirectDispatchKey(ev, bee)
    IN  IF \E d \in ToSet(s.deferred) : d.key = key THEN s
        ELSE [s EXCEPT !.deferred = Append(@, [key |-> key, ev |-> ev, bee |-> bee, purpose |-> purpose,
                                               of |-> of, reason |-> reason])]

\* A death empties the process's memory; a refusal to start leaves no run.
RunDirect(s, ev, bee, purpose, of, start, outcome) ==
    LET run == [ev |-> ev, bee |-> bee, purpose |-> purpose, of |-> of,
                attempt |-> start[1], ref |-> start[2]] @@ ProposalDispatchFields(ev)
    IN  [s EXCEPT !.runs = IF outcome = "error" THEN @ ELSE Append(@, run),
                  !.processed = CASE outcome = "crash" -> {}
                                  [] outcome = "error" -> @
                                  [] OTHER -> @ \cup {DirectDispatchKey(ev, bee)},
                  !.analyses = IF purpose = "analysis" THEN WriteAnalysisAdmission(@, of, bee, outcome) ELSE @]

\* Honey is charged before the attempt says whether there is anything to start.
DispatchDirectWithPurpose(s, w, ev, bee, purpose, of, active) ==
    LET prepared == PrepareDirectAttempt([s EXCEPT !.honey = @ - 1], w, ev, bee, active)
    IN  IF Ignored(s, w, ev, bee, purpose, of) THEN s
        ELSE IF DirectAdmissionHeld(s, ev, bee) THEN DeferDirectDispatch(s, ev, bee, purpose, of, "barrier")
        ELSE IF s.honey = 0 THEN DeferDirectDispatch(s, ev, bee, purpose, of, "honey")
        ELSE IF prepared.starts = {} THEN prepared.trail
        ELSE RunDirect(prepared.trail, ev, bee, purpose, of,
                       CHOOSE start \in prepared.starts : TRUE, w.outcome[bee])

\* An analysis without a milestone is not run as work.
DispatchReaction(s, w, ev, reaction, active) ==
    CASE reaction.purpose # "analysis" ->
            DispatchDirectWithPurpose(s, w, ev, reaction.bee, "work", "", active)
      [] reaction.purpose = "analysis" /\ AnalysisMilestoneOf(ev) = "" -> s
      [] OTHER ->
            DispatchDirectWithPurpose(s, w, ev, reaction.bee, "analysis", AnalysisMilestoneOf(ev), active)

ExecuteDispatches(s, w, ev) ==
    LET refs == DirectRoutingContext(s, ev)
        ref == CHOOSE r \in refs : TRUE
        reactions == DirectReactions(w.bees[ref], ev.type, ev.kind)
        React(t, bee) ==
            IF \E r \in reactions : r.bee = bee
            THEN DispatchReaction(t, w, ev, CHOOSE r \in reactions : r.bee = bee, ref) ELSE t
    IN  IF s.killed \/ refs = {} THEN s ELSE FoldLeft(React, s, w.order)

Resume(s, w, d, purpose, of) ==
    LET t == DispatchDirectWithPurpose(s, w, d.ev, d.bee, purpose, of, ActiveRef(s))
    IN  IF d.key \in t.processed
        THEN [t EXCEPT !.deferred = SelectSeq(@, LAMBDA e : e.key # d.key)] ELSE t

\* A top-up runs what waits for honey, oldest first, for as long as it lasts.
ResumePendingDispatches(s, w) ==
    FoldLeft(LAMBDA t, d : IF t.killed \/ t.honey = 0 \/ d.reason = "barrier" THEN t
                           ELSE Resume(t, w, d, d.purpose, d.of), s, s.deferred)

\* What a change of the configuration held is resumed as ordinary work.
ResumeBarrierHeldDispatches(s, w) ==
    FoldLeft(LAMBDA t, d : IF t.killed \/ t.pending \/ d.reason # "barrier" THEN t
                           ELSE Resume(t, w, d, "work", ""), s, s.deferred)

-----------------------------------------------------------------------------
(* What a bee's run may publish *)

CanDispatchTaskReady(bees, role) == role \in DOMAIN bees => CanHandleTaskReady(bees[role])
ValidatePublish(bees, role, type, kind) ==
    role \in DOMAIN bees => DeclaresPublish(bees[role], type, kind)

\* The proposal a bee's changes become; a bee that works elsewhere than it
\* declares gets a warning and no proposal.
PlanAuto(bee) ==
    CASE bee.worktree /\ DeclaresIsolated(bee) ->
            {[kind |-> "code.proposal.isolated", workspace |-> "isolated"]}
      [] ~bee.worktree /\ DeclaresRoot(bee) -> {[kind |-> "code.proposal.root", workspace |-> "root"]}
      [] OTHER -> {}
ShouldAutoPublish(bee) == bee.publishes # {} /\ (DeclaresIsolated(bee) \/ DeclaresRoot(bee))
ShouldAutoPublishRunSummary(bees, role) ==
    role \in DOMAIN bees =>
        /\ bees[role].run_summary # "disabled"
        /\ DeclaresPublish(bees[role], "INSIGHT", "run.summary")

\* The first rule that matches decides, a duplicate included; the invite is on
\* record before it is announced.
AutoInviteFromEvent(ev, rules, invites, trace) ==
    LET matching == {i \in DOMAIN rules : MatchAutoInvite(ev, rules[i])}
        rule == rules[Min(matching)]
        invite == BuildInvite(ev, rule, trace)
    IN  IF matching = {} THEN invites
        ELSE IF invite = NoInvite \/ HasPendingDedupe(ToSet(invites), invite, rule.dedupe) THEN invites
        ELSE Append(invites, invite)

-----------------------------------------------------------------------------
(* What direct reactions promise *)

\* A milestone is analysed once by each bee, whatever is redelivered, restarted
\* or died; every analysis that ran is on record.
AnalysisRunsOnce(s) ==
    LET analyses == {i \in DOMAIN s.runs : s.runs[i].purpose = "analysis"}
        Studied(i) == <<s.runs[i].of, s.runs[i].bee>>
    IN  /\ \A i, j \in analyses : Studied(i) = Studied(j) => i = j
        /\ \A i \in analyses : Studied(i) \in DOMAIN s.analyses

\* A reaction that waits for honey has not used up its identity: once there is
\* enough, it is admitted with the purpose it was deferred with.
DeferredAnalysisRuns(s, w) ==
    LET paid == ResumePendingDispatches([s EXCEPT !.honey = Len(s.deferred) + 1], w)
    IN  ~s.killed /\ ~s.pending =>
            \A d \in ToSet(s.deferred) :
                d.purpose = "analysis" /\ d.reason = "honey" => <<d.of, d.bee>> \in DOMAIN paid.analyses

\* A run is configured by the attempt it belongs to, and its bee is one that
\* this configuration subscribes: no run answers a platform event, and none
\* answers its own bee.
RunsAreOwned(s, w) ==
    \A i \in DOMAIN s.runs :
        LET run == s.runs[i]
        IN  /\ run.ev.kind \notin TaskKinds \cup PlatformObservations
            /\ run.ev.kind \notin {"system.kill", "session.invite", "trail.fork", "trail.fork.approve"}
            /\ PublisherBee(w, run.ev) # run.bee
            /\ run.attempt # 0 =>
                  /\ run.ref = s.attempts[run.attempt].ref
                  /\ run.ev.attempt # 0 => run.ev.attempt = run.attempt
            /\ DirectRoleSubscribed(w, run.ref, run.ev, run.bee)

\* Nothing comes of a late event: neither a run nor a charge.
LateEventsDoNothing(s, w, ev) ==
    (~Independent(s, ev) /\ \A i \in OwningAttempts(s, ev) : ~s.attempts[i].open)
        => ExecuteDispatches(s, w, ev) = s

\* The bees that an event wakes and the invites it causes follow the same
\* configuration; a late event still invites by the one it was made under.
EventsHaveOneConfiguration(s, ev) ==
    /\ DirectRoutingContext(s, ev) \subseteq {RecordedAttemptContext(s, ev)}
    /\ \A i \in OwningAttempts(s, ev) : RecordedAttemptContext(s, ev) = s.attempts[i].ref

\* A redelivery starts nothing in the same process.  After a restart, or the
\* death of the run, a bound trail does not repeat the last reaction of the
\* event's attempt, unless another bee that shares the attempt is repeated before it
\* ("a replayed event still deduplicates per bee", says attempt.go of both).
RedeliveryIsQuiet(s, w, ev) ==
    LET once == ExecuteDispatches(s, w, ev)
        again == ExecuteDispatches(once, w, ev)
        restarted == ExecuteDispatches([once EXCEPT !.processed = {}], w, ev)
        refs == DirectRoutingContext(s, ev)
        Repeated(t) == {t.runs[i].bee : i \in (Len(once.runs) + 1)..Len(t.runs)}
        Mine(b) == OwningAttempts(once, ev) \cup ChainAttempt(once, DirectDispatchKey(ev, b))
        LastOf(i) == once.runs[Max({n \in DOMAIN once.runs : once.runs[n].attempt = i})]
        Done == {b \in DOMAIN w.outcome : \E i \in Mine(b) :
                    /\ \E n \in DOMAIN once.runs : once.runs[n].attempt = i
                    /\ DirectDispatchKey(LastOf(i).ev, LastOf(i).bee) = DirectDispatchKey(ev, b)}
        shared == /\ ~Independent(s, ev)
                  /\ \E r \in refs : Cardinality(DirectSubscribers(w.bees[r], ev.type, ev.kind)) > 1
    IN  /\ (\A b \in DOMAIN w.outcome : w.outcome[b] \in {"completed", "failed"}) /\ once.honey > 0
            => again.runs = once.runs
        /\ s.bound /\ ~shared => Done \cap Repeated(restarted) = {}

\* A proposal that the runtime made for a bee wakes reviewers that stand where
\* the bee worked, whatever they subscribed with.
ReviewersStandWithAuthor(bees, context, manifest, dirs, sector) ==
    \A author \in DOMAIN bees :
        \A plan \in PlanAuto(bees[author]),
           there \in WorkspaceForDispatch(context, manifest, bees[author], sector, "", "work", dirs) :
            \A reviewer \in DirectSubscribers(bees, "MUTATION", plan.kind) :
                WorkspaceForDispatch(context, manifest, bees[reviewer], sector, plan.kind, "work", dirs)
                    = {there}

\* What the runtime publishes in a bee's name is what the bee declared, and a
\* valid bee that declares one kind of proposal gets that one.
SynthesizedIsDeclared(bees, role) ==
    LET bee == bees[role]
    IN  /\ ShouldAutoPublishRunSummary(bees, role) => ValidatePublish(bees, role, "INSIGHT", "run.summary")
        /\ ShouldAutoPublish(bee) =>
              \A plan \in PlanAuto(bee) : ValidatePublish(bees, role, "MUTATION", plan.kind)
        /\ ShouldAutoPublish(bee) /\ ValidProposals(bee) /\ ExpectedProposalWorkspace(bee) # "none" =>
              \E plan \in PlanAuto(bee) : plan.workspace = ExpectedProposalWorkspace(bee)

\* While an invite is pending, the event that caused it causes no other.
InvitesDoNotPile(ev, rules, invites, trace) ==
    LET once == AutoInviteFromEvent(ev, rules, invites, trace)
    IN  (\A i \in DOMAIN rules : rules[i].dedupe # {} /\ ValidAutoInvite(rules[i]) /\ rules[i].status = "")
            => AutoInviteFromEvent(ev, rules, once, trace) = once
=============================================================================
