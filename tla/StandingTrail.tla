---------------------------- MODULE StandingTrail ----------------------------
(***************************************************************************)
(* A standing trail (internal/cues): every tick is one cue invocation on   *)
(* the same trail, started by hand, by a timer or from the console.  An    *)
(* invocation checks the trail, gives it honey, records what it is about   *)
(* to say and says it: the ingress observation, the plan of its one task   *)
(* and, with autorun, the kick.  The reactor applies what arrives and runs *)
(* the tasks; each process writes its part of the evidence from which      *)
(* TrailMetrics tells the trail's story.                                   *)
(*                                                                         *)
(* Invocations are numbered in the order they start, and the task of       *)
(* invocation i is task i.  Invokers, the reactor and the agents' jobs     *)
(* interleave; either kind of process may die between two steps or in the  *)
(* middle of a line, and a publish or an append may fail.                  *)
(***************************************************************************)
EXTENDS Ledger, TrailMetrics

CONSTANTS
    Autorun,      \* the invocations whose cue kicks its task at once
    Builder,      \* the bee of the task
    Guard,        \* the bee that answers a proposal
    Legacies,     \* what the trail may start from: [trace, past, runs, lines, origin]
    RejectionCap, \* consecutive rejections of a task that still drive rework
    MaxRuns,      \* bound: agent runs
    MaxFaults     \* bound: deaths, failed writes and publishes, replays, kills

Ticks == TaskIds
NoOrigin == [kind |-> "none", invocation |-> 0]
Origins == {NoOrigin} \cup [kind : {"cue", "manual", "fork", "other"}, invocation : Nat]

\* A tick is dated by its number, and a dispatch reacts to a run by its.
ASSUME StandingAssumption ==
    /\ Autorun \subseteq Ticks /\ Builder \in Bees /\ Guard \in Bees
    /\ RejectionCap \in Nat /\ MaxRuns \in Nat /\ MaxFaults \in Nat
    /\ Ticks \subseteq Stamps /\ 1 \in Stamps /\ 1..MaxRuns \subseteq Sources

\* A trail that was used before: only past ticks have tasks on it, they left an
\* origin and a reserve, and only ready work waits for honey.
ASSUME LegacyAssumption ==
    \A l \in Legacies :
        /\ l.trace \in Trace /\ l.past \subseteq Ticks /\ l.origin \in Origins
        /\ l.past # {} => l.origin # NoOrigin /\ l.trace.budget > 0
        /\ Rows(l.trace) \subseteq l.past
        /\ l.trace.budget = 0 => l.trace.seed = "none"
        /\ l.origin.kind = "cue" => \A i \in Ticks : l.origin.invocation <= i
        /\ \A n \in HoneyWaiting(l.trace), i \in Ticks :
              WaitsFor(l.trace, n, i) => l.trace.tasks[i].status = "ready"

VARIABLES
    ledger,     \* the trail's ledger
    up,         \* the reactor runs
    stream,     \* published messages the reactor has not applied
    cue,        \* each invocation's process
    recorded,   \* each invocation's record: 0 none, else 1 + its confirmed events
    origin,     \* origin.json
    log,        \* the readable lines of the trail log
    torn,       \* the trail log ends in half a line
    condition,  \* the trail log: absent, whole or damaged
    runLogs,    \* the runs' own logs
    runs,       \* the run directories
    links,      \* the tasks' runs.ndjson
    jobs,       \* the reactor's goroutines
    episode,    \* pause episodes so far
    legacy,     \* what was retained from before
    faults,     \* faults so far
    charged,    \* history: honey charged to the ledger
    written,    \* history: lines an append accepted
    sent,       \* history: invocation events the broker has
    overtaken,  \* history: invocations whose kick reopened a started task
    silent      \* history: episodes whose end was never observed

cues == <<cue, recorded, origin>>
evidence == <<log, torn, condition, written>>
work == <<runLogs, runs, links, jobs>>
ghosts == <<legacy, charged, silent>>
tickVars == <<ledger, up, stream, cues, evidence, work, episode, legacy, faults, charged, sent,
          overtaken, silent>>

Line(kind, task, by, n, purpose) ==
    [kind |-> kind, task |-> task, by |-> by, n |-> n, purpose |-> purpose]
Steps(i) == IF i \in Autorun THEN <<"ingress", "plan", "ready">> ELSE <<"ingress", "plan">>
Said(kind, i) == Line(kind, i, 0, 0, "none")
Message(kind, n) == [kind |-> kind, of |-> n]

\* The ticks of legacy.past were invoked, and answered, before.
TickInit ==
    /\ legacy \in Legacies
    /\ ledger = legacy.trace /\ up = TRUE /\ stream = <<>>
    /\ cue = [i \in Ticks |-> [pc |-> IF i \in legacy.past THEN "ended" ELSE "idle",
                               first |-> FALSE, saw |-> {}, at |-> 1]]
    /\ sent = UNION {{Said(Steps(i)[k], i) : k \in 1..Len(Steps(i))} : i \in legacy.past}
    /\ recorded = [i \in Ticks |-> IF i \in legacy.past THEN Len(Steps(i)) + 1 ELSE 0]
    /\ origin = legacy.origin
    /\ log = legacy.lines \cup sent /\ torn = FALSE
    /\ condition = IF log = {} THEN "absent" ELSE "whole"
    /\ runLogs = {} /\ runs = <<>> /\ links = {} /\ jobs = {}
    /\ episode = Cardinality({e \in log : e.kind = "paused"}) /\ faults = 0
    /\ charged = Cardinality({e \in log : e.kind = "consume"})
    /\ written = log /\ overtaken = {} /\ silent = {}

Fault == faults < MaxFaults /\ faults' = faults + 1

-----------------------------------------------------------------------------
(* The trail log: one line per event, recorded before it is published *)

\* After a torn line the next one continues it, and neither can be read.
AppendLine(e) ==
    /\ torn' = FALSE
    /\ log' = IF torn THEN log ELSE log \cup {e}
    /\ condition' = IF condition = "absent" THEN "whole" ELSE condition
    /\ written' = written \cup {e}

TornAppend ==
    /\ torn' = TRUE
    /\ condition' = "damaged"
    /\ UNCHANGED <<log, written>>

\* Recording is best effort: its failure is a warning.
RecordTrailEvent(e) ==
    \/ AppendLine(e) /\ UNCHANGED faults
    \/ Fault /\ UNCHANGED evidence

-----------------------------------------------------------------------------
(* One invocation *)

Goes(i, pc) == cue' = [cue EXCEPT ![i].pc = pc]

CueStep(i, from) ==
    /\ cue[i].pc = from
    /\ UNCHANGED <<up, work, episode, legacy, charged, overtaken>>

\* The origin is the first invocation's for good, unless the trail has one.
StartTick(i) ==
    /\ CueStep(i, "idle")
    /\ \A k \in Ticks : k < i => cue[k].pc # "idle"
    /\ origin' = IF origin = NoOrigin THEN [kind |-> "cue", invocation |-> i] ELSE origin
    /\ Goes(i, "check")
    /\ UNCHANGED <<ledger, stream, recorded, evidence, faults, sent, silent>>

Occupies(t, id) ==
    /\ t.tasks[id].status \in {"planned", "ready", "running", "waiting_review"}
    /\ \A k \in HoneyWaiting(t) : ~WaitsFor(t, k, id)

\* Fault: a deferred tick is no reason to refuse, nor is any other.
OpenStandingTick_Never(t) == {}

\* A task that waits for honey does not occupy the trail: the next tick's
\* stipend replaces it.
OpenStandingTick(t) == {id \in Ticks : Occupies(t, id)}

CheckTrail(i) ==
    /\ CueStep(i, "check")
    /\ cue' = [cue EXCEPT
            ![i].pc = IF ledger.killed \/ OpenStandingTick(ledger) # {}
                      THEN "refused" ELSE "live",
            ![i].first = (ledger.budget = 0),
            ![i].saw = {id \in Ticks : Registered(ledger.tasks[id])}]
    /\ UNCHANGED <<ledger, stream, recorded, origin, evidence, faults, sent, silent>>

\* Only a run whose process lives is in flight: its job is still there.
LiveRuns == {j.run : j \in {k \in jobs : k.at = "run"}}

CheckLiveRuns(i) ==
    /\ CueStep(i, "live")
    /\ Goes(i, IF LiveRuns # {} THEN "refused" ELSE IF cue[i].first THEN "seed" ELSE "fund")
    /\ UNCHANGED <<ledger, stream, recorded, origin, evidence, faults, sent, silent>>

\* A trail without an allocation is seeded; whoever seeded it, an unpublished
\* seed is published.
Seed(i) ==
    /\ CueStep(i, "seed")
    /\ ledger' = EnsureEnergySeed(ledger)
    /\ Goes(i, IF ledger'.seed = "unpublished" THEN "publishSeed" ELSE "record")
    /\ UNCHANGED <<stream, recorded, origin, evidence, faults, sent, silent>>

PublishSeed(i) ==
    /\ CueStep(i, "publishSeed")
    /\ \/ /\ RecordTrailEvent(Said("seeded", 0))
          /\ ledger' = MarkEnergySeedPublished(ledger)
          /\ Goes(i, "record")
       \/ /\ Fault /\ AppendLine(Said("seeded", 0)) /\ Goes(i, "refused")
          /\ UNCHANGED ledger
    /\ UNCHANGED <<stream, recorded, origin, sent, silent>>

\* A stipend replaces the reserve.  Nothing applies it while the reactor is
\* down, so the invoker does, and nobody observes the pause it ends; the
\* reactor applies it again when it returns.
Fund(i) ==
    /\ CueStep(i, "fund")
    /\ \/ /\ RecordTrailEvent(Said("stipend", i))
          /\ stream' = Append(stream, Message("stipend", i))
          /\ ledger' = IF up THEN ledger ELSE ReduceEnergyStipend(ledger, DefaultBudget)
          /\ silent' = IF ~up /\ ledger.pause # "none" THEN silent \cup {episode} ELSE silent
          /\ Goes(i, "record")
       \/ /\ Fault /\ AppendLine(Said("stipend", i)) /\ Goes(i, "refused")
          /\ UNCHANGED <<ledger, stream, silent>>
    /\ UNCHANGED <<recorded, origin, sent>>

\* Fault: the invocation is recorded once its first event is confirmed.
RecordInvocation_Late(i) ==
    /\ CueStep(i, "record")
    /\ Goes(i, "send")
    /\ UNCHANGED <<ledger, stream, recorded, origin, evidence, faults, sent, silent>>

\* The title, the colony or the review policy may still be refused; otherwise the
\* record precedes every publication.
RecordInvocation(i) ==
    /\ CueStep(i, "record")
    /\ \/ recorded' = [recorded EXCEPT ![i] = 1] /\ Goes(i, "send")
       \/ Goes(i, "refused") /\ UNCHANGED recorded
    /\ UNCHANGED <<ledger, stream, origin, evidence, faults, sent, silent>>

Delivered(kind, i) ==
    /\ stream' = IF kind = "ingress" THEN stream ELSE Append(stream, Message(kind, i))
    /\ sent' = sent \cup {Said(kind, i)}

\* The broker takes the event, or refuses it, and the invocation ends.
SendNext(i) ==
    /\ CueStep(i, "send")
    /\ LET kind == Steps(i)[cue[i].at]
       IN  \/ RecordTrailEvent(Said(kind, i)) /\ Delivered(kind, i) /\ Goes(i, "mark")
           \/ /\ Fault /\ AppendLine(Said(kind, i)) /\ Goes(i, "ended")
              /\ UNCHANGED <<stream, sent>>
    /\ UNCHANGED <<ledger, recorded, origin, silent>>

MarkSent(i) ==
    /\ CueStep(i, "mark")
    /\ recorded' = [recorded EXCEPT ![i] = cue[i].at + 1]
    /\ cue' = [cue EXCEPT ![i].pc = IF cue[i].at = Len(Steps(i)) THEN "ended" ELSE "send",
                          ![i].at = @ + 1]
    /\ UNCHANGED <<ledger, stream, origin, evidence, faults, sent, silent>>

\* A retry replays what the record does not confirm, under the same identities.
RepublishInvocation(i) ==
    /\ CueStep(i, "ended")
    /\ recorded[i] \in 1..Len(Steps(i))
    /\ cue' = [cue EXCEPT ![i].pc = "send", ![i].at = recorded[i]]
    /\ UNCHANGED <<ledger, stream, recorded, origin, evidence, faults, sent, silent>>

InvokerDies(i) ==
    /\ cue[i].pc \notin {"idle", "refused", "ended"}
    /\ Fault
    /\ Goes(i, "ended")
    /\ \/ UNCHANGED evidence
       \/ cue[i].pc \in {"publishSeed", "fund", "send"} /\ TornAppend
    /\ UNCHANGED <<ledger, up, stream, recorded, origin, work, episode, legacy, charged, sent,
                   overtaken, silent>>

-----------------------------------------------------------------------------
(* The reactor applies the stream *)

Job(kind, task, bee, source) ==
    [kind |-> kind, task |-> task, bee |-> bee, source |-> source, at |-> "due", run |-> 0,
     capped |-> FALSE]

\* Every task the reduction made ready is dispatched, unless it is in flight.
Due(t) ==
    {Job("task", id, Builder, 0) : id \in {k \in Ticks :
        /\ t.tasks[k].status = "ready"
        /\ ledger.tasks[k].status # "ready"
        /\ \A j \in jobs : j.kind = "task" => j.task # k}}

ReactorStep ==
    /\ up
    /\ UNCHANGED <<up, cues, legacy, sent>>

\* A kick is late when another's completion, or the same kick sent before, has
\* started its task already: it reopens one that runs or has failed.
LateKick(i) == ledger.tasks[i].status \in {"failed", "running"}

ApplyNext(kind) ==
    /\ ReactorStep
    /\ stream # <<>> /\ Head(stream).kind = kind
    /\ stream' = Tail(stream)
    /\ overtaken' = IF kind = "ready" /\ LateKick(Head(stream).of)
                    THEN overtaken \cup {Head(stream).of} ELSE overtaken
    /\ UNCHANGED <<runLogs, runs, links, charged>>

Quietly == UNCHANGED <<evidence, episode, faults, silent>>

ApplyPlan ==
    /\ ApplyNext("plan") /\ Quietly
    /\ LET i == Head(stream).of
           spec == [phase |-> "work", deps |-> {}, bee |-> Builder]
       IN  /\ ledger' = ReduceTaskPlan(ledger, [k \in {i} |-> spec], FALSE, FALSE, i)
           /\ jobs' = jobs \cup Due(ledger')

ApplyReady ==
    /\ ApplyNext("ready") /\ Quietly
    /\ LET i == Head(stream).of
       IN  /\ ledger' = ReduceTaskReady(ledger, i, Builder)
           /\ jobs' = jobs \cup Due(ledger')

\* The reduction that ends the pause hands its observation over to be sent.
ApplyStipend ==
    /\ ApplyNext("stipend")
    /\ ledger' = ReduceEnergyStipend(ledger, DefaultBudget)
    /\ IF ledger.pause = "none" THEN UNCHANGED <<evidence, faults, silent>>
       ELSE \/ /\ AppendLine(Line("resumed", 0, 0, episode, "none"))
               /\ UNCHANGED <<faults, silent>>
            \/ Fault /\ silent' = silent \cup {episode} /\ UNCHANGED evidence
    /\ UNCHANGED <<jobs, episode>>

ApplyKill ==
    /\ ApplyNext("kill") /\ Quietly
    /\ ledger' = ReduceSystemKill(ledger)
    /\ UNCHANGED jobs

\* The agent's own completion of a reworked or guarded task.
ApplyCompleted ==
    /\ ApplyNext("completed") /\ Quietly
    /\ ledger' = ReduceTaskCompleted(ledger, Head(stream).of, "completed", 1)
    /\ jobs' = jobs \cup Due(ledger')

\* A rejection goes back to the builder, a proposal to the guard.
ApplyReaction(kind, bee) ==
    /\ ApplyNext(kind) /\ Quietly
    /\ LET r == Head(stream).of
       IN  jobs' = IF ledger.killed THEN jobs
                   ELSE jobs \cup {Job("direct", runs[r].task, bee, r)}
    /\ UNCHANGED ledger

-----------------------------------------------------------------------------
(* A dispatch: honey, run, verdict, linkage, outcome *)

JobStep(j, from) ==
    /\ ReactorStep
    /\ j \in jobs /\ j.at = from
    /\ UNCHANGED overtaken

Moves(j, at) == jobs' = (jobs \ {j}) \cup {[j EXCEPT !.at = at]}

Dispatch(j) ==
    IF j.kind = "task" THEN TaskDispatch(j.task, j.bee) ELSE DirectDispatch(j.source, j.bee)

Skip(j) ==
    /\ JobStep(j, "due") /\ Quietly
    /\ ledger.killed
    /\ jobs' = jobs \ {j}
    /\ UNCHANGED <<ledger, stream, runLogs, runs, links, charged>>

\* The ledger is charged before the charge is observed.  HoneyDispatch has the
\* reading of the reserve apart from the charge.
Charge(j) ==
    /\ JobStep(j, "due") /\ Quietly
    /\ ~ledger.killed /\ CanConsume(ledger, 1)
    /\ ledger' = ReduceEnergyConsume(ledger, 1)
    /\ charged' = charged + 1
    /\ Moves(j, "charge")
    /\ UNCHANGED <<stream, runLogs, runs, links>>

\* Work the reserve cannot pay waits, task and status untouched; the first of
\* an episode announces the pause.
DeferJob(j) ==
    /\ JobStep(j, "due")
    /\ ~ledger.killed /\ ~CanConsume(ledger, 1)
    /\ LET t == DeferPendingDispatch(ledger, Dispatch(j), FALSE, FALSE)
       IN  IF CanClaimPause(t)
           THEN /\ ledger' = ClaimEnergyPausePublished(t)
                /\ episode' = episode + 1
                /\ RecordTrailEvent(Line("paused", 0, 0, episode + 1, "none"))
           ELSE ledger' = t /\ UNCHANGED <<episode, faults, evidence>>
    /\ jobs' = jobs \ {j}
    /\ UNCHANGED <<stream, runLogs, runs, links, charged, silent>>

\* A refused publication of the charge ends the dispatch; the honey is gone.
PublishCharge(j) ==
    /\ JobStep(j, "charge")
    /\ LET e == Line("consume", j.task, 0, charged, "work")
       IN  \/ RecordTrailEvent(e) /\ Moves(j, "start")
           \/ Fault /\ AppendLine(e) /\ jobs' = jobs \ {j}
    /\ UNCHANGED <<ledger, stream, runLogs, runs, links, episode, charged, silent>>

StartRun(j) ==
    /\ JobStep(j, "start") /\ Quietly
    /\ Len(runs) < MaxRuns
    /\ ledger' = IF j.kind = "task" THEN ReduceTaskStatus(ledger, j.task, "running", 1)
                                    ELSE ledger
    /\ runs' = Append(runs,
                   [task |-> j.task, bee |-> j.bee, gate |-> "none", state |-> "running"])
    /\ jobs' = (jobs \ {j}) \cup {[j EXCEPT !.at = "run", !.run = Len(runs) + 1]}
    /\ UNCHANGED <<stream, runLogs, links, charged>>

\* The trailing gate rejections on record: a pass clears them, an ungated run
\* says nothing.
Rejections(id) ==
    Cardinality({r \in 1..Len(runs) :
        /\ runs[r].task = id /\ runs[r].gate = "failed"
        /\ \A s \in r..Len(runs) : runs[s].task = id => runs[s].gate # "passed"})

\* The verdict is recorded before the rejections are counted: past the cap the
\* run fails its task and no rejection is raised.
EndRun(j, gate, state) ==
    LET capped == gate = "failed" /\ RejectionCap > 0 /\ Rejections(j.task) >= RejectionCap
    IN  /\ JobStep(j, "run") /\ Quietly
        /\ state = "cancelled" => ledger.killed
        /\ runs' = [runs EXCEPT ![j.run].gate = gate, ![j.run].state = state]
        /\ jobs' = (jobs \ {j}) \cup
                {[j EXCEPT !.at = IF gate = "failed" /\ ~capped THEN "report" ELSE "link",
                           !.capped = capped]}
        /\ UNCHANGED <<ledger, stream, runLogs, links, charged>>

Rejection(j) == Line("rejected", j.task, 0, j.run, "none")

\* A rejection is written to the run's log, then published.
ReportRejection(j) ==
    /\ JobStep(j, "report")
    /\ \/ runLogs' = runLogs \cup {Rejection(j)} /\ UNCHANGED faults
       \/ Fault /\ UNCHANGED runLogs
    /\ Moves(j, "publish")
    /\ UNCHANGED <<ledger, stream, evidence, runs, links, episode, charged, silent>>

\* A refused publication ends the dispatch, and a task's own dispatch fails its
\* task.
PublishRejection(j) ==
    /\ JobStep(j, "publish")
    /\ \/ /\ RecordTrailEvent(Rejection(j))
          /\ stream' = Append(stream, Message("rejected", j.run))
          /\ Moves(j, "link")
          /\ UNCHANGED ledger
       \/ /\ Fault /\ AppendLine(Rejection(j))
          /\ jobs' = jobs \ {j}
          /\ ledger' = IF j.kind = "task" THEN ReduceTaskStatus(ledger, j.task, "failed", 1)
                      ELSE ledger
          /\ UNCHANGED stream
    /\ UNCHANGED <<runLogs, runs, links, episode, charged, silent>>

\* Only a task's own dispatch is linked, after it ended; the rewrite that marks
\* the run finished may leave the file empty.
LinkRun(j) ==
    /\ JobStep(j, "link")
    /\ IF j.kind = "direct" THEN UNCHANGED <<links, faults>>
       ELSE \/ links' = links \cup {[task |-> j.task, agent |-> j.run, bee |-> j.bee]}
               /\ UNCHANGED faults
            \/ Fault /\ links' = {l \in links : l.task # j.task}
    /\ Moves(j, "settle")
    /\ UNCHANGED <<ledger, stream, evidence, runLogs, runs, episode, charged, silent>>

Broken(j) == runs[j.run].gate = "none" /\ runs[j.run].state = "failed"

\* A rejected task keeps its status for its rework; a completed run completes
\* its task, or leaves it to the guard its proposal calls.
Settle(j) ==
    /\ JobStep(j, "settle") /\ Quietly
    /\ \/ /\ runs[j.run].state # "completed" \/ ledger.killed
          /\ ledger' = IF j.capped \/ (Broken(j) /\ j.kind = "task")
                      THEN ReduceTaskStatus(ledger, j.task, "failed", 1) ELSE ledger
          /\ jobs' = jobs \ {j}
          /\ UNCHANGED stream
       \/ /\ runs[j.run].state = "completed" /\ ~ledger.killed /\ j.kind = "task"
          /\ ledger' = ReduceTaskCompleted(ledger, j.task, "completed", 1)
          /\ jobs' = (jobs \ {j}) \cup Due(ledger')
          /\ UNCHANGED stream
       \/ /\ runs[j.run].state = "completed" /\ ~ledger.killed /\ j.kind = "task"
          /\ ledger' = ReduceTaskStatus(ledger, j.task, "waiting_review", 1)
          /\ jobs' = jobs \ {j}
          /\ stream' = Append(stream, Message("proposal", j.run))
       \/ /\ runs[j.run].state = "completed" /\ ~ledger.killed /\ j.kind = "direct"
          /\ jobs' = jobs \ {j}
          /\ stream' = Append(stream, Message("completed", j.task))
          /\ UNCHANGED ledger
    /\ UNCHANGED <<runLogs, runs, links, charged>>

-----------------------------------------------------------------------------
(* The environment *)

OperatorKills ==
    /\ Fault
    /\ stream' = Append(stream, Message("kill", 0))
    /\ UNCHANGED <<ledger, up, cues, evidence, work, episode, legacy, charged, sent, overtaken,
                   silent>>

\* The agents die with the reactor; their run directories stay as they are.
ReactorDies ==
    /\ up /\ Fault
    /\ up' = FALSE
    /\ jobs' = {}
    /\ \/ UNCHANGED evidence
       \/ (\E j \in jobs : j.at \in {"charge", "publish"}) /\ TornAppend
    /\ UNCHANGED <<ledger, stream, cues, runLogs, runs, links, episode, legacy, charged, sent,
                   overtaken, silent>>

\* A start publishes the seed observation a death left unpublished.
ReactorStarts ==
    /\ ~up
    /\ up' = TRUE
    /\ IF ledger.seed = "unpublished"
       THEN ledger' = MarkEnergySeedPublished(ledger) /\ AppendLine(Said("seeded", 0))
       ELSE UNCHANGED <<ledger, evidence>>
    /\ UNCHANGED <<stream, cues, work, episode, legacy, faults, charged, sent, overtaken,
                   silent>>

Invoke(i) ==
    \/ StartTick(i) \/ CheckTrail(i) \/ CheckLiveRuns(i)
    \/ Seed(i) \/ PublishSeed(i) \/ Fund(i)
    \/ RecordInvocation(i) \/ SendNext(i) \/ MarkSent(i)
    \/ RepublishInvocation(i) \/ InvokerDies(i)

Apply ==
    \/ ApplyPlan \/ ApplyReady \/ ApplyStipend \/ ApplyKill \/ ApplyCompleted
    \/ ApplyReaction("rejected", Builder) \/ ApplyReaction("proposal", Guard)

Verdicts == {<<"passed", "completed">>, <<"failed", "failed">>, <<"none", "failed">>,
             <<"none", "cancelled">>}

Run(j) ==
    \/ Skip(j) \/ Charge(j) \/ DeferJob(j) \/ PublishCharge(j) \/ StartRun(j)
    \/ \E v \in Verdicts : EndRun(j, v[1], v[2])
    \/ ReportRejection(j) \/ PublishRejection(j) \/ LinkRun(j) \/ Settle(j)

TickNext ==
    \/ \E i \in Ticks : Invoke(i)
    \/ Apply
    \/ \E j \in jobs : Run(j)
    \/ OperatorKills \/ ReactorDies \/ ReactorStarts

TickSpec == TickInit /\ [][TickNext]_tickVars

-----------------------------------------------------------------------------
(* What the trail's files say, and what happened *)

Disk ==
    [log |-> log, condition |-> condition, runLogs |-> runLogs, links |-> links,
     tasks |-> ledger.tasks, origin |-> origin,
     invocations |-> {i \in Ticks : recorded[i] > 0},
     runs |-> legacy.runs \cup
        {[agent |-> r, task |-> runs[r].task, bee |-> runs[r].bee, purpose |-> "work",
          gate |-> runs[r].gate, state |-> runs[r].state, milestone |-> 0] :
            r \in 1..Len(runs)}]

\* Evidence precedes what it is evidence of: no observation, plan or kick of an
\* invocation is on the bus, and no task of one is in the ledger, before its
\* record is kept and the trail's origin is settled; every invocation whose work
\* arrived can be attributed, at most one of them as the origin, and a record
\* confirms only what the broker took, in order (ensureCueTrailOrigin,
\* publishInvocation).
EvidenceFirst ==
    /\ \A e \in sent :
        /\ e.task \in Ingresses(Disk)
        /\ recorded[e.task] > 0
        /\ Attribution(Disk, e.task) # "unknown"
    /\ \A i \in Ticks : Registered(ledger.tasks[i]) =>
        /\ recorded[i] > 0
        /\ {Said("ingress", i), Said("plan", i)} \subseteq sent
    /\ \A i \in Ticks : \A k \in 1..(recorded[i] - 1) : Said(Steps(i)[k], i) \in sent
    /\ origin.kind = "cue" => \A i \in Ticks :
        Attribution(Disk, i) = "origin" => \A k \in Ticks : k < i => cue[k].pc = "idle"

-----------------------------------------------------------------------------
(* Each measure against the history it stands for *)

Occurred(id) ==
    {r.agent : r \in FailedGates(Disk, id)} \cup {e.n : e \in CheckEvents(Disk, id)}

\* The run's verdict and the event it raised are one rejection.
RejectionsAreReal == \A id \in Ticks : RejectionsOf(Disk, id) = Cardinality(Occurred(id))

\* A complete total misses only charges still on their way and failed appends.
ChargesAreReal ==
    /\ Spent(Disk) <= charged
    /\ HoneyCoverage(Disk) = "complete" =>
          charged <= Spent(Disk) + Cardinality({j \in jobs : j.at = "charge"}) + faults

\* The work of a task is what its bee ran: no guard's run, nothing twice, and
\* nothing of a tick that never started.
ExecutionsAreReal ==
    \A id \in TaskRows(Disk) :
        LET built == {r \in 1..Len(runs) : runs[r].task = id /\ runs[r].bee = Builder}
            skipped == ledger.tasks[id].status = "skipped"
        IN  /\ Executions(Disk, id) = IF skipped THEN 0 ELSE Cardinality(built)
            /\ ~skipped /\ built # {} => Started(Disk, id)

OnEvery(measure(_)) == Sum([p \in Purposes |-> measure(p)])

\* Every total is the sum of its purposes, known and unknown.
BucketsAddUp ==
    LET retained(p) == Cardinality(RunsOf(Disk, p))
        spent(p) == SpentOn(Disk, p)
        gates(p) == GateRejectionsOn(Disk, p)
        verifications(p) == VerificationsOn(Disk, p)
    IN  /\ OnEvery(retained) = RetainedRuns(Disk)
        /\ OnEvery(spent) = Spent(Disk)
        /\ OnEvery(gates) = GateRejections(Disk)
        /\ OnEvery(verifications) = VerificationFailed(Disk)
        /\ \A p \in Purposes : RetriesProven(Disk, p) =>
              RetriesOn(Disk, p) <= Cardinality(RunsOf(Disk, p))

\* A recorded line that cannot be read, a run without its task and a run
\* without its purpose leave their coverage partial.
LossIsReported ==
    /\ EventsCoverage(Disk) = "complete" => written \subseteq Events(Disk)
    /\ RunsCoverage(Disk) = "complete" =>
          \A r \in Disk.runs : r.task = 0 \/ Registered(ledger.tasks[r.task])
    /\ PurposeCoverage(Disk) = "complete" => RunsOf(Disk, "unknown") = {}
    /\ OriginCoverage(Disk) = "complete" => {e.task : e \in sent} \subseteq Disk.invocations

\* The trail reads as blocked only while it waits for honey, or where nobody
\* could observe, record or keep the end of the pause.
BlockedIsReal ==
    \A e \in OpenEnergyPause(Disk) :
        \/ ledger.pause # "none"
        \/ e.n \in silent
        \/ Line("resumed", 0, 0, e.n, "none") \in written \ log

\* What the trail's metrics report, from files each process writes for itself,
\* is what happened on it (trail_metrics.go).
MeasuredIsReal ==
    /\ RejectionsAreReal /\ ChargesAreReal /\ ExecutionsAreReal
    /\ BucketsAddUp /\ LossIsReported
    /\ WorkState(Disk) = "blocked" => BlockedIsReal

-----------------------------------------------------------------------------
(* One tick at a time *)

\* Two ticks occupy the trail together only if each started before the other's
\* task was there to see, or a kick of one came when its task had started
\* already, and reopened it: a tick that saw open work refused, its stipend
\* replaced the waiting work it saw, and what is at rest stays so
\* (refuseStandingOverlap, ReduceEnergyStipend, reduceTaskReady).
TicksDoNotOverlap ==
    \A i, k \in Ticks :
        i # k /\ Occupies(ledger, i) /\ Occupies(ledger, k) =>
            \/ {i, k} \cap overtaken # {}
            \/ i \notin cue[k].saw /\ k \notin cue[i].saw

=============================================================================
