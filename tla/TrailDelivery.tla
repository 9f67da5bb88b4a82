--------------------------- MODULE TrailDelivery ---------------------------
(***************************************************************************)
(* How one trail's work is certified complete, reviewed and delivered:     *)
(* the reactor's event loop and task runs (internal/runtime), the gate     *)
(* that seeds closing rounds and opens the merge gate, the work-completion *)
(* check under the trail's barrier and its immutable evidence              *)
(* (internal/runs), the operator's review commands (internal/review), and  *)
(* the poll that completes a merged pull request.                          *)
(*                                                                         *)
(* The ledger and its reducers are Ledger's.  Operators write the shared   *)
(* ledger themselves and publish afterwards, so the reactor applies their  *)
(* events a second time; the reactor's own events come back as echoes it   *)
(* drops, and are not in the stream.  Honey, kills and the configuration   *)
(* barrier are HoneyDispatch's and ConfigBarrier's.                        *)
(***************************************************************************)
EXTENDS Ledger, FiniteSets, SequencesExt

CONSTANTS
    Work,           \* the tasks of the initial plan
    Reviewed,       \* those whose review policy asks for a human
    Rework,         \* ids of the tasks that review comments plan
    Closing,        \* ids of the closing rounds, in order; their cap
    MergeGate,      \* the final review task
    Proposing,      \* tasks whose bee edits the worktree
    Deliveries,     \* how a colony delivers
    Loop, Poll,     \* the reactor's event loop and its poll of the forge
    Leaving,        \* the checks of the runs that left
    Cli,            \* an operator's command
    Free,           \* nobody
    MaxCalls,       \* bound on the operator's calls
    MaxFaults,      \* bound on crashes, failed runs and lost publications
    MaxRevision     \* bound on the work revision

Rounds == Range(Closing)
Goal == Work \cup Rework
Runnable == Goal \cup Rounds

ASSUME DeliveryAssumption ==
    /\ Closing \in Seq(TaskIds)
    /\ \A m, n \in 1..Len(Closing) : Closing[m] = Closing[n] => m = n
    /\ TaskIds = Runnable \cup {MergeGate} /\ MergeGate \notin Runnable
    /\ Goal \cap Rounds = {} /\ Work # {}
    /\ Reviewed \subseteq Work /\ Proposing \subseteq Runnable
    /\ Loop \notin {Poll, Leaving, Cli, Free} /\ Poll \notin {Leaving, Cli, Free}
    /\ Leaving \notin {Cli, Free} /\ Cli # Free
    /\ {Loop, Poll, Leaving, Cli, Free} \cap TaskIds = {}
    /\ Deliveries \subseteq {"local_merge", "pull_request"}
    /\ 1 \in Stamps       \* the stamp of every event
    /\ MaxCalls \in Nat /\ MaxFaults \in Nat /\ MaxRevision \in Nat

\* Every task that may run is a process of its own.
Procs == Runnable \cup {Loop, Leaving, Cli, Poll}

VARIABLES
    trace,          \* the ledger's snapshot
    stamp,          \* when a task was last updated
    clock,          \* ticks when a closing round completes; 0 is no time
    stream,         \* events the reactor has not handled yet
    proc,           \* what every process is doing
    due,            \* runs that left and have not asked for completion yet
    barrier,        \* who evaluates the trail's completion
    git,            \* branch, default branch, worktree, pushed head
    forge,          \* delivery, pull request, the machine's record of it
    evidence,       \* per revision: the completion's directory
    recordedBy,     \* whose capture the recorded completion carries
    heard,          \* announced completions
    calls, faults

vars == <<trace, stamp, clock, stream, proc, due, barrier, git, forge, evidence,
          recordedBy, heard, calls, faults>>
\* What only a capture, a delivery or an operator changes.
records == <<evidence, recordedBy, heard>>
outside == <<git, forge>>
bounds == <<calls, faults>>

Revisions == 1..MaxRevision
Files == {"result", "patch", "metrics"}
Event == [kind: {"plan", "ready", "status", "completed", "proposal", "feedback"},
          id: TaskIds, status: Status, at: Nat]
\* by: whose checkpoint; patch: the checkpoint refers to a patch.
Evidence == [by: Procs \cup {Free}, patch: BOOLEAN, files: SUBSET Files]
NoEvidence == [by |-> Free, patch |-> FALSE, files |-> {}]
Announcement == [revision: Revisions, by: Procs]

Step == {"idle", "spawned", "working", "worked", "failed", "nested", "reopen",
         "wait", "gate", "plan_closing", "ready_closing", "plan_merge",
         "open_merge", "empty_merge", "check", "capture", "fill", "record",
         "announce", "mark", "deliver", "enter", "complete", "discard",
         "remove"}
\* host: who waits for this run; waiting: the gate was waiting when read.
Process == [pc: Step, op: {"none", "approve", "discard", "retry"},
            id: TaskIds \cup {0}, host: Procs \cup {Free},
            revision: 0..MaxRevision, patch: BOOLEAN, waiting: BOOLEAN]
Idle == [pc |-> "idle", op |-> "none", id |-> 0, host |-> Free,
         revision |-> 0, patch |-> FALSE, waiting |-> FALSE]

TaskSpecOf(id) == [phase |-> IF id \in Rounds THEN "closing"
                        ELSE IF id = MergeGate THEN "merge" ELSE "work",
              deps |-> {}, bee |-> NoBee]
PlanOf(ids) == [id \in ids |-> TaskSpecOf(id)]
EventOf(kind, id, status) == [kind |-> kind, id |-> id, status |-> status,
                              at |-> clock]

\* The first work task was kicked; a plan may name the merge gate itself.
Init ==
    /\ \E gates \in SUBSET {MergeGate} :
          trace = ReduceTaskPlan(EmptyTrace, PlanOf(Work \cup gates), FALSE, FALSE, 1)
    /\ stamp = [id \in TaskIds |-> 0] /\ clock = 1
    /\ stream = <<[kind |-> "ready", id |-> CHOOSE id \in Work :
                                            \A o \in Work : id <= o,
                   status |-> "ready", at |-> clock]>>
    /\ proc = [p \in Procs |-> Idle]
    /\ due = 0 /\ barrier = Free
    /\ git = [branch |-> {}, merged |-> {}, pushed |-> {}, worktree |-> FALSE]
    /\ \E d \in Deliveries : forge = [delivery |-> d, pr |-> "none", entry |-> FALSE]
    /\ evidence = [r \in Revisions |-> NoEvidence]
    /\ recordedBy = Free /\ heard = {} /\ calls = 0 /\ faults = 0

StatusOf(id) == trace.tasks[id].status
Goto(p, pc) == proc' = [proc EXCEPT ![p].pc = pc]
InFlight(id) == proc[id].pc # "idle"
Publish(e) == stream' = Append(stream, e)

-----------------------------------------------------------------------------
(* Events *)

ApplyEvent(t, e) ==
    CASE e.kind = "plan" ->
           ReduceTaskPlan(t, PlanOf({e.id}), e.id \in Rounds \cup {MergeGate}, FALSE, 1)
      [] e.kind = "ready" -> ReduceTaskReady(t, e.id, NoBee)
      [] e.kind = "status" -> ReduceTaskStatus(t, e.id, e.status, 1)
      [] e.kind = "completed" -> ReduceTaskCompleted(t, e.id, "completed", 1)
      [] e.kind = "proposal" -> ReduceCodeProposal(t, e.id, "isolated", 1)
      [] OTHER -> t

\* UpdatedAt is the time the event carries, on every application of it.
Stamped(e) == IF e.kind \in {"completed", "proposal"}
              THEN [stamp EXCEPT ![e.id] = e.at] ELSE stamp
Tick(e) == IF e.kind = "completed" /\ e.id \in Rounds THEN clock + 1 ELSE clock

Write(e) ==
    /\ trace' = ApplyEvent(trace, e)
    /\ stamp' = Stamped(e)

\* The tasks an event made ready, for their dispatch.
Promoted(e) ==
    IF e.kind \notin {"plan", "ready", "completed"} THEN {}
    ELSE {id \in Runnable : trace'.tasks[id].status = "ready" /\ StatusOf(id) # "ready"}

\* A dispatch that finds its task in flight is dropped.
Dispatched(ps, ids, host) ==
    [p \in Procs |-> IF p \in ids /\ ps[p].pc = "idle"
                     THEN [Idle EXCEPT !.pc = "spawned", !.host = host] ELSE ps[p]]
Waits(p) == \E r \in Runnable : proc[r].host = p /\ proc[r].pc # "idle"

\* One event at a time; it stays in the stream until it is handled.
TakeEvent ==
    /\ proc[Loop].pc = "idle" /\ stream # <<>>
    /\ barrier = Free
    /\ LET e == Head(stream)
           asked == e.kind = "feedback" /\ e.id \in Reviewed
                    /\ StatusOf(e.id) = "waiting_review"
           next == IF asked THEN "reopen"
                   ELSE IF e.kind = "completed" THEN "gate" ELSE "check"
       IN  /\ Write(e)
           /\ proc' = Dispatched([proc EXCEPT ![Loop].pc = next, ![Loop].id = e.id],
                                 Promoted(e), Free)
    /\ UNCHANGED <<clock, stream, due, barrier, records, outside, bounds>>

\* Feedback on a waiting review dispatches its task before anything else.
Reopen ==
    /\ proc[Loop].pc = "reopen" /\ barrier = Free
    /\ Write(EventOf("status", proc[Loop].id, "ready"))
    /\ proc' = Dispatched([proc EXCEPT ![Loop].pc = "wait"], {proc[Loop].id}, Loop)
    /\ UNCHANGED <<clock, stream, due, barrier, records, outside, bounds>>

Resume ==
    /\ proc[Loop].pc = "wait" /\ ~Waits(Loop)
    /\ Goto(Loop, "check")
    /\ UNCHANGED <<trace, stamp, clock, stream, due, barrier, records, outside, bounds>>

-----------------------------------------------------------------------------
(* A run *)

\* The dispatch does not ask again whether the task is still ready.
StartRun(id) ==
    /\ proc[id].pc = "spawned" /\ barrier = Free
    /\ Write(EventOf("status", id, "running"))
    /\ git' = [git EXCEPT !.worktree = @ \/ id \in Proposing]
    /\ Goto(id, "working")
    /\ UNCHANGED <<clock, stream, due, barrier, records, forge, bounds>>

\* The bee commits on the trail's branch and proposes it, or has nothing.
Propose(id) ==
    /\ proc[id].pc = "working" /\ id \in Proposing /\ git.worktree
    /\ git' = [git EXCEPT !.branch = @ \cup {id}]
    /\ Publish(EventOf("proposal", id, "running"))
    /\ Goto(id, "worked")
    /\ UNCHANGED <<trace, stamp, clock, due, barrier, records, forge, bounds>>

ReportNothing(id) ==
    /\ proc[id].pc = "working"
    /\ Goto(id, "worked")
    /\ UNCHANGED <<trace, stamp, clock, stream, due, barrier, records, outside, bounds>>

FailRun(id) ==
    /\ proc[id].pc = "working" /\ faults < MaxFaults
    /\ Goto(id, "failed")
    /\ faults' = faults + 1
    /\ UNCHANGED <<trace, stamp, clock, stream, due, barrier, records, outside, calls>>

\* A run leaves the in-flight set before it asks whether the work is complete.
SetStatus(id, from, status) ==
    /\ proc[id].pc = from /\ barrier = Free
    /\ Write(EventOf("status", id, status))
    /\ proc' = [proc EXCEPT ![id] = Idle] /\ due' = due + 1
    /\ UNCHANGED <<clock, stream, barrier, records, outside, bounds>>

RecordFailure(id) == SetStatus(id, "failed", "failed")
AwaitReview(id) == id \in Reviewed /\ SetStatus(id, "worked", "waiting_review")

\* The task this completion promotes runs inside this run.
CompleteRun(id) ==
    /\ id \notin Reviewed
    /\ proc[id].pc = "worked" /\ barrier = Free
    /\ LET e == EventOf("completed", id, "completed")
       IN  /\ Write(e) /\ clock' = Tick(e)
           /\ proc' = Dispatched([proc EXCEPT ![id].pc = "nested"], Promoted(e), id)
    /\ UNCHANGED <<stream, due, barrier, records, outside, bounds>>

LeaveNested(id) ==
    /\ proc[id].pc = "nested" /\ ~Waits(id)
    /\ Goto(id, "gate")
    /\ UNCHANGED <<trace, stamp, clock, stream, due, barrier, records, outside, bounds>>

-----------------------------------------------------------------------------
(* The gate: closing rounds first, then the merge gate *)

ClosingRows == {id \in Rounds : StatusOf(id) # "absent"}
RoundOf(id) == CHOOSE n \in 1..Len(Closing) : Closing[n] = id
HighestRound == IF ClosingRows = {} THEN 0
                ELSE Max({RoundOf(id) : id \in ClosingRows})
MergeCompleted == StatusOf(MergeGate) = "completed"
UnfinishedClosing == \E id \in ClosingRows : StatusOf(id) # "completed"
WorkCompletedAfter(id) ==
    \E w \in GoalWork(trace) : StatusOf(w) = "completed" /\ stamp[w] > stamp[id]
CoversLatestWork == HighestRound # 0 /\ ~WorkCompletedAfter(Closing[HighestRound])

NeedsClosing_Unfinished ==
    /\ Closing # <<>> /\ ~MergeCompleted
    /\ AllWorkCompleted(trace)
    /\ HighestRound < Len(Closing)
NeedsClosing ==
    /\ Closing # <<>> /\ ~MergeCompleted
    /\ AllWorkCompleted(trace)
    /\ ~UnfinishedClosing /\ ~CoversLatestWork
    /\ HighestRound < Len(Closing)

Premerge(t) == {id \in Rows(t) : ~IsMerge(t.tasks[id])}
AllPremergeCompleted(t) ==
    Rows(t) # {} /\ \A id \in Premerge(t) : t.tasks[id].status = "completed"
HasWaitingReview == \E id \in TaskIds : StatusOf(id) = "waiting_review"
Undelivered == ~(git.branch \subseteq git.merged)
NeedsMerge_Recorded ==
    \E id \in TaskIds : trace.tasks[id].workspace = "isolated"
NeedsMerge ==
    Undelivered \/ \E id \in TaskIds : trace.tasks[id].workspace = "isolated"

\* What the gate does next, decided once; "done": nothing.
GateStep ==
    CASE NeedsClosing -> "plan_closing"
      [] ~NeedsClosing /\ ~AllPremergeCompleted(trace) -> "done"
      [] OTHER ->
           LET final == StatusOf(MergeGate)
           IN  CASE final = "absent" ->
                      IF NeedsMerge /\ ~HasWaitingReview THEN "plan_merge" ELSE "done"
                 [] final # "absent" /\ ~NeedsMerge ->
                      IF final \in {"completed", "failed", "blocked", "skipped"}
                      THEN "done" ELSE "empty_merge"
                 [] OTHER ->
                      IF final \in {"planned", "ready"} /\ ~HasWaitingReview
                      THEN "open_merge" ELSE "done"

\* A command and a run end with the gate, the loop's boundary goes on.
AfterGate(p) == IF p = Loop THEN [proc EXCEPT ![p].pc = "check"]
                ELSE [proc EXCEPT ![p] = Idle]
\* A run that passed the gate has left.
Passed_Unchecked(p) == UNCHANGED due
Passed(p) == due' = IF p \in Runnable THEN due + 1 ELSE due

DecideGate(p) ==
    /\ proc[p].pc = "gate"
    /\ LET step == GateStep
       IN  IF step = "done" THEN proc' = AfterGate(p) /\ Passed(p)
           ELSE /\ proc' = [proc EXCEPT ![p].pc = step,
                               ![p].id = IF step = "plan_closing"
                                         THEN Closing[HighestRound + 1] ELSE MergeGate]
                /\ UNCHANGED due
    /\ UNCHANGED <<trace, stamp, clock, stream, barrier, records, outside, bounds>>

\* The gate's writes ask for no barrier; an operator's are published too.
GateWrite(p, kind, status) ==
    LET e == EventOf(kind, proc[p].id, status)
    IN  /\ Write(e)
        /\ IF p = Cli THEN Publish(e) ELSE UNCHANGED stream
        /\ UNCHANGED <<clock, barrier, records, outside, bounds>>

PlanClosing(p) ==
    /\ proc[p].pc = "plan_closing"
    /\ GateWrite(p, "plan", "planned")
    /\ Goto(p, "ready_closing") /\ UNCHANGED due
\* Only the reactor dispatches the round it seeded.
Dispatchers(p) == IF p = Cli THEN {} ELSE Runnable
ReadyClosing(p) ==
    /\ proc[p].pc = "ready_closing"
    /\ GateWrite(p, "ready", "ready")
    /\ proc' = Dispatched(AfterGate(p), {proc[p].id} \cap Dispatchers(p), Free)
    /\ Passed(p)
PlanMerge(p) ==
    /\ proc[p].pc = "plan_merge"
    /\ GateWrite(p, "plan", "planned")
    /\ Goto(p, "open_merge") /\ UNCHANGED due
\* Whatever the row has become since.
OpenMerge(p) ==
    /\ proc[p].pc = "open_merge"
    /\ GateWrite(p, "status", "waiting_review")
    /\ proc' = AfterGate(p) /\ Passed(p)
EmptyMerge(p) ==
    /\ proc[p].pc = "empty_merge"
    /\ GateWrite(p, "completed", "completed")
    /\ proc' = AfterGate(p) /\ Passed(p)

Gate(p) == \/ DecideGate(p) \/ PlanClosing(p) \/ ReadyClosing(p)
           \/ PlanMerge(p) \/ OpenMerge(p) \/ EmptyMerge(p)

-----------------------------------------------------------------------------
(* The completion check, under the barrier *)

Checkers == {Loop, Leaving}
\* The loop is done with its event.
Left(p) == proc' = [proc EXCEPT ![p] = Idle]
Leave(p) ==
    /\ Left(p) /\ barrier' = Free
    /\ stream' = IF p = Loop THEN Tail(stream) ELSE stream

Unpublished_Ignored == FALSE
Unpublished == trace.completion.revision # 0 /\ ~trace.completion.published
WorkInFlight == \E id \in Runnable : InFlight(id)
\* May the current revision be certified?
Certifiable_WorkInFlight ==
    trace.completion.revision # trace.workRevision /\ WorkComplete(trace)
Certifiable ==
    /\ trace.completion.revision # trace.workRevision
    /\ WorkComplete(trace)
    /\ ~WorkInFlight

\* A recorded completion that was not announced comes first.
Owes(p) == proc[p].pc = "check" \/ (p = Leaving /\ proc[p].pc = "idle" /\ due > 0)
Check(p) ==
    /\ Owes(p) /\ barrier \in {Free, p}
    /\ due' = IF proc[p].pc = "idle" THEN due - 1 ELSE due
    /\ IF Unpublished \/ Certifiable
       THEN /\ barrier' = p /\ UNCHANGED stream
            /\ proc' = [proc EXCEPT ![p].pc = IF Unpublished THEN "announce" ELSE "capture",
                                    ![p].op = IF Unpublished THEN "retry" ELSE "none",
                                    ![p].revision = IF Unpublished
                                                    THEN trace.completion.revision
                                                    ELSE trace.workRevision]
       ELSE Leave(p)
    /\ UNCHANGED <<trace, stamp, clock, records, outside, bounds>>

LinkCheckpoint(p) ==
    evidence' = [evidence EXCEPT ![proc[p].revision] =
                    IF @.by = Free
                    THEN [by |-> p, patch |-> git.worktree /\ Undelivered, files |-> {}]
                    ELSE @]

\* The worktree is read before the checkpoint is linked.
Capture(p) ==
    /\ proc[p].pc = "capture"
    /\ LinkCheckpoint(p)
    /\ proc' = [proc EXCEPT ![p].pc = "fill", ![p].patch = git.worktree /\ Undelivered]
    /\ UNCHANGED <<trace, stamp, clock, stream, due, barrier, recordedBy, heard, outside, bounds>>

\* What is missing is written, what is there is kept.
AfterFill(p) ==
    CASE p = Cli -> "deliver" [] p = Poll -> "complete" [] OTHER -> "record"
Fill(p) ==
    /\ proc[p].pc = "fill"
    /\ LET r == proc[p].revision
       IN  evidence' = [evidence EXCEPT ![r].files = @ \cup {"result", "metrics"} \cup
                IF evidence[r].patch /\ proc[p].patch THEN {"patch"} ELSE {}]
    /\ Goto(p, AfterFill(p))
    /\ UNCHANGED <<trace, stamp, clock, stream, due, barrier, recordedBy, heard, outside, bounds>>

\* The time that is recorded is the checkpoint's, not this capture's.
RecordedCapture_Own(p) == p
RecordedCapture(p) == evidence[proc[p].revision].by
Record(p) ==
    /\ proc[p].pc = "record"
    /\ trace' = RecordWorkCompletion(trace, proc[p].revision)
    /\ recordedBy' = IF trace.completion.revision = proc[p].revision THEN recordedBy
                     ELSE RecordedCapture(p)
    /\ Goto(p, "announce")
    /\ UNCHANGED <<stamp, clock, stream, due, barrier, evidence, heard, outside, bounds>>

Announce(p) ==
    /\ proc[p].pc = "announce"
    /\ heard' = heard \cup {[revision |-> trace.completion.revision, by |-> recordedBy]}
    /\ Goto(p, "mark")
    /\ UNCHANGED <<trace, stamp, clock, stream, due, barrier, evidence, recordedBy, outside, bounds>>

\* The next boundary, or the next start, tries again.
AnnounceFails(p) ==
    /\ proc[p].pc = "announce" /\ faults < MaxFaults
    /\ faults' = faults + 1
    /\ Leave(p)
    /\ UNCHANGED <<trace, stamp, clock, due, records, outside, calls>>

\* A retried announcement goes on to the current revision.
Mark(p) ==
    /\ proc[p].pc = "mark"
    /\ trace' = MarkWorkCompletionPublished(trace)
    /\ IF proc[p].op = "retry" THEN Goto(p, "check") /\ UNCHANGED <<stream, barrier>>
       ELSE Leave(p)
    /\ UNCHANGED <<stamp, clock, due, records, outside, bounds>>

Complete(p) == \/ Check(p) \/ Record(p) \/ Announce(p) \/ Mark(p)

-----------------------------------------------------------------------------
(* The operator's commands *)

\* A command reads one snapshot; its writes come later.
IsReviewGate(id) == id = MergeGate \/ id \in Reviewed
Approvable(id) == id = MergeGate => AllPremergeCompleted(trace)
Evidenced_Recorded ==
    WorkComplete(trace) /\ trace.completion.revision = trace.workRevision
Evidenced == WorkComplete(trace) /\ trace.workRevision # 0

Approve(id) ==
    /\ proc[Cli].pc = "idle" /\ calls < MaxCalls
    /\ IsReviewGate(id) /\ StatusOf(id) = "waiting_review"
    /\ Approvable(id)
    /\ calls' = calls + 1
    /\ proc' = [proc EXCEPT ![Cli] = [Idle EXCEPT
            !.pc = IF Evidenced THEN "capture" ELSE "deliver",
            !.op = "approve", !.id = id, !.revision = trace.workRevision]]
    /\ UNCHANGED <<trace, stamp, clock, stream, due, barrier, records, outside, faults>>

\* A task that is not the merge gate delivers nothing.
ApproveTask ==
    /\ proc[Cli].pc = "deliver" /\ proc[Cli].id # MergeGate
    /\ Goto(Cli, "complete")
    /\ UNCHANGED <<trace, stamp, clock, stream, due, barrier, records, outside, bounds>>

\* The branch as it is now is merged, and the worktree goes with it.
MergeLocally ==
    /\ proc[Cli].pc = "deliver" /\ proc[Cli].id = MergeGate
    /\ forge.delivery = "local_merge"
    /\ git' = IF git.worktree
              THEN [git EXCEPT !.merged = @ \cup git.branch, !.worktree = FALSE]
              ELSE git
    /\ Goto(Cli, "complete")
    /\ UNCHANGED <<trace, stamp, clock, stream, due, barrier, records, forge, bounds>>

\* The gate keeps waiting until the forge reports the merge.
PublishPullRequest ==
    /\ proc[Cli].pc = "deliver" /\ proc[Cli].id = MergeGate
    /\ forge.delivery = "pull_request"
    /\ IF git.worktree
       THEN /\ git' = [git EXCEPT !.pushed = git.branch]
            /\ forge' = [forge EXCEPT !.pr = "open"]
            /\ Goto(Cli, "enter")
       ELSE UNCHANGED outside /\ Left(Cli)
    /\ UNCHANGED <<trace, stamp, clock, stream, due, barrier, records, bounds>>
EnterPullRequest ==
    /\ proc[Cli].pc = "enter"
    /\ forge' = [forge EXCEPT !.entry = TRUE]
    /\ Left(Cli)
    /\ UNCHANGED <<trace, stamp, clock, stream, due, barrier, records, git, bounds>>

\* The operator's process completes the task in the shared ledger itself.
CompleteApproved ==
    /\ proc[Cli].pc = "complete"
    /\ LET e == EventOf("completed", proc[Cli].id, "completed")
       IN  Write(e) /\ Publish(e)
    /\ Goto(Cli, "gate")
    /\ UNCHANGED <<clock, due, barrier, records, outside, bounds>>

Discard(id) ==
    /\ proc[Cli].pc = "idle" /\ calls < MaxCalls
    /\ IsReviewGate(id) /\ StatusOf(id) = "waiting_review"
    /\ calls' = calls + 1
    /\ proc' = [proc EXCEPT ![Cli] = [Idle EXCEPT !.pc = "discard", !.id = id,
                                                   !.op = "discard"]]
    /\ UNCHANGED <<trace, stamp, clock, stream, due, barrier, records, outside, faults>>
WriteDiscard ==
    /\ proc[Cli].pc = "discard"
    /\ LET e == EventOf("status", proc[Cli].id, "cancelled")
       IN  Write(e) /\ Publish(e)
    /\ Left(Cli)
    /\ UNCHANGED <<clock, due, barrier, records, outside, bounds>>

Proposed(id) == StatusOf(id) = "completed" /\ trace.tasks[id].workspace = "isolated"
InFlightRework ==
    \E id \in Runnable :
        StatusOf(id) \in {"planned", "ready", "running", "waiting_review", "blocked"}
NextRework == {id \in Rework : StatusOf(id) = "absent" /\
                  \A o \in Rework : StatusOf(o) = "absent" => id <= o}

\* Comments on the merge gate: a plan and its kick, published only.
RequestChanges ==
    /\ proc[Cli].pc = "idle" /\ calls < MaxCalls
    /\ StatusOf(MergeGate) = "waiting_review"
    /\ ~InFlightRework /\ \E id \in Goal : Proposed(id)
    /\ \E id \in NextRework :
          stream' = stream \o <<EventOf("plan", id, "planned"), EventOf("ready", id, "ready")>>
    /\ calls' = calls + 1
    /\ UNCHANGED <<trace, stamp, clock, proc, due, barrier, records, outside, faults>>

\* A review is sent back with feedback, published only.
Reject(id) ==
    /\ proc[Cli].pc = "idle" /\ calls < MaxCalls
    /\ id \in Reviewed /\ StatusOf(id) = "waiting_review"
    /\ Publish(EventOf("feedback", id, "unset"))
    /\ calls' = calls + 1
    /\ UNCHANGED <<trace, stamp, clock, proc, due, barrier, records, outside, faults>>

Retry(id) ==
    /\ proc[Cli].pc = "idle" /\ calls < MaxCalls
    /\ StatusOf(id) \in {"failed", "running"}
    /\ Publish(EventOf("ready", id, "ready"))
    /\ calls' = calls + 1
    /\ UNCHANGED <<trace, stamp, clock, proc, due, barrier, records, outside, faults>>

-----------------------------------------------------------------------------
(* The forge, and the reactor's poll of it *)

ForgeMerges ==
    /\ forge.pr = "open"
    /\ forge' = [forge EXCEPT !.pr = "merged"]
    /\ git' = [git EXCEPT !.merged = @ \cup git.pushed]
    /\ UNCHANGED <<trace, stamp, clock, stream, proc, due, barrier, records, bounds>>

\* One snapshot serves the evidence and the gate.
PollMerged ==
    /\ proc[Poll].pc = "idle" /\ forge.entry /\ forge.pr = "merged"
    /\ proc' = [proc EXCEPT ![Poll] = [Idle EXCEPT
            !.pc = IF Evidenced THEN "capture" ELSE "complete",
            !.revision = trace.workRevision,
            !.waiting = StatusOf(MergeGate) = "waiting_review"]]
    /\ UNCHANGED <<trace, stamp, clock, stream, due, barrier, records, outside, bounds>>
CompleteDelivered ==
    /\ proc[Poll].pc = "complete"
    /\ IF proc[Poll].waiting THEN Write(EventOf("completed", MergeGate, "completed"))
       ELSE UNCHANGED <<trace, stamp>>
    /\ Goto(Poll, "remove")
    /\ UNCHANGED <<clock, stream, due, barrier, records, outside, bounds>>
\* The checkout and its branch go, whoever uses them.
RemoveDelivered ==
    /\ proc[Poll].pc = "remove"
    /\ git' = [git EXCEPT !.worktree = FALSE, !.branch = {}]
    /\ forge' = [forge EXCEPT !.entry = FALSE]
    /\ Left(Poll)
    /\ UNCHANGED <<trace, stamp, clock, stream, due, barrier, records, bounds>>

-----------------------------------------------------------------------------
(* Crash and restart *)

\* The reactor dies and is started again: rows stay as they are, the event in
\* hand is delivered again, a recorded completion is announced.
Crash ==
    /\ faults < MaxFaults
    /\ faults' = faults + 1
    /\ barrier' = Free
    /\ proc' = [p \in Procs |-> IF p = Cli THEN proc[p] ELSE Idle]
    /\ due' = IF Unpublished THEN 1 ELSE 0
    /\ UNCHANGED <<trace, stamp, clock, stream, records, outside, calls>>

LoopStep == TakeEvent \/ Reopen \/ Resume
RunStep(id) ==
    \/ StartRun(id) \/ Propose(id) \/ ReportNothing(id) \/ RecordFailure(id)
    \/ AwaitReview(id) \/ CompleteRun(id) \/ LeaveNested(id)
CliStep ==
    \/ ApproveTask \/ MergeLocally \/ PublishPullRequest \/ EnterPullRequest
    \/ CompleteApproved \/ WriteDiscard
PollStep == PollMerged \/ CompleteDelivered \/ RemoveDelivered
Operator ==
    \/ \E id \in TaskIds : Approve(id) \/ Discard(id) \/ Reject(id) \/ Retry(id)
    \/ RequestChanges
Fault == Crash \/ \E p \in Procs : AnnounceFails(p) \/ (p \in Runnable /\ FailRun(p))

Advance(p) ==
    \/ p \in Runnable \cup {Loop, Cli} /\ Gate(p)
    \/ p \in Checkers /\ Complete(p)
    \/ Capture(p) \/ Fill(p)
    \/ p = Loop /\ LoopStep
    \/ p = Cli /\ CliStep
    \/ p = Poll /\ PollStep
    \/ p \in Runnable /\ RunStep(p)

Next == (\E p \in Procs : Advance(p)) \/ Operator \/ ForgeMerges \/ Fault

\* Every process goes on; operators, the forge and faults owe nothing.
Spec == Init /\ [][Next]_vars /\ \A p \in Procs : WF_vars(Advance(p))

-----------------------------------------------------------------------------
(* Properties *)

TypeOK ==
    /\ trace \in Trace /\ trace.workRevision <= MaxRevision
    /\ stamp \in [TaskIds -> Nat] /\ clock \in Nat
    /\ stream \in Seq(Event)
    /\ proc \in [Procs -> Process]
    /\ due \in Nat /\ barrier \in Checkers \cup {Free}
    /\ git \in [branch: SUBSET Runnable, merged: SUBSET Runnable,
                pushed: SUBSET Runnable, worktree: BOOLEAN]
    /\ forge \in [delivery: Deliveries, pr: {"none", "open", "merged"},
                  entry: BOOLEAN]
    /\ evidence \in [Revisions -> Evidence]
    /\ recordedBy \in Procs \cup {Free}
    /\ heard \subseteq Announcement
    /\ calls \in 0..MaxCalls /\ faults \in 0..MaxFaults

Readable(e) == e.by # Free /\ {"result", "metrics"} \subseteq e.files

(* What was announced can be read: its checkpoint, result and metrics are  *)
(* there and carry the announced identity, whichever of the reactor, an    *)
(* approval and the poll captured what (publishCompletion,                 *)
(* WriteWorkCompletion).                                                   *)
AnnouncedIsEvidenced ==
    \A a \in heard : /\ Readable(evidence[a.revision])
                     /\ evidence[a.revision].by = a.by

(* An approval of the merge gate delivers only a revision whose result and *)
(* metrics are kept, the worktree goes next; and where closing rounds only *)
(* review, nothing is merged before a completion has kept the patch of it  *)
(* (ensureWorkCompletionEvidence).  A round that edits may be delivered    *)
(* without: it does not move the revision, whose evidence is taken once.   *)
Delivering == proc[Cli].pc \in {"deliver", "enter"} /\ proc[Cli].id = MergeGate
DeliveredIsEvidenced ==
    /\ Delivering => Readable(evidence[proc[Cli].revision])
    /\ Proposing \cap Rounds = {} /\ git.merged # {} =>
          \E r \in Revisions : Readable(evidence[r]) /\ "patch" \in evidence[r].files

(* While the certified revision is the trail's current one, no task of the *)
(* goal runs and none is unfinished: a run that is still finishing holds   *)
(* the milestone, and one that starts again moves the revision             *)
(* (workInvocationInFlight, reduceTaskStatus).  A late discard may still   *)
(* cancel a task: it moves nothing.                                        *)
CertifiedWorkIsIdle ==
    trace.completion.revision # 0 /\ trace.completion.revision = trace.workRevision
        => \A id \in Goal : /\ ~InFlight(id)
                            /\ StatusOf(id) \in {"absent", "unset", "completed", "cancelled"}

(* Gates that decide at the same time (the loop's, a run's, an operator's) *)
(* open one closing round, and none opens over a round that has never      *)
(* completed or proposed anything (ensureClosingRound).  A round that has  *)
(* may run again beside it: a gate that was overtaken between its decision *)
(* and its kick dispatches its round whatever became of it.                *)
OneClosingRound ==
    \A a, b \in ClosingRows : stamp[a] = 0 /\ stamp[b] = 0 => a = b

Certified == INSTANCE Milestone WITH
    certified <- trace.completion.revision, by <- recordedBy,
    published <- trace.completion.published,
    Captures <- Procs, Nobody <- Free
(* The reactor's processes keep the milestone's promises, across failed    *)
(* publications, crashes and the captures of operators and the poll.       *)
KeepsMilestone == Certified!Spec

(* Work that is complete and stays so is announced: some boundary sees it  *)
(* (runDispatch, maybeCompleteWork: every leaving run checks after it      *)
(* left).                                                                  *)
CompletedWorkIsAnnounced ==
    \A r \in Revisions :
        (WorkComplete(trace) /\ trace.workRevision = r)
            ~> (\/ \E a \in heard : a.revision = r
                \/ ~WorkComplete(trace) \/ trace.workRevision # r)

(* A trail that has finished its work and closing rounds and has something *)
(* to merge comes to its merge gate (EnsureTrailPhases).                   *)
FinishedTrailReachesGate ==
    (AllPremergeCompleted(trace) /\ ~NeedsClosing /\ Undelivered)
        ~> (\/ StatusOf(MergeGate) \notin {"absent", "planned", "ready"}
            \/ ~AllPremergeCompleted(trace) \/ NeedsClosing \/ ~Undelivered)

=============================================================================
