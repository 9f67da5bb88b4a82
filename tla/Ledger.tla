------------------------------- MODULE Ledger -------------------------------
(***************************************************************************)
(* One trail's task ledger (internal/taskledger): the TraceSnapshot record *)
(* and the pure reducers that turn one snapshot into the next.  Nothing    *)
(* here has state; TaskLedger.tla makes the reducers actions, LedgerCAS    *)
(* runs them through the KV compare-and-set loop and HoneyDispatch calls   *)
(* them from the reactor's goroutines.                                     *)
(*                                                                         *)
(* Task ids are numbers, so that their order can break ties as the code's  *)
(* string order does.  Titles, bodies, summaries and timestamps other than *)
(* createdAt are left out: no reducer branches on them.                    *)
(*                                                                         *)
(* An operator whose name has an underscore (CanDefer_AfterKill) is a      *)
(* seeded fault of the operator it precedes: the README's mutation table   *)
(* names the property each one breaks.  No specification uses them.        *)
(***************************************************************************)
EXTENDS Naturals, Sequences

CONSTANTS
    TaskIds,        \* task ids a trail may name
    Bees, NoBee,    \* bee roles; NoBee is an omitted bee
    Sources,        \* source events a direct dispatch may react to
    Stamps,         \* createdAt stamps an event may carry
    DefaultBudget   \* honey a first dispatch seeds

ASSUME IdsAssumption ==
    /\ TaskIds \subseteq Nat \ {0}
    /\ Sources \subseteq Nat
    /\ Stamps \subseteq Nat
    /\ NoBee \notin Bees
ASSUME BudgetAssumption == DefaultBudget \in Nat \ {0}

-----------------------------------------------------------------------------
(* Types *)

\* "absent" is a missing map key, "unset" a row whose Status is still "".
Status == {"absent", "unset", "planned", "ready", "running", "waiting_review",
           "completed", "failed", "blocked", "cancelled", "skipped"}

\* "none" is a row no task.plan registered; it reads as work.
Phase == {"none", "work", "closing", "merge"}

Workspace == {"none", "isolated", "root"}

Task == [status: Status, phase: Phase, analysis: BOOLEAN,
         deps: SUBSET TaskIds, bee: Bees \cup {NoBee},
         created: Stamps \cup {0}, workspace: Workspace]

NoRow == [status |-> "absent", phase |-> "none", analysis |-> FALSE,
          deps |-> {}, bee |-> NoBee, created |-> 0, workspace |-> "none"]

\* A kick that arrived before its plan (pendingReady).
Kick == [task: TaskIds, bee: Bees \cup {NoBee}]
NoKick == [task |-> 0, bee |-> NoBee]

EntryStatus == {"pending", "consumed", "abandoned", "unresolved"}

DispatchId ==
    [kind: {"task"}, subject: TaskIds, bee: Bees \cup {NoBee}] \cup
    [kind: {"direct"}, subject: Sources, bee: Bees \cup {NoBee}]

\* held: the entry waits on a configuration barrier, not on honey.
Entry == [id: DispatchId, held: BOOLEAN, analysis: BOOLEAN, status: EntryStatus]

Trace == [tasks: [TaskIds -> Task], parked: Kick \cup {NoKick},
          budget: Nat, remaining: Nat, added: Nat,
          seed: {"none", "unpublished", "published"},
          pending: Seq(Entry), pause: {"none", "open", "published"},
          killed: BOOLEAN, workRevision: Nat,
          completion: [revision: Nat, published: BOOLEAN]]

EmptyTrace ==
    [tasks |-> [id \in TaskIds |-> NoRow], parked |-> NoKick,
     budget |-> 0, remaining |-> 0, added |-> 0, seed |-> "none",
     pending |-> <<>>, pause |-> "none", killed |-> FALSE,
     workRevision |-> 0,
     completion |-> [revision |-> 0, published |-> FALSE]]

\* A plan maps the ids it names to what their author wrote.
TaskSpec == [phase: {"work", "closing", "merge"}, deps: SUBSET TaskIds,
          bee: Bees \cup {NoBee}]
Plan == UNION {[ids -> TaskSpec] : ids \in SUBSET TaskIds}

-----------------------------------------------------------------------------
(* Reading a snapshot *)

Registered(row) == row.status \notin {"absent", "unset"}
PhaseOf(row) == IF row.phase = "none" THEN "work" ELSE row.phase
IsMerge(row) == PhaseOf(row) = "merge"
IsClosing(row) == PhaseOf(row) = "closing"
IsGoalWork(row) == ~row.analysis /\ PhaseOf(row) = "work"

Rows(t) == {id \in TaskIds : t.tasks[id].status # "absent"}
GoalWork(t) == {id \in Rows(t) : IsGoalWork(t.tasks[id])}

AllWorkCompleted(t) ==
    /\ GoalWork(t) # {}
    /\ \A id \in GoalWork(t) : t.tasks[id].status = "completed"

HasReadyTask(t) == \E id \in TaskIds : t.tasks[id].status = "ready"

EligiblePlanned(t) ==
    {id \in TaskIds :
        /\ t.tasks[id].status = "planned"
        /\ ~IsMerge(t.tasks[id])
        /\ IsClosing(t.tasks[id]) => AllWorkCompleted(t)
        /\ \A d \in t.tasks[id].deps : t.tasks[d].status = "completed"}

\* Oldest planned first, the id breaking ties; an unstamped row goes last.
Precedes(t, a, b) ==
    LET ca == t.tasks[a].created
        cb == t.tasks[b].created
    IN  \/ ca # 0 /\ cb = 0
        \/ (ca # 0 <=> cb # 0) /\ ca < cb
        \/ ca = cb /\ a < b

IsFirstEligible(t, id) ==
    /\ id \in EligiblePlanned(t)
    /\ \A o \in EligiblePlanned(t) \ {id} : Precedes(t, id, o)

Active(entry) == entry.status = "pending"
ActiveEntries(t) == {i \in 1..Len(t.pending) : Active(t.pending[i])}
HoneyWaiting(t) == {i \in ActiveEntries(t) : ~t.pending[i].held}
WaitsFor(t, i, id) ==
    t.pending[i].id.kind = "task" /\ t.pending[i].id.subject = id

\* EvaluateWorkCompletion: may the current goal work be announced complete?
WorkComplete(t) ==
    /\ ~t.killed
    /\ GoalWork(t) # {}
    /\ \A i \in ActiveEntries(t) : t.pending[i].analysis
    /\ \A id \in Rows(t) :
          \/ IsMerge(t.tasks[id])
          \/ t.tasks[id].analysis
          \/ t.tasks[id].status = "completed"

CloseEntries(t, which, status) ==
    [t EXCEPT !.pending =
        [i \in 1..Len(t.pending) |->
            IF i \in which THEN [t.pending[i] EXCEPT !.status = status]
            ELSE t.pending[i]]]

-----------------------------------------------------------------------------
(* Tasks *)

AdvanceWorkRevision(t) == [t EXCEPT !.workRevision = @ + 1]

IsReworkReturn(status) ==
    status \in {"completed", "failed", "cancelled", "waiting_review"}

Overlay(bee, kicked) == IF kicked = NoBee THEN bee ELSE kicked

\* taskOrNew + withCreatedAt: the row, stamped if it is new.
StampedRow(t, id, now) ==
    [t.tasks[id] EXCEPT !.created = IF @ = 0 THEN now ELSE @]

PromoteParked(t) ==
    LET k == t.parked
    IN  IF /\ k # NoKick
           /\ ~t.killed
           /\ ~HasReadyTask(t)
           /\ IsFirstEligible(t, k.task)
        THEN [t EXCEPT !.tasks[k.task].status = "ready",
                       !.tasks[k.task].bee = Overlay(@, k.bee),
                       !.parked = NoKick]
        ELSE t

PromoteFirstEligible(t) ==
    [t EXCEPT !.tasks =
        [id \in TaskIds |->
            IF ~t.killed /\ ~HasReadyTask(t) /\ IsFirstEligible(t, id)
            THEN [t.tasks[id] EXCEPT !.status = "ready"]
            ELSE t.tasks[id]]]

DropStaleKick_Skipped(t) == t

\* The housekeeping every applied event ends with.
DropStaleKick(t) ==
    IF t.parked # NoKick
       /\ t.tasks[t.parked.task].status \notin {"absent", "unset", "planned"}
    THEN [t EXCEPT !.parked = NoKick]
    ELSE t

\* Only the runtime may author a closing round.
PlannedPhase(phase, runtime) ==
    IF phase = "closing" /\ ~runtime THEN "work" ELSE phase

PlannedRow(spec, runtime, analysis, now) ==
    [status |-> "planned", phase |-> PlannedPhase(spec.phase, runtime),
     analysis |-> analysis, deps |-> spec.deps, bee |-> spec.bee,
     created |-> now, workspace |-> "none"]

ReduceTaskPlan(t, plan, runtime, analysis, now) ==
    LET fresh == {id \in DOMAIN plan : ~Registered(t.tasks[id])}
        planned ==
            [t EXCEPT !.tasks =
                [id \in TaskIds |->
                    IF id \in fresh
                    THEN PlannedRow(plan[id], runtime, analysis, now)
                    ELSE t.tasks[id]]]
        accepted == \E id \in fresh : IsGoalWork(planned.tasks[id])
    IN  DropStaleKick(PromoteParked(
            IF accepted THEN AdvanceWorkRevision(planned) ELSE planned))

ReduceTaskReady(t, id, bee) ==
    LET row == t.tasks[id]
        requeued == [t EXCEPT !.tasks[id].status = "ready",
                              !.tasks[id].bee = Overlay(@, bee)]
    IN  IF t.killed THEN t
        ELSE IF ~Registered(row)
        THEN DropStaleKick([t EXCEPT !.parked = [task |-> id, bee |-> bee],
                                     !.tasks[id] = NoRow])
        ELSE IF row.status \in {"failed", "running"}
        THEN DropStaleKick(
                IF IsGoalWork(row) /\ IsReworkReturn(row.status)
                THEN AdvanceWorkRevision(requeued)
                ELSE requeued)
        ELSE IF ~HasReadyTask(t) /\ IsFirstEligible(t, id)
        THEN DropStaleKick(requeued)
        ELSE t      \* refreshed overlays are not written: Changed is false

\* Admission and the deferral record close in one mutation.
ConsumeTaskEntries(t, id) ==
    CloseEntries(t, {i \in HoneyWaiting(t) : WaitsFor(t, i, id)}, "consumed")

ReduceTaskStatus(t, id, status, now) ==
    LET previous == t.tasks[id].status
        moved == [t EXCEPT !.tasks[id] =
                    [StampedRow(t, id, now) EXCEPT !.status = status]]
        reopened ==
            IF /\ IsGoalWork(t.tasks[id])
               /\ IsReworkReturn(previous)
               /\ status \in {"ready", "running"}
            THEN AdvanceWorkRevision(moved)
            ELSE moved
    IN  IF t.killed THEN t
        ELSE DropStaleKick(
                IF status = "running" THEN ConsumeTaskEntries(reopened, id)
                ELSE reopened)

ReduceTaskCompleted(t, id, status, now) ==
    IF t.killed THEN t
    ELSE DropStaleKick(PromoteFirstEligible(PromoteParked(
            [t EXCEPT !.tasks[id] =
                [StampedRow(t, id, now) EXCEPT !.status = status]])))

ReduceCodeProposal(t, id, workspace, now) ==
    LET row == StampedRow(t, id, now)
    IN  DropStaleKick([t EXCEPT !.tasks[id] =
            [row EXCEPT !.workspace = workspace,
                        !.status = IF @ = "absent" THEN "unset" ELSE @]])

-----------------------------------------------------------------------------
(* Kill *)

Killable(status) ==
    status \notin {"absent", "completed", "failed", "cancelled", "skipped"}

AbandonEntries(t) == CloseEntries(t, ActiveEntries(t), "abandoned")

ReduceSystemKill(t) ==
    IF t.killed THEN t
    ELSE [AbandonEntries(t) EXCEPT
            !.killed = TRUE,
            !.parked = NoKick,
            !.tasks = [id \in TaskIds |->
                IF Killable(t.tasks[id].status)
                THEN [t.tasks[id] EXCEPT !.status = "cancelled"]
                ELSE t.tasks[id]]]

-----------------------------------------------------------------------------
(* Honey *)

EnsureEnergySeed(t) ==
    IF t.seed # "none" \/ t.budget > 0 THEN t
    ELSE [t EXCEPT !.seed = "unpublished",
                   !.added = 0,
                   !.budget = DefaultBudget,
                   !.remaining = IF @ = 0 THEN DefaultBudget ELSE @]

MarkEnergySeedPublished(t) == [t EXCEPT !.seed = "published"]

ReduceEnergyAdd(t, amount) ==
    DropStaleKick([t EXCEPT !.remaining = @ + amount,
                            !.added = IF t.budget > 0 THEN @ + amount ELSE @])

CanConsume(t, amount) == t.remaining >= amount
ReduceEnergyConsume(t, amount) ==
    DropStaleKick([t EXCEPT !.remaining = @ - amount])

\* A stipend closes what the previous allocation left waiting, task and entry
\* together, and ends the pause episode.
SupersedeEntries(t) ==
    LET superseded == {id \in TaskIds :
            /\ t.tasks[id].status = "ready"
            /\ \E i \in HoneyWaiting(t) : WaitsFor(t, i, id)}
    IN  [CloseEntries(t, HoneyWaiting(t), "abandoned") EXCEPT
            !.tasks = [id \in TaskIds |->
                IF id \in superseded
                THEN [t.tasks[id] EXCEPT !.status = "skipped"]
                ELSE t.tasks[id]]]

ReduceEnergyStipend(t, amount) ==
    DropStaleKick([SupersedeEntries(t) EXCEPT !.remaining = amount,
                                              !.pause = "none"])

-----------------------------------------------------------------------------
(* Deferred dispatches and the pause episode *)

TaskDispatch(id, bee) == [kind |-> "task", subject |-> id, bee |-> bee]
DirectDispatch(source, bee) ==
    [kind |-> "direct", subject |-> source, bee |-> bee]

WithId(t, id) == {i \in 1..Len(t.pending) : t.pending[i].id = id}
ActiveWithId(t, id) == WithId(t, id) \cap ActiveEntries(t)

CanDefer_AfterKill(t, id) == ActiveWithId(t, id) = {}
CanDefer_Again(t, id) == ~t.killed

CanDefer(t, id) == ~t.killed /\ ActiveWithId(t, id) = {}

DeferPendingDispatch(t, id, held, analysis) ==
    IF ~CanDefer(t, id) THEN t
    ELSE [t EXCEPT
            !.pending = Append(@, [id |-> id, held |-> held,
                                   analysis |-> analysis,
                                   status |-> "pending"]),
            !.pause = IF ~held /\ t.remaining = 0 /\ @ = "none"
                      THEN "open" ELSE @]

\* The oldest active entry with this id, or the newest closed one.
ResolveTarget(t, id) ==
    {i \in WithId(t, id) :
        IF ActiveWithId(t, id) # {}
        THEN i \in ActiveWithId(t, id) /\ \A j \in ActiveWithId(t, id) : i <= j
        ELSE \A j \in WithId(t, id) : j <= i}

ResolvePendingDispatch(t, id, status) ==
    CloseEntries(t, ResolveTarget(t, id), status)

MarkPendingDispatchUnresolved(t, id) ==
    IF ActiveWithId(t, id) = {} THEN t
    ELSE ResolvePendingDispatch(t, id, "unresolved")

CanClaimPause(t) == t.pause = "open"
ClaimEnergyPausePublished(t) == [t EXCEPT !.pause = "published"]
CloseEnergyPause(t) == [t EXCEPT !.pause = "none"]

-----------------------------------------------------------------------------
(* Work completion *)

RecordWorkCompletion(t, revision) ==
    IF t.completion.revision = revision THEN t
    ELSE [t EXCEPT !.completion = [revision |-> revision, published |-> FALSE]]

MarkWorkCompletionPublished(t) == [t EXCEPT !.completion.published = TRUE]
=============================================================================
