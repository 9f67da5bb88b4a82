----------------------------- MODULE TaskLedger -----------------------------
(***************************************************************************)
(* One trail's ledger as a sequential object: every bus event the reducer  *)
(* owns and every ledger operation the runtime calls is one atomic step.   *)
(* This is what the ledger promises its writers; LedgerCAS shows that the  *)
(* KV store's compare-and-set loop keeps the promise.  A condition the     *)
(* caller read off an earlier snapshot is no guard of the operation: the   *)
(* ledger may have moved on before the call.                               *)
(***************************************************************************)
EXTENDS Ledger

CONSTANTS
    Plans,              \* the task.plan payloads that may arrive
    StatusEvents,       \* statuses a task.status event may carry
    CompletedEvents,    \* statuses a task.completed event may carry
    Workspaces,         \* workspaces a code.proposal may name
    Analyses,           \* whether a run may study a result (purpose analysis)
    Amounts,            \* honey amounts
    MaxHoney,           \* bound on the honey a trail may be given
    MaxEntries,         \* bound on the deferred-dispatch queue
    MaxRevision         \* bound on the work revision

ASSUME EventAssumption ==
    /\ Plans \subseteq Plan
    /\ StatusEvents \subseteq Status \ {"absent", "unset"}
    /\ CompletedEvents \subseteq Status \ {"absent", "unset"}
    /\ Workspaces \subseteq Workspace
    /\ Analyses \subseteq BOOLEAN
    /\ Amounts \subseteq Nat \ {0}
    /\ MaxHoney \in Nat /\ MaxEntries \in Nat /\ MaxRevision \in Nat

VARIABLE trace

Init == trace = EmptyTrace

-----------------------------------------------------------------------------
(* Bus events *)

TaskPlan(plan, runtime, analysis, now) ==
    /\ trace' = ReduceTaskPlan(trace, plan, runtime, analysis, now)
    /\ trace'.workRevision <= MaxRevision

TaskReady(id, bee) ==
    /\ trace' = ReduceTaskReady(trace, id, bee)
    /\ trace'.workRevision <= MaxRevision

TaskStatus(id, status, now) ==
    /\ trace' = ReduceTaskStatus(trace, id, status, now)
    /\ trace'.workRevision <= MaxRevision

TaskCompleted(id, status, now) ==
    trace' = ReduceTaskCompleted(trace, id, status, now)

CodeProposal(id, workspace, now) ==
    trace' = ReduceCodeProposal(trace, id, workspace, now)

SystemKill == trace' = ReduceSystemKill(trace)

EnergyAdd(amount) ==
    /\ trace.remaining + amount <= MaxHoney
    /\ trace.added + amount <= MaxHoney
    /\ trace' = ReduceEnergyAdd(trace, amount)

\* A consume the reserve cannot cover is an error and changes nothing.
EnergyConsume(amount) ==
    /\ CanConsume(trace, amount)
    /\ trace' = ReduceEnergyConsume(trace, amount)

EnergyStipend(amount) == trace' = ReduceEnergyStipend(trace, amount)

-----------------------------------------------------------------------------
(* Operations the runtime calls *)

SeedEnergy ==
    /\ DefaultBudget <= MaxHoney
    /\ trace' = EnsureEnergySeed(trace)

SeedPublished ==
    /\ trace.seed = "unpublished"
    /\ trace' = MarkEnergySeedPublished(trace)

\* deferTaskDispatch records the purpose the task's row carries.
DeferTask(id, bee) ==
    /\ Len(trace.pending) < MaxEntries
    /\ trace' = DeferPendingDispatch(trace, TaskDispatch(id, bee), FALSE,
                                     trace.tasks[id].analysis)

\* Only direct work is ever held at a configuration barrier.
DeferDirect(source, bee, held, analysis) ==
    /\ Len(trace.pending) < MaxEntries
    /\ trace' = DeferPendingDispatch(trace, DirectDispatch(source, bee),
                                     held, analysis)

\* A drain closes the entry of a task it saw was not ready any more ...
ResolveTask(id, bee) ==
    trace' = ResolvePendingDispatch(trace, TaskDispatch(id, bee), "abandoned")

\* ... and the entry of a reaction it has just run.
ResolveDirect(source, bee) ==
    trace' = ResolvePendingDispatch(trace, DirectDispatch(source, bee),
                                    "consumed")

SourceMissing(source, bee) ==
    trace' = MarkPendingDispatchUnresolved(trace, DirectDispatch(source, bee))

ClaimPause ==
    /\ CanClaimPause(trace)
    /\ trace' = ClaimEnergyPausePublished(trace)

ClearPause ==
    /\ trace.pause # "none"
    /\ trace' = CloseEnergyPause(trace)

\* maybeCompleteWork reads, captures and records under the trail's completion
\* barrier, so the whole evaluation is one step here: an unpublished episode
\* is settled first, and a revision is certified once.
RecordCompletion ==
    /\ WorkComplete(trace)
    /\ trace.completion.revision # 0 => trace.completion.published
    /\ trace.completion.revision # trace.workRevision
    /\ trace.workRevision >= 1
    /\ trace' = RecordWorkCompletion(trace, trace.workRevision)

CompletionPublished ==
    /\ trace.completion.revision # 0 /\ ~trace.completion.published
    /\ trace' = MarkWorkCompletionPublished(trace)

-----------------------------------------------------------------------------

TaskEvent ==
    \/ \E plan \in Plans, runtime \in BOOLEAN, analysis \in Analyses, now \in Stamps :
          TaskPlan(plan, runtime, analysis, now)
    \/ \E id \in TaskIds, bee \in Bees \cup {NoBee} : TaskReady(id, bee)
    \/ \E id \in TaskIds, s \in StatusEvents, now \in Stamps :
          TaskStatus(id, s, now)
    \/ \E id \in TaskIds, s \in CompletedEvents, now \in Stamps :
          TaskCompleted(id, s, now)
    \/ \E id \in TaskIds, w \in Workspaces, now \in Stamps :
          CodeProposal(id, w, now)

EnergyEvent ==
    \E a \in Amounts : EnergyAdd(a) \/ EnergyConsume(a) \/ EnergyStipend(a)

DispatchOperation ==
    \/ \E id \in TaskIds, bee \in Bees :
          DeferTask(id, bee) \/ ResolveTask(id, bee)
    \/ \E source \in Sources, bee \in Bees, held \in BOOLEAN, analysis \in Analyses :
          DeferDirect(source, bee, held, analysis)
    \/ \E source \in Sources, bee \in Bees :
          ResolveDirect(source, bee) \/ SourceMissing(source, bee)

Next ==
    \/ TaskEvent
    \/ SystemKill
    \/ EnergyEvent
    \/ SeedEnergy \/ SeedPublished
    \/ DispatchOperation
    \/ ClaimPause \/ ClearPause
    \/ RecordCompletion \/ CompletionPublished

Spec == Init /\ [][Next]_trace

-----------------------------------------------------------------------------
(* Invariants *)

\* The ledger always holds a well-formed snapshot.
TypeOK == trace \in Trace

\* system.kill is a hard stop (kill.go:20-47): whatever arrives afterwards, and
\* in whatever order, a killed trail never again holds a task somebody could
\* start or is running, deferred work a top-up could revive, or a parked kick.
KilledIsQuiet ==
    trace.killed =>
        /\ \A id \in TaskIds : trace.tasks[id].status \notin
              {"ready", "running", "waiting_review", "blocked"}
        /\ ActiveEntries(trace) = {}
        /\ trace.parked = NoKick

\* The queue may hold the same dispatch many times, but at most once as work
\* that still waits (pending.go:100-125): a second active copy would run twice.
OneActiveEntryPerDispatch ==
    \A i, j \in ActiveEntries(trace) :
        trace.pending[i].id = trace.pending[j].id => i = j

\* A parked kick never outlives the start of its task (pending.go:84-95): a
\* stale one would start the task again after it failed or finished.
ParkedKickIsUndispatched ==
    trace.parked # NoKick =>
        trace.tasks[trace.parked.task].status \in {"absent", "unset", "planned"}

-----------------------------------------------------------------------------
(* Action properties *)

\* A planned task, or one the same plan registers, becomes ready by other
\* means than an event that says so of it.
Promoted(id) ==
    /\ trace.tasks[id].status \in {"absent", "unset", "planned"}
    /\ trace'.tasks[id].status = "ready"
    /\ ~\E now \in Stamps :
          TaskStatus(id, "ready", now) \/ TaskCompleted(id, "ready", now)

\* Whichever event promotes a planned task - a plan meeting its parked kick, a
\* kick, or a completion - it starts one task only, with its dependencies
\* completed, never the merge gate, a closing round only over finished goal
\* work, and no task that has waited longer is passed over (eligible.go:11-95).
PromotionIsEligible ==
    [][\A id \in TaskIds : Promoted(id) =>
        LET row == trace'.tasks[id]
        IN  /\ \A d \in row.deps : trace'.tasks[d].status = "completed"
            /\ ~IsMerge(row)
            /\ IsClosing(row) => AllWorkCompleted(trace')
            /\ \A o \in TaskIds \ {id} :
                  /\ trace'.tasks[o].status # "ready"
                  /\ o \in EligiblePlanned(trace') => Precedes(trace', id, o)
      ]_trace

=============================================================================
