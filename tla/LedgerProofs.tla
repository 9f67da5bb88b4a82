---------------------------- MODULE LedgerProofs ----------------------------
(***************************************************************************)
(* Theorems about the task ledger: about TaskLedger, the sequential one,   *)
(* for every set of tasks, bees, sources, plans and amounts and every      *)
(* bound, about LedgerCAS, which stores it, and about StandingTrail, the   *)
(* ticks that share one.                                                   *)
(***************************************************************************)
EXTENDS TaskLedger, LedgerCAS, LedgerTypes, StandingTrail, TLAPS

(* Type correctness *)

LEMMA TypeStep ==
  ASSUME TypeOK, [Next]_trace
  PROVE  TypeOK'
<1> USE DEF TypeOK
<1>1. CASE UNCHANGED trace
  BY <1>1
<1>2. CASE TaskEvent
  BY <1>2, PlanType, ReadyType, StatusType, CompletedType, ProposalType,
     EventAssumption
     DEF TaskEvent, TaskPlan, TaskReady, TaskStatus, TaskCompleted, CodeProposal
<1>3. CASE SystemKill
  BY <1>3, KillType DEF SystemKill
<1>4. CASE EnergyEvent
  BY <1>4, AddType, ConsumeType, StipendType, EventAssumption
     DEF EnergyEvent, EnergyAdd, EnergyConsume, EnergyStipend
<1>5. CASE SeedEnergy \/ SeedPublished
  BY <1>5, SeedType DEF SeedEnergy, SeedPublished
<1>6. CASE DispatchOperation
  <2>1. \A id \in TaskIds : trace.tasks[id].analysis \in BOOLEAN
    BY TraceRow DEF Task
  <2>2. CASE \E id \in TaskIds, bee \in Bees :
                DeferTask(id, bee) \/ ResolveTask(id, bee)
    BY <2>1, <2>2, DeferType, ResolveType, DispatchIdType
       DEF DeferTask, ResolveTask, EntryStatus
  <2>3. CASE \E source \in Sources, bee \in Bees, held \in BOOLEAN,
                analysis \in Analyses : DeferDirect(source, bee, held, analysis)
    BY <2>3, DeferType, DispatchIdType, EventAssumption DEF DeferDirect
  <2>4. CASE \E source \in Sources, bee \in Bees :
                ResolveDirect(source, bee) \/ SourceMissing(source, bee)
    BY <2>4, ResolveType DEF ResolveDirect, SourceMissing, EntryStatus
  <2> QED
    BY <1>6, <2>2, <2>3, <2>4 DEF DispatchOperation
<1>7. CASE ClaimPause \/ ClearPause
  BY <1>7, EpisodeType DEF ClaimPause, ClearPause
<1>8. CASE RecordCompletion \/ CompletionPublished
  <2>1. trace.workRevision \in Nat
    BY DEF Trace
  <2> QED BY <1>8, <2>1, EpisodeType DEF RecordCompletion, CompletionPublished
<1> QED
  BY <1>1, <1>2, <1>3, <1>4, <1>5, <1>6, <1>7, <1>8 DEF Next

\* Every reachable snapshot is well formed.
THEOREM TypeCorrect == Spec => []TypeOK
<1>1. Init => TypeOK
  BY EmptyType DEF Init, TypeOK
<1> QED
  BY <1>1, TypeStep, PTL DEF Spec

-----------------------------------------------------------------------------
(* Safety: the three invariants, stated of one snapshot *)

Quiet(t) ==
    t.killed =>
        /\ \A id \in TaskIds : t.tasks[id].status \notin
              {"ready", "running", "waiting_review", "blocked"}
        /\ ActiveEntries(t) = {}
        /\ t.parked = NoKick

SingleActive(t) ==
    \A i, j \in ActiveEntries(t) : t.pending[i].id = t.pending[j].id => i = j

FreshKick(t) ==
    t.parked # NoKick =>
        t.tasks[t.parked.task].status \in {"absent", "unset", "planned"}

Sound(t) == t \in Trace /\ Quiet(t) /\ SingleActive(t) /\ FreshKick(t)

\* u's queue is t's, with some entries closed.
Shrinks(t, u) ==
    /\ Len(u.pending) = Len(t.pending)
    /\ \A i \in 1..Len(t.pending) :
          /\ u.pending[i].id = t.pending[i].id
          /\ Active(u.pending[i]) => Active(t.pending[i])

LEMMA ShrinkSingle ==
  ASSUME NEW t \in Trace, NEW u \in Trace, Shrinks(t, u)
  PROVE  /\ ActiveEntries(u) \subseteq ActiveEntries(t)
         /\ SingleActive(t) => SingleActive(u)
BY DEF Shrinks, ActiveEntries, SingleActive

LEMMA CloseShrinks ==
  ASSUME NEW t \in Trace, NEW which, NEW status \in EntryStatus \ {"pending"}
  PROVE  Shrinks(t, CloseEntries(t, which, status))
<1>1. t.pending \in Seq(Entry) /\ Len(t.pending) \in Nat
  BY DEF Trace
<1>2. \A i \in 1..Len(t.pending) : t.pending[i] \in Entry
  BY <1>1
<1>3. CloseEntries(t, which, status).pending =
        [i \in 1..Len(t.pending) |->
            IF i \in which THEN [t.pending[i] EXCEPT !.status = status]
            ELSE t.pending[i]]
  BY DEF CloseEntries, Trace
<1>4. Len(CloseEntries(t, which, status).pending) = Len(t.pending)
  BY <1>1, <1>3
<1>5. \A e \in Entry : /\ [e EXCEPT !.status = status].id = e.id
                       /\ ~Active([e EXCEPT !.status = status])
  BY DEF Entry, Active
<1> QED
  BY <1>2, <1>3, <1>4, <1>5 DEF Shrinks

\* CloseEntries changes nothing but the queue.
LEMMA CloseFrame ==
  ASSUME NEW t \in Trace, NEW which, NEW status \in EntryStatus
  PROVE  LET u == CloseEntries(t, which, status)
         IN  u.tasks = t.tasks /\ u.parked = t.parked /\ u.killed = t.killed
BY DEF CloseEntries, Trace

LEMMA DropFrame ==
  ASSUME NEW t \in Trace
  PROVE  LET u == DropStaleKick(t)
         IN  /\ u.tasks = t.tasks /\ u.pending = t.pending
             /\ u.killed = t.killed
             /\ u.parked \in {t.parked, NoKick}
             /\ FreshKick(u)
BY DEF DropStaleKick, FreshKick, Trace

LEMMA PromoteFrame ==
  ASSUME NEW t \in Trace
  PROVE  /\ PromoteParked(t).pending = t.pending
         /\ PromoteParked(t).killed = t.killed
         /\ t.killed => PromoteParked(t) = t
         /\ PromoteFirstEligible(t).pending = t.pending
         /\ PromoteFirstEligible(t).killed = t.killed
BY DEF PromoteParked, PromoteFirstEligible, Trace

LEMMA AdvanceFrame ==
  ASSUME NEW t \in Trace
  PROVE  LET u == AdvanceWorkRevision(t)
         IN  /\ u.tasks = t.tasks /\ u.pending = t.pending
             /\ u.killed = t.killed /\ u.parked = t.parked
BY DEF AdvanceWorkRevision, Trace

\* On a live trail a step that ends with the housekeeping keeps the invariants
\* when all it does to the queue is close entries.
LEMMA LiveStep ==
  ASSUME NEW t \in Trace, Sound(t), ~t.killed,
         NEW u \in Trace, u.killed = FALSE, Shrinks(t, u)
  PROVE  Sound(DropStaleKick(u))
<1> DEFINE v == DropStaleKick(u)
<1>1. v \in Trace
  BY DropStaleKickType
<1>2. v.pending = u.pending /\ v.killed = u.killed /\ FreshKick(v)
  BY DropFrame
<1>3. Shrinks(t, v)
  BY <1>2 DEF Shrinks
<1> HIDE DEF v
<1>4. Sound(v)
  BY <1>1, <1>2, <1>3, ShrinkSingle DEF Sound, Quiet
<1> QED
  BY <1>4 DEF v

LEMMA SameQueueShrinks ==
  ASSUME NEW t, NEW u, u.pending = t.pending
  PROVE  Shrinks(t, u)
BY DEF Shrinks

\* On a killed trail it is enough that no task starts, no entry reopens and no
\* kick is parked.
LEMMA KilledStep ==
  ASSUME NEW t \in Trace, Sound(t), t.killed,
         NEW u \in Trace, Shrinks(t, u), u.parked = NoKick,
         \A id \in TaskIds :
            \/ u.tasks[id].status = t.tasks[id].status
            \/ u.tasks[id].status \in {"unset", "planned", "cancelled"}
  PROVE  Sound(u)
<1>1. ActiveEntries(u) = {} /\ SingleActive(u)
  BY ShrinkSingle DEF Sound, Quiet
<1>2. \A id \in TaskIds : u.tasks[id].status \notin
              {"ready", "running", "waiting_review", "blocked"}
  BY DEF Sound, Quiet
<1> QED
  BY <1>1, <1>2 DEF Sound, Quiet, FreshKick

LEMMA PlanSound ==
  ASSUME NEW t \in Trace, Sound(t), NEW plan \in Plan, NEW runtime \in BOOLEAN,
         NEW analysis \in BOOLEAN, NEW now \in Stamps
  PROVE  Sound(ReduceTaskPlan(t, plan, runtime, analysis, now))
<1> DEFINE added == {id \in DOMAIN plan : ~Registered(t.tasks[id])}
           rows == [id \in TaskIds |->
                       IF id \in added
                       THEN PlannedRow(plan[id], runtime, analysis, now)
                       ELSE t.tasks[id]]
           planned == [t EXCEPT !.tasks = rows]
           accepted == \E id \in added : IsGoalWork(planned.tasks[id])
           admitted == IF accepted THEN AdvanceWorkRevision(planned) ELSE planned
           promoted == PromoteParked(admitted)
           result == ReduceTaskPlan(t, plan, runtime, analysis, now)
<1>1. \A id \in DOMAIN plan : plan[id] \in TaskSpec
  BY DEF Plan
<1>2. \A spec \in TaskSpec :
         /\ PlannedRow(spec, runtime, analysis, now) \in Task
         /\ PlannedRow(spec, runtime, analysis, now).status = "planned"
  BY DEF TaskSpec, PlannedRow, PlannedPhase, Task, Status, Phase, Workspace
<1>3. /\ rows \in [TaskIds -> Task]
      /\ \A id \in TaskIds : \/ rows[id] = t.tasks[id]
                             \/ rows[id].status = "planned"
  BY <1>1, <1>2, TraceRow
<1>4. /\ planned \in Trace /\ planned.tasks = rows
      /\ planned.pending = t.pending /\ planned.killed = t.killed
      /\ planned.parked = t.parked
  <2> HIDE DEF rows
  <2> QED BY <1>3, RowsType DEF Trace
<1>5. /\ admitted \in Trace /\ admitted.tasks = rows
      /\ admitted.pending = t.pending /\ admitted.killed = t.killed
      /\ admitted.parked = t.parked
  <2> HIDE DEF planned, accepted, rows
  <2> QED BY <1>4, AdvanceType, AdvanceFrame
<1>6. result = DropStaleKick(promoted)
  BY DEF ReduceTaskPlan
<1> HIDE DEF admitted, rows, result
<1>7. promoted \in Trace /\ Shrinks(t, promoted) /\ promoted.killed = t.killed
  BY <1>5, PromoteParkedType, PromoteFrame, SameQueueShrinks
<1>8. CASE ~t.killed
  <2>1. promoted.killed = FALSE
    BY <1>7, <1>8 DEF Trace
  <2> HIDE DEF promoted
  <2> QED BY <1>6, <1>7, <1>8, <2>1, LiveStep DEF result
<1>9. CASE t.killed
  <2>1. promoted = admitted
    BY <1>5, <1>9, PromoteFrame
  <2>2. /\ result \in Trace /\ result.tasks = rows
        /\ result.pending = t.pending /\ result.parked = NoKick
    <3> HIDE DEF promoted
    <3> QED BY <1>5, <1>6, <1>9, <2>1, DropFrame, DropStaleKickType DEF Sound, Quiet
  <2>3. Sound(result)
    BY <1>3, <1>9, <2>2, SameQueueShrinks, KilledStep
  <2> QED
    BY <2>3 DEF result
<1> QED
  BY <1>8, <1>9

LEMMA ReadySound ==
  ASSUME NEW t \in Trace, Sound(t), NEW id \in TaskIds,
         NEW bee \in Bees \cup {NoBee}
  PROVE  Sound(ReduceTaskReady(t, id, bee))
<1> DEFINE requeued == [t EXCEPT !.tasks[id].status = "ready",
                                 !.tasks[id].bee = Overlay(@, bee)]
           reopened == AdvanceWorkRevision(requeued)
           parked == [t EXCEPT !.parked = [task |-> id, bee |-> bee],
                               !.tasks[id] = NoRow]
<1>1. requeued \in Trace /\ requeued.pending = t.pending /\ requeued.killed = t.killed
  <2>1. requeued = [t EXCEPT !.tasks = [t.tasks EXCEPT ![id] =
                      [t.tasks[id] EXCEPT !.status = "ready",
                                          !.bee = Overlay(@, bee)]]]
    BY TraceRow DEF Trace, Task
  <2>2. [t.tasks[id] EXCEPT !.status = "ready", !.bee = Overlay(@, bee)] \in Task
    BY TraceRow, KickedRowType
  <2>3. [t.tasks EXCEPT ![id] =
            [t.tasks[id] EXCEPT !.status = "ready", !.bee = Overlay(@, bee)]]
          \in [TaskIds -> Task]
    BY <2>2, TraceRow
  <2> DEFINE rows == [t.tasks EXCEPT ![id] =
                         [t.tasks[id] EXCEPT !.status = "ready", !.bee = Overlay(@, bee)]]
  <2>4. requeued = [t EXCEPT !.tasks = rows] /\ rows \in [TaskIds -> Task]
    BY <2>1, <2>3
  <2> HIDE DEF requeued, rows
  <2>5. requeued \in Trace
    BY <2>4, RowsType
  <2>6. requeued.pending = t.pending /\ requeued.killed = t.killed
    BY <2>4 DEF Trace
  <2> QED BY <2>5, <2>6
<1>2. reopened \in Trace /\ reopened.pending = t.pending /\ reopened.killed = t.killed
  <2> HIDE DEF requeued
  <2> QED BY <1>1, AdvanceType, AdvanceFrame
<1>3. parked \in Trace /\ parked.pending = t.pending /\ parked.killed = t.killed
  <2>1. NoRow \in Task
    BY DEF NoRow, Task, Status, Phase, Workspace
  <2>2. [t.tasks EXCEPT ![id] = NoRow] \in [TaskIds -> Task]
    BY <2>1, TraceRow
  <2>3. [task |-> id, bee |-> bee] \in Kick
    BY DEF Kick
  <2> QED BY <2>2, <2>3 DEF Trace
<1> HIDE DEF requeued, reopened, parked
<1>4. CASE t.killed
  BY <1>4 DEF ReduceTaskReady
<1>5. CASE ~t.killed
  <2>1. t.killed = FALSE
    BY <1>5 DEF Trace
  <2>2. /\ Sound(DropStaleKick(requeued))
        /\ Sound(DropStaleKick(reopened))
        /\ Sound(DropStaleKick(parked))
    BY <1>1, <1>2, <1>3, <1>5, <2>1, LiveStep, SameQueueShrinks
  <2> QED
    BY <2>2 DEF ReduceTaskReady, requeued, reopened, parked
<1> QED
  BY <1>4, <1>5

LEMMA MovedFrame ==
  ASSUME NEW t \in Trace, NEW id \in TaskIds, NEW row
  PROVE  LET u == [t EXCEPT !.tasks[id] = row]
         IN  u.pending = t.pending /\ u.killed = t.killed /\ u.parked = t.parked
BY DEF Trace

LEMMA StatusSound ==
  ASSUME NEW t \in Trace, Sound(t), NEW id \in TaskIds, NEW status \in Status,
         NEW now \in Stamps
  PROVE  Sound(ReduceTaskStatus(t, id, status, now))
<1> DEFINE moved == [t EXCEPT !.tasks[id] =
                       [StampedRow(t, id, now) EXCEPT !.status = status]]
           back == /\ IsGoalWork(t.tasks[id])
                   /\ IsReworkReturn(t.tasks[id].status)
                   /\ status \in {"ready", "running"}
           reopened == IF back THEN AdvanceWorkRevision(moved) ELSE moved
           closed == IF status = "running" THEN ConsumeTaskEntries(reopened, id)
                     ELSE reopened
<1>1. moved \in Trace /\ moved.pending = t.pending /\ moved.killed = t.killed
  BY MovedType, MovedFrame
<1>2. reopened \in Trace /\ reopened.pending = t.pending /\ reopened.killed = t.killed
  <2> HIDE DEF moved, back
  <2> QED BY <1>1, AdvanceType, AdvanceFrame
<1>3. closed \in Trace /\ Shrinks(t, closed) /\ closed.killed = t.killed
  <2> HIDE DEF reopened
  <2>1. Shrinks(reopened, ConsumeTaskEntries(reopened, id))
    BY <1>2, CloseShrinks DEF ConsumeTaskEntries, EntryStatus
  <2>2. Shrinks(t, ConsumeTaskEntries(reopened, id))
    BY <1>2, <2>1 DEF Shrinks
  <2>3. /\ ConsumeTaskEntries(reopened, id) \in Trace
        /\ ConsumeTaskEntries(reopened, id).killed = t.killed
    BY <1>2, CloseEntriesType, CloseFrame DEF ConsumeTaskEntries, EntryStatus
  <2> QED
    BY <1>2, <2>2, <2>3, SameQueueShrinks
<1>4. ReduceTaskStatus(t, id, status, now) =
        IF t.killed THEN t ELSE DropStaleKick(closed)
  BY DEF ReduceTaskStatus
<1> HIDE DEF closed
<1>5. CASE t.killed
  BY <1>4, <1>5
<1>6. CASE ~t.killed
  <2>1. closed.killed = FALSE
    BY <1>3, <1>6 DEF Trace
  <2> QED BY <1>3, <1>4, <1>6, <2>1, LiveStep
<1> QED
  BY <1>5, <1>6

LEMMA CompletedSound ==
  ASSUME NEW t \in Trace, Sound(t), NEW id \in TaskIds, NEW status \in Status,
         NEW now \in Stamps
  PROVE  Sound(ReduceTaskCompleted(t, id, status, now))
<1> DEFINE moved == [t EXCEPT !.tasks[id] =
                       [StampedRow(t, id, now) EXCEPT !.status = status]]
           promoted == PromoteFirstEligible(PromoteParked(moved))
<1>1. moved \in Trace /\ moved.pending = t.pending /\ moved.killed = t.killed
  BY MovedType, MovedFrame
<1>2. /\ promoted \in Trace /\ promoted.pending = t.pending
      /\ promoted.killed = t.killed
  <2> HIDE DEF moved
  <2> QED BY <1>1, PromoteParkedType, PromoteFirstEligibleType, PromoteFrame
<1>3. ReduceTaskCompleted(t, id, status, now) =
        IF t.killed THEN t ELSE DropStaleKick(promoted)
  BY DEF ReduceTaskCompleted
<1> HIDE DEF promoted
<1>4. CASE ~t.killed
  <2>1. promoted.killed = FALSE
    BY <1>2, <1>4 DEF Trace
  <2> QED BY <1>2, <1>3, <1>4, <2>1, SameQueueShrinks, LiveStep
<1> QED
  BY <1>3, <1>4

LEMMA ProposalSound ==
  ASSUME NEW t \in Trace, Sound(t), NEW id \in TaskIds, NEW w \in Workspace,
         NEW now \in Stamps
  PROVE  Sound(ReduceCodeProposal(t, id, w, now))
<1> DEFINE old == StampedRow(t, id, now)
           row == [old EXCEPT !.workspace = w,
                              !.status = IF @ = "absent" THEN "unset" ELSE @]
           u == [t EXCEPT !.tasks[id] = row]
           result == ReduceCodeProposal(t, id, w, now)
<1>1. old \in Task /\ old.status = t.tasks[id].status
  BY StampedRowType, TraceRow DEF StampedRow, Task
<1>2. row \in Task /\ row.status \in {t.tasks[id].status, "unset"}
  <2> HIDE DEF old
  <2> QED BY <1>1 DEF Task, Status
<1>3. result = DropStaleKick(u)
  BY DEF ReduceCodeProposal
<1> HIDE DEF row, result
<1>4. /\ u.tasks = [t.tasks EXCEPT ![id] = row] /\ u.parked = t.parked
      /\ u.pending = t.pending /\ u.killed = t.killed
  BY DEF Trace
<1>5. u \in Trace
  <2>1. [t.tasks EXCEPT ![id] = row] \in [TaskIds -> Task]
    BY <1>2, TraceRow
  <2>2. u = [t EXCEPT !.tasks = [t.tasks EXCEPT ![id] = row]]
    BY DEF Trace
  <2> QED BY <2>1, <2>2, RowsType
<1>6. \A o \in TaskIds : \/ u.tasks[o].status = t.tasks[o].status
                         \/ u.tasks[o].status = "unset"
  BY <1>2, <1>4, TraceRow
<1> HIDE DEF u
<1>7. CASE ~t.killed
  <2>1. u.killed = FALSE
    BY <1>4, <1>7 DEF Trace
  <2> QED BY <1>3, <1>4, <1>5, <1>7, <2>1, SameQueueShrinks, LiveStep DEF result
<1>8. CASE t.killed
  <2>1. /\ result \in Trace /\ result.tasks = u.tasks
        /\ result.pending = t.pending /\ result.parked = NoKick
    BY <1>3, <1>4, <1>5, <1>8, DropFrame, DropStaleKickType DEF Sound, Quiet
  <2>2. Sound(result)
    BY <1>6, <1>8, <2>1, SameQueueShrinks, KilledStep
  <2> QED
    BY <2>2 DEF result
<1> QED
  BY <1>7, <1>8

LEMMA KillSound ==
  ASSUME NEW t \in Trace, Sound(t)
  PROVE  Sound(ReduceSystemKill(t))
<1> DEFINE rows == [id \in TaskIds |->
                IF Killable(t.tasks[id].status)
                THEN [t.tasks[id] EXCEPT !.status = "cancelled"]
                ELSE t.tasks[id]]
           stopped == AbandonEntries(t)
           u == [stopped EXCEPT !.killed = TRUE, !.parked = NoKick,
                                !.tasks = rows]
<1>1. \A id \in TaskIds : rows[id].status \notin
                {"ready", "running", "waiting_review", "blocked"}
  BY TraceRow DEF Killable, Task, Status
<1>2. stopped \in Trace
  BY CloseEntriesType DEF AbandonEntries, EntryStatus
<1>3. ActiveEntries(stopped) = {}
  <2>1. t.pending \in Seq(Entry) /\ Len(t.pending) \in Nat
    BY DEF Trace
  <2>2. stopped.pending = [i \in 1..Len(t.pending) |->
            IF i \in ActiveEntries(t)
            THEN [t.pending[i] EXCEPT !.status = "abandoned"]
            ELSE t.pending[i]]
    BY DEF AbandonEntries, CloseEntries, Trace
  <2>3. \A i \in 1..Len(t.pending) : t.pending[i] \in Entry
    BY <2>1
  <2>4. \A e \in Entry : ~Active([e EXCEPT !.status = "abandoned"])
    BY DEF Entry, Active
  <2>5. Len(stopped.pending) = Len(t.pending)
    BY <2>1, <2>2
  <2>6. \A i \in 1..Len(t.pending) : ~Active(stopped.pending[i])
    BY <2>2, <2>3, <2>4 DEF ActiveEntries
  <2> HIDE DEF stopped
  <2> QED
    BY <2>5, <2>6 DEF ActiveEntries
<1>4. ReduceSystemKill(t) = IF t.killed THEN t ELSE u
  BY DEF ReduceSystemKill
<1>5. ReduceSystemKill(t) \in Trace
  BY KillType
<1> HIDE DEF rows, stopped
<1>6. u.tasks = rows /\ u.pending = stopped.pending /\ u.parked = NoKick
  BY <1>2 DEF Trace
<1> HIDE DEF u
<1>7. ~t.killed => Sound(u)
  BY <1>1, <1>3, <1>4, <1>5, <1>6
     DEF Sound, Quiet, SingleActive, FreshKick, ActiveEntries
<1> QED
  BY <1>4, <1>7

\* A step that leaves tasks, queue, kick and kill alone, or only drops a kick.
LEMMA AsideSound ==
  ASSUME NEW t \in Trace, Sound(t), NEW u \in Trace, u.tasks = t.tasks,
         u.pending = t.pending, u.killed = t.killed,
         u.parked \in {t.parked, NoKick}
  PROVE  Sound(u)
<1>1. SingleActive(u) /\ ActiveEntries(u) = ActiveEntries(t)
  BY DEF Sound, SingleActive, ActiveEntries
<1>2. FreshKick(u)
  BY DEF Sound, FreshKick
<1> QED
  BY <1>1, <1>2 DEF Sound, Quiet

LEMMA HoneySound ==
  ASSUME NEW t \in Trace, Sound(t), NEW amount \in Nat
  PROVE  /\ Sound(ReduceEnergyAdd(t, amount))
         /\ CanConsume(t, amount) => Sound(ReduceEnergyConsume(t, amount))
         /\ Sound(EnsureEnergySeed(t)) /\ Sound(MarkEnergySeedPublished(t))
<1>1. Sound(ReduceEnergyAdd(t, amount))
  <2> DEFINE more == IF t.budget > 0 THEN t.added + amount ELSE t.added
             u == [t EXCEPT !.remaining = t.remaining + amount, !.added = more]
  <2>1. more \in Nat /\ t.remaining + amount \in Nat
    BY DEF Trace
  <2> HIDE DEF more
  <2>2. /\ u \in Trace /\ u.tasks = t.tasks /\ u.pending = t.pending
        /\ u.killed = t.killed /\ u.parked = t.parked
    BY <2>1 DEF Trace
  <2>3. ReduceEnergyAdd(t, amount) = DropStaleKick(u)
    BY DEF ReduceEnergyAdd, more
  <2> HIDE DEF u
  <2> QED
    BY <2>2, <2>3, AddType, DropFrame, AsideSound
<1>2. CanConsume(t, amount) => Sound(ReduceEnergyConsume(t, amount))
  <2> SUFFICES ASSUME CanConsume(t, amount)
               PROVE  Sound(ReduceEnergyConsume(t, amount))
    OBVIOUS
  <2> DEFINE u == [t EXCEPT !.remaining = @ - amount]
  <2>0. t.remaining - amount \in Nat
    BY DEF Trace, CanConsume
  <2>1. /\ u \in Trace /\ u.tasks = t.tasks /\ u.pending = t.pending
        /\ u.killed = t.killed /\ u.parked = t.parked
    BY <2>0 DEF Trace
  <2>2. ReduceEnergyConsume(t, amount) = DropStaleKick(u)
    BY DEF ReduceEnergyConsume
  <2> HIDE DEF u
  <2> QED
    BY <2>1, <2>2, ConsumeType, DropFrame, AsideSound
<1>3. Sound(EnsureEnergySeed(t))
  <2>1. LET u == EnsureEnergySeed(t)
        IN  /\ u.tasks = t.tasks /\ u.pending = t.pending
            /\ u.killed = t.killed /\ u.parked = t.parked
    BY DEF EnsureEnergySeed, Trace
  <2> QED BY <2>1, SeedType, AsideSound
<1>4. Sound(MarkEnergySeedPublished(t))
  <2>1. LET u == MarkEnergySeedPublished(t)
        IN  /\ u.tasks = t.tasks /\ u.pending = t.pending
            /\ u.killed = t.killed /\ u.parked = t.parked
    BY DEF MarkEnergySeedPublished, Trace
  <2> QED BY <2>1, SeedType, AsideSound
<1> QED
  BY <1>1, <1>2, <1>3, <1>4

LEMMA StipendSound ==
  ASSUME NEW t \in Trace, Sound(t), NEW amount \in Nat
  PROVE  Sound(ReduceEnergyStipend(t, amount))
<1> DEFINE superseded == {id \in TaskIds :
                /\ t.tasks[id].status = "ready"
                /\ \E i \in HoneyWaiting(t) : WaitsFor(t, i, id)}
           rows == [id \in TaskIds |->
                IF id \in superseded
                THEN [t.tasks[id] EXCEPT !.status = "skipped"]
                ELSE t.tasks[id]]
           closed == CloseEntries(t, HoneyWaiting(t), "abandoned")
           u == [[closed EXCEPT !.tasks = rows] EXCEPT !.remaining = amount,
                                                       !.pause = "none"]
           result == ReduceEnergyStipend(t, amount)
<1>1. closed \in Trace
  BY CloseEntriesType DEF EntryStatus
<1>2. /\ rows \in [TaskIds -> Task]
      /\ t.killed => \A id \in TaskIds : rows[id] = t.tasks[id]
  <2>1. \A id \in TaskIds : [t.tasks[id] EXCEPT !.status = "skipped"] \in Task
    BY TraceRow, RowType DEF Status
  <2>2. t.killed => superseded = {}
    BY DEF Sound, Quiet
  <2> HIDE DEF superseded
  <2> QED BY <2>1, <2>2, TraceRow
<1>3. Shrinks(t, closed) /\ closed.killed = t.killed /\ closed.parked = t.parked
  BY CloseShrinks, CloseFrame DEF EntryStatus
<1>4. result = DropStaleKick(u)
  BY DEF ReduceEnergyStipend, SupersedeEntries
<1> HIDE DEF closed, rows, result
<1>5. /\ u \in Trace /\ u.tasks = rows /\ u.pending = closed.pending
      /\ u.killed = t.killed /\ u.parked = t.parked
  BY <1>1, <1>2, <1>3 DEF Trace
<1>6. Shrinks(t, u)
  BY <1>3, <1>5 DEF Shrinks
<1> HIDE DEF u
<1>7. CASE ~t.killed
  <2>1. u.killed = FALSE
    BY <1>5, <1>7 DEF Trace
  <2> QED BY <1>4, <1>5, <1>6, <1>7, <2>1, LiveStep DEF result
<1>8. CASE t.killed
  <2>1. /\ result \in Trace /\ result.tasks = rows
        /\ result.pending = u.pending /\ result.parked = NoKick
    BY <1>4, <1>5, <1>8, DropFrame, DropStaleKickType DEF Sound, Quiet
  <2>2. Shrinks(t, result)
    BY <1>6, <2>1 DEF Shrinks
  <2>3. Sound(result)
    BY <1>2, <1>8, <2>1, <2>2, KilledStep
  <2> QED
    BY <2>3 DEF result
<1> QED
  BY <1>7, <1>8

LEMMA DeferSound ==
  ASSUME NEW t \in Trace, Sound(t), NEW id \in DispatchId,
         NEW held \in BOOLEAN, NEW analysis \in BOOLEAN
  PROVE  Sound(DeferPendingDispatch(t, id, held, analysis))
<1> DEFINE e == [id |-> id, held |-> held, analysis |-> analysis,
                 status |-> "pending"]
           n == Len(t.pending)
           u == DeferPendingDispatch(t, id, held, analysis)
<1>1. CASE ~CanDefer(t, id)
  BY <1>1 DEF DeferPendingDispatch
<1>2. CASE CanDefer(t, id)
  <2>1. ~t.killed /\ \A i \in ActiveEntries(t) : t.pending[i].id # id
    BY <1>2 DEF CanDefer, ActiveWithId, WithId, ActiveEntries
  <2>2. /\ u.pending = Append(t.pending, e) /\ u.killed = t.killed
        /\ u.tasks = t.tasks /\ u.parked = t.parked
    BY <1>2 DEF DeferPendingDispatch, Trace
  <2>3. u \in Trace
    BY DeferType
  <2>4. t.pending \in Seq(Entry) /\ n \in Nat
    BY DEF Trace
  <2> HIDE DEF u
  <2>5. /\ Len(u.pending) = n + 1 /\ u.pending[n + 1] = e
        /\ \A i \in 1..n : u.pending[i] = t.pending[i]
    BY <2>2, <2>4
  <2>6. \A i \in ActiveEntries(u) : i = n + 1 \/ i \in ActiveEntries(t)
    BY <2>4, <2>5 DEF ActiveEntries
  <2>7. SingleActive(u)
    <3> SUFFICES ASSUME NEW i \in ActiveEntries(u), NEW j \in ActiveEntries(u),
                        u.pending[i].id = u.pending[j].id
                 PROVE  i = j
      BY DEF SingleActive
    <3>1. e.id = id
      OBVIOUS
    <3>2. \A k \in ActiveEntries(t) : k \in 1..n /\ u.pending[k] = t.pending[k]
      BY <2>5 DEF ActiveEntries
    <3> HIDE DEF e
    <3>3. CASE i = n + 1 /\ j = n + 1
      BY <3>3
    <3>4. CASE i \in ActiveEntries(t) /\ j \in ActiveEntries(t)
      BY <3>2, <3>4 DEF Sound, SingleActive
    <3>5. ASSUME NEW k \in ActiveEntries(t), u.pending[k].id = u.pending[n + 1].id PROVE FALSE
      BY <2>1, <2>5, <3>1, <3>2, <3>5
    <3> QED BY <2>6, <3>3, <3>4, <3>5
  <2>8. FreshKick(u)
    BY <2>2 DEF Sound, FreshKick
  <2>9. Sound(u)
    BY <2>1, <2>2, <2>3, <2>7, <2>8 DEF Sound, Quiet
  <2> QED
    BY <2>9 DEF u
<1> QED
  BY <1>1, <1>2

LEMMA ResolveSound ==
  ASSUME NEW t \in Trace, Sound(t), NEW id,
         NEW status \in EntryStatus \ {"pending"}
  PROVE  /\ Sound(ResolvePendingDispatch(t, id, status))
         /\ Sound(MarkPendingDispatchUnresolved(t, id))
<1>1. \A s \in EntryStatus \ {"pending"} : Sound(ResolvePendingDispatch(t, id, s))
  <2> TAKE s \in EntryStatus \ {"pending"}
  <2> DEFINE u == ResolvePendingDispatch(t, id, s)
  <2>1. /\ u \in Trace /\ Shrinks(t, u) /\ u.tasks = t.tasks
        /\ u.parked = t.parked /\ u.killed = t.killed
    BY CloseEntriesType, CloseShrinks, CloseFrame DEF ResolvePendingDispatch
  <2> HIDE DEF u
  <2>2. Sound(u)
    BY <2>1, ShrinkSingle DEF Sound, Quiet, FreshKick
  <2> QED
    BY <2>2 DEF u
<1> QED
  BY <1>1 DEF MarkPendingDispatchUnresolved, EntryStatus

LEMMA EpisodeSound ==
  ASSUME NEW t \in Trace, Sound(t), NEW revision \in Nat
  PROVE  /\ Sound(ClaimEnergyPausePublished(t))
         /\ Sound(CloseEnergyPause(t))
         /\ Sound(RecordWorkCompletion(t, revision))
         /\ Sound(MarkWorkCompletionPublished(t))
<1>1. \A u \in {ClaimEnergyPausePublished(t), CloseEnergyPause(t),
                RecordWorkCompletion(t, revision),
                MarkWorkCompletionPublished(t)} :
        /\ u.tasks = t.tasks /\ u.pending = t.pending
        /\ u.killed = t.killed /\ u.parked = t.parked
  BY DEF ClaimEnergyPausePublished, CloseEnergyPause, RecordWorkCompletion,
         MarkWorkCompletionPublished, Trace
<1> QED
  BY <1>1, EpisodeType, AsideSound

-----------------------------------------------------------------------------
(* The inductive invariant and the theorems *)

LEMMA EmptySound == Sound(EmptyTrace)
<1>1. ActiveEntries(EmptyTrace) = {}
  BY DEF ActiveEntries, EmptyTrace
<1> QED
  BY <1>1, EmptyType DEF Sound, Quiet, SingleActive, FreshKick, EmptyTrace

IInv == Sound(trace)

LEMMA SoundStep ==
  ASSUME IInv, [Next]_trace
  PROVE  IInv'
<1> SUFFICES Sound(trace')
  BY DEF IInv
<1> Sound(trace) /\ trace \in Trace
  BY DEF IInv, Sound
<1>1. CASE UNCHANGED trace
  BY <1>1
<1>2. CASE TaskEvent
  BY <1>2, PlanSound, ReadySound, StatusSound, CompletedSound, ProposalSound,
     EventAssumption
     DEF TaskEvent, TaskPlan, TaskReady, TaskStatus, TaskCompleted, CodeProposal
<1>3. CASE SystemKill
  BY <1>3, KillSound DEF SystemKill
<1>4. CASE EnergyEvent
  BY <1>4, HoneySound, StipendSound, EventAssumption
     DEF EnergyEvent, EnergyAdd, EnergyConsume, EnergyStipend
<1>5. CASE SeedEnergy \/ SeedPublished
  BY <1>5, HoneySound DEF SeedEnergy, SeedPublished
<1>6. CASE DispatchOperation
  <2>1. \A id \in TaskIds : trace.tasks[id].analysis \in BOOLEAN
    BY TraceRow DEF Task
  <2>2. CASE \E id \in TaskIds, bee \in Bees :
                DeferTask(id, bee) \/ ResolveTask(id, bee)
    BY <2>1, <2>2, DeferSound, ResolveSound, DispatchIdType
       DEF DeferTask, ResolveTask, EntryStatus
  <2>3. CASE \E source \in Sources, bee \in Bees, held \in BOOLEAN,
                analysis \in Analyses : DeferDirect(source, bee, held, analysis)
    BY <2>3, DeferSound, DispatchIdType, EventAssumption DEF DeferDirect
  <2>4. CASE \E source \in Sources, bee \in Bees :
                ResolveDirect(source, bee) \/ SourceMissing(source, bee)
    BY <2>4, ResolveSound DEF ResolveDirect, SourceMissing, EntryStatus
  <2> QED
    BY <1>6, <2>2, <2>3, <2>4 DEF DispatchOperation
<1>7. CASE ClaimPause \/ ClearPause
  BY <1>7, EpisodeSound DEF ClaimPause, ClearPause
<1>8. CASE RecordCompletion \/ CompletionPublished
  <2>1. trace.workRevision \in Nat
    BY DEF Trace
  <2> QED BY <1>8, <2>1, EpisodeSound DEF RecordCompletion, CompletionPublished
<1> QED
  BY <1>1, <1>2, <1>3, <1>4, <1>5, <1>6, <1>7, <1>8 DEF Next

LEMMA AlwaysSound == Spec => []IInv
<1>1. Init => IInv
  BY EmptySound DEF Init, IInv
<1> QED
  BY <1>1, SoundStep, PTL DEF Spec

\* A killed trail stays without work anybody could start or revive.
THEOREM KillIsAHardStop == Spec => []KilledIsQuiet
<1>1. IInv => KilledIsQuiet
  BY DEF IInv, Sound, Quiet, KilledIsQuiet
<1> QED
  BY <1>1, AlwaysSound, PTL

\* No dispatch ever waits twice.
THEOREM NoDuplicateDeferral == Spec => []OneActiveEntryPerDispatch
<1>1. IInv => OneActiveEntryPerDispatch
  BY DEF IInv, Sound, SingleActive, OneActiveEntryPerDispatch
<1> QED
  BY <1>1, AlwaysSound, PTL

\* A parked kick never outlives the start of its task.
THEOREM KickIsFresh == Spec => []ParkedKickIsUndispatched
<1>1. IInv => ParkedKickIsUndispatched
  BY DEF IInv, Sound, FreshKick, ParkedKickIsUndispatched
<1> QED
  BY <1>1, AlwaysSound, PTL

-----------------------------------------------------------------------------
(* Promotion: an action property.  The two ways to promote are elections   *)
(* (Elects) - the first eligible task, and only while none is ready - and  *)
(* so are both in a row, since one leaves a ready task behind.             *)

\* What the ledger promises of a task it promotes.
Deserves(t, id) ==
    LET row == t.tasks[id]
    IN  /\ \A d \in row.deps : t.tasks[d].status = "completed"
        /\ ~IsMerge(row)
        /\ IsClosing(row) => AllWorkCompleted(t)
        /\ \A o \in TaskIds \ {id} :
              /\ t.tasks[o].status # "ready"
              /\ o \in EligiblePlanned(t) => Precedes(t, id, o)

\* One planned task becomes ready, nothing else of any row that counts moves.
Readies(t, u, id) ==
    /\ \A o \in TaskIds \ {id} : u.tasks[o] = t.tasks[o]
    /\ u.tasks[id].status = "ready"
    /\ u.tasks[id].phase = t.tasks[id].phase
    /\ u.tasks[id].analysis = t.tasks[id].analysis
    /\ u.tasks[id].deps = t.tasks[id].deps
    /\ u.tasks[id].created = t.tasks[id].created
Elects(t, u) ==
    \/ u.tasks = t.tasks
    \/ ~HasReadyTask(t) /\ \E id \in TaskIds : IsFirstEligible(t, id) /\ Readies(t, u, id)

\* The first eligible task deserves it, before its promotion and after.
LEMMA ReadiesDeserves ==
  ASSUME NEW t \in Trace, NEW u, NEW id \in TaskIds,
         ~HasReadyTask(t), IsFirstEligible(t, id), Readies(t, u, id)
  PROVE  Deserves(u, id)
<1>1. /\ t.tasks[id].status = "planned" /\ ~IsMerge(t.tasks[id])
      /\ IsClosing(t.tasks[id]) => AllWorkCompleted(t)
      /\ \A d \in t.tasks[id].deps : t.tasks[d].status = "completed"
  BY DEF IsFirstEligible, EligiblePlanned
<1>2. /\ IsMerge(u.tasks[id]) <=> IsMerge(t.tasks[id])
      /\ IsClosing(u.tasks[id]) <=> IsClosing(t.tasks[id])
      /\ IsGoalWork(u.tasks[id]) <=> IsGoalWork(t.tasks[id])
  BY DEF Readies, IsMerge, IsClosing, IsGoalWork, PhaseOf
<1>3. \A d \in u.tasks[id].deps : u.tasks[d].status = "completed"
  <2>1. t.tasks[id].deps \subseteq TaskIds
    BY TraceRow DEF Task
  <2> QED BY <1>1, <2>1 DEF Readies
<1>4. GoalWork(u) = GoalWork(t)
  BY <1>1, <1>2 DEF GoalWork, Rows, Readies
<1>5. IsClosing(u.tasks[id]) => AllWorkCompleted(u)
  <2> SUFFICES ASSUME IsClosing(u.tasks[id]) PROVE AllWorkCompleted(u)
    OBVIOUS
  <2>1. id \notin GoalWork(t)
    BY <1>2 DEF GoalWork, IsGoalWork, IsClosing
  <2>2. \A w \in GoalWork(t) : w \in TaskIds
    BY DEF GoalWork, Rows
  <2> QED BY <1>1, <1>2, <1>4, <2>1, <2>2 DEF AllWorkCompleted, Readies
<1>6. ASSUME NEW o \in TaskIds \ {id}
      PROVE  u.tasks[o].status # "ready" /\ (o \in EligiblePlanned(u) => Precedes(u, id, o))
  <2>1. u.tasks[o] = t.tasks[o] /\ t.tasks[o].status # "ready"
    BY DEF Readies, HasReadyTask
  <2>2. ASSUME o \in EligiblePlanned(u) PROVE o \in EligiblePlanned(t)
    <3>1. /\ t.tasks[o].status = "planned" /\ ~IsMerge(t.tasks[o])
          /\ IsClosing(t.tasks[o]) => AllWorkCompleted(u)
          /\ \A d \in t.tasks[o].deps : u.tasks[d].status = "completed"
      BY <2>1, <2>2 DEF EligiblePlanned
    <3>2. AllWorkCompleted(u) => AllWorkCompleted(t)
      <4>1. \A w \in GoalWork(t) : w \in TaskIds
        BY DEF GoalWork, Rows
      <4> QED BY <1>4, <4>1 DEF AllWorkCompleted, Readies
    <3>3. \A d \in t.tasks[o].deps : t.tasks[d].status = "completed"
      <4>1. t.tasks[o].deps \subseteq TaskIds
        BY TraceRow DEF Task
      <4> QED BY <3>1, <4>1 DEF Readies
    <3> QED BY <3>1, <3>2, <3>3 DEF EligiblePlanned
  <2>3. Precedes(t, id, o) => Precedes(u, id, o)
    BY <2>1 DEF Precedes, Readies
  <2> QED BY <2>1, <2>2, <2>3 DEF IsFirstEligible
<1> QED BY <1>1, <1>2, <1>3, <1>5, <1>6 DEF Deserves

LEMMA ElectsDeserves ==
  ASSUME NEW t \in Trace, NEW u, Elects(t, u), NEW id \in TaskIds,
         t.tasks[id].status # "ready", u.tasks[id].status = "ready"
  PROVE  Deserves(u, id)
<1>1. PICK o \in TaskIds : ~HasReadyTask(t) /\ IsFirstEligible(t, o) /\ Readies(t, u, o)
  BY DEF Elects
<1>2. o = id
  BY <1>1 DEF Readies
<1> QED BY <1>1, <1>2, ReadiesDeserves

\* An election leaves a ready task behind, so there is no second one.
LEMMA ElectsOnce ==
  ASSUME NEW t, NEW u, NEW v, Elects(t, u), Elects(u, v)
  PROVE  Elects(t, v)
<1>1. CASE u.tasks = t.tasks
  <2>1. HasReadyTask(u) <=> HasReadyTask(t)
    BY <1>1 DEF HasReadyTask
  <2>2. EligiblePlanned(u) = EligiblePlanned(t)
    <3>1. AllWorkCompleted(u) <=> AllWorkCompleted(t)
      BY <1>1 DEF AllWorkCompleted, GoalWork, Rows
    <3> QED BY <1>1, <3>1 DEF EligiblePlanned
  <2>3. \A id \in TaskIds : IsFirstEligible(u, id) => IsFirstEligible(t, id)
    BY <1>1, <2>2 DEF IsFirstEligible, Precedes
  <2> QED BY <1>1, <2>1, <2>3 DEF Elects, Readies
<1>2. CASE u.tasks # t.tasks
  <2>1. PICK id \in TaskIds : ~HasReadyTask(t) /\ IsFirstEligible(t, id) /\ Readies(t, u, id)
    BY <1>2 DEF Elects
  <2>2. HasReadyTask(u)
    BY <2>1 DEF Readies, HasReadyTask
  <2>3. v.tasks = u.tasks
    BY <2>2 DEF Elects
  <2>4. Readies(t, v, id)
    BY <2>1, <2>3 DEF Readies
  <2> QED BY <2>1, <2>4 DEF Elects
<1> QED BY <1>1, <1>2

LEMMA DropElects ==
  ASSUME NEW t \in Trace
  PROVE  Elects(t, DropStaleKick(t))
BY DEF DropStaleKick, Elects, Trace

LEMMA ParkedElects ==
  ASSUME NEW t \in Trace
  PROVE  Elects(t, PromoteParked(t))
<1> DEFINE k == t.parked
           row == [t.tasks[k.task] EXCEPT !.status = "ready", !.bee = Overlay(@, k.bee)]
           moved == [t EXCEPT !.tasks[k.task].status = "ready",
                              !.tasks[k.task].bee = Overlay(@, k.bee),
                              !.parked = NoKick]
<1>1. \/ PromoteParked(t) = t
      \/ PromoteParked(t) = moved /\ ~HasReadyTask(t) /\ IsFirstEligible(t, k.task)
  BY DEF PromoteParked
<1>2. ASSUME IsFirstEligible(t, k.task) PROVE k.task \in TaskIds /\ Readies(t, moved, k.task)
  <2>1. k.task \in TaskIds
    BY <1>2 DEF IsFirstEligible, EligiblePlanned
  <2>2. moved.tasks = [t.tasks EXCEPT ![k.task] = row]
    BY <2>1, TraceRow DEF Trace, Task
  <2>3. /\ row.status = "ready" /\ row.phase = t.tasks[k.task].phase
        /\ row.analysis = t.tasks[k.task].analysis /\ row.deps = t.tasks[k.task].deps
        /\ row.created = t.tasks[k.task].created
    BY <2>1, TraceRow DEF Task
  <2> HIDE DEF row, moved
  <2> QED BY <2>1, <2>2, <2>3, TraceRow DEF Readies
<1> QED BY <1>1, <1>2 DEF Elects

LEMMA FirstElects ==
  ASSUME NEW t \in Trace
  PROVE  Elects(t, PromoteFirstEligible(t))
<1> DEFINE u == PromoteFirstEligible(t)
<1>1. u.tasks = [id \in TaskIds |->
            IF ~t.killed /\ ~HasReadyTask(t) /\ IsFirstEligible(t, id)
            THEN [t.tasks[id] EXCEPT !.status = "ready"] ELSE t.tasks[id]]
  BY DEF PromoteFirstEligible, Trace
<1> HIDE DEF u
<1>2. CASE \E id \in TaskIds : ~t.killed /\ ~HasReadyTask(t) /\ IsFirstEligible(t, id)
  <2>1. PICK id \in TaskIds : ~t.killed /\ ~HasReadyTask(t) /\ IsFirstEligible(t, id)
    BY <1>2
  <2>2. ASSUME NEW o \in TaskIds \ {id} PROVE ~IsFirstEligible(t, o)
    <3>1. SUFFICES ASSUME IsFirstEligible(t, o) PROVE FALSE
      OBVIOUS
    <3>2. Precedes(t, id, o) /\ Precedes(t, o, id)
      BY <2>1, <3>1 DEF IsFirstEligible
    <3>3. /\ id \in Nat /\ o \in Nat
          /\ t.tasks[id].created \in Nat /\ t.tasks[o].created \in Nat
      <4>1. id \in TaskIds /\ o \in TaskIds
        BY <2>1 DEF IsFirstEligible, EligiblePlanned
      <4>2. t.tasks[id] \in Task /\ t.tasks[o] \in Task
        BY <4>1, TraceRow
      <4>3. /\ t.tasks[id].created \in Stamps \cup {0}
            /\ t.tasks[o].created \in Stamps \cup {0}
        BY <4>2 DEF Task
      <4>4. Stamps \cup {0} \subseteq Nat /\ TaskIds \subseteq Nat
        BY IdsAssumption
      <4> QED BY <4>1, <4>3, <4>4
    <3>4. t.tasks[id].created = t.tasks[o].created
      BY <3>2, <3>3 DEF Precedes
    <3> QED BY <3>2, <3>3, <3>4 DEF Precedes
  <2>3. \A o \in TaskIds \ {id} : u.tasks[o] = t.tasks[o]
    BY <1>1, <2>2
  <2>4. u.tasks[id] = [t.tasks[id] EXCEPT !.status = "ready"]
    BY <1>1, <2>1
  <2>5. Readies(t, u, id)
    BY <2>3, <2>4, TraceRow DEF Readies, Task
  <2>6. Elects(t, u)
    BY <2>1, <2>5 DEF Elects
  <2> QED BY <2>6 DEF u
<1>3. CASE ~\E id \in TaskIds : ~t.killed /\ ~HasReadyTask(t) /\ IsFirstEligible(t, id)
  <2>1. u.tasks = [id \in TaskIds |-> t.tasks[id]]
    BY <1>1, <1>3
  <2>2. t.tasks = [id \in TaskIds |-> t.tasks[id]]
    BY DEF Trace
  <2>3. Elects(t, u)
    BY <2>1, <2>2 DEF Elects
  <2> QED BY <2>3 DEF u
<1> QED BY <1>2, <1>3

\* The events.  A task an event makes ready deserves it, or was ready before.

LEMMA PlanDeserves ==
  ASSUME NEW t \in Trace, NEW plan \in Plan, NEW runtime \in BOOLEAN,
         NEW analysis \in BOOLEAN, NEW now \in Stamps, NEW id \in TaskIds,
         t.tasks[id].status # "ready",
         ReduceTaskPlan(t, plan, runtime, analysis, now).tasks[id].status = "ready"
  PROVE  Deserves(ReduceTaskPlan(t, plan, runtime, analysis, now), id)
<1> DEFINE added == {o \in DOMAIN plan : ~Registered(t.tasks[o])}
           rows == [o \in TaskIds |->
                       IF o \in added
                       THEN PlannedRow(plan[o], runtime, analysis, now)
                       ELSE t.tasks[o]]
           planned == [t EXCEPT !.tasks = rows]
           accepted == \E o \in added : IsGoalWork(planned.tasks[o])
           admitted == IF accepted THEN AdvanceWorkRevision(planned) ELSE planned
           result == ReduceTaskPlan(t, plan, runtime, analysis, now)
<1>1. \A o \in DOMAIN plan : plan[o] \in TaskSpec
  BY DEF Plan
<1>2. \A spec \in TaskSpec :
         /\ PlannedRow(spec, runtime, analysis, now) \in Task
         /\ PlannedRow(spec, runtime, analysis, now).status = "planned"
  BY DEF TaskSpec, PlannedRow, PlannedPhase, Task, Status, Phase, Workspace
<1>3. /\ rows \in [TaskIds -> Task]
      /\ rows[id].status # "ready"
  BY <1>1, <1>2, TraceRow
<1>4. planned \in Trace /\ planned.tasks = rows
  <2> HIDE DEF rows
  <2> QED BY <1>3, RowsType DEF Trace
<1>5. admitted \in Trace /\ admitted.tasks = rows
  <2> HIDE DEF planned, accepted, rows
  <2> QED BY <1>4, AdvanceType, AdvanceFrame
<1>6. result = DropStaleKick(PromoteParked(admitted))
  BY DEF ReduceTaskPlan
<1> HIDE DEF admitted, rows, result
<1>7. Elects(admitted, result)
  BY <1>5, <1>6, PromoteParkedType, ParkedElects, DropElects, ElectsOnce
<1> QED BY <1>3, <1>5, <1>7, ElectsDeserves DEF result

LEMMA ReadyDeserves ==
  ASSUME NEW t \in Trace, NEW id \in TaskIds, NEW bee \in Bees \cup {NoBee},
         NEW o \in TaskIds, t.tasks[o].status \in {"absent", "unset", "planned"},
         ReduceTaskReady(t, id, bee).tasks[o].status = "ready"
  PROVE  Deserves(ReduceTaskReady(t, id, bee), o)
<1> DEFINE row == [t.tasks[id] EXCEPT !.status = "ready", !.bee = Overlay(@, bee)]
           requeued == [t EXCEPT !.tasks[id].status = "ready",
                                 !.tasks[id].bee = Overlay(@, bee)]
           parked == [t EXCEPT !.parked = [task |-> id, bee |-> bee],
                               !.tasks[id] = NoRow]
           result == ReduceTaskReady(t, id, bee)
<1>1. requeued \in Trace /\ requeued.tasks = [t.tasks EXCEPT ![id] = row]
  <2>1. requeued = [t EXCEPT !.tasks = [t.tasks EXCEPT ![id] = row]]
    BY TraceRow DEF Trace, Task
  <2>2. row \in Task
    BY TraceRow, KickedRowType
  <2> HIDE DEF row, requeued
  <2>3. [t.tasks EXCEPT ![id] = row] \in [TaskIds -> Task]
    BY <2>2, TraceRow
  <2> QED BY <2>1, <2>3, RowsType DEF Trace
<1>2. parked \in Trace /\ parked.tasks = [t.tasks EXCEPT ![id] = NoRow]
  <2>1. NoRow \in Task
    BY DEF NoRow, Task, Status, Phase, Workspace
  <2>2. [t.tasks EXCEPT ![id] = NoRow] \in [TaskIds -> Task]
    BY <2>1, TraceRow
  <2>3. [task |-> id, bee |-> bee] \in Kick
    BY DEF Kick
  <2> QED BY <2>2, <2>3 DEF Trace
<1>3. /\ row.status = "ready" /\ row.phase = t.tasks[id].phase
      /\ row.analysis = t.tasks[id].analysis /\ row.deps = t.tasks[id].deps
      /\ row.created = t.tasks[id].created
  BY TraceRow DEF Task
<1>4. /\ DropStaleKick(requeued).tasks = requeued.tasks
      /\ DropStaleKick(AdvanceWorkRevision(requeued)).tasks = requeued.tasks
      /\ DropStaleKick(parked).tasks = parked.tasks
  <2> HIDE DEF requeued, parked
  <2> QED BY <1>1, <1>2, AdvanceType, AdvanceFrame, DropFrame
<1>5. \/ result.tasks = t.tasks
      \/ result.tasks = [t.tasks EXCEPT ![id] = NoRow]
      \/ /\ result.tasks = [t.tasks EXCEPT ![id] = row]
         /\ \/ t.tasks[id].status \in {"failed", "running"}
            \/ ~HasReadyTask(t) /\ IsFirstEligible(t, id)
  <2> HIDE DEF row
  <2> QED BY <1>1, <1>2, <1>4 DEF ReduceTaskReady
<1> HIDE DEF row, requeued, parked, result
<1>6. NoRow.status = "absent" /\ result.tasks[o].status = "ready"
  BY DEF NoRow, result
<1>7. /\ o = id /\ result.tasks = [t.tasks EXCEPT ![id] = row]
      /\ ~HasReadyTask(t) /\ IsFirstEligible(t, id)
  BY <1>5, <1>6, TraceRow
<1>8. Readies(t, result, id)
  BY <1>3, <1>7, TraceRow DEF Readies
<1> QED BY <1>7, <1>8, ReadiesDeserves DEF result

LEMMA StatusStarts ==
  ASSUME NEW t \in Trace, NEW id \in TaskIds, NEW status \in Status, NEW now \in Stamps,
         NEW o \in TaskIds, t.tasks[o].status # "ready",
         ReduceTaskStatus(t, id, status, now).tasks[o].status = "ready"
  PROVE  o = id /\ status = "ready"
<1> DEFINE row == [StampedRow(t, id, now) EXCEPT !.status = status]
           moved == [t EXCEPT !.tasks[id] = row]
           back == /\ IsGoalWork(t.tasks[id])
                   /\ IsReworkReturn(t.tasks[id].status)
                   /\ status \in {"ready", "running"}
           reopened == IF back THEN AdvanceWorkRevision(moved) ELSE moved
           closed == IF status = "running" THEN ConsumeTaskEntries(reopened, id)
                     ELSE reopened
           result == ReduceTaskStatus(t, id, status, now)
<1>1. row.status = status
  BY StampedRowType, TraceRow DEF Task
<1> HIDE DEF row
<1>2. moved \in Trace /\ moved.tasks = [t.tasks EXCEPT ![id] = row]
  BY MovedType DEF Trace, row
<1>3. reopened \in Trace /\ reopened.tasks = moved.tasks
  <2> HIDE DEF moved, back
  <2> QED BY <1>2, AdvanceType, AdvanceFrame
<1>4. closed \in Trace /\ closed.tasks = moved.tasks
  <2> HIDE DEF reopened, moved
  <2> QED BY <1>3, CloseEntriesType, CloseFrame DEF ConsumeTaskEntries, EntryStatus
<1>5. result = IF t.killed THEN t ELSE DropStaleKick(closed)
  BY DEF ReduceTaskStatus, row
<1> HIDE DEF closed, reopened, moved
<1>6. result.tasks \in {t.tasks, moved.tasks}
  BY <1>4, <1>5, DropFrame
<1> QED BY <1>1, <1>2, <1>6, TraceRow DEF result

LEMMA CompletedDeserves ==
  ASSUME NEW t \in Trace, NEW id \in TaskIds, NEW status \in Status, NEW now \in Stamps,
         NEW o \in TaskIds, t.tasks[o].status # "ready", o = id => status # "ready",
         ReduceTaskCompleted(t, id, status, now).tasks[o].status = "ready"
  PROVE  Deserves(ReduceTaskCompleted(t, id, status, now), o)
<1> DEFINE row == [StampedRow(t, id, now) EXCEPT !.status = status]
           moved == [t EXCEPT !.tasks[id] = row]
           promoted == PromoteFirstEligible(PromoteParked(moved))
           result == ReduceTaskCompleted(t, id, status, now)
<1>1. row.status = status
  BY StampedRowType, TraceRow DEF Task
<1> HIDE DEF row
<1>2. moved \in Trace /\ moved.tasks = [t.tasks EXCEPT ![id] = row]
  BY MovedType DEF Trace, row
<1>3. moved.tasks[o].status # "ready"
  BY <1>1, <1>2, TraceRow
<1>4. result = IF t.killed THEN t ELSE DropStaleKick(promoted)
  BY DEF ReduceTaskCompleted, row
<1> HIDE DEF moved
<1>5. PromoteParked(moved) \in Trace /\ promoted \in Trace
  BY <1>2, PromoteParkedType, PromoteFirstEligibleType
<1>6. Elects(moved, promoted)
  BY <1>2, <1>5, ParkedElects, FirstElects, ElectsOnce
<1> HIDE DEF promoted, result
<1>7. result = DropStaleKick(promoted)
  BY <1>4 DEF result
<1>8. Elects(moved, result)
  BY <1>5, <1>6, <1>7, DropElects, ElectsOnce
<1> QED BY <1>2, <1>3, <1>8, ElectsDeserves DEF result

LEMMA ProposalStarts ==
  ASSUME NEW t \in Trace, NEW id \in TaskIds, NEW w \in Workspace, NEW now \in Stamps,
         NEW o \in TaskIds, ReduceCodeProposal(t, id, w, now).tasks[o].status = "ready"
  PROVE  t.tasks[o].status = "ready"
<1> DEFINE old == StampedRow(t, id, now)
           row == [old EXCEPT !.workspace = w,
                              !.status = IF @ = "absent" THEN "unset" ELSE @]
           u == [t EXCEPT !.tasks[id] = row]
           result == ReduceCodeProposal(t, id, w, now)
<1>1. old \in Task /\ old.status = t.tasks[id].status
  BY StampedRowType, TraceRow DEF StampedRow, Task
<1>2. row \in Task /\ row.status \in {t.tasks[id].status, "unset"}
  <2> HIDE DEF old
  <2> QED BY <1>1 DEF Task, Status
<1>3. result = DropStaleKick(u)
  BY DEF ReduceCodeProposal
<1> HIDE DEF row, result
<1>4. u.tasks = [t.tasks EXCEPT ![id] = row]
  BY DEF Trace
<1>5. u \in Trace
  <2>1. [t.tasks EXCEPT ![id] = row] \in [TaskIds -> Task]
    BY <1>2, TraceRow
  <2>2. u = [t EXCEPT !.tasks = [t.tasks EXCEPT ![id] = row]]
    BY DEF Trace
  <2> QED BY <2>1, <2>2, RowsType
<1> HIDE DEF u
<1>6. result.tasks = u.tasks
  BY <1>3, <1>5, DropFrame
<1> QED BY <1>2, <1>4, <1>6, TraceRow DEF result

\* A kill and a stipend only close tasks.
LEMMA ClosingStarts ==
  ASSUME NEW t \in Trace, NEW amount \in Nat, NEW o \in TaskIds,
         \/ ReduceSystemKill(t).tasks[o].status = "ready"
         \/ ReduceEnergyStipend(t, amount).tasks[o].status = "ready"
  PROVE  t.tasks[o].status = "ready"
<1>1. ASSUME ReduceSystemKill(t).tasks[o].status = "ready" PROVE t.tasks[o].status = "ready"
  <2>1. /\ AbandonEntries(t) \in Trace
    BY CloseEntriesType DEF AbandonEntries, EntryStatus
  <2>2. \/ ReduceSystemKill(t) = t
        \/ ReduceSystemKill(t).tasks[o] = IF Killable(t.tasks[o].status)
                 THEN [t.tasks[o] EXCEPT !.status = "cancelled"] ELSE t.tasks[o]
    BY <2>1 DEF ReduceSystemKill, Trace
  <2> QED BY <1>1, <2>2, TraceRow DEF Task
<1>2. ASSUME ReduceEnergyStipend(t, amount).tasks[o].status = "ready"
      PROVE  t.tasks[o].status = "ready"
  <2> DEFINE closed == CloseEntries(t, HoneyWaiting(t), "abandoned")
             superseded == {id \in TaskIds :
                /\ t.tasks[id].status = "ready"
                /\ \E i \in HoneyWaiting(t) : WaitsFor(t, i, id)}
             rows == [id \in TaskIds |-> IF id \in superseded
                         THEN [t.tasks[id] EXCEPT !.status = "skipped"] ELSE t.tasks[id]]
             s == [closed EXCEPT !.tasks = rows]
             u == [s EXCEPT !.remaining = amount, !.pause = "none"]
  <2>1. closed \in Trace
    BY CloseEntriesType DEF EntryStatus
  <2>2. ReduceEnergyStipend(t, amount) = DropStaleKick(u)
    BY DEF ReduceEnergyStipend, SupersedeEntries
  <2>3. rows[o].status = "ready" => t.tasks[o].status = "ready"
    BY TraceRow DEF Task
  <2> HIDE DEF closed, rows
  <2>4. u.tasks = rows
    BY <2>1 DEF Trace
  <2> HIDE DEF u
  <2>5. DropStaleKick(u).tasks \in {u.tasks}
    BY DEF DropStaleKick
  <2> QED BY <1>2, <2>2, <2>3, <2>4, <2>5
<1> QED BY <1>1, <1>2

\* The other operations leave every row alone.
LEMMA AsideTasks ==
  ASSUME NEW t \in Trace
  PROVE  /\ \A a : ReduceEnergyAdd(t, a).tasks = t.tasks /\ ReduceEnergyConsume(t, a).tasks = t.tasks
         /\ EnsureEnergySeed(t).tasks = t.tasks /\ MarkEnergySeedPublished(t).tasks = t.tasks
         /\ \A id, held, analysis : DeferPendingDispatch(t, id, held, analysis).tasks = t.tasks
         /\ \A id, status : ResolvePendingDispatch(t, id, status).tasks = t.tasks
         /\ \A id : MarkPendingDispatchUnresolved(t, id).tasks = t.tasks
         /\ ClaimEnergyPausePublished(t).tasks = t.tasks /\ CloseEnergyPause(t).tasks = t.tasks
         /\ \A r : RecordWorkCompletion(t, r).tasks = t.tasks
         /\ MarkWorkCompletionPublished(t).tasks = t.tasks
<1>1. \A a : ReduceEnergyAdd(t, a).tasks = t.tasks /\ ReduceEnergyConsume(t, a).tasks = t.tasks
  BY DEF ReduceEnergyAdd, ReduceEnergyConsume, DropStaleKick, Trace
<1>2. \A id, status : ResolvePendingDispatch(t, id, status).tasks = t.tasks
  BY DEF ResolvePendingDispatch, CloseEntries, Trace
<1>3. \A id : MarkPendingDispatchUnresolved(t, id).tasks = t.tasks
  BY <1>2 DEF MarkPendingDispatchUnresolved
<1>4. \A id, held, analysis : DeferPendingDispatch(t, id, held, analysis).tasks = t.tasks
  BY DEF DeferPendingDispatch, Trace
<1>5. EnsureEnergySeed(t).tasks = t.tasks /\ MarkEnergySeedPublished(t).tasks = t.tasks
  BY DEF EnsureEnergySeed, MarkEnergySeedPublished, Trace
<1>6. /\ ClaimEnergyPausePublished(t).tasks = t.tasks /\ CloseEnergyPause(t).tasks = t.tasks
      /\ \A r : RecordWorkCompletion(t, r).tasks = t.tasks
      /\ MarkWorkCompletionPublished(t).tasks = t.tasks
  BY DEF ClaimEnergyPausePublished, CloseEnergyPause, RecordWorkCompletion,
         MarkWorkCompletionPublished, Trace
<1> QED BY <1>1, <1>2, <1>3, <1>4, <1>5, <1>6

LEMMA PromotedDeserves ==
  ASSUME TypeOK, [Next]_trace, NEW id \in TaskIds, Promoted(id)
  PROVE  Deserves(trace', id)
<1> USE DEF TypeOK
<1>1. /\ trace.tasks[id].status \in {"absent", "unset", "planned"}
      /\ trace.tasks[id].status # "ready" /\ trace'.tasks[id].status = "ready"
      /\ trace'.tasks # trace.tasks
  BY DEF Promoted
<1>2. \A now \in Stamps : ~TaskStatus(id, "ready", now) /\ ~TaskCompleted(id, "ready", now)
  BY DEF Promoted
<1>3. CASE TaskEvent
  <2>1. ASSUME NEW plan \in Plans, NEW runtime \in BOOLEAN, NEW analysis \in Analyses,
               NEW now \in Stamps, TaskPlan(plan, runtime, analysis, now)
        PROVE  Deserves(trace', id)
    <3>1. plan \in Plan /\ analysis \in BOOLEAN
      BY EventAssumption
    <3> QED BY <1>1, <2>1, <3>1, PlanDeserves DEF TaskPlan
  <2>2. ASSUME NEW o \in TaskIds, NEW bee \in Bees \cup {NoBee}, TaskReady(o, bee)
        PROVE  Deserves(trace', id)
    BY <1>1, <2>2, ReadyDeserves DEF TaskReady
  <2>3. ASSUME NEW o \in TaskIds, NEW s \in StatusEvents, NEW now \in Stamps,
               TaskStatus(o, s, now)
        PROVE  FALSE
    <3>1. s \in Status
      BY EventAssumption
    <3>2. o = id /\ s = "ready"
      BY <1>1, <2>3, <3>1, StatusStarts DEF TaskStatus
    <3> QED BY <1>2, <2>3, <3>2
  <2>4. ASSUME NEW o \in TaskIds, NEW s \in CompletedEvents, NEW now \in Stamps,
               TaskCompleted(o, s, now)
        PROVE  Deserves(trace', id)
    <3>1. s \in Status
      BY EventAssumption
    <3>2. id = o => s # "ready"
      BY <1>2, <2>4
    <3>3. trace' = ReduceTaskCompleted(trace, o, s, now)
      BY <2>4 DEF TaskCompleted
    <3> QED BY <1>1, <3>1, <3>2, <3>3, CompletedDeserves
  <2>5. ASSUME NEW o \in TaskIds, NEW w \in Workspaces, NEW now \in Stamps,
               CodeProposal(o, w, now)
        PROVE  FALSE
    <3>1. w \in Workspace
      BY EventAssumption
    <3> QED BY <1>1, <2>5, <3>1, ProposalStarts DEF CodeProposal
  <2> QED BY <1>3, <2>1, <2>2, <2>3, <2>4, <2>5 DEF TaskEvent
<1>4. CASE SystemKill
  <2>1. 0 \in Nat
    OBVIOUS
  <2> QED BY <1>1, <1>4, <2>1, ClosingStarts DEF SystemKill
<1>5. CASE EnergyEvent
  <2>1. PICK a \in Amounts : EnergyAdd(a) \/ EnergyConsume(a) \/ EnergyStipend(a)
    BY <1>5 DEF EnergyEvent
  <2>2. a \in Nat
    BY EventAssumption
  <2>3. ~EnergyAdd(a) /\ ~EnergyConsume(a)
    BY <1>1, AsideTasks DEF EnergyAdd, EnergyConsume
  <2>4. trace' = ReduceEnergyStipend(trace, a)
    BY <2>1, <2>3 DEF EnergyStipend
  <2> QED BY <1>1, <2>2, <2>4, ClosingStarts
<1>6. CASE SeedEnergy \/ SeedPublished
  BY <1>1, <1>6, AsideTasks DEF SeedEnergy, SeedPublished
<1>7. CASE DispatchOperation
  <2>1. ~\E o \in TaskIds, bee \in Bees : DeferTask(o, bee) \/ ResolveTask(o, bee)
    <3>1. \A o, bee : DeferTask(o, bee) => trace'.tasks = trace.tasks
      BY DEF DeferTask, DeferPendingDispatch, Trace
    <3>2. \A o, bee : ResolveTask(o, bee) => trace'.tasks = trace.tasks
      BY AsideTasks DEF ResolveTask
    <3> QED BY <1>1, <3>1, <3>2
  <2>2. ~\E source \in Sources, bee \in Bees, held \in BOOLEAN, analysis \in Analyses :
             DeferDirect(source, bee, held, analysis)
    BY <1>1, AsideTasks DEF DeferDirect
  <2>3. ~\E source \in Sources, bee \in Bees :
             ResolveDirect(source, bee) \/ SourceMissing(source, bee)
    BY <1>1, AsideTasks DEF ResolveDirect, SourceMissing
  <2> QED BY <1>7, <2>1, <2>2, <2>3 DEF DispatchOperation
<1>8. CASE ClaimPause \/ ClearPause
  BY <1>1, <1>8, AsideTasks DEF ClaimPause, ClearPause
<1>9. CASE RecordCompletion \/ CompletionPublished
  BY <1>1, <1>9, AsideTasks DEF RecordCompletion, CompletionPublished
<1>10. CASE UNCHANGED trace
  BY <1>1, <1>10
<1> QED
  BY <1>3, <1>4, <1>5, <1>6, <1>7, <1>8, <1>9, <1>10 DEF Next

\* Whatever event promotes a planned task, the task deserves it.
THEOREM PromotionsAreEligible == Spec => PromotionIsEligible
<1>1. TypeOK /\ [Next]_trace =>
        [\A id \in TaskIds : Promoted(id) =>
           LET row == trace'.tasks[id]
           IN  /\ \A d \in row.deps : trace'.tasks[d].status = "completed"
               /\ ~IsMerge(row)
               /\ IsClosing(row) => AllWorkCompleted(trace')
               /\ \A o \in TaskIds \ {id} :
                     /\ trace'.tasks[o].status # "ready"
                     /\ o \in EligiblePlanned(trace') => Precedes(trace', id, o)]_trace
  BY PromotedDeserves DEF Deserves
<1> QED
  BY <1>1, TypeCorrect, PTL DEF Spec, PromotionIsEligible

-----------------------------------------------------------------------------
(***************************************************************************)
(* The stored ledger, for any number of writers, attempts and any choice   *)
(* of operations: it is linearizable, and what its callers were told about *)
(* seeds, pause claims and honey is true.                                  *)
(***************************************************************************)

(* What one operation does *)

LEMMA MutatedIs ==
  ASSUME NEW t, NEW op
  PROVE  /\ op.kind = "energy.add" => Mutated(t, op) = ReduceEnergyAdd(t, 1)
         /\ op.kind = "energy.consume" => Mutated(t, op) = ReduceEnergyConsume(t, 1)
         /\ op.kind = "energy.stipend" => Mutated(t, op) = ReduceEnergyStipend(t, 1)
         /\ op.kind = "running" =>
               Mutated(t, op) = ReduceTaskStatus(t, op.task, "running", op.now)
         /\ op.kind = "system.kill" => Mutated(t, op) = ReduceSystemKill(t)
         /\ op.kind = "seed" => Mutated(t, op) = EnsureEnergySeed(t)
         /\ op.kind = "defer" =>
               Mutated(t, op) = DeferPendingDispatch(t, TaskDispatch(op.task, op.bee),
                                    FALSE, t.tasks[op.task].analysis)
         /\ op.kind = "claim" => Mutated(t, op) = ClaimEnergyPausePublished(t)
         /\ op.kind = "clear" => Mutated(t, op) = CloseEnergyPause(t)
BY Zenon DEF Mutated

LEMMA MutatedType ==
  ASSUME NEW t \in Trace, NEW op \in Operation, ~Refused(t, op)
  PROVE  Mutated(t, op) \in Trace
<1>1. op.kind \in KindSet /\ op.task \in TaskIds /\ op.bee \in Bees /\ op.now \in Stamps
  BY CASAssumption DEF Operation
<1>2. CASE op.kind = "energy.add"
  BY <1>2, AddType, MutatedIs
<1>3. CASE op.kind = "energy.consume"
  BY <1>3, ConsumeType, MutatedIs DEF Refused
<1>4. CASE op.kind = "energy.stipend"
  BY <1>4, StipendType, MutatedIs
<1>5. CASE op.kind = "running"
  <2>1. "running" \in Status
    BY DEF Status
  <2>2. Mutated(t, op) = ReduceTaskStatus(t, op.task, "running", op.now)
    BY <1>5, MutatedIs
  <2> QED BY <1>1, <2>1, <2>2, StatusType
<1>6. CASE op.kind = "system.kill"
  BY <1>6, KillType, MutatedIs
<1>7. CASE op.kind = "seed"
  BY <1>7, SeedType, MutatedIs
<1>8. CASE op.kind = "defer"
  <2>1. t.tasks[op.task].analysis \in BOOLEAN
    BY <1>1, TraceRow DEF Task
  <2>2. TaskDispatch(op.task, op.bee) \in DispatchId
    BY <1>1, DispatchIdType
  <2> QED BY <1>8, <2>1, <2>2, DeferType, MutatedIs
<1>9. CASE op.kind \in {"claim", "clear"}
  BY <1>9, EpisodeType, MutatedIs
<1> QED
  BY <1>1, <1>2, <1>3, <1>4, <1>5, <1>6, <1>7, <1>8, <1>9 DEF KindSet

\* The seed record and the pause episode are as they were.
Keeps(t, u) == u.seed = t.seed /\ u.pause = t.pause

LEMMA DropKeeps ==
  ASSUME NEW t \in Trace
  PROVE  Keeps(t, DropStaleKick(t))
BY DEF Keeps, DropStaleKick, Trace

LEMMA CloseKeeps ==
  ASSUME NEW t \in Trace, NEW which, NEW status \in EntryStatus
  PROVE  Keeps(t, CloseEntries(t, which, status))
BY DEF Keeps, CloseEntries, Trace

LEMMA StatusKeeps ==
  ASSUME NEW t \in Trace, NEW id \in TaskIds, NEW now \in Stamps
  PROVE  Keeps(t, ReduceTaskStatus(t, id, "running", now))
<1> DEFINE moved == [t EXCEPT !.tasks[id] =
                       [StampedRow(t, id, now) EXCEPT !.status = "running"]]
           back == /\ IsGoalWork(t.tasks[id])
                   /\ IsReworkReturn(t.tasks[id].status)
           reopened == IF back THEN AdvanceWorkRevision(moved) ELSE moved
           closed == ConsumeTaskEntries(reopened, id)
<1>1. moved \in Trace /\ Keeps(t, moved)
  <2>1. moved \in Trace
    BY MovedType DEF Status
  <2>2. Keeps(t, moved)
    BY DEF Keeps, Trace
  <2> QED BY <2>1, <2>2
<1>2. reopened \in Trace /\ Keeps(t, reopened)
  <2> HIDE DEF moved, back
  <2>1. Keeps(moved, AdvanceWorkRevision(moved))
    BY <1>1 DEF Keeps, AdvanceWorkRevision, Trace
  <2> QED BY <1>1, <2>1, AdvanceType DEF Keeps
<1>3. closed \in Trace /\ Keeps(t, closed)
  <2> HIDE DEF reopened
  <2> QED BY <1>2, CloseEntriesType, CloseKeeps
          DEF ConsumeTaskEntries, EntryStatus, Keeps
<1>4. ReduceTaskStatus(t, id, "running", now) =
        IF t.killed THEN t ELSE DropStaleKick(closed)
  BY DEF ReduceTaskStatus
<1> HIDE DEF closed
<1> QED
  BY <1>3, <1>4, DropKeeps DEF Keeps

LEMMA KillKeeps ==
  ASSUME NEW t \in Trace
  PROVE  Keeps(t, ReduceSystemKill(t))
<1>1. AbandonEntries(t) \in Trace /\ Keeps(t, AbandonEntries(t))
  BY CloseEntriesType, CloseKeeps DEF AbandonEntries, EntryStatus
<1> QED
  BY <1>1 DEF ReduceSystemKill, Keeps, Trace

LEMMA StipendKeeps ==
  ASSUME NEW t \in Trace
  PROVE  /\ ReduceEnergyStipend(t, 1).seed = t.seed
         /\ ReduceEnergyStipend(t, 1).pause = "none"
<1> DEFINE closed == CloseEntries(t, HoneyWaiting(t), "abandoned")
           after == [SupersedeEntries(t) EXCEPT !.remaining = 1, !.pause = "none"]
<1>1. closed \in Trace /\ Keeps(t, closed)
  BY CloseEntriesType, CloseKeeps DEF EntryStatus
<1>2. after.seed = t.seed /\ after.pause = "none"
  <2>1. SupersedeEntries(t).seed = closed.seed
    BY <1>1 DEF SupersedeEntries, Trace
  <2>2. DOMAIN SupersedeEntries(t) = DOMAIN closed
    BY DEF SupersedeEntries
  <2> HIDE DEF closed
  <2> QED BY <1>1, <2>1, <2>2 DEF Keeps, Trace
<1>3. ReduceEnergyStipend(t, 1) = DropStaleKick(after)
  BY DEF ReduceEnergyStipend
<1>4. DropStaleKick(after).seed = after.seed /\ DropStaleKick(after).pause = after.pause
  <2>1. {"seed", "pause"} \subseteq DOMAIN after
    BY <1>1 DEF SupersedeEntries, Trace
  <2> HIDE DEF after
  <2> QED BY <2>1 DEF DropStaleKick
<1> QED
  BY <1>2, <1>3, <1>4

\* Only a seed makes a seed record, and none undoes it; only a claim marks the
\* pause episode published, and only its end undoes that.
LEMMA EpisodeFrame ==
  ASSUME NEW t \in Trace, NEW op \in Operation, ~Refused(t, op)
  PROVE  LET u == Mutated(t, op)
         IN  /\ IF op.kind = "seed" THEN t.seed = "none" /\ u.seed # "none"
                ELSE u.seed = t.seed
             /\ IF op.kind = "claim" THEN t.pause = "open" /\ u.pause = "published"
                ELSE u.pause = t.pause \/ u.pause = "none" \/ t.pause = "none"
<1>1. op.kind \in KindSet /\ op.task \in TaskIds /\ op.now \in Stamps
  BY CASAssumption DEF Operation
<1>2. CASE op.kind = "energy.add"
  <2> DEFINE u == [t EXCEPT !.remaining = @ + 1,
                            !.added = IF t.budget > 0 THEN @ + 1 ELSE @]
  <2>1. Keeps(t, u) /\ {"seed", "pause"} \subseteq DOMAIN u
    BY DEF Keeps, Trace
  <2>2. Mutated(t, op) = DropStaleKick(u)
    BY <1>2, MutatedIs DEF ReduceEnergyAdd
  <2> HIDE DEF u
  <2>3. Keeps(u, DropStaleKick(u))
    BY <2>1 DEF DropStaleKick, Keeps
  <2> QED BY <1>2, <2>1, <2>2, <2>3 DEF Keeps
<1>3. CASE op.kind = "energy.consume"
  <2> DEFINE u == [t EXCEPT !.remaining = @ - 1]
  <2>1. Keeps(t, u) /\ {"seed", "pause"} \subseteq DOMAIN u
    BY DEF Keeps, Trace
  <2>2. Mutated(t, op) = DropStaleKick(u)
    BY <1>3, MutatedIs DEF ReduceEnergyConsume
  <2> HIDE DEF u
  <2>3. Keeps(u, DropStaleKick(u))
    BY <2>1 DEF DropStaleKick, Keeps
  <2> QED BY <1>3, <2>1, <2>2, <2>3 DEF Keeps
<1>4. CASE op.kind = "energy.stipend"
  BY <1>4, StipendKeeps, MutatedIs
<1>5. CASE op.kind = "running"
  <2>1. Mutated(t, op) = ReduceTaskStatus(t, op.task, "running", op.now)
    BY <1>5, MutatedIs
  <2>2. Keeps(t, Mutated(t, op))
    BY <1>1, <2>1, StatusKeeps
  <2> QED BY <1>5, <2>2 DEF Keeps
<1>6. CASE op.kind = "system.kill"
  BY <1>6, KillKeeps, MutatedIs DEF Keeps
<1>7. CASE op.kind = "seed"
  <2>1. Mutated(t, op) = EnsureEnergySeed(t)
    BY <1>7, MutatedIs
  <2>2. t.seed = "none" /\ ~(t.seed # "none" \/ t.budget > 0)
    BY <1>7 DEF Refused
  <2>3. EnsureEnergySeed(t).seed = "unpublished" /\ EnsureEnergySeed(t).pause = t.pause
    BY <2>2 DEF EnsureEnergySeed, Trace
  <2> QED BY <1>7, <2>1, <2>2, <2>3
<1>8. CASE op.kind = "defer"
  <2> DEFINE id == TaskDispatch(op.task, op.bee)
             analysis == t.tasks[op.task].analysis
             u == DeferPendingDispatch(t, id, FALSE, analysis)
  <2>1. Mutated(t, op) = u
    BY <1>8, MutatedIs
  <2> HIDE DEF id, analysis
  <2>2. u.seed = t.seed /\ (u.pause = t.pause \/ t.pause = "none")
    BY DEF DeferPendingDispatch, Trace
  <2> QED BY <1>8, <2>1, <2>2
<1>9. CASE op.kind = "claim"
  <2>1. Mutated(t, op) = ClaimEnergyPausePublished(t)
    BY <1>9, MutatedIs
  <2>2. t.pause = "open"
    BY <1>9 DEF Refused, CanClaimPause
  <2>3. /\ ClaimEnergyPausePublished(t).seed = t.seed
        /\ ClaimEnergyPausePublished(t).pause = "published"
    BY DEF ClaimEnergyPausePublished, Trace
  <2> QED BY <1>9, <2>1, <2>2, <2>3
<1>10. CASE op.kind = "clear"
  <2>1. Mutated(t, op) = CloseEnergyPause(t)
    BY <1>10, MutatedIs
  <2>2. CloseEnergyPause(t).seed = t.seed /\ CloseEnergyPause(t).pause = "none"
    BY DEF CloseEnergyPause, Trace
  <2> QED BY <1>10, <2>1, <2>2
<1> QED
  BY <1>1, <1>2, <1>3, <1>4, <1>5, <1>6, <1>7, <1>8, <1>9, <1>10 DEF KindSet

-----------------------------------------------------------------------------
(* Type correctness and freshness *)

Busy == [phase: {"loading", "loaded"}, op: Operation, seen: Trace,
         attempt: 0 .. MaxAttempts - 1]

LEMMA BusyCall ==
  ASSUME StoreTypeOK, NEW w \in Writers, call[w] # Idle
  PROVE  call[w] \in Busy /\ call[w].op \in Operation /\ call[w].seen \in Trace
BY DEF StoreTypeOK, Call, Busy

LEMMA LoadedCall ==
  ASSUME StoreTypeOK, NEW w \in Writers, Writing(w)
  PROVE  /\ call[w].op \in Operation /\ call[w].seen \in Trace
         /\ Mutated(call[w].seen, call[w].op) \in Trace
<1>1. call[w] # Idle
  BY DEF Writing, Idle
<1> QED
  BY <1>1, BusyCall, MutatedType DEF Writing

LEMMA ReturnType ==
  ASSUME StoreTypeOK, NEW w \in Writers, Return(w)
  PROVE  call' \in [Writers -> Call]
BY DEF StoreTypeOK, Return, Call

LEMMA StoreTypeStep ==
  ASSUME StoreTypeOK, [StoreNext]_vars
  PROVE  StoreTypeOK'
<1> USE DEF StoreTypeOK
<1>1. CASE UNCHANGED vars
  BY <1>1 DEF vars
<1>2. ASSUME NEW w \in Writers, NEW op \in Operation, Start(w, op)
      PROVE  StoreTypeOK'
  <2>1. [phase |-> "loading", op |-> op, seen |-> EmptyTrace, attempt |-> 0] \in Busy
    BY EmptyType, CASAssumption DEF Busy
  <2> QED BY <1>2, <2>1 DEF Start, Call, Busy
<1>3. ASSUME NEW w \in Writers, Load(w)
      PROVE  StoreTypeOK'
  <2>1. call[w] \in Busy
    BY <1>3, BusyCall DEF Load, Idle
  <2>2. [call[w] EXCEPT !.phase = "loaded", !.seen = value] \in Busy
    BY <2>1 DEF Busy
  <2>3. call' \in [Writers -> Call]
    BY <1>3, <2>2 DEF Load, Call, Busy
  <2> QED BY <1>3, <2>3 DEF Load
<1>4. ASSUME NEW w \in Writers, Refuse(w) \/ Crash(w)
      PROVE  StoreTypeOK'
  BY <1>4, ReturnType DEF Refuse, Crash
<1>5. ASSUME NEW w \in Writers, Put(w)
      PROVE  StoreTypeOK'
  <2>1. /\ call[w].seen.remaining \in Nat /\ value' \in Trace
        /\ value'.remaining \in Nat
    BY <1>5, LoadedCall DEF Put, Store, Trace
  <2>2. call' \in [Writers -> Call]
    BY <1>5, ReturnType DEF Put
  <2> QED BY <1>5, <2>1, <2>2 DEF Put, Store
<1>6. ASSUME NEW w \in Writers, Conflict(w)
      PROVE  StoreTypeOK'
  <2>1. call[w] \in Busy
    BY <1>6, BusyCall DEF Conflict, Writing, Idle
  <2>2. NextAttempt(w) # MaxAttempts =>
          [call[w] EXCEPT !.phase = "loading", !.seen = EmptyTrace,
                          !.attempt = NextAttempt(w)] \in Busy
    <3>1. call[w].attempt \in 0 .. MaxAttempts - 1
      BY <2>1 DEF Busy
    <3>2. NextAttempt(w) # MaxAttempts => NextAttempt(w) \in 0 .. MaxAttempts - 1
      BY <3>1, CASAssumption DEF NextAttempt
    <3> QED BY <2>1, <3>2, EmptyType DEF Busy
  <2>3. call' \in [Writers -> Call]
    BY <1>6, <2>2 DEF Conflict, Call, Busy
  <2> QED BY <1>6, <2>3 DEF Conflict
<1>7. ASSUME NEW w \in Writers, PutUnknown(w)
      PROVE  StoreTypeOK'
  <2>1. /\ call[w].seen.remaining \in Nat
        /\ Mutated(call[w].seen, call[w].op) \in Trace
        /\ Mutated(call[w].seen, call[w].op).remaining \in Nat
    BY <1>7, LoadedCall DEF PutUnknown, Trace
  <2>2. call' \in [Writers -> Call]
    BY <1>7, ReturnType DEF PutUnknown
  <2>3. value' \in Trace /\ fresh' \subseteq Writers
    BY <1>7, <2>1 DEF PutUnknown, Store
  <2>4. claims' \in Nat
    BY <1>7 DEF PutUnknown
  <2> QED BY <1>7, <2>1, <2>2, <2>3, <2>4 DEF PutUnknown
<1> QED
  BY <1>1, <1>2, <1>3, <1>4, <1>5, <1>6, <1>7 DEF StoreNext, Loop

\* Every reachable state is well typed: the stored snapshot is well formed.
THEOREM StoreTypeCorrect == StoreSpec => []StoreTypeOK
<1>1. StoreInit => StoreTypeOK
  BY EmptyType DEF StoreInit, StoreTypeOK, Call
<1> QED
  BY <1>1, StoreTypeStep, PTL DEF StoreSpec

LEMMA FreshStep ==
  ASSUME StoreTypeOK, FreshMeansCurrent, [StoreNext]_vars
  PROVE  FreshMeansCurrent'
<1> USE DEF FreshMeansCurrent, StoreTypeOK
<1>1. CASE UNCHANGED vars
  BY <1>1 DEF vars
<1>2. ASSUME NEW w \in Writers, NEW op \in Operation, Start(w, op)
      PROVE  FreshMeansCurrent'
  <2>1. w \notin fresh
    BY <1>2 DEF Start, Idle
  <2> QED BY <1>2, <2>1 DEF Start
<1>3. ASSUME NEW w \in Writers, Load(w)
      PROVE  FreshMeansCurrent'
  <2>1. call[w] \in Busy
    BY <1>3, BusyCall DEF Load, Idle
  <2>2. call'[w].phase = "loaded" /\ call'[w].seen = value
    BY <1>3, <2>1 DEF Load, Busy
  <2>3. \A v \in Writers \ {w} : call'[v] = call[v]
    BY <1>3 DEF Load
  <2> QED BY <1>3, <2>2, <2>3 DEF Load
<1>4. ASSUME NEW w \in Writers, Refuse(w) \/ Crash(w)
      PROVE  FreshMeansCurrent'
  BY <1>4 DEF Refuse, Crash, Return
<1>5. ASSUME NEW w \in Writers, Put(w)
      PROVE  FreshMeansCurrent'
  BY <1>5 DEF Put, Store
<1>6. ASSUME NEW w \in Writers, Conflict(w)
      PROVE  FreshMeansCurrent'
  <2>1. \A v \in Writers \ {w} : call'[v] = call[v]
    BY <1>6 DEF Conflict
  <2> QED BY <1>6, <2>1 DEF Conflict
<1>7. ASSUME NEW w \in Writers, PutUnknown(w)
      PROVE  FreshMeansCurrent'
  BY <1>7 DEF PutUnknown, Store, Return
<1> QED
  BY <1>1, <1>2, <1>3, <1>4, <1>5, <1>6, <1>7 DEF StoreNext, Loop

LEMMA AlwaysFresh == StoreSpec => [](StoreTypeOK /\ FreshMeansCurrent)
<1>1. StoreInit => StoreTypeOK /\ FreshMeansCurrent
  BY EmptyType DEF StoreInit, StoreTypeOK, Call, FreshMeansCurrent
<1> QED
  BY <1>1, StoreTypeStep, FreshStep, PTL DEF StoreSpec

-----------------------------------------------------------------------------
(* What the callers are told *)

SeedsRecorded == OneSeedWinner /\ (seedWins = 1 => value.seed # "none")

StoreIInv ==
    /\ StoreTypeOK
    /\ FreshMeansCurrent
    /\ SeedsRecorded
    /\ OnePausedObservation
    /\ HoneyAddsUp

\* A write that lands is the operation applied to the stored snapshot.
LEMMA Landed ==
  ASSUME StoreTypeOK, FreshMeansCurrent, NEW w \in Writers, Writing(w), w \in fresh,
         Store(w)
  PROVE  LET op == call[w].op
         IN  /\ call[w].seen = value
             /\ op \in Operation /\ ~Refused(value, op) /\ Fits(value, op)
             /\ value' = Mutated(value, op) /\ value' \in Trace
             /\ fresh' = {}
BY LoadedCall DEF FreshMeansCurrent, Writing, Store

LEMMA PutTells ==
  ASSUME StoreIInv, NEW w \in Writers, Put(w)
  PROVE  SeedsRecorded' /\ OnePausedObservation' /\ HoneyAddsUp'
<1> DEFINE op == call[w].op
<1>1. StoreTypeOK /\ FreshMeansCurrent /\ SeedsRecorded /\ OnePausedObservation /\ HoneyAddsUp
  BY DEF StoreIInv
<1>2. /\ call[w].seen = value /\ op \in Operation /\ ~Refused(value, op)
      /\ value' = Mutated(value, op) /\ value' \in Trace /\ value \in Trace
  BY <1>1, Landed DEF Put, PutWins, StoreTypeOK
<1>3. /\ IF op.kind = "seed" THEN value.seed = "none" /\ value'.seed # "none"
         ELSE value'.seed = value.seed
      /\ IF op.kind = "claim" THEN value.pause = "open" /\ value'.pause = "published"
         ELSE value'.pause = value.pause \/ value'.pause = "none" \/ value.pause = "none"
  BY <1>2, EpisodeFrame
<1>4. seedWins \in Nat /\ claims \in Nat /\ credit \in Int /\ unknown \in Nat
  BY <1>1 DEF StoreTypeOK
<1>5. SeedsRecorded'
  BY <1>1, <1>3, <1>4 DEF Put, SeedsRecorded, OneSeedWinner
<1>6. OnePausedObservation'
  BY <1>1, <1>3, <1>4 DEF Put, OnePausedObservation
<1>7. HoneyAddsUp'
  <2>1. value.remaining \in Nat /\ value'.remaining \in Nat
    BY <1>2 DEF Trace
  <2>2. credit' = credit + (value'.remaining - value.remaining) /\ unknown' = unknown
    BY <1>2 DEF Put
  <2> QED BY <1>1, <1>4, <2>1, <2>2 DEF HoneyAddsUp
<1> QED
  BY <1>5, <1>6, <1>7

LEMMA PutUnknownTells ==
  ASSUME StoreIInv, NEW w \in Writers, PutUnknown(w)
  PROVE  SeedsRecorded' /\ OnePausedObservation' /\ HoneyAddsUp'
<1> DEFINE op == call[w].op
           after == Mutated(call[w].seen, op)
           moved == after.remaining - call[w].seen.remaining
           size == IF moved < 0 THEN 0 - moved ELSE moved
<1>1. StoreTypeOK /\ FreshMeansCurrent /\ SeedsRecorded /\ OnePausedObservation /\ HoneyAddsUp
  BY DEF StoreIInv
<1>2. seedWins \in Nat /\ claims \in Nat /\ credit \in Int /\ unknown \in Nat
  BY <1>1 DEF StoreTypeOK
<1>3. /\ seedWins' = seedWins /\ credit' = credit /\ unknown' = unknown + size
      /\ claims' = IF value'.pause = "none" THEN 0 ELSE claims
  BY DEF PutUnknown
<1>4. after.remaining \in Nat /\ call[w].seen.remaining \in Nat /\ size \in Nat
  <2>1. after \in Trace /\ call[w].seen \in Trace
    BY <1>1, LoadedCall DEF PutUnknown
  <2>2. after.remaining \in Nat /\ call[w].seen.remaining \in Nat
    BY <2>1 DEF Trace
  <2> HIDE DEF after
  <2> QED BY <2>2
<1>5. CASE w \in fresh /\ Store(w)
  <2>1. /\ call[w].seen = value /\ op \in Operation /\ ~Refused(value, op)
        /\ value' = Mutated(value, op) /\ value \in Trace
    BY <1>1, <1>5, Landed DEF PutUnknown, StoreTypeOK
  <2>2. /\ IF op.kind = "seed" THEN value.seed = "none" /\ value'.seed # "none"
           ELSE value'.seed = value.seed
        /\ IF op.kind = "claim" THEN value.pause = "open" /\ value'.pause = "published"
           ELSE value'.pause = value.pause \/ value'.pause = "none" \/ value.pause = "none"
    BY <2>1, EpisodeFrame
  <2>3. SeedsRecorded'
    BY <1>1, <1>2, <1>3, <2>2 DEF SeedsRecorded, OneSeedWinner
  <2>4. OnePausedObservation'
    BY <1>1, <1>2, <1>3, <2>2 DEF OnePausedObservation
  <2>5. HoneyAddsUp'
    <3>1. value' = after /\ call[w].seen = value
      BY <2>1
    <3>2. /\ value.remaining <= credit + unknown /\ credit - unknown <= value.remaining
          /\ value.remaining \in Nat
      BY <1>1, <1>4, <3>1 DEF HoneyAddsUp
    <3>3. after.remaining <= value.remaining + size /\ value.remaining <= after.remaining + size
      <4> HIDE DEF after
      <4> QED BY <1>4, <3>1
    <3> HIDE DEF size, after
    <3>4. value'.remaining <= credit' + unknown' /\ credit' - unknown' <= value'.remaining
      BY <1>2, <1>3, <1>4, <3>1, <3>2, <3>3
    <3> QED BY <3>4 DEF HoneyAddsUp
  <2> QED BY <2>3, <2>4, <2>5
<1>6. CASE value' = value
  <2>1. value.remaining \in Nat
    BY <1>1 DEF StoreTypeOK, Trace
  <2> HIDE DEF size
  <2>2. HoneyAddsUp'
    BY <1>1, <1>2, <1>3, <1>4, <1>6, <2>1 DEF HoneyAddsUp
  <2> QED BY <1>1, <1>2, <1>3, <1>6, <2>2
          DEF SeedsRecorded, OneSeedWinner, OnePausedObservation
<1> QED
  BY <1>5, <1>6 DEF PutUnknown

LEMMA InductiveStep ==
  ASSUME StoreIInv, [StoreNext]_vars
  PROVE  StoreIInv'
<1> DEFINE told == <<value, seedWins, claims, credit, unknown>>
<1>1. StoreTypeOK' /\ FreshMeansCurrent'
  BY StoreTypeStep, FreshStep DEF StoreIInv
<1>2. CASE UNCHANGED told
  BY <1>1, <1>2 DEF StoreIInv, SeedsRecorded, OneSeedWinner, OnePausedObservation, HoneyAddsUp
<1>3. CASE \E w \in Writers : Put(w) \/ PutUnknown(w)
  BY <1>1, <1>3, PutTells, PutUnknownTells DEF StoreIInv
<1> QED
  BY <1>2, <1>3 DEF StoreNext, Loop, vars, Start, Load, Refuse, Conflict, Crash

LEMMA AlwaysInductive == StoreSpec => []StoreIInv
<1>1. StoreInit => StoreIInv
  BY EmptyType DEF StoreInit, StoreIInv, StoreTypeOK, Call, FreshMeansCurrent, SeedsRecorded,
     OneSeedWinner, OnePausedObservation, HoneyAddsUp, EmptyTrace
<1> QED
  BY <1>1, InductiveStep, PTL DEF StoreSpec

\* However many writers race the first dispatch, at most one is told that it
\* allocated the trail's budget.
THEOREM SeedOnce == StoreSpec => []OneSeedWinner
<1>1. StoreIInv => OneSeedWinner
  BY DEF StoreIInv, SeedsRecorded
<1> QED
  BY <1>1, AlwaysInductive, PTL

\* At most one caller is told to send the paused observation of an episode.
THEOREM PauseAnnouncedOnce == StoreSpec => []OnePausedObservation
<1>1. StoreIInv => OnePausedObservation
  BY DEF StoreIInv
<1> QED
  BY <1>1, AlwaysInductive, PTL

\* No update is lost and none is applied twice: the reserve is what the callers
\* were told they moved, up to the puts whose outcome nobody learnt.
THEOREM NoHoneyLost == StoreSpec => []HoneyAddsUp
<1>1. StoreIInv => HoneyAddsUp
  BY DEF StoreIInv
<1> QED
  BY <1>1, AlwaysInductive, PTL

-----------------------------------------------------------------------------
(* Refinement: a landed write is the step of TaskLedger *)

LEMMA SameEmpty == EmptyTrace = Sequential!EmptyTrace
BY
   DEF EmptyTrace, NoRow, NoKick, Sequential!EmptyTrace, Sequential!NoRow,
       Sequential!NoKick

LEMMA SameHoney ==
  ASSUME NEW t
  PROVE  /\ ReduceEnergyAdd(t, 1) = Sequential!ReduceEnergyAdd(t, 1)
         /\ ReduceEnergyConsume(t, 1) = Sequential!ReduceEnergyConsume(t, 1)
         /\ CanConsume(t, 1) <=> Sequential!CanConsume(t, 1)
         /\ EnsureEnergySeed(t) = Sequential!EnsureEnergySeed(t)
BY
   DEF ReduceEnergyAdd, ReduceEnergyConsume, CanConsume, EnsureEnergySeed,
       DropStaleKick, NoKick, Sequential!ReduceEnergyAdd,
       Sequential!ReduceEnergyConsume, Sequential!CanConsume,
       Sequential!EnsureEnergySeed, Sequential!DropStaleKick,
       Sequential!NoKick

LEMMA SameQueue ==
  ASSUME NEW t
  PROVE  /\ HoneyWaiting(t) = Sequential!HoneyWaiting(t)
         /\ ActiveEntries(t) = Sequential!ActiveEntries(t)
         /\ \A i, id : WaitsFor(t, i, id) <=> Sequential!WaitsFor(t, i, id)
         /\ \A which, status :
               CloseEntries(t, which, status) = Sequential!CloseEntries(t, which, status)
         /\ DropStaleKick(t) = Sequential!DropStaleKick(t)
<1>1. \A e : Active(e) <=> Sequential!Active(e)
  BY DEF Active, Sequential!Active
<1>2. ActiveEntries(t) = Sequential!ActiveEntries(t)
  BY <1>1 DEF ActiveEntries, Sequential!ActiveEntries
<1> QED
  BY <1>2 DEF HoneyWaiting, Sequential!HoneyWaiting, WaitsFor, Sequential!WaitsFor,
     CloseEntries, Sequential!CloseEntries, DropStaleKick, Sequential!DropStaleKick,
     NoKick, Sequential!NoKick

LEMMA SameStipend ==
  ASSUME NEW t
  PROVE  ReduceEnergyStipend(t, 1) = Sequential!ReduceEnergyStipend(t, 1)
<1>1. SupersedeEntries(t) = Sequential!SupersedeEntries(t)
  BY SameQueue DEF SupersedeEntries, Sequential!SupersedeEntries
<1> QED
  BY <1>1, SameQueue DEF ReduceEnergyStipend, Sequential!ReduceEnergyStipend

LEMMA SameKill ==
  ASSUME NEW t
  PROVE  ReduceSystemKill(t) = Sequential!ReduceSystemKill(t)
<1>1. AbandonEntries(t) = Sequential!AbandonEntries(t)
  BY SameQueue DEF AbandonEntries, Sequential!AbandonEntries
<1>2. \A status : Killable(status) <=> Sequential!Killable(status)
  BY DEF Killable, Sequential!Killable
<1> QED
  BY <1>1, <1>2 DEF ReduceSystemKill, Sequential!ReduceSystemKill, NoKick,
     Sequential!NoKick

LEMMA SameStatus ==
  ASSUME NEW t, NEW id, NEW now
  PROVE  ReduceTaskStatus(t, id, "running", now) =
            Sequential!ReduceTaskStatus(t, id, "running", now)
<1>1. StampedRow(t, id, now) = Sequential!StampedRow(t, id, now)
  BY DEF StampedRow, Sequential!StampedRow
<1>2. \A row : IsGoalWork(row) <=> Sequential!IsGoalWork(row)
  BY DEF IsGoalWork, Sequential!IsGoalWork, PhaseOf, Sequential!PhaseOf
<1>3. \A status : IsReworkReturn(status) <=> Sequential!IsReworkReturn(status)
  BY DEF IsReworkReturn, Sequential!IsReworkReturn
<1>4. \A u : AdvanceWorkRevision(u) = Sequential!AdvanceWorkRevision(u)
  BY DEF AdvanceWorkRevision, Sequential!AdvanceWorkRevision
<1>5. \A u : ConsumeTaskEntries(u, id) = Sequential!ConsumeTaskEntries(u, id)
  BY SameQueue DEF ConsumeTaskEntries, Sequential!ConsumeTaskEntries
<1> QED
  BY <1>1, <1>2, <1>3, <1>4, <1>5, SameQueue
     DEF ReduceTaskStatus, Sequential!ReduceTaskStatus

LEMMA SameDefer ==
  ASSUME NEW t, NEW task, NEW bee, NEW analysis
  PROVE  DeferPendingDispatch(t, TaskDispatch(task, bee), FALSE, analysis) =
            Sequential!DeferPendingDispatch(t, Sequential!TaskDispatch(task, bee),
                                            FALSE, analysis)
<1>1. TaskDispatch(task, bee) = Sequential!TaskDispatch(task, bee)
  BY DEF TaskDispatch, Sequential!TaskDispatch
<1>2. \A id : CanDefer(t, id) <=> Sequential!CanDefer(t, id)
  BY SameQueue DEF CanDefer, Sequential!CanDefer, ActiveWithId,
     Sequential!ActiveWithId, WithId, Sequential!WithId
<1> QED
  BY <1>1, <1>2 DEF DeferPendingDispatch, Sequential!DeferPendingDispatch

LEMMA SamePause ==
  ASSUME NEW t
  PROVE  /\ CanClaimPause(t) <=> Sequential!CanClaimPause(t)
         /\ ClaimEnergyPausePublished(t) = Sequential!ClaimEnergyPausePublished(t)
         /\ CloseEnergyPause(t) = Sequential!CloseEnergyPause(t)
BY
   DEF CanClaimPause, ClaimEnergyPausePublished, CloseEnergyPause,
       Sequential!CanClaimPause, Sequential!ClaimEnergyPausePublished,
       Sequential!CloseEnergyPause

LEMMA LandedIsAStep ==
  ASSUME NEW op \in Operation, ~Refused(value, op), Fits(value, op),
         value' = Mutated(value, op)
  PROVE  Sequential!Next
<1>1. op.kind \in KindSet /\ op.task \in TaskIds /\ op.bee \in Bees /\ op.now \in Stamps
  BY CASAssumption DEF Operation
<1>2. CASE op.kind = "energy.add"
  <2>1. value' = ReduceEnergyAdd(value, 1)
    BY <1>2, MutatedIs
  <2>2. Sequential!EnergyAdd(1)
    BY <1>2, <2>1, SameHoney DEF Fits, Sequential!EnergyAdd
  <2> QED BY <2>2 DEF Sequential!Next, Sequential!EnergyEvent
<1>3. CASE op.kind = "energy.consume"
  <2>1. value' = ReduceEnergyConsume(value, 1) /\ CanConsume(value, 1)
    BY <1>3, MutatedIs DEF Refused
  <2>2. Sequential!EnergyConsume(1)
    BY <2>1, SameHoney DEF Sequential!EnergyConsume
  <2> QED BY <2>2 DEF Sequential!Next, Sequential!EnergyEvent
<1>4. CASE op.kind = "energy.stipend"
  <2>1. value' = ReduceEnergyStipend(value, 1)
    BY <1>4, MutatedIs
  <2>2. Sequential!EnergyStipend(1)
    BY <2>1, SameStipend DEF Sequential!EnergyStipend
  <2> QED BY <2>2 DEF Sequential!Next, Sequential!EnergyEvent
<1>5. CASE op.kind = "running"
  <2>1. /\ value' = ReduceTaskStatus(value, op.task, "running", op.now)
        /\ value'.workRevision <= RevisionBound
    BY <1>5, MutatedIs DEF Fits
  <2>2. Sequential!TaskStatus(op.task, "running", op.now)
    BY <2>1, SameStatus DEF Sequential!TaskStatus
  <2> QED BY <1>1, <2>2 DEF Sequential!Next, Sequential!TaskEvent
<1>6. CASE op.kind = "system.kill"
  <2>1. value' = ReduceSystemKill(value)
    BY <1>6, MutatedIs
  <2> QED BY <2>1, SameKill DEF Sequential!Next, Sequential!SystemKill
<1>7. CASE op.kind = "seed"
  <2>1. value' = EnsureEnergySeed(value) /\ DefaultBudget <= HoneyBound
    BY <1>7, MutatedIs DEF Fits
  <2> QED BY <2>1, SameHoney DEF Sequential!Next, Sequential!SeedEnergy
<1>8. CASE op.kind = "defer"
  <2>1. /\ value' = DeferPendingDispatch(value, TaskDispatch(op.task, op.bee),
                        FALSE, value.tasks[op.task].analysis)
        /\ Len(value.pending) < QueueBound
    BY <1>8, MutatedIs DEF Fits
  <2>2. Sequential!DeferTask(op.task, op.bee)
    BY <2>1, SameDefer DEF Sequential!DeferTask
  <2> QED BY <1>1, <2>2 DEF Sequential!Next, Sequential!DispatchOperation
<1>9. CASE op.kind = "claim"
  <2>1. value' = ClaimEnergyPausePublished(value) /\ CanClaimPause(value)
    BY <1>9, MutatedIs DEF Refused
  <2> QED BY <2>1, SamePause DEF Sequential!Next, Sequential!ClaimPause
<1>10. CASE op.kind = "clear"
  <2>1. value' = CloseEnergyPause(value) /\ value.pause # "none"
    BY <1>10, MutatedIs DEF Refused
  <2> QED BY <2>1, SamePause DEF Sequential!Next, Sequential!ClearPause
<1> QED
  BY <1>1, <1>2, <1>3, <1>4, <1>5, <1>6, <1>7, <1>8, <1>9, <1>10 DEF KindSet

LEMMA StepRefines ==
  ASSUME StoreTypeOK, FreshMeansCurrent, [StoreNext]_vars
  PROVE  [Sequential!Next]_value
<1>1. CASE UNCHANGED value
  BY <1>1
<1>2. ASSUME NEW w \in Writers, Put(w)
      PROVE  Sequential!Next
  BY <1>2, Landed, LandedIsAStep DEF Put, PutWins
<1>3. ASSUME NEW w \in Writers, PutUnknown(w)
      PROVE  [Sequential!Next]_value
  BY <1>3, Landed, LandedIsAStep DEF PutUnknown
<1> QED
  BY <1>1, <1>2, <1>3 DEF StoreNext, Loop, vars, Start, Load, Refuse, Conflict, Crash

\* The load / mutate / compare-and-set loop is linearizable: whatever processes
\* race, crash or time out, the stored snapshot only ever changes by one whole
\* TaskLedger operation at a time.
THEOREM Linearizable == StoreSpec => LinearizesToTaskLedger
<1>1. StoreInit => Sequential!Init
  BY SameEmpty DEF StoreInit, Sequential!Init
<1>2. StoreTypeOK /\ FreshMeansCurrent /\ [StoreNext]_vars => [Sequential!Next]_value
  BY StepRefines
<1> QED
  BY <1>1, <1>2, AlwaysFresh, PTL DEF StoreSpec, LinearizesToTaskLedger, Sequential!Spec

-----------------------------------------------------------------------------
(* What the standing trail's reducers do to a snapshot: to the status of    *)
(* each task, to the queue and to the allocation.                          *)

Unstarted == {"absent", "unset", "planned"}
Rest == {"completed", "failed", "blocked", "cancelled", "skipped"}

\* A task waits for honey.
WaitsIn(t, id) == \E n \in HoneyWaiting(t) : WaitsFor(t, n, id)

\* The allocation and the kill are as they were.
Holds(t, u) == u.budget = t.budget /\ u.seed = t.seed /\ u.killed = t.killed

QueueKept(t, u) == u.pending = t.pending
SameTasks(t, u) == u.tasks = t.tasks

\* A task is as it was, or was promoted on a live trail.
Lifted(t, u, id) ==
    \/ u.tasks[id].status = t.tasks[id].status
    \/ ~t.killed /\ t.tasks[id].status = "planned" /\ u.tasks[id].status = "ready"

LEMMA SameWaits ==
  ASSUME NEW t, NEW u, u.pending = t.pending, NEW id
  PROVE  WaitsIn(u, id) <=> WaitsIn(t, id)
BY DEF WaitsIn, HoneyWaiting, ActiveEntries, WaitsFor

LEMMA CloseHolds ==
  ASSUME NEW t \in Trace, NEW which, NEW status \in EntryStatus
  PROVE  Holds(t, CloseEntries(t, which, status))
BY DEF Holds, CloseEntries, Trace

LEMMA DropHolds ==
  ASSUME NEW t \in Trace
  PROVE  Holds(t, DropStaleKick(t))
BY DEF Holds, DropStaleKick, Trace

LEMMA AdvanceHolds ==
  ASSUME NEW t \in Trace
  PROVE  Holds(t, AdvanceWorkRevision(t))
BY DEF Holds, AdvanceWorkRevision, Trace

LEMMA PromoteHolds ==
  ASSUME NEW t \in Trace
  PROVE  Holds(t, PromoteParked(t)) /\ Holds(t, PromoteFirstEligible(t))
BY DEF Holds, PromoteParked, PromoteFirstEligible, Trace

LEMMA ElectsLifts ==
  ASSUME NEW t \in Trace, NEW u, Elects(t, u), NEW id \in TaskIds
  PROVE  \/ u.tasks[id].status = t.tasks[id].status
         \/ t.tasks[id].status = "planned" /\ u.tasks[id].status = "ready"
BY DEF Elects, Readies, IsFirstEligible, EligiblePlanned

LEMMA PromoteLifts ==
  ASSUME NEW t \in Trace, NEW id \in TaskIds
  PROVE  Lifted(t, PromoteParked(t), id) /\ Lifted(t, PromoteFirstEligible(t), id)
<1>1. CASE t.killed
  <2>1. PromoteFirstEligible(t).tasks = t.tasks
    BY <1>1, TraceRow DEF PromoteFirstEligible, Trace
  <2> QED BY <1>1, <2>1, PromoteFrame DEF Lifted
<1>2. CASE ~t.killed
  BY <1>2, ParkedElects, FirstElects, ElectsLifts DEF Lifted
<1> QED BY <1>1, <1>2

\* The plan of a tick registers its task, and may promote it.
LEMMA PlanTick ==
  ASSUME NEW t \in Trace, NEW i \in TaskIds, NEW now \in Stamps, NEW bee \in Bees, NEW plan,
         plan = [k \in {i} |-> [phase |-> "work", deps |-> {}, bee |-> bee]],
         NEW u, u = ReduceTaskPlan(t, plan, FALSE, FALSE, now)
  PROVE  /\ u \in Trace /\ Holds(t, u) /\ QueueKept(t, u)
         /\ \A id \in TaskIds \ {i} : Lifted(t, u, id)
         /\ \/ Registered(t.tasks[i]) /\ Lifted(t, u, i)
            \/ ~Registered(t.tasks[i]) /\ u.tasks[i].status \in {"planned", "ready"}
<1> DEFINE added == {id \in DOMAIN plan : ~Registered(t.tasks[id])}
           rows == [id \in TaskIds |->
                       IF id \in added
                       THEN PlannedRow(plan[id], FALSE, FALSE, now)
                       ELSE t.tasks[id]]
           planned == [t EXCEPT !.tasks = rows]
           accepted == \E id \in added : IsGoalWork(planned.tasks[id])
           admitted == IF accepted THEN AdvanceWorkRevision(planned) ELSE planned
           promoted == PromoteParked(admitted)
<1>1. plan \in Plan
  BY DEF Plan, TaskSpec
<1>2. /\ PlannedRow(plan[i], FALSE, FALSE, now) \in Task
      /\ PlannedRow(plan[i], FALSE, FALSE, now).status = "planned"
  BY DEF TaskSpec, PlannedRow, PlannedPhase, Task, Status, Phase, Workspace
<1>3. /\ rows \in [TaskIds -> Task]
      /\ \A id \in TaskIds \ {i} : rows[id] = t.tasks[id]
      /\ rows[i].status = IF Registered(t.tasks[i]) THEN t.tasks[i].status ELSE "planned"
  <2>0. DOMAIN plan = {i}
    OBVIOUS
  <2>1. \A id \in added : id = i
    BY <2>0
  <2> QED BY <1>2, <2>0, <2>1, TraceRow
<1>4. /\ planned \in Trace /\ planned.tasks = rows /\ Holds(t, planned)
      /\ planned.pending = t.pending
  <2> HIDE DEF rows
  <2> QED BY <1>3, RowsType DEF Trace, Holds
<1>5. /\ admitted \in Trace /\ admitted.tasks = rows /\ Holds(t, admitted)
      /\ admitted.pending = t.pending
  <2> HIDE DEF planned, accepted, rows
  <2> QED BY <1>4, AdvanceType, AdvanceFrame, AdvanceHolds DEF Holds
<1>6. u = DropStaleKick(promoted)
  BY DEF ReduceTaskPlan
<1> HIDE DEF admitted, rows
<1>7. /\ promoted \in Trace /\ Holds(t, promoted) /\ promoted.pending = t.pending
      /\ \A id \in TaskIds : Lifted(admitted, promoted, id)
  BY <1>5, PromoteParkedType, PromoteFrame, PromoteHolds, PromoteLifts DEF Holds
<1> HIDE DEF promoted
<1>8. /\ u \in Trace /\ Holds(t, u) /\ u.pending = t.pending /\ u.tasks = promoted.tasks
  <2>1. u \in Trace
    BY <1>6, <1>7, DropStaleKickType
  <2>2. u.pending = promoted.pending /\ u.tasks = promoted.tasks
    BY <1>6, <1>7, DropFrame
  <2>3. Holds(promoted, u)
    BY <1>6, <1>7, DropHolds
  <2>4. Holds(t, u)
    BY <1>7, <2>3 DEF Holds
  <2> QED BY <1>7, <2>1, <2>2, <2>4
<1>9. \A id \in TaskIds : Lifted(admitted, u, id)
  BY <1>7, <1>8 DEF Lifted
<1>10. QueueKept(t, u)
  BY <1>8 DEF QueueKept
<1>11. /\ admitted.killed = t.killed
       /\ admitted.tasks[i].status = IF Registered(t.tasks[i]) THEN t.tasks[i].status ELSE "planned"
  BY <1>3, <1>5 DEF Holds
<1> HIDE DEF added
<1>12. ASSUME NEW id \in TaskIds \ {i} PROVE Lifted(t, u, id)
  <2>1. admitted.tasks[id] = t.tasks[id]
    BY <1>3, <1>5, <1>12
  <2>2. Lifted(admitted, u, id)
    BY <1>9, <1>12
  <2> QED BY <2>1, <2>2, <1>11 DEF Lifted
<1>13. \/ Registered(t.tasks[i]) /\ Lifted(t, u, i)
       \/ ~Registered(t.tasks[i]) /\ u.tasks[i].status \in {"planned", "ready"}
  <2>1. Lifted(admitted, u, i)
    BY <1>9
  <2>2. CASE Registered(t.tasks[i])
    BY <2>1, <2>2, <1>11 DEF Lifted
  <2>3. CASE ~Registered(t.tasks[i])
    BY <2>1, <2>3, <1>11 DEF Lifted
  <2> QED BY <2>2, <2>3
<1> QED BY <1>8, <1>10, <1>12, <1>13

\* A kick: parked, obeyed or, once the task is under way, of no effect - but a
\* failed or running task is started again.
LEMMA ReadyTick ==
  ASSUME NEW t \in Trace, NEW i \in TaskIds, NEW bee \in Bees, NEW u,
         u = ReduceTaskReady(t, i, bee)
  PROVE  /\ u \in Trace /\ Holds(t, u) /\ u.pending = t.pending
         /\ \A id \in TaskIds \ {i} : u.tasks[id] = t.tasks[id]
         /\ t.killed => u = t
         /\ ~Registered(t.tasks[i]) => u.tasks[i].status \in {"absent", t.tasks[i].status}
         /\ t.tasks[i].status = "planned" => u.tasks[i].status \in {"planned", "ready"}
         /\ Registered(t.tasks[i]) => u.tasks[i].status \in {t.tasks[i].status, "ready"}
         /\ \/ t.tasks[i].status \in {"absent", "unset", "planned", "failed", "running"}
            \/ u.tasks[i] = t.tasks[i]
<1> DEFINE row == [t.tasks[i] EXCEPT !.status = "ready", !.bee = Overlay(@, bee)]
           requeued == [t EXCEPT !.tasks[i].status = "ready",
                                 !.tasks[i].bee = Overlay(@, bee)]
           reopened == AdvanceWorkRevision(requeued)
           parked == [t EXCEPT !.parked = [task |-> i, bee |-> bee],
                               !.tasks[i] = NoRow]
<1>1. row \in Task /\ row.status = "ready"
  <2>1. t.tasks[i] \in Task
    BY TraceRow
  <2>2. row.status = "ready"
    BY <2>1 DEF Task
  <2> QED BY <2>1, <2>2, KickedRowType
<1> HIDE DEF row
<1>2. /\ requeued \in Trace /\ requeued.tasks = [t.tasks EXCEPT ![i] = row]
      /\ Holds(t, requeued) /\ requeued.pending = t.pending
  <2>1. requeued = [t EXCEPT !.tasks = [t.tasks EXCEPT ![i] = row]]
    BY TraceRow DEF Trace, Task, row
  <2>2. [t.tasks EXCEPT ![i] = row] \in [TaskIds -> Task]
    BY <1>1, TraceRow
  <2> HIDE DEF requeued
  <2> QED BY <2>1, <2>2, RowsType DEF Trace, Holds
<1>3. /\ reopened \in Trace /\ reopened.tasks = requeued.tasks
      /\ Holds(t, reopened) /\ reopened.pending = t.pending
  <2> HIDE DEF requeued
  <2> QED BY <1>2, AdvanceType, AdvanceFrame, AdvanceHolds DEF Holds
<1>4. /\ parked \in Trace /\ parked.tasks = [t.tasks EXCEPT ![i] = NoRow]
      /\ Holds(t, parked) /\ parked.pending = t.pending
  <2>1. NoRow \in Task
    BY DEF NoRow, Task, Status, Phase, Workspace
  <2>2. [t.tasks EXCEPT ![i] = NoRow] \in [TaskIds -> Task]
    BY <2>1, TraceRow
  <2>3. [task |-> i, bee |-> bee] \in Kick
    BY DEF Kick
  <2> QED BY <2>2, <2>3 DEF Trace, Holds
<1>5. /\ ~Registered(t.tasks[i]) /\ ~t.killed => u = DropStaleKick(parked)
      /\ t.killed => u = t
      /\ Registered(t.tasks[i]) => u \in {t, DropStaleKick(requeued), DropStaleKick(reopened)}
      /\ \/ t.tasks[i].status \in {"absent", "unset", "planned", "failed", "running"}
         \/ u = t
  BY DEF ReduceTaskReady, Registered, IsFirstEligible, EligiblePlanned
<1> HIDE DEF requeued, parked, reopened
<1>6. /\ DropStaleKick(requeued) \in Trace /\ Holds(t, DropStaleKick(requeued))
      /\ DropStaleKick(requeued).pending = t.pending
      /\ DropStaleKick(requeued).tasks = [t.tasks EXCEPT ![i] = row]
      /\ DropStaleKick(reopened) \in Trace /\ Holds(t, DropStaleKick(reopened))
      /\ DropStaleKick(reopened).pending = t.pending
      /\ DropStaleKick(reopened).tasks = [t.tasks EXCEPT ![i] = row]
  BY <1>2, <1>3, DropStaleKickType, DropFrame, DropHolds DEF Holds
<1>7. /\ DropStaleKick(parked) \in Trace /\ Holds(t, DropStaleKick(parked))
      /\ DropStaleKick(parked).pending = t.pending
      /\ DropStaleKick(parked).tasks = [t.tasks EXCEPT ![i] = NoRow]
  BY <1>4, DropStaleKickType, DropFrame, DropHolds DEF Holds
<1>8. Holds(t, t) /\ NoRow.status = "absent" /\ t.tasks \in [TaskIds -> Task]
  BY TraceRow DEF Holds, NoRow
<1>9. CASE Registered(t.tasks[i])
  BY <1>1, <1>5, <1>6, <1>8, <1>9 DEF Registered
<1>10. CASE ~Registered(t.tasks[i])
  BY <1>5, <1>7, <1>8, <1>10 DEF Registered
<1> QED BY <1>9, <1>10

\* A status is the named task's; a start takes its honey entries off the queue.
LEMMA StatusTick ==
  ASSUME NEW t \in Trace, NEW i \in TaskIds, NEW status \in Status, NEW u, 1 \in Stamps,
         u = ReduceTaskStatus(t, i, status, 1)
  PROVE  /\ u \in Trace /\ Holds(t, u)
         /\ \A id \in TaskIds \ {i} :
              u.tasks[id] = t.tasks[id] /\ (WaitsIn(u, id) <=> WaitsIn(t, id))
         /\ t.killed => u = t
         /\ ~t.killed => u.tasks[i].status = status
         /\ WaitsIn(u, i) => WaitsIn(t, i)
         /\ ~t.killed /\ status = "running" => ~WaitsIn(u, i)
<1> DEFINE row == [StampedRow(t, i, 1) EXCEPT !.status = status]
           moved == [t EXCEPT !.tasks[i] = row]
           back == /\ IsGoalWork(t.tasks[i])
                   /\ IsReworkReturn(t.tasks[i].status)
                   /\ status \in {"ready", "running"}
           reopened == IF back THEN AdvanceWorkRevision(moved) ELSE moved
           mine == {n \in HoneyWaiting(reopened) : WaitsFor(reopened, n, i)}
           closed == IF status = "running" THEN CloseEntries(reopened, mine, "consumed")
                     ELSE reopened
<1>1. row \in Task /\ row.status = status
  BY StampedRowType, RowType, TraceRow DEF Task
<1>2. moved \in Trace /\ moved.pending = t.pending /\ moved.killed = t.killed
  BY MovedType, MovedFrame
<1> HIDE DEF row
<1>3. moved.tasks = [t.tasks EXCEPT ![i] = row] /\ Holds(t, moved)
  BY DEF Trace, Holds
<1>4. /\ reopened \in Trace /\ reopened.tasks = [t.tasks EXCEPT ![i] = row]
      /\ Holds(t, reopened) /\ reopened.pending = t.pending
  <2> HIDE DEF moved, back
  <2> QED BY <1>2, <1>3, AdvanceType, AdvanceFrame, AdvanceHolds DEF Holds
<1> HIDE DEF reopened
<1>5. /\ closed \in Trace /\ closed.tasks = reopened.tasks /\ Holds(t, closed)
  BY <1>4, CloseEntriesType, CloseFrame, CloseHolds DEF EntryStatus, Holds
<1>6. ASSUME status = "running"
      PROVE  /\ ~WaitsIn(closed, i)
             /\ \A id \in TaskIds : WaitsIn(closed, id) => WaitsIn(reopened, id)
             /\ \A id \in TaskIds \ {i} : WaitsIn(closed, id) <=> WaitsIn(reopened, id)
  <2>1. \A n \in 1..Len(reopened.pending) : reopened.pending[n] \in Entry
    BY <1>4 DEF Trace
  <2>2. /\ Len(closed.pending) = Len(reopened.pending)
        /\ \A n \in 1..Len(reopened.pending) : closed.pending[n] =
              IF n \in mine THEN [reopened.pending[n] EXCEPT !.status = "consumed"]
              ELSE reopened.pending[n]
    <3>1. Len(reopened.pending) \in Nat
      BY <1>4 DEF Trace
    <3>2. closed.pending = [n \in 1..Len(reopened.pending) |->
              IF n \in mine THEN [reopened.pending[n] EXCEPT !.status = "consumed"]
              ELSE reopened.pending[n]]
      BY <1>4, <1>6 DEF CloseEntries, Trace
    <3> HIDE DEF closed, mine
    <3> QED BY <3>1, <3>2
  <2>3. \A e \in Entry : LET f == [e EXCEPT !.status = "consumed"]
                         IN  ~Active(f) /\ f.id = e.id /\ f.held = e.held
    BY DEF Entry, Active
  <2> HIDE DEF closed
  <2>4. HoneyWaiting(closed) = HoneyWaiting(reopened) \ mine
    <3>1. \A n \in 1..Len(reopened.pending) :
             (Active(closed.pending[n]) /\ ~closed.pending[n].held) <=>
             (n \notin mine /\ Active(reopened.pending[n]) /\ ~reopened.pending[n].held)
      BY <2>1, <2>2, <2>3
    <3> HIDE DEF mine
    <3> QED BY <2>2, <3>1 DEF HoneyWaiting, ActiveEntries
  <2>5. \A n \in HoneyWaiting(reopened), id \in TaskIds :
            WaitsFor(closed, n, id) <=> WaitsFor(reopened, n, id)
    BY <2>1, <2>2, <2>3 DEF HoneyWaiting, ActiveEntries, WaitsFor
  <2>6. ~WaitsIn(closed, i)
    BY <2>4, <2>5 DEF WaitsIn
  <2>7. \A id \in TaskIds \ {i} : WaitsIn(closed, id) <=> WaitsIn(reopened, id)
    <3>1. \A n \in mine, id \in TaskIds \ {i} : ~WaitsFor(reopened, n, id)
      BY DEF WaitsFor
    <3>2. mine \subseteq HoneyWaiting(reopened)
      OBVIOUS
    <3> HIDE DEF mine
    <3>3. ASSUME NEW id \in TaskIds \ {i}
          PROVE  WaitsIn(closed, id) <=> WaitsIn(reopened, id)
      <4>1. WaitsIn(closed, id) => WaitsIn(reopened, id)
        BY <2>4, <2>5 DEF WaitsIn
      <4>2. ASSUME NEW n \in HoneyWaiting(reopened), WaitsFor(reopened, n, id)
            PROVE  n \in HoneyWaiting(closed) /\ WaitsFor(closed, n, id)
        BY <2>4, <2>5, <3>1, <4>2
      <4> QED BY <4>1, <4>2 DEF WaitsIn
    <3> QED BY <3>3
  <2>8. \A id \in TaskIds : WaitsIn(closed, id) => WaitsIn(reopened, id)
    BY <2>6, <2>7
  <2> QED BY <2>6, <2>7, <2>8
<1> HIDE DEF closed
<1>7. /\ \A id \in TaskIds : WaitsIn(closed, id) => WaitsIn(reopened, id)
      /\ \A id \in TaskIds \ {i} : WaitsIn(closed, id) <=> WaitsIn(reopened, id)
      /\ status = "running" => ~WaitsIn(closed, i)
  <2>1. CASE status # "running"
    BY <2>1 DEF closed
  <2> QED BY <1>6, <2>1
<1>8. u = IF t.killed THEN t ELSE DropStaleKick(closed)
  BY DEF ReduceTaskStatus, ConsumeTaskEntries, row, moved, reopened, closed, mine
<1>9. LET v == DropStaleKick(closed)
      IN  /\ v \in Trace /\ Holds(t, v) /\ v.tasks = [t.tasks EXCEPT ![i] = row]
          /\ v.pending = closed.pending
  BY <1>4, <1>5, DropStaleKickType, DropFrame, DropHolds DEF Holds
<1>10. \A id \in TaskIds : /\ WaitsIn(DropStaleKick(closed), id) <=> WaitsIn(closed, id)
                           /\ WaitsIn(reopened, id) <=> WaitsIn(t, id)
  BY <1>4, <1>9, SameWaits
<1>11. Holds(t, t) /\ t.tasks \in [TaskIds -> Task]
  BY TraceRow DEF Holds
<1>12. CASE t.killed
  BY <1>8, <1>11, <1>12
<1>13. CASE ~t.killed
  BY <1>1, <1>7, <1>8, <1>9, <1>10, <1>11, <1>13
<1> QED BY <1>12, <1>13

\* A completion completes its task and may promote another.
LEMMA CompletedTick ==
  ASSUME NEW t \in Trace, NEW i \in TaskIds, NEW u, 1 \in Stamps,
         u = ReduceTaskCompleted(t, i, "completed", 1)
  PROVE  /\ u \in Trace /\ Holds(t, u) /\ u.pending = t.pending
         /\ \A id \in TaskIds \ {i} : Lifted(t, u, id)
         /\ t.killed => u = t
         /\ ~t.killed => u.tasks[i].status = "completed"
<1> DEFINE row == [StampedRow(t, i, 1) EXCEPT !.status = "completed"]
           moved == [t EXCEPT !.tasks[i] = row]
           first == PromoteParked(moved)
           promoted == PromoteFirstEligible(first)
<1>1. row \in Task /\ row.status = "completed"
  <2>1. "completed" \in Status /\ StampedRow(t, i, 1) \in Task
    BY StampedRowType DEF Status
  <2>2. row.status = "completed"
    BY <2>1 DEF Task
  <2> QED BY <2>1, <2>2, RowType
<1>2. moved \in Trace /\ moved.pending = t.pending /\ moved.killed = t.killed
  BY MovedType, MovedFrame DEF Status
<1> HIDE DEF row
<1>3. moved.tasks = [t.tasks EXCEPT ![i] = row] /\ Holds(t, moved)
  BY DEF Trace, Holds
<1>4. u = IF t.killed THEN t ELSE DropStaleKick(promoted)
  BY DEF ReduceTaskCompleted, row
<1> HIDE DEF moved
<1>5. /\ first \in Trace /\ first.pending = t.pending /\ Holds(t, first)
      /\ \A id \in TaskIds : Lifted(moved, first, id)
  BY <1>2, <1>3, PromoteParkedType, PromoteFrame, PromoteHolds, PromoteLifts DEF Holds
<1> HIDE DEF first
<1>6. /\ promoted \in Trace /\ promoted.pending = t.pending /\ Holds(t, promoted)
      /\ \A id \in TaskIds : Lifted(first, promoted, id)
  BY <1>5, PromoteFirstEligibleType, PromoteFrame, PromoteHolds, PromoteLifts DEF Holds
<1> HIDE DEF promoted
<1>7. LET v == DropStaleKick(promoted)
      IN  /\ v \in Trace /\ Holds(t, v) /\ v.tasks = promoted.tasks
          /\ v.pending = t.pending
  BY <1>6, DropStaleKickType, DropFrame, DropHolds DEF Holds
<1>8. \A id \in TaskIds : \/ promoted.tasks[id].status = moved.tasks[id].status
                          \/ /\ ~t.killed /\ moved.tasks[id].status = "planned"
                             /\ promoted.tasks[id].status = "ready"
  BY <1>2, <1>5, <1>6 DEF Lifted, Holds
<1>9. Holds(t, t) /\ t.tasks \in [TaskIds -> Task]
  BY TraceRow DEF Holds
<1>10. CASE t.killed
  BY <1>4, <1>9, <1>10 DEF Lifted
<1>11. CASE ~t.killed
  BY <1>1, <1>3, <1>4, <1>7, <1>8, <1>9, <1>11 DEF Lifted
<1> QED BY <1>10, <1>11

\* A kill puts every task at rest.
LEMMA KillTick ==
  ASSUME NEW t \in Trace, NEW u, u = ReduceSystemKill(t)
  PROVE  /\ u \in Trace /\ u.budget = t.budget /\ u.seed = t.seed /\ u.killed
         /\ t.killed => u = t
         /\ \A id \in TaskIds :
              /\ u.tasks[id].status = "absent" <=> t.tasks[id].status = "absent"
              /\ t.tasks[id].status \in Rest => u.tasks[id].status \in Rest
              /\ ~t.killed => u.tasks[id].status \in Rest \cup {"absent"}
<1> DEFINE rows == [id \in TaskIds |->
                IF Killable(t.tasks[id].status)
                THEN [t.tasks[id] EXCEPT !.status = "cancelled"]
                ELSE t.tasks[id]]
           stopped == AbandonEntries(t)
           dead == [stopped EXCEPT !.killed = TRUE, !.parked = NoKick, !.tasks = rows]
<1>1. \A id \in TaskIds :
         /\ rows[id].status = IF Killable(t.tasks[id].status) THEN "cancelled"
                              ELSE t.tasks[id].status
         /\ t.tasks[id].status \in Status
  BY TraceRow DEF Task
<1>2. stopped \in Trace /\ Holds(t, stopped)
  BY CloseEntriesType, CloseHolds DEF AbandonEntries, EntryStatus
<1>3. u = IF t.killed THEN t ELSE dead
  BY DEF ReduceSystemKill
<1>4. u \in Trace
  BY KillType
<1> HIDE DEF rows, stopped
<1>5. dead.tasks = rows /\ dead.killed = TRUE /\ dead.budget = t.budget /\ dead.seed = t.seed
  BY <1>2 DEF Trace, Holds
<1> HIDE DEF dead
<1>6. CASE t.killed
  <2>1. t.killed = TRUE
    BY <1>6 DEF Trace
  <2> QED BY <1>3, <1>4, <1>6, <2>1
<1>7. CASE ~t.killed
  <2>1. u = dead
    BY <1>3, <1>7
  <2>2. \A id \in TaskIds : u.tasks[id].status =
            IF Killable(t.tasks[id].status) THEN "cancelled" ELSE t.tasks[id].status
    BY <1>1, <1>5, <2>1
  <2>3. \A s \in Status : /\ ~Killable(s) => s \in Rest \cup {"absent"}
                          /\ ~Killable("absent")
    BY DEF Killable, Status, Rest
  <2>4. "cancelled" \in Rest /\ "cancelled" # "absent"
    BY DEF Rest
  <2> QED BY <1>1, <1>4, <1>5, <1>7, <2>1, <2>2, <2>3, <2>4
<1> QED BY <1>6, <1>7

\* A stipend skips the ready work that waits; nothing waits any more.
LEMMA StipendTick ==
  ASSUME NEW t \in Trace, NEW amount \in Nat, NEW u, u = ReduceEnergyStipend(t, amount)
  PROVE  /\ u \in Trace /\ Holds(t, u)
         /\ \A id : ~WaitsIn(u, id)
         /\ \A id \in TaskIds : u.tasks[id].status =
              IF t.tasks[id].status = "ready" /\ WaitsIn(t, id) THEN "skipped"
              ELSE t.tasks[id].status
<1> DEFINE superseded == {id \in TaskIds :
                /\ t.tasks[id].status = "ready"
                /\ \E i \in HoneyWaiting(t) : WaitsFor(t, i, id)}
           rows == [id \in TaskIds |->
                IF id \in superseded
                THEN [t.tasks[id] EXCEPT !.status = "skipped"]
                ELSE t.tasks[id]]
           closed == CloseEntries(t, HoneyWaiting(t), "abandoned")
           s == [[closed EXCEPT !.tasks = rows] EXCEPT !.remaining = amount,
                                                       !.pause = "none"]
<1>1. closed \in Trace /\ Holds(t, closed)
  BY CloseEntriesType, CloseHolds DEF EntryStatus
<1>2. HoneyWaiting(closed) = {}
  <2>1. t.pending \in Seq(Entry) /\ Len(t.pending) \in Nat
    BY DEF Trace
  <2>2. closed.pending = [i \in 1..Len(t.pending) |->
            IF i \in HoneyWaiting(t)
            THEN [t.pending[i] EXCEPT !.status = "abandoned"]
            ELSE t.pending[i]]
    BY DEF CloseEntries, Trace
  <2>3. \A i \in 1..Len(t.pending) : t.pending[i] \in Entry
    BY <2>1
  <2>4. \A e \in Entry : ~Active([e EXCEPT !.status = "abandoned"])
    BY DEF Entry, Active
  <2>5. Len(closed.pending) = Len(t.pending)
    BY <2>1, <2>2
  <2>6. \A i \in 1..Len(t.pending) : ~Active(closed.pending[i]) \/ closed.pending[i].held
    BY <2>2, <2>3, <2>4 DEF HoneyWaiting, ActiveEntries
  <2> HIDE DEF closed
  <2> QED
    BY <2>5, <2>6 DEF HoneyWaiting, ActiveEntries
<1>3. rows \in [TaskIds -> Task]
  <2>1. \A id \in TaskIds : [t.tasks[id] EXCEPT !.status = "skipped"] \in Task
    BY TraceRow, RowType DEF Status
  <2> HIDE DEF superseded
  <2> QED BY <2>1, TraceRow
<1>4. \A id \in TaskIds : rows[id].status =
              IF t.tasks[id].status = "ready" /\ WaitsIn(t, id) THEN "skipped"
              ELSE t.tasks[id].status
  BY TraceRow DEF Task, WaitsIn
<1>5. u = DropStaleKick(s)
  BY DEF ReduceEnergyStipend, SupersedeEntries
<1> HIDE DEF closed, rows
<1>6. s \in Trace /\ Holds(t, s) /\ s.tasks = rows /\ s.pending = closed.pending
  BY <1>1, <1>3 DEF Trace, Holds
<1> HIDE DEF s
<1>7. u \in Trace /\ Holds(t, u) /\ u.tasks = rows /\ u.pending = closed.pending
  BY <1>5, <1>6, DropStaleKickType, DropFrame, DropHolds DEF Holds
<1>8. \A id : ~WaitsIn(u, id)
  BY <1>2, <1>7, SameWaits DEF WaitsIn
<1> QED BY <1>4, <1>7, <1>8

\* The seed, its observation and a charge leave tasks and queue alone.
LEMMA SeedTick ==
  ASSUME NEW t \in Trace, t.budget = 0 => t.seed = "none", NEW u, u = EnsureEnergySeed(t)
  PROVE  /\ u \in Trace /\ u.tasks = t.tasks /\ u.pending = t.pending
         /\ u.killed = t.killed /\ u.budget > 0
<1>1. u \in Trace
  BY SeedType
<1> QED BY <1>1, BudgetAssumption DEF EnsureEnergySeed, Trace

LEMMA MarkTick ==
  ASSUME NEW t \in Trace, NEW u, u = MarkEnergySeedPublished(t)
  PROVE  /\ u \in Trace /\ u.tasks = t.tasks /\ u.pending = t.pending
         /\ u.killed = t.killed /\ u.budget = t.budget
<1>1. u \in Trace
  BY SeedType
<1> QED BY <1>1 DEF MarkEnergySeedPublished, Trace

LEMMA ConsumeTick ==
  ASSUME NEW t \in Trace, CanConsume(t, 1), NEW u, u = ReduceEnergyConsume(t, 1)
  PROVE  u \in Trace /\ u.tasks = t.tasks /\ u.pending = t.pending /\ Holds(t, u)
<1> DEFINE v == [t EXCEPT !.remaining = @ - 1]
<1>1. v \in Trace /\ v.tasks = t.tasks /\ v.pending = t.pending /\ Holds(t, v)
  <2>1. t.remaining - 1 \in Nat
    BY DEF Trace, CanConsume
  <2> QED BY <2>1 DEF Trace, Holds
<1>2. u = DropStaleKick(v)
  BY DEF ReduceEnergyConsume
<1> HIDE DEF v
<1> QED BY <1>1, <1>2, DropStaleKickType, DropFrame, DropHolds DEF Holds

\* A dispatch is the task's own.
Names(id, k) == id.kind = "task" /\ id.subject = k

\* What a job's deferral leaves: the entry, and the pause claimed or not.
Deferral(t, id, u) ==
    LET v == DeferPendingDispatch(t, id, FALSE, FALSE)
    IN  u \in {v, ClaimEnergyPausePublished(v)}

\* A deferral makes its own task wait, no other.
LEMMA DeferTick ==
  ASSUME NEW t \in Trace, NEW id \in DispatchId, NEW u, Deferral(t, id, u)
  PROVE  /\ u \in Trace /\ SameTasks(t, u) /\ Holds(t, u)
         /\ \A k \in TaskIds : WaitsIn(t, k) => WaitsIn(u, k)
         /\ \A k \in TaskIds : WaitsIn(u, k) => WaitsIn(t, k) \/ Names(id, k)
<1> DEFINE v == DeferPendingDispatch(t, id, FALSE, FALSE)
           e == [id |-> id, held |-> FALSE, analysis |-> FALSE, status |-> "pending"]
<1>1. v \in Trace
  BY DeferType
<1>2. v.tasks = t.tasks /\ Holds(t, v) /\ v.pending \in {t.pending, Append(t.pending, e)}
  BY DEF DeferPendingDispatch, Trace, Holds
<1> HIDE DEF v, e
<1>3. /\ u \in Trace /\ u.tasks = v.tasks /\ Holds(v, u) /\ u.pending = v.pending
  <2>1. LET c == ClaimEnergyPausePublished(v)
        IN  /\ c \in Trace /\ c.tasks = v.tasks /\ Holds(v, c) /\ c.pending = v.pending
    BY <1>1 DEF ClaimEnergyPausePublished, Trace, Holds
  <2>2. u \in {v, ClaimEnergyPausePublished(v)}
    BY DEF v, Deferral
  <2> QED BY <1>1, <2>1, <2>2 DEF Holds
<1>4. \A k : WaitsIn(u, k) <=> WaitsIn(v, k)
  BY <1>3, SameWaits
<1>5. CASE v.pending = t.pending
  <2>1. \A k : WaitsIn(v, k) <=> WaitsIn(t, k)
    BY <1>5, SameWaits
  <2> QED BY <1>2, <1>3, <1>4, <2>1 DEF Holds, SameTasks, Names
<1>6. CASE v.pending = Append(t.pending, e)
  <2>1. t.pending \in Seq(Entry) /\ Len(t.pending) \in Nat
    BY DEF Trace
  <2>2. /\ Len(v.pending) = Len(t.pending) + 1
        /\ \A n \in 1..Len(t.pending) : v.pending[n] = t.pending[n]
        /\ v.pending[Len(t.pending) + 1] = e
    BY <1>6, <2>1
  <2>3. e.id = id
    BY DEF e
  <2>4. \A n \in HoneyWaiting(t) : n \in HoneyWaiting(v)
    BY <2>1, <2>2 DEF HoneyWaiting, ActiveEntries
  <2>5. \A n \in HoneyWaiting(v) : n \in HoneyWaiting(t) \/ n = Len(t.pending) + 1
    BY <2>1, <2>2 DEF HoneyWaiting, ActiveEntries
  <2>6. \A n \in HoneyWaiting(t), k \in TaskIds : WaitsFor(v, n, k) <=> WaitsFor(t, n, k)
    BY <2>2 DEF WaitsFor, HoneyWaiting, ActiveEntries
  <2>7. \A k \in TaskIds : WaitsFor(v, Len(t.pending) + 1, k) =>
              id.kind = "task" /\ id.subject = k
    BY <2>2, <2>3 DEF WaitsFor
  <2>8. \A k \in TaskIds : WaitsIn(t, k) => WaitsIn(v, k)
    BY <2>4, <2>6 DEF WaitsIn
  <2>9. \A k \in TaskIds : WaitsIn(v, k) =>
              WaitsIn(t, k) \/ (id.kind = "task" /\ id.subject = k)
    BY <2>5, <2>6, <2>7 DEF WaitsIn
  <2> QED BY <1>2, <1>3, <1>4, <2>8, <2>9 DEF Holds, SameTasks, Names
<1> QED BY <1>2, <1>3, <1>5, <1>6 DEF SameTasks, Names, Holds

-----------------------------------------------------------------------------
(* The invocations: what each has recorded, and what it has said by then    *)

\* The plan of an invocation is on the bus, and its observation before it.
Announced == {i \in Ticks : {Said("ingress", i), Said("plan", i)} \subseteq sent}

Before == {"idle", "check", "live", "seed", "publishSeed", "fund", "record"}
Pcs == Before \cup {"refused", "send", "mark", "ended"}
Invocation == [pc : Pcs, first : BOOLEAN, saw : SUBSET Ticks, at : Nat]
SentLines == {Said(kind, i) : kind \in {"ingress", "plan", "ready"}, i \in Ticks}

CueTypes ==
    /\ cue \in [Ticks -> Invocation]
    /\ recorded \in [Ticks -> Nat] /\ origin \in Origins
    /\ sent \subseteq SentLines

\* Nothing is recorded before it is due, and a step is sent before it is marked.
CueOf(i) ==
    /\ cue[i].pc \in Before => cue[i].at = 1 /\ recorded[i] = 0
    /\ cue[i].pc = "refused" => recorded[i] = 0
    /\ cue[i].pc \in {"send", "mark"} =>
          cue[i].at = recorded[i] /\ cue[i].at \in 1..Len(Steps(i))
    /\ cue[i].pc = "mark" => Said(Steps(i)[cue[i].at], i) \in sent
    /\ \A k \in 1..(recorded[i] - 1) : Said(Steps(i)[k], i) \in sent

SentOK == \A e \in sent : recorded[e.task] > 0 /\ origin # NoOrigin

OriginOK ==
    /\ origin = NoOrigin => \A i \in Ticks : cue[i].pc = "idle"
    /\ origin.kind = "cue" => \A i \in Ticks : origin.invocation <= i

CuesOK == CueTypes /\ (\A i \in Ticks : CueOf(i)) /\ SentOK /\ OriginOK

LEMMA StepsAre ==
  ASSUME NEW i \in Ticks
  PROVE  /\ Len(Steps(i)) \in {2, 3}
         /\ Steps(i)[1] = "ingress" /\ Steps(i)[2] = "plan"
         /\ \A k \in 1..Len(Steps(i)) : Steps(i)[k] \in {"ingress", "plan", "ready"}
         /\ Len(Steps(i)) = 3 => Steps(i)[3] = "ready"
BY DEF Steps

LEMMA SaidIs ==
  \A kind, i : Said(kind, i).task = i /\ Said(kind, i).kind = kind
BY DEF Said, Line

LEMMA TicksAreNats == Ticks \subseteq Nat \ {0}
BY IdsAssumption DEF Ticks

\* An invocation that only moves on, or gives up, confirms nothing.
LEMMA PassStep ==
  ASSUME CuesOK, NEW i \in Ticks, NEW c \in Invocation, cue' = [cue EXCEPT ![i] = c],
         c.at = cue[i].at, recorded' = recorded, origin' = origin, sent' = sent,
         cue[i].pc # "idle",
         \/ cue[i].pc \in Before /\ c.pc \in Before \cup {"refused", "ended"}
         \/ c.pc = "ended"
  PROVE  CuesOK'
<1> USE DEF CuesOK
<1>1. CueTypes'
  BY DEF CueTypes
<1>2. \A k \in Ticks : k # i => cue'[k] = cue[k]
  BY DEF CueTypes
<1>3. cue'[i] = c
  BY DEF CueTypes
<1>4. ASSUME NEW k \in Ticks, k # i PROVE CueOf(k)'
  <2>1. CueOf(k) /\ cue'[k] = cue[k]
    BY <1>2, <1>4
  <2> QED BY <2>1 DEF CueOf
<1>5. CueOf(i)'
  <2>1. CueOf(i) /\ "ended" \notin Before /\ "refused" \notin Before
        /\ "send" \notin Before /\ "mark" \notin Before
    BY DEF Before
  <2> QED BY <1>3, <2>1 DEF CueOf
<1>6. SentOK'
  BY DEF SentOK
<1>7. OriginOK'
  BY <1>2 DEF OriginOK
<1> QED BY <1>1, <1>4, <1>5, <1>6, <1>7

LEMMA CueIs ==
  ASSUME CueTypes, NEW i \in Ticks
  PROVE  /\ cue[i] \in Invocation
         /\ \A p \in Pcs : [cue[i] EXCEPT !.pc = p] \in Invocation
         /\ \A p : /\ [cue[i] EXCEPT !.pc = p].at = cue[i].at
                   /\ [cue[i] EXCEPT !.pc = p].pc = p
                   /\ [cue[i] EXCEPT !.pc = p].saw = cue[i].saw
                   /\ [cue[i] EXCEPT !.pc = p].first = cue[i].first
         /\ \A p : Goes(i, p) => cue' = [cue EXCEPT ![i] = [cue[i] EXCEPT !.pc = p]]
BY DEF CueTypes, Invocation, Goes

LEMMA GoesStep ==
  ASSUME CuesOK, NEW i \in Ticks, NEW p \in Pcs, Goes(i, p),
         recorded' = recorded, origin' = origin, sent' = sent, cue[i].pc # "idle",
         \/ cue[i].pc \in Before /\ p \in Before \cup {"refused", "ended"}
         \/ p = "ended"
  PROVE  CuesOK'
<1> DEFINE c == [cue[i] EXCEPT !.pc = p]
<1>1. /\ c \in Invocation /\ c.at = cue[i].at /\ c.pc = p
      /\ cue' = [cue EXCEPT ![i] = c]
  BY CueIs DEF CuesOK
<1> HIDE DEF c
<1> QED BY <1>1, PassStep

LEMMA StartTickCues ==
  ASSUME CuesOK, NEW i \in Ticks, StartTick(i)
  PROVE  CuesOK'
<1> DEFINE c == [cue[i] EXCEPT !.pc = "check"]
           o == [kind |-> "cue", invocation |-> i]
<1>1. /\ cue[i].pc = "idle" /\ recorded' = recorded /\ sent' = sent /\ Goes(i, "check")
      /\ \A k \in Ticks : k < i => cue[k].pc # "idle"
      /\ origin' = IF origin = NoOrigin THEN o ELSE origin
  BY DEF StartTick, CueStep
<1>2. c \in Invocation /\ c.pc = "check" /\ c.at = cue[i].at /\ cue' = [cue EXCEPT ![i] = c]
  <2>1. "check" \in Pcs /\ CueTypes
    BY DEF Pcs, Before, CuesOK
  <2>2. Goes(i, "check")
    BY <1>1
  <2> QED BY <2>1, <2>2, CueIs
<1> HIDE DEF c
<1>3. cue'[i] = c /\ \A k \in Ticks : k # i => cue'[k] = cue[k]
  BY <1>2 DEF CuesOK, CueTypes
<1>4. o \in Origins /\ o # NoOrigin /\ o.kind = "cue" /\ o.invocation = i
  BY TicksAreNats DEF Origins, NoOrigin
<1> HIDE DEF o
<1>5. CueTypes'
  BY <1>1, <1>2, <1>4 DEF CuesOK, CueTypes
<1>6. ASSUME NEW k \in Ticks PROVE CueOf(k)'
  <2>1. CueOf(k) /\ CueOf(i)
    BY DEF CuesOK
  <2>2. CASE k # i
    BY <1>1, <1>3, <2>1, <2>2 DEF CueOf
  <2>3. CASE k = i
    BY <1>1, <1>2, <1>3, <2>1, <2>3 DEF CueOf, Before
  <2> QED BY <2>2, <2>3
<1>7. SentOK'
  BY <1>1, <1>4 DEF CuesOK, SentOK
<1>8. OriginOK'
  <2>1. CASE origin = NoOrigin
    <3>1. origin' = o /\ \A k \in Ticks : cue[k].pc = "idle"
      BY <1>1, <2>1 DEF CuesOK, OriginOK
    <3>2. \A k \in Ticks : i <= k
      BY <1>1, <3>1, TicksAreNats
    <3> QED BY <1>4, <3>1, <3>2 DEF OriginOK
  <2>2. CASE origin # NoOrigin
    BY <1>1, <2>2 DEF CuesOK, OriginOK
  <2> QED BY <2>1, <2>2
<1> QED BY <1>5, <1>6, <1>7, <1>8 DEF CuesOK

LEMMA CheckTrailCues ==
  ASSUME CuesOK, NEW i \in Ticks, CheckTrail(i)
  PROVE  CuesOK'
<1> DEFINE p == IF ledger.killed \/ OpenStandingTick(ledger) # {} THEN "refused" ELSE "live"
           f == (ledger.budget = 0)
           s == {id \in Ticks : Registered(ledger.tasks[id])}
           c == [cue[i] EXCEPT !.pc = p, !.first = f, !.saw = s]
<1>1. /\ cue[i].pc = "check" /\ recorded' = recorded /\ sent' = sent /\ origin' = origin
      /\ cue' = [cue EXCEPT ![i].pc = p, ![i].first = f, ![i].saw = s]
  BY DEF CheckTrail, CueStep
<1>2. p \in {"refused", "live"} /\ f \in BOOLEAN /\ s \in SUBSET Ticks
  OBVIOUS
<1> HIDE DEF p, f, s
<1>3. cue[i] \in Invocation /\ i \in DOMAIN cue
  BY DEF CuesOK, CueTypes
<1>4. c \in Invocation /\ c.at = cue[i].at /\ c.pc = p
  BY <1>2, <1>3 DEF Invocation, Pcs, Before
<1>5. cue' = [cue EXCEPT ![i] = c]
  BY <1>1, <1>3 DEF CuesOK, CueTypes, Invocation
<1> HIDE DEF c
<1> QED BY <1>1, <1>2, <1>4, <1>5, PassStep DEF Before

\* The steps up to the record, and a death anywhere.
LEMMA QuietCues ==
  ASSUME CuesOK, NEW i \in Ticks,
         \/ CheckLiveRuns(i) \/ Seed(i) \/ PublishSeed(i) \/ Fund(i) \/ InvokerDies(i)
  PROVE  CuesOK'
<1> USE DEF Pcs, Before
<1>1. CASE CheckLiveRuns(i)
  BY <1>1, GoesStep DEF CheckLiveRuns, CueStep
<1>2. CASE Seed(i)
  BY <1>2, GoesStep DEF Seed, CueStep
<1>3. CASE PublishSeed(i)
  BY <1>3, GoesStep DEF PublishSeed, CueStep
<1>4. CASE Fund(i)
  BY <1>4, GoesStep DEF Fund, CueStep
<1>5. CASE InvokerDies(i)
  BY <1>5, GoesStep DEF InvokerDies
<1> QED BY <1>1, <1>2, <1>3, <1>4, <1>5

LEMMA RecordCues ==
  ASSUME CuesOK, NEW i \in Ticks, RecordInvocation(i)
  PROVE  CuesOK'
<1>1. CASE Goes(i, "refused") /\ recorded' = recorded
  BY <1>1, GoesStep DEF RecordInvocation, CueStep, Pcs, Before
<1>2. CASE Goes(i, "send") /\ recorded' = [recorded EXCEPT ![i] = 1]
  <2> DEFINE c == [cue[i] EXCEPT !.pc = "send"]
  <2>1. cue[i].pc = "record" /\ origin' = origin /\ sent' = sent
    BY DEF RecordInvocation, CueStep
  <2>2. c \in Invocation /\ c.pc = "send" /\ c.at = cue[i].at /\ cue' = [cue EXCEPT ![i] = c]
    BY <1>2, CueIs DEF CuesOK, Pcs
  <2> HIDE DEF c
  <2>3. /\ cue'[i] = c /\ recorded'[i] = 1
        /\ \A k \in Ticks : k # i => cue'[k] = cue[k] /\ recorded'[k] = recorded[k]
    BY <1>2, <2>2 DEF CuesOK, CueTypes
  <2>4. CueTypes'
    BY <1>2, <2>1, <2>2 DEF CuesOK, CueTypes
  <2>5. c.at = 1
    BY <2>1, <2>2 DEF CuesOK, CueOf, Before
  <2>6. ASSUME NEW k \in Ticks PROVE CueOf(k)'
    <3>1. CueOf(k)
      BY DEF CuesOK
    <3>2. CASE k # i
      BY <2>1, <2>3, <3>1, <3>2 DEF CueOf
    <3>3. CASE k = i
      <4>1. 1..(recorded'[i] - 1) = {} /\ 1 \in 1..Len(Steps(i))
        BY <2>3, StepsAre
      <4> QED BY <2>2, <2>3, <2>5, <3>3, <4>1 DEF CueOf, Before
    <3> QED BY <3>2, <3>3
  <2>7. SentOK'
    <3>1. \A e \in sent : e.task \in Ticks
      BY SaidIs DEF CuesOK, CueTypes, SentLines
    <3> QED BY <2>1, <2>3, <3>1 DEF CuesOK, SentOK
  <2>8. OriginOK'
    BY <2>1, <2>3 DEF CuesOK, OriginOK
  <2> QED BY <2>4, <2>6, <2>7, <2>8 DEF CuesOK
<1> QED BY <1>1, <1>2 DEF RecordInvocation

LEMMA SendCues ==
  ASSUME CuesOK, NEW i \in Ticks, SendNext(i)
  PROVE  CuesOK'
<1> DEFINE kind == Steps(i)[cue[i].at]
<1>0. cue[i].pc = "send" /\ origin' = origin /\ recorded' = recorded
  BY DEF SendNext, CueStep
<1>1. CASE Goes(i, "ended") /\ sent' = sent
  BY <1>0, <1>1, GoesStep DEF Pcs, Before
<1>2. CASE Goes(i, "mark") /\ Delivered(kind, i)
  <2> DEFINE c == [cue[i] EXCEPT !.pc = "mark"]
  <2>1. sent' = sent \cup {Said(kind, i)}
    BY <1>2 DEF Delivered
  <2>2. c \in Invocation /\ c.pc = "mark" /\ c.at = cue[i].at /\ cue' = [cue EXCEPT ![i] = c]
    BY <1>2, CueIs DEF CuesOK, Pcs
  <2> HIDE DEF c
  <2>3. cue'[i] = c /\ \A k \in Ticks : k # i => cue'[k] = cue[k]
    BY <2>2 DEF CuesOK, CueTypes
  <2>4. cue[i].at = recorded[i] /\ cue[i].at \in 1..Len(Steps(i))
    BY <1>0 DEF CuesOK, CueOf
  <2>5. kind \in {"ingress", "plan", "ready"}
    BY <2>4, StepsAre
  <2>6. CueTypes'
    <3>1. Said(kind, i) \in SentLines
      BY <2>5 DEF SentLines
    <3> QED BY <1>0, <2>1, <2>2, <3>1 DEF CuesOK, CueTypes
  <2>7. ASSUME NEW k \in Ticks PROVE CueOf(k)'
    <3>1. CueOf(k) /\ sent \subseteq sent' /\ Said(kind, i) \in sent'
      BY <2>1 DEF CuesOK
    <3> HIDE DEF kind
    <3>2. CASE k # i
      BY <1>0, <2>3, <3>1, <3>2 DEF CueOf
    <3>3. CASE k = i
      <4>1. Said(Steps(i)[c.at], i) \in sent'
        BY <2>2, <3>1 DEF kind
      <4> QED BY <1>0, <2>2, <2>3, <2>4, <3>1, <3>3, <4>1 DEF CueOf, Before
    <3> QED BY <3>2, <3>3
  <2>8. SentOK'
    <3>1. recorded[i] > 0 /\ Said(kind, i).task = i /\ origin # NoOrigin
      <4>1. recorded[i] > 0
        BY <2>4, StepsAre DEF CuesOK, CueTypes
      <4>2. origin # NoOrigin
        BY <1>0 DEF CuesOK, OriginOK
      <4> QED BY <4>1, <4>2, SaidIs
    <3> QED BY <1>0, <2>1, <3>1 DEF CuesOK, SentOK
  <2>9. OriginOK'
    BY <1>0, <2>3 DEF CuesOK, OriginOK
  <2> QED BY <2>6, <2>7, <2>8, <2>9 DEF CuesOK
<1> QED BY <1>1, <1>2 DEF SendNext

LEMMA MarkCues ==
  ASSUME CuesOK, NEW i \in Ticks, MarkSent(i)
  PROVE  CuesOK'
<1> DEFINE p == IF cue[i].at = Len(Steps(i)) THEN "ended" ELSE "send"
           c == [cue[i] EXCEPT !.pc = p, !.at = @ + 1]
<1>1. /\ cue[i].pc = "mark" /\ origin' = origin /\ sent' = sent
      /\ recorded' = [recorded EXCEPT ![i] = cue[i].at + 1]
      /\ cue' = [cue EXCEPT ![i].pc = p, ![i].at = @ + 1]
  BY DEF MarkSent, CueStep
<1>2. cue[i] \in Invocation /\ i \in DOMAIN cue /\ p \in {"ended", "send"}
  BY DEF CuesOK, CueTypes
<1>3. /\ cue[i].at = recorded[i] /\ cue[i].at \in 1..Len(Steps(i))
      /\ Said(Steps(i)[cue[i].at], i) \in sent /\ cue[i].at \in Nat
  <2>1. cue[i].at \in Nat
    BY <1>2 DEF Invocation
  <2> QED BY <1>1, <2>1 DEF CuesOK, CueOf
<1>4. p = "send" => cue[i].at + 1 \in 1..Len(Steps(i))
  BY <1>3, StepsAre
<1> HIDE DEF p
<1>5. c \in Invocation /\ c.at = cue[i].at + 1 /\ c.pc = p
  <2>1. p \in Pcs /\ cue[i].at + 1 \in Nat
    BY <1>2, <1>3 DEF Pcs
  <2> QED BY <1>2, <2>1 DEF Invocation
<1>6. cue' = [cue EXCEPT ![i] = c]
  BY <1>1, <1>2 DEF CuesOK, CueTypes, Invocation
<1> HIDE DEF c
<1>7. /\ cue'[i] = c /\ recorded'[i] = cue[i].at + 1
      /\ \A k \in Ticks : k # i => cue'[k] = cue[k] /\ recorded'[k] = recorded[k]
  BY <1>1, <1>6 DEF CuesOK, CueTypes
<1>8. CueTypes'
  <2>1. origin' = origin /\ sent' = sent /\ cue[i].at + 1 \in Nat
    BY <1>1, <1>3
  <2>2. recorded' \in [Ticks -> Nat]
    BY <1>1, <2>1 DEF CuesOK, CueTypes
  <2> QED BY <1>5, <1>6, <2>1, <2>2 DEF CuesOK, CueTypes
<1>9. ASSUME NEW k \in Ticks PROVE CueOf(k)'
  <2>1. CueOf(k) /\ sent' = sent
    BY <1>1 DEF CuesOK
  <2>2. CASE k # i
    BY <1>7, <2>1, <2>2 DEF CueOf
  <2>3. CASE k = i
    <3>1. \A n \in 1..(recorded'[i] - 1) : n \in 1..(recorded[i] - 1) \/ n = cue[i].at
      BY <1>3, <1>7
    <3> QED BY <1>1, <1>2, <1>3, <1>4, <1>5, <1>7, <2>1, <2>3, <3>1 DEF CueOf, Before
  <2> QED BY <2>2, <2>3
<1>10. SentOK'
  <2>1. \A e \in sent : e.task \in Ticks
    BY SaidIs DEF CuesOK, CueTypes, SentLines
  <2> QED BY <1>1, <1>3, <1>7, <2>1 DEF CuesOK, SentOK
<1>11. OriginOK'
  BY <1>1, <1>7 DEF CuesOK, OriginOK
<1> QED BY <1>8, <1>9, <1>10, <1>11 DEF CuesOK

LEMMA RepublishCues ==
  ASSUME CuesOK, NEW i \in Ticks, RepublishInvocation(i)
  PROVE  CuesOK'
<1> DEFINE c == [cue[i] EXCEPT !.pc = "send", !.at = recorded[i]]
<1>1. /\ cue[i].pc = "ended" /\ origin' = origin /\ sent' = sent /\ recorded' = recorded
      /\ recorded[i] \in 1..Len(Steps(i))
      /\ cue' = [cue EXCEPT ![i].pc = "send", ![i].at = recorded[i]]
  BY DEF RepublishInvocation, CueStep
<1>2. cue[i] \in Invocation /\ i \in DOMAIN cue /\ recorded[i] \in Nat
  BY DEF CuesOK, CueTypes
<1>3. c \in Invocation /\ c.at = recorded[i] /\ c.pc = "send"
  BY <1>2 DEF Invocation, Pcs
<1>4. cue' = [cue EXCEPT ![i] = c]
  BY <1>1, <1>2 DEF CuesOK, CueTypes, Invocation
<1> HIDE DEF c
<1>5. cue'[i] = c /\ \A k \in Ticks : k # i => cue'[k] = cue[k]
  BY <1>4 DEF CuesOK, CueTypes
<1>6. CueTypes'
  BY <1>1, <1>3, <1>4 DEF CuesOK, CueTypes
<1>7. ASSUME NEW k \in Ticks PROVE CueOf(k)'
  <2>1. CueOf(k) /\ sent' = sent /\ recorded' = recorded
    BY <1>1 DEF CuesOK
  <2>2. CASE k # i
    BY <1>5, <2>1, <2>2 DEF CueOf
  <2>3. CASE k = i
    BY <1>1, <1>3, <1>5, <2>1, <2>3 DEF CueOf, Before
  <2> QED BY <2>2, <2>3
<1>8. SentOK'
  BY <1>1 DEF CuesOK, SentOK
<1>9. OriginOK'
  BY <1>1, <1>5 DEF CuesOK, OriginOK
<1> QED BY <1>6, <1>7, <1>8, <1>9 DEF CuesOK

LEMMA InvokeCues ==
  ASSUME CuesOK, NEW i \in Ticks, Invoke(i)
  PROVE  CuesOK'
BY StartTickCues, CheckTrailCues, QuietCues, RecordCues, SendCues, MarkCues, RepublishCues
   DEF Invoke

\* The reactor and the operator touch no invocation.
LEMMA CuesApart ==
  ASSUME TickNext, ~\E i \in Ticks : Invoke(i)
  PROVE  UNCHANGED <<cue, recorded, origin, sent>>
<1>1. CASE Apply
  BY <1>1 DEF Apply, ApplyPlan, ApplyReady, ApplyStipend, ApplyKill, ApplyCompleted,
     ApplyReaction, ApplyNext, ReactorStep, cues
<1>2. ASSUME NEW j \in jobs, Run(j) PROVE UNCHANGED <<cue, recorded, origin, sent>>
  BY <1>2 DEF Run, Skip, Charge, DeferJob, PublishCharge, StartRun, EndRun, ReportRejection,
     PublishRejection, LinkRun, Settle, JobStep, ReactorStep, cues
<1>3. CASE OperatorKills \/ ReactorDies \/ ReactorStarts
  BY <1>3 DEF OperatorKills, ReactorDies, ReactorStarts, cues
<1> QED BY <1>1, <1>2, <1>3 DEF TickNext

LEMMA CuesSame ==
  ASSUME CuesOK, UNCHANGED <<cue, recorded, origin, sent>>
  PROVE  CuesOK'
BY DEF CuesOK, CueTypes, CueOf, SentOK, OriginOK

LEMMA CuesStep ==
  ASSUME CuesOK, [TickNext]_tickVars
  PROVE  CuesOK'
<1>1. CASE UNCHANGED tickVars
  BY <1>1, CuesSame DEF tickVars, cues
<1>2. CASE \E i \in Ticks : Invoke(i)
  BY <1>2, InvokeCues
<1>3. CASE TickNext /\ ~\E i \in Ticks : Invoke(i)
  BY <1>3, CuesApart, CuesSame
<1> QED BY <1>1, <1>2, <1>3

-----------------------------------------------------------------------------
(* The reactor's work: every task, run, job and message is of an invocation  *)
(* whose plan was announced                                                  *)

StatusOf(i) == ledger.tasks[i].status

LedgerOK == ledger \in Trace /\ Rows(ledger) \subseteq Announced

RunRecord == [task : Ticks, bee : Bees, gate : {"none", "passed", "failed"},
              state : {"running", "completed", "failed", "cancelled"}]
RunsOK ==
    /\ runs \in Seq(RunRecord) /\ Len(runs) <= MaxRuns
    /\ \A r \in 1..Len(runs) :
          runs[r].task \in Announced /\ (runs[r].gate = "failed" => runs[r].state = "failed")

\* A run has had its say: its rejection is on record, or no job of a task holds it.
Settled(r) == runs[r].gate = "failed" \/ \A j \in jobs : j.kind = "task" => j.run # r
Voiced(i) == \E r \in 1..Len(runs) : runs[r].task = i /\ Settled(r)

Early == {"due", "charge", "start"}
Held == {"run", "report", "publish", "link", "settle"}
JobType == [kind : {"task", "direct"}, task : Ticks, bee : Bees, source : Nat,
            at : Early \cup Held, run : Nat, capped : BOOLEAN]
JobOf(j) ==
    /\ j \in JobType /\ j.task \in Announced
    /\ j.at \in Early => j.run = 0
    /\ j.at \in Held => j.run \in 1..Len(runs) /\ runs[j.run].task = j.task
    /\ j.at = "run" => runs[j.run].gate = "none" /\ runs[j.run].state = "running"
    /\ j.at \in {"report", "publish"} => runs[j.run].gate = "failed"
    /\ j.kind = "direct" => j.source \in 1..Len(runs) /\ Voiced(j.task)
\* A task has one dispatch at a time, and a run one job.
OneEach(J) ==
    /\ \A j, k \in J : j.kind = "task" /\ k.kind = "task" /\ j.task = k.task => j = k
    /\ \A j, k \in J : j.at \in Held /\ k.at \in Held /\ j.run = k.run => j = k
JobsOK == (\A j \in jobs : JobOf(j)) /\ OneEach(jobs)

MessageKinds == {"plan", "ready", "completed", "rejected", "proposal", "stipend", "kill"}
MessageType == [kind : MessageKinds, of : Nat]
MsgOK(m) ==
    /\ m.kind \in {"plan", "ready", "completed"} => m.of \in Announced
    /\ m.kind \in {"rejected", "proposal"} =>
          m.of \in 1..Len(runs) /\ Voiced(runs[m.of].task)
    /\ m.kind = "completed" => Voiced(m.of)
    /\ m.kind = "stipend" => m.of \in Ticks
Messages == {stream[n] : n \in 1..Len(stream)}
StreamOK == stream \in Seq(MessageType) /\ \A m \in Messages : MsgOK(m)

WorkOK == LedgerOK /\ RunsOK /\ JobsOK /\ StreamOK

\* No step takes back what a run said, nor gives one to another task.
RunsGrow ==
    /\ Len(runs) \in Nat /\ Len(runs') \in Nat /\ Len(runs) <= Len(runs')
    /\ \A r \in 1..Len(runs) :
          runs'[r].task = runs[r].task /\ (runs[r].gate = "failed" => runs'[r].gate = "failed")
    /\ \A k \in jobs' : k.kind = "task" =>
          k.run \notin 1..Len(runs) \/ \E j \in jobs : j.kind = "task" /\ j.run = k.run

LEMMA VoicesKept ==
  ASSUME RunsGrow, NEW i, Voiced(i)
  PROVE  Voiced(i)'
<1>1. PICK r \in 1..Len(runs) : runs[r].task = i /\ Settled(r)
  BY DEF Voiced
<1>2. r \in 1..Len(runs') /\ runs'[r].task = i
  BY <1>1 DEF RunsGrow
<1>3. Settled(r)'
  BY <1>1 DEF RunsGrow, Settled
<1> QED BY <1>2, <1>3 DEF Voiced

LEMMA AnnouncedGrows ==
  ASSUME sent \subseteq sent'
  PROVE  Announced \subseteq Announced'
BY DEF Announced

LEMMA JobKept ==
  ASSUME RunsGrow, sent \subseteq sent', NEW k, JobOf(k),
         k.at \in Held => runs'[k.run] = runs[k.run]
  PROVE  JobOf(k)'
<1>1. k.task \in Announced'
  BY AnnouncedGrows DEF JobOf
<1>2. \A n : n \in 1..Len(runs) => n \in 1..Len(runs')
  BY DEF RunsGrow
<1>3. Voiced(k.task) => Voiced(k.task)'
  BY VoicesKept
<1>4. "run" \in Held /\ "report" \in Held /\ "publish" \in Held
  BY DEF Held
<1> QED BY <1>1, <1>2, <1>3, <1>4 DEF JobOf

LEMMA MsgKept ==
  ASSUME RunsGrow, sent \subseteq sent', NEW m, MsgOK(m)
  PROVE  MsgOK(m)'
<1>1. Announced \subseteq Announced'
  BY AnnouncedGrows
<1>2. \A n \in 1..Len(runs) : n \in 1..Len(runs') /\ runs'[n].task = runs[n].task
  BY DEF RunsGrow
<1>3. \A i : Voiced(i) => Voiced(i)'
  BY VoicesKept
<1>4. ASSUME m.kind \in {"rejected", "proposal"}
      PROVE  /\ m.of \in 1..Len(runs') /\ Voiced(runs[m.of].task)'
             /\ runs'[m.of].task = runs[m.of].task
  <2>1. m.of \in 1..Len(runs) /\ Voiced(runs[m.of].task)
    BY <1>4 DEF MsgOK
  <2> DEFINE i == runs[m.of].task
  <2> QED BY <1>2, <1>3, <2>1
<1> QED BY <1>1, <1>3, <1>4 DEF MsgOK

\* What the bus may do in a step: nothing, deliver, or take a message.
LEMMA StreamKept ==
  ASSUME StreamOK, RunsGrow, sent \subseteq sent',
         \/ stream' = stream
         \/ stream # <<>> /\ stream' = Tail(stream)
         \/ \E m \in MessageType : MsgOK(m)' /\ stream' = Append(stream, m)
  PROVE  StreamOK'
<1>1. \A m \in Messages : MsgOK(m)'
  BY MsgKept DEF StreamOK
<1>2. stream \in Seq(MessageType)
  BY DEF StreamOK
<1>3. CASE stream' = stream
  BY <1>1, <1>2, <1>3 DEF StreamOK, Messages
<1>4. CASE stream # <<>> /\ stream' = Tail(stream)
  <2>1. /\ stream' \in Seq(MessageType) /\ Len(stream') = Len(stream) - 1
        /\ \A n \in 1..(Len(stream) - 1) : stream'[n] = stream[n + 1]
        /\ Len(stream) \in Nat
    BY <1>2, <1>4
  <2>2. Messages' \subseteq Messages
    BY <2>1 DEF Messages
  <2> QED BY <1>1, <2>1, <2>2 DEF StreamOK
<1>5. ASSUME NEW m \in MessageType, MsgOK(m)', stream' = Append(stream, m) PROVE StreamOK'
  <2>1. /\ stream' \in Seq(MessageType) /\ Len(stream') = Len(stream) + 1
        /\ \A n \in 1..Len(stream) : stream'[n] = stream[n]
        /\ stream'[Len(stream) + 1] = m /\ Len(stream) \in Nat
    BY <1>2, <1>5
  <2>2. Messages' \subseteq Messages \cup {m}
    BY <2>1 DEF Messages
  <2> QED BY <1>1, <1>5, <2>1, <2>2 DEF StreamOK
<1> QED BY <1>3, <1>4, <1>5

LEMMA HeadIs ==
  ASSUME StreamOK, stream # <<>>
  PROVE  Head(stream) \in MessageType /\ MsgOK(Head(stream)) /\ Head(stream) = stream[1]
<1>1. Len(stream) \in Nat /\ 1 \in 1..Len(stream) /\ Head(stream) = stream[1]
  BY DEF StreamOK
<1> QED BY <1>1 DEF StreamOK, Messages

LEMMA RunsSame ==
  ASSUME RunsOK, runs' = runs, sent \subseteq sent'
  PROVE  RunsOK' /\ Len(runs) \in Nat
<1>1. Announced \subseteq Announced'
  BY AnnouncedGrows
<1> QED BY <1>1 DEF RunsOK

\* The jobs of a step that starts no run: those there were, and new ones that
\* hold none.
LEMMA JobsAdded ==
  ASSUME RunsOK, JobsOK, runs' = runs, sent \subseteq sent', NEW J,
         jobs' \subseteq jobs \cup J,
         \A k \in J : k.run = 0 /\ k.at = "due"
  PROVE  RunsGrow
<1>1. Len(runs) \in Nat
  BY DEF RunsOK
<1> QED BY <1>1 DEF RunsGrow

LEMMA DueIs ==
  ASSUME NEW t, NEW k \in Due(t)
  PROVE  /\ k.kind = "task" /\ k.at = "due" /\ k.run = 0 /\ k.task \in Ticks
         /\ k \in JobType /\ t.tasks[k.task].status = "ready"
         /\ ledger.tasks[k.task].status # "ready"
         /\ \A j \in jobs : j.kind = "task" => j.task # k.task
         /\ \A l \in Due(t) : l.task = k.task => l = k
<1>1. PICK id \in Ticks :
         /\ k = Job("task", id, Builder, 0) /\ t.tasks[id].status = "ready"
         /\ ledger.tasks[id].status # "ready"
         /\ \A j \in jobs : j.kind = "task" => j.task # id
  BY DEF Due
<1>2. \A l \in Due(t) : l = Job("task", l.task, Builder, 0)
  BY DEF Due, Job
<1>3. /\ k.kind = "task" /\ k.at = "due" /\ k.run = 0 /\ k.task = id
      /\ k \in JobType
  BY <1>1, StandingAssumption DEF Job, JobType, Early
<1> QED BY <1>1, <1>2, <1>3

\* New dispatches of ready tasks join the jobs, some of which are done.
LEMMA DueJobs ==
  ASSUME WorkOK, LedgerOK', runs' = runs, sent' = sent,
         jobs' \subseteq jobs \cup Due(ledger')
  PROVE  RunsGrow /\ RunsOK' /\ JobsOK'
<1>1. RunsGrow
  <2>1. \A k \in Due(ledger') : k.run = 0 /\ k.at = "due"
    BY DueIs
  <2> QED BY <2>1, JobsAdded DEF WorkOK
<1>2. \A k \in jobs : JobOf(k)'
  BY <1>1, JobKept DEF WorkOK, JobsOK
<1>3. ASSUME NEW k \in Due(ledger') PROVE JobOf(k)'
  <2>1. /\ k.kind = "task" /\ k.at = "due" /\ k.run = 0 /\ k.task \in Ticks
        /\ k \in JobType /\ ledger'.tasks[k.task].status = "ready"
    BY DueIs
  <2>2. k.task \in Announced'
    BY <2>1 DEF LedgerOK, Rows, Ticks
  <2> QED BY <2>1, <2>2 DEF JobOf, Held
<1>4. OneEach(jobs \cup Due(ledger'))
  <2>1. \A k \in Due(ledger') :
            /\ k.kind = "task" /\ k.at = "due"
            /\ \A j \in jobs : j.kind = "task" => j.task # k.task
            /\ \A l \in Due(ledger') : l.task = k.task => l = k
    BY DueIs
  <2>2. OneEach(jobs) /\ "due" \notin Held
    BY DEF WorkOK, JobsOK, Held
  <2> QED BY <2>1, <2>2 DEF OneEach
<1>5. OneEach(jobs')
  BY <1>4 DEF OneEach
<1> QED BY <1>1, <1>2, <1>3, <1>5, RunsSame DEF WorkOK, JobsOK

\* A job moves on, run in hand or none.
LEMMA MovedJobs ==
  ASSUME WorkOK, runs' = runs, sent' = sent, NEW j \in jobs, NEW at \in Early \cup Held,
         Moves(j, at), at \in Early <=> j.at \in Early,
         at # "run", at \in {"report", "publish"} => runs[j.run].gate = "failed"
  PROVE  RunsGrow /\ RunsOK' /\ JobsOK'
<1> DEFINE k == [j EXCEPT !.at = at]
<1>1. JobOf(j)
  BY DEF WorkOK, JobsOK
<1>2. /\ k \in JobType /\ k.at = at /\ k.run = j.run /\ k.kind = j.kind
      /\ k.task = j.task /\ k.source = j.source
  BY <1>1 DEF JobOf, JobType
<1>3. jobs' = (jobs \ {j}) \cup {k}
  BY DEF Moves
<1> HIDE DEF k
<1>4. RunsGrow
  <2>1. Len(runs) \in Nat
    BY DEF WorkOK, RunsOK
  <2> QED BY <1>2, <1>3, <2>1 DEF RunsGrow
<1>5. at \in Held <=> j.at \in Held
  <2>1. j.at \in Early \cup Held
    BY <1>1 DEF JobOf, JobType
  <2>2. Early \cap Held = {}
    BY DEF Early, Held
  <2> QED BY <2>1, <2>2
<1>6. JobOf(k)
  BY <1>1, <1>2, <1>5 DEF JobOf
<1>7. \A l \in jobs' : JobOf(l)'
  BY <1>3, <1>4, <1>6, JobKept DEF WorkOK, JobsOK
<1>8. OneEach(jobs')
  BY <1>2, <1>3, <1>5 DEF WorkOK, JobsOK, OneEach
<1> QED BY <1>4, <1>7, <1>8, RunsSame DEF WorkOK, JobsOK

\* Some jobs end and none begins.
LEMMA FewerJobs ==
  ASSUME WorkOK, runs' = runs, sent \subseteq sent', jobs' \subseteq jobs
  PROVE  RunsGrow /\ RunsOK' /\ JobsOK'
<1>1. RunsGrow
  <2>1. Len(runs) \in Nat
    BY DEF WorkOK, RunsOK
  <2> QED BY <2>1 DEF RunsGrow
<1>2. \A k \in jobs' : JobOf(k)'
  BY <1>1, JobKept DEF WorkOK, JobsOK
<1>3. OneEach(jobs')
  BY DEF WorkOK, JobsOK, OneEach
<1> QED BY <1>1, <1>2, <1>3, RunsSame DEF WorkOK, JobsOK

LEMMA LedgerSame ==
  ASSUME LedgerOK, ledger' \in Trace, ledger'.tasks = ledger.tasks, sent \subseteq sent'
  PROVE  LedgerOK'
BY AnnouncedGrows DEF LedgerOK, Rows

\* Each step keeps the work attributed.  First the invocations.
LEMMA InvokeWork ==
  ASSUME CuesOK, WorkOK, NEW i \in Ticks, Invoke(i)
  PROVE  WorkOK'
<1>1. runs' = runs /\ jobs' = jobs /\ sent \subseteq sent'
  BY DEF Invoke, StartTick, CheckTrail, CheckLiveRuns, Seed, PublishSeed, Fund, RecordInvocation,
     SendNext, Delivered, MarkSent, RepublishInvocation, InvokerDies, CueStep, work
<1>2. RunsGrow /\ RunsOK' /\ JobsOK'
  BY <1>1, FewerJobs
<1>3. LedgerOK'
  <2>1. CASE ledger' = ledger
    BY <1>1, <2>1, LedgerSame DEF WorkOK, LedgerOK
  <2>2. CASE Seed(i)
    <3>1. ledger' \in Trace /\ ledger'.tasks = ledger.tasks
      BY <2>2, SeedType, AsideTasks DEF Seed, WorkOK, LedgerOK
    <3> QED BY <1>1, <3>1, LedgerSame DEF WorkOK
  <2>3. CASE ledger' = MarkEnergySeedPublished(ledger)
    <3>1. ledger' \in Trace /\ ledger'.tasks = ledger.tasks
      BY <2>3, MarkTick DEF WorkOK, LedgerOK
    <3> QED BY <1>1, <3>1, LedgerSame DEF WorkOK
  <2>4. CASE ledger' = ReduceEnergyStipend(ledger, DefaultBudget)
    <3>1. /\ ledger' \in Trace
          /\ \A id \in TaskIds : ledger'.tasks[id].status = "absent"
                => ledger.tasks[id].status = "absent"
          /\ \A id \in TaskIds : ledger.tasks[id].status = "absent"
                => ledger'.tasks[id].status = "absent"
      BY <2>4, StipendTick, BudgetAssumption DEF WorkOK, LedgerOK
    <3> QED BY <1>1, <3>1, AnnouncedGrows DEF WorkOK, LedgerOK, Rows
  <2> QED
    BY <2>1, <2>2, <2>3, <2>4
    DEF Invoke, StartTick, CheckTrail, CheckLiveRuns, PublishSeed, Fund, RecordInvocation,
        SendNext, MarkSent, RepublishInvocation, InvokerDies
<1>4. StreamOK'
  <2>1. CASE stream' = stream
    BY <1>1, <1>2, <2>1, StreamKept DEF WorkOK
  <2>2. CASE stream' = Append(stream, Message("stipend", i))
    <3> DEFINE m == Message("stipend", i)
    <3>1. m \in MessageType /\ m.kind = "stipend" /\ m.of = i
      BY TicksAreNats DEF Message, MessageType, MessageKinds
    <3> HIDE DEF m
    <3>2. MsgOK(m)'
      BY <3>1 DEF MsgOK
    <3>3. stream' = Append(stream, m)
      BY <2>2 DEF m
    <3> QED BY <1>1, <1>2, <3>1, <3>2, <3>3, StreamKept DEF WorkOK
  <2>3. ASSUME SendNext(i), stream' # stream PROVE StreamOK'
    <3> DEFINE kind == Steps(i)[cue[i].at]
    <3>1. /\ cue[i].pc = "send" /\ sent' = sent \cup {Said(kind, i)}
          /\ kind # "ingress" /\ stream' = Append(stream, Message(kind, i))
      BY <2>3 DEF SendNext, CueStep, Delivered
    <3>2. cue[i].at = recorded[i] /\ cue[i].at \in 1..Len(Steps(i)) /\ cue[i].at \in Nat
          /\ \A k \in 1..(recorded[i] - 1) : Said(Steps(i)[k], i) \in sent
      BY <3>1, CueIs DEF CuesOK, CueOf, Invocation
    <3>3. cue[i].at \in {2, 3} /\ kind \in {"plan", "ready"}
      BY <3>1, <3>2, StepsAre
    <3>4. cue[i].at = 2 => kind = "plan"
      BY StepsAre
    <3> HIDE DEF kind
    <3>5. PICK m \in MessageType :
             /\ m.kind \in {"plan", "ready"} /\ m.of = i /\ stream' = Append(stream, m)
      BY <3>1, <3>3, TicksAreNats DEF Message, MessageType, MessageKinds
    <3>6. Said("ingress", i) \in sent
      <4>1. 1 \in 1..(recorded[i] - 1)
        BY <3>2, <3>3
      <4> QED BY <3>2, <4>1, StepsAre
    <3>7. Said("plan", i) \in sent'
      <4>1. CASE cue[i].at = 2
        BY <3>1, <3>4, <4>1
      <4>2. CASE cue[i].at = 3
        <5>1. 2 \in 1..(recorded[i] - 1)
          BY <3>2, <4>2
        <5> QED BY <1>1, <3>2, <5>1, StepsAre
      <4> QED BY <3>3, <4>1, <4>2
    <3>8. i \in Announced'
      BY <1>1, <3>6, <3>7 DEF Announced
    <3>9. MsgOK(m)'
      BY <3>5, <3>8 DEF MsgOK
    <3> QED BY <1>1, <1>2, <3>1, <3>5, <3>9, StreamKept DEF WorkOK
  <2> QED
    BY <2>1, <2>2, <2>3
    DEF Invoke, StartTick, CheckTrail, CheckLiveRuns, Seed, PublishSeed, Fund, RecordInvocation,
        MarkSent, RepublishInvocation, InvokerDies
<1> QED BY <1>2, <1>3, <1>4 DEF WorkOK

LEMMA HeadOf ==
  ASSUME WorkOK, NEW kind, ApplyNext(kind)
  PROVE  /\ stream # <<>> /\ stream' = Tail(stream) /\ sent' = sent /\ runs' = runs
         /\ Head(stream).kind = kind /\ MsgOK(Head(stream)) /\ Head(stream) = stream[1]
         /\ kind \in {"plan", "ready", "completed"} =>
              Head(stream).of \in Announced /\ Head(stream).of \in TaskIds
         /\ 1 \in Stamps /\ Builder \in Bees
<1>1. /\ stream # <<>> /\ stream' = Tail(stream) /\ sent' = sent /\ runs' = runs
      /\ Head(stream).kind = kind
  BY DEF ApplyNext, ReactorStep
<1>2. MsgOK(Head(stream)) /\ Head(stream) = stream[1]
  BY <1>1, HeadIs DEF WorkOK
<1> QED BY <1>1, <1>2, StandingAssumption DEF MsgOK, Announced, Ticks

\* A reducer that leaves alone what is absent, but for one announced task.
LEMMA LedgerStep ==
  ASSUME LedgerOK, ledger' \in Trace, sent' = sent, NEW i \in Announced,
         \A id \in TaskIds \ {i} : ledger.tasks[id].status = "absent" =>
              ledger'.tasks[id].status = "absent"
  PROVE  LedgerOK'
<1>1. Announced' = Announced
  BY DEF Announced
<1> QED BY <1>1 DEF LedgerOK, Rows

LEMMA PlanWork ==
  ASSUME WorkOK, ApplyPlan
  PROVE  WorkOK' /\ RunsGrow
<1> DEFINE i == Head(stream).of
           plan == [k \in {i} |-> [phase |-> "work", deps |-> {}, bee |-> Builder]]
<1>1. /\ ledger' = ReduceTaskPlan(ledger, plan, FALSE, FALSE, i)
      /\ jobs' = jobs \cup Due(ledger') /\ ApplyNext("plan")
  BY DEF ApplyPlan
<1>2. i \in Announced /\ i \in TaskIds /\ Builder \in Bees /\ i \in Stamps
  BY <1>1, HeadOf, StandingAssumption DEF Ticks
<1>3. stream # <<>> /\ stream' = Tail(stream) /\ sent' = sent /\ runs' = runs
  BY <1>1, HeadOf
<1> HIDE DEF i
<1>4. ledger' \in Trace /\ \A id \in TaskIds \ {i} : Lifted(ledger, ledger', id)
  <2>1. plan = [k \in {i} |-> [phase |-> "work", deps |-> {}, bee |-> Builder]]
    BY DEF plan
  <2> HIDE DEF plan
  <2> QED BY <1>1, <1>2, <2>1, PlanTick DEF WorkOK, LedgerOK
<1>5. LedgerOK'
  BY <1>2, <1>3, <1>4, LedgerStep DEF WorkOK, Lifted
<1>6. RunsGrow /\ RunsOK' /\ JobsOK'
  BY <1>1, <1>3, <1>5, DueJobs
<1>7. StreamOK'
  BY <1>3, <1>6, StreamKept DEF WorkOK
<1> QED BY <1>5, <1>6, <1>7 DEF WorkOK

LEMMA ReadyWork ==
  ASSUME WorkOK, ApplyReady
  PROVE  WorkOK' /\ RunsGrow
<1> DEFINE i == Head(stream).of
<1>1. /\ ledger' = ReduceTaskReady(ledger, i, Builder)
      /\ jobs' = jobs \cup Due(ledger') /\ ApplyNext("ready")
  BY DEF ApplyReady
<1>2. i \in Announced /\ i \in TaskIds /\ Builder \in Bees
  BY <1>1, HeadOf
<1>3. stream # <<>> /\ stream' = Tail(stream) /\ sent' = sent /\ runs' = runs
  BY <1>1, HeadOf
<1> HIDE DEF i
<1>4. ledger' \in Trace /\ \A id \in TaskIds \ {i} : ledger'.tasks[id] = ledger.tasks[id]
  BY <1>1, <1>2, ReadyTick DEF WorkOK, LedgerOK
<1>5. LedgerOK'
  BY <1>2, <1>3, <1>4, LedgerStep DEF WorkOK
<1>6. RunsGrow /\ RunsOK' /\ JobsOK'
  BY <1>1, <1>3, <1>5, DueJobs
<1>7. StreamOK'
  BY <1>3, <1>6, StreamKept DEF WorkOK
<1> QED BY <1>5, <1>6, <1>7 DEF WorkOK

LEMMA CompletedWork ==
  ASSUME WorkOK, ApplyCompleted
  PROVE  WorkOK' /\ RunsGrow
<1> DEFINE i == Head(stream).of
<1>1. /\ ledger' = ReduceTaskCompleted(ledger, i, "completed", 1)
      /\ jobs' = jobs \cup Due(ledger') /\ ApplyNext("completed")
  BY DEF ApplyCompleted
<1>2. i \in Announced /\ i \in TaskIds /\ 1 \in Stamps
  BY <1>1, HeadOf
<1>3. stream # <<>> /\ stream' = Tail(stream) /\ sent' = sent /\ runs' = runs
  BY <1>1, HeadOf
<1> HIDE DEF i
<1>4. ledger' \in Trace /\ \A id \in TaskIds \ {i} : Lifted(ledger, ledger', id)
  BY <1>1, <1>2, CompletedTick DEF WorkOK, LedgerOK
<1>5. LedgerOK'
  BY <1>2, <1>3, <1>4, LedgerStep DEF WorkOK, Lifted
<1>6. RunsGrow /\ RunsOK' /\ JobsOK'
  BY <1>1, <1>3, <1>5, DueJobs
<1>7. StreamOK'
  BY <1>3, <1>6, StreamKept DEF WorkOK
<1> QED BY <1>5, <1>6, <1>7 DEF WorkOK

LEMMA CloseWork ==
  ASSUME WorkOK, ApplyStipend \/ ApplyKill
  PROVE  WorkOK' /\ RunsGrow
<1>1. /\ stream # <<>> /\ stream' = Tail(stream) /\ sent' = sent /\ runs' = runs
      /\ jobs' = jobs
  <2>1. ApplyNext("stipend") \/ ApplyNext("kill")
    BY DEF ApplyStipend, ApplyKill
  <2>2. jobs' = jobs
    BY DEF ApplyStipend, ApplyKill
  <2> QED BY <2>1, <2>2, HeadOf
<1>2. RunsGrow /\ RunsOK' /\ JobsOK'
  BY <1>1, FewerJobs
<1>3. /\ ledger' \in Trace
      /\ \A id \in TaskIds : ledger.tasks[id].status = "absent"
                => ledger'.tasks[id].status = "absent"
  <2>1. CASE ApplyStipend
    BY <2>1, StipendTick, BudgetAssumption DEF ApplyStipend, WorkOK, LedgerOK
  <2>2. CASE ApplyKill
    <3>1. ledger \in Trace /\ ledger' = ReduceSystemKill(ledger)
      BY <2>2 DEF ApplyKill, WorkOK, LedgerOK
    <3>2. ledger' \in Trace
      BY <3>1, KillType
    <3>3. \A id \in TaskIds :
              ledger'.tasks[id].status = "absent" <=> ledger.tasks[id].status = "absent"
      BY <3>1, KillTick
    <3> QED BY <3>2, <3>3
  <2> QED BY <2>1, <2>2
<1>4. LedgerOK'
  <2>1. Announced' = Announced
    BY <1>1 DEF Announced
  <2> QED BY <1>3, <2>1 DEF WorkOK, LedgerOK, Rows
<1>5. StreamOK'
  BY <1>1, <1>2, StreamKept DEF WorkOK
<1> QED BY <1>2, <1>4, <1>5 DEF WorkOK

\* A reaction dispatches beside the task's own dispatch.
LEMMA ReactionWork ==
  ASSUME WorkOK, NEW kind \in {"rejected", "proposal"}, NEW bee \in Bees,
         ApplyReaction(kind, bee)
  PROVE  WorkOK' /\ RunsGrow
<1> DEFINE r == Head(stream).of
           k == Job("direct", runs[r].task, bee, r)
<1>1. /\ stream # <<>> /\ stream' = Tail(stream) /\ sent' = sent /\ runs' = runs
      /\ ledger' = ledger /\ Head(stream).kind = kind /\ MsgOK(Head(stream))
      /\ jobs' \in {jobs, jobs \cup {k}}
  <2>1. ApplyNext(kind) /\ ledger' = ledger /\ jobs' \in {jobs, jobs \cup {k}}
    BY DEF ApplyReaction
  <2> QED BY <2>1, HeadOf
<1>2. r \in 1..Len(runs) /\ Voiced(runs[r].task) /\ runs[r] \in RunRecord
      /\ runs[r].task \in Announced /\ Len(runs) \in Nat
  BY <1>1 DEF MsgOK, WorkOK, RunsOK
<1>3. /\ k \in JobType /\ k.kind = "direct" /\ k.at = "due" /\ k.run = 0
      /\ k.task = runs[r].task /\ k.source = r
  BY <1>2 DEF Job, JobType, Early, RunRecord
<1> HIDE DEF k, r
<1>4. RunsGrow
  <2>1. Len(runs) \in Nat
    BY <1>2
  <2> QED BY <1>1, <1>3, <2>1 DEF RunsGrow
<1>5. JobOf(k)
  BY <1>2, <1>3 DEF JobOf, Held
<1>6. \A l \in jobs' : JobOf(l)'
  BY <1>1, <1>4, <1>5, JobKept DEF WorkOK, JobsOK
<1>7. OneEach(jobs')
  <2>1. OneEach(jobs) /\ "due" \notin Held
    BY DEF WorkOK, JobsOK, Held
  <2> QED BY <1>1, <1>3, <2>1 DEF OneEach
<1>8. StreamOK'
  BY <1>1, <1>4, StreamKept DEF WorkOK
<1>9. LedgerOK'
  BY <1>1, LedgerSame DEF WorkOK, LedgerOK
<1> QED BY <1>1, <1>4, <1>6, <1>7, <1>8, <1>9, RunsSame DEF WorkOK, JobsOK

\* Then the dispatches.
LEMMA JobIs ==
  ASSUME WorkOK, NEW j \in jobs
  PROVE  /\ JobOf(j) /\ j \in JobType /\ j.task \in Announced /\ j.task \in TaskIds
         /\ j.bee \in Bees /\ j.kind \in {"task", "direct"}
         /\ j.at \in Held => /\ j.run \in 1..Len(runs) /\ runs[j.run].task = j.task
                             /\ runs[j.run] \in RunRecord
         /\ runs \in Seq(RunRecord) /\ Len(runs) \in Nat
BY DEF WorkOK, JobsOK, JobOf, JobType, Ticks, RunsOK

\* What a dispatch does that starts and ends no run and takes no task further.
LEMMA QuietWork ==
  ASSUME WorkOK, NEW j \in jobs,
         Skip(j) \/ Charge(j) \/ DeferJob(j) \/ PublishCharge(j) \/ ReportRejection(j) \/ LinkRun(j)
  PROVE  WorkOK' /\ RunsGrow
<1>1. runs' = runs /\ sent' = sent /\ stream' = stream
  BY DEF Skip, Charge, DeferJob, PublishCharge, ReportRejection, LinkRun, JobStep, ReactorStep
<1>2. RunsGrow /\ RunsOK' /\ JobsOK'
  <2>1. CASE jobs' = jobs \ {j}
    BY <1>1, <2>1, FewerJobs
  <2>2. CASE jobs' # jobs \ {j}
    <3>1. \/ j.at = "due" /\ Moves(j, "charge")
          \/ j.at = "charge" /\ Moves(j, "start")
          \/ j.at = "report" /\ Moves(j, "publish")
          \/ j.at = "link" /\ Moves(j, "settle")
      BY <2>2 DEF Skip, Charge, DeferJob, PublishCharge, ReportRejection, LinkRun, JobStep
    <3>2. j.at = "report" => runs[j.run].gate = "failed"
      BY JobIs DEF JobOf
    <3> QED BY <1>1, <3>1, <3>2, MovedJobs DEF Early, Held
  <2> QED BY <2>1, <2>2
<1>3. LedgerOK'
  <2>1. CASE ledger' = ledger
    BY <1>1, <2>1, LedgerSame DEF WorkOK, LedgerOK
  <2>2. CASE Charge(j)
    BY <1>1, <2>2, ConsumeTick, LedgerSame DEF Charge, WorkOK, LedgerOK
  <2>3. CASE DeferJob(j)
    <3>1. Dispatch(j) \in DispatchId
      <4>1. CASE j.kind = "task"
        BY <4>1, JobIs, DispatchIdType DEF Dispatch
      <4>2. CASE j.kind # "task"
        <5>1. j.kind = "direct" /\ j.source \in 1..Len(runs) /\ Len(runs) \in Nat
          BY <4>2, JobIs DEF JobOf
        <5>2. j.source \in 1..MaxRuns
          BY <5>1, StandingAssumption DEF WorkOK, RunsOK
        <5> QED BY <4>2, <5>2, JobIs, DispatchIdType, StandingAssumption DEF Dispatch
      <4> QED BY <4>1, <4>2
    <3>2. Deferral(ledger, Dispatch(j), ledger')
      BY <2>3 DEF DeferJob, Deferral
    <3>3. ledger' \in Trace /\ ledger'.tasks = ledger.tasks
      BY <3>1, <3>2, DeferTick DEF WorkOK, LedgerOK, SameTasks
    <3> QED BY <1>1, <3>3, LedgerSame DEF WorkOK
  <2> QED BY <2>1, <2>2, <2>3 DEF Skip, PublishCharge, ReportRejection, LinkRun
<1>4. StreamOK'
  BY <1>1, <1>2, StreamKept DEF WorkOK
<1> QED BY <1>2, <1>3, <1>4 DEF WorkOK

\* The run a dispatch starts is a new one, and its own.
LEMMA StartedIs ==
  ASSUME WorkOK, NEW j \in jobs, StartRun(j)
  PROVE  /\ Len(runs) \in Nat /\ Len(runs') = Len(runs) + 1 /\ runs' \in Seq(RunRecord)
         /\ Len(runs') <= MaxRuns
         /\ \A r \in 1..Len(runs) : runs'[r] = runs[r]
         /\ LET new == runs'[Len(runs) + 1]
            IN  new.task = j.task /\ new.gate = "none" /\ new.state = "running"
         /\ \E k \in JobType :
              /\ jobs' = (jobs \ {j}) \cup {k} /\ k.run = Len(runs) + 1 /\ k.at = "run"
              /\ k.task = j.task /\ k.kind = j.kind /\ k.source = j.source
         /\ j.at = "start" /\ j.run = 0 /\ sent' = sent /\ stream' = stream
<1> DEFINE new == [task |-> j.task, bee |-> j.bee, gate |-> "none", state |-> "running"]
           k == [j EXCEPT !.at = "run", !.run = Len(runs) + 1]
<1>1. /\ runs' = Append(runs, new) /\ jobs' = (jobs \ {j}) \cup {k} /\ Len(runs) < MaxRuns
      /\ j.at = "start" /\ sent' = sent /\ stream' = stream
  BY DEF StartRun, JobStep, ReactorStep
<1>2. /\ j \in JobType /\ j.task \in TaskIds /\ j.bee \in Bees
      /\ runs \in Seq(RunRecord) /\ Len(runs) \in Nat /\ JobOf(j)
  BY JobIs
<1>3. new \in RunRecord
  BY <1>2 DEF RunRecord, Ticks
<1>4. /\ k \in JobType /\ k.run = Len(runs) + 1 /\ k.at = "run"
      /\ k.task = j.task /\ k.kind = j.kind /\ k.source = j.source
  <2>1. "run" \in Early \cup Held /\ Len(runs) + 1 \in Nat
    BY <1>2 DEF Held
  <2> QED BY <1>2, <2>1 DEF JobType
<1>5. j.run = 0
  BY <1>1, <1>2 DEF JobOf, Early
<1>6. new.task = j.task /\ new.gate = "none" /\ new.state = "running"
  OBVIOUS
<1> HIDE DEF new, k
<1>7. /\ Len(runs') = Len(runs) + 1 /\ runs' \in Seq(RunRecord)
      /\ \A r \in 1..Len(runs) : runs'[r] = runs[r]
      /\ runs'[Len(runs) + 1] = new
  BY <1>1, <1>2, <1>3
<1>8. Len(runs') <= MaxRuns
  BY <1>1, <1>2, <1>7, StandingAssumption
<1> QED BY <1>1, <1>2, <1>4, <1>5, <1>6, <1>7, <1>8

LEMMA StartWork ==
  ASSUME WorkOK, NEW j \in jobs, StartRun(j)
  PROVE  WorkOK' /\ RunsGrow
<1>1. PICK k \in JobType :
         /\ jobs' = (jobs \ {j}) \cup {k} /\ k.run = Len(runs) + 1 /\ k.at = "run"
         /\ k.task = j.task /\ k.kind = j.kind /\ k.source = j.source
  BY StartedIs
<1>2. /\ Len(runs) \in Nat /\ Len(runs') = Len(runs) + 1 /\ runs' \in Seq(RunRecord)
      /\ Len(runs') <= MaxRuns
      /\ \A r \in 1..Len(runs) : runs'[r] = runs[r]
      /\ runs'[Len(runs) + 1].task = j.task /\ runs'[Len(runs) + 1].gate = "none"
      /\ runs'[Len(runs) + 1].state = "running" /\ sent' = sent /\ stream' = stream
  BY StartedIs
<1>3. Announced' = Announced
  BY <1>2 DEF Announced
<1>4. RunsGrow
  BY <1>1, <1>2 DEF RunsGrow
<1>5. RunsOK'
  <2>1. \A r \in 1..Len(runs') : r \in 1..Len(runs) \/ r = Len(runs) + 1
    BY <1>2
  <2>2. j.task \in Announced
    BY JobIs
  <2> QED BY <1>2, <1>3, <2>1, <2>2 DEF WorkOK, RunsOK
<1>6. JobOf(k)'
  <2>1. /\ j.task \in Announced
        /\ j.kind = "direct" => j.source \in 1..Len(runs) /\ Voiced(j.task)
    BY JobIs DEF JobOf
  <2>2. Voiced(j.task) => Voiced(k.task)'
    BY <1>1, <1>4, VoicesKept
  <2>3. Len(runs) + 1 \in 1..Len(runs') /\ \A n \in 1..Len(runs) : n \in 1..Len(runs')
    BY <1>2
  <2> QED BY <1>1, <1>2, <1>3, <2>1, <2>2, <2>3 DEF JobOf, Early, Held
<1>7. \A l \in jobs : JobOf(l)'
  <2>1. \A l \in jobs : l.at \in Held => runs'[l.run] = runs[l.run]
    BY <1>2, JobIs
  <2> QED BY <1>2, <1>4, <2>1, JobKept DEF WorkOK, JobsOK
<1>8. OneEach(jobs')
  <2>1. \A l \in jobs : l.at \in Held => l.run # k.run
    BY <1>1, <1>2, JobIs
  <2>2. "run" \in Held /\ OneEach(jobs)
    BY DEF Held, WorkOK, JobsOK
  <2> QED BY <1>1, <2>1, <2>2 DEF OneEach
<1>9. LedgerOK'
  <2>1. CASE ledger' = ledger
    BY <1>2, <2>1, LedgerSame DEF WorkOK, LedgerOK
  <2>2. CASE ledger' = ReduceTaskStatus(ledger, j.task, "running", 1)
    <3>1. /\ ledger' \in Trace
          /\ \A id \in TaskIds \ {j.task} : ledger'.tasks[id] = ledger.tasks[id]
      <4>1. j.task \in TaskIds /\ "running" \in Status /\ 1 \in Stamps /\ ledger \in Trace
        BY JobIs, StandingAssumption DEF WorkOK, LedgerOK, Status
      <4> QED BY <2>2, <4>1, StatusTick
    <3> QED BY <1>2, <3>1, JobIs, LedgerStep DEF WorkOK
  <2> QED BY <2>1, <2>2 DEF StartRun
<1>10. StreamOK'
  BY <1>2, <1>4, StreamKept DEF WorkOK
<1> QED BY <1>1, <1>4, <1>5, <1>6, <1>7, <1>8, <1>9, <1>10 DEF WorkOK, JobsOK

\* A verdict is the run's own.
LEMMA EndedIs ==
  ASSUME WorkOK, NEW j \in jobs, NEW v \in Verdicts, EndRun(j, v[1], v[2])
  PROVE  /\ j.at = "run" /\ j.run \in 1..Len(runs) /\ runs[j.run].task = j.task
         /\ Len(runs) \in Nat /\ Len(runs') = Len(runs) /\ runs' \in Seq(RunRecord)
         /\ \A r \in 1..Len(runs) : r # j.run => runs'[r] = runs[r]
         /\ runs'[j.run].task = j.task /\ runs'[j.run].gate = v[1]
         /\ runs'[j.run].state = v[2] /\ runs[j.run].gate = "none"
         /\ v[1] = "failed" => v[2] = "failed"
         /\ \E k \in JobType :
              /\ jobs' = (jobs \ {j}) \cup {k} /\ k.run = j.run
              /\ k.at = "link" \/ (k.at = "report" /\ v[1] = "failed")
              /\ k.task = j.task /\ k.kind = j.kind /\ k.source = j.source
         /\ sent' = sent /\ stream' = stream /\ ledger' = ledger
<1> DEFINE capped == v[1] = "failed" /\ RejectionCap > 0 /\ Rejections(j.task) >= RejectionCap
           at == IF v[1] = "failed" /\ ~capped THEN "report" ELSE "link"
           k == [j EXCEPT !.at = at, !.capped = capped]
           new == [[runs[j.run] EXCEPT !.gate = v[1]] EXCEPT !.state = v[2]]
<1>1. /\ runs' = [runs EXCEPT ![j.run].gate = v[1], ![j.run].state = v[2]]
      /\ jobs' = (jobs \ {j}) \cup {k} /\ j.at = "run"
      /\ sent' = sent /\ stream' = stream /\ ledger' = ledger
  BY DEF EndRun, JobStep, ReactorStep, Quietly
<1>2. capped \in BOOLEAN /\ at \in {"report", "link"} /\ (at = "report" => v[1] = "failed")
  OBVIOUS
<1>3. /\ v[1] \in {"none", "passed", "failed"} /\ v[2] \in {"completed", "failed", "cancelled"}
      /\ v[1] = "failed" => v[2] = "failed"
  BY DEF Verdicts
<1> HIDE DEF capped, at
<1>4. /\ j \in JobType /\ runs \in Seq(RunRecord) /\ Len(runs) \in Nat /\ JobOf(j)
      /\ j.run \in 1..Len(runs) /\ runs[j.run].task = j.task /\ runs[j.run] \in RunRecord
  BY <1>1, JobIs DEF Held
<1>5. /\ k \in JobType /\ k.run = j.run /\ k.at = at
      /\ k.task = j.task /\ k.kind = j.kind /\ k.source = j.source
  <2>1. at \in Early \cup Held
    BY <1>2 DEF Held
  <2> QED BY <1>2, <1>4, <2>1 DEF JobType
<1>6. /\ new \in RunRecord /\ new.task = j.task /\ new.gate = v[1] /\ new.state = v[2]
  BY <1>3, <1>4 DEF RunRecord
<1>7. runs' = [runs EXCEPT ![j.run] = new]
  BY <1>1, <1>4 DEF RunRecord
<1> HIDE DEF new, k
<1>8. /\ Len(runs') = Len(runs) /\ runs' \in Seq(RunRecord) /\ runs'[j.run] = new
      /\ \A r \in 1..Len(runs) : r # j.run => runs'[r] = runs[r]
  BY <1>4, <1>6, <1>7
<1>9. runs[j.run].gate = "none"
  BY <1>1, <1>4 DEF JobOf
<1> QED BY <1>1, <1>2, <1>3, <1>4, <1>5, <1>6, <1>8, <1>9

LEMMA EndWork ==
  ASSUME WorkOK, NEW j \in jobs, NEW v \in Verdicts, EndRun(j, v[1], v[2])
  PROVE  WorkOK' /\ RunsGrow
<1>1. PICK k \in JobType :
         /\ jobs' = (jobs \ {j}) \cup {k} /\ k.run = j.run
         /\ k.at = "link" \/ (k.at = "report" /\ v[1] = "failed")
         /\ k.task = j.task /\ k.kind = j.kind /\ k.source = j.source
  BY EndedIs
<1>2. /\ j.at = "run" /\ j.run \in 1..Len(runs) /\ runs[j.run].task = j.task
      /\ Len(runs) \in Nat /\ Len(runs') = Len(runs) /\ runs' \in Seq(RunRecord)
      /\ \A r \in 1..Len(runs) : r # j.run => runs'[r] = runs[r]
      /\ runs'[j.run].task = j.task /\ runs'[j.run].gate = v[1]
      /\ runs'[j.run].state = v[2] /\ runs[j.run].gate = "none"
      /\ v[1] = "failed" => v[2] = "failed"
      /\ sent' = sent /\ stream' = stream /\ ledger' = ledger
  BY EndedIs
<1>3. Announced' = Announced
  BY <1>2 DEF Announced
<1>4. RunsGrow
  <2>1. \A r \in 1..Len(runs) : runs'[r].task = runs[r].task
            /\ (runs[r].gate = "failed" => runs'[r].gate = "failed")
    BY <1>2
  <2> QED BY <1>1, <1>2, <2>1 DEF RunsGrow
<1>5. RunsOK'
  <2>1. \A r \in 1..Len(runs) : runs'[r].task \in Announced
            /\ (runs'[r].gate = "failed" => runs'[r].state = "failed")
    BY <1>2 DEF WorkOK, RunsOK
  <2> QED BY <1>2, <1>3, <2>1 DEF WorkOK, RunsOK
<1>6. JobOf(k)'
  <2>1. /\ j.task \in Announced
        /\ j.kind = "direct" => j.source \in 1..Len(runs) /\ Voiced(j.task)
    BY JobIs DEF JobOf
  <2>2. Voiced(j.task) => Voiced(k.task)'
    BY <1>1, <1>4, VoicesKept
  <2>3. k.at \notin Early /\ k.at # "run" /\ k.at # "publish"
    BY <1>1 DEF Early
  <2> QED BY <1>1, <1>2, <1>3, <2>1, <2>2, <2>3 DEF JobOf
<1>7. \A l \in jobs \ {j} : JobOf(l)'
  <2>1. \A l \in jobs \ {j} : l.at \in Held => l.run # j.run
    BY <1>2 DEF WorkOK, JobsOK, OneEach, Held
  <2>2. \A l \in jobs \ {j} : l.at \in Held => runs'[l.run] = runs[l.run]
    BY <1>2, <2>1, JobIs
  <2> QED BY <1>2, <1>4, <2>2, JobKept DEF WorkOK, JobsOK
<1>8. OneEach(jobs')
  <2>1. "run" \in Held /\ OneEach(jobs)
    BY DEF Held, WorkOK, JobsOK
  <2> QED BY <1>1, <1>2, <2>1 DEF OneEach
<1>9. LedgerOK'
  BY <1>2, LedgerSame DEF WorkOK, LedgerOK
<1>10. StreamOK'
  BY <1>2, <1>4, StreamKept DEF WorkOK
<1> QED BY <1>1, <1>4, <1>5, <1>6, <1>7, <1>8, <1>9, <1>10 DEF WorkOK, JobsOK

LEMMA PublishWork ==
  ASSUME WorkOK, NEW j \in jobs, PublishRejection(j)
  PROVE  WorkOK' /\ RunsGrow
<1>1. runs' = runs /\ sent' = sent /\ j.at = "publish"
  BY DEF PublishRejection, JobStep, ReactorStep
<1>2. /\ runs[j.run].gate = "failed" /\ j.run \in 1..Len(runs)
      /\ runs[j.run].task = j.task /\ Len(runs) \in Nat
  BY <1>1, JobIs DEF JobOf, Held
<1>3. CASE /\ Moves(j, "link") /\ ledger' = ledger
           /\ stream' = Append(stream, Message("rejected", j.run))
  <2>1. RunsGrow /\ RunsOK' /\ JobsOK'
    BY <1>1, <1>3, MovedJobs DEF Early, Held
  <2>2. Voiced(j.task)
    BY <1>2 DEF Voiced, Settled
  <2>3. Voiced(j.task)'
    <3>1. PICK i : i = j.task
      OBVIOUS
    <3>2. Voiced(i)'
      BY <2>1, <2>2, <3>1, VoicesKept
    <3> QED BY <3>1, <3>2
  <2>4. PICK m \in MessageType : /\ m.kind = "rejected" /\ m.of = j.run
                                 /\ stream' = Append(stream, m)
    BY <1>2, <1>3 DEF Message, MessageType, MessageKinds
  <2>5. MsgOK(m)'
    BY <1>1, <1>2, <2>3, <2>4 DEF MsgOK
  <2>6. StreamOK'
    BY <1>1, <2>1, <2>4, <2>5, StreamKept DEF WorkOK
  <2>7. LedgerOK'
    BY <1>1, <1>3, LedgerSame DEF WorkOK, LedgerOK
  <2> QED BY <2>1, <2>6, <2>7 DEF WorkOK
<1>4. CASE /\ jobs' = jobs \ {j} /\ stream' = stream
           /\ ledger' = IF j.kind = "task" THEN ReduceTaskStatus(ledger, j.task, "failed", 1)
                        ELSE ledger
  <2>1. RunsGrow /\ RunsOK' /\ JobsOK'
    BY <1>1, <1>4, FewerJobs
  <2>2. StreamOK'
    BY <1>1, <1>4, <2>1, StreamKept DEF WorkOK
  <2>3. LedgerOK'
    <3>1. CASE ledger' = ledger
      BY <1>1, <3>1, LedgerSame DEF WorkOK, LedgerOK
    <3>2. CASE ledger' = ReduceTaskStatus(ledger, j.task, "failed", 1)
      <4>1. j.task \in TaskIds /\ "failed" \in Status /\ 1 \in Stamps /\ ledger \in Trace
        BY JobIs, StandingAssumption DEF WorkOK, LedgerOK, Status
      <4>2. /\ ledger' \in Trace
            /\ \A id \in TaskIds \ {j.task} : ledger'.tasks[id] = ledger.tasks[id]
        BY <3>2, <4>1, StatusTick
      <4> QED BY <1>1, <4>2, JobIs, LedgerStep DEF WorkOK
    <3> QED BY <1>4, <3>1, <3>2
  <2> QED BY <2>1, <2>2, <2>3 DEF WorkOK
<1> QED BY <1>3, <1>4 DEF PublishRejection

\* The four ways a dispatch settles.
Unsettled(j) ==
    /\ runs[j.run].state # "completed" \/ ledger.killed
    /\ ledger' = IF j.capped \/ (Broken(j) /\ j.kind = "task")
                 THEN ReduceTaskStatus(ledger, j.task, "failed", 1) ELSE ledger
    /\ jobs' = jobs \ {j}
    /\ stream' = stream
Completes(j) ==
    /\ runs[j.run].state = "completed" /\ ~ledger.killed /\ j.kind = "task"
    /\ ledger' = ReduceTaskCompleted(ledger, j.task, "completed", 1)
    /\ jobs' = (jobs \ {j}) \cup Due(ledger')
    /\ stream' = stream
Proposes(j) ==
    /\ runs[j.run].state = "completed" /\ ~ledger.killed /\ j.kind = "task"
    /\ ledger' = ReduceTaskStatus(ledger, j.task, "waiting_review", 1)
    /\ jobs' = jobs \ {j}
    /\ stream' = Append(stream, Message("proposal", j.run))
Answers(j) ==
    /\ runs[j.run].state = "completed" /\ ~ledger.killed /\ j.kind = "direct"
    /\ jobs' = jobs \ {j}
    /\ stream' = Append(stream, Message("completed", j.task))
    /\ ledger' = ledger

LEMMA SettleIs ==
  ASSUME WorkOK, NEW j \in jobs, Settle(j)
  PROVE  /\ runs' = runs /\ sent' = sent /\ j.at = "settle"
         /\ j.run \in 1..Len(runs) /\ runs[j.run].task = j.task /\ Len(runs) \in Nat
         /\ Unsettled(j) \/ Completes(j) \/ Proposes(j) \/ Answers(j)
<1>1. runs' = runs /\ sent' = sent /\ j.at = "settle"
  BY DEF Settle, JobStep, ReactorStep
<1>2. j.run \in 1..Len(runs) /\ runs[j.run].task = j.task /\ Len(runs) \in Nat
  BY <1>1, JobIs DEF Held
<1> QED BY <1>1, <1>2 DEF Settle, Unsettled, Completes, Proposes, Answers

LEMMA SettleWork ==
  ASSUME WorkOK, NEW j \in jobs, Settle(j)
  PROVE  WorkOK' /\ RunsGrow
<1>1. /\ runs' = runs /\ sent' = sent /\ j.at = "settle"
      /\ j.run \in 1..Len(runs) /\ runs[j.run].task = j.task /\ Len(runs) \in Nat
  BY SettleIs
<1>2. /\ j.task \in TaskIds /\ j.task \in Announced /\ "failed" \in Status
      /\ "waiting_review" \in Status /\ 1 \in Stamps /\ ledger \in Trace
  BY JobIs, StandingAssumption DEF WorkOK, LedgerOK, Status
<1>3. CASE Unsettled(j)
  <2>1. RunsGrow /\ RunsOK' /\ JobsOK'
    BY <1>1, <1>3, FewerJobs DEF Unsettled
  <2>2. StreamOK'
    BY <1>1, <1>3, <2>1, StreamKept DEF WorkOK, Unsettled
  <2>3. LedgerOK'
    <3>1. CASE ledger' = ledger
      BY <1>1, <3>1, LedgerSame DEF WorkOK, LedgerOK
    <3>2. CASE ledger' = ReduceTaskStatus(ledger, j.task, "failed", 1)
      <4>1. /\ ledger' \in Trace
            /\ \A id \in TaskIds \ {j.task} : ledger'.tasks[id] = ledger.tasks[id]
        BY <1>2, <3>2, StatusTick
      <4> QED BY <1>1, <1>2, <4>1, LedgerStep DEF WorkOK
    <3> QED BY <1>3, <3>1, <3>2 DEF Unsettled
  <2> QED BY <2>1, <2>2, <2>3 DEF WorkOK
<1>4. CASE Completes(j)
  <2>1. ledger' \in Trace /\ \A id \in TaskIds \ {j.task} : Lifted(ledger, ledger', id)
    BY <1>2, <1>4, CompletedTick DEF Completes
  <2>2. LedgerOK'
    BY <1>1, <1>2, <2>1, LedgerStep DEF WorkOK, Lifted
  <2>3. RunsGrow /\ RunsOK' /\ JobsOK'
    BY <1>1, <1>4, <2>2, DueJobs DEF Completes
  <2>4. StreamOK'
    BY <1>1, <1>4, <2>3, StreamKept DEF WorkOK, Completes
  <2> QED BY <2>2, <2>3, <2>4 DEF WorkOK
<1>5. CASE Proposes(j)
  <2>1. RunsGrow /\ RunsOK' /\ JobsOK'
    BY <1>1, <1>5, FewerJobs DEF Proposes
  <2>2. LedgerOK'
    <3>1. /\ ledger' \in Trace
          /\ \A id \in TaskIds \ {j.task} : ledger'.tasks[id] = ledger.tasks[id]
      BY <1>2, <1>5, StatusTick DEF Proposes
    <3> QED BY <1>1, <1>2, <3>1, LedgerStep DEF WorkOK
  <2>3. PICK m \in MessageType : /\ m.kind = "proposal" /\ m.of = j.run
                                 /\ stream' = Append(stream, m)
    BY <1>1, <1>5 DEF Message, MessageType, MessageKinds, Proposes
  <2>4. \A k \in jobs' : k.kind = "task" => k.run # j.run
    <3>1. \A k \in jobs : k.run = j.run => k.at \in Held
      BY <1>1, JobIs DEF JobOf, JobType
    <3> QED BY <1>1, <1>5, <3>1 DEF Proposes, WorkOK, JobsOK, OneEach, Held
  <2>5. MsgOK(m)'
    <3>1. Voiced(runs[m.of].task)'
      BY <1>1, <2>3, <2>4 DEF Voiced, Settled
    <3> QED BY <1>1, <2>3, <3>1 DEF MsgOK
  <2>6. StreamOK'
    BY <1>1, <2>1, <2>3, <2>5, StreamKept DEF WorkOK
  <2> QED BY <2>1, <2>2, <2>6 DEF WorkOK
<1>6. CASE Answers(j)
  <2>1. RunsGrow /\ RunsOK' /\ JobsOK'
    BY <1>1, <1>6, FewerJobs DEF Answers
  <2>2. LedgerOK'
    BY <1>1, <1>6, LedgerSame DEF WorkOK, LedgerOK, Answers
  <2>3. PICK m \in MessageType : /\ m.kind = "completed" /\ m.of = j.task
                                 /\ stream' = Append(stream, m)
    BY <1>2, <1>6, TicksAreNats DEF Message, MessageType, MessageKinds, Answers, Ticks
  <2>4. Voiced(m.of)
    BY <1>6, <2>3, JobIs DEF JobOf, Answers
  <2>5. Voiced(m.of)'
    BY <2>1, <2>4, VoicesKept
  <2>6. m.of \in Announced'
    BY <1>1, <1>2, <2>3 DEF Announced
  <2>7. MsgOK(m)'
    BY <2>3, <2>5, <2>6 DEF MsgOK
  <2>8. StreamOK'
    BY <1>1, <2>1, <2>3, <2>7, StreamKept DEF WorkOK
  <2> QED BY <2>1, <2>2, <2>8 DEF WorkOK
<1> QED BY <1>3, <1>4, <1>5, <1>6, SettleIs

LEMMA RunWork ==
  ASSUME WorkOK, NEW j \in jobs, Run(j)
  PROVE  WorkOK' /\ RunsGrow
BY QuietWork, StartWork, EndWork, PublishWork, SettleWork DEF Run

LEMMA ApplyWork ==
  ASSUME WorkOK, Apply
  PROVE  WorkOK' /\ RunsGrow
BY PlanWork, ReadyWork, CompletedWork, CloseWork, ReactionWork, StandingAssumption DEF Apply

LEMMA OutsideWork ==
  ASSUME WorkOK, OperatorKills \/ ReactorDies \/ ReactorStarts
  PROVE  WorkOK'
<1>1. runs' = runs /\ sent' = sent /\ jobs' \subseteq jobs
  BY DEF OperatorKills, ReactorDies, ReactorStarts, work
<1>2. RunsGrow /\ RunsOK' /\ JobsOK'
  BY <1>1, FewerJobs
<1>3. LedgerOK'
  <2>1. CASE ledger' = ledger
    BY <1>1, <2>1, LedgerSame DEF WorkOK, LedgerOK
  <2>2. CASE ledger' = MarkEnergySeedPublished(ledger)
    BY <1>1, <2>2, MarkTick, LedgerSame DEF WorkOK, LedgerOK
  <2> QED BY <2>1, <2>2 DEF OperatorKills, ReactorDies, ReactorStarts
<1>4. StreamOK'
  <2>1. CASE stream' = stream
    BY <1>1, <1>2, <2>1, StreamKept DEF WorkOK
  <2>2. CASE stream' = Append(stream, Message("kill", 0))
    <3>1. PICK m \in MessageType : m.kind = "kill" /\ stream' = Append(stream, m)
      BY <2>2 DEF Message, MessageType, MessageKinds
    <3>2. MsgOK(m)'
      BY <3>1 DEF MsgOK
    <3> QED BY <1>1, <1>2, <3>1, <3>2, StreamKept DEF WorkOK
  <2> QED BY <2>1, <2>2 DEF OperatorKills, ReactorDies, ReactorStarts
<1> QED BY <1>2, <1>3, <1>4 DEF WorkOK

LEMMA WorkSame ==
  ASSUME WorkOK, UNCHANGED <<ledger, runs, jobs, stream, sent>>
  PROVE  WorkOK'
<1>1. RunsGrow /\ RunsOK' /\ JobsOK'
  BY FewerJobs
<1>2. LedgerOK'
  BY LedgerSame DEF WorkOK, LedgerOK
<1>3. StreamOK'
  BY <1>1, StreamKept DEF WorkOK
<1> QED BY <1>1, <1>2, <1>3 DEF WorkOK

LEMMA WorkStep ==
  ASSUME CuesOK, WorkOK, [TickNext]_tickVars
  PROVE  WorkOK'
<1>1. CASE UNCHANGED tickVars
  BY <1>1, WorkSame DEF tickVars, work
<1> QED BY <1>1, InvokeWork, ApplyWork, RunWork, OutsideWork DEF TickNext

LEMMA AttributedInit ==
  ASSUME TickInit
  PROVE  CuesOK /\ WorkOK
<1>1. /\ legacy.past \subseteq Ticks /\ legacy.trace \in Trace /\ legacy.origin \in Origins
      /\ legacy.past # {} => legacy.origin # NoOrigin
      /\ Rows(legacy.trace) \subseteq legacy.past
      /\ legacy.origin.kind = "cue" => \A i \in Ticks : legacy.origin.invocation <= i
  BY LegacyAssumption DEF TickInit
<1>2. sent = UNION {{Said(Steps(i)[k], i) : k \in 1..Len(Steps(i))} : i \in legacy.past}
  BY DEF TickInit
<1>3. \A e \in sent : \E i \in legacy.past : \E k \in 1..Len(Steps(i)) : e = Said(Steps(i)[k], i)
  BY <1>2
<1>4. \A i \in legacy.past : \A k \in 1..Len(Steps(i)) : Said(Steps(i)[k], i) \in sent
  BY <1>2
<1>5. \A i \in Ticks : recorded[i] = IF i \in legacy.past THEN Len(Steps(i)) + 1 ELSE 0
  BY DEF TickInit
<1>6. \A i \in Ticks : /\ cue[i].pc = IF i \in legacy.past THEN "ended" ELSE "idle"
                       /\ cue[i].at = 1
  BY DEF TickInit
<1>7. CueTypes
  <2>1. cue \in [Ticks -> Invocation]
    <3>1. \A i \in Ticks : [pc |-> IF i \in legacy.past THEN "ended" ELSE "idle",
                            first |-> FALSE, saw |-> {}, at |-> 1] \in Invocation
      BY DEF Invocation, Pcs, Before
    <3> QED BY <3>1 DEF TickInit
  <2>2. recorded \in [Ticks -> Nat]
    BY StepsAre DEF TickInit
  <2>3. sent \subseteq SentLines
    <3>1. \A i \in legacy.past : \A k \in 1..Len(Steps(i)) : Said(Steps(i)[k], i) \in SentLines
      BY <1>1, StepsAre DEF SentLines
    <3> QED BY <1>3, <3>1
  <2> QED BY <1>1, <2>1, <2>2, <2>3 DEF CueTypes, TickInit
<1>8. \A i \in Ticks : CueOf(i)
  <2> SUFFICES ASSUME NEW i \in Ticks PROVE CueOf(i)
    OBVIOUS
  <2>1. CASE i \in legacy.past
    <3>1. \A k \in 1..(recorded[i] - 1) : Said(Steps(i)[k], i) \in sent
      BY <1>4, <1>5, <2>1, StepsAre
    <3> QED BY <1>6, <2>1, <3>1 DEF CueOf, Before
  <2>2. CASE i \notin legacy.past
    <3>1. 1..(recorded[i] - 1) = {}
      BY <1>5, <2>2
    <3> QED BY <1>5, <1>6, <2>2, <3>1 DEF CueOf, Before
  <2> QED BY <2>1, <2>2
<1>9. SentOK
  <2>1. \A e \in sent : e.task \in legacy.past
    BY <1>3, SaidIs
  <2>2. \A i \in legacy.past : recorded[i] > 0
    BY <1>1, <1>5, StepsAre
  <2>3. sent # {} => origin # NoOrigin
    BY <1>1, <2>1 DEF TickInit
  <2> QED BY <2>1, <2>2, <2>3 DEF SentOK
<1>10. OriginOK
  BY <1>1, <1>6 DEF OriginOK, TickInit
<1>11. LedgerOK
  <2>1. \A i \in legacy.past : i \in Announced
    <3>1. \A i \in legacy.past : 1 \in 1..Len(Steps(i)) /\ 2 \in 1..Len(Steps(i))
      BY <1>1, StepsAre
    <3>2. \A i \in legacy.past : Said("ingress", i) \in sent /\ Said("plan", i) \in sent
      BY <1>1, <1>4, <3>1, StepsAre
    <3> QED BY <1>1, <3>2 DEF Announced
  <2> QED BY <1>1, <2>1 DEF LedgerOK, TickInit
<1>12. RunsOK /\ JobsOK /\ StreamOK
  BY StandingAssumption DEF TickInit, RunsOK, JobsOK, OneEach, StreamOK, Messages
<1> QED BY <1>7, <1>8, <1>9, <1>10, <1>11, <1>12 DEF CuesOK, WorkOK

LEMMA AlwaysAttributed == TickSpec => [](CuesOK /\ WorkOK)
<1>1. CuesOK /\ WorkOK /\ [TickNext]_tickVars => (CuesOK /\ WorkOK)'
  BY CuesStep, WorkStep
<1> QED BY <1>1, AttributedInit, PTL DEF TickSpec

LEMMA AttributedEvidence ==
  ASSUME CuesOK, WorkOK
  PROVE  EvidenceFirst
<1>1. /\ Disk.invocations = {i \in Ticks : recorded[i] > 0} /\ Disk.origin = origin
  BY DEF Disk
<1>2. ASSUME NEW e \in sent
      PROVE  /\ e.task \in Ingresses(Disk) /\ recorded[e.task] > 0
             /\ Attribution(Disk, e.task) # "unknown"
  <2>1. recorded[e.task] > 0 /\ origin # NoOrigin /\ e.task \in Ticks
    BY <1>2, SaidIs DEF CuesOK, SentOK, CueTypes, SentLines
  <2>2. origin.kind \in {"cue", "manual", "fork", "other"}
    BY <2>1 DEF CuesOK, CueTypes, Origins
  <2>3. e.task \in Ingresses(Disk)
    BY <1>1, <2>1 DEF Ingresses
  <2>4. Attribution(Disk, e.task) # "unknown"
    BY <1>1, <2>2 DEF Attribution
  <2> QED BY <2>1, <2>3, <2>4
<1>3. ASSUME NEW i \in Ticks, Registered(ledger.tasks[i])
      PROVE  recorded[i] > 0 /\ {Said("ingress", i), Said("plan", i)} \subseteq sent
  <2>1. i \in Rows(ledger)
    BY <1>3 DEF Registered, Rows, Ticks
  <2>2. {Said("ingress", i), Said("plan", i)} \subseteq sent
    BY <2>1 DEF WorkOK, LedgerOK, Announced
  <2>3. recorded[Said("ingress", i).task] > 0
    BY <2>2 DEF CuesOK, SentOK
  <2> QED BY <2>2, <2>3, SaidIs
<1>4. \A i \in Ticks : \A k \in 1..(recorded[i] - 1) : Said(Steps(i)[k], i) \in sent
  BY DEF CuesOK, CueOf
<1>5. ASSUME origin.kind = "cue", NEW i \in Ticks, Attribution(Disk, i) = "origin",
             NEW k \in Ticks, k < i
      PROVE  cue[k].pc = "idle"
  <2>1. origin.invocation = i
    BY <1>1, <1>5 DEF Attribution
  <2>2. i <= k /\ i \in Nat /\ k \in Nat
    BY <1>5, <2>1, TicksAreNats DEF CuesOK, OriginOK
  <2> QED BY <1>5, <2>2
<1> QED BY <1>2, <1>3, <1>4, <1>5 DEF EvidenceFirst

\* Nothing of an invocation is on the bus or in the ledger before its record is
\* kept and the trail's origin settled (EvidenceFirst).
THEOREM EvidencePrecedes == TickSpec => []EvidenceFirst
BY AlwaysAttributed, AttributedEvidence, PTL

-----------------------------------------------------------------------------
(* A tick that no kick overtook: its dispatch, its run and its honey entry   *)
(* follow its status                                                         *)

Waits(i) == WaitsIn(ledger, i)
TaskJobs(i) == {j \in jobs : j.kind = "task" /\ j.task = i}
HasRun(i) == \E r \in 1..Len(runs) : runs[r].task = i

\* While its own dispatch holds a run that is not rejected, nothing else of the
\* tick was said; what waits for honey is ready, and not dispatched.
Tame(i) ==
    /\ StatusOf(i) \in Unstarted => TaskJobs(i) = {} /\ ~Waits(i)
    /\ StatusOf(i) \in Unstarted \cup {"ready"} => ~HasRun(i)
    /\ \A j \in TaskJobs(i) :
        /\ j.at \in Early => StatusOf(i) = "ready" /\ ~Waits(i)
        /\ j.at \in Held /\ runs[j.run].gate # "failed" =>
              StatusOf(i) = "running" /\ ~Voiced(i)
    /\ Waits(i) => StatusOf(i) = "ready" /\ TaskJobs(i) = {}

TameOK == ~ledger.killed => \A i \in Ticks \ overtaken : Tame(i)

\* No run of the task starts, ends or changes hands.
RunsStay(i) ==
    /\ Len(runs) \in Nat /\ Len(runs') \in Nat /\ Len(runs) <= Len(runs')
    /\ \A r \in 1..Len(runs) :
          /\ runs'[r].task = runs[r].task
          /\ runs[r].task = i => runs'[r] = runs[r]
    /\ \A r \in 1..Len(runs') : r \notin 1..Len(runs) => runs'[r].task # i

LEMMA RunsStayHere ==
  ASSUME WorkOK, runs' = runs, NEW i
  PROVE  RunsStay(i) /\ (HasRun(i)' <=> HasRun(i))
<1>1. Len(runs) \in Nat
  BY DEF WorkOK, RunsOK
<1> QED BY <1>1 DEF RunsStay, HasRun

\* Whose dispatch stays has said nothing new.
LEMMA VoiceSame ==
  ASSUME WorkOK, NEW i \in Ticks, RunsStay(i), TaskJobs(i) \subseteq TaskJobs(i)', Voiced(i)'
  PROVE  Voiced(i)
<1>1. PICK r \in 1..Len(runs') : runs'[r].task = i /\ Settled(r)'
  BY DEF Voiced
<1>2. r \in 1..Len(runs) /\ runs[r].task = i /\ runs'[r] = runs[r] /\ r # 0
  BY <1>1 DEF RunsStay
<1>3. CASE runs[r].gate = "failed"
  BY <1>2, <1>3 DEF Voiced, Settled
<1>4. CASE runs[r].gate # "failed"
  <2>1. \A j \in jobs' : j.kind = "task" => j.run # r
    BY <1>1, <1>2, <1>4 DEF Settled
  <2>2. ASSUME NEW j \in jobs, j.kind = "task", j.run = r PROVE FALSE
    <3>1. JobOf(j) /\ j.at \in Early \cup Held
      BY JobIs DEF JobType
    <3>2. j.task = i
      BY <1>2, <2>2, <3>1 DEF JobOf
    <3>3. j \in TaskJobs(i)
      BY <2>2, <3>2 DEF TaskJobs
    <3>4. j \in TaskJobs(i)'
      BY <3>3
    <3> QED BY <2>1, <2>2, <3>4 DEF TaskJobs
  <2> QED BY <1>2, <2>2 DEF Voiced, Settled
<1> QED BY <1>3, <1>4

\* A step that concerns other tasks.
LEMMA TameQuiet ==
  ASSUME WorkOK, NEW i \in Ticks, Tame(i), RunsStay(i), TaskJobs(i)' = TaskJobs(i),
         ledger'.tasks[i].status = ledger.tasks[i].status,
         WaitsIn(ledger', i) <=> WaitsIn(ledger, i)
  PROVE  Tame(i)'
<1>1. StatusOf(i)' = StatusOf(i) /\ (Waits(i)' <=> Waits(i))
  BY DEF StatusOf, Waits
<1>2. HasRun(i)' => HasRun(i)
  BY DEF HasRun, RunsStay
<1>3. Voiced(i)' => Voiced(i)
  BY VoiceSame
<1>4. \A j \in TaskJobs(i) : j.at \in Held => runs'[j.run] = runs[j.run]
  <2>1. \A j \in TaskJobs(i) : j.at \in Held => j.run \in 1..Len(runs) /\ runs[j.run].task = i
    BY JobIs DEF TaskJobs
  <2> QED BY <2>1 DEF RunsStay
<1> QED BY <1>1, <1>2, <1>3, <1>4 DEF Tame

\* A task under way whose dispatch, if any, holds a rejected run.
LEMMA TameDone ==
  ASSUME NEW i, StatusOf(i)' \notin Unstarted \cup {"ready"}, ~Waits(i)',
         \A j \in TaskJobs(i)' : /\ j.at \notin Early
                                 /\ j.at \in Held => runs'[j.run].gate = "failed"
  PROVE  Tame(i)'
BY DEF Tame

\* A running task whose dispatch has not spoken.
LEMMA TameRunning ==
  ASSUME NEW i, StatusOf(i)' = "running", ~Waits(i)', ~Voiced(i)',
         \A j \in TaskJobs(i)' : j.at \notin Early
  PROVE  Tame(i)'
BY DEF Tame, Unstarted

\* A task without a dispatch.
LEMMA TameFree ==
  ASSUME NEW i, Tame(i), TaskJobs(i)' = {}, HasRun(i)' => HasRun(i),
         ledger'.tasks[i].status = ledger.tasks[i].status,
         WaitsIn(ledger', i) => WaitsIn(ledger, i)
  PROVE  Tame(i)'
BY DEF Tame, StatusOf, Waits

\* Who spoke is under way, and its own dispatch is at most a rejected one.
LEMMA TameSpoken ==
  ASSUME WorkOK, NEW i \in Ticks, Tame(i), Voiced(i)
  PROVE  /\ StatusOf(i) \notin Unstarted \cup {"ready"} /\ ~Waits(i)
         /\ \A j \in TaskJobs(i) : j.at \in Held /\ j.at \notin Early /\ runs[j.run].gate = "failed"
<1>1. HasRun(i)
  BY DEF Voiced, HasRun
<1>2. \A j \in TaskJobs(i) : j.at \in Early \cup Held
  BY JobIs DEF TaskJobs, JobType
<1> QED BY <1>1, <1>2 DEF Tame

LEMMA OneTaskJob ==
  ASSUME WorkOK, NEW j \in jobs
  PROVE  j.kind = "task" => TaskJobs(j.task) = {j}
BY DEF WorkOK, JobsOK, OneEach, TaskJobs

\* A dispatch ends.
LEMMA TameDrop ==
  ASSUME WorkOK, NEW i \in Ticks, Tame(i), NEW j \in jobs, jobs' = jobs \ {j}, runs' = runs,
         ledger'.tasks[i].status = ledger.tasks[i].status,
         WaitsIn(ledger', i) <=> WaitsIn(ledger, i)
  PROVE  Tame(i)'
<1>1. RunsStay(i) /\ (HasRun(i)' <=> HasRun(i))
  BY RunsStayHere
<1>2. CASE j.kind = "task" /\ j.task = i
  <2>1. TaskJobs(i)' = {}
    BY <1>2, OneTaskJob DEF TaskJobs
  <2> QED BY <1>1, <2>1, TameFree
<1>3. CASE ~(j.kind = "task" /\ j.task = i)
  <2>1. TaskJobs(i)' = TaskJobs(i)
    BY <1>3 DEF TaskJobs
  <2> QED BY <1>1, <2>1, TameQuiet
<1> QED BY <1>2, <1>3

\* A dispatch moves on, run in hand or none.
LEMMA TameMoved ==
  ASSUME WorkOK, NEW i \in Ticks, Tame(i), NEW j \in jobs, NEW at \in Early \cup Held,
         Moves(j, at), at \in Early <=> j.at \in Early, runs' = runs,
         ledger'.tasks[i].status = ledger.tasks[i].status,
         WaitsIn(ledger', i) <=> WaitsIn(ledger, i)
  PROVE  Tame(i)'
<1> DEFINE k == [j EXCEPT !.at = at]
<1>1. RunsStay(i) /\ (HasRun(i)' <=> HasRun(i))
  BY RunsStayHere
<1>2. /\ k.at = at /\ k.run = j.run /\ k.kind = j.kind /\ k.task = j.task
      /\ j.at \in Early \cup Held
  BY JobIs DEF JobType
<1>3. jobs' = (jobs \ {j}) \cup {k}
  BY DEF Moves
<1> HIDE DEF k
<1>4. CASE ~(j.kind = "task" /\ j.task = i)
  <2>1. TaskJobs(i)' = TaskJobs(i)
    BY <1>2, <1>3, <1>4 DEF TaskJobs
  <2> QED BY <1>1, <2>1, TameQuiet
<1>5. CASE j.kind = "task" /\ j.task = i
  <2>1. TaskJobs(i) = {j} /\ TaskJobs(i)' = {k}
    BY <1>2, <1>3, <1>5, OneTaskJob DEF TaskJobs
  <2>2. Early \cap Held = {}
    BY DEF Early, Held
  <2>3. StatusOf(i)' = StatusOf(i) /\ (Waits(i)' <=> Waits(i))
    BY DEF StatusOf, Waits
  <2>4. ASSUME at \in Held, Voiced(i)' PROVE Voiced(i)
    <3>1. PICK r \in 1..Len(runs') : runs'[r].task = i /\ Settled(r)'
      BY <2>4 DEF Voiced
    <3>2. \A l \in jobs : l.kind = "task" /\ l.run = r =>
             \E m \in jobs' : m.kind = "task" /\ m.run = r
      BY <1>2, <1>3
    <3>3. Settled(r)
      BY <3>1, <3>2 DEF Settled
    <3> QED BY <3>1, <3>3 DEF Voiced
  <2> QED BY <1>1, <1>2, <2>1, <2>2, <2>3, <2>4 DEF Tame
<1> QED BY <1>4, <1>5

\* A task that had not started may be made ready, and is dispatched at once.
LEMMA TameDue ==
  ASSUME WorkOK, NEW i \in Ticks, Tame(i), runs' = runs, NEW J,
         jobs' = (jobs \ J) \cup Due(ledger'),
         \A j \in J : ~(j.kind = "task" /\ j.task = i),
         WaitsIn(ledger', i) <=> WaitsIn(ledger, i),
         \/ ledger'.tasks[i].status = ledger.tasks[i].status
         \/ /\ ledger.tasks[i].status \in Unstarted
            /\ ledger'.tasks[i].status \in Unstarted \cup {"ready"}
  PROVE  Tame(i)'
<1>1. RunsStay(i) /\ (HasRun(i)' <=> HasRun(i))
  BY RunsStayHere
<1>2. \A k \in Due(ledger') :
         /\ k.kind = "task" /\ k.at = "due" /\ ledger'.tasks[k.task].status = "ready"
         /\ ledger.tasks[k.task].status # "ready"
  BY DueIs
<1>3. "ready" \notin Unstarted /\ "due" \notin Held
  BY DEF Unstarted, Held
<1>4. CASE StatusOf(i)' # "ready" \/ StatusOf(i) = "ready"
  <2>1. \A k \in Due(ledger') : k.task # i
    BY <1>2, <1>3, <1>4 DEF StatusOf
  <2>2. TaskJobs(i)' = TaskJobs(i)
    BY <2>1 DEF TaskJobs
  <2>3. CASE StatusOf(i)' = StatusOf(i)
    BY <1>1, <2>2, <2>3, TameQuiet DEF StatusOf
  <2>4. CASE StatusOf(i) \in Unstarted /\ StatusOf(i)' \in Unstarted
    BY <1>1, <2>2, <2>4 DEF Tame, Waits
  <2> QED BY <1>3, <1>4, <2>3, <2>4 DEF StatusOf
<1>5. CASE StatusOf(i) \in Unstarted /\ StatusOf(i)' = "ready"
  <2>1. TaskJobs(i) = {} /\ ~Waits(i)'
    BY <1>5 DEF Tame, Waits
  <2>2. \A k \in TaskJobs(i)' : k \in Due(ledger')
    BY <2>1 DEF TaskJobs
  <2>3. \A k \in TaskJobs(i)' : k.at \notin Held
    BY <1>2, <1>3, <2>2
  <2> QED BY <1>1, <1>3, <1>5, <2>1, <2>3 DEF Tame
<1> QED BY <1>4, <1>5 DEF StatusOf

\* Each step keeps them.  First the invocations, whose stipend skips what waits.
LEMMA TameStipend ==
  ASSUME WorkOK, NEW i \in Ticks, Tame(i), runs' = runs, jobs' = jobs,
         ledger' = ReduceEnergyStipend(ledger, DefaultBudget)
  PROVE  Tame(i)' /\ ledger'.killed = ledger.killed
<1>1. /\ ~WaitsIn(ledger', i) /\ ledger'.killed = ledger.killed
      /\ ledger'.tasks[i].status = IF ledger.tasks[i].status = "ready" /\ WaitsIn(ledger, i)
                                   THEN "skipped" ELSE ledger.tasks[i].status
  BY StipendTick, BudgetAssumption DEF WorkOK, LedgerOK, Ticks, Holds
<1>2. TaskJobs(i)' = TaskJobs(i)
  BY DEF TaskJobs
<1>3. CASE Waits(i)
  <2>1. TaskJobs(i)' = {} /\ StatusOf(i)' = "skipped" /\ ~Waits(i)'
    BY <1>1, <1>2, <1>3 DEF Tame, Waits, StatusOf
  <2> QED BY <1>1, <2>1, TameDone DEF Unstarted
<1>4. CASE ~Waits(i)
  <2>1. RunsStay(i) /\ ledger'.tasks[i].status = ledger.tasks[i].status
    BY <1>1, <1>4, RunsStayHere DEF Waits
  <2> QED BY <1>1, <1>2, <1>4, <2>1, TameQuiet DEF Waits
<1> QED BY <1>3, <1>4

\* The seed, its observation and a step that leaves the ledger alone.
LEMMA TameAside ==
  ASSUME WorkOK, NEW i \in Ticks, Tame(i), runs' = runs, jobs' = jobs,
         ledger'.tasks = ledger.tasks, ledger'.pending = ledger.pending
  PROVE  Tame(i)'
<1>1. RunsStay(i) /\ TaskJobs(i)' = TaskJobs(i)
  BY RunsStayHere DEF TaskJobs
<1>2. WaitsIn(ledger', i) <=> WaitsIn(ledger, i)
  BY SameWaits
<1> QED BY <1>1, <1>2, TameQuiet

\* What the invocations do to the ledger.
LEMMA InvokeLedger ==
  ASSUME WorkOK, NEW k \in Ticks, Invoke(k)
  PROVE  /\ \/ ledger' = ReduceEnergyStipend(ledger, DefaultBudget)
            \/ ledger'.tasks = ledger.tasks /\ ledger'.pending = ledger.pending
         /\ ledger'.killed = ledger.killed
         /\ jobs' = jobs /\ runs' = runs /\ overtaken' = overtaken
<1>1. jobs' = jobs /\ runs' = runs /\ overtaken' = overtaken
  BY DEF Invoke, StartTick, CheckTrail, CheckLiveRuns, Seed, PublishSeed, Fund, RecordInvocation,
     SendNext, MarkSent, RepublishInvocation, InvokerDies, CueStep, work
<1>2. \/ ledger' = ledger
      \/ ledger' = EnsureEnergySeed(ledger)
      \/ ledger' = MarkEnergySeedPublished(ledger)
      \/ ledger' = ReduceEnergyStipend(ledger, DefaultBudget)
  BY DEF Invoke, StartTick, CheckTrail, CheckLiveRuns, Seed, PublishSeed, Fund, RecordInvocation,
     SendNext, MarkSent, RepublishInvocation, InvokerDies
<1>3. CASE ledger' = ledger
  BY <1>1, <1>3
<1>4. CASE ledger' = EnsureEnergySeed(ledger)
  BY <1>1, <1>4 DEF EnsureEnergySeed, WorkOK, LedgerOK, Trace
<1>5. CASE ledger' = MarkEnergySeedPublished(ledger)
  BY <1>1, <1>5, MarkTick DEF WorkOK, LedgerOK
<1>6. CASE ledger' = ReduceEnergyStipend(ledger, DefaultBudget)
  BY <1>1, <1>6, StipendTick, BudgetAssumption DEF WorkOK, LedgerOK, Holds
<1> QED BY <1>2, <1>3, <1>4, <1>5, <1>6

LEMMA InvokeTame ==
  ASSUME WorkOK, TameOK, NEW k \in Ticks, Invoke(k)
  PROVE  TameOK'
<1>1. /\ ledger'.killed = ledger.killed
      /\ jobs' = jobs /\ runs' = runs /\ overtaken' = overtaken
  BY InvokeLedger
<1>2. SUFFICES ASSUME ~ledger'.killed, NEW i \in Ticks \ overtaken PROVE Tame(i)'
  BY <1>1 DEF TameOK
<1>3. Tame(i)
  BY <1>1, <1>2 DEF TameOK
<1> QED BY <1>1, <1>3, InvokeLedger, TameStipend, TameAside

\* Then what the reactor applies.
LEMMA PlanTame ==
  ASSUME WorkOK, TameOK, ApplyPlan
  PROVE  TameOK'
<1> DEFINE m == Head(stream).of
           plan == [k \in {m} |-> [phase |-> "work", deps |-> {}, bee |-> Builder]]
<1>1. /\ ledger' = ReduceTaskPlan(ledger, plan, FALSE, FALSE, m)
      /\ jobs' = jobs \cup Due(ledger') /\ ApplyNext("plan")
  BY DEF ApplyPlan
<1>2. m \in TaskIds /\ Builder \in Bees /\ m \in Stamps /\ runs' = runs
  BY <1>1, HeadOf, StandingAssumption DEF Ticks
<1>3. overtaken' = overtaken
  BY <1>1 DEF ApplyNext
<1> HIDE DEF m
<1>4. /\ QueueKept(ledger, ledger') /\ Holds(ledger, ledger')
      /\ \A id \in TaskIds \ {m} : Lifted(ledger, ledger', id)
      /\ \/ Registered(ledger.tasks[m]) /\ Lifted(ledger, ledger', m)
         \/ ~Registered(ledger.tasks[m]) /\ ledger'.tasks[m].status \in {"planned", "ready"}
  <2>1. plan = [k \in {m} |-> [phase |-> "work", deps |-> {}, bee |-> Builder]]
    BY DEF plan
  <2>2. ledger \in Trace
    BY DEF WorkOK, LedgerOK
  <2> HIDE DEF plan
  <2> QED BY <1>1, <1>2, <2>1, <2>2, PlanTick
<1>5. SUFFICES ASSUME ~ledger'.killed, NEW i \in Ticks \ overtaken PROVE Tame(i)'
  BY <1>3 DEF TameOK
<1>6. Tame(i) /\ i \in TaskIds /\ i # 0
  BY <1>4, <1>5, TicksAreNats DEF TameOK, Holds, Ticks
<1>7. \/ ledger'.tasks[i].status = ledger.tasks[i].status
      \/ /\ ledger.tasks[i].status \in Unstarted
         /\ ledger'.tasks[i].status \in Unstarted \cup {"ready"}
  BY <1>4, <1>6 DEF Lifted, Registered, Unstarted
<1>8. WaitsIn(ledger', i) <=> WaitsIn(ledger, i)
  BY <1>4, SameWaits DEF QueueKept
<1>9. PICK J : J = {}
  OBVIOUS
<1>10. jobs' = (jobs \ J) \cup Due(ledger')
  BY <1>1, <1>9
<1> QED BY <1>2, <1>6, <1>7, <1>8, <1>9, <1>10, TameDue

LEMMA ReadyTame ==
  ASSUME WorkOK, TameOK, ApplyReady
  PROVE  TameOK'
<1> DEFINE m == Head(stream).of
<1>1. /\ ledger' = ReduceTaskReady(ledger, m, Builder)
      /\ jobs' = jobs \cup Due(ledger') /\ ApplyNext("ready")
  BY DEF ApplyReady
<1>2. m \in TaskIds /\ Builder \in Bees /\ runs' = runs /\ ledger \in Trace
  BY <1>1, HeadOf DEF WorkOK, LedgerOK
<1>3. overtaken' = IF LateKick(m) THEN overtaken \cup {m} ELSE overtaken
  BY <1>1 DEF ApplyNext
<1> HIDE DEF m
<1>4. /\ ledger'.pending = ledger.pending /\ Holds(ledger, ledger')
      /\ \A id \in TaskIds \ {m} : ledger'.tasks[id] = ledger.tasks[id]
      /\ ~Registered(ledger.tasks[m]) =>
            ledger'.tasks[m].status \in {"absent", ledger.tasks[m].status}
      /\ ledger.tasks[m].status = "planned" => ledger'.tasks[m].status \in {"planned", "ready"}
      /\ \/ ledger.tasks[m].status \in {"absent", "unset", "planned", "failed", "running"}
         \/ ledger'.tasks[m] = ledger.tasks[m]
  BY <1>1, <1>2, ReadyTick
<1>5. SUFFICES ASSUME ~ledger'.killed, NEW i \in Ticks \ overtaken' PROVE Tame(i)'
  BY DEF TameOK
<1>6. Tame(i) /\ i \in TaskIds /\ (m = i => ledger.tasks[i].status \notin {"failed", "running"})
  BY <1>3, <1>4, <1>5 DEF TameOK, Holds, Ticks, LateKick
<1>7. \/ ledger'.tasks[i].status = ledger.tasks[i].status
      \/ /\ ledger.tasks[i].status \in Unstarted
         /\ ledger'.tasks[i].status \in Unstarted \cup {"ready"}
  BY <1>4, <1>6 DEF Registered, Unstarted
<1>8. WaitsIn(ledger', i) <=> WaitsIn(ledger, i)
  BY <1>4, SameWaits
<1>9. PICK J : J = {}
  OBVIOUS
<1>10. jobs' = (jobs \ J) \cup Due(ledger')
  BY <1>1, <1>9
<1> QED BY <1>2, <1>6, <1>7, <1>8, <1>9, <1>10, TameDue

\* A completion is of a task that spoke, or that its dispatch just let go.
LEMMA CompletesTame ==
  ASSUME WorkOK, NEW i \in Ticks, Tame(i), NEW m \in TaskIds, runs' = runs, NEW J,
         ledger' = ReduceTaskCompleted(ledger, m, "completed", 1), ~ledger'.killed,
         jobs' = (jobs \ J) \cup Due(ledger'),
         i # m => \A j \in J : ~(j.kind = "task" /\ j.task = i),
         i = m => \/ Voiced(i)
                  \/ TaskJobs(i) # {} /\ TaskJobs(i) \subseteq J
  PROVE  Tame(i)'
<1>1. /\ ledger'.pending = ledger.pending /\ Holds(ledger, ledger')
      /\ \A id \in TaskIds \ {m} : Lifted(ledger, ledger', id)
      /\ ~ledger.killed => ledger'.tasks[m].status = "completed"
  BY CompletedTick, StandingAssumption DEF WorkOK, LedgerOK
<1>2. ~ledger.killed /\ i # 0 /\ i \in TaskIds /\ (WaitsIn(ledger', i) <=> WaitsIn(ledger, i))
  BY <1>1, SameWaits, TicksAreNats DEF Holds, Ticks
<1>3. CASE i # m
  <2>1. \/ ledger'.tasks[i].status = ledger.tasks[i].status
        \/ /\ ledger.tasks[i].status \in Unstarted
           /\ ledger'.tasks[i].status \in Unstarted \cup {"ready"}
    BY <1>1, <1>2, <1>3 DEF Lifted, Unstarted
  <2> QED BY <1>2, <1>3, <2>1, TameDue
<1>4. CASE i = m
  <2>1. StatusOf(i)' = "completed" /\ \A k \in Due(ledger') : k.task # i
    <3>1. \A k \in Due(ledger') : ledger'.tasks[k.task].status = "ready"
      BY DueIs
    <3>2. ledger'.tasks[i].status = "completed"
      BY <1>1, <1>2, <1>4
    <3> QED BY <3>1, <3>2 DEF StatusOf
  <2>2. TaskJobs(i)' \subseteq TaskJobs(i) \ J
    BY <2>1 DEF TaskJobs
  <2>3. ~Waits(i) /\ \A j \in TaskJobs(i)' : j.at \notin Early /\ runs[j.run].gate = "failed"
    BY <1>4, <2>2, TameSpoken DEF Tame
  <2> QED BY <1>2, <2>1, <2>3, TameDone DEF Unstarted, Waits
<1> QED BY <1>3, <1>4

LEMMA CompletedTame ==
  ASSUME WorkOK, TameOK, ApplyCompleted
  PROVE  TameOK'
<1> DEFINE m == Head(stream).of
<1>1. /\ ledger' = ReduceTaskCompleted(ledger, m, "completed", 1)
      /\ jobs' = jobs \cup Due(ledger') /\ ApplyNext("completed")
  BY DEF ApplyCompleted
<1>2. m \in TaskIds /\ runs' = runs /\ Voiced(m) /\ overtaken' = overtaken
  <2>1. MsgOK(Head(stream)) /\ Head(stream).kind = "completed"
    BY <1>1, HeadOf
  <2>2. overtaken' = overtaken
    BY <1>1 DEF ApplyNext
  <2> QED BY <1>1, <2>1, <2>2, HeadOf DEF MsgOK
<1> HIDE DEF m
<1>3. ledger'.killed = ledger.killed
  BY <1>1, <1>2, CompletedTick, StandingAssumption DEF WorkOK, LedgerOK, Holds
<1>4. SUFFICES ASSUME ~ledger'.killed, NEW i \in Ticks \ overtaken PROVE Tame(i)'
  BY <1>2 DEF TameOK
<1>5. Tame(i)
  BY <1>3, <1>4 DEF TameOK
<1>6. PICK J : J = {}
  OBVIOUS
<1>7. jobs' = (jobs \ J) \cup Due(ledger')
  BY <1>1, <1>6
<1> QED BY <1>1, <1>2, <1>4, <1>5, <1>6, <1>7, CompletesTame

LEMMA CloseTame ==
  ASSUME WorkOK, TameOK, ApplyStipend \/ ApplyKill
  PROVE  TameOK'
<1>1. jobs' = jobs /\ runs' = runs
  BY DEF ApplyStipend, ApplyKill, ApplyNext
<1>2. overtaken' = overtaken
  BY DEF ApplyStipend, ApplyKill, ApplyNext
<1>3. CASE ApplyKill
  <2>1. ledger'.killed
    BY <1>3, KillTick DEF ApplyKill, WorkOK, LedgerOK
  <2> QED BY <2>1 DEF TameOK
<1>4. CASE ApplyStipend
  <2>1. ledger' = ReduceEnergyStipend(ledger, DefaultBudget)
    BY <1>4 DEF ApplyStipend
  <2>2. ledger'.killed = ledger.killed
    BY <2>1, StipendTick, BudgetAssumption DEF WorkOK, LedgerOK, Holds
  <2> QED BY <1>1, <1>2, <2>1, <2>2, TameStipend DEF TameOK
<1> QED BY <1>3, <1>4

LEMMA ReactionTame ==
  ASSUME WorkOK, TameOK, NEW kind \in {"rejected", "proposal"}, NEW bee, ApplyReaction(kind, bee)
  PROVE  TameOK'
<1>1. /\ runs' = runs /\ overtaken' = overtaken /\ ledger' = ledger
      /\ \E k : k.kind = "direct" /\ jobs' \in {jobs, jobs \cup {k}}
  <2>1. Job("direct", runs[Head(stream).of].task, bee, Head(stream).of).kind = "direct"
    BY DEF Job
  <2> QED BY <2>1 DEF ApplyReaction, ApplyNext
<1>2. ASSUME NEW i \in Ticks, Tame(i) PROVE Tame(i)'
  <2>1. RunsStay(i)
    BY <1>1, RunsStayHere
  <2>2. TaskJobs(i)' = TaskJobs(i)
    BY <1>1 DEF TaskJobs
  <2> QED BY <1>1, <1>2, <2>1, <2>2, TameQuiet
<1> QED BY <1>1, <1>2 DEF TameOK

LEMMA ApplyTame ==
  ASSUME WorkOK, TameOK, Apply
  PROVE  TameOK'
BY PlanTame, ReadyTame, CompletedTame, CloseTame, ReactionTame DEF Apply

\* Then the dispatches.  One that ends may take its task with it.
LEMMA StatusTame ==
  ASSUME WorkOK, ~ledger.killed, NEW i \in Ticks, Tame(i), NEW j \in jobs, runs' = runs,
         jobs' = jobs \ {j}, NEW status \in {"failed", "waiting_review"},
         ledger' = ReduceTaskStatus(ledger, j.task, status, 1)
  PROVE  Tame(i)'
<1>1. /\ j.task \in TaskIds /\ 1 \in Stamps /\ status \in Status /\ ledger \in Trace
      /\ i \in TaskIds /\ j.kind \in {"task", "direct"}
  BY JobIs, StandingAssumption DEF WorkOK, LedgerOK, Status, Ticks
<1>2. /\ \A id \in TaskIds \ {j.task} :
            ledger'.tasks[id] = ledger.tasks[id] /\ (WaitsIn(ledger', id) <=> WaitsIn(ledger, id))
      /\ ledger'.tasks[j.task].status = status
      /\ WaitsIn(ledger', j.task) => WaitsIn(ledger, j.task)
  BY <1>1, StatusTick
<1>3. CASE i # j.task
  BY <1>1, <1>2, <1>3, TameDrop
<1>4. CASE i = j.task
  <2>1. ~Waits(i) /\ \A k \in TaskJobs(i) \ {j} : k.at \notin Early /\ runs[k.run].gate = "failed"
    <3>1. CASE j.kind = "task"
      BY <1>4, <3>1, OneTaskJob DEF Tame
    <3>2. CASE j.kind = "direct"
      <4>1. Voiced(i)
        BY <1>4, <3>2, JobIs DEF JobOf
      <4> QED BY <4>1, TameSpoken
    <3> QED BY <1>1, <3>1, <3>2
  <2>2. TaskJobs(i)' \subseteq TaskJobs(i) \ {j}
    BY DEF TaskJobs
  <2>3. StatusOf(i)' \notin Unstarted \cup {"ready"} /\ ~Waits(i)'
    BY <1>2, <1>4, <2>1 DEF StatusOf, Waits, Unstarted
  <2> QED BY <2>1, <2>2, <2>3, TameDone
<1> QED BY <1>3, <1>4

\* Only a task's own dispatch waits under the task's name.
LEMMA DispatchIs ==
  ASSUME WorkOK, NEW j \in jobs
  PROVE  /\ Dispatch(j) \in DispatchId
         /\ Dispatch(j).kind = "task" => j.kind = "task" /\ Dispatch(j).subject = j.task
<1>1. CASE j.kind = "task"
  <2>1. Dispatch(j) \in DispatchId
    BY <1>1, JobIs, DispatchIdType DEF Dispatch
  <2> QED BY <1>1, <2>1 DEF Dispatch, TaskDispatch
<1>2. CASE j.kind # "task"
  <2>1. j.kind = "direct" /\ j.source \in 1..Len(runs) /\ Len(runs) \in Nat
    BY <1>2, JobIs DEF JobOf
  <2>2. j.source \in 1..MaxRuns
    BY <2>1, StandingAssumption DEF WorkOK, RunsOK
  <2>3. Dispatch(j) \in DispatchId
    BY <1>2, <2>2, JobIs, DispatchIdType, StandingAssumption DEF Dispatch
  <2> QED BY <1>2, <2>3 DEF Dispatch, DirectDispatch
<1> QED BY <1>1, <1>2

LEMMA DeferTame ==
  ASSUME WorkOK, NEW i \in Ticks, Tame(i), NEW j \in jobs, DeferJob(j)
  PROVE  Tame(i)' /\ ledger'.killed = ledger.killed
<1>1. /\ runs' = runs /\ jobs' = jobs \ {j} /\ j.at = "due"
      /\ LET v == DeferPendingDispatch(ledger, Dispatch(j), FALSE, FALSE)
         IN  ledger' \in {v, ClaimEnergyPausePublished(v)}
  BY DEF DeferJob, JobStep
<1>2. /\ Dispatch(j) \in DispatchId
      /\ Dispatch(j).kind = "task" => j.kind = "task" /\ Dispatch(j).subject = j.task
  BY DispatchIs
<1>3. /\ ledger'.tasks = ledger.tasks /\ Holds(ledger, ledger')
      /\ \A k \in TaskIds : WaitsIn(ledger, k) => WaitsIn(ledger', k)
      /\ \A k \in TaskIds : WaitsIn(ledger', k) =>
           WaitsIn(ledger, k) \/ (Dispatch(j).kind = "task" /\ Dispatch(j).subject = k)
  <2>1. ledger \in Trace
    BY DEF WorkOK, LedgerOK
  <2>2. /\ SameTasks(ledger, ledger') /\ Holds(ledger, ledger')
        /\ \A k \in TaskIds : WaitsIn(ledger, k) => WaitsIn(ledger', k)
        /\ \A k \in TaskIds : WaitsIn(ledger', k) =>
             WaitsIn(ledger, k) \/ Names(Dispatch(j), k)
    <3>1. Dispatch(j) \in DispatchId
      BY <1>2
    <3>2. Deferral(ledger, Dispatch(j), ledger')
      BY <1>1 DEF Deferral
    <3> QED BY <2>1, <3>1, <3>2, DeferTick
  <2> QED BY <2>2 DEF SameTasks, Names
<1>4. CASE ~(j.kind = "task" /\ j.task = i)
  <2>1. WaitsIn(ledger', i) <=> WaitsIn(ledger, i)
    BY <1>2, <1>3, <1>4 DEF Ticks
  <2>2. ledger'.tasks[i].status = ledger.tasks[i].status
    BY <1>3
  <2>3. Tame(i)'
    BY <1>1, <2>1, <2>2, TameDrop
  <2> QED BY <1>3, <2>3 DEF Holds
<1>5. CASE j.kind = "task" /\ j.task = i
  <2>1. TaskJobs(i) = {j} /\ TaskJobs(i)' = {}
    BY <1>1, <1>5, OneTaskJob DEF TaskJobs
  <2>2. StatusOf(i) = "ready" /\ StatusOf(i)' = "ready"
    BY <1>1, <1>3, <2>1 DEF Tame, Early, StatusOf
  <2>3. ~HasRun(i) /\ (HasRun(i)' <=> HasRun(i))
    BY <1>1, <2>2, RunsStayHere DEF Tame
  <2>4. Tame(i)'
    BY <2>1, <2>2, <2>3 DEF Tame, Unstarted
  <2> QED BY <1>3, <2>4 DEF Holds
<1> QED BY <1>4, <1>5

\* What a dispatch does that moves it on and starts and ends no run.
LEMMA QuietTame ==
  ASSUME WorkOK, NEW i \in Ticks, Tame(i), NEW j \in jobs,
         Charge(j) \/ PublishCharge(j) \/ ReportRejection(j) \/ LinkRun(j)
  PROVE  Tame(i)' /\ ledger'.killed = ledger.killed
<1>1. /\ runs' = runs
      /\ \/ jobs' = jobs \ {j}
         \/ j.at = "due" /\ Moves(j, "charge")
         \/ j.at = "charge" /\ Moves(j, "start")
         \/ j.at = "report" /\ Moves(j, "publish")
         \/ j.at = "link" /\ Moves(j, "settle")
  BY DEF Charge, PublishCharge, ReportRejection, LinkRun, JobStep
<1>2. /\ ledger'.tasks = ledger.tasks
      /\ ledger'.pending = ledger.pending /\ ledger'.killed = ledger.killed
  <2>1. CASE Charge(j)
    BY <2>1, ConsumeTick DEF Charge, WorkOK, LedgerOK, Holds
  <2>2. CASE ledger' = ledger
    BY <2>2
  <2> QED BY <2>1, <2>2 DEF PublishCharge, ReportRejection, LinkRun
<1>3. /\ ledger'.tasks[i].status = ledger.tasks[i].status
      /\ WaitsIn(ledger', i) <=> WaitsIn(ledger, i)
  BY <1>2, SameWaits
<1>4. Tame(i)'
  <2>1. CASE jobs' = jobs \ {j}
    BY <1>1, <1>3, <2>1, TameDrop
  <2>2. CASE jobs' # jobs \ {j}
    BY <1>1, <1>3, <2>2, TameMoved DEF Early, Held
  <2> QED BY <2>1, <2>2
<1> QED BY <1>2, <1>4

\* A task's own dispatch starts it, and holds its only run; a reaction runs
\* beside a rejected one.
LEMMA StartTame ==
  ASSUME WorkOK, ~ledger.killed, NEW i \in Ticks, Tame(i), NEW j \in jobs, StartRun(j)
  PROVE  Tame(i)' /\ ledger'.killed = ledger.killed
<1>1. PICK k \in JobType :
         /\ jobs' = (jobs \ {j}) \cup {k} /\ k.run = Len(runs) + 1 /\ k.at = "run"
         /\ k.task = j.task /\ k.kind = j.kind /\ k.source = j.source
  BY StartedIs
<1>2. /\ Len(runs) \in Nat /\ Len(runs') = Len(runs) + 1
      /\ \A r \in 1..Len(runs) : runs'[r] = runs[r]
      /\ runs'[Len(runs) + 1].task = j.task /\ runs'[Len(runs) + 1].gate = "none"
      /\ j.at = "start" /\ j.run = 0
  BY StartedIs
<1>3. /\ ledger' = IF j.kind = "task" THEN ReduceTaskStatus(ledger, j.task, "running", 1)
                   ELSE ledger
      /\ j.task \in TaskIds /\ 1 \in Stamps /\ "running" \in Status /\ ledger \in Trace
      /\ j.kind \in {"task", "direct"} /\ i \in TaskIds
  BY JobIs, StandingAssumption DEF StartRun, WorkOK, LedgerOK, Status, Ticks
<1>4. /\ ledger'.killed = ledger.killed
      /\ i # j.task \/ j.kind = "direct" =>
            /\ ledger'.tasks[i].status = ledger.tasks[i].status
            /\ WaitsIn(ledger', i) <=> WaitsIn(ledger, i)
      /\ j.kind = "task" =>
            ledger'.tasks[j.task].status = "running" /\ ~WaitsIn(ledger', j.task)
  <2>1. CASE j.kind = "direct"
    BY <1>3, <2>1
  <2>2. CASE j.kind = "task"
    <3> DEFINE m == j.task
    <3>1. ledger' = ReduceTaskStatus(ledger, m, "running", 1) /\ m \in TaskIds
      BY <1>3, <2>2
    <3> HIDE DEF m
    <3>2. Holds(ledger, ledger')
      BY <1>3, <3>1, StatusTick
    <3>3. \A id \in TaskIds \ {m} :
             ledger'.tasks[id] = ledger.tasks[id] /\ (WaitsIn(ledger', id) <=> WaitsIn(ledger, id))
      BY <1>3, <3>1, StatusTick
    <3>4. ledger'.tasks[m].status = "running" /\ ~WaitsIn(ledger', m)
      BY <1>3, <3>1, StatusTick
    <3> QED BY <1>3, <2>2, <3>2, <3>3, <3>4 DEF Holds, m
  <2> QED BY <1>3, <2>1, <2>2
<1>5. CASE i # j.task
  <2>1. TaskJobs(i)' = TaskJobs(i)
    BY <1>1, <1>5 DEF TaskJobs
  <2>2. RunsStay(i)
    BY <1>2, <1>5 DEF RunsStay
  <2> QED BY <1>4, <1>5, <2>1, <2>2, TameQuiet
<1>6. CASE i = j.task /\ j.kind = "direct"
  <2>1. Voiced(i)
    BY <1>6, JobIs DEF JobOf
  <2>2. /\ StatusOf(i) \notin Unstarted \cup {"ready"} /\ ~Waits(i)
        /\ \A l \in TaskJobs(i) : l.at \in Held /\ l.at \notin Early /\ runs[l.run].gate = "failed"
    BY <2>1, TameSpoken
  <2>3. TaskJobs(i)' \subseteq TaskJobs(i)
    BY <1>1, <1>6 DEF TaskJobs
  <2>4. \A l \in TaskJobs(i) : l.at \in Held => runs'[l.run] = runs[l.run]
    BY <1>2, JobIs DEF TaskJobs
  <2>5. StatusOf(i)' = StatusOf(i) /\ (Waits(i)' <=> Waits(i))
    BY <1>4, <1>6 DEF StatusOf, Waits
  <2>6. \A l \in TaskJobs(i)' : l.at \notin Early /\ (l.at \in Held => runs'[l.run].gate = "failed")
    BY <2>2, <2>3, <2>4
  <2>7. Tame(i)'
    BY <2>2, <2>5, <2>6, TameDone
  <2> QED BY <1>4, <2>7
<1>7. CASE i = j.task /\ j.kind = "task"
  <2>1. TaskJobs(i) = {j} /\ TaskJobs(i)' = {k}
    BY <1>1, <1>7, OneTaskJob DEF TaskJobs
  <2>2. ~HasRun(i)
    BY <1>2, <2>1 DEF Tame, Early, Unstarted
  <2>3. StatusOf(i)' = "running" /\ ~Waits(i)'
    BY <1>4, <1>7 DEF StatusOf, Waits
  <2>4. ~Voiced(i)'
    <3>1. \A r \in 1..Len(runs') : runs'[r].task = i => r = Len(runs) + 1
      BY <1>2, <2>2 DEF HasRun
    <3>2. k \in jobs' /\ k.kind = "task"
      BY <1>1, <1>7
    <3> QED BY <1>1, <1>2, <3>1, <3>2 DEF Voiced, Settled
  <2>5. \A l \in TaskJobs(i)' : l.at \notin Early
    BY <1>1, <2>1 DEF Early
  <2>6. Tame(i)'
    BY <2>3, <2>4, <2>5, TameRunning
  <2> QED BY <1>4, <2>6
<1> QED BY <1>3, <1>5, <1>6, <1>7, <1>4

\* A verdict is the run's only one, and a rejection is the task's word.
LEMMA EndTame ==
  ASSUME WorkOK, NEW i \in Ticks, Tame(i), NEW j \in jobs, NEW v \in Verdicts,
         EndRun(j, v[1], v[2])
  PROVE  Tame(i)' /\ ledger'.killed = ledger.killed
<1>1. PICK k \in JobType :
         /\ jobs' = (jobs \ {j}) \cup {k} /\ k.run = j.run
         /\ k.at = "link" \/ (k.at = "report" /\ v[1] = "failed")
         /\ k.task = j.task /\ k.kind = j.kind /\ k.source = j.source
  BY EndedIs
<1>2. /\ j.at = "run" /\ j.run \in 1..Len(runs) /\ runs[j.run].task = j.task
      /\ Len(runs) \in Nat /\ Len(runs') = Len(runs)
      /\ \A r \in 1..Len(runs) : r # j.run => runs'[r] = runs[r]
      /\ runs'[j.run].task = j.task /\ runs'[j.run].gate = v[1]
      /\ runs[j.run].gate = "none" /\ ledger' = ledger
  BY EndedIs
<1>3. StatusOf(i)' = StatusOf(i) /\ (Waits(i)' <=> Waits(i)) /\ j.kind \in {"task", "direct"}
  BY <1>2, JobIs DEF StatusOf, Waits
<1>4. CASE i # j.task
  <2>1. TaskJobs(i)' = TaskJobs(i)
    BY <1>1, <1>4 DEF TaskJobs
  <2>2. RunsStay(i)
    BY <1>2, <1>4 DEF RunsStay
  <2> QED BY <1>2, <2>1, <2>2, TameQuiet
<1>5. CASE i = j.task /\ j.kind = "direct"
  <2>1. Voiced(i)
    BY <1>5, JobIs DEF JobOf
  <2>2. /\ StatusOf(i) \notin Unstarted \cup {"ready"} /\ ~Waits(i)
        /\ \A l \in TaskJobs(i) : l.at \in Held /\ l.at \notin Early /\ runs[l.run].gate = "failed"
    BY <2>1, TameSpoken
  <2>3. TaskJobs(i)' \subseteq TaskJobs(i)
    BY <1>1, <1>5 DEF TaskJobs
  <2>4. \A l \in TaskJobs(i) : l.at \in Held => runs'[l.run] = runs[l.run]
    BY <1>2, <2>2, JobIs DEF TaskJobs
  <2>6. \A l \in TaskJobs(i)' : l.at \notin Early /\ (l.at \in Held => runs'[l.run].gate = "failed")
    BY <2>2, <2>3, <2>4
  <2> QED BY <1>2, <1>3, <2>2, <2>6, TameDone
<1>6. CASE i = j.task /\ j.kind = "task"
  <2>1. TaskJobs(i) = {j} /\ TaskJobs(i)' = {k} /\ k.at \notin Early /\ k.at \in Held
    BY <1>1, <1>6, OneTaskJob DEF TaskJobs, Early, Held
  <2>2. StatusOf(i) = "running" /\ ~Voiced(i) /\ ~Waits(i)
    BY <1>2, <2>1 DEF Tame, Held
  <2>3. CASE v[1] = "failed"
    BY <1>1, <1>2, <1>3, <2>1, <2>2, <2>3, TameDone DEF Unstarted
  <2>4. CASE v[1] # "failed"
    <3>1. ASSUME NEW r \in 1..Len(runs'), runs'[r].task = i, Settled(r)' PROVE FALSE
      <4>1. CASE r = j.run
        BY <1>1, <1>2, <1>6, <2>4, <3>1, <4>1 DEF Settled
      <4>2. CASE r # j.run
        <5>1. r \in 1..Len(runs) /\ runs'[r] = runs[r]
          BY <1>2, <4>2
        <5>2. \A l \in jobs : l.kind = "task" => \E m \in jobs' : m.kind = "task" /\ m.run = l.run
          BY <1>1
        <5>3. Settled(r)
          BY <3>1, <5>1, <5>2 DEF Settled
        <5> QED BY <2>2, <3>1, <5>1, <5>3 DEF Voiced
      <4> QED BY <4>1, <4>2
    <3>2. ~Voiced(i)'
      BY <3>1 DEF Voiced
    <3>3. StatusOf(i)' = "running" /\ ~Waits(i)'
      BY <1>3, <2>2
    <3>4. \A l \in TaskJobs(i)' : l.at \notin Early
      BY <2>1
    <3> QED BY <1>2, <3>2, <3>3, <3>4, TameRunning
  <2> QED BY <2>3, <2>4
<1> QED BY <1>3, <1>4, <1>5, <1>6

LEMMA PublishTame ==
  ASSUME WorkOK, ~ledger.killed, NEW i \in Ticks, Tame(i), NEW j \in jobs, PublishRejection(j)
  PROVE  Tame(i)' /\ ledger'.killed = ledger.killed
<1>1. runs' = runs /\ j.at = "publish"
  BY DEF PublishRejection, JobStep
<1>2. CASE Moves(j, "link") /\ ledger' = ledger
  <2>1. WaitsIn(ledger', i) <=> WaitsIn(ledger, i)
    BY <1>2
  <2>2. Tame(i)'
    BY <1>1, <1>2, <2>1, TameMoved DEF Early, Held
  <2> QED BY <1>2, <2>2
<1>3. CASE jobs' = jobs \ {j} /\ ledger' = ledger
  <2>1. WaitsIn(ledger', i) <=> WaitsIn(ledger, i)
    BY <1>3
  <2>2. Tame(i)'
    BY <1>1, <1>3, <2>1, TameDrop
  <2> QED BY <1>3, <2>2
<1>4. CASE jobs' = jobs \ {j} /\ ledger' = ReduceTaskStatus(ledger, j.task, "failed", 1)
  <2>1. Tame(i)'
    BY <1>1, <1>4, StatusTame
  <2>2. j.task \in TaskIds /\ "failed" \in Status /\ 1 \in Stamps /\ ledger \in Trace
    BY JobIs, StandingAssumption DEF WorkOK, LedgerOK, Status
  <2>3. ledger'.killed = ledger.killed
    BY <1>4, <2>2, StatusTick DEF Holds
  <2> QED BY <2>1, <2>3
<1> QED BY <1>2, <1>3, <1>4 DEF PublishRejection

LEMMA SettleTame ==
  ASSUME WorkOK, ~ledger.killed, NEW i \in Ticks, Tame(i), NEW j \in jobs, Settle(j)
  PROVE  Tame(i)' /\ ledger'.killed = ledger.killed
<1>1. /\ runs' = runs /\ j.at = "settle"
      /\ Unsettled(j) \/ Completes(j) \/ Proposes(j) \/ Answers(j)
  BY SettleIs
<1>2. /\ j.task \in TaskIds /\ "failed" \in Status /\ "waiting_review" \in Status
      /\ 1 \in Stamps /\ ledger \in Trace
  BY JobIs, StandingAssumption DEF WorkOK, LedgerOK, Status
<1>3. CASE jobs' = jobs \ {j} /\ ledger' = ledger
  <2>1. WaitsIn(ledger', i) <=> WaitsIn(ledger, i)
    BY <1>3
  <2>2. Tame(i)'
    BY <1>1, <1>3, <2>1, TameDrop
  <2> QED BY <1>3, <2>2
<1>4. ASSUME NEW status \in {"failed", "waiting_review"}, jobs' = jobs \ {j},
             ledger' = ReduceTaskStatus(ledger, j.task, status, 1)
      PROVE  Tame(i)' /\ ledger'.killed = ledger.killed
  <2>1. Tame(i)'
    BY <1>1, <1>4, StatusTame
  <2>2. ledger'.killed = ledger.killed
    BY <1>2, <1>4, StatusTick DEF Holds
  <2> QED BY <2>1, <2>2
<1>5. CASE Completes(j)
  <2>1. /\ ledger' = ReduceTaskCompleted(ledger, j.task, "completed", 1) /\ j.kind = "task"
        /\ jobs' = (jobs \ {j}) \cup Due(ledger')
    BY <1>5 DEF Completes
  <2>2. ledger'.killed = ledger.killed
    BY <1>2, <2>1, CompletedTick DEF Holds
  <2>3. TaskJobs(j.task) = {j}
    BY <2>1, OneTaskJob
  <2>4. PICK J : J = {j}
    OBVIOUS
  <2>5. jobs' = (jobs \ J) \cup Due(ledger')
    BY <2>1, <2>4
  <2>6. i = j.task => TaskJobs(i) # {} /\ TaskJobs(i) \subseteq J
    BY <2>3, <2>4
  <2>7. i # j.task => \A l \in J : ~(l.kind = "task" /\ l.task = i)
    BY <2>4
  <2>8. Tame(i)'
    BY <1>1, <1>2, <2>1, <2>2, <2>5, <2>6, <2>7, CompletesTame
  <2> QED BY <2>2, <2>8
<1> QED BY <1>1, <1>3, <1>4, <1>5 DEF Unsettled, Proposes, Answers

LEMMA RunTame ==
  ASSUME WorkOK, TameOK, NEW j \in jobs, Run(j)
  PROVE  TameOK'
<1>1. overtaken' = overtaken
  BY DEF Run, Skip, Charge, DeferJob, PublishCharge, StartRun, EndRun, ReportRejection,
     PublishRejection, LinkRun, Settle, JobStep
<1>2. CASE ledger.killed
  <2>1. ledger'.killed
    <3>1. CASE ledger' = ledger
      BY <1>2, <3>1
    <3>2. CASE StartRun(j) \/ PublishRejection(j) \/ Settle(j)
      <4>1. ledger \in Trace /\ j.task \in TaskIds /\ 1 \in Stamps
            /\ "failed" \in Status /\ "running" \in Status
        BY JobIs, StandingAssumption DEF WorkOK, LedgerOK, Status
      <4>2. CASE ledger' = ledger
        BY <1>2, <4>2
      <4>3. ASSUME NEW status \in {"failed", "running"},
                   ledger' = ReduceTaskStatus(ledger, j.task, status, 1)
            PROVE  ledger'.killed
        BY <1>2, <4>1, <4>3, StatusTick DEF Holds
      <4> QED BY <1>2, <3>2, <4>2, <4>3 DEF StartRun, PublishRejection, Settle
    <3> QED BY <1>2, <3>1, <3>2 DEF Run, Skip, Charge, DeferJob,
                                    PublishCharge, EndRun, ReportRejection,
          LinkRun
  <2> QED BY <2>1 DEF TameOK
<1>3. CASE ~ledger.killed
  <2>1. SUFFICES ASSUME NEW i \in Ticks \ overtaken PROVE Tame(i)'
    BY <1>1 DEF TameOK
  <2>2. Tame(i)
    BY <1>3 DEF TameOK
  <2> QED BY <1>3, <2>2, DeferTame, QuietTame, StartTame, EndTame, PublishTame, SettleTame
          DEF Run, Skip
<1> QED BY <1>2, <1>3

LEMMA OutsideTame ==
  ASSUME WorkOK, TameOK, OperatorKills \/ ReactorDies \/ ReactorStarts
  PROVE  TameOK'
<1>1. runs' = runs /\ overtaken' = overtaken /\ jobs' \in {jobs, {}}
  BY DEF OperatorKills, ReactorDies, ReactorStarts, work
<1>2. /\ ledger'.tasks = ledger.tasks
      /\ ledger'.pending = ledger.pending /\ ledger'.killed = ledger.killed
  <2>1. CASE ledger' = ledger
    BY <2>1
  <2>2. CASE ledger' = MarkEnergySeedPublished(ledger)
    BY <2>2, MarkTick DEF WorkOK, LedgerOK
  <2> QED BY <2>1, <2>2 DEF OperatorKills, ReactorDies, ReactorStarts
<1>3. ASSUME NEW i \in Ticks, Tame(i) PROVE Tame(i)'
  <2>1. CASE jobs' = jobs
    BY <1>1, <1>2, <1>3, <2>1, TameAside
  <2>2. CASE jobs' = {}
    <3>1. TaskJobs(i)' = {}
      BY <2>2 DEF TaskJobs
    <3>2. HasRun(i)' => HasRun(i)
      BY <1>1, RunsStayHere
    <3>3. /\ WaitsIn(ledger', i) <=> WaitsIn(ledger, i)
          /\ ledger'.tasks[i].status = ledger.tasks[i].status
      BY <1>2, SameWaits
    <3> QED BY <1>3, <3>1, <3>2, <3>3, TameFree
  <2> QED BY <1>1, <2>1, <2>2
<1> QED BY <1>1, <1>2, <1>3 DEF TameOK

LEMMA TameStep ==
  ASSUME WorkOK, TameOK, [TickNext]_tickVars
  PROVE  TameOK'
<1>1. CASE UNCHANGED tickVars
  BY <1>1 DEF tickVars, work, TameOK, Tame, TaskJobs, HasRun, Voiced, Settled, StatusOf, Waits
<1> QED BY <1>1, InvokeTame, ApplyTame, RunTame, OutsideTame DEF TickNext

-----------------------------------------------------------------------------
(* A trail that has an allocation keeps it, and only a trail with one has    *)
(* ticks to see                                                              *)

FundOf(k) ==
    /\ cue[k].pc \in {"idle", "check"} \/ cue[k].first => cue[k].saw = {}
    /\ cue[k].pc \in {"record", "fund", "send", "mark", "publishSeed"} \/ recorded[k] > 0 =>
          ledger.budget > 0
    /\ cue[k].pc = "live" /\ ~cue[k].first => ledger.budget > 0
    /\ cue[k].pc = "fund" => ~cue[k].first

FundOK ==
    /\ ledger.budget = 0 => ledger.seed = "none"
    /\ \A k \in Ticks : FundOf(k)

BudgetKept ==
    /\ ledger.budget > 0 => ledger'.budget > 0
    /\ ledger'.budget = 0 => ledger'.seed = "none"

LEMMA HoldsBudget ==
  ASSUME FundOK, Holds(ledger, ledger')
  PROVE  BudgetKept
BY DEF FundOK, Holds, BudgetKept

\* No dispatch and no message but a kill touches allocation or kill.
LEMMA RunHolds ==
  ASSUME WorkOK, NEW j \in jobs, Run(j)
  PROVE  Holds(ledger, ledger')
<1>1. /\ ledger \in Trace /\ j.task \in TaskIds /\ 1 \in Stamps /\ "failed" \in Status
      /\ "running" \in Status /\ "waiting_review" \in Status /\ Holds(ledger, ledger)
  BY JobIs, StandingAssumption DEF WorkOK, LedgerOK, Status, Holds
<1>2. CASE ledger' = ledger
  BY <1>1, <1>2
<1>3. CASE Charge(j)
  BY <1>1, <1>3, ConsumeTick DEF Charge
<1>4. CASE DeferJob(j)
  <2>1. Dispatch(j) \in DispatchId
    BY DispatchIs
  <2>2. Deferral(ledger, Dispatch(j), ledger')
    BY <1>4 DEF DeferJob, Deferral
  <2> QED BY <1>1, <2>1, <2>2, DeferTick
<1>5. ASSUME NEW status \in {"failed", "running", "waiting_review"},
             ledger' = ReduceTaskStatus(ledger, j.task, status, 1)
      PROVE  Holds(ledger, ledger')
  BY <1>1, <1>5, StatusTick
<1>6. CASE ledger' = ReduceTaskCompleted(ledger, j.task, "completed", 1)
  BY <1>1, <1>6, CompletedTick
<1> QED BY <1>2, <1>3, <1>4, <1>5, <1>6
        DEF Run, Skip, PublishCharge, StartRun, EndRun, ReportRejection, PublishRejection,
            LinkRun, Settle

LEMMA ApplyBudget ==
  ASSUME WorkOK, Apply
  PROVE  ledger'.budget = ledger.budget /\ ledger'.seed = ledger.seed
<1>1. ledger \in Trace /\ 1 \in Stamps
  BY StandingAssumption DEF WorkOK, LedgerOK
<1>2. CASE ApplyPlan
  <2> DEFINE m == Head(stream).of
             plan == [k \in {m} |-> [phase |-> "work", deps |-> {}, bee |-> Builder]]
  <2>1. ledger' = ReduceTaskPlan(ledger, plan, FALSE, FALSE, m) /\ ApplyNext("plan")
    BY <1>2 DEF ApplyPlan
  <2>2. m \in TaskIds /\ Builder \in Bees /\ m \in Stamps
    BY <2>1, HeadOf, StandingAssumption DEF Ticks
  <2> HIDE DEF m
  <2>3. plan = [k \in {m} |-> [phase |-> "work", deps |-> {}, bee |-> Builder]]
    BY DEF plan
  <2> HIDE DEF plan
  <2>4. Holds(ledger, ledger')
    BY <1>1, <2>1, <2>2, <2>3, PlanTick
  <2> QED BY <2>4 DEF Holds
<1>3. CASE ApplyReady
  <2> DEFINE m == Head(stream).of
  <2>1. ledger' = ReduceTaskReady(ledger, m, Builder) /\ ApplyNext("ready")
    BY <1>3 DEF ApplyReady
  <2>2. m \in TaskIds /\ Builder \in Bees
    BY <2>1, HeadOf
  <2> HIDE DEF m
  <2>3. Holds(ledger, ledger')
    BY <1>1, <2>1, <2>2, ReadyTick
  <2> QED BY <2>3 DEF Holds
<1>4. CASE ApplyCompleted
  <2> DEFINE m == Head(stream).of
  <2>1. ledger' = ReduceTaskCompleted(ledger, m, "completed", 1) /\ ApplyNext("completed")
    BY <1>4 DEF ApplyCompleted
  <2>2. m \in TaskIds
    BY <2>1, HeadOf
  <2> HIDE DEF m
  <2>3. Holds(ledger, ledger')
    BY <1>1, <2>1, <2>2, CompletedTick
  <2> QED BY <2>3 DEF Holds
<1>5. CASE ApplyStipend
  <2>1. Holds(ledger, ledger')
    BY <1>1, <1>5, StipendTick, BudgetAssumption DEF ApplyStipend
  <2> QED BY <2>1 DEF Holds
<1>6. CASE ApplyKill
  BY <1>1, <1>6, KillTick DEF ApplyKill
<1>7. CASE ledger' = ledger
  BY <1>7
<1> QED BY <1>2, <1>3, <1>4, <1>5, <1>6, <1>7 DEF Apply, ApplyReaction

LEMMA OutsideBudget ==
  ASSUME WorkOK, FundOK, OperatorKills \/ ReactorDies \/ ReactorStarts
  PROVE  BudgetKept
<1>1. CASE ledger' = ledger
  BY <1>1 DEF BudgetKept, FundOK
<1>2. CASE ledger.seed = "unpublished" /\ ledger' = MarkEnergySeedPublished(ledger)
  <2>1. ledger'.budget = ledger.budget /\ ledger.budget # 0
    BY <1>2, MarkTick DEF WorkOK, LedgerOK, FundOK
  <2> QED BY <2>1 DEF BudgetKept
<1> QED BY <1>1, <1>2 DEF OperatorKills, ReactorDies, ReactorStarts

\* Whoever is in the ledger was recorded, so the trail has its allocation.
LEMMA RowsRecorded ==
  ASSUME CuesOK, WorkOK, NEW i \in Ticks, StatusOf(i) # "absent"
  PROVE  i \in Announced /\ recorded[i] > 0
<1>1. i \in Announced
  BY DEF StatusOf, WorkOK, LedgerOK, Rows, Ticks
<1>2. recorded[Said("ingress", i).task] > 0
  BY <1>1 DEF Announced, CuesOK, SentOK
<1> QED BY <1>1, <1>2, SaidIs

\* An invocation that moves on, its memory of the trail unchanged.
LEMMA FundMoves ==
  ASSUME CuesOK, FundOK, BudgetKept, NEW i \in Ticks, NEW c,
         cue' = [cue EXCEPT ![i] = c], c.first = cue[i].first, c.saw = cue[i].saw,
         \A k \in Ticks : k # i => recorded'[k] = recorded[k],
         c.pc \in {"idle", "check"} => cue[i].pc \in {"idle", "check"},
         \/ ledger'.budget > 0
         \/ /\ c.pc \notin {"record", "fund", "send", "mark", "publishSeed", "live"}
            /\ recorded'[i] = 0,
         c.pc = "fund" => ~c.first
  PROVE  FundOK'
<1>1. cue'[i] = c /\ \A k \in Ticks : k # i => cue'[k] = cue[k]
  BY DEF CuesOK, CueTypes
<1>2. FundOf(i)'
  BY <1>1 DEF FundOK, FundOf
<1>3. ASSUME NEW k \in Ticks, k # i PROVE FundOf(k)'
  BY <1>1, <1>3 DEF FundOK, FundOf, BudgetKept
<1> QED BY <1>2, <1>3 DEF FundOK, BudgetKept

LEMMA FundGoes ==
  ASSUME CuesOK, FundOK, BudgetKept, NEW i \in Ticks, NEW p \in Pcs, Goes(i, p),
         \A k \in Ticks : k # i => recorded'[k] = recorded[k],
         p \in {"idle", "check"} => cue[i].pc \in {"idle", "check"},
         \/ ledger'.budget > 0
         \/ p \notin {"record", "fund", "send", "mark", "publishSeed", "live"} /\ recorded'[i] = 0,
         p = "fund" => ~cue[i].first
  PROVE  FundOK'
<1> DEFINE c == [cue[i] EXCEPT !.pc = p]
<1>1. /\ c.first = cue[i].first /\ c.saw = cue[i].saw /\ c.pc = p
      /\ cue' = [cue EXCEPT ![i] = c]
  BY CueIs DEF CuesOK
<1> HIDE DEF c
<1> QED BY <1>1, FundMoves

LEMMA FundInvoke ==
  ASSUME CuesOK, WorkOK, FundOK, NEW i \in Ticks, Invoke(i)
  PROVE  FundOK'
<1>1. ledger \in Trace /\ ledger.budget \in Nat /\ ledger.killed \in BOOLEAN
  BY DEF WorkOK, LedgerOK, Trace
<1>2. ledger' = ledger => BudgetKept
  BY DEF BudgetKept, FundOK
<1>3. FundOf(i) /\ CueOf(i) /\ cue[i] \in Invocation /\ recorded[i] \in Nat /\ i \in DOMAIN cue
  BY DEF FundOK, CuesOK, CueTypes
<1>4. CASE StartTick(i)
  <2>1. /\ ledger' = ledger /\ recorded' = recorded /\ cue[i].pc = "idle" /\ Goes(i, "check")
        /\ recorded[i] = 0 /\ "check" \in Pcs
    BY <1>3, <1>4 DEF StartTick, CueStep, CueOf, Before, Pcs
  <2> QED BY <1>2, <2>1, FundGoes
<1>5. CASE CheckTrail(i)
  <2> DEFINE p == IF ledger.killed \/ OpenStandingTick(ledger) # {} THEN "refused" ELSE "live"
             f == (ledger.budget = 0)
             s == {id \in Ticks : Registered(ledger.tasks[id])}
             c == [cue[i] EXCEPT !.pc = p, !.first = f, !.saw = s]
  <2>1. /\ cue[i].pc = "check" /\ recorded' = recorded /\ ledger' = ledger
        /\ cue' = [cue EXCEPT ![i].pc = p, ![i].first = f, ![i].saw = s]
    BY <1>5 DEF CheckTrail, CueStep
  <2>2. p \in {"refused", "live"}
    OBVIOUS
  <2> HIDE DEF p
  <2>3. f => s = {}
    <3>1. ASSUME NEW id \in Ticks, Registered(ledger.tasks[id]) PROVE ledger.budget > 0
      <4>1. recorded[id] > 0
        BY <3>1, RowsRecorded DEF StatusOf, Registered
      <4> QED BY <4>1 DEF FundOK, FundOf
    <3> QED BY <3>1
  <2>4. ~f => ledger.budget > 0
    BY <1>1
  <2> HIDE DEF f, s
  <2>5. c.pc = p /\ c.first = f /\ c.saw = s
    BY <1>3 DEF Invocation
  <2>6. cue' = [cue EXCEPT ![i] = c]
    BY <1>3, <2>1 DEF CuesOK, CueTypes, Invocation
  <2> HIDE DEF c
  <2>7. cue'[i] = c /\ \A k \in Ticks : k # i => cue'[k] = cue[k]
    BY <2>6 DEF CuesOK, CueTypes
  <2>8. recorded[i] = 0
    BY <1>3, <2>1 DEF CueOf, Before
  <2>9. FundOf(i)'
    <3> DEFINE d == cue'[i]
    <3>1. d.pc \in {"refused", "live"} /\ (d.first => d.saw = {}) /\ recorded'[i] = 0
      BY <2>1, <2>2, <2>3, <2>5, <2>7, <2>8
    <3>2. d.pc = "live" /\ ~d.first => ledger'.budget > 0
      BY <2>1, <2>4, <2>5, <2>7
    <3> QED BY <3>1, <3>2 DEF FundOf
  <2>10. ASSUME NEW k \in Ticks, k # i PROVE FundOf(k)'
    BY <2>1, <2>7, <2>10 DEF FundOK, FundOf
  <2> QED BY <2>1, <2>9, <2>10 DEF FundOK
<1>6. CASE CheckLiveRuns(i)
  <2>1. /\ ledger' = ledger /\ recorded' = recorded /\ cue[i].pc = "live" /\ recorded[i] = 0
        /\ \/ Goes(i, "refused")
           \/ Goes(i, "seed")
           \/ Goes(i, "fund") /\ ~cue[i].first
    BY <1>3, <1>6 DEF CheckLiveRuns, CueStep, CueOf, Before
  <2>2. ~cue[i].first => ledger.budget > 0
    BY <1>3, <2>1 DEF FundOf
  <2> QED BY <1>2, <2>1, <2>2, FundGoes DEF Pcs, Before
<1>7. CASE Seed(i)
  <2>1. /\ ledger' = EnsureEnergySeed(ledger) /\ recorded' = recorded
        /\ Goes(i, "publishSeed") \/ Goes(i, "record")
    BY <1>7 DEF Seed
  <2>2. ledger'.budget > 0
    BY <1>1, <2>1, SeedTick DEF FundOK
  <2>3. BudgetKept
    BY <2>2 DEF BudgetKept
  <2> QED BY <2>1, <2>2, <2>3, FundGoes DEF Pcs, Before
<1>8. CASE PublishSeed(i)
  <2>1. /\ ledger' \in {ledger, MarkEnergySeedPublished(ledger)} /\ recorded' = recorded
        /\ Goes(i, "record") \/ Goes(i, "refused")
        /\ cue[i].pc = "publishSeed"
    BY <1>8 DEF PublishSeed, CueStep
  <2>2. ledger'.budget > 0
    BY <1>1, <1>3, <2>1, MarkTick DEF FundOf
  <2>3. BudgetKept
    BY <2>2 DEF BudgetKept
  <2> QED BY <2>1, <2>2, <2>3, FundGoes DEF Pcs, Before
<1>9. CASE Fund(i)
  <2>1. /\ ledger' \in {ledger, ReduceEnergyStipend(ledger, DefaultBudget)} /\ recorded' = recorded
        /\ Goes(i, "record") \/ Goes(i, "refused")
        /\ cue[i].pc = "fund"
    BY <1>9 DEF Fund, CueStep
  <2>2. ledger'.budget > 0
    BY <1>1, <1>3, <2>1, StipendTick, BudgetAssumption DEF FundOf, Holds
  <2>3. BudgetKept
    BY <2>2 DEF BudgetKept
  <2> QED BY <2>1, <2>2, <2>3, FundGoes DEF Pcs, Before
<1>10. CASE RecordInvocation(i)
  <2>1. /\ ledger' = ledger /\ cue[i].pc = "record"
        /\ recorded' \in {recorded, [recorded EXCEPT ![i] = 1]}
        /\ Goes(i, "send") \/ Goes(i, "refused")
    BY <1>10 DEF RecordInvocation, CueStep
  <2>2. ledger.budget > 0
    BY <1>3, <2>1 DEF FundOf
  <2>3. \A k \in Ticks : k # i => recorded'[k] = recorded[k]
    BY <2>1 DEF CuesOK, CueTypes
  <2> QED BY <1>2, <2>1, <2>2, <2>3, FundGoes DEF Pcs, Before
<1>11. CASE SendNext(i)
  <2>1. /\ ledger' = ledger /\ cue[i].pc = "send" /\ recorded' = recorded
        /\ Goes(i, "mark") \/ Goes(i, "ended")
    BY <1>11 DEF SendNext, CueStep
  <2>2. ledger.budget > 0
    BY <1>3, <2>1 DEF FundOf
  <2> QED BY <1>2, <2>1, <2>2, FundGoes DEF Pcs, Before
<1>12. CASE MarkSent(i)
  <2> DEFINE p == IF cue[i].at = Len(Steps(i)) THEN "ended" ELSE "send"
             c == [cue[i] EXCEPT !.pc = p, !.at = @ + 1]
  <2>1. /\ cue[i].pc = "mark" /\ ledger' = ledger
        /\ recorded' = [recorded EXCEPT ![i] = cue[i].at + 1]
        /\ cue' = [cue EXCEPT ![i].pc = p, ![i].at = @ + 1]
    BY <1>12 DEF MarkSent, CueStep
  <2>2. p \in {"ended", "send"}
    OBVIOUS
  <2> HIDE DEF p
  <2>3. c.pc = p /\ c.first = cue[i].first /\ c.saw = cue[i].saw
    BY <1>3 DEF Invocation
  <2>4. cue' = [cue EXCEPT ![i] = c]
    BY <1>3, <2>1 DEF CuesOK, CueTypes, Invocation
  <2> HIDE DEF c
  <2>5. ledger.budget > 0
    BY <1>3, <2>1 DEF FundOf
  <2>6. \A k \in Ticks : k # i => recorded'[k] = recorded[k]
    BY <2>1 DEF CuesOK, CueTypes
  <2> QED BY <1>2, <2>1, <2>2, <2>3, <2>4, <2>5, <2>6, FundMoves
<1>13. CASE RepublishInvocation(i)
  <2> DEFINE c == [cue[i] EXCEPT !.pc = "send", !.at = recorded[i]]
  <2>1. /\ ledger' = ledger /\ recorded' = recorded /\ recorded[i] \in 1..Len(Steps(i))
        /\ cue' = [cue EXCEPT ![i].pc = "send", ![i].at = recorded[i]]
    BY <1>13 DEF RepublishInvocation, CueStep
  <2>2. c.pc = "send" /\ c.first = cue[i].first /\ c.saw = cue[i].saw
    BY <1>3 DEF Invocation
  <2>3. cue' = [cue EXCEPT ![i] = c]
    BY <1>3, <2>1 DEF CuesOK, CueTypes, Invocation
  <2> HIDE DEF c
  <2>4. ledger.budget > 0
    BY <1>3, <2>1, StepsAre DEF FundOf
  <2> QED BY <1>2, <2>1, <2>2, <2>3, <2>4, FundMoves
<1>14. CASE InvokerDies(i)
  <2>1. ledger' = ledger /\ recorded' = recorded /\ Goes(i, "ended")
    BY <1>14 DEF InvokerDies
  <2>2. ledger.budget > 0 \/ recorded[i] = 0
    BY <1>3 DEF FundOf
  <2> QED BY <1>2, <2>1, <2>2, FundGoes DEF Pcs
<1> QED BY <1>4, <1>5, <1>6, <1>7, <1>8, <1>9, <1>10, <1>11, <1>12, <1>13, <1>14 DEF Invoke

LEMMA FundStep ==
  ASSUME CuesOK, WorkOK, FundOK, [TickNext]_tickVars
  PROVE  FundOK'
<1>1. CASE \E i \in Ticks : Invoke(i)
  BY <1>1, FundInvoke
<1>2. ASSUME BudgetKept, UNCHANGED <<cue, recorded>> PROVE FundOK'
  BY <1>2 DEF FundOK, FundOf, BudgetKept
<1>3. CASE UNCHANGED tickVars
  BY <1>2, <1>3 DEF tickVars, cues, BudgetKept, FundOK
<1>4. CASE TickNext /\ ~\E i \in Ticks : Invoke(i)
  <2>1. UNCHANGED <<cue, recorded>>
    BY <1>4, CuesApart
  <2>2. CASE Apply
    BY <1>2, <2>1, <2>2, ApplyBudget DEF BudgetKept, FundOK
  <2>3. ASSUME NEW j \in jobs, Run(j) PROVE FundOK'
    BY <1>2, <2>1, <2>3, RunHolds, HoldsBudget
  <2>4. CASE OperatorKills \/ ReactorDies \/ ReactorStarts
    BY <1>2, <2>1, <2>4, OutsideBudget
  <2> QED BY <1>4, <2>2, <2>3, <2>4 DEF TickNext
<1> QED BY <1>1, <1>3, <1>4

-----------------------------------------------------------------------------
(* What an invocation saw on the trail is at rest, or waits for the honey of *)
(* an invocation that has not got there                                      *)

\* The invocation's stipend is on its way, and its plan is not ahead of it.
Funded(k) ==
    \E n \in 1..Len(stream) :
        /\ stream[n] = Message("stipend", k)
        /\ \A m \in 1..(n - 1) : stream[m] # Message("plan", k)

\* An invocation whose task cannot be there before its stipend.
Behind(k) ==
    \/ cue[k].pc \in {"live", "fund"}
    \/ cue[k].pc = "ended" /\ recorded[k] = 0
    \/ StatusOf(k) = "absent" /\ Funded(k)

Seen(k) ==
    cue[k].pc \notin {"idle", "check", "refused"} =>
        \A i \in cue[k].saw \ overtaken :
            StatusOf(i) \in Rest \/ (~ledger.killed /\ Waits(i) /\ Behind(k))

SeenOK == \A k \in Ticks \ overtaken : Seen(k)

\* A step leaves what is at rest there, and what waits waiting or at rest.
Kept(i) ==
    /\ StatusOf(i) \in Rest => StatusOf(i)' \in Rest
    /\ ~ledger.killed /\ Waits(i) => StatusOf(i)' \in Rest \/ (~ledger'.killed /\ Waits(i)')

Stays(i) == StatusOf(i) = "absent" => StatusOf(i)' = "absent"

LEMMA Steady ==
  ASSUME NEW i, ledger'.tasks[i].status = ledger.tasks[i].status,
         ledger'.killed = ledger.killed, WaitsIn(ledger, i) => WaitsIn(ledger', i)
  PROVE  Kept(i) /\ Stays(i)
BY DEF Kept, Stays, StatusOf, Waits

LEMMA LiftedKept ==
  ASSUME NEW i, Lifted(ledger, ledger', i), QueueKept(ledger, ledger'), Holds(ledger, ledger')
  PROVE  Kept(i) /\ Stays(i)
<1>1. WaitsIn(ledger', i) <=> WaitsIn(ledger, i)
  BY SameWaits DEF QueueKept
<1>2. ledger'.killed = ledger.killed
  BY DEF Holds
<1>3. CASE ledger'.tasks[i].status = ledger.tasks[i].status
  BY <1>1, <1>2, <1>3, Steady
<1>4. CASE ledger.tasks[i].status = "planned"
  BY <1>1, <1>2, <1>4 DEF Kept, Stays, StatusOf, Waits, Rest
<1> QED BY <1>3, <1>4 DEF Lifted

\* A completed task is at rest, and one that completes was there.
LEMMA CompletedKept ==
  ASSUME WorkOK, NEW i \in Ticks, ~ledger.killed => Tame(i), NEW m \in TaskIds,
         ledger' = ReduceTaskCompleted(ledger, m, "completed", 1),
         i = m => Voiced(i) \/ TaskJobs(i) # {}
  PROVE  Kept(i) /\ Stays(i)
<1>1. ledger \in Trace /\ 1 \in Stamps /\ i \in TaskIds
  BY StandingAssumption DEF WorkOK, LedgerOK, Ticks
<1>2. ledger'.pending = ledger.pending
  BY <1>1, CompletedTick
<1>3. /\ Holds(ledger, ledger')
      /\ \A id \in TaskIds \ {m} : Lifted(ledger, ledger', id)
      /\ ledger.killed => ledger' = ledger
      /\ ~ledger.killed => ledger'.tasks[m].status = "completed"
  BY <1>1, CompletedTick
<1>4. CASE i # m
  BY <1>1, <1>2, <1>3, <1>4, LiftedKept DEF QueueKept
<1>5. CASE ledger.killed
  BY <1>3, <1>5, Steady
<1>6. CASE i = m /\ ~ledger.killed
  <2>1. StatusOf(i)' \in Rest
    BY <1>3, <1>6 DEF StatusOf, Rest
  <2>2. StatusOf(i) # "absent"
    BY <1>6, TameSpoken DEF Tame, Unstarted
  <2> QED BY <2>1, <2>2 DEF Kept, Stays
<1> QED BY <1>4, <1>5, <1>6

\* So does whose dispatch starts, ends or hands it over.
LEMMA StatusKept ==
  ASSUME WorkOK, NEW i \in Ticks, ~ledger.killed => Tame(i), NEW m \in TaskIds,
         NEW status \in {"failed", "running", "waiting_review"},
         ledger' = ReduceTaskStatus(ledger, m, status, 1),
         ~ledger.killed /\ i = m =>
            /\ StatusOf(i) # "absent"
            /\ status = "failed" \/ (StatusOf(i) \notin Rest /\ ~Waits(i))
  PROVE  Kept(i) /\ Stays(i)
<1>1. ledger \in Trace /\ 1 \in Stamps /\ i \in TaskIds /\ status \in Status
  BY StandingAssumption DEF WorkOK, LedgerOK, Ticks, Status
<1>2. /\ Holds(ledger, ledger')
      /\ \A id \in TaskIds \ {m} :
            ledger'.tasks[id] = ledger.tasks[id] /\ (WaitsIn(ledger', id) <=> WaitsIn(ledger, id))
      /\ ledger.killed => ledger' = ledger
      /\ ~ledger.killed => ledger'.tasks[m].status = status
  BY <1>1, StatusTick
<1>3. CASE i # m
  BY <1>1, <1>2, <1>3, Steady DEF Holds
<1>4. CASE ledger.killed
  BY <1>2, <1>4, Steady
<1>5. CASE i = m /\ ~ledger.killed
  BY <1>2, <1>5 DEF Kept, Stays, StatusOf, Rest
<1> QED BY <1>3, <1>4, <1>5

\* What waits is ready, and a stipend skips it.
LEMMA StipendKept ==
  ASSUME WorkOK, NEW i \in Ticks, ~ledger.killed => Tame(i),
         ledger' = ReduceEnergyStipend(ledger, DefaultBudget)
  PROVE  Kept(i) /\ Stays(i) /\ ~Waits(i)'
<1>1. /\ ledger'.killed = ledger.killed /\ ~WaitsIn(ledger', i)
      /\ ledger'.tasks[i].status = IF ledger.tasks[i].status = "ready" /\ WaitsIn(ledger, i)
                                   THEN "skipped" ELSE ledger.tasks[i].status
  BY StipendTick, BudgetAssumption DEF WorkOK, LedgerOK, Ticks, Holds
<1> QED BY <1>1 DEF Kept, Stays, StatusOf, Waits, Tame, Rest

LEMMA ApplyKept ==
  ASSUME WorkOK, TameOK, Apply, NEW i \in Ticks \ overtaken'
  PROVE  /\ overtaken \subseteq overtaken' /\ Kept(i)
         /\ Stays(i) \/ Head(stream) = Message("plan", i)
         /\ ApplyStipend => ~Waits(i)'
<1>1. overtaken \subseteq overtaken'
  BY DEF Apply, ApplyPlan, ApplyReady, ApplyStipend, ApplyKill, ApplyCompleted, ApplyReaction,
     ApplyNext
<1>2. /\ ~ledger.killed => Tame(i)
      /\ ledger \in Trace /\ 1 \in Stamps /\ i \in TaskIds
  BY <1>1, StandingAssumption DEF TameOK, WorkOK, LedgerOK, Ticks
<1>3. CASE ApplyPlan
  <2> DEFINE m == Head(stream).of
             plan == [k \in {m} |-> [phase |-> "work", deps |-> {}, bee |-> Builder]]
  <2>1. ledger' = ReduceTaskPlan(ledger, plan, FALSE, FALSE, m) /\ ApplyNext("plan")
    BY <1>3 DEF ApplyPlan
  <2>2. m \in TaskIds /\ Builder \in Bees /\ m \in Stamps
    BY <2>1, HeadOf, StandingAssumption DEF Ticks
  <2>3. m = i => Head(stream) = Message("plan", i)
    <3>1. Head(stream) \in MessageType /\ Head(stream).kind = "plan"
      BY <2>1, HeadIs DEF WorkOK, ApplyNext
    <3> QED BY <3>1 DEF MessageType, Message
  <2>4. ~ApplyStipend
    BY <2>1 DEF ApplyStipend, ApplyNext
  <2> HIDE DEF m
  <2>5. plan = [k \in {m} |-> [phase |-> "work", deps |-> {}, bee |-> Builder]]
    BY DEF plan
  <2> HIDE DEF plan
  <2>6. /\ QueueKept(ledger, ledger') /\ Holds(ledger, ledger')
        /\ \A id \in TaskIds \ {m} : Lifted(ledger, ledger', id)
        /\ \/ Registered(ledger.tasks[m]) /\ Lifted(ledger, ledger', m)
           \/ ~Registered(ledger.tasks[m]) /\ ledger'.tasks[m].status \in {"planned", "ready"}
    BY <1>2, <2>1, <2>2, <2>5, PlanTick
  <2>7. CASE Lifted(ledger, ledger', i)
    BY <1>1, <2>4, <2>6, <2>7, LiftedKept
  <2>8. CASE ~Lifted(ledger, ledger', i)
    <3>1. i = m /\ ~Registered(ledger.tasks[i])
      BY <1>2, <2>6, <2>8
    <3>2. WaitsIn(ledger', i) <=> WaitsIn(ledger, i)
      BY <2>6, SameWaits DEF QueueKept
    <3>3. Kept(i)
      BY <2>6, <3>1, <3>2 DEF Kept, StatusOf, Waits, Rest, Registered, Holds
    <3> QED BY <1>1, <2>3, <2>4, <3>1, <3>3
  <2> QED BY <2>7, <2>8
<1>4. CASE ApplyReady
  <2> DEFINE m == Head(stream).of
  <2>1. ledger' = ReduceTaskReady(ledger, m, Builder) /\ ApplyNext("ready")
    BY <1>4 DEF ApplyReady
  <2>2. m \in TaskIds /\ Builder \in Bees
    BY <2>1, HeadOf
  <2>3. m = i => ledger.tasks[i].status \notin {"failed", "running"}
    BY <2>1 DEF ApplyNext, LateKick
  <2>4. ~ApplyStipend
    BY <2>1 DEF ApplyStipend, ApplyNext
  <2> HIDE DEF m
  <2>5. ledger'.pending = ledger.pending
    BY <1>2, <2>1, <2>2, ReadyTick
  <2>6. /\ Holds(ledger, ledger')
        /\ \A id \in TaskIds \ {m} : ledger'.tasks[id] = ledger.tasks[id]
        /\ ~Registered(ledger.tasks[m]) =>
              ledger'.tasks[m].status \in {"absent", ledger.tasks[m].status}
        /\ \/ ledger.tasks[m].status \in {"absent", "unset", "planned", "failed", "running"}
           \/ ledger'.tasks[m] = ledger.tasks[m]
    BY <1>2, <2>1, <2>2, ReadyTick
  <2>7. WaitsIn(ledger', i) <=> WaitsIn(ledger, i)
    BY <2>5, SameWaits
  <2>8. CASE ledger'.tasks[i] = ledger.tasks[i]
    BY <1>1, <1>2, <2>4, <2>6, <2>7, <2>8, Steady DEF Holds
  <2>9. CASE ledger'.tasks[i] # ledger.tasks[i]
    <3>0. i = m
      BY <1>2, <2>6, <2>9
    <3>1. StatusOf(i) \notin Rest
      BY <2>3, <2>6, <2>9, <3>0 DEF StatusOf, Rest
    <3>2. Stays(i)
      BY <2>6, <3>0 DEF Stays, StatusOf, Registered
    <3>3. Kept(i)
      BY <2>6, <2>7, <3>1 DEF Kept, Waits, Holds
    <3> QED BY <1>1, <2>4, <3>2, <3>3
  <2> QED BY <2>8, <2>9
<1>5. CASE ApplyCompleted
  <2> DEFINE m == Head(stream).of
  <2>1. ledger' = ReduceTaskCompleted(ledger, m, "completed", 1) /\ ApplyNext("completed")
    BY <1>5 DEF ApplyCompleted
  <2>2. m \in TaskIds /\ Voiced(m)
    BY <2>1, HeadOf DEF MsgOK
  <2>3. ~ApplyStipend
    BY <2>1 DEF ApplyStipend, ApplyNext
  <2> HIDE DEF m
  <2> QED BY <1>1, <1>2, <2>1, <2>2, <2>3, CompletedKept
<1>6. CASE ApplyStipend
  <2>1. Kept(i) /\ Stays(i) /\ ~Waits(i)'
    BY <1>2, <1>6, StipendKept DEF ApplyStipend
  <2> QED BY <1>1, <2>1
<1>7. CASE ApplyKill
  <2>1. ledger' = ReduceSystemKill(ledger) /\ ~ApplyStipend
    BY <1>7 DEF ApplyKill, ApplyStipend, ApplyNext
  <2>2. /\ ledger'.tasks[i].status = "absent" <=> ledger.tasks[i].status = "absent"
        /\ ledger.tasks[i].status \in Rest => ledger'.tasks[i].status \in Rest
        /\ ~ledger.killed => ledger'.tasks[i].status \in Rest \cup {"absent"}
    BY <1>2, <2>1, KillTick
  <2>3. Kept(i)
    BY <1>2, <2>2 DEF Kept, StatusOf, Tame
  <2>4. Stays(i)
    BY <2>2 DEF Stays, StatusOf
  <2> QED BY <1>1, <2>1, <2>3, <2>4
<1>8. CASE ApplyReaction("rejected", Builder) \/ ApplyReaction("proposal", Guard)
  <2>1. ledger' = ledger /\ ~ApplyStipend
    BY <1>8 DEF ApplyReaction, ApplyStipend, ApplyNext
  <2>2. Kept(i) /\ Stays(i)
    BY <2>1, Steady
  <2> QED BY <1>1, <2>1, <2>2
<1> QED BY <1>3, <1>4, <1>5, <1>6, <1>7, <1>8 DEF Apply

LEMMA RunKept ==
  ASSUME WorkOK, TameOK, NEW j \in jobs, Run(j), NEW i \in Ticks \ overtaken
  PROVE  overtaken' = overtaken /\ Kept(i) /\ Stays(i)
<1>1. overtaken' = overtaken
  BY DEF Run, Skip, Charge, DeferJob, PublishCharge, StartRun, EndRun, ReportRejection,
     PublishRejection, LinkRun, Settle, JobStep
<1>2. /\ ~ledger.killed => Tame(i)
      /\ ledger \in Trace /\ 1 \in Stamps /\ i \in TaskIds /\ j.task \in TaskIds
      /\ j.kind \in {"task", "direct"}
  BY JobIs, StandingAssumption DEF TameOK, WorkOK, LedgerOK, Ticks
<1>3. ledger' = ledger => Kept(i) /\ Stays(i)
  BY Steady
\* A dispatch is of a task that is there, whether it is its own or answers it.
<1>4. ~ledger.killed /\ i = j.task => StatusOf(i) # "absent"
  <2>1. CASE j.kind = "task"
    BY <1>2, <2>1 DEF Tame, TaskJobs, Unstarted
  <2>2. CASE j.kind = "direct"
    <3>1. i = j.task => Voiced(i)
      BY <2>2, JobIs DEF JobOf
    <3> QED BY <1>2, <3>1, TameSpoken DEF Unstarted
  <2> QED BY <1>2, <2>1, <2>2
<1>5. ledger' = ReduceTaskStatus(ledger, j.task, "failed", 1) => Kept(i) /\ Stays(i)
  BY <1>2, <1>4, StatusKept
<1>6. CASE Charge(j)
  <2>1. CanConsume(ledger, 1) /\ ledger' = ReduceEnergyConsume(ledger, 1)
    BY <1>6 DEF Charge
  <2>2. /\ ledger'.tasks = ledger.tasks
        /\ ledger'.pending = ledger.pending /\ ledger'.killed = ledger.killed
    BY <1>2, <2>1, ConsumeTick DEF Holds
  <2>3. WaitsIn(ledger', i) <=> WaitsIn(ledger, i)
    BY <2>2, SameWaits
  <2> QED BY <1>1, <2>2, <2>3, Steady
<1>7. CASE DeferJob(j)
  <2>1. Deferral(ledger, Dispatch(j), ledger')
    BY <1>7 DEF DeferJob, Deferral
  <2>2. /\ SameTasks(ledger, ledger') /\ Holds(ledger, ledger')
        /\ \A k \in TaskIds : WaitsIn(ledger, k) => WaitsIn(ledger', k)
    <3>1. Dispatch(j) \in DispatchId /\ ledger \in Trace
      BY DispatchIs DEF WorkOK, LedgerOK
    <3>2. /\ SameTasks(ledger, ledger') /\ Holds(ledger, ledger')
          /\ \A k \in TaskIds : WaitsIn(ledger, k) => WaitsIn(ledger', k)
          /\ \A k \in TaskIds : WaitsIn(ledger', k) => WaitsIn(ledger, k) \/ Names(Dispatch(j), k)
      BY <2>1, <3>1, DeferTick
    <3> QED BY <3>2
  <2> QED BY <1>1, <1>2, <2>2, Steady DEF SameTasks, Holds
<1>8. CASE StartRun(j)
  <2>1. /\ j.at = "start"
        /\ ledger' = IF j.kind = "task" THEN ReduceTaskStatus(ledger, j.task, "running", 1)
                                   ELSE ledger
    BY <1>8 DEF StartRun, JobStep
  <2>2. CASE j.kind = "direct"
    BY <1>1, <1>3, <2>1, <2>2
  <2>3. CASE j.kind = "task"
    <3>1. ~ledger.killed /\ i = j.task => StatusOf(i) = "ready" /\ ~Waits(i)
      BY <1>2, <2>1, <2>3 DEF Tame, TaskJobs, Early
    <3>2. ~ledger.killed /\ i = j.task => StatusOf(i) \notin Rest /\ ~Waits(i)
      BY <3>1 DEF Rest
    <3>3. ledger' = ReduceTaskStatus(ledger, j.task, "running", 1)
      BY <2>1, <2>3
    <3> QED BY <1>1, <1>2, <1>4, <3>2, <3>3, StatusKept
  <2> QED BY <1>2, <2>2, <2>3
<1>9. CASE Settle(j)
  <2>1. CASE Proposes(j)
    <3>1. /\ ledger' = ReduceTaskStatus(ledger, j.task, "waiting_review", 1)
          /\ runs[j.run].state = "completed" /\ j.kind = "task" /\ j.at = "settle"
          /\ j.run \in 1..Len(runs)
      BY <1>9, <2>1, SettleIs DEF Proposes
    <3>2. runs[j.run].gate # "failed"
      BY <3>1 DEF WorkOK, RunsOK
    <3>3. ~ledger.killed /\ i = j.task => StatusOf(i) = "running" /\ ~Waits(i)
      BY <1>2, <3>1, <3>2 DEF Tame, TaskJobs, Held
    <3>4. ~ledger.killed /\ i = j.task => StatusOf(i) \notin Rest /\ ~Waits(i)
      BY <3>3 DEF Rest
    <3> QED BY <1>1, <1>2, <1>4, <3>1, <3>4, StatusKept
  <2>2. CASE Completes(j)
    <3>1. ledger' = ReduceTaskCompleted(ledger, j.task, "completed", 1) /\ j.kind = "task"
      BY <2>2 DEF Completes
    <3>2. i = j.task => Voiced(i) \/ TaskJobs(i) # {}
      BY <3>1 DEF TaskJobs
    <3> QED BY <1>1, <1>2, <3>1, <3>2, CompletedKept
  <2>3. CASE Unsettled(j) \/ Answers(j)
    BY <1>1, <1>3, <1>5, <2>3 DEF Unsettled, Answers
  <2> QED BY <1>9, <2>1, <2>2, <2>3, SettleIs
<1>10. CASE PublishRejection(j)
  BY <1>1, <1>3, <1>5, <1>10 DEF PublishRejection
<1>11. CASE ledger' = ledger
  BY <1>1, <1>3, <1>11
<1> QED BY <1>6, <1>7, <1>8, <1>9, <1>10, <1>11
        DEF Run, Skip, PublishCharge, EndRun, ReportRejection, LinkRun

LEMMA OutsideKept ==
  ASSUME WorkOK, OperatorKills \/ ReactorDies \/ ReactorStarts, NEW i \in Ticks
  PROVE  overtaken' = overtaken /\ Kept(i) /\ Stays(i)
<1>1. overtaken' = overtaken
  BY DEF OperatorKills, ReactorDies, ReactorStarts
<1>2. ledger' = ledger \/ ledger' = MarkEnergySeedPublished(ledger)
  BY DEF OperatorKills, ReactorDies, ReactorStarts
<1>3. CASE ledger' = ledger
  BY <1>1, <1>3, Steady
<1>4. CASE ledger' = MarkEnergySeedPublished(ledger)
  <2>1. /\ ledger'.tasks = ledger.tasks
        /\ ledger'.pending = ledger.pending /\ ledger'.killed = ledger.killed
    BY <1>4, MarkTick DEF WorkOK, LedgerOK
  <2>2. WaitsIn(ledger', i) <=> WaitsIn(ledger, i)
    BY <2>1, SameWaits
  <2> QED BY <1>1, <2>1, <2>2, Steady
<1> QED BY <1>2, <1>3, <1>4

LEMMA InvokeKept ==
  ASSUME WorkOK, TameOK, NEW k \in Ticks, Invoke(k), NEW i \in Ticks \ overtaken
  PROVE  /\ overtaken' = overtaken /\ Kept(i) /\ Stays(i)
         /\ ledger' = ReduceEnergyStipend(ledger, DefaultBudget) => ~Waits(i)'
<1>1. ~ledger.killed => Tame(i)
  BY DEF TameOK
<1>2. CASE ledger' = ReduceEnergyStipend(ledger, DefaultBudget)
  BY <1>1, <1>2, InvokeLedger, StipendKept
<1>3. CASE ledger' # ReduceEnergyStipend(ledger, DefaultBudget)
  <2>1. /\ ledger'.tasks = ledger.tasks
        /\ ledger'.pending = ledger.pending /\ ledger'.killed = ledger.killed
    BY <1>3, InvokeLedger
  <2>2. WaitsIn(ledger', i) <=> WaitsIn(ledger, i)
    BY <2>1, SameWaits
  <2> QED BY <1>3, <2>1, <2>2, InvokeLedger, Steady
<1> QED BY <1>2, <1>3

\* The stream grows at its end; what the reactor takes off it is no stipend.
LEMMA FundedAppended ==
  ASSUME StreamOK, NEW k, Funded(k), stream' = stream \/ \E m : stream' = Append(stream, m)
  PROVE  Funded(k)'
<1>1. Len(stream) \in Nat
  BY DEF StreamOK
<1>2. CASE stream' = stream
  BY <1>2 DEF Funded
<1>3. ASSUME NEW m, stream' = Append(stream, m) PROVE Funded(k)'
  <2>1. Len(stream') = Len(stream) + 1 /\ \A n \in 1..Len(stream) : stream'[n] = stream[n]
    BY <1>3 DEF StreamOK
  <2>2. PICK n \in 1..Len(stream) : /\ stream[n] = Message("stipend", k)
                                    /\ \A l \in 1..(n - 1) : stream[l] # Message("plan", k)
    BY DEF Funded
  <2>3. n \in 1..Len(stream') /\ \A l \in 1..(n - 1) : l \in 1..Len(stream)
    BY <1>1, <2>1
  <2> QED BY <2>1, <2>2, <2>3 DEF Funded
<1> QED BY <1>2, <1>3

LEMMA FundedPopped ==
  ASSUME StreamOK, NEW k, Funded(k), stream # <<>>, stream' = Tail(stream),
         Head(stream).kind # "stipend"
  PROVE  Funded(k)' /\ Head(stream) # Message("plan", k)
<1>1. Len(stream) \in Nat /\ Head(stream) = stream[1]
  BY DEF StreamOK
<1>2. PICK n \in 1..Len(stream) : /\ stream[n] = Message("stipend", k)
                                  /\ \A l \in 1..(n - 1) : stream[l] # Message("plan", k)
  BY DEF Funded
<1>3. n # 1
  BY <1>1, <1>2 DEF Message
<1>4. Len(stream') = Len(stream) - 1 /\ \A l \in 1..Len(stream') : stream'[l] = stream[l + 1]
  BY DEF StreamOK
<1>5. /\ n - 1 \in 1..Len(stream') /\ 1 \in 1..(n - 1)
      /\ \A l \in 1..((n - 1) - 1) : l \in 1..Len(stream') /\ l + 1 \in 1..(n - 1)
      /\ (n - 1) + 1 = n
  BY <1>1, <1>3, <1>4
<1>6. stream'[n - 1] = Message("stipend", k)
  BY <1>2, <1>4, <1>5
<1>7. \A l \in 1..((n - 1) - 1) : stream'[l] # Message("plan", k)
  BY <1>2, <1>4, <1>5
<1> QED BY <1>1, <1>2, <1>5, <1>6, <1>7 DEF Funded

\* What an invocation saw, after a step that is not its own.
LEMMA SeenMoves ==
  ASSUME CuesOK, NEW k \in Ticks, Seen(k), overtaken \subseteq overtaken',
         cue'[k].saw = cue[k].saw,
         cue[k].pc \notin {"idle", "check", "refused"} \/ cue[k].saw = {},
         \A i \in Ticks \ overtaken' : Kept(i),
         (Behind(k) => Behind(k)') \/ \A i \in Ticks \ overtaken' : ~Waits(i)'
  PROVE  Seen(k)'
<1>1. SUFFICES ASSUME NEW i \in cue[k].saw \ overtaken'
               PROVE  StatusOf(i)' \in Rest \/ (~ledger'.killed /\ Waits(i)' /\ Behind(k)')
  BY DEF Seen
<1>2. cue[k].saw \subseteq Ticks
  BY DEF CuesOK, CueTypes, Invocation
<1>3. StatusOf(i) \in Rest \/ (~ledger.killed /\ Waits(i) /\ Behind(k))
  BY <1>1 DEF Seen
<1>4. Kept(i) /\ i \in Ticks \ overtaken'
  BY <1>1, <1>2
<1> QED BY <1>3, <1>4 DEF Kept

\* An invocation the step does not concern.
LEMMA SeenBeside ==
  ASSUME CuesOK, WorkOK, FundOK, NEW k \in Ticks, Seen(k), overtaken \subseteq overtaken',
         cue'[k] = cue[k], recorded'[k] = recorded[k],
         stream' = stream \/ \E m : stream' = Append(stream, m),
         \A i \in Ticks \ overtaken' : Kept(i), Stays(k)
  PROVE  Seen(k)'
<1>1. Behind(k) => Behind(k)'
  BY FundedAppended DEF WorkOK, Behind, Stays
<1>2. CASE cue[k].pc = "refused"
  BY <1>2 DEF Seen
<1>3. CASE cue[k].pc # "refused"
  <2>1. cue[k].pc \notin {"idle", "check", "refused"} \/ cue[k].saw = {}
    BY <1>3 DEF FundOK, FundOf
  <2> QED BY <1>1, <2>1, SeenMoves
<1> QED BY <1>2, <1>3

LEMMA ApplySeen ==
  ASSUME CuesOK, WorkOK, TameOK, FundOK, SeenOK, Apply, UNCHANGED <<cue, recorded>>
  PROVE  SeenOK'
<1>1. SUFFICES ASSUME NEW k \in Ticks \ overtaken' PROVE Seen(k)'
  BY DEF SeenOK
<1>2. overtaken \subseteq overtaken' /\ \A i \in Ticks \ overtaken' : Kept(i)
  BY <1>1, ApplyKept
<1>3. Seen(k)
  BY <1>1, <1>2 DEF SeenOK
<1>4. (Behind(k) => Behind(k)') \/ \A i \in Ticks \ overtaken' : ~Waits(i)'
  <2>1. CASE ApplyStipend
    BY <2>1, ApplyKept
  <2>2. CASE ~ApplyStipend
    <3>1. stream # <<>> /\ stream' = Tail(stream) /\ Head(stream).kind # "stipend"
      BY <2>2 DEF Apply, ApplyPlan, ApplyReady, ApplyKill, ApplyCompleted, ApplyReaction, ApplyNext
    <3>2. Funded(k) => Funded(k)' /\ Stays(k)
      BY <1>1, <3>1, FundedPopped, ApplyKept DEF WorkOK
    <3> QED BY <3>2 DEF Behind, Stays
  <2> QED BY <2>1, <2>2
<1>5. CASE cue[k].pc = "refused"
  BY <1>5 DEF Seen
<1>6. CASE cue[k].pc # "refused"
  <2>1. cue[k].pc \notin {"idle", "check", "refused"} \/ cue[k].saw = {}
    BY <1>6 DEF FundOK, FundOf
  <2> QED BY <1>2, <1>3, <1>4, <2>1, SeenMoves
<1> QED BY <1>5, <1>6

LEMMA RunSeen ==
  ASSUME CuesOK, WorkOK, TameOK, FundOK, SeenOK, NEW j \in jobs, Run(j),
         UNCHANGED <<cue, recorded>>
  PROVE  SeenOK'
<1>1. stream' = stream \/ \E m : stream' = Append(stream, m)
  BY DEF Run, Skip, Charge, DeferJob, PublishCharge, StartRun, EndRun, ReportRejection,
     PublishRejection, LinkRun, Settle, JobStep
<1>2. ASSUME NEW k \in Ticks \ overtaken' PROVE Seen(k)'
  <2>1. overtaken' = overtaken
    BY DEF Run, Skip, Charge, DeferJob, PublishCharge, StartRun, EndRun, ReportRejection,
       PublishRejection, LinkRun, Settle, JobStep
  <2>2. \A i \in Ticks \ overtaken : Kept(i) /\ Stays(i)
    BY RunKept
  <2> QED BY <1>1, <1>2, <2>1, <2>2, SeenBeside DEF SeenOK
<1> QED BY <1>2 DEF SeenOK

LEMMA OutsideSeen ==
  ASSUME CuesOK, WorkOK, FundOK, SeenOK, OperatorKills \/ ReactorDies \/ ReactorStarts,
         UNCHANGED <<cue, recorded>>
  PROVE  SeenOK'
<1>1. stream' = stream \/ \E m : stream' = Append(stream, m)
  BY DEF OperatorKills, ReactorDies, ReactorStarts
<1>2. ASSUME NEW k \in Ticks \ overtaken' PROVE Seen(k)'
  <2>1. overtaken' = overtaken /\ \A i \in Ticks : Kept(i) /\ Stays(i)
    BY <1>2, OutsideKept
  <2> QED BY <1>1, <1>2, <2>1, SeenBeside DEF SeenOK
<1> QED BY <1>2 DEF SeenOK

\* The invocation's own steps.
LEMMA Unsaid ==
  ASSUME CuesOK, WorkOK, NEW k \in Ticks, recorded[k] = 0
  PROVE  StatusOf(k) = "absent" /\ \A n \in 1..Len(stream) : stream[n] # Message("plan", k)
<1>1. StatusOf(k) = "absent"
  BY RowsRecorded
<1>2. ASSUME NEW n \in 1..Len(stream), stream[n] = Message("plan", k) PROVE FALSE
  <2>1. MsgOK(Message("plan", k))
    BY <1>2 DEF WorkOK, StreamOK, Messages
  <2>2. k \in Announced
    BY <2>1 DEF MsgOK, Message
  <2>3. recorded[Said("ingress", k).task] > 0
    BY <2>2 DEF Announced, CuesOK, SentOK
  <2> QED BY <2>3, SaidIs
<1> QED BY <1>1, <1>2

\* One that moves on, its stipend on its way or not needed.
LEMMA SeenGoes ==
  ASSUME CuesOK, WorkOK, NEW k \in Ticks, Seen(k), overtaken' = overtaken,
         cue'[k].saw = cue[k].saw,
         \A i \in Ticks \ overtaken : Kept(i), Stays(k),
         cue[k].pc \notin {"idle", "check", "live", "fund", "refused"},
         cue[k].pc = "ended" => recorded[k] > 0,
         stream' = stream \/ \E m : stream' = Append(stream, m)
  PROVE  Seen(k)'
<1>1. Behind(k) => Behind(k)'
  BY FundedAppended DEF WorkOK, Behind, Stays
<1> QED BY <1>1, SeenMoves

LEMMA SeenActs ==
  ASSUME CuesOK, WorkOK, TameOK, FundOK, NEW k \in Ticks \ overtaken, Seen(k), Invoke(k)
  PROVE  Seen(k)'
<1>1. /\ overtaken' = overtaken /\ ledger \in Trace /\ recorded[k] \in Nat
      /\ \A i \in Ticks \ overtaken : Kept(i)
      /\ Stays(k)
  BY InvokeKept, InvokeLedger DEF CuesOK, CueTypes, WorkOK, LedgerOK
<1>2. cue[k] \in Invocation /\ k \in DOMAIN cue /\ CueOf(k) /\ FundOf(k)
  BY DEF CuesOK, CueTypes, FundOK
<1>3. \A p : Goes(k, p) => cue'[k].pc = p /\ cue'[k].saw = cue[k].saw
  BY <1>2 DEF Goes, Invocation
<1>4. cue'[k].pc \in {"idle", "check", "refused"} => Seen(k)'
  BY DEF Seen
<1>5. CASE StartTick(k)
  BY <1>3, <1>4, <1>5 DEF StartTick
<1>6. CASE CheckTrail(k)
  <2> DEFINE p == IF ledger.killed \/ OpenStandingTick(ledger) # {} THEN "refused" ELSE "live"
             s == {id \in Ticks : Registered(ledger.tasks[id])}
  <2>1. /\ ledger' = ledger
        /\ cue' = [cue EXCEPT ![k].pc = p, ![k].first = (ledger.budget = 0), ![k].saw = s]
    BY <1>6 DEF CheckTrail, CueStep
  <2>2. cue'[k].pc = p /\ cue'[k].saw = s
    <3> HIDE DEF p, s
    <3> QED BY <1>2, <2>1 DEF Invocation
  <2>3. CASE p = "refused"
    BY <1>4, <2>2, <2>3
  <2>4. CASE ~ledger.killed /\ OpenStandingTick(ledger) = {}
    <3>1. Behind(k)'
      BY <2>2, <2>4 DEF Behind
    <3>2. ASSUME NEW i \in s PROVE StatusOf(i) \in Rest \/ Waits(i)
      <4>1. ~Occupies(ledger, i)
        BY <2>4, <3>2 DEF OpenStandingTick
      <4>2. CASE ledger.tasks[i].status \notin {"planned", "ready", "running", "waiting_review"}
        <5>1. ledger.tasks[i].status \in Status
          BY <1>1, TraceRow DEF Ticks, Task
        <5> QED BY <4>2, <5>1, <3>2 DEF StatusOf, Rest, Registered, Status
      <4>3. CASE \E n \in HoneyWaiting(ledger) : WaitsFor(ledger, n, i)
        BY <4>3 DEF Waits, WaitsIn
      <4> QED BY <4>1, <4>2, <4>3 DEF Occupies
    <3>3. \A i \in s : StatusOf(i)' \in Rest \/ (~ledger'.killed /\ Waits(i)')
      BY <2>1, <2>4, <3>2 DEF StatusOf, Waits
    <3> HIDE DEF s
    <3> QED BY <2>2, <3>1, <3>3 DEF Seen
  <2> QED BY <2>3, <2>4
<1>7. CASE CheckLiveRuns(k)
  <2>1. /\ cue[k].pc = "live" /\ stream' = stream /\ recorded' = recorded
        /\ \/ Goes(k, "refused")
           \/ Goes(k, "seed") /\ cue[k].first
           \/ Goes(k, "fund")
    BY <1>7 DEF CheckLiveRuns, CueStep
  <2>2. CASE Goes(k, "refused")
    BY <1>3, <1>4, <2>2
  <2>3. CASE Goes(k, "seed") /\ cue[k].first
    <3>1. cue'[k].saw = {}
      BY <1>2, <1>3, <2>3 DEF FundOf
    <3> QED BY <3>1 DEF Seen
  <2>4. CASE Goes(k, "fund")
    <3>1. Behind(k)' /\ cue'[k].saw = cue[k].saw
      BY <1>3, <2>4 DEF Behind
    <3> QED BY <1>1, <2>1, <3>1, SeenMoves
  <2> QED BY <2>1, <2>2, <2>3, <2>4
<1>8. CASE Fund(k)
  <2>1. cue[k].pc = "fund" /\ recorded[k] = 0
    BY <1>2, <1>8 DEF Fund, CueStep, CueOf, Before
  <2>2. CASE Goes(k, "refused")
    BY <1>3, <1>4, <2>2
  <2>3. CASE Goes(k, "record") /\ ~up
    <3>1. ledger' = ReduceEnergyStipend(ledger, DefaultBudget)
      BY <1>3, <1>8, <2>3 DEF Fund
    <3>2. \A i \in Ticks \ overtaken : ~Waits(i)'
      BY <3>1, <1>8, InvokeKept
    <3> QED BY <1>1, <1>3, <2>1, <2>3, <3>2, SeenMoves
  <2>4. CASE Goes(k, "record") /\ up
    <3>1. ledger' = ledger /\ stream' = Append(stream, Message("stipend", k))
      BY <1>3, <1>8, <2>4 DEF Fund
    <3>2. StatusOf(k) = "absent" /\ \A n \in 1..Len(stream) : stream[n] # Message("plan", k)
      BY <2>1, Unsaid
    <3>3. /\ Len(stream) \in Nat /\ Len(stream') = Len(stream) + 1
          /\ \A n \in 1..Len(stream) : stream'[n] = stream[n]
          /\ stream'[Len(stream) + 1] = Message("stipend", k)
      BY <3>1 DEF WorkOK, StreamOK
    <3>4. Funded(k)'
      <4>1. /\ Len(stream) + 1 \in 1..Len(stream')
            /\ \A n \in 1..((Len(stream) + 1) - 1) : n \in 1..Len(stream)
        BY <3>3
      <4> QED BY <3>2, <3>3, <4>1 DEF Funded
    <3>5. Behind(k)'
      BY <3>1, <3>2, <3>4 DEF Behind, StatusOf
    <3> QED BY <1>1, <1>3, <2>1, <2>4, <3>5, SeenMoves
  <2> QED BY <1>8, <2>2, <2>3, <2>4 DEF Fund
<1>9. CASE Seed(k) \/ PublishSeed(k) \/ RecordInvocation(k) \/ SendNext(k)
  <2>1. /\ cue[k].pc \in {"seed", "publishSeed", "record", "send"}
        /\ stream' = stream \/ \E m : stream' = Append(stream, m)
        /\ \E p : Goes(k, p)
    BY <1>9 DEF Seed, PublishSeed, RecordInvocation, SendNext, Delivered, CueStep
  <2> QED BY <1>1, <1>3, <2>1, SeenGoes
<1>10. CASE MarkSent(k) \/ RepublishInvocation(k)
  <2>1. /\ cue[k].pc = "mark" \/ (cue[k].pc = "ended" /\ recorded[k] > 0)
        /\ stream' = stream
    BY <1>10, StepsAre DEF MarkSent, RepublishInvocation, CueStep
  <2>2. cue'[k].saw = cue[k].saw
    BY <1>2, <1>10 DEF MarkSent, RepublishInvocation, Invocation
  <2> QED BY <1>1, <2>1, <2>2, SeenGoes
<1>11. CASE InvokerDies(k)
  <2>1. /\ cue[k].pc \notin {"idle", "refused", "ended"} /\ Goes(k, "ended")
        /\ recorded' = recorded /\ stream' = stream /\ ledger' = ledger
    BY <1>11 DEF InvokerDies
  <2>2. CASE cue[k].pc = "check"
    <3>1. cue'[k].saw = {}
      BY <1>2, <1>3, <2>1, <2>2 DEF FundOf
    <3> QED BY <3>1 DEF Seen
  <2>3. CASE cue[k].pc # "check" /\ recorded[k] = 0
    <3>1. Behind(k)'
      BY <1>3, <2>1, <2>3 DEF Behind
    <3> QED BY <1>1, <1>3, <2>1, <2>3, <3>1, SeenMoves
  <2>4. CASE cue[k].pc # "check" /\ recorded[k] # 0
    <3>1. cue[k].pc \notin Before
      BY <1>2, <2>4 DEF CueOf
    <3> QED BY <1>1, <1>3, <2>1, <3>1, SeenGoes DEF Before
  <2> QED BY <2>2, <2>3, <2>4
<1> QED BY <1>5, <1>6, <1>7, <1>8, <1>9, <1>10, <1>11 DEF Invoke

LEMMA InvokeSeen ==
  ASSUME CuesOK, WorkOK, TameOK, FundOK, SeenOK, NEW a \in Ticks, Invoke(a)
  PROVE  SeenOK'
<1>1. overtaken' = overtaken
  BY InvokeLedger
<1>2. SUFFICES ASSUME NEW k \in Ticks \ overtaken PROVE Seen(k)'
  BY <1>1 DEF SeenOK
<1>3. CASE k = a
  BY <1>3, SeenActs DEF SeenOK
<1>4. CASE k # a
  <2>1. cue'[k] = cue[k] /\ recorded'[k] = recorded[k]
    BY <1>4 DEF CuesOK, CueTypes, Invoke, StartTick, CheckTrail, CheckLiveRuns, Seed, PublishSeed,
       Fund, RecordInvocation, SendNext, MarkSent, RepublishInvocation, InvokerDies, Goes
  <2>2. stream' = stream \/ \E m : stream' = Append(stream, m)
    BY DEF Invoke, StartTick, CheckTrail, CheckLiveRuns, Seed, PublishSeed, Fund, RecordInvocation,
       SendNext, Delivered, MarkSent, RepublishInvocation, InvokerDies
  <2>3. \A i \in Ticks \ overtaken : Kept(i) /\ Stays(i)
    BY InvokeKept
  <2> QED BY <1>1, <2>1, <2>2, <2>3, SeenBeside DEF SeenOK
<1> QED BY <1>3, <1>4

LEMMA SeenStep ==
  ASSUME CuesOK, WorkOK, TameOK, FundOK, SeenOK, [TickNext]_tickVars
  PROVE  SeenOK'
<1>1. CASE \E i \in Ticks : Invoke(i)
  BY <1>1, InvokeSeen
<1>2. CASE UNCHANGED tickVars
  BY <1>2 DEF tickVars, cues, SeenOK, Seen, StatusOf, Waits, Behind, Funded
<1>3. CASE TickNext /\ ~\E i \in Ticks : Invoke(i)
  <2>1. UNCHANGED <<cue, recorded>>
    BY <1>3, CuesApart
  <2> QED BY <1>3, <2>1, ApplySeen, RunSeen, OutsideSeen DEF TickNext
<1> QED BY <1>1, <1>2, <1>3

LEMMA TrailInit ==
  ASSUME TickInit
  PROVE  CuesOK /\ WorkOK /\ TameOK /\ FundOK /\ SeenOK
<1>1. /\ legacy \in Legacies /\ ledger = legacy.trace /\ jobs = {} /\ runs = <<>>
      /\ cue = [i \in Ticks |-> [pc |-> IF i \in legacy.past THEN "ended" ELSE "idle",
                                 first |-> FALSE, saw |-> {}, at |-> 1]]
      /\ recorded = [i \in Ticks |-> IF i \in legacy.past THEN Len(Steps(i)) + 1 ELSE 0]
  BY DEF TickInit
<1>2. /\ legacy.past # {} => ledger.budget > 0
      /\ ledger.budget = 0 => ledger.seed = "none"
      /\ \A i \in Ticks : Waits(i) => StatusOf(i) = "ready"
  BY <1>1, LegacyAssumption DEF Waits, WaitsIn, StatusOf
<1>3. TameOK
  <2>1. \A i \in Ticks : TaskJobs(i) = {} /\ ~HasRun(i)
    BY <1>1 DEF TaskJobs, HasRun
  <2> QED BY <1>2, <2>1 DEF TameOK, Tame, Unstarted
<1>4. FundOK
  BY <1>1, <1>2 DEF FundOK, FundOf
<1>5. SeenOK
  BY <1>1 DEF SeenOK, Seen
<1> QED BY <1>3, <1>4, <1>5, AttributedInit

LEMMA AlwaysApart == TickSpec => [](CuesOK /\ WorkOK /\ TameOK /\ FundOK /\ SeenOK)
<1> DEFINE Inv == CuesOK /\ WorkOK /\ TameOK /\ FundOK /\ SeenOK
<1>1. TickInit => Inv
  BY TrailInit
<1>2. Inv /\ [TickNext]_tickVars => Inv'
  BY CuesStep, WorkStep, TameStep, FundStep, SeenStep
<1> QED BY <1>1, <1>2, PTL DEF TickSpec

\* Who is on the trail has recorded its invocation and is behind no stipend.
LEMMA SeenApart ==
  ASSUME CuesOK, WorkOK, SeenOK, NEW i \in Ticks \ overtaken, NEW k \in Ticks \ overtaken,
         Occupies(ledger, i), Occupies(ledger, k)
  PROVE  i \notin cue[k].saw
<1>1. StatusOf(k) # "absent" /\ StatusOf(i) \notin Rest
  BY DEF Occupies, StatusOf, Rest
<1>2. recorded[k] > 0 /\ CueOf(k) /\ recorded[k] \in Nat
  BY <1>1, RowsRecorded DEF CuesOK, CueTypes
<1>3. cue[k].pc \notin Before \cup {"refused"}
  BY <1>2 DEF CueOf
<1>4. ~Behind(k) /\ cue[k].pc \notin {"idle", "check", "refused"}
  BY <1>1, <1>2, <1>3 DEF Behind, Before
<1> QED BY <1>1, <1>4 DEF SeenOK, Seen

\* Two ticks are open on the trail together only if neither saw the other's task
\* when it checked, or a late kick reopened one of them (TicksDoNotOverlap).
THEOREM TicksApart == TickSpec => []TicksDoNotOverlap
<1>1. CuesOK /\ WorkOK /\ SeenOK => TicksDoNotOverlap
  BY SeenApart DEF TicksDoNotOverlap
<1> QED BY <1>1, AlwaysApart, PTL

=============================================================================
