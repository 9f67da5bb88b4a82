----------------------------- MODULE LedgerTypes -----------------------------
(***************************************************************************)
(* What the reducers of Ledger return: every one of them maps a            *)
(* well-formed snapshot to a well-formed one.  The proof modules cite it.  *)
(***************************************************************************)
EXTENDS Ledger, TLAPS

LEMMA EmptyType == EmptyTrace \in Trace
  BY IdsAssumption DEF EmptyTrace, Trace, NoRow, Task, Status, Phase, Workspace, NoKick

LEMMA ClosedEntryType ==
  ASSUME NEW e \in Entry, NEW status \in EntryStatus
  PROVE  [e EXCEPT !.status = status] \in Entry
BY DEF Entry

LEMMA CloseEntriesType ==
  ASSUME NEW t \in Trace, NEW which, NEW status \in EntryStatus
  PROVE  /\ CloseEntries(t, which, status) \in Trace
         /\ CloseEntries(t, which, status) =
              [t EXCEPT !.pending = CloseEntries(t, which, status).pending]
<1> DEFINE n == Len(t.pending)
           p == [i \in 1..n |->
            IF i \in which THEN [t.pending[i] EXCEPT !.status = status]
            ELSE t.pending[i]]
<1>1. t.pending \in Seq(Entry)
  BY DEF Trace
<1>2. n \in Nat /\ \A i \in 1..n : t.pending[i] \in Entry
  BY <1>1
<1>3. \A i \in 1..n : p[i] \in Entry
  BY <1>2, ClosedEntryType
<1>4. p \in [1..n -> Entry]
  BY <1>3
<1>5. p \in Seq(Entry)
  BY <1>2, <1>4
<1>6. CloseEntries(t, which, status) = [t EXCEPT !.pending = p]
  BY DEF CloseEntries
<1> HIDE DEF p
<1>7. [t EXCEPT !.pending = p] \in Trace
  BY <1>5 DEF Trace
<1> QED
  BY <1>6, <1>7 DEF Trace

LEMMA DropStaleKickType ==
  ASSUME NEW t \in Trace
  PROVE  DropStaleKick(t) \in Trace
BY DEF DropStaleKick, Trace

LEMMA RowType ==
  ASSUME NEW r \in Task, NEW status \in Status
  PROVE  [r EXCEPT !.status = status] \in Task
BY DEF Task

LEMMA KickedRowType ==
  ASSUME NEW r \in Task, NEW bee \in Bees \cup {NoBee}
  PROVE  [r EXCEPT !.status = "ready", !.bee = Overlay(@, bee)] \in Task
<1>1. Overlay(r.bee, bee) \in Bees \cup {NoBee}
  BY DEF Overlay, Task
<1>2. [r EXCEPT !.status = "ready", !.bee = Overlay(r.bee, bee)] \in Task
  BY <1>1 DEF Task, Status
<1> QED
  BY <1>2

LEMMA RowsType ==
  ASSUME NEW t \in Trace, NEW rows \in [TaskIds -> Task]
  PROVE  [t EXCEPT !.tasks = rows] \in Trace
BY DEF Trace

LEMMA TraceRow ==
  ASSUME NEW t \in Trace, NEW id \in TaskIds
  PROVE  t.tasks[id] \in Task /\ t.tasks \in [TaskIds -> Task]
BY DEF Trace

LEMMA PromoteParkedType ==
  ASSUME NEW t \in Trace
  PROVE  PromoteParked(t) \in Trace
<1> DEFINE k == t.parked
           row == [t.tasks[k.task] EXCEPT !.status = "ready",
                                          !.bee = Overlay(@, k.bee)]
           rows == [t.tasks EXCEPT ![k.task] = row]
           moved == [t EXCEPT !.tasks[k.task].status = "ready",
                              !.tasks[k.task].bee = Overlay(@, k.bee),
                              !.parked = NoKick]
<1>1. CASE k = NoKick
  BY <1>1 DEF PromoteParked
<1>2. CASE k # NoKick
  <2>1. k \in Kick /\ k.task \in TaskIds /\ k.bee \in Bees \cup {NoBee}
    BY <1>2 DEF Trace, Kick
  <2>2. row \in Task
    BY <2>1, TraceRow, KickedRowType
  <2>3. rows \in [TaskIds -> Task]
    BY <2>1, <2>2, TraceRow
  <2>4. moved = [[t EXCEPT !.tasks = rows] EXCEPT !.parked = NoKick]
    BY <2>1 DEF Trace, Task
  <2>5. moved \in Trace
    <3> HIDE DEF rows, moved
    <3> QED BY <2>3, <2>4 DEF Trace
  <2> QED
    BY <2>5 DEF PromoteParked
<1> QED
  BY <1>1, <1>2

LEMMA PromoteFirstEligibleType ==
  ASSUME NEW t \in Trace
  PROVE  PromoteFirstEligible(t) \in Trace
<1>1. \A id \in TaskIds : [t.tasks[id] EXCEPT !.status = "ready"] \in Task
  BY TraceRow, RowType DEF Status
<1> QED
  BY <1>1, TraceRow, RowsType DEF PromoteFirstEligible

LEMMA AdvanceType ==
  ASSUME NEW t \in Trace
  PROVE  AdvanceWorkRevision(t) \in Trace
<1>1. t.workRevision + 1 \in Nat
  BY DEF Trace
<1> QED BY <1>1 DEF AdvanceWorkRevision, Trace

LEMMA PlanType ==
  ASSUME NEW t \in Trace, NEW plan \in Plan, NEW runtime \in BOOLEAN,
         NEW analysis \in BOOLEAN, NEW now \in Stamps
  PROVE  ReduceTaskPlan(t, plan, runtime, analysis, now) \in Trace
<1> DEFINE fresh == {id \in DOMAIN plan : ~Registered(t.tasks[id])}
           rows == [id \in TaskIds |->
                       IF id \in fresh
                       THEN PlannedRow(plan[id], runtime, analysis, now)
                       ELSE t.tasks[id]]
           planned == [t EXCEPT !.tasks = rows]
           accepted == \E id \in fresh : IsGoalWork(planned.tasks[id])
           admitted == IF accepted THEN AdvanceWorkRevision(planned) ELSE planned
<1>1. \A id \in DOMAIN plan : plan[id] \in TaskSpec
  BY DEF Plan
<1>2. \A spec \in TaskSpec : PlannedRow(spec, runtime, analysis, now) \in Task
  BY DEF TaskSpec, PlannedRow, PlannedPhase, Task, Status, Phase, Workspace
<1>3. rows \in [TaskIds -> Task]
  BY <1>1, <1>2, TraceRow
<1>4. planned \in Trace
  <2> HIDE DEF rows
  <2> QED BY <1>3, RowsType
<1>5. admitted \in Trace
  <2> HIDE DEF planned, accepted
  <2> QED BY <1>4, AdvanceType
<1>6. ReduceTaskPlan(t, plan, runtime, analysis, now) =
        DropStaleKick(PromoteParked(admitted))
  BY DEF ReduceTaskPlan
<1> HIDE DEF admitted
<1> QED
  BY <1>5, <1>6, PromoteParkedType, DropStaleKickType

LEMMA ReadyType ==
  ASSUME NEW t \in Trace, NEW id \in TaskIds, NEW bee \in Bees \cup {NoBee}
  PROVE  ReduceTaskReady(t, id, bee) \in Trace
<1> DEFINE row == [t.tasks[id] EXCEPT !.status = "ready", !.bee = Overlay(@, bee)]
           requeued == [t EXCEPT !.tasks[id].status = "ready",
                                 !.tasks[id].bee = Overlay(@, bee)]
           parked == [t EXCEPT !.parked = [task |-> id, bee |-> bee],
                               !.tasks[id] = NoRow]
<1>1. row \in Task
  BY TraceRow, KickedRowType
<1>2. requeued \in Trace
  <2>1. requeued = [t EXCEPT !.tasks = [t.tasks EXCEPT ![id] = row]]
    BY TraceRow DEF Trace, Task
  <2>2. [t.tasks EXCEPT ![id] = row] \in [TaskIds -> Task]
    BY <1>1, TraceRow
  <2> QED BY <2>1, <2>2, RowsType
<1>3. AdvanceWorkRevision(requeued) \in Trace
  BY <1>2, AdvanceType
<1>4. parked \in Trace
  <2>1. NoRow \in Task
    BY DEF NoRow, Task, Status, Phase, Workspace
  <2>2. [t.tasks EXCEPT ![id] = NoRow] \in [TaskIds -> Task]
    BY <2>1, TraceRow
  <2>3. [task |-> id, bee |-> bee] \in Kick
    BY DEF Kick
  <2> QED BY <2>2, <2>3 DEF Trace
<1> HIDE DEF requeued, parked
<1>5. /\ DropStaleKick(requeued) \in Trace
      /\ DropStaleKick(AdvanceWorkRevision(requeued)) \in Trace
      /\ DropStaleKick(parked) \in Trace
  BY <1>2, <1>3, <1>4, DropStaleKickType
<1> QED
  BY <1>5 DEF ReduceTaskReady, requeued, parked

LEMMA StampedRowType ==
  ASSUME NEW t \in Trace, NEW id \in TaskIds, NEW now \in Stamps
  PROVE  StampedRow(t, id, now) \in Task
BY TraceRow DEF StampedRow, Task

LEMMA MovedType ==
  ASSUME NEW t \in Trace, NEW id \in TaskIds, NEW now \in Stamps,
         NEW status \in Status
  PROVE  [t EXCEPT !.tasks[id] =
            [StampedRow(t, id, now) EXCEPT !.status = status]] \in Trace
<1> DEFINE row == [StampedRow(t, id, now) EXCEPT !.status = status]
<1>1. row \in Task
  BY StampedRowType, RowType
<1> HIDE DEF row
<1>2. [t.tasks EXCEPT ![id] = row] \in [TaskIds -> Task]
  BY <1>1, TraceRow
<1>3. [t EXCEPT !.tasks[id] = row] = [t EXCEPT !.tasks = [t.tasks EXCEPT ![id] = row]]
  BY DEF Trace
<1> QED
  BY <1>2, <1>3, RowsType DEF row

LEMMA StatusType ==
  ASSUME NEW t \in Trace, NEW id \in TaskIds, NEW status \in Status,
         NEW now \in Stamps
  PROVE  ReduceTaskStatus(t, id, status, now) \in Trace
<1> DEFINE moved == [t EXCEPT !.tasks[id] =
                       [StampedRow(t, id, now) EXCEPT !.status = status]]
           back == /\ IsGoalWork(t.tasks[id])
                   /\ IsReworkReturn(t.tasks[id].status)
                   /\ status \in {"ready", "running"}
           reopened == IF back THEN AdvanceWorkRevision(moved) ELSE moved
           closed == IF status = "running" THEN ConsumeTaskEntries(reopened, id)
                     ELSE reopened
<1>1. moved \in Trace
  BY MovedType
<1>2. reopened \in Trace
  <2> HIDE DEF moved, back
  <2> QED BY <1>1, AdvanceType
<1>3. closed \in Trace
  <2> HIDE DEF reopened
  <2> QED BY <1>2, CloseEntriesType DEF ConsumeTaskEntries, EntryStatus
<1>4. ReduceTaskStatus(t, id, status, now) =
        IF t.killed THEN t ELSE DropStaleKick(closed)
  BY DEF ReduceTaskStatus
<1> HIDE DEF closed
<1> QED
  BY <1>3, <1>4, DropStaleKickType

LEMMA CompletedType ==
  ASSUME NEW t \in Trace, NEW id \in TaskIds, NEW status \in Status,
         NEW now \in Stamps
  PROVE  ReduceTaskCompleted(t, id, status, now) \in Trace
BY MovedType, PromoteParkedType, PromoteFirstEligibleType, DropStaleKickType
   DEF ReduceTaskCompleted

LEMMA ProposalType ==
  ASSUME NEW t \in Trace, NEW id \in TaskIds, NEW w \in Workspace,
         NEW now \in Stamps
  PROVE  ReduceCodeProposal(t, id, w, now) \in Trace
<1> DEFINE old == StampedRow(t, id, now)
           row == [old EXCEPT !.workspace = w,
                              !.status = IF @ = "absent" THEN "unset" ELSE @]
<1>1. old \in Task
  BY StampedRowType
<1>2. row \in Task
  <2> HIDE DEF old
  <2> QED BY <1>1 DEF Task, Status
<1>3. ReduceCodeProposal(t, id, w, now) =
        DropStaleKick([t EXCEPT !.tasks[id] = row])
  BY DEF ReduceCodeProposal
<1> HIDE DEF row
<1>4. [t.tasks EXCEPT ![id] = row] \in [TaskIds -> Task]
  BY <1>2, TraceRow
<1>5. [t EXCEPT !.tasks[id] = row] = [t EXCEPT !.tasks = [t.tasks EXCEPT ![id] = row]]
  BY DEF Trace
<1> QED
  BY <1>3, <1>4, <1>5, RowsType, DropStaleKickType

LEMMA KillType ==
  ASSUME NEW t \in Trace
  PROVE  ReduceSystemKill(t) \in Trace
<1> DEFINE rows == [id \in TaskIds |->
                IF Killable(t.tasks[id].status)
                THEN [t.tasks[id] EXCEPT !.status = "cancelled"]
                ELSE t.tasks[id]]
<1>1. rows \in [TaskIds -> Task]
  <2>1. \A id \in TaskIds : [t.tasks[id] EXCEPT !.status = "cancelled"] \in Task
    BY TraceRow, RowType DEF Status
  <2> QED BY <2>1, TraceRow
<1> DEFINE stopped == AbandonEntries(t)
<1>2. stopped \in Trace
  BY CloseEntriesType DEF AbandonEntries, EntryStatus
<1>3. ReduceSystemKill(t) = IF t.killed THEN t
        ELSE [stopped EXCEPT !.killed = TRUE, !.parked = NoKick,
                             !.tasks = rows]
  BY DEF ReduceSystemKill
<1> HIDE DEF rows, stopped
<1>4. [stopped EXCEPT !.killed = TRUE, !.parked = NoKick, !.tasks = rows] \in Trace
  BY <1>1, <1>2 DEF Trace
<1> QED
  BY <1>3, <1>4

LEMMA AddType ==
  ASSUME NEW t \in Trace, NEW amount \in Nat
  PROVE  ReduceEnergyAdd(t, amount) \in Trace
<1> DEFINE more == IF t.budget > 0 THEN t.added + amount ELSE t.added
<1>a. more \in Nat /\ t.remaining + amount \in Nat
  BY DEF Trace
<1> HIDE DEF more
<1>b. [t EXCEPT !.remaining = t.remaining + amount, !.added = more] \in Trace
  BY <1>a DEF Trace
<1>1. [t EXCEPT !.remaining = @ + amount,
                !.added = IF t.budget > 0 THEN @ + amount ELSE @] \in Trace
  BY <1>b DEF more
<1> QED
  BY <1>1, DropStaleKickType DEF ReduceEnergyAdd

LEMMA ConsumeType ==
  ASSUME NEW t \in Trace, NEW amount \in Nat, CanConsume(t, amount)
  PROVE  ReduceEnergyConsume(t, amount) \in Trace
<1>a. t.remaining - amount \in Nat
  BY DEF Trace, CanConsume
<1>1. [t EXCEPT !.remaining = @ - amount] \in Trace
  BY <1>a DEF Trace
<1> QED
  BY <1>1, DropStaleKickType DEF ReduceEnergyConsume

LEMMA StipendType ==
  ASSUME NEW t \in Trace, NEW amount \in Nat
  PROVE  ReduceEnergyStipend(t, amount) \in Trace
<1> DEFINE superseded == {id \in TaskIds :
                /\ t.tasks[id].status = "ready"
                /\ \E i \in HoneyWaiting(t) : WaitsFor(t, i, id)}
           rows == [id \in TaskIds |->
                IF id \in superseded
                THEN [t.tasks[id] EXCEPT !.status = "skipped"]
                ELSE t.tasks[id]]
           closed == CloseEntries(t, HoneyWaiting(t), "abandoned")
<1>1. closed \in Trace
  BY CloseEntriesType DEF EntryStatus
<1>2. rows \in [TaskIds -> Task]
  <2>1. \A id \in TaskIds : [t.tasks[id] EXCEPT !.status = "skipped"] \in Task
    BY TraceRow, RowType DEF Status
  <2> HIDE DEF superseded
  <2> QED BY <2>1, TraceRow
<1>3. SupersedeEntries(t) = [closed EXCEPT !.tasks = rows]
  BY DEF SupersedeEntries
<1> HIDE DEF closed, rows
<1>4. [SupersedeEntries(t) EXCEPT !.remaining = amount, !.pause = "none"] \in Trace
  BY <1>1, <1>2, <1>3 DEF Trace
<1> QED
  BY <1>4, DropStaleKickType DEF ReduceEnergyStipend

LEMMA SeedType ==
  ASSUME NEW t \in Trace
  PROVE  EnsureEnergySeed(t) \in Trace /\ MarkEnergySeedPublished(t) \in Trace
BY BudgetAssumption DEF EnsureEnergySeed, MarkEnergySeedPublished, Trace

LEMMA DeferType ==
  ASSUME NEW t \in Trace, NEW id \in DispatchId, NEW held \in BOOLEAN,
         NEW analysis \in BOOLEAN
  PROVE  DeferPendingDispatch(t, id, held, analysis) \in Trace
<1> DEFINE e == [id |-> id, held |-> held, analysis |-> analysis,
                 status |-> "pending"]
<1>1. e \in Entry
  BY DEF Entry, EntryStatus
<1> HIDE DEF e
<1>2. Append(t.pending, e) \in Seq(Entry)
  BY <1>1 DEF Trace
<1>3. [t EXCEPT !.pending = Append(@, e),
                !.pause = IF ~held /\ t.remaining = 0 /\ @ = "none"
                          THEN "open" ELSE @] \in Trace
  BY <1>2 DEF Trace
<1> QED
  BY <1>3 DEF DeferPendingDispatch, e

LEMMA ResolveType ==
  ASSUME NEW t \in Trace, NEW id, NEW status \in EntryStatus
  PROVE  /\ ResolvePendingDispatch(t, id, status) \in Trace
         /\ MarkPendingDispatchUnresolved(t, id) \in Trace
BY CloseEntriesType
   DEF ResolvePendingDispatch, MarkPendingDispatchUnresolved, EntryStatus

LEMMA EpisodeType ==
  ASSUME NEW t \in Trace, NEW revision \in Nat
  PROVE  /\ ClaimEnergyPausePublished(t) \in Trace
         /\ CloseEnergyPause(t) \in Trace
         /\ RecordWorkCompletion(t, revision) \in Trace
         /\ MarkWorkCompletionPublished(t) \in Trace
BY DEF ClaimEnergyPausePublished, CloseEnergyPause, RecordWorkCompletion,
       MarkWorkCompletionPublished, Trace

LEMMA DispatchIdType ==
  /\ \A id \in TaskIds, bee \in Bees : TaskDispatch(id, bee) \in DispatchId
  /\ \A s \in Sources, bee \in Bees : DirectDispatch(s, bee) \in DispatchId
BY DEF TaskDispatch, DirectDispatch, DispatchId
==============================================================================
