------------------------- MODULE TrailDeliveryProofs -------------------------
(***************************************************************************)
(* Theorems about TrailDelivery, for every set of tasks, every policy and  *)
(* every bound on calls, faults and closing rounds.                        *)
(***************************************************************************)
EXTENDS TrailDelivery, LedgerTypes, WellFoundedInduction, TLAPS

-----------------------------------------------------------------------------
(* What an event does to a snapshot *)

\* Only a completion check changes the recorded completion.
Frame(t, u) ==
    u \in Trace /\ u.completion = t.completion /\ t.workRevision <= u.workRevision

Starts(before, after) == before = "planned" /\ after = "ready"
RowStep(e, r, before, after) ==
    \/ after = before \/ Starts(before, after)
    \/ /\ e.id = r
       /\ \/ e.kind = "plan" /\ after \in {"planned", "ready"}
          \/ e.kind = "ready" /\ before # "absent" /\ (before = "unset" \/ after = "ready")
          \/ e.kind = "status" /\ after = e.status
          \/ e.kind = "completed" /\ after = "completed"
          \/ e.kind = "proposal" /\ before = "absent"

LEMMA DropFrame ==
  ASSUME NEW t \in Trace
  PROVE  /\ DropStaleKick(t).tasks = t.tasks
         /\ DropStaleKick(t).completion = t.completion
         /\ DropStaleKick(t).workRevision = t.workRevision
BY DEF DropStaleKick, Trace

LEMMA ParkedFrame ==
  ASSUME NEW t \in Trace
  PROVE  /\ PromoteParked(t).completion = t.completion
         /\ PromoteParked(t).workRevision = t.workRevision
         /\ \A r \in TaskIds :
                LET before == t.tasks[r].status
                    after == PromoteParked(t).tasks[r].status
                IN  after = before \/ Starts(before, after)
<1> DEFINE k == t.parked
           moved == [t EXCEPT !.tasks[k.task].status = "ready",
                              !.tasks[k.task].bee = Overlay(@, k.bee),
                              !.parked = NoKick]
<1>1. PromoteParked(t) = t \/ (PromoteParked(t) = moved /\ IsFirstEligible(t, k.task))
  BY DEF PromoteParked
<1>2. moved.completion = t.completion /\ moved.workRevision = t.workRevision
  BY DEF Trace
<1>3. ASSUME IsFirstEligible(t, k.task), NEW r \in TaskIds
      PROVE  LET before == t.tasks[r].status
                 after == moved.tasks[r].status
             IN  after = before \/ Starts(before, after)
  <2>1. k.task \in TaskIds /\ t.tasks[k.task].status = "planned"
    BY <1>3 DEF IsFirstEligible, EligiblePlanned
  <2> QED BY <2>1, TraceRow DEF Trace, Task, Starts
<1> HIDE DEF moved
<1> QED BY <1>1, <1>2, <1>3

LEMMA FirstFrame ==
  ASSUME NEW t \in Trace
  PROVE  /\ PromoteFirstEligible(t).completion = t.completion
         /\ PromoteFirstEligible(t).workRevision = t.workRevision
         /\ \A r \in TaskIds :
                LET before == t.tasks[r].status
                    after == PromoteFirstEligible(t).tasks[r].status
                IN  after = before \/ Starts(before, after)
<1>1. /\ PromoteFirstEligible(t).completion = t.completion
      /\ PromoteFirstEligible(t).workRevision = t.workRevision
      /\ PromoteFirstEligible(t).tasks = [id \in TaskIds |->
            IF ~t.killed /\ ~HasReadyTask(t) /\ IsFirstEligible(t, id)
            THEN [t.tasks[id] EXCEPT !.status = "ready"] ELSE t.tasks[id]]
  BY DEF PromoteFirstEligible, Trace
<1>2. ASSUME NEW r \in TaskIds
      PROVE  LET before == t.tasks[r].status
                 after == PromoteFirstEligible(t).tasks[r].status
             IN  after = before \/ Starts(before, after)
  <2>1. CASE ~t.killed /\ ~HasReadyTask(t) /\ IsFirstEligible(t, r)
    <3>1. t.tasks[r].status = "planned"
      BY <2>1 DEF IsFirstEligible, EligiblePlanned
    <3>2. PromoteFirstEligible(t).tasks[r] = [t.tasks[r] EXCEPT !.status = "ready"]
      BY <1>1, <2>1
    <3> QED BY <3>1, <3>2, TraceRow DEF Starts, Task
  <2>2. CASE ~(~t.killed /\ ~HasReadyTask(t) /\ IsFirstEligible(t, r))
    BY <1>1, <2>2
  <2> QED BY <2>1, <2>2
<1> QED BY <1>1, <1>2

LEMMA AdvanceFrame ==
  ASSUME NEW t \in Trace
  PROVE  /\ AdvanceWorkRevision(t).tasks = t.tasks
         /\ AdvanceWorkRevision(t).completion = t.completion
         /\ t.workRevision <= AdvanceWorkRevision(t).workRevision
<1>1. t.workRevision \in Nat
  BY DEF Trace
<1>2. AdvanceWorkRevision(t).workRevision = t.workRevision + 1
  BY DEF AdvanceWorkRevision, Trace
<1>3. AdvanceWorkRevision(t).tasks = t.tasks /\ AdvanceWorkRevision(t).completion = t.completion
  BY DEF AdvanceWorkRevision, Trace
<1> QED BY <1>1, <1>2, <1>3

LEMMA SpecType ==
  ASSUME NEW id \in TaskIds
  PROVE  PlanOf({id}) \in Plan
<1>1. TaskSpecOf(id) \in TaskSpec
  BY DEF TaskSpecOf, TaskSpec
<1>2. PlanOf({id}) \in [{id} -> TaskSpec]
  BY <1>1 DEF PlanOf
<1> QED BY <1>2 DEF Plan

Moves(t, u, e) ==
    Frame(t, u) /\ \A r \in TaskIds : RowStep(e, r, t.tasks[r].status, u.tasks[r].status)

LEMMA PlanMoves ==
  ASSUME NEW t \in Trace, NEW e \in Event, e.kind = "plan"
  PROVE  Moves(t, ApplyEvent(t, e), e) /\ ApplyEvent(t, e).tasks[e.id].status # "absent"
<1> DEFINE plan == PlanOf({e.id})
           runtime == e.id \in Rounds \cup {MergeGate}
           fresh == {id \in DOMAIN plan : ~Registered(t.tasks[id])}
           rows == [id \in TaskIds |-> IF id \in fresh
                                       THEN PlannedRow(plan[id], runtime, FALSE, 1)
                                       ELSE t.tasks[id]]
           planned == [t EXCEPT !.tasks = rows]
           accepted == \E id \in fresh : IsGoalWork(planned.tasks[id])
           admitted == IF accepted THEN AdvanceWorkRevision(planned) ELSE planned
           promoted == PromoteParked(admitted)
           u == ApplyEvent(t, e)
<1>1. e.id \in TaskIds /\ plan \in Plan /\ runtime \in BOOLEAN /\ 1 \in Stamps /\ DOMAIN plan = {e.id}
  BY SpecType, DeliveryAssumption DEF Event, PlanOf
<1>2. u = ReduceTaskPlan(t, plan, runtime, FALSE, 1)
  BY DEF ApplyEvent
<1>3. u \in Trace
  <2> HIDE DEF plan, runtime
  <2> QED BY <1>1, <1>2, PlanType
<1>4. u = DropStaleKick(promoted)
  BY <1>2 DEF ReduceTaskPlan
<1>5. rows \in [TaskIds -> Task]
  <2>1. \A id \in DOMAIN plan : plan[id] \in TaskSpec
    BY <1>1 DEF Plan
  <2>2. \A spec \in TaskSpec : PlannedRow(spec, runtime, FALSE, 1) \in Task
    BY <1>1 DEF TaskSpec, PlannedRow, PlannedPhase, Task, Status, Phase, Workspace
  <2> QED BY <2>1, <2>2, TraceRow
<1>6. \A r \in TaskIds : rows[r].status = t.tasks[r].status \/ (r = e.id /\ rows[r].status = "planned")
  BY <1>1 DEF PlannedRow
<1>13. rows[e.id].status # "absent"
  BY <1>1 DEF PlannedRow, Registered
<1>7. planned \in Trace /\ planned.tasks = rows /\ planned.completion = t.completion
        /\ planned.workRevision = t.workRevision
  <2> HIDE DEF rows
  <2> QED BY <1>5, RowsType DEF Trace
<1> HIDE DEF rows, planned, accepted
<1>8. /\ admitted \in Trace /\ admitted.tasks = rows /\ admitted.completion = t.completion
      /\ t.workRevision <= admitted.workRevision
  <2>1. t.workRevision \in Nat
    BY DEF Trace
  <2>2. CASE accepted
    BY <1>7, <2>2, AdvanceType, AdvanceFrame
  <2>3. CASE ~accepted
    BY <1>7, <2>1, <2>3
  <2> QED BY <2>2, <2>3
<1> HIDE DEF admitted
<1>9. /\ promoted \in Trace /\ promoted.completion = t.completion
      /\ t.workRevision <= promoted.workRevision
      /\ \A r \in TaskIds : LET before == rows[r].status
                                after == promoted.tasks[r].status
                            IN  after = before \/ Starts(before, after)
  BY <1>8, PromoteParkedType, ParkedFrame
<1> HIDE DEF promoted
<1>10. u.tasks = promoted.tasks /\ u.completion = t.completion /\ t.workRevision <= u.workRevision
  BY <1>4, <1>9, DropFrame
<1>11. \A r \in TaskIds : RowStep(e, r, t.tasks[r].status, u.tasks[r].status)
  BY <1>6, <1>9, <1>10 DEF RowStep, Starts
<1>12. u.tasks[e.id].status # "absent"
  BY <1>1, <1>9, <1>10, <1>13 DEF Starts
<1> HIDE DEF u
<1> QED BY <1>3, <1>10, <1>11, <1>12 DEF u, Moves, Frame

LEMMA ReadyMoves ==
  ASSUME NEW t \in Trace, NEW e \in Event, e.kind = "ready"
  PROVE  Moves(t, ApplyEvent(t, e), e)
<1> DEFINE id == e.id
           requeued == [t EXCEPT !.tasks[id].status = "ready", !.tasks[id].bee = Overlay(@, NoBee)]
           parked == [t EXCEPT !.parked = [task |-> id, bee |-> NoBee], !.tasks[id] = NoRow]
           u == ApplyEvent(t, e)
<1>1. id \in TaskIds /\ u = ReduceTaskReady(t, id, NoBee)
  BY DEF Event, ApplyEvent
<1>2. u \in Trace
  <2> HIDE DEF u
  <2> QED BY <1>1, ReadyType
<1>3. /\ requeued.completion = t.completion /\ requeued.workRevision = t.workRevision
      /\ \A r \in TaskIds : requeued.tasks[r].status = IF r = id THEN "ready" ELSE t.tasks[r].status
  BY <1>1, TraceRow DEF Trace, Task
<1>4. /\ parked.completion = t.completion /\ parked.workRevision = t.workRevision
      /\ \A r \in TaskIds : parked.tasks[r].status = IF r = id THEN "absent" ELSE t.tasks[r].status
  BY <1>1, TraceRow DEF Trace, NoRow
<1>5. requeued \in Trace /\ parked \in Trace
  <2>1. [t.tasks[id] EXCEPT !.status = "ready", !.bee = Overlay(@, NoBee)] \in Task
    BY <1>1, TraceRow, KickedRowType
  <2>2. requeued = [t EXCEPT !.tasks = [t.tasks EXCEPT ![id] =
                       [t.tasks[id] EXCEPT !.status = "ready", !.bee = Overlay(@, NoBee)]]]
    BY <1>1, TraceRow DEF Trace, Task
  <2>3. requeued \in Trace
    BY <1>1, <2>1, <2>2, TraceRow, RowsType
  <2>4. NoRow \in Task /\ [task |-> id, bee |-> NoBee] \in Kick
    BY <1>1 DEF NoRow, Task, Status, Phase, Workspace, Kick
  <2>5. [t.tasks EXCEPT ![id] = NoRow] \in [TaskIds -> Task]
    BY <1>1, <2>4, TraceRow
  <2>6. parked \in Trace
    BY <2>4, <2>5 DEF Trace
  <2> QED BY <2>3, <2>6
<1> HIDE DEF requeued, parked
<1>6. \/ u = t
      \/ ~Registered(t.tasks[id]) /\ u = DropStaleKick(parked)
      \/ Registered(t.tasks[id]) /\ u = DropStaleKick(requeued)
      \/ Registered(t.tasks[id]) /\ u = DropStaleKick(AdvanceWorkRevision(requeued))
  BY <1>1 DEF ReduceTaskReady, requeued, parked
<1>7. u.completion = t.completion /\ t.workRevision <= u.workRevision
  <2>1. t.workRevision \in Nat
    BY DEF Trace
  <2> HIDE DEF u
  <2> QED BY <1>3, <1>4, <1>5, <1>6, <2>1, DropFrame, AdvanceFrame, AdvanceType
<1>8. \/ u.tasks = t.tasks
      \/ ~Registered(t.tasks[id]) /\ u.tasks = parked.tasks
      \/ Registered(t.tasks[id]) /\ u.tasks = requeued.tasks
  <2> HIDE DEF u
  <2> QED BY <1>5, <1>6, DropFrame, AdvanceFrame, AdvanceType
<1>9. \A r \in TaskIds : RowStep(e, r, t.tasks[r].status, u.tasks[r].status)
  <2> HIDE DEF u
  <2> QED BY <1>3, <1>4, <1>8 DEF RowStep, Registered
<1> HIDE DEF u
<1> QED BY <1>2, <1>7, <1>9 DEF u, Moves, Frame

LEMMA MovedRow ==
  ASSUME NEW t \in Trace, NEW id \in TaskIds, NEW row \in Task
  PROVE  LET u == [t EXCEPT !.tasks[id] = row]
         IN  /\ u.completion = t.completion /\ u.workRevision = t.workRevision
             /\ \A r \in TaskIds : u.tasks[r].status = IF r = id THEN row.status ELSE t.tasks[r].status
BY TraceRow DEF Trace

LEMMA StatusMoves ==
  ASSUME NEW t \in Trace, NEW e \in Event, e.kind = "status"
  PROVE  Moves(t, ApplyEvent(t, e), e)
<1> DEFINE id == e.id
           row == [StampedRow(t, id, 1) EXCEPT !.status = e.status]
           moved == [t EXCEPT !.tasks[id] = row]
           back == /\ IsGoalWork(t.tasks[id])
                   /\ IsReworkReturn(t.tasks[id].status)
                   /\ e.status \in {"ready", "running"}
           reopened == IF back THEN AdvanceWorkRevision(moved) ELSE moved
           closed == IF e.status = "running" THEN ConsumeTaskEntries(reopened, id) ELSE reopened
           u == ApplyEvent(t, e)
<1>1. id \in TaskIds /\ e.status \in Status /\ 1 \in Stamps /\ u = ReduceTaskStatus(t, id, e.status, 1)
  BY DeliveryAssumption DEF Event, ApplyEvent
<1>2. row \in Task /\ row.status = e.status
  <2>1. StampedRow(t, id, 1) \in Task
    BY <1>1, StampedRowType
  <2> QED BY <1>1, <2>1, RowType DEF Task
<1>3. u \in Trace
  <2> HIDE DEF u
  <2> QED BY <1>1, StatusType
<1>4. moved \in Trace
  BY <1>1, MovedType
<1>5. /\ moved.completion = t.completion /\ moved.workRevision = t.workRevision
      /\ \A r \in TaskIds : moved.tasks[r].status = IF r = id THEN e.status ELSE t.tasks[r].status
  <2> HIDE DEF row
  <2> QED BY <1>1, <1>2, MovedRow
<1>6. u = IF t.killed THEN t ELSE DropStaleKick(closed)
  BY <1>1 DEF ReduceTaskStatus
<1> HIDE DEF moved, back, u, row
<1>7. /\ reopened \in Trace /\ reopened.tasks = moved.tasks
      /\ reopened.completion = t.completion /\ t.workRevision <= reopened.workRevision
  <2>1. t.workRevision \in Nat
    BY DEF Trace
  <2>2. CASE back
    <3>1. reopened = AdvanceWorkRevision(moved)
      BY <2>2
    <3> HIDE DEF reopened
    <3> QED BY <1>4, <1>5, <3>1, AdvanceType, AdvanceFrame
  <2>3. CASE ~back
    BY <1>4, <1>5, <2>1, <2>3
  <2> QED BY <2>2, <2>3
<1> HIDE DEF reopened
<1>8. /\ closed \in Trace /\ closed.tasks = moved.tasks
      /\ closed.completion = t.completion /\ closed.workRevision = reopened.workRevision
  <2>1. /\ ConsumeTaskEntries(reopened, id) \in Trace
        /\ ConsumeTaskEntries(reopened, id) =
              [reopened EXCEPT !.pending = ConsumeTaskEntries(reopened, id).pending]
    BY <1>7, CloseEntriesType DEF ConsumeTaskEntries, EntryStatus
  <2>2. /\ ConsumeTaskEntries(reopened, id).tasks = reopened.tasks
        /\ ConsumeTaskEntries(reopened, id).completion = reopened.completion
        /\ ConsumeTaskEntries(reopened, id).workRevision = reopened.workRevision
    BY <1>7, <2>1 DEF Trace
  <2> QED BY <1>7, <2>1, <2>2
<1> HIDE DEF closed
<1>9. u.completion = t.completion /\ t.workRevision <= u.workRevision
  <2>1. t.workRevision \in Nat
    BY DEF Trace
  <2> QED BY <1>6, <1>7, <1>8, <2>1, DropFrame
<1>10. u.tasks = t.tasks \/ u.tasks = moved.tasks
  BY <1>6, <1>8, DropFrame
<1>11. \A r \in TaskIds : RowStep(e, r, t.tasks[r].status, u.tasks[r].status)
  BY <1>5, <1>10 DEF RowStep
<1> QED BY <1>3, <1>9, <1>11 DEF u, Moves, Frame

LEMMA CompletedMoves ==
  ASSUME NEW t \in Trace, NEW e \in Event, e.kind = "completed"
  PROVE  Moves(t, ApplyEvent(t, e), e)
<1> DEFINE id == e.id
           row == [StampedRow(t, id, 1) EXCEPT !.status = "completed"]
           moved == [t EXCEPT !.tasks[id] = row]
           u == ApplyEvent(t, e)
<1>1. id \in TaskIds /\ 1 \in Stamps /\ u = ReduceTaskCompleted(t, id, "completed", 1)
  BY DeliveryAssumption DEF Event, ApplyEvent
<1>2. row \in Task /\ row.status = "completed"
  <2>1. StampedRow(t, id, 1) \in Task
    BY <1>1, StampedRowType
  <2>2. "completed" \in Status
    BY DEF Status
  <2> QED BY <2>1, <2>2, RowType DEF Task
<1>3. moved \in Trace
  BY <1>1, MovedType DEF Status
<1>4. /\ moved.completion = t.completion /\ moved.workRevision = t.workRevision
      /\ \A r \in TaskIds : moved.tasks[r].status = IF r = id THEN "completed" ELSE t.tasks[r].status
  <2> HIDE DEF row
  <2> QED BY <1>1, <1>2, MovedRow
<1>5. u = IF t.killed THEN t ELSE DropStaleKick(PromoteFirstEligible(PromoteParked(moved)))
  BY <1>1 DEF ReduceTaskCompleted
<1> HIDE DEF moved, u, row
<1> DEFINE v == PromoteParked(moved)
           w == PromoteFirstEligible(v)
<1>6. /\ v \in Trace /\ v.completion = t.completion /\ v.workRevision = t.workRevision
      /\ \A r \in TaskIds : LET before == moved.tasks[r].status
                                after == v.tasks[r].status
                            IN  after = before \/ Starts(before, after)
  BY <1>3, <1>4, PromoteParkedType, ParkedFrame
<1> HIDE DEF v
<1>7. /\ w \in Trace /\ w.completion = t.completion /\ w.workRevision = t.workRevision
      /\ \A r \in TaskIds : LET before == v.tasks[r].status
                                after == w.tasks[r].status
                            IN  after = before \/ Starts(before, after)
  BY <1>6, PromoteFirstEligibleType, FirstFrame
<1> HIDE DEF w
<1>8. u = t \/ u = DropStaleKick(w)
  BY <1>5 DEF v, w
<1>9. /\ u \in Trace /\ u.completion = t.completion /\ t.workRevision <= u.workRevision
      /\ u.tasks = t.tasks \/ u.tasks = w.tasks
  <2>1. t.workRevision \in Nat
    BY DEF Trace
  <2> QED BY <1>7, <1>8, <2>1, DropFrame, DropStaleKickType
<1>10. \A r \in TaskIds : RowStep(e, r, t.tasks[r].status, u.tasks[r].status)
  <2> SUFFICES ASSUME NEW r \in TaskIds, u.tasks = w.tasks
               PROVE  RowStep(e, r, t.tasks[r].status, u.tasks[r].status)
    BY <1>9 DEF RowStep
  <2>1. CASE r = id
    <3>1. moved.tasks[r].status = "completed"
      BY <1>4, <2>1
    <3>2. u.tasks[r].status = "completed"
      BY <1>6, <1>7, <3>1 DEF Starts
    <3> QED BY <2>1, <3>2 DEF RowStep
  <2>2. CASE r # id
    <3>1. moved.tasks[r].status = t.tasks[r].status
      BY <1>4, <2>2
    <3> QED BY <1>6, <1>7, <3>1 DEF RowStep, Starts
  <2> QED BY <2>1, <2>2
<1> QED BY <1>9, <1>10 DEF u, Moves, Frame

LEMMA ProposalMoves ==
  ASSUME NEW t \in Trace, NEW e \in Event, e.kind = "proposal"
  PROVE  Moves(t, ApplyEvent(t, e), e)
<1> DEFINE id == e.id
           old == StampedRow(t, id, 1)
           row == [old EXCEPT !.workspace = "isolated",
                              !.status = IF @ = "absent" THEN "unset" ELSE @]
           moved == [t EXCEPT !.tasks[id] = row]
           u == ApplyEvent(t, e)
<1>1. id \in TaskIds /\ 1 \in Stamps /\ u = ReduceCodeProposal(t, id, "isolated", 1)
  BY DeliveryAssumption DEF Event, ApplyEvent
<1>2. old \in Task /\ old.status = t.tasks[id].status
  BY <1>1, StampedRowType, TraceRow DEF StampedRow, Task
<1>3. u \in Trace
  <2> HIDE DEF u
  <2> QED BY <1>1, ProposalType DEF Workspace
<1>4. u = DropStaleKick(moved)
  BY <1>1 DEF ReduceCodeProposal
<1> HIDE DEF old, u
<1>5. row \in Task /\ row.status = IF old.status = "absent" THEN "unset" ELSE old.status
  BY <1>2 DEF Task, Status, Workspace
<1> HIDE DEF row
<1>6. moved \in Trace
  <2>1. [t.tasks EXCEPT ![id] = row] \in [TaskIds -> Task]
    BY <1>1, <1>5, TraceRow
  <2>2. moved = [t EXCEPT !.tasks = [t.tasks EXCEPT ![id] = row]]
    BY DEF Trace
  <2> QED BY <2>1, <2>2, RowsType
<1>7. /\ moved.completion = t.completion /\ moved.workRevision = t.workRevision
      /\ \A r \in TaskIds : moved.tasks[r].status = IF r = id THEN row.status ELSE t.tasks[r].status
  BY <1>1, <1>5, MovedRow
<1> HIDE DEF moved
<1>8. u.completion = t.completion /\ t.workRevision <= u.workRevision /\ u.tasks = moved.tasks
  <2>1. t.workRevision \in Nat
    BY DEF Trace
  <2> QED BY <1>4, <1>6, <1>7, <2>1, DropFrame
<1>9. \A r \in TaskIds : RowStep(e, r, t.tasks[r].status, u.tasks[r].status)
  BY <1>2, <1>5, <1>7, <1>8 DEF RowStep
<1> QED BY <1>3, <1>8, <1>9 DEF u, Moves, Frame

\* Whatever an event is, it keeps the recorded completion, and moves other
\* rows than its own by promotion only.
LEMMA EventMoves ==
  ASSUME NEW t \in Trace, NEW e \in Event
  PROVE  Moves(t, ApplyEvent(t, e), e)
<1>1. CASE e.kind \in {"plan", "ready", "status", "completed", "proposal"}
  BY <1>1, PlanMoves, ReadyMoves, StatusMoves, CompletedMoves, ProposalMoves
<1>2. CASE e.kind = "feedback"
  <2>1. ApplyEvent(t, e) = t /\ t.workRevision \in Nat
    BY <1>2 DEF ApplyEvent, Trace
  <2> QED BY <2>1 DEF Moves, Frame, RowStep
<1> QED BY <1>1, <1>2 DEF Event

-----------------------------------------------------------------------------
(* The inductive invariant *)

\* TypeOK holds as long as MaxRevision is no limit to the trail.
Bounded == trace.workRevision <= MaxRevision

Types ==
    /\ trace \in Trace
    /\ stamp \in [TaskIds -> Nat] /\ clock \in Nat
    /\ stream \in Seq(Event)
    /\ proc \in [Procs -> Process]
    /\ due \in Nat /\ barrier \in Checkers \cup {Free}
    /\ git \in [branch: SUBSET Runnable, merged: SUBSET Runnable,
                pushed: SUBSET Runnable, worktree: BOOLEAN]
    /\ forge \in [delivery: Deliveries, pr: {"none", "open", "merged"}, entry: BOOLEAN]
    /\ evidence \in [Revisions -> Evidence]
    /\ recordedBy \in Procs \cup {Free}
    /\ heard \subseteq Announcement
    /\ calls \in 0..MaxCalls /\ faults \in 0..MaxFaults

\* The rounds before the n-th have all completed, or proposed, once.
Opened(n) == \A m \in 1..(n - 1) : stamp[Closing[m]] >= 1
Openable(id) == \E n \in 1..Len(Closing) : id = Closing[n] /\ Opened(n)
RowsOK ==
    \A n \in 1..Len(Closing) :
        /\ StatusOf(Closing[n]) # "unset"
        /\ StatusOf(Closing[n]) = "completed" => stamp[Closing[n]] >= 1
        /\ StatusOf(Closing[n]) # "absent" => Opened(n)

\* An event of a closing round finds its row, or may open it.
Lawful(e) ==
    /\ e.at >= 1
    /\ e.kind = "status" =>
          e.status \in {"ready", "running", "failed", "waiting_review", "cancelled"}
    /\ e.id \in Rounds => StatusOf(e.id) # "absent" \/ (e.kind = "plan" /\ Openable(e.id))
StreamOK == \A i \in 1..Len(stream) : Lawful(stream[i])

\* What a process holds: a decision of the gate that others may have overtaken,
\* the task an operator named, the row it runs.
Named(p, q) ==
    /\ p \in Rounds /\ q.pc # "idle" => StatusOf(p) # "absent"
    /\ q.pc = "plan_closing" => q.id \in Rounds /\ Openable(q.id)
    /\ q.pc = "ready_closing" => q.id \in Rounds /\ StatusOf(q.id) # "absent"
    /\ q.pc \in {"plan_merge", "open_merge", "empty_merge"} => q.id = MergeGate
    /\ q.pc = "reopen" => q.id \in Reviewed
    /\ p = Cli /\ q.pc \in {"capture", "fill", "deliver", "enter", "complete", "discard"} =>
          q.id \in Reviewed \cup {MergeGate}
NamesOK == \A p \in Procs : Named(p, proc[p])
LoopHolds == proc[Loop].pc # "idle" => stream # <<>>

WorkOK == clock >= 1 /\ RowsOK /\ StreamOK /\ NamesOK /\ LoopHolds

Certifying == {"capture", "fill", "record", "announce", "mark"}
Current == [revision |-> trace.completion.revision, by |-> recordedBy]
Captured(r) == r \in Revisions /\ evidence[r].by # Free
StagesOK ==
    \A p \in Procs :
        /\ proc[p].pc \in {"capture", "fill"} => p \in Checkers \cup {Cli, Poll}
        /\ proc[p].pc \in {"record", "announce", "mark"} => p \in Checkers
        /\ proc[p].pc = "capture" => proc[p].revision \in Revisions
        /\ proc[p].pc \in {"fill", "record"} => Captured(proc[p].revision)
        /\ proc[p].pc = "record" => Readable(evidence[proc[p].revision])
\* Who is certifying holds the barrier, what it certifies is new, and nothing
\* is certified while an announcement is owed.
HoldersOK ==
    \A p \in Checkers :
        /\ proc[p].pc \in Certifying => barrier = p
        /\ proc[p].pc \in {"capture", "fill", "record"} =>
              /\ ~Unpublished
              /\ trace.completion.revision < proc[p].revision
              /\ proc[p].revision <= trace.workRevision
        /\ proc[p].pc \in {"announce", "mark"} => Unpublished
        /\ proc[p].pc = "mark" => Current \in heard
RecordOK ==
    /\ trace.completion.revision <= trace.workRevision
    /\ trace.completion.revision # 0 =>
          /\ Captured(trace.completion.revision)
          /\ Readable(evidence[trace.completion.revision])
          /\ evidence[trace.completion.revision].by = recordedBy
    /\ trace.completion.published => Current \in heard
    /\ AnnouncedIsEvidenced
CertOK == StagesOK /\ HoldersOK /\ RecordOK

IInv == Types /\ WorkOK /\ CertOK

-----------------------------------------------------------------------------
(* Constants *)

LEMMA ClosingIs ==
  /\ Len(Closing) \in Nat
  /\ \A n \in 1..Len(Closing) : Closing[n] \in Rounds
  /\ \A id \in Rounds : \E n \in 1..Len(Closing) : id = Closing[n]
  /\ Rounds \subseteq TaskIds /\ Runnable \subseteq TaskIds /\ Runnable \subseteq Procs
  /\ Reviewed \subseteq TaskIds /\ Reviewed \cap Rounds = {}
  /\ MergeGate \in TaskIds /\ MergeGate \notin Rounds
<1>1. Closing \in Seq(TaskIds)
  BY DeliveryAssumption
<1>2. Len(Closing) \in Nat /\ DOMAIN Closing = 1..Len(Closing)
  BY <1>1
<1>3. Rounds = {Closing[n] : n \in 1..Len(Closing)}
  BY <1>2 DEF Rounds, Range
<1>4. Rounds \subseteq TaskIds /\ Runnable \subseteq TaskIds /\ Runnable \subseteq Procs
  BY DeliveryAssumption DEF Runnable, Procs
<1>5. Reviewed \subseteq Work /\ Work \subseteq Goal /\ Goal \subseteq Runnable
  BY DeliveryAssumption DEF Goal, Runnable
<1>6. Reviewed \subseteq TaskIds /\ Reviewed \cap Rounds = {}
  BY <1>4, <1>5, DeliveryAssumption
<1>7. MergeGate \in TaskIds /\ MergeGate \notin Rounds
  BY DeliveryAssumption DEF Runnable
<1> QED BY <1>2, <1>3, <1>4, <1>6, <1>7

LEMMA Actors ==
  /\ {Loop, Leaving, Cli, Poll} \subseteq Procs /\ Free \notin Procs
  /\ Checkers \subseteq Procs /\ Cli \notin Checkers /\ Poll \notin Checkers
  /\ Loop # Leaving /\ Cli # Poll /\ Cli # Loop /\ Poll # Loop /\ Cli # Leaving /\ Poll # Leaving
  /\ {Loop, Leaving, Cli, Poll} \cap Runnable = {}
BY DeliveryAssumption, ClosingIs DEF Procs, Checkers

-----------------------------------------------------------------------------
(* The work: rows, events and decisions *)

\* What only ever grows.
Grows ==
    /\ Frame(trace, trace') /\ stamp' \in [TaskIds -> Nat]
    /\ \A r \in Rounds : StatusOf(r) # "absent" => trace'.tasks[r].status # "absent"
    /\ \A r \in TaskIds : stamp[r] >= 1 => stamp'[r] >= 1

LEMMA StillGrows ==
  ASSUME Types, UNCHANGED <<trace, stamp>>
  PROVE  Grows
<1>1. trace.workRevision \in Nat
  BY DEF Types, Trace
<1> QED BY <1>1 DEF Types, Grows, Frame, StatusOf

LEMMA OpenedGrows ==
  ASSUME Types, Grows
  PROVE  /\ \A n \in 1..Len(Closing) : Opened(n) => Opened(n)'
         /\ \A id \in Rounds : Openable(id) => Openable(id)'
         /\ \A id \in Rounds : StatusOf(id) # "absent" => StatusOf(id)' # "absent"
<1>1. \A n \in 1..Len(Closing) : Opened(n) => Opened(n)'
  BY ClosingIs DEF Opened, Grows
<1>2. \A id \in Rounds : Openable(id) => Openable(id)'
  BY <1>1 DEF Openable
<1> QED BY <1>1, <1>2 DEF Grows, StatusOf

LEMMA LawfulGrows ==
  ASSUME Types, Grows, NEW e, Lawful(e)
  PROVE  Lawful(e)'
BY OpenedGrows DEF Lawful

LEMMA NamedGrows ==
  ASSUME Types, Grows, NEW p, NEW q, Named(p, q)
  PROVE  Named(p, q)'
BY OpenedGrows DEF Named

LEMMA NameKept ==
  ASSUME Types, WorkOK, Grows, NEW p \in Procs, proc'[p] = proc[p]
  PROVE  Named(p, proc[p])'
<1>1. Named(p, proc[p])
  BY DEF WorkOK, NamesOK
<1>2. PICK q : q = proc[p]
  OBVIOUS
<1>3. Named(p, q)'
  BY <1>1, <1>2, NamedGrows
<1> QED BY <1>2, <1>3 DEF Named, StatusOf, Openable, Opened

LEMMA WriteIs ==
  ASSUME Types, RowsOK, NEW e \in Event, Lawful(e), Write(e)
  PROVE  Grows /\ RowsOK'
<1>1. Moves(trace, trace', e)
  BY EventMoves DEF Write, Types
<1>2. stamp' = Stamped(e) /\ e.id \in TaskIds /\ e.at \in Nat /\ e.at >= 1
  BY DEF Write, Event, Lawful
<1>3. /\ stamp' \in [TaskIds -> Nat]
      /\ \A r \in TaskIds : stamp[r] >= 1 => stamp'[r] >= 1
  BY <1>2 DEF Stamped, Types
<1>4. ASSUME NEW n \in 1..Len(Closing)
      PROVE  LET r == Closing[n] IN
             /\ StatusOf(r) # "absent" => trace'.tasks[r].status # "absent"
             /\ trace'.tasks[r].status # "unset"
             /\ trace'.tasks[r].status = "completed" => stamp'[r] >= 1
             /\ trace'.tasks[r].status # "absent" => Opened(n)
  <2> DEFINE r == Closing[n]
             before == trace.tasks[r].status
             after == trace'.tasks[r].status
  <2>1. r \in Rounds /\ r \in TaskIds
    BY ClosingIs
  <2>2. RowStep(e, r, before, after)
    BY <1>1, <2>1 DEF Moves
  <2>3. /\ before # "unset"
        /\ before = "completed" => stamp[r] >= 1
        /\ before # "absent" => Opened(n)
    BY DEF RowsOK, StatusOf
  <2>4. e.id = r => before # "absent" \/ (e.kind = "plan" /\ Opened(n))
    <3>1. ASSUME e.id = r, e.kind = "plan", Openable(r) PROVE Opened(n)
      BY <3>1, DeliveryAssumption DEF Openable
    <3> QED BY <2>1, <3>1 DEF Lawful, StatusOf
  <2>5. e.id = r /\ e.kind = "completed" => stamp'[r] >= 1
    BY <1>2, <2>1 DEF Stamped, Types
  <2>6. e.kind = "status" => e.status \in {"ready", "running", "failed", "waiting_review", "cancelled"}
    BY DEF Lawful
  <2> HIDE DEF r, before, after
  <2>7. before # "absent" => after # "absent"
    BY <2>2, <2>3, <2>6 DEF RowStep, Starts
  <2>8. \/ after = before \/ after \in {"planned", "ready"}
        \/ e.id = r /\ e.kind = "status" /\ after = e.status
        \/ e.id = r /\ e.kind = "completed" /\ after = "completed"
    <3>1. CASE after = before \/ Starts(before, after)
      BY <3>1 DEF Starts
    <3>2. CASE e.id = r /\ e.kind = "plan" /\ after \in {"planned", "ready"}
      BY <3>2
    <3>3. CASE e.id = r /\ e.kind = "ready" /\ (before = "unset" \/ after = "ready")
      BY <2>3, <3>3
    <3>4. CASE e.id = r /\ e.kind = "proposal" /\ before = "absent"
      BY <2>4, <3>4
    <3> QED BY <2>2, <3>1, <3>2, <3>3, <3>4 DEF RowStep
  <2>9. after # "unset" /\ (after = "completed" => stamp'[r] >= 1)
    BY <1>3, <2>1, <2>3, <2>5, <2>6, <2>8
  <2>10. after # "absent" => Opened(n)
    BY <2>2, <2>3, <2>4 DEF RowStep, Starts
  <2> QED BY <2>7, <2>9, <2>10 DEF r, before, after, StatusOf
<1>5. Grows
  <2>1. \A id \in Rounds : StatusOf(id) # "absent" => trace'.tasks[id].status # "absent"
    BY <1>4, ClosingIs
  <2> QED BY <1>1, <1>3, <2>1 DEF Moves, Grows
<1>6. RowsOK'
  BY <1>4, <1>5, OpenedGrows DEF RowsOK, StatusOf
<1> QED BY <1>5, <1>6

-----------------------------------------------------------------------------
(* A step aside: nothing is captured, recorded, announced or marked *)

\* What the invariant says of the rest by its type alone.
Elsewhere ==
    /\ due' \in Nat
    /\ git' \in [branch: SUBSET Runnable, merged: SUBSET Runnable,
                 pushed: SUBSET Runnable, worktree: BOOLEAN]
    /\ forge' \in [delivery: Deliveries, pr: {"none", "open", "merged"}, entry: BOOLEAN]
    /\ calls' \in 0..MaxCalls /\ faults' \in 0..MaxFaults
    /\ UNCHANGED records

Turns(p) == proc'[p] = proc[p] \/ (proc'[p].pc \notin Certifying /\ Named(p, proc[p])')

Aside ==
    /\ Grows /\ RowsOK' /\ clock' \in Nat /\ clock' >= 1
    /\ stream' \in Seq(Event) /\ StreamOK' /\ LoopHolds'
    /\ proc' \in [Procs -> Process] /\ \A p \in Procs : Turns(p)
    /\ barrier' \in Checkers \cup {Free}
    /\ \A p \in Checkers : proc'[p].pc \in Certifying => barrier' = barrier
    /\ Elsewhere

LEMMA AsideKeeps ==
  ASSUME IInv, Aside
  PROVE  IInv'
<1> USE DEF IInv
<1>1. Types'
  BY DEF Types, Aside, Elsewhere, Grows, Frame, records
<1>2. UNCHANGED <<evidence, recordedBy, heard>>
  BY DEF Aside, Elsewhere, records
<1>3. /\ trace'.completion = trace.completion
      /\ trace.workRevision \in Nat /\ trace'.workRevision \in Nat
      /\ trace.workRevision <= trace'.workRevision
      /\ trace.completion.revision \in Nat
  <2>1. trace \in Trace /\ trace' \in Trace
    BY DEF Types, Aside, Grows, Frame
  <2>2. \A t \in Trace : t.workRevision \in Nat /\ t.completion.revision \in Nat
    BY DEF Trace
  <2> QED BY <2>1, <2>2 DEF Aside, Grows, Frame
<1>4. WorkOK'
  <2>1. ASSUME NEW p \in Procs PROVE Named(p, proc[p])'
    <3>1. CASE proc'[p] = proc[p]
      <4>1. Grows
        BY DEF Aside
      <4> QED BY <3>1, <4>1, NameKept
    <3>2. CASE proc'[p] # proc[p]
      BY <3>2 DEF Aside, Turns
    <3> QED BY <3>1, <3>2
  <2>2. NamesOK'
    BY <2>1 DEF NamesOK
  <2> QED BY <2>2 DEF Aside, WorkOK
<1>5. ASSUME NEW p \in Procs, proc'[p].pc \in Certifying
      PROVE  proc'[p] = proc[p]
  BY <1>5 DEF Aside, Turns
<1>6. StagesOK'
  BY <1>2, <1>5 DEF CertOK, StagesOK, Captured, Readable, Certifying
<1>7. HoldersOK'
  <2> SUFFICES ASSUME NEW p \in Checkers, proc'[p].pc \in Certifying
               PROVE  /\ barrier' = p
                      /\ proc'[p].pc \in {"capture", "fill", "record"} =>
                            /\ ~Unpublished'
                            /\ trace'.completion.revision < proc'[p].revision
                            /\ proc'[p].revision <= trace'.workRevision
                      /\ proc'[p].pc \in {"announce", "mark"} => Unpublished'
                      /\ proc'[p].pc = "mark" => Current' \in heard'
    BY DEF HoldersOK, Certifying
  <2>1. p \in Procs /\ proc'[p] = proc[p] /\ proc[p] \in Process
    BY <1>5, Actors DEF Types
  <2>2. barrier' = barrier
    BY DEF Aside
  <2>3. Unpublished' = Unpublished /\ Current' = Current
    BY <1>2, <1>3 DEF Unpublished, Current
  <2>4. proc[p].revision \in Nat
    BY <2>1, DeliveryAssumption DEF Process
  <2>5. HoldersOK
    BY DEF CertOK
  <2> QED BY <1>2, <1>3, <2>1, <2>2, <2>3, <2>4, <2>5 DEF HoldersOK
<1>8. RecordOK'
  BY <1>2, <1>3 DEF CertOK, RecordOK, Current, Captured, Readable, AnnouncedIsEvidenced
<1> QED BY <1>1, <1>4, <1>6, <1>7, <1>8 DEF CertOK

LEMMA RestAside ==
  ASSUME Types, UNCHANGED <<due, outside, bounds, records>>
  PROVE  Elsewhere
BY DEF Types, Elsewhere, outside, bounds

-----------------------------------------------------------------------------
(* Events *)

LEMMA EventIs ==
  ASSUME Types, WorkOK, NEW id \in TaskIds, NEW status \in Status,
         NEW kind \in {"plan", "ready", "status", "completed", "proposal", "feedback"}
  PROVE  LET e == EventOf(kind, id, status)
         IN  /\ e \in Event /\ e.at >= 1
             /\ e.kind = kind /\ e.id = id /\ e.status = status
BY DEF EventOf, Event, Types, WorkOK

\* The stream holds only what finds its row, whatever was appended.
LEMMA StreamStays ==
  ASSUME Types, StreamOK, Grows
  PROVE  \A e : (\E i \in 1..Len(stream) : e = stream[i]) => Lawful(e)'
BY LawfulGrows DEF StreamOK

LEMMA StreamKept ==
  ASSUME Types, StreamOK, Grows, UNCHANGED stream
  PROVE  stream' \in Seq(Event) /\ StreamOK'
BY StreamStays DEF Types, StreamOK, Lawful, Openable, Opened, StatusOf

LEMMA StreamAdds ==
  ASSUME Types, StreamOK, Grows, NEW e \in Event, Lawful(e), stream' = Append(stream, e)
  PROVE  stream' \in Seq(Event) /\ StreamOK' /\ stream' # <<>>
<1>1. stream \in Seq(Event)
  BY DEF Types
<1>2. /\ Len(stream') = Len(stream) + 1 /\ Len(stream) \in Nat
      /\ \A i \in 1..Len(stream') :
            stream'[i] = IF i = Len(stream) + 1 THEN e ELSE stream[i]
  BY <1>1
<1>3. ASSUME NEW i \in 1..Len(stream')
      PROVE  \E f : f = stream'[i] /\ Lawful(f)'
  <2>1. Lawful(e)'
    BY LawfulGrows
  <2> QED BY <1>2, <2>1, StreamStays
<1>4. StreamOK'
  BY <1>3 DEF StreamOK, Lawful, Openable, Opened, StatusOf
<1> QED BY <1>1, <1>2, <1>4

LEMMA StreamDrops ==
  ASSUME Types, StreamOK, Grows, stream # <<>>, stream' = Tail(stream)
  PROVE  stream' \in Seq(Event) /\ StreamOK'
<1>1. stream \in Seq(Event)
  BY DEF Types
<1>2. /\ Len(stream') = Len(stream) - 1 /\ Len(stream) \in Nat
      /\ \A i \in 1..Len(stream') : stream'[i] = stream[i + 1]
  BY <1>1
<1>3. ASSUME NEW i \in 1..Len(stream')
      PROVE  \E f : f = stream'[i] /\ Lawful(f)'
  <2>1. i + 1 \in 1..Len(stream) /\ stream'[i] = stream[i + 1]
    BY <1>2
  <2> QED BY <2>1, StreamStays
<1>4. StreamOK'
  BY <1>3 DEF StreamOK, Lawful, Openable, Opened, StatusOf
<1> QED BY <1>1, <1>4

-----------------------------------------------------------------------------
(* Processes *)

LEMMA IdleType == Idle \in Process
BY DeliveryAssumption DEF Idle, Process, Step

LEMMA OneProc ==
  ASSUME Types, NEW p \in Procs, NEW q \in Process, proc' = [proc EXCEPT ![p] = q]
  PROVE  /\ proc' \in [Procs -> Process] /\ proc'[p] = q
         /\ \A o \in Procs : o # p => proc'[o] = proc[o]
BY DEF Types

LEMMA GotoIs ==
  ASSUME Types, NEW p \in Procs, NEW pc \in Step, Goto(p, pc)
  PROVE  /\ proc' = [proc EXCEPT ![p] = [proc[p] EXCEPT !.pc = pc]]
         /\ [proc[p] EXCEPT !.pc = pc] \in Process
         /\ [proc[p] EXCEPT !.pc = pc].pc = pc /\ [proc[p] EXCEPT !.pc = pc].id = proc[p].id
<1>1. proc[p] \in Process
  BY DEF Types
<1>2. proc' = [proc EXCEPT ![p] = [proc[p] EXCEPT !.pc = pc]]
  BY DEF Goto
<1> QED BY <1>1, <1>2 DEF Process

LEMMA DispatchIs ==
  ASSUME NEW ps \in [Procs -> Process], NEW ids, NEW host \in Procs \cup {Free}
  PROVE  /\ Dispatched(ps, ids, host) \in [Procs -> Process]
         /\ \A p \in Procs :
               \/ Dispatched(ps, ids, host)[p] = ps[p]
               \/ /\ p \in ids
                  /\ Dispatched(ps, ids, host)[p].pc = "spawned"
<1> DEFINE q == [Idle EXCEPT !.pc = "spawned", !.host = host]
<1>1. q \in Process /\ q.pc = "spawned"
  BY IdleType DEF Idle, Process, Step
<1> HIDE DEF q
<1>2. Dispatched(ps, ids, host) =
         [p \in Procs |-> IF p \in ids /\ ps[p].pc = "idle" THEN q ELSE ps[p]]
  BY DEF Dispatched, q
<1> QED BY <1>1, <1>2

\* A process that stays out of the certifying stages.
Modest(p, q) == q \in Process /\ q.pc \notin Certifying /\ Named(p, q)

LEMMA NamedNow ==
  ASSUME Types, Grows, NEW p, NEW q, Named(p, q), proc'[p] = q
  PROVE  Named(p, proc[p])'
<1>1. Named(p, q)'
  BY NamedGrows
<1> QED BY <1>1 DEF Named, StatusOf, Openable, Opened

\* One process moves on, the ledger stays as it is.
LEMMA Moving ==
  ASSUME IInv, NEW p \in Procs, NEW q, Modest(p, q), proc' = [proc EXCEPT ![p] = q],
         p = Loop /\ q.pc # "idle" => stream # <<>>,
         UNCHANGED <<trace, stamp, clock, barrier>>,
         stream' = stream \/ \E e \in Event : Lawful(e) /\ stream' = Append(stream, e),
         Elsewhere
  PROVE  Aside
<1> USE DEF IInv
<1>1. Grows
  BY StillGrows
<1>2. /\ proc' \in [Procs -> Process] /\ proc'[p] = q
      /\ \A o \in Procs : o # p => proc'[o] = proc[o]
  BY OneProc DEF Modest
<1>3. RowsOK' /\ clock' \in Nat /\ clock' >= 1
  <2>1. RowsOK'
    BY DEF WorkOK, RowsOK, StatusOf, Opened
  <2> QED BY <2>1 DEF Types, WorkOK
<1>4. stream' \in Seq(Event) /\ StreamOK' /\ (stream # <<>> => stream' # <<>>)
  <2>1. CASE stream' = stream
    BY <1>1, <2>1, StreamKept DEF WorkOK
  <2>2. CASE stream' # stream
    BY <1>1, <2>2, StreamAdds DEF WorkOK
  <2> QED BY <2>1, <2>2
<1>5. LoopHolds'
  BY <1>2, <1>4, Actors DEF WorkOK, LoopHolds
<1>6. ASSUME NEW o \in Procs PROVE Turns(o)
  <2>1. CASE o = p
    <3>1. Named(p, proc[p])'
      BY <1>1, <1>2, NamedNow DEF Modest
    <3> QED BY <1>2, <2>1, <3>1 DEF Turns, Modest
  <2> QED BY <1>2, <2>1 DEF Turns
<1> QED BY <1>1, <1>2, <1>3, <1>4, <1>5, <1>6 DEF Aside, Types

\* An event is written, and perhaps published; processes move on.
LEMMA Writing ==
  ASSUME IInv, NEW e \in Event, Lawful(e), Write(e),
         clock' \in Nat, clock' >= 1, UNCHANGED barrier,
         stream' = stream \/ stream' = Append(stream, e),
         proc' \in [Procs -> Process], \A p \in Procs : Turns(p),
         proc'[Loop].pc # "idle" => stream # <<>>,
         Elsewhere
  PROVE  Aside
<1> USE DEF IInv
<1>1. Grows /\ RowsOK'
  BY WriteIs DEF WorkOK
<1>2. stream' \in Seq(Event) /\ StreamOK' /\ (stream # <<>> => stream' # <<>>)
  <2>1. CASE stream' = stream
    BY <1>1, <2>1, StreamKept DEF WorkOK
  <2>2. CASE stream' # stream
    BY <1>1, <2>2, StreamAdds DEF WorkOK
  <2> QED BY <2>1, <2>2
<1>3. LoopHolds'
  BY <1>2 DEF LoopHolds
<1> QED BY <1>1, <1>2, <1>3 DEF Aside, Types

\* ... when it is one process that moves on.
LEMMA WritingOne ==
  ASSUME IInv, NEW e \in Event, Lawful(e), Write(e),
         clock' \in Nat, clock' >= 1, UNCHANGED barrier,
         stream' = stream \/ stream' = Append(stream, e),
         NEW p \in Procs, NEW q, Modest(p, q), proc' = [proc EXCEPT ![p] = q],
         p = Loop /\ q.pc # "idle" => stream # <<>>,
         Elsewhere
  PROVE  Aside
<1>1. Grows
  BY WriteIs DEF IInv, WorkOK
<1>2. /\ proc' \in [Procs -> Process] /\ proc'[p] = q
      /\ \A o \in Procs : o # p => proc'[o] = proc[o]
  BY OneProc DEF Modest, IInv
<1>3. ASSUME NEW o \in Procs PROVE Turns(o)
  <2>1. CASE o = p
    <3>1. Named(p, proc[p])'
      BY <1>1, <1>2, NamedNow DEF Modest, IInv
    <3> QED BY <1>2, <2>1, <3>1 DEF Turns, Modest
  <2> QED BY <1>2, <2>1 DEF Turns
<1>4. proc'[Loop].pc # "idle" => stream # <<>>
  BY <1>2, Actors DEF IInv, WorkOK, LoopHolds
<1> QED BY <1>2, <1>3, <1>4, Writing

\* A task is dispatched when its row is there.
LEMMA Spawns ==
  ASSUME NEW p \in Procs, proc'[p].pc = "spawned",
         p \in Rounds => trace'.tasks[p].status # "absent"
  PROVE  Turns(p)
BY DEF Turns, Named, StatusOf, Certifying

LEMMA PromotedReady ==
  ASSUME NEW e
  PROVE  \A id \in Promoted(e) : id \in Runnable /\ trace'.tasks[id].status = "ready"
BY DEF Promoted

-----------------------------------------------------------------------------
(* The event loop *)

LEMMA TakeEventAside ==
  ASSUME IInv, TakeEvent
  PROVE  Aside
<1> USE DEF IInv
<1> DEFINE e == Head(stream)
           asked == e.kind = "feedback" /\ e.id \in Reviewed
                    /\ StatusOf(e.id) = "waiting_review"
           next == IF asked THEN "reopen"
                   ELSE IF e.kind = "completed" THEN "gate" ELSE "check"
           q == [proc[Loop] EXCEPT !.pc = next, !.id = e.id]
           ps == [proc EXCEPT ![Loop] = q]
<1>1. /\ stream # <<>> /\ Write(e)
      /\ proc' = Dispatched([proc EXCEPT ![Loop].pc = next, ![Loop].id = e.id], Promoted(e), Free)
      /\ UNCHANGED <<clock, stream, due, barrier, records, outside, bounds>>
  BY DEF TakeEvent
<1>2. e \in Event /\ Lawful(e)
  <2>1. stream \in Seq(Event) /\ stream # <<>>
    BY <1>1 DEF Types
  <2>2. 1 \in 1..Len(stream) /\ e = stream[1] /\ e \in Event
    BY <2>1
  <2> QED BY <2>2 DEF WorkOK, StreamOK
<1> HIDE DEF e
<1>3. /\ Loop \in Procs /\ Loop \notin Rounds /\ Loop # Cli
      /\ next \in {"reopen", "gate", "check"} /\ next \in Step
      /\ (next = "reopen" => e.id \in Reviewed)
      /\ e.id \in TaskIds
  BY <1>2, Actors, ClosingIs DEF Step, Event, Runnable
<1> HIDE DEF next
<1>4. q \in Process /\ q.pc = next /\ q.id = e.id
  <2>1. proc[Loop] \in Process
    BY <1>3 DEF Types
  <2> QED BY <1>3, <2>1 DEF Process
<1>5. Modest(Loop, q)
  <2> HIDE DEF q
  <2> QED BY <1>3, <1>4 DEF Modest, Named, Certifying
<1>6. ps = [proc EXCEPT ![Loop].pc = next, ![Loop].id = e.id]
  BY DEF Types
<1> HIDE DEF q
<1>7. /\ ps \in [Procs -> Process] /\ ps[Loop] = q
      /\ \A o \in Procs : o # Loop => ps[o] = proc[o]
  BY <1>3, <1>4 DEF Types
<1> HIDE DEF ps
<1>8. /\ proc' \in [Procs -> Process]
      /\ \A p \in Procs : proc'[p] = ps[p] \/ (p \in Promoted(e) /\ proc'[p].pc = "spawned")
  <2>1. proc' = Dispatched(ps, Promoted(e), Free)
    BY <1>1, <1>6
  <2>2. ps \in [Procs -> Process] /\ Free \in Procs \cup {Free}
    BY <1>7
  <2> QED BY <2>1, <2>2, DispatchIs
<1>9. ASSUME NEW o \in Procs PROVE Turns(o)
  <2>1. CASE o \in Promoted(e) /\ proc'[o].pc = "spawned"
    BY <2>1, Spawns, PromotedReady
  <2>2. CASE proc'[o] = ps[o] /\ o = Loop
    <3>1. Grows
      BY <1>1, <1>2, WriteIs DEF WorkOK
    <3>2. Named(Loop, proc[Loop])'
      BY <1>5, <1>7, <2>2, <3>1, NamedNow DEF Modest
    <3> QED BY <1>5, <1>7, <2>2, <3>2 DEF Turns, Modest
  <2>3. CASE proc'[o] = ps[o] /\ o # Loop
    BY <1>7, <2>3 DEF Turns
  <2> QED BY <1>8, <2>1, <2>2, <2>3
<1>10. clock' \in Nat /\ clock' >= 1
  BY <1>1 DEF Types, WorkOK
<1>11. Elsewhere
  BY <1>1, RestAside
<1> QED BY <1>1, <1>2, <1>8, <1>9, <1>10, <1>11, Writing

LEMMA ReopenAside ==
  ASSUME IInv, Reopen
  PROVE  Aside
<1> USE DEF IInv
<1> DEFINE id == proc[Loop].id
           e == EventOf("status", id, "ready")
           q == [proc[Loop] EXCEPT !.pc = "wait"]
           ps == [proc EXCEPT ![Loop] = q]
<1>1. /\ proc[Loop].pc = "reopen" /\ Write(e)
      /\ proc' = Dispatched([proc EXCEPT ![Loop].pc = "wait"], {id}, Loop)
      /\ UNCHANGED <<clock, stream, due, barrier, records, outside, bounds>>
  BY DEF Reopen
<1>2. Loop \in Procs /\ Loop \notin Rounds /\ Loop # Cli
  BY Actors DEF Runnable
<1>3. id \in Reviewed /\ id \in TaskIds /\ id \notin Rounds
  BY <1>1, <1>2, ClosingIs DEF WorkOK, NamesOK, Named
<1>4. e \in Event /\ Lawful(e)
  <2>1. "ready" \in Status
    BY DEF Status
  <2>2. e \in Event /\ e.at >= 1 /\ e.kind = "status" /\ e.id = id /\ e.status = "ready"
    BY <1>3, <2>1, EventIs
  <2> HIDE DEF e
  <2> QED BY <1>3, <2>2 DEF Lawful
<1> HIDE DEF e
<1>5. q \in Process /\ q.pc = "wait" /\ proc[Loop].pc # "idle"
  <2>1. proc[Loop] \in Process
    BY <1>2 DEF Types
  <2>2. "wait" \in Step
    BY DEF Step
  <2> QED BY <1>1, <2>1, <2>2 DEF Process
<1>6. Modest(Loop, q)
  <2> HIDE DEF q
  <2> QED BY <1>2, <1>5 DEF Modest, Named, Certifying
<1>7. ps = [proc EXCEPT ![Loop].pc = "wait"]
  BY DEF Types
<1> HIDE DEF q
<1>8. /\ ps \in [Procs -> Process] /\ ps[Loop] = q
      /\ \A o \in Procs : o # Loop => ps[o] = proc[o]
  BY <1>2, <1>5 DEF Types
<1> HIDE DEF ps
<1>9. /\ proc' \in [Procs -> Process]
      /\ \A p \in Procs : proc'[p] = ps[p] \/ (p = id /\ proc'[p].pc = "spawned")
  <2>1. proc' = Dispatched(ps, {id}, Loop)
    BY <1>1, <1>7
  <2>2. ps \in [Procs -> Process] /\ Loop \in Procs \cup {Free}
    BY <1>2, <1>8
  <2> HIDE DEF id
  <2> QED BY <2>1, <2>2, DispatchIs
<1>10. ASSUME NEW o \in Procs PROVE Turns(o)
  <2>1. CASE o = id /\ proc'[o].pc = "spawned"
    BY <1>3, <2>1, Spawns
  <2>2. CASE proc'[o] = ps[o] /\ o = Loop
    <3>1. Grows
      BY <1>1, <1>4, WriteIs DEF WorkOK
    <3>2. Named(Loop, proc[Loop])'
      BY <1>6, <1>8, <2>2, <3>1, NamedNow DEF Modest
    <3> QED BY <1>6, <1>8, <2>2, <3>2 DEF Turns, Modest
  <2>3. CASE proc'[o] = ps[o] /\ o # Loop
    BY <1>8, <2>3 DEF Turns
  <2> QED BY <1>9, <2>1, <2>2, <2>3
<1>11. clock' \in Nat /\ clock' >= 1 /\ stream # <<>>
  BY <1>1, <1>5 DEF Types, WorkOK, LoopHolds
<1>12. Elsewhere
  BY <1>1, RestAside
<1> QED BY <1>1, <1>4, <1>9, <1>10, <1>11, <1>12, Writing

LEMMA ResumeAside ==
  ASSUME IInv, Resume
  PROVE  Aside
<1> USE DEF IInv
<1> DEFINE q == [proc[Loop] EXCEPT !.pc = "check"]
<1>1. /\ proc[Loop].pc = "wait" /\ Goto(Loop, "check")
      /\ UNCHANGED <<trace, stamp, clock, stream, due, barrier, records, outside, bounds>>
  BY DEF Resume
<1>2. Loop \in Procs /\ Loop \notin Rounds /\ Loop # Cli /\ "check" \in Step
  BY Actors DEF Runnable, Step
<1>3. q \in Process /\ q.pc = "check" /\ proc' = [proc EXCEPT ![Loop] = q]
  BY <1>1, <1>2, GotoIs
<1> HIDE DEF q
<1>4. Modest(Loop, q)
  BY <1>2, <1>3 DEF Modest, Named, Certifying
<1>5. stream # <<>> /\ Elsewhere
  BY <1>1, RestAside DEF WorkOK, LoopHolds
<1> QED BY <1>1, <1>2, <1>3, <1>4, <1>5, Moving

-----------------------------------------------------------------------------
(* Runs *)

\* A task that is not idle has its row: its events find it.
LEMMA RunEvent ==
  ASSUME IInv, NEW id \in Runnable, proc[id].pc # "idle",
         NEW kind \in {"status", "completed", "proposal"},
         NEW status \in {"running", "failed", "waiting_review", "completed"},
         kind = "status" => status # "completed"
  PROVE  LET e == EventOf(kind, id, status)
         IN  e \in Event /\ Lawful(e) /\ e.id = id
<1> USE DEF IInv
<1> DEFINE e == EventOf(kind, id, status)
<1>1. id \in TaskIds /\ id \in Procs
  BY ClosingIs
<1>2. status \in Status
  BY DEF Status
<1>3. e \in Event /\ e.at >= 1 /\ e.kind = kind /\ e.id = id /\ e.status = status
  BY <1>1, <1>2, EventIs
<1>4. id \in Rounds => StatusOf(id) # "absent"
  BY <1>1 DEF WorkOK, NamesOK, Named
<1> HIDE DEF e
<1>5. Lawful(e)
  BY <1>3, <1>4 DEF Lawful
<1> QED BY <1>3, <1>5 DEF e

\* ... and it may go on to any stage of its run.
LEMMA RunGoes ==
  ASSUME IInv, NEW id \in Runnable, proc[id].pc # "idle",
         NEW pc \in {"working", "worked", "failed", "nested", "gate"}, Goto(id, pc)
  PROVE  \E q : /\ Modest(id, q) /\ proc' = [proc EXCEPT ![id] = q]
                /\ id \in Procs /\ id # Loop /\ q.pc = pc
<1> USE DEF IInv
<1> DEFINE q == [proc[id] EXCEPT !.pc = pc]
<1>1. id \in Procs /\ id # Loop /\ id # Cli /\ pc \in Step
  BY Actors, ClosingIs DEF Step
<1>2. q \in Process /\ q.pc = pc /\ proc' = [proc EXCEPT ![id] = q]
  BY <1>1, GotoIs
<1> HIDE DEF q
<1>3. id \in Rounds => StatusOf(id) # "absent"
  BY <1>1 DEF WorkOK, NamesOK, Named
<1>4. Modest(id, q)
  BY <1>1, <1>2, <1>3 DEF Modest, Named, Certifying
<1> QED BY <1>1, <1>2, <1>4

LEMMA StartRunAside ==
  ASSUME IInv, NEW id \in Runnable, StartRun(id)
  PROVE  Aside
<1> DEFINE e == EventOf("status", id, "running")
<1>1. /\ proc[id].pc = "spawned" /\ Write(e) /\ Goto(id, "working")
      /\ git' = [git EXCEPT !.worktree = @ \/ id \in Proposing]
      /\ UNCHANGED <<clock, stream, due, barrier, records, forge, bounds>>
  BY DEF StartRun
<1>2. e \in Event /\ Lawful(e)
  BY <1>1, RunEvent
<1> HIDE DEF e
<1>3. PICK q : /\ Modest(id, q) /\ proc' = [proc EXCEPT ![id] = q]
               /\ id \in Procs /\ id # Loop
  BY <1>1, RunGoes
<1>4. git' \in [branch: SUBSET Runnable, merged: SUBSET Runnable,
                pushed: SUBSET Runnable, worktree: BOOLEAN]
  <2>1. git \in [branch: SUBSET Runnable, merged: SUBSET Runnable,
                 pushed: SUBSET Runnable, worktree: BOOLEAN]
    BY DEF IInv, Types
  <2>2. (git.worktree \/ id \in Proposing) \in BOOLEAN
    OBVIOUS
  <2> QED BY <1>1, <2>1, <2>2
<1>5. Elsewhere
  BY <1>1, <1>4 DEF IInv, Types, Elsewhere, bounds
<1>6. clock' \in Nat /\ clock' >= 1
  BY <1>1 DEF IInv, Types, WorkOK
<1> QED BY <1>1, <1>2, <1>3, <1>5, <1>6, WritingOne

LEMMA ProposeAside ==
  ASSUME IInv, NEW id \in Runnable, Propose(id)
  PROVE  Aside
<1> DEFINE e == EventOf("proposal", id, "running")
<1>1. /\ proc[id].pc = "working" /\ Publish(e) /\ Goto(id, "worked")
      /\ git' = [git EXCEPT !.branch = @ \cup {id}]
      /\ UNCHANGED <<trace, stamp, clock, due, barrier, records, forge, bounds>>
  BY DEF Propose
<1>2. e \in Event /\ Lawful(e)
  BY <1>1, RunEvent
<1> HIDE DEF e
<1>3. PICK q : /\ Modest(id, q) /\ proc' = [proc EXCEPT ![id] = q]
               /\ id \in Procs /\ id # Loop
  BY <1>1, RunGoes
<1>4. Elsewhere
  BY <1>1 DEF IInv, Types, Elsewhere, bounds
<1>5. stream' = Append(stream, e)
  BY <1>1 DEF Publish
<1> QED BY <1>1, <1>2, <1>3, <1>4, <1>5, Moving

\* The stages of a run that touch nothing else.
LEMMA StageAside ==
  ASSUME IInv, NEW id \in Runnable,
         ReportNothing(id) \/ FailRun(id) \/ LeaveNested(id)
  PROVE  Aside
<1>1. /\ proc[id].pc # "idle"
      /\ \E pc \in {"worked", "failed", "gate"} : Goto(id, pc)
      /\ UNCHANGED <<trace, stamp, clock, stream, due, barrier, records, outside, calls>>
      /\ faults' = faults \/ (faults < MaxFaults /\ faults' = faults + 1)
  BY DEF ReportNothing, FailRun, LeaveNested, bounds
<1>2. PICK q : /\ Modest(id, q) /\ proc' = [proc EXCEPT ![id] = q]
               /\ id \in Procs /\ id # Loop
  BY <1>1, RunGoes
<1>3. faults' \in 0..MaxFaults
  <2>1. faults \in 0..MaxFaults
    BY DEF IInv, Types
  <2> QED BY <1>1, <2>1, DeliveryAssumption
<1>4. Elsewhere
  BY <1>1, <1>3 DEF IInv, Types, Elsewhere, outside
<1> QED BY <1>1, <1>2, <1>4, Moving

LEMMA SetStatusAside ==
  ASSUME IInv, NEW id \in Runnable, RecordFailure(id) \/ AwaitReview(id)
  PROVE  Aside
<1>1. PICK status \in {"failed", "waiting_review"}, from \in {"failed", "worked"} :
         SetStatus(id, from, status)
  BY DEF RecordFailure, AwaitReview
<1> DEFINE e == EventOf("status", id, status)
<1>2. /\ proc[id].pc # "idle" /\ Write(e)
      /\ proc' = [proc EXCEPT ![id] = Idle] /\ due' = due + 1
      /\ UNCHANGED <<clock, stream, barrier, records, outside, bounds>>
  BY <1>1 DEF SetStatus
<1>3. e \in Event /\ Lawful(e)
  BY <1>2, RunEvent
<1> HIDE DEF e
<1>4. id \in Procs /\ id # Loop /\ Modest(id, Idle)
  BY Actors, ClosingIs, IdleType DEF Modest, Named, Idle, Certifying
<1>5. Elsewhere
  BY <1>2 DEF IInv, Types, Elsewhere, outside, bounds
<1>6. clock' \in Nat /\ clock' >= 1
  BY <1>2 DEF IInv, Types, WorkOK
<1> QED BY <1>2, <1>3, <1>4, <1>5, <1>6, WritingOne

LEMMA CompleteRunAside ==
  ASSUME IInv, NEW id \in Runnable, CompleteRun(id)
  PROVE  Aside
<1> USE DEF IInv
<1> DEFINE e == EventOf("completed", id, "completed")
           q == [proc[id] EXCEPT !.pc = "nested"]
           ps == [proc EXCEPT ![id] = q]
<1>1. /\ proc[id].pc = "worked" /\ Write(e) /\ clock' = Tick(e)
      /\ proc' = Dispatched([proc EXCEPT ![id].pc = "nested"], Promoted(e), id)
      /\ UNCHANGED <<stream, due, barrier, records, outside, bounds>>
  BY DEF CompleteRun
<1>2. e \in Event /\ Lawful(e)
  BY <1>1, RunEvent
<1> HIDE DEF e
<1>3. /\ id \in Procs /\ id # Loop /\ id # Cli
      /\ id \in Rounds => StatusOf(id) # "absent"
  BY <1>1, Actors, ClosingIs DEF WorkOK, NamesOK, Named
<1>4. q \in Process /\ q.pc = "nested"
  <2>1. proc[id] \in Process /\ "nested" \in Step
    BY <1>3 DEF Types, Step
  <2> QED BY <2>1 DEF Process
<1>5. Modest(id, q)
  <2> HIDE DEF q
  <2> QED BY <1>3, <1>4 DEF Modest, Named, Certifying
<1>6. ps = [proc EXCEPT ![id].pc = "nested"]
  BY DEF Types
<1> HIDE DEF q
<1>7. /\ ps \in [Procs -> Process] /\ ps[id] = q
      /\ \A o \in Procs : o # id => ps[o] = proc[o]
  BY <1>3, <1>4 DEF Types
<1> HIDE DEF ps
<1>8. /\ proc' \in [Procs -> Process]
      /\ \A p \in Procs : proc'[p] = ps[p] \/ (p \in Promoted(e) /\ proc'[p].pc = "spawned")
  <2>1. proc' = Dispatched(ps, Promoted(e), id)
    BY <1>1, <1>6
  <2>2. ps \in [Procs -> Process] /\ id \in Procs \cup {Free}
    BY <1>3, <1>7
  <2> QED BY <2>1, <2>2, DispatchIs
<1>9. ASSUME NEW o \in Procs PROVE Turns(o)
  <2>1. CASE o \in Promoted(e) /\ proc'[o].pc = "spawned"
    BY <2>1, Spawns, PromotedReady
  <2>2. CASE proc'[o] = ps[o] /\ o = id
    <3>1. Grows
      BY <1>1, <1>2, WriteIs DEF WorkOK
    <3>2. Named(id, proc[id])'
      BY <1>5, <1>7, <2>2, <3>1, NamedNow DEF Modest
    <3> QED BY <1>5, <1>7, <2>2, <3>2 DEF Turns, Modest
  <2>3. CASE proc'[o] = ps[o] /\ o # id
    BY <1>7, <2>3 DEF Turns
  <2> QED BY <1>8, <2>1, <2>2, <2>3
<1>10. clock' \in Nat /\ clock' >= 1
  BY <1>1 DEF Types, WorkOK, Tick
<1>11. proc'[Loop].pc # "idle" => stream # <<>>
  <2>1. Loop \notin Promoted(e) /\ Loop \in Procs
    BY Actors, PromotedReady
  <2> QED BY <1>3, <1>7, <1>8, <2>1 DEF WorkOK, LoopHolds
<1>12. Elsewhere
  BY <1>1, RestAside
<1> QED BY <1>1, <1>2, <1>8, <1>9, <1>10, <1>11, <1>12, Writing

-----------------------------------------------------------------------------
(* The gate *)

LEMMA LargestOf ==
  ASSUME NEW n \in Nat, NEW S, S # {}, S \subseteq 1..n
  PROVE  \E m \in S : \A k \in S : m >= k
<1>1. PICK s \in S : TRUE
  OBVIOUS
<1> DEFINE T == {k \in Nat : n - k \in S}
<1>2. T \subseteq Nat /\ n - s \in T
  BY <1>1
<1>3. IsWellFoundedOn(OpToRel(<, Nat), Nat)
  BY NatLessThanWellFounded
<1>4. PICK k \in T : \A j \in T : <<j, k>> \notin OpToRel(<, Nat)
  BY <1>2, <1>3, WFMin
<1>5. n - k \in S /\ \A j \in T : ~(j < k)
  BY <1>2, <1>4 DEF OpToRel
<1>6. ASSUME NEW o \in S PROVE n - k >= o
  BY <1>5
<1> QED BY <1>5, <1>6

LEMMA NextRound ==
  ASSUME IInv, NeedsClosing
  PROVE  /\ HighestRound + 1 \in 1..Len(Closing)
         /\ Closing[HighestRound + 1] \in Rounds /\ Openable(Closing[HighestRound + 1])
<1> USE DEF IInv
<1> DEFINE h == HighestRound
           ns == {RoundOf(id) : id \in ClosingRows}
<1>1. h < Len(Closing) /\ \A id \in ClosingRows : StatusOf(id) = "completed"
  BY DEF NeedsClosing, UnfinishedClosing
<1>2. \A id \in ClosingRows : RoundOf(id) \in 1..Len(Closing) /\ Closing[RoundOf(id)] = id
  <2> SUFFICES ASSUME NEW id \in ClosingRows
               PROVE  RoundOf(id) \in 1..Len(Closing) /\ Closing[RoundOf(id)] = id
    OBVIOUS
  <2>1. \E n \in 1..Len(Closing) : Closing[n] = id
    BY ClosingIs DEF ClosingRows
  <2> QED BY <2>1 DEF RoundOf
<1>3. h \in Nat /\ (h # 0 => h \in 1..Len(Closing) /\ Closing[h] \in ClosingRows)
  <2>1. CASE ClosingRows = {}
    BY <2>1 DEF HighestRound
  <2>2. CASE ClosingRows # {}
    <3>1. ns # {} /\ ns \subseteq 1..Len(Closing)
      BY <1>2, <2>2
    <3>2. \E m \in ns : \A k \in ns : m >= k
      <4> HIDE DEF ns
      <4> QED BY <3>1, ClosingIs, LargestOf
    <3>3. h = Max(ns)
      BY <2>2 DEF HighestRound
    <3>4. h \in ns
      <4> HIDE DEF ns
      <4> QED BY <3>2, <3>3 DEF Max
    <3> QED BY <1>2, <3>1, <3>4
  <2> QED BY <2>1, <2>2
<1> HIDE DEF h
<1>4. h + 1 \in 1..Len(Closing)
  BY <1>1, <1>3, ClosingIs
<1>5. Opened(h + 1)
  <2>1. CASE h = 0
    BY <2>1 DEF Opened
  <2>2. CASE h # 0
    <3>1. StatusOf(Closing[h]) = "completed"
      BY <1>1, <1>3, <2>2
    <3>2. stamp[Closing[h]] >= 1 /\ Opened(h)
      BY <1>3, <2>2, <3>1 DEF WorkOK, RowsOK
    <3>3. ASSUME NEW m \in 1..((h + 1) - 1) PROVE stamp[Closing[m]] >= 1
      BY <1>3, <3>2 DEF Opened
    <3> QED BY <3>3 DEF Opened
  <2> QED BY <2>1, <2>2
<1> QED BY <1>4, <1>5, ClosingIs DEF h, Openable

LEMMA GateStepIs ==
  /\ GateStep \in {"plan_closing", "done", "plan_merge", "empty_merge", "open_merge"}
  /\ GateStep = "plan_closing" => NeedsClosing
<1>1. CASE NeedsClosing
  BY <1>1 DEF GateStep
<1>2. CASE ~NeedsClosing /\ ~AllPremergeCompleted(trace)
  BY <1>2 DEF GateStep
<1>3. CASE ~NeedsClosing /\ AllPremergeCompleted(trace)
  <2> DEFINE final == StatusOf(MergeGate)
  <2>1. GateStep = CASE final = "absent" ->
                          IF NeedsMerge /\ ~HasWaitingReview THEN "plan_merge" ELSE "done"
                     [] final # "absent" /\ ~NeedsMerge ->
                          IF final \in {"completed", "failed", "blocked", "skipped"}
                          THEN "done" ELSE "empty_merge"
                     [] OTHER ->
                          IF final \in {"planned", "ready"} /\ ~HasWaitingReview
                          THEN "open_merge" ELSE "done"
    BY <1>3 DEF GateStep
  <2> HIDE DEF final
  <2>2. CASE final = "absent"
    BY <2>1, <2>2
  <2>3. CASE final # "absent" /\ ~NeedsMerge
    BY <2>1, <2>3
  <2>4. CASE final # "absent" /\ NeedsMerge
    BY <2>1, <2>4
  <2> QED BY <2>2, <2>3, <2>4
<1> QED BY <1>1, <1>2, <1>3

Gates == Runnable \cup {Loop, Cli}

\* Who was at the gate goes on.
LEMMA GateGoes ==
  ASSUME IInv, NEW p \in Gates
  PROVE  \E q : /\ Modest(p, q) /\ AfterGate(p) = [proc EXCEPT ![p] = q]
                /\ p \in Procs /\ (p = Loop => q.pc # "idle")
                /\ (p # Loop => q.pc = "idle")
<1> USE DEF IInv
<1>1. p \in Procs /\ Loop \notin Rounds /\ Loop # Cli /\ "check" \in Step
  BY Actors, ClosingIs DEF Gates, Runnable, Step
<1>2. CASE p = Loop
  <2> DEFINE q == [proc[p] EXCEPT !.pc = "check"]
  <2>1. proc[p] \in Process
    BY <1>1 DEF Types
  <2>2. q \in Process /\ q.pc = "check"
    BY <1>1, <2>1 DEF Process
  <2>3. AfterGate(p) = [proc EXCEPT ![p] = q]
    BY <1>1, <1>2 DEF AfterGate, Types
  <2> HIDE DEF q
  <2>4. Modest(p, q)
    BY <1>1, <1>2, <2>2 DEF Modest, Named, Certifying
  <2> QED BY <1>1, <1>2, <2>2, <2>3, <2>4
<1>3. CASE p # Loop
  <2>1. AfterGate(p) = [proc EXCEPT ![p] = Idle]
    BY <1>3 DEF AfterGate
  <2>2. Modest(p, Idle) /\ Idle.pc = "idle"
    BY IdleType DEF Modest, Named, Idle, Certifying
  <2> QED BY <1>1, <1>3, <2>1, <2>2
<1> QED BY <1>2, <1>3

LEMMA GateElsewhere ==
  ASSUME Types, NEW p, Passed(p) \/ UNCHANGED due, UNCHANGED <<records, outside, bounds>>
  PROVE  Elsewhere
BY DEF Types, Elsewhere, outside, bounds, Passed

LEMMA DecideGateAside ==
  ASSUME IInv, NEW p \in Gates, DecideGate(p)
  PROVE  Aside
<1> USE DEF IInv
<1>1. /\ proc[p].pc = "gate"
      /\ UNCHANGED <<trace, stamp, clock, stream, barrier, records, outside, bounds>>
      /\ \/ proc' = AfterGate(p) /\ Passed(p)
         \/ /\ GateStep # "done" /\ UNCHANGED due
            /\ proc' = [proc EXCEPT ![p].pc = GateStep,
                            ![p].id = IF GateStep = "plan_closing"
                                      THEN Closing[HighestRound + 1] ELSE MergeGate]
  BY DEF DecideGate
<1>2. Elsewhere
  BY <1>1, GateElsewhere
<1>3. p = Loop => stream # <<>>
  BY <1>1 DEF WorkOK, LoopHolds
<1>4. CASE proc' = AfterGate(p)
  <2>1. PICK q : Modest(p, q) /\ AfterGate(p) = [proc EXCEPT ![p] = q] /\ p \in Procs
    BY GateGoes
  <2> QED BY <1>1, <1>2, <1>3, <1>4, <2>1, Moving
<1>5. CASE /\ GateStep # "done"
           /\ proc' = [proc EXCEPT ![p].pc = GateStep,
                            ![p].id = IF GateStep = "plan_closing"
                                      THEN Closing[HighestRound + 1] ELSE MergeGate]
  <2> DEFINE id == IF GateStep = "plan_closing" THEN Closing[HighestRound + 1] ELSE MergeGate
             q == [proc[p] EXCEPT !.pc = GateStep, !.id = id]
  <2>1. /\ id \in TaskIds
        /\ GateStep = "plan_closing" => id \in Rounds /\ Openable(id)
        /\ GateStep # "plan_closing" => id = MergeGate
    BY GateStepIs, NextRound, ClosingIs
  <2> HIDE DEF id
  <2>2. GateStep \in {"plan_closing", "plan_merge", "empty_merge", "open_merge"} /\ GateStep \in Step
    BY <1>5, GateStepIs DEF Step
  <2>3. p \in Procs /\ proc[p] \in Process
    BY Actors, ClosingIs DEF Gates, Types
  <2>4. q \in Process /\ q.pc = GateStep /\ q.id = id
    BY <2>1, <2>2, <2>3 DEF Process
  <2>5. proc' = [proc EXCEPT ![p] = q]
    BY <1>5, <2>3 DEF Types, id
  <2>6. p \in Rounds => StatusOf(p) # "absent"
    BY <1>1, <2>3 DEF WorkOK, NamesOK, Named
  <2> HIDE DEF q
  <2>7. Modest(p, q)
    BY <2>1, <2>2, <2>4, <2>6 DEF Modest, Named, Certifying
  <2> QED BY <1>1, <1>2, <1>3, <2>3, <2>5, <2>7, Moving
<1> QED BY <1>1, <1>4, <1>5

\* The event a gate writes.
LEMMA GateEvent ==
  ASSUME IInv, NEW p \in Gates, NEW kind \in {"plan", "ready", "status", "completed"},
         NEW status \in {"planned", "ready", "waiting_review", "completed"},
         GateWrite(p, kind, status), proc[p].id \in TaskIds,
         kind = "status" => status = "waiting_review",
         proc[p].id \in Rounds => StatusOf(proc[p].id) # "absent"
                                  \/ (kind = "plan" /\ Openable(proc[p].id))
  PROVE  LET e == EventOf(kind, proc[p].id, status)
         IN  /\ e \in Event /\ Lawful(e) /\ Write(e) /\ e.kind = kind /\ e.id = proc[p].id
             /\ stream' = stream \/ stream' = Append(stream, e)
             /\ clock' \in Nat /\ clock' >= 1
             /\ UNCHANGED <<barrier, records, outside, bounds>>
<1> USE DEF IInv
<1> DEFINE e == EventOf(kind, proc[p].id, status)
<1>1. /\ Write(e) /\ (stream' = stream \/ stream' = Append(stream, e))
      /\ UNCHANGED <<clock, barrier, records, outside, bounds>>
  BY DEF GateWrite, Publish
<1>2. status \in Status
  BY DEF Status
<1>3. e \in Event /\ e.at >= 1 /\ e.kind = kind /\ e.id = proc[p].id /\ e.status = status
  BY <1>2, EventIs
<1> HIDE DEF e
<1>4. Lawful(e)
  BY <1>3 DEF Lawful
<1>5. clock' \in Nat /\ clock' >= 1
  BY <1>1 DEF Types, WorkOK
<1> QED BY <1>1, <1>3, <1>4, <1>5 DEF e

LEMMA PlanClosingAside ==
  ASSUME IInv, NEW p \in Gates, PlanClosing(p)
  PROVE  Aside
<1> USE DEF IInv
<1> DEFINE id == proc[p].id
           e == EventOf("plan", id, "planned")
           q == [proc[p] EXCEPT !.pc = "ready_closing"]
<1>1. /\ proc[p].pc = "plan_closing" /\ GateWrite(p, "plan", "planned")
      /\ Goto(p, "ready_closing") /\ UNCHANGED due
  BY DEF PlanClosing
<1>2. p \in Procs /\ "ready_closing" \in Step
  BY Actors, ClosingIs DEF Gates, Step
<1>3. /\ id \in Rounds /\ Openable(id) /\ id \in TaskIds
      /\ p \in Rounds => StatusOf(p) # "absent"
  BY <1>1, <1>2, ClosingIs DEF WorkOK, NamesOK, Named
<1>4. /\ e \in Event /\ Lawful(e) /\ Write(e) /\ e.kind = "plan" /\ e.id = id
      /\ stream' = stream \/ stream' = Append(stream, e)
      /\ clock' \in Nat /\ clock' >= 1
      /\ UNCHANGED <<barrier, records, outside, bounds>>
  BY <1>1, <1>3, GateEvent
<1> HIDE DEF e
<1>5. q \in Process /\ q.pc = "ready_closing" /\ q.id = id /\ proc' = [proc EXCEPT ![p] = q]
  BY <1>1, <1>2, GotoIs
<1> HIDE DEF q, id
<1>6. /\ proc' \in [Procs -> Process] /\ proc'[p] = q
      /\ \A o \in Procs : o # p => proc'[o] = proc[o]
  BY <1>2, <1>5, OneProc
<1>7. Grows
  BY <1>4, WriteIs DEF WorkOK
<1>8. trace'.tasks[id].status # "absent"
  BY <1>4, PlanMoves DEF Write, Types
<1>9. ASSUME NEW o \in Procs PROVE Turns(o)
  <2>1. CASE o = p
    <3>1. p \in Rounds => trace'.tasks[p].status # "absent"
      BY <1>3, <1>7 DEF Grows
    <3>2. Named(p, proc[p])'
      BY <1>3, <1>5, <1>6, <1>8, <3>1 DEF Named, StatusOf
    <3> QED BY <1>5, <1>6, <2>1, <3>2 DEF Turns, Certifying
  <2> QED BY <1>6, <2>1 DEF Turns
<1>10. proc'[Loop].pc # "idle" => stream # <<>>
  BY <1>1, <1>6, Actors DEF WorkOK, LoopHolds
<1>11. Elsewhere
  BY <1>1, <1>4, GateElsewhere
<1> QED BY <1>4, <1>6, <1>9, <1>10, <1>11, Writing

LEMMA ReadyClosingAside ==
  ASSUME IInv, NEW p \in Gates, ReadyClosing(p)
  PROVE  Aside
<1> USE DEF IInv
<1> DEFINE id == proc[p].id
           e == EventOf("ready", id, "ready")
           ids == {id} \cap Dispatchers(p)
           ps == AfterGate(p)
<1>1. /\ proc[p].pc = "ready_closing" /\ GateWrite(p, "ready", "ready")
      /\ proc' = Dispatched(ps, ids, Free)
      /\ Passed(p)
  BY DEF ReadyClosing
<1>2. p \in Procs
  BY Actors, ClosingIs DEF Gates
<1>3. id \in Rounds /\ StatusOf(id) # "absent" /\ id \in TaskIds
  BY <1>1, <1>2, ClosingIs DEF WorkOK, NamesOK, Named
<1>4. /\ e \in Event /\ Lawful(e) /\ Write(e) /\ e.kind = "ready" /\ e.id = id
      /\ stream' = stream \/ stream' = Append(stream, e)
      /\ clock' \in Nat /\ clock' >= 1
      /\ UNCHANGED <<barrier, records, outside, bounds>>
  BY <1>1, <1>3, GateEvent
<1> HIDE DEF e
<1>5. PICK q : Modest(p, q) /\ ps = [proc EXCEPT ![p] = q]
  BY GateGoes
<1> HIDE DEF ps
<1>6. /\ ps \in [Procs -> Process] /\ ps[p] = q
      /\ \A o \in Procs : o # p => ps[o] = proc[o]
  BY <1>2, <1>5 DEF Types, Modest
<1> HIDE DEF id
<1>7. /\ proc' \in [Procs -> Process]
      /\ \A o \in Procs : proc'[o] = ps[o] \/ (o = id /\ proc'[o].pc = "spawned")
  <2>1. Free \in Procs \cup {Free}
    OBVIOUS
  <2>2. \A o \in ids : o = id
    OBVIOUS
  <2> HIDE DEF ids
  <2> QED BY <1>1, <1>6, <2>1, <2>2, DispatchIs
<1>8. Grows
  BY <1>4, WriteIs DEF WorkOK
<1>9. ASSUME NEW o \in Procs PROVE Turns(o)
  <2>1. CASE o = id /\ proc'[o].pc = "spawned"
    BY <1>3, <1>8, <2>1, Spawns DEF Grows
  <2>2. CASE proc'[o] = ps[o] /\ o = p
    <3>1. Named(p, proc[p])'
      BY <1>5, <1>6, <1>8, <2>2, NamedNow DEF Modest
    <3> QED BY <1>5, <1>6, <2>2, <3>1 DEF Turns, Modest
  <2>3. CASE proc'[o] = ps[o] /\ o # p
    BY <1>6, <2>3 DEF Turns
  <2> QED BY <1>7, <2>1, <2>2, <2>3
<1>10. proc'[Loop].pc # "idle" => stream # <<>>
  <2>1. Loop \in Procs /\ Loop # id
    BY <1>3, Actors DEF Runnable
  <2> QED BY <1>1, <1>6, <1>7, <2>1 DEF WorkOK, LoopHolds
<1>11. Elsewhere
  BY <1>1, <1>4, GateElsewhere
<1> QED BY <1>4, <1>7, <1>9, <1>10, <1>11, Writing

LEMMA MergeGateAside ==
  ASSUME IInv, NEW p \in Gates, PlanMerge(p) \/ OpenMerge(p) \/ EmptyMerge(p)
  PROVE  Aside
<1> USE DEF IInv
<1>1. PICK kind \in {"plan", "status", "completed"},
           status \in {"planned", "waiting_review", "completed"} :
        /\ kind = "status" => status = "waiting_review"
        /\ GateWrite(p, kind, status)
        /\ proc[p].pc \in {"plan_merge", "open_merge", "empty_merge"}
        /\ Passed(p) \/ UNCHANGED due
        /\ Goto(p, "open_merge") \/ proc' = AfterGate(p)
  BY DEF PlanMerge, OpenMerge, EmptyMerge
<1> DEFINE e == EventOf(kind, proc[p].id, status)
<1>2. p \in Procs /\ "open_merge" \in Step
  BY Actors, ClosingIs DEF Gates, Step
<1>3. /\ proc[p].id = MergeGate /\ MergeGate \in TaskIds /\ MergeGate \notin Rounds
      /\ p \in Rounds => StatusOf(p) # "absent"
  BY <1>1, <1>2, ClosingIs DEF WorkOK, NamesOK, Named
<1>4. /\ e \in Event /\ Lawful(e) /\ Write(e)
      /\ stream' = stream \/ stream' = Append(stream, e)
      /\ clock' \in Nat /\ clock' >= 1
      /\ UNCHANGED <<barrier, records, outside, bounds>>
  BY <1>1, <1>3, GateEvent
<1> HIDE DEF e
<1>5. PICK q : Modest(p, q) /\ proc' = [proc EXCEPT ![p] = q]
  <2>1. CASE Goto(p, "open_merge")
    <3> DEFINE q == [proc[p] EXCEPT !.pc = "open_merge"]
    <3>1. q \in Process /\ q.pc = "open_merge" /\ q.id = proc[p].id /\ proc' = [proc EXCEPT ![p] = q]
      BY <1>2, <2>1, GotoIs
    <3> HIDE DEF q
    <3>2. Modest(p, q)
      BY <1>3, <3>1 DEF Modest, Named, Certifying
    <3> QED BY <3>1, <3>2
  <2>2. CASE proc' = AfterGate(p)
    BY <2>2, GateGoes
  <2> QED BY <1>1, <2>1, <2>2
<1>6. p = Loop => stream # <<>>
  BY <1>1 DEF WorkOK, LoopHolds
<1>7. Elsewhere
  BY <1>1, <1>4, GateElsewhere
<1> QED BY <1>2, <1>4, <1>5, <1>6, <1>7, WritingOne

LEMMA GateAside ==
  ASSUME IInv, NEW p \in Gates, Gate(p)
  PROVE  Aside
BY DecideGateAside, PlanClosingAside, ReadyClosingAside, MergeGateAside DEF Gate

-----------------------------------------------------------------------------
(* Operators, the forge and the poll *)

\* No process moves and the ledger stays as it is.
LEMMA Standing ==
  ASSUME IInv, UNCHANGED <<trace, stamp, clock, proc, barrier>>,
         stream' \in Seq(Event), StreamOK', stream # <<>> => stream' # <<>>, Elsewhere
  PROVE  Aside
<1> USE DEF IInv
<1>1. Grows
  BY StillGrows
<1>2. RowsOK' /\ clock' \in Nat /\ clock' >= 1
  <2>1. RowsOK'
    BY DEF WorkOK, RowsOK, StatusOf, Opened
  <2> QED BY <2>1 DEF Types, WorkOK
<1>3. LoopHolds'
  BY DEF WorkOK, LoopHolds
<1> QED BY <1>1, <1>2, <1>3 DEF Aside, Types, Turns

LEMMA StandingAdds ==
  ASSUME IInv, UNCHANGED <<trace, stamp, clock, proc, barrier>>,
         NEW e \in Event, Lawful(e), stream' = Append(stream, e), Elsewhere
  PROVE  Aside
<1>1. Grows
  BY StillGrows DEF IInv
<1>2. stream' \in Seq(Event) /\ StreamOK' /\ stream' # <<>>
  BY <1>1, StreamAdds DEF IInv, WorkOK
<1> QED BY <1>2, Standing

LEMMA StreamAddsTwo ==
  ASSUME Types, StreamOK, Grows, NEW e \in Event, NEW f \in Event, Lawful(e), Lawful(f),
         stream' = stream \o <<e, f>>
  PROVE  stream' \in Seq(Event) /\ StreamOK' /\ stream' # <<>>
<1>1. stream \in Seq(Event) /\ <<e, f>> \in Seq(Event) /\ Len(<<e, f>>) = 2
  BY DEF Types
<1>2. /\ stream' \in Seq(Event) /\ Len(stream') = Len(stream) + 2 /\ Len(stream) \in Nat
      /\ \A i \in 1..Len(stream') :
            stream'[i] = IF i <= Len(stream) THEN stream[i] ELSE <<e, f>>[i - Len(stream)]
  BY <1>1
<1>3. ASSUME NEW i \in 1..Len(stream')
      PROVE  \E g : g = stream'[i] /\ Lawful(g)'
  <2>1. Lawful(e)' /\ Lawful(f)'
    BY LawfulGrows
  <2>2. CASE i <= Len(stream)
    <3>1. i \in 1..Len(stream) /\ stream'[i] = stream[i]
      BY <1>2, <2>2
    <3> QED BY <3>1, StreamStays
  <2>3. CASE i = Len(stream) + 1
    <3>1. stream'[i] = e
      BY <1>2, <2>3
    <3> QED BY <2>1, <3>1
  <2>4. CASE i = Len(stream) + 2
    <3>1. stream'[i] = f
      BY <1>2, <2>4
    <3> QED BY <2>1, <3>1
  <2> QED BY <1>2, <2>2, <2>3, <2>4
<1>4. StreamOK'
  <2> SUFFICES ASSUME NEW i \in 1..Len(stream') PROVE Lawful(stream[i])'
    BY DEF StreamOK
  <2>1. PICK g : g = stream'[i] /\ Lawful(g)'
    BY <1>3
  <2> QED BY <2>1 DEF Lawful, Openable, Opened, StatusOf
<1> QED BY <1>1, <1>2, <1>4

LEMMA CliGoes ==
  ASSUME IInv, proc[Cli].id \in Reviewed \cup {MergeGate},
         NEW pc \in {"complete", "enter", "gate"}, Goto(Cli, pc)
  PROVE  \E q : Modest(Cli, q) /\ proc' = [proc EXCEPT ![Cli] = q]
<1> USE DEF IInv
<1> DEFINE q == [proc[Cli] EXCEPT !.pc = pc]
<1>1. Cli \in Procs /\ Cli \notin Rounds /\ pc \in Step
  BY Actors DEF Runnable, Step
<1>2. q \in Process /\ q.pc = pc /\ q.id = proc[Cli].id /\ proc' = [proc EXCEPT ![Cli] = q]
  BY <1>1, GotoIs
<1> HIDE DEF q
<1>3. Modest(Cli, q)
  BY <1>1, <1>2 DEF Modest, Named, Certifying
<1> QED BY <1>2, <1>3

LEMMA ModestIdle ==
  ASSUME NEW p PROVE Modest(p, Idle)
BY IdleType DEF Modest, Named, Idle, Certifying

\* What an operator named is not a closing round.
LEMMA CliNamed ==
  ASSUME IInv, proc[Cli].pc \in {"deliver", "enter", "complete", "discard"}
  PROVE  /\ proc[Cli].id \in Reviewed \cup {MergeGate}
         /\ proc[Cli].id \in TaskIds /\ proc[Cli].id \notin Rounds
<1>1. Named(Cli, proc[Cli])
  BY Actors DEF IInv, WorkOK, NamesOK
<1> QED BY <1>1, ClosingIs DEF Named

LEMMA DeliverAside ==
  ASSUME IInv, ApproveTask \/ MergeLocally \/ PublishPullRequest \/ EnterPullRequest
  PROVE  Aside
<1> USE DEF IInv
<1>1. /\ proc[Cli].pc \in {"deliver", "enter"}
      /\ UNCHANGED <<trace, stamp, clock, stream, due, barrier, records, bounds>>
      /\ (\E pc \in {"complete", "enter"} : Goto(Cli, pc)) \/ Left(Cli)
  BY DEF ApproveTask, MergeLocally, PublishPullRequest, EnterPullRequest
<1>2. /\ git \in [branch: SUBSET Runnable, merged: SUBSET Runnable,
                  pushed: SUBSET Runnable, worktree: BOOLEAN]
      /\ forge \in [delivery: Deliveries, pr: {"none", "open", "merged"}, entry: BOOLEAN]
  BY DEF Types
<1>3. /\ git' \in [branch: SUBSET Runnable, merged: SUBSET Runnable,
                   pushed: SUBSET Runnable, worktree: BOOLEAN]
      /\ forge' \in [delivery: Deliveries, pr: {"none", "open", "merged"}, entry: BOOLEAN]
  <2>1. CASE ApproveTask
    BY <1>2, <2>1 DEF ApproveTask, outside
  <2>2. CASE MergeLocally
    BY <1>2, <2>2 DEF MergeLocally
  <2>3. CASE PublishPullRequest
    BY <1>2, <2>3 DEF PublishPullRequest, outside
  <2>4. CASE EnterPullRequest
    BY <1>2, <2>4 DEF EnterPullRequest
  <2> QED BY <2>1, <2>2, <2>3, <2>4
<1>4. Elsewhere
  BY <1>1, <1>3 DEF Types, Elsewhere, bounds
<1>5. \E q : Modest(Cli, q) /\ proc' = [proc EXCEPT ![Cli] = q]
  <2>1. CASE \E pc \in {"complete", "enter"} : Goto(Cli, pc)
    BY <1>1, <2>1, CliGoes, CliNamed
  <2>2. CASE Left(Cli)
    BY <2>2, ModestIdle DEF Left
  <2> QED BY <1>1, <2>1, <2>2
<1> QED BY <1>1, <1>4, <1>5, Actors, Moving

\* The events an operator's process writes itself.
LEMMA CliWrites ==
  ASSUME IInv, CompleteApproved \/ WriteDiscard
  PROVE  Aside
<1> USE DEF IInv
<1>1. PICK kind \in {"completed", "status"}, status \in {"completed", "cancelled"} :
        /\ kind = "status" => status = "cancelled"
        /\ proc[Cli].pc \in {"complete", "discard"}
        /\ Write(EventOf(kind, proc[Cli].id, status))
        /\ Publish(EventOf(kind, proc[Cli].id, status))
        /\ Goto(Cli, "gate") \/ Left(Cli)
        /\ UNCHANGED <<clock, due, barrier, records, outside, bounds>>
  BY DEF CompleteApproved, WriteDiscard
<1> DEFINE e == EventOf(kind, proc[Cli].id, status)
<1>2. proc[Cli].id \in TaskIds /\ proc[Cli].id \notin Rounds
  BY <1>1, CliNamed
<1>3. e \in Event /\ Lawful(e)
  <2>1. status \in Status
    BY DEF Status
  <2>2. e \in Event /\ e.at >= 1 /\ e.kind = kind /\ e.id = proc[Cli].id /\ e.status = status
    BY <1>2, <2>1, EventIs
  <2> HIDE DEF e
  <2> QED BY <1>1, <1>2, <2>2 DEF Lawful
<1>4. Write(e) /\ stream' = Append(stream, e)
  BY <1>1 DEF Publish
<1> HIDE DEF e
<1>5. PICK q : Modest(Cli, q) /\ proc' = [proc EXCEPT ![Cli] = q]
  <2>1. CASE Goto(Cli, "gate")
    BY <1>1, <2>1, CliGoes, CliNamed
  <2>2. CASE Left(Cli)
    BY <2>2, ModestIdle DEF Left
  <2> QED BY <1>1, <2>1, <2>2
<1>6. clock' \in Nat /\ clock' >= 1
  BY <1>1 DEF Types, WorkOK
<1>7. Elsewhere
  BY <1>1, RestAside
<1> QED BY <1>1, <1>3, <1>4, <1>5, <1>6, <1>7, Actors, WritingOne

LEMMA CallsStay ==
  ASSUME Types, calls < MaxCalls, calls' = calls + 1,
         UNCHANGED <<due, records, outside, faults>>
  PROVE  Elsewhere
<1>1. calls' \in 0..MaxCalls
  BY DeliveryAssumption DEF Types
<1> QED BY <1>1 DEF Types, Elsewhere, outside

LEMMA DiscardAside ==
  ASSUME IInv, NEW id \in TaskIds, Discard(id)
  PROVE  Aside
<1> USE DEF IInv
<1> DEFINE q == [Idle EXCEPT !.pc = "discard", !.id = id, !.op = "discard"]
<1>1. /\ IsReviewGate(id) /\ calls < MaxCalls /\ calls' = calls + 1
      /\ proc' = [proc EXCEPT ![Cli] = q]
      /\ UNCHANGED <<trace, stamp, clock, stream, due, barrier, records, outside, faults>>
  BY DEF Discard
<1>2. q \in Process /\ q.pc = "discard" /\ q.id = id
  BY IdleType DEF Idle, Process, Step
<1> HIDE DEF q
<1>3. Modest(Cli, q)
  BY <1>1, <1>2, Actors, ClosingIs DEF Modest, Named, Certifying, IsReviewGate, Runnable
<1>4. Elsewhere
  BY <1>1, CallsStay
<1> QED BY <1>1, <1>3, <1>4, Actors, Moving

LEMMA RequestChangesAside ==
  ASSUME IInv, RequestChanges
  PROVE  Aside
<1> USE DEF IInv
<1>1. PICK id \in NextRework :
         stream' = stream \o <<EventOf("plan", id, "planned"), EventOf("ready", id, "ready")>>
  BY DEF RequestChanges
<1> DEFINE e == EventOf("plan", id, "planned")
           f == EventOf("ready", id, "ready")
<1>2. id \in TaskIds /\ id \notin Rounds
  BY ClosingIs, DeliveryAssumption DEF NextRework, Goal, Runnable
<1>3. "planned" \in Status /\ "ready" \in Status
  BY DEF Status
<1>4. /\ e \in Event /\ e.at >= 1 /\ e.kind = "plan" /\ e.id = id
      /\ f \in Event /\ f.at >= 1 /\ f.kind = "ready" /\ f.id = id
  BY <1>2, <1>3, EventIs
<1>5. stream' = stream \o <<e, f>>
  BY <1>1
<1> HIDE DEF e, f
<1>6. Lawful(e) /\ Lawful(f)
  BY <1>2, <1>4 DEF Lawful
<1>7. /\ UNCHANGED <<trace, stamp, clock, proc, barrier>>
      /\ Elsewhere
  BY CallsStay DEF RequestChanges
<1>8. Grows
  BY <1>7, StillGrows
<1>9. stream' \in Seq(Event) /\ StreamOK' /\ stream' # <<>>
  BY <1>4, <1>5, <1>6, <1>8, StreamAddsTwo DEF WorkOK
<1> QED BY <1>7, <1>9, Standing

LEMMA SentBackAside ==
  ASSUME IInv, NEW id \in TaskIds, Reject(id) \/ Retry(id)
  PROVE  Aside
<1> USE DEF IInv
<1>1. PICK kind \in {"feedback", "ready"}, status \in {"unset", "ready"} :
        /\ Publish(EventOf(kind, id, status))
        /\ id \notin Rounds \/ StatusOf(id) # "absent"
        /\ UNCHANGED <<trace, stamp, clock, proc, barrier>>
        /\ Elsewhere
  BY CallsStay, ClosingIs DEF Reject, Retry
<1> DEFINE e == EventOf(kind, id, status)
<1>2. status \in Status
  BY DEF Status
<1>3. e \in Event /\ e.at >= 1 /\ e.kind = kind /\ e.id = id
  BY <1>2, EventIs
<1>4. stream' = Append(stream, e)
  BY <1>1 DEF Publish
<1> HIDE DEF e
<1>5. Lawful(e)
  BY <1>1, <1>3 DEF Lawful
<1> QED BY <1>1, <1>3, <1>4, <1>5, StandingAdds

LEMMA ForgeMergesAside ==
  ASSUME IInv, ForgeMerges
  PROVE  Aside
<1> USE DEF IInv
<1>1. Elsewhere
  BY DEF ForgeMerges, Elsewhere, Types, bounds
<1>2. UNCHANGED <<trace, stamp, clock, proc, barrier, stream>>
  BY DEF ForgeMerges
<1>3. stream' \in Seq(Event) /\ StreamOK'
  BY <1>2, StillGrows, StreamKept DEF WorkOK
<1> QED BY <1>1, <1>2, <1>3, Standing

LEMMA CompleteDeliveredAside ==
  ASSUME IInv, CompleteDelivered
  PROVE  Aside
<1> USE DEF IInv
<1> DEFINE e == EventOf("completed", MergeGate, "completed")
           q == [proc[Poll] EXCEPT !.pc = "remove"]
<1>1. /\ Write(e) \/ UNCHANGED <<trace, stamp>>
      /\ Goto(Poll, "remove")
      /\ UNCHANGED <<clock, stream, due, barrier, records, outside, bounds>>
  BY DEF CompleteDelivered
<1>2. Poll \in Procs /\ Poll \notin Rounds /\ Poll # Cli /\ Poll # Loop /\ "remove" \in Step
  BY Actors DEF Runnable, Step
<1>3. q \in Process /\ q.pc = "remove" /\ proc' = [proc EXCEPT ![Poll] = q]
  BY <1>1, <1>2, GotoIs
<1> HIDE DEF q
<1>4. Modest(Poll, q)
  BY <1>2, <1>3 DEF Modest, Named, Certifying
<1>5. e \in Event /\ Lawful(e)
  <2>1. "completed" \in Status /\ MergeGate \in TaskIds /\ MergeGate \notin Rounds
    BY ClosingIs DEF Status
  <2>2. e \in Event /\ e.at >= 1 /\ e.kind = "completed" /\ e.id = MergeGate
    BY <2>1, EventIs
  <2> HIDE DEF e
  <2> QED BY <2>1, <2>2 DEF Lawful
<1> HIDE DEF e
<1>6. Elsewhere
  BY <1>1, RestAside
<1>7. CASE Write(e)
  <2>1. clock' \in Nat /\ clock' >= 1
    BY <1>1 DEF Types, WorkOK
  <2> QED BY <1>1, <1>2, <1>3, <1>4, <1>5, <1>6, <1>7, <2>1, WritingOne
<1>8. CASE UNCHANGED <<trace, stamp>>
  BY <1>1, <1>2, <1>3, <1>4, <1>6, <1>8, Moving
<1> QED BY <1>1, <1>7, <1>8

LEMMA RemoveDeliveredAside ==
  ASSUME IInv, RemoveDelivered
  PROVE  Aside
<1> USE DEF IInv
<1>1. Elsewhere
  BY DEF RemoveDelivered, Elsewhere, Types, bounds
<1>2. /\ UNCHANGED <<trace, stamp, clock, barrier, stream>>
      /\ proc' = [proc EXCEPT ![Poll] = Idle]
  BY DEF RemoveDelivered, Left
<1> QED BY <1>1, <1>2, ModestIdle, Actors, Moving

-----------------------------------------------------------------------------
(* Steps that end a check *)

LEMMA CheckerHolds ==
  ASSUME IInv, NEW p \in Checkers, proc[p].pc \in Certifying
  PROVE  barrier = p
BY DEF IInv, CertOK, HoldersOK

LEMMA LeaveAside ==
  ASSUME IInv, NEW p \in Checkers, barrier \in {Free, p}, Leave(p),
         p = Loop => proc[p].pc # "idle", UNCHANGED <<trace, stamp, clock>>, Elsewhere
  PROVE  Aside
<1> USE DEF IInv
<1>1. /\ proc' = [proc EXCEPT ![p] = Idle] /\ barrier' = Free
      /\ stream' = IF p = Loop THEN Tail(stream) ELSE stream
  BY DEF Leave, Left
<1>2. p \in Procs /\ Free \notin Procs
  BY Actors
<1>3. /\ proc' \in [Procs -> Process] /\ proc'[p] = Idle
      /\ \A o \in Procs : o # p => proc'[o] = proc[o]
  BY <1>1, <1>2, IdleType, OneProc
<1>4. Grows
  BY StillGrows
<1>5. stream' \in Seq(Event) /\ StreamOK'
  <2>1. CASE p = Loop
    <3>1. stream # <<>> /\ stream' = Tail(stream)
      BY <1>1, <2>1 DEF WorkOK, LoopHolds
    <3> QED BY <1>4, <3>1, StreamDrops DEF WorkOK
  <2>2. CASE p # Loop
    BY <1>1, <1>4, <2>2, StreamKept DEF WorkOK
  <2> QED BY <2>1, <2>2
<1>6. LoopHolds'
  <2>1. CASE p = Loop
    BY <1>3, <2>1 DEF LoopHolds, Idle
  <2>2. CASE p # Loop
    BY <1>1, <1>3, <2>2, Actors DEF WorkOK, LoopHolds
  <2> QED BY <2>1, <2>2
<1>7. ASSUME NEW o \in Procs PROVE Turns(o)
  <2>1. CASE o = p
    <3>1. Named(p, proc[p])'
      BY <1>3, <1>4, ModestIdle, NamedNow DEF Modest
    <3>2. proc'[p].pc \notin Certifying
      BY <1>3 DEF Idle, Certifying
    <3> QED BY <2>1, <3>1, <3>2 DEF Turns
  <2> QED BY <1>3, <2>1 DEF Turns
<1>8. ASSUME NEW o \in Checkers PROVE proc'[o].pc \notin Certifying
  <2>1. CASE o = p
    BY <1>3, <2>1 DEF Idle, Certifying
  <2>2. CASE o # p
    BY <1>2, <1>3, <2>2, Actors, CheckerHolds
  <2> QED BY <2>1, <2>2
<1>9. RowsOK' /\ clock' \in Nat /\ clock' >= 1
  <2>1. RowsOK'
    BY DEF WorkOK, RowsOK, StatusOf, Opened
  <2> QED BY <2>1 DEF Types, WorkOK
<1> QED BY <1>1, <1>3, <1>4, <1>5, <1>6, <1>7, <1>8, <1>9 DEF Aside

LEMMA FaultsStay ==
  ASSUME Types, faults < MaxFaults, faults' = faults + 1
  PROVE  faults' \in 0..MaxFaults
BY DeliveryAssumption DEF Types

LEMMA AnnounceFailsAside ==
  ASSUME IInv, NEW p \in Procs, AnnounceFails(p)
  PROVE  Aside
<1> USE DEF IInv
<1>1. p \in Checkers /\ proc[p].pc = "announce"
  BY DEF AnnounceFails, CertOK, StagesOK
<1>2. barrier = p
  BY <1>1, CheckerHolds DEF Certifying
<1>3. Elsewhere
  BY FaultsStay DEF AnnounceFails, Elsewhere, Types, outside
<1> QED BY <1>1, <1>2, <1>3, LeaveAside DEF AnnounceFails

LEMMA CrashAside ==
  ASSUME IInv, Crash
  PROVE  Aside
<1> USE DEF IInv
<1>1. /\ barrier' = Free
      /\ proc' = [p \in Procs |-> IF p = Cli THEN proc[p] ELSE Idle]
      /\ UNCHANGED <<trace, stamp, clock, stream, records>>
  BY DEF Crash
<1>2. Grows
  BY <1>1, StillGrows
<1>3. Elsewhere
  BY FaultsStay DEF Crash, Elsewhere, Types, outside
<1>4. RowsOK' /\ clock' \in Nat /\ clock' >= 1
  <2>1. RowsOK'
    BY <1>1 DEF WorkOK, RowsOK, StatusOf, Opened
  <2> QED BY <1>1, <2>1 DEF Types, WorkOK
<1>5. stream' \in Seq(Event) /\ StreamOK'
  BY <1>1, <1>2, StreamKept DEF WorkOK
<1>6. proc' \in [Procs -> Process] /\ \A o \in Procs : proc'[o] = IF o = Cli THEN proc[o] ELSE Idle
  BY <1>1, IdleType DEF Types
<1>7. LoopHolds'
  BY <1>6, Actors DEF LoopHolds, Idle
<1>8. ASSUME NEW o \in Procs PROVE Turns(o)
  <2>1. CASE o = Cli
    BY <1>6, <2>1 DEF Turns
  <2>2. CASE o # Cli
    <3>1. proc'[o] = Idle
      BY <1>6, <2>2
    <3>2. Named(o, proc[o])'
      BY <1>2, <3>1, ModestIdle, NamedNow DEF Modest
    <3> QED BY <3>1, <3>2 DEF Turns, Idle, Certifying
  <2> QED BY <2>1, <2>2
<1>9. ASSUME NEW o \in Checkers PROVE proc'[o].pc \notin Certifying
  BY <1>6, Actors DEF Idle, Certifying
<1> QED BY <1>1, <1>2, <1>3, <1>4, <1>5, <1>6, <1>7, <1>8, <1>9 DEF Aside

-----------------------------------------------------------------------------
(* Steps of a certification *)

\* The rows stay as they are.
Stilled == trace'.tasks = trace.tasks /\ UNCHANGED <<stamp, clock>>

LEMMA StilledWork ==
  ASSUME Stilled
  PROVE  /\ RowsOK => RowsOK'
         /\ \A e : Lawful(e) => Lawful(e)'
         /\ \A p, q : Named(p, q) => Named(p, q)'
<1>1. RowsOK => RowsOK'
  BY DEF Stilled, RowsOK, StatusOf, Opened
<1>2. \A e : Lawful(e) => Lawful(e)'
  BY DEF Stilled, Lawful, StatusOf, Openable, Opened
<1>3. \A p, q : Named(p, q) => Named(p, q)'
  BY DEF Stilled, Named, StatusOf, Openable, Opened
<1> QED BY <1>1, <1>2, <1>3

\* One process moves on, and the loop may be done with its event.
LEMMA WorkStays ==
  ASSUME IInv, Stilled, NEW p \in Procs, NEW q \in Process, Named(p, q),
         proc' = [proc EXCEPT ![p] = q], proc[p].pc # "idle" \/ p # Loop,
         \/ stream' = stream
         \/ p = Loop /\ q.pc = "idle" /\ stream' = Tail(stream)
  PROVE  /\ WorkOK' /\ stream' \in Seq(Event)
         /\ proc' \in [Procs -> Process] /\ proc'[p] = q
         /\ \A o \in Procs : o # p => proc'[o] = proc[o]
<1> USE DEF IInv
<1>1. /\ proc' \in [Procs -> Process] /\ proc'[p] = q
      /\ \A o \in Procs : o # p => proc'[o] = proc[o]
  BY OneProc
<1>2. p = Loop => stream # <<>>
  BY DEF WorkOK, LoopHolds
<1>3. stream \in Seq(Event) /\ \A i \in 1..Len(stream) : Lawful(stream[i])
  BY DEF Types, WorkOK, StreamOK
<1>4. stream' \in Seq(Event) /\ \A i \in 1..Len(stream') : \E j \in 1..Len(stream) : stream'[i] = stream[j]
  <2>1. CASE stream' = stream
    BY <1>3, <2>1
  <2>2. CASE stream # <<>> /\ stream' = Tail(stream)
    <3>1. /\ Len(stream') = Len(stream) - 1 /\ Len(stream) \in Nat /\ stream' \in Seq(Event)
          /\ \A i \in 1..Len(stream') : stream'[i] = stream[i + 1]
      BY <1>3, <2>2
    <3>2. \A i \in 1..Len(stream') : i + 1 \in 1..Len(stream)
      BY <3>1
    <3> QED BY <3>1, <3>2
  <2> QED BY <1>2, <2>1, <2>2
<1>5. StreamOK'
  <2> SUFFICES ASSUME NEW i \in 1..Len(stream') PROVE Lawful(stream[i])'
    BY DEF StreamOK
  <2>1. PICK e : e = stream'[i] /\ Lawful(e)
    BY <1>3, <1>4
  <2>2. Lawful(e)'
    BY <2>1, StilledWork
  <2> QED BY <2>1, <2>2 DEF Lawful, Openable, Opened, StatusOf
<1>6. ASSUME NEW o \in Procs PROVE Named(o, proc[o])'
  <2>1. PICK r : r = proc'[o] /\ Named(o, r)
    BY <1>1 DEF WorkOK, NamesOK
  <2>2. Named(o, r)'
    BY <2>1, StilledWork
  <2> QED BY <2>1, <2>2 DEF Named, Openable, Opened, StatusOf
<1>7. LoopHolds'
  <2>1. CASE p = Loop /\ q.pc = "idle"
    BY <1>1, <2>1 DEF LoopHolds
  <2>2. CASE ~(p = Loop /\ q.pc = "idle")
    BY <1>1, <1>2, <2>2, Actors DEF WorkOK, LoopHolds
  <2> QED BY <2>1, <2>2
<1>8. RowsOK' /\ clock' >= 1
  BY StilledWork DEF WorkOK, Stilled
<1> QED BY <1>1, <1>4, <1>5, <1>6, <1>7, <1>8 DEF WorkOK, NamesOK

LEMMA Numbers ==
  ASSUME Types
  PROVE  /\ trace.workRevision \in Nat /\ trace.completion.revision \in Nat
         /\ trace.completion.published \in BOOLEAN
BY DEF Types, Trace

\* Under the barrier of one check no other certifies.
LEMMA OthersAway ==
  ASSUME IInv, NEW p \in Checkers, barrier \in {Free, p}, NEW o \in Checkers, o # p
  PROVE  proc[o].pc \notin Certifying
BY CheckerHolds, Actors

\* The recorded completion and its evidence stay as they are.
LEMMA RecordStays ==
  ASSUME IInv, UNCHANGED <<trace, evidence, recordedBy, heard>>
  PROVE  RecordOK'
BY DEF IInv, CertOK, RecordOK, Current, Captured, Readable, AnnouncedIsEvidenced

LEMMA CheckKeeps ==
  ASSUME IInv, Bounded, NEW p \in Checkers, Check(p)
  PROVE  IInv'
<1> USE DEF IInv
<1> DEFINE q == [proc[p] EXCEPT !.pc = IF Unpublished THEN "announce" ELSE "capture",
                                !.op = IF Unpublished THEN "retry" ELSE "none",
                                !.revision = IF Unpublished THEN trace.completion.revision
                                             ELSE trace.workRevision]
<1>1. /\ Owes(p) /\ barrier \in {Free, p}
      /\ due' = IF proc[p].pc = "idle" THEN due - 1 ELSE due
      /\ UNCHANGED <<trace, stamp, clock, records, outside, bounds>>
  BY DEF Check
<1>2. p \in Procs /\ p \notin Rounds /\ p # Cli /\ Loop # Leaving /\ proc[p] \in Process
  BY Actors DEF Types, Checkers, Runnable
<1>3. due' \in Nat
  <2>1. proc[p].pc = "idle" => due > 0
    BY <1>1 DEF Owes
  <2> QED BY <1>1, <2>1 DEF Types
<1>4. p = Loop => proc[p].pc # "idle"
  BY <1>1, <1>2 DEF Owes
<1>5. CASE ~(Unpublished \/ Certifiable)
  <2>1. Leave(p)
    BY <1>5 DEF Check
  <2>2. Elsewhere
    BY <1>1, <1>3 DEF Types, Elsewhere, outside, bounds
  <2> QED BY <1>1, <1>4, <2>1, <2>2, LeaveAside, AsideKeeps
<1>6. CASE Unpublished \/ Certifiable
  <2>1. barrier' = p /\ UNCHANGED stream /\ proc' = [proc EXCEPT ![p] = q]
    <3>1. /\ barrier' = p /\ UNCHANGED stream
          /\ proc' = [proc EXCEPT ![p].pc = IF Unpublished THEN "announce" ELSE "capture",
                                  ![p].op = IF Unpublished THEN "retry" ELSE "none",
                                  ![p].revision = IF Unpublished
                                                  THEN trace.completion.revision
                                                  ELSE trace.workRevision]
      BY <1>6 DEF Check
    <3> QED BY <1>2, <3>1 DEF Types
  <2>2. /\ trace.completion.revision <= trace.workRevision
        /\ trace.workRevision <= MaxRevision
        /\ trace.workRevision \in 0..MaxRevision
        /\ trace.completion.revision \in 0..MaxRevision
    BY Numbers, DeliveryAssumption DEF CertOK, RecordOK, Bounded
  <2>3. /\ q \in Process
        /\ q.pc = IF Unpublished THEN "announce" ELSE "capture"
        /\ q.revision = IF Unpublished THEN trace.completion.revision ELSE trace.workRevision
    BY <1>2, <2>2 DEF Process, Step
  <2> HIDE DEF q
  <2>4. Named(p, q) /\ q.pc # "idle"
    BY <1>2, <2>3 DEF Named
  <2>5. Stilled
    BY <1>1 DEF Stilled
  <2>6. /\ WorkOK' /\ stream' \in Seq(Event)
        /\ proc' \in [Procs -> Process] /\ proc'[p] = q
        /\ \A o \in Procs : o # p => proc'[o] = proc[o]
    BY <1>2, <1>4, <2>1, <2>3, <2>4, <2>5, WorkStays
  <2>7. Types'
    BY <1>1, <1>3, <2>1, <2>6 DEF Types, records, outside, bounds
  <2>8. RecordOK'
    BY <1>1, RecordStays DEF records
  <2>9. ~Unpublished => trace.completion.revision < trace.workRevision /\ trace.workRevision \in Revisions
    <3>1. ASSUME ~Unpublished PROVE trace.completion.revision # trace.workRevision
      BY <1>6, <3>1 DEF Certifiable
    <3> QED BY <2>2, <3>1, Numbers DEF Revisions
  <2>10. StagesOK'
    <3> SUFFICES ASSUME NEW o \in Procs
                 PROVE  /\ proc'[o].pc \in {"capture", "fill"} => o \in Checkers \cup {Cli, Poll}
                        /\ proc'[o].pc \in {"record", "announce", "mark"} => o \in Checkers
                        /\ proc'[o].pc = "capture" => proc'[o].revision \in Revisions
                        /\ proc'[o].pc \in {"fill", "record"} => Captured(proc'[o].revision)
                        /\ proc'[o].pc = "record" => Readable(evidence[proc'[o].revision])
      BY <1>1 DEF StagesOK, Captured, Readable, records
    <3>1. CASE o = p
      BY <2>3, <2>6, <2>9, <3>1
    <3>2. CASE o # p
      BY <2>6, <3>2 DEF CertOK, StagesOK
    <3> QED BY <3>1, <3>2
  <2>11. HoldersOK'
    <3> SUFFICES ASSUME NEW o \in Checkers, proc'[o].pc \in Certifying
                 PROVE  /\ barrier' = o
                        /\ proc'[o].pc \in {"capture", "fill", "record"} =>
                              /\ ~Unpublished
                              /\ trace.completion.revision < proc'[o].revision
                              /\ proc'[o].revision <= trace.workRevision
                        /\ proc'[o].pc \in {"announce", "mark"} => Unpublished
                        /\ proc'[o].pc # "mark"
      BY <1>1 DEF HoldersOK, Certifying, Unpublished
    <3>1. o = p
      BY <1>1, <2>6, OthersAway, Actors
    <3> QED BY <2>1, <2>2, <2>3, <2>6, <2>9, <3>1, Numbers
  <2> QED BY <2>6, <2>7, <2>8, <2>10, <2>11 DEF CertOK
<1> QED BY <1>5, <1>6

\* An approval, or the poll, asks for evidence of the work that is complete.
LEMMA DeliveryStarts ==
  ASSUME IInv, Bounded, NEW p \in {Cli, Poll}, NEW q,
         q.pc \notin Certifying \ {"capture"},
         q.pc = "capture" => Evidenced /\ q.revision = trace.workRevision,
         q \in Process, Named(p, q), proc' = [proc EXCEPT ![p] = q],
         UNCHANGED <<trace, stamp, clock, stream, barrier>>, Elsewhere
  PROVE  IInv'
<1> USE DEF IInv
<1>1. p \in Procs /\ p # Loop /\ p \notin Checkers
  BY Actors
<1>2. Stilled
  BY DEF Stilled
<1>3. /\ WorkOK' /\ stream' \in Seq(Event)
      /\ proc' \in [Procs -> Process] /\ proc'[p] = q
      /\ \A o \in Procs : o # p => proc'[o] = proc[o]
  BY <1>1, <1>2, WorkStays
<1>4. Types'
  BY <1>3 DEF Types, Elsewhere, records
<1>5. UNCHANGED <<evidence, recordedBy, heard>>
  BY DEF Elsewhere, records
<1>6. RecordOK'
  BY <1>5, RecordStays
<1>7. q.pc = "capture" => q.revision \in Revisions
  BY Numbers, DeliveryAssumption DEF Evidenced, Bounded, Revisions
<1>8. StagesOK'
  <2> SUFFICES ASSUME NEW o \in Procs
               PROVE  /\ proc'[o].pc \in {"capture", "fill"} => o \in Checkers \cup {Cli, Poll}
                      /\ proc'[o].pc \in {"record", "announce", "mark"} => o \in Checkers
                      /\ proc'[o].pc = "capture" => proc'[o].revision \in Revisions
                      /\ proc'[o].pc \in {"fill", "record"} => Captured(proc'[o].revision)
                      /\ proc'[o].pc = "record" => Readable(evidence[proc'[o].revision])
    BY <1>5 DEF StagesOK, Captured, Readable
  <2>1. CASE o = p
    BY <1>3, <1>7, <2>1 DEF Certifying
  <2>2. CASE o # p
    BY <1>3, <2>2 DEF CertOK, StagesOK
  <2> QED BY <2>1, <2>2
<1>9. HoldersOK'
  <2>1. \A o \in Checkers : proc'[o] = proc[o]
    BY <1>1, <1>3, Actors
  <2> QED BY <1>5, <2>1 DEF CertOK, HoldersOK, Current, Unpublished
<1> QED BY <1>3, <1>4, <1>6, <1>8, <1>9 DEF CertOK

LEMMA ApproveKeeps ==
  ASSUME IInv, Bounded, NEW id \in TaskIds, Approve(id)
  PROVE  IInv'
<1> DEFINE q == [Idle EXCEPT !.pc = IF Evidenced THEN "capture" ELSE "deliver",
                             !.op = "approve", !.id = id, !.revision = trace.workRevision]
<1>1. /\ IsReviewGate(id) /\ calls < MaxCalls /\ calls' = calls + 1
      /\ proc' = [proc EXCEPT ![Cli] = q]
      /\ UNCHANGED <<trace, stamp, clock, stream, due, barrier, records, outside, faults>>
  BY DEF Approve
<1>2. trace.workRevision \in 0..MaxRevision
  BY Numbers, DeliveryAssumption DEF Bounded, IInv
<1>3. /\ q \in Process /\ q.id = id /\ q.revision = trace.workRevision
      /\ q.pc = IF Evidenced THEN "capture" ELSE "deliver"
  BY <1>2, IdleType DEF Idle, Process, Step
<1> HIDE DEF q
<1>4. Named(Cli, q)
  BY <1>1, <1>3, Actors, ClosingIs DEF Named, IsReviewGate, Runnable
<1>5. Elsewhere
  BY <1>1, CallsStay DEF IInv
<1>6. q.pc \notin Certifying \ {"capture"} /\ (q.pc = "capture" => Evidenced)
  BY <1>3 DEF Certifying
<1> QED BY <1>1, <1>3, <1>4, <1>5, <1>6, DeliveryStarts

LEMMA PollMergedKeeps ==
  ASSUME IInv, Bounded, PollMerged
  PROVE  IInv'
<1> DEFINE q == [Idle EXCEPT !.pc = IF Evidenced THEN "capture" ELSE "complete",
                             !.revision = trace.workRevision,
                             !.waiting = StatusOf(MergeGate) = "waiting_review"]
<1>1. /\ proc' = [proc EXCEPT ![Poll] = q]
      /\ UNCHANGED <<trace, stamp, clock, stream, due, barrier, records, outside, bounds>>
  BY DEF PollMerged
<1>2. trace.workRevision \in 0..MaxRevision
  BY Numbers, DeliveryAssumption DEF Bounded, IInv
<1>3. /\ q \in Process /\ q.revision = trace.workRevision
      /\ q.pc = IF Evidenced THEN "capture" ELSE "complete"
  <2>1. Idle \in Process /\ (StatusOf(MergeGate) = "waiting_review") \in BOOLEAN
    BY IdleType
  <2> QED BY <1>2, <2>1 DEF Idle, Process, Step
<1> HIDE DEF q
<1>4. Named(Poll, q)
  BY <1>3, Actors DEF Named, Runnable
<1>5. Elsewhere
  BY <1>1, RestAside DEF IInv
<1>6. q.pc \notin Certifying \ {"capture"} /\ (q.pc = "capture" => Evidenced)
  BY <1>3 DEF Certifying
<1> QED BY <1>1, <1>3, <1>4, <1>5, <1>6, DeliveryStarts

\* What is linked or written is not replaced.
Kept ==
    \A r \in Revisions :
        evidence[r].by # Free => /\ evidence'[r].by = evidence[r].by
                                 /\ evidence[r].files \subseteq evidence'[r].files

\* A capture goes on: it links or writes what is missing.
LEMMA CaptureGoes ==
  ASSUME IInv, Kept, evidence' \in [Revisions -> Evidence],
         UNCHANGED <<trace, stamp, clock, stream, due, barrier, recordedBy, heard, outside, bounds>>,
         NEW p \in Checkers \cup {Cli, Poll}, NEW q \in Process, Named(p, q),
         proc' = [proc EXCEPT ![p] = q], proc[p].pc \in {"capture", "fill"},
         q.revision = proc[p].revision,
         p \in Checkers => q.pc \in {"fill", "record"},
         p \notin Checkers => q.pc \in {"fill", "deliver", "complete"},
         q.pc \in {"fill", "record"} => /\ proc[p].revision \in Revisions
                                        /\ evidence'[proc[p].revision].by # Free,
         q.pc = "record" => Readable(evidence'[proc[p].revision])
  PROVE  IInv'
<1> USE DEF IInv
<1>1. p \in Procs /\ (p = Loop => q.pc # "idle")
  BY Actors
<1>2. Stilled
  BY DEF Stilled
<1>3. /\ WorkOK' /\ stream' \in Seq(Event)
      /\ proc' \in [Procs -> Process] /\ proc'[p] = q
      /\ \A o \in Procs : o # p => proc'[o] = proc[o]
  BY <1>1, <1>2, WorkStays
<1>4. Types'
  BY <1>3 DEF Types, outside, bounds
<1>5. \A r : Captured(r) => Captured(r)' /\ evidence'[r].by = evidence[r].by
  BY DEF Captured, Kept
<1>6. \A r \in Revisions : Readable(evidence[r]) => Readable(evidence'[r])
  BY DEF Readable, Kept
<1>7. RecordOK'
  <2>1. RecordOK
    BY DEF CertOK
  <2>2. trace.completion.revision # 0 =>
          /\ Captured(trace.completion.revision)'
          /\ Readable(evidence'[trace.completion.revision])
          /\ evidence'[trace.completion.revision].by = recordedBy
    BY <1>5, <1>6, <2>1 DEF RecordOK, Captured
  <2>3. \A a \in heard : /\ Readable(evidence'[a.revision])
                         /\ evidence'[a.revision].by = a.by
    <3> SUFFICES ASSUME NEW a \in heard
                 PROVE  Readable(evidence'[a.revision]) /\ evidence'[a.revision].by = a.by
      OBVIOUS
    <3>1. a.revision \in Revisions /\ Readable(evidence[a.revision]) /\ evidence[a.revision].by = a.by
      BY <2>1 DEF RecordOK, AnnouncedIsEvidenced, Types, Announcement
    <3>2. Captured(a.revision)
      BY <3>1 DEF Captured, Readable
    <3> QED BY <1>5, <1>6, <3>1, <3>2
  <2> QED BY <2>1, <2>2, <2>3 DEF RecordOK, Current, AnnouncedIsEvidenced, Captured, Readable
<1>8. StagesOK'
  <2> SUFFICES ASSUME NEW o \in Procs
               PROVE  /\ proc'[o].pc \in {"capture", "fill"} => o \in Checkers \cup {Cli, Poll}
                      /\ proc'[o].pc \in {"record", "announce", "mark"} => o \in Checkers
                      /\ proc'[o].pc = "capture" => proc'[o].revision \in Revisions
                      /\ proc'[o].pc \in {"fill", "record"} => Captured(proc[o].revision)'
                      /\ proc'[o].pc = "record" => Readable(evidence'[proc'[o].revision])
    BY DEF StagesOK, Captured, Readable
  <2>1. CASE o = p
    <3>1. q.pc \in {"fill", "record"} => Captured(proc[o].revision)'
      BY <1>3, <2>1 DEF Captured
    <3> QED BY <1>3, <2>1, <3>1
  <2>2. CASE o # p
    <3>1. /\ proc'[o] = proc[o]
          /\ proc[o].pc \in {"capture", "fill"} => o \in Checkers \cup {Cli, Poll}
          /\ proc[o].pc \in {"record", "announce", "mark"} => o \in Checkers
          /\ proc[o].pc = "capture" => proc[o].revision \in Revisions
          /\ proc[o].pc \in {"fill", "record"} => Captured(proc[o].revision)
          /\ proc[o].pc = "record" => Readable(evidence[proc[o].revision])
      BY <1>3, <2>2 DEF CertOK, StagesOK
    <3>2. Captured(proc[o].revision) => /\ Captured(proc[o].revision)'
                                        /\ proc[o].revision \in Revisions
      BY <1>5, <3>1 DEF Captured, Kept
    <3> QED BY <1>6, <3>1, <3>2
  <2> QED BY <2>1, <2>2
<1>9. HoldersOK'
  <2>1. \A o \in Checkers :
           \/ proc'[o] = proc[o]
           \/ /\ o = p /\ proc[o].pc \in {"capture", "fill"}
              /\ proc'[o].pc \in {"fill", "record"} /\ proc'[o].revision = proc[o].revision
    BY <1>3, Actors
  <2>2. HoldersOK
    BY DEF CertOK
  <2> QED BY <2>1, <2>2 DEF HoldersOK, Current, Unpublished, Certifying
<1> QED BY <1>3, <1>4, <1>7, <1>8, <1>9 DEF CertOK

LEMMA CaptureKeeps ==
  ASSUME IInv, NEW p \in Procs, Capture(p)
  PROVE  IInv'
<1> USE DEF IInv
<1> DEFINE q == [proc[p] EXCEPT !.pc = "fill", !.patch = git.worktree /\ Undelivered]
           r == proc[p].revision
           linked == [by |-> p, patch |-> git.worktree /\ Undelivered, files |-> {}]
<1>1. /\ proc[p].pc = "capture" /\ LinkCheckpoint(p)
      /\ proc' = [proc EXCEPT ![p].pc = "fill", ![p].patch = git.worktree /\ Undelivered]
      /\ UNCHANGED <<trace, stamp, clock, stream, due, barrier, recordedBy, heard, outside, bounds>>
  BY DEF Capture
<1>2. p \in Checkers \cup {Cli, Poll} /\ r \in Revisions /\ p \notin Rounds
  BY <1>1, Actors DEF CertOK, StagesOK, Checkers, Runnable
<1>3. proc[p] \in Process /\ evidence \in [Revisions -> Evidence] /\ "fill" \in Step
      /\ git.worktree \in BOOLEAN /\ (git.worktree /\ Undelivered) \in BOOLEAN
  <2>1. git.worktree \in BOOLEAN
    BY DEF Types
  <2>2. Undelivered \in BOOLEAN
    BY DEF Undelivered
  <2> QED BY <2>1, <2>2 DEF Types, Step
<1>4. /\ q \in Process /\ q.pc = "fill" /\ q.revision = r /\ q.id = proc[p].id
  BY <1>3 DEF Process
<1>5. proc' = [proc EXCEPT ![p] = q]
  BY <1>1 DEF Types
<1>6. linked \in Evidence /\ linked.by = p
  BY <1>3 DEF Evidence
<1> HIDE DEF q
<1>7. evidence' = [evidence EXCEPT ![r] = IF @.by = Free THEN linked ELSE @]
  BY <1>1 DEF LinkCheckpoint
<1> HIDE DEF linked, r
<1>8. evidence' \in [Revisions -> Evidence]
  BY <1>2, <1>3, <1>6, <1>7
<1>9. Kept /\ evidence'[r].by # Free
  <2>1. \A s \in Revisions : evidence'[s] = evidence[s] \/ (evidence[s].by = Free /\ s = r /\ evidence'[s] = linked)
    BY <1>2, <1>3, <1>7
  <2>2. evidence'[r].by # Free
    BY <1>2, <1>3, <1>6, <1>7, Actors
  <2> QED BY <2>1, <2>2 DEF Kept
<1>10. Named(p, q)
  <2>1. Named(p, proc[p])
    BY DEF WorkOK, NamesOK
  <2> QED BY <1>1, <1>2, <1>4, <2>1 DEF Named
<1> QED BY <1>1, <1>2, <1>4, <1>5, <1>8, <1>9, <1>10, CaptureGoes DEF r

LEMMA FillKeeps ==
  ASSUME IInv, NEW p \in Procs, Fill(p)
  PROVE  IInv'
<1> USE DEF IInv
<1> DEFINE r == proc[p].revision
           files == evidence[r].files \cup ({"result", "metrics"} \cup
                       IF evidence[r].patch /\ proc[p].patch THEN {"patch"} ELSE {})
           filled == [evidence[r] EXCEPT !.files = files]
           q == [proc[p] EXCEPT !.pc = AfterFill(p)]
<1>1. /\ proc[p].pc = "fill" /\ Goto(p, AfterFill(p))
      /\ evidence' = [evidence EXCEPT ![r].files = @ \cup {"result", "metrics"} \cup
                         IF evidence[r].patch /\ proc[p].patch THEN {"patch"} ELSE {}]
      /\ UNCHANGED <<trace, stamp, clock, stream, due, barrier, recordedBy, heard, outside, bounds>>
  BY DEF Fill
<1>2. /\ p \in Checkers \cup {Cli, Poll} /\ p \notin Rounds
      /\ r \in Revisions /\ evidence[r].by # Free
  BY <1>1, Actors DEF CertOK, StagesOK, Captured, Checkers, Runnable
<1>3. /\ p \in Checkers => AfterFill(p) = "record"
      /\ p \notin Checkers => AfterFill(p) \in {"deliver", "complete"}
      /\ AfterFill(p) \in Step
  BY <1>2, Actors DEF AfterFill, Step
<1>4. q \in Process /\ q.pc = AfterFill(p) /\ q.id = proc[p].id /\ proc' = [proc EXCEPT ![p] = q]
  BY <1>1, <1>3, GotoIs
<1>5. q.revision = r
  BY DEF Types, Process
<1> HIDE DEF q
<1>6. evidence \in [Revisions -> Evidence] /\ evidence[r] \in Evidence
  BY <1>2 DEF Types
<1>7. filled \in Evidence /\ filled.by = evidence[r].by /\ filled.files = files
  BY <1>6 DEF Evidence, Files
<1>8. evidence' = [evidence EXCEPT ![r] = filled]
  <2>1. [evidence EXCEPT ![r].files = @ \cup {"result", "metrics"} \cup
                         IF evidence[r].patch /\ proc[p].patch THEN {"patch"} ELSE {}]
          = [evidence EXCEPT ![r] = [evidence[r] EXCEPT !.files =
                evidence[r].files \cup {"result", "metrics"} \cup
                    IF evidence[r].patch /\ proc[p].patch THEN {"patch"} ELSE {}]]
    BY <1>2, <1>6
  <2>2. files = evidence[r].files \cup {"result", "metrics"} \cup
                    IF evidence[r].patch /\ proc[p].patch THEN {"patch"} ELSE {}
    OBVIOUS
  <2> QED BY <1>1, <2>1, <2>2
<1>9. evidence[r].files \subseteq files /\ {"result", "metrics"} \subseteq files
  OBVIOUS
<1> HIDE DEF filled, files, r
<1>10. evidence' \in [Revisions -> Evidence] /\ evidence'[r] = filled
       /\ \A s \in Revisions : s # r => evidence'[s] = evidence[s]
  BY <1>2, <1>6, <1>7, <1>8
<1>11. Kept
  BY <1>7, <1>9, <1>10 DEF Kept
<1>12. Readable(evidence'[r]) /\ evidence'[r].by # Free
  BY <1>2, <1>7, <1>9, <1>10 DEF Readable
<1>13. Named(p, q)
  <2>1. Named(p, proc[p])
    BY DEF WorkOK, NamesOK
  <2> QED BY <1>1, <1>2, <1>3, <1>4, <2>1, Actors DEF Named
<1> QED BY <1>1, <1>2, <1>3, <1>4, <1>5, <1>10, <1>11, <1>12, <1>13, CaptureGoes DEF r

LEMMA RecordKeeps ==
  ASSUME IInv, NEW p \in Checkers, Record(p)
  PROVE  IInv'
<1> USE DEF IInv
<1> DEFINE r == proc[p].revision
           q == [proc[p] EXCEPT !.pc = "announce"]
<1>1. /\ proc[p].pc = "record" /\ Goto(p, "announce")
      /\ trace' = RecordWorkCompletion(trace, r)
      /\ recordedBy' = IF trace.completion.revision = r THEN recordedBy ELSE evidence[r].by
      /\ UNCHANGED <<stamp, clock, stream, due, barrier, evidence, heard, outside, bounds>>
  BY DEF Record, RecordedCapture
<1>2. p \in Procs /\ p \notin Rounds /\ p # Cli /\ "announce" \in Step
  BY Actors DEF Checkers, Runnable, Step
<1>3. /\ barrier = p /\ ~Unpublished
      /\ trace.completion.revision < r /\ r <= trace.workRevision
      /\ Captured(r) /\ Readable(evidence[r])
  BY <1>1, <1>2 DEF CertOK, HoldersOK, StagesOK, Certifying
<1>4. q \in Process /\ q.pc = "announce" /\ q.revision = r /\ proc' = [proc EXCEPT ![p] = q]
  <2>1. q.revision = r
    BY DEF Types, Process
  <2> QED BY <1>1, <1>2, <2>1, GotoIs
<1> HIDE DEF q
<1>5. r \in Nat /\ r # 0 /\ r \in Revisions /\ trace.completion.revision # r
  BY <1>3, Numbers, DeliveryAssumption DEF Captured, Revisions
<1> HIDE DEF r
<1>6. /\ trace' \in Trace /\ trace'.tasks = trace.tasks /\ trace'.workRevision = trace.workRevision
      /\ trace'.completion.revision = r /\ trace'.completion.published = FALSE
  <2>1. trace' \in Trace
    BY <1>1, <1>5, EpisodeType DEF Types
  <2> QED BY <1>1, <1>5, <2>1 DEF RecordWorkCompletion, Types, Trace
<1>7. Stilled
  BY <1>1, <1>6 DEF Stilled
<1>8. Named(p, q)
  BY <1>2, <1>4 DEF Named
<1>9. /\ WorkOK' /\ stream' \in Seq(Event)
      /\ proc' \in [Procs -> Process] /\ proc'[p] = q
      /\ \A o \in Procs : o # p => proc'[o] = proc[o]
  BY <1>1, <1>2, <1>4, <1>7, <1>8, WorkStays
<1>10. recordedBy' = evidence[r].by /\ evidence[r].by \in Procs \cup {Free}
  BY <1>1, <1>5 DEF Types, Evidence
<1>11. Types'
  BY <1>1, <1>6, <1>9, <1>10 DEF Types, outside, bounds
<1>12. RecordOK'
  BY <1>1, <1>3, <1>6, <1>10 DEF CertOK, RecordOK, Captured, Readable, AnnouncedIsEvidenced
<1>13. StagesOK'
  <2> SUFFICES ASSUME NEW o \in Procs
               PROVE  /\ proc'[o].pc \in {"capture", "fill"} => o \in Checkers \cup {Cli, Poll}
                      /\ proc'[o].pc \in {"record", "announce", "mark"} => o \in Checkers
                      /\ proc'[o].pc = "capture" => proc'[o].revision \in Revisions
                      /\ proc'[o].pc \in {"fill", "record"} => Captured(proc'[o].revision)
                      /\ proc'[o].pc = "record" => Readable(evidence[proc'[o].revision])
    BY <1>1 DEF StagesOK, Captured, Readable
  <2>1. CASE o = p
    BY <1>4, <1>9, <2>1
  <2>2. CASE o # p
    BY <1>9, <2>2 DEF CertOK, StagesOK
  <2> QED BY <2>1, <2>2
<1>14. HoldersOK'
  <2>1. Unpublished'
    BY <1>5, <1>6 DEF Unpublished
  <2>2. \A o \in Checkers : proc'[o].pc \in Certifying => o = p
    BY <1>2, <1>3, <1>9, OthersAway, Actors
  <2> QED BY <1>1, <1>3, <1>4, <1>9, <2>1, <2>2 DEF HoldersOK, Certifying
<1> QED BY <1>9, <1>11, <1>12, <1>13, <1>14 DEF CertOK

LEMMA AnnounceKeeps ==
  ASSUME IInv, NEW p \in Checkers, Announce(p)
  PROVE  IInv'
<1> USE DEF IInv
<1> DEFINE q == [proc[p] EXCEPT !.pc = "mark"]
<1>1. /\ proc[p].pc = "announce" /\ Goto(p, "mark")
      /\ heard' = heard \cup {Current}
      /\ UNCHANGED <<trace, stamp, clock, stream, due, barrier, evidence, recordedBy, outside, bounds>>
  BY DEF Announce, Current
<1>2. p \in Procs /\ p \notin Rounds /\ p # Cli /\ "mark" \in Step
  BY Actors DEF Checkers, Runnable, Step
<1>3. barrier = p /\ Unpublished
  BY <1>1, <1>2 DEF CertOK, HoldersOK, Certifying
<1>4. q \in Process /\ q.pc = "mark" /\ proc' = [proc EXCEPT ![p] = q]
  BY <1>1, <1>2, GotoIs
<1> HIDE DEF q
<1>5. Stilled /\ Named(p, q)
  BY <1>1, <1>2, <1>4 DEF Stilled, Named
<1>6. /\ WorkOK' /\ stream' \in Seq(Event)
      /\ proc' \in [Procs -> Process] /\ proc'[p] = q
      /\ \A o \in Procs : o # p => proc'[o] = proc[o]
  BY <1>1, <1>2, <1>4, <1>5, WorkStays
<1>7. /\ trace.completion.revision \in Revisions
      /\ Readable(evidence[trace.completion.revision])
      /\ evidence[trace.completion.revision].by = recordedBy
      /\ recordedBy # Free
  BY <1>3 DEF CertOK, RecordOK, Unpublished, Captured
<1>8. Current \in Announcement
  BY <1>7 DEF Current, Announcement, Types
<1>9. Types'
  BY <1>1, <1>6, <1>8 DEF Types, outside, bounds
<1>10. RecordOK'
  <2>1. RecordOK
    BY DEF CertOK
  <2>2. \A a \in heard' : /\ Readable(evidence[a.revision])
                          /\ evidence[a.revision].by = a.by
    BY <1>1, <1>7, <2>1 DEF RecordOK, AnnouncedIsEvidenced, Current
  <2> QED BY <1>1, <2>1, <2>2 DEF RecordOK, AnnouncedIsEvidenced, Current, Captured, Readable
<1>11. StagesOK'
  <2> SUFFICES ASSUME NEW o \in Procs
               PROVE  /\ proc'[o].pc \in {"capture", "fill"} => o \in Checkers \cup {Cli, Poll}
                      /\ proc'[o].pc \in {"record", "announce", "mark"} => o \in Checkers
                      /\ proc'[o].pc = "capture" => proc'[o].revision \in Revisions
                      /\ proc'[o].pc \in {"fill", "record"} => Captured(proc'[o].revision)
                      /\ proc'[o].pc = "record" => Readable(evidence[proc'[o].revision])
    BY <1>1 DEF StagesOK, Captured, Readable
  <2>1. CASE o = p
    BY <1>4, <1>6, <2>1
  <2>2. CASE o # p
    BY <1>6, <2>2 DEF CertOK, StagesOK
  <2> QED BY <2>1, <2>2
<1>12. HoldersOK'
  <2>1. Unpublished' /\ Current' \in heard'
    BY <1>1, <1>3 DEF Unpublished, Current
  <2>2. \A o \in Checkers : proc'[o].pc \in Certifying => o = p
    BY <1>2, <1>3, <1>6, OthersAway, Actors
  <2> QED BY <1>1, <1>3, <1>4, <1>6, <2>1, <2>2 DEF HoldersOK, Certifying
<1> QED BY <1>6, <1>9, <1>10, <1>11, <1>12 DEF CertOK

LEMMA MarkKeeps ==
  ASSUME IInv, NEW p \in Checkers, Mark(p)
  PROVE  IInv'
<1> USE DEF IInv
<1> DEFINE q == IF proc[p].op = "retry" THEN [proc[p] EXCEPT !.pc = "check"] ELSE Idle
<1>1. /\ proc[p].pc = "mark" /\ trace' = MarkWorkCompletionPublished(trace)
      /\ IF proc[p].op = "retry" THEN Goto(p, "check") /\ UNCHANGED <<stream, barrier>> ELSE Leave(p)
      /\ UNCHANGED <<stamp, clock, due, records, outside, bounds>>
  BY DEF Mark
<1>2. p \in Procs /\ p \notin Rounds /\ p # Cli /\ "check" \in Step
  BY Actors DEF Checkers, Runnable, Step
<1>3. barrier = p /\ Unpublished /\ Current \in heard
  BY <1>1, <1>2 DEF CertOK, HoldersOK, Certifying
<1>4. /\ q \in Process /\ proc' = [proc EXCEPT ![p] = q]
      /\ q.pc \in {"check", "idle"} /\ barrier' \in {p, Free}
      /\ \/ stream' = stream
         \/ p = Loop /\ q.pc = "idle" /\ stream' = Tail(stream)
  <2>1. CASE proc[p].op = "retry"
    BY <1>1, <1>2, <1>3, <2>1, GotoIs
  <2>2. CASE proc[p].op # "retry"
    <3>1. Leave(p) /\ q = Idle /\ Idle.pc = "idle"
      BY <1>1, <2>2 DEF Idle
    <3> HIDE DEF q
    <3> QED BY <3>1, IdleType DEF Leave, Left
  <2> QED BY <2>1, <2>2
<1> HIDE DEF q
<1>5. /\ trace' \in Trace /\ trace'.tasks = trace.tasks /\ trace'.workRevision = trace.workRevision
      /\ trace'.completion.revision = trace.completion.revision
      /\ trace'.completion.published = TRUE
  <2>1. trace' \in Trace
    BY <1>1, EpisodeType DEF Types
  <2> QED BY <1>1, <2>1 DEF MarkWorkCompletionPublished, Types, Trace
<1>6. Stilled /\ Named(p, q)
  BY <1>1, <1>2, <1>4, <1>5 DEF Stilled, Named
<1>7. /\ WorkOK' /\ stream' \in Seq(Event)
      /\ proc' \in [Procs -> Process] /\ proc'[p] = q
      /\ \A o \in Procs : o # p => proc'[o] = proc[o]
  BY <1>1, <1>2, <1>4, <1>6, WorkStays
<1>8. UNCHANGED <<evidence, recordedBy, heard>>
  BY <1>1 DEF records
<1>9. Types'
  BY <1>1, <1>4, <1>5, <1>7, <1>8 DEF Types, outside, bounds
<1>10. RecordOK'
  BY <1>3, <1>5, <1>8 DEF CertOK, RecordOK, AnnouncedIsEvidenced, Current, Captured, Readable
<1>11. StagesOK'
  <2> SUFFICES ASSUME NEW o \in Procs
               PROVE  /\ proc'[o].pc \in {"capture", "fill"} => o \in Checkers \cup {Cli, Poll}
                      /\ proc'[o].pc \in {"record", "announce", "mark"} => o \in Checkers
                      /\ proc'[o].pc = "capture" => proc'[o].revision \in Revisions
                      /\ proc'[o].pc \in {"fill", "record"} => Captured(proc'[o].revision)
                      /\ proc'[o].pc = "record" => Readable(evidence[proc'[o].revision])
    BY <1>8 DEF StagesOK, Captured, Readable
  <2>1. CASE o = p
    BY <1>4, <1>7, <2>1
  <2>2. CASE o # p
    BY <1>7, <2>2 DEF CertOK, StagesOK
  <2> QED BY <2>1, <2>2
<1>12. HoldersOK'
  <2>1. \A o \in Checkers : proc'[o].pc \notin Certifying
    <3>1. proc'[p].pc \notin Certifying
      BY <1>4, <1>7 DEF Certifying
    <3> QED BY <1>2, <1>3, <1>7, <3>1, OthersAway, Actors
  <2> QED BY <2>1 DEF HoldersOK, Certifying
<1> QED BY <1>7, <1>9, <1>10, <1>11, <1>12 DEF CertOK

-----------------------------------------------------------------------------
(* The start *)

LEMMA LeastOf ==
  ASSUME NEW S, S # {}, S \subseteq Nat
  PROVE  \E m \in S : \A k \in S : m <= k
<1>1. IsWellFoundedOn(OpToRel(<, Nat), Nat)
  BY NatLessThanWellFounded
<1>2. PICK m \in S : \A k \in S : <<k, m>> \notin OpToRel(<, Nat)
  BY <1>1, WFMin
<1>3. \A k \in S : ~(k < m)
  BY <1>2 DEF OpToRel
<1>4. \A k \in S : m <= k
  <2> SUFFICES ASSUME NEW k \in S PROVE m <= k
    OBVIOUS
  <2>1. k \in Nat /\ m \in Nat /\ ~(k < m)
    BY <1>3
  <2> QED BY <2>1
<1> QED BY <1>4

LEMMA FirstPlan ==
  ASSUME NEW ids, ids \subseteq TaskIds, ids \cap Rounds = {},
         NEW t, t = ReduceTaskPlan(EmptyTrace, PlanOf(ids), FALSE, FALSE, 1)
  PROVE  /\ t \in Trace /\ t.completion = [revision |-> 0, published |-> FALSE]
         /\ \A r \in Rounds : t.tasks[r].status = "absent"
<1> DEFINE plan == PlanOf(ids)
           z == EmptyTrace
           fresh == {id \in DOMAIN plan : ~Registered(z.tasks[id])}
           rows == [id \in TaskIds |-> IF id \in fresh
                                       THEN PlannedRow(plan[id], FALSE, FALSE, 1)
                                       ELSE z.tasks[id]]
           planned == [z EXCEPT !.tasks = rows]
           accepted == \E id \in fresh : IsGoalWork(planned.tasks[id])
           admitted == IF accepted THEN AdvanceWorkRevision(planned) ELSE planned
           promoted == PromoteParked(admitted)
<1>1. plan \in Plan /\ DOMAIN plan = ids /\ 1 \in Stamps
  <2>1. \A id \in ids : TaskSpecOf(id) \in TaskSpec
    BY DEF TaskSpecOf, TaskSpec
  <2>2. plan \in [ids -> TaskSpec] /\ DOMAIN plan = ids
    BY <2>1 DEF PlanOf
  <2> QED BY <2>2, DeliveryAssumption DEF Plan
<1>2. z \in Trace /\ z.completion = [revision |-> 0, published |-> FALSE]
      /\ \A r \in TaskIds : z.tasks[r].status = "absent"
  BY EmptyType DEF EmptyTrace, NoRow
<1>3. t \in Trace
  <2>1. t = ReduceTaskPlan(z, plan, FALSE, FALSE, 1) /\ FALSE \in BOOLEAN
    OBVIOUS
  <2> HIDE DEF plan, z
  <2> QED BY <1>1, <1>2, <2>1, PlanType
<1>4. t = DropStaleKick(promoted)
  BY DEF ReduceTaskPlan
<1> HIDE DEF z
<1>5. rows \in [TaskIds -> Task]
  <2>1. \A id \in DOMAIN plan : plan[id] \in TaskSpec
    BY <1>1 DEF Plan
  <2>2. \A spec \in TaskSpec : PlannedRow(spec, FALSE, FALSE, 1) \in Task
    BY <1>1 DEF TaskSpec, PlannedRow, PlannedPhase, Task, Status, Phase, Workspace
  <2> QED BY <1>2, <2>1, <2>2, TraceRow
<1>6. \A r \in Rounds : r \in TaskIds /\ rows[r].status = "absent"
  BY <1>1, <1>2, ClosingIs
<1>7. planned \in Trace /\ planned.tasks = rows /\ planned.completion = z.completion
  <2> HIDE DEF rows
  <2> QED BY <1>2, <1>5, RowsType DEF Trace
<1> HIDE DEF rows, planned, accepted
<1>8. admitted \in Trace /\ admitted.tasks = rows /\ admitted.completion = z.completion
  <2>1. CASE accepted
    BY <1>7, <2>1, AdvanceType, AdvanceFrame
  <2>2. CASE ~accepted
    BY <1>7, <2>2
  <2> QED BY <2>1, <2>2
<1> HIDE DEF admitted
<1>9. /\ promoted \in Trace /\ promoted.completion = z.completion
      /\ \A r \in TaskIds : LET before == rows[r].status
                                after == promoted.tasks[r].status
                            IN  after = before \/ Starts(before, after)
  BY <1>8, PromoteParkedType, ParkedFrame
<1> HIDE DEF promoted
<1>10. t.tasks = promoted.tasks /\ t.completion = z.completion
  BY <1>4, <1>9, DropFrame
<1> QED BY <1>2, <1>3, <1>6, <1>9, <1>10 DEF Starts

LEMMA InitHolds == Init => IInv
<1> SUFFICES ASSUME Init PROVE IInv
  OBVIOUS
<1>1. /\ trace \in Trace /\ trace.completion = [revision |-> 0, published |-> FALSE]
      /\ \A r \in Rounds : StatusOf(r) = "absent"
  <2>1. PICK gates \in SUBSET {MergeGate} :
           trace = ReduceTaskPlan(EmptyTrace, PlanOf(Work \cup gates), FALSE, FALSE, 1)
    BY DEF Init
  <2>2. Work \cup gates \subseteq TaskIds /\ (Work \cup gates) \cap Rounds = {}
    BY ClosingIs, DeliveryAssumption DEF Goal, Runnable
  <2> QED BY <2>1, <2>2, FirstPlan DEF StatusOf
<1> DEFINE first == CHOOSE id \in Work : \A o \in Work : id <= o
           e == [kind |-> "ready", id |-> first, status |-> "ready", at |-> clock]
<1>2. clock = 1 /\ stamp = [id \in TaskIds |-> 0] /\ stream = <<e>>
  BY DEF Init
<1>3. first \in Work /\ first \in TaskIds /\ first \notin Rounds
  <2>1. Work \subseteq TaskIds /\ Work \cap Rounds = {}
    BY ClosingIs, DeliveryAssumption DEF Goal, Runnable
  <2>2. Work # {} /\ Work \subseteq Nat
    BY <2>1, DeliveryAssumption, IdsAssumption
  <2>3. \E id \in Work : \A o \in Work : id <= o
    BY <2>2, LeastOf
  <2> QED BY <2>1, <2>3
<1> HIDE DEF first
<1>4. e \in Event /\ Lawful(e)
  BY <1>2, <1>3 DEF Event, Status, Lawful
<1> HIDE DEF e
<1>5. proc = [p \in Procs |-> Idle]
  BY DEF Init
<1>6. /\ barrier = Free /\ recordedBy = Free /\ heard = {}
      /\ evidence = [r \in Revisions |-> NoEvidence]
  BY DEF Init
<1>7. Types
  <2>1. stream \in Seq(Event)
    BY <1>2, <1>4
  <2>2. proc \in [Procs -> Process]
    BY <1>5, IdleType
  <2>3. evidence \in [Revisions -> Evidence]
    BY <1>6 DEF NoEvidence, Evidence
  <2>4. /\ git \in [branch: SUBSET Runnable, merged: SUBSET Runnable,
                    pushed: SUBSET Runnable, worktree: BOOLEAN]
        /\ forge \in [delivery: Deliveries, pr: {"none", "open", "merged"}, entry: BOOLEAN]
        /\ due \in Nat /\ calls \in 0..MaxCalls /\ faults \in 0..MaxFaults
    BY DeliveryAssumption DEF Init
  <2> QED BY <1>1, <1>2, <1>6, <2>1, <2>2, <2>3, <2>4 DEF Types
<1>8. WorkOK
  <2>1. RowsOK
    BY <1>1, ClosingIs DEF RowsOK
  <2>2. StreamOK
    BY <1>2, <1>4 DEF StreamOK
  <2>3. NamesOK
    BY <1>5, ModestIdle DEF NamesOK, Modest
  <2>4. LoopHolds
    BY <1>5, Actors DEF LoopHolds, Idle
  <2> QED BY <1>2, <2>1, <2>2, <2>3, <2>4 DEF WorkOK
<1>9. CertOK
  <2>1. \A p \in Procs : proc[p].pc = "idle"
    BY <1>5 DEF Idle
  <2>2. StagesOK
    BY <2>1 DEF StagesOK
  <2>3. HoldersOK
    BY <2>1, Actors DEF HoldersOK, Certifying
  <2>4. RecordOK
    BY <1>1, <1>6, Numbers, <1>7 DEF RecordOK, AnnouncedIsEvidenced
  <2> QED BY <2>2, <2>3, <2>4 DEF CertOK
<1> QED BY <1>7, <1>8, <1>9 DEF IInv

-----------------------------------------------------------------------------
(* Every step *)

LEMMA AdvanceKeeps ==
  ASSUME IInv, Bounded, NEW p \in Procs, Advance(p)
  PROVE  IInv'
<1>1. CASE p \in Runnable \cup {Loop, Cli} /\ Gate(p)
  BY <1>1, GateAside, AsideKeeps DEF Gates
<1>2. CASE p \in Checkers /\ Complete(p)
  BY <1>2, CheckKeeps, RecordKeeps, AnnounceKeeps, MarkKeeps DEF Complete
<1>3. CASE Capture(p) \/ Fill(p)
  BY <1>3, CaptureKeeps, FillKeeps
<1>4. CASE p = Loop /\ LoopStep
  BY <1>4, TakeEventAside, ReopenAside, ResumeAside, AsideKeeps DEF LoopStep
<1>5. CASE p = Cli /\ CliStep
  BY <1>5, DeliverAside, CliWrites, AsideKeeps DEF CliStep
<1>6. CASE p = Poll /\ PollStep
  BY <1>6, PollMergedKeeps, CompleteDeliveredAside, RemoveDeliveredAside, AsideKeeps DEF PollStep
<1>7. CASE p \in Runnable /\ RunStep(p)
  BY <1>7, StartRunAside, ProposeAside, StageAside, SetStatusAside, CompleteRunAside,
     AsideKeeps DEF RunStep
<1> QED BY <1>1, <1>2, <1>3, <1>4, <1>5, <1>6, <1>7 DEF Advance

LEMMA StepKeeps ==
  ASSUME IInv, Bounded, [Next]_vars
  PROVE  IInv'
<1>1. CASE \E p \in Procs : Advance(p)
  BY <1>1, AdvanceKeeps
<1>2. CASE Operator
  BY <1>2, ApproveKeeps, DiscardAside, SentBackAside, RequestChangesAside, AsideKeeps DEF Operator
<1>3. CASE ForgeMerges
  BY <1>3, ForgeMergesAside, AsideKeeps
<1>4. CASE Fault
  BY <1>4, CrashAside, AnnounceFailsAside, StageAside, AsideKeeps DEF Fault
<1>5. CASE UNCHANGED vars
  <2>1. UNCHANGED <<trace, stamp, clock, proc, barrier, stream>> /\ Elsewhere
    BY <1>5, RestAside DEF vars, IInv, outside, bounds, records
  <2>2. Grows
    BY <2>1, StillGrows DEF IInv
  <2>3. stream' \in Seq(Event) /\ StreamOK'
    BY <2>1, <2>2, StreamKept DEF IInv, WorkOK
  <2> QED BY <2>1, <2>3, Standing, AsideKeeps
<1> QED BY <1>1, <1>2, <1>3, <1>4, <1>5 DEF Next

LEMMA AlwaysIInv == Spec /\ []Bounded => []IInv
<1>1. Init => IInv
  BY InitHolds
<1>2. IInv /\ Bounded /\ [Next]_vars => IInv'
  BY StepKeeps
<1> QED BY <1>1, <1>2, PTL DEF Spec

-----------------------------------------------------------------------------
(* What is shown *)

(* Every variable keeps its type, whatever the processes, the operators,   *)
(* the forge and the crashes do to the trail (runtime, runs and review).   *)
THEOREM TypeCorrect == Spec /\ []Bounded => []TypeOK
<1>1. IInv /\ Bounded => TypeOK
  BY DEF IInv, Types, Bounded, TypeOK
<1> QED BY <1>1, AlwaysIInv, PTL

(* Whoever captured what, an announced completion has its checkpoint, its  *)
(* result and its metrics, under the identity that was announced           *)
(* (publishCompletion, WriteWorkCompletion).                               *)
THEOREM AnnouncementsAreEvidenced == Spec /\ []Bounded => []AnnouncedIsEvidenced
<1>1. IInv => AnnouncedIsEvidenced
  BY DEF IInv, CertOK, RecordOK
<1> QED BY <1>1, AlwaysIInv, PTL

(* However many gates decide at once, a closing round opens only when the  *)
(* ones before it have each completed or proposed (ensureClosingRound).    *)
THEOREM RoundsOpenInTurn == Spec /\ []Bounded => []OneClosingRound
<1>1. IInv => OneClosingRound
  <2> SUFFICES ASSUME IInv, NEW a \in ClosingRows, NEW b \in ClosingRows,
                      stamp[a] = 0, stamp[b] = 0
               PROVE  a = b
    BY DEF OneClosingRound
  <2>1. PICK m \in 1..Len(Closing) : a = Closing[m]
    BY ClosingIs DEF ClosingRows
  <2>2. PICK n \in 1..Len(Closing) : b = Closing[n]
    BY ClosingIs DEF ClosingRows
  <2>3. Opened(m) /\ Opened(n)
    BY <2>1, <2>2 DEF IInv, WorkOK, RowsOK, ClosingRows
  <2>4. m \in Nat /\ n \in Nat /\ m >= 1 /\ n >= 1
    BY ClosingIs
  <2>5. ~(m < n)
    BY <2>1, <2>3, <2>4 DEF Opened
  <2>6. ~(n < m)
    BY <2>2, <2>3, <2>4 DEF Opened
  <2>7. m = n
    BY <2>4, <2>5, <2>6
  <2> QED BY <2>1, <2>2, <2>7
<1> QED BY <1>1, AlwaysIInv, PTL

\* What every listener may rely on does not change.
MilestoneStays == UNCHANGED Certified!vars

LEMMA AsideStays ==
  ASSUME Aside
  PROVE  MilestoneStays
BY DEF Aside, Grows, Frame, Elsewhere, records, MilestoneStays, Certified!vars

LEMMA QuietStays ==
  ASSUME UNCHANGED <<trace, recordedBy, heard>>
  PROVE  MilestoneStays
BY DEF MilestoneStays, Certified!vars

LEMMA RecordCertifies ==
  ASSUME IInv, NEW p \in Checkers, Record(p)
  PROVE  Certified!Next
<1> USE DEF IInv
<1> DEFINE r == proc[p].revision
<1>1. /\ proc[p].pc = "record" /\ trace' = RecordWorkCompletion(trace, r)
      /\ recordedBy' = IF trace.completion.revision = r THEN recordedBy ELSE evidence[r].by
      /\ UNCHANGED heard
  BY DEF Record, RecordedCapture
<1>2. p \in Procs
  BY Actors
<1>3. /\ ~Unpublished
      /\ trace.completion.revision < r /\ Captured(r)
  BY <1>1, <1>2 DEF CertOK, HoldersOK, StagesOK
<1> HIDE DEF r
<1>4. r \in 1..MaxRevision /\ r \in Nat /\ trace.completion.revision # r
  BY <1>3, Numbers, DeliveryAssumption DEF Captured, Revisions
<1>5. trace'.completion.revision = r /\ trace'.completion.published = FALSE
  BY <1>1, <1>4 DEF RecordWorkCompletion, Types, Trace
<1>6. recordedBy' = evidence[r].by /\ evidence[r].by \in Procs
  BY <1>1, <1>3, <1>4 DEF Types, Evidence, Captured
<1>7. Certified!Certify(r, recordedBy')
  BY <1>1, <1>3, <1>4, <1>5, <1>6, Numbers DEF Certified!Certify, Unpublished
<1> QED BY <1>4, <1>6, <1>7 DEF Certified!Next

LEMMA AnnounceAnnounces ==
  ASSUME IInv, NEW p \in Checkers, Announce(p)
  PROVE  Certified!Next
<1>1. /\ proc[p].pc = "announce" /\ heard' = heard \cup {Current}
      /\ UNCHANGED <<trace, recordedBy>>
  BY DEF Announce, Current
<1>2. Unpublished
  BY <1>1 DEF IInv, CertOK, HoldersOK
<1>3. Certified!Announce
  BY <1>1, <1>2 DEF Certified!Announce, Certified!Current, Current, Unpublished
<1> QED BY <1>3 DEF Certified!Next

LEMMA MarkAcknowledges ==
  ASSUME IInv, NEW p \in Checkers, Mark(p)
  PROVE  Certified!Next
<1>1. /\ proc[p].pc = "mark" /\ trace' = MarkWorkCompletionPublished(trace)
      /\ UNCHANGED <<recordedBy, heard>>
  BY DEF Mark, records
<1>2. Unpublished /\ Current \in heard
  BY <1>1 DEF IInv, CertOK, HoldersOK
<1>3. /\ trace'.completion.revision = trace.completion.revision
      /\ trace'.completion.published = TRUE
  BY <1>1 DEF MarkWorkCompletionPublished, IInv, Types, Trace
<1>4. Certified!Acknowledge
  BY <1>1, <1>2, <1>3 DEF Certified!Acknowledge, Certified!Current, Current, Unpublished
<1> QED BY <1>4 DEF Certified!Next

LEMMA AdvanceMaps ==
  ASSUME IInv, NEW p \in Procs, Advance(p)
  PROVE  Certified!Next \/ MilestoneStays
<1>1. CASE p \in Runnable \cup {Loop, Cli} /\ Gate(p)
  BY <1>1, GateAside, AsideStays DEF Gates
<1>2. CASE p \in Checkers /\ Check(p)
  BY <1>2, QuietStays DEF Check, records
<1>3. CASE p \in Checkers /\ (Record(p) \/ Announce(p) \/ Mark(p))
  BY <1>3, RecordCertifies, AnnounceAnnounces, MarkAcknowledges
<1>4. CASE Capture(p) \/ Fill(p)
  BY <1>4, QuietStays DEF Capture, Fill
<1>5. CASE p = Loop /\ LoopStep
  BY <1>5, TakeEventAside, ReopenAside, ResumeAside, AsideStays DEF LoopStep
<1>6. CASE p = Cli /\ CliStep
  BY <1>6, DeliverAside, CliWrites, AsideStays DEF CliStep
<1>7. CASE p = Poll /\ PollStep
  <2>1. CASE PollMerged
    BY <2>1, QuietStays DEF PollMerged, records
  <2> QED BY <1>7, <2>1, CompleteDeliveredAside, RemoveDeliveredAside, AsideStays DEF PollStep
<1>8. CASE p \in Runnable /\ RunStep(p)
  BY <1>8, StartRunAside, ProposeAside, StageAside, SetStatusAside, CompleteRunAside,
     AsideStays DEF RunStep
<1> QED BY <1>1, <1>2, <1>3, <1>4, <1>5, <1>6, <1>7, <1>8 DEF Advance, Complete

LEMMA StepMaps ==
  ASSUME IInv, [Next]_vars
  PROVE  Certified!Next \/ MilestoneStays
<1>1. CASE \E p \in Procs : Advance(p)
  BY <1>1, AdvanceMaps
<1>2. CASE Operator
  <2>1. ASSUME NEW id \in TaskIds, Approve(id) PROVE MilestoneStays
    BY <2>1, QuietStays DEF Approve, records
  <2> QED BY <1>2, <2>1, DiscardAside, SentBackAside, RequestChangesAside, AsideStays DEF Operator
<1>3. CASE ForgeMerges
  BY <1>3, ForgeMergesAside, AsideStays
<1>4. CASE Fault
  BY <1>4, CrashAside, AnnounceFailsAside, StageAside, AsideStays DEF Fault
<1>5. CASE UNCHANGED vars
  BY <1>5, QuietStays DEF vars
<1> QED BY <1>1, <1>2, <1>3, <1>4, <1>5 DEF Next

(* The processes of a trail implement what the milestone promises: each of *)
(* their steps certifies, announces, acknowledges or leaves it alone       *)
(* (work_completion.go, and the captures of operators and the poll).       *)
THEOREM MilestoneIsKept == Spec /\ []Bounded => KeepsMilestone
<1>1. Init => Certified!Init
  <2> SUFFICES ASSUME Init PROVE Certified!Init
    OBVIOUS
  <2>1. recordedBy = Free /\ heard = {}
    BY DEF Init
  <2>2. trace.completion = [revision |-> 0, published |-> FALSE]
    <3>1. PICK gates \in SUBSET {MergeGate} :
             trace = ReduceTaskPlan(EmptyTrace, PlanOf(Work \cup gates), FALSE, FALSE, 1)
      BY DEF Init
    <3>2. Work \cup gates \subseteq TaskIds /\ (Work \cup gates) \cap Rounds = {}
      BY ClosingIs, DeliveryAssumption DEF Goal, Runnable
    <3> QED BY <3>1, <3>2, FirstPlan
  <2> QED BY <2>1, <2>2 DEF Certified!Init
<1>2. IInv /\ [Next]_vars => [Certified!Next]_(Certified!vars)
  BY StepMaps DEF MilestoneStays
<1> QED BY <1>1, <1>2, AlwaysIInv, PTL DEF Spec, KeepsMilestone, Certified!Spec

(* Announced again, across retries and crashes, a completion has the same  *)
(* identity (work_completion.go: a retry reuses the recorded identity).    *)
THEOREM OneIdentity == Spec /\ []Bounded => []Certified!OneIdentityPerRevision
<1>1. AnnouncedIsEvidenced => Certified!OneIdentityPerRevision
  BY DEF AnnouncedIsEvidenced, Certified!OneIdentityPerRevision
<1> QED BY <1>1, AnnouncementsAreEvidenced, PTL

LEMMA StepSkipsNothing ==
  ASSUME IInv, [Next]_vars, trace'.completion.revision # trace.completion.revision
  PROVE  trace.completion.revision = 0 \/ Certified!Current \in heard
<1>1. Certified!Next
  BY StepMaps DEF MilestoneStays, Certified!vars
<1>2. trace.completion.revision = 0 \/ trace.completion.published
  BY <1>1 DEF Certified!Next, Certified!Certify, Certified!Announce, Certified!Acknowledge
<1>3. trace.completion.published => Current \in heard
  BY DEF IInv, CertOK, RecordOK
<1> QED BY <1>2, <1>3 DEF Current, Certified!Current

(* No completion replaces one that was never announced (work_completion.go:*)
(* the recorded episode comes first).                                      *)
THEOREM NoneSkipped == Spec /\ []Bounded => Certified!NothingSkipped
<1>1. IInv /\ [Next]_vars =>
         [(trace.completion.revision)' # trace.completion.revision =>
             trace.completion.revision = 0 \/ Certified!Current \in heard]_(Certified!vars)
  BY StepSkipsNothing
<1> QED BY <1>1, AlwaysIInv, PTL DEF Spec, Certified!NothingSkipped

-----------------------------------------------------------------------------
(* What an event does to the goal's rows *)

Settled == {"absent", "unset", "completed", "cancelled"}

Promotes(a, b) ==
    \/ b = a
    \/ /\ a.status = "planned" /\ b.status = "ready" /\ b.phase = a.phase
       /\ b.analysis = a.analysis /\ b.workspace = a.workspace
Rest(t, u) ==
    u \in Trace /\ u.killed = t.killed /\ u.pending = t.pending /\ u.workRevision = t.workRevision
Promoting(t, u) == Rest(t, u) /\ \A r \in TaskIds : Promotes(t.tasks[r], u.tasks[r])

LEMMA DropPromotes ==
  ASSUME NEW t \in Trace
  PROVE  Promoting(t, DropStaleKick(t))
<1>1. DropStaleKick(t) \in Trace
  BY DropStaleKickType
<1> QED BY <1>1 DEF DropStaleKick, Promoting, Rest, Promotes, Trace

LEMMA ParkedPromotes ==
  ASSUME NEW t \in Trace
  PROVE  Promoting(t, PromoteParked(t))
<1> DEFINE k == t.parked
           row == [t.tasks[k.task] EXCEPT !.status = "ready", !.bee = Overlay(@, k.bee)]
           moved == [t EXCEPT !.tasks[k.task].status = "ready",
                              !.tasks[k.task].bee = Overlay(@, k.bee),
                              !.parked = NoKick]
<1>1. PromoteParked(t) = t \/ (PromoteParked(t) = moved /\ IsFirstEligible(t, k.task))
  BY DEF PromoteParked
<1>2. PromoteParked(t) \in Trace
  BY PromoteParkedType
<1>3. Rest(t, t) /\ Promoting(t, t)
  BY DEF Rest, Promoting, Promotes
<1>4. ASSUME IsFirstEligible(t, k.task), PromoteParked(t) = moved
      PROVE  Promoting(t, moved)
  <2>1. k.task \in TaskIds /\ t.tasks[k.task].status = "planned"
    BY <1>4 DEF IsFirstEligible, EligiblePlanned
  <2>2. moved.tasks = [t.tasks EXCEPT ![k.task] = row]
    BY <2>1, TraceRow DEF Trace, Task
  <2>3. /\ row.status = "ready" /\ row.phase = t.tasks[k.task].phase
        /\ row.analysis = t.tasks[k.task].analysis /\ row.workspace = t.tasks[k.task].workspace
    BY <2>1, TraceRow DEF Task
  <2>4. Rest(t, moved)
    BY <1>2, <1>4 DEF Rest, Trace
  <2> HIDE DEF row
  <2>5. \A r \in TaskIds : moved.tasks[r] = IF r = k.task THEN row ELSE t.tasks[r]
    BY <2>2, TraceRow
  <2> QED BY <2>1, <2>3, <2>4, <2>5 DEF Promoting, Promotes
<1> QED BY <1>1, <1>3, <1>4

LEMMA FirstPromotes ==
  ASSUME NEW t \in Trace
  PROVE  Promoting(t, PromoteFirstEligible(t))
<1> DEFINE u == PromoteFirstEligible(t)
<1>1. u \in Trace
  BY PromoteFirstEligibleType
<1>2. /\ u.killed = t.killed /\ u.pending = t.pending /\ u.workRevision = t.workRevision
      /\ u.tasks = [id \in TaskIds |->
            IF ~t.killed /\ ~HasReadyTask(t) /\ IsFirstEligible(t, id)
            THEN [t.tasks[id] EXCEPT !.status = "ready"] ELSE t.tasks[id]]
  BY DEF PromoteFirstEligible, Trace
<1>3. ASSUME NEW r \in TaskIds PROVE Promotes(t.tasks[r], u.tasks[r])
  <2>1. CASE ~t.killed /\ ~HasReadyTask(t) /\ IsFirstEligible(t, r)
    <3>1. t.tasks[r].status = "planned"
      BY <2>1 DEF IsFirstEligible, EligiblePlanned
    <3>2. u.tasks[r] = [t.tasks[r] EXCEPT !.status = "ready"]
      BY <1>2, <2>1
    <3> HIDE DEF u
    <3> QED BY <3>1, <3>2, TraceRow DEF Promotes, Task
  <2>2. CASE ~(~t.killed /\ ~HasReadyTask(t) /\ IsFirstEligible(t, r))
    <3>1. u.tasks[r] = t.tasks[r]
      BY <1>2, <2>2
    <3> HIDE DEF u
    <3> QED BY <3>1 DEF Promotes
  <2> QED BY <2>1, <2>2
<1> HIDE DEF u
<1> QED BY <1>1, <1>2, <1>3 DEF u, Promoting, Rest

LEMMA PromotingTwice ==
  ASSUME NEW t, NEW u, NEW v, Promoting(t, u), Promoting(u, v)
  PROVE  Promoting(t, v)
BY DEF Promoting, Rest, Promotes

\* What an event may make of a row.
RowGoes(t, u, e, r) ==
    LET a == t.tasks[r]
        b == u.tasks[r]
    IN  /\ r \in Goal /\ IsGoalWork(a) => IsGoalWork(b)
        /\ b.workspace = "isolated" => a.workspace = "isolated" \/ e.kind = "proposal"
        /\ b.status = "waiting_review" =>
              \/ a.status = "waiting_review"
              \/ e.kind = "status" /\ e.id = r /\ e.status = "waiting_review"
        /\ a.status \notin {"absent", "unset"}
              /\ (e.kind = "status" => e.status \notin {"absent", "unset"}) =>
                    b.status \notin {"absent", "unset"}
        /\ /\ r \in Goal /\ IsGoalWork(a) /\ a.status \in Settled
           /\ u.workRevision = t.workRevision
           /\ e.kind = "status" /\ e.id = r =>
                 e.status = "cancelled" \/ (e.status = "ready" /\ a.status \notin {"absent", "unset"})
           => b.status \in Settled
RowsGo(t, u, e) ==
    /\ u \in Trace /\ u.killed = t.killed /\ (t.pending = <<>> => u.pending = <<>>)
    /\ t.workRevision <= u.workRevision
    /\ \A r \in TaskIds : RowGoes(t, u, e, r)

\* A row as it was goes nowhere, and a promotion changes no answer.
LEMMA RowStays ==
  ASSUME NEW t, NEW u, NEW e, NEW r, u.tasks[r] = t.tasks[r]
  PROVE  RowGoes(t, u, e, r)
BY DEF RowGoes

LEMMA PromotedGoes ==
  ASSUME NEW t, NEW u, NEW v, NEW e, RowsGo(t, u, e), Promoting(u, v)
  PROVE  RowsGo(t, v, e)
<1>1. ASSUME NEW r \in TaskIds PROVE RowGoes(t, v, e, r)
  <2>1. RowGoes(t, u, e, r) /\ Promotes(u.tasks[r], v.tasks[r]) /\ v.workRevision = u.workRevision
    BY DEF RowsGo, Promoting, Rest
  <2>2. CASE v.tasks[r] = u.tasks[r]
    BY <2>1, <2>2 DEF RowGoes
  <2>3. CASE v.tasks[r] # u.tasks[r]
    <3>1. /\ u.tasks[r].status = "planned" /\ v.tasks[r].status = "ready"
          /\ v.tasks[r].phase = u.tasks[r].phase /\ v.tasks[r].analysis = u.tasks[r].analysis
          /\ v.tasks[r].workspace = u.tasks[r].workspace
      BY <2>1, <2>3 DEF Promotes
    <3>2. IsGoalWork(u.tasks[r]) => IsGoalWork(v.tasks[r])
      BY <3>1 DEF IsGoalWork, PhaseOf
    <3> QED BY <2>1, <3>1, <3>2 DEF RowGoes, Settled
  <2> QED BY <2>2, <2>3
<1> QED BY <1>1 DEF RowsGo, Promoting, Rest

LEMMA RestGoes ==
  ASSUME NEW t, NEW u, NEW e, Rest(t, u), t.workRevision \in Nat,
         \A r \in TaskIds : RowGoes(t, u, e, r)
  PROVE  RowsGo(t, u, e)
BY DEF Rest, RowsGo

LEMMA PlanGoes ==
  ASSUME NEW t \in Trace, NEW e \in Event, e.kind = "plan"
  PROVE  RowsGo(t, ApplyEvent(t, e), e)
<1> DEFINE plan == PlanOf({e.id})
           runtime == e.id \in Rounds \cup {MergeGate}
           fresh == {id \in DOMAIN plan : ~Registered(t.tasks[id])}
           rows == [id \in TaskIds |-> IF id \in fresh
                                       THEN PlannedRow(plan[id], runtime, FALSE, 1)
                                       ELSE t.tasks[id]]
           planned == [t EXCEPT !.tasks = rows]
           accepted == \E id \in fresh : IsGoalWork(planned.tasks[id])
           admitted == IF accepted THEN AdvanceWorkRevision(planned) ELSE planned
           promoted == PromoteParked(admitted)
           u == ApplyEvent(t, e)
<1>1. e.id \in TaskIds /\ plan \in Plan /\ runtime \in BOOLEAN /\ 1 \in Stamps /\ DOMAIN plan = {e.id}
      /\ plan[e.id] = TaskSpecOf(e.id)
  BY SpecType, DeliveryAssumption DEF Event, PlanOf
<1>2. u = DropStaleKick(promoted)
  BY DEF ApplyEvent, ReduceTaskPlan
<1>3. PlannedRow(TaskSpecOf(e.id), runtime, FALSE, 1) \in Task
  BY <1>1 DEF TaskSpecOf, PlannedRow, PlannedPhase, Task, Status, Phase, Workspace
<1>4. rows \in [TaskIds -> Task]
  BY <1>1, <1>3, TraceRow
<1>5. \A r \in TaskIds : rows[r] = IF r = e.id /\ ~Registered(t.tasks[r])
                                 THEN PlannedRow(TaskSpecOf(r), runtime, FALSE, 1)
                                 ELSE t.tasks[r]
  BY <1>1
<1>6. planned.tasks = rows /\ planned \in Trace /\ planned.workRevision = t.workRevision
      /\ planned.killed = t.killed /\ planned.pending = t.pending
  <2> HIDE DEF rows
  <2> QED BY <1>4, RowsType DEF Trace
<1>7. accepted <=> ~Registered(t.tasks[e.id]) /\ IsGoalWork(rows[e.id])
  <2>1. fresh = IF ~Registered(t.tasks[e.id]) THEN {e.id} ELSE {}
    BY <1>1
  <2> QED BY <1>6, <2>1
<1>8. e.id \in Goal /\ ~Registered(t.tasks[e.id]) => IsGoalWork(rows[e.id])
  <2> SUFFICES ASSUME e.id \in Goal, ~Registered(t.tasks[e.id]) PROVE IsGoalWork(rows[e.id])
    OBVIOUS
  <2>1. rows[e.id] = PlannedRow(TaskSpecOf(e.id), FALSE, FALSE, 1) /\ TaskSpecOf(e.id).phase = "work"
    BY <1>1, <1>5, DeliveryAssumption DEF TaskSpecOf, Runnable
  <2> HIDE DEF rows
  <2> QED BY <2>1 DEF PlannedRow, PlannedPhase, IsGoalWork, PhaseOf
<1> HIDE DEF rows, planned, accepted
<1>9. /\ admitted \in Trace /\ admitted.tasks = rows
      /\ admitted.killed = t.killed /\ admitted.pending = t.pending
      /\ admitted.workRevision = IF accepted THEN t.workRevision + 1 ELSE t.workRevision
  BY <1>6, AdvanceType DEF AdvanceWorkRevision, Trace
<1> HIDE DEF admitted
<1>10. ASSUME NEW r \in TaskIds PROVE RowGoes(t, admitted, e, r)
  <2>1. CASE r = e.id /\ ~Registered(t.tasks[r])
    <3>1. rows[r].status = "planned" /\ rows[r].workspace = "none"
      <4> HIDE DEF runtime
      <4>1. rows[r] = PlannedRow(TaskSpecOf(r), runtime, FALSE, 1)
        BY <1>5, <2>1
      <4> QED BY <4>1 DEF PlannedRow
    <3>2. r \in Goal => IsGoalWork(rows[r]) /\ admitted.workRevision # t.workRevision
      BY <1>7, <1>8, <1>9, <2>1 DEF Trace
    <3> QED BY <1>9, <3>1, <3>2 DEF RowGoes
  <2>2. CASE ~(r = e.id /\ ~Registered(t.tasks[r]))
    BY <1>5, <1>9, <2>2, RowStays
  <2> QED BY <2>1, <2>2
<1>11. RowsGo(t, admitted, e)
  BY <1>9, <1>10 DEF RowsGo, Trace
<1>12. Promoting(admitted, u)
  <2>1. promoted \in Trace
    BY <1>9, PromoteParkedType
  <2>2. Promoting(admitted, promoted)
    BY <1>9, ParkedPromotes
  <2> HIDE DEF promoted, u
  <2>3. Promoting(promoted, u)
    BY <1>2, <2>1, DropPromotes
  <2> QED BY <2>2, <2>3, PromotingTwice
<1> HIDE DEF u
<1> QED BY <1>11, <1>12, PromotedGoes DEF u

LEMMA ReadyGoes ==
  ASSUME NEW t \in Trace, NEW e \in Event, e.kind = "ready"
  PROVE  RowsGo(t, ApplyEvent(t, e), e)
<1> DEFINE id == e.id
           row == [t.tasks[id] EXCEPT !.status = "ready", !.bee = Overlay(@, NoBee)]
           requeued == [t EXCEPT !.tasks[id].status = "ready", !.tasks[id].bee = Overlay(@, NoBee)]
           parked == [t EXCEPT !.parked = [task |-> id, bee |-> NoBee], !.tasks[id] = NoRow]
           back == IF IsGoalWork(t.tasks[id]) /\ IsReworkReturn(t.tasks[id].status)
                   THEN AdvanceWorkRevision(requeued) ELSE requeued
           u == ApplyEvent(t, e)
<1>1. id \in TaskIds /\ u = ReduceTaskReady(t, id, NoBee)
  BY DEF Event, ApplyEvent
<1>2. row \in Task /\ NoRow \in Task /\ [task |-> id, bee |-> NoBee] \in Kick
  BY <1>1, TraceRow, KickedRowType DEF NoRow, Task, Status, Phase, Workspace, Kick
<1>3. requeued = [t EXCEPT !.tasks = [t.tasks EXCEPT ![id] = row]]
  BY <1>1, TraceRow DEF Trace, Task
<1>4. /\ row.status = "ready" /\ row.workspace = t.tasks[id].workspace
      /\ row.phase = t.tasks[id].phase /\ row.analysis = t.tasks[id].analysis
  BY <1>1, TraceRow DEF Task
<1>5. IsGoalWork(t.tasks[id]) => IsGoalWork(row)
  <2> HIDE DEF row
  <2> QED BY <1>4 DEF IsGoalWork, PhaseOf
<1> HIDE DEF row
<1>6. /\ requeued \in Trace /\ Rest(t, requeued)
      /\ \A r \in TaskIds : requeued.tasks[r] = IF r = id THEN row ELSE t.tasks[r]
  <2> HIDE DEF requeued
  <2>1. [t.tasks EXCEPT ![id] = row] \in [TaskIds -> Task]
    BY <1>1, <1>2, TraceRow
  <2>2. requeued \in Trace
    BY <1>3, <2>1, RowsType
  <2> QED BY <1>3, <2>1, <2>2, TraceRow DEF Rest, Trace
<1>7. /\ parked \in Trace /\ Rest(t, parked)
      /\ \A r \in TaskIds : parked.tasks[r] = IF r = id THEN NoRow ELSE t.tasks[r]
  <2>1. [t.tasks EXCEPT ![id] = NoRow] \in [TaskIds -> Task]
    BY <1>1, <1>2, TraceRow
  <2>2. parked \in Trace
    BY <1>2, <2>1 DEF Trace
  <2> QED BY <2>1, <2>2, TraceRow DEF Rest, Trace
<1>8. /\ back \in Trace /\ back.tasks = requeued.tasks
      /\ back.killed = t.killed /\ back.pending = t.pending
      /\ back.workRevision = IF IsGoalWork(t.tasks[id]) /\ IsReworkReturn(t.tasks[id].status)
                             THEN t.workRevision + 1 ELSE t.workRevision
  <2> HIDE DEF requeued
  <2> QED BY <1>6, AdvanceType DEF AdvanceWorkRevision, Trace, Rest
<1>9. \/ u = t
      \/ ~Registered(t.tasks[id]) /\ u = DropStaleKick(parked)
      \/ t.tasks[id].status \in {"failed", "running"} /\ u = DropStaleKick(back)
      \/ t.tasks[id].status = "planned" /\ u = DropStaleKick(requeued)
  <2>1. IsFirstEligible(t, id) => t.tasks[id].status = "planned"
    BY DEF IsFirstEligible, EligiblePlanned
  <2> QED BY <1>1, <2>1 DEF ReduceTaskReady
<1> HIDE DEF requeued, parked, back, u
<1>10. CASE u = t
  <2>1. Rest(t, t) /\ t.workRevision \in Nat /\ \A r \in TaskIds : RowGoes(t, t, e, r)
    BY RowStays DEF Rest, Trace
  <2> QED BY <1>10, <2>1, RestGoes DEF u
<1>11. CASE ~Registered(t.tasks[id]) /\ u = DropStaleKick(parked)
  <2>1. ASSUME NEW r \in TaskIds PROVE RowGoes(t, parked, e, r)
    <3>1. CASE r = id
      <4>1. NoRow.status = "absent" /\ NoRow.workspace = "none" /\ IsGoalWork(NoRow)
        BY DEF NoRow, IsGoalWork, PhaseOf
      <4> QED BY <1>7, <1>11, <3>1, <4>1 DEF RowGoes, Registered, Settled
    <3>2. CASE r # id
      BY <1>7, <3>2, RowStays
    <3> QED BY <3>1, <3>2
  <2>2. RowsGo(t, parked, e)
    BY <1>7, <2>1, RestGoes DEF Trace
  <2>3. Promoting(parked, u)
    BY <1>7, <1>11, DropPromotes
  <2> QED BY <2>2, <2>3, PromotedGoes DEF u
<1>12. CASE t.tasks[id].status \in {"failed", "running"} /\ u = DropStaleKick(back)
  <2>1. ASSUME NEW r \in TaskIds PROVE RowGoes(t, back, e, r)
    <3>1. CASE r = id
      BY <1>4, <1>5, <1>6, <1>8, <1>12, <3>1 DEF RowGoes, Settled
    <3>2. CASE r # id
      BY <1>6, <1>8, <3>2, RowStays
    <3> QED BY <3>1, <3>2
  <2>2. RowsGo(t, back, e)
    BY <1>8, <2>1 DEF RowsGo, Trace
  <2>3. Promoting(back, u)
    BY <1>8, <1>12, DropPromotes
  <2> QED BY <2>2, <2>3, PromotedGoes DEF u
<1>13. CASE t.tasks[id].status = "planned" /\ u = DropStaleKick(requeued)
  <2>1. ASSUME NEW r \in TaskIds PROVE RowGoes(t, requeued, e, r)
    <3>1. CASE r = id
      BY <1>4, <1>5, <1>6, <1>13, <3>1 DEF RowGoes, Settled
    <3>2. CASE r # id
      BY <1>6, <3>2, RowStays
    <3> QED BY <3>1, <3>2
  <2>2. RowsGo(t, requeued, e)
    BY <1>6, <2>1, RestGoes DEF Trace
  <2>3. Promoting(requeued, u)
    BY <1>6, <1>13, DropPromotes
  <2> QED BY <2>2, <2>3, PromotedGoes DEF u
<1> QED BY <1>9, <1>10, <1>11, <1>12, <1>13

LEMMA NothingPending ==
  ASSUME NEW t \in Trace, NEW which, NEW status \in EntryStatus
  PROVE  /\ CloseEntries(t, which, status) \in Trace
         /\ CloseEntries(t, which, status).tasks = t.tasks
         /\ CloseEntries(t, which, status).killed = t.killed
         /\ CloseEntries(t, which, status).workRevision = t.workRevision
         /\ t.pending = <<>> => CloseEntries(t, which, status).pending = <<>>
<1> DEFINE u == CloseEntries(t, which, status)
           f == [i \in 1..Len(t.pending) |->
                    IF i \in which THEN [t.pending[i] EXCEPT !.status = status]
                    ELSE t.pending[i]]
<1>1. u \in Trace /\ u = [t EXCEPT !.pending = f]
  <2>1. u = [t EXCEPT !.pending = f]
    BY Zenon DEF CloseEntries
  <2>2. u \in Trace
    BY CloseEntriesType
  <2> QED BY <2>1, <2>2
<1>2. u.tasks = t.tasks /\ u.killed = t.killed /\ u.workRevision = t.workRevision /\ u.pending = f
  <2> HIDE DEF u, f
  <2> QED BY <1>1 DEF Trace
<1>3. ASSUME t.pending = <<>> PROVE u.pending = <<>>
  <2>1. DOMAIN f = {}
    BY <1>3
  <2>2. f \in Seq(Entry)
    BY <1>1, <1>2 DEF Trace
  <2> HIDE DEF u, f
  <2>3. Len(f) = 0
    BY <2>1, <2>2
  <2> QED BY <1>2, <2>2, <2>3
<1> QED BY <1>1, <1>2, <1>3

LEMMA StatusGoes ==
  ASSUME NEW t \in Trace, NEW e \in Event, e.kind = "status"
  PROVE  RowsGo(t, ApplyEvent(t, e), e)
<1> DEFINE id == e.id
           row == [StampedRow(t, id, 1) EXCEPT !.status = e.status]
           moved == [t EXCEPT !.tasks[id] = row]
           back == /\ IsGoalWork(t.tasks[id])
                   /\ IsReworkReturn(t.tasks[id].status)
                   /\ e.status \in {"ready", "running"}
           reopened == IF back THEN AdvanceWorkRevision(moved) ELSE moved
           closed == IF e.status = "running" THEN ConsumeTaskEntries(reopened, id) ELSE reopened
           u == ApplyEvent(t, e)
<1>1. id \in TaskIds /\ e.status \in Status /\ 1 \in Stamps /\ u = ReduceTaskStatus(t, id, e.status, 1)
  BY DeliveryAssumption DEF Event, ApplyEvent
<1>2. /\ row \in Task /\ row.status = e.status /\ row.workspace = t.tasks[id].workspace
      /\ row.phase = t.tasks[id].phase /\ row.analysis = t.tasks[id].analysis
  <2>1. StampedRow(t, id, 1) \in Task
    BY <1>1, StampedRowType
  <2>2. /\ StampedRow(t, id, 1).workspace = t.tasks[id].workspace
        /\ StampedRow(t, id, 1).phase = t.tasks[id].phase
        /\ StampedRow(t, id, 1).analysis = t.tasks[id].analysis
    BY <1>1, TraceRow DEF StampedRow, Task
  <2> QED BY <1>1, <2>1, <2>2, RowType DEF Task
<1>3. u = IF t.killed THEN t ELSE DropStaleKick(closed)
  BY <1>1 DEF ReduceTaskStatus
<1>4. moved = [t EXCEPT !.tasks = [t.tasks EXCEPT ![id] = row]]
  BY <1>1 DEF Trace
<1> HIDE DEF row
<1>5. /\ moved \in Trace /\ Rest(t, moved)
      /\ \A r \in TaskIds : moved.tasks[r] = IF r = id THEN row ELSE t.tasks[r]
  <2> HIDE DEF moved
  <2>1. [t.tasks EXCEPT ![id] = row] \in [TaskIds -> Task]
    BY <1>1, <1>2, TraceRow
  <2>2. moved \in Trace
    BY <1>4, <2>1, RowsType
  <2> QED BY <1>4, <2>1, <2>2, TraceRow DEF Rest, Trace
<1> HIDE DEF moved, u
<1>6. /\ reopened \in Trace /\ reopened.tasks = moved.tasks
      /\ reopened.killed = t.killed /\ reopened.pending = t.pending
      /\ reopened.workRevision = IF back THEN t.workRevision + 1 ELSE t.workRevision
  <2> HIDE DEF back
  <2> QED BY <1>5, AdvanceType DEF AdvanceWorkRevision, Trace, Rest
<1> HIDE DEF reopened
<1>7. /\ closed \in Trace /\ closed.tasks = moved.tasks /\ closed.killed = t.killed
      /\ t.pending = <<>> => closed.pending = <<>>
      /\ closed.workRevision = IF back THEN t.workRevision + 1 ELSE t.workRevision
  <2> HIDE DEF back
  <2> QED BY <1>6, NothingPending DEF ConsumeTaskEntries, EntryStatus
<1> HIDE DEF closed
<1>8. CASE t.killed
  <2>1. Rest(t, t) /\ t.workRevision \in Nat /\ \A r \in TaskIds : RowGoes(t, t, e, r)
    BY RowStays DEF Rest, Trace
  <2> QED BY <1>3, <1>8, <2>1, RestGoes DEF u
<1>9. CASE ~t.killed
  <2>1. ASSUME NEW r \in TaskIds PROVE RowGoes(t, closed, e, r)
    <3>1. CASE r = id
      <4>1. closed.tasks[r] = row
        BY <1>1, <1>5, <1>7, <3>1
      <4>2. IsGoalWork(t.tasks[r]) => IsGoalWork(row)
        BY <1>2, <3>1 DEF IsGoalWork, PhaseOf
      <4>3. /\ IsGoalWork(t.tasks[r]) /\ t.tasks[r].status \in Settled
            /\ t.tasks[r].status \notin {"absent", "unset"}
            /\ closed.workRevision = t.workRevision
            => e.status # "ready"
        BY <1>7, <3>1 DEF Settled, IsReworkReturn, Trace
      <4> QED BY <1>2, <3>1, <4>1, <4>2, <4>3 DEF RowGoes, Settled
    <3>2. CASE r # id
      BY <1>5, <1>7, <3>2, RowStays
    <3> QED BY <3>1, <3>2
  <2>2. RowsGo(t, closed, e)
    BY <1>7, <2>1 DEF RowsGo, Trace
  <2>3. Promoting(closed, u)
    BY <1>3, <1>7, <1>9, DropPromotes
  <2> QED BY <2>2, <2>3, PromotedGoes DEF u
<1> QED BY <1>8, <1>9

LEMMA CompletedGoes ==
  ASSUME NEW t \in Trace, NEW e \in Event, e.kind = "completed"
  PROVE  RowsGo(t, ApplyEvent(t, e), e)
<1> DEFINE id == e.id
           row == [StampedRow(t, id, 1) EXCEPT !.status = "completed"]
           moved == [t EXCEPT !.tasks[id] = row]
           u == ApplyEvent(t, e)
<1>1. id \in TaskIds /\ 1 \in Stamps /\ u = ReduceTaskCompleted(t, id, "completed", 1)
  BY DeliveryAssumption DEF Event, ApplyEvent
<1>2. /\ row \in Task /\ row.status = "completed" /\ row.workspace = t.tasks[id].workspace
      /\ row.phase = t.tasks[id].phase /\ row.analysis = t.tasks[id].analysis
  <2>1. StampedRow(t, id, 1) \in Task
    BY <1>1, StampedRowType
  <2>2. /\ StampedRow(t, id, 1).workspace = t.tasks[id].workspace
        /\ StampedRow(t, id, 1).phase = t.tasks[id].phase
        /\ StampedRow(t, id, 1).analysis = t.tasks[id].analysis
    BY <1>1, TraceRow DEF StampedRow, Task
  <2>3. "completed" \in Status
    BY DEF Status
  <2> QED BY <2>1, <2>2, <2>3, RowType DEF Task
<1>3. u = IF t.killed THEN t ELSE DropStaleKick(PromoteFirstEligible(PromoteParked(moved)))
  BY <1>1 DEF ReduceTaskCompleted
<1>4. moved = [t EXCEPT !.tasks = [t.tasks EXCEPT ![id] = row]]
  BY <1>1 DEF Trace
<1> HIDE DEF row
<1>5. /\ moved \in Trace /\ Rest(t, moved)
      /\ \A r \in TaskIds : moved.tasks[r] = IF r = id THEN row ELSE t.tasks[r]
  <2> HIDE DEF moved
  <2>1. [t.tasks EXCEPT ![id] = row] \in [TaskIds -> Task]
    BY <1>1, <1>2, TraceRow
  <2>2. moved \in Trace
    BY <1>4, <2>1, RowsType
  <2> QED BY <1>4, <2>1, <2>2, TraceRow DEF Rest, Trace
<1> HIDE DEF moved, u
<1>6. CASE t.killed
  <2>1. Rest(t, t) /\ t.workRevision \in Nat /\ \A r \in TaskIds : RowGoes(t, t, e, r)
    BY RowStays DEF Rest, Trace
  <2> QED BY <1>3, <1>6, <2>1, RestGoes DEF u
<1>7. CASE ~t.killed
  <2> DEFINE v == PromoteParked(moved)
             w == PromoteFirstEligible(v)
  <2>1. ASSUME NEW r \in TaskIds PROVE RowGoes(t, moved, e, r)
    <3>1. CASE r = id
      <4>1. moved.tasks[r] = row
        BY <1>1, <1>5, <3>1
      <4>2. IsGoalWork(t.tasks[r]) => IsGoalWork(row)
        BY <1>2, <3>1 DEF IsGoalWork, PhaseOf
      <4> QED BY <1>2, <3>1, <4>1, <4>2 DEF RowGoes, Settled
    <3>2. CASE r # id
      BY <1>5, <3>2, RowStays
    <3> QED BY <3>1, <3>2
  <2>2. RowsGo(t, moved, e)
    BY <1>5, <2>1, RestGoes DEF Trace
  <2>3. v \in Trace /\ Promoting(moved, v)
    BY <1>5, PromoteParkedType, ParkedPromotes
  <2> HIDE DEF v
  <2>4. w \in Trace /\ Promoting(v, w)
    BY <2>3, PromoteFirstEligibleType, FirstPromotes
  <2> HIDE DEF w
  <2>5. Promoting(w, u)
    BY <1>3, <1>7, <2>4, DropPromotes DEF v, w
  <2>6. Promoting(moved, u)
    BY <2>3, <2>4, <2>5, PromotingTwice
  <2> QED BY <2>2, <2>6, PromotedGoes DEF u
<1> QED BY <1>6, <1>7

LEMMA ProposalGoes ==
  ASSUME NEW t \in Trace, NEW e \in Event, e.kind = "proposal"
  PROVE  RowsGo(t, ApplyEvent(t, e), e)
<1> DEFINE id == e.id
           old == StampedRow(t, id, 1)
           row == [old EXCEPT !.workspace = "isolated",
                              !.status = IF @ = "absent" THEN "unset" ELSE @]
           moved == [t EXCEPT !.tasks[id] = row]
           u == ApplyEvent(t, e)
<1>1. id \in TaskIds /\ 1 \in Stamps /\ u = ReduceCodeProposal(t, id, "isolated", 1)
  BY DeliveryAssumption DEF Event, ApplyEvent
<1>2. /\ old \in Task /\ old.status = t.tasks[id].status
      /\ old.phase = t.tasks[id].phase /\ old.analysis = t.tasks[id].analysis
  BY <1>1, StampedRowType, TraceRow DEF StampedRow, Task
<1>3. u = DropStaleKick(moved)
  BY <1>1 DEF ReduceCodeProposal
<1> HIDE DEF old, u
<1>4. /\ row \in Task /\ row.status = IF old.status = "absent" THEN "unset" ELSE old.status
      /\ row.phase = old.phase /\ row.analysis = old.analysis
  BY <1>2 DEF Task, Status, Workspace
<1>5. moved = [t EXCEPT !.tasks = [t.tasks EXCEPT ![id] = row]]
  BY <1>1 DEF Trace
<1> HIDE DEF row
<1>6. /\ moved \in Trace /\ Rest(t, moved)
      /\ \A r \in TaskIds : moved.tasks[r] = IF r = id THEN row ELSE t.tasks[r]
  <2> HIDE DEF moved
  <2>1. [t.tasks EXCEPT ![id] = row] \in [TaskIds -> Task]
    BY <1>1, <1>4, TraceRow
  <2>2. moved \in Trace
    BY <1>5, <2>1, RowsType
  <2> QED BY <1>5, <2>1, <2>2, TraceRow DEF Rest, Trace
<1> HIDE DEF moved
<1>7. ASSUME NEW r \in TaskIds PROVE RowGoes(t, moved, e, r)
  <2>1. CASE r = id
    <3>1. moved.tasks[r] = row
      BY <1>1, <1>6, <2>1
    <3>2. IsGoalWork(t.tasks[r]) => IsGoalWork(row)
      BY <1>2, <1>4, <2>1 DEF IsGoalWork, PhaseOf
    <3> QED BY <1>2, <1>4, <2>1, <3>1, <3>2 DEF RowGoes, Settled
  <2>2. CASE r # id
    BY <1>6, <2>2, RowStays
  <2> QED BY <2>1, <2>2
<1>8. RowsGo(t, moved, e)
  BY <1>6, <1>7, RestGoes DEF Trace
<1>9. Promoting(moved, u)
  BY <1>3, <1>6, DropPromotes
<1> QED BY <1>8, <1>9, PromotedGoes DEF u

LEMMA EventGoes ==
  ASSUME NEW t \in Trace, NEW e \in Event
  PROVE  RowsGo(t, ApplyEvent(t, e), e)
<1>1. CASE e.kind \in {"plan", "ready", "status", "completed", "proposal"}
  BY <1>1, PlanGoes, ReadyGoes, StatusGoes, CompletedGoes, ProposalGoes
<1>2. CASE e.kind = "feedback"
  <2>1. ApplyEvent(t, e) = t
    BY <1>2 DEF ApplyEvent
  <2>2. Rest(t, t) /\ t.workRevision \in Nat /\ \A r \in TaskIds : RowGoes(t, t, e, r)
    BY RowStays DEF Rest, Trace
  <2> QED BY <2>1, <2>2, RestGoes
<1> QED BY <1>1, <1>2 DEF Event

-----------------------------------------------------------------------------
(* What a step does to the goal's rows and runs *)

\* What is published sets no status but a discard's and the merge gate's.
Asks(e) == e.kind = "status" /\ e.id = MergeGate /\ e.status = "waiting_review"
Sent(e) == e.kind = "status" => e.status = "cancelled" \/ Asks(e)
AllSent == \A i \in 1..Len(stream) : Sent(stream[i])
\* The goal's rows are never taken for others, and nothing waits.
RowsKept ==
    /\ \A id \in Goal : IsGoalWork(trace.tasks[id])
    /\ \A id \in Work : Registered(trace.tasks[id])
    /\ ~trace.killed /\ trace.pending = <<>> /\ trace.workRevision # 0
    /\ AllSent
Rested == \A id \in Goal : ~InFlight(id) /\ StatusOf(id) \in Settled

\* Something was proposed, and the merge gate may have been asked for.
Calls(e) == e.kind = "proposal" \/ Asks(e)
Asked ==
    \/ StatusOf(MergeGate) = "waiting_review"
    \/ \E id \in TaskIds : trace.tasks[id].workspace = "isolated"
    \/ \E p \in Procs : proc[p].pc \in {"plan_merge", "open_merge"}
    \/ \E i \in 1..Len(stream) : Calls(stream[i])
\* ... or was by the step at hand.
Wanted == Asked \/ git'.branch # {}

LedgerStays ==
    /\ trace'.tasks = trace.tasks /\ trace'.killed = trace.killed
    /\ trace'.pending = trace.pending /\ trace'.workRevision = trace.workRevision
\* A status of the goal comes from a run, or reopens or discards a review.
Spares(e) ==
    /\ e.kind = "status" =>
          /\ e.status \notin {"absent", "unset"}
          /\ e.id \in Goal => \/ e.status = "cancelled" \/ InFlight(e.id)
                              \/ e.status = "ready" /\ e.id \in Work
    /\ Calls(e) => Asked
Reopens(e, r) == e.kind = "status" /\ e.id = r /\ e.status = "ready"
NoneStarts == \A r \in Goal : proc[r].pc = "idle" => proc'[r].pc = "idle"
StreamGoes ==
    \A i \in 1..Len(stream') : Sent(stream'[i]) /\ (Calls(stream'[i]) => Wanted)
Leads(p) == proc'[p].pc \in {"plan_merge", "open_merge"} => Wanted
Stays(p) == \A o \in Procs : o # p => proc'[o] = proc[o]
Running(p) == p \in Goal => proc[p].pc # "idle"

\* What a step does, and what a step of process p does.
Effect ==
    /\ StreamGoes /\ \A o \in Procs : Leads(o)
    /\ \/ LedgerStays /\ NoneStarts
       \/ \E e \in Event :
             /\ trace' = ApplyEvent(trace, e) /\ Spares(e)
             /\ \A r \in Goal : proc[r].pc = "idle" =>
                   proc'[r].pc = "idle" \/ r \in Promoted(e) \/ Reopens(e, r)
EffectOf(p) == Effect /\ \A o \in {Cli, Poll} : o # p => proc'[o] = proc[o]

LEMMA GoalIs ==
  /\ Goal \subseteq Runnable /\ Goal \subseteq TaskIds /\ Goal \subseteq Procs
  /\ Work \subseteq Goal /\ Reviewed \subseteq Work /\ Goal \cap Rounds = {}
  /\ MergeGate \notin Goal /\ {Loop, Leaving, Cli, Poll} \cap Goal = {}
BY DeliveryAssumption, ClosingIs, Actors DEF Goal, Runnable

LEMMA SentSame ==
  ASSUME AllSent, stream' = stream
  PROVE  StreamGoes
BY DEF AllSent, StreamGoes, Wanted, Asked

LEMMA SentDrops ==
  ASSUME Types, AllSent, stream # <<>>, stream' = Tail(stream)
  PROVE  StreamGoes
<1>1. stream \in Seq(Event)
  BY DEF Types
<1>2. /\ Len(stream') = Len(stream) - 1 /\ Len(stream) \in Nat
      /\ \A i \in 1..Len(stream') : i + 1 \in 1..Len(stream) /\ stream'[i] = stream[i + 1]
  BY <1>1
<1> QED BY <1>2 DEF AllSent, StreamGoes, Wanted, Asked

LEMMA SentAdds ==
  ASSUME Types, AllSent, NEW e \in Event, Sent(e), Calls(e) => Wanted, stream' = Append(stream, e)
  PROVE  StreamGoes
<1>1. stream \in Seq(Event)
  BY DEF Types
<1>2. \A i \in 1..Len(stream') : (i \in 1..Len(stream) /\ stream'[i] = stream[i]) \/ stream'[i] = e
  BY <1>1
<1> QED BY <1>2 DEF AllSent, StreamGoes, Wanted, Asked

LEMMA OthersLead ==
  ASSUME NEW p, Leads(p),
         \A o \in Procs : o # p => proc'[o] = proc[o] \/ proc'[o].pc = "spawned"
  PROVE  \A o \in Procs : Leads(o)
BY DEF Leads, Wanted, Asked

LEMMA QuietEffect ==
  ASSUME StreamGoes, LedgerStays, NEW p \in Procs, Running(p), Stays(p), Leads(p)
  PROVE  EffectOf(p)
<1>1. NoneStarts
  BY GoalIs DEF Running, Stays, NoneStarts
<1>2. \A o \in Procs : Leads(o)
  BY OthersLead DEF Stays
<1>3. \A o \in {Cli, Poll} : o # p => proc'[o] = proc[o]
  BY Actors DEF Stays
<1> QED BY <1>1, <1>2, <1>3 DEF EffectOf, Effect

\* A run that is dispatched by an event.
Spawned(e, o) ==
    /\ o \in Runnable /\ proc'[o].pc = "spawned"
    /\ o \in Promoted(e) \/ o \notin Goal \/ Reopens(e, o)

LEMMA WriteEffect ==
  ASSUME StreamGoes, NEW e \in Event, Write(e), Spares(e), NEW p \in Procs, Running(p), Leads(p),
         \A o \in Procs : o # p => proc'[o] = proc[o] \/ Spawned(e, o)
  PROVE  EffectOf(p)
<1>1. \A r \in Goal : proc[r].pc = "idle" =>
         proc'[r].pc = "idle" \/ r \in Promoted(e) \/ Reopens(e, r)
  BY GoalIs DEF Running, Spawned
<1>2. trace' = ApplyEvent(trace, e)
  BY DEF Write
<1>3. \A o \in Procs : Leads(o)
  BY OthersLead DEF Spawned
<1>4. \A o \in {Cli, Poll} : o # p => proc'[o] = proc[o]
  BY Actors DEF Spawned
<1> QED BY <1>1, <1>2, <1>3, <1>4 DEF EffectOf, Effect

LEMMA Spawning ==
  ASSUME NEW ps, NEW ids, NEW host
  PROVE  \A o \in Procs : \/ Dispatched(ps, ids, host)[o] = ps[o]
                          \/ o \in ids /\ Dispatched(ps, ids, host)[o].pc = "spawned"
<1> DEFINE q == [Idle EXCEPT !.pc = "spawned", !.host = host]
<1>1. q.pc = "spawned"
  BY DEF Idle
<1> HIDE DEF q
<1>2. Dispatched(ps, ids, host) =
         [p \in Procs |-> IF p \in ids /\ ps[p].pc = "idle" THEN q ELSE ps[p]]
  BY DEF Dispatched, q
<1> QED BY <1>1, <1>2

LEMMA SameLedger ==
  ASSUME UNCHANGED trace
  PROVE  LedgerStays
BY DEF LedgerStays

LEMMA NotInGoal ==
  ASSUME NEW p \in {Loop, Leaving, Cli, Poll}
  PROVE  p \in Procs /\ Running(p)
BY GoalIs, Actors DEF Running

LEMMA OtherStays ==
  ASSUME Types, NEW p, NEW q, proc' = [proc EXCEPT ![p] = q]
  PROVE  Stays(p)
BY DEF Types, Stays

LEMMA GotoStays ==
  ASSUME Types, NEW p, NEW pc, Goto(p, pc)
  PROVE  Stays(p)
BY DEF Types, Stays, Goto

LEMMA GotoLeads ==
  ASSUME Types, NEW p \in Procs, NEW pc, Goto(p, pc), pc \notin {"plan_merge", "open_merge"}
  PROVE  Leads(p)
BY DEF Types, Process, Leads, Goto

LEMMA LeftLeads ==
  ASSUME Types, NEW p \in Procs, Left(p)
  PROVE  Leads(p)
BY DEF Types, Left, Idle, Leads

LEMMA LoopEffect ==
  ASSUME IInv, RowsKept, LoopStep
  PROVE  EffectOf(Loop)
<1> USE DEF IInv
<1>1. Types /\ AllSent /\ Loop \in Procs /\ Running(Loop) /\ Loop \notin Runnable
  BY NotInGoal, Actors DEF RowsKept
<1>2. CASE TakeEvent
  <2> DEFINE e == Head(stream)
             next == IF e.kind = "feedback" /\ e.id \in Reviewed /\ StatusOf(e.id) = "waiting_review"
                     THEN "reopen" ELSE IF e.kind = "completed" THEN "gate" ELSE "check"
             ps == [proc EXCEPT ![Loop].pc = next, ![Loop].id = e.id]
  <2>1. stream # <<>> /\ Write(e) /\ proc' = Dispatched(ps, Promoted(e), Free) /\ stream' = stream
    BY <1>2 DEF TakeEvent
  <2>2. e \in Event /\ Sent(e) /\ (e.kind = "status" => Lawful(e)) /\ (Calls(e) => Asked)
    <3>1. stream \in Seq(Event) /\ 1 \in 1..Len(stream) /\ e = stream[1] /\ e \in Event
      BY <2>1 DEF Types
    <3> HIDE DEF e
    <3> QED BY <1>1, <3>1 DEF AllSent, WorkOK, StreamOK, Asked
  <2>3. ps[Loop].pc \in {"reopen", "gate", "check"}
    <3>1. next \in {"reopen", "gate", "check"}
      OBVIOUS
    <3> HIDE DEF next, e
    <3>2. ps[Loop].pc = next
      BY <1>1 DEF Types, Process
    <3> QED BY <3>1, <3>2
  <2> HIDE DEF e, next
  <2>4. \A o \in Procs : o # Loop => ps[o] = proc[o]
    BY DEF Types
  <2> HIDE DEF ps
  <2>5. \A o \in Procs : o # Loop => proc'[o] = proc[o] \/ Spawned(e, o)
    BY <2>1, <2>4, Spawning DEF Spawned, Promoted
  <2>6. Spares(e)
    BY <2>2, GoalIs DEF Spares, Sent, Asks, Lawful
  <2>7. StreamGoes
    BY <1>1, <2>1, SentSame
  <2>8. Leads(Loop)
    BY <1>1, <2>1, <2>3, Spawning DEF Leads
  <2> QED BY <1>1, <2>1, <2>2, <2>5, <2>6, <2>7, <2>8, WriteEffect
<1>3. CASE Reopen
  <2> DEFINE id == proc[Loop].id
             e == EventOf("status", id, "ready")
             ps == [proc EXCEPT ![Loop].pc = "wait"]
  <2>1. proc[Loop].pc = "reopen" /\ Write(e) /\ proc' = Dispatched(ps, {id}, Loop) /\ stream' = stream
    BY <1>3 DEF Reopen
  <2>2. id \in Reviewed /\ id \in TaskIds /\ id \in Runnable
    BY <1>1, <2>1, ClosingIs, GoalIs DEF WorkOK, NamesOK, Named
  <2>3. e \in Event /\ e.kind = "status" /\ e.id = id /\ e.status = "ready"
    <3>1. "ready" \in Status
      BY DEF Status
    <3> QED BY <2>2, <3>1, EventIs
  <2>4. (\A o \in Procs : o # Loop => ps[o] = proc[o]) /\ ps[Loop].pc = "wait"
    BY <1>1 DEF Types, Process
  <2> HIDE DEF e, ps
  <2>5. \A o \in Procs : o # Loop => proc'[o] = proc[o] \/ Spawned(e, o)
    BY <2>1, <2>2, <2>3, <2>4, Spawning DEF Spawned, Reopens
  <2>6. Spares(e)
    BY <2>2, <2>3, GoalIs DEF Spares, Calls, Asks
  <2>7. StreamGoes
    BY <1>1, <2>1, SentSame
  <2>8. Leads(Loop)
    BY <1>1, <2>1, <2>4, Spawning DEF Leads
  <2> QED BY <1>1, <2>1, <2>3, <2>5, <2>6, <2>7, <2>8, WriteEffect
<1>4. CASE Resume
  <2>1. Goto(Loop, "check") /\ UNCHANGED <<trace, stream>>
    BY <1>4 DEF Resume
  <2>2. Leads(Loop)
    BY <1>1, <2>1, GotoLeads
  <2> QED BY <1>1, <2>1, <2>2, SentSame, SameLedger, GotoStays, QuietEffect
<1> QED BY <1>2, <1>3, <1>4 DEF LoopStep

LEMMA RunEffect ==
  ASSUME IInv, RowsKept, NEW id \in Runnable, RunStep(id) \/ FailRun(id)
  PROVE  EffectOf(id)
<1> USE DEF IInv
<1>1. Types /\ AllSent /\ id \in Procs /\ id \in TaskIds /\ id # MergeGate
  BY ClosingIs, DeliveryAssumption DEF RowsKept
<1>2. proc[id].pc # "idle" /\ Running(id)
  BY DEF RunStep, StartRun, Propose, ReportNothing, FailRun, RecordFailure, AwaitReview,
         SetStatus, CompleteRun, LeaveNested, Running
<1>3. ASSUME ReportNothing(id) \/ FailRun(id) \/ LeaveNested(id) PROVE EffectOf(id)
  <2>1. (\E pc \in {"worked", "failed", "gate"} : Goto(id, pc)) /\ UNCHANGED <<trace, stream>>
    BY <1>3 DEF ReportNothing, FailRun, LeaveNested
  <2>2. Leads(id)
    BY <1>1, <2>1, GotoLeads
  <2> QED BY <1>1, <1>2, <2>1, <2>2, SentSame, SameLedger, GotoStays, QuietEffect
<1>4. ASSUME Propose(id) PROVE EffectOf(id)
  <2> DEFINE e == EventOf("proposal", id, "running")
  <2>1. Goto(id, "worked") /\ UNCHANGED trace /\ stream' = Append(stream, e)
    BY <1>4 DEF Propose, Publish
  <2>2. e \in Event
    BY <1>2, RunEvent
  <2>3. Sent(e)
    BY DEF Sent, EventOf
  <2>4. Wanted
    BY <1>4 DEF Propose, Wanted, Types
  <2> HIDE DEF e
  <2>5. Leads(id)
    BY <1>1, <2>1, GotoLeads
  <2> QED BY <1>1, <1>2, <2>1, <2>2, <2>3, <2>4, <2>5, SentAdds, SameLedger, GotoStays, QuietEffect
<1>5. ASSUME NEW status \in {"running", "failed", "waiting_review"},
             Write(EventOf("status", id, status)), stream' = stream, Stays(id), Leads(id)
      PROVE  EffectOf(id)
  <2> DEFINE e == EventOf("status", id, status)
  <2>1. e \in Event
    BY <1>2, RunEvent
  <2>2. Spares(e)
    BY <1>1, <1>2 DEF Spares, EventOf, InFlight, Calls, Asks
  <2>3. Write(e)
    BY <1>5
  <2> HIDE DEF e
  <2> QED BY <1>1, <1>2, <1>5, <2>1, <2>2, <2>3, SentSame, WriteEffect DEF Stays
<1>6. ASSUME StartRun(id) PROVE EffectOf(id)
  <2>1. Goto(id, "working") /\ Write(EventOf("status", id, "running")) /\ stream' = stream
    BY <1>6 DEF StartRun
  <2> QED BY <1>1, <1>5, <2>1, GotoStays, GotoLeads
<1>7. ASSUME RecordFailure(id) \/ AwaitReview(id) PROVE EffectOf(id)
  <2>1. /\ proc' = [proc EXCEPT ![id] = Idle] /\ stream' = stream
        /\ \E status \in {"failed", "waiting_review"} : Write(EventOf("status", id, status))
    BY <1>7 DEF RecordFailure, AwaitReview, SetStatus
  <2>2. Leads(id) /\ Stays(id)
    BY <1>1, <2>1, OtherStays, LeftLeads DEF Left
  <2> QED BY <1>5, <2>1, <2>2
<1>8. ASSUME CompleteRun(id) PROVE EffectOf(id)
  <2> DEFINE e == EventOf("completed", id, "completed")
             ps == [proc EXCEPT ![id].pc = "nested"]
  <2>1. Write(e) /\ proc' = Dispatched(ps, Promoted(e), id) /\ stream' = stream
    BY <1>8 DEF CompleteRun
  <2>2. e \in Event
    BY <1>2, RunEvent
  <2>3. Spares(e)
    BY DEF Spares, EventOf, Calls, Asks
  <2>4. (\A o \in Procs : o # id => ps[o] = proc[o]) /\ ps[id].pc = "nested"
    BY <1>1 DEF Types, Process
  <2> HIDE DEF e, ps
  <2>5. \A o \in Procs : o # id => proc'[o] = proc[o] \/ Spawned(e, o)
    BY <2>1, <2>4, Spawning DEF Spawned, Promoted
  <2>6. Leads(id)
    BY <1>1, <2>1, <2>4, Spawning DEF Leads
  <2> QED BY <1>1, <1>2, <2>1, <2>2, <2>3, <2>5, <2>6, SentSame, WriteEffect
<1> QED BY <1>3, <1>4, <1>6, <1>7, <1>8 DEF RunStep
\* The gate goes for the merge gate where there is something to merge.
LEMMA MergeNeeded == GateStep \in {"plan_merge", "open_merge"} => NeedsMerge
<1>1. CASE NeedsClosing \/ ~AllPremergeCompleted(trace)
  BY <1>1 DEF GateStep
<1>2. CASE ~NeedsClosing /\ AllPremergeCompleted(trace)
  <2> DEFINE final == StatusOf(MergeGate)
  <2>1. GateStep = CASE final = "absent" ->
                          IF NeedsMerge /\ ~HasWaitingReview THEN "plan_merge" ELSE "done"
                     [] final # "absent" /\ ~NeedsMerge ->
                          IF final \in {"completed", "failed", "blocked", "skipped"}
                          THEN "done" ELSE "empty_merge"
                     [] OTHER ->
                          IF final \in {"planned", "ready"} /\ ~HasWaitingReview
                          THEN "open_merge" ELSE "done"
    BY <1>2 DEF GateStep
  <2> HIDE DEF final
  <2>2. CASE final = "absent"
    BY <2>1, <2>2
  <2>3. CASE final # "absent" /\ ~NeedsMerge
    BY <2>1, <2>3
  <2>4. CASE final # "absent" /\ NeedsMerge
    BY <2>4
  <2> QED BY <2>2, <2>3, <2>4
<1> QED BY <1>1, <1>2

LEMMA GateEffect ==
  ASSUME IInv, RowsKept, NEW p \in Gates, Gate(p)
  PROVE  EffectOf(p)
<1> USE DEF IInv
<1>1. Types /\ AllSent /\ p \in Procs
  BY Actors, ClosingIs DEF RowsKept, Gates
<1>2. Running(p)
  BY DEF Gate, DecideGate, PlanClosing, ReadyClosing, PlanMerge, OpenMerge, EmptyMerge, Running
<1>3. /\ \A o \in Procs : o # p => AfterGate(p)[o] = proc[o]
      /\ AfterGate(p)[p].pc \in {"check", "idle"}
  BY <1>1 DEF AfterGate, Types, Process, Idle
<1>4. ASSUME DecideGate(p) PROVE EffectOf(p)
  <2>1. Stays(p)
    BY <1>3, <1>4 DEF DecideGate, Stays, Types
  <2>2. UNCHANGED <<trace, stream, git>>
    BY <1>4 DEF DecideGate, outside
  <2>3. Leads(p)
    <3>1. CASE GateStep = "done"
      BY <1>3, <1>4, <3>1 DEF DecideGate, Leads
    <3>2. CASE GateStep # "done"
      <4>1. proc'[p].pc = GateStep
        BY <1>1, <1>4, <3>2 DEF DecideGate, Types, Process
      <4>2. NeedsMerge => Wanted
        BY <2>2 DEF NeedsMerge, Undelivered, Wanted, Asked
      <4> QED BY <4>1, <4>2, MergeNeeded DEF Leads
    <3> QED BY <3>1, <3>2
  <2> QED BY <1>1, <1>2, <2>1, <2>2, <2>3, SentSame, SameLedger, QuietEffect
<1>5. ASSUME NEW kind \in {"plan", "ready", "status", "completed"},
             NEW status \in {"planned", "ready", "waiting_review", "completed"},
             GateWrite(p, kind, status),
             kind = "status" => /\ status = "waiting_review" /\ proc[p].id = MergeGate
                                /\ proc[p].pc = "open_merge",
             proc[p].pc \in {"plan_closing", "ready_closing", "plan_merge", "open_merge", "empty_merge"},
             proc[p].pc = "plan_closing" => kind = "plan", Leads(p),
             \A o \in Procs : o # p =>
                \/ proc'[o] = proc[o]
                \/ o \in Runnable \ Goal /\ proc'[o].pc = "spawned"
      PROVE  EffectOf(p)
  <2> DEFINE e == EventOf(kind, proc[p].id, status)
  <2>1. /\ proc[p].id \in TaskIds
        /\ proc[p].id \in Rounds => StatusOf(proc[p].id) # "absent"
                                    \/ (kind = "plan" /\ Openable(proc[p].id))
    <3>1. Named(p, proc[p])
      BY <1>1 DEF WorkOK, NamesOK
    <3> QED BY <1>5, <3>1, ClosingIs DEF Named
  <2>2. e \in Event /\ Write(e)
    BY <1>5, <2>1, GateEvent
  <2>3. Calls(e) => Asked
    BY <1>1, <1>5 DEF EventOf, Calls, Asks, Asked
  <2>4. Sent(e) /\ Spares(e)
    BY <1>5, <2>3, GoalIs DEF EventOf, Sent, Asks, Spares
  <2>5. stream' = stream \/ stream' = Append(stream, e)
    BY <1>5 DEF GateWrite, Publish
  <2> HIDE DEF e
  <2>6. StreamGoes
    BY <1>1, <2>2, <2>3, <2>4, <2>5, SentSame, SentAdds DEF Wanted
  <2>7. \A o \in Procs : o # p => proc'[o] = proc[o] \/ Spawned(e, o)
    BY <1>5 DEF Spawned
  <2> QED BY <1>1, <1>2, <1>5, <2>2, <2>4, <2>6, <2>7, WriteEffect
<1>6. ASSUME PlanClosing(p) PROVE EffectOf(p)
  <2>1. /\ GateWrite(p, "plan", "planned") /\ Stays(p) /\ Leads(p)
        /\ proc[p].pc = "plan_closing"
    BY <1>1, <1>6, GotoStays, GotoLeads DEF PlanClosing
  <2> QED BY <1>5, <2>1 DEF Stays
<1>7. ASSUME PlanMerge(p) PROVE EffectOf(p)
  <2>1. GateWrite(p, "plan", "planned") /\ Stays(p) /\ proc[p].pc = "plan_merge"
    BY <1>1, <1>7, GotoStays DEF PlanMerge
  <2>2. Leads(p)
    BY <1>1, <2>1 DEF Leads, Wanted, Asked
  <2> QED BY <1>5, <2>1, <2>2 DEF Stays
<1>8. ASSUME ReadyClosing(p) PROVE EffectOf(p)
  <2>1. /\ GateWrite(p, "ready", "ready") /\ proc[p].pc = "ready_closing"
        /\ proc' = Dispatched(AfterGate(p), {proc[p].id} \cap Dispatchers(p), Free)
    BY <1>8 DEF ReadyClosing
  <2>2. proc[p].id \in Runnable \ Goal
    BY <1>1, <2>1, GoalIs DEF WorkOK, NamesOK, Named, Runnable
  <2>3. \A o \in Procs : o # p =>
           \/ proc'[o] = proc[o]
           \/ o \in Runnable \ Goal /\ proc'[o].pc = "spawned"
    BY <1>3, <2>1, <2>2, Spawning
  <2>4. Leads(p)
    BY <1>1, <1>3, <2>1, Spawning DEF Leads
  <2> QED BY <1>5, <2>1, <2>3, <2>4
<1>9. ASSUME OpenMerge(p) \/ EmptyMerge(p) PROVE EffectOf(p)
  <2>1. proc' = AfterGate(p) /\ proc[p].pc \in {"open_merge", "empty_merge"}
    BY <1>9 DEF OpenMerge, EmptyMerge
  <2>2. proc[p].id = MergeGate /\ Leads(p)
    BY <1>1, <1>3, <2>1 DEF WorkOK, NamesOK, Named, Leads
  <2>3. \/ GateWrite(p, "status", "waiting_review") /\ proc[p].pc = "open_merge"
        \/ GateWrite(p, "completed", "completed")
    BY <1>9 DEF OpenMerge, EmptyMerge
  <2> QED BY <1>3, <1>5, <2>1, <2>2, <2>3
<1> QED BY <1>4, <1>6, <1>7, <1>8, <1>9 DEF Gate

LEMMA CheckEffect ==
  ASSUME IInv, RowsKept, NEW p \in Procs,
         (p \in Checkers /\ Complete(p)) \/ Capture(p) \/ Fill(p) \/ AnnounceFails(p)
  PROVE  EffectOf(p)
<1> USE DEF IInv
<1> DEFINE Quiet == Stays(p) /\ StreamGoes /\ LedgerStays /\ Leads(p)
<1>1. Types /\ AllSent
  BY DEF RowsKept
<1>2. Running(p)
  BY NotInGoal DEF Checkers, Capture, Fill, AnnounceFails, Running
<1>3. ASSUME Leave(p), p = Loop => proc[p].pc # "idle" PROVE Stays(p) /\ StreamGoes /\ Leads(p)
  <2>1. Stays(p) /\ Leads(p)
    BY <1>1, <1>3, OtherStays, LeftLeads DEF Leave, Left
  <2>2. CASE p = Loop
    BY <1>1, <1>3, <2>1, <2>2, SentDrops DEF Leave, WorkOK, LoopHolds
  <2>3. CASE p # Loop
    BY <1>1, <1>3, <2>1, <2>3, SentSame DEF Leave
  <2> QED BY <2>1, <2>2, <2>3
<1>4. ASSUME p \in Checkers, Check(p) PROVE Quiet
  <2>1. UNCHANGED trace /\ (p = Loop => proc[p].pc # "idle")
    BY <1>4, Actors DEF Check, Owes
  <2>2. CASE Unpublished \/ Certifiable
    <3>1. Stays(p) /\ stream' = stream
      BY <1>1, <1>4, <2>2 DEF Check, Stays, Types
    <3>2. proc'[p].pc = IF Unpublished THEN "announce" ELSE "capture"
      BY <1>1, <1>4, <2>2 DEF Check, Types, Process
    <3>3. Leads(p)
      BY <3>2 DEF Leads
    <3> QED BY <1>1, <2>1, <3>1, <3>3, SentSame, SameLedger
  <2>3. CASE ~(Unpublished \/ Certifiable)
    BY <1>3, <1>4, <2>1, <2>3, SameLedger DEF Check
  <2> QED BY <2>2, <2>3
<1>5. ASSUME Capture(p) PROVE Quiet
  <2>1. UNCHANGED <<trace, stream>>
    BY <1>5 DEF Capture
  <2>2. Stays(p) /\ Leads(p)
    BY <1>1, <1>5 DEF Capture, Stays, Leads, Types, Process
  <2> QED BY <1>1, <2>1, <2>2, SentSame, SameLedger
<1>6. ASSUME Fill(p) PROVE Quiet
  <2>1. UNCHANGED <<trace, stream>> /\ Goto(p, AfterFill(p))
    BY <1>6 DEF Fill
  <2>2. AfterFill(p) \in {"deliver", "complete", "record"}
    BY DEF AfterFill
  <2> QED BY <1>1, <2>1, <2>2, GotoStays, GotoLeads, SentSame, SameLedger
<1>7. ASSUME p \in Checkers, Record(p) PROVE Quiet
  <2>1. Goto(p, "announce") /\ UNCHANGED stream /\ trace' = RecordWorkCompletion(trace, proc[p].revision)
    BY <1>7 DEF Record
  <2>2. LedgerStays
    BY <1>1, <2>1 DEF RecordWorkCompletion, LedgerStays, Types, Trace
  <2> QED BY <1>1, <2>1, <2>2, SentSame, GotoStays, GotoLeads
<1>8. ASSUME p \in Checkers, Announce(p) PROVE Quiet
  BY <1>1, <1>8, SentSame, SameLedger, GotoStays, GotoLeads DEF Announce
<1>9. ASSUME p \in Checkers, Mark(p) PROVE Quiet
  <2>1. LedgerStays
    BY <1>1, <1>9 DEF Mark, MarkWorkCompletionPublished, LedgerStays, Types, Trace
  <2> QED BY <1>1, <1>3, <1>9, <2>1, SentSame, GotoStays, GotoLeads DEF Mark
<1>10. ASSUME AnnounceFails(p) PROVE Quiet
  BY <1>3, <1>10, SameLedger DEF AnnounceFails
<1> QED BY <1>2, <1>4, <1>5, <1>6, <1>7, <1>8, <1>9, <1>10, QuietEffect DEF Complete

LEMMA CliEffect ==
  ASSUME IInv, RowsKept, CliStep
  PROVE  EffectOf(Cli)
<1> USE DEF IInv
<1>1. Types /\ AllSent /\ Cli \in Procs /\ Running(Cli)
  BY NotInGoal DEF RowsKept
<1>2. Stays(Cli) /\ Leads(Cli)
  <2>1. Left(Cli) \/ \E pc \in {"complete", "enter", "gate"} : Goto(Cli, pc)
    BY DEF CliStep, ApproveTask, MergeLocally, PublishPullRequest, EnterPullRequest,
           CompleteApproved, WriteDiscard
  <2> QED BY <1>1, <2>1, GotoStays, OtherStays, GotoLeads, LeftLeads DEF Left
<1>3. CASE ApproveTask \/ MergeLocally \/ PublishPullRequest \/ EnterPullRequest
  <2>1. UNCHANGED <<trace, stream>>
    BY <1>3 DEF ApproveTask, MergeLocally, PublishPullRequest, EnterPullRequest
  <2> QED BY <1>1, <1>2, <2>1, SentSame, SameLedger, QuietEffect
<1>4. ASSUME NEW kind \in {"completed", "status"}, NEW status \in {"completed", "cancelled"},
             kind = "status" => status = "cancelled",
             proc[Cli].pc \in {"complete", "discard"},
             Write(EventOf(kind, proc[Cli].id, status)),
             Publish(EventOf(kind, proc[Cli].id, status))
      PROVE  EffectOf(Cli)
  <2> DEFINE e == EventOf(kind, proc[Cli].id, status)
  <2>1. e \in Event
    <3>1. status \in Status /\ proc[Cli].id \in TaskIds
      BY <1>4, CliNamed DEF Status
    <3> QED BY <3>1, EventIs
  <2>2. Sent(e) /\ Spares(e) /\ ~Calls(e)
    BY <1>4 DEF EventOf, Sent, Spares, Calls, Asks
  <2>3. Write(e) /\ stream' = Append(stream, e)
    BY <1>4 DEF Publish
  <2> HIDE DEF e
  <2>4. StreamGoes
    BY <1>1, <2>1, <2>2, <2>3, SentAdds
  <2> QED BY <1>1, <1>2, <2>1, <2>2, <2>3, <2>4, WriteEffect DEF Stays
<1>5. CASE CompleteApproved \/ WriteDiscard
  BY <1>4, <1>5 DEF CompleteApproved, WriteDiscard
<1> QED BY <1>3, <1>5 DEF CliStep

LEMMA PollEffect ==
  ASSUME IInv, RowsKept, PollStep
  PROVE  EffectOf(Poll)
<1> USE DEF IInv
<1>1. Types /\ AllSent /\ Poll \in Procs /\ Running(Poll)
  BY NotInGoal DEF RowsKept
<1>2. stream' = stream /\ Stays(Poll) /\ Leads(Poll)
  <2>1. CASE PollMerged
    <3>1. Stays(Poll)
      BY <1>1, <2>1, OtherStays DEF PollMerged
    <3>2. proc'[Poll].pc \in {"capture", "complete"}
      BY <1>1, <2>1 DEF PollMerged, Types, Idle
    <3> QED BY <2>1, <3>1, <3>2 DEF PollMerged, Leads
  <2>2. CASE CompleteDelivered
    BY <1>1, <2>2, GotoStays, GotoLeads DEF CompleteDelivered
  <2>3. CASE RemoveDelivered
    BY <1>1, <2>3, OtherStays, LeftLeads DEF RemoveDelivered, Left
  <2> QED BY <2>1, <2>2, <2>3 DEF PollStep
<1>3. CASE UNCHANGED trace
  BY <1>1, <1>2, <1>3, SentSame, SameLedger, QuietEffect
<1>4. CASE Write(EventOf("completed", MergeGate, "completed"))
  <2> DEFINE e == EventOf("completed", MergeGate, "completed")
  <2>1. e \in Event
    <3>1. "completed" \in Status /\ MergeGate \in TaskIds
      BY ClosingIs DEF Status
    <3> QED BY <3>1, EventIs
  <2>2. Spares(e)
    BY DEF EventOf, Spares, Calls, Asks
  <2>3. Write(e)
    BY <1>4
  <2> HIDE DEF e
  <2> QED BY <1>1, <1>2, <2>1, <2>2, <2>3, SentSame, WriteEffect DEF Stays
<1> QED BY <1>3, <1>4 DEF PollStep, PollMerged, CompleteDelivered, RemoveDelivered

LEMMA OperatorEffect ==
  ASSUME IInv, RowsKept, Operator
  PROVE  EffectOf(Cli)
<1> USE DEF IInv
<1>1. Types /\ AllSent /\ Cli \in Procs /\ Running(Cli)
  BY NotInGoal DEF RowsKept
<1>2. UNCHANGED trace /\ Stays(Cli) /\ Leads(Cli)
  <2>1. ASSUME NEW id \in TaskIds, Approve(id) PROVE UNCHANGED trace /\ Stays(Cli) /\ Leads(Cli)
    <3>1. UNCHANGED trace /\ Stays(Cli)
      BY <1>1, <2>1, OtherStays DEF Approve
    <3>2. proc'[Cli].pc \in {"capture", "deliver"}
      BY <1>1, <2>1 DEF Approve, Types, Idle
    <3> QED BY <3>1, <3>2 DEF Leads
  <2>2. ASSUME NEW id \in TaskIds, Discard(id) PROVE UNCHANGED trace /\ Stays(Cli) /\ Leads(Cli)
    <3>1. UNCHANGED trace /\ Stays(Cli)
      BY <1>1, <2>2, OtherStays DEF Discard
    <3>2. proc'[Cli].pc = "discard"
      BY <1>1, <2>2 DEF Discard, Types, Idle
    <3> QED BY <3>1, <3>2 DEF Leads
  <2>3. ASSUME UNCHANGED <<trace, proc>> PROVE UNCHANGED trace /\ Stays(Cli) /\ Leads(Cli)
    BY <1>1, <2>3 DEF Stays, Leads, Wanted, Asked
  <2> QED BY <2>1, <2>2, <2>3 DEF Operator, Reject, Retry, RequestChanges
<1>3. StreamGoes
  <2>1. CASE stream' = stream
    BY <1>1, <2>1, SentSame
  <2>2. ASSUME NEW id \in TaskIds, Reject(id) \/ Retry(id) PROVE StreamGoes
    <3>1. PICK kind \in {"feedback", "ready"}, status \in {"unset", "ready"} :
             Publish(EventOf(kind, id, status))
      BY <2>2 DEF Reject, Retry
    <3> DEFINE e == EventOf(kind, id, status)
    <3>2. e \in Event
      <4>1. status \in Status
        BY DEF Status
      <4> QED BY <4>1, EventIs
    <3>3. Sent(e) /\ ~Calls(e) /\ stream' = Append(stream, e)
      BY <3>1 DEF EventOf, Sent, Calls, Asks, Publish
    <3> HIDE DEF e
    <3> QED BY <1>1, <3>2, <3>3, SentAdds
  <2>3. ASSUME RequestChanges PROVE StreamGoes
    <3>1. PICK id \in NextRework :
             stream' = stream \o <<EventOf("plan", id, "planned"), EventOf("ready", id, "ready")>>
      BY <2>3 DEF RequestChanges
    <3> DEFINE e == EventOf("plan", id, "planned")
               f == EventOf("ready", id, "ready")
    <3>2. Sent(e) /\ Sent(f) /\ ~Calls(e) /\ ~Calls(f) /\ stream' = stream \o <<e, f>>
      BY <3>1 DEF EventOf, Sent, Calls, Asks
    <3> HIDE DEF e, f
    <3>3. stream \in Seq(Event) /\ <<e, f>> \in Seq({e, f}) /\ Len(<<e, f>>) = 2
      BY <1>1 DEF Types
    <3>4. ASSUME NEW i \in 1..Len(stream')
          PROVE  \/ i \in 1..Len(stream) /\ stream'[i] = stream[i]
                 \/ stream'[i] = e \/ stream'[i] = f
      <4>1. /\ Len(stream') = Len(stream) + 2 /\ Len(stream) \in Nat
            /\ stream'[i] = IF i <= Len(stream) THEN stream[i] ELSE <<e, f>>[i - Len(stream)]
        BY <3>2, <3>3, <3>4
      <4>2. CASE i = Len(stream) + 1
        BY <4>1, <4>2
      <4>3. CASE i = Len(stream) + 2
        BY <4>1, <4>3
      <4>4. CASE i <= Len(stream)
        BY <4>1, <4>4
      <4> QED BY <4>1, <4>2, <4>3, <4>4
    <3>5. \A i \in 1..Len(stream) : Sent(stream[i]) /\ (Calls(stream[i]) => Wanted)
      BY <1>1 DEF AllSent, Wanted, Asked
    <3> QED BY <3>2, <3>4, <3>5 DEF StreamGoes
  <2>4. stream' = stream \/ RequestChanges \/ \E id \in TaskIds : Reject(id) \/ Retry(id)
    BY DEF Operator, Approve, Discard
  <2> QED BY <2>1, <2>2, <2>3, <2>4
<1> QED BY <1>1, <1>2, <1>3, SameLedger, QuietEffect

LEMMA StepEffect ==
  ASSUME IInv, RowsKept, [Next]_vars
  PROVE  Effect
<1>1. ASSUME NEW p \in Procs, Advance(p) PROVE Effect
  BY <1>1, GateEffect, CheckEffect, LoopEffect, CliEffect, PollEffect, RunEffect
     DEF Advance, Gates, EffectOf
<1>2. CASE Operator
  BY <1>2, OperatorEffect DEF EffectOf
<1>3. CASE ForgeMerges \/ UNCHANGED vars
  <2>1. UNCHANGED <<trace, proc, stream>>
    BY <1>3 DEF ForgeMerges, vars
  <2>2. Stays(Cli) /\ Leads(Cli)
    BY <2>1, Actors DEF Stays, Leads, Wanted, Asked
  <2> QED BY <2>1, <2>2, SentSame, SameLedger, NotInGoal, QuietEffect DEF RowsKept, EffectOf
<1>4. CASE Fault
  <2>1. CASE Crash
    <3>1. UNCHANGED <<trace, stream>> /\ proc' = [p \in Procs |-> IF p = Cli THEN proc[p] ELSE Idle]
      BY <2>1 DEF Crash
    <3>2. NoneStarts
      BY <3>1, GoalIs DEF NoneStarts, Idle
    <3>3. \A o \in Procs : Leads(o)
      BY <3>1 DEF Idle, Leads, Wanted, Asked
    <3> QED BY <3>1, <3>2, <3>3, SentSame, SameLedger DEF Effect, RowsKept
  <2> QED BY <1>4, <2>1, CheckEffect, RunEffect DEF Fault, EffectOf
<1> QED BY <1>1, <1>2, <1>3, <1>4 DEF Next

-----------------------------------------------------------------------------
(* Certified work is idle *)

\* Work that is sent back moves the revision.
LEMMA ReopenAdvances ==
  ASSUME NEW t \in Trace, NEW e \in Event, NEW r \in TaskIds, Reopens(e, r), ~t.killed,
         IsGoalWork(t.tasks[r]), t.tasks[r].status \in {"completed", "cancelled"}
  PROVE  ApplyEvent(t, e).workRevision # t.workRevision
<1> DEFINE row == [StampedRow(t, r, 1) EXCEPT !.status = "ready"]
           moved == [t EXCEPT !.tasks[r] = row]
           u == ApplyEvent(t, e)
<1>1. e.kind = "status" /\ e.id = r /\ e.status = "ready" /\ 1 \in Stamps /\ "ready" \in Status
  BY DeliveryAssumption DEF Reopens, Status
<1>2. row \in Task
  <2>1. StampedRow(t, r, 1) \in Task
    BY <1>1, StampedRowType
  <2> QED BY <1>1, <2>1, RowType DEF Task
<1>3. moved \in Trace /\ moved.workRevision = t.workRevision
  BY <1>1, <1>2, MovedType DEF Trace
<1>4. u = DropStaleKick(AdvanceWorkRevision(moved))
  BY <1>1 DEF ApplyEvent, ReduceTaskStatus, IsReworkReturn
<1> HIDE DEF moved, u
<1>5. u.workRevision = AdvanceWorkRevision(moved).workRevision
  BY <1>3, <1>4, AdvanceType, DropFrame
<1>6. AdvanceWorkRevision(moved).workRevision = t.workRevision + 1 /\ t.workRevision \in Nat
  BY <1>3 DEF AdvanceWorkRevision, Trace
<1> QED BY <1>5, <1>6 DEF u

LEMMA Effects ==
  ASSUME IInv, Effect
  PROVE  \/ LedgerStays /\ NoneStarts
         \/ \E e \in Event :
               /\ trace' = ApplyEvent(trace, e) /\ RowsGo(trace, trace', e) /\ Spares(e)
               /\ \A r \in Goal : proc[r].pc = "idle" =>
                     \/ proc'[r].pc = "idle"
                     \/ trace'.tasks[r].status = "ready" /\ StatusOf(r) # "ready"
                     \/ Reopens(e, r)
<1>1. CASE LedgerStays /\ NoneStarts
  BY <1>1
<1>2. CASE ~(LedgerStays /\ NoneStarts)
  <2>1. PICK e \in Event :
          /\ trace' = ApplyEvent(trace, e) /\ Spares(e)
          /\ \A r \in Goal : proc[r].pc = "idle" =>
                proc'[r].pc = "idle" \/ r \in Promoted(e) \/ Reopens(e, r)
    BY <1>2 DEF Effect
  <2>2. RowsGo(trace, trace', e)
    BY <2>1, EventGoes DEF IInv, Types
  <2> QED BY <2>1, <2>2 DEF Promoted
<1> QED BY <1>1, <1>2

LEMMA RowsStay ==
  ASSUME IInv, RowsKept, Effect
  PROVE  RowsKept'
<1>1. AllSent'
  BY DEF Effect, StreamGoes, AllSent
<1>2. CASE LedgerStays
  BY <1>1, <1>2 DEF LedgerStays, RowsKept
<1>3. ASSUME NEW e \in Event, RowsGo(trace, trace', e), Spares(e) PROVE RowsKept'
  <2>1. \A r \in TaskIds : RowGoes(trace, trace', e, r)
    BY <1>3 DEF RowsGo
  <2>2. \A id \in Goal : IsGoalWork(trace'.tasks[id])
    BY <2>1, GoalIs DEF RowsKept, RowGoes
  <2>3. \A id \in Work : Registered(trace'.tasks[id])
    <3>1. e.kind = "status" => e.status \notin {"absent", "unset"}
      BY <1>3 DEF Spares
    <3> QED BY <2>1, <3>1, GoalIs DEF RowsKept, RowGoes, Registered
  <2>4. ~trace'.killed /\ trace'.pending = <<>> /\ trace'.workRevision # 0
    <3>1. trace.workRevision \in Nat /\ trace'.workRevision \in Nat
      BY <1>3, Numbers DEF RowsGo, Trace, IInv
    <3> QED BY <1>3, <3>1 DEF RowsKept, RowsGo
  <2> QED BY <1>1, <2>2, <2>3, <2>4 DEF RowsKept
<1> QED BY <1>2, <1>3, Effects

\* The goal stays at rest while the revision stays.
LEMMA RestStays ==
  ASSUME IInv, RowsKept, Effect, Rested, trace'.workRevision = trace.workRevision
  PROVE  Rested'
<1>1. \A id \in Goal : proc[id].pc = "idle" /\ trace.tasks[id].status \in Settled
  BY DEF Rested, InFlight, StatusOf
<1>2. CASE LedgerStays /\ NoneStarts
  BY <1>1, <1>2 DEF LedgerStays, NoneStarts, Rested, InFlight, StatusOf
<1>3. ASSUME NEW e \in Event, trace' = ApplyEvent(trace, e), RowsGo(trace, trace', e), Spares(e),
             \A r \in Goal : proc[r].pc = "idle" =>
                \/ proc'[r].pc = "idle"
                \/ trace'.tasks[r].status = "ready" /\ StatusOf(r) # "ready"
                \/ Reopens(e, r)
      PROVE  Rested'
  <2>1. ASSUME NEW r \in Goal PROVE trace'.tasks[r].status \in Settled
    <3>1. RowGoes(trace, trace', e, r) /\ IsGoalWork(trace.tasks[r])
      BY <1>3, GoalIs DEF RowsGo, RowsKept
    <3>2. e.kind = "status" /\ e.id = r =>
             \/ e.status = "cancelled"
             \/ e.status = "ready" /\ trace.tasks[r].status \notin {"absent", "unset"}
      BY <1>1, <1>3 DEF Spares, InFlight, RowsKept, Registered
    <3> QED BY <1>1, <3>1, <3>2 DEF RowGoes
  <2>2. ASSUME NEW r \in Goal, Reopens(e, r) PROVE FALSE
    <3>1. r \in Work
      BY <1>1, <1>3, <2>2 DEF Spares, Reopens, InFlight
    <3>2. trace.tasks[r].status \in {"completed", "cancelled"}
      BY <1>1, <3>1 DEF RowsKept, Registered, Settled
    <3> QED BY <1>3, <2>2, <3>2, ReopenAdvances, GoalIs DEF RowsKept, IInv, Types
  <2> QED BY <1>1, <1>3, <2>1, <2>2 DEF Rested, InFlight, StatusOf, Settled
<1> QED BY <1>2, <1>3, Effects

\* A certification is of the current revision from its check on.
Certifies(r) ==
    \E p \in Checkers : proc[p].pc \in {"capture", "fill", "record"} /\ proc[p].revision = r
Sealed ==
    \/ trace.completion.revision # 0 /\ trace.completion.revision = trace.workRevision
    \/ Certifies(trace.workRevision)
SealOK == Sealed => Rested

LEMMA CertifiableRests ==
  ASSUME RowsKept, Certifiable
  PROVE  Rested
<1> SUFFICES ASSUME NEW id \in Goal PROVE ~InFlight(id) /\ StatusOf(id) \in Settled
  BY DEF Rested
<1>1. ~InFlight(id)
  BY GoalIs DEF Certifiable, WorkInFlight
<1>2. IsGoalWork(trace.tasks[id]) /\ id \in TaskIds
  BY GoalIs DEF RowsKept
<1>3. StatusOf(id) = "absent" \/ StatusOf(id) = "completed"
  BY <1>2 DEF Certifiable, WorkComplete, Rows, IsGoalWork, IsMerge, StatusOf
<1> QED BY <1>1, <1>3 DEF Settled

\* What a step records, and what it certifies.
Records ==
    \/ trace'.completion.revision = trace.completion.revision
    \/ \E p \in Checkers : proc[p].pc = "record" /\ trace'.completion.revision = proc[p].revision
Pursues(p) ==
    proc'[p].pc \in {"capture", "fill", "record"} =>
        \/ proc[p].pc \in {"capture", "fill", "record"} /\ proc'[p].revision = proc[p].revision
        \/ Certifiable /\ UNCHANGED trace
Seals == trace.workRevision <= trace'.workRevision /\ Records /\ \A p \in Checkers : Pursues(p)

LEMMA AsideSeals ==
  ASSUME Aside
  PROVE  Seals
BY Actors DEF Aside, Grows, Frame, Turns, Certifying, Seals, Records, Pursues

LEMMA CheckSeals ==
  ASSUME IInv, NEW p \in Procs,
         (p \in Checkers /\ Complete(p)) \/ Capture(p) \/ Fill(p)
  PROVE  Seals
<1> USE DEF IInv
<1>1. trace.workRevision \in Nat /\ proc \in [Procs -> Process]
  BY Numbers DEF Types
<1>2. ASSUME Stays(p), Pursues(p) PROVE \A o \in Checkers : Pursues(o)
  BY <1>2, Actors DEF Stays, Pursues
<1>3. ASSUME Leave(p) PROVE Stays(p) /\ Pursues(p)
  BY <1>1, <1>3, OtherStays DEF Leave, Left, Idle, Pursues, Types
<1>4. ASSUME p \in Checkers, Check(p) PROVE Seals
  <2>1. UNCHANGED trace
    BY <1>4 DEF Check
  <2>2. CASE Unpublished \/ Certifiable
    <3>1. Stays(p) /\ proc'[p].pc = IF Unpublished THEN "announce" ELSE "capture"
      BY <1>1, <1>4, <2>2 DEF Check, Stays, Process
    <3> QED BY <1>1, <1>2, <2>1, <2>2, <3>1 DEF Seals, Records, Pursues
  <2>3. CASE ~(Unpublished \/ Certifiable)
    BY <1>1, <1>2, <1>3, <1>4, <2>1, <2>3 DEF Check, Seals, Records
  <2> QED BY <2>2, <2>3
<1>5. ASSUME Capture(p) \/ Fill(p) PROVE Seals
  <2>1. UNCHANGED trace /\ proc[p].pc \in {"capture", "fill"}
    BY <1>5 DEF Capture, Fill
  <2>2. Stays(p) /\ proc'[p].revision = proc[p].revision
    BY <1>1, <1>5, GotoStays DEF Capture, Fill, Stays, Goto, Process
  <2> QED BY <1>1, <1>2, <2>1, <2>2 DEF Seals, Records, Pursues
<1>6. ASSUME p \in Checkers, Record(p) PROVE Seals
  <2>1. /\ proc[p].pc = "record" /\ Goto(p, "announce")
        /\ trace' = RecordWorkCompletion(trace, proc[p].revision)
    BY <1>6 DEF Record
  <2>2. /\ trace'.workRevision = trace.workRevision
        /\ trace'.completion.revision \in {trace.completion.revision, proc[p].revision}
    BY <2>1 DEF RecordWorkCompletion, Types, Trace
  <2>3. Stays(p) /\ proc'[p].pc = "announce"
    BY <1>1, <2>1, GotoStays DEF Goto, Types, Process
  <2> QED BY <1>1, <1>2, <1>6, <2>1, <2>2, <2>3 DEF Seals, Records, Pursues
<1>7. ASSUME p \in Checkers, Announce(p) PROVE Seals
  <2>1. UNCHANGED trace /\ Stays(p) /\ proc'[p].pc = "mark"
    BY <1>1, <1>7, GotoStays DEF Announce, Goto, Types, Process
  <2> QED BY <1>1, <1>2, <2>1 DEF Seals, Records, Pursues
<1>8. ASSUME p \in Checkers, Mark(p) PROVE Seals
  <2>1. /\ trace'.workRevision = trace.workRevision
        /\ trace'.completion.revision = trace.completion.revision
    BY <1>8 DEF Mark, MarkWorkCompletionPublished, Types, Trace
  <2>2. Stays(p) /\ Pursues(p)
    <3>1. CASE Goto(p, "check")
      <4>1. Stays(p)
        BY <3>1, GotoStays
      <4>2. proc'[p].pc = "check"
        BY <1>1, <3>1 DEF Goto, Process
      <4> QED BY <4>1, <4>2 DEF Pursues
    <3>2. CASE Leave(p)
      BY <1>3, <3>2
    <3> QED BY <1>8, <3>1, <3>2 DEF Mark
  <2> QED BY <1>1, <1>2, <2>1, <2>2 DEF Seals, Records
<1> QED BY <1>4, <1>5, <1>6, <1>7, <1>8 DEF Complete

LEMMA QuietSeals ==
  ASSUME IInv, UNCHANGED trace, \A p \in Checkers : proc'[p] = proc[p]
  PROVE  Seals
<1>1. trace.workRevision \in Nat
  BY Numbers DEF IInv
<1> QED BY <1>1 DEF Seals, Records, Pursues

LEMMA StepSeals ==
  ASSUME IInv, [Next]_vars
  PROVE  Seals
<1>1. ASSUME NEW p \in Procs, Advance(p) PROVE Seals
  <2>1. CASE p \in Runnable \cup {Loop, Cli} /\ Gate(p)
    BY <2>1, GateAside, AsideSeals DEF Gates
  <2>2. CASE (p \in Checkers /\ Complete(p)) \/ Capture(p) \/ Fill(p)
    BY <2>2, CheckSeals
  <2>3. CASE p = Loop /\ LoopStep
    BY <2>3, TakeEventAside, ReopenAside, ResumeAside, AsideSeals DEF LoopStep
  <2>4. CASE p = Cli /\ CliStep
    BY <2>4, DeliverAside, CliWrites, AsideSeals DEF CliStep
  <2>5. CASE p = Poll /\ PollStep
    <3>1. CASE PollMerged
      BY <3>1, QuietSeals, Actors DEF PollMerged, IInv, Types
    <3> QED BY <2>5, <3>1, CompleteDeliveredAside, RemoveDeliveredAside, AsideSeals DEF PollStep
  <2>6. CASE p \in Runnable /\ RunStep(p)
    BY <2>6, StartRunAside, ProposeAside, StageAside, SetStatusAside, CompleteRunAside,
       AsideSeals DEF RunStep
  <2> QED BY <1>1, <2>1, <2>2, <2>3, <2>4, <2>5, <2>6 DEF Advance
<1>2. CASE Operator
  <2>1. ASSUME NEW id \in TaskIds, Approve(id) PROVE Seals
    BY <2>1, QuietSeals, Actors DEF Approve, IInv, Types
  <2> QED BY <1>2, <2>1, DiscardAside, SentBackAside, RequestChangesAside, AsideSeals DEF Operator
<1>3. CASE ForgeMerges
  BY <1>3, ForgeMergesAside, AsideSeals
<1>4. CASE Fault
  BY <1>4, CrashAside, AnnounceFailsAside, StageAside, AsideSeals DEF Fault
<1>5. CASE UNCHANGED vars
  BY <1>5, QuietSeals DEF vars
<1> QED BY <1>1, <1>2, <1>3, <1>4, <1>5 DEF Next

LEMMA SealFrom ==
  ASSUME IInv, IInv', Seals, Sealed'
  PROVE  trace'.workRevision = trace.workRevision /\ (Sealed \/ Certifiable)
<1> USE DEF IInv
<1>1. /\ trace.workRevision \in Nat /\ trace'.workRevision \in Nat
      /\ trace.completion.revision \in Nat /\ trace.completion.revision <= trace.workRevision
      /\ trace.workRevision <= trace'.workRevision
  <2>1. trace \in Trace /\ trace' \in Trace
    BY DEF Types
  <2>2. \A t \in Trace : t.workRevision \in Nat /\ t.completion.revision \in Nat
    BY DEF Trace
  <2> QED BY <2>1, <2>2 DEF CertOK, RecordOK, Seals
<1>2. \A p \in Checkers : /\ proc[p].revision \in Nat
                          /\ proc[p].pc \in {"capture", "fill", "record"} =>
                                proc[p].revision <= trace.workRevision
  BY Actors, DeliveryAssumption DEF Types, Process, CertOK, HoldersOK
<1>3. ASSUME NEW p \in Checkers, proc[p].pc \in {"capture", "fill", "record"},
             proc[p].revision = trace'.workRevision
      PROVE  trace'.workRevision = trace.workRevision /\ Sealed
  <2>1. trace'.workRevision = trace.workRevision
    BY <1>1, <1>2, <1>3
  <2> QED BY <1>3, <2>1 DEF Sealed, Certifies
<1>4. CASE trace'.completion.revision # 0 /\ trace'.completion.revision = trace'.workRevision
  <2>1. CASE trace'.completion.revision = trace.completion.revision
    BY <1>1, <1>4, <2>1 DEF Sealed
  <2>2. CASE \E p \in Checkers : proc[p].pc = "record" /\ trace'.completion.revision = proc[p].revision
    BY <1>3, <1>4, <2>2
  <2> QED BY <2>1, <2>2 DEF Seals, Records
<1>5. CASE \E p \in Checkers : proc'[p].pc \in {"capture", "fill", "record"}
                               /\ proc'[p].revision = trace'.workRevision
  BY <1>3, <1>5 DEF Seals, Pursues
<1> QED BY <1>4, <1>5 DEF Sealed, Certifies

\* The invariant of the whole argument.
IdleInv == IInv /\ RowsKept /\ SealOK

LEMMA StepIdle ==
  ASSUME IdleInv, Bounded, [Next]_vars
  PROVE  IdleInv'
<1> USE DEF IdleInv
<1>1. IInv' /\ Effect /\ Seals
  BY StepKeeps, StepEffect, StepSeals
<1>2. RowsKept'
  BY <1>1, RowsStay
<1>3. SealOK'
  <2> SUFFICES ASSUME Sealed' PROVE Rested'
    BY DEF SealOK
  <2>1. trace'.workRevision = trace.workRevision /\ (Sealed \/ Certifiable)
    BY <1>1, SealFrom
  <2>2. Rested
    BY <2>1, CertifiableRests DEF SealOK
  <2> QED BY <1>1, <2>1, <2>2, RestStays
<1> QED BY <1>1, <1>2, <1>3

\* The first plan registers the work, which is the first revision.
LEMMA FirstRows ==
  ASSUME NEW gates \in SUBSET {MergeGate},
         NEW t, t = ReduceTaskPlan(EmptyTrace, PlanOf(Work \cup gates), FALSE, FALSE, 1)
  PROVE  /\ ~t.killed /\ t.pending = <<>> /\ t.workRevision # 0
         /\ \A id \in Goal : IsGoalWork(t.tasks[id])
         /\ \A id \in Work : Registered(t.tasks[id])
         /\ \A id \in TaskIds : /\ t.tasks[id].status # "waiting_review"
                                /\ t.tasks[id].workspace # "isolated"
<1> DEFINE plan == PlanOf(Work \cup gates)
           z == EmptyTrace
           fresh == {id \in DOMAIN plan : ~Registered(z.tasks[id])}
           rows == [id \in TaskIds |-> IF id \in fresh
                                       THEN PlannedRow(plan[id], FALSE, FALSE, 1)
                                       ELSE z.tasks[id]]
           planned == [z EXCEPT !.tasks = rows]
           accepted == \E id \in fresh : IsGoalWork(planned.tasks[id])
           admitted == IF accepted THEN AdvanceWorkRevision(planned) ELSE planned
           promoted == PromoteParked(admitted)
<1>1. /\ DOMAIN plan = Work \cup gates /\ DOMAIN plan \subseteq TaskIds /\ 1 \in Stamps
      /\ \A id \in DOMAIN plan : plan[id] = TaskSpecOf(id)
  BY GoalIs, ClosingIs, DeliveryAssumption DEF PlanOf
<1>2. z \in Trace /\ z.workRevision = 0 /\ z.killed = FALSE /\ z.pending = <<>>
      /\ \A r \in TaskIds : z.tasks[r] = NoRow
  BY EmptyType DEF EmptyTrace
<1>4. t = DropStaleKick(promoted)
  BY DEF ReduceTaskPlan
<1> HIDE DEF z
<1>3. \A r \in TaskIds : ~Registered(z.tasks[r])
  <2>1. ~Registered(NoRow)
    BY DEF NoRow, Registered
  <2> QED BY <1>2, <2>1
<1>5. \A r \in TaskIds : rows[r] = IF r \in Work \cup gates
                                   THEN PlannedRow(TaskSpecOf(r), FALSE, FALSE, 1) ELSE NoRow
  BY <1>1, <1>2, <1>3
<1>6. rows \in [TaskIds -> Task]
  <2>1. \A r \in TaskIds : PlannedRow(TaskSpecOf(r), FALSE, FALSE, 1) \in Task
    BY <1>1 DEF TaskSpecOf, PlannedRow, PlannedPhase, Task, Status, Phase, Workspace
  <2>2. NoRow \in Task
    BY DEF NoRow, Task, Status, Phase, Workspace
  <2>3. rows = [r \in TaskIds |-> rows[r]]
    OBVIOUS
  <2> HIDE DEF rows
  <2> QED BY <1>5, <2>1, <2>2, <2>3
<1>7. \A r \in Goal : IsGoalWork(rows[r])
  <2>1. \A r \in Goal : TaskSpecOf(r).phase = "work"
    BY GoalIs DEF TaskSpecOf
  <2>2. \A r \in Goal : IsGoalWork(PlannedRow(TaskSpecOf(r), FALSE, FALSE, 1))
    BY <2>1 DEF PlannedRow, PlannedPhase, IsGoalWork, PhaseOf
  <2>3. IsGoalWork(NoRow)
    BY DEF NoRow, IsGoalWork, PhaseOf
  <2> HIDE DEF rows
  <2> QED BY <1>5, <2>2, <2>3, GoalIs
<1>8. \A r \in Work : rows[r].status = "planned"
  <2>1. \A r \in Work : PlannedRow(TaskSpecOf(r), FALSE, FALSE, 1).status = "planned"
    BY DEF PlannedRow
  <2> HIDE DEF rows
  <2> QED BY <1>5, <2>1, GoalIs
<1>18. \A r \in TaskIds : rows[r].status # "waiting_review" /\ rows[r].workspace # "isolated"
  <2>1. \A r \in TaskIds : /\ PlannedRow(TaskSpecOf(r), FALSE, FALSE, 1).status = "planned"
                           /\ PlannedRow(TaskSpecOf(r), FALSE, FALSE, 1).workspace = "none"
    BY DEF PlannedRow
  <2>2. NoRow.status = "absent" /\ NoRow.workspace = "none"
    BY DEF NoRow
  <2> HIDE DEF rows
  <2> QED BY <1>5, <2>1, <2>2
<1>9. fresh = Work \cup gates
  BY <1>1, <1>3
<1>10. /\ planned \in Trace /\ planned.tasks = rows /\ planned.workRevision = 0
       /\ planned.killed = FALSE /\ planned.pending = <<>>
  <2> HIDE DEF rows
  <2> QED BY <1>2, <1>6, RowsType DEF Trace
<1>11. accepted
  <2>1. PICK id \in Work : TRUE
    BY DeliveryAssumption
  <2> HIDE DEF rows, planned, fresh
  <2> QED BY <1>7, <1>9, <1>10, <2>1, GoalIs
<1> HIDE DEF rows, planned, accepted
<1>12. /\ admitted \in Trace /\ admitted.tasks = rows /\ admitted.workRevision = 1
       /\ admitted.killed = FALSE /\ admitted.pending = <<>>
  <2>1. admitted = AdvanceWorkRevision(planned)
    BY <1>11
  <2> HIDE DEF admitted
  <2> QED BY <1>10, <2>1, AdvanceType DEF AdvanceWorkRevision, Trace
<1> HIDE DEF admitted
<1>13. Promoting(admitted, t)
  <2>1. promoted \in Trace /\ Promoting(admitted, promoted)
    BY <1>12, PromoteParkedType, ParkedPromotes
  <2> HIDE DEF promoted
  <2>2. Promoting(promoted, t)
    BY <1>4, <2>1, DropPromotes
  <2> QED BY <2>1, <2>2, PromotingTwice
<1>14. ~t.killed /\ t.pending = <<>> /\ t.workRevision # 0
  <2>1. /\ t.killed = admitted.killed /\ t.pending = admitted.pending
        /\ t.workRevision = admitted.workRevision
    BY <1>13 DEF Promoting, Rest
  <2>2. ~t.killed
    BY <1>12, <2>1
  <2>3. t.pending = <<>>
    BY <1>12, <2>1, Zenon
  <2>4. t.workRevision = 1
    BY <1>12, <2>1, Zenon
  <2>5. 1 # 0
    OBVIOUS
  <2> QED BY <2>2, <2>3, <2>4, <2>5, Zenon
<1>15. \A r \in TaskIds : Promotes(rows[r], t.tasks[r])
  BY <1>12, <1>13 DEF Promoting
<1>16. \A r \in Goal : IsGoalWork(t.tasks[r])
  <2> SUFFICES ASSUME NEW r \in Goal PROVE IsGoalWork(t.tasks[r])
    OBVIOUS
  <2>1. r \in TaskIds
    BY GoalIs
  <2>2. Promotes(rows[r], t.tasks[r]) /\ IsGoalWork(rows[r])
    BY <1>7, <1>15, <2>1
  <2> QED BY <2>2 DEF Promotes, IsGoalWork, PhaseOf
<1>17. \A r \in Work : Registered(t.tasks[r])
  BY <1>8, <1>15, GoalIs DEF Promotes, Registered
<1>19. \A r \in TaskIds : t.tasks[r].status # "waiting_review" /\ t.tasks[r].workspace # "isolated"
  BY <1>15, <1>18 DEF Promotes
<1> QED BY <1>14, <1>16, <1>17, <1>19

LEMMA InitIdle == Init => IdleInv
<1> SUFFICES ASSUME Init PROVE IdleInv
  OBVIOUS
<1>1. IInv
  BY InitHolds
<1>2. RowsKept
  <2>1. PICK gates \in SUBSET {MergeGate} :
           trace = ReduceTaskPlan(EmptyTrace, PlanOf(Work \cup gates), FALSE, FALSE, 1)
    BY DEF Init
  <2>2. AllSent
    BY DEF Init, AllSent, Sent
  <2> QED BY <2>1, <2>2, FirstRows DEF RowsKept
<1>3. ~Sealed
  <2>1. trace.completion.revision = 0
    <3>1. PICK gates \in SUBSET {MergeGate} :
             trace = ReduceTaskPlan(EmptyTrace, PlanOf(Work \cup gates), FALSE, FALSE, 1)
      BY DEF Init
    <3>2. Work \cup gates \subseteq TaskIds /\ (Work \cup gates) \cap Rounds = {}
      BY ClosingIs, DeliveryAssumption DEF Goal, Runnable
    <3>3. trace.completion = [revision |-> 0, published |-> FALSE]
      BY <3>1, <3>2, FirstPlan
    <3> QED BY <3>3
  <2>2. \A p \in Checkers : proc[p].pc = "idle"
    BY Actors DEF Init, Idle
  <2> QED BY <2>1, <2>2 DEF Sealed, Certifies
<1> QED BY <1>1, <1>2, <1>3 DEF IdleInv, SealOK

LEMMA AlwaysIdleInv == Spec /\ []Bounded => []IdleInv
<1>1. Init => IdleInv
  BY InitIdle
<1>2. IdleInv /\ Bounded /\ [Next]_vars => IdleInv'
  BY StepIdle
<1> QED BY <1>1, <1>2, PTL DEF Spec

(* While the certified revision is the current one, no task of the goal    *)
(* runs and none is unfinished: the check waits for the runs in flight,    *)
(* and work that starts again moves the revision (workInvocationInFlight,  *)
(* reduceTaskStatus).                                                      *)
THEOREM CertifiedIsIdle == Spec /\ []Bounded => []CertifiedWorkIsIdle
<1>1. IdleInv => CertifiedWorkIsIdle
  BY DEF IdleInv, SealOK, Sealed, Rested, Settled, CertifiedWorkIsIdle
<1> QED BY <1>1, AlwaysIdleInv, PTL

-----------------------------------------------------------------------------
(* What is delivered is evidenced *)

\* Nothing leaves the machine before a patch is kept.
PatchKept == \E r \in Revisions : Readable(evidence[r]) /\ "patch" \in evidence[r].files
OnlyGoalEdits == Proposing \cap Rounds = {}
Bare ==
    /\ git.merged = {} /\ git.pushed = {} /\ ~forge.entry /\ forge.pr = "none"
    /\ proc[Poll].pc = "idle" /\ ~Delivering
\* A capture that comes with a branch keeps its patch, one without certifies a
\* revision nobody works on any more.
BranchOK ==
    /\ git.branch # {} => git.worktree
    /\ Asked \/ proc[Cli].pc \in {"capture", "fill"} => git.branch # {}
    /\ proc[Cli].pc = "fill" => proc[Cli].patch /\ evidence[proc[Cli].revision].patch
    /\ git.branch # {} =>
          \A r \in Revisions : Captured(r) /\ ~evidence[r].patch =>
              /\ r < trace.workRevision
              /\ proc[Cli].pc = "capture" => r # proc[Cli].revision
    /\ git.branch = {} /\ Captured(trace.workRevision) => Rested
PatchOK == OnlyGoalEdits /\ ~PatchKept => Bare /\ BranchOK

\* An approval captures for the merge gate, and delivers what it captured.
ApprovalOK ==
    /\ proc[Cli].pc \in {"capture", "fill", "enter"} => proc[Cli].id = MergeGate
    /\ Delivering => proc[Cli].revision \in Revisions /\ Readable(evidence[proc[Cli].revision])
\* No revision of the future is captured.
RevisionsOK ==
    /\ \A r \in Revisions : Captured(r) => r <= trace.workRevision
    /\ \A p \in {Cli, Poll} :
          proc[p].pc \in {"capture", "fill"} => proc[p].revision <= trace.workRevision

DeliveryInv == IdleInv /\ ApprovalOK /\ RevisionsOK /\ PatchOK

\* What a step does to the evidence, the checkout, the operator and the poll.
Keeps(r) ==
    /\ evidence'[r].by = evidence[r].by /\ evidence'[r].patch = evidence[r].patch
    /\ evidence[r].files \subseteq evidence'[r].files
Links(r) ==
    /\ ~Captured(r) /\ evidence'[r].patch = (git.worktree /\ Undelivered)
    /\ UNCHANGED <<trace, git>>
    /\ \E p \in Procs : proc[p].pc = "capture" /\ proc[p].revision = r
Gathers == \A r \in Revisions : Keeps(r) \/ Links(r)

LEMMA CaptureGathers ==
  ASSUME IInv, NEW p \in Procs, Capture(p)
  PROVE  Gathers /\ proc[p].revision \in Revisions
<1> USE DEF IInv
<1> DEFINE r == proc[p].revision
           linked == [by |-> p, patch |-> git.worktree /\ Undelivered, files |-> {}]
<1>1. /\ r \in Revisions /\ evidence \in [Revisions -> Evidence] /\ proc[p].pc = "capture"
      /\ UNCHANGED <<trace, git>>
      /\ evidence' = [evidence EXCEPT ![r] = IF @.by = Free THEN linked ELSE @]
  BY DEF Capture, LinkCheckpoint, CertOK, StagesOK, Types, outside
<1>2. linked.patch = (git.worktree /\ Undelivered)
  OBVIOUS
<1> HIDE DEF linked
<1>3. ASSUME NEW s \in Revisions PROVE Keeps(s) \/ Links(s)
  <2>1. CASE s = r /\ evidence[s].by = Free
    BY <1>1, <1>2, <2>1 DEF Links, Captured
  <2>2. CASE ~(s = r /\ evidence[s].by = Free)
    BY <1>1, <2>2 DEF Keeps
  <2> QED BY <2>1, <2>2
<1> QED BY <1>1, <1>3 DEF Gathers

LEMMA FillGathers ==
  ASSUME IInv, NEW p \in Procs, Fill(p)
  PROVE  /\ Gathers
         /\ proc[p].revision \in Revisions /\ Readable(evidence'[proc[p].revision])
         /\ evidence[proc[p].revision].patch /\ proc[p].patch =>
               "patch" \in evidence'[proc[p].revision].files
<1> USE DEF IInv
<1> DEFINE r == proc[p].revision
           kept == IF evidence[r].patch /\ proc[p].patch THEN {"patch"} ELSE {}
<1>1. /\ r \in Revisions /\ evidence \in [Revisions -> Evidence] /\ evidence[r].by # Free
      /\ evidence' = [evidence EXCEPT ![r].files = @ \cup {"result", "metrics"} \cup kept]
  BY DEF Fill, CertOK, StagesOK, Captured, Types
<1>2. evidence[r].patch /\ proc[p].patch => "patch" \in kept
  OBVIOUS
<1> HIDE DEF kept
<1>3. /\ evidence'[r].files = evidence[r].files \cup {"result", "metrics"} \cup kept
      /\ evidence'[r].by = evidence[r].by
  BY <1>1 DEF Evidence
<1>4. Gathers
  BY <1>1 DEF Gathers, Keeps, Evidence
<1> QED BY <1>1, <1>2, <1>3, <1>4 DEF Readable

LEMMA StepGathers ==
  ASSUME IInv, [Next]_vars
  PROVE  Gathers
<1>1. \/ evidence' = evidence
      \/ \E p \in Procs : Capture(p) \/ Fill(p)
  <2>1. ASSUME NEW p \in Procs, Advance(p), ~(Capture(p) \/ Fill(p)) PROVE evidence' = evidence
    <3>1. CASE Gate(p)
      BY <3>1 DEF Gate, DecideGate, PlanClosing, ReadyClosing, PlanMerge, OpenMerge, EmptyMerge,
                  GateWrite, records
    <3>2. CASE Complete(p)
      BY <3>2 DEF Complete, Check, Record, Announce, Mark, records
    <3>3. CASE LoopStep \/ (p \in Runnable /\ RunStep(p))
      BY <3>3 DEF LoopStep, TakeEvent, Reopen, Resume, RunStep, StartRun, Propose, ReportNothing,
                  RecordFailure, AwaitReview, SetStatus, CompleteRun, LeaveNested, records
    <3>4. CASE CliStep \/ PollStep
      BY <3>4 DEF CliStep, ApproveTask, MergeLocally, PublishPullRequest, EnterPullRequest,
                  CompleteApproved, WriteDiscard, PollStep, PollMerged, CompleteDelivered,
                  RemoveDelivered, records
    <3> QED BY <2>1, <3>1, <3>2, <3>3, <3>4 DEF Advance
  <2>2. CASE Operator \/ ForgeMerges \/ UNCHANGED vars
    BY <2>2 DEF Operator, Approve, Discard, Reject, Retry, RequestChanges, ForgeMerges, vars, records
  <2>3. CASE Fault
    BY <2>3 DEF Fault, Crash, AnnounceFails, FailRun, records
  <2> QED BY <2>1, <2>2, <2>3 DEF Next
<1>2. CASE evidence' = evidence
  BY <1>2 DEF Gathers, Keeps
<1> QED BY <1>1, <1>2, CaptureGathers, FillGathers

\* The checkout and the forge.
Outside ==
    \/ UNCHANGED outside
    \/ \E id \in Runnable : StartRun(id) \/ Propose(id)
    \/ MergeLocally \/ PublishPullRequest \/ EnterPullRequest \/ ForgeMerges \/ RemoveDelivered

LEMMA StepOutside ==
  ASSUME [Next]_vars
  PROVE  Outside
<1>1. ASSUME NEW p \in Procs, Advance(p) PROVE Outside
  <2>1. CASE Gate(p)
    BY <2>1 DEF Gate, DecideGate, PlanClosing, ReadyClosing, PlanMerge, OpenMerge, EmptyMerge,
                GateWrite, Outside
  <2>2. CASE Complete(p) \/ Capture(p) \/ Fill(p)
    BY <2>2 DEF Complete, Check, Record, Announce, Mark, Capture, Fill, Outside
  <2>3. CASE LoopStep
    BY <2>3 DEF LoopStep, TakeEvent, Reopen, Resume, Outside
  <2>4. CASE p \in Runnable /\ RunStep(p)
    BY <2>4 DEF RunStep, ReportNothing, RecordFailure, AwaitReview, SetStatus, CompleteRun,
                LeaveNested, Outside
  <2>5. CASE CliStep \/ PollStep
    BY <2>5 DEF CliStep, ApproveTask, CompleteApproved, WriteDiscard, PollStep, PollMerged,
                CompleteDelivered, Outside
  <2> QED BY <1>1, <2>1, <2>2, <2>3, <2>4, <2>5 DEF Advance
<1>2. CASE Operator \/ ForgeMerges
  BY <1>2 DEF Operator, Approve, Discard, Reject, Retry, RequestChanges, Outside
<1>3. CASE Fault \/ UNCHANGED vars
  BY <1>3 DEF Fault, Crash, AnnounceFails, FailRun, vars, Outside, outside
<1> QED BY <1>1, <1>2, <1>3 DEF Next

LEMMA AdvanceEffect ==
  ASSUME IInv, RowsKept, NEW p \in Procs, Advance(p)
  PROVE  EffectOf(p)
BY GateEffect, CheckEffect, LoopEffect, CliEffect, PollEffect, RunEffect DEF Advance, Gates

\* The operator's command, and the poll.
Operates ==
    \/ proc'[Cli] = proc[Cli]
    \/ proc'[Cli].pc \notin {"capture", "fill", "deliver", "enter"}
    \/ (\E id \in TaskIds : Approve(id)) \/ Capture(Cli) \/ Fill(Cli) \/ PublishPullRequest
Polls ==
    \/ proc'[Poll] = proc[Poll]
    \/ proc'[Poll].pc \in {"idle", "remove"} /\ (proc[Poll].pc = "idle" => proc'[Poll].pc = "idle")
    \/ PollMerged \/ Capture(Poll) \/ Fill(Poll)

LEMMA StepOperates ==
  ASSUME IInv, RowsKept, [Next]_vars
  PROVE  Operates
<1> USE DEF IInv
<1>1. Cli \in Procs /\ Cli \notin Runnable \cup {Loop, Poll} /\ Cli \notin Checkers /\ Types
  BY Actors
<1>2. CASE Advance(Cli)
  <2>1. CASE Gate(Cli)
    <3>1. AfterGate(Cli)[Cli].pc = "idle"
      BY <1>1 DEF AfterGate, Types, Idle
    <3>2. CASE DecideGate(Cli)
      <4>1. CASE GateStep = "done"
        BY <3>1, <3>2, <4>1 DEF DecideGate, Operates
      <4>2. CASE GateStep # "done"
        <5>1. proc'[Cli].pc = GateStep
          BY <1>1, <3>2, <4>2 DEF DecideGate, Types, Process
        <5> QED BY <5>1, GateStepIs DEF Operates
      <4> QED BY <4>1, <4>2
    <3>3. CASE PlanClosing(Cli) \/ PlanMerge(Cli)
      <4>1. PICK pc \in {"ready_closing", "open_merge"} : Goto(Cli, pc)
        BY <3>3 DEF PlanClosing, PlanMerge
      <4>2. proc'[Cli].pc = pc
        BY <1>1, <4>1 DEF Goto, Types, Process
      <4> QED BY <4>2 DEF Operates
    <3>4. CASE ReadyClosing(Cli)
      BY <1>1, <3>1, <3>4, Spawning DEF ReadyClosing, Operates
    <3>5. CASE OpenMerge(Cli) \/ EmptyMerge(Cli)
      BY <3>1, <3>5 DEF OpenMerge, EmptyMerge, Operates
    <3> QED BY <2>1, <3>2, <3>3, <3>4, <3>5 DEF Gate
  <2>2. CASE CliStep
    <3>1. CASE PublishPullRequest
      BY <3>1 DEF Operates
    <3>2. CASE ~PublishPullRequest
      <4>1. Left(Cli) \/ \E pc \in {"complete", "gate"} : Goto(Cli, pc)
        BY <2>2, <3>2 DEF CliStep, ApproveTask, MergeLocally, EnterPullRequest, CompleteApproved,
                          WriteDiscard
      <4>2. proc'[Cli].pc \in {"idle", "complete", "gate"}
        BY <1>1, <4>1 DEF Left, Idle, Goto, Types, Process
      <4> QED BY <4>2 DEF Operates
    <3> QED BY <3>1, <3>2
  <2> QED BY <1>1, <1>2, <2>1, <2>2 DEF Advance, Operates
<1>3. ASSUME NEW p \in Procs, Advance(p), p # Cli PROVE Operates
  BY <1>3, AdvanceEffect DEF EffectOf, Operates
<1>4. CASE Operator
  <2>1. ASSUME NEW id \in TaskIds, Discard(id) PROVE Operates
    <3>1. proc'[Cli].pc = "discard"
      BY <1>1, <2>1 DEF Discard, Types, Idle
    <3> QED BY <3>1 DEF Operates
  <2> QED BY <1>4, <2>1 DEF Operator, Reject, Retry, RequestChanges, Operates
<1>5. CASE ForgeMerges \/ Crash \/ UNCHANGED vars
  BY <1>1, <1>5 DEF ForgeMerges, Crash, vars, Operates
<1>6. ASSUME NEW p \in Procs, AnnounceFails(p) \/ (p \in Runnable /\ FailRun(p)) PROVE Operates
  <2>1. p # Cli
    BY <1>1, <1>6 DEF AnnounceFails, CertOK, StagesOK
  <2> QED BY <1>6, <2>1, CheckEffect, RunEffect DEF EffectOf, Operates
<1> QED BY <1>2, <1>3, <1>4, <1>5, <1>6 DEF Next, Fault

LEMMA StepPolls ==
  ASSUME IInv, RowsKept, [Next]_vars
  PROVE  Polls
<1> USE DEF IInv
<1>1. /\ Poll \in Procs /\ Poll \notin Runnable \cup {Loop, Cli} /\ Poll \notin Checkers /\ Types
  BY Actors
<1>2. CASE Advance(Poll)
  <2>1. CASE CompleteDelivered
    <3>1. proc'[Poll].pc = "remove" /\ proc[Poll].pc = "complete"
      BY <1>1, <2>1 DEF CompleteDelivered, Goto, Types, Process
    <3> QED BY <3>1 DEF Polls
  <2>2. CASE RemoveDelivered
    <3>1. proc'[Poll].pc = "idle"
      BY <1>1, <2>2 DEF RemoveDelivered, Left, Idle, Types
    <3> QED BY <3>1 DEF Polls
  <2> QED BY <1>1, <1>2, <2>1, <2>2 DEF Advance, PollStep, Polls
<1>3. ASSUME NEW p \in Procs, Advance(p), p # Poll PROVE Polls
  BY <1>3, AdvanceEffect DEF EffectOf, Polls
<1>4. CASE Operator
  BY <1>4, OperatorEffect, Actors DEF EffectOf, Polls
<1>5. CASE Crash
  <2>1. proc'[Poll].pc = "idle"
    BY <1>1, <1>5 DEF Crash, Idle
  <2> QED BY <2>1 DEF Polls
<1>6. CASE ForgeMerges \/ UNCHANGED vars
  BY <1>6 DEF ForgeMerges, vars, Polls
<1>7. ASSUME NEW p \in Procs, AnnounceFails(p) \/ (p \in Runnable /\ FailRun(p)) PROVE Polls
  <2>1. p # Poll
    BY <1>1, <1>7 DEF AnnounceFails, CertOK, StagesOK
  <2> QED BY <1>7, <2>1, CheckEffect, RunEffect DEF EffectOf, Polls
<1> QED BY <1>2, <1>3, <1>4, <1>5, <1>6, <1>7 DEF Next, Fault

LEMMA GathersGrow ==
  ASSUME IInv, Gathers
  PROVE  /\ \A r \in Revisions : Captured(r) => Keeps(r)
         /\ \A r \in Revisions : Readable(evidence[r]) => Readable(evidence'[r])
         /\ PatchKept => PatchKept'
<1>1. \A r \in Revisions : Captured(r) => Keeps(r)
  BY DEF Gathers, Links
<1>2. \A r \in Revisions : Readable(evidence[r]) => Keeps(r) /\ Readable(evidence'[r])
  BY <1>1 DEF Readable, Captured, Keeps
<1> QED BY <1>1, <1>2 DEF PatchKept, Keeps

\* Where the work is complete there is nothing left to review but the merge.
LEMMA ApproveIs ==
  ASSUME IInv, RowsKept, NEW id \in TaskIds, Approve(id)
  PROVE  /\ proc'[Cli].pc \in {"capture", "deliver"}
         /\ proc'[Cli].id = id /\ proc'[Cli].revision = trace.workRevision
         /\ proc'[Cli].pc = "capture" <=> id = MergeGate
         /\ StatusOf(id) = "waiting_review" /\ UNCHANGED <<trace, evidence, git>>
<1> USE DEF IInv
<1>1. /\ proc \in [Procs -> Process] /\ Cli \in Procs
      /\ IsReviewGate(id) /\ StatusOf(id) = "waiting_review" /\ Approvable(id)
      /\ UNCHANGED <<trace, evidence, git>>
  BY Actors DEF Types, Approve, records, outside
<1>2. /\ proc'[Cli].pc = IF Evidenced THEN "capture" ELSE "deliver"
      /\ proc'[Cli].id = id /\ proc'[Cli].revision = trace.workRevision
  BY <1>1 DEF Approve, Idle
<1>3. ASSUME id # MergeGate PROVE ~Evidenced
  <2>1. id \in Goal /\ IsGoalWork(trace.tasks[id])
    BY <1>1, <1>3, GoalIs DEF IsReviewGate, RowsKept
  <2>2. id \in Rows(trace) /\ ~IsMerge(trace.tasks[id]) /\ ~trace.tasks[id].analysis
    BY <1>1, <2>1 DEF Rows, StatusOf, IsGoalWork, IsMerge
  <2> QED BY <1>1, <2>2 DEF Evidenced, WorkComplete, StatusOf
<1>4. ASSUME id = MergeGate PROVE Evidenced
  <2>1. PICK w \in Work : TRUE
    BY DeliveryAssumption
  <2>2. w \in GoalWork(trace)
    BY <2>1, GoalIs DEF RowsKept, GoalWork, Rows, Registered
  <2>3. \A r \in Rows(trace) : ~IsMerge(trace.tasks[r]) => trace.tasks[r].status = "completed"
    BY <1>1, <1>4 DEF Approvable, AllPremergeCompleted, Premerge
  <2>4. ActiveEntries(trace) = {}
    <3>1. Len(trace.pending) = 0
      BY DEF RowsKept
    <3> QED BY <3>1 DEF ActiveEntries
  <2> QED BY <2>2, <2>3, <2>4 DEF RowsKept, Evidenced, WorkComplete
<1> QED BY <1>1, <1>2, <1>3, <1>4

LEMMA CliCaptures ==
  ASSUME IInv, NEW p \in Procs, Capture(p)
  PROVE  /\ proc[p].pc = "capture" /\ proc'[p].pc = "fill" /\ proc'[p].id = proc[p].id
         /\ proc'[p].revision = proc[p].revision
         /\ proc'[p].patch = (git.worktree /\ Undelivered) /\ UNCHANGED <<trace, git>>
BY DEF Capture, IInv, Types, Process, outside

LEMMA CliFills ==
  ASSUME IInv, NEW p \in {Cli, Poll}, Fill(p)
  PROVE  /\ proc[p].pc = "fill" /\ proc'[p].pc = (IF p = Cli THEN "deliver" ELSE "complete")
         /\ proc'[p].id = proc[p].id /\ proc'[p].revision = proc[p].revision
BY Actors DEF Fill, AfterFill, Goto, IInv, Types, Process

LEMMA ApprovalStays ==
  ASSUME IInv, RowsKept, ApprovalOK, Operates, Gathers
  PROVE  ApprovalOK'
<1>1. CASE proc'[Cli] = proc[Cli]
  BY <1>1, GathersGrow DEF ApprovalOK, Delivering
<1>2. CASE proc'[Cli].pc \notin {"capture", "fill", "deliver", "enter"}
  BY <1>2 DEF ApprovalOK, Delivering
<1>3. ASSUME NEW id \in TaskIds, Approve(id) PROVE ApprovalOK'
  BY <1>3, ApproveIs DEF ApprovalOK, Delivering
<1>4. CASE Capture(Cli)
  BY <1>4, CliCaptures, Actors DEF ApprovalOK, Delivering
<1>5. CASE Fill(Cli)
  BY <1>5, CliFills, FillGathers, Actors DEF ApprovalOK, Delivering
<1>6. CASE PublishPullRequest
  <2>1. Delivering /\ proc[Cli].id = MergeGate
    BY <1>6 DEF PublishPullRequest, Delivering
  <2>2. proc'[Cli].pc \in {"idle", "enter"}
        /\ (proc'[Cli].pc = "enter" => proc'[Cli].id = proc[Cli].id
                                        /\ proc'[Cli].revision = proc[Cli].revision)
    BY <1>6, Actors DEF PublishPullRequest, Goto, Left, Idle, IInv, Types, Process
  <2> QED BY <2>1, <2>2, GathersGrow DEF ApprovalOK, Delivering
<1> QED BY <1>1, <1>2, <1>3, <1>4, <1>5, <1>6 DEF Operates

LEMMA RevisionsStay ==
  ASSUME IInv, RowsKept, RevisionsOK, Operates, Polls, Gathers, Seals, trace' \in Trace
  PROVE  RevisionsOK'
<1> USE DEF IInv
<1>1. /\ trace.workRevision \in Nat /\ trace'.workRevision \in Nat
      /\ trace.workRevision <= trace'.workRevision
      /\ \A p \in Procs : proc[p].revision \in Nat
  <2>1. \A t \in Trace : t.workRevision \in Nat
    BY DEF Trace
  <2> QED BY <2>1, DeliveryAssumption DEF Seals, Types, Process
<1>2. ASSUME NEW r \in Revisions, Captured(r)' PROVE r <= trace'.workRevision
  <2>1. r \in Nat
    BY DeliveryAssumption DEF Revisions
  <2>2. CASE Keeps(r)
    BY <1>1, <1>2, <2>1, <2>2 DEF Keeps, Captured, RevisionsOK
  <2>3. CASE Links(r)
    <3>1. PICK p \in Procs : proc[p].pc = "capture" /\ proc[p].revision = r
      BY <2>3 DEF Links
    <3>2. p \in Checkers \cup {Cli, Poll}
      BY <3>1 DEF CertOK, StagesOK
    <3>3. r <= trace.workRevision
      BY <3>1, <3>2 DEF CertOK, HoldersOK, RevisionsOK
    <3> QED BY <1>1, <2>1, <3>3
  <2> QED BY <2>2, <2>3 DEF Gathers
<1>3. proc'[Cli].pc \in {"capture", "fill"} => proc'[Cli].revision <= trace'.workRevision
  <2>1. CASE proc'[Cli] = proc[Cli]
    BY <1>1, <2>1, Actors DEF RevisionsOK
  <2>2. ASSUME NEW id \in TaskIds, Approve(id) PROVE proc'[Cli].revision <= trace'.workRevision
    BY <1>1, <2>2, ApproveIs
  <2>3. CASE Capture(Cli)
    BY <1>1, <2>3, CliCaptures, Actors DEF RevisionsOK
  <2>4. CASE Fill(Cli)
    BY <2>4, CliFills
  <2>5. CASE PublishPullRequest
    BY <2>5, Actors DEF PublishPullRequest, Goto, Left, Idle, Types, Process
  <2> QED BY <2>1, <2>2, <2>3, <2>4, <2>5 DEF Operates
<1>4. proc'[Poll].pc \in {"capture", "fill"} => proc'[Poll].revision <= trace'.workRevision
  <2>1. CASE proc'[Poll] = proc[Poll]
    BY <1>1, <2>1, Actors DEF RevisionsOK
  <2>2. CASE PollMerged
    <3>1. proc'[Poll].revision = trace.workRevision
      BY <2>2, Actors DEF PollMerged, Idle, Types
    <3> QED BY <1>1, <3>1
  <2>3. CASE Capture(Poll)
    BY <1>1, <2>3, CliCaptures, Actors DEF RevisionsOK
  <2>4. CASE Fill(Poll)
    BY <2>4, CliFills, Actors
  <2> QED BY <2>1, <2>2, <2>3, <2>4 DEF Polls
<1> QED BY <1>2, <1>3, <1>4 DEF RevisionsOK

\* The merge gate is not asked for before something was proposed.
LEMMA AskedFrom ==
  ASSUME IInv, RowsKept, Effect, Asked'
  PROVE  Wanted
<1>1. CASE \E p \in Procs : proc'[p].pc \in {"plan_merge", "open_merge"}
  BY <1>1 DEF Effect, Leads
<1>2. CASE \E i \in 1..Len(stream') : Calls(stream'[i])
  BY <1>2 DEF Effect, StreamGoes
<1>3. CASE \/ trace'.tasks[MergeGate].status = "waiting_review"
           \/ \E id \in TaskIds : trace'.tasks[id].workspace = "isolated"
  <2>1. CASE LedgerStays
    BY <1>3, <2>1 DEF LedgerStays, Wanted, Asked, StatusOf
  <2>2. ASSUME NEW e \in Event, RowsGo(trace, trace', e), Spares(e) PROVE Wanted
    <3>1. \A r \in TaskIds : RowGoes(trace, trace', e, r)
      BY <2>2 DEF RowsGo
    <3>2. Calls(e) => Asked
      BY <2>2 DEF Spares
    <3> QED BY <1>3, <3>1, <3>2, ClosingIs DEF RowGoes, Wanted, Asked, StatusOf, Calls, Asks
  <2> QED BY <2>1, <2>2, Effects
<1> QED BY <1>1, <1>2, <1>3 DEF Asked, StatusOf

\* As long as nothing was delivered, the checkout grows by proposals only.
Grown ==
    /\ git.worktree => git'.worktree
    /\ git'.branch = git.branch \/ \E id \in Runnable : Propose(id)

LEMMA BareStays ==
  ASSUME IInv, RowsKept, ApprovalOK, Bare, BranchOK, Operates, Polls, Outside, Gathers, ~PatchKept'
  PROVE  Bare' /\ Grown
<1> USE DEF IInv
<1>1. ~MergeLocally /\ ~PublishPullRequest /\ ~EnterPullRequest /\ ~ForgeMerges /\ ~RemoveDelivered
  BY DEF Bare, Delivering, ApprovalOK, MergeLocally, PublishPullRequest, EnterPullRequest,
         ForgeMerges, RemoveDelivered
<1>2. /\ git'.merged = git.merged /\ git'.pushed = git.pushed /\ forge' = forge /\ Grown
  <2>1. CASE UNCHANGED outside
    BY <2>1 DEF outside, Grown
  <2>2. ASSUME NEW id \in Runnable, StartRun(id)
        PROVE  git'.merged = git.merged /\ git'.pushed = git.pushed /\ forge' = forge /\ Grown
    BY <2>2 DEF StartRun, Types, Grown
  <2>3. ASSUME NEW id \in Runnable, Propose(id)
        PROVE  git'.merged = git.merged /\ git'.pushed = git.pushed /\ forge' = forge /\ Grown
    <3>1. git' = [git EXCEPT !.branch = @ \cup {id}] /\ forge' = forge
      BY <2>3 DEF Propose
    <3>2. git'.merged = git.merged /\ git'.pushed = git.pushed /\ git'.worktree = git.worktree
      BY <3>1 DEF Types
    <3> QED BY <2>3, <3>1, <3>2 DEF Grown
  <2> QED BY <1>1, <2>1, <2>2, <2>3 DEF Outside
<1>3. proc'[Poll].pc = "idle"
  BY DEF Bare, Polls, PollMerged, Capture, Fill
<1>4. ~(proc'[Cli].pc \in {"deliver", "enter"} /\ proc'[Cli].id = MergeGate)
  <2>1. ASSUME NEW id \in TaskIds, Approve(id)
        PROVE  ~(proc'[Cli].pc \in {"deliver", "enter"} /\ proc'[Cli].id = MergeGate)
    BY <2>1, ApproveIs
  <2>2. CASE Capture(Cli)
    BY <2>2, CliCaptures, Actors
  <2>3. CASE Fill(Cli)
    <3>1. /\ proc[Cli].revision \in Revisions /\ Readable(evidence'[proc[Cli].revision])
          /\ "patch" \in evidence'[proc[Cli].revision].files
      BY <2>3, CliFills, FillGathers, Actors DEF BranchOK
    <3> QED BY <3>1 DEF PatchKept, Readable
  <2> QED BY <1>1, <2>1, <2>2, <2>3 DEF Operates, Bare, Delivering
<1> QED BY <1>2, <1>3, <1>4 DEF Bare, Delivering

LEMMA BranchStays ==
  ASSUME DeliveryInv, OnlyGoalEdits, Bare, BranchOK, Grown, Effect, Operates, Gathers, Seals,
         IInv'
  PROVE  BranchOK'
<1> USE DEF DeliveryInv, IdleInv, IInv
<1>1. /\ trace.workRevision \in Nat /\ trace'.workRevision \in Nat
      /\ trace.workRevision <= trace'.workRevision /\ Revisions \subseteq Nat
      /\ git \in [branch: SUBSET Runnable, merged: SUBSET Runnable,
                  pushed: SUBSET Runnable, worktree: BOOLEAN]
  <2>1. \A t \in Trace : t.workRevision \in Nat
    BY DEF Trace
  <2> QED BY <2>1, DeliveryAssumption DEF Seals, Types, Revisions
<1>2. \A r \in Revisions : Captured(r) => Keeps(r)
  BY GathersGrow
<1>3. git.branch # {} <=> git.worktree /\ Undelivered
  BY <1>1 DEF Bare, BranchOK, Undelivered
<1>4. ASSUME NEW id \in Runnable, Propose(id)
      PROVE  /\ UNCHANGED <<trace, evidence, proc[Cli]>> /\ id \in Goal /\ InFlight(id)
             /\ git.worktree /\ git'.worktree /\ git'.branch # {}
  BY <1>4, Actors DEF Propose, Types, OnlyGoalEdits, Runnable, InFlight, Goto, records
<1>5. git.branch # {} => git'.branch # {}
  BY <1>4 DEF Grown
<1>6. git'.branch # {} => git'.worktree
  BY <1>4 DEF Grown, BranchOK
<1>7. ASSUME Asked' \/ proc'[Cli].pc \in {"capture", "fill"}, git'.branch = {} PROVE FALSE
  <2>1. ~Asked /\ proc[Cli].pc \notin {"capture", "fill"}
    BY <1>5, <1>7 DEF BranchOK
  <2>2. ~Asked'
    BY <1>7, <2>1, AskedFrom DEF Wanted
  <2>3. ASSUME NEW id \in TaskIds, Approve(id), proc'[Cli].pc \in {"capture", "fill"} PROVE FALSE
    BY <2>1, <2>3, ApproveIs DEF Asked
  <2> QED BY <1>7, <2>1, <2>2, <2>3 DEF Operates, Capture, Fill, PublishPullRequest, Goto, Left,
                                        Idle, Types, Process
<1>8. ASSUME proc'[Cli].pc = "fill"
      PROVE  proc'[Cli].patch /\ evidence'[proc'[Cli].revision].patch
  <2>1. CASE proc'[Cli] = proc[Cli]
    <3>1. Captured(proc[Cli].revision)
      BY <1>8, <2>1, Actors DEF CertOK, StagesOK
    <3> QED BY <1>2, <1>8, <2>1, <3>1 DEF BranchOK, Captured, Keeps
  <2>2. CASE Capture(Cli)
    <3>1. /\ proc[Cli].pc = "capture" /\ proc[Cli].revision \in Revisions
          /\ proc'[Cli].patch = (git.worktree /\ Undelivered)
          /\ proc'[Cli].revision = proc[Cli].revision
      BY <2>2, CliCaptures, CaptureGathers, Actors
    <3>2. git.branch # {}
      BY <3>1 DEF BranchOK
    <3>3. Captured(proc[Cli].revision) => evidence[proc[Cli].revision].patch
      BY <3>1, <3>2 DEF BranchOK
    <3>4. Captured(proc[Cli].revision)'
      BY <1>8, <3>1, Actors DEF CertOK, StagesOK
    <3>5. evidence'[proc[Cli].revision].patch
      BY <1>3, <3>1, <3>2, <3>3, <3>4 DEF Gathers, Keeps, Links, Captured
    <3> QED BY <1>3, <3>1, <3>2, <3>5
  <2>3. ~(\E id \in TaskIds : Approve(id)) /\ ~Fill(Cli) /\ ~PublishPullRequest
    <3>1. ASSUME NEW id \in TaskIds, Approve(id) PROVE FALSE
      BY <1>8, <3>1, ApproveIs
    <3>2. ~Fill(Cli)
      BY <1>8, CliFills
    <3>3. ~PublishPullRequest
      BY DEF Bare, Delivering, PublishPullRequest
    <3> QED BY <3>1, <3>2, <3>3
  <2> QED BY <1>8, <2>1, <2>2, <2>3 DEF Operates
<1>9. ASSUME git'.branch # {}, NEW r \in Revisions, Captured(r)', ~evidence'[r].patch
      PROVE  r < trace'.workRevision /\ (proc'[Cli].pc = "capture" => r # proc'[Cli].revision)
  <2>1. r \in Nat
    BY <1>1
  <2>2. CASE \E id \in Runnable : Propose(id)
    <3>1. PICK id \in Goal : InFlight(id)
      BY <1>4, <2>2
    <3>2. UNCHANGED <<trace, evidence, proc[Cli]>>
      BY <1>4, <2>2
    <3>3. Captured(r) /\ ~evidence[r].patch
      BY <1>9, <3>2 DEF Captured
    <3>4. CASE git.branch # {}
      BY <3>2, <3>3, <3>4 DEF BranchOK
    <3>5. CASE git.branch = {}
      <4>1. r # trace.workRevision
        BY <3>1, <3>3, <3>5 DEF BranchOK, Rested
      <4>2. proc[Cli].pc # "capture"
        BY <3>5 DEF BranchOK
      <4> QED BY <1>1, <2>1, <3>2, <3>3, <4>1, <4>2 DEF RevisionsOK
    <3> QED BY <3>4, <3>5
  <2>3. CASE git'.branch = git.branch
    <3>1. Captured(r) /\ ~evidence[r].patch
      <4>1. ~Links(r)
        BY <1>3, <1>9, <2>3 DEF Links
      <4> QED BY <1>9, <4>1 DEF Gathers, Keeps, Captured
    <3>2. r < trace.workRevision /\ (proc[Cli].pc = "capture" => r # proc[Cli].revision)
      BY <1>9, <2>3, <3>1 DEF BranchOK
    <3>3. ASSUME NEW id \in TaskIds, Approve(id) PROVE r # proc'[Cli].revision
      BY <1>1, <2>1, <3>2, <3>3, ApproveIs
    <3>4. ASSUME proc'[Cli].pc = "capture" PROVE r # proc'[Cli].revision
      <4>1. ~Capture(Cli)
        BY <3>4, CliCaptures, Actors
      <4>2. ~Fill(Cli)
        BY <3>4, CliFills
      <4>3. ~PublishPullRequest
        BY DEF Bare, Delivering, PublishPullRequest
      <4> QED BY <3>2, <3>3, <3>4, <4>1, <4>2, <4>3 DEF Operates
    <3> QED BY <1>1, <2>1, <3>2, <3>4
  <2> QED BY <2>2, <2>3 DEF Grown
<1>10. ASSUME git'.branch = {}, Captured(trace.workRevision)' PROVE Rested'
  <2> DEFINE r == trace'.workRevision
  <2>1. git.branch = {} /\ r \in Revisions
    BY <1>5, <1>10 DEF Captured
  <2>2. trace.workRevision = r /\ Rested
    <3>1. CASE Captured(r)
      <4>1. r <= trace.workRevision
        BY <2>1, <3>1 DEF RevisionsOK
      <4>2. trace.workRevision = r
        BY <1>1, <4>1
      <4> QED BY <2>1, <3>1, <4>2 DEF BranchOK
    <3>2. CASE ~Captured(r)
      <4>1. Links(r)
        BY <1>10, <2>1, <3>2 DEF Gathers, Keeps, Captured
      <4>2. PICK p \in Procs : proc[p].pc = "capture" /\ proc[p].revision = r
        BY <4>1 DEF Links
      <4>3. p \in Checkers
        BY <2>1, <4>2 DEF CertOK, StagesOK, BranchOK, Bare
      <4>4. trace.workRevision = r
        BY <4>1 DEF Links
      <4> QED BY <4>2, <4>3, <4>4 DEF SealOK, Sealed, Certifies
    <3> QED BY <3>1, <3>2
  <2> QED BY <2>2, RestStays
<1> QED BY <1>6, <1>7, <1>8, <1>9, <1>10 DEF BranchOK

LEMMA StepDelivers ==
  ASSUME DeliveryInv, Bounded, [Next]_vars
  PROVE  DeliveryInv'
<1> USE DEF DeliveryInv, IdleInv
<1>1. IdleInv' /\ IInv'
  BY StepIdle
<1>2. Effect /\ Seals /\ Gathers /\ Operates /\ Polls /\ Outside
  BY StepEffect, StepSeals, StepGathers, StepOperates, StepPolls, StepOutside
<1>3. ApprovalOK'
  BY <1>2, ApprovalStays
<1>4. RevisionsOK'
  BY <1>1, <1>2, RevisionsStay DEF IInv, Types
<1>5. PatchOK'
  <2> SUFFICES ASSUME OnlyGoalEdits, ~PatchKept' PROVE Bare' /\ BranchOK'
    BY DEF PatchOK, OnlyGoalEdits
  <2>1. Bare /\ BranchOK
    BY <1>2, GathersGrow DEF PatchOK
  <2>2. Bare' /\ Grown
    BY <1>2, <2>1, BareStays
  <2> QED BY <1>1, <1>2, <2>1, <2>2, BranchStays
<1> QED BY <1>1, <1>3, <1>4, <1>5

LEMMA InitDelivers == Init => DeliveryInv
<1> SUFFICES ASSUME Init PROVE DeliveryInv
  OBVIOUS
<1>1. IdleInv
  BY InitIdle
<1>2. \A p \in Procs : proc[p].pc = "idle"
  BY DEF Init, Idle
<1>3. \A r \in Revisions : ~Captured(r)
  BY DEF Init, NoEvidence, Captured
<1>4. git.branch = {} /\ git.merged = {} /\ git.pushed = {} /\ ~forge.entry /\ forge.pr = "none"
  BY DEF Init
<1>5. ~Asked
  <2>1. \A i \in 1..Len(stream) : ~Calls(stream[i])
    BY DEF Init, Calls, Asks
  <2>2. StatusOf(MergeGate) # "waiting_review" /\ \A id \in TaskIds : trace.tasks[id].workspace # "isolated"
    <3>1. PICK gates \in SUBSET {MergeGate} :
             trace = ReduceTaskPlan(EmptyTrace, PlanOf(Work \cup gates), FALSE, FALSE, 1)
      BY DEF Init
    <3> QED BY <3>1, FirstRows, ClosingIs DEF StatusOf
  <2> QED BY <1>2, <2>1, <2>2 DEF Asked
<1>6. ~Captured(trace.workRevision)
  BY <1>3 DEF Captured
<1> QED BY <1>1, <1>2, <1>3, <1>4, <1>5, <1>6, Actors
       DEF DeliveryInv, ApprovalOK, RevisionsOK, PatchOK, Bare, BranchOK, Delivering

LEMMA AlwaysDeliveryInv == Spec /\ []Bounded => []DeliveryInv
<1>1. Init => DeliveryInv
  BY InitDelivers
<1>2. DeliveryInv /\ Bounded /\ [Next]_vars => DeliveryInv'
  BY StepDelivers
<1> QED BY <1>1, <1>2, PTL DEF Spec

(* An approval of the merge gate delivers only a revision whose result and *)
(* metrics are kept; and where closing rounds only review, nothing is      *)
(* merged before a completion has kept its patch                           *)
(* (ensureWorkCompletionEvidence): the merge gate is asked for only when   *)
(* something was proposed, so a capture for it finds a branch, and a       *)
(* capture that found none certified a revision whose work was at rest.    *)
THEOREM DeliveriesAreEvidenced == Spec /\ []Bounded => []DeliveredIsEvidenced
<1>1. DeliveryInv => DeliveredIsEvidenced
  BY DEF DeliveryInv, ApprovalOK, PatchOK, OnlyGoalEdits, PatchKept, Bare, DeliveredIsEvidenced
<1> QED BY <1>1, AlwaysDeliveryInv, PTL

=============================================================================
