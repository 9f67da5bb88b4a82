---------------------------- MODULE TrailMetrics ----------------------------
(***************************************************************************)
(* What a trail's retained files say happened on it (internal/runs,        *)
(* trail_metrics.go): the projection `paseka` and the console report from  *)
(* disk alone.  Its evidence is written by many processes, none of which   *)
(* sees the whole, and any line or record of it may be missing or damaged. *)
(*                                                                         *)
(* Nothing here has state.  A disk record d holds the evidence:            *)
(*   log      the surviving lines of the trail log, and log's condition    *)
(*   runLogs  the surviving lines of the runs' own logs                    *)
(*   runs     the run directories; links the task-to-run linkage           *)
(*   tasks    the projected task rows                                      *)
(*   origin   the trail's recorded origin; invocations the cue records     *)
(* Durations, token sums, review notes and feedback counts are left out.   *)
(***************************************************************************)
EXTENDS Naturals, FiniteSets

Known == {"work", "closing", "analysis"}
Purposes == Known \cup {"unknown"}

\* A reader never invents a purpose: anything outside the vocabulary is unknown.
PurposeKey(purpose) == IF purpose \in Known THEN purpose ELSE "unknown"

-----------------------------------------------------------------------------
(* Events and what is known of them *)

\* The trail log and the runs' logs, each event once by identity.
Events(d) == d.log \cup d.runLogs
OfKind(d, kind) == {e \in Events(d) : e.kind = kind}

EventsCoverage(d) == IF d.condition = "whole" THEN "complete" ELSE "partial"

TaskPurposeOf(row) ==
    CASE row.analysis -> "analysis"
      [] ~row.analysis /\ row.phase = "closing" -> "closing"
      [] OTHER -> "work"

TaskRows(d) == {id \in DOMAIN d.tasks : d.tasks[id].status # "absent"}
TaskPurpose(d, id) == IF id \in TaskRows(d) THEN TaskPurposeOf(d.tasks[id]) ELSE "unknown"

\* The execution that produced an observation, else the task it names.
EventPurpose(d, e) ==
    LET producer == {r \in d.runs : r.agent = e.by /\ r.purpose \in Known}
    IN  IF producer # {} THEN (CHOOSE r \in producer : TRUE).purpose
        ELSE TaskPurpose(d, e.task)

-----------------------------------------------------------------------------
(* Runs *)

RetainedRuns(d) == Cardinality(d.runs)
RunsOf(d, p) == {r \in d.runs : PurposeKey(r.purpose) = p}

\* A link to no retained run, or a run of no retained task, leaves a gap.
RunsCoverage(d) ==
    IF /\ \A l \in d.links : \E r \in d.runs : r.agent = l.agent
       /\ \A r \in d.runs : r.task = 0 \/ r.task \in TaskRows(d)
    THEN "complete" ELSE "partial"

PurposeCoverage(d) == IF \A r \in d.runs : r.purpose \in Known THEN "complete" ELSE "partial"

-----------------------------------------------------------------------------
(* Honey *)

Charges(d) == OfKind(d, "consume")
Spent(d) == Cardinality(Charges(d))

\* With no readable record and no charge, zero would be an invented total.
ChargesRecorded(d) == d.condition # "absent" \/ Charges(d) # {}

HoneyCoverage(d) ==
    CASE ~ChargesRecorded(d) -> "unavailable"
      [] ChargesRecorded(d) /\ (OfKind(d, "seeded") = {} \/ d.condition # "whole") -> "partial"
      [] OTHER -> "complete"

\* The charge's own attribution, else the task it names.
ChargePurpose(d, e) ==
    IF e.purpose \in Known THEN e.purpose ELSE TaskPurpose(d, e.task)
SpentOn(d, p) == Cardinality({e \in Charges(d) : ChargePurpose(d, e) = p})

-----------------------------------------------------------------------------
(* Rejections: the run's verdict and the event it raised are one rejection *)

VerificationsOn(d, p) ==
    Cardinality({e \in OfKind(d, "rejected") : EventPurpose(d, e) = p})
VerificationFailed(d) == Cardinality(OfKind(d, "rejected"))

FailedGates(d, id) == {r \in d.runs : r.gate = "failed" /\ r.task = id}
CheckEvents(d, id) == {e \in OfKind(d, "rejected") : e.task = id}
Larger(m, n) == IF m > n THEN m ELSE n

\* Fault: the two recorders of a rejection are added up.
RejectionsOf_Added(d, id) == Cardinality(FailedGates(d, id)) + Cardinality(CheckEvents(d, id))

\* Either recorder may be missing; neither is added on top of the other.
RejectionsOf(d, id) == Larger(Cardinality(FailedGates(d, id)), Cardinality(CheckEvents(d, id)))

RejectedTasks(d) ==
    {r.task : r \in d.runs} \cup {e.task : e \in OfKind(d, "rejected")}

Sum(f) ==
    LET upTo[S \in SUBSET DOMAIN f] ==
            IF S = {} THEN 0
            ELSE LET x == CHOOSE y \in S : TRUE IN f[x] + upTo[S \ {x}]
    IN  upTo[DOMAIN f]

GateRejections(d) == Sum([id \in RejectedTasks(d) |-> RejectionsOf(d, id)])

\* A taskless rejection keeps its purpose only if its recorders agree on one.
TasklessPurpose(d) ==
    LET recorded == {PurposeKey(r.purpose) : r \in FailedGates(d, 0)}
                    \cup {EventPurpose(d, e) : e \in CheckEvents(d, 0)}
    IN  IF Cardinality(recorded) = 1 THEN CHOOSE p \in recorded : TRUE ELSE "unknown"

RejectionPurpose(d, id) == IF id = 0 THEN TasklessPurpose(d) ELSE TaskPurpose(d, id)

GateRejectionsOn(d, p) ==
    Sum([id \in {t \in RejectedTasks(d) : RejectionPurpose(d, t) = p} |-> RejectionsOf(d, id)])

-----------------------------------------------------------------------------
(* Tasks *)

LinkedRuns(d, id) == {l.agent : l \in {k \in d.links : k.task = id}}
WorkRoles(d, id) ==
    ({d.tasks[id].bee} \cup {l.bee : l \in {k \in d.links : k.task = id}}) \ {"none"}

\* A linked run performed the assigned role, even if its record is gone; any
\* other run of the task only if its recorded bee is one of the assigned ones.
Performed(d, id) ==
    LinkedRuns(d, id)
    \cup {r.agent : r \in {k \in d.runs : k.task = id /\ k.bee \in WorkRoles(d, id)}}

OwnershipUnknown(d, id) ==
    \E r \in d.runs : /\ r.task = id /\ r.agent \notin LinkedRuns(d, id)
                      /\ r.bee = "none" \/ WorkRoles(d, id) = {}

\* A superseded tick is no work, whatever is retained around it.
Executions(d, id) ==
    IF d.tasks[id].status = "skipped" THEN 0 ELSE Cardinality(Performed(d, id))
Retries(d, id) == IF Executions(d, id) = 0 THEN 0 ELSE Executions(d, id) - 1

\* The purpose's retries, or nothing where the record cannot prove them.
RetriesProven(d, p) ==
    CASE p = "unknown" -> RunsOf(d, p) = {}
      [] p = "analysis" -> \A r \in RunsOf(d, p) : r.milestone # 0
      [] OTHER ->
            LET rows == {id \in TaskRows(d) : TaskPurpose(d, id) = p}
            IN  /\ \A id \in rows : d.tasks[id].status = "skipped" \/ ~OwnershipUnknown(d, id)
                /\ rows # {} \/ RunsOf(d, p) = {}

\* An analysis has no task row: a second run for one milestone is its retry.
RetriesOn(d, p) ==
    IF p = "analysis"
    THEN Cardinality(RunsOf(d, p)) - Cardinality({r.milestone : r \in RunsOf(d, p)})
    ELSE Sum([id \in {t \in TaskRows(d) : TaskPurpose(d, t) = p} |-> Retries(d, id)])

\* The trail's latest pause, unless its end was recorded.
OpenEnergyPause(d) ==
    {e \in OfKind(d, "paused") :
        /\ \A o \in OfKind(d, "paused") : o.n <= e.n
        /\ \A o \in OfKind(d, "resumed") : o.n # e.n}

\* Without an execution, an open pause keeps a waiting task from having started.
Started(d, id) ==
    LET status == d.tasks[id].status
    IN  /\ status # "skipped"
        /\ \/ Executions(d, id) > 0
           \/ status \in {"completed", "failed", "cancelled"}
           \/ OpenEnergyPause(d) = {} /\ status \in {"running", "waiting_review"}

WorkState(d) ==
    LET states == {d.tasks[id].status :
                    id \in {t \in TaskRows(d) : d.tasks[t].phase # "merge" /\ ~d.tasks[t].analysis}}
    IN  CASE "failed" \in states -> "failed"
          [] "cancelled" \in states /\ "failed" \notin states -> "cancelled"
          [] "blocked" \in states /\ states \cap {"failed", "cancelled"} = {} -> "blocked"
          [] states = {"completed"} -> "completed"
          [] OTHER ->
                IF OpenEnergyPause(d) # {} THEN "blocked"
                ELSE IF states \cap {"planned", "ready", "running", "waiting_review"} # {}
                THEN "open"
                ELSE IF "skipped" \in states THEN "skipped" ELSE "none"

-----------------------------------------------------------------------------
(* Where the work came from *)

\* Every retained invocation: its record, else its ingress observation.
Ingresses(d) ==
    d.invocations \cup {e.task : e \in OfKind(d, "ingress")}
    \cup (IF d.origin.kind = "cue" THEN {d.origin.invocation} ELSE {})

Attribution(d, i) ==
    CASE d.origin.kind = "cue" ->
            IF i = d.origin.invocation THEN "origin" ELSE "addition"
      [] d.origin.kind \in {"manual", "fork", "other"} -> "addition"
      [] OTHER -> "unknown"

OriginCoverage(d) ==
    IF /\ d.origin.kind # "none"
       /\ {e.task : e \in OfKind(d, "ingress")} \subseteq d.invocations
       /\ d.origin.kind = "cue" => d.origin.invocation \in d.invocations
    THEN "complete" ELSE "partial"
=============================================================================
