----------------------------- MODULE RunFinish -----------------------------
(***************************************************************************)
(* How one agent run ends.  While the agent works it emits events, live or *)
(* deferred into the run's queue; when it exits, the runtime (unattended   *)
(* run) or the session manager (interactive session) gates it, publishes   *)
(* the queue, announces its artifacts, corrects the outcome records and    *)
(* archives the code proposal.  Meanwhile an operator may flush or discard *)
(* the same queue from a terminal, and any of these processes may die.     *)
(*                                                                         *)
(* The queue (pending.ndjson), the run's own log (events.ndjson), the two  *)
(* outcome records and the proposal's sidecar are files: nothing locks     *)
(* them, so every read and every write is a step of its own.               *)
(***************************************************************************)
EXTENDS Naturals, Sequences, FiniteSets

CONSTANTS
    Setups,     \* the runs considered: who finishes the run and what its bee declares
    Kinds,      \* the kinds of events the agent emits
    MaxEvents   \* bound: events the agent emits

NoEvent == [id |-> 0, kind |-> "none"]
NoRecord == [state |-> "absent", reason |-> ""]

\* What a bee and its launch fix for the whole run.
Setup == [mode : {"afk", "session"},   \* unattended, or interactive
          broker : BOOLEAN,            \* a NATS client, or the file-only publisher
          required : BOOLEAN,          \* a bus error ends the finalization
          gate : BOOLEAN,              \* the bee declares a check command
          task : BOOLEAN,              \* the run executes a task
          capped : BOOLEAN,            \* earlier rejections reached the cap
          summary : {"disabled", "auto", "required"},
          contract : BOOLEAN,          \* exactly one "work" event is required
          mutates : BOOLEAN]           \* the bee publishes code proposals

ASSUME SetupAssumption ==
    /\ Setups \subseteq Setup
    /\ Kinds \subseteq {"work", "proposal", "artifact", "summary"}
    /\ MaxEvents \in Nat

\* Events of the agent have their own identity; the platform's have none here.
Own(id, kind) == [id |-> id, kind |-> kind]
Platform(kind) == [id |-> 0, kind |-> kind]

Event == {Own(id, kind) : id \in 1..MaxEvents, kind \in Kinds}
         \cup {Platform(kind) : kind \in {"summary", "rejection", "artifact", "patch"}}

Outcome == [state : {"running", "completed", "failed", "cancelled"},
            reason : {"", "checks_failed", "run_summary_missing", "completion_contract"}]

Flushers == {"finalizer", "operator"}
NotFlushing == [at |-> "idle", rest |-> <<>>]

VARIABLES
    setup,      \* the run under way
    pc,         \* the finalizer's next step
    outcome,    \* the finalizer's verdict, in memory
    status,     \* status.json
    result,     \* result.json
    apply,      \* the reconciliation under way changes the primary outcome
    pending,    \* pending.ndjson
    log,        \* events.ndjson: how many lines hold each event
    published,  \* what the publisher took: [event, by]
    patch,      \* the sidecar's publication state
    seen,       \* the events the finalizer read
    synth,      \* the runtime's own events, to be published
    explicit,   \* the run made its own code proposal
    flush,      \* the flush each process is running
    emit,       \* the live emit under way: logged, not yet published
    emitted,    \* how many events the agent emitted
    deferred,   \* history: the events ever queued
    forgone,    \* history: queued events discarded, or lost in an open window
    overtaken   \* history: an operator's flush ran while the run was finished

vars == <<setup, pc, outcome, status, result, apply, pending, log, published, patch,
          seen, synth, explicit, flush, emit, emitted, deferred, forgone, overtaken>>

records == <<status, result, apply>>
ghosts == <<deferred, forgone>>

Init ==
    /\ setup \in Setups
    /\ pc = "agent"
    /\ outcome = [state |-> "running", reason |-> ""]
    /\ status = [state |-> "running", reason |-> ""]
    /\ result = NoRecord
    /\ apply = FALSE
    /\ pending = <<>> /\ log = [e \in Event |-> 0] /\ published = {}
    /\ patch = "none"
    /\ seen = {} /\ synth = <<>> /\ explicit = FALSE
    /\ flush = [w \in Flushers |-> NotFlushing]
    /\ emit = NoEvent /\ emitted = 0
    /\ deferred = {} /\ forgone = {} /\ overtaken = FALSE

In(s) == {s[i] : i \in 1..Len(s)}
Lines == {e \in Event : log[e] > 0}

\* Nothing tells two lines of one event from more: the count stops at Several.
Several == 2
Logged(e) == [log EXCEPT ![e] = IF log[e] = Several THEN Several ELSE log[e] + 1]
Completed == outcome.state = "completed"
Flushing(w) == flush[w].at # "idle"
Finishing == pc \notin {"agent", "done", "aborted", "dead"}
OwnKind(events, kind) == \E e \in events : e.id > 0 /\ e.kind = kind
HasSummary(events) == \E e \in events : e.kind = "summary"

-----------------------------------------------------------------------------
(* Publishing *)

\* One PublishEvent.  The broker stores the event and confirms it, or loses it,
\* or stores it without its caller learning; the file-only publisher writes the
\* trail log or fails.
Publish(e, by, ok) ==
    \/ published' = published \cup {[event |-> e, by |-> by]}
    \/ ~ok /\ UNCHANGED published

-----------------------------------------------------------------------------
(* Reading a run's outcome back from its two records *)

Terminal(state) == state \in {"completed", "failed", "cancelled"}
FailClosed(state) == IF state = "completed" THEN "failed" ELSE state

\* What two different terminal records read as: never the friendlier one.
Conflict(states) == IF states = {"completed", "cancelled"} THEN "cancelled" ELSE "failed"

\* Fault: two records that disagree are settled by the result.
ProjectRunOutcome_TrustsResult(s, r, readable) ==
    IF Terminal(r) THEN r
    ELSE IF Terminal(s) THEN (IF r = "absent" /\ readable THEN s ELSE FailClosed(s)) ELSE s

\* A missing result is an expected shape (readable) of a session, and of a run
\* that left a text result only; any other half of a pair fails closed.
ProjectRunOutcome(s, r, readable) ==
    CASE Terminal(s) /\ Terminal(r) -> IF s = r THEN s ELSE Conflict({s, r})
      [] Terminal(s) /\ ~Terminal(r) -> IF r = "absent" /\ readable THEN s ELSE FailClosed(s)
      [] ~Terminal(s) /\ Terminal(r) -> FailClosed(r)
      [] OTHER -> IF r = "absent" THEN s ELSE r

ReadsAs(readable) == ProjectRunOutcome(status.state, result.state, readable)

-----------------------------------------------------------------------------
(* The agent, and the command it emits events with *)

Defer(kind) ==
    /\ pc = "agent" /\ emitted < MaxEvents
    /\ emitted' = emitted + 1
    /\ LET e == Own(emitted + 1, kind)
       IN  /\ pending' = Append(pending, e)
           /\ deferred' = deferred \cup {e}
           /\ forgone' = IF \E w \in Flushers : Flushing(w) THEN forgone \cup {e} ELSE forgone
    /\ UNCHANGED <<setup, pc, outcome, records, log, published, patch, seen, synth, explicit,
                   flush, emit, overtaken>>

\* A live emit is recorded before it is published: the record is its authority.
EmitRecorded(kind) ==
    /\ pc = "agent" /\ emitted < MaxEvents /\ emit = NoEvent
    /\ emitted' = emitted + 1
    /\ emit' = Own(emitted + 1, kind)
    /\ log' = Logged(emit')
    /\ UNCHANGED <<setup, pc, outcome, records, pending, published, patch, seen, synth, explicit,
                   flush, ghosts, overtaken>>

\* The termination signal reaches the agent's process alone, so the command may
\* outlive it; or it dies with the event recorded and never published.
EmitPublished ==
    /\ emit # NoEvent
    /\ emit' = NoEvent
    /\ \E ok \in BOOLEAN : Publish(emit, "agent", ok)
    /\ UNCHANGED <<setup, pc, outcome, records, pending, log, patch, seen, synth, explicit,
                   flush, emitted, ghosts, overtaken>>

\* The agent exits by itself with no command under way, fails, or is brought
\* down by the run's timeout or a cancellation.
Exits(state) ==
    /\ pc = "agent"
    /\ state = "completed" => emit = NoEvent
    /\ outcome' = [state |-> state, reason |-> ""]
    /\ overtaken' = Flushing("operator")

\* The adapter writes result.json, then status.json; a delegated adapter may
\* leave no result.json behind.
AdapterExit(state) ==
    /\ setup.mode = "afk"
    /\ Exits(state)
    /\ result' \in {outcome', NoRecord}
    /\ pc' = "adapterStatus"
    /\ UNCHANGED <<setup, status, apply, pending, log, published, patch, seen, synth, explicit,
                   flush, emit, emitted, ghosts>>

AdapterStatus ==
    /\ pc = "adapterStatus"
    /\ pc' = "record"
    /\ status' = outcome
    /\ UNCHANGED <<setup, outcome, result, apply, pending, log, published, patch, seen, synth,
                   explicit, flush, emit, emitted, ghosts, overtaken>>

SessionExit(state) ==
    /\ setup.mode = "session"
    /\ Exits(state)
    /\ pc' = IF state = "completed" THEN "flush" ELSE "close"
    /\ UNCHANGED <<setup, records, pending, log, published, patch, seen, synth, explicit, flush,
                   emit, emitted, ghosts>>

-----------------------------------------------------------------------------
(* Flushing the queue: the finalizer and the operator run the same code *)

\* Where the finalizer goes when its flush or announcement ends.
AfterFlush(ok) == IF ok \/ ~setup.required \/ setup.mode = "session" THEN "artifacts" ELSE "aborted"
Remembered == IF setup.mode = "session" THEN "close" ELSE "events"
AfterArtifacts(ok) ==
    IF ok \/ ~setup.required \/ setup.mode = "session" THEN Remembered ELSE "aborted"

FlushEnds(w, ok) ==
    /\ flush' = [flush EXCEPT ![w] = NotFlushing]
    /\ pc' = IF w = "finalizer" THEN AfterFlush(ok) ELSE pc

FlushStep(w, at) ==
    /\ flush[w].at = at
    /\ overtaken' = (overtaken \/ (w = "operator" /\ Finishing))
    /\ UNCHANGED <<setup, outcome, records, patch, seen, synth, explicit, emit, emitted, deferred>>

MayFlush(w) == w = "finalizer" => pc = "flush"

\* What is in no file between truncating the queue and writing it back.
Torn(w) == IF flush[w].at = "write" THEN In(flush[w].rest) ELSE {}

\* A queue read in that window of another flush lacks what the other writes back
\* afterwards, and the reader's own rewrite removes it.
FlushRead(w) ==
    /\ MayFlush(w)
    /\ FlushStep(w, "idle")
    /\ IF pending = <<>>
       THEN FlushEnds(w, TRUE) /\ UNCHANGED forgone
       ELSE /\ flush' = [flush EXCEPT ![w] = [at |-> "publish", rest |-> pending]]
            /\ forgone' = forgone \cup UNION {Torn(v) : v \in Flushers}
            /\ UNCHANGED pc
    /\ UNCHANGED <<pending, log, published>>

\* A refused file reference, or a failed publish, leaves the queue as it is.
FlushPublish(w) ==
    /\ FlushStep(w, "publish")
    /\ \E ok \in BOOLEAN :
          /\ Publish(Head(flush[w].rest), w, ok)
          /\ IF ok
             THEN flush' = [flush EXCEPT ![w].at = "record"] /\ UNCHANGED pc
             ELSE FlushEnds(w, FALSE)
    /\ UNCHANGED <<pending, log, forgone>>

FlushRecord(w) ==
    /\ FlushStep(w, "record")
    /\ log' = Logged(Head(flush[w].rest))
    /\ flush' = [flush EXCEPT ![w] = [at |-> "rewrite", rest |-> Tail(flush[w].rest)]]
    /\ UNCHANGED <<pc, pending, published, forgone>>

\* Fault: an event that could not be recorded is dropped from the queue.
FlushRecordFails_Drops(w) ==
    /\ FlushStep(w, "record")
    /\ flush' = [flush EXCEPT ![w] = [at |-> "rewrite", rest |-> Tail(flush[w].rest)]]
    /\ UNCHANGED <<pc, pending, log, published, forgone>>

FlushRecordFails(w) ==
    /\ FlushStep(w, "record")
    /\ FlushEnds(w, FALSE)
    /\ UNCHANGED <<pending, log, published, forgone>>

\* The last event removes the file; otherwise the file is truncated first.
FlushRewrite(w) ==
    /\ FlushStep(w, "rewrite")
    /\ pending' = <<>>
    /\ IF flush[w].rest = <<>>
       THEN FlushEnds(w, TRUE)
       ELSE flush' = [flush EXCEPT ![w].at = "write"] /\ UNCHANGED pc
    /\ UNCHANGED <<log, published, forgone>>

FlushWrite(w) ==
    /\ FlushStep(w, "write")
    /\ pending' = flush[w].rest
    /\ flush' = [flush EXCEPT ![w].at = "publish"]
    /\ UNCHANGED <<pc, log, published, forgone>>

OperatorDiscards ==
    /\ pending # <<>>
    /\ pending' = <<>>
    /\ forgone' = forgone \cup In(pending)
    /\ overtaken' = (overtaken \/ Finishing)
    /\ UNCHANGED <<setup, pc, outcome, records, log, published, patch, seen, synth, explicit,
                   flush, emit, emitted, deferred>>

OperatorDies ==
    /\ Flushing("operator")
    /\ flush' = [flush EXCEPT !["operator"] = NotFlushing]
    /\ forgone' = forgone \cup Torn("operator")
    /\ UNCHANGED <<setup, pc, outcome, records, pending, log, published, patch, seen, synth,
                   explicit, emit, emitted, deferred, overtaken>>

-----------------------------------------------------------------------------
(* Artifacts: one batch, unless the run announced its own *)

Step(from, to) ==
    /\ pc = from
    /\ pc' = to
    /\ UNCHANGED <<setup, flush, emit, emitted, ghosts, overtaken>>

Announced(events) == OwnKind(events, "artifact")

ArtifactsPending ==
    /\ Step("artifacts", IF Announced(In(pending)) THEN Remembered ELSE "announced")
    /\ UNCHANGED <<outcome, records, pending, log, published, patch, seen, synth, explicit>>

\* The comb may not have changed since the run's baseline.
ArtifactsLogged ==
    /\ \/ Step("announced", Remembered)
       \/ ~Announced(Lines) /\ Step("announced", "announce")
    /\ UNCHANGED <<outcome, records, pending, log, published, patch, seen, synth, explicit>>

AnnounceArtifacts ==
    /\ \E ok \in BOOLEAN :
          /\ Publish(Platform("artifact"), "finalizer", ok)
          /\ Step("announce", IF ok THEN "recordBatch" ELSE AfterArtifacts(FALSE))
    /\ UNCHANGED <<outcome, records, pending, log, patch, seen, synth, explicit>>

RecordArtifacts ==
    /\ \/ Step("recordBatch", AfterArtifacts(TRUE)) /\ log' = Logged(Platform("artifact"))
       \/ Step("recordBatch", AfterArtifacts(FALSE)) /\ UNCHANGED log
    /\ UNCHANGED <<outcome, records, pending, published, patch, seen, synth, explicit>>

-----------------------------------------------------------------------------
(* The outcome records of an unattended run *)

EnsureResultRecord ==
    /\ Step("record", "gate")
    /\ result' = IF result = NoRecord THEN outcome ELSE result
    /\ UNCHANGED <<outcome, status, apply, pending, log, published, patch, seen, synth, explicit>>

RecordedPrimaryFailure == status.state \in {"failed", "cancelled"}

\* A verdict corrects a completed run on both records, status.json first; it
\* never relabels a failure already recorded.
ReconcileStatus(from, to) ==
    /\ Step(from, to)
    /\ apply' = (status # outcome /\ ~RecordedPrimaryFailure)
    /\ status' = IF apply' THEN outcome ELSE status
    /\ UNCHANGED <<outcome, result, pending, log, published, patch, seen, synth, explicit>>

ReconcileResult(from, to) ==
    /\ Step(from, to)
    /\ result' = IF apply /\ result # NoRecord THEN outcome ELSE result
    /\ UNCHANGED <<outcome, status, apply, pending, log, published, patch, seen, synth, explicit>>

Fails(reason) == outcome' = [state |-> "failed", reason |-> reason]

\* Fault: a rejected run still flushes its queue.
CheckGate_Flushes ==
    /\ \/ ~(setup.gate /\ Completed) /\ UNCHANGED outcome
       \/ setup.gate /\ Completed /\ (Fails("checks_failed") \/ UNCHANGED outcome)
    /\ Step("gate", "flush")
    /\ UNCHANGED <<records, pending, log, published, patch, seen, synth, explicit>>

\* The check command's exit status decides, before anything leaves the run; a
\* gate that cannot run fails.
CheckGate ==
    /\ \/ ~(setup.gate /\ Completed) /\ UNCHANGED outcome
          /\ Step("gate", IF Completed THEN "flush" ELSE "events")
       \/ setup.gate /\ Completed /\ UNCHANGED outcome /\ Step("gate", "flush")
       \/ setup.gate /\ Completed /\ Fails("checks_failed") /\ Step("gate", "gateStatus")
    /\ UNCHANGED <<records, pending, log, published, patch, seen, synth, explicit>>

\* The rejection that drives rework: none without a task, none past the cap.
RejectRun ==
    /\ Step("reject", "events")
    /\ IF setup.task /\ ~setup.capped
       THEN /\ log' = Logged(Platform("rejection"))
            /\ synth' = <<Platform("rejection")>>
       ELSE UNCHANGED <<log, synth>>
    /\ UNCHANGED <<outcome, records, pending, published, patch, seen, explicit>>

\* The events are read once; a completed run that said something and emitted no
\* summary gets one.
ReadEvents ==
    /\ Step("events", "summary")
    /\ \/ seen' = Lines /\ UNCHANGED <<log, synth>>
       \/ /\ Completed /\ setup.summary # "disabled" /\ ~HasSummary(Lines)
          /\ log' = Logged(Platform("summary"))
          /\ seen' = Lines'
          /\ synth' = Append(synth, Platform("summary"))
    /\ UNCHANGED <<outcome, records, pending, published, patch, explicit>>

RequireSummary ==
    /\ IF setup.summary = "required" /\ ~HasSummary(seen) /\ Completed
       THEN Fails("run_summary_missing") /\ Step("summary", "summaryStatus")
       ELSE UNCHANGED outcome /\ Step("summary", "contract")
    /\ UNCHANGED <<records, pending, log, published, patch, seen, synth, explicit>>

\* The contract counts the lines of the log; a damaged log is never a pass.
ContractHolds(damaged) ==
    /\ ~damaged
    /\ \E e \in Lines : /\ e.kind = "work" /\ log[e] = 1
                        /\ \A o \in Lines \ {e} : o.kind # "work"

EnforceContract ==
    /\ \E damaged \in BOOLEAN :
          IF setup.contract /\ ~ContractHolds(damaged) /\ Completed
          THEN Fails("completion_contract") /\ Step("contract", "contractStatus")
          ELSE UNCHANGED outcome /\ Step("contract", "explicit")
    /\ UNCHANGED <<records, pending, log, published, patch, seen, synth, explicit>>

\* A session has no result.json; its status is written once, whole.
CloseSession ==
    /\ Step("close", IF Completed THEN "reread" ELSE "done")
    /\ status' = outcome
    /\ UNCHANGED <<outcome, result, apply, pending, log, published, patch, seen, synth, explicit>>

-----------------------------------------------------------------------------
(* Publishing the outcome and archiving the proposal *)

\* A session reads its log only now, after its hooks.
RereadEvents ==
    /\ Step("reread", "explicit")
    /\ seen' = Lines
    /\ UNCHANGED <<outcome, records, pending, log, published, patch, synth, explicit>>

\* Fault: only the log is asked for the run's own proposal.
OwnProposal_LogOnly ==
    /\ Step("explicit", "publish")
    /\ explicit' = OwnKind(seen, "proposal")
    /\ UNCHANGED <<outcome, records, pending, log, published, patch, seen, synth>>

\* A proposal still in the queue is the run's own too: the log first, then the
\* queue.
OwnProposal ==
    /\ Step("explicit", "publish")
    /\ explicit' = (OwnKind(seen, "proposal") \/ OwnKind(In(pending), "proposal"))
    /\ UNCHANGED <<outcome, records, pending, log, published, patch, seen, synth>>

\* The runtime's own events go out in order; the first error ends the pass, and
\* the proposal with it.
PublishSynthesized ==
    /\ synth # <<>>
    /\ \E ok \in BOOLEAN :
          /\ Publish(Head(synth), "finalizer", ok)
          /\ Step("publish", IF ok THEN "publish" ELSE IF setup.required THEN "aborted" ELSE "done")
    /\ synth' = Tail(synth)
    /\ UNCHANGED <<outcome, records, pending, log, patch, seen, explicit>>

MayArchive == Completed /\ setup.mutates /\ ~explicit

\* The diff is collected once and may be empty; the record is installed as
\* unpublished.
Archive ==
    /\ synth = <<>>
    /\ \/ Step("publish", "done") /\ UNCHANGED patch
       \/ MayArchive /\ Step("publish", "attempt") /\ patch' = "unpublished"
    /\ UNCHANGED <<outcome, records, pending, log, published, seen, synth, explicit>>

\* Fault: the sidecar is touched only after the broker answered.
MarkAttempt_Late ==
    /\ Step("attempt", "send")
    /\ UNCHANGED <<outcome, records, pending, log, published, patch, seen, synth, explicit>>

\* A real attempt is announced in the sidecar before it is made.
MarkAttempt ==
    /\ \/ Step("attempt", "send") /\ patch' = IF setup.broker THEN "unconfirmed" ELSE patch
       \/ setup.broker /\ Step("attempt", "done") /\ UNCHANGED patch
    /\ UNCHANGED <<outcome, records, pending, log, published, seen, synth, explicit>>

SendPatch ==
    /\ \E ok \in BOOLEAN :
          /\ Publish(Platform("patch"), "finalizer", ok)
          /\ Step("send", IF ok /\ setup.broker THEN "confirm" ELSE "done")
    /\ UNCHANGED <<outcome, records, pending, log, patch, seen, synth, explicit>>

ConfirmPatch ==
    /\ Step("confirm", "done")
    /\ patch' \in {"published", patch}
    /\ UNCHANGED <<outcome, records, pending, log, published, seen, synth, explicit>>

\* The finalizing process dies between two steps; nobody resumes it.
FinalizerDies ==
    /\ pc \notin {"done", "aborted", "dead"}
    /\ pc' = "dead"
    /\ flush' = [flush EXCEPT !["finalizer"] = NotFlushing]
    /\ forgone' = forgone \cup Torn("finalizer")
    /\ UNCHANGED <<setup, outcome, records, pending, log, published, patch, seen, synth, explicit,
                   emit, emitted, deferred, overtaken>>

-----------------------------------------------------------------------------

Agent ==
    \/ \E kind \in Kinds : Defer(kind) \/ EmitRecorded(kind)
    \/ EmitPublished
    \/ \E state \in {"completed", "failed", "cancelled"} : AdapterExit(state) \/ SessionExit(state)
    \/ AdapterStatus

Flush(w) ==
    \/ FlushRead(w) \/ FlushPublish(w)
    \/ FlushRecord(w) \/ FlushRecordFails(w)
    \/ FlushRewrite(w) \/ FlushWrite(w)

Announce == ArtifactsPending \/ ArtifactsLogged \/ AnnounceArtifacts \/ RecordArtifacts

Verdicts ==
    \/ EnsureResultRecord
    \/ CheckGate
    \/ ReconcileStatus("gateStatus", "gateResult") \/ ReconcileResult("gateResult", "reject")
    \/ RejectRun
    \/ ReadEvents
    \/ RequireSummary
    \/ ReconcileStatus("summaryStatus", "summaryResult")
    \/ ReconcileResult("summaryResult", "contract")
    \/ EnforceContract
    \/ ReconcileStatus("contractStatus", "contractResult")
    \/ ReconcileResult("contractResult", "explicit")
    \/ CloseSession

PublishOutcome ==
    \/ RereadEvents \/ OwnProposal
    \/ PublishSynthesized
    \/ Archive \/ MarkAttempt \/ SendPatch \/ ConfirmPatch

Next ==
    \/ Agent
    \/ \E w \in Flushers : Flush(w)
    \/ OperatorDiscards
    \/ Announce \/ Verdicts \/ PublishOutcome
    \/ OperatorDies \/ FinalizerDies

Spec == Init /\ [][Next]_vars

-----------------------------------------------------------------------------
(* Properties *)

TypeOK ==
    /\ setup \in Setups
    /\ outcome \in Outcome /\ status \in Outcome
    /\ result \in Outcome \cup {NoRecord}
    /\ patch \in {"none", "unpublished", "unconfirmed", "published"}
    /\ In(pending) \subseteq Event /\ log \in [Event -> 0..Several]
    /\ \A m \in published : m.event \in Event

Out(e) == \E m \in published : m.event = e
Queued(e) == e \in In(pending) \/ \E w \in Flushers : e \in Torn(w)

\* Whatever fails, dies or overlaps, an event the agent deferred stays queued
\* until it is both published and recorded in the run's log (deferred.go:79-209);
\* it is given up only by an operator's discard, and in the three windows the code
\* leaves open: an append under a running flush, whose rewrite then covers it; a
\* death between truncating the file and writing it back; and a second flush that
\* reads between the two what was appended there, and rewrites the queue last.
DeferredIsKept ==
    \A e \in deferred \ forgone : Queued(e) \/ (Out(e) /\ e \in Lines)

\* The sidecar never claims more than is known (archive.go:196-249): published
\* only if the broker has the proposal, unpublished only if it cannot have it,
\* wherever the process dies.
PublicationIsHonest ==
    setup.broker =>
        /\ patch = "published" => Out(Platform("patch"))
        /\ Out(Platform("patch")) => patch \in {"unconfirmed", "published"}

\* The gate decides before anything leaves the run (dispatch_stages.go:475-483):
\* of a rejected run the runtime publishes the rejection and nothing else, and
\* no failed or cancelled run leaves a code proposal.
RejectedRunIsSilent ==
    /\ outcome.reason = "checks_failed" =>
          \A m \in published : m.by = "finalizer" => m.event = Platform("rejection")
    /\ outcome.state \in {"failed", "cancelled"} => patch = "none"

\* A Guard is never sent a second proposal for one run (proposal.go:49-62): the
\* run's own, live or still queued, suppresses the archived one, unless an
\* operator discarded it, or flushed the queue between the finalizer's looks.
OneProposal ==
    OwnKind({m.event : m \in published} \ forgone, "proposal") /\ Out(Platform("patch"))
        => overtaken

\* The two records cannot be written together, and any write may be the last
\* (projections.go:239-316): a run reads as completed only while no record
\* says it failed, whether or not it left a text result; a finished one only
\* if that is the verdict; and a failed verdict, once it is on one record, is
\* read back whatever dies next.
OutcomeFailsClosed ==
    LET read == {ReadsAs(readable) : readable \in {setup.mode = "session", TRUE}}
    IN  /\ "completed" \in read => {status.state, result.state} \cap {"failed", "cancelled"} = {}
        /\ "completed" \in read /\ pc = "done" => Completed
        /\ outcome.state = "failed" /\ outcome \in {status, result} => read = {"failed"}
=============================================================================
