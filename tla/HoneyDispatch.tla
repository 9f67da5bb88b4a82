--------------------------- MODULE HoneyDispatch ---------------------------
(***************************************************************************)
(* One trail's task dispatches in the reactor (internal/runtime): the bus  *)
(* handler, the goroutines it starts for ready tasks, the drain of         *)
(* deferred work - in the handler of an energy.add, and in the recovery    *)
(* that runs beside the handler after a start - and a crash of them all.   *)
(* A ledger operation is one step (LedgerProofs!Linearizable); what two    *)
(* of them decide together is not.                                         *)
(*                                                                         *)
(* The trail is seeded, its tasks are planned, and no configuration change *)
(* is pending.  Direct reactions and work completion are left out.         *)
(***************************************************************************)
EXTENDS Ledger, EventDelivery, Integers

CONSTANTS
    Handler,        \* the subscription callback
    Startup,        \* the thread that recovers deferred work
    Goroutines,     \* slots for asynchronous dispatches
    NoWorker,       \* a task nobody has registered
    Dependencies,   \* the dependencies of the planned tasks
    DefaultBee,     \* the colony's default bee
    StartHoney,     \* what earlier work left of the seed
    TopUp,          \* honey a top-up or a stipend brings
    Outcomes,       \* how an adapter run may end
    MaxCrashes,     \* bound on crashes
    MaxFaults       \* bound on failed publishes

EventKind == {"task.ready", "energy.add", "energy.stipend", "system.kill"}

ASSUME DispatchAssumption ==
    /\ Events \subseteq [id: Nat, kind: EventKind, task: TaskIds]
    /\ Handler # Startup /\ {Handler, Startup} \cap Goroutines = {}
    /\ NoWorker \notin {Handler, Startup} \cup Goroutines
    /\ Dependencies \in [TaskIds -> SUBSET TaskIds]
    /\ DefaultBee \in Bees
    /\ StartHoney \in 0..DefaultBudget /\ TopUp \in Nat \ {0}
    /\ Outcomes \subseteq {"completed", "failed", "waiting_review",
                       "gate_failed"}
    /\ MaxCrashes \in Nat /\ MaxFaults \in Nat

Workers == {Handler, Startup} \cup Goroutines

\* The identity of the event a dispatch reacts to: a bus event, or the nth
\* completion this trail recorded.
Source == {"event", "completion"} \X Nat

VARIABLES
    trace,          \* the stored snapshot
    origin,         \* per queue entry, the source it was deferred with
    attempts,       \* per task, its latest attempt
    inflight,       \* per task, the dispatch registered last, or NoWorker
    cancelled,      \* dispatches whose context was cancelled
    claims,         \* deferred dispatches a drain is resuming
    proc,           \* per worker, where it is
    completions,    \* completions recorded
    crashes, faults,
    started         \* history: the adapter runs, in the order they started

ledgerVars == <<trace, origin, attempts>>           \* survive a crash
memoryVars == <<inflight, cancelled, claims>>       \* do not
countVars == <<completions, crashes, faults>>
dispatchVars == <<ledgerVars, memoryVars, countVars, proc, started>>
vars == <<dispatchVars, deliveryVars>>

\* frames: the dispatches in progress, a completion's own one innermost;
\* queue: the rest of what a drain captured, its current item first.
Step == {"idle", "check", "alive", "register", "gate", "charge", "defer",
         "observe", "prepare", "mark", "start", "running", "leave",
         "announce", "drain", "claim", "recheck", "abandon", "left",
         "settle", "clear", "abort", "done", "close", "cancel"}
Frame == [task: TaskIds, source: Source, attempt: Nat]
Idle == [pc |-> "idle", frames |-> <<>>, queue |-> <<>>, failed |-> FALSE]

\* n tells a task's attempts apart; last is the source they ran for last.
NoSource == <<"none", 0>>
NoAttempt == [n |-> 0, open |-> FALSE, source |-> NoSource, last |-> NoSource]
NewFrame(id, source) == [task |-> id, source |-> source, attempt |-> 0]

PlannedTrace ==
    LET plan == [id \in TaskIds |-> [phase |-> "work", bee |-> NoBee,
                                     deps |-> Dependencies[id]]]
        planned == ReduceTaskPlan(EmptyTrace, plan, FALSE, FALSE, 1)
    IN  [EnsureEnergySeed(planned) EXCEPT !.remaining = StartHoney]

Init ==
    /\ DeliveryInit
    /\ trace = PlannedTrace
    /\ origin = <<>>
    /\ attempts = [id \in TaskIds |-> NoAttempt]
    /\ inflight = [id \in TaskIds |-> NoWorker]
    /\ cancelled = {} /\ claims = {}
    /\ proc = [w \in Workers |-> Idle]
    /\ completions = 0 /\ crashes = 0 /\ faults = 0
    /\ started = <<>>

-----------------------------------------------------------------------------
(* Helpers *)

At(w, step) == up /\ proc[w].pc = step
Goto(w, step) == proc' = [proc EXCEPT ![w].pc = step]

Current(w) == Last(proc[w].frames)
EffectiveBee(id) == Overlay(DefaultBee, trace.tasks[id].bee)
DispatchKey(id) == TaskDispatch(id, EffectiveBee(id))

Terminal(status) == status \in {"completed", "failed", "cancelled", "skipped"}

CloseAttempts(ids) ==
    attempts' = [id \in TaskIds |->
        IF id \in ids THEN [attempts[id] EXCEPT !.open = FALSE]
        ELSE attempts[id]]

Returned_Silently(w, failed) ==
    LET outer == Front(proc[w].frames)
        next == IF outer # <<>> THEN "leave"
                ELSE IF failed \/ w \in Goroutines THEN "idle" ELSE "left"
    IN  [pc |-> next, frames |-> outer, queue |-> proc[w].queue,
         failed |-> failed /\ next = "leave"]

\* A dispatch returns to the completion that started it, to the drain that
\* resumed it, or ends its goroutine.
Returned(w, failed) ==
    LET outer == Front(proc[w].frames)
        next == IF outer # <<>> THEN "leave"
                ELSE IF w \in Goroutines THEN "idle"
                ELSE IF failed THEN "abort" ELSE "left"
    IN  [pc |-> next, frames |-> outer, queue |-> proc[w].queue,
         failed |-> failed /\ next = "leave"]

-----------------------------------------------------------------------------
(* dispatchReady *)

\* The lookup and the registration are separate critical sections.
Check(w) ==
    /\ At(w, "check")
    /\ IF inflight[Current(w).task] # NoWorker
       THEN proc' = [proc EXCEPT ![w] = Returned(w, FALSE)]
       ELSE Goto(w, "alive")
    /\ UNCHANGED <<ledgerVars, memoryVars, countVars, started, deliveryVars>>

Alive(w) ==
    /\ At(w, "alive")
    /\ IF trace.killed
       THEN proc' = [proc EXCEPT ![w] = Returned(w, FALSE)]
       ELSE Goto(w, "register")
    /\ UNCHANGED <<ledgerVars, memoryVars, countVars, started, deliveryVars>>

Register(w) ==
    /\ At(w, "register")
    /\ inflight' = [inflight EXCEPT ![Current(w).task] = w]
    /\ Goto(w, "gate")
    /\ UNCHANGED <<ledgerVars, cancelled, claims, countVars, started,
                   deliveryVars>>

\* The reserve is read here and charged, or missed, in a later step.
Gate(w) ==
    /\ At(w, "gate")
    /\ Goto(w, IF CanConsume(trace, 1) THEN "charge" ELSE "defer")
    /\ UNCHANGED <<ledgerVars, memoryVars, countVars, started, deliveryVars>>

Fail(w) == proc' = [proc EXCEPT ![w] = [@ EXCEPT !.pc = "leave", !.failed = TRUE]]

\* A local apply is followed by a publish, which may fail.
Published(w, step) ==
    \/ Goto(w, step) /\ UNCHANGED faults
    \/ faults < MaxFaults /\ faults' = faults + 1 /\ Fail(w)

Charge(w) ==
    /\ At(w, "charge")
    /\ IF CanConsume(trace, 1)
       THEN trace' = ReduceEnergyConsume(trace, 1) /\ Published(w, "prepare")
       ELSE Fail(w) /\ UNCHANGED <<trace, faults>>
    /\ UNCHANGED <<origin, attempts, memoryVars, completions, crashes,
                   started, deliveryVars>>

Defer(w) ==
    LET f == Current(w)
    IN  /\ At(w, "defer")
        /\ trace' = DeferPendingDispatch(trace, DispatchKey(f.task), FALSE,
                                         trace.tasks[f.task].analysis)
        /\ origin' = IF Len(trace'.pending) > Len(trace.pending)
                     THEN Append(origin, f.source) ELSE origin
        /\ Goto(w, "observe")
        /\ UNCHANGED <<attempts, memoryVars, countVars, started, deliveryVars>>

ClaimedPause == IF CanClaimPause(trace) THEN ClaimEnergyPausePublished(trace)
                ELSE trace

Observe(w) ==
    /\ At(w, "observe")
    /\ trace' = ClaimedPause
    /\ IF CanClaimPause(trace) THEN Published(w, "leave")
       ELSE Goto(w, "leave") /\ UNCHANGED faults
    /\ UNCHANGED <<origin, attempts, memoryVars, completions, crashes,
                   started, deliveryVars>>

\* An open attempt goes on, a closed one is not reopened by its own source.
EnsureTaskAttempt(latest, source) ==
    IF latest.open \/ latest.source = source THEN latest
    ELSE [n |-> latest.n + 1, open |-> TRUE,
          source |-> source, last |-> NoSource]

\* The charge is kept when the attempt turns the dispatch away.
Prepare(w) ==
    LET f == Current(w)
        attempt == EnsureTaskAttempt(attempts[f.task], f.source)
    IN  /\ At(w, "prepare")
        /\ attempts' = [attempts EXCEPT ![f.task] = attempt]
        /\ proc' = [proc EXCEPT ![w] = [@ EXCEPT
              !.pc = IF attempt.open THEN "mark" ELSE "leave",
              !.frames = Append(Front(proc[w].frames),
                                [f EXCEPT !.attempt = attempt.n])]]
        /\ UNCHANGED <<trace, origin, memoryVars, countVars, started,
                       deliveryVars>>

IsDuplicate_Never(f) == FALSE
IsDuplicate(f) ==
    LET latest == attempts[f.task]
    IN  f.attempt # latest.n \/ ~latest.open \/ latest.last = f.source

Mark(w) ==
    LET f == Current(w)
    IN  /\ At(w, "mark")
        /\ IF IsDuplicate(f) THEN Goto(w, "leave") /\ UNCHANGED attempts
           ELSE /\ attempts' = [attempts EXCEPT ![f.task].last = f.source]
                /\ Goto(w, "start")
        /\ UNCHANGED <<trace, origin, memoryVars, countVars, started,
                       deliveryVars>>

\* setTaskStatus(running), which consumes the task's entries, and the adapter
\* starts; its context may be cancelled already.
Start(w) ==
    LET f == Current(w)
    IN  /\ At(w, "start")
        /\ trace' = ReduceTaskStatus(trace, f.task, "running", 1)
        /\ CloseAttempts({id \in {f.task} : Terminal(trace'.tasks[id].status)})
        /\ Published(w, "running")
        /\ started' = IF proc'[w].pc = "leave" THEN started ELSE Append(started, f)
        /\ UNCHANGED <<origin, memoryVars, completions, crashes, deliveryVars>>

\* A killed trail's run leaves no status behind, and a rejected check gate
\* keeps the one the dispatch had.
FinishSilently(w) ==
    /\ At(w, "running")
    /\ trace.killed \/ "gate_failed" \in Outcomes
    /\ Goto(w, "leave")
    /\ UNCHANGED <<ledgerVars, memoryVars, countVars, started, deliveryVars>>

FinishStatus(w, status) ==
    LET f == Current(w)
    IN  /\ At(w, "running") /\ ~trace.killed
        /\ status \in {"failed", "waiting_review"}
        /\ trace' = ReduceTaskStatus(trace, f.task, status, 1)
        /\ CloseAttempts({id \in {f.task} : Terminal(status)})
        /\ Published(w, "leave")
        /\ UNCHANGED <<origin, memoryVars, completions, crashes, started,
                       deliveryVars>>

Promoted(after) ==
    {id \in TaskIds : /\ after.tasks[id].status = "ready"
                      /\ trace.tasks[id].status # "ready"}

\* completeTask: the next eligible task is dispatched by this same goroutine,
\* inside the dispatch that completed.
FinishCompleted(w) ==
    LET f == Current(w)
        done == completions + 1
        Inner(id) == NewFrame(id, <<"completion", done>>)
    IN  /\ At(w, "running") /\ ~trace.killed
        /\ "completed" \in Outcomes
        /\ trace' = ReduceTaskCompleted(trace, f.task, "completed", 1)
        /\ CloseAttempts({f.task})
        /\ completions' = done
        /\ \/ faults < MaxFaults /\ faults' = faults + 1 /\ Fail(w)
           \/ /\ UNCHANGED faults
              /\ IF Promoted(trace') = {} THEN Goto(w, "leave")
                 ELSE \E id \in Promoted(trace') :
                    proc' = [proc EXCEPT ![w] = [@ EXCEPT !.pc = "check",
                                            !.frames = Append(proc[w].frames, Inner(id))]]
        /\ UNCHANGED <<origin, memoryVars, crashes, started, deliveryVars>>

\* endInflight removes the task's registration, whoever holds it.
Leave(w) ==
    LET f == Current(w)
    IN  /\ At(w, "leave")
        /\ inflight' = [inflight EXCEPT ![f.task] = NoWorker]
        /\ cancelled' = cancelled \ {<<w, f.task>>}
        /\ proc' = [proc EXCEPT ![w] = Returned(w, @.failed)]
        /\ UNCHANGED <<ledgerVars, claims, countVars, started, deliveryVars>>

Dispatch(w) ==
    \/ Check(w) \/ Alive(w) \/ Register(w) \/ Gate(w) \/ Charge(w)
    \/ Defer(w) \/ Observe(w) \/ Prepare(w) \/ Mark(w) \/ Start(w)
    \/ FinishSilently(w) \/ FinishCompleted(w)
    \/ \E status \in Outcomes : FinishStatus(w, status)
    \/ Leave(w)

-----------------------------------------------------------------------------
(* The drain of deferred work, in the handler of an energy.add or at startup *)

Item == [id: DispatchId, source: Source]

Announce(w) ==
    /\ At(w, "announce")
    /\ trace' = ClaimedPause
    /\ \/ Goto(w, "drain") /\ UNCHANGED faults
       \/ /\ CanClaimPause(trace) /\ faults < MaxFaults
          /\ faults' = faults + 1 /\ Goto(w, "abort")
    /\ UNCHANGED <<origin, attempts, memoryVars, completions, crashes,
                   started, deliveryVars>>

\* The active entries in the order they were deferred.
Captured ==
    [n \in 1..Cardinality(HoneyWaiting(trace)) |->
        LET i == CHOOSE i \in HoneyWaiting(trace) :
                    Cardinality({j \in HoneyWaiting(trace) : j <= i}) = n
        IN  [id |-> trace.pending[i].id, source |-> origin[i]]]

Drain(w) ==
    /\ At(w, "drain")
    /\ proc' = [proc EXCEPT ![w] = [@ EXCEPT
          !.pc = IF trace.killed \/ ~CanConsume(trace, 1) \/ Captured = <<>>
                 THEN "settle" ELSE "claim",
          !.queue = Captured]]
    /\ UNCHANGED <<ledgerVars, memoryVars, countVars, started, deliveryVars>>

CurrentItem(w) == Head(proc[w].queue)
Release(w) == claims' = {c \in claims : c[1] # w}

Claimed_Unchecked(id) == FALSE
Claimed(id) == \E c \in claims : c[2] = id

\* The claim is process-local and held until the resumed dispatch returns.
ClaimResume(w) ==
    /\ At(w, "claim")
    /\ IF proc[w].queue = <<>>
       THEN Goto(w, "settle") /\ UNCHANGED claims
       ELSE IF Claimed(CurrentItem(w).id)
       THEN Goto(w, "left") /\ UNCHANGED claims
       ELSE claims' = claims \cup {<<w, CurrentItem(w).id>>} /\ Goto(w, "recheck")
    /\ UNCHANGED <<ledgerVars, inflight, cancelled, countVars, started,
                   deliveryVars>>

\* findPendingDispatch stops at the oldest entry with the id, active or not.
StillActive(id) ==
    \E i \in WithId(trace, id) :
        Active(trace.pending[i]) /\ \A j \in WithId(trace, id) : i <= j

Recheck(w) ==
    LET item == CurrentItem(w)
        task == item.id.subject
    IN  /\ At(w, "recheck")
        /\ IF trace.killed \/ ~StillActive(item.id)
           THEN Goto(w, "left")
           ELSE IF trace.tasks[task].status # "ready"
           THEN Goto(w, "abandon")
           ELSE proc' = [proc EXCEPT ![w] = [@ EXCEPT !.pc = "check",
                    !.frames = <<NewFrame(task, item.source)>>]]
        /\ UNCHANGED <<ledgerVars, memoryVars, countVars, started,
                       deliveryVars>>

Abandon(w) ==
    /\ At(w, "abandon")
    /\ trace' = ResolvePendingDispatch(trace, CurrentItem(w).id, "abandoned")
    /\ Goto(w, "left")
    /\ UNCHANGED <<origin, attempts, memoryVars, countVars, started,
                   deliveryVars>>

\* One item is done; the drain ends with the reserve.
Left(w) ==
    /\ At(w, "left")
    /\ Release(w)
    /\ proc' = [proc EXCEPT ![w] = [@ EXCEPT
          !.pc = IF CanConsume(trace, 1) THEN "claim" ELSE "settle",
          !.queue = IF CanConsume(trace, 1) THEN Tail(proc[w].queue) ELSE <<>>]]
    /\ UNCHANGED <<ledgerVars, inflight, cancelled, countVars, started,
                   deliveryVars>>

NeedsSettling_Never(t) == FALSE
NeedsSettling(t) == ~t.killed /\ t.pause # "none" /\ CanConsume(t, 1)

Settle(w) ==
    /\ At(w, "settle")
    /\ Goto(w, IF NeedsSettling(trace) THEN "clear" ELSE "done")
    /\ UNCHANGED <<ledgerVars, memoryVars, countVars, started, deliveryVars>>

Clear(w) ==
    /\ At(w, "clear")
    /\ trace' = CloseEnergyPause(trace)
    /\ \/ Goto(w, "done") /\ UNCHANGED faults
       \/ /\ trace.pause # "none" /\ faults < MaxFaults
          /\ faults' = faults + 1 /\ Goto(w, "abort")
    /\ UNCHANGED <<origin, attempts, memoryVars, completions, crashes,
                   started, deliveryVars>>

\* An error ends the drain: the handler naks its event, the startup logs it.
Abort(w) ==
    /\ At(w, "abort")
    /\ Release(w)
    /\ proc' = [proc EXCEPT ![w] = Idle]
    /\ IF w = Handler THEN Nak ELSE UNCHANGED deliveryVars
    /\ UNCHANGED <<ledgerVars, inflight, cancelled, countVars, started>>

Done(w) ==
    /\ At(w, "done")
    /\ proc' = [proc EXCEPT ![w] = Idle]
    /\ IF w = Handler THEN Ack ELSE UNCHANGED deliveryVars
    /\ UNCHANGED <<ledgerVars, memoryVars, countVars, started>>

Resume(w) ==
    \/ Announce(w) \/ Drain(w) \/ ClaimResume(w) \/ Recheck(w) \/ Abandon(w)
    \/ Left(w) \/ Settle(w) \/ Clear(w) \/ Abort(w) \/ Done(w)

-----------------------------------------------------------------------------
(* The handler: one event at a time *)

Handles(e, kind) ==
    /\ up /\ proc[Handler].pc = "idle"
    /\ Deliver(e) /\ e.kind = kind

\* A task that became ready gets a goroutine; the handler does not wait.
HandleReady(e) ==
    LET kicked == <<NewFrame(e.task, <<"event", e.id>>)>>
    IN  /\ Handles(e, "task.ready")
        /\ trace' = ReduceTaskReady(trace, e.task, NoBee)
        /\ CloseAttempts({id \in {e.task} : Terminal(trace'.tasks[id].status)})
        /\ IF Promoted(trace') = {}
           THEN proc' = [proc EXCEPT ![Handler].pc = "done"]
           ELSE \E g \in Goroutines :
                  /\ proc[g] = Idle
                  /\ proc' = [proc EXCEPT ![Handler].pc = "done",
                        ![g] = [@ EXCEPT !.pc = "check", !.frames = kicked]]
        /\ UNCHANGED <<origin, memoryVars, countVars, started>>

HandleAdd(e) ==
    /\ Handles(e, "energy.add")
    /\ trace' = ReduceEnergyAdd(trace, TopUp)
    /\ Goto(Handler, "announce")
    /\ UNCHANGED <<origin, attempts, memoryVars, countVars, started>>

HandleStipend(e) ==
    /\ Handles(e, "energy.stipend")
    /\ trace' = ReduceEnergyStipend(trace, TopUp)
    /\ \/ Goto(Handler, "done") /\ UNCHANGED faults
       \/ /\ trace.pause # "none" /\ faults < MaxFaults
          /\ faults' = faults + 1 /\ Goto(Handler, "abort")
    /\ UNCHANGED <<origin, attempts, memoryVars, completions, crashes, started>>

HandleKill(e) ==
    /\ Handles(e, "system.kill")
    /\ trace' = ReduceSystemKill(trace)
    /\ Goto(Handler, "close")
    /\ UNCHANGED <<origin, attempts, memoryVars, countVars, started>>

CloseKilled ==
    /\ At(Handler, "close")
    /\ CloseAttempts(TaskIds)
    /\ Goto(Handler, "cancel")
    /\ UNCHANGED <<trace, origin, memoryVars, countVars, started,
                   deliveryVars>>

\* Only what is registered at this moment can be cancelled.
Registrations ==
    {<<inflight[id], id>> : id \in {t \in TaskIds : inflight[t] # NoWorker}}

CancelKilled ==
    /\ At(Handler, "cancel")
    /\ cancelled' = cancelled \cup Registrations
    /\ Goto(Handler, "done")
    /\ UNCHANGED <<ledgerVars, inflight, claims, countVars, started,
                   deliveryVars>>

Handle ==
    \/ \E e \in Events : \/ HandleReady(e) \/ HandleAdd(e)
                         \/ HandleStipend(e) \/ HandleKill(e)
    \/ CloseKilled \/ CancelKilled

-----------------------------------------------------------------------------
(* Outside the handler *)

\* A command publishes; while the reactor is down it applies honey itself.
Command(e) ==
    /\ Publish(e)
    /\ IF up THEN UNCHANGED trace
       ELSE /\ e.kind \in {"energy.add", "energy.stipend"}
            /\ trace' = IF e.kind = "energy.add" THEN ReduceEnergyAdd(trace, TopUp)
                        ELSE ReduceEnergyStipend(trace, TopUp)
    /\ UNCHANGED <<origin, attempts, memoryVars, proc, countVars, started>>

\* Only an adapter run inside the handler outlasts AckWait.
SlowAcknowledgement(e) ==
    /\ At(Handler, "running")
    /\ AckWaitExpires(e)
    /\ UNCHANGED dispatchVars

\* What the process remembers is gone; the ledger and the attempts are not.
Crash ==
    /\ up /\ crashes < MaxCrashes
    /\ crashes' = crashes + 1
    /\ ProcessDies
    /\ proc' = [w \in Workers |-> Idle]
    /\ inflight' = [id \in TaskIds |-> NoWorker]
    /\ cancelled' = {} /\ claims' = {}
    /\ UNCHANGED <<ledgerVars, completions, faults, started>>

Restart ==
    /\ ~up
    /\ ProcessStarts
    /\ Goto(Startup, "announce")
    /\ UNCHANGED <<ledgerVars, memoryVars, countVars, started>>

AtRest ==
    /\ up /\ hand = NoEvent /\ inbox = <<>>
    /\ \A w \in Workers : proc[w] = Idle

\* Nothing is left to do and no copy is on its way.
Quiescent == AtRest /\ ToSet(published) \subseteq acked

Finished ==
    /\ AtRest /\ ToSet(published) = Events
    /\ UNCHANGED vars

Next ==
    \/ \E w \in Workers : Dispatch(w) \/ Resume(w)
    \/ Handle
    \/ \E e \in Events : Command(e) \/ SlowAcknowledgement(e)
    \/ Crash \/ Restart
    \/ Finished

Spec == Init /\ [][Next]_vars

\* Threads are scheduled, an adapter run ends (its timeout bounds it), the
\* client calls the handler, and the operator starts the reactor again.
Fairness ==
    /\ \A w \in Workers : WF_vars(Dispatch(w) \/ Resume(w))
    /\ WF_vars(Handle)
    /\ WF_vars(Restart)

FairSpec == Spec /\ Fairness

-----------------------------------------------------------------------------
(* Properties *)

\* What each variable may hold, and honey never below zero (the reserve is
\* read at energy.go:67 and charged in another ledger operation).
TypeOK ==
    /\ DeliveryTypeOK
    /\ trace \in Trace
    /\ origin \in Seq(Source) /\ Len(origin) = Len(trace.pending)
    /\ \A w \in Workers :
          /\ proc[w].pc \in Step
          /\ proc[w].frames \in Seq(Frame) /\ proc[w].queue \in Seq(Item)
    /\ inflight \in [TaskIds -> Workers \cup {NoWorker}]
    /\ cancelled \subseteq Workers \X TaskIds
    /\ claims \subseteq Workers \X DispatchId

\* One task.ready starts at most one adapter run, also when a crash makes the
\* consumer deliver it again or a drain resumes it (attempts.go:302-304).
OneRunPerKick ==
    \A i, j \in 1..Len(started) :
        started[i].source = started[j].source /\ started[i].source[1] = "event" => i = j

\* The drain of an energy.add and the recovery after a start never dispatch
\* the same entry at the same time (pending_dispatch.go:248-250, 463-480).
ResumedOnce ==
    proc[Handler].frames # <<>> /\ proc[Startup].frames # <<>> =>
        CurrentItem(Handler).id # CurrentItem(Startup).id

\* When nothing is left to do, no pause episode is open over honey that could
\* admit work (settlePauseAfterIncrease, energy_pause.go:68-82).
NoStalePause ==
    Quiescent /\ ~trace.killed /\ trace.pause # "none" => trace.remaining = 0

\* Every published event is acknowledged in the end: the handler returns from
\* every drain, and a failed or lost handling is delivered again
\* (subscriber.go:32-50).
EveryEventIsAnswered ==
    \A e \in Events : (e \in ToSet(published)) ~> (e \in acked)

=============================================================================
