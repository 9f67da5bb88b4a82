--------------------------- MODULE ConfigBarrier ---------------------------
(***************************************************************************)
(* The configuration barrier of one trail: the reactor's event loop, the   *)
(* goroutines it starts for ready tasks and direct reactions, the boundary *)
(* check that ends each of them, and the operator's apply and cancel, in   *)
(* another process.  They share files: the manifest, the attempts, the     *)
(* task projection and the run records.  Only some of their steps hold     *)
(* the binding lock.                                                       *)
(*                                                                         *)
(* Honey is left out (HoneyDispatch); a task's bee is known to every       *)
(* snapshot.                                                               *)
(***************************************************************************)
EXTENDS TrailConfig, FiniteSets

CONSTANTS
    Reactor, Cli,       \* the event loop; the operator's process
    NoOwner,            \* the lock is free
    NoRequest,          \* the operator is not calling
    FirstRef,           \* what the trail captured
    MaxApplies,         \* bound on apply calls
    MaxRetries,         \* bound on retries per task
    MaxCrashes          \* bound on reactor crashes

ASSUME BarrierAssumption ==
    /\ FirstRef \in Refs
    /\ Reactor \notin Works /\ Cli \notin Works \cup {Reactor}
    /\ NoOwner \notin Works \cup {Reactor, Cli} /\ NoRequest \notin RequestIds
    /\ MaxApplies \in Nat /\ MaxRetries \in Nat /\ MaxCrashes \in Nat

Boundaries == Works \cup {Reactor}      \* who runs boundary checks
Owners == Boundaries \cup {Cli}

\* What a dispatch reacts to: the nth event that readied a task, a direct
\* event, the recovery's or an activation's pass over the ready tasks.
NoSource == <<"none", 0>>
Source == {NoSource} \cup ({"event"} \X Nat) \cup ({"activate"} \X Refs)

VARIABLES
    manifest, attempts,     \* the binding and its attempts
    status,                 \* per task, its status
    run,                    \* per work, its latest run's record
    held,                   \* chains deferred by the barrier
    readied,                \* per task, how often an event readied it
    killed,                 \* the trail was killed
    lock,                   \* who holds the binding lock
    loop,                   \* the event loop
    work,                   \* per work, its dispatch
    bound,                  \* per boundary check, where it is
    cli,                    \* the operator's call
    applies, crashes

durable == <<manifest, attempts, status, run, held, readied, killed>>
vars == <<durable, lock, loop, work, bound, cli, applies, crashes>>

TaskStatus == {"planned", "ready", "running", "waiting_review", "completed",
               "failed", "cancelled"}
Terminal == {"completed", "failed", "cancelled"}
Idle == [pc |-> "idle", ref |-> FirstRef, revision |-> 0, source |-> NoSource,
         attempt |-> 0]
IdleCli == [pc |-> "idle", busy |-> FALSE, seen |-> {},
            request |-> [id |-> NoRequest, source |-> "colony", ref |-> FirstRef,
                         expected |-> 0]]
IdleLoop == [pc |-> "idle", ref |-> FirstRef, ready |-> {}, direct |-> {}]
\* sweep: an activation passes over the ready tasks.
IdleBound == [pc |-> "idle", sweep |-> FALSE, busy |-> FALSE, seen |-> {}]
Check(sweep) == [IdleBound EXCEPT !.pc = "load", !.sweep = sweep]

Init ==
    /\ manifest = CaptureInitial(FirstRef) /\ attempts = <<>>
    /\ status = [t \in Tasks |-> "planned"]
    /\ run = [w \in Works |-> "none"]
    /\ held = {} /\ readied = [t \in Tasks |-> 0]
    /\ killed = FALSE
    /\ lock = NoOwner
    /\ loop = IdleLoop
    /\ work = [w \in Works |-> Idle]
    /\ bound = [p \in Boundaries |-> IdleBound]
    /\ cli = IdleCli
    /\ applies = 0 /\ crashes = 0

TasksBusy == \E t \in Tasks : TaskBlocks(status[t])
LiveRuns == {w \in Works : RunBlocks(run[w])}
ReadyTasks == {t \in Tasks : status[t] = "ready"}

\* A dispatch of w under the active configuration; one already registered
\* for w answers instead.
Started(which, source) ==
    [w \in Works |-> IF w \notin which \/ work[w].pc # "idle" THEN work[w]
                     ELSE [pc |-> "gate", ref |-> manifest'.active,
                           revision |-> manifest'.revision, source |-> source[w],
                           attempt |-> 0]]
EventSource == [w \in Works |-> IF w \in Tasks THEN <<"event", readied[w]>>
                                ELSE <<"event", 0>>]
ActivateSource == [w \in Works |-> IF w \in Tasks THEN <<"activate", manifest'.active>>
                                   ELSE <<"event", 0>>]

(***************************************************************************)
(* The event loop                                                          *)
(***************************************************************************)
\* An event is applied, then it is a boundary, then its work is dispatched.
Handle(ready, direct) ==
    /\ loop.pc = "idle" /\ bound[Reactor].pc = "idle" /\ ~ killed
    /\ loop' = [pc |-> "dispatch", ref |-> manifest.active, ready |-> ready,
                direct |-> direct]
    /\ bound' = [bound EXCEPT ![Reactor] = Check(FALSE)]

\* A kick of a planned task, a retry of a failed one, an approval.
ReadyEvent(t) ==
    /\ Handle({t}, {})
    /\ status[t] \in {"planned", "failed"} /\ readied[t] <= MaxRetries
    /\ status' = [status EXCEPT ![t] = "ready"]
    /\ readied' = [readied EXCEPT ![t] = @ + 1]
    /\ UNCHANGED <<manifest, attempts, run, held, killed, lock, work, cli,
                   applies, crashes>>

ApproveEvent(t) ==
    /\ Handle({}, {})
    /\ status[t] = "waiting_review"
    /\ status' = [status EXCEPT ![t] = "completed"]
    /\ attempts' = CloseAttempts(attempts, {Latest(attempts, t)})
    /\ UNCHANGED <<manifest, run, held, readied, killed, lock, work, cli,
                   applies, crashes>>

DirectEvent(c) ==
    /\ Handle({}, {c})
    /\ Latest(attempts, c) = 0 /\ c \notin held
    /\ UNCHANGED <<durable, lock, work, cli, applies, crashes>>

KillEvent ==
    /\ loop.pc = "idle" /\ ~ killed
    /\ killed' = TRUE
    /\ status' = [t \in Tasks |-> IF status[t] \in Terminal THEN status[t]
                                  ELSE "cancelled"]
    /\ attempts' = CloseAttempts(attempts, DOMAIN attempts)
    /\ loop' = [pc |-> "cancel", ref |-> manifest.active, ready |-> {}, direct |-> {}]
    /\ UNCHANGED <<manifest, run, held, readied, lock, work, bound,
                   cli, applies, crashes>>

CancelAtKill ==
    /\ loop.pc = "cancel" /\ lock = NoOwner /\ bound[Reactor].pc = "idle"
    /\ manifest' = CancelPending(manifest)
    /\ loop' = [loop EXCEPT !.pc = "dispatch"]
    /\ bound' = [bound EXCEPT ![Reactor] = Check(FALSE)]
    /\ UNCHANGED <<attempts, status, run, held, readied, killed, lock,
                   work, cli, applies, crashes>>

\* The context is read again; a configuration that moved brings every ready
\* task with it.
LoopDispatch ==
    /\ loop.pc = "dispatch" /\ bound[Reactor].pc = "idle"
    /\ LET ready == IF loop.ref = manifest.active THEN loop.ready ELSE ReadyTasks
       IN  /\ UNCHANGED durable
           /\ work' = IF killed THEN work
                      ELSE Started(ready \cup loop.direct, EventSource)
    /\ loop' = IdleLoop
    /\ UNCHANGED <<lock, bound, cli, applies, crashes>>

(***************************************************************************)
(* A dispatch                                                              *)
(***************************************************************************)
\* A dispatch that ends leaves its boundary check behind.
Leave(w) ==
    /\ bound[w].pc = "idle"
    /\ bound' = [bound EXCEPT ![w] = Check(TRUE)]
    /\ work' = [work EXCEPT ![w] = Idle]
Proceed(w, pc) ==
    work' = [work EXCEPT ![w].pc = pc] /\ UNCHANGED bound

AdmissionHeld(w) ==
    /\ manifest.pending # NoChange
    /\ IF w \in Tasks THEN ~ HasOpen(attempts, w) ELSE Latest(attempts, w) = 0

Gate(w) ==
    /\ work[w].pc = "gate"
    /\ IF killed \/ AdmissionHeld(w) THEN Leave(w) ELSE Proceed(w, "admit")
    /\ held' = IF w \in Chains /\ ~ killed /\ AdmissionHeld(w)
               THEN held \cup {w} ELSE held
    /\ UNCHANGED <<manifest, attempts, status, run, readied, killed,
                   lock, loop, cli, applies, crashes>>

\* Under the binding lock.
Admission(w) ==
    /\ work[w].pc = "admit" /\ lock = NoOwner
    /\ LET d == work[w]
           as == Admit(manifest, attempts, w, d.ref, d.revision, d.source, NoSource)
           i == Latest(as, w)
       IN  /\ attempts' = as
           /\ IF Blocked(manifest, attempts, w, d.source) \/ ~ as[i].open
              THEN Leave(w)
              ELSE /\ work' = [work EXCEPT ![w].pc = "mark", ![w].attempt = i]
                   /\ UNCHANGED bound
    /\ UNCHANGED <<manifest, status, run, held, readied, killed, lock,
                   loop, cli, applies, crashes>>

Mark(w) ==
    /\ work[w].pc = "mark"
    /\ LET i == work[w].attempt
       IN  IF IsDuplicate(attempts, i, work[w].source)
           THEN Leave(w) /\ UNCHANGED attempts
           ELSE /\ attempts' = MarkDispatched(attempts, i, work[w].source)
                /\ Proceed(w, IF w \in Tasks THEN "status" ELSE "launch")
    /\ UNCHANGED <<manifest, status, run, held, readied, killed, lock,
                   loop, cli, applies, crashes>>

SetRunning(w) ==
    /\ work[w].pc = "status"
    /\ status' = IF killed THEN status ELSE [status EXCEPT ![w] = "running"]
    /\ Proceed(w, "launch")
    /\ UNCHANGED <<manifest, attempts, run, held, readied, killed,
                   lock, loop, cli, applies, crashes>>

\* The run's record appears; a killed trail does not launch.
Launch(w) ==
    /\ work[w].pc = "launch"
    /\ IF killed THEN Leave(w) /\ UNCHANGED run
       ELSE run' = [run EXCEPT ![w] = "live"] /\ Proceed(w, "running")
    /\ UNCHANGED <<manifest, attempts, status, held, readied, killed,
                   lock, loop, cli, applies, crashes>>

\* A task's run completes it, fails it or leaves it for review; its attempt
\* closes with it.  A chain's attempt stays open.
Finish(w) ==
    /\ work[w].pc = "running"
    /\ run' = [run EXCEPT ![w] = "done"]
    /\ IF w \in Tasks /\ ~ killed
       THEN \E s \in {"completed", "failed", "waiting_review"} :
                /\ status' = [status EXCEPT ![w] = s]
                /\ attempts' = CloseAttempts(attempts,
                                   IF s \in Terminal THEN {Latest(attempts, w)} ELSE {})
       ELSE UNCHANGED <<status, attempts>>
    /\ held' = held \ {w}
    /\ Leave(w)
    /\ UNCHANGED <<manifest, readied, killed, lock, loop, cli,
                   applies, crashes>>

(***************************************************************************)
(* The boundary check                                                      *)
(***************************************************************************)
Done(p) == bound' = [bound EXCEPT ![p] = IdleBound]
\* What the barrier held runs again under the configuration now active.
Resume(which) == work' = Started(which, ActivateSource)

\* Reads the manifest without the lock.
LoadPending(p) ==
    /\ bound[p].pc = "load"
    /\ UNCHANGED durable
    /\ IF manifest.pending = NoChange
       THEN Done(p) /\ Resume(IF killed THEN {} ELSE held)
       ELSE /\ bound' = [bound EXCEPT ![p].pc = IF killed THEN "cancel" ELSE "lock"]
            /\ UNCHANGED work
    /\ UNCHANGED <<lock, loop, cli, applies, crashes>>

CancelKilled(p) ==
    /\ bound[p].pc = "cancel" /\ lock = NoOwner
    /\ manifest' = CancelPending(manifest)
    /\ Done(p)
    /\ UNCHANGED <<attempts, status, run, held, readied, killed, lock,
                   loop, work, cli, applies, crashes>>

LockBinding(p) ==
    /\ bound[p].pc = "lock" /\ lock = NoOwner
    /\ IF manifest.pending = NoChange
       THEN Done(p) /\ UNCHANGED lock
       ELSE /\ lock' = p
            /\ bound' = [bound EXCEPT ![p].pc = "write", ![p].busy = TasksBusy,
                                      ![p].seen = LiveRuns]
    /\ UNCHANGED <<durable, loop, work, cli, applies, crashes>>

WriteBinding(p) ==
    /\ bound[p].pc = "write"
    /\ \E valid \in BOOLEAN :
           manifest' = TryActivate(manifest,
                           Blockers(attempts, run, bound[p].busy), valid)
    /\ lock' = NoOwner
    /\ Done(p)
    /\ IF manifest'.revision = manifest.revision THEN UNCHANGED work
       ELSE Resume(IF killed THEN {} ELSE held \cup (IF bound[p].sweep THEN ReadyTasks ELSE {}))
    /\ UNCHANGED <<attempts, status, run, held, readied, killed, loop,
                   cli, applies, crashes>>

(***************************************************************************)
(* The operator                                                            *)
(***************************************************************************)
CliIdle == cli' = IdleCli

\* The expected revision is the one the operator's process read; the rest of
\* the request does not matter before the binding is locked.
RequestApply ==
    /\ cli.pc = "idle" /\ applies < MaxApplies
    /\ cli' = [cli EXCEPT !.pc = "alive", !.request.expected = manifest.revision]
    /\ applies' = applies + 1
    /\ UNCHANGED <<durable, lock, loop, work, bound, crashes>>

RefuseKilled ==
    /\ cli.pc = "alive"
    /\ IF killed THEN CliIdle ELSE cli' = [cli EXCEPT !.pc = "lock"]
    /\ UNCHANGED <<durable, lock, loop, work, bound, applies, crashes>>

LockApply(id, source, ref) ==
    /\ cli.pc = "lock" /\ lock = NoOwner
    /\ LET req == [id |-> id, source |-> source, ref |-> ref,
                   expected |-> cli.request.expected]
       IN  IF Refuses(manifest, req) \/ Rejects(manifest, req)
           THEN /\ manifest' = IF Refuses(manifest, req) THEN manifest
                               ELSE RecordRejection(manifest, req)
                /\ CliIdle /\ UNCHANGED lock
           ELSE /\ lock' = Cli
                /\ cli' = [pc |-> "write", request |-> req, busy |-> TasksBusy,
                           seen |-> LiveRuns]
                /\ UNCHANGED manifest
    /\ UNCHANGED <<attempts, status, run, held, readied, killed, loop,
                   work, bound, applies, crashes>>

\* A candidate that does not validate leaves nothing behind.
WriteApply ==
    /\ cli.pc = "write"
    /\ \/ UNCHANGED manifest
       \/ manifest' = Apply(manifest, cli.request, Blockers(attempts, run, cli.busy))
    /\ lock' = NoOwner
    /\ CliIdle
    /\ UNCHANGED <<attempts, status, run, held, readied, killed, loop,
                   work, bound, applies, crashes>>

CancelApply ==
    /\ cli.pc = "idle" /\ lock = NoOwner
    /\ manifest.pending # NoChange
    /\ manifest' = CancelPending(manifest)
    /\ UNCHANGED <<attempts, status, run, held, readied, killed, lock,
                   loop, work, bound, cli, applies, crashes>>

(***************************************************************************)
(* The reactor dies and starts again                                       *)
(***************************************************************************)
\* Its runs keep their last record; the lock of a dead owner is taken over.
\* On the way up the boundary check runs before any event.
Crash ==
    /\ crashes < MaxCrashes /\ crashes' = crashes + 1
    /\ loop' = IdleLoop
    /\ work' = [w \in Works |-> Idle]
    /\ bound' = [p \in Boundaries |->
                    IF p = Reactor THEN Check(TRUE) ELSE IdleBound]
    /\ lock' = IF lock = Cli THEN Cli ELSE NoOwner
    /\ UNCHANGED <<durable, cli, applies>>

LoopStep ==
    \/ \E t \in Tasks : ReadyEvent(t) \/ ApproveEvent(t)
    \/ \E c \in Chains : DirectEvent(c)
    \/ KillEvent \/ CancelAtKill \/ LoopDispatch
Dispatch(w) ==
    \/ Gate(w) \/ Admission(w) \/ Mark(w) \/ SetRunning(w)
    \/ Launch(w) \/ Finish(w)
Boundary(p) == LoadPending(p) \/ CancelKilled(p) \/ LockBinding(p) \/ WriteBinding(p)
Operator ==
    \/ RequestApply \/ RefuseKilled \/ WriteApply \/ CancelApply
    \/ \E id \in RequestIds, s \in SourceKind, ref \in Refs : LockApply(id, s, ref)

Next ==
    \/ LoopStep \/ Operator \/ Crash
    \/ \E w \in Works : Dispatch(w)
    \/ \E p \in Boundaries : Boundary(p)

Spec == Init /\ [][Next]_vars

-----------------------------------------------------------------------------
\* The manifest, the attempts and the processes have their types.
TypeOK ==
    /\ manifest \in Manifest /\ attempts \in Seq(Attempt(Source))
    /\ status \in [Tasks -> TaskStatus] /\ run \in [Works -> {"none", "live", "done"}]
    /\ held \subseteq Chains /\ readied \in [Tasks -> Nat]
    /\ killed \in BOOLEAN
    /\ lock \in Owners \cup {NoOwner}
    /\ loop.pc \in {"idle", "cancel", "dispatch"}
    /\ work \in [Works -> [pc: {"idle", "gate", "admit", "mark", "status",
                               "launch", "running"},
                          ref: Refs, revision: Nat, source: Source, attempt: Nat]]
    /\ bound \in [Boundaries -> [pc: {"idle", "load", "cancel", "lock", "write"},
                                 sweep: BOOLEAN, busy: BOOLEAN, seen: SUBSET Works]]
    /\ cli.pc \in {"idle", "alive", "lock", "write"}
    /\ applies \in 0..MaxApplies /\ crashes \in 0..MaxCrashes

\* However often an apply request is delivered, the manifest records it once:
\* the answer to a repeat is the record, pending or settled.
AppliedOnce ==
    LET h == manifest.history
    IN  \A i, j \in DOMAIN h : h[i].id = h[j].id => i = j

\* No attempt is admitted while a change is pending, although a dispatch
\* passed the earlier check, which holds no lock, before the change came.
BarrierHolds ==
    [][Len(attempts') > Len(attempts) => manifest.pending = NoChange]_vars

=============================================================================
