----------------------------- MODULE TrailFork -----------------------------
(***************************************************************************)
(* Fork requests and the trails they create (internal/trailfork): the      *)
(* durable request record, its decisions under the request's lock, the     *)
(* creation of a fork one durable write at a time, its recovery when the   *)
(* reactor starts, the drop that takes no request lock, and the reactor    *)
(* that admits the fork's first task.                                      *)
(*                                                                         *)
(* One source trail.  The configuration delta, titles and budgets are part *)
(* of a request's contents; of the ledger only the initial task is kept.   *)
(***************************************************************************)
EXTENDS Naturals, FiniteSets, FiniteSetsExt, Functions

CONSTANTS
    RequestIds,     \* identities of fork requests
    Operators,      \* operator processes: commands, the console
    Reactor,        \* the reactor's recovery at start
    NoRequest, NoFork, Free,
    Quota,          \* undecided requests a colony retains
    MaxForks,       \* bound on minted trails
    MaxCalls,       \* bound on calls, all operations together
    MaxCrashes      \* bound on crashes of any process

ASSUME ForkAssumption ==
    /\ Quota \in Nat \ {0} /\ MaxForks \in Nat \ {0}
    /\ MaxCalls \in Nat /\ MaxCrashes \in Nat
    /\ Reactor \notin Operators /\ Free \notin Operators \cup {Reactor}
    /\ NoFork \notin 1..MaxForks

Procs == Operators \cup {Reactor}
Forks == 1..MaxForks
Origin == {"agent", "cli"}
Undecided == {"pending", "creating"}
Closed == {"refused", "rejected", "expired", "cancelled"}
\* What a request asks for: its origin and the source run it names; 0: none.
Content == [origin: Origin, run: Nat]
\* attempt: the source attempt its evidence names; failed: a recorded error.
Request == [state: Undecided \cup Closed \cup {"approved"}, content: Content,
            attempt: Nat, fork: Forks \cup {NoFork}, failed: BOOLEAN]
ASSUME NoRequestAssumption == NoRequest \notin Request

Signals == {"plan", "ready", "kill"}
Resource == {"origin", "binding", "worktree", "attempt"}
TaskStatus == {"absent", "planned", "ready", "running", "completed", "failed",
               "cancelled"}
\* The trail of a fork: its files, its lineage, its part of the ledger and
\* the stream.  policy: the binding the reactor would run it under.
Fork == [request: RequestIds \cup {NoRequest}, files: SUBSET Resource,
         policy: {"none", "pinned", "editable"}, attempt: Nat,
         lineage: {"none", "creating", "runnable", "dropped"},
         seeded: BOOLEAN, killed: BOOLEAN, task: TaskStatus, parked: BOOLEAN,
         inbox: [Signals -> Nat],
         published: SUBSET {"plan", "ready"}]
NewFork == [request |-> NoRequest, files |-> {}, policy |-> "none", attempt |-> 0,
            lineage |-> "none", seeded |-> FALSE, killed |-> FALSE,
            task |-> "absent", parked |-> FALSE, inbox |-> [k \in Signals |-> 0],
            published |-> {}]

VARIABLES
    source,         \* the source trail's attempts, and whether it is readable
    requests,       \* the request records
    lock,           \* per request, who decides it
    forks,          \* the trails minted so far
    proc,           \* the processes
    todo,           \* requests the recovery has yet to resume
    up,             \* the reactor runs
    calls, crashes

bounds == <<calls, crashes>>
vars == <<source, requests, lock, forks, proc, todo, up, bounds>>

\* seen: the lineage loaded under the lock; plan: task.plan is still missing.
Idle == [pc |-> "idle", op |-> "none", id |-> NoRequest,
         content |-> [origin |-> "cli", run |-> 0], attempt |-> 0,
         seen |-> "none", plan |-> TRUE]

Init ==
    /\ source = [attempts |-> 1, readable |-> TRUE]
    /\ requests = [id \in RequestIds |-> NoRequest]
    /\ lock = [id \in RequestIds |-> Free]
    /\ forks = [f \in Forks |-> NewFork]
    /\ proc = [p \in Procs |-> Idle]
    /\ todo = {} /\ up = TRUE /\ calls = 0 /\ crashes = 0

Recorded(id) == requests[id] # NoRequest
Minted == {f \in Forks : forks[f].request # NoRequest}
\* A trail identity that was never used.
FreshFork == IF Forks \subseteq Minted THEN {} ELSE {Min(Forks \ Minted)}
ForkOf(p) == requests[proc[p].id].fork

\* A fork with another event on its way, and one that was stopped: a second kill
\* changes nothing.
Put(f, g) == forks' = [forks EXCEPT ![f] = g]
Sent(g, k) == [g EXCEPT !.inbox[k] = @ + 1]
Killed(g) ==
    IF g.killed THEN g
    ELSE [g EXCEPT !.killed = TRUE, !.parked = FALSE,
                   !.task = IF @ \in {"planned", "ready", "running"} THEN "cancelled" ELSE @]

(***************************************************************************)
(* The source's evidence                                                   *)
(***************************************************************************)
\* A decision names its attempt; a new request names a run, or the source has
\* one attempt only.
SelectAttempt(run, pinned) ==
    CASE pinned # 0 -> {pinned} \cap 1..source.attempts
      [] pinned = 0 /\ run # 0 -> {run} \cap 1..source.attempts
      [] pinned = 0 /\ run = 0 /\ source.attempts = 1 -> {1}
      [] OTHER -> {}
Resolve(run, pinned) == IF source.readable THEN SelectAttempt(run, pinned) ELSE {}

SourceRetry ==
    /\ source.attempts < 2
    /\ source' = [source EXCEPT !.attempts = @ + 1]
    /\ UNCHANGED <<requests, lock, forks, proc, todo, up, bounds>>
SourceLost ==
    /\ source.readable
    /\ source' = [source EXCEPT !.readable = FALSE]
    /\ UNCHANGED <<requests, lock, forks, proc, todo, up, bounds>>

(***************************************************************************)
(* A new request                                                           *)
(***************************************************************************)
Goto(p, pc) == proc' = [proc EXCEPT ![p].pc = pc]
\* The recovery goes on with the next request.
Return(p) == proc' = [proc EXCEPT ![p] =
                IF p = Reactor /\ todo # {} THEN [Idle EXCEPT !.pc = "recover"] ELSE Idle]

\* The evidence is resolved before any lock is taken; a repeat of a direct
\* creation finds its record first.
Submit(p, id, content) ==
    /\ proc[p].pc = "idle" /\ calls < MaxCalls
    /\ content.origin = "agent" => up
    /\ \E a \in IF content.origin = "cli" /\ Recorded(id) THEN {0}
                ELSE Resolve(content.run, 0) :
           proc' = [proc EXCEPT ![p] = [Idle EXCEPT !.pc = "record", !.id = id,
                        !.op = content.origin, !.content = content, !.attempt = a]]
    /\ calls' = calls + 1
    /\ UNCHANGED <<source, requests, lock, forks, todo, up, crashes>>

Pending == {id \in RequestIds : Recorded(id) /\ requests[id].state = "pending"}
UnderQuota == Cardinality(Pending) < Quota

\* Under the colony's request lock.
RecordAgent(p) ==
    /\ proc[p].pc = "record" /\ proc[p].op = "agent"
    /\ requests' = IF Recorded(proc[p].id) \/ ~ UnderQuota THEN requests
                   ELSE [requests EXCEPT ![proc[p].id] =
                            [state |-> "pending", content |-> proc[p].content,
                             attempt |-> proc[p].attempt, fork |-> NoFork,
                             failed |-> FALSE]]
    /\ Return(p)
    /\ UNCHANGED <<source, lock, forks, todo, up, bounds>>

Mint(f, id) == forks' = [forks EXCEPT ![f].request = id]

\* A direct creation is decided with its submission: its identities are minted
\* with the record.  A recorded identity with other contents is refused.
RecordDirect(p) ==
    /\ proc[p].pc = "record" /\ proc[p].op = "cli"
    /\ LET id == proc[p].id
       IN  IF Recorded(id)
           THEN /\ UNCHANGED <<requests, forks>>
                /\ IF /\ requests[id].content = proc[p].content
                      /\ requests[id].state # "pending"
                   THEN Goto(p, "decide") ELSE Return(p)
           ELSE \E f \in FreshFork :
                  /\ Mint(f, id)
                  /\ requests' = [requests EXCEPT ![id] =
                        [state |-> "creating", content |-> proc[p].content,
                         attempt |-> proc[p].attempt, fork |-> f, failed |-> FALSE]]
                  /\ Goto(p, "decide")
    /\ UNCHANGED <<source, lock, todo, up, bounds>>

\* An undecided request of an agent runs out of time.
Expire(id) ==
    /\ Recorded(id) /\ requests[id].state = "pending" /\ lock[id] = Free
    /\ requests' = [requests EXCEPT ![id].state = "expired"]
    /\ UNCHANGED <<source, lock, forks, proc, todo, up, bounds>>

(***************************************************************************)
(* A decision, under the lock of its request                               *)
(***************************************************************************)
Call(p, op, id) ==
    /\ proc[p].pc = "idle" /\ calls < MaxCalls
    /\ Recorded(id)
    /\ proc' = [proc EXCEPT ![p] = [Idle EXCEPT !.pc = "decide", !.op = op, !.id = id]]
    /\ calls' = calls + 1
    /\ UNCHANGED <<source, requests, lock, forks, todo, up, crashes>>

Approves(p) == proc[p].op \in {"approve", "cli"}
Take(id, p) == lock' = [lock EXCEPT ![id] = p]

\* A decided request answers with its record.
AnswerDecided(p) ==
    LET id == proc[p].id
    IN  /\ proc[p].pc = "decide" /\ lock[id] = Free
        /\ requests[id].state \notin Undecided
        /\ Return(p)
        /\ UNCHANGED <<source, requests, lock, forks, todo, up, bounds>>

\* A creation that wrote its lineage is finished from that record; any other
\* approval resolves the recorded evidence again.
ResumeCreation(p) ==
    LET id == proc[p].id
        rq == requests[id]
    IN  /\ proc[p].pc = "decide" /\ Approves(p) /\ lock[id] = Free
        /\ rq.state = "creating" /\ forks[rq.fork].lineage # "none"
        /\ Take(id, p)
        /\ proc' = [proc EXCEPT ![p].pc = "inspect", ![p].seen = forks[rq.fork].lineage]
        /\ UNCHANGED <<source, requests, forks, todo, up, bounds>>

Unstarted(rq) ==
    \/ rq.state = "pending"
    \/ rq.state = "creating" /\ forks[rq.fork].lineage = "none"

Refuse(p) ==
    LET id == proc[p].id
    IN  /\ proc[p].pc = "decide" /\ Approves(p) /\ lock[id] = Free
        /\ Unstarted(requests[id])
        /\ Resolve(requests[id].content.run, requests[id].attempt) = {}
        /\ requests' = [requests EXCEPT ![id].state = "refused"]
        /\ Return(p)
        /\ UNCHANGED <<source, lock, forks, todo, up, bounds>>

\* The identities of a creation that started before are kept.
ForkFor_Minted(rq) == FreshFork
ForkFor(rq) == IF rq.fork = NoFork THEN FreshFork ELSE {rq.fork}

StartCreation(p) ==
    LET id == proc[p].id
        rq == requests[id]
    IN  /\ proc[p].pc = "decide" /\ Approves(p) /\ lock[id] = Free
        /\ Unstarted(rq)
        /\ Resolve(rq.content.run, rq.attempt) = {rq.attempt}
        /\ Take(id, p)
        /\ \E f \in ForkFor(rq) :
              /\ Mint(f, id)
              /\ requests' = [requests EXCEPT ![id].state = "creating", ![id].fork = f]
        /\ proc' = [proc EXCEPT ![p].pc = "origin", ![p].seen = "creating",
                                ![p].plan = TRUE, ![p].attempt = rq.attempt]
        /\ UNCHANGED <<source, todo, up, bounds>>

CloseUndecided(p) ==
    LET id == proc[p].id
    IN  /\ proc[p].pc = "decide" /\ proc[p].op \in {"rejected", "cancelled"}
        /\ lock[id] = Free /\ requests[id].state = "pending"
        /\ requests' = [requests EXCEPT ![id].state = proc[p].op]
        /\ Return(p)
        /\ UNCHANGED <<source, lock, forks, todo, up, bounds>>

\* An interrupted creation loses its worktree, its branch and its records; the
\* ledger and the stream keep what was published.
Discard(p) ==
    LET id == proc[p].id
    IN  /\ proc[p].pc = "decide" /\ proc[p].op \in {"rejected", "cancelled"}
        /\ lock[id] = Free /\ requests[id].state = "creating"
        /\ Take(id, p)
        /\ forks' = [forks EXCEPT ![requests[id].fork] =
                        [@ EXCEPT !.files = {}, !.policy = "none", !.lineage = "none"]]
        /\ Goto(p, "close")
        /\ UNCHANGED <<source, requests, todo, up, bounds>>

Leave(p) == lock' = [lock EXCEPT ![proc[p].id] = Free] /\ Return(p)

CloseCreating(p) ==
    /\ proc[p].pc = "close"
    /\ requests' = [requests EXCEPT ![proc[p].id].state = proc[p].op]
    /\ Leave(p)
    /\ UNCHANGED <<source, forks, todo, up, bounds>>

(***************************************************************************)
(* The creation, one durable write at a time                               *)
(***************************************************************************)
\* The trail's origin, its pinned binding, its worktree, the record of its
\* task and attempt: each is kept when it is already there.
Steps == [origin |-> "binding", binding |-> "worktree", worktree |-> "attempt",
          attempt |-> "lineage"]
Bindable(f) == forks[f].policy # "editable"
Materialise(p) ==
    /\ proc[p].pc \in DOMAIN Steps
    /\ LET r == proc[p].pc
       IN  /\ r = "binding" => Bindable(ForkOf(p))
           /\ Put(ForkOf(p), [forks[ForkOf(p)] EXCEPT
                 !.files = @ \cup {r},
                 !.policy = IF r = "binding" /\ @ = "none" THEN "pinned" ELSE @,
                 !.attempt = IF r = "binding" THEN proc[p].attempt ELSE @])
           /\ Goto(p, Steps[r])
    /\ UNCHANGED <<source, requests, lock, todo, up, bounds>>

\* The lineage comes before anything that can be routed.
\* A plausible fault: the lineage is runnable from the start.
WriteLineage_Runnable(p) ==
    /\ proc[p].pc = "lineage"
    /\ forks' = [forks EXCEPT ![ForkOf(p)].lineage = "runnable"]
    /\ Goto(p, "seed")
    /\ UNCHANGED <<source, requests, lock, todo, up, bounds>>
WriteLineage(p) ==
    /\ proc[p].pc = "lineage"
    /\ forks' = [forks EXCEPT ![ForkOf(p)].lineage = "creating"]
    /\ Goto(p, "seed")
    /\ UNCHANGED <<source, requests, lock, todo, up, bounds>>

\* A resumed creation publishes what the ledger does not show.
Inspect(p) ==
    /\ proc[p].pc = "inspect"
    /\ LET f == forks[ForkOf(p)]
       IN  /\ f.task \in {"absent", "planned"} => ~ f.killed
           /\ proc' = [proc EXCEPT ![p].plan = f.task = "absent",
                         ![p].pc = IF f.task \in {"absent", "planned"} THEN "seed"
                                   ELSE "promote"]
    /\ UNCHANGED <<source, requests, lock, forks, todo, up, bounds>>

\* A reserve that is already allocated is not allocated again.
SeedReserve(p) ==
    /\ proc[p].pc = "seed"
    /\ forks' = [forks EXCEPT ![ForkOf(p)].seeded = TRUE]
    /\ Goto(p, IF proc[p].plan THEN "plan" ELSE "ready")
    /\ UNCHANGED <<source, requests, lock, todo, up, bounds>>

PublishInitial(p) ==
    /\ proc[p].pc \in {"plan", "ready"}
    /\ Put(ForkOf(p), [Sent(forks[ForkOf(p)], proc[p].pc) EXCEPT
                          !.published = @ \cup {proc[p].pc}])
    /\ Goto(p, IF proc[p].pc = "plan" THEN "ready" ELSE "promote")
    /\ UNCHANGED <<source, requests, lock, todo, up, bounds>>

\* The lineage that is promoted is the one the process holds.
Promote(p) ==
    /\ proc[p].pc = "promote" /\ proc[p].seen # "dropped"
    /\ forks' = IF proc[p].seen = "runnable" THEN forks
                ELSE [forks EXCEPT ![ForkOf(p)].lineage = "runnable"]
    /\ Goto(p, "approve")
    /\ UNCHANGED <<source, requests, lock, todo, up, bounds>>

RecordApproved(p) ==
    /\ proc[p].pc = "approve"
    /\ requests' = [requests EXCEPT ![proc[p].id].state = "approved"]
    /\ Leave(p)
    /\ UNCHANGED <<source, forks, todo, up, bounds>>

Creating == {"origin", "binding", "worktree", "attempt", "lineage", "inspect",
             "seed", "plan", "ready", "promote"}
\* Any of them may fail: the error is recorded, with the record the process
\* holds, and what was written stays.
FailCreation(p) ==
    /\ proc[p].pc \in Creating
    /\ requests' = [requests EXCEPT ![proc[p].id].state = "creating",
                                    ![proc[p].id].failed = TRUE]
    /\ Leave(p)
    /\ UNCHANGED <<source, forks, todo, up, bounds>>

(***************************************************************************)
(* Crashes and the recovery                                                *)
(***************************************************************************)
\* The lock of a dead process is taken over.
Died(p) == /\ proc' = [proc EXCEPT ![p] = Idle]
           /\ lock' = [id \in RequestIds |-> IF lock[id] = p THEN Free ELSE lock[id]]
Crash(p) ==
    /\ p # Reactor /\ proc[p].pc # "idle"
    /\ crashes < MaxCrashes /\ crashes' = crashes + 1
    /\ Died(p)
    /\ UNCHANGED <<source, requests, forks, todo, up, calls>>
ReactorStops ==
    /\ up /\ crashes < MaxCrashes /\ crashes' = crashes + 1
    /\ up' = FALSE /\ todo' = {}
    /\ Died(Reactor)
    /\ UNCHANGED <<source, requests, forks, calls>>

\* A creation that recorded an error waits for the operator.
ReactorStarts ==
    /\ ~ up /\ up' = TRUE
    /\ todo' = {id \in RequestIds : Recorded(id) /\ requests[id].state = "creating"
                                    /\ ~ requests[id].failed}
    /\ proc' = [proc EXCEPT ![Reactor].pc = IF todo' = {} THEN "idle" ELSE "recover"]
    /\ UNCHANGED <<source, requests, lock, forks, bounds>>

\* A creation whose fork was dropped is closed without the lock.
Recover(id) ==
    /\ proc[Reactor].pc = "recover" /\ id \in todo
    /\ todo' = todo \ {id}
    /\ IF forks[requests[id].fork].lineage = "dropped"
       THEN /\ requests' = [requests EXCEPT ![id].state = "cancelled"]
            /\ proc' = [proc EXCEPT ![Reactor].pc =
                            IF todo' = {} THEN "idle" ELSE "recover"]
       ELSE /\ proc' = [proc EXCEPT ![Reactor] = [Idle EXCEPT !.pc = "decide",
                            !.op = "approve", !.id = id]]
            /\ UNCHANGED requests
    /\ UNCHANGED <<source, lock, forks, up, bounds>>

(***************************************************************************)
(* The drop of a fork                                                      *)
(***************************************************************************)
Drop(p, id) ==
    /\ proc[p].pc = "idle" /\ calls < MaxCalls
    /\ Recorded(id) /\ requests[id].fork # NoFork
    /\ LET f == forks[requests[id].fork]
       IN  /\ f.lineage # "none"
           /\ proc' = [proc EXCEPT ![p] = [Idle EXCEPT !.op = "drop", !.id = id,
                         !.seen = f.lineage,
                         !.pc = IF f.lineage = "dropped" \/ f.killed THEN "remove"
                                ELSE "kill"]]
    /\ calls' = calls + 1
    /\ UNCHANGED <<source, requests, lock, forks, todo, up, crashes>>

\* A running reactor applies the kill; without one the command applies it.
PublishKill(p) ==
    /\ proc[p].pc = "kill"
    /\ LET g == Sent(forks[ForkOf(p)], "kill")
       IN  Put(ForkOf(p), IF up THEN g ELSE Killed(g))
    /\ Goto(p, "wait")
    /\ UNCHANGED <<source, requests, lock, todo, up, bounds>>

\* A plausible fault: the kill is not waited for.
Stopped_Published(f) == TRUE
Stopped(f) == forks[f].killed
\* The wait times out when the reactor does not apply the kill in time.
AwaitKill(p) ==
    /\ proc[p].pc = "wait"
    /\ IF Stopped(ForkOf(p)) THEN Goto(p, "remove") ELSE Return(p)
    /\ UNCHANGED <<source, requests, lock, forks, todo, up, bounds>>

RemoveWorktree(p) ==
    /\ proc[p].pc = "remove"
    /\ forks' = [forks EXCEPT ![ForkOf(p)].files = @ \ {"worktree"}]
    /\ IF proc[p].seen = "dropped" THEN Return(p) ELSE Goto(p, "drop")
    /\ UNCHANGED <<source, requests, lock, todo, up, bounds>>

WriteDropped(p) ==
    /\ proc[p].pc = "drop"
    /\ forks' = [forks EXCEPT ![ForkOf(p)].lineage = "dropped"]
    /\ Return(p)
    /\ UNCHANGED <<source, requests, lock, todo, up, bounds>>

(***************************************************************************)
(* The reactor and the fork's first task                                   *)
(***************************************************************************)
Admitted(f) == forks[f].lineage \notin {"creating", "dropped"}

\* A trail without a binding is an ordinary one: its first event captures the
\* colony's configuration.
Bound(f) == IF forks[f].policy = "none" THEN "editable" ELSE forks[f].policy

Taken(f, k) == [forks[f] EXCEPT !.inbox[k] = @ - 1, !.policy = Bound(f)]

\* An event of a fork that is not admitted is sent again until it is.
HandlePlan(f) ==
    /\ up /\ forks[f].inbox["plan"] > 0 /\ Admitted(f)
    /\ Put(f, [Taken(f, "plan") EXCEPT !.parked = FALSE,
             !.task = IF @ # "absent" THEN @
                      ELSE IF forks[f].parked /\ ~ forks[f].killed THEN "ready"
                      ELSE "planned"])
    /\ UNCHANGED <<source, requests, lock, proc, todo, up, bounds>>

\* A kick that arrives before its plan is parked.
HandleReady(f) ==
    /\ up /\ forks[f].inbox["ready"] > 0 /\ Admitted(f)
    /\ LET t == forks[f].task
       IN  Put(f, [Taken(f, "ready") EXCEPT
                 !.parked = (@ \/ t = "absent") /\ ~ forks[f].killed,
                 !.task = IF ~ forks[f].killed /\ t \in {"planned", "failed", "running"}
                          THEN "ready" ELSE @])
    /\ UNCHANGED <<source, requests, lock, proc, todo, up, bounds>>

HandleKill(f) ==
    /\ up /\ forks[f].inbox["kill"] > 0 /\ Admitted(f)
    /\ Put(f, Killed(Taken(f, "kill")))
    /\ UNCHANGED <<source, requests, lock, proc, todo, up, bounds>>

\* The dispatch resolves the scope of the trail again.
Dispatch(f) ==
    /\ up /\ forks[f].task = "ready"
    /\ forks' = [forks EXCEPT ![f].task = IF Admitted(f) THEN "running" ELSE "failed"]
    /\ UNCHANGED <<source, requests, lock, proc, todo, up, bounds>>

Finish(f) ==
    /\ up /\ forks[f].task = "running"
    /\ \E s \in {"completed", "failed"} : forks' = [forks EXCEPT ![f].task = s]
    /\ UNCHANGED <<source, requests, lock, proc, todo, up, bounds>>

Operation(p) ==
    \/ \E id \in RequestIds :
          \/ \E c \in [origin: Origin, run: 0..source.attempts] : Submit(p, id, c)
          \/ \E op \in {"approve", "rejected", "cancelled"} : Call(p, op, id)
          \/ Drop(p, id)
    \/ RecordAgent(p) \/ RecordDirect(p)
    \/ PublishKill(p) \/ AwaitKill(p) \/ RemoveWorktree(p) \/ WriteDropped(p)
    \/ Crash(p)
Decision(p) ==
    \/ AnswerDecided(p) \/ ResumeCreation(p) \/ Refuse(p) \/ StartCreation(p)
    \/ CloseUndecided(p) \/ Discard(p) \/ CloseCreating(p)
Creation(p) ==
    \/ Materialise(p) \/ WriteLineage(p) \/ Inspect(p) \/ SeedReserve(p)
    \/ PublishInitial(p) \/ Promote(p) \/ RecordApproved(p) \/ FailCreation(p)
Reaction(f) == HandlePlan(f) \/ HandleReady(f) \/ HandleKill(f) \/ Dispatch(f) \/ Finish(f)

Next ==
    \/ SourceRetry \/ SourceLost \/ ReactorStops \/ ReactorStarts
    \/ \E p \in Operators : Operation(p)
    \/ \E p \in Procs : Decision(p) \/ Creation(p)
    \/ \E id \in RequestIds : Expire(id) \/ Recover(id)
    \/ \E f \in Forks : Reaction(f)

Spec == Init /\ [][Next]_vars

-----------------------------------------------------------------------------
\* The records, the trails and the processes have their types, a creation has
\* its fork, and a lock is held by the process that decides the request.
TypeOK ==
    /\ source \in [attempts: Nat, readable: BOOLEAN]
    /\ requests \in [RequestIds -> Request \cup {NoRequest}]
    /\ lock \in [RequestIds -> Procs \cup {Free}]
    /\ \A id \in RequestIds :
          /\ Recorded(id) /\ requests[id].state \in {"creating", "approved"} =>
                requests[id].fork # NoFork
          /\ lock[id] # Free => proc[lock[id]].id = id
    /\ forks \in [Forks -> Fork]
    /\ \A p \in Procs : proc[p].pc \in Creating \cup
          {"idle", "record", "decide", "close", "approve", "recover", "kill",
           "wait", "remove", "drop"}
    /\ todo \subseteq RequestIds /\ up \in BOOLEAN
    /\ calls \in 0..MaxCalls /\ crashes \in 0..MaxCrashes

\* However often a request is delivered, approved, retried or recovered, one
\* trail is minted for it.
OneForkPerRequest ==
    \A f, g \in Minted : forks[f].request = forks[g].request => f = g

\* A runnable lineage was announced, or its trail was stopped: no crash leaves a
\* fork that could still run and that the ledger will never hear of.
RunnableWasPublished ==
    \A f \in Forks : forks[f].lineage = "runnable" =>
        forks[f].published = {"plan", "ready"} \/ forks[f].killed

\* A dropped fork was killed first, and nothing of it is dispatched again.
DropIsFinal ==
    \A f \in Forks : forks[f].lineage = "dropped" =>
        forks[f].killed /\ forks[f].task \notin {"ready", "running"}

=============================================================================
