-------------------------- MODULE TrailForkProofs ---------------------------
(***************************************************************************)
(* Theorems about TrailFork, for every set of requests and operators and   *)
(* for any number of forks, calls and crashes.                             *)
(***************************************************************************)
EXTENDS TrailFork, WellFoundedInduction, TLAPS

-----------------------------------------------------------------------------
(* The inductive invariant *)

\* The places where a process decides a request under its lock, and where a
\* drop has looked at its fork.
Holding == Creating \cup {"close", "approve"}
Dropping == {"kill", "wait", "remove", "drop"}
Lineage == {"none", "creating", "runnable", "dropped"}
Proc == [pc: Holding \cup Dropping \cup {"idle", "record", "decide", "recover"},
         op: Origin \cup {"none", "approve", "rejected", "cancelled", "drop"},
         id: RequestIds \cup {NoRequest}, content: Content, attempt: Nat,
         seen: Lineage, plan: BOOLEAN]

Types ==
    /\ source \in [attempts: Nat, readable: BOOLEAN]
    /\ requests \in [RequestIds -> Request \cup {NoRequest}]
    /\ lock \in [RequestIds -> Procs \cup {Free}]
    /\ forks \in [Forks -> Fork]
    /\ proc \in [Procs -> Proc]
    /\ todo \subseteq RequestIds /\ up \in BOOLEAN
    /\ calls \in 0..MaxCalls /\ crashes \in 0..MaxCrashes

\* A request that has a fork keeps it.
HasFork(id) == Recorded(id) /\ requests[id].fork # NoFork
RequestsOK ==
    /\ \A id \in RequestIds :
          Recorded(id) /\ requests[id].state \in {"creating", "approved"} => HasFork(id)
    /\ \A id \in todo : HasFork(id)

LocksOK ==
    /\ \A id \in RequestIds : lock[id] # Free =>
          proc[lock[id]].id = id /\ proc[lock[id]].pc \in Holding

\* A minted fork is the one its request names; a killed one has nothing to run.
ForksOK ==
    \A f \in Forks :
       /\ forks[f].request # NoRequest =>
             Recorded(forks[f].request) /\ requests[forks[f].request].fork = f
       /\ forks[f].killed => forks[f].task \notin {"ready", "running"}
       /\ forks[f].lineage = "dropped" => forks[f].killed

ProcOK(p) ==
    LET r == proc[p]
    IN  /\ r.pc \notin {"idle", "recover"} => r.id \in RequestIds
        /\ r.pc = "record" => r.op \in Origin
        /\ r.pc = "decide" => Recorded(r.id)
        /\ r.pc = "close" => r.op \in {"rejected", "cancelled"}
        /\ r.pc \in Holding => HasFork(r.id) /\ lock[r.id] = p
        /\ r.pc \in Dropping => HasFork(r.id)
        /\ r.pc = "drop" \/ (r.pc = "remove" /\ r.seen # "dropped") =>
              forks[requests[r.id].fork].killed
        /\ p = Reactor => r.pc \notin Dropping \cup {"record"}
        /\ p = Reactor /\ ~up => r.pc = "idle"
        /\ p # Reactor => r.pc # "recover"

IInv == Types /\ RequestsOK /\ LocksOK /\ ForksOK /\ \A p \in Procs : ProcOK(p)

-----------------------------------------------------------------------------
(* Helpers *)

LEMMA Names ==
  /\ Reactor \notin Operators /\ Free \notin Procs /\ Reactor \in Procs
  /\ NoFork \notin Forks /\ NoRequest \notin Request /\ Forks \subseteq Nat
  /\ Operators \subseteq Procs
BY ForkAssumption, NoRequestAssumption DEF Procs, Forks

LEMMA FreshForkIs ==
  ASSUME NEW f \in FreshFork
  PROVE  f \in Forks /\ forks[f].request = NoRequest
<1> DEFINE S == Forks \ Minted
           Less == OpToRel(<, Nat)
<1>1. S # {} /\ f = Min(S) /\ S \subseteq Nat
  BY Names DEF FreshFork
<1>2. IsWellFoundedOn(Less, Nat)
  BY NatLessThanWellFounded
<1> HIDE DEF S
<1>3. PICK d \in S : \A e \in S : ~ (<<e, d>> \in Less)
  <2> HIDE DEF Less
  <2> QED BY <1>1, <1>2, WFMin, Zenon
<1>4. \A e \in S : d <= e
  <2> SUFFICES ASSUME NEW e \in S PROVE d <= e
    OBVIOUS
  <2>1. ~ (<<e, d>> \in {ss \in Nat \X Nat : ss[1] < ss[2]})
    BY <1>3 DEF OpToRel
  <2> QED BY <1>1, <2>1
<1>5. f \in S
  BY <1>1, <1>3, <1>4, Zenon DEF Min
<1> QED BY <1>5 DEF S, Minted

LEMMA IdleIs ==
  Idle \in Proc /\ Idle.pc = "idle" /\ [Idle EXCEPT !.pc = "recover"] \in Proc
BY DEF Idle, Proc, Content, Origin, Lineage, Holding, Creating

\* Where a process goes when it is done.
LEMMA ReturnIs ==
  ASSUME Types, NEW p \in Procs, Return(p)
  PROVE  /\ proc' \in [Procs -> Proc]
         /\ \A q \in Procs \ {p} : proc'[q] = proc[q]
         /\ proc'[p].pc = "idle" \/ (p = Reactor /\ todo # {} /\ proc'[p].pc = "recover")
BY IdleIs DEF Types, Return, Idle

-----------------------------------------------------------------------------
(* What a step may do to what a process relies on *)

Grows == \A id \in RequestIds : Recorded(id) =>
            Recorded(id)' /\ (requests[id].fork # NoFork => requests'[id].fork = requests[id].fork)
Kills == \A f \in Forks : forks[f].killed => forks'[f].killed

LEMMA Others ==
  ASSUME IInv, Grows, Kills, NEW q \in Procs, proc'[q] = proc[q],
         proc[q].pc \in Holding => lock'[proc[q].id] = q,
         up' = up \/ up' = TRUE \/ q # Reactor
  PROVE  ProcOK(q)'
<1>1. ProcOK(q) /\ (up' = FALSE /\ q = Reactor => ~up)
  BY DEF IInv
<1>2. \A id \in RequestIds : HasFork(id) => HasFork(id)' /\ requests'[id].fork = requests[id].fork
                                            /\ requests[id].fork \in Forks
  BY DEF HasFork, Grows, Recorded, IInv, Types, Request
<1> QED BY <1>1, <1>2 DEF ProcOK, Grows, Kills, IInv, Types, Holding, Dropping, Creating

\* The lock of a process: kept, taken on its request or given back.
KeepsLock(p) ==
    /\ lock' = lock
    /\ proc[p].pc \in Holding => proc'[p].pc \in Holding /\ proc'[p].id = proc[p].id
TakesLock(p) ==
    /\ lock[proc[p].id] = Free /\ proc[p].id \in RequestIds
    /\ Take(proc[p].id, p)
    /\ proc'[p].pc \in Holding /\ proc'[p].id = proc[p].id
GivesLock(p) ==
    /\ proc[p].pc \in Holding /\ lock' = [lock EXCEPT ![proc[p].id] = Free]
    /\ proc'[p].pc \notin Holding

\* A step of one process.
LEMMA StepOK ==
  ASSUME IInv, NEW p \in Procs, Types', Grows, Kills, RequestsOK', ForksOK',
         \A q \in Procs \ {p} : proc'[q] = proc[q],
         KeepsLock(p) \/ TakesLock(p) \/ GivesLock(p), up' = up, ProcOK(p)'
  PROVE  IInv'
<1>1. ASSUME NEW q \in Procs \ {p}, proc[q].pc \in Holding
      PROVE  lock'[proc[q].id] = q
  <2>1. lock[proc[q].id] = q /\ proc[q].id \in RequestIds /\ lock \in [RequestIds -> Procs \cup {Free}]
    BY <1>1 DEF IInv, Types, ProcOK, Holding, Creating
  <2>2. proc[p].pc \in Holding => lock[proc[p].id] = p
    BY DEF IInv, ProcOK
  <2> QED BY <2>1, <2>2, Names DEF KeepsLock, TakesLock, GivesLock, Take
<1>2. \A q \in Procs : ProcOK(q)'
  BY <1>1, Others
<1>3. LocksOK'
  <2> SUFFICES ASSUME NEW id \in RequestIds, lock'[id] # Free
               PROVE  proc'[lock'[id]].id = id /\ proc'[lock'[id]].pc \in Holding
    BY DEF LocksOK
  <2>1. /\ lock \in [RequestIds -> Procs \cup {Free}]
        /\ lock[id] # Free => proc[lock[id]].id = id /\ proc[lock[id]].pc \in Holding
    BY DEF IInv, Types, LocksOK
  <2>2. CASE KeepsLock(p)
    BY <2>1, <2>2 DEF KeepsLock
  <2>3. CASE TakesLock(p)
    BY <2>1, <2>3 DEF TakesLock, Take
  <2>4. CASE GivesLock(p)
    BY <2>1, <2>4 DEF GivesLock
  <2> QED BY <2>2, <2>3, <2>4
<1> QED BY <1>2, <1>3 DEF IInv

\* Requests and forks that stay are as they were.
LEMMA RequestsStay ==
  ASSUME IInv, UNCHANGED requests, todo' \subseteq todo
  PROVE  Grows /\ RequestsOK'
BY DEF IInv, RequestsOK, Grows, Recorded, HasFork
LEMMA ForksStay ==
  ASSUME IInv, UNCHANGED forks, Grows
  PROVE  Kills /\ ForksOK'
<1>1. Kills
  BY DEF Kills
<1>2. \A f \in Forks : forks[f].request # NoRequest => forks[f].request \in RequestIds
  BY DEF IInv, Types, Fork
<1> QED BY <1>1, <1>2, Names DEF ForksOK, IInv, Grows, Recorded

-----------------------------------------------------------------------------
(* New requests and calls *)

LEMMA SubmitOK ==
  ASSUME IInv, NEW p \in Operators, NEW id \in RequestIds,
         NEW content \in [origin: Origin, run: 0..source.attempts], Submit(p, id, content)
  PROVE  IInv'
<1> USE DEF Submit
<1>1. PICK a \in IF content.origin = "cli" /\ Recorded(id) THEN {0} ELSE Resolve(content.run, 0) :
         proc' = [proc EXCEPT ![p] = [Idle EXCEPT !.pc = "record", !.id = id,
                        !.op = content.origin, !.content = content, !.attempt = a]]
  OBVIOUS
<1>2. source.attempts \in Nat /\ calls \in Nat /\ MaxCalls \in Nat /\ p \in Procs /\ p # Reactor
  BY Names, ForkAssumption DEF IInv, Types
<1>3. a \in Nat
  BY <1>2 DEF Resolve, SelectAttempt
<1>4. content \in Content
  BY <1>2 DEF Content
<1> DEFINE r == [Idle EXCEPT !.pc = "record", !.id = id, !.op = content.origin,
                             !.content = content, !.attempt = a]
<1>5. r \in Proc /\ r.pc = "record" /\ r.id = id /\ r.op = content.origin
  BY <1>3, <1>4 DEF Idle, Proc, Content, Lineage, Holding, Creating
<1>6. content.origin \in Origin
  OBVIOUS
<1> HIDE DEF r
<1>7. Types'
  BY <1>1, <1>2, <1>5 DEF IInv, Types, r
<1>8. proc'[p] = r /\ \A q \in Procs \ {p} : proc'[q] = proc[q]
  BY <1>1, <1>2 DEF IInv, Types, r
<1>9. ProcOK(p)'
  BY <1>2, <1>5, <1>6, <1>8 DEF ProcOK, Holding, Dropping, Creating
<1>10. KeepsLock(p)
  BY DEF KeepsLock, Holding, Creating
<1> QED BY <1>2, <1>7, <1>8, <1>9, <1>10, RequestsStay, ForksStay, StepOK

LEMMA CallOK ==
  ASSUME IInv, NEW p \in Operators, NEW id \in RequestIds,
         NEW op \in {"approve", "rejected", "cancelled"}, Call(p, op, id)
  PROVE  IInv'
<1> USE DEF Call
<1> DEFINE r == [Idle EXCEPT !.pc = "decide", !.op = op, !.id = id]
<1>1. r \in Proc /\ r.pc = "decide" /\ r.id = id
  BY DEF Idle, Proc, Content, Origin, Lineage, Holding, Creating
<1>2. calls \in Nat /\ MaxCalls \in Nat /\ p \in Procs /\ p # Reactor
  BY Names, ForkAssumption DEF IInv, Types
<1> HIDE DEF r
<1>3. Types'
  BY <1>1, <1>2 DEF IInv, Types, r
<1>4. proc'[p] = r /\ \A q \in Procs \ {p} : proc'[q] = proc[q]
  BY <1>2 DEF IInv, Types, r
<1>5. Recorded(id)'
  BY DEF Recorded
<1>6. ProcOK(p)'
  BY <1>1, <1>2, <1>4, <1>5 DEF ProcOK, Holding, Dropping, Creating
<1>7. KeepsLock(p)
  BY DEF KeepsLock, Holding, Creating
<1> QED BY <1>2, <1>3, <1>4, <1>6, <1>7, RequestsStay, ForksStay, StepOK

LEMMA DropOK ==
  ASSUME IInv, NEW p \in Operators, NEW id \in RequestIds, Drop(p, id)
  PROVE  IInv'
<1> USE DEF Drop
<1> DEFINE f == forks[requests[id].fork]
           r == [Idle EXCEPT !.op = "drop", !.id = id, !.seen = f.lineage,
                     !.pc = IF f.lineage = "dropped" \/ f.killed THEN "remove" ELSE "kill"]
<1>1. HasFork(id) /\ requests[id].fork \in Forks /\ f \in Fork
  BY DEF HasFork, Recorded, IInv, Types, Request
<1>2. /\ r \in Proc /\ r.pc \in {"remove", "kill"} /\ r.id = id /\ r.seen = f.lineage
      /\ r.pc = "remove" /\ r.seen # "dropped" => f.killed
  BY <1>1 DEF Idle, Proc, Content, Origin, Lineage, Fork, Holding, Dropping, Creating
<1>3. calls \in Nat /\ MaxCalls \in Nat /\ p \in Procs /\ p # Reactor
  BY Names, ForkAssumption DEF IInv, Types
<1> HIDE DEF r
<1>4. Types'
  BY <1>2, <1>3 DEF IInv, Types, r
<1>5. proc'[p] = r /\ \A q \in Procs \ {p} : proc'[q] = proc[q]
  BY <1>3 DEF IInv, Types, r
<1>6. HasFork(id)'
  BY <1>1 DEF HasFork, Recorded
<1>7. ProcOK(p)'
  BY <1>2, <1>3, <1>5, <1>6 DEF ProcOK, Holding, Dropping, Creating
<1>8. KeepsLock(p)
  BY DEF KeepsLock, Holding, Creating
<1> QED BY <1>3, <1>4, <1>5, <1>7, <1>8, RequestsStay, ForksStay, StepOK

LEMMA RecordAgentOK ==
  ASSUME IInv, NEW p \in Operators, RecordAgent(p)
  PROVE  IInv'
<1> USE DEF RecordAgent
<1> DEFINE id == proc[p].id
           rq == [state |-> "pending", content |-> proc[p].content,
                  attempt |-> proc[p].attempt, fork |-> NoFork, failed |-> FALSE]
<1>1. p \in Procs /\ id \in RequestIds /\ proc[p] \in Proc
  BY Names DEF IInv, ProcOK, Types
<1>2. rq \in Request /\ rq # NoRequest /\ rq.state = "pending"
  <2>1. proc[p].content \in Content /\ proc[p].attempt \in Nat
    BY <1>1 DEF Proc
  <2>2. rq \in Request
    BY <2>1 DEF Request, Undecided
  <2> QED BY <2>2, Names
<1>3. requests' = requests \/ (~Recorded(id) /\ requests' = [requests EXCEPT ![id] = rq])
  BY DEF Recorded, UnderQuota
<1> HIDE DEF rq
<1>4. Types /\ Types'
  <2>1. requests' \in [RequestIds -> Request \cup {NoRequest}]
    BY <1>1, <1>2, <1>3 DEF IInv, Types
  <2>2. Types /\ proc' \in [Procs -> Proc]
    BY <1>1, ReturnIs DEF IInv
  <2> QED BY <2>1, <2>2 DEF Types, bounds
<1>5. Grows
  BY <1>1, <1>2, <1>3 DEF Grows, Recorded, IInv, Types
<1>6. RequestsOK'
  BY <1>1, <1>2, <1>3 DEF RequestsOK, HasFork, Recorded, IInv, Types
<1>7. Kills /\ ForksOK'
  BY <1>5, ForksStay
<1>8. \A q \in Procs \ {p} : proc'[q] = proc[q]
  BY <1>1, <1>4, ReturnIs
<1>9. proc'[p].pc = "idle"
  BY <1>1, <1>4, ReturnIs, Names
<1>10. ProcOK(p)'
  BY <1>9 DEF ProcOK, Holding, Dropping, Creating
<1>11. KeepsLock(p)
  BY DEF KeepsLock, Holding, Creating
<1> QED BY <1>1, <1>4, <1>5, <1>6, <1>7, <1>8, <1>10, <1>11, StepOK

-----------------------------------------------------------------------------
(* One request, one fork, one process *)

LEMMA RequestStep ==
  ASSUME IInv, NEW id \in RequestIds, Recorded(id), NEW rq \in Request,
         requests' = [requests EXCEPT ![id] = rq],
         requests[id].fork # NoFork => rq.fork = requests[id].fork,
         rq.state \in {"creating", "approved"} => rq.fork # NoFork, todo' \subseteq todo
  PROVE  /\ requests' \in [RequestIds -> Request \cup {NoRequest}]
         /\ Grows /\ RequestsOK' /\ Recorded(id)'
<1>1. requests \in [RequestIds -> Request \cup {NoRequest}] /\ rq # NoRequest
  BY Names DEF IInv, Types
<1>2. /\ requests'[id] = rq /\ \A o \in RequestIds \ {id} : requests'[o] = requests[o]
      /\ requests' \in [RequestIds -> Request \cup {NoRequest}]
  BY <1>1
<1>3. Grows
  BY <1>1, <1>2 DEF Grows, Recorded
<1> QED BY <1>1, <1>2, <1>3 DEF Grows, RequestsOK, HasFork, Recorded, IInv, Types

LEMMA ForkStep ==
  ASSUME IInv, Grows, NEW f \in Forks, NEW g \in Fork, forks' = [forks EXCEPT ![f] = g],
         g.request = forks[f].request, forks[f].killed => g.killed,
         g.killed => g.task \notin {"ready", "running"},
         g.lineage = "dropped" => g.killed
  PROVE  forks' \in [Forks -> Fork] /\ Kills /\ ForksOK' /\ forks'[f] = g
<1>1. forks \in [Forks -> Fork]
  BY DEF IInv, Types
<1>2. /\ forks'[f] = g /\ \A o \in Forks \ {f} : forks'[o] = forks[o]
      /\ forks' \in [Forks -> Fork]
  BY <1>1
<1>3. Kills
  BY <1>2 DEF Kills
<1>4. \A o \in Forks : /\ forks'[o].request = forks[o].request
                       /\ forks[o].request # NoRequest => forks[o].request \in RequestIds
  BY <1>1, <1>2 DEF Fork
<1>5. ASSUME NEW o \in Forks, forks'[o].request # NoRequest
      PROVE  requests'[forks'[o].request] # NoRequest /\ requests'[forks'[o].request].fork = o
  <2> DEFINE r == forks[o].request
  <2>1. r # NoRequest /\ r \in RequestIds /\ forks'[o].request = r
    BY <1>4, <1>5
  <2>2. requests[r] # NoRequest /\ requests[r].fork = o
    BY <2>1 DEF IInv, ForksOK, Recorded
  <2>3. requests'[r] # NoRequest /\ requests'[r].fork = o
    BY <2>1, <2>2, Names DEF Grows, Recorded
  <2> QED BY <2>1, <2>3
<1>6. \A o \in Forks : /\ forks'[o].killed => forks'[o].task \notin {"ready", "running"}
                       /\ forks'[o].lineage = "dropped" => forks'[o].killed
  BY <1>2 DEF IInv, ForksOK
<1> QED BY <1>2, <1>3, <1>5, <1>6 DEF ForksOK, Recorded

LEMMA RowStep ==
  ASSUME IInv, NEW p \in Procs, NEW r \in Proc, proc' = [proc EXCEPT ![p] = r]
  PROVE  /\ proc' \in [Procs -> Proc] /\ proc'[p] = r
         /\ \A q \in Procs \ {p} : proc'[q] = proc[q]
BY DEF IInv, Types

LEMMA GotoIs ==
  ASSUME IInv, NEW p \in Procs,
         NEW pc \in Holding \cup Dropping \cup {"idle", "record", "decide", "recover"},
         Goto(p, pc)
  PROVE  /\ proc' \in [Procs -> Proc] /\ proc'[p].pc = pc
         /\ \A q \in Procs \ {p} : proc'[q] = proc[q]
         /\ proc'[p] = [proc[p] EXCEPT !.pc = pc]
         /\ proc'[p].id = proc[p].id /\ proc'[p].op = proc[p].op
         /\ proc'[p].seen = proc[p].seen
<1>1. proc \in [Procs -> Proc] /\ proc[p] \in Proc
  BY DEF IInv, Types
<1>2. [proc[p] EXCEPT !.pc = pc] \in Proc /\ proc' = [proc EXCEPT ![p] = [proc[p] EXCEPT !.pc = pc]]
  BY <1>1 DEF Proc, Goto
<1> QED BY <1>1, <1>2 DEF Proc

LEMMA ReturnOK ==
  ASSUME IInv, NEW p \in Procs, Return(p), proc[p].pc # "idle", up' = up
  PROVE  /\ ProcOK(p)' /\ proc'[p].pc \notin Holding
         /\ \A q \in Procs \ {p} : proc'[q] = proc[q]
         /\ proc' \in [Procs -> Proc]
<1>1. Types
  BY DEF IInv
<1>2. /\ proc'[p].pc = "idle" \/ (p = Reactor /\ proc'[p].pc = "recover")
      /\ \A q \in Procs \ {p} : proc'[q] = proc[q]
      /\ proc' \in [Procs -> Proc]
  BY <1>1, ReturnIs
<1>3. p = Reactor => up
  BY DEF IInv, ProcOK
<1> QED BY <1>2, <1>3 DEF ProcOK, Holding, Dropping, Creating

\* What a process that decides or drops works on.
LEMMA WorkIs ==
  ASSUME IInv, NEW p \in Procs, proc[p].pc \notin {"idle", "recover"}
  PROVE  /\ proc[p] \in Proc /\ proc[p].id \in RequestIds
         /\ proc[p].pc \in Holding \cup Dropping => HasFork(proc[p].id)
         /\ proc[p].pc = "decide" => Recorded(proc[p].id)
         /\ HasFork(proc[p].id) => ForkOf(p) \in Forks /\ forks[ForkOf(p)] \in Fork
         /\ Recorded(proc[p].id) => requests[proc[p].id] \in Request
<1>1. proc[p] \in Proc /\ ProcOK(p)
  BY DEF IInv, Types
<1>2. proc[p].id \in RequestIds
  BY <1>1 DEF ProcOK
<1>3. Recorded(proc[p].id) => requests[proc[p].id] \in Request
  BY <1>2 DEF IInv, Types, Recorded
<1>4. HasFork(proc[p].id) => ForkOf(p) \in Forks
  BY <1>3 DEF HasFork, ForkOf, Request
<1>5. ForkOf(p) \in Forks => forks[ForkOf(p)] \in Fork
  BY DEF IInv, Types
<1> QED BY <1>1, <1>2, <1>3, <1>4, <1>5 DEF ProcOK

LEMMA SentIs ==
  ASSUME NEW g \in Fork, NEW k \in Signals
  PROVE  /\ Sent(g, k) \in Fork /\ Sent(g, k).request = g.request
         /\ Sent(g, k).killed = g.killed /\ Sent(g, k).task = g.task
         /\ Sent(g, k).lineage = g.lineage
<1> DEFINE inbox == [g.inbox EXCEPT ![k] = @ + 1]
<1>1. inbox \in [Signals -> Nat]
  BY DEF Fork
<1>2. Sent(g, k) = [g EXCEPT !.inbox = inbox]
  BY DEF Sent, Fork
<1> HIDE DEF inbox
<1> QED BY <1>1, <1>2 DEF Fork

\* A stopped fork runs nothing, and keeps where it belongs.
LEMMA KilledIs ==
  ASSUME NEW g \in Fork, g.killed => g.task \notin {"ready", "running"}
  PROVE  /\ Killed(g) \in Fork /\ Killed(g).request = g.request
         /\ Killed(g).killed = TRUE /\ Killed(g).task \notin {"ready", "running"}
         /\ Killed(g).lineage = g.lineage
<1> DEFINE stopped == [g EXCEPT !.killed = TRUE, !.parked = FALSE,
                          !.task = IF @ \in {"planned", "ready", "running"}
                                   THEN "cancelled" ELSE @]
<1>1. CASE g.killed
  <2>1. Killed(g) = g /\ g.killed = TRUE
    BY <1>1 DEF Killed, Fork
  <2> QED BY <1>1, <2>1
<1>2. CASE ~ g.killed
  <2>1. /\ stopped \in Fork /\ stopped.request = g.request /\ stopped.killed = TRUE
        /\ stopped.task \notin {"ready", "running"} /\ stopped.lineage = g.lineage
    BY DEF Fork, TaskStatus
  <2>2. Killed(g) = stopped
    BY <1>2 DEF Killed
  <2> HIDE DEF stopped
  <2> QED BY <2>1, <2>2
<1> QED BY <1>1, <1>2

\* A step of a creation on its fork, with the process under the lock.
LEMMA CreationStep ==
  ASSUME IInv, NEW p \in Procs, proc[p].pc \in Holding, NEW g \in Fork,
         NEW pc \in Creating \cup {"approve", "close"}, Goto(p, pc),
         pc = "close" => proc[p].op \in {"rejected", "cancelled"},
         forks' = [forks EXCEPT ![ForkOf(p)] = g], g.request = forks[ForkOf(p)].request,
         g.killed = forks[ForkOf(p)].killed, g.task = forks[ForkOf(p)].task,
         g.lineage # "dropped" \/ g.lineage = forks[ForkOf(p)].lineage,
         UNCHANGED <<source, requests, lock, todo, up, bounds>>
  PROVE  IInv'
<1> DEFINE id == proc[p].id
<1>1. proc[p] \in Proc /\ id \in RequestIds /\ HasFork(id) /\ ForkOf(p) \in Forks
  BY WorkIs DEF Holding, Creating
<1>2. Grows /\ RequestsOK' /\ requests'[id] # NoRequest /\ requests'[id].fork # NoFork
  BY <1>1, RequestsStay DEF HasFork, Recorded
<1>3. forks' \in [Forks -> Fork] /\ Kills /\ ForksOK'
  <2>1. /\ forks[ForkOf(p)].killed => forks[ForkOf(p)].task \notin {"ready", "running"}
        /\ forks[ForkOf(p)].lineage = "dropped" => forks[ForkOf(p)].killed
    BY <1>1 DEF IInv, ForksOK
  <2> QED BY <1>1, <1>2, <2>1, ForkStep
<1>4. /\ proc' \in [Procs -> Proc] /\ proc'[p].pc = pc /\ proc'[p].id = id
      /\ \A q \in Procs \ {p} : proc'[q] = proc[q] /\ proc'[p].op = proc[p].op
  BY GotoIs DEF Holding
<1>5. Types'
  BY <1>3, <1>4 DEF IInv, Types, bounds
<1>6. lock[id] = p /\ (p = Reactor => up)
  BY DEF IInv, ProcOK, Holding, Creating
<1>7. proc'[p].op = proc[p].op
  BY GotoIs DEF Holding
<1>8. ProcOK(p)'
  BY <1>1, <1>2, <1>4, <1>6, <1>7 DEF ProcOK, Holding, Dropping, Creating, HasFork, Recorded
<1>9. KeepsLock(p)
  BY <1>4 DEF KeepsLock, Holding
<1> QED BY <1>2, <1>3, <1>4, <1>5, <1>8, <1>9, StepOK

\* A step of no process.
LEMMA AmbientOK ==
  ASSUME IInv, Grows, Kills, RequestsOK', ForksOK', Types', UNCHANGED <<lock, proc, up>>
  PROVE  IInv'
<1>1. \A q \in Procs : proc[q].pc \in Holding => lock'[proc[q].id] = q
  BY DEF IInv, ProcOK
<1>2. \A q \in Procs : ProcOK(q)'
  BY <1>1, Others
<1>3. LocksOK'
  BY DEF IInv, LocksOK
<1> QED BY <1>2, <1>3 DEF IInv

-----------------------------------------------------------------------------
(* Decisions *)

LEMMA RecordDirectOK ==
  ASSUME IInv, NEW p \in Operators, RecordDirect(p)
  PROVE  IInv'
<1> USE DEF RecordDirect
<1> DEFINE id == proc[p].id
<1>1. /\ p \in Procs /\ p # Reactor /\ id \in RequestIds /\ proc[p] \in Proc /\ proc[p].pc = "record"
      /\ Recorded(id) => requests[id] \in Request
  BY Names, WorkIs
<1>2. KeepsLock(p)
  BY <1>1 DEF KeepsLock, Holding, Creating
<1>3. CASE Recorded(id) /\ Return(p) /\ UNCHANGED <<requests, forks>>
  <2>1. /\ ProcOK(p)' /\ proc' \in [Procs -> Proc]
        /\ \A q \in Procs \ {p} : proc'[q] = proc[q]
    BY <1>1, <1>3, ReturnOK
  <2>2. Types'
    BY <1>3, <2>1 DEF IInv, Types, bounds
  <2> QED BY <1>1, <1>2, <1>3, <2>1, <2>2, RequestsStay, ForksStay, StepOK
<1>4. ASSUME Goto(p, "decide"), requests'[id] # NoRequest
      PROVE  /\ proc' \in [Procs -> Proc] /\ ProcOK(p)'
             /\ \A q \in Procs \ {p} : proc'[q] = proc[q]
  <2>1. /\ proc' \in [Procs -> Proc] /\ proc'[p].pc = "decide" /\ proc'[p].id = id
        /\ \A q \in Procs \ {p} : proc'[q] = proc[q]
    BY <1>1, <1>4, GotoIs
  <2> QED BY <1>1, <1>4, <2>1 DEF ProcOK, Recorded, Holding, Dropping, Creating
<1>5. CASE Recorded(id) /\ Goto(p, "decide") /\ UNCHANGED <<requests, forks>>
  <2>1. /\ proc' \in [Procs -> Proc] /\ ProcOK(p)'
        /\ \A q \in Procs \ {p} : proc'[q] = proc[q]
    BY <1>4, <1>5 DEF Recorded
  <2>2. Types'
    BY <1>5, <2>1 DEF IInv, Types, bounds
  <2> QED BY <1>1, <1>2, <1>5, <2>1, <2>2, RequestsStay, ForksStay, StepOK
<1>6. CASE ~Recorded(id)
  <2> DEFINE Row(f) == [state |-> "creating", content |-> proc[p].content,
                        attempt |-> proc[p].attempt, fork |-> f, failed |-> FALSE]
  <2>1. PICK f \in FreshFork : /\ Mint(f, id)
                               /\ requests' = [requests EXCEPT ![id] = Row(f)]
                               /\ Goto(p, "decide")
    BY <1>6
  <2>2. f \in Forks /\ forks[f].request = NoRequest /\ forks[f] \in Fork
    BY FreshForkIs DEF IInv, Types
  <2>3. Row(f) \in Request /\ Row(f).fork = f
    <3>1. proc[p].content \in Content /\ proc[p].attempt \in Nat
      BY <1>1 DEF Proc
    <3> QED BY <2>2, <3>1 DEF Request, Undecided
  <2> DEFINE rq == Row(f)
  <2> HIDE DEF Row
  <2>4. /\ requests' \in [RequestIds -> Request \cup {NoRequest}] /\ requests'[id] = rq
        /\ \A o \in RequestIds \ {id} : requests'[o] = requests[o]
        /\ rq # NoRequest /\ rq.fork = f /\ f # NoFork
    BY <1>1, <2>1, <2>2, <2>3, Names DEF IInv, Types
  <2> HIDE DEF rq
  <2>5. Grows
    BY <1>6, <2>4 DEF Grows, Recorded
  <2>6. RequestsOK'
    BY <2>4, <2>5 DEF RequestsOK, HasFork, Recorded, IInv, Types
  <2>7. /\ forks'[f].request = id /\ forks'[f].killed = forks[f].killed
        /\ forks'[f].task = forks[f].task /\ forks'[f].lineage = forks[f].lineage
        /\ \A o \in Forks \ {f} : forks'[o] = forks[o]
        /\ forks' \in [Forks -> Fork]
    <3>1. [forks[f] EXCEPT !.request = id] \in Fork
      BY <1>1, <2>2 DEF Fork
    <3>2. forks' = [forks EXCEPT ![f] = [forks[f] EXCEPT !.request = id]]
      BY <2>1, <2>2 DEF Mint, IInv, Types
    <3> QED BY <2>2, <3>1, <3>2 DEF Fork, IInv, Types
  <2>8. Kills /\ ForksOK'
    <3>1. Kills
      BY <2>7 DEF Kills
    <3>2. \A o \in Forks : forks[o].request # NoRequest => forks[o].request \in RequestIds
      BY DEF IInv, Types, Fork
    <3>3. ASSUME NEW o \in Forks \ {f}, forks[o].request # NoRequest
          PROVE  requests'[forks[o].request] # NoRequest /\ requests'[forks[o].request].fork = o
      <4>1. Recorded(forks[o].request) /\ requests[forks[o].request].fork = o
        BY <3>3 DEF IInv, ForksOK
      <4> QED BY <1>6, <3>2, <3>3, <4>1, <2>4 DEF Recorded
    <3> QED BY <2>4, <2>7, <3>1, <3>3 DEF ForksOK, IInv, Recorded
  <2>9. /\ proc' \in [Procs -> Proc] /\ ProcOK(p)'
        /\ \A q \in Procs \ {p} : proc'[q] = proc[q]
    BY <1>4, <2>1, <2>4
  <2>10. Types'
    BY <2>4, <2>7, <2>9 DEF IInv, Types, bounds
  <2> QED BY <1>1, <1>2, <2>5, <2>6, <2>8, <2>9, <2>10, StepOK
<1> QED BY <1>3, <1>5, <1>6 DEF Recorded

\* A decision that answers or writes the record only.
LEMMA AnsweredOK ==
  ASSUME IInv, NEW p \in Procs, proc[p].pc = "decide", Return(p),
         \/ UNCHANGED requests
         \/ \E s \in {"refused", "rejected", "cancelled"} :
               requests' = [requests EXCEPT ![proc[p].id].state = s],
         UNCHANGED <<source, lock, forks, todo, up, bounds>>
  PROVE  IInv'
<1> DEFINE id == proc[p].id
<1>1. id \in RequestIds /\ Recorded(id) /\ requests[id] \in Request
  BY WorkIs
<1>2. KeepsLock(p)
  BY DEF KeepsLock, Holding, Creating
<1>3. requests' \in [RequestIds -> Request \cup {NoRequest}] /\ Grows /\ RequestsOK'
  <2>1. CASE UNCHANGED requests
    BY <2>1, RequestsStay DEF IInv, Types
  <2>2. ASSUME NEW s \in {"refused", "rejected", "cancelled"},
               requests' = [requests EXCEPT ![proc[p].id].state = s]
        PROVE  requests' \in [RequestIds -> Request \cup {NoRequest}] /\ Grows /\ RequestsOK'
    <3> DEFINE rq == [requests[id] EXCEPT !.state = s]
    <3>1. rq \in Request /\ rq.fork = requests[id].fork /\ rq.state = s
      BY <1>1 DEF Request, Closed
    <3>2. requests' = [requests EXCEPT ![id] = rq]
      BY <1>1, <2>2
    <3> HIDE DEF rq
    <3> QED BY <1>1, <3>1, <3>2, RequestStep
  <2> QED BY <2>1, <2>2
<1>4. /\ ProcOK(p)' /\ proc' \in [Procs -> Proc]
      /\ \A q \in Procs \ {p} : proc'[q] = proc[q]
  BY ReturnOK
<1>5. Types'
  BY <1>3, <1>4 DEF IInv, Types, bounds
<1> QED BY <1>2, <1>3, <1>4, <1>5, ForksStay, StepOK

LEMMA TakeOK ==
  ASSUME IInv, NEW p \in Procs, lock[proc[p].id] = Free, proc[p].id \in RequestIds,
         Take(proc[p].id, p), proc'[p].pc \in Holding, proc'[p].id = proc[p].id
  PROVE  TakesLock(p) /\ lock' \in [RequestIds -> Procs \cup {Free}] /\ lock'[proc[p].id] = p
BY DEF TakesLock, Take, IInv, Types

LEMMA ResumeOK ==
  ASSUME IInv, NEW p \in Procs, ResumeCreation(p)
  PROVE  IInv'
<1> USE DEF ResumeCreation
<1> DEFINE id == proc[p].id
           r == [proc[p] EXCEPT !.pc = "inspect", !.seen = forks[requests[id].fork].lineage]
<1>1. /\ proc[p] \in Proc /\ id \in RequestIds /\ HasFork(id)
      /\ forks[requests[id].fork] \in Fork
  <2>1. id \in RequestIds /\ Recorded(id) /\ proc[p] \in Proc
    BY WorkIs
  <2>2. HasFork(id)
    BY <2>1 DEF IInv, RequestsOK
  <2> QED BY <2>1, <2>2, WorkIs DEF ForkOf
<1>2. r \in Proc /\ r.pc = "inspect" /\ r.id = id
  BY <1>1 DEF Proc, Holding, Creating, Lineage, Fork
<1>3. proc' = [proc EXCEPT ![p] = r]
  BY DEF IInv, Types
<1> HIDE DEF r
<1>4. /\ proc' \in [Procs -> Proc] /\ proc'[p] = r
      /\ \A q \in Procs \ {p} : proc'[q] = proc[q]
  BY <1>2, <1>3, RowStep
<1>5. TakesLock(p) /\ lock' \in [RequestIds -> Procs \cup {Free}] /\ lock'[id] = p
  BY <1>1, <1>2, <1>4, TakeOK DEF Holding, Creating
<1>6. Types'
  BY <1>4, <1>5 DEF IInv, Types, bounds
<1>7. ProcOK(p)'
  <2>1. p = Reactor => up
    BY DEF IInv, ProcOK
  <2> QED BY <1>1, <1>2, <1>4, <1>5, <2>1 DEF ProcOK, Holding, Dropping, Creating, HasFork, Recorded
<1> QED BY <1>4, <1>5, <1>6, <1>7, RequestsStay, ForksStay, StepOK

LEMMA StartOK ==
  ASSUME IInv, NEW p \in Procs, StartCreation(p)
  PROVE  IInv'
<1> USE DEF StartCreation
<1> DEFINE id == proc[p].id
           r == [proc[p] EXCEPT !.pc = "origin", !.seen = "creating", !.plan = TRUE,
                                !.attempt = requests[id].attempt]
<1>1. proc[p] \in Proc /\ id \in RequestIds /\ Recorded(id) /\ requests[id] \in Request
  BY WorkIs
<1>2. r \in Proc /\ r.pc = "origin" /\ r.id = id
  BY <1>1 DEF Proc, Holding, Creating, Lineage, Request
<1>3. proc' = [proc EXCEPT ![p] = r]
  BY DEF IInv, Types
<1>4. PICK f \in ForkFor(requests[id]) :
         /\ Mint(f, id)
         /\ requests' = [requests EXCEPT ![id].state = "creating", ![id].fork = f]
  OBVIOUS
<1> DEFINE rq == [requests[id] EXCEPT !.state = "creating", !.fork = f]
<1>5. /\ f \in Forks /\ forks[f] \in Fork
      /\ requests[id].fork # NoFork => f = requests[id].fork
      /\ requests[id].fork = NoFork => forks[f].request = NoRequest
  BY <1>1, <1>4, FreshForkIs DEF ForkFor, Request, IInv, Types
<1>6. rq \in Request /\ rq.fork = f /\ rq.state = "creating" /\ requests' = [requests EXCEPT ![id] = rq]
  BY <1>1, <1>4, <1>5 DEF Request, Undecided, IInv, Types
<1> HIDE DEF r, rq
<1>7. /\ requests' \in [RequestIds -> Request \cup {NoRequest}] /\ Grows /\ RequestsOK'
  BY <1>1, <1>5, <1>6, Names, RequestStep
<1>8. /\ requests'[id] = rq /\ \A o \in RequestIds \ {id} : requests'[o] = requests[o]
      /\ rq # NoRequest /\ f # NoFork
  BY <1>1, <1>5, <1>6, Names DEF IInv, Types
<1>9. /\ forks'[f].request = id /\ forks'[f].killed = forks[f].killed
      /\ forks'[f].task = forks[f].task /\ forks'[f].lineage = forks[f].lineage
      /\ \A o \in Forks \ {f} : forks'[o] = forks[o]
      /\ forks' \in [Forks -> Fork]
  <2>1. [forks[f] EXCEPT !.request = id] \in Fork
    BY <1>1, <1>5 DEF Fork
  <2>2. forks' = [forks EXCEPT ![f] = [forks[f] EXCEPT !.request = id]]
    BY <1>4, <1>5 DEF Mint, IInv, Types
  <2> QED BY <1>5, <2>1, <2>2 DEF Fork, IInv, Types
<1>10. Kills /\ ForksOK'
  <2>1. Kills
    BY <1>9 DEF Kills
  <2>2. \A o \in Forks : forks[o].request # NoRequest => forks[o].request \in RequestIds
    BY DEF IInv, Types, Fork
  <2>3. ASSUME NEW o \in Forks \ {f}, forks[o].request # NoRequest
        PROVE  requests'[forks[o].request] # NoRequest /\ requests'[forks[o].request].fork = o
    <3>1. Recorded(forks[o].request) /\ requests[forks[o].request].fork = o
      BY <2>3 DEF IInv, ForksOK
    <3> QED BY <1>7, <2>2, <2>3, <3>1, Names DEF Recorded, Grows
  <2>4. \A o \in Forks : forks'[o].request # NoRequest =>
           requests'[forks'[o].request] # NoRequest /\ requests'[forks'[o].request].fork = o
    <3> SUFFICES ASSUME NEW o \in Forks, forks'[o].request # NoRequest
                 PROVE  /\ requests'[forks'[o].request] # NoRequest
                        /\ requests'[forks'[o].request].fork = o
      OBVIOUS
    <3>1. CASE o = f
      BY <1>6, <1>8, <1>9, <3>1
    <3>2. CASE o # f
      <4>1. o \in Forks \ {f} /\ forks'[o] = forks[o]
        BY <1>9, <3>2
      <4> QED BY <2>3, <4>1
    <3> QED BY <3>1, <3>2
  <2>5. \A o \in Forks : /\ forks'[o].killed => forks'[o].task \notin {"ready", "running"}
                         /\ forks'[o].lineage = "dropped" => forks'[o].killed
    BY <1>9 DEF ForksOK, IInv
  <2> QED BY <2>1, <2>4, <2>5 DEF ForksOK, Recorded
<1>11. /\ proc' \in [Procs -> Proc] /\ proc'[p] = r
       /\ \A q \in Procs \ {p} : proc'[q] = proc[q]
  BY <1>2, <1>3, RowStep
<1>12. TakesLock(p) /\ lock' \in [RequestIds -> Procs \cup {Free}] /\ lock'[id] = p
  BY <1>1, <1>2, <1>11, TakeOK DEF Holding, Creating
<1>13. Types'
  BY <1>7, <1>9, <1>11, <1>12 DEF IInv, Types, bounds
<1>14. ProcOK(p)'
  <2>1. p = Reactor => up
    BY DEF IInv, ProcOK
  <2>2. requests'[id] # NoRequest /\ requests'[id].fork # NoFork
    BY <1>6, <1>8
  <2>3. proc'[p].id = id /\ proc'[p].pc = "origin"
    BY <1>2, <1>11
  <2>4. "origin" \in Holding /\ "origin" \notin Dropping
    BY DEF Holding, Creating, Dropping
  <2> QED BY <1>1, <1>12, <2>1, <2>2, <2>3, <2>4 DEF ProcOK, HasFork, Recorded
<1> QED BY <1>7, <1>10, <1>11, <1>12, <1>13, <1>14, StepOK

LEMMA DiscardOK ==
  ASSUME IInv, NEW p \in Procs, Discard(p)
  PROVE  IInv'
<1> USE DEF Discard
<1> DEFINE id == proc[p].id
           f == requests[id].fork
           g == [forks[f] EXCEPT !.files = {}, !.policy = "none", !.lineage = "none"]
<1>1. /\ proc[p] \in Proc /\ id \in RequestIds /\ HasFork(id)
      /\ f \in Forks /\ forks[f] \in Fork
  <2>1. id \in RequestIds /\ Recorded(id) /\ proc[p] \in Proc
    BY WorkIs
  <2>2. HasFork(id)
    BY <2>1 DEF IInv, RequestsOK
  <2> QED BY <2>1, <2>2, WorkIs DEF ForkOf
<1>2. /\ proc' \in [Procs -> Proc] /\ proc'[p].pc = "close" /\ proc'[p].id = id
      /\ proc'[p].op = proc[p].op /\ \A q \in Procs \ {p} : proc'[q] = proc[q]
  BY GotoIs DEF Holding
<1>3. TakesLock(p) /\ lock' \in [RequestIds -> Procs \cup {Free}] /\ lock'[id] = p
  BY <1>1, <1>2, TakeOK DEF Holding
<1>4. /\ g \in Fork /\ g.request = forks[f].request /\ g.killed = forks[f].killed
      /\ g.task = forks[f].task /\ g.lineage = "none"
  BY <1>1 DEF Fork
<1>5. forks' = [forks EXCEPT ![f] = g]
  BY <1>1 DEF IInv, Types
<1>6. Grows /\ RequestsOK'
  BY RequestsStay
<1> HIDE DEF g
<1>7. forks' \in [Forks -> Fork] /\ Kills /\ ForksOK'
  <2>1. forks[f].killed => forks[f].task \notin {"ready", "running"}
    BY <1>1 DEF IInv, ForksOK
  <2> QED BY <1>1, <1>4, <1>5, <1>6, <2>1, ForkStep
<1>8. Types'
  BY <1>2, <1>3, <1>7 DEF IInv, Types, bounds
<1>9. ProcOK(p)'
  <2>1. p = Reactor => up
    BY DEF IInv, ProcOK
  <2> QED BY <1>1, <1>2, <1>3, <2>1
          DEF ProcOK, Holding, Dropping, Creating, HasFork, Recorded
<1> QED BY <1>2, <1>3, <1>6, <1>7, <1>8, <1>9, StepOK

LEMMA DecisionOK ==
  ASSUME IInv, NEW p \in Procs,
         AnswerDecided(p) \/ Refuse(p) \/ CloseUndecided(p)
  PROVE  IInv'
<1>1. CASE AnswerDecided(p)
  BY <1>1, AnsweredOK DEF AnswerDecided
<1>2. CASE Refuse(p)
  BY <1>2, AnsweredOK DEF Refuse
<1>3. CASE CloseUndecided(p)
  BY <1>3, AnsweredOK DEF CloseUndecided
<1> QED BY <1>1, <1>2, <1>3

\* A process writes its request's last word and leaves the lock.
LEMMA LeavesOK ==
  ASSUME IInv, NEW p \in Procs, proc[p].pc \in Holding, Leave(p),
         NEW rq \in Request, requests' = [requests EXCEPT ![proc[p].id] = rq],
         rq.fork = requests[proc[p].id].fork,
         UNCHANGED <<source, forks, todo, up, bounds>>
  PROVE  IInv'
<1> DEFINE id == proc[p].id
<1>1. id \in RequestIds /\ HasFork(id) /\ Recorded(id)
  BY WorkIs DEF Holding, Creating, HasFork
<1>2. requests' \in [RequestIds -> Request \cup {NoRequest}] /\ Grows /\ RequestsOK'
  BY <1>1, RequestStep DEF HasFork
<1>3. /\ ProcOK(p)' /\ proc'[p].pc \notin Holding /\ proc' \in [Procs -> Proc]
      /\ \A q \in Procs \ {p} : proc'[q] = proc[q]
  BY ReturnOK DEF Leave, Holding, Creating
<1>4. GivesLock(p) /\ lock' \in [RequestIds -> Procs \cup {Free}]
  BY <1>3 DEF GivesLock, Leave, IInv, Types
<1>5. Types'
  BY <1>2, <1>3, <1>4 DEF IInv, Types, bounds
<1> QED BY <1>2, <1>3, <1>4, <1>5, ForksStay, StepOK

LEMMA LeavingOK ==
  ASSUME IInv, NEW p \in Procs, CloseCreating(p) \/ RecordApproved(p) \/ FailCreation(p)
  PROVE  IInv'
<1> DEFINE id == proc[p].id
<1>1. proc[p].pc \in Holding
  BY DEF CloseCreating, RecordApproved, FailCreation, Holding
<1>2. id \in RequestIds /\ requests[id] \in Request
  BY <1>1, WorkIs DEF Holding, Creating, HasFork
<1>3. CASE CloseCreating(p)
  <2> DEFINE rq == [requests[id] EXCEPT !.state = proc[p].op]
  <2>1. proc[p].op \in {"rejected", "cancelled"}
    BY <1>3 DEF IInv, ProcOK, CloseCreating
  <2>2. rq \in Request /\ rq.fork = requests[id].fork
    BY <1>2, <2>1 DEF Request, Closed
  <2>3. requests' = [requests EXCEPT ![id] = rq]
    BY <1>2, <1>3 DEF CloseCreating
  <2> HIDE DEF rq
  <2> QED BY <1>1, <1>3, <2>2, <2>3, LeavesOK DEF CloseCreating
<1>4. CASE RecordApproved(p)
  <2> DEFINE rq == [requests[id] EXCEPT !.state = "approved"]
  <2>1. rq \in Request /\ rq.fork = requests[id].fork
    BY <1>2 DEF Request
  <2>2. requests' = [requests EXCEPT ![id] = rq]
    BY <1>2, <1>4 DEF RecordApproved
  <2> HIDE DEF rq
  <2> QED BY <1>1, <1>4, <2>1, <2>2, LeavesOK DEF RecordApproved
<1>5. CASE FailCreation(p)
  <2> DEFINE rq == [requests[id] EXCEPT !.state = "creating", !.failed = TRUE]
  <2>1. rq \in Request /\ rq.fork = requests[id].fork
    BY <1>2 DEF Request, Undecided
  <2>2. requests' = [requests EXCEPT ![id] = rq]
    BY <1>2, <1>5 DEF FailCreation, IInv, Types
  <2> HIDE DEF rq
  <2> QED BY <1>1, <1>5, <2>1, <2>2, LeavesOK DEF FailCreation
<1> QED BY <1>3, <1>4, <1>5

-----------------------------------------------------------------------------
(* The creation *)

LEMMA CreationOK ==
  ASSUME IInv, NEW p \in Procs,
         \/ Materialise(p) \/ WriteLineage(p) \/ SeedReserve(p) \/ PublishInitial(p)
         \/ Promote(p)
  PROVE  IInv'
<1> DEFINE f == forks[ForkOf(p)]
<1>1. proc[p].pc \in Holding /\ proc[p].pc \in Creating
  BY DEF Materialise, WriteLineage, SeedReserve, PublishInitial, Promote, Holding,
         Creating, Steps
<1>2. proc[p] \in Proc /\ ForkOf(p) \in Forks /\ f \in Fork
  BY <1>1, WorkIs DEF Holding, Creating
<1>3. CASE Materialise(p)
  <2> DEFINE r == proc[p].pc
             g == [f EXCEPT !.files = @ \cup {r},
                     !.policy = IF r = "binding" /\ @ = "none" THEN "pinned" ELSE @,
                     !.attempt = IF r = "binding" THEN proc[p].attempt ELSE @]
  <2>1. r \in Resource /\ Steps[r] \in Creating /\ Goto(p, Steps[r])
    BY <1>3 DEF Materialise, Steps, Resource, Creating
  <2>2. g \in Fork /\ g.request = f.request /\ g.killed = f.killed /\ g.task = f.task
        /\ g.lineage = f.lineage
    BY <1>2, <2>1 DEF Fork, Proc
  <2>3. forks' = [forks EXCEPT ![ForkOf(p)] = g]
    BY <1>3 DEF Materialise, Put
  <2>4. "close" \notin Creating
    BY DEF Creating
  <2> HIDE DEF g, r
  <2> QED BY <1>1, <1>3, <2>1, <2>2, <2>3, <2>4, CreationStep DEF Materialise
<1>4. CASE WriteLineage(p)
  <2> DEFINE g == [f EXCEPT !.lineage = "creating"]
  <2>1. g \in Fork /\ g.request = f.request /\ g.killed = f.killed /\ g.task = f.task
        /\ g.lineage = "creating"
    BY <1>2 DEF Fork
  <2>2. forks' = [forks EXCEPT ![ForkOf(p)] = g]
    BY <1>2, <1>4 DEF WriteLineage
  <2> HIDE DEF g
  <2> QED BY <1>1, <1>4, <2>1, <2>2, CreationStep DEF WriteLineage, Creating
<1>5. CASE SeedReserve(p)
  <2> DEFINE g == [f EXCEPT !.seeded = TRUE]
  <2>1. g \in Fork /\ g.request = f.request /\ g.killed = f.killed /\ g.task = f.task
        /\ g.lineage = f.lineage
    BY <1>2 DEF Fork
  <2>2. forks' = [forks EXCEPT ![ForkOf(p)] = g]
    BY <1>2, <1>5 DEF SeedReserve
  <2>3. PICK pc \in {"plan", "ready"} : Goto(p, pc)
    BY <1>5 DEF SeedReserve
  <2> HIDE DEF g
  <2> QED BY <1>1, <1>5, <2>1, <2>2, <2>3, CreationStep DEF SeedReserve, Creating
<1>6. CASE PublishInitial(p)
  <2> DEFINE k == proc[p].pc
             g == [Sent(f, k) EXCEPT !.published = @ \cup {k}]
  <2>1. k \in {"plan", "ready"}
    BY <1>6 DEF PublishInitial
  <2>2. g \in Fork /\ g.request = f.request /\ g.killed = f.killed /\ g.task = f.task
        /\ g.lineage = f.lineage
    <3>1. /\ Sent(f, k) \in Fork /\ Sent(f, k).request = f.request
          /\ Sent(f, k).killed = f.killed /\ Sent(f, k).task = f.task
          /\ Sent(f, k).lineage = f.lineage
      BY <1>2, <2>1, SentIs DEF Signals
    <3> QED BY <2>1, <3>1 DEF Fork
  <2>3. forks' = [forks EXCEPT ![ForkOf(p)] = g]
    BY <1>6 DEF PublishInitial, Put
  <2>4. PICK pc \in {"ready", "promote"} : Goto(p, pc)
    BY <1>6 DEF PublishInitial
  <2> HIDE DEF g
  <2> QED BY <1>1, <1>6, <2>2, <2>3, <2>4, CreationStep DEF PublishInitial, Creating
<1>7. CASE Promote(p)
  <2>1. PICK g \in {f, [f EXCEPT !.lineage = "runnable"]} : forks' = [forks EXCEPT ![ForkOf(p)] = g]
    BY <1>2, <1>7 DEF Promote, IInv, Types
  <2>2. g \in Fork /\ g.request = f.request /\ g.killed = f.killed /\ g.task = f.task
        /\ (g.lineage # "dropped" \/ g.lineage = f.lineage)
    BY <1>2, <2>1 DEF Fork
  <2> QED BY <1>1, <1>7, <2>1, <2>2, CreationStep DEF Promote
<1> QED BY <1>3, <1>4, <1>5, <1>6, <1>7

LEMMA InspectOK ==
  ASSUME IInv, NEW p \in Procs, Inspect(p)
  PROVE  IInv'
<1> USE DEF Inspect
<1> DEFINE f == forks[ForkOf(p)]
           r == [proc[p] EXCEPT !.plan = (f.task = "absent"),
                     !.pc = IF f.task \in {"absent", "planned"} THEN "seed" ELSE "promote"]
<1>1. proc[p] \in Proc /\ proc[p].id \in RequestIds /\ HasFork(proc[p].id)
  BY WorkIs DEF Holding, Creating
<1>2. r \in Proc /\ r.pc \in {"seed", "promote"} /\ r.id = proc[p].id
  BY <1>1 DEF Proc, Holding, Creating
<1>3. proc' = [proc EXCEPT ![p] = r]
  BY DEF IInv, Types
<1> HIDE DEF r
<1>4. /\ proc' \in [Procs -> Proc] /\ proc'[p] = r
      /\ \A q \in Procs \ {p} : proc'[q] = proc[q]
  BY <1>2, <1>3, RowStep
<1>5. Types'
  BY <1>4 DEF IInv, Types, bounds
<1>6. KeepsLock(p)
  BY <1>2, <1>4 DEF KeepsLock, Holding, Creating
<1>7. ProcOK(p)'
  <2>1. (p = Reactor => up) /\ lock[proc[p].id] = p
    BY DEF IInv, ProcOK, Holding, Creating
  <2> QED BY <1>1, <1>2, <1>4, <2>1 DEF ProcOK, Holding, Dropping, Creating, HasFork, Recorded
<1> QED BY <1>4, <1>5, <1>6, <1>7, RequestsStay, ForksStay, StepOK

-----------------------------------------------------------------------------
(* Crashes, the recovery, the drop *)

\* Processes that die hold nothing any more.
LEMMA DiesOK ==
  ASSUME IInv, NEW p \in Procs, Died(p), UNCHANGED <<source, requests, forks, calls>>,
         crashes' \in 0..MaxCrashes, todo' \subseteq todo,
         up' \in BOOLEAN, up' = up \/ p = Reactor
  PROVE  IInv'
<1>1. /\ proc' \in [Procs -> Proc] /\ proc'[p] = Idle
      /\ \A q \in Procs \ {p} : proc'[q] = proc[q]
  BY IdleIs, RowStep DEF Died
<1>2. /\ lock' \in [RequestIds -> Procs \cup {Free}]
      /\ \A id \in RequestIds : lock'[id] = IF lock[id] = p THEN Free ELSE lock[id]
  BY DEF Died, IInv, Types
<1>3. Types'
  BY <1>1, <1>2 DEF IInv, Types
<1>4. Grows /\ RequestsOK' /\ Kills /\ ForksOK'
  BY RequestsStay, ForksStay
<1>5. \A q \in Procs \ {p} : proc[q].pc \in Holding => lock'[proc[q].id] = q
  BY <1>2 DEF IInv, ProcOK, Holding, Creating
<1>6. ProcOK(p)'
  BY <1>1, IdleIs DEF ProcOK, Holding, Dropping, Creating
<1>7. \A q \in Procs : ProcOK(q)'
  BY <1>1, <1>4, <1>5, <1>6, Others
<1>8. LocksOK'
  <2> SUFFICES ASSUME NEW id \in RequestIds, lock'[id] # Free
               PROVE  proc'[lock'[id]].id = id /\ proc'[lock'[id]].pc \in Holding
    BY DEF LocksOK
  <2>1. lock'[id] = lock[id] /\ lock[id] # p /\ lock[id] \in Procs
    BY <1>2 DEF IInv, Types
  <2> QED BY <1>1, <2>1 DEF IInv, LocksOK
<1> QED BY <1>3, <1>4, <1>7, <1>8 DEF IInv

LEMMA CrashOK ==
  ASSUME IInv, (\E p \in Operators : Crash(p)) \/ ReactorStops
  PROVE  IInv'
<1>1. crashes \in Nat /\ MaxCrashes \in Nat
  BY ForkAssumption DEF IInv, Types
<1>2. ASSUME NEW p \in Operators, Crash(p) PROVE IInv'
  <2>1. p \in Procs /\ up \in BOOLEAN
    BY Names DEF IInv, Types
  <2> QED BY <1>1, <1>2, <2>1, DiesOK DEF Crash
<1>3. CASE ReactorStops
  <2>1. crashes' \in 0..MaxCrashes /\ todo' \subseteq todo /\ up' \in BOOLEAN
    <3>1. crashes < MaxCrashes /\ crashes' = crashes + 1 /\ todo' = {}
      BY <1>3 DEF ReactorStops
    <3>2. crashes' \in 0..MaxCrashes
      BY <1>1, <3>1
    <3>3. todo' \subseteq todo
      BY <3>1
    <3>4. up' \in BOOLEAN
      <4>1. up' = FALSE
        BY <1>3 DEF ReactorStops
      <4>2. FALSE \in BOOLEAN
        OBVIOUS
      <4> QED BY ONLY <4>1, <4>2, Zenon
    <3> QED BY <3>2, <3>3, <3>4
  <2>2. Reactor \in Procs /\ Died(Reactor) /\ UNCHANGED <<source, requests, forks, calls>>
    BY <1>3, Names DEF ReactorStops
  <2> QED BY <2>1, <2>2, DiesOK
<1> QED BY <1>2, <1>3

LEMMA StartsOK ==
  ASSUME IInv, ReactorStarts
  PROVE  IInv'
<1> USE DEF ReactorStarts
<1>1. PICK pc \in {"idle", "recover"} : proc' = [proc EXCEPT ![Reactor].pc = pc]
  OBVIOUS
<1>2. /\ proc' \in [Procs -> Proc] /\ proc'[Reactor].pc = pc
      /\ \A q \in Procs \ {Reactor} : proc'[q] = proc[q]
  BY <1>1, GotoIs, Names DEF Goto
<1>3. \A id \in todo' : id \in RequestIds /\ HasFork(id)
  BY DEF IInv, RequestsOK
<1>4. Types'
  BY <1>2, <1>3 DEF IInv, Types, bounds
<1>5. Grows /\ RequestsOK'
  BY <1>3 DEF Grows, RequestsOK, IInv, Recorded, HasFork
<1>6. Kills /\ ForksOK'
  BY <1>5, ForksStay
<1>7. proc[Reactor].pc = "idle"
  BY Names DEF IInv, ProcOK
<1>8. ProcOK(Reactor)'
  BY <1>2 DEF ProcOK, Holding, Dropping, Creating
<1>9. \A q \in Procs \ {Reactor} : ProcOK(q)'
  <2>1. \A q \in Procs : proc[q].pc \in Holding => lock'[proc[q].id] = q
    BY DEF IInv, ProcOK
  <2> QED BY <1>2, <1>5, <1>6, <2>1, Others
<1>10. LocksOK'
  <2>1. \A id \in RequestIds : lock[id] # Free => lock[id] \in Procs /\ lock[id] # Reactor
    BY <1>7 DEF IInv, Types, LocksOK, Holding, Creating
  <2> QED BY <1>2, <2>1 DEF IInv, LocksOK
<1> QED BY <1>4, <1>5, <1>6, <1>8, <1>9, <1>10 DEF IInv

LEMMA RecoverOK ==
  ASSUME IInv, NEW id \in RequestIds, Recover(id)
  PROVE  IInv'
<1> USE DEF Recover
<1>1. /\ Reactor \in Procs /\ HasFork(id) /\ Recorded(id) /\ requests[id] \in Request
      /\ todo' \subseteq todo /\ up
  BY Names DEF IInv, RequestsOK, HasFork, Recorded, Types, ProcOK
<1>2. KeepsLock(Reactor)
  BY DEF KeepsLock, Holding, Creating
<1>3. CASE forks[requests[id].fork].lineage = "dropped"
  <2> DEFINE rq == [requests[id] EXCEPT !.state = "cancelled"]
  <2>1. rq \in Request /\ rq.fork = requests[id].fork /\ rq.state = "cancelled"
    BY <1>1 DEF Request, Closed
  <2>2. requests' = [requests EXCEPT ![id] = rq]
    BY <1>3
  <2> HIDE DEF rq
  <2>3. requests' \in [RequestIds -> Request \cup {NoRequest}] /\ Grows /\ RequestsOK'
    BY <1>1, <2>1, <2>2, RequestStep
  <2>4. PICK pc \in {"idle", "recover"} : Goto(Reactor, pc)
    BY <1>3 DEF Goto
  <2>5. /\ proc' \in [Procs -> Proc] /\ proc'[Reactor].pc = pc
        /\ \A q \in Procs \ {Reactor} : proc'[q] = proc[q]
    BY <1>1, <2>4, GotoIs
  <2>6. Types'
    BY <1>1, <2>3, <2>5 DEF IInv, Types, bounds
  <2>7. ProcOK(Reactor)'
    BY <1>1, <2>5 DEF ProcOK, Holding, Dropping, Creating
  <2> QED BY <1>1, <1>2, <2>3, <2>5, <2>6, <2>7, ForksStay, StepOK
<1>4. CASE forks[requests[id].fork].lineage # "dropped"
  <2> DEFINE r == [Idle EXCEPT !.pc = "decide", !.op = "approve", !.id = id]
  <2>1. r \in Proc /\ r.pc = "decide" /\ r.id = id
    BY DEF Idle, Proc, Content, Origin, Lineage, Holding, Creating
  <2>2. proc' = [proc EXCEPT ![Reactor] = r]
    BY <1>4
  <2> HIDE DEF r
  <2>3. /\ proc' \in [Procs -> Proc] /\ proc'[Reactor] = r
        /\ \A q \in Procs \ {Reactor} : proc'[q] = proc[q]
    BY <1>1, <2>1, <2>2, RowStep
  <2>4. requests' = requests
    BY <1>4
  <2>5. Types'
    BY <1>1, <2>3, <2>4 DEF IInv, Types, bounds
  <2>6. ProcOK(Reactor)'
    BY <1>1, <2>1, <2>3, <2>4 DEF ProcOK, Holding, Dropping, Creating, Recorded
  <2> QED BY <1>1, <1>2, <2>3, <2>4, <2>5, <2>6, RequestsStay, ForksStay, StepOK
<1> QED BY <1>3, <1>4

\* A step of a drop on its fork, and where it goes next.
LEMMA DroppingOK ==
  ASSUME IInv, NEW p \in Procs, p # Reactor, proc[p].pc \in Dropping,
         NEW g \in Fork, forks' = [forks EXCEPT ![ForkOf(p)] = g],
         g.request = forks[ForkOf(p)].request, forks[ForkOf(p)].killed => g.killed,
         g.killed => g.task \notin {"ready", "running"},
         g.lineage = "dropped" => g.killed,
         \/ Return(p)
         \/ \E pc \in {"wait", "remove", "drop"} : Goto(p, pc) /\ (pc # "wait" => g.killed),
         UNCHANGED <<source, requests, lock, todo, up, bounds>>
  PROVE  IInv'
<1> DEFINE id == proc[p].id
<1>1. proc[p] \in Proc /\ id \in RequestIds /\ HasFork(id) /\ ForkOf(p) \in Forks
  BY WorkIs DEF Dropping
<1>2. Grows /\ RequestsOK'
  BY RequestsStay
<1>3. forks' \in [Forks -> Fork] /\ Kills /\ ForksOK' /\ forks'[ForkOf(p)] = g
  BY <1>1, <1>2, ForkStep
<1>4. proc[p].pc \notin Holding \cup {"idle"}
  BY DEF Holding, Creating, Dropping
<1>5. /\ proc' \in [Procs -> Proc] /\ ProcOK(p)'
      /\ \A q \in Procs \ {p} : proc'[q] = proc[q]
  <2>1. CASE Return(p)
    BY <1>4, <2>1, ReturnOK
  <2>2. ASSUME NEW pc \in {"wait", "remove", "drop"}, Goto(p, pc), pc # "wait" => g.killed
        PROVE  /\ proc' \in [Procs -> Proc] /\ ProcOK(p)'
               /\ \A q \in Procs \ {p} : proc'[q] = proc[q]
    <3>1. /\ proc' \in [Procs -> Proc] /\ proc'[p].pc = pc /\ proc'[p].id = id
          /\ \A q \in Procs \ {p} : proc'[q] = proc[q]
      BY <2>2, GotoIs DEF Dropping
    <3>2. requests'[id] # NoRequest /\ requests'[id].fork # NoFork
          /\ forks'[requests'[id].fork] = g
      BY <1>1, <1>3 DEF HasFork, Recorded, ForkOf
    <3> QED BY <1>1, <2>2, <3>1, <3>2
            DEF ProcOK, Holding, Dropping, Creating, HasFork, Recorded
  <2> QED BY <2>1, <2>2
<1>6. Types'
  BY <1>3, <1>5 DEF IInv, Types, bounds
<1>7. KeepsLock(p)
  BY <1>4 DEF KeepsLock
<1> QED BY <1>2, <1>3, <1>5, <1>6, <1>7, StepOK

LEMMA DropStepsOK ==
  ASSUME IInv, NEW p \in Operators,
         PublishKill(p) \/ AwaitKill(p) \/ RemoveWorktree(p) \/ WriteDropped(p)
  PROVE  IInv'
<1> DEFINE f == forks[ForkOf(p)]
<1>1. p \in Procs /\ p # Reactor /\ proc[p].pc \in Dropping
  BY Names DEF PublishKill, AwaitKill, RemoveWorktree, WriteDropped, Dropping
<1>2. proc[p] \in Proc /\ ForkOf(p) \in Forks /\ f \in Fork
  BY <1>1, WorkIs DEF Dropping
<1>3. /\ f.killed => f.task \notin {"ready", "running"}
      /\ f.lineage = "dropped" => f.killed
  BY <1>2 DEF IInv, ForksOK
<1>4. CASE PublishKill(p)
  <2>1. PICK g \in {Sent(f, "kill"), Killed(Sent(f, "kill"))} :
           forks' = [forks EXCEPT ![ForkOf(p)] = g]
    BY <1>4 DEF PublishKill, Put
  <2>2. /\ g \in Fork /\ g.request = f.request /\ (f.killed => g.killed)
        /\ g.killed => g.task \notin {"ready", "running"}
        /\ g.lineage = "dropped" => g.killed
    <3> DEFINE s == Sent(f, "kill")
    <3>1. /\ s \in Fork /\ s.request = f.request /\ s.killed = f.killed /\ s.task = f.task
          /\ s.lineage = f.lineage
      BY <1>2, SentIs DEF Signals
    <3> HIDE DEF s
    <3>2. /\ Killed(s) \in Fork /\ Killed(s).request = f.request /\ Killed(s).killed = TRUE
          /\ Killed(s).task \notin {"ready", "running"}
      BY <1>3, <3>1, KilledIs
    <3>3. CASE g = s
      BY <1>3, <3>1, <3>3
    <3>4. CASE g = Killed(s)
      BY <3>2, <3>4
    <3> QED BY <2>1, <3>3, <3>4 DEF s
  <2> QED BY <1>1, <1>4, <2>1, <2>2, DroppingOK DEF PublishKill
<1>5. CASE AwaitKill(p)
  <2>1. forks' = [forks EXCEPT ![ForkOf(p)] = f]
    BY <1>5 DEF AwaitKill, IInv, Types
  <2>2. Return(p) \/ (Goto(p, "remove") /\ f.killed)
    BY <1>5 DEF AwaitKill, Stopped
  <2> QED BY <1>1, <1>2, <1>3, <1>5, <2>1, <2>2, DroppingOK DEF AwaitKill
<1>6. CASE RemoveWorktree(p)
  <2> DEFINE g == [f EXCEPT !.files = @ \ {"worktree"}]
  <2>1. /\ g \in Fork /\ g.request = f.request /\ g.killed = f.killed
        /\ g.task = f.task /\ g.lineage = f.lineage
    BY <1>2 DEF Fork
  <2>2. forks' = [forks EXCEPT ![ForkOf(p)] = g]
    BY <1>2, <1>6 DEF RemoveWorktree
  <2>3. Return(p) \/ (Goto(p, "drop") /\ f.killed)
    <3>1. proc[p].seen # "dropped" => f.killed
      BY <1>1, <1>6 DEF RemoveWorktree, IInv, ProcOK, ForkOf
    <3> QED BY <1>6, <3>1 DEF RemoveWorktree
  <2> HIDE DEF g
  <2> QED BY <1>1, <1>3, <1>6, <2>1, <2>2, <2>3, DroppingOK DEF RemoveWorktree
<1>7. CASE WriteDropped(p)
  <2> DEFINE g == [f EXCEPT !.lineage = "dropped"]
  <2>1. f.killed
    BY <1>1, <1>7 DEF WriteDropped, IInv, ProcOK, ForkOf
  <2>2. /\ g \in Fork /\ g.request = f.request /\ g.killed = f.killed /\ g.task = f.task
    BY <1>2 DEF Fork
  <2>3. forks' = [forks EXCEPT ![ForkOf(p)] = g]
    BY <1>2, <1>7 DEF WriteDropped
  <2> HIDE DEF g
  <2> QED BY <1>1, <1>3, <1>7, <2>1, <2>2, <2>3, DroppingOK DEF WriteDropped
<1> QED BY <1>4, <1>5, <1>6, <1>7

-----------------------------------------------------------------------------
(* The reactor and the rest of the world *)

LEMMA ReactionOK ==
  ASSUME IInv, NEW f \in Forks, Reaction(f)
  PROVE  IInv'
<1> DEFINE o == forks[f]
<1>1. /\ o \in Fork /\ o.killed \in BOOLEAN /\ o.task \in TaskStatus
      /\ o.killed => o.task \notin {"ready", "running"}
      /\ o.lineage = "dropped" => o.killed
  BY DEF IInv, Types, ForksOK, Fork
<1>2. ASSUME NEW k \in Signals, o.inbox[k] > 0
      PROVE  /\ Taken(f, k) \in Fork /\ Taken(f, k).request = o.request
             /\ Taken(f, k).killed = o.killed /\ Taken(f, k).task = o.task
             /\ Taken(f, k).lineage = o.lineage
  <2> DEFINE inbox == [o.inbox EXCEPT ![k] = @ - 1]
  <2>1. inbox \in [Signals -> Nat]
    BY <1>1, <1>2 DEF Fork
  <2>2. Bound(f) \in {"none", "pinned", "editable"}
    BY <1>1 DEF Bound, Fork
  <2>3. Taken(f, k) = [o EXCEPT !.inbox = inbox, !.policy = Bound(f)]
    BY <1>1 DEF Taken, Fork
  <2> HIDE DEF inbox
  <2> QED BY <1>1, <2>1, <2>2, <2>3 DEF Fork
<1>3. PICK g \in Fork :
         /\ forks' = [forks EXCEPT ![f] = g] /\ g.request = o.request
         /\ o.killed => g.killed
         /\ g.killed => g.task \notin {"ready", "running"}
         /\ g.lineage = "dropped" => g.killed
  <2>1. CASE HandlePlan(f)
    <3> DEFINE t == Taken(f, "plan")
               s == IF t.task # "absent" THEN t.task
                    ELSE IF o.parked /\ ~o.killed THEN "ready" ELSE "planned"
               g == [t EXCEPT !.parked = FALSE, !.task = s]
    <3>1. /\ t \in Fork /\ t.request = o.request /\ t.killed = o.killed /\ t.task = o.task
          /\ t.lineage = o.lineage
      BY <1>2, <2>1 DEF HandlePlan, Signals
    <3>2. forks' = [forks EXCEPT ![f] = g]
      BY <2>1 DEF HandlePlan, Put
    <3> HIDE DEF t
    <3>3. s \in TaskStatus /\ (o.killed => s \notin {"ready", "running"})
      BY <1>1, <3>1 DEF TaskStatus
    <3> HIDE DEF s
    <3>4. g \in Fork /\ g.request = o.request /\ g.killed = o.killed /\ g.lineage = o.lineage
          /\ g.task = s
      BY <3>1, <3>3 DEF Fork
    <3> HIDE DEF g
    <3> QED BY <1>1, <3>2, <3>3, <3>4
  <2>2. CASE HandleReady(f)
    <3> DEFINE t == Taken(f, "ready")
               kept == (t.parked \/ o.task = "absent") /\ ~o.killed
               s == IF ~o.killed /\ o.task \in {"planned", "failed", "running"}
                    THEN "ready" ELSE t.task
               g == [t EXCEPT !.parked = kept, !.task = s]
    <3>1. /\ t \in Fork /\ t.request = o.request /\ t.killed = o.killed /\ t.task = o.task
          /\ t.lineage = o.lineage
      BY <1>2, <2>2 DEF HandleReady, Signals
    <3>2. forks' = [forks EXCEPT ![f] = g]
      BY <2>2 DEF HandleReady, Put
    <3> HIDE DEF t
    <3>3. s \in TaskStatus /\ (o.killed => s \notin {"ready", "running"})
      BY <1>1, <3>1 DEF TaskStatus
    <3>4. kept \in BOOLEAN
      OBVIOUS
    <3> HIDE DEF s, kept
    <3>5. g \in Fork /\ g.request = o.request /\ g.killed = o.killed /\ g.lineage = o.lineage
          /\ g.task = s
      BY <3>1, <3>3, <3>4 DEF Fork
    <3> HIDE DEF g
    <3> QED BY <1>1, <3>2, <3>3, <3>5
  <2>3. CASE HandleKill(f)
    <3> DEFINE t == Taken(f, "kill")
    <3>1. t \in Fork /\ t.request = o.request /\ t.killed = o.killed /\ t.task = o.task
      BY <1>2, <2>3 DEF HandleKill, Signals
    <3>2. forks' = [forks EXCEPT ![f] = Killed(t)]
      BY <2>3 DEF HandleKill, Put
    <3> HIDE DEF t
    <3> QED BY <1>1, <3>1, <3>2, KilledIs
  <2>4. CASE Dispatch(f) \/ Finish(f)
    <3>1. PICK s \in {"running", "failed", "completed"} : forks' = [forks EXCEPT ![f].task = s]
      BY <2>4 DEF Dispatch, Finish
    <3>2. ~o.killed
      BY <1>1, <2>4 DEF Dispatch, Finish
    <3> DEFINE g == [o EXCEPT !.task = s]
    <3>3. g \in Fork /\ g.request = o.request /\ g.killed = o.killed /\ g.lineage = o.lineage
      BY <1>1 DEF Fork, TaskStatus
    <3>4. forks' = [forks EXCEPT ![f] = g]
      BY <3>1
    <3> HIDE DEF g
    <3> QED BY <1>1, <3>2, <3>3, <3>4
  <2> QED BY <2>1, <2>2, <2>3, <2>4 DEF Reaction
<1>4. UNCHANGED <<source, requests, lock, proc, todo, up, bounds>>
  BY DEF Reaction, HandlePlan, HandleReady, HandleKill, Dispatch, Finish
<1>5. Grows /\ RequestsOK'
  BY <1>4, RequestsStay
<1>6. forks' \in [Forks -> Fork] /\ Kills /\ ForksOK'
  BY <1>3, <1>5, ForkStep
<1>7. Types'
  BY <1>4, <1>6 DEF IInv, Types, bounds
<1> QED BY <1>4, <1>5, <1>6, <1>7, AmbientOK

LEMMA WorldOK ==
  ASSUME IInv, SourceRetry \/ SourceLost \/ (\E id \in RequestIds : Expire(id))
  PROVE  IInv'
<1>1. CASE SourceRetry \/ SourceLost
  <2>1. UNCHANGED <<requests, lock, forks, proc, todo, up, bounds>>
    BY <1>1 DEF SourceRetry, SourceLost
  <2>2. source' \in [attempts: Nat, readable: BOOLEAN]
    <3>1. source \in [attempts: Nat, readable: BOOLEAN]
      BY DEF IInv, Types
    <3>2. \/ source' = [source EXCEPT !.attempts = @ + 1]
          \/ source' = [source EXCEPT !.readable = FALSE]
      BY <1>1 DEF SourceRetry, SourceLost
    <3>3. CASE source' = [source EXCEPT !.attempts = @ + 1]
      <4>1. source.attempts + 1 \in Nat /\ source.readable \in BOOLEAN
        BY <3>1
      <4>2. source' = [attempts |-> source.attempts + 1, readable |-> source.readable]
        BY <3>1, <3>3
      <4> QED BY ONLY <4>1, <4>2
    <3>4. CASE source' = [source EXCEPT !.readable = FALSE]
      <4>1. source.attempts \in Nat /\ FALSE \in BOOLEAN
        BY <3>1
      <4>2. source' = [attempts |-> source.attempts, readable |-> FALSE]
        BY <3>1, <3>4
      <4> QED BY ONLY <4>1, <4>2
    <3> QED BY <3>2, <3>3, <3>4
  <2>3. Types'
    BY <2>1, <2>2 DEF IInv, Types, bounds
  <2> QED BY <2>1, <2>3, RequestsStay, ForksStay, AmbientOK
<1>2. ASSUME NEW id \in RequestIds, Expire(id) PROVE IInv'
  <2> DEFINE rq == [requests[id] EXCEPT !.state = "expired"]
  <2>1. Recorded(id) /\ requests[id] \in Request
    BY <1>2 DEF Expire, Recorded, IInv, Types
  <2>2. rq \in Request /\ rq.fork = requests[id].fork /\ rq.state = "expired"
    BY <2>1 DEF Request, Closed
  <2>3. requests' = [requests EXCEPT ![id] = rq]
    BY <1>2 DEF Expire
  <2>4. UNCHANGED <<source, lock, forks, proc, todo, up, bounds>>
    BY <1>2 DEF Expire
  <2> HIDE DEF rq
  <2>5. requests' \in [RequestIds -> Request \cup {NoRequest}] /\ Grows /\ RequestsOK'
    BY <2>1, <2>2, <2>3, <2>4, RequestStep
  <2>6. Types'
    BY <2>4, <2>5 DEF IInv, Types, bounds
  <2> QED BY <2>4, <2>5, <2>6, ForksStay, AmbientOK
<1> QED BY <1>1, <1>2

-----------------------------------------------------------------------------
(* What was announced *)

\* What the ledger and the stream know of a fork was published, and a runnable
\* one was announced in full unless it was stopped.
Announced(g) == g.published = {"plan", "ready"} \/ g.killed
HeardOK(g) ==
    /\ \A k \in {"plan", "ready"} : g.inbox[k] > 0 => k \in g.published
    /\ g.task # "absent" => "plan" \in g.published
    /\ g.parked \/ g.task \in {"ready", "running", "completed", "failed"} =>
          "ready" \in g.published
    /\ g.task = "cancelled" => g.killed
    /\ g.lineage = "runnable" => Announced(g)

\* A creation that starts publishes the plan; a resumed one that does not has
\* found the task.
Starting == {"origin", "binding", "worktree", "attempt", "lineage"}
PublishesOK(p) ==
    LET r == proc[p]
    IN  /\ r.pc \in Starting => r.plan
        /\ (r.pc = "seed" /\ ~r.plan) \/ r.pc = "ready" =>
              "plan" \in forks[ForkOf(p)].published
        /\ r.pc = "promote" => Announced(forks[ForkOf(p)])

HeardInv == (\A f \in Forks : HeardOK(forks[f])) /\ \A p \in Procs : PublishesOK(p)

Announcing == Starting \cup {"seed", "ready", "promote"}
Rises == \A f \in Forks : /\ forks[f].published \subseteq forks'[f].published
                          /\ forks[f].killed => forks'[f].killed

\* What a process has found stays found.
LEMMA OthersFound ==
  ASSUME IInv, Types', Grows, Rises, NEW q \in Procs, proc'[q] = proc[q], PublishesOK(q)
  PROVE  PublishesOK(q)'
<1>1. CASE proc[q].pc \notin Announcing
  BY <1>1 DEF PublishesOK, Announcing
<1>2. CASE proc[q].pc \in Announcing
  <2>1. HasFork(proc[q].id) /\ proc[q].id \in RequestIds /\ ForkOf(q) \in Forks
    BY <1>2, WorkIs DEF Announcing, Starting, Holding, Creating
  <2>2. ForkOf(q)' = ForkOf(q)
    BY <2>1 DEF ForkOf, HasFork, Grows
  <2>3. forks[ForkOf(q)] \in Fork /\ forks'[ForkOf(q)] \in Fork
    BY <2>1 DEF IInv, Types
  <2>4. Announced(forks[ForkOf(q)]) => Announced(forks'[ForkOf(q)])
    BY <2>1, <2>3 DEF Announced, Rises, Fork
  <2>5. "plan" \in forks[ForkOf(q)].published => "plan" \in forks'[ForkOf(q)].published
    BY <2>1 DEF Rises
  <2> QED BY <2>2, <2>4, <2>5 DEF PublishesOK
<1> QED BY <1>1, <1>2

\* A step of one process, and a step of none.
LEMMA HeardStep ==
  ASSUME IInv, Types', HeardInv, Grows, Rises, \A f \in Forks : HeardOK(forks'[f]),
         NEW p \in Procs, \A q \in Procs \ {p} : proc'[q] = proc[q],
         PublishesOK(p)' \/ proc'[p] = proc[p]
  PROVE  HeardInv'
<1>1. \A q \in Procs \ {p} : PublishesOK(q)'
  BY OthersFound DEF HeardInv
<1>2. PublishesOK(p)'
  BY OthersFound DEF HeardInv
<1> QED BY <1>1, <1>2 DEF HeardInv

LEMMA QuietForks ==
  ASSUME HeardInv, UNCHANGED forks
  PROVE  Rises /\ \A f \in Forks : HeardOK(forks'[f])
BY DEF Rises, HeardInv

LEMMA OneFork ==
  ASSUME IInv, HeardInv, NEW f \in Forks, NEW g, forks' = [forks EXCEPT ![f] = g], HeardOK(g),
         forks[f].published \subseteq g.published, forks[f].killed => g.killed
  PROVE  Rises /\ (\A o \in Forks : HeardOK(forks'[o])) /\ forks'[f] = g
<1>1. forks'[f] = g /\ \A o \in Forks \ {f} : forks'[o] = forks[o]
  BY DEF IInv, Types
<1> QED BY <1>1 DEF Rises, HeardInv

\* What is said of a fork is of no other field of it.
LEMMA SameNews ==
  ASSUME NEW g, NEW h, HeardOK(g), h.published = g.published, h.inbox = g.inbox,
         h.task = g.task, h.parked = g.parked, h.killed = g.killed,
         h.lineage = g.lineage \/ h.lineage # "runnable"
  PROVE  HeardOK(h)
BY DEF HeardOK, Announced

LEMMA GrowsWith ==
  ASSUME IInv, NEW id \in RequestIds, NEW rq \in Request,
         requests' = [requests EXCEPT ![id] = rq],
         HasFork(id) => rq.fork = requests[id].fork
  PROVE  Grows
<1>1. requests \in [RequestIds -> Request \cup {NoRequest}] /\ rq # NoRequest
  BY Names DEF IInv, Types
<1> QED BY <1>1 DEF Grows, HasFork, Recorded

LEMMA Restated ==
  ASSUME IInv, NEW id \in RequestIds, Recorded(id),
         NEW s \in Undecided \cup Closed \cup {"approved"}, NEW e \in BOOLEAN,
         requests' = [requests EXCEPT ![id] = [@ EXCEPT !.state = s, !.failed = e]]
  PROVE  Grows
<1> DEFINE rq == [requests[id] EXCEPT !.state = s, !.failed = e]
<1>1. requests[id] \in Request
  BY DEF IInv, Types, Recorded
<1>2. rq \in Request /\ rq.fork = requests[id].fork
  BY <1>1 DEF Request
<1>3. requests' = [requests EXCEPT ![id] = rq]
  OBVIOUS
<1> HIDE DEF rq
<1> QED BY <1>2, <1>3, GrowsWith

\* A step after which its process announces nothing.
LEMMA QuietStep ==
  ASSUME IInv, Types', HeardInv, Grows, Rises, \A f \in Forks : HeardOK(forks'[f]),
         NEW p \in Procs, \A q \in Procs \ {p} : proc'[q] = proc[q],
         proc'[p].pc \notin Announcing
  PROVE  HeardInv'
<1>1. PublishesOK(p)'
  BY DEF PublishesOK, Announcing
<1> QED BY <1>1, HeardStep

LEMMA HeardReturn ==
  ASSUME IInv, NEW p \in Procs, Return(p)
  PROVE  proc'[p].pc \notin Announcing /\ \A q \in Procs \ {p} : proc'[q] = proc[q]
BY ReturnIs DEF IInv, Announcing, Starting
LEMMA HeardGoto ==
  ASSUME IInv, NEW p \in Procs,
         NEW pc \in Holding \cup Dropping \cup {"idle", "record", "decide", "recover"},
         Goto(p, pc)
  PROVE  /\ proc'[p].pc = pc /\ proc'[p].plan = proc[p].plan /\ proc'[p].id = proc[p].id
         /\ \A q \in Procs \ {p} : proc'[q] = proc[q]
<1>1. proc[p] \in Proc
  BY DEF IInv, Types
<1>2. [proc[p] EXCEPT !.pc = pc].plan = proc[p].plan
  BY <1>1 DEF Proc
<1> QED BY <1>2, GotoIs

\* Minting a trail for a request.
LEMMA HeardMint ==
  ASSUME IInv, HeardInv, NEW f \in Forks, NEW id, Mint(f, id)
  PROVE  Rises /\ \A o \in Forks : HeardOK(forks'[o])
<1> DEFINE g == [forks[f] EXCEPT !.request = id]
<1>1. forks[f] \in Fork /\ HeardOK(forks[f])
  BY DEF IInv, Types, HeardInv
<1>2. /\ g.published = forks[f].published /\ g.inbox = forks[f].inbox
      /\ g.task = forks[f].task /\ g.parked = forks[f].parked
      /\ g.killed = forks[f].killed /\ g.lineage = forks[f].lineage
  BY <1>1 DEF Fork
<1>3. forks' = [forks EXCEPT ![f] = g]
  BY DEF Mint
<1> HIDE DEF g
<1> QED BY <1>1, <1>2, <1>3, SameNews, OneFork

LEMMA HeardSubmit ==
  ASSUME IInv, IInv', HeardInv, NEW p \in Operators, NEW id \in RequestIds,
         NEW content, Submit(p, id, content)
  PROVE  HeardInv'
<1>1. p \in Procs /\ Types /\ Types' /\ proc \in [Procs -> Proc]
  BY Names DEF IInv, Types
<1>2. UNCHANGED <<requests, forks>>
  BY DEF Submit
<1>3. PICK r : r.pc = "record" /\ proc' = [proc EXCEPT ![p] = r]
  BY DEF Submit, Idle
<1>4. Grows
  BY <1>2 DEF Grows, Recorded
<1> QED BY <1>1, <1>2, <1>3, <1>4, QuietForks, QuietStep DEF Announcing, Starting

LEMMA HeardCall ==
  ASSUME IInv, IInv', HeardInv, NEW p \in Operators, NEW id \in RequestIds,
         Drop(p, id) \/ (\E op \in {"approve", "rejected", "cancelled"} : Call(p, op, id))
  PROVE  HeardInv'
<1>1. p \in Procs /\ Types /\ Types' /\ proc \in [Procs -> Proc]
  BY Names DEF IInv, Types
<1>2. UNCHANGED <<requests, forks>>
  BY DEF Drop, Call
<1>3. /\ proc'[p].pc \in {"decide", "remove", "kill"}
      /\ \A q \in Procs \ {p} : proc'[q] = proc[q]
  <2>1. CASE Drop(p, id)
    <3> DEFINE f == forks[requests[id].fork]
               row == [Idle EXCEPT !.op = "drop", !.id = id, !.seen = f.lineage,
                         !.pc = IF f.lineage = "dropped" \/ f.killed THEN "remove" ELSE "kill"]
    <3>1. row.pc \in {"remove", "kill"}
      BY DEF Idle
    <3>2. proc' = [proc EXCEPT ![p] = row]
      BY <2>1 DEF Drop
    <3> HIDE DEF row
    <3> QED BY <1>1, <3>1, <3>2
  <2>2. ASSUME NEW op \in {"approve", "rejected", "cancelled"}, Call(p, op, id)
        PROVE  proc'[p].pc = "decide" /\ \A q \in Procs \ {p} : proc'[q] = proc[q]
    <3> DEFINE row == [Idle EXCEPT !.pc = "decide", !.op = op, !.id = id]
    <3>1. row.pc = "decide"
      BY DEF Idle
    <3>2. proc' = [proc EXCEPT ![p] = row]
      BY <2>2 DEF Call
    <3> HIDE DEF row
    <3> QED BY <1>1, <3>1, <3>2
  <2> QED BY <2>1, <2>2
<1>4. Grows
  BY <1>2 DEF Grows, Recorded
<1> QED BY <1>1, <1>2, <1>3, <1>4, QuietForks, QuietStep DEF Announcing, Starting

LEMMA HeardRecord ==
  ASSUME IInv, IInv', HeardInv, NEW p \in Operators, RecordAgent(p) \/ RecordDirect(p)
  PROVE  HeardInv'
<1>1. p \in Procs /\ Types /\ Types' /\ proc \in [Procs -> Proc]
  BY Names DEF IInv, Types
<1>2. CASE RecordAgent(p)
  <2> DEFINE id == proc[p].id
             rq == [state |-> "pending", content |-> proc[p].content,
                    attempt |-> proc[p].attempt, fork |-> NoFork, failed |-> FALSE]
  <2>1. id \in RequestIds /\ proc[p] \in Proc
    BY <1>1, <1>2 DEF RecordAgent, IInv, ProcOK, Types
  <2>2. requests' = requests \/ (~Recorded(id) /\ requests' = [requests EXCEPT ![id] = rq])
    BY <1>2 DEF RecordAgent
  <2>3. Grows
    BY <2>1, <2>2 DEF Grows, Recorded, IInv, Types
  <2> QED BY <1>1, <1>2, <2>3, HeardReturn, QuietForks, QuietStep DEF RecordAgent
<1>3. CASE RecordDirect(p)
  <2> DEFINE id == proc[p].id
  <2>1. id \in RequestIds
    BY <1>1, <1>3 DEF RecordDirect, IInv, ProcOK
  <2>2. proc'[p].pc \notin Announcing /\ \A q \in Procs \ {p} : proc'[q] = proc[q]
    <3>1. Goto(p, "decide") \/ Return(p)
      BY <1>3 DEF RecordDirect
    <3> QED BY <1>1, <3>1, HeardReturn, HeardGoto DEF Announcing, Starting, Holding, Dropping
  <2>3. Grows
    BY <1>3, <2>1 DEF RecordDirect, Grows, Recorded, IInv, Types
  <2>4. Rises /\ \A o \in Forks : HeardOK(forks'[o])
    <3>1. CASE UNCHANGED forks
      BY <3>1, QuietForks
    <3>2. ASSUME NEW f \in FreshFork, Mint(f, id)
          PROVE  Rises /\ \A o \in Forks : HeardOK(forks'[o])
      BY <3>2, FreshForkIs, HeardMint
    <3> QED BY <1>3, <3>1, <3>2 DEF RecordDirect
  <2> QED BY <1>1, <2>2, <2>3, <2>4, QuietStep
<1> QED BY <1>2, <1>3

LEMMA HeardDecision ==
  ASSUME IInv, IInv', HeardInv, NEW p \in Procs, Decision(p)
  PROVE  HeardInv'
<1> DEFINE id == proc[p].id
<1>1. Types /\ Types' /\ proc[p].pc \in {"decide", "close"}
  <2>1. proc[p].pc \in {"decide", "close"}
    <3>1. AnswerDecided(p) \/ ResumeCreation(p) => proc[p].pc = "decide"
      BY DEF AnswerDecided, ResumeCreation
    <3>2. Refuse(p) \/ CloseUndecided(p) => proc[p].pc = "decide"
      BY DEF Refuse, CloseUndecided
    <3>3. StartCreation(p) \/ Discard(p) => proc[p].pc = "decide"
      BY DEF StartCreation, Discard
    <3>4. CloseCreating(p) => proc[p].pc = "close"
      BY DEF CloseCreating
    <3> QED BY <3>1, <3>2, <3>3, <3>4 DEF Decision
  <2> QED BY <2>1 DEF IInv
<1>2. proc[p] \in Proc /\ id \in RequestIds /\ Recorded(id) /\ requests[id] \in Request
  BY <1>1, WorkIs DEF Holding, HasFork
<1>3. CASE AnswerDecided(p)
  <2>1. Grows
    BY <1>3 DEF AnswerDecided, Grows, Recorded
  <2> QED BY <1>1, <1>3, <2>1, HeardReturn, QuietForks, QuietStep DEF AnswerDecided
<1>4. CASE ResumeCreation(p)
  <2>1. Grows
    BY <1>4 DEF ResumeCreation, Grows, Recorded
  <2>2. proc'[p].pc = "inspect" /\ \A q \in Procs \ {p} : proc'[q] = proc[q]
    <3>1. PICK seen : proc' = [proc EXCEPT ![p].pc = "inspect", ![p].seen = seen]
      BY <1>4 DEF ResumeCreation
    <3>2. proc \in [Procs -> Proc]
      BY DEF IInv, Types
    <3> QED BY <1>2, <3>1, <3>2 DEF Proc
  <2> QED BY <1>1, <1>4, <2>1, <2>2, QuietForks, QuietStep DEF ResumeCreation, Announcing, Starting
<1>5. CASE Refuse(p) \/ CloseUndecided(p) \/ CloseCreating(p)
  <2>1. PICK s \in Closed : requests' = [requests EXCEPT ![id].state = s]
    BY <1>5 DEF Refuse, CloseUndecided, CloseCreating, IInv, ProcOK, Closed
  <2>2. Grows
    <3>1. [requests[id] EXCEPT !.state = s] \in Request
          /\ [requests[id] EXCEPT !.state = s].fork = requests[id].fork
      BY <1>2 DEF Request
    <3> QED BY <1>2, <2>1, <3>1, GrowsWith
  <2> QED BY <1>1, <1>5, <2>2, HeardReturn, QuietForks, QuietStep
          DEF Refuse, CloseUndecided, CloseCreating, Leave
<1>6. CASE StartCreation(p)
  <2>1. PICK f \in ForkFor(requests[id]) :
           /\ Mint(f, id)
           /\ requests' = [requests EXCEPT ![id].state = "creating", ![id].fork = f]
    BY <1>6 DEF StartCreation
  <2>2. f \in Forks /\ (requests[id].fork # NoFork => f = requests[id].fork)
    BY <1>2, <2>1, FreshForkIs DEF ForkFor, Request
  <2> DEFINE rq == [requests[id] EXCEPT !.state = "creating", !.fork = f]
  <2>3. rq \in Request /\ rq.fork = f /\ requests' = [requests EXCEPT ![id] = rq]
    BY <1>2, <2>1, <2>2 DEF Request, Undecided, IInv, Types
  <2> HIDE DEF rq
  <2>4. Grows
    BY <1>2, <2>2, <2>3, GrowsWith DEF HasFork
  <2>5. /\ proc'[p].pc = "origin" /\ proc'[p].plan = TRUE
        /\ \A q \in Procs \ {p} : proc'[q] = proc[q]
    <3>1. PICK n : proc' = [proc EXCEPT ![p].pc = "origin", ![p].seen = "creating",
                                        ![p].plan = TRUE, ![p].attempt = n]
      BY <1>6 DEF StartCreation
    <3>2. proc \in [Procs -> Proc]
      BY DEF IInv, Types
    <3> QED BY <1>2, <3>1, <3>2 DEF Proc
  <2>6. PublishesOK(p)'
    BY <2>5 DEF PublishesOK
  <2> QED BY <1>1, <2>1, <2>2, <2>4, <2>5, <2>6, HeardMint, HeardStep
<1>7. CASE Discard(p)
  <2> DEFINE f == requests[id].fork
             g == [forks[f] EXCEPT !.files = {}, !.policy = "none", !.lineage = "none"]
  <2>1. f \in Forks /\ forks[f] \in Fork /\ HeardOK(forks[f])
    <3>1. HasFork(id)
      BY <1>2, <1>7 DEF Discard, IInv, RequestsOK
    <3> QED BY <1>2, <3>1 DEF HasFork, Request, IInv, Types, HeardInv
  <2>2. /\ g.published = forks[f].published /\ g.inbox = forks[f].inbox
        /\ g.task = forks[f].task /\ g.parked = forks[f].parked
        /\ g.killed = forks[f].killed /\ g.lineage = "none"
    BY <2>1 DEF Fork
  <2>3. forks' = [forks EXCEPT ![f] = g]
    BY <1>7 DEF Discard
  <2> HIDE DEF g
  <2>4. Rises /\ \A o \in Forks : HeardOK(forks'[o])
    BY <2>1, <2>2, <2>3, SameNews, OneFork
  <2>5. Grows
    BY <1>7 DEF Discard, Grows, Recorded
  <2> QED BY <1>1, <1>7, <2>4, <2>5, HeardGoto, QuietStep DEF Discard, Announcing, Starting, Holding
<1> QED BY <1>3, <1>4, <1>5, <1>6, <1>7 DEF Decision

\* The last word on a request.
LEMMA HeardLeaving ==
  ASSUME IInv, IInv', HeardInv, NEW p \in Procs, RecordApproved(p) \/ FailCreation(p)
  PROVE  HeardInv'
<1> DEFINE id == proc[p].id
<1>1. Types' /\ proc[p].pc \in Holding
  BY DEF IInv, RecordApproved, FailCreation, Holding
<1>2. id \in RequestIds /\ Recorded(id) /\ requests[id] \in Request
  BY <1>1, WorkIs DEF Holding, Creating, HasFork
<1>3. Grows
  <2>1. CASE RecordApproved(p)
    <3> DEFINE rq == [requests[id] EXCEPT !.state = "approved"]
    <3>1. rq \in Request /\ rq.fork = requests[id].fork
      BY <1>2 DEF Request
    <3>2. requests' = [requests EXCEPT ![id] = rq]
      BY <2>1 DEF RecordApproved
    <3> HIDE DEF rq
    <3> QED BY <1>2, <3>1, <3>2, GrowsWith
  <2>2. CASE FailCreation(p)
    <3> DEFINE rq == [requests[id] EXCEPT !.state = "creating", !.failed = TRUE]
    <3>1. rq \in Request /\ rq.fork = requests[id].fork
      BY <1>2 DEF Request, Undecided
    <3>2. requests' = [requests EXCEPT ![id] = rq]
      BY <1>2, <2>2 DEF FailCreation, IInv, Types
    <3> HIDE DEF rq
    <3> QED BY <1>2, <3>1, <3>2, GrowsWith
  <2> QED BY <2>1, <2>2
<1>4. UNCHANGED forks /\ Return(p)
  BY DEF RecordApproved, FailCreation, Leave
<1> QED BY <1>1, <1>3, <1>4, HeardReturn, QuietForks, QuietStep

\* The fork and the place of a creation.
LEMMA HeardWork ==
  ASSUME IInv, IInv', HeardInv, NEW p \in Procs, proc[p].pc \in Creating,
         UNCHANGED requests, \A q \in Procs \ {p} : proc'[q] = proc[q],
         NEW g \in Fork, forks' = [forks EXCEPT ![ForkOf(p)] = g], HeardOK(g),
         forks[ForkOf(p)].published \subseteq g.published,
         forks[ForkOf(p)].killed => g.killed,
         proc'[p].id = proc[p].id,
         proc'[p].pc \in Starting => proc'[p].plan,
         (proc'[p].pc = "seed" /\ ~proc'[p].plan) \/ proc'[p].pc = "ready" =>
            "plan" \in g.published,
         proc'[p].pc = "promote" => Announced(g)
  PROVE  HeardInv'
<1>1. Grows /\ Types'
  BY DEF Grows, Recorded, IInv
<1>2. ForkOf(p) \in Forks
  BY WorkIs DEF Holding, Creating
<1>3. Rises /\ (\A o \in Forks : HeardOK(forks'[o])) /\ forks'[ForkOf(p)] = g
  BY <1>2, OneFork
<1>4. ForkOf(p)' = ForkOf(p)
  BY DEF ForkOf
<1>5. PublishesOK(p)'
  BY <1>3, <1>4 DEF PublishesOK
<1> QED BY <1>1, <1>3, <1>5, HeardStep

LEMMA HeardMaterialise ==
  ASSUME IInv, IInv', HeardInv, NEW p \in Procs, Materialise(p) \/ WriteLineage(p)
  PROVE  HeardInv'
<1> DEFINE f == forks[ForkOf(p)]
<1>1. proc[p].pc \in Starting /\ proc[p].plan /\ proc[p].pc \in Creating
  BY DEF Materialise, WriteLineage, Starting, Steps, HeardInv, PublishesOK, Creating
<1>2. f \in Fork /\ HeardOK(f) /\ proc[p] \in Proc
  BY <1>1, WorkIs DEF Holding, Creating, HeardInv
<1>3. CASE Materialise(p)
  <2> DEFINE r == proc[p].pc
             g == [f EXCEPT !.files = @ \cup {r},
                     !.policy = IF r = "binding" /\ @ = "none" THEN "pinned" ELSE @,
                     !.attempt = IF r = "binding" THEN proc[p].attempt ELSE @]
  <2>1. r \in Resource /\ Steps[r] \in Starting /\ Goto(p, Steps[r])
    BY <1>3 DEF Materialise, Steps, Resource, Starting
  <2>2. /\ g \in Fork /\ g.published = f.published /\ g.inbox = f.inbox /\ g.task = f.task
        /\ g.parked = f.parked /\ g.killed = f.killed /\ g.lineage = f.lineage
    BY <1>2, <2>1 DEF Fork, Proc
  <2>3. forks' = [forks EXCEPT ![ForkOf(p)] = g]
    BY <1>3 DEF Materialise, Put
  <2>4. UNCHANGED requests
    BY <1>3 DEF Materialise
  <2> HIDE DEF g, r
  <2>5. HeardOK(g)
    BY <1>2, <2>2, SameNews
  <2>6. /\ proc'[p].pc = Steps[r] /\ proc'[p].plan = proc[p].plan /\ proc'[p].id = proc[p].id
        /\ \A q \in Procs \ {p} : proc'[q] = proc[q]
    BY <2>1, HeardGoto DEF Starting, Holding, Creating
  <2>7. Steps[r] \notin {"seed", "ready", "promote"}
    BY <2>1 DEF Starting
  <2> QED BY <1>1, <2>2, <2>3, <2>4, <2>5, <2>6, <2>7, HeardWork
<1>4. CASE WriteLineage(p)
  <2> DEFINE g == [f EXCEPT !.lineage = "creating"]
  <2>1. /\ g \in Fork /\ g.published = f.published /\ g.inbox = f.inbox /\ g.task = f.task
        /\ g.parked = f.parked /\ g.killed = f.killed /\ g.lineage = "creating"
    BY <1>2 DEF Fork
  <2>2. forks' = [forks EXCEPT ![ForkOf(p)] = g] /\ UNCHANGED requests
    BY <1>4 DEF WriteLineage
  <2> HIDE DEF g
  <2>3. HeardOK(g)
    BY <1>2, <2>1, SameNews
  <2>4. /\ proc'[p].pc = "seed" /\ proc'[p].plan = proc[p].plan /\ proc'[p].id = proc[p].id
        /\ \A q \in Procs \ {p} : proc'[q] = proc[q]
    BY <1>4, HeardGoto DEF WriteLineage, Holding, Creating
  <2> QED BY <1>1, <2>1, <2>2, <2>3, <2>4, HeardWork DEF Starting
<1> QED BY <1>3, <1>4

\* A resumed creation goes on from what the ledger shows.
LEMMA HeardInspect ==
  ASSUME IInv, IInv', HeardInv, NEW p \in Procs, Inspect(p)
  PROVE  HeardInv'
<1> DEFINE f == forks[ForkOf(p)]
           r == [proc[p] EXCEPT !.plan = (f.task = "absent"),
                     !.pc = IF f.task \in {"absent", "planned"} THEN "seed" ELSE "promote"]
<1>1. /\ f \in Fork /\ HeardOK(f) /\ proc[p] \in Proc /\ proc[p].pc = "inspect"
      /\ proc[p].pc \in Creating /\ ForkOf(p) \in Forks
  BY WorkIs DEF Inspect, Holding, Creating, HeardInv
<1>2. /\ r.pc = IF f.task \in {"absent", "planned"} THEN "seed" ELSE "promote"
      /\ r.plan = (f.task = "absent") /\ r.id = proc[p].id
  BY <1>1 DEF Proc
<1>3. proc' = [proc EXCEPT ![p] = r]
  BY DEF Inspect, IInv, Types
<1> HIDE DEF r
<1>4. proc'[p] = r /\ \A q \in Procs \ {p} : proc'[q] = proc[q]
  BY <1>3 DEF IInv, Types
<1>5. forks' = [forks EXCEPT ![ForkOf(p)] = f] /\ UNCHANGED requests
  BY DEF Inspect, IInv, Types
<1>6. r.pc = "promote" => Announced(f)
  <2>1. f.task \in TaskStatus /\ f.published \subseteq {"plan", "ready"}
    BY <1>1 DEF Fork
  <2> QED BY <1>1, <1>2, <2>1 DEF HeardOK, Announced, TaskStatus
<1>7. r.pc = "seed" /\ ~r.plan => "plan" \in f.published
  BY <1>1, <1>2 DEF HeardOK
<1>8. r.pc \notin Starting \cup {"ready"}
  BY <1>2 DEF Starting
<1> QED BY <1>1, <1>2, <1>4, <1>5, <1>6, <1>7, <1>8, HeardWork

LEMMA HeardPublish ==
  ASSUME IInv, IInv', HeardInv, NEW p \in Procs, SeedReserve(p) \/ PublishInitial(p)
  PROVE  HeardInv'
<1> DEFINE f == forks[ForkOf(p)]
<1>1. proc[p].pc \in {"seed", "plan", "ready"} /\ proc[p].pc \in Creating
  BY DEF SeedReserve, PublishInitial, Creating
<1>2. f \in Fork /\ HeardOK(f) /\ proc[p] \in Proc /\ PublishesOK(p)
  BY <1>1, WorkIs DEF Holding, Creating, HeardInv
<1>3. CASE SeedReserve(p)
  <2> DEFINE g == [f EXCEPT !.seeded = TRUE]
  <2>1. /\ g \in Fork /\ g.published = f.published /\ g.inbox = f.inbox /\ g.task = f.task
        /\ g.parked = f.parked /\ g.killed = f.killed /\ g.lineage = f.lineage
    BY <1>2 DEF Fork
  <2>2. forks' = [forks EXCEPT ![ForkOf(p)] = g] /\ UNCHANGED requests
    BY <1>3 DEF SeedReserve
  <2> HIDE DEF g
  <2>3. HeardOK(g)
    BY <1>2, <2>1, SameNews
  <2>4. PICK pc \in {"plan", "ready"} : Goto(p, pc) /\ (pc = "ready" => ~proc[p].plan)
    BY <1>3 DEF SeedReserve
  <2>5. /\ proc'[p].pc = pc /\ proc'[p].id = proc[p].id
        /\ \A q \in Procs \ {p} : proc'[q] = proc[q]
    BY <2>4, HeardGoto DEF Holding, Creating
  <2>6. pc = "ready" => "plan" \in g.published
    BY <1>2, <1>3, <2>1, <2>4 DEF PublishesOK, SeedReserve
  <2> QED BY <1>1, <2>1, <2>2, <2>3, <2>5, <2>6, HeardWork DEF Starting
<1>4. CASE PublishInitial(p)
  <2> DEFINE k == proc[p].pc
             inbox == [f.inbox EXCEPT ![k] = @ + 1]
             g == [f EXCEPT !.inbox = inbox, !.published = @ \cup {k}]
  <2>1. k \in {"plan", "ready"}
    BY <1>4 DEF PublishInitial
  <2>2. inbox \in [Signals -> Nat] /\ \A o \in Signals \ {k} : inbox[o] = f.inbox[o]
    BY <1>2, <2>1 DEF Fork, Signals
  <2>3. forks' = [forks EXCEPT ![ForkOf(p)] = g] /\ UNCHANGED requests
    BY <1>2, <1>4 DEF PublishInitial, Put, Sent, Fork
  <2> HIDE DEF inbox
  <2>4. /\ g \in Fork /\ g.published = f.published \cup {k} /\ g.inbox = inbox
        /\ g.task = f.task /\ g.parked = f.parked /\ g.killed = f.killed
        /\ g.lineage = f.lineage
    BY <1>2, <2>1, <2>2 DEF Fork
  <2> HIDE DEF g
  <2>5. k = "ready" => "plan" \in f.published
    BY <1>2 DEF PublishesOK
  <2>6. f.published \subseteq {"plan", "ready"}
    BY <1>2 DEF Fork
  <2>7. HeardOK(g)
    <3>1. \A o \in {"plan", "ready"} : g.inbox[o] > 0 => o \in g.published
      BY <1>2, <2>2, <2>4 DEF HeardOK, Signals
    <3>2. Announced(f) => Announced(g)
      BY <2>1, <2>4, <2>6 DEF Announced
    <3> QED BY <1>2, <2>4, <3>1, <3>2 DEF HeardOK
  <2>8. PICK pc \in {"ready", "promote"} : Goto(p, pc) /\ (pc = "ready" <=> k = "plan")
    BY <1>4 DEF PublishInitial
  <2>9. /\ proc'[p].pc = pc /\ proc'[p].id = proc[p].id
        /\ \A q \in Procs \ {p} : proc'[q] = proc[q]
    BY <2>8, HeardGoto DEF Holding, Creating
  <2>10. pc = "ready" => "plan" \in g.published
    BY <2>4, <2>8
  <2>11. pc = "promote" => Announced(g)
    <3>1. ASSUME pc = "promote" PROVE g.published = {"plan", "ready"}
      <4>1. k = "ready"
        BY <2>1, <2>8, <3>1
      <4> QED BY <2>4, <2>5, <2>6, <4>1
    <3> QED BY <3>1 DEF Announced
  <2> QED BY <1>1, <2>3, <2>4, <2>7, <2>9, <2>10, <2>11, HeardWork DEF Starting
<1> QED BY <1>3, <1>4

LEMMA HeardPromote ==
  ASSUME IInv, IInv', HeardInv, NEW p \in Procs, Promote(p)
  PROVE  HeardInv'
<1> DEFINE f == forks[ForkOf(p)]
<1>1. proc[p].pc = "promote" /\ proc[p].pc \in Creating
  BY DEF Promote, Creating
<1>2. f \in Fork /\ HeardOK(f) /\ Announced(f)
  BY <1>1, WorkIs DEF Holding, Creating, HeardInv, PublishesOK
<1>3. PICK g \in {f, [f EXCEPT !.lineage = "runnable"]} :
         forks' = [forks EXCEPT ![ForkOf(p)] = g]
  BY <1>2 DEF Promote, IInv, Types
<1>4. /\ g \in Fork /\ g.published = f.published /\ g.inbox = f.inbox /\ g.task = f.task
      /\ g.parked = f.parked /\ g.killed = f.killed
  BY <1>2, <1>3 DEF Fork
<1>5. HeardOK(g)
  BY <1>2, <1>4 DEF HeardOK, Announced
<1>6. /\ proc'[p].pc = "approve" /\ proc'[p].id = proc[p].id
      /\ \A q \in Procs \ {p} : proc'[q] = proc[q]
  BY HeardGoto DEF Promote, Holding
<1>7. UNCHANGED requests
  BY DEF Promote
<1> QED BY <1>1, <1>3, <1>4, <1>5, <1>6, <1>7, HeardWork DEF Starting

\* A stop says nothing new.
LEMMA HeardKilled ==
  ASSUME NEW g \in Fork, HeardOK(g)
  PROVE  HeardOK(Killed(g)) /\ Killed(g).published = g.published /\ Killed(g).killed
<1> DEFINE stopped == [g EXCEPT !.killed = TRUE, !.parked = FALSE,
                          !.task = IF @ \in {"planned", "ready", "running"}
                                   THEN "cancelled" ELSE @]
<1>1. CASE g.killed
  <2>1. Killed(g) = g
    BY <1>1 DEF Killed
  <2> QED BY <1>1, <2>1
<1>2. CASE ~ g.killed
  <2>1. /\ stopped.published = g.published /\ stopped.inbox = g.inbox
        /\ stopped.killed = TRUE /\ stopped.parked = FALSE /\ stopped.lineage = g.lineage
        /\ stopped.task \in {g.task, "cancelled"}
        /\ stopped.task = "cancelled" => g.task # "absent"
    BY <1>2 DEF Fork, HeardOK
  <2>2. Killed(g) = stopped
    BY <1>2 DEF Killed
  <2> HIDE DEF stopped
  <2>3. HeardOK(stopped)
    BY <2>1 DEF HeardOK, Announced
  <2> QED BY <2>1, <2>2, <2>3
<1> QED BY <1>1, <1>2 DEF Fork

LEMMA HeardDrop ==
  ASSUME IInv, IInv', HeardInv, NEW p \in Operators,
         PublishKill(p) \/ AwaitKill(p) \/ RemoveWorktree(p) \/ WriteDropped(p)
  PROVE  HeardInv'
<1> DEFINE f == forks[ForkOf(p)]
<1>1. p \in Procs /\ proc[p].pc \in Dropping /\ Types'
  BY Names DEF PublishKill, AwaitKill, RemoveWorktree, WriteDropped, Dropping, IInv
<1>2. ForkOf(p) \in Forks /\ f \in Fork /\ HeardOK(f)
  BY <1>1, WorkIs DEF Dropping, HeardInv
<1>3. UNCHANGED requests /\ Grows
  <2>1. UNCHANGED requests
    BY DEF PublishKill, AwaitKill, RemoveWorktree, WriteDropped
  <2> QED BY <2>1 DEF Grows, Recorded
<1>4. proc'[p].pc \notin Announcing /\ \A q \in Procs \ {p} : proc'[q] = proc[q]
  <2>1. Return(p) \/ \E pc \in {"wait", "remove", "drop"} : Goto(p, pc)
    BY DEF PublishKill, AwaitKill, RemoveWorktree, WriteDropped
  <2> QED BY <1>1, <2>1, HeardReturn, HeardGoto DEF Announcing, Starting, Dropping
<1>5. Rises /\ \A o \in Forks : HeardOK(forks'[o])
  <2>1. CASE PublishKill(p)
    <3> DEFINE s == Sent(f, "kill")
    <3>1. /\ s \in Fork /\ s.killed = f.killed /\ s.task = f.task /\ s.lineage = f.lineage
          /\ s.published = f.published /\ s.parked = f.parked
          /\ \A o \in {"plan", "ready"} : s.inbox[o] = f.inbox[o]
      <4> DEFINE inbox == [f.inbox EXCEPT !["kill"] = @ + 1]
      <4>1. inbox \in [Signals -> Nat] /\ \A o \in {"plan", "ready"} : inbox[o] = f.inbox[o]
        BY <1>2 DEF Fork, Signals
      <4>2. s = [f EXCEPT !.inbox = inbox]
        BY <1>2 DEF Sent, Fork
      <4> HIDE DEF inbox
      <4> QED BY <1>2, <4>1, <4>2 DEF Fork
    <3>2. PICK g \in {s, Killed(s)} : forks' = [forks EXCEPT ![ForkOf(p)] = g]
      BY <2>1 DEF PublishKill, Put
    <3> HIDE DEF s
    <3>3. HeardOK(s)
      BY <1>2, <3>1 DEF HeardOK, Announced
    <3>4. HeardOK(g) /\ g.published = f.published /\ (f.killed => g.killed)
      <4>1. CASE g = s
        BY <3>1, <3>3, <4>1
      <4>2. CASE g = Killed(s)
        BY <3>1, <3>3, <4>2, HeardKilled
      <4> QED BY <3>2, <4>1, <4>2
    <3> QED BY <1>2, <3>2, <3>4, OneFork
  <2>2. CASE AwaitKill(p)
    BY <2>2, QuietForks DEF AwaitKill
  <2>3. CASE RemoveWorktree(p) \/ WriteDropped(p)
    <3>1. PICK g \in {[f EXCEPT !.files = @ \ {"worktree"}], [f EXCEPT !.lineage = "dropped"]} :
             forks' = [forks EXCEPT ![ForkOf(p)] = g]
      BY <2>3 DEF RemoveWorktree, WriteDropped
    <3>2. /\ g.published = f.published /\ g.inbox = f.inbox /\ g.task = f.task
          /\ g.parked = f.parked /\ g.killed = f.killed
          /\ g.lineage = f.lineage \/ g.lineage # "runnable"
      BY <1>2, <3>1 DEF Fork
    <3> QED BY <1>2, <3>1, <3>2, SameNews, OneFork
  <2> QED BY <2>1, <2>2, <2>3
<1> QED BY <1>1, <1>3, <1>4, <1>5, QuietStep

LEMMA HeardReaction ==
  ASSUME IInv, IInv', HeardInv, NEW f \in Forks, Reaction(f)
  PROVE  HeardInv'
<1> DEFINE o == forks[f]
<1>1. o \in Fork /\ HeardOK(o) /\ o.task \in TaskStatus /\ o.killed \in BOOLEAN
  BY DEF IInv, Types, HeardInv, Fork
<1>2. ASSUME NEW k \in Signals, o.inbox[k] > 0
      PROVE  /\ Taken(f, k) \in Fork /\ Taken(f, k).published = o.published
             /\ Taken(f, k).killed = o.killed /\ Taken(f, k).task = o.task
             /\ Taken(f, k).lineage = o.lineage /\ Taken(f, k).parked = o.parked
             /\ HeardOK(Taken(f, k))
  <2> DEFINE inbox == [o.inbox EXCEPT ![k] = @ - 1]
             t == [o EXCEPT !.inbox = inbox, !.policy = Bound(f)]
  <2>1. inbox \in [Signals -> Nat] /\ \A n \in Signals : inbox[n] > 0 => o.inbox[n] > 0
    BY <1>1, <1>2 DEF Fork
  <2>2. Bound(f) \in {"none", "pinned", "editable"}
    BY <1>1 DEF Bound, Fork
  <2>3. Taken(f, k) = t
    BY <1>1 DEF Taken, Fork
  <2> HIDE DEF inbox
  <2>4. /\ t \in Fork /\ t.published = o.published /\ t.killed = o.killed /\ t.task = o.task
        /\ t.lineage = o.lineage /\ t.parked = o.parked /\ t.inbox = inbox
    BY <1>1, <2>1, <2>2 DEF Fork
  <2> HIDE DEF t
  <2>5. HeardOK(t)
    BY <1>1, <2>1, <2>4 DEF HeardOK, Announced, Signals
  <2> QED BY <2>3, <2>4, <2>5
<1>3. PICK g : /\ forks' = [forks EXCEPT ![f] = g] /\ HeardOK(g)
               /\ o.published \subseteq g.published /\ (o.killed => g.killed)
  <2>1. CASE HandlePlan(f)
    <3> DEFINE t == Taken(f, "plan")
               s == IF t.task # "absent" THEN t.task
                    ELSE IF o.parked /\ ~o.killed THEN "ready" ELSE "planned"
               g == [t EXCEPT !.parked = FALSE, !.task = s]
    <3>1. /\ t \in Fork /\ HeardOK(t) /\ t.published = o.published /\ t.killed = o.killed
          /\ t.parked = o.parked
      BY <1>2, <2>1 DEF HandlePlan, Signals
    <3>2. forks' = [forks EXCEPT ![f] = g]
      BY <2>1 DEF HandlePlan, Put
    <3>3. "plan" \in o.published
      BY <1>1, <2>1 DEF HandlePlan, HeardOK
    <3> HIDE DEF t
    <3>4. s = t.task \/ s = "planned" \/ (s = "ready" /\ t.parked)
      BY <3>1
    <3> HIDE DEF s
    <3>5. /\ g.published = t.published /\ g.inbox = t.inbox /\ g.parked = FALSE
          /\ g.killed = t.killed /\ g.lineage = t.lineage /\ g.task = s
      BY <3>1 DEF Fork
    <3> HIDE DEF g
    <3>6. HeardOK(g)
      BY <3>1, <3>3, <3>4, <3>5 DEF HeardOK, Announced
    <3> QED BY <3>1, <3>2, <3>5, <3>6
  <2>2. CASE HandleReady(f)
    <3> DEFINE t == Taken(f, "ready")
               kept == (t.parked \/ o.task = "absent") /\ ~o.killed
               s == IF ~o.killed /\ o.task \in {"planned", "failed", "running"}
                    THEN "ready" ELSE t.task
               g == [t EXCEPT !.parked = kept, !.task = s]
    <3>1. /\ t \in Fork /\ HeardOK(t) /\ t.published = o.published /\ t.killed = o.killed
          /\ t.task = o.task
      BY <1>2, <2>2 DEF HandleReady, Signals
    <3>2. forks' = [forks EXCEPT ![f] = g]
      BY <2>2 DEF HandleReady, Put
    <3>3. "ready" \in o.published
      BY <1>1, <2>2 DEF HandleReady, HeardOK
    <3> HIDE DEF t
    <3>4. s = t.task \/ (s = "ready" /\ t.task # "absent")
      BY <3>1
    <3> HIDE DEF s
    <3>5. /\ g.published = t.published /\ g.inbox = t.inbox
          /\ g.killed = t.killed /\ g.lineage = t.lineage /\ g.task = s
      BY <3>1 DEF Fork
    <3> HIDE DEF g
    <3>6. HeardOK(g)
      BY <3>1, <3>3, <3>4, <3>5 DEF HeardOK, Announced
    <3> QED BY <3>1, <3>2, <3>5, <3>6
  <2>3. CASE HandleKill(f)
    <3> DEFINE t == Taken(f, "kill")
    <3>1. t \in Fork /\ HeardOK(t) /\ t.published = o.published
      BY <1>2, <2>3 DEF HandleKill, Signals
    <3>2. forks' = [forks EXCEPT ![f] = Killed(t)]
      BY <2>3 DEF HandleKill, Put
    <3> HIDE DEF t
    <3> QED BY <3>1, <3>2, HeardKilled
  <2>4. CASE Dispatch(f) \/ Finish(f)
    <3>1. PICK s \in {"running", "failed", "completed"} : forks' = [forks EXCEPT ![f].task = s]
      BY <2>4 DEF Dispatch, Finish
    <3>2. o.task \in {"ready", "running"}
      BY <2>4 DEF Dispatch, Finish
    <3> DEFINE g == [o EXCEPT !.task = s]
    <3>3. /\ g.published = o.published /\ g.inbox = o.inbox /\ g.parked = o.parked
          /\ g.killed = o.killed /\ g.lineage = o.lineage /\ g.task = s
      BY <1>1 DEF Fork
    <3>4. forks' = [forks EXCEPT ![f] = g]
      BY <3>1
    <3> HIDE DEF g
    <3>5. HeardOK(g)
      BY <1>1, <3>2, <3>3 DEF HeardOK, Announced
    <3> QED BY <3>3, <3>4, <3>5
  <2> QED BY <2>1, <2>2, <2>3, <2>4 DEF Reaction
<1>4. UNCHANGED <<requests, proc>>
  BY DEF Reaction, HandlePlan, HandleReady, HandleKill, Dispatch, Finish
<1>5. Rises /\ \A n \in Forks : HeardOK(forks'[n])
  BY <1>1, <1>3, OneFork
<1>6. Grows /\ Types'
  BY <1>4 DEF Grows, Recorded, IInv
<1> QED BY <1>4, <1>5, <1>6, Names, HeardStep

LEMMA HeardWorld ==
  ASSUME IInv, IInv', HeardInv,
         \/ SourceRetry \/ SourceLost \/ ReactorStops \/ ReactorStarts
         \/ \E p \in Operators : Crash(p)
         \/ \E id \in RequestIds : Expire(id)
  PROVE  HeardInv'
<1>1. Types /\ Types' /\ UNCHANGED forks /\ proc \in [Procs -> Proc] /\ Reactor \in Procs
  <2>1. UNCHANGED forks
    BY DEF SourceRetry, SourceLost, ReactorStops, ReactorStarts, Crash, Expire
  <2> QED BY <2>1, Names DEF IInv, Types
<1>2. CASE SourceRetry \/ SourceLost
  <2>1. UNCHANGED <<requests, proc>>
    BY <1>2 DEF SourceRetry, SourceLost
  <2>2. Grows
    BY <2>1 DEF Grows, Recorded
  <2> QED BY <1>1, <2>1, <2>2, QuietForks, HeardStep
<1>3. ASSUME NEW p \in Procs, Died(p), UNCHANGED requests PROVE HeardInv'
  <2>1. proc'[p] = Idle /\ \A q \in Procs \ {p} : proc'[q] = proc[q]
    BY <1>1, <1>3 DEF Died
  <2>2. Grows
    BY <1>3 DEF Grows, Recorded
  <2>3. proc'[p].pc \notin Announcing
    BY <2>1 DEF Idle, Announcing, Starting
  <2> QED BY <1>1, <2>1, <2>2, <2>3, QuietForks, QuietStep
<1>4. CASE ReactorStops \/ \E p \in Operators : Crash(p)
  BY <1>1, <1>3, <1>4, Names DEF ReactorStops, Crash
<1>5. CASE ReactorStarts
  <2>1. PICK pc \in {"idle", "recover"} : Goto(Reactor, pc)
    BY <1>5 DEF ReactorStarts, Goto
  <2>2. Grows
    BY <1>5 DEF ReactorStarts, Grows, Recorded
  <2> QED BY <1>1, <2>1, <2>2, HeardGoto, QuietForks, QuietStep DEF Announcing, Starting
<1>6. ASSUME NEW id \in RequestIds, Expire(id) PROVE HeardInv'
  <2> DEFINE rq == [requests[id] EXCEPT !.state = "expired"]
  <2>1. requests[id] \in Request /\ UNCHANGED proc
    BY <1>6 DEF Expire, Recorded, IInv, Types
  <2>2. rq \in Request /\ rq.fork = requests[id].fork
    BY <2>1 DEF Request, Closed
  <2>3. requests' = [requests EXCEPT ![id] = rq]
    BY <1>6 DEF Expire
  <2> HIDE DEF rq
  <2>4. Grows
    BY <2>2, <2>3, GrowsWith
  <2> QED BY <1>1, <2>1, <2>4, QuietForks, HeardStep
<1> QED BY <1>2, <1>4, <1>5, <1>6

LEMMA HeardRecover ==
  ASSUME IInv, IInv', HeardInv, NEW id \in RequestIds, Recover(id)
  PROVE  HeardInv'
<1> USE DEF Recover
<1>1. /\ Reactor \in Procs /\ HasFork(id) /\ Recorded(id) /\ requests[id] \in Request
      /\ Types' /\ proc[Reactor] \in Proc
  BY Names DEF IInv, RequestsOK, HasFork, Recorded, Types
<1>2. UNCHANGED forks
  OBVIOUS
<1>3. CASE forks[requests[id].fork].lineage = "dropped"
  <2> DEFINE rq == [requests[id] EXCEPT !.state = "cancelled"]
  <2>1. rq \in Request /\ rq.fork = requests[id].fork
    BY <1>1 DEF Request, Closed
  <2>2. requests' = [requests EXCEPT ![id] = rq]
    BY <1>3
  <2> HIDE DEF rq
  <2>3. Grows
    BY <2>1, <2>2, GrowsWith
  <2>4. PICK pc \in {"idle", "recover"} : Goto(Reactor, pc)
    BY <1>3 DEF Goto
  <2> QED BY <1>1, <1>2, <2>3, <2>4, HeardGoto, QuietForks, QuietStep DEF Announcing, Starting
<1>4. CASE forks[requests[id].fork].lineage # "dropped"
  <2> DEFINE r == [Idle EXCEPT !.pc = "decide", !.op = "approve", !.id = id]
  <2>1. r \in Proc /\ r.pc = "decide"
    BY DEF Idle, Proc, Content, Origin, Lineage, Holding, Creating
  <2>2. proc' = [proc EXCEPT ![Reactor] = r] /\ requests' = requests
    BY <1>4
  <2> HIDE DEF r
  <2>3. Grows
    BY <2>2, RequestsStay
  <2>4. proc'[Reactor] = r /\ \A q \in Procs \ {Reactor} : proc'[q] = proc[q]
    BY <1>1, <2>1, <2>2, RowStep
  <2> QED BY <1>1, <1>2, <2>1, <2>3, <2>4, QuietForks, QuietStep DEF Announcing, Starting
<1> QED BY <1>3, <1>4

LEMMA HeardInit == Init => HeardInv
<1> SUFFICES ASSUME Init PROVE HeardInv
  OBVIOUS
<1>1. HeardOK(NewFork)
  BY DEF NewFork, HeardOK, Signals
<1> QED BY <1>1 DEF Init, HeardInv, PublishesOK, Idle, Starting

LEMMA HeardKeeps ==
  ASSUME IInv, IInv', HeardInv, [Next]_vars
  PROVE  HeardInv'
<1>1. CASE UNCHANGED vars
  BY <1>1 DEF vars, HeardInv, PublishesOK, ForkOf
<1>2. ASSUME NEW p \in Operators, Operation(p) PROVE HeardInv'
  <2>1. CASE PublishKill(p) \/ AwaitKill(p) \/ RemoveWorktree(p) \/ WriteDropped(p)
    BY <2>1, HeardDrop
  <2>2. CASE RecordAgent(p) \/ RecordDirect(p)
    BY <2>2, HeardRecord
  <2>3. CASE Crash(p)
    BY <2>3, HeardWorld
  <2> QED BY <1>2, <2>1, <2>2, <2>3, HeardSubmit, HeardCall DEF Operation
<1>3. ASSUME NEW p \in Procs, Decision(p) PROVE HeardInv'
  BY <1>3, HeardDecision
<1>4. ASSUME NEW p \in Procs, Creation(p) PROVE HeardInv'
  BY <1>4, HeardMaterialise, HeardInspect, HeardPublish, HeardPromote, HeardLeaving DEF Creation
<1>5. ASSUME NEW f \in Forks, Reaction(f) PROVE HeardInv'
  BY <1>5, HeardReaction
<1> QED BY <1>1, <1>2, <1>3, <1>4, <1>5, HeardWorld, HeardRecover DEF Next

-----------------------------------------------------------------------------
(* The theorems *)

LEMMA InitOK == Init => IInv
<1> SUFFICES ASSUME Init PROVE IInv
  OBVIOUS
<1> USE DEF Init
<1>1. NewFork \in Fork /\ NewFork.request = NoRequest /\ ~NewFork.killed /\ NewFork.lineage = "none"
  BY DEF NewFork, Fork, Signals, TaskStatus
<1>2. Types
  BY <1>1, IdleIs, ForkAssumption DEF Types
<1>3. \A id \in RequestIds : ~Recorded(id)
  BY DEF Recorded
<1>4. ForksOK
  BY <1>1 DEF ForksOK
<1>5. \A p \in Procs : ProcOK(p)
  BY IdleIs DEF ProcOK, Holding, Dropping, Creating
<1> QED BY <1>2, <1>3, <1>4, <1>5 DEF IInv, RequestsOK, LocksOK

LEMMA StepKeeps ==
  ASSUME IInv, [Next]_vars
  PROVE  IInv'
<1>1. CASE UNCHANGED vars
  <2>1. Types' /\ UNCHANGED <<requests, forks, lock, proc, up, todo>>
    BY <1>1 DEF vars, bounds, IInv, Types
  <2> QED BY <2>1, RequestsStay, ForksStay, AmbientOK
<1>2. ASSUME NEW p \in Operators, Operation(p) PROVE IInv'
  BY <1>2, SubmitOK, CallOK, DropOK, RecordAgentOK, RecordDirectOK, DropStepsOK, CrashOK
     DEF Operation
<1>3. ASSUME NEW p \in Procs, Decision(p) PROVE IInv'
  BY <1>3, DecisionOK, ResumeOK, StartOK, DiscardOK, LeavingOK DEF Decision
<1>4. ASSUME NEW p \in Procs, Creation(p) PROVE IInv'
  BY <1>4, CreationOK, InspectOK, LeavingOK DEF Creation
<1> QED BY <1>1, <1>2, <1>3, <1>4, WorldOK, CrashOK, StartsOK, RecoverOK, ReactionOK DEF Next

LEMMA AlwaysIInv == Spec => []IInv
  BY InitOK, StepKeeps, PTL DEF Spec

\* Every state is of its type, a creation has its fork, and a lock is held by the
\* process that decides the request.
THEOREM TypeCorrect == Spec => []TypeOK
<1>1. IInv => TypeOK
  <2> SUFFICES ASSUME IInv PROVE TypeOK
    OBVIOUS
  <2>1. \A p \in Procs : proc[p].pc \in Creating \cup
          {"idle", "record", "decide", "close", "approve", "recover", "kill",
           "wait", "remove", "drop"}
    BY DEF IInv, Types, Proc, Holding, Dropping
  <2> QED BY <2>1 DEF TypeOK, IInv, Types, RequestsOK, LocksOK, HasFork
<1> QED BY <1>1, AlwaysIInv, PTL

\* One request, one trail: whoever decides it, and however often its creation is
\* interrupted, discarded, resumed or recovered.
THEOREM OneTrailPerRequest == Spec => []OneForkPerRequest
<1>1. IInv => OneForkPerRequest
  BY DEF IInv, ForksOK, OneForkPerRequest, Minted
<1> QED BY <1>1, AlwaysIInv, PTL

\* A dropped fork was killed first, and nothing of it is dispatched again.
THEOREM DroppedStaysDown == Spec => []DropIsFinal
<1>1. IInv => DropIsFinal
  BY DEF IInv, ForksOK, DropIsFinal
<1> QED BY <1>1, AlwaysIInv, PTL

\* No runnable fork that may still run was left unannounced: however many of its
\* creations died, were discarded or resumed, it was stopped or the ledger hears of it.
THEOREM RunnableIsAnnounced == Spec => []RunnableWasPublished
<1>1. HeardInv => RunnableWasPublished
  BY DEF HeardInv, HeardOK, Announced, RunnableWasPublished
<1>2. Init => HeardInv
  BY HeardInit
<1>3. IInv /\ IInv' /\ HeardInv /\ [Next]_vars => HeardInv'
  BY HeardKeeps
<1> QED BY <1>1, <1>2, <1>3, AlwaysIInv, PTL DEF Spec
=============================================================================
