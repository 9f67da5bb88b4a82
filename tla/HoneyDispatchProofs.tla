------------------------ MODULE HoneyDispatchProofs ------------------------
(***************************************************************************)
(* Theorems about HoneyDispatch, for any tasks, events, goroutines and     *)
(* bounds: the drain in the handler and the recovery after a start share   *)
(* the queue without ever dispatching one entry together.                  *)
(***************************************************************************)
EXTENDS HoneyDispatch, TLAPS

(* The inductive invariant: what a drain dispatches, it has claimed. *)

DispatchSteps == {"check", "alive", "register", "gate", "charge", "defer",
                  "observe", "prepare", "mark", "start", "running", "leave"}

\* Between claim and release.
ClaimSteps == DispatchSteps \cup {"recheck", "abandon"}

Drainers == {Handler, Startup}

Place(p) == [pc |-> p.pc, frames |-> p.frames, queue |-> p.queue,
             failed |-> p.failed]

PlacesKept == proc = [w \in Workers |-> Place(proc[w])]

DeadIsIdle == ~up => proc = [w \in Workers |-> Idle]

\* A drain has frames only while it dispatches.
FramesInDispatch ==
    \A w \in Drainers : proc[w].frames # <<>> => proc[w].pc \in DispatchSteps

ItemClaimed ==
    \A w \in Drainers :
        proc[w].pc \in ClaimSteps => <<w, CurrentItem(w).id>> \in claims

OneClaimant ==
    \A c, d \in claims : c[2] = d[2] => c = d

ClaimInvariant ==
    /\ PlacesKept /\ DeadIsIdle /\ FramesInDispatch
    /\ ItemClaimed /\ OneClaimant

-----------------------------------------------------------------------------
(* What a step of a worker may do to the places and the claims *)

\* Only w's place changes, and it stays a place.
Steps(w) ==
    /\ proc' = [proc EXCEPT ![w] = proc'[w]]
    /\ proc'[w] = Place(proc'[w])

\* A dispatch moves on, or returns: to the drain, or to nothing.
Moved(w) ==
    /\ up /\ up' = up /\ claims' = claims
    /\ proc[w].pc \in DispatchSteps
    /\ Steps(w)
    /\ proc'[w].queue = proc[w].queue
    /\ \/ proc'[w].pc \in DispatchSteps
       \/ proc'[w].frames = <<>> /\ proc'[w].pc \in {"left", "abort", "idle"}

\* A step of w within its frames and its queue.
StepsTo(w, step) ==
    /\ Steps(w)
    /\ proc'[w].pc = step
    /\ proc'[w].frames = proc[w].frames /\ proc'[w].queue = proc[w].queue

(* Records: what EXCEPT makes of a place *)

LEMMA SetPc ==
  ASSUME NEW q, NEW x, q = Place(q)
  PROVE  [q EXCEPT !.pc = x] =
           [pc |-> x, frames |-> q.frames, queue |-> q.queue, failed |-> q.failed]
BY SMT DEF Place

LEMMA SetOther ==
  ASSUME NEW q, NEW x, q = Place(q)
  PROVE  /\ [q EXCEPT !.failed = x] =
              [pc |-> q.pc, frames |-> q.frames, queue |-> q.queue, failed |-> x]
         /\ [q EXCEPT !.frames = x] =
              [pc |-> q.pc, frames |-> x, queue |-> q.queue, failed |-> q.failed]
         /\ [q EXCEPT !.queue = x] =
              [pc |-> q.pc, frames |-> q.frames, queue |-> x, failed |-> q.failed]
<1>1. [q EXCEPT !.failed = x] =
         [pc |-> q.pc, frames |-> q.frames, queue |-> q.queue, failed |-> x]
  BY SMT DEF Place
<1>2. [q EXCEPT !.frames = x] =
         [pc |-> q.pc, frames |-> x, queue |-> q.queue, failed |-> q.failed]
  BY SMT DEF Place
<1>3. [q EXCEPT !.queue = x] =
         [pc |-> q.pc, frames |-> q.frames, queue |-> x, failed |-> q.failed]
  BY SMT DEF Place
<1> QED BY <1>1, <1>2, <1>3

LEMMA SetPcFailed ==
  ASSUME NEW q, NEW x, NEW y, q = Place(q)
  PROVE  [q EXCEPT !.pc = x, !.failed = y] =
           [pc |-> x, frames |-> q.frames, queue |-> q.queue, failed |-> y]
<1> DEFINE s == [q EXCEPT !.pc = x]
<1>1. s = [pc |-> x, frames |-> q.frames, queue |-> q.queue, failed |-> q.failed]
  BY SetPc
<1>2. [q EXCEPT !.pc = x, !.failed = y] = [s EXCEPT !.failed = y]
  OBVIOUS
<1> HIDE DEF s
<1>3. /\ s = Place(s) /\ s.pc = x
      /\ s.frames = q.frames /\ s.queue = q.queue /\ s.failed = q.failed
  BY <1>1, SMT DEF Place
<1>4. [s EXCEPT !.failed = y] =
         [pc |-> s.pc, frames |-> s.frames, queue |-> s.queue, failed |-> y]
  BY <1>3, SetOther
<1> QED BY <1>2, <1>3, <1>4, Zenon

LEMMA SetPcFrames ==
  ASSUME NEW q, NEW x, NEW y, q = Place(q)
  PROVE  [q EXCEPT !.pc = x, !.frames = y] =
           [pc |-> x, frames |-> y, queue |-> q.queue, failed |-> q.failed]
<1> DEFINE s == [q EXCEPT !.pc = x]
<1>1. s = [pc |-> x, frames |-> q.frames, queue |-> q.queue, failed |-> q.failed]
  BY SetPc
<1>2. [q EXCEPT !.pc = x, !.frames = y] = [s EXCEPT !.frames = y]
  OBVIOUS
<1> HIDE DEF s
<1>3. /\ s = Place(s) /\ s.pc = x
      /\ s.frames = q.frames /\ s.queue = q.queue /\ s.failed = q.failed
  BY <1>1, SMT DEF Place
<1>4. [s EXCEPT !.frames = y] =
         [pc |-> s.pc, frames |-> y, queue |-> s.queue, failed |-> s.failed]
  BY <1>3, SetOther
<1> QED BY <1>2, <1>3, <1>4, Zenon

LEMMA SetPcQueue ==
  ASSUME NEW q, NEW x, NEW y, q = Place(q)
  PROVE  [q EXCEPT !.pc = x, !.queue = y] =
           [pc |-> x, frames |-> q.frames, queue |-> y, failed |-> q.failed]
<1> DEFINE s == [q EXCEPT !.pc = x]
<1>1. s = [pc |-> x, frames |-> q.frames, queue |-> q.queue, failed |-> q.failed]
  BY SetPc
<1>2. [q EXCEPT !.pc = x, !.queue = y] = [s EXCEPT !.queue = y]
  OBVIOUS
<1> HIDE DEF s
<1>3. /\ s = Place(s) /\ s.pc = x
      /\ s.frames = q.frames /\ s.queue = q.queue /\ s.failed = q.failed
  BY <1>1, SMT DEF Place
<1>4. [s EXCEPT !.queue = y] =
         [pc |-> s.pc, frames |-> s.frames, queue |-> y, failed |-> s.failed]
  BY <1>3, SetOther
<1> QED BY <1>2, <1>3, <1>4, Zenon

-----------------------------------------------------------------------------
(* The shapes of an update of a worker's place *)

LEMMA IsPlace ==
  ASSUME PlacesKept, NEW w \in Workers
  PROVE  proc[w] = Place(proc[w])
BY SMT DEF PlacesKept

LEMMA Assigned ==
  ASSUME PlacesKept, NEW w \in Workers, NEW p, p = Place(p),
         proc' = [proc EXCEPT ![w] = p]
  PROVE  Steps(w) /\ proc'[w] = p
BY SMT DEF PlacesKept, Steps

LEMMA GotoMoves ==
  ASSUME PlacesKept, NEW w \in Workers, NEW step, Goto(w, step)
  PROVE  StepsTo(w, step)
BY SMT DEF PlacesKept, Place, Goto, StepsTo, Steps

LEMMA FlagMoves ==
  ASSUME PlacesKept, NEW w \in Workers, NEW step, NEW flag,
         proc' = [proc EXCEPT ![w] = [proc[w] EXCEPT !.pc = step, !.failed = flag]]
  PROVE  StepsTo(w, step)
<1> DEFINE p == [pc |-> step, frames |-> proc[w].frames,
                 queue |-> proc[w].queue, failed |-> flag]
<1>1. [proc[w] EXCEPT !.pc = step, !.failed = flag] = p
  BY IsPlace, SetPcFailed
<1>2. /\ p = Place(p) /\ p.pc = step
      /\ p.frames = proc[w].frames /\ p.queue = proc[w].queue
  BY SMT DEF Place
<1> HIDE DEF p
<1>3. proc' = [proc EXCEPT ![w] = p]
  BY <1>1, Zenon
<1> QED BY <1>2, <1>3, Assigned DEF StepsTo

LEMMA FailMoves ==
  ASSUME PlacesKept, NEW w \in Workers, Fail(w)
  PROVE  StepsTo(w, "leave")
<1>1. PICK flag : flag = TRUE
  OBVIOUS
<1>2. proc' = [proc EXCEPT ![w] = [proc[w] EXCEPT !.pc = "leave", !.failed = flag]]
  BY <1>1, Zenon DEF Fail
<1> QED BY <1>2, FlagMoves

\* A new place with new frames, or with a new queue.
LEMMA FramesMove ==
  ASSUME PlacesKept, NEW w \in Workers, NEW step, NEW fs,
         proc' = [proc EXCEPT ![w] = [proc[w] EXCEPT !.pc = step, !.frames = fs]]
  PROVE  /\ Steps(w)
         /\ proc'[w].pc = step /\ proc'[w].frames = fs
         /\ proc'[w].queue = proc[w].queue
<1> DEFINE p == [pc |-> step, frames |-> fs,
                 queue |-> proc[w].queue, failed |-> proc[w].failed]
<1>1. [proc[w] EXCEPT !.pc = step, !.frames = fs] = p
  BY IsPlace, SetPcFrames
<1>2. /\ p = Place(p) /\ p.pc = step
      /\ p.frames = fs /\ p.queue = proc[w].queue
  BY SMT DEF Place
<1> HIDE DEF p
<1>3. proc' = [proc EXCEPT ![w] = p]
  BY <1>1, Zenon
<1> QED BY <1>2, <1>3, Assigned

LEMMA QueueMoves ==
  ASSUME PlacesKept, NEW w \in Workers, NEW step, NEW items,
         proc' = [proc EXCEPT ![w] = [proc[w] EXCEPT !.pc = step, !.queue = items]]
  PROVE  /\ Steps(w)
         /\ proc'[w].pc = step /\ proc'[w].queue = items
         /\ proc'[w].frames = proc[w].frames
<1> DEFINE p == [pc |-> step, frames |-> proc[w].frames,
                 queue |-> items, failed |-> proc[w].failed]
<1>1. [proc[w] EXCEPT !.pc = step, !.queue = items] = p
  BY IsPlace, SetPcQueue
<1>2. /\ p = Place(p) /\ p.pc = step
      /\ p.frames = proc[w].frames /\ p.queue = items
  BY SMT DEF Place
<1> HIDE DEF p
<1>3. proc' = [proc EXCEPT ![w] = p]
  BY <1>1, Zenon
<1> QED BY <1>2, <1>3, Assigned

LEMMA ReturnMoves ==
  ASSUME PlacesKept, NEW w \in Workers, NEW failed,
         proc' = [proc EXCEPT ![w] = Returned(w, failed)]
  PROVE  /\ Steps(w)
         /\ proc'[w].queue = proc[w].queue
         /\ \/ proc'[w].pc = "leave"
            \/ proc'[w].frames = <<>> /\ proc'[w].pc \in {"left", "abort", "idle"}
<1>1. Returned(w, failed) = Place(Returned(w, failed))
  BY SMT DEF Returned, Place
<1>2. Steps(w) /\ proc'[w] = Returned(w, failed)
  BY <1>1, Assigned
<1> QED BY <1>2, SMT DEF Returned

-----------------------------------------------------------------------------
(* A step of a dispatch *)

LEMMA DispatchMoves ==
  ASSUME PlacesKept, NEW w \in Workers, Dispatch(w)
  PROVE  Moved(w)
<1> USE DEF At, Moved, DispatchSteps, memoryVars, deliveryVars
<1>1. CASE Check(w)
  <2>1. CASE Goto(w, "alive")
    BY <1>1, <2>1, GotoMoves DEF Check, StepsTo
  <2>2. CASE proc' = [proc EXCEPT ![w] = Returned(w, FALSE)]
    <3>1. PICK failed : failed = FALSE
      OBVIOUS
    <3>2. proc' = [proc EXCEPT ![w] = Returned(w, failed)]
      BY <2>2, <3>1, Zenon
    <3> QED BY <1>1, <3>2, ReturnMoves DEF Check
  <2> QED BY <1>1, <2>1, <2>2 DEF Check
<1>2. CASE Alive(w)
  <2>1. CASE Goto(w, "register")
    BY <1>2, <2>1, GotoMoves DEF Alive, StepsTo
  <2>2. CASE proc' = [proc EXCEPT ![w] = Returned(w, FALSE)]
    <3>1. PICK failed : failed = FALSE
      OBVIOUS
    <3>2. proc' = [proc EXCEPT ![w] = Returned(w, failed)]
      BY <2>2, <3>1, Zenon
    <3> QED BY <1>2, <3>2, ReturnMoves DEF Alive
  <2> QED BY <1>2, <2>1, <2>2 DEF Alive
<1>3. CASE Register(w)
  BY <1>3, GotoMoves DEF Register, StepsTo
<1>4. CASE Gate(w)
  <2>1. PICK step \in {"charge", "defer"} : Goto(w, step)
    BY <1>4 DEF Gate
  <2> QED BY <1>4, <2>1, GotoMoves DEF Gate, StepsTo
<1>5. CASE Charge(w)
  <2>1. Goto(w, "prepare") \/ Fail(w)
    BY <1>5 DEF Charge, Published
  <2> QED BY <1>5, <2>1, GotoMoves, FailMoves DEF Charge, StepsTo
<1>6. CASE Defer(w)
  BY <1>6, GotoMoves DEF Defer, StepsTo
<1>7. CASE Observe(w)
  <2>1. Goto(w, "leave") \/ Fail(w)
    BY <1>7 DEF Observe, Published
  <2> QED BY <1>7, <2>1, GotoMoves, FailMoves DEF Observe, StepsTo
<1>8. CASE Prepare(w)
  <2>1. PICK step \in {"mark", "leave"} : \E fs :
           proc' = [proc EXCEPT ![w] = [proc[w] EXCEPT !.pc = step, !.frames = fs]]
    BY <1>8, Zenon DEF Prepare
  <2>2. /\ Steps(w) /\ proc'[w].queue = proc[w].queue
        /\ proc'[w].pc \in {"mark", "leave"}
    <3>1. PICK fs :
             proc' = [proc EXCEPT ![w] = [proc[w] EXCEPT !.pc = step, !.frames = fs]]
      BY <2>1
    <3> QED BY <3>1, FramesMove
  <2> QED BY <1>8, <2>2 DEF Prepare
<1>9. CASE Mark(w)
  <2>1. Goto(w, "leave") \/ Goto(w, "start")
    BY <1>9 DEF Mark
  <2> QED BY <1>9, <2>1, GotoMoves DEF Mark, StepsTo
<1>10. CASE Start(w)
  <2>1. Goto(w, "running") \/ Fail(w)
    BY <1>10 DEF Start, Published
  <2> QED BY <1>10, <2>1, GotoMoves, FailMoves DEF Start, StepsTo
<1>11. CASE FinishSilently(w)
  BY <1>11, GotoMoves DEF FinishSilently, StepsTo
<1>12. ASSUME NEW status \in Outcomes, FinishStatus(w, status)
       PROVE  Moved(w)
  <2>1. Goto(w, "leave") \/ Fail(w)
    BY <1>12 DEF FinishStatus, Published
  <2> QED BY <1>12, <2>1, GotoMoves, FailMoves DEF FinishStatus, StepsTo
<1>13. CASE FinishCompleted(w)
  <2>1. CASE Goto(w, "leave") \/ Fail(w)
    BY <1>13, <2>1, GotoMoves, FailMoves DEF FinishCompleted, StepsTo
  <2>2. ASSUME NEW fs,
               proc' = [proc EXCEPT ![w] =
                          [proc[w] EXCEPT !.pc = "check", !.frames = fs]]
        PROVE  Moved(w)
    BY <1>13, <2>2, FramesMove DEF FinishCompleted
  <2> QED BY <1>13, <2>1, <2>2, Zenon DEF FinishCompleted
<1>14. CASE Leave(w)
  <2>1. proc' = [proc EXCEPT ![w] = Returned(w, proc[w].failed)]
    BY <1>14, Zenon DEF Leave
  <2> QED BY <1>14, <2>1, ReturnMoves DEF Leave
<1> QED
  BY <1>1, <1>2, <1>3, <1>4, <1>5, <1>6, <1>7, <1>8, <1>9, <1>10, <1>11,
     <1>12, <1>13, <1>14 DEF Dispatch

-----------------------------------------------------------------------------
(* What keeps the invariant *)

\* w moves, and the claims of others are kept.
LEMMA OwnStep ==
  ASSUME ClaimInvariant, NEW w \in Workers, Steps(w), up, up' = up,
         proc'[w].frames # <<>> => proc'[w].pc \in DispatchSteps \/ w \notin Drainers,
         proc'[w].pc \in ClaimSteps =>
            <<w, Head(proc'[w].queue).id>> \in claims' \/ w \notin Drainers,
         \A c \in claims : c[1] # w => c \in claims',
         OneClaimant'
  PROVE  ClaimInvariant'
<1>1. \A v \in Workers : v # w => proc'[v] = proc[v]
  BY SMT DEF ClaimInvariant, PlacesKept, Steps
<1>2. Drainers \subseteq Workers
  BY DEF Drainers, Workers
<1>3. PlacesKept'
  <2>1. \A v \in Workers : proc'[v] = Place(proc'[v])
    BY <1>1 DEF ClaimInvariant, PlacesKept, Steps
  <2>2. proc' = [v \in Workers |-> proc'[v]]
    BY DEF ClaimInvariant, PlacesKept, Steps
  <2> QED BY <2>1, <2>2, Zenon DEF PlacesKept
<1>4. DeadIsIdle'
  BY DEF DeadIsIdle
<1>5. FramesInDispatch'
  BY <1>1, <1>2 DEF ClaimInvariant, FramesInDispatch
<1>6. ItemClaimed'
  <2> SUFFICES ASSUME NEW v \in Drainers, v # w, proc'[v].pc \in ClaimSteps
               PROVE  <<v, Head(proc'[v].queue).id>> \in claims'
    BY DEF ItemClaimed, CurrentItem
  <2>1. <<v, Head(proc[v].queue).id>> \in claims
    BY <1>1, <1>2 DEF ClaimInvariant, ItemClaimed, CurrentItem
  <2> QED BY <1>1, <1>2, <2>1
<1> QED BY <1>3, <1>4, <1>5, <1>6 DEF ClaimInvariant

\* w moves outside a dispatch, and gives up claims of its own at most.
LEMMA Unclaimed ==
  ASSUME ClaimInvariant, NEW w \in Workers, Steps(w), up, up' = up,
         proc'[w].frames = <<>> \/ w \notin Drainers,
         proc'[w].pc \notin ClaimSteps,
         claims' \subseteq claims,
         \A c \in claims : c[1] # w => c \in claims'
  PROVE  ClaimInvariant'
<1>1. OneClaimant'
  BY DEF ClaimInvariant, OneClaimant
<1> QED BY <1>1, OwnStep

\* Outside a dispatch a drain has no frames.
LEMMA NoFrames ==
  ASSUME ClaimInvariant, NEW w \in Workers, proc[w].pc \notin DispatchSteps
  PROVE  proc[w].frames = <<>> \/ w \notin Drainers
BY DEF ClaimInvariant, FramesInDispatch

LEMMA DispatchKeepsClaims ==
  ASSUME ClaimInvariant, NEW w \in Workers, Dispatch(w)
  PROVE  ClaimInvariant'
<1>1. Moved(w)
  BY DispatchMoves DEF ClaimInvariant
<1>2. w \in Drainers => <<w, Head(proc[w].queue).id>> \in claims
  BY <1>1 DEF ClaimInvariant, ItemClaimed, CurrentItem, Moved, ClaimSteps
<1>3. OneClaimant'
  BY <1>1 DEF ClaimInvariant, OneClaimant, Moved
<1>4. proc'[w].frames # <<>> => proc'[w].pc \in DispatchSteps
  BY <1>1 DEF Moved
<1>5. /\ Steps(w) /\ up /\ up' = up /\ claims' = claims
      /\ proc'[w].queue = proc[w].queue
  BY <1>1 DEF Moved
<1> QED BY <1>2, <1>3, <1>4, <1>5, OwnStep

-----------------------------------------------------------------------------
(* A step of a drain *)

\* A drain that only goes on to a step outside a dispatch.
LEMMA GoesOn ==
  ASSUME ClaimInvariant, NEW w \in Workers, NEW step, Goto(w, step),
         up, up' = up, claims' = claims,
         proc[w].pc \notin DispatchSteps, step \notin ClaimSteps
  PROVE  ClaimInvariant'
<1>1. StepsTo(w, step)
  BY GotoMoves DEF ClaimInvariant
<1>2. proc'[w].frames = <<>> \/ w \notin Drainers
  BY <1>1, NoFrames DEF StepsTo
<1> QED BY <1>1, <1>2, Unclaimed DEF StepsTo

LEMMA ClaimResumeKeepsClaims ==
  ASSUME ClaimInvariant, NEW w \in Workers, ClaimResume(w)
  PROVE  ClaimInvariant'
<1>1. up /\ up' = up /\ proc[w].pc = "claim"
  BY DEF ClaimResume, At, deliveryVars
<1>2. proc[w].pc \notin DispatchSteps
  BY <1>1 DEF DispatchSteps
<1>3. ASSUME NEW step \in {"settle", "left"}, Goto(w, step), claims' = claims
      PROVE  ClaimInvariant'
  <2>1. step \notin ClaimSteps
    BY DEF ClaimSteps, DispatchSteps
  <2> QED BY <1>1, <1>2, <1>3, <2>1, GoesOn
<1>4. ASSUME ~Claimed(CurrentItem(w).id), Goto(w, "recheck"),
             claims' = claims \cup {<<w, CurrentItem(w).id>>}
      PROVE  ClaimInvariant'
  <2>1. StepsTo(w, "recheck")
    BY <1>4, GotoMoves DEF ClaimInvariant
  <2>2. proc'[w].frames = <<>> \/ w \notin Drainers
    BY <1>2, <2>1, NoFrames DEF StepsTo
  <2>3. <<w, Head(proc'[w].queue).id>> \in claims'
    BY <1>4, <2>1 DEF StepsTo, CurrentItem
  <2>4. OneClaimant'
    BY <1>4 DEF ClaimInvariant, OneClaimant, Claimed
  <2> QED BY <1>1, <1>4, <2>1, <2>2, <2>3, <2>4, OwnStep DEF StepsTo
<1> QED BY <1>3, <1>4 DEF ClaimResume

LEMMA RecheckKeepsClaims ==
  ASSUME ClaimInvariant, NEW w \in Workers, Recheck(w)
  PROVE  ClaimInvariant'
<1>1. /\ up /\ up' = up /\ claims' = claims /\ proc[w].pc = "recheck"
  BY DEF Recheck, At, deliveryVars, memoryVars
<1>2. w \in Drainers => <<w, Head(proc[w].queue).id>> \in claims
  BY <1>1 DEF ClaimInvariant, ItemClaimed, CurrentItem, ClaimSteps
<1>3. OneClaimant'
  BY <1>1 DEF ClaimInvariant, OneClaimant
<1>4. CASE Goto(w, "left") \/ Goto(w, "abandon")
  <2>1. StepsTo(w, "left") \/ StepsTo(w, "abandon")
    BY <1>4, GotoMoves DEF ClaimInvariant
  <2>2. proc[w].pc \notin DispatchSteps
    BY <1>1 DEF DispatchSteps
  <2>3. proc'[w].frames = <<>> \/ w \notin Drainers
    BY <2>1, <2>2, NoFrames DEF StepsTo
  <2> QED BY <1>1, <1>2, <1>3, <2>1, <2>3, OwnStep DEF StepsTo
<1>5. ASSUME NEW fs,
             proc' = [proc EXCEPT ![w] =
                        [proc[w] EXCEPT !.pc = "check", !.frames = fs]]
      PROVE  ClaimInvariant'
  <2>1. /\ Steps(w) /\ proc'[w].pc = "check"
        /\ proc'[w].queue = proc[w].queue
    BY <1>5, FramesMove DEF ClaimInvariant
  <2>2. proc'[w].pc \in DispatchSteps
    BY <2>1 DEF DispatchSteps
  <2> QED BY <1>1, <1>2, <1>3, <2>1, <2>2, OwnStep
<1> QED BY <1>4, <1>5, Zenon DEF Recheck

LEMMA LeftKeepsClaims ==
  ASSUME ClaimInvariant, NEW w \in Workers, Left(w)
  PROVE  ClaimInvariant'
<1>1. /\ up /\ up' = up /\ proc[w].pc = "left"
      /\ claims' = {c \in claims : c[1] # w}
  BY DEF Left, At, Release, deliveryVars
<1>2. PICK step \in {"claim", "settle"} : \E items :
         proc' = [proc EXCEPT ![w] = [proc[w] EXCEPT !.pc = step, !.queue = items]]
  BY Zenon DEF Left
<1>3. /\ Steps(w) /\ proc'[w].pc = step
      /\ proc'[w].frames = proc[w].frames
  <2>1. PICK items :
           proc' = [proc EXCEPT ![w] = [proc[w] EXCEPT !.pc = step, !.queue = items]]
    BY <1>2
  <2> QED BY <2>1, QueueMoves DEF ClaimInvariant
<1>4. proc'[w].pc \notin ClaimSteps /\ proc[w].pc \notin DispatchSteps
  BY <1>1, <1>3 DEF ClaimSteps, DispatchSteps
<1>5. proc'[w].frames = <<>> \/ w \notin Drainers
  BY <1>3, <1>4, NoFrames
<1> QED BY <1>1, <1>3, <1>4, <1>5, Unclaimed

LEMMA DrainKeepsClaims ==
  ASSUME ClaimInvariant, NEW w \in Workers, Drain(w)
  PROVE  ClaimInvariant'
<1>1. /\ up /\ up' = up /\ proc[w].pc = "drain" /\ claims' = claims
  BY DEF Drain, At, deliveryVars, memoryVars
<1>2. PICK step \in {"claim", "settle"} : \E items :
         proc' = [proc EXCEPT ![w] = [proc[w] EXCEPT !.pc = step, !.queue = items]]
  BY Zenon DEF Drain
<1>3. /\ Steps(w) /\ proc'[w].pc = step
      /\ proc'[w].frames = proc[w].frames
  <2>1. PICK items :
           proc' = [proc EXCEPT ![w] = [proc[w] EXCEPT !.pc = step, !.queue = items]]
    BY <1>2
  <2> QED BY <2>1, QueueMoves DEF ClaimInvariant
<1>4. proc'[w].pc \notin ClaimSteps /\ proc[w].pc \notin DispatchSteps
  BY <1>1, <1>3 DEF ClaimSteps, DispatchSteps
<1>5. proc'[w].frames = <<>> \/ w \notin Drainers
  BY <1>3, <1>4, NoFrames
<1> QED BY <1>1, <1>3, <1>4, <1>5, Unclaimed

\* The drain ends, with its event acknowledged or not.
LEMMA EndKeepsClaims ==
  ASSUME ClaimInvariant, NEW w \in Workers, Abort(w) \/ Done(w)
  PROVE  ClaimInvariant'
<1>1. /\ up /\ up' = up
      /\ claims' \subseteq claims
      /\ \A c \in claims : c[1] # w => c \in claims'
  BY DEF Abort, Done, At, Release, Ack, Nak, deliveryVars, memoryVars
<1>2. proc' = [proc EXCEPT ![w] = Idle] /\ Idle = Place(Idle)
  BY SMT DEF Abort, Done, Idle, Place
<1>3. Steps(w) /\ proc'[w] = Idle
  BY <1>2, Assigned DEF ClaimInvariant
<1>4. Idle.frames = <<>> /\ Idle.pc \notin ClaimSteps
  BY DEF Idle, ClaimSteps, DispatchSteps
<1> QED BY <1>1, <1>3, <1>4, Unclaimed

LEMMA ResumeKeepsClaims ==
  ASSUME ClaimInvariant, NEW w \in Workers, Resume(w)
  PROVE  ClaimInvariant'
<1>1. CASE Announce(w) \/ Abandon(w) \/ Settle(w) \/ Clear(w)
  <2>1. up /\ up' = up /\ claims' = claims
    BY <1>1 DEF Announce, Abandon, Settle, Clear, At, deliveryVars, memoryVars
  <2>2. \E step \in {"drain", "abort", "left", "clear", "done"} : Goto(w, step)
    BY <1>1 DEF Announce, Abandon, Settle, Clear
  <2>3. proc[w].pc \notin DispatchSteps
    BY <1>1 DEF Announce, Abandon, Settle, Clear, At, DispatchSteps
  <2>4. \A step \in {"drain", "abort", "left", "clear", "done"} :
           step \notin ClaimSteps
    BY DEF ClaimSteps, DispatchSteps
  <2> QED BY <2>1, <2>2, <2>3, <2>4, GoesOn
<1>2. CASE ClaimResume(w) \/ Recheck(w) \/ Left(w) \/ Drain(w)
  BY <1>2, ClaimResumeKeepsClaims, RecheckKeepsClaims, LeftKeepsClaims,
     DrainKeepsClaims
<1>3. CASE Abort(w) \/ Done(w)
  BY <1>3, EndKeepsClaims
<1> QED BY <1>1, <1>2, <1>3 DEF Resume

-----------------------------------------------------------------------------
(* A step of the handler *)

LEMMA HandlerGoesOn ==
  ASSUME ClaimInvariant, up, up' = up, claims' = claims,
         proc[Handler].pc \in {"idle", "close", "cancel"},
         NEW step \in {"announce", "abort", "close", "cancel", "done"},
         Goto(Handler, step)
  PROVE  ClaimInvariant'
<1>1. Handler \in Workers
  BY DEF Workers
<1>2. proc[Handler].pc \notin DispatchSteps /\ step \notin ClaimSteps
  BY DEF ClaimSteps, DispatchSteps
<1> QED BY <1>1, <1>2, GoesOn

\* A goroutine starts beside the handler.
LEMMA KickKeepsClaims ==
  ASSUME ClaimInvariant, up, up' = up, claims' = claims,
         proc[Handler].pc = "idle",
         NEW g \in Goroutines, NEW fs,
         proc' = [proc EXCEPT ![Handler].pc = "done",
                    ![g] = [@ EXCEPT !.pc = "check", !.frames = fs]]
  PROVE  ClaimInvariant'
<1> DEFINE d == [proc[Handler] EXCEPT !.pc = "done"]
<1> DEFINE mid == [proc EXCEPT ![Handler] = d]
<1> DEFINE p == [pc |-> "check", frames |-> fs,
                 queue |-> proc[g].queue, failed |-> proc[g].failed]
<1>1. /\ Handler \in Workers /\ Startup \in Workers /\ g \in Workers
      /\ g # Handler /\ g # Startup /\ Handler # Startup
  BY DispatchAssumption DEF Workers
<1>2. mid[g] = proc[g]
  BY <1>1, SMT DEF ClaimInvariant, PlacesKept
<1>3. [proc[g] EXCEPT !.pc = "check", !.frames = fs] = p
  BY <1>1, IsPlace, SetPcFrames DEF ClaimInvariant
<1>4. d = [pc |-> "done", frames |-> proc[Handler].frames,
           queue |-> proc[Handler].queue, failed |-> proc[Handler].failed]
  BY <1>1, IsPlace, SetPc DEF ClaimInvariant
<1>5. /\ d = Place(d) /\ d.pc = "done"
      /\ d.frames = proc[Handler].frames
      /\ p = Place(p)
  BY <1>4, SMT DEF Place
<1>6. proc' = [mid EXCEPT ![g] = p]
  BY <1>2, <1>3, Zenon
<1> HIDE DEF p, d
<1>7. /\ proc'[Handler] = d /\ proc'[Startup] = proc[Startup]
      /\ proc' = [w \in Workers |-> proc'[w]]
      /\ \A w \in Workers : proc'[w] \in {p, d, proc[w]}
  <2>1. /\ mid = [w \in Workers |-> mid[w]]
        /\ \A w \in Workers : mid[w] = IF w = Handler THEN d ELSE proc[w]
    BY <1>1, Zenon DEF ClaimInvariant, PlacesKept
  <2> HIDE DEF mid
  <2>2. /\ proc' = [w \in Workers |-> proc'[w]]
        /\ \A w \in Workers : proc'[w] = IF w = g THEN p ELSE mid[w]
    BY <1>6, <2>1, Zenon
  <2> QED BY <1>1, <2>1, <2>2
<1>8. PlacesKept'
  <2>1. \A w \in Workers : proc'[w] = Place(proc'[w])
    BY <1>5, <1>7, IsPlace DEF ClaimInvariant
  <2> QED BY <1>7, <2>1, Zenon DEF PlacesKept
<1>9. proc[Handler].frames = <<>>
  BY <1>1, NoFrames DEF DispatchSteps, Drainers
<1>10. FramesInDispatch'
  BY <1>5, <1>7, <1>9 DEF ClaimInvariant, FramesInDispatch, Drainers
<1>11. ItemClaimed'
  <2>1. proc'[Handler].pc \notin ClaimSteps
    BY <1>5, <1>7 DEF ClaimSteps, DispatchSteps
  <2>2. proc[Startup].pc \in ClaimSteps =>
           <<Startup, Head(proc[Startup].queue).id>> \in claims
    BY DEF ClaimInvariant, ItemClaimed, CurrentItem, Drainers
  <2>3. proc'[Startup].pc \in ClaimSteps =>
           <<Startup, Head(proc'[Startup].queue).id>> \in claims'
    <3>1. proc'[Startup] = proc[Startup] /\ claims' = claims
      BY <1>7
    <3> QED BY <2>2, <3>1, Zenon
  <2> QED BY <2>1, <2>3 DEF ItemClaimed, CurrentItem, Drainers
<1> QED BY <1>8, <1>10, <1>11 DEF ClaimInvariant, DeadIsIdle, OneClaimant

LEMMA HandleKeepsClaims ==
  ASSUME ClaimInvariant, Handle
  PROVE  ClaimInvariant'
<1> USE DEF Handles, Deliver, At, memoryVars, deliveryVars
<1>1. ASSUME NEW e \in Events, HandleReady(e)
      PROVE  ClaimInvariant'
  <2>1. up /\ up' = up /\ claims' = claims /\ proc[Handler].pc = "idle"
    BY <1>1 DEF HandleReady
  <2>2. CASE Goto(Handler, "done")
    BY <2>1, <2>2, HandlerGoesOn
  <2>3. CASE \E g \in Goroutines : \E fs :
               proc' = [proc EXCEPT ![Handler].pc = "done",
                          ![g] = [@ EXCEPT !.pc = "check", !.frames = fs]]
    BY <2>1, <2>3, KickKeepsClaims
  <2> QED BY <1>1, <2>2, <2>3, Zenon DEF HandleReady, Goto
<1>2. ASSUME NEW e \in Events, HandleAdd(e) \/ HandleStipend(e) \/ HandleKill(e)
      PROVE  ClaimInvariant'
  <2>1. up /\ up' = up /\ claims' = claims /\ proc[Handler].pc = "idle"
    BY <1>2 DEF HandleAdd, HandleStipend, HandleKill
  <2>2. \E step \in {"announce", "abort", "close", "done"} : Goto(Handler, step)
    BY <1>2 DEF HandleAdd, HandleStipend, HandleKill
  <2> QED BY <2>1, <2>2, HandlerGoesOn
<1>3. CASE CloseKilled \/ CancelKilled
  <2>1. up /\ up' = up /\ claims' = claims /\ proc[Handler].pc \in {"close", "cancel"}
    BY <1>3 DEF CloseKilled, CancelKilled
  <2>2. \E step \in {"cancel", "done"} : Goto(Handler, step)
    BY <1>3 DEF CloseKilled, CancelKilled
  <2> QED BY <2>1, <2>2, HandlerGoesOn
<1> QED BY <1>1, <1>2, <1>3 DEF Handle

-----------------------------------------------------------------------------
(* A process that dies or starts, and what happens outside of it *)

\* Every worker is idle and holds no claim, but the one that recovers.
LEMMA CrashKeepsClaims ==
  ASSUME Crash
  PROVE  ClaimInvariant'
<1>1. proc' = [w \in Workers |-> Idle] /\ claims' = {}
  BY DEF Crash
<1>2. Idle = Place(Idle) /\ Idle.frames = <<>> /\ Idle.pc \notin ClaimSteps
  BY SMT DEF Idle, Place, ClaimSteps, DispatchSteps
<1>3. \A w \in Workers : proc'[w] = Idle
  BY <1>1
<1>4. PlacesKept'
  BY <1>1, <1>2, <1>3, Zenon DEF PlacesKept
<1>5. Drainers \subseteq Workers
  BY DEF Drainers, Workers
<1>6. FramesInDispatch' /\ ItemClaimed'
  BY <1>2, <1>3, <1>5 DEF FramesInDispatch, ItemClaimed
<1> QED BY <1>1, <1>4, <1>6 DEF ClaimInvariant, DeadIsIdle, OneClaimant

LEMMA RestartKeepsClaims ==
  ASSUME ClaimInvariant, Restart
  PROVE  ClaimInvariant'
<1>1. /\ up' = TRUE /\ claims' = claims /\ Goto(Startup, "announce")
      /\ proc = [w \in Workers |-> Idle]
  BY DEF Restart, ProcessStarts, memoryVars, ClaimInvariant, DeadIsIdle
<1>2. Drainers \subseteq Workers /\ Startup \in Workers
  BY DEF Drainers, Workers
<1>3. StepsTo(Startup, "announce")
  BY <1>1, <1>2, GotoMoves DEF ClaimInvariant
<1>4. Idle.frames = <<>> /\ Idle.pc \notin ClaimSteps
  BY DEF Idle, ClaimSteps, DispatchSteps
<1>5. \A w \in Workers :
         /\ proc'[w].frames = <<>> /\ proc'[w].pc \notin ClaimSteps
         /\ proc'[w] = Place(proc'[w])
  <2>1. "announce" \notin ClaimSteps
    BY DEF ClaimSteps, DispatchSteps
  <2> QED BY <1>1, <1>2, <1>3, <1>4, <2>1, IsPlace
          DEF StepsTo, Steps, ClaimInvariant
<1>6. PlacesKept'
  <2>1. proc' = [w \in Workers |-> proc'[w]]
    BY <1>1, <1>3 DEF StepsTo, Steps
  <2> QED BY <1>5, <2>1, Zenon DEF PlacesKept
<1>7. FramesInDispatch' /\ ItemClaimed'
  BY <1>2, <1>5 DEF FramesInDispatch, ItemClaimed
<1> QED BY <1>1, <1>6, <1>7 DEF ClaimInvariant, DeadIsIdle, OneClaimant

LEMMA OutsideKeepsClaims ==
  ASSUME ClaimInvariant, UNCHANGED <<up, proc, claims>>
  PROVE  ClaimInvariant'
BY DEF ClaimInvariant, PlacesKept, DeadIsIdle, FramesInDispatch, ItemClaimed,
       OneClaimant, CurrentItem

-----------------------------------------------------------------------------

LEMMA ClaimInit == Init => ClaimInvariant
<1> SUFFICES ASSUME Init PROVE ClaimInvariant
  OBVIOUS
<1>1. proc = [w \in Workers |-> Idle] /\ claims = {}
  BY DEF Init
<1>2. Idle = Place(Idle) /\ Idle.frames = <<>> /\ Idle.pc \notin ClaimSteps
  BY SMT DEF Idle, Place, ClaimSteps, DispatchSteps
<1>3. \A w \in Workers : proc[w] = Idle
  BY <1>1
<1>4. PlacesKept
  BY <1>1, <1>2, <1>3, Zenon DEF PlacesKept
<1>5. Drainers \subseteq Workers
  BY DEF Drainers, Workers
<1>6. FramesInDispatch /\ ItemClaimed
  BY <1>2, <1>3, <1>5 DEF FramesInDispatch, ItemClaimed
<1> QED BY <1>1, <1>4, <1>6 DEF ClaimInvariant, DeadIsIdle, OneClaimant

LEMMA ClaimStep == ClaimInvariant /\ [Next]_vars => ClaimInvariant'
<1> SUFFICES ASSUME ClaimInvariant, [Next]_vars PROVE ClaimInvariant'
  OBVIOUS
<1>1. ASSUME NEW w \in Workers, Dispatch(w) \/ Resume(w)
      PROVE  ClaimInvariant'
  BY <1>1, DispatchKeepsClaims, ResumeKeepsClaims
<1>2. CASE Handle
  BY <1>2, HandleKeepsClaims
<1>3. CASE \E e \in Events : Command(e) \/ SlowAcknowledgement(e)
  <2>1. UNCHANGED <<up, proc, claims>>
    BY <1>3 DEF Command, SlowAcknowledgement, Publish, AckWaitExpires,
                memoryVars, dispatchVars
  <2> QED BY <2>1, OutsideKeepsClaims
<1>4. CASE Crash \/ Restart
  BY <1>4, CrashKeepsClaims, RestartKeepsClaims
<1>5. CASE Finished \/ UNCHANGED vars
  <2>1. UNCHANGED <<up, proc, claims>>
    BY <1>5 DEF Finished, vars, dispatchVars, memoryVars, deliveryVars
  <2> QED BY <2>1, OutsideKeepsClaims
<1> QED BY <1>1, <1>2, <1>3, <1>4, <1>5 DEF Next

LEMMA ClaimsAreExclusive == ClaimInvariant => ResumedOnce
<1> SUFFICES ASSUME ClaimInvariant,
                    proc[Handler].frames # <<>>, proc[Startup].frames # <<>>,
                    CurrentItem(Handler).id = CurrentItem(Startup).id
             PROVE  FALSE
  BY DEF ResumedOnce
<1> DEFINE id == CurrentItem(Handler).id
<1>1. <<Handler, id>> \in claims /\ <<Startup, id>> \in claims
  BY DEF ClaimInvariant, FramesInDispatch, ItemClaimed, ClaimSteps, Drainers
<1>2. <<Handler, id>> = <<Startup, id>>
  BY <1>1 DEF ClaimInvariant, OneClaimant
<1> QED BY <1>2, DispatchAssumption

(***************************************************************************)
(* The drain in the handler and the recovery after a start never dispatch  *)
(* the same deferred entry at the same time, for any number of tasks,      *)
(* events, goroutines, crashes and failed publishes, although their        *)
(* captured queues may hold the same entries: a drain claims an entry      *)
(* before it looks at it again and keeps the claim until the dispatch it   *)
(* resumed has returned (resumePendingQueue, pending_dispatch.go:248-250,  *)
(* claimPendingDispatchResume, pending_dispatch.go:463-480).               *)
(***************************************************************************)
THEOREM ResumesAreExclusive == Spec => []ResumedOnce
<1>1. Spec => []ClaimInvariant
  BY ClaimInit, ClaimStep, PTL DEF Spec
<1> QED BY <1>1, ClaimsAreExclusive, PTL
=============================================================================
