----------------------------- MODULE LedgerCAS -----------------------------
(***************************************************************************)
(* The task ledger as it is stored: one JetStream KV key holding the       *)
(* trail's snapshot, and the load / mutate / compare-and-set loop          *)
(* (KVLedger.mutateCAS) every writer runs - the reactor's goroutines, the  *)
(* CLI and the console, each in its own process.  The theorem of           *)
(* LedgerProofs is that this implements TaskLedger, where an operation     *)
(* is one step.                                                            *)
(*                                                                         *)
(* A KV revision is only ever compared for equality and never recurs, so   *)
(* it is kept as the set of writers whose loaded revision is still the     *)
(* stored one.  An absent key is the empty snapshot: Create fails on an    *)
(* existing key as Update fails on a newer revision.                       *)
(***************************************************************************)
EXTENDS Ledger, Integers

CONSTANTS
    Writers,        \* goroutines and processes that write this trail
    Kinds,          \* the operations they call (a subset of KindSet)
    MaxAttempts,    \* kvApplyMaxRetries
    HoneyBound,     \* bound on the honey a trail may be given
    QueueBound,     \* bound on the deferred-dispatch queue
    RevisionBound,  \* bound on the work revision
    MaxUnknown      \* bound on honey whose write was never confirmed

\* The bus events and ledger operations modelled here: one of every shape
\* (always written, sometimes skipped, sometimes refused, claimed once).
KindSet == {"energy.add", "energy.consume", "energy.stipend", "running",
            "system.kill", "seed", "defer", "claim", "clear"}

ASSUME CASAssumption ==
    /\ Kinds \subseteq KindSet
    /\ MaxAttempts \in Nat \ {0}
    /\ HoneyBound \in Nat /\ QueueBound \in Nat /\ RevisionBound \in Nat
    /\ MaxUnknown \in Nat

Operation == [kind: Kinds, task: TaskIds, bee: Bees, now: Stamps]

VARIABLES
    value,      \* the stored snapshot
    call,       \* per writer: the operation in progress and what it loaded
    fresh,      \* writers whose loaded revision is the stored one
    seedWins,   \* callers told that they performed the seed
    claims,     \* callers told that they claimed the current pause episode
    credit,     \* honey the confirmed calls believe is left
    unknown     \* honey moved by writes whose outcome the caller never learnt

vars == <<value, call, fresh, seedWins, claims, credit, unknown>>

Idle == [phase |-> "idle"]
Call == {Idle} \cup
    [phase: {"loading", "loaded"}, op: Operation, seen: Trace,
     attempt: 0 .. MaxAttempts - 1]

StoreInit ==
    /\ value = EmptyTrace
    /\ call = [w \in Writers |-> Idle]
    /\ fresh = {}
    /\ seedWins = 0 /\ claims = 0 /\ credit = 0 /\ unknown = 0

-----------------------------------------------------------------------------
(* What the callbacks passed to mutateCAS do.  Honey moves by one unit. *)

Mutated(t, op) ==
    CASE op.kind = "energy.add"     -> ReduceEnergyAdd(t, 1)
      [] op.kind = "energy.consume" -> ReduceEnergyConsume(t, 1)
      [] op.kind = "energy.stipend" -> ReduceEnergyStipend(t, 1)
      [] op.kind = "running"        -> ReduceTaskStatus(t, op.task, "running", op.now)
      [] op.kind = "system.kill"    -> ReduceSystemKill(t)
      [] op.kind = "seed"           -> EnsureEnergySeed(t)
      [] op.kind = "defer"          -> DeferPendingDispatch(t, TaskDispatch(op.task, op.bee),
                                           FALSE, t.tasks[op.task].analysis)
      [] op.kind = "claim"          -> ClaimEnergyPausePublished(t)
      [] op.kind = "clear"          -> CloseEnergyPause(t)

\* The callback fails, or reports that nothing changed: no write happens.
Refused(t, op) ==
    \/ op.kind = "energy.consume" /\ ~CanConsume(t, 1)
    \/ op.kind \in {"running", "system.kill"} /\ t.killed
    \/ op.kind = "seed" /\ (t.seed # "none" \/ t.budget > 0)
    \/ op.kind = "defer" /\ ~CanDefer(t, TaskDispatch(op.task, op.bee))
    \/ op.kind = "claim" /\ ~CanClaimPause(t)
    \/ op.kind = "clear" /\ t.pause = "none"

Fits(t, op) ==
    /\ op.kind = "energy.add" => t.remaining + 1 <= HoneyBound /\ t.added + 1 <= HoneyBound
    /\ op.kind = "running" => Mutated(t, op).workRevision <= RevisionBound
    /\ op.kind = "seed" => DefaultBudget <= HoneyBound
    /\ op.kind = "defer" => Len(t.pending) < QueueBound

-----------------------------------------------------------------------------
(* The loop *)

Return(w) == call' = [call EXCEPT ![w] = Idle]

Start(w, op) ==
    /\ call[w] = Idle
    /\ call' = [call EXCEPT ![w] = [phase |-> "loading", op |-> op,
                                    seen |-> EmptyTrace, attempt |-> 0]]
    /\ UNCHANGED <<value, fresh, seedWins, claims, credit, unknown>>

Load(w) ==
    /\ call[w].phase = "loading"
    /\ call' = [call EXCEPT ![w].phase = "loaded", ![w].seen = value]
    /\ fresh' = fresh \cup {w}
    /\ UNCHANGED <<value, seedWins, claims, credit, unknown>>

\* The caller gets the callback's own answer, an error or "no change".
Refuse(w) ==
    /\ call[w].phase = "loaded"
    /\ Refused(call[w].seen, call[w].op)
    /\ Return(w)
    /\ fresh' = fresh \ {w}
    /\ UNCHANGED <<value, seedWins, claims, credit, unknown>>

Writing(w) ==
    /\ call[w].phase = "loaded"
    /\ ~Refused(call[w].seen, call[w].op)

\* A write that every other writer's loaded revision is now older than.
Store(w) ==
    /\ Fits(call[w].seen, call[w].op)
    /\ value' = Mutated(call[w].seen, call[w].op)
    /\ fresh' = {}

PutWins_Blind(w) == TRUE
PutWins(w) == w \in fresh

Put(w) ==
    LET op == call[w].op
    IN  /\ Writing(w)
        /\ PutWins(w)
        /\ Store(w)
        /\ Return(w)
        /\ seedWins' = IF op.kind = "seed" THEN seedWins + 1 ELSE seedWins
        /\ claims' = IF op.kind = "claim" THEN claims + 1
                     ELSE IF value'.pause = "none" THEN 0 ELSE claims
        /\ credit' = credit + (value'.remaining - call[w].seen.remaining)
        /\ UNCHANGED unknown

NextAttempt(w) == call[w].attempt + 1

\* The revision moved: load again, and give up after MaxAttempts.
Conflict(w) ==
    /\ Writing(w)
    /\ w \notin fresh
    /\ call' = [call EXCEPT ![w] =
          IF NextAttempt(w) = MaxAttempts THEN Idle
          ELSE [@ EXCEPT !.phase = "loading", !.seen = EmptyTrace,
                         !.attempt = NextAttempt(w)]]
    /\ UNCHANGED <<value, fresh, seedWins, claims, credit, unknown>>

\* The put fails otherwise (a timeout): the caller sees an error whether or
\* not the store took the write.
PutUnknown(w) ==
    LET after == Mutated(call[w].seen, call[w].op)
        moved == after.remaining - call[w].seen.remaining
        size == IF moved < 0 THEN 0 - moved ELSE moved
    IN  /\ Writing(w)
        /\ unknown + size <= MaxUnknown
        /\ unknown' = unknown + size
        /\ \/ w \in fresh /\ Store(w)
           \/ UNCHANGED value /\ fresh' = fresh \ {w}
        /\ claims' = IF value'.pause = "none" THEN 0 ELSE claims
        /\ Return(w)
        /\ UNCHANGED <<seedWins, credit>>

\* The process dies before its write.
Crash(w) ==
    /\ call[w] # Idle
    /\ Return(w)
    /\ fresh' = fresh \ {w}
    /\ UNCHANGED <<value, seedWins, claims, credit, unknown>>

Loop(w) == Load(w) \/ Refuse(w) \/ Put(w) \/ Conflict(w)

StoreNext ==
    \E w \in Writers :
        \/ \E op \in Operation : Start(w, op)
        \/ Loop(w) \/ PutUnknown(w) \/ Crash(w)

StoreSpec == StoreInit /\ [][StoreNext]_vars

-----------------------------------------------------------------------------
(* Properties *)

StoreTypeOK ==
    /\ value \in Trace
    /\ call \in [Writers -> Call]
    /\ fresh \subseteq Writers
    /\ seedWins \in Nat /\ claims \in Nat /\ credit \in Int /\ unknown \in Nat

\* The stored snapshot a fresh writer holds is the one it would overwrite:
\* a compare-and-set that succeeds never discards another writer's change
\* (kv_ledger.go:239-275).
FreshMeansCurrent ==
    \A w \in fresh : call[w].phase = "loaded" /\ call[w].seen = value

\* Concurrent first dispatches converge on one seed (kv_ledger.go:67-86): at
\* most one caller ever learns that it allocated the budget.
OneSeedWinner == seedWins <= 1

\* The claim is the compare-and-set write (pause.go:54-70): whatever processes
\* race, restart or time out, at most one of them is told to send the paused
\* observation of an episode, and only of an episode that is marked published.
OnePausedObservation ==
    /\ claims <= 1
    /\ claims = 1 => value.pause = "published"

\* What the callers were told adds up: the reserve differs from what confirmed
\* calls moved by no more than what unconfirmed writes may have moved.  A lost
\* update, or a write reported as failed, would break the sum.
HoneyAddsUp ==
    /\ value.remaining <= credit + unknown
    /\ credit - unknown <= value.remaining

\* The ledger the writers share behaves as the sequential one.
Sequential == INSTANCE TaskLedger WITH
    trace <- value, Plans <- {}, StatusEvents <- {"running"},
    CompletedEvents <- {}, Workspaces <- {}, Analyses <- {FALSE},
    Amounts <- {1}, MaxHoney <- HoneyBound, MaxEntries <- QueueBound,
    MaxRevision <- RevisionBound

LinearizesToTaskLedger == Sequential!Spec
=============================================================================
