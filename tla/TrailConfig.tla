---------------------------- MODULE TrailConfig ----------------------------
(***************************************************************************)
(* A trail's configuration binding (internal/trailconfig): the manifest    *)
(* that names the active snapshot, its one pending change and its history, *)
(* and the attempts that own the trail's work.  Every operator maps the    *)
(* file it reads to the file it writes; ConfigBarrier interleaves them.    *)
(*                                                                         *)
(* A snapshot is its reference: content is captured, verified and compared *)
(* by digest.                                                              *)
(***************************************************************************)
EXTENDS Integers, Sequences, SequencesExt

CONSTANTS
    Tasks,          \* ledger tasks
    Chains,         \* direct reactions outside every task
    Refs,           \* configuration snapshots
    RequestIds,     \* identities of apply requests
    NoRef, NoChange

ASSUME ConfigAssumption ==
    /\ Tasks \cap Chains = {}
    /\ NoRef \notin Refs

Works == Tasks \cup Chains
Outcome == {"pending", "applied", "unchanged", "rejected", "cancelled"}
SourceKind == {"colony", "snapshot"}
Change == [id: RequestIds, old: Refs, new: Refs \cup {NoRef}, expected: Nat,
           outcome: Outcome]
ASSUME NoChangeAssumption == NoChange \notin Change

Manifest == [active: Refs, revision: Nat, retained: SUBSET Refs,
             pending: Change \cup {NoChange}, history: Seq(Change)]

(***************************************************************************)
(* The manifest                                                            *)
(***************************************************************************)
CaptureInitial(ref) == [active |-> ref, revision |-> 1, retained |-> {ref},
                        pending |-> NoChange, history |-> <<>>]

NewChange(m, req, ref, outcome) ==
    [id |-> req.id, old |-> m.active, new |-> ref, expected |-> req.expected,
     outcome |-> outcome]

\* The changes on record, the pending one included.
Recorded(m) ==
    (IF m.pending = NoChange THEN {} ELSE {m.pending}) \cup ToSet(m.history)
\* A plausible fault: only the history is searched.
IsRecorded_InHistory(m, id) == \E c \in ToSet(m.history) : c.id = id
IsRecorded(m, id) == \E c \in Recorded(m) : c.id = id

Settle(m, change, outcome) ==
    [m EXCEPT !.pending = NoChange,
              !.history = Append(@, [change EXCEPT !.outcome = outcome])]

Activate(m, change) ==
    [Settle(m, change, "applied") EXCEPT !.active = change.new, !.revision = @ + 1]

RecordRejection(m, req) ==
    [m EXCEPT !.history = Append(@, NewChange(m, req, NoRef, "rejected"))]

\* What Apply refuses without recording anything, and what it records as
\* rejected, both before a candidate is looked at.
Refuses(m, req) ==
    \/ IsRecorded(m, req.id)
    \/ req.source = "snapshot" /\ req.ref \notin m.retained
Rejects(m, req) == req.expected # m.revision \/ m.pending # NoChange

\* A validated candidate, with what still holds the old configuration.
Apply(m, req, blocked) ==
    LET kept == [m EXCEPT !.retained = @ \cup {req.ref}]
        change == NewChange(m, req, req.ref, "pending")
    IN  CASE req.ref = m.active ->
                [m EXCEPT !.history = Append(@, [change EXCEPT !.outcome = "unchanged"])]
          [] req.ref # m.active /\ blocked -> [kept EXCEPT !.pending = change]
          [] OTHER -> Activate(kept, change)

\* The pending change at a boundary; valid: the revalidation of its candidate.
TryActivate(m, blocked, valid) ==
    IF m.pending = NoChange \/ blocked THEN m
    ELSE IF m.pending.expected # m.revision \/ ~ valid THEN Settle(m, m.pending, "rejected")
    ELSE Activate(m, m.pending)

CancelPending(m) ==
    IF m.pending = NoChange THEN m ELSE Settle(m, m.pending, "cancelled")

(***************************************************************************)
(* Attempts, oldest first                                                  *)
(***************************************************************************)
\* A source names the event or the activation a dispatch reacts to.
Attempt(Source) == [work: Works, ref: Refs, revision: Nat, source: Source,
                    last: Source, count: Nat, open: BOOLEAN]

\* The index of a task's latest attempt, or of a chain's only one; 0: none.
Latest(as, w) == LET mine == {i \in DOMAIN as : as[i].work = w}
                 IN  IF mine = {} THEN 0 ELSE CHOOSE i \in mine : \A j \in mine : j <= i
HasOpen(as, w) == Latest(as, w) # 0 /\ as[Latest(as, w)].open

\* An existing record answers: an open attempt continues, a chain is admitted
\* once, and a closed task attempt claims the source that admitted it.
Answers(as, w, source) ==
    /\ Latest(as, w) # 0
    /\ LET a == as[Latest(as, w)]
       IN  a.open \/ w \in Chains \/ source = a.source

NewAttempt(w, ref, revision, source, none) ==
    [work |-> w, ref |-> ref, revision |-> revision, source |-> source,
     last |-> none, count |-> 0, open |-> TRUE]

\* A plausible fault: the dispatcher's own check is trusted.
Blocked_Never(m, as, w, source) == FALSE
Blocked(m, as, w, source) == ~ Answers(as, w, source) /\ m.pending # NoChange

\* Gated admission, for a dispatcher whose context is bound to a snapshot.
Admit(m, as, w, ref, revision, source, none) ==
    IF Answers(as, w, source) \/ Blocked(m, as, w, source) THEN as
    ELSE Append(as, NewAttempt(w, ref, revision, source, none))

IsDuplicate(as, i, source) ==
    ~ as[i].open \/ (as[i].last = source /\ as[i].count > 0)
MarkDispatched(as, i, source) ==
    [as EXCEPT ![i].last = source, ![i].count = @ + 1]

CloseAttempts(as, which) ==
    [i \in DOMAIN as |-> [as[i] EXCEPT !.open = @ /\ i \notin which]]

(***************************************************************************)
(* What still needs the old configuration                                  *)
(***************************************************************************)
TaskBlocks(status) == status \in {"running", "waiting_review"}
RunBlocks(run) == run = "live"
\* An attempt that was admitted but not dispatched, or owns a live run.
AttemptBlocks(a, run) == a.open /\ (a.count = 0 \/ RunBlocks(run[a.work]))
Blockers(as, run, tasksBusy) ==
    \/ tasksBusy
    \/ \E w \in Works : RunBlocks(run[w])
    \/ \E i \in DOMAIN as : AttemptBlocks(as[i], run)
=============================================================================
