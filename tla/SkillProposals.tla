-------------------------- MODULE SkillProposals --------------------------
(***************************************************************************)
(* What happens to a skill a bee proposes (internal/skills, the commands   *)
(* of cmd/paseka/skills*.go and the console handlers that call them).      *)
(*                                                                         *)
(* A bee writes a bundle into its trail's comb and announces its hash; an  *)
(* operator approves it into the repository store, refuses it, or tries it *)
(* in another trail's configuration.  Decisions are lines of the source    *)
(* trail's log, appended under that trail's lock.  The store, the disable  *)
(* ledger and the bundle have no lock: a command reads them, waits for its *)
(* locks, and acts on what it read.                                        *)
(*                                                                         *)
(* A bundle's bytes are its procedure hash.  Trails are numbers because    *)
(* locks are taken in trail order.                                         *)
(***************************************************************************)
EXTENDS Integers, Sequences, FiniteSets, SequencesExt

CONSTANTS
    Trails, Names, Hashes,
    Operators,      \* processes that run a skills command
    MaxProposals,   \* bundles the bees announce
    MaxCalls,       \* commands the operators start
    MaxFaults,      \* crashes and failed writes
    NoHash, NoEntry, NoName, Nobody, Dead

ASSUME SkillAssumption ==
    /\ Trails \subseteq Nat
    /\ NoHash \notin Hashes /\ NoName \notin Names
    /\ {Nobody, Dead} \cap Operators = {}

Proposals == Trails \X Names
Bundle == [trail: Trails, name: Names, hash: Hashes]
Decision == [skill: Names, hash: Hashes, decision: {"installed", "refused", "trialled"}]

VARIABLES
    comb,           \* the bundle in each trail's comb
    events,         \* skill.proposed discoveries, oldest first
    log,            \* each trail's decision log
    lock,           \* the owner of each trail's decision lock
    store,          \* the repository store
    disabled,       \* the ledger file
    candidate,      \* the skills of the trial's destination trail
    revision,       \* and its configuration revision
    op,             \* the command each operator runs
    unrecorded,     \* installs whose command died or failed before its line
    calls, faults
vars == <<comb, events, log, lock, store, disabled, candidate, revision, op,
          unrecorded, calls, faults>>
files == <<comb, events, log, store, disabled, candidate, revision, unrecorded>>

Command == [pc: {"idle", "plan", "lock", "recheck", "commit", "append", "apply",
                 "record", "save", "delete"},
            kind: {"approve", "reject", "trial", "disable", "enable", "remove"},
            force: BOOLEAN, plan: SUBSET Bundle, todo: SUBSET Bundle,
            expected: Nat, ledger: SUBSET Names, name: Names \cup {NoName}]
Idle(n) == [pc |-> "idle", kind |-> "approve", force |-> FALSE, plan |-> {},
            todo |-> {}, expected |-> 0, ledger |-> {}, name |-> n]

Init ==
    /\ comb = [p \in Proposals |-> NoHash]
    /\ events = [p \in Proposals |-> <<>>]
    /\ log = [t \in Trails |-> <<>>]
    /\ lock = [t \in Trails |-> Nobody]
    /\ store = [n \in Names |-> NoEntry]
    /\ disabled = {}
    /\ candidate = [n \in Names |-> NoHash]
    /\ revision = 1
    /\ op = [o \in Operators |-> Idle(NoName)]
    /\ unrecorded = {}
    /\ calls = 0 /\ faults = 0

(***************************************************************************)
(* The bees                                                                *)
(***************************************************************************)
Announcements == FoldSet(LAMBDA p, s : s + Len(events[p]), 0, Proposals)

WriteBundle(p) ==
    /\ Announcements < MaxProposals
    /\ \E h \in Hashes \ {comb[p]} : comb' = [comb EXCEPT ![p] = h]
    /\ UNCHANGED <<events, log, lock, store, disabled, candidate, revision, op,
                   unrecorded, calls, faults>>

Announce(p) ==
    /\ Announcements < MaxProposals
    /\ comb[p] # NoHash
    /\ events' = [events EXCEPT ![p] = Append(@, comb[p])]
    /\ UNCHANGED <<comb, log, lock, store, disabled, candidate, revision, op,
                   unrecorded, calls, faults>>

(***************************************************************************)
(* The inventory                                                           *)
(***************************************************************************)
Discovered(p) == IF events[p] = <<>> THEN NoHash ELSE Last(events[p])
\* The bundle is there and hashes to what its newest discovery says.
Valid(p) == Discovered(p) # NoHash /\ comb[p] = Discovered(p)
BundleOf(p) == [trail |-> p[1], name |-> p[2], hash |-> Discovered(p)]

\* The decisions that apply to exactly this bundle.
Decided(b) ==
    {d.decision : d \in {e \in ToSet(log[b.trail]) : e.skill = b.name /\ e.hash = b.hash}}

OneNameEach(refs) == \A p, q \in refs : p[2] = q[2] => p = q
TrailsOf(bundles) == {b.trail : b \in bundles}

(***************************************************************************)
(* Commands                                                                *)
(***************************************************************************)
Start(o, command) ==
    /\ op[o].pc = "idle" /\ calls < MaxCalls
    /\ calls' = calls + 1
    /\ op' = [op EXCEPT ![o] = command]
    /\ UNCHANGED <<comb, events, log, lock, store, disabled, candidate, revision,
                   unrecorded, faults>>

Goto(o, pc) == op' = [op EXCEPT ![o].pc = pc]
\* The command ends and its locks are released.
Return(o) ==
    /\ op' = [op EXCEPT ![o] = Idle(NoName)]
    /\ lock' = [t \in Trails |-> IF lock[t] = o THEN Nobody ELSE lock[t]]

Line(b, decision) == [skill |-> b.name, hash |-> b.hash, decision |-> decision]
AppendLine(b, decision) ==
    log' = [log EXCEPT ![b.trail] = Append(@, Line(b, decision))]

\* ApproveProposals: the inventory is scanned and the references selected.
Approve(o, refs, force) ==
    LET bundles == {BundleOf(p) : p \in refs} IN
    /\ refs # {} /\ OneNameEach(refs)
    /\ \A p \in refs : Valid(p)
    /\ \A b \in bundles : /\ "refused" \notin Decided(b)
                          /\ "installed" \in Decided(b) => force
    /\ Start(o, [Idle(NoName) EXCEPT !.pc = "plan", !.force = force, !.plan = bundles])

\* What a plan would write.  A plausible fault: the bytes the comb holds by now.
Planned_Unverified(b) == [b EXCEPT !.hash = comb[<<b.trail, b.name>>]]
Planned(b) == b
\* The recomputed hash of the bundle must still match its discovery.
Verified(b) == Planned(b).hash = comb[<<b.trail, b.name>>]

\* prepareInstallPlan: every bundle is read again before anything is written.
Plan(o) ==
    /\ op[o].pc = "plan"
    /\ IF /\ \A b \in op[o].plan : Verified(b)
          /\ \A b \in op[o].plan : store[b.name] # NoEntry => op[o].force
       THEN /\ op' = [op EXCEPT ![o].pc = "lock",
                                ![o].plan = {Planned(b) : b \in @},
                                ![o].todo = {Planned(b) : b \in op[o].plan}]
            /\ UNCHANGED lock
       ELSE Return(o)
    /\ UNCHANGED <<files, calls, faults>>

\* RejectProposal: the inventory, then the store, with no lock.
Reject(o, p) ==
    LET b == BundleOf(p) IN
    /\ Valid(p)
    /\ Decided(b) \cap {"installed", "refused"} = {}
    /\ store[p[2]] = NoEntry
    /\ Start(o, [Idle(NoName) EXCEPT !.pc = "lock", !.kind = "reject", !.plan = {b},
                                         !.todo = {b}])

(***************************************************************************)
(* Decision locks                                                          *)
(***************************************************************************)
Unlocked(o) == {t \in TrailsOf(op[o].plan) : lock[t] # o}
Lowest(trails) == CHOOSE t \in trails : \A u \in trails : t <= u
\* A plausible fault: the locks are taken in no common order.
NextLock_AnyOrder(o) ==
    IF ~ op[o].force THEN Lowest(Unlocked(o)) ELSE CHOOSE t \in Unlocked(o) : \A u \in Unlocked(o) : t >= u
NextLock(o) == Lowest(Unlocked(o))

AcquireLock(o) ==
    /\ op[o].pc = "lock"
    /\ IF Unlocked(o) = {}
       THEN Goto(o, "recheck") /\ UNCHANGED lock
       ELSE /\ lock[NextLock(o)] = Nobody
            /\ lock' = [lock EXCEPT ![NextLock(o)] = o]
            /\ UNCHANGED op
    /\ UNCHANGED <<files, calls, faults>>

LockTimesOut(o) ==
    /\ op[o].pc = "lock" /\ Unlocked(o) # {}
    /\ lock[NextLock(o)] # Nobody
    /\ Return(o)
    /\ UNCHANGED <<files, calls, faults>>

\* Only the lock of a process that is gone is reclaimed.
BreakLock(t) ==
    /\ lock[t] = Dead
    /\ lock' = [lock EXCEPT ![t] = Nobody]
    /\ UNCHANGED <<files, op, calls, faults>>

\* Decisions that landed after the scan end the command.
\* A plausible fault: an approval trusts the decisions of its scan.
Overtaken_RejectOnly(o) ==
    op[o].kind = "reject" /\ \E b \in op[o].plan : Decided(b) \cap {"installed", "refused"} # {}
\* A plausible fault: force overrides a refusal as it overrides an install.
Overtaken_Unforced(o) ==
    ~ op[o].force /\ \E b \in op[o].plan : Decided(b) \cap {"installed", "refused"} # {}
Overtaken(o) ==
    \E b \in op[o].plan :
        \/ "refused" \in Decided(b)
        \/ "installed" \in Decided(b) /\ ~ op[o].force

Recheck(o) ==
    /\ op[o].pc = "recheck"
    /\ IF Overtaken(o) THEN Return(o)
       ELSE /\ Goto(o, IF op[o].kind = "approve" THEN "commit" ELSE "append")
            /\ UNCHANGED lock
    /\ UNCHANGED <<files, calls, faults>>

(***************************************************************************)
(* Installing                                                              *)
(***************************************************************************)
\* Batches are sorted by trail.
NextBundles(o) == {b \in op[o].todo : b.trail = Lowest(TrailsOf(op[o].todo))}
Entry(b) == [trail |-> b.trail, hash |-> b.hash]

\* commitInstallPlans: one entry renamed into place, over what is there by now.
Commit(o) ==
    /\ op[o].pc = "commit"
    /\ IF op[o].todo = {}
       THEN /\ op' = [op EXCEPT ![o].pc = "append", ![o].todo = op[o].plan]
            /\ UNCHANGED store
       ELSE \E b \in NextBundles(o) :
            /\ store' = [store EXCEPT ![b.name] = Entry(b)]
            /\ op' = [op EXCEPT ![o].todo = @ \ {b}]
    /\ UNCHANGED <<comb, events, log, lock, disabled, candidate, revision,
                   unrecorded, calls, faults>>

LeftAfter(o, b) == op[o].todo \ {b}

AppendDecision(o) ==
    /\ op[o].pc = "append"
    /\ IF op[o].todo = {}
       THEN Return(o) /\ UNCHANGED log
       ELSE \E b \in NextBundles(o) :
            /\ AppendLine(b, IF op[o].kind = "approve" THEN "installed" ELSE "refused")
            /\ op' = [op EXCEPT ![o].todo = LeftAfter(o, b)]
            /\ UNCHANGED lock
    /\ UNCHANGED <<comb, events, store, disabled, candidate, revision,
                   unrecorded, calls, faults>>

(***************************************************************************)
(* Trials                                                                  *)
(***************************************************************************)
\* PrepareTrialBundles and the revision the trial expects; an installed skill
\* may be tried.
Trial(o, refs) ==
    LET bundles == {BundleOf(p) : p \in refs} IN
    /\ refs # {} /\ OneNameEach(refs)
    /\ \A p \in refs : Valid(p)
    /\ \A b \in bundles : "refused" \notin Decided(b)
    /\ Start(o, [Idle(NoName) EXCEPT !.pc = "apply", !.kind = "trial", !.plan = bundles,
                                         !.todo = bundles, !.expected = revision])

\* The destination is still at that revision and has no skill of these names.
Admits(o) ==
    /\ op[o].expected = revision
    /\ \A b \in op[o].plan : candidate[b.name] = NoHash

ApplyTrial(o) ==
    /\ op[o].pc = "apply"
    /\ IF Admits(o)
       THEN /\ candidate' = [n \in Names |->
                IF \E b \in op[o].plan : b.name = n
                THEN (CHOOSE b \in op[o].plan : b.name = n).hash ELSE candidate[n]]
            /\ revision' = revision + 1
            /\ Goto(o, "record")
            /\ UNCHANGED lock
       ELSE Return(o) /\ UNCHANGED <<candidate, revision>>
    /\ UNCHANGED <<comb, events, log, store, disabled, unrecorded, calls, faults>>

\* Each trialled line takes its trail's lock for the append alone, or times out.
RecordTrial(o) ==
    /\ op[o].pc = "record"
    /\ \/ op[o].todo = {} /\ Return(o) /\ UNCHANGED log
       \/ \E b \in NextBundles(o) :
            /\ lock[b.trail] = Nobody
            /\ AppendLine(b, "trialled")
            /\ op' = [op EXCEPT ![o].todo = @ \ {b}]
            /\ UNCHANGED lock
       \/ /\ \E b \in NextBundles(o) : lock[b.trail] # Nobody
          /\ Return(o)
          /\ UNCHANGED log
    /\ UNCHANGED <<comb, events, store, disabled, candidate, revision, unrecorded,
                   calls, faults>>

\* The destination trail takes the live colony configuration again.
ApplyColony ==
    /\ calls < MaxCalls /\ calls' = calls + 1
    /\ candidate' = [n \in Names |->
            IF store[n] = NoEntry THEN NoHash ELSE store[n].hash]
    /\ candidate' # candidate
    /\ revision' = revision + 1
    /\ UNCHANGED <<comb, events, log, lock, store, disabled, op, unrecorded, faults>>

(***************************************************************************)
(* The disable ledger: loaded, changed and saved whole, with no lock       *)
(***************************************************************************)
Load(o, kind, n) ==
    /\ store[n] # NoEntry
    /\ kind = "enable" => n \in disabled
    /\ Start(o, [Idle(n) EXCEPT !.pc = "save", !.kind = kind, !.ledger = disabled])

Changed(o) ==
    IF op[o].kind = "disable" THEN op[o].ledger \cup {op[o].name}
    ELSE op[o].ledger \ {op[o].name}

\* The whole ledger is written; remove writes only when it held the record.
Save(o) ==
    /\ op[o].pc = "save"
    /\ disabled' = IF Changed(o) = op[o].ledger /\ op[o].kind = "remove" THEN disabled
                   ELSE Changed(o)
    /\ IF op[o].kind = "remove"
       THEN Goto(o, "delete") /\ UNCHANGED lock
       ELSE Return(o)
    /\ UNCHANGED <<comb, events, log, store, candidate, revision, unrecorded, calls, faults>>

DeleteEntry(o) ==
    /\ op[o].pc = "delete"
    /\ store' = [store EXCEPT ![op[o].name] = NoEntry]
    /\ Return(o)
    /\ UNCHANGED <<comb, events, log, disabled, candidate, revision, unrecorded,
                   calls, faults>>

(***************************************************************************)
(* Failures                                                                *)
(***************************************************************************)
\* The entries an approval has renamed and not recorded.
Committed(o) ==
    IF op[o].kind # "approve" THEN {}
    ELSE CASE op[o].pc = "commit" -> op[o].plan \ op[o].todo
           [] op[o].pc = "append" -> op[o].todo
           [] OTHER -> {}

\* A rename or an append fails: the command reports it and undoes nothing.
WriteFails(o) ==
    /\ faults < MaxFaults /\ faults' = faults + 1
    /\ op[o].pc \in {"commit", "append", "record", "save", "delete"}
    /\ unrecorded' = unrecorded \cup Committed(o)
    /\ Return(o)
    /\ UNCHANGED <<comb, events, log, store, disabled, candidate, revision, calls>>

Crash(o) ==
    /\ faults < MaxFaults /\ faults' = faults + 1
    /\ op[o].pc # "idle"
    /\ unrecorded' = unrecorded \cup Committed(o)
    /\ op' = [op EXCEPT ![o] = Idle(NoName)]
    /\ lock' = [t \in Trails |-> IF lock[t] = o THEN Dead ELSE lock[t]]
    /\ UNCHANGED <<comb, events, log, store, disabled, candidate, revision, calls>>

(***************************************************************************)
(* Specification                                                           *)
(***************************************************************************)
Step(o) ==
    \/ Plan(o) \/ AcquireLock(o) \/ LockTimesOut(o) \/ Recheck(o)
    \/ Commit(o) \/ AppendDecision(o) \/ ApplyTrial(o) \/ RecordTrial(o)
    \/ Save(o) \/ DeleteEntry(o) \/ WriteFails(o) \/ Crash(o)

Next ==
    \/ \E p \in Proposals : WriteBundle(p) \/ Announce(p)
    \/ \E o \in Operators : Step(o)
    \/ \E o \in Operators, refs \in SUBSET Proposals : Trial(o, refs)
    \/ \E o \in Operators, refs \in SUBSET Proposals, force \in BOOLEAN :
            Approve(o, refs, force)
    \/ \E o \in Operators, p \in Proposals : Reject(o, p)
    \/ \E o \in Operators, kind \in {"disable", "enable", "remove"}, n \in Names :
            Load(o, kind, n)
    \/ \E t \in Trails : BreakLock(t)
    \/ ApplyColony

Spec == Init /\ [][Next]_vars

(***************************************************************************)
(* Properties                                                              *)
(***************************************************************************)
\* Every file and every command has its shape; a decision is of a known kind.
TypeOK ==
    /\ comb \in [Proposals -> Hashes \cup {NoHash}]
    /\ \A p \in Proposals : ToSet(events[p]) \subseteq Hashes
    /\ \A t \in Trails : ToSet(log[t]) \subseteq Decision
    /\ lock \in [Trails -> Operators \cup {Nobody, Dead}]
    /\ store \in [Names -> [trail: Trails, hash: Hashes] \cup {NoEntry}]
    /\ disabled \subseteq Names
    /\ candidate \in [Names -> Hashes \cup {NoHash}]
    /\ op \in [Operators -> Command]
    /\ revision \in Nat /\ unrecorded \subseteq Bundle

\* A decision about an exact bundle is final: whatever commands overlap, a
\* refusal is followed by no install and no second refusal, and an install by no
\* refusal (RejectProposal's and ApproveProposals' re-read under the lock).
DecisionsAreFinal ==
    \A t \in Trails : \A i, j \in DOMAIN log[t] :
        (i < j /\ log[t][i].skill = log[t][j].skill /\ log[t][i].hash = log[t][j].hash)
        => /\ log[t][i].decision = "refused" =>
                log[t][j].decision \notin {"installed", "refused"}
           /\ log[t][i].decision = "installed" => log[t][j].decision # "refused"

\* What the store holds was announced: bytes a bee wrote over a bundle after its
\* discovery are never installed (readValidatedBundle).
InstalledWasAnnounced ==
    \A n \in Names : store[n] # NoEntry =>
        store[n].hash \in ToSet(events[<<store[n].trail, n>>])

\* Two batches that share trails never wait for each other's lock (approvalTrails).
NoLockCycle ==
    \A p, q \in Operators :
        LET waits(a, b) == /\ op[a].pc = "lock" /\ Unlocked(a) # {}
                           /\ lock[NextLock(a)] = b
        IN  ~ (waits(p, q) /\ waits(q, p))

\* A refused bundle is not in the store, unless an approval that was to record it
\* as installed died or failed first: the lock covers both the rename and the line.
RefusedIsNotInstalled ==
    \A n \in Names : store[n] # NoEntry =>
        LET b == [trail |-> store[n].trail, name |-> n, hash |-> store[n].hash]
        IN  "refused" \in Decided(b) => b \in unrecorded
=============================================================================
