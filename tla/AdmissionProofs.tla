-------------------------- MODULE AdmissionProofs --------------------------
(***************************************************************************)
(* Theorems about the two places where the program decides that something  *)
(* may start.  ConfigBarrier, for any tasks, direct reactions, snapshots   *)
(* and requests: an apply request is recorded once, and nothing is         *)
(* admitted while a change is pending.  Sessions, for any sessions,        *)
(* watchers and processes: an invite starts one session, a provider        *)
(* session is continued once, the end of a session answers its invite.     *)
(***************************************************************************)
EXTENDS ConfigBarrier, Sessions, WellFoundedInduction, FiniteSetTheorems, TLAPS

-----------------------------------------------------------------------------
(* ConfigBarrier: the manifest, the attempts and the barrier *)

Request == [id: RequestIds, source: SourceKind, ref: Refs, expected: Nat]

(* The manifest, whoever writes it *)

\* The requests on record are distinct, and the pending change names what it
\* would activate.
Sound(m) ==
    /\ m \in Manifest
    /\ m.pending # NoChange => m.pending.new \in Refs
    /\ \A i, j \in DOMAIN m.history : m.history[i].id = m.history[j].id => i = j
    /\ m.pending # NoChange =>
          \A i \in DOMAIN m.history : m.history[i].id # m.pending.id

LEMMA AppendIs ==
  ASSUME NEW S, NEW s \in Seq(S), NEW e \in S
  PROVE  /\ Append(s, e) \in Seq(S)
         /\ DOMAIN Append(s, e) = 1..(Len(s) + 1)
         /\ DOMAIN s = 1..Len(s) /\ Len(s) \in Nat
         /\ \A i \in DOMAIN s : Append(s, e)[i] = s[i]
         /\ Append(s, e)[Len(s) + 1] = e
OBVIOUS

\* A change with an identity that is not on record may be added to it.
LEMMA AppendSound ==
  ASSUME NEW m, Sound(m), NEW c \in Change,
         \A i \in DOMAIN m.history : m.history[i].id # c.id,
         NEW n \in Manifest, n.history = Append(m.history, c),
         \/ n.pending = NoChange
         \/ n.pending = m.pending /\ m.pending.id # c.id
  PROVE  Sound(n)
<1>1. m.history \in Seq(Change)
  BY DEF Sound, Manifest
<1>2. \A i, j \in DOMAIN n.history : n.history[i].id = n.history[j].id => i = j
  <2> SUFFICES ASSUME NEW i \in DOMAIN n.history, NEW j \in DOMAIN n.history,
                      n.history[i].id = n.history[j].id
               PROVE  i = j
    OBVIOUS
  <2>1. i \in DOMAIN m.history \/ i = Len(m.history) + 1
    BY <1>1, AppendIs
  <2>2. j \in DOMAIN m.history \/ j = Len(m.history) + 1
    BY <1>1, AppendIs
  <2> QED BY <1>1, <2>1, <2>2, AppendIs DEF Sound
<1>3. n.pending # NoChange =>
        \A i \in DOMAIN n.history : n.history[i].id # n.pending.id
  <2> SUFFICES ASSUME n.pending # NoChange, NEW i \in DOMAIN n.history
               PROVE  n.history[i].id # n.pending.id
    OBVIOUS
  <2>1. i \in DOMAIN m.history \/ i = Len(m.history) + 1
    BY <1>1, AppendIs
  <2> QED BY <1>1, <2>1, AppendIs DEF Sound
<1> QED BY <1>2, <1>3 DEF Sound

LEMMA SettleSound ==
  ASSUME NEW m, Sound(m), m.pending # NoChange, NEW o \in Outcome
  PROVE  /\ Sound(Settle(m, m.pending, o))
         /\ Settle(m, m.pending, o).pending = NoChange
<1> DEFINE c == [m.pending EXCEPT !.outcome = o]
           n == Settle(m, m.pending, o)
<1>1. c \in Change /\ c.id = m.pending.id
  BY DEF Sound, Manifest, Change
<1>2. n.history = Append(m.history, c) /\ n.pending = NoChange
  BY DEF Sound, Manifest, Settle
<1>3. n \in Manifest
  BY <1>1, AppendIs DEF Sound, Manifest, Settle
<1> QED BY <1>1, <1>2, <1>3, AppendSound DEF Sound

LEMMA MovedIs ==
  ASSUME NEW r \in Manifest, NEW ref \in Refs
  PROVE  /\ [r EXCEPT !.active = ref, !.revision = @ + 1] \in Manifest
         /\ [r EXCEPT !.active = ref, !.revision = @ + 1].history = r.history
         /\ [r EXCEPT !.active = ref, !.revision = @ + 1].pending = r.pending
<1> DEFINE k == r.revision + 1
<1>1. r.revision \in Nat
  BY DEF Manifest
<1>2. k \in Nat
  BY <1>1
<1> HIDE DEF k
<1>3. /\ [r EXCEPT !.active = ref, !.revision = k] \in Manifest
      /\ [r EXCEPT !.active = ref, !.revision = k].history = r.history
      /\ [r EXCEPT !.active = ref, !.revision = k].pending = r.pending
  BY <1>2 DEF Manifest
<1> QED BY <1>3 DEF k

LEMMA ActivateIs ==
  ASSUME NEW m, NEW c, c.new \in Refs, Settle(m, c, "applied") \in Manifest
  PROVE  /\ Activate(m, c) \in Manifest
         /\ Activate(m, c).history = Settle(m, c, "applied").history
         /\ Activate(m, c).pending = Settle(m, c, "applied").pending
BY MovedIs DEF Activate

LEMMA ActivateSound ==
  ASSUME NEW m, Sound(m), m.pending # NoChange
  PROVE  Sound(Activate(m, m.pending))
<1>1. "applied" \in Outcome
  BY DEF Outcome
<1>2. /\ Sound(Settle(m, m.pending, "applied"))
      /\ Settle(m, m.pending, "applied").pending = NoChange
  BY <1>1, SettleSound
<1>3. m.pending.new \in Refs
  BY DEF Sound
<1> QED BY <1>2, <1>3, ActivateIs DEF Sound

LEMMA TrySound ==
  ASSUME NEW m, Sound(m), NEW blocked \in BOOLEAN, NEW valid \in BOOLEAN
  PROVE  Sound(TryActivate(m, blocked, valid))
<1>1. CASE m.pending = NoChange \/ blocked
  <2>1. TryActivate(m, blocked, valid) = m
    BY <1>1 DEF TryActivate
  <2> QED BY <2>1
<1>2. CASE m.pending # NoChange /\ ~ blocked /\ (m.pending.expected # m.revision \/ ~ valid)
  <2>1. "rejected" \in Outcome
    BY DEF Outcome
  <2>2. TryActivate(m, blocked, valid) = Settle(m, m.pending, "rejected")
    BY <1>2 DEF TryActivate
  <2> QED BY <1>2, <2>1, <2>2, SettleSound
<1>3. CASE m.pending # NoChange /\ ~ blocked /\ ~ (m.pending.expected # m.revision \/ ~ valid)
  <2>1. TryActivate(m, blocked, valid) = Activate(m, m.pending)
    BY <1>3 DEF TryActivate
  <2> QED BY <1>3, <2>1, ActivateSound
<1> QED BY <1>1, <1>2, <1>3

LEMMA CancelSound ==
  ASSUME NEW m, Sound(m)
  PROVE  Sound(CancelPending(m)) /\ CancelPending(m).pending = NoChange
<1>1. "cancelled" \in Outcome
  BY DEF Outcome
<1> QED BY <1>1, SettleSound DEF CancelPending

LEMMA RecordedIs ==
  ASSUME NEW m, Sound(m), NEW id, ~ IsRecorded(m, id)
  PROVE  /\ \A i \in DOMAIN m.history : m.history[i].id # id
         /\ m.pending # NoChange => m.pending.id # id
BY DEF IsRecorded, Recorded, ToSet

LEMMA NewChangeType ==
  ASSUME NEW m \in Manifest, NEW req \in Request, NEW ref \in Refs \cup {NoRef},
         NEW o \in Outcome
  PROVE  NewChange(m, req, ref, o) \in Change /\ NewChange(m, req, ref, o).id = req.id
         /\ NewChange(m, req, ref, o).new = ref
BY DEF NewChange, Change, Manifest, Request

LEMMA RejectSound ==
  ASSUME NEW m, Sound(m), NEW req \in Request, ~ IsRecorded(m, req.id)
  PROVE  Sound(RecordRejection(m, req))
<1> DEFINE c == NewChange(m, req, NoRef, "rejected")
           n == RecordRejection(m, req)
<1>1. c \in Change /\ c.id = req.id
  BY NewChangeType DEF Outcome, Sound
<1>2. n.history = Append(m.history, c) /\ n.pending = m.pending
  BY DEF RecordRejection, Sound, Manifest
<1>3. n \in Manifest
  BY <1>1, AppendIs DEF RecordRejection, Sound, Manifest
<1> HIDE DEF c, n
<1> QED BY <1>1, <1>2, <1>3, RecordedIs, AppendSound DEF n

LEMMA ApplySound ==
  ASSUME NEW m, Sound(m), NEW req \in Request, NEW blocked \in BOOLEAN,
         ~ IsRecorded(m, req.id)
  PROVE  Sound(Apply(m, req, blocked))
<1> DEFINE kept == [m EXCEPT !.retained = @ \cup {req.ref}]
           change == NewChange(m, req, req.ref, "pending")
<1>1. req.ref \in Refs /\ change \in Change /\ change.id = req.id /\ change.new = req.ref
  BY NewChangeType DEF Outcome, Sound, Request
<1>2. kept \in Manifest /\ kept.history = m.history /\ kept.pending = m.pending
  BY <1>1 DEF Sound, Manifest
<1>3. Sound(kept)
  BY <1>2 DEF Sound
<1>4. \A i \in DOMAIN m.history : m.history[i].id # change.id
  BY <1>1, RecordedIs
<1>5. m.pending # NoChange => m.pending.id # change.id
  BY <1>1, RecordedIs
<1>6. \A o \in Outcome : [change EXCEPT !.outcome = o] \in Change
                         /\ [change EXCEPT !.outcome = o].id = change.id
  BY <1>1 DEF Change
<1>7. CASE req.ref = m.active
  <2> DEFINE c == [change EXCEPT !.outcome = "unchanged"]
             n == [m EXCEPT !.history = Append(@, c)]
  <2>1. c \in Change /\ c.id = change.id
    BY <1>6 DEF Outcome
  <2>2. n \in Manifest /\ n.history = Append(m.history, c) /\ n.pending = m.pending
    BY <2>1, AppendIs DEF Sound, Manifest
  <2>3. Sound(n)
    <3> HIDE DEF n, c, change
    <3> QED BY <1>4, <1>5, <2>1, <2>2, AppendSound
  <2> QED BY <1>7, <2>3 DEF Apply
<1>8. CASE req.ref # m.active /\ blocked
  <2> DEFINE n == [kept EXCEPT !.pending = change]
  <2>1. n \in Manifest /\ n.history = m.history /\ n.pending = change
    BY <1>1, <1>2 DEF Manifest
  <2>2. Sound(n)
    <3> HIDE DEF n, change, kept
    <3> QED BY <1>1, <1>4, <2>1 DEF Sound
  <2> QED BY <1>8, <2>2 DEF Apply
<1>9. CASE req.ref # m.active /\ ~ blocked
  <2> DEFINE c == [change EXCEPT !.outcome = "applied"]
             s == Settle(kept, change, "applied")
             n == Activate(kept, change)
  <2>1. c \in Change /\ c.id = change.id
    BY <1>6 DEF Outcome
  <2>2. s \in Manifest /\ s.history = Append(m.history, c) /\ s.pending = NoChange
    BY <1>2, <2>1, AppendIs DEF Settle, Manifest, Sound
  <2>3. n \in Manifest /\ n.history = Append(m.history, c) /\ n.pending = NoChange
    <3> HIDE DEF c, change, kept
    <3> QED BY <1>1, <2>2, ActivateIs
  <2>4. Sound(n)
    <3> HIDE DEF n, s, c, change, kept
    <3> QED BY <1>4, <2>1, <2>3, AppendSound
  <2> QED BY <1>9, <2>4 DEF Apply
<1> QED BY <1>7, <1>8, <1>9

(* Attempts, whoever writes them *)

LEMMA NatFacts == \A n \in Nat : n + 1 \in Nat /\ ~ (n > n)
OBVIOUS

LEMMA SeqIs ==
  ASSUME NEW S, NEW s \in Seq(S)
  PROVE  Len(s) \in Nat /\ DOMAIN s = 1..Len(s) /\ \A i \in DOMAIN s : s[i] \in S
OBVIOUS

LEMMA EmptyIsSeq == \A S : <<>> \in Seq(S)
OBVIOUS

LEMMA RowIsSeq ==
  ASSUME NEW S, NEW n \in Nat, NEW f \in [1..n -> S]
  PROVE  f \in Seq(S) /\ Len(f) = n
OBVIOUS

LEMMA CloseType ==
  ASSUME NEW as \in Seq(Attempt(Source)), NEW which
  PROVE  /\ CloseAttempts(as, which) \in Seq(Attempt(Source))
         /\ Len(CloseAttempts(as, which)) = Len(as)
<1>1. Len(as) \in Nat /\ DOMAIN as = 1..Len(as) /\ \A i \in DOMAIN as : as[i] \in Attempt(Source)
  BY SeqIs, Zenon
<1>2. \A i \in DOMAIN as : [as[i] EXCEPT !.open = @ /\ i \notin which] \in Attempt(Source)
  <2> SUFFICES ASSUME NEW i \in DOMAIN as
               PROVE  [as[i] EXCEPT !.open = @ /\ i \notin which] \in Attempt(Source)
    OBVIOUS
  <2> DEFINE o == as[i].open /\ i \notin which
  <2>1. o \in BOOLEAN
    OBVIOUS
  <2> HIDE DEF o
  <2>2. [as[i] EXCEPT !.open = o] \in Attempt(Source)
    BY <1>1, <2>1 DEF Attempt
  <2> QED BY <2>2 DEF o
<1> DEFINE f == [i \in DOMAIN as |-> [as[i] EXCEPT !.open = @ /\ i \notin which]]
<1>3. f \in [1..Len(as) -> Attempt(Source)]
  BY <1>1, <1>2
<1>4. f \in Seq(Attempt(Source)) /\ Len(f) = Len(as)
  <2> HIDE DEF f
  <2> QED BY <1>1, <1>3, RowIsSeq, Zenon
<1> QED BY <1>4 DEF CloseAttempts

LEMMA MarkType ==
  ASSUME NEW as \in Seq(Attempt(Source)), NEW i, NEW source \in Source
  PROVE  /\ MarkDispatched(as, i, source) \in Seq(Attempt(Source))
         /\ Len(MarkDispatched(as, i, source)) = Len(as)
<1>1. Len(as) \in Nat /\ DOMAIN as = 1..Len(as) /\ \A j \in DOMAIN as : as[j] \in Attempt(Source)
  BY SeqIs, Zenon
<1> DEFINE k == as[i].count + 1
           f == [as EXCEPT ![i].last = source]
           g == [f EXCEPT ![i].count = k]
<1>2. i \in DOMAIN as => as[i].count \in Nat
  BY <1>1 DEF Attempt
<1>3. i \in DOMAIN as => k \in Nat
  BY <1>2, NatFacts, Zenon
<1> HIDE DEF k
<1>4. f \in [1..Len(as) -> Attempt(Source)]
  BY <1>1 DEF Attempt
<1> HIDE DEF f
<1>5. g \in [1..Len(as) -> Attempt(Source)]
  BY <1>1, <1>3, <1>4 DEF Attempt
<1>6. g \in Seq(Attempt(Source)) /\ Len(g) = Len(as)
  <2> HIDE DEF g
  <2> QED BY <1>1, <1>5, RowIsSeq, Zenon
<1>7. MarkDispatched(as, i, source) = g
  BY DEF MarkDispatched, f, k
<1> QED BY <1>6, <1>7

\* Admission adds one attempt at most, and none while a change is pending.
LEMMA AdmitType ==
  ASSUME NEW as \in Seq(Attempt(Source)), NEW m, NEW w \in Works, NEW ref \in Refs,
         NEW revision \in Nat, NEW source \in Source, NEW none \in Source
  PROVE  /\ Admit(m, as, w, ref, revision, source, none) \in Seq(Attempt(Source))
         /\ Len(Admit(m, as, w, ref, revision, source, none)) > Len(as)
                => m.pending = NoChange
<1> DEFINE a == NewAttempt(w, ref, revision, source, none)
<1>1. a \in Attempt(Source)
  BY DEF NewAttempt, Attempt
<1>2. Append(as, a) \in Seq(Attempt(Source))
  BY <1>1, AppendIs
<1>3. ~ (Len(as) > Len(as))
  <2>1. Len(as) \in Nat
    BY SeqIs, Zenon
  <2> QED BY <2>1, NatFacts, Zenon
<1>4. CASE Answers(as, w, source) \/ Blocked(m, as, w, source)
  BY <1>3, <1>4 DEF Admit
<1>5. CASE ~ (Answers(as, w, source) \/ Blocked(m, as, w, source))
  BY <1>2, <1>5 DEF Admit, Blocked
<1> QED BY <1>4, <1>5

\* Among the numbered attempts of a task there is a latest one.
LEMMA LatestOf ==
  ASSUME NEW n \in Nat, NEW T \in SUBSET (1..n), T # {}
  PROVE  \E i \in T : \A j \in T : j <= i
<1> DEFINE D == {n - i : i \in T}
           Less == OpToRel(<, Nat)
<1>0. \A i \in T : i \in Nat /\ n - i \in Nat
  <2> SUFFICES ASSUME NEW i \in T PROVE i \in Nat /\ n - i \in Nat
    OBVIOUS
  <2>1. i \in 1..n
    OBVIOUS
  <2> QED BY <2>1
<1>1. D \subseteq Nat /\ D # {}
  BY <1>0, Zenon
<1>2. IsWellFoundedOn(Less, Nat)
  BY NatLessThanWellFounded
<1>3. PICK d \in D : \A e \in D : ~ (<<e, d>> \in Less)
  <2> HIDE DEF D, Less
  <2> QED BY <1>1, <1>2, WFMin, Zenon
<1>4. \A e \in D : ~ (e < d)
  <2> SUFFICES ASSUME NEW e \in D PROVE ~ (e < d)
    OBVIOUS
  <2>1. ~ (<<e, d>> \in {ss \in Nat \X Nat : ss[1] < ss[2]})
    BY <1>3 DEF OpToRel
  <2>2. e \in Nat /\ d \in Nat
    BY <1>1
  <2> QED BY <2>1, <2>2
<1>5. PICK i \in T : d = n - i
  OBVIOUS
<1>6. \A j \in T : j <= i
  <2> SUFFICES ASSUME NEW j \in T PROVE j <= i
    OBVIOUS
  <2>1. ~ (n - j < n - i)
    BY <1>4, <1>5
  <2>2. j \in Nat /\ i \in Nat
    BY <1>0
  <2> QED BY <2>1, <2>2
<1> QED BY <1>6

LEMMA LatestType ==
  ASSUME NEW as \in Seq(Attempt(Source)), NEW w
  PROVE  Latest(as, w) \in Nat
<1> DEFINE mine == {i \in DOMAIN as : as[i].work = w}
<1>1. Len(as) \in Nat /\ DOMAIN as = 1..Len(as)
  BY SeqIs, Zenon
<1>2. mine \in SUBSET (1..Len(as))
  BY <1>1
<1>3. mine # {} => \E i \in mine : \A j \in mine : j <= i
  <2> HIDE DEF mine
  <2> QED BY <1>1, <1>2, LatestOf, Zenon
<1>4. mine # {} => Latest(as, w) \in mine
  <2>1. mine # {} => Latest(as, w) = CHOOSE i \in mine : \A j \in mine : j <= i
    BY DEF Latest
  <2> HIDE DEF mine
  <2> QED BY <1>3, <2>1, Zenon
<1>5. \A i \in 1..Len(as) : i \in Nat
  BY <1>1
<1>6. mine = {} => Latest(as, w) = 0
  BY DEF Latest
<1> HIDE DEF mine
<1>7. 0 \in Nat
  OBVIOUS
<1> QED BY <1>2, <1>4, <1>5, <1>6, <1>7, Zenon

(* The inductive invariant *)

WorkRec == [pc: {"idle", "gate", "admit", "mark", "status", "launch", "running"},
            ref: Refs, revision: Nat, source: Source, attempt: Nat]
BoundRec == [pc: {"idle", "load", "cancel", "lock", "write"},
             sweep: BOOLEAN, busy: BOOLEAN, seen: SUBSET Works]
CliRec == [pc: {"idle", "alive", "lock", "write"}, busy: BOOLEAN, seen: SUBSET Works,
           request: [id: RequestIds \cup {NoRequest}, source: SourceKind, ref: Refs,
                     expected: Nat]]

\* Between its lock and its write an apply holds the binding, and the request
\* it found unrecorded is unrecorded still.
CliOK ==
    /\ cli \in CliRec
    /\ cli.pc = "write" => /\ lock = Cli
                           /\ cli.request \in Request
                           /\ ~ IsRecorded(manifest, cli.request.id)

\* So does a boundary check that is about to write.
LockHeld == \A p \in Boundaries : bound[p].pc = "write" => lock = p

IInv == TypeOK /\ Sound(manifest) /\ CliOK /\ LockHeld

(* What the steps are made of *)

LEMMA SourceIs ==
  /\ NoSource \in Source
  /\ \A n \in Nat : <<"event", n>> \in Source
  /\ \A r \in Refs : <<"activate", r>> \in Source
BY DEF Source

LEMMA BlockersIs ==
  ASSUME NEW as, NEW r, NEW busy \in BOOLEAN
  PROVE  Blockers(as, r, busy) \in BOOLEAN
BY DEF Blockers

LEMMA IdleIs ==
  /\ Idle \in WorkRec /\ Idle.pc = "idle"
  /\ IdleBound \in BoundRec /\ IdleBound.pc = "idle"
  /\ \A sweep \in BOOLEAN : Check(sweep) \in BoundRec /\ Check(sweep).pc = "load"
  /\ IdleCli \in CliRec /\ IdleCli.pc = "idle"
<1>1. Idle \in WorkRec /\ Idle.pc = "idle"
  BY BarrierAssumption, SourceIs DEF Idle, WorkRec
<1>2. IdleBound \in BoundRec /\ IdleBound.pc = "idle"
  BY DEF IdleBound, BoundRec
<1>3. \A sweep \in BOOLEAN : Check(sweep) \in BoundRec /\ Check(sweep).pc = "load"
  BY DEF Check, IdleBound, BoundRec
<1>4. IdleCli \in CliRec /\ IdleCli.pc = "idle"
  BY BarrierAssumption DEF IdleCli, CliRec, SourceKind
<1> QED BY <1>1, <1>2, <1>3, <1>4

LEMMA SourcesType ==
  ASSUME TypeOK, manifest' \in Manifest
  PROVE  /\ EventSource \in [Works -> Source]
         /\ ActivateSource \in [Works -> Source]
<1>1. \A w \in Tasks : readied[w] \in Nat
  BY DEF TypeOK
<1>2. manifest'.active \in Refs
  BY DEF Manifest
<1>3. 0 \in Nat
  OBVIOUS
<1> QED BY <1>1, <1>2, <1>3, SourceIs, Zenon DEF EventSource, ActivateSource

LEMMA StartedType ==
  ASSUME TypeOK, manifest' \in Manifest, NEW which, NEW source \in [Works -> Source]
  PROVE  Started(which, source) \in [Works -> WorkRec]
<1>1. manifest'.active \in Refs /\ manifest'.revision \in Nat
  BY DEF Manifest
<1>2. \A w \in Works : work[w] \in WorkRec
  BY DEF TypeOK, WorkRec
<1>3. \A w \in Works : [pc |-> "gate", ref |-> manifest'.active,
                        revision |-> manifest'.revision, source |-> source[w],
                        attempt |-> 0] \in WorkRec
  BY <1>1 DEF WorkRec
<1> QED BY <1>2, <1>3, Zenon DEF Started

\* A step that leaves the manifest, the lock and the operator alone, and
\* brings no boundary check to its write.
LEMMA Quiet ==
  ASSUME IInv, UNCHANGED <<manifest, lock, cli>>,
         \A p \in Boundaries : bound'[p].pc = "write" => bound[p].pc = "write"
  PROVE  Sound(manifest)' /\ CliOK' /\ LockHeld'
<1>1. Sound(manifest)'
  BY DEF IInv, Sound
<1>2. CliOK'
  BY DEF IInv, CliOK
<1>3. LockHeld'
  BY DEF IInv, LockHeld
<1> QED BY <1>1, <1>2, <1>3

LEMMA InitIInv == Init => IInv
<1> SUFFICES ASSUME Init PROVE IInv
  OBVIOUS
<1>1. FirstRef \in Refs
  BY BarrierAssumption
<1>2. manifest.pending = NoChange /\ manifest.history = <<>> /\ manifest \in Manifest
  BY <1>1 DEF Init, CaptureInitial, Manifest
<1>3. Sound(manifest)
  BY <1>2 DEF Sound
<1>4. CliOK
  BY IdleIs DEF CliOK, Init
<1>5. LockHeld
  BY IdleIs DEF LockHeld, Init
<1>6. applies \in 0..MaxApplies /\ crashes \in 0..MaxCrashes
  BY BarrierAssumption DEF Init
<1>7. work \in [Works -> WorkRec] /\ bound \in [Boundaries -> BoundRec]
  BY IdleIs DEF Init
<1>8. status \in [Tasks -> TaskStatus] /\ run \in [Works -> {"none", "live", "done"}]
  BY DEF Init, TaskStatus
<1>9. /\ held \subseteq Chains
      /\ readied \in [Tasks -> Nat] /\ killed \in BOOLEAN
  BY DEF Init
<1>a. attempts \in Seq(Attempt(Source))
  BY EmptyIsSeq, Zenon DEF Init
<1>10. /\ lock \in Owners \cup {NoOwner} /\ loop.pc \in {"idle", "cancel", "dispatch"}
       /\ cli.pc \in {"idle", "alive", "lock", "write"}
  BY IdleIs DEF Init, IdleLoop
<1>11. TypeOK
  BY <1>2, <1>6, <1>7, <1>8, <1>9, <1>10, <1>a, Zenon DEF TypeOK, WorkRec, BoundRec
<1> QED BY <1>3, <1>4, <1>5, <1>11 DEF IInv

(* The event loop *)

LEMMA LoopStepIInv == IInv /\ LoopStep => IInv'
<1> SUFFICES ASSUME IInv, LoopStep PROVE IInv'
  OBVIOUS
<1> USE DEF IInv
<1>0. Reactor \in Boundaries
  BY DEF Boundaries
<1>c. Check(FALSE) \in BoundRec /\ Check(FALSE).pc = "load"
  BY IdleIs
<1>h. ASSUME NEW ready, NEW direct, Handle(ready, direct)
      PROVE  /\ loop'.pc \in {"idle", "cancel", "dispatch"}
             /\ bound' \in [Boundaries -> BoundRec]
             /\ \A p \in Boundaries : bound'[p].pc = "write" => bound[p].pc = "write"
  BY <1>0, <1>c, <1>h DEF Handle, TypeOK, BoundRec
<1>1. ASSUME NEW t \in Tasks, ReadyEvent(t) PROVE IInv'
  <2>1. Sound(manifest)' /\ CliOK' /\ LockHeld'
    BY <1>1, <1>h, Quiet DEF ReadyEvent
  <2>2. status' \in [Tasks -> TaskStatus]
    BY <1>1 DEF ReadyEvent, TypeOK, TaskStatus
  <2>3. readied' \in [Tasks -> Nat]
    <3> DEFINE k == readied[t] + 1
    <3>1. k \in Nat
      BY DEF TypeOK
    <3> HIDE DEF k
    <3>2. [readied EXCEPT ![t] = k] \in [Tasks -> Nat]
      BY <3>1 DEF TypeOK
    <3> QED BY <1>1, <3>2 DEF ReadyEvent, k
  <2>4. TypeOK'
    BY <1>1, <1>h, <2>2, <2>3, Zenon DEF ReadyEvent, TypeOK, BoundRec
  <2> QED BY <2>1, <2>4
<1>2. ASSUME NEW t \in Tasks, ApproveEvent(t) PROVE IInv'
  <2>1. Sound(manifest)' /\ CliOK' /\ LockHeld'
    BY <1>2, <1>h, Quiet DEF ApproveEvent
  <2>2. status' \in [Tasks -> TaskStatus]
    BY <1>2 DEF ApproveEvent, TypeOK, TaskStatus
  <2>3. attempts' \in Seq(Attempt(Source))
    BY <1>2, CloseType, Zenon DEF ApproveEvent, TypeOK
  <2>4. TypeOK'
    BY <1>2, <1>h, <2>2, <2>3, Zenon DEF ApproveEvent, TypeOK, BoundRec
  <2> QED BY <2>1, <2>4
<1>3. ASSUME NEW c \in Chains, DirectEvent(c) PROVE IInv'
  <2>1. Sound(manifest)' /\ CliOK' /\ LockHeld'
    BY <1>3, <1>h, Quiet DEF DirectEvent, durable
  <2>2. TypeOK'
    BY <1>3, <1>h, Zenon DEF DirectEvent, TypeOK, BoundRec, durable
  <2> QED BY <2>1, <2>2
<1>4. CASE KillEvent
  <2>1. Sound(manifest)' /\ CliOK' /\ LockHeld'
    BY <1>4, Quiet DEF KillEvent
  <2>2. status' \in [Tasks -> TaskStatus]
    BY <1>4 DEF KillEvent, TypeOK, TaskStatus
  <2>3. attempts' \in Seq(Attempt(Source))
    BY <1>4, CloseType, Zenon DEF KillEvent, TypeOK
  <2>4. loop'.pc \in {"idle", "cancel", "dispatch"} /\ killed' \in BOOLEAN
    BY <1>4 DEF KillEvent
  <2>5. TypeOK'
    BY <1>4, <2>2, <2>3, <2>4, Zenon DEF KillEvent, TypeOK
  <2> QED BY <2>1, <2>5
<1>5. CASE CancelAtKill
  <2>1. Sound(manifest)'
    BY <1>5, CancelSound DEF CancelAtKill, Sound
  <2>2. CliOK'
    BY <1>5, BarrierAssumption DEF CancelAtKill, CliOK
  <2>3. loop'.pc \in {"idle", "cancel", "dispatch"}
    BY <1>5 DEF CancelAtKill, TypeOK
  <2>4. /\ bound' \in [Boundaries -> BoundRec]
        /\ \A p \in Boundaries : bound'[p].pc = "write" => bound[p].pc = "write"
    BY <1>0, <1>c, <1>5 DEF CancelAtKill, TypeOK, BoundRec
  <2>5. LockHeld'
    BY <1>5, <2>4 DEF LockHeld, CancelAtKill
  <2>6. TypeOK'
    BY <1>5, <2>1, <2>3, <2>4, Zenon DEF CancelAtKill, TypeOK, BoundRec, Sound
  <2> QED BY <2>1, <2>2, <2>5, <2>6
<1>6. CASE LoopDispatch
  <2>1. Sound(manifest)' /\ CliOK' /\ LockHeld'
    BY <1>6, Quiet DEF LoopDispatch, durable
  <2>2. \A which : Started(which, EventSource) \in [Works -> WorkRec]
    BY <2>1, SourcesType, StartedType, Zenon DEF Sound
  <2>3. work' \in [Works -> WorkRec]
    BY <1>6, <2>2, Zenon DEF LoopDispatch, TypeOK, WorkRec
  <2>4. loop'.pc \in {"idle", "cancel", "dispatch"}
    BY <1>6 DEF LoopDispatch, IdleLoop
  <2>5. TypeOK'
    BY <1>6, <2>3, <2>4, Zenon DEF LoopDispatch, TypeOK, WorkRec, durable
  <2> QED BY <2>1, <2>5
<1> QED BY <1>1, <1>2, <1>3, <1>4, <1>5, <1>6, Zenon DEF LoopStep

(* A dispatch *)

LEMMA LeaveType ==
  ASSUME TypeOK, NEW w \in Works, Leave(w)
  PROVE  /\ work' \in [Works -> WorkRec] /\ bound' \in [Boundaries -> BoundRec]
         /\ \A p \in Boundaries : bound'[p].pc = "write" => bound[p].pc = "write"
<1>1. work \in [Works -> WorkRec] /\ bound \in [Boundaries -> BoundRec]
  BY DEF TypeOK, WorkRec, BoundRec
<1>2. work' \in [Works -> WorkRec]
  BY <1>1, IdleIs DEF Leave
<1>3. Check(TRUE) \in BoundRec /\ Check(TRUE).pc = "load"
  BY IdleIs
<1>4. bound' = [bound EXCEPT ![w] = Check(TRUE)] /\ w \in Boundaries
  BY DEF Leave, Boundaries
<1> QED BY <1>1, <1>2, <1>3, <1>4

LEMMA ProceedType ==
  ASSUME TypeOK, NEW w \in Works, NEW pc \in {"admit", "mark", "status", "launch", "running"},
         Proceed(w, pc)
  PROVE  /\ work' \in [Works -> WorkRec] /\ bound' = bound
<1>1. work \in [Works -> WorkRec]
  BY DEF TypeOK, WorkRec
<1>2. [work[w] EXCEPT !.pc = pc] \in WorkRec
  BY <1>1 DEF WorkRec
<1>3. work' = [work EXCEPT ![w] = [work[w] EXCEPT !.pc = pc]] /\ bound' = bound
  BY DEF Proceed
<1> QED BY <1>1, <1>2, <1>3

LEMMA DispatchIInv == ASSUME NEW w \in Works, IInv, Dispatch(w) PROVE IInv'
<1> USE DEF IInv
<1>0. bound \in [Boundaries -> BoundRec]
  BY DEF TypeOK, BoundRec
<1>1. CASE Gate(w)
  <2>1. /\ work' \in [Works -> WorkRec] /\ bound' \in [Boundaries -> BoundRec]
        /\ \A p \in Boundaries : bound'[p].pc = "write" => bound[p].pc = "write"
    BY <1>0, <1>1, LeaveType, ProceedType, Zenon DEF Gate
  <2>2. Sound(manifest)' /\ CliOK' /\ LockHeld'
    BY <1>1, <2>1, Quiet DEF Gate
  <2>3. held' \subseteq Chains
    BY <1>1 DEF Gate, TypeOK
  <2>4. TypeOK'
    BY <1>1, <2>1, <2>3, Zenon DEF Gate, TypeOK, WorkRec, BoundRec
  <2> QED BY <2>2, <2>4
<1>2. CASE Admission(w)
  <2> DEFINE d == work[w]
             as == Admit(manifest, attempts, w, d.ref, d.revision, d.source, NoSource)
             i == Latest(as, w)
  <2>1. d \in WorkRec
    BY DEF TypeOK, WorkRec
  <2>2. as \in Seq(Attempt(Source))
    <3>1. d.ref \in Refs /\ d.revision \in Nat /\ d.source \in Source
      BY <2>1 DEF WorkRec
    <3> QED BY <3>1, AdmitType, SourceIs, Zenon DEF TypeOK
  <2>3. i \in Nat
    <3> HIDE DEF as
    <3> QED BY <2>2, LatestType, Zenon
  <2> HIDE DEF as, i
  <2>4. \/ Leave(w)
        \/ work' = [work EXCEPT ![w].pc = "mark", ![w].attempt = i] /\ UNCHANGED bound
    BY <1>2 DEF Admission, as, i
  <2>5. /\ work' \in [Works -> WorkRec] /\ bound' \in [Boundaries -> BoundRec]
        /\ \A p \in Boundaries : bound'[p].pc = "write" => bound[p].pc = "write"
    <3>1. CASE Leave(w)
      BY <3>1, LeaveType, Zenon
    <3>2. CASE work' = [work EXCEPT ![w].pc = "mark", ![w].attempt = i] /\ UNCHANGED bound
      <4> DEFINE u == [work EXCEPT ![w].pc = "mark"]
      <4>1. u \in [Works -> WorkRec]
        <5>1. work \in [Works -> WorkRec]
          BY DEF TypeOK, WorkRec
        <5>2. [work[w] EXCEPT !.pc = "mark"] \in WorkRec
          BY <5>1 DEF WorkRec
        <5>3. u = [work EXCEPT ![w] = [work[w] EXCEPT !.pc = "mark"]]
          OBVIOUS
        <5> QED BY <5>1, <5>2, <5>3
      <4>2. [u EXCEPT ![w].attempt = i] \in [Works -> WorkRec]
        <5> HIDE DEF u
        <5> QED BY <2>3, <4>1 DEF WorkRec
      <4>3. work' = [u EXCEPT ![w].attempt = i]
        BY <3>2 DEF TypeOK
      <4>4. work' \in [Works -> WorkRec]
        <5> HIDE DEF u
        <5> QED BY <4>2, <4>3, Zenon
      <4> QED BY <1>0, <3>2, <4>4
    <3> QED BY <2>4, <3>1, <3>2
  <2>6. Sound(manifest)' /\ CliOK' /\ LockHeld'
    BY <1>2, <2>5, Quiet DEF Admission
  <2>7. attempts' \in Seq(Attempt(Source))
    BY <1>2, <2>2, Zenon DEF Admission, as
  <2>8. TypeOK'
    BY <1>2, <2>5, <2>7, Zenon DEF Admission, TypeOK, WorkRec, BoundRec
  <2> QED BY <2>6, <2>8
<1>3. CASE Mark(w)
  <2> DEFINE i == work[w].attempt
             q == IF w \in Tasks THEN "status" ELSE "launch"
  <2>1. q \in {"status", "launch"}
    OBVIOUS
  <2>0. work[w] \in WorkRec
    BY DEF TypeOK, WorkRec
  <2>2. work[w].source \in Source
    BY <2>0 DEF WorkRec
  <2>3. \/ Leave(w) /\ UNCHANGED attempts
        \/ attempts' = MarkDispatched(attempts, i, work[w].source) /\ Proceed(w, q)
    BY <1>3, Zenon DEF Mark
  <2>4. attempts' \in Seq(Attempt(Source))
    <3>1. attempts \in Seq(Attempt(Source))
      BY DEF TypeOK
    <3>2. MarkDispatched(attempts, i, work[w].source) \in Seq(Attempt(Source))
      <4> HIDE DEF i
      <4> QED BY <2>2, <3>1, MarkType, Zenon
    <3> QED BY <2>3, <3>1, <3>2, Zenon
  <2> HIDE DEF q
  <2>5. /\ work' \in [Works -> WorkRec] /\ bound' \in [Boundaries -> BoundRec]
        /\ \A p \in Boundaries : bound'[p].pc = "write" => bound[p].pc = "write"
    BY <1>0, <2>1, <2>3, LeaveType, ProceedType, Zenon
  <2>6. Sound(manifest)' /\ CliOK' /\ LockHeld'
    BY <1>3, <2>5, Quiet DEF Mark
  <2>7. TypeOK'
    BY <1>3, <2>4, <2>5, Zenon DEF Mark, TypeOK, WorkRec, BoundRec
  <2> QED BY <2>6, <2>7
<1>4. CASE SetRunning(w)
  <2>1. /\ work' \in [Works -> WorkRec] /\ bound' = bound
    BY <1>4, ProceedType, Zenon DEF SetRunning
  <2>2. Sound(manifest)' /\ CliOK' /\ LockHeld'
    BY <1>4, <2>1, Quiet DEF SetRunning
  <2>3. status' \in [Tasks -> TaskStatus]
    BY <1>4 DEF SetRunning, TypeOK, TaskStatus
  <2>4. TypeOK'
    BY <1>4, <2>1, <2>3, Zenon DEF SetRunning, TypeOK, WorkRec, BoundRec
  <2> QED BY <2>2, <2>4
<1>5. CASE Launch(w)
  <2>1. /\ work' \in [Works -> WorkRec] /\ bound' \in [Boundaries -> BoundRec]
        /\ \A p \in Boundaries : bound'[p].pc = "write" => bound[p].pc = "write"
    BY <1>0, <1>5, LeaveType, ProceedType, Zenon DEF Launch
  <2>2. Sound(manifest)' /\ CliOK' /\ LockHeld'
    BY <1>5, <2>1, Quiet DEF Launch
  <2>3. run' \in [Works -> {"none", "live", "done"}]
    BY <1>5 DEF Launch, TypeOK
  <2>4. TypeOK'
    BY <1>5, <2>1, <2>3, Zenon DEF Launch, TypeOK, WorkRec, BoundRec
  <2> QED BY <2>2, <2>4
<1>6. CASE Finish(w)
  <2>1. /\ work' \in [Works -> WorkRec] /\ bound' \in [Boundaries -> BoundRec]
        /\ \A p \in Boundaries : bound'[p].pc = "write" => bound[p].pc = "write"
    BY <1>6, LeaveType, Zenon DEF Finish
  <2>2. Sound(manifest)' /\ CliOK' /\ LockHeld'
    BY <1>6, <2>1, Quiet DEF Finish
  <2>3. run' \in [Works -> {"none", "live", "done"}] /\ held' \subseteq Chains
    BY <1>6 DEF Finish, TypeOK
  <2>4. status' \in [Tasks -> TaskStatus] /\ attempts' \in Seq(Attempt(Source))
    <3>1. CASE w \in Tasks /\ ~ killed
      <4>1. PICK s \in {"completed", "failed", "waiting_review"} :
                /\ status' = [status EXCEPT ![w] = s]
                /\ attempts' = CloseAttempts(attempts,
                                   IF s \in Terminal THEN {Latest(attempts, w)} ELSE {})
        BY <1>6, <3>1, Zenon DEF Finish
      <4>2. attempts' \in Seq(Attempt(Source))
        BY <4>1, CloseType, Zenon DEF TypeOK
      <4>3. status' \in [Tasks -> TaskStatus]
        BY <3>1, <4>1 DEF TypeOK, TaskStatus
      <4> QED BY <4>2, <4>3
    <3>2. CASE ~ (w \in Tasks /\ ~ killed)
      BY <1>6, <3>2, Zenon DEF Finish, TypeOK
    <3> QED BY <3>1, <3>2
  <2>5. TypeOK'
    BY <1>6, <2>1, <2>3, <2>4, Zenon DEF Finish, TypeOK, WorkRec, BoundRec
  <2> QED BY <2>2, <2>5
<1> QED BY <1>1, <1>2, <1>3, <1>4, <1>5, <1>6, Zenon DEF Dispatch

(* A boundary check *)

LEMMA BoundaryIInv == ASSUME NEW p \in Boundaries, IInv, Boundary(p) PROVE IInv'
<1> USE DEF IInv
<1>0. bound \in [Boundaries -> BoundRec] /\ work \in [Works -> WorkRec]
  BY DEF TypeOK, BoundRec, WorkRec
<1>d. ASSUME Done(p)
      PROVE  /\ bound' \in [Boundaries -> BoundRec]
             /\ bound'[p].pc # "write"
             /\ \A q \in Boundaries : bound'[q].pc = "write" => bound[q].pc = "write" /\ q # p
  BY <1>0, <1>d, IdleIs DEF Done
<1>r. ASSUME manifest' \in Manifest, NEW which, Resume(which)
      PROVE  work' \in [Works -> WorkRec]
  BY <1>r, SourcesType, StartedType, Zenon DEF Resume
<1>1. CASE LoadPending(p)
  <2>1. /\ bound' \in [Boundaries -> BoundRec]
        /\ \A q \in Boundaries : bound'[q].pc = "write" => bound[q].pc = "write"
    <3>1. CASE Done(p)
      BY <1>d, <3>1, Zenon
    <3>2. CASE bound' = [bound EXCEPT ![p].pc = IF killed THEN "cancel" ELSE "lock"]
      BY <1>0, <3>2 DEF BoundRec
    <3> QED BY <1>1, <3>1, <3>2, Zenon DEF LoadPending
  <2>2. Sound(manifest)' /\ CliOK' /\ LockHeld'
    BY <1>1, <2>1, Quiet DEF LoadPending, durable
  <2>3. work' \in [Works -> WorkRec]
    BY <1>0, <1>1, <1>r, <2>2, Zenon DEF LoadPending, Sound
  <2>4. TypeOK'
    BY <1>1, <2>1, <2>3, Zenon DEF LoadPending, TypeOK, durable, WorkRec, BoundRec
  <2> QED BY <2>2, <2>4
<1>2. CASE CancelKilled(p)
  <2>1. Sound(manifest)'
    BY <1>2, CancelSound DEF CancelKilled, Sound
  <2>2. CliOK'
    BY <1>2, BarrierAssumption DEF CancelKilled, CliOK
  <2>3. LockHeld'
    BY <1>2, <1>d, Zenon DEF LockHeld, CancelKilled
  <2>4. TypeOK'
    BY <1>2, <1>d, <2>1, Zenon DEF CancelKilled, TypeOK, Sound, BoundRec
  <2> QED BY <2>1, <2>2, <2>3, <2>4
<1>3. CASE LockBinding(p)
  <2>1. CASE Done(p) /\ UNCHANGED lock
    <3>1. Sound(manifest)' /\ CliOK' /\ LockHeld'
      BY <1>3, <1>d, <2>1, Quiet DEF LockBinding, durable
    <3>2. TypeOK'
      BY <1>3, <1>d, <2>1, Zenon DEF LockBinding, TypeOK, durable, BoundRec
    <3> QED BY <3>1, <3>2
  <2>2. CASE /\ lock' = p
             /\ bound' = [bound EXCEPT ![p].pc = "write", ![p].busy = TasksBusy,
                                       ![p].seen = LiveRuns]
    <3>1. TasksBusy \in BOOLEAN /\ LiveRuns \in SUBSET Works
      BY DEF TasksBusy, LiveRuns
    <3>2. /\ bound' \in [Boundaries -> BoundRec]
          /\ \A q \in Boundaries : q # p => bound'[q] = bound[q]
      <4> DEFINE u == [bound EXCEPT ![p].pc = "write"]
                 v == [u EXCEPT ![p].busy = TasksBusy]
      <4>1. u \in [Boundaries -> BoundRec] /\ \A q \in Boundaries : q # p => u[q] = bound[q]
        BY <1>0 DEF BoundRec
      <4>2. v \in [Boundaries -> BoundRec] /\ \A q \in Boundaries : q # p => v[q] = bound[q]
        <5> HIDE DEF u
        <5> QED BY <3>1, <4>1 DEF BoundRec
      <4>3. bound' = [v EXCEPT ![p].seen = LiveRuns]
        BY <1>0, <2>2
      <4> HIDE DEF v
      <4> QED BY <3>1, <4>2, <4>3 DEF BoundRec
    <3>3. lock = NoOwner
      BY <1>3 DEF LockBinding
    <3>4. Sound(manifest)'
      BY <1>3 DEF LockBinding, durable, Sound
    <3>5. CliOK'
      BY <1>3, <3>3, BarrierAssumption DEF LockBinding, durable, CliOK
    <3>6. LockHeld'
      <4>1. \A q \in Boundaries : q # NoOwner
        BY BarrierAssumption DEF Boundaries
      <4> QED BY <2>2, <3>2, <3>3, <4>1, Zenon DEF LockHeld
    <3>7. lock' \in Owners \cup {NoOwner}
      BY <2>2 DEF Owners
    <3>8. TypeOK'
      BY <1>3, <3>2, <3>7, Zenon DEF LockBinding, TypeOK, durable, BoundRec
    <3> QED BY <3>4, <3>5, <3>6, <3>8
  <2> QED BY <1>3, <2>1, <2>2, Zenon DEF LockBinding
<1>4. CASE WriteBinding(p)
  <2>1. lock = p
    BY <1>4 DEF WriteBinding, LockHeld
  <2>2. cli.pc # "write"
    BY <2>1, BarrierAssumption DEF CliOK, Boundaries
  <2>3. PICK valid \in BOOLEAN :
           manifest' = TryActivate(manifest, Blockers(attempts, run, bound[p].busy), valid)
    BY <1>4, Zenon DEF WriteBinding
  <2>4. Sound(manifest)'
    <3>1. bound[p].busy \in BOOLEAN
      BY <1>0 DEF BoundRec
    <3>2. Blockers(attempts, run, bound[p].busy) \in BOOLEAN
      BY <3>1, BlockersIs, Zenon
    <3>3. Sound(TryActivate(manifest, Blockers(attempts, run, bound[p].busy), valid))
      BY <3>2, TrySound, Zenon
    <3>4. Sound(manifest')
      BY <2>3, <3>3, Zenon
    <3> QED BY <3>4 DEF Sound
  <2>5. CliOK'
    BY <1>4, <2>2 DEF WriteBinding, CliOK
  <2>6. Done(p) /\ lock' = NoOwner
    BY <1>4, Zenon DEF WriteBinding
  <2>7. LockHeld'
    BY <1>d, <2>1, <2>6, Zenon DEF LockHeld
  <2>8. manifest' \in Manifest
    BY <2>4 DEF Sound
  <2>9. work' \in [Works -> WorkRec]
    BY <1>0, <1>4, <1>r, <2>8, Zenon DEF WriteBinding
  <2>10. TypeOK'
    BY <1>4, <1>d, <2>6, <2>8, <2>9, Zenon DEF WriteBinding, TypeOK, WorkRec, BoundRec
  <2> QED BY <2>4, <2>5, <2>7, <2>10
<1> QED BY <1>1, <1>2, <1>3, <1>4, Zenon DEF Boundary

(* The operator, and a crash of the reactor *)

LEMMA OperatorIInv == IInv /\ Operator => IInv'
<1> SUFFICES ASSUME IInv, Operator PROVE IInv'
  OBVIOUS
<1> USE DEF IInv
<1>1. CASE RequestApply
  <2>1. cli' \in CliRec /\ cli'.pc = "alive"
    <3>1. manifest.revision \in Nat
      BY DEF Sound, Manifest
    <3> QED BY <1>1, <3>1 DEF RequestApply, CliOK, CliRec
  <2>2. CliOK' /\ Sound(manifest)' /\ LockHeld'
    BY <1>1, <2>1 DEF RequestApply, durable, CliOK, Sound, LockHeld
  <2>3. applies' \in 0..MaxApplies
    BY <1>1, BarrierAssumption DEF RequestApply, TypeOK
  <2>4. TypeOK'
    BY <1>1, <2>1, <2>3, Zenon DEF RequestApply, durable, TypeOK
  <2> QED BY <2>2, <2>4
<1>2. CASE RefuseKilled
  <2>1. cli' \in CliRec /\ cli'.pc \in {"idle", "lock"}
    BY <1>2, IdleIs DEF RefuseKilled, CliIdle, CliOK, CliRec
  <2>2. CliOK' /\ Sound(manifest)' /\ LockHeld'
    BY <1>2, <2>1 DEF RefuseKilled, durable, CliOK, Sound, LockHeld
  <2>3. cli'.pc \in {"idle", "alive", "lock", "write"}
    BY <2>1
  <2>4. TypeOK'
    BY <1>2, <2>3, Zenon DEF RefuseKilled, durable, TypeOK
  <2> QED BY <2>2, <2>4
<1>3. ASSUME NEW id \in RequestIds, NEW s \in SourceKind, NEW ref \in Refs,
             LockApply(id, s, ref)
      PROVE  IInv'
  <2> DEFINE req == [id |-> id, source |-> s, ref |-> ref, expected |-> cli.request.expected]
  <2>1. req \in Request
    BY DEF CliOK, CliRec, Request
  <2>2. ~ Refuses(manifest, req) => ~ IsRecorded(manifest, req.id)
    BY DEF Refuses
  <2>3. lock = NoOwner /\ bound' = bound
    BY <1>3 DEF LockApply
  <2>4. CASE Refuses(manifest, req) \/ Rejects(manifest, req)
    <3>1. Sound(manifest)'
      <4>1. CASE Refuses(manifest, req)
        BY <1>3, <2>4, <4>1 DEF LockApply, Sound
      <4>2. CASE ~ Refuses(manifest, req)
        <5>1. manifest' = RecordRejection(manifest, req)
          BY <1>3, <2>4, <4>2 DEF LockApply
        <5>2. Sound(RecordRejection(manifest, req))
          <6> HIDE DEF req
          <6> QED BY <2>1, <2>2, <4>2, RejectSound
        <5> QED BY <5>1, <5>2 DEF Sound
      <4> QED BY <4>1, <4>2
    <3>2. cli' = IdleCli /\ lock' = lock
      BY <1>3, <2>4 DEF LockApply, CliIdle
    <3>3. CliOK' /\ LockHeld'
      BY <2>3, <3>2, IdleIs DEF CliOK, LockHeld
    <3>4. TypeOK'
      BY <1>3, <3>1, <3>2, IdleIs, Zenon DEF LockApply, TypeOK, Sound
    <3> QED BY <3>1, <3>3, <3>4
  <2>5. CASE ~ (Refuses(manifest, req) \/ Rejects(manifest, req))
    <3>1. /\ lock' = Cli /\ manifest' = manifest
          /\ cli' = [pc |-> "write", request |-> req, busy |-> TasksBusy, seen |-> LiveRuns]
      BY <1>3, <2>5 DEF LockApply
    <3>2. cli' \in CliRec /\ cli'.pc = "write" /\ cli'.request = req
      <4>1. TasksBusy \in BOOLEAN /\ LiveRuns \in SUBSET Works
        BY DEF TasksBusy, LiveRuns
      <4> HIDE DEF req
      <4> QED BY <2>1, <3>1, <4>1 DEF CliRec, Request
    <3>3. CliOK'
      <4> HIDE DEF req
      <4> QED BY <2>1, <2>2, <2>5, <3>1, <3>2 DEF CliOK
    <3>4. LockHeld'
      <4>1. \A p \in Boundaries : p # NoOwner
        BY BarrierAssumption DEF Boundaries
      <4> QED BY <2>3, <4>1, Zenon DEF LockHeld
    <3>5. Sound(manifest)'
      BY <3>1 DEF Sound
    <3>6. lock' \in Owners \cup {NoOwner} /\ cli'.pc \in {"idle", "alive", "lock", "write"}
      BY <3>1, <3>2 DEF Owners
    <3>7. TypeOK'
      BY <1>3, <3>1, <3>6, Zenon DEF LockApply, TypeOK
    <3> QED BY <3>3, <3>4, <3>5, <3>7
  <2> QED BY <2>4, <2>5
<1>4. CASE WriteApply
  <2>1. lock = Cli /\ cli.request \in Request /\ ~ IsRecorded(manifest, cli.request.id)
    BY <1>4 DEF WriteApply, CliOK
  <2>2. Sound(manifest)'
    <3>1. cli.busy \in BOOLEAN
      BY DEF CliOK, CliRec
    <3>2. Blockers(attempts, run, cli.busy) \in BOOLEAN
      BY <3>1, BlockersIs, Zenon
    <3>3. Sound(Apply(manifest, cli.request, Blockers(attempts, run, cli.busy)))
      BY <2>1, <3>2, ApplySound, Zenon
    <3>4. Sound(manifest')
      BY <1>4, <3>3, Zenon DEF WriteApply
    <3> QED BY <3>4 DEF Sound
  <2>3. cli' = IdleCli /\ lock' = NoOwner /\ bound' = bound
    BY <1>4 DEF WriteApply, CliIdle
  <2>4. CliOK'
    BY <2>3, IdleIs DEF CliOK
  <2>5. LockHeld'
    BY <2>1, <2>3, BarrierAssumption DEF LockHeld, Boundaries
  <2>6. TypeOK'
    BY <1>4, <2>2, <2>3, IdleIs, Zenon DEF WriteApply, TypeOK, Sound
  <2> QED BY <2>2, <2>4, <2>5, <2>6
<1>5. CASE CancelApply
  <2>1. Sound(manifest)'
    BY <1>5, CancelSound DEF CancelApply, Sound
  <2>2. CliOK' /\ LockHeld'
    BY <1>5 DEF CancelApply, CliOK, LockHeld
  <2>3. TypeOK'
    BY <1>5, <2>1, Zenon DEF CancelApply, TypeOK, Sound
  <2> QED BY <2>1, <2>2, <2>3
<1> QED BY <1>1, <1>2, <1>3, <1>4, <1>5, Zenon DEF Operator

LEMMA CrashIInv == IInv /\ Crash => IInv'
<1> SUFFICES ASSUME IInv, Crash PROVE IInv'
  OBVIOUS
<1> USE DEF IInv
<1>1. /\ bound' \in [Boundaries -> BoundRec]
      /\ \A p \in Boundaries : bound'[p].pc # "write"
  BY IdleIs DEF Crash
<1>2. work' \in [Works -> WorkRec]
  BY IdleIs DEF Crash
<1>3. Sound(manifest)' /\ CliOK' /\ LockHeld'
  BY <1>1 DEF Crash, durable, CliOK, Sound, LockHeld
<1>4. lock' \in Owners \cup {NoOwner}
  BY DEF Crash, Owners
<1>5. crashes' \in 0..MaxCrashes /\ loop'.pc \in {"idle", "cancel", "dispatch"}
  BY BarrierAssumption DEF Crash, TypeOK, IdleLoop
<1>6. TypeOK'
  BY <1>1, <1>2, <1>4, <1>5, Zenon DEF Crash, durable, TypeOK, WorkRec, BoundRec
<1> QED BY <1>3, <1>6

LEMMA NextIInv == IInv /\ [Next]_vars => IInv'
<1> SUFFICES ASSUME IInv, [Next]_vars PROVE IInv'
  OBVIOUS
<1>1. CASE Next
  BY <1>1, LoopStepIInv, DispatchIInv, BoundaryIInv, OperatorIInv, CrashIInv, Zenon DEF Next
<1>2. CASE UNCHANGED vars
  BY <1>2 DEF vars, durable, IInv, TypeOK, Sound, CliOK, LockHeld
<1> QED BY <1>1, <1>2

(* The theorems *)

LEMMA Inductive == Spec => []IInv
BY InitIInv, NextIInv, PTL DEF Spec

\* The manifest, the attempts and every process of the barrier keep their
\* types, whatever the interleaving and wherever the reactor dies.
THEOREM TypeCorrect == Spec => []TypeOK
<1>1. IInv => TypeOK
  BY DEF IInv
<1> QED BY Inductive, <1>1, PTL

\* An apply request is recorded once, however many boundary checks, dispatches
\* and operators write the manifest between its lock and its answer.
THEOREM RecordedOnce == Spec => []AppliedOnce
<1>1. IInv => AppliedOnce
  BY DEF IInv, Sound, AppliedOnce
<1> QED BY Inductive, <1>1, PTL

\* Only a dispatch adds attempts, and it adds none while a change is pending.
LEMMA StepHolds ==
  ASSUME IInv, [Next]_vars
  PROVE  Len(attempts') > Len(attempts) => manifest.pending = NoChange
<1> USE DEF IInv
<1>0. attempts \in Seq(Attempt(Source)) /\ Len(attempts) \in Nat
  <2>1. attempts \in Seq(Attempt(Source))
    BY DEF TypeOK
  <2> QED BY <2>1, SeqIs, Zenon
<1>1. Len(attempts') = Len(attempts) => ~ (Len(attempts') > Len(attempts))
  BY <1>0, NatFacts, Zenon
<1>2. ASSUME NEW w \in Works, Admission(w)
      PROVE  Len(attempts') > Len(attempts) => manifest.pending = NoChange
  <2> DEFINE d == work[w]
  <2>0. d \in WorkRec
    BY DEF TypeOK, WorkRec
  <2>1. d.ref \in Refs /\ d.revision \in Nat /\ d.source \in Source
    BY <2>0 DEF WorkRec
  <2>2. attempts' = Admit(manifest, attempts, w, d.ref, d.revision, d.source, NoSource)
    BY <1>2 DEF Admission
  <2> HIDE DEF d
  <2> QED BY <1>0, <2>1, <2>2, AdmitType, SourceIs, Zenon
<1>3. ASSUME NEW w \in Works, Dispatch(w), ~ Admission(w)
      PROVE  Len(attempts') = Len(attempts)
  <2>1. CASE Mark(w)
    <3>1. work[w] \in WorkRec
      BY DEF TypeOK, WorkRec
    <3>2. work[w].source \in Source
      BY <3>1 DEF WorkRec
    <3>3. PICK i : \/ attempts' = attempts
                   \/ attempts' = MarkDispatched(attempts, i, work[w].source)
      BY <2>1 DEF Mark
    <3>4. Len(MarkDispatched(attempts, i, work[w].source)) = Len(attempts)
      BY <1>0, <3>2, MarkType, Zenon
    <3> QED BY <3>3, <3>4
  <2>2. CASE Finish(w)
    <3>1. attempts' = attempts \/ \E which : attempts' = CloseAttempts(attempts, which)
      BY <2>2, Zenon DEF Finish
    <3> QED BY <1>0, <3>1, CloseType, Zenon
  <2>3. CASE ~ Mark(w) /\ ~ Finish(w)
    BY <1>3, <2>3 DEF Dispatch, Gate, SetRunning, Launch
  <2> QED BY <2>1, <2>2, <2>3
<1>4. ASSUME LoopStep PROVE Len(attempts') = Len(attempts)
  <2>1. ASSUME NEW t \in Tasks, ApproveEvent(t) PROVE Len(attempts') = Len(attempts)
    BY <1>0, <2>1, CloseType, Zenon DEF ApproveEvent
  <2>2. CASE KillEvent
    BY <1>0, <2>2, CloseType, Zenon DEF KillEvent
  <2>3. ASSUME NEW t \in Tasks, ReadyEvent(t) PROVE Len(attempts') = Len(attempts)
    BY <2>3 DEF ReadyEvent
  <2>4. ASSUME NEW c \in Chains, DirectEvent(c) PROVE Len(attempts') = Len(attempts)
    BY <2>4 DEF DirectEvent, durable
  <2>5. CASE CancelAtKill \/ LoopDispatch
    BY <2>5 DEF CancelAtKill, LoopDispatch, durable
  <2> QED BY <1>4, <2>1, <2>2, <2>3, <2>4, <2>5, Zenon DEF LoopStep
<1>5. ASSUME \/ Operator \/ Crash \/ UNCHANGED vars
             \/ \E p \in Boundaries : Boundary(p)
      PROVE  attempts' = attempts
  BY <1>5 DEF Operator, RequestApply, RefuseKilled, LockApply, WriteApply, CancelApply, Crash,
     vars, durable, Boundary, LoadPending, CancelKilled, LockBinding, WriteBinding
<1> QED BY <1>1, <1>2, <1>3, <1>4, <1>5, Zenon DEF Next

\* A dispatch that passed the unlocked check before the operator's change came
\* is refused at its admission: nothing starts on a configuration that is
\* about to be replaced.
THEOREM NothingAdmitted == Spec => BarrierHolds
<1>1. IInv /\ [Next]_vars => [Len(attempts') > Len(attempts) => manifest.pending = NoChange]_vars
  BY StepHolds
<1> QED BY Inductive, <1>1, PTL DEF Spec, BarrierHolds

-----------------------------------------------------------------------------
(* Sessions: where every worker of the control plane may stand *)

\* A caller between its request and its answer, a Wait goroutine, a Remove.
CallerAt == {"idle", "announce", "refused", "launch", "register", "registering", "hung",
             "hub", "attached", "record", "recording", "returned"}
ClosingAt == {"unregister", "unregistering", "mark", "markLoad", "marking"}
WaiterAt == {"idle", "wait", "forget", "close", "end"} \cup ClosingAt
RemoverAt == {"idle", "end"} \cup ClosingAt
\* The workers whose next step rewrites the state file from what they loaded,
\* the callers whose process was not started, those nobody waits for yet.
Saving == {"registering", "recording", "unregistering", "marking", "projecting", "completing",
           "storing"}
Unlaunched == {"idle", "announce", "refused", "launch"}
Unwatched == Unlaunched \cup {"register", "registering", "hung"}

Places == CallerAt \cup WaiterAt \cup Saving \cup {"waiting", "complete"}

AtOK ==
    /\ at \in [Workers -> Places]
    /\ \A s \in SessionIds : /\ at[Caller(s)] \in CallerAt
                             /\ at[Waiter(s)] \in WaiterAt
                             /\ at[Remover(s)] \in RemoverAt

FileOK == file \in File /\ windows \subseteq Windows

\* Whoever is about to save holds what it loaded.
HoldOK ==
    /\ loaded \in [Workers -> File \cup {NoFile}]
    /\ \A w \in Workers : at[w] \in Saving => loaded[w] \in File
    /\ copy \in [Workers -> Invite \cup {NoInvite}]

DiskOK == FileOK /\ HoldOK

LifeTypes ==
    /\ proc \in [SessionIds -> {"none", "alive", "dead"}]
    /\ managed \subseteq SessionIds /\ ended \subseteq SessionIds /\ done \subseteq SessionIds
    /\ hub \in [SessionIds -> {"none", "open", "closed"}]

Types == setup \in Setups /\ AtOK /\ DiskOK /\ LifeTypes

\* The life of a session as its workers' places tell it: launched before it is
\* registered, waited for before it is closed, done at the last step of the Wait.
LifeOf(s) ==
    /\ at[Caller(s)] # "idle" => setup.origin[s] # "unused"
    /\ at[Caller(s)] \in {"announce", "record", "recording"} => setup.origin[s] = "accept"
    /\ at[Caller(s)] \in Unlaunched <=> proc[s] = "none"
    /\ s \in managed => proc[s] # "none"
    /\ at[Caller(s)] \in Unwatched => at[Waiter(s)] = "idle"
    /\ at[Caller(s)] = "hung" => "failed" \in windows
    /\ at[Waiter(s)] \notin {"idle", "wait"} => proc[s] = "dead"
    /\ at[Remover(s)] \notin {"idle", "end"} => "signalled" \in windows
    /\ s \in done => at[Waiter(s)] = "end"
    /\ hub[s] # "none" => at[Caller(s)] \in {"record", "recording", "returned"}
    /\ at[Caller(s)] # "idle" /\ setup.origin[s] = "resume" /\ setup.source[s] # NoSession
          => proc[setup.source[s]] # "none"

Life == \A s \in SessionIds : LifeOf(s)

\* An accept that passed its check of the invite (service.go:39-55): outside the
\* windows only one does, and once it answered the invite is no longer pending.
Past(s) == setup.origin[s] = "accept" /\ at[Caller(s)] \notin {"idle", "refused"}
OneAccepted == Outside({"overlap", "reopened", "lost", "failed"}) =>
    /\ \A s, t \in SessionIds : Past(s) /\ Past(t) => s = t
    /\ \A s \in SessionIds :
          Past(s) /\ at[Caller(s)] = "returned" => file.invite.status # "pending"

\* A session on its way or alive keeps its siblings from starting, because one
\* that lives and was launched is on the registry they check.
Busy(s) == Launching(s) \/ proc[s] = "alive"
OneBusy == Outside({"overlap", "signalled", "lost", "failed"}) =>
    /\ \A s \in SessionIds : \A t \in Siblings(s) : ~(Busy(s) /\ Busy(t))
    /\ \A s \in SessionIds : proc[s] = "alive" /\ ~Launching(s) => s \in file.sessions

\* A closed session no longer holds the accepted invite: its Wait answered it.
AnswerOK == Outside({"late", "lost", "failed"}) =>
    \A s \in SessionIds :
        Closed(s) => ~(file.invite.session = s /\ file.invite.status = "accepted")

\* A subscribed browser's channel is closed only with the hub.
ViewOK ==
    /\ viewer \in [at : {"idle", "found", "gone", "scroll", "watch"}, open : BOOLEAN,
                   chan : Seq(Nat), seen : SUBSET Nat, dropped : SUBSET Nat]
    /\ output \in Nat
    /\ viewer.at # "idle" => Viewer \in setup.others
    /\ viewer.at \in {"scroll", "watch"} =>
          hub[Viewed] = "closed" \/ (hub[Viewed] = "open" /\ viewer.open)
    /\ NothingUnseen

-----------------------------------------------------------------------------
LEMMA WorkersAre ==
  /\ \A s \in SessionIds : /\ Caller(s) \in Workers /\ Waiter(s) \in Workers
                           /\ Remover(s) \in Workers /\ Stopper(s) \in Workers
  /\ Runtime \in Workers /\ Keeper \in Workers
  /\ \A s, t \in SessionIds :
       /\ Caller(s) = Caller(t) => s = t
       /\ Waiter(s) = Waiter(t) => s = t
       /\ Remover(s) = Remover(t) => s = t
       /\ Caller(s) # Waiter(t) /\ Caller(s) # Remover(t) /\ Caller(s) # Stopper(t)
       /\ Waiter(s) # Remover(t) /\ Waiter(s) # Stopper(t) /\ Remover(s) # Stopper(t)
       /\ Runtime \notin {Caller(s), Waiter(s), Remover(s), Stopper(s)}
       /\ Keeper \notin {Caller(s), Waiter(s), Remover(s), Stopper(s)}
BY DEF Caller, Waiter, Remover, Stopper, Runtime, Keeper, Workers

LEMMA AfterIs == \A s \in SessionIds : After(Waiter(s)) = "forget" /\ After(Remover(s)) = "end"
BY DEF After, Waiter, Remover


LEMMA WorkersHold ==
  ASSUME DiskOK, NEW w \in Workers, at[w] \in Saving
  PROVE  /\ loaded[w] \in File
         /\ loaded[w].sessions \subseteq SessionIds /\ loaded[w].invite \in Invite
BY DEF DiskOK, FileOK, HoldOK, File

\* A save that covered no change left what it did not mean to write.
LEMMA SessionsSaved ==
  ASSUME DiskOK, NEW w \in Workers, at[w] \in Saving, NEW S \in SUBSET SessionIds, NEW opened,
         Store(w, [loaded[w] EXCEPT !.sessions = S], opened)
  PROVE  /\ file' \in File /\ windows \subseteq windows' /\ opened \subseteq windows'
         /\ file'.sessions = S /\ file'.invite = loaded[w].invite
         /\ "lost" \in windows' \/ loaded[w] = file
<1>1. loaded[w] \in File /\ loaded[w].invite \in Invite
  BY WorkersHold
<1>2. [loaded[w] EXCEPT !.sessions = S] = [sessions |-> S, invite |-> loaded[w].invite]
  BY <1>1 DEF File
<1>3. file' = [sessions |-> S, invite |-> loaded[w].invite]
  BY <1>2 DEF Store
<1> QED BY <1>1, <1>3 DEF Store, Through, Lost, File

LEMMA InviteSaved ==
  ASSUME DiskOK, NEW w \in Workers, at[w] \in Saving, NEW i \in Invite, NEW opened,
         Store(w, [loaded[w] EXCEPT !.invite = i], opened)
  PROVE  /\ file' \in File /\ windows \subseteq windows' /\ opened \subseteq windows'
         /\ file'.sessions = loaded[w].sessions /\ file'.invite = i
         /\ "lost" \in windows' \/ loaded[w] = file
<1>1. loaded[w] \in File /\ loaded[w].sessions \subseteq SessionIds
  BY WorkersHold
<1>2. [loaded[w] EXCEPT !.invite = i] = [sessions |-> loaded[w].sessions, invite |-> i]
  BY <1>1 DEF File
<1>3. file' = [sessions |-> loaded[w].sessions, invite |-> i]
  BY <1>2 DEF Store
<1> QED BY <1>1, <1>3 DEF Store, Through, Lost, File

\* Windows stay open: a save either wrote what it meant or opened "lost".
Kept == windows \subseteq windows'
Wrote(S, outcome) ==
    /\ file' \in File /\ Kept
    /\ "lost" \notin windows' => file'.sessions = S
    /\ file'.invite.status = outcome

LEMMA RegisterWrites ==
  ASSUME DiskOK, NEW s \in SessionIds, RegisterSave(s)
  PROVE  /\ file' \in File /\ Kept
         /\ "lost" \notin windows' =>
               file'.sessions = file.sessions \cup {s} /\ file'.invite = file.invite
<1>1. Caller(s) \in Workers /\ at[Caller(s)] \in Saving
  BY WorkersAre DEF RegisterSave, Saving
<1>2. loaded[Caller(s)].sessions \cup {s} \in SUBSET SessionIds
  BY <1>1, WorkersHold
<1>3. Store(Caller(s),
            [loaded[Caller(s)] EXCEPT !.sessions = loaded[Caller(s)].sessions \cup {s}], {})
  BY DEF RegisterSave, Save
<1>4. /\ file' \in File /\ windows \subseteq windows'
      /\ file'.sessions = loaded[Caller(s)].sessions \cup {s}
      /\ file'.invite = loaded[Caller(s)].invite
      /\ "lost" \in windows' \/ loaded[Caller(s)] = file
  BY <1>1, <1>2, <1>3, SessionsSaved, Zenon
<1> QED BY <1>4 DEF Kept

LEMMA UnregisterWrites ==
  ASSUME DiskOK, NEW s \in SessionIds, NEW w \in Workers, UnregisterSave(s, w)
  PROVE  /\ file' \in File /\ Kept
         /\ "lost" \notin windows' =>
               file'.sessions = file.sessions \ {s} /\ file'.invite = file.invite
<1>1. at[w] \in Saving
  BY DEF UnregisterSave, Goes, Saving
<1>2. loaded[w].sessions \ {s} \in SUBSET SessionIds
  BY <1>1, WorkersHold
<1>3. Store(w, [loaded[w] EXCEPT !.sessions = loaded[w].sessions \ {s}], {})
  BY DEF UnregisterSave, Save
<1>4. /\ file' \in File /\ windows \subseteq windows'
      /\ file'.sessions = loaded[w].sessions \ {s} /\ file'.invite = loaded[w].invite
      /\ "lost" \in windows' \/ loaded[w] = file
  BY <1>1, <1>2, <1>3, SessionsSaved, Zenon
<1> QED BY <1>4 DEF Kept

LEMMA RecordWrites ==
  ASSUME DiskOK, NEW s \in SessionIds, RecordSave(s)
  PROVE  /\ Wrote(file.sessions, "accepted") /\ file'.invite.session = s
         /\ Closed(s) => "late" \in windows'
<1>1. Caller(s) \in Workers /\ at[Caller(s)] \in Saving
  BY WorkersAre DEF RecordSave, Goes, Saving
<1>2. [status |-> "accepted", session |-> s] \in Invite
  BY DEF Invite
<1>3. PICK opened :
        /\ Store(Caller(s),
                 [loaded[Caller(s)] EXCEPT !.invite = [status |-> "accepted", session |-> s]],
                 opened)
        /\ Closed(s) => "late" \in opened
  BY DEF RecordSave, Upsert
<1> QED BY <1>1, <1>2, <1>3, InviteSaved DEF Kept, Wrote

LEMMA AnswerWrites ==
  ASSUME DiskOK, NEW w \in Workers, at[w] \in Saving,
         NEW outcome \in {"cancelled", "completed", "incomplete"},
         Upsert(w, [copy[w] EXCEPT !.status = outcome], {})
  PROVE  Wrote(file.sessions, outcome)
<1>1. copy[w] \in Invite \cup {NoInvite}
  BY DEF DiskOK, HoldOK
<1> DEFINE entry == [copy[w] EXCEPT !.status = outcome]
<1>2. entry \in Invite /\ entry.status = outcome
  BY <1>1 DEF Invite, NoInvite
<1>3. PICK opened : Store(w, [loaded[w] EXCEPT !.invite = entry], opened)
  BY DEF Upsert
<1> HIDE DEF entry
<1> QED BY <1>2, <1>3, InviteSaved DEF Kept, Wrote

LEMMA MarkWrites ==
  ASSUME DiskOK, NEW s \in SessionIds, NEW w \in Workers, MarkSave(s, w)
  PROVE  Wrote(file.sessions, "incomplete")
BY AnswerWrites DEF MarkSave, Goes, Saving

LEMMA CompleteWrites ==
  ASSUME DiskOK, CompleteSave
  PROVE  \E outcome \in {"completed", "incomplete"} : Wrote(file.sessions, outcome)
BY AnswerWrites, WorkersAre DEF CompleteSave, RuntimeTurn, Goes, Saving

LEMMA RejectWrites ==
  ASSUME DiskOK, RejectSave
  PROVE  Wrote(file.sessions, "cancelled")
BY AnswerWrites, WorkersAre DEF RejectSave, Goes, Saving

LEMMA ProjectWrites ==
  ASSUME DiskOK, ProjectSave
  PROVE  /\ Wrote(file.sessions, "pending")
         /\ {"lost", "reopened"} \cap windows' = {} => file.invite.status = "pending"
<1>1. Runtime \in Workers /\ at[Runtime] \in Saving
  BY WorkersAre DEF ProjectSave, RuntimeTurn, Goes, Saving
<1>2. [status |-> "pending", session |-> NoSession] \in Invite
  BY DEF Invite
<1>3. PICK opened :
        /\ Store(Runtime,
                 [loaded[Runtime] EXCEPT
                     !.invite = [status |-> "pending", session |-> NoSession]],
                 opened)
        /\ loaded[Runtime].invite.status # "pending" => "reopened" \in opened
  BY DEF ProjectSave, Save
<1> QED BY <1>1, <1>2, <1>3, InviteSaved DEF Kept, Wrote

-----------------------------------------------------------------------------
(* Every step keeps the types *)

LEMMA AtStep ==
  ASSUME AtOK, SessionNext
  PROVE  AtOK'
<1> USE WorkersAre DEF AtOK, Places, Saving, CallerAt, WaiterAt, RemoverAt, ClosingAt, disk,
   life, screen, Goes, Through
<1>1. ASSUME NEW s \in SessionIds, AcceptFind(s) PROVE AtOK'
  BY <1>1 DEF AcceptFind, Start, FindInvite
<1>2. ASSUME NEW s \in SessionIds, AcceptAnnounce(s) PROVE AtOK'
  BY <1>2 DEF AcceptAnnounce, Start
<1>3. ASSUME NEW s \in SessionIds, ResumeCheck(s) PROVE AtOK'
  BY <1>3 DEF ResumeCheck, Start
<1>4. ASSUME NEW s \in SessionIds, LaunchRefused(s) PROVE AtOK'
  BY <1>4 DEF LaunchRefused
<1>5. ASSUME NEW s \in SessionIds, LaunchSession(s) PROVE AtOK'
  BY <1>5 DEF LaunchSession
<1>6. ASSUME NEW s \in SessionIds, RegisterLoad(s) PROVE AtOK'
  BY <1>6 DEF RegisterLoad, Load
<1>7. ASSUME NEW s \in SessionIds, RegisterSave(s) PROVE AtOK'
  BY <1>7 DEF RegisterSave, Save, Store
<1>8. ASSUME NEW s \in SessionIds, RegisterFails(s) PROVE AtOK'
  BY <1>8 DEF RegisterFails, Fails
<1>9. ASSUME NEW s \in SessionIds, OpenHub(s) PROVE AtOK'
  BY <1>9 DEF OpenHub, Recording
<1>10. ASSUME NEW s \in SessionIds, AttachedReturns(s) PROVE AtOK'
  BY <1>10 DEF AttachedReturns, Recording
<1>11. ASSUME NEW s \in SessionIds, RecordLoad(s) PROVE AtOK'
  BY <1>11 DEF RecordLoad, Load
<1>12. ASSUME NEW s \in SessionIds, RecordSave(s) PROVE AtOK'
  BY <1>12 DEF RecordSave, Upsert, Store
<1>13. ASSUME NEW s \in SessionIds, RecordFails(s) PROVE AtOK'
  BY <1>13 DEF RecordFails, Fails
<1>14. ASSUME NEW s \in SessionIds, ProcessExits(s) PROVE AtOK'
  BY <1>14 DEF ProcessExits
<1>15. ASSUME NEW s \in SessionIds, WriteOutcome(s) PROVE AtOK'
  BY <1>15 DEF WriteOutcome
<1>16. ASSUME NEW s \in SessionIds, NEW w \in {Waiter(s), Remover(s)}, UnregisterLoad(s, w)
       PROVE  AtOK'
  BY <1>16, AfterIs DEF UnregisterLoad, Load
<1>17. ASSUME NEW s \in SessionIds, NEW w \in {Waiter(s), Remover(s)}, UnregisterSave(s, w)
       PROVE  AtOK'
  BY <1>17, AfterIs DEF UnregisterSave, Save, Store
<1>18. ASSUME NEW s \in SessionIds, NEW w \in {Waiter(s), Remover(s)}, UnregisterFails(s, w)
       PROVE  AtOK'
  BY <1>18, AfterIs DEF UnregisterFails, Fails
<1>19. ASSUME NEW s \in SessionIds, NEW w \in {Waiter(s), Remover(s)}, MarkFind(s, w)
       PROVE  AtOK'
  BY <1>19, AfterIs DEF MarkFind, FindInvite
<1>20. ASSUME NEW s \in SessionIds, NEW w \in {Waiter(s), Remover(s)}, MarkLoad(s, w)
       PROVE  AtOK'
  BY <1>20, AfterIs DEF MarkLoad, Load
<1>21. ASSUME NEW s \in SessionIds, NEW w \in {Waiter(s), Remover(s)}, MarkSave(s, w)
       PROVE  AtOK'
  BY <1>21, AfterIs DEF MarkSave, Upsert, Store
<1>22. ASSUME NEW s \in SessionIds, NEW w \in {Waiter(s), Remover(s)}, MarkFails(s, w)
       PROVE  AtOK'
  BY <1>22, AfterIs DEF MarkFails, Fails
<1>23. ASSUME NEW s \in SessionIds, Forget(s) PROVE AtOK'
  BY <1>23 DEF Forget
<1>24. ASSUME NEW s \in SessionIds, CloseDone(s) PROVE AtOK'
  BY <1>24 DEF CloseDone
<1>25. ASSUME NEW s \in SessionIds, Stop(s) PROVE AtOK'
  BY <1>25 DEF Stop
<1>26. ASSUME NEW s \in SessionIds, StopReturns(s) PROVE AtOK'
  BY <1>26 DEF StopReturns
<1>27. ASSUME NEW s \in SessionIds, StopRemote(s) PROVE AtOK'
  BY <1>27 DEF StopRemote
<1>28. ASSUME NEW s \in SessionIds, CloseHub(s) PROVE AtOK'
  BY <1>28 DEF CloseHub
<1>29. CASE ProjectLoad
  BY <1>29 DEF ProjectLoad, RuntimeTurn, Load
<1>30. CASE ProjectSave
  BY <1>30 DEF ProjectSave, RuntimeTurn, Save, Store
<1>31. CASE CompleteFind
  BY <1>31 DEF CompleteFind, RuntimeTurn, FindInvite
<1>32. CASE CompleteLoad
  BY <1>32 DEF CompleteLoad, RuntimeTurn, Load
<1>33. CASE CompleteSave
  BY <1>33 DEF CompleteSave, RuntimeTurn, Upsert, Store
<1>34. CASE RejectFind
  BY <1>34 DEF RejectFind, FindInvite
<1>35. CASE RejectLoad
  BY <1>35 DEF RejectLoad, Load
<1>36. CASE RejectSave
  BY <1>36 DEF RejectSave, Upsert, Store
<1>37. CASE Broadcast
  BY <1>37 DEF Broadcast
<1>38. CASE AttachPTY
  BY <1>38 DEF AttachPTY, Relay
<1>39. CASE Subscribe
  BY <1>39 DEF Subscribe, Relay
<1>40. CASE Scrollback
  BY <1>40 DEF Scrollback, Relay
<1>41. CASE Receive
  BY <1>41 DEF Receive, Relay
<1>42. CASE SeeDone
  BY <1>42 DEF SeeDone, Relay
<1>43. CASE Disconnect
  BY <1>43 DEF Disconnect, Relay
<1> QED
  BY <1>1, <1>2, <1>3, <1>4, <1>5, <1>6, <1>7, <1>8, <1>9, <1>10, <1>11, <1>12, <1>13, <1>14,
     <1>15, <1>16, <1>17, <1>18, <1>19, <1>20, <1>21, <1>22, <1>23, <1>24, <1>25, <1>26, <1>27,
     <1>28, <1>29, <1>30, <1>31, <1>32, <1>33, <1>34, <1>35, <1>36, <1>37, <1>38, <1>39, <1>40,
     <1>41, <1>42, <1>43
  DEF SessionNext, Call, Wait, Closing, React, Reject, View
LEMMA FileStep ==
  ASSUME AtOK, DiskOK, SessionNext
  PROVE  FileOK'
<1> USE DEF DiskOK, FileOK, Windows, Lost, disk, life, screen, Goes, Through
<1>1. ASSUME NEW s \in SessionIds, AcceptFind(s) PROVE FileOK'
  BY <1>1 DEF AcceptFind, Start, FindInvite
<1>2. ASSUME NEW s \in SessionIds, AcceptAnnounce(s) PROVE FileOK'
  BY <1>2 DEF AcceptAnnounce, Start
<1>3. ASSUME NEW s \in SessionIds, ResumeCheck(s) PROVE FileOK'
  BY <1>3 DEF ResumeCheck, Start
<1>4. ASSUME NEW s \in SessionIds, LaunchRefused(s) PROVE FileOK'
  BY <1>4 DEF LaunchRefused
<1>5. ASSUME NEW s \in SessionIds, LaunchSession(s) PROVE FileOK'
  BY <1>5 DEF LaunchSession
<1>6. ASSUME NEW s \in SessionIds, RegisterLoad(s) PROVE FileOK'
  BY <1>6 DEF RegisterLoad, Load
<1>7. ASSUME NEW s \in SessionIds, RegisterSave(s) PROVE FileOK'
  BY <1>7, RegisterWrites DEF RegisterSave, Wrote, Save, Store
<1>8. ASSUME NEW s \in SessionIds, RegisterFails(s) PROVE FileOK'
  BY <1>8 DEF RegisterFails, Fails
<1>9. ASSUME NEW s \in SessionIds, OpenHub(s) PROVE FileOK'
  BY <1>9 DEF OpenHub, Recording
<1>10. ASSUME NEW s \in SessionIds, AttachedReturns(s) PROVE FileOK'
  BY <1>10 DEF AttachedReturns, Recording
<1>11. ASSUME NEW s \in SessionIds, RecordLoad(s) PROVE FileOK'
  BY <1>11 DEF RecordLoad, Load
<1>12. ASSUME NEW s \in SessionIds, RecordSave(s) PROVE FileOK'
  BY <1>12, RecordWrites DEF RecordSave, Wrote, Upsert, Store
<1>13. ASSUME NEW s \in SessionIds, RecordFails(s) PROVE FileOK'
  BY <1>13 DEF RecordFails, Fails
<1>14. ASSUME NEW s \in SessionIds, ProcessExits(s) PROVE FileOK'
  BY <1>14 DEF ProcessExits
<1>15. ASSUME NEW s \in SessionIds, WriteOutcome(s) PROVE FileOK'
  BY <1>15 DEF WriteOutcome
<1>16. ASSUME NEW s \in SessionIds, NEW w \in {Waiter(s), Remover(s)}, UnregisterLoad(s, w)
       PROVE  FileOK'
  BY <1>16, AfterIs DEF UnregisterLoad, Load
<1>17. ASSUME NEW s \in SessionIds, NEW w \in {Waiter(s), Remover(s)}, UnregisterSave(s, w)
       PROVE  FileOK'
  BY <1>17, WorkersAre, UnregisterWrites DEF UnregisterSave, Wrote, Save, Store
<1>18. ASSUME NEW s \in SessionIds, NEW w \in {Waiter(s), Remover(s)}, UnregisterFails(s, w)
       PROVE  FileOK'
  BY <1>18, AfterIs DEF UnregisterFails, Fails
<1>19. ASSUME NEW s \in SessionIds, NEW w \in {Waiter(s), Remover(s)}, MarkFind(s, w)
       PROVE  FileOK'
  BY <1>19, AfterIs DEF MarkFind, FindInvite
<1>20. ASSUME NEW s \in SessionIds, NEW w \in {Waiter(s), Remover(s)}, MarkLoad(s, w)
       PROVE  FileOK'
  BY <1>20, AfterIs DEF MarkLoad, Load
<1>21. ASSUME NEW s \in SessionIds, NEW w \in {Waiter(s), Remover(s)}, MarkSave(s, w)
       PROVE  FileOK'
  BY <1>21, WorkersAre, MarkWrites DEF MarkSave, Wrote, Upsert, Store
<1>22. ASSUME NEW s \in SessionIds, NEW w \in {Waiter(s), Remover(s)}, MarkFails(s, w)
       PROVE  FileOK'
  BY <1>22, AfterIs DEF MarkFails, Fails
<1>23. ASSUME NEW s \in SessionIds, Forget(s) PROVE FileOK'
  BY <1>23 DEF Forget
<1>24. ASSUME NEW s \in SessionIds, CloseDone(s) PROVE FileOK'
  BY <1>24 DEF CloseDone
<1>25. ASSUME NEW s \in SessionIds, Stop(s) PROVE FileOK'
  BY <1>25 DEF Stop
<1>26. ASSUME NEW s \in SessionIds, StopReturns(s) PROVE FileOK'
  BY <1>26 DEF StopReturns
<1>27. ASSUME NEW s \in SessionIds, StopRemote(s) PROVE FileOK'
  BY <1>27 DEF StopRemote
<1>28. ASSUME NEW s \in SessionIds, CloseHub(s) PROVE FileOK'
  BY <1>28 DEF CloseHub
<1>29. CASE ProjectLoad
  BY <1>29 DEF ProjectLoad, RuntimeTurn, Load
<1>30. CASE ProjectSave
  BY <1>30, ProjectWrites DEF ProjectSave, Wrote, RuntimeTurn, Save, Store
<1>31. CASE CompleteFind
  BY <1>31 DEF CompleteFind, RuntimeTurn, FindInvite
<1>32. CASE CompleteLoad
  BY <1>32 DEF CompleteLoad, RuntimeTurn, Load
<1>33. CASE CompleteSave
  BY <1>33, CompleteWrites DEF CompleteSave, Wrote, RuntimeTurn, Upsert, Store
<1>34. CASE RejectFind
  BY <1>34 DEF RejectFind, FindInvite
<1>35. CASE RejectLoad
  BY <1>35 DEF RejectLoad, Load
<1>36. CASE RejectSave
  BY <1>36, RejectWrites DEF RejectSave, Wrote, Upsert, Store
<1>37. CASE Broadcast
  BY <1>37 DEF Broadcast
<1>38. CASE AttachPTY
  BY <1>38 DEF AttachPTY, Relay
<1>39. CASE Subscribe
  BY <1>39 DEF Subscribe, Relay
<1>40. CASE Scrollback
  BY <1>40 DEF Scrollback, Relay
<1>41. CASE Receive
  BY <1>41 DEF Receive, Relay
<1>42. CASE SeeDone
  BY <1>42 DEF SeeDone, Relay
<1>43. CASE Disconnect
  BY <1>43 DEF Disconnect, Relay
<1> QED
  BY <1>1, <1>2, <1>3, <1>4, <1>5, <1>6, <1>7, <1>8, <1>9, <1>10, <1>11, <1>12, <1>13, <1>14,
     <1>15, <1>16, <1>17, <1>18, <1>19, <1>20, <1>21, <1>22, <1>23, <1>24, <1>25, <1>26, <1>27,
     <1>28, <1>29, <1>30, <1>31, <1>32, <1>33, <1>34, <1>35, <1>36, <1>37, <1>38, <1>39, <1>40,
     <1>41, <1>42, <1>43
  DEF SessionNext, Call, Wait, Closing, React, Reject, View
LEMMA HoldStep ==
  ASSUME AtOK, DiskOK, SessionNext
  PROVE  HoldOK'
<1> USE WorkersAre DEF AtOK, DiskOK, FileOK, HoldOK, Saving, File, disk, life, screen, Goes,
   Through
<1>1. ASSUME NEW s \in SessionIds, AcceptFind(s) PROVE HoldOK'
  BY <1>1 DEF AcceptFind, Start, FindInvite
<1>2. ASSUME NEW s \in SessionIds, AcceptAnnounce(s) PROVE HoldOK'
  BY <1>2 DEF AcceptAnnounce, Start
<1>3. ASSUME NEW s \in SessionIds, ResumeCheck(s) PROVE HoldOK'
  BY <1>3 DEF ResumeCheck, Start
<1>4. ASSUME NEW s \in SessionIds, LaunchRefused(s) PROVE HoldOK'
  BY <1>4 DEF LaunchRefused
<1>5. ASSUME NEW s \in SessionIds, LaunchSession(s) PROVE HoldOK'
  BY <1>5 DEF LaunchSession
<1>6. ASSUME NEW s \in SessionIds, RegisterLoad(s) PROVE HoldOK'
  BY <1>6 DEF RegisterLoad, Load
<1>7. ASSUME NEW s \in SessionIds, RegisterSave(s) PROVE HoldOK'
  BY <1>7 DEF RegisterSave, Save, Store
<1>8. ASSUME NEW s \in SessionIds, RegisterFails(s) PROVE HoldOK'
  BY <1>8 DEF RegisterFails, Fails
<1>9. ASSUME NEW s \in SessionIds, OpenHub(s) PROVE HoldOK'
  BY <1>9 DEF OpenHub, Recording
<1>10. ASSUME NEW s \in SessionIds, AttachedReturns(s) PROVE HoldOK'
  BY <1>10 DEF AttachedReturns, Recording
<1>11. ASSUME NEW s \in SessionIds, RecordLoad(s) PROVE HoldOK'
  BY <1>11 DEF RecordLoad, Load
<1>12. ASSUME NEW s \in SessionIds, RecordSave(s) PROVE HoldOK'
  BY <1>12 DEF RecordSave, Upsert, Store
<1>13. ASSUME NEW s \in SessionIds, RecordFails(s) PROVE HoldOK'
  BY <1>13 DEF RecordFails, Fails
<1>14. ASSUME NEW s \in SessionIds, ProcessExits(s) PROVE HoldOK'
  BY <1>14 DEF ProcessExits
<1>15. ASSUME NEW s \in SessionIds, WriteOutcome(s) PROVE HoldOK'
  BY <1>15 DEF WriteOutcome
<1>16. ASSUME NEW s \in SessionIds, NEW w \in {Waiter(s), Remover(s)}, UnregisterLoad(s, w)
       PROVE  HoldOK'
  BY <1>16, AfterIs DEF UnregisterLoad, Load
<1>17. ASSUME NEW s \in SessionIds, NEW w \in {Waiter(s), Remover(s)}, UnregisterSave(s, w)
       PROVE  HoldOK'
  BY <1>17, AfterIs DEF UnregisterSave, Save, Store
<1>18. ASSUME NEW s \in SessionIds, NEW w \in {Waiter(s), Remover(s)}, UnregisterFails(s, w)
       PROVE  HoldOK'
  BY <1>18, AfterIs DEF UnregisterFails, Fails
<1>19. ASSUME NEW s \in SessionIds, NEW w \in {Waiter(s), Remover(s)}, MarkFind(s, w)
       PROVE  HoldOK'
  BY <1>19, AfterIs DEF MarkFind, FindInvite
<1>20. ASSUME NEW s \in SessionIds, NEW w \in {Waiter(s), Remover(s)}, MarkLoad(s, w)
       PROVE  HoldOK'
  BY <1>20, AfterIs DEF MarkLoad, Load
<1>21. ASSUME NEW s \in SessionIds, NEW w \in {Waiter(s), Remover(s)}, MarkSave(s, w)
       PROVE  HoldOK'
  BY <1>21, AfterIs DEF MarkSave, Upsert, Store
<1>22. ASSUME NEW s \in SessionIds, NEW w \in {Waiter(s), Remover(s)}, MarkFails(s, w)
       PROVE  HoldOK'
  BY <1>22, AfterIs DEF MarkFails, Fails
<1>23. ASSUME NEW s \in SessionIds, Forget(s) PROVE HoldOK'
  BY <1>23 DEF Forget
<1>24. ASSUME NEW s \in SessionIds, CloseDone(s) PROVE HoldOK'
  BY <1>24 DEF CloseDone
<1>25. ASSUME NEW s \in SessionIds, Stop(s) PROVE HoldOK'
  BY <1>25 DEF Stop
<1>26. ASSUME NEW s \in SessionIds, StopReturns(s) PROVE HoldOK'
  BY <1>26 DEF StopReturns
<1>27. ASSUME NEW s \in SessionIds, StopRemote(s) PROVE HoldOK'
  BY <1>27 DEF StopRemote
<1>28. ASSUME NEW s \in SessionIds, CloseHub(s) PROVE HoldOK'
  BY <1>28 DEF CloseHub
<1>29. CASE ProjectLoad
  BY <1>29 DEF ProjectLoad, RuntimeTurn, Load
<1>30. CASE ProjectSave
  BY <1>30 DEF ProjectSave, RuntimeTurn, Save, Store
<1>31. CASE CompleteFind
  BY <1>31 DEF CompleteFind, RuntimeTurn, FindInvite
<1>32. CASE CompleteLoad
  BY <1>32 DEF CompleteLoad, RuntimeTurn, Load
<1>33. CASE CompleteSave
  BY <1>33 DEF CompleteSave, RuntimeTurn, Upsert, Store
<1>34. CASE RejectFind
  BY <1>34 DEF RejectFind, FindInvite
<1>35. CASE RejectLoad
  BY <1>35 DEF RejectLoad, Load
<1>36. CASE RejectSave
  BY <1>36 DEF RejectSave, Upsert, Store
<1>37. CASE Broadcast
  BY <1>37 DEF Broadcast
<1>38. CASE AttachPTY
  BY <1>38 DEF AttachPTY, Relay
<1>39. CASE Subscribe
  BY <1>39 DEF Subscribe, Relay
<1>40. CASE Scrollback
  BY <1>40 DEF Scrollback, Relay
<1>41. CASE Receive
  BY <1>41 DEF Receive, Relay
<1>42. CASE SeeDone
  BY <1>42 DEF SeeDone, Relay
<1>43. CASE Disconnect
  BY <1>43 DEF Disconnect, Relay
<1> QED
  BY <1>1, <1>2, <1>3, <1>4, <1>5, <1>6, <1>7, <1>8, <1>9, <1>10, <1>11, <1>12, <1>13, <1>14,
     <1>15, <1>16, <1>17, <1>18, <1>19, <1>20, <1>21, <1>22, <1>23, <1>24, <1>25, <1>26, <1>27,
     <1>28, <1>29, <1>30, <1>31, <1>32, <1>33, <1>34, <1>35, <1>36, <1>37, <1>38, <1>39, <1>40,
     <1>41, <1>42, <1>43
  DEF SessionNext, Call, Wait, Closing, React, Reject, View
LEMMA LifeTypesStep ==
  ASSUME LifeTypes, SessionNext
  PROVE  LifeTypes'
<1> USE DEF LifeTypes, disk, life, screen, Goes, Through
<1>1. ASSUME NEW s \in SessionIds, AcceptFind(s) PROVE LifeTypes'
  BY <1>1 DEF AcceptFind, Start, FindInvite
<1>2. ASSUME NEW s \in SessionIds, AcceptAnnounce(s) PROVE LifeTypes'
  BY <1>2 DEF AcceptAnnounce, Start
<1>3. ASSUME NEW s \in SessionIds, ResumeCheck(s) PROVE LifeTypes'
  BY <1>3 DEF ResumeCheck, Start
<1>4. ASSUME NEW s \in SessionIds, LaunchRefused(s) PROVE LifeTypes'
  BY <1>4 DEF LaunchRefused
<1>5. ASSUME NEW s \in SessionIds, LaunchSession(s) PROVE LifeTypes'
  BY <1>5 DEF LaunchSession
<1>6. ASSUME NEW s \in SessionIds, RegisterLoad(s) PROVE LifeTypes'
  BY <1>6 DEF RegisterLoad, Load
<1>7. ASSUME NEW s \in SessionIds, RegisterSave(s) PROVE LifeTypes'
  BY <1>7 DEF RegisterSave, Save, Store
<1>8. ASSUME NEW s \in SessionIds, RegisterFails(s) PROVE LifeTypes'
  BY <1>8 DEF RegisterFails, Fails
<1>9. ASSUME NEW s \in SessionIds, OpenHub(s) PROVE LifeTypes'
  BY <1>9 DEF OpenHub, Recording
<1>10. ASSUME NEW s \in SessionIds, AttachedReturns(s) PROVE LifeTypes'
  BY <1>10 DEF AttachedReturns, Recording
<1>11. ASSUME NEW s \in SessionIds, RecordLoad(s) PROVE LifeTypes'
  BY <1>11 DEF RecordLoad, Load
<1>12. ASSUME NEW s \in SessionIds, RecordSave(s) PROVE LifeTypes'
  BY <1>12 DEF RecordSave, Upsert, Store
<1>13. ASSUME NEW s \in SessionIds, RecordFails(s) PROVE LifeTypes'
  BY <1>13 DEF RecordFails, Fails
<1>14. ASSUME NEW s \in SessionIds, ProcessExits(s) PROVE LifeTypes'
  BY <1>14 DEF ProcessExits
<1>15. ASSUME NEW s \in SessionIds, WriteOutcome(s) PROVE LifeTypes'
  BY <1>15 DEF WriteOutcome
<1>16. ASSUME NEW s \in SessionIds, NEW w \in {Waiter(s), Remover(s)}, UnregisterLoad(s, w)
       PROVE  LifeTypes'
  BY <1>16, AfterIs DEF UnregisterLoad, Load
<1>17. ASSUME NEW s \in SessionIds, NEW w \in {Waiter(s), Remover(s)}, UnregisterSave(s, w)
       PROVE  LifeTypes'
  BY <1>17, AfterIs DEF UnregisterSave, Save, Store
<1>18. ASSUME NEW s \in SessionIds, NEW w \in {Waiter(s), Remover(s)}, UnregisterFails(s, w)
       PROVE  LifeTypes'
  BY <1>18, AfterIs DEF UnregisterFails, Fails
<1>19. ASSUME NEW s \in SessionIds, NEW w \in {Waiter(s), Remover(s)}, MarkFind(s, w)
       PROVE  LifeTypes'
  BY <1>19, AfterIs DEF MarkFind, FindInvite
<1>20. ASSUME NEW s \in SessionIds, NEW w \in {Waiter(s), Remover(s)}, MarkLoad(s, w)
       PROVE  LifeTypes'
  BY <1>20, AfterIs DEF MarkLoad, Load
<1>21. ASSUME NEW s \in SessionIds, NEW w \in {Waiter(s), Remover(s)}, MarkSave(s, w)
       PROVE  LifeTypes'
  BY <1>21, AfterIs DEF MarkSave, Upsert, Store
<1>22. ASSUME NEW s \in SessionIds, NEW w \in {Waiter(s), Remover(s)}, MarkFails(s, w)
       PROVE  LifeTypes'
  BY <1>22, AfterIs DEF MarkFails, Fails
<1>23. ASSUME NEW s \in SessionIds, Forget(s) PROVE LifeTypes'
  BY <1>23 DEF Forget
<1>24. ASSUME NEW s \in SessionIds, CloseDone(s) PROVE LifeTypes'
  BY <1>24 DEF CloseDone
<1>25. ASSUME NEW s \in SessionIds, Stop(s) PROVE LifeTypes'
  BY <1>25 DEF Stop
<1>26. ASSUME NEW s \in SessionIds, StopReturns(s) PROVE LifeTypes'
  BY <1>26 DEF StopReturns
<1>27. ASSUME NEW s \in SessionIds, StopRemote(s) PROVE LifeTypes'
  BY <1>27 DEF StopRemote
<1>28. ASSUME NEW s \in SessionIds, CloseHub(s) PROVE LifeTypes'
  BY <1>28 DEF CloseHub
<1>29. CASE ProjectLoad
  BY <1>29 DEF ProjectLoad, RuntimeTurn, Load
<1>30. CASE ProjectSave
  BY <1>30 DEF ProjectSave, RuntimeTurn, Save, Store
<1>31. CASE CompleteFind
  BY <1>31 DEF CompleteFind, RuntimeTurn, FindInvite
<1>32. CASE CompleteLoad
  BY <1>32 DEF CompleteLoad, RuntimeTurn, Load
<1>33. CASE CompleteSave
  BY <1>33 DEF CompleteSave, RuntimeTurn, Upsert, Store
<1>34. CASE RejectFind
  BY <1>34 DEF RejectFind, FindInvite
<1>35. CASE RejectLoad
  BY <1>35 DEF RejectLoad, Load
<1>36. CASE RejectSave
  BY <1>36 DEF RejectSave, Upsert, Store
<1>37. CASE Broadcast
  BY <1>37 DEF Broadcast
<1>38. CASE AttachPTY
  BY <1>38 DEF AttachPTY, Relay
<1>39. CASE Subscribe
  BY <1>39 DEF Subscribe, Relay
<1>40. CASE Scrollback
  BY <1>40 DEF Scrollback, Relay
<1>41. CASE Receive
  BY <1>41 DEF Receive, Relay
<1>42. CASE SeeDone
  BY <1>42 DEF SeeDone, Relay
<1>43. CASE Disconnect
  BY <1>43 DEF Disconnect, Relay
<1> QED
  BY <1>1, <1>2, <1>3, <1>4, <1>5, <1>6, <1>7, <1>8, <1>9, <1>10, <1>11, <1>12, <1>13, <1>14,
     <1>15, <1>16, <1>17, <1>18, <1>19, <1>20, <1>21, <1>22, <1>23, <1>24, <1>25, <1>26, <1>27,
     <1>28, <1>29, <1>30, <1>31, <1>32, <1>33, <1>34, <1>35, <1>36, <1>37, <1>38, <1>39, <1>40,
     <1>41, <1>42, <1>43
  DEF SessionNext, Call, Wait, Closing, React, Reject, View
-----------------------------------------------------------------------------
(* Every step keeps the lives, the invite, the registry and the view *)

LEMMA LifeStep ==
  ASSUME Types, Life, SessionNext
  PROVE  Life'
<1> USE WorkersAre DEF Types, AtOK, LifeTypes, Life, LifeOf, CallerAt, WaiterAt, RemoverAt,
   ClosingAt, Unlaunched, Unwatched, disk, life, screen, Goes, Through
<1>1. ASSUME NEW s \in SessionIds, AcceptFind(s) PROVE Life'
  BY <1>1 DEF AcceptFind, Start, FindInvite
<1>2. ASSUME NEW s \in SessionIds, AcceptAnnounce(s) PROVE Life'
  BY <1>2 DEF AcceptAnnounce, Start
<1>3. ASSUME NEW s \in SessionIds, ResumeCheck(s) PROVE Life'
  BY <1>3 DEF ResumeCheck, Start
<1>4. ASSUME NEW s \in SessionIds, LaunchRefused(s) PROVE Life'
  BY <1>4 DEF LaunchRefused
<1>5. ASSUME NEW s \in SessionIds, LaunchSession(s) PROVE Life'
  BY <1>5 DEF LaunchSession
<1>6. ASSUME NEW s \in SessionIds, RegisterLoad(s) PROVE Life'
  BY <1>6 DEF RegisterLoad, Load
<1>7. ASSUME NEW s \in SessionIds, RegisterSave(s) PROVE Life'
  BY <1>7 DEF RegisterSave, Save, Store
<1>8. ASSUME NEW s \in SessionIds, RegisterFails(s) PROVE Life'
  BY <1>8 DEF RegisterFails, Fails
<1>9. ASSUME NEW s \in SessionIds, OpenHub(s) PROVE Life'
  BY <1>9 DEF OpenHub, Recording
<1>10. ASSUME NEW s \in SessionIds, AttachedReturns(s) PROVE Life'
  BY <1>10 DEF AttachedReturns, Recording
<1>11. ASSUME NEW s \in SessionIds, RecordLoad(s) PROVE Life'
  BY <1>11 DEF RecordLoad, Load
<1>12. ASSUME NEW s \in SessionIds, RecordSave(s) PROVE Life'
  BY <1>12 DEF RecordSave, Upsert, Store
<1>13. ASSUME NEW s \in SessionIds, RecordFails(s) PROVE Life'
  BY <1>13 DEF RecordFails, Fails
<1>14. ASSUME NEW s \in SessionIds, ProcessExits(s) PROVE Life'
  BY <1>14 DEF ProcessExits
<1>15. ASSUME NEW s \in SessionIds, WriteOutcome(s) PROVE Life'
  BY <1>15 DEF WriteOutcome
<1>16. ASSUME NEW s \in SessionIds, NEW w \in {Waiter(s), Remover(s)}, UnregisterLoad(s, w)
       PROVE  Life'
  BY <1>16, AfterIs DEF UnregisterLoad, Load
<1>17. ASSUME NEW s \in SessionIds, NEW w \in {Waiter(s), Remover(s)}, UnregisterSave(s, w)
       PROVE  Life'
  BY <1>17, AfterIs DEF UnregisterSave, Save, Store
<1>18. ASSUME NEW s \in SessionIds, NEW w \in {Waiter(s), Remover(s)}, UnregisterFails(s, w)
       PROVE  Life'
  BY <1>18, AfterIs DEF UnregisterFails, Fails
<1>19. ASSUME NEW s \in SessionIds, NEW w \in {Waiter(s), Remover(s)}, MarkFind(s, w)
       PROVE  Life'
  BY <1>19, AfterIs DEF MarkFind, FindInvite
<1>20. ASSUME NEW s \in SessionIds, NEW w \in {Waiter(s), Remover(s)}, MarkLoad(s, w)
       PROVE  Life'
  BY <1>20, AfterIs DEF MarkLoad, Load
<1>21. ASSUME NEW s \in SessionIds, NEW w \in {Waiter(s), Remover(s)}, MarkSave(s, w)
       PROVE  Life'
  BY <1>21, AfterIs DEF MarkSave, Upsert, Store
<1>22. ASSUME NEW s \in SessionIds, NEW w \in {Waiter(s), Remover(s)}, MarkFails(s, w)
       PROVE  Life'
  BY <1>22, AfterIs DEF MarkFails, Fails
<1>23. ASSUME NEW s \in SessionIds, Forget(s) PROVE Life'
  BY <1>23 DEF Forget
<1>24. ASSUME NEW s \in SessionIds, CloseDone(s) PROVE Life'
  BY <1>24 DEF CloseDone
<1>25. ASSUME NEW s \in SessionIds, Stop(s) PROVE Life'
  BY <1>25 DEF Stop
<1>26. ASSUME NEW s \in SessionIds, StopReturns(s) PROVE Life'
  BY <1>26 DEF StopReturns
<1>27. ASSUME NEW s \in SessionIds, StopRemote(s) PROVE Life'
  BY <1>27 DEF StopRemote
<1>28. ASSUME NEW s \in SessionIds, CloseHub(s) PROVE Life'
  BY <1>28 DEF CloseHub
<1>29. CASE ProjectLoad
  BY <1>29 DEF ProjectLoad, RuntimeTurn, Load
<1>30. CASE ProjectSave
  BY <1>30 DEF ProjectSave, RuntimeTurn, Save, Store
<1>31. CASE CompleteFind
  BY <1>31 DEF CompleteFind, RuntimeTurn, FindInvite
<1>32. CASE CompleteLoad
  BY <1>32 DEF CompleteLoad, RuntimeTurn, Load
<1>33. CASE CompleteSave
  BY <1>33 DEF CompleteSave, RuntimeTurn, Upsert, Store
<1>34. CASE RejectFind
  BY <1>34 DEF RejectFind, FindInvite
<1>35. CASE RejectLoad
  BY <1>35 DEF RejectLoad, Load
<1>36. CASE RejectSave
  BY <1>36 DEF RejectSave, Upsert, Store
<1>37. CASE Broadcast
  BY <1>37 DEF Broadcast
<1>38. CASE AttachPTY
  BY <1>38 DEF AttachPTY, Relay
<1>39. CASE Subscribe
  BY <1>39 DEF Subscribe, Relay
<1>40. CASE Scrollback
  BY <1>40 DEF Scrollback, Relay
<1>41. CASE Receive
  BY <1>41 DEF Receive, Relay
<1>42. CASE SeeDone
  BY <1>42 DEF SeeDone, Relay
<1>43. CASE Disconnect
  BY <1>43 DEF Disconnect, Relay
<1> QED
  BY <1>1, <1>2, <1>3, <1>4, <1>5, <1>6, <1>7, <1>8, <1>9, <1>10, <1>11, <1>12, <1>13, <1>14,
     <1>15, <1>16, <1>17, <1>18, <1>19, <1>20, <1>21, <1>22, <1>23, <1>24, <1>25, <1>26, <1>27,
     <1>28, <1>29, <1>30, <1>31, <1>32, <1>33, <1>34, <1>35, <1>36, <1>37, <1>38, <1>39, <1>40,
     <1>41, <1>42, <1>43
  DEF SessionNext, Call, Wait, Closing, React, Reject, View
LEMMA AcceptedStep ==
  ASSUME Types, Life, OneAccepted, SessionNext
  PROVE  OneAccepted'
<1> USE WorkersAre DEF Types, AtOK, LifeTypes, Life, LifeOf, OneAccepted, Past, Outside,
   CallerAt, Unlaunched, disk, life, screen, Goes, Through
<1>1. ASSUME NEW s \in SessionIds, AcceptFind(s) PROVE OneAccepted'
  <2>1. CASE file.invite.status # "pending"
    BY <1>1, <2>1 DEF AcceptFind, Start
  <2>2. CASE file.invite.status = "pending" /\ \E t \in SessionIds : Accepting(t)
    BY <1>1, <2>2 DEF AcceptFind
  <2>3. CASE file.invite.status = "pending" /\ ~\E t \in SessionIds : Accepting(t)
    BY <1>1, <2>3 DEF AcceptFind, Start, FindInvite, Accepting
  <2> QED BY <2>1, <2>2, <2>3
<1>2. ASSUME NEW s \in SessionIds, AcceptAnnounce(s) PROVE OneAccepted'
  BY <1>2 DEF AcceptAnnounce, Start
<1>3. ASSUME NEW s \in SessionIds, ResumeCheck(s) PROVE OneAccepted'
  BY <1>3 DEF ResumeCheck, Start
<1>4. ASSUME NEW s \in SessionIds, LaunchRefused(s) PROVE OneAccepted'
  BY <1>4 DEF LaunchRefused
<1>5. ASSUME NEW s \in SessionIds, LaunchSession(s) PROVE OneAccepted'
  BY <1>5 DEF LaunchSession
<1>6. ASSUME NEW s \in SessionIds, RegisterLoad(s) PROVE OneAccepted'
  BY <1>6 DEF RegisterLoad, Load
<1>7. ASSUME NEW s \in SessionIds, RegisterSave(s) PROVE OneAccepted'
  <2>1. /\ Kept
        /\ "lost" \notin windows' =>
              file'.sessions = file.sessions \cup {s} /\ file'.invite = file.invite
    BY <1>7, WorkersAre, RegisterWrites DEF Wrote, DiskOK
  <2> QED BY <1>7, <2>1 DEF RegisterSave, Kept, Save
<1>8. ASSUME NEW s \in SessionIds, RegisterFails(s) PROVE OneAccepted'
  BY <1>8 DEF RegisterFails, Fails
<1>9. ASSUME NEW s \in SessionIds, OpenHub(s) PROVE OneAccepted'
  BY <1>9 DEF OpenHub, Recording
<1>10. ASSUME NEW s \in SessionIds, AttachedReturns(s) PROVE OneAccepted'
  BY <1>10 DEF AttachedReturns, Recording
<1>11. ASSUME NEW s \in SessionIds, RecordLoad(s) PROVE OneAccepted'
  BY <1>11 DEF RecordLoad, Load
<1>12. ASSUME NEW s \in SessionIds, RecordSave(s) PROVE OneAccepted'
  <2>1. /\ Kept /\ file'.invite.status = "accepted" /\ file'.invite.session = s
        /\ "lost" \notin windows' => file'.sessions = file.sessions
        /\ Closed(s) => "late" \in windows'
    BY <1>12, WorkersAre, RecordWrites DEF Wrote, DiskOK
  <2> QED BY <1>12, <2>1 DEF RecordSave, Kept
<1>13. ASSUME NEW s \in SessionIds, RecordFails(s) PROVE OneAccepted'
  BY <1>13 DEF RecordFails, Fails
<1>14. ASSUME NEW s \in SessionIds, ProcessExits(s) PROVE OneAccepted'
  BY <1>14 DEF ProcessExits
<1>15. ASSUME NEW s \in SessionIds, WriteOutcome(s) PROVE OneAccepted'
  BY <1>15 DEF WriteOutcome
<1>16. ASSUME NEW s \in SessionIds, NEW w \in {Waiter(s), Remover(s)}, UnregisterLoad(s, w)
       PROVE  OneAccepted'
  BY <1>16, AfterIs DEF UnregisterLoad, Load
<1>17. ASSUME NEW s \in SessionIds, NEW w \in {Waiter(s), Remover(s)}, UnregisterSave(s, w)
       PROVE  OneAccepted'
  <2>1. /\ Kept
        /\ "lost" \notin windows' =>
              file'.sessions = file.sessions \ {s} /\ file'.invite = file.invite
    BY <1>17, WorkersAre, UnregisterWrites DEF Wrote, DiskOK
  <2> QED BY <1>17, <2>1, AfterIs DEF UnregisterSave, Kept, Save
<1>18. ASSUME NEW s \in SessionIds, NEW w \in {Waiter(s), Remover(s)}, UnregisterFails(s, w)
       PROVE  OneAccepted'
  BY <1>18, AfterIs DEF UnregisterFails, Fails
<1>19. ASSUME NEW s \in SessionIds, NEW w \in {Waiter(s), Remover(s)}, MarkFind(s, w)
       PROVE  OneAccepted'
  BY <1>19, AfterIs DEF MarkFind, FindInvite
<1>20. ASSUME NEW s \in SessionIds, NEW w \in {Waiter(s), Remover(s)}, MarkLoad(s, w)
       PROVE  OneAccepted'
  BY <1>20, AfterIs DEF MarkLoad, Load
<1>21. ASSUME NEW s \in SessionIds, NEW w \in {Waiter(s), Remover(s)}, MarkSave(s, w)
       PROVE  OneAccepted'
  <2>1. /\ Kept /\ file'.invite.status = "incomplete"
        /\ "lost" \notin windows' => file'.sessions = file.sessions
    BY <1>21, WorkersAre, MarkWrites DEF Wrote, DiskOK
  <2> QED BY <1>21, <2>1, AfterIs DEF MarkSave, Kept
<1>22. ASSUME NEW s \in SessionIds, NEW w \in {Waiter(s), Remover(s)}, MarkFails(s, w)
       PROVE  OneAccepted'
  BY <1>22, AfterIs DEF MarkFails, Fails
<1>23. ASSUME NEW s \in SessionIds, Forget(s) PROVE OneAccepted'
  BY <1>23 DEF Forget
<1>24. ASSUME NEW s \in SessionIds, CloseDone(s) PROVE OneAccepted'
  BY <1>24 DEF CloseDone
<1>25. ASSUME NEW s \in SessionIds, Stop(s) PROVE OneAccepted'
  BY <1>25 DEF Stop
<1>26. ASSUME NEW s \in SessionIds, StopReturns(s) PROVE OneAccepted'
  BY <1>26 DEF StopReturns
<1>27. ASSUME NEW s \in SessionIds, StopRemote(s) PROVE OneAccepted'
  BY <1>27 DEF StopRemote
<1>28. ASSUME NEW s \in SessionIds, CloseHub(s) PROVE OneAccepted'
  BY <1>28 DEF CloseHub
<1>29. CASE ProjectLoad
  BY <1>29 DEF ProjectLoad, RuntimeTurn, Load
<1>30. CASE ProjectSave
  <2>1. /\ Kept /\ file'.invite.status = "pending"
        /\ "lost" \notin windows' => file'.sessions = file.sessions
        /\ {"lost", "reopened"} \cap windows' = {} => file.invite.status = "pending"
    BY <1>30, WorkersAre, ProjectWrites DEF Wrote, DiskOK
  <2> QED BY <1>30, <2>1 DEF ProjectSave, Kept, RuntimeTurn, Save
<1>31. CASE CompleteFind
  BY <1>31 DEF CompleteFind, RuntimeTurn, FindInvite
<1>32. CASE CompleteLoad
  BY <1>32 DEF CompleteLoad, RuntimeTurn, Load
<1>33. CASE CompleteSave
  <2>1. /\ Kept /\ file'.invite.status \in {"completed", "incomplete"}
        /\ "lost" \notin windows' => file'.sessions = file.sessions
    BY <1>33, WorkersAre, CompleteWrites DEF Wrote, DiskOK
  <2> QED BY <1>33, <2>1 DEF CompleteSave, Kept, RuntimeTurn
<1>34. CASE RejectFind
  BY <1>34 DEF RejectFind, FindInvite
<1>35. CASE RejectLoad
  BY <1>35 DEF RejectLoad, Load
<1>36. CASE RejectSave
  <2>1. /\ Kept /\ file'.invite.status = "cancelled"
        /\ "lost" \notin windows' => file'.sessions = file.sessions
    BY <1>36, WorkersAre, RejectWrites DEF Wrote, DiskOK
  <2> QED BY <1>36, <2>1 DEF RejectSave, Kept
<1>37. CASE Broadcast
  BY <1>37 DEF Broadcast
<1>38. CASE AttachPTY
  BY <1>38 DEF AttachPTY, Relay
<1>39. CASE Subscribe
  BY <1>39 DEF Subscribe, Relay
<1>40. CASE Scrollback
  BY <1>40 DEF Scrollback, Relay
<1>41. CASE Receive
  BY <1>41 DEF Receive, Relay
<1>42. CASE SeeDone
  BY <1>42 DEF SeeDone, Relay
<1>43. CASE Disconnect
  BY <1>43 DEF Disconnect, Relay
<1> QED
  BY <1>1, <1>2, <1>3, <1>4, <1>5, <1>6, <1>7, <1>8, <1>9, <1>10, <1>11, <1>12, <1>13, <1>14,
     <1>15, <1>16, <1>17, <1>18, <1>19, <1>20, <1>21, <1>22, <1>23, <1>24, <1>25, <1>26, <1>27,
     <1>28, <1>29, <1>30, <1>31, <1>32, <1>33, <1>34, <1>35, <1>36, <1>37, <1>38, <1>39, <1>40,
     <1>41, <1>42, <1>43
  DEF SessionNext, Call, Wait, Closing, React, Reject, View
LEMMA BusyStep ==
  ASSUME Types, Life, OneBusy, SessionNext
  PROVE  OneBusy'
<1> USE WorkersAre DEF Types, AtOK, LifeTypes, Life, LifeOf, OneBusy, Busy, Launching, Siblings,
   Provider, Outside, CallerAt, Unlaunched, Unwatched, disk, life, screen, Goes, Through
<1>1. ASSUME NEW s \in SessionIds, AcceptFind(s) PROVE OneBusy'
  BY <1>1 DEF AcceptFind, Start, FindInvite
<1>2. ASSUME NEW s \in SessionIds, AcceptAnnounce(s) PROVE OneBusy'
  <2>1. \A t \in SessionIds : setup.origin[t] \in {"accept", "resume", "unused"} /\ t # NoSession
    BY SetupAssumption DEF Setup
  <2>2. setup.origin[s] = "accept" /\ proc[s] = "none"
    BY <1>2 DEF AcceptAnnounce, Start
  <2>3. ASSUME NEW t \in SessionIds, t \in Siblings(s) \/ s \in Siblings(t) PROVE ~ Busy(t)
    <3>1. t # s /\ Provider(t) = Provider(s)
      BY <2>3
    <3>2. CASE setup.origin[t] = "unused"
      BY <3>2
    <3>3. CASE setup.origin[t] # "unused"
      <4>1. setup.origin[t] = "resume" /\ setup.source[t] = s
        <5> HIDE DEF Types, Life, OneBusy
        <5> QED BY <2>1, <2>2, <3>1, <3>3
      <4> QED BY <2>1, <2>2, <4>1
    <3> QED BY <3>2, <3>3
  <2>4. \A t \in SessionIds \ {s} : Busy(t)' = Busy(t)
    BY <1>2 DEF AcceptAnnounce, Start
  <2>5. ASSUME NEW t \in SessionIds
       PROVE  Siblings(t)' = Siblings(t) /\ Siblings(t) \subseteq SessionIds \ {t}
    BY <1>2 DEF AcceptAnnounce, Start
  <2>6. \A t \in SessionIds : /\ proc'[t] = proc[t]
                              /\ proc[t] = "alive" /\ ~ Launching(t)'
                                    => proc[t] = "alive" /\ ~ Launching(t)
    BY <1>2, <2>2 DEF AcceptAnnounce, Start
  <2>7. file' = file /\ windows' = windows
    BY <1>2 DEF AcceptAnnounce, Start
  <2> HIDE DEF Busy, Siblings, Launching
  <2> QED BY <2>3, <2>4, <2>5, <2>6, <2>7
<1>3. ASSUME NEW s \in SessionIds, ResumeCheck(s) PROVE OneBusy'
  BY <1>3 DEF ResumeCheck, Start, SeenLive
<1>4. ASSUME NEW s \in SessionIds, LaunchRefused(s) PROVE OneBusy'
  BY <1>4 DEF LaunchRefused
<1>5. ASSUME NEW s \in SessionIds, LaunchSession(s) PROVE OneBusy'
  BY <1>5 DEF LaunchSession
<1>6. ASSUME NEW s \in SessionIds, RegisterLoad(s) PROVE OneBusy'
  BY <1>6 DEF RegisterLoad, Load
<1>7. ASSUME NEW s \in SessionIds, RegisterSave(s) PROVE OneBusy'
  <2>1. /\ Kept
        /\ "lost" \notin windows' =>
              file'.sessions = file.sessions \cup {s} /\ file'.invite = file.invite
    BY <1>7, WorkersAre, RegisterWrites DEF Wrote, DiskOK
  <2> QED BY <1>7, <2>1 DEF RegisterSave, Kept, Save
<1>8. ASSUME NEW s \in SessionIds, RegisterFails(s) PROVE OneBusy'
  BY <1>8 DEF RegisterFails, Fails
<1>9. ASSUME NEW s \in SessionIds, OpenHub(s) PROVE OneBusy'
  BY <1>9 DEF OpenHub, Recording
<1>10. ASSUME NEW s \in SessionIds, AttachedReturns(s) PROVE OneBusy'
  BY <1>10 DEF AttachedReturns, Recording
<1>11. ASSUME NEW s \in SessionIds, RecordLoad(s) PROVE OneBusy'
  BY <1>11 DEF RecordLoad, Load
<1>12. ASSUME NEW s \in SessionIds, RecordSave(s) PROVE OneBusy'
  <2>1. /\ Kept /\ file'.invite.status = "accepted" /\ file'.invite.session = s
        /\ "lost" \notin windows' => file'.sessions = file.sessions
        /\ Closed(s) => "late" \in windows'
    BY <1>12, WorkersAre, RecordWrites DEF Wrote, DiskOK
  <2> QED BY <1>12, <2>1 DEF RecordSave, Kept
<1>13. ASSUME NEW s \in SessionIds, RecordFails(s) PROVE OneBusy'
  BY <1>13 DEF RecordFails, Fails
<1>14. ASSUME NEW s \in SessionIds, ProcessExits(s) PROVE OneBusy'
  BY <1>14 DEF ProcessExits
<1>15. ASSUME NEW s \in SessionIds, WriteOutcome(s) PROVE OneBusy'
  BY <1>15 DEF WriteOutcome
<1>16. ASSUME NEW s \in SessionIds, NEW w \in {Waiter(s), Remover(s)}, UnregisterLoad(s, w)
       PROVE  OneBusy'
  BY <1>16, AfterIs DEF UnregisterLoad, Load
<1>17. ASSUME NEW s \in SessionIds, NEW w \in {Waiter(s), Remover(s)}, UnregisterSave(s, w)
       PROVE  OneBusy'
  <2>1. /\ Kept
        /\ "lost" \notin windows' =>
              file'.sessions = file.sessions \ {s} /\ file'.invite = file.invite
    BY <1>17, WorkersAre, UnregisterWrites DEF Wrote, DiskOK
  <2> QED BY <1>17, <2>1, AfterIs DEF UnregisterSave, Kept, Save
<1>18. ASSUME NEW s \in SessionIds, NEW w \in {Waiter(s), Remover(s)}, UnregisterFails(s, w)
       PROVE  OneBusy'
  BY <1>18, AfterIs DEF UnregisterFails, Fails
<1>19. ASSUME NEW s \in SessionIds, NEW w \in {Waiter(s), Remover(s)}, MarkFind(s, w)
       PROVE  OneBusy'
  BY <1>19, AfterIs DEF MarkFind, FindInvite
<1>20. ASSUME NEW s \in SessionIds, NEW w \in {Waiter(s), Remover(s)}, MarkLoad(s, w)
       PROVE  OneBusy'
  BY <1>20, AfterIs DEF MarkLoad, Load
<1>21. ASSUME NEW s \in SessionIds, NEW w \in {Waiter(s), Remover(s)}, MarkSave(s, w)
       PROVE  OneBusy'
  <2>1. /\ Kept /\ file'.invite.status = "incomplete"
        /\ "lost" \notin windows' => file'.sessions = file.sessions
    BY <1>21, WorkersAre, MarkWrites DEF Wrote, DiskOK
  <2> QED BY <1>21, <2>1, AfterIs DEF MarkSave, Kept
<1>22. ASSUME NEW s \in SessionIds, NEW w \in {Waiter(s), Remover(s)}, MarkFails(s, w)
       PROVE  OneBusy'
  BY <1>22, AfterIs DEF MarkFails, Fails
<1>23. ASSUME NEW s \in SessionIds, Forget(s) PROVE OneBusy'
  BY <1>23 DEF Forget
<1>24. ASSUME NEW s \in SessionIds, CloseDone(s) PROVE OneBusy'
  BY <1>24 DEF CloseDone
<1>25. ASSUME NEW s \in SessionIds, Stop(s) PROVE OneBusy'
  BY <1>25 DEF Stop
<1>26. ASSUME NEW s \in SessionIds, StopReturns(s) PROVE OneBusy'
  BY <1>26 DEF StopReturns
<1>27. ASSUME NEW s \in SessionIds, StopRemote(s) PROVE OneBusy'
  BY <1>27 DEF StopRemote
<1>28. ASSUME NEW s \in SessionIds, CloseHub(s) PROVE OneBusy'
  BY <1>28 DEF CloseHub
<1>29. CASE ProjectLoad
  BY <1>29 DEF ProjectLoad, RuntimeTurn, Load
<1>30. CASE ProjectSave
  <2>1. /\ Kept /\ file'.invite.status = "pending"
        /\ "lost" \notin windows' => file'.sessions = file.sessions
        /\ {"lost", "reopened"} \cap windows' = {} => file.invite.status = "pending"
    BY <1>30, WorkersAre, ProjectWrites DEF Wrote, DiskOK
  <2> QED BY <1>30, <2>1 DEF ProjectSave, Kept, RuntimeTurn, Save
<1>31. CASE CompleteFind
  BY <1>31 DEF CompleteFind, RuntimeTurn, FindInvite
<1>32. CASE CompleteLoad
  BY <1>32 DEF CompleteLoad, RuntimeTurn, Load
<1>33. CASE CompleteSave
  <2>1. /\ Kept /\ file'.invite.status \in {"completed", "incomplete"}
        /\ "lost" \notin windows' => file'.sessions = file.sessions
    BY <1>33, WorkersAre, CompleteWrites DEF Wrote, DiskOK
  <2> QED BY <1>33, <2>1 DEF CompleteSave, Kept, RuntimeTurn
<1>34. CASE RejectFind
  BY <1>34 DEF RejectFind, FindInvite
<1>35. CASE RejectLoad
  BY <1>35 DEF RejectLoad, Load
<1>36. CASE RejectSave
  <2>1. /\ Kept /\ file'.invite.status = "cancelled"
        /\ "lost" \notin windows' => file'.sessions = file.sessions
    BY <1>36, WorkersAre, RejectWrites DEF Wrote, DiskOK
  <2> QED BY <1>36, <2>1 DEF RejectSave, Kept
<1>37. CASE Broadcast
  BY <1>37 DEF Broadcast
<1>38. CASE AttachPTY
  BY <1>38 DEF AttachPTY, Relay
<1>39. CASE Subscribe
  BY <1>39 DEF Subscribe, Relay
<1>40. CASE Scrollback
  BY <1>40 DEF Scrollback, Relay
<1>41. CASE Receive
  BY <1>41 DEF Receive, Relay
<1>42. CASE SeeDone
  BY <1>42 DEF SeeDone, Relay
<1>43. CASE Disconnect
  BY <1>43 DEF Disconnect, Relay
<1> QED
  BY <1>1, <1>2, <1>3, <1>4, <1>5, <1>6, <1>7, <1>8, <1>9, <1>10, <1>11, <1>12, <1>13, <1>14,
     <1>15, <1>16, <1>17, <1>18, <1>19, <1>20, <1>21, <1>22, <1>23, <1>24, <1>25, <1>26, <1>27,
     <1>28, <1>29, <1>30, <1>31, <1>32, <1>33, <1>34, <1>35, <1>36, <1>37, <1>38, <1>39, <1>40,
     <1>41, <1>42, <1>43
  DEF SessionNext, Call, Wait, Closing, React, Reject, View
LEMMA AnswerStep ==
  ASSUME Types, Life, AnswerOK, SessionNext
  PROVE  AnswerOK'
<1> USE WorkersAre DEF Types, AtOK, LifeTypes, Life, LifeOf, AnswerOK, Closed, Outside,
   WaiterAt, ClosingAt, Unwatched, disk, life, screen, Goes, Through
<1>1. ASSUME NEW s \in SessionIds, AcceptFind(s) PROVE AnswerOK'
  BY <1>1 DEF AcceptFind, Start, FindInvite
<1>2. ASSUME NEW s \in SessionIds, AcceptAnnounce(s) PROVE AnswerOK'
  BY <1>2 DEF AcceptAnnounce, Start
<1>3. ASSUME NEW s \in SessionIds, ResumeCheck(s) PROVE AnswerOK'
  BY <1>3 DEF ResumeCheck, Start
<1>4. ASSUME NEW s \in SessionIds, LaunchRefused(s) PROVE AnswerOK'
  BY <1>4 DEF LaunchRefused
<1>5. ASSUME NEW s \in SessionIds, LaunchSession(s) PROVE AnswerOK'
  BY <1>5 DEF LaunchSession
<1>6. ASSUME NEW s \in SessionIds, RegisterLoad(s) PROVE AnswerOK'
  BY <1>6 DEF RegisterLoad, Load
<1>7. ASSUME NEW s \in SessionIds, RegisterSave(s) PROVE AnswerOK'
  <2>1. /\ Kept
        /\ "lost" \notin windows' =>
              file'.sessions = file.sessions \cup {s} /\ file'.invite = file.invite
    BY <1>7, WorkersAre, RegisterWrites DEF Wrote, DiskOK
  <2> QED BY <1>7, <2>1 DEF RegisterSave, Kept, Save
<1>8. ASSUME NEW s \in SessionIds, RegisterFails(s) PROVE AnswerOK'
  BY <1>8 DEF RegisterFails, Fails
<1>9. ASSUME NEW s \in SessionIds, OpenHub(s) PROVE AnswerOK'
  BY <1>9 DEF OpenHub, Recording
<1>10. ASSUME NEW s \in SessionIds, AttachedReturns(s) PROVE AnswerOK'
  BY <1>10 DEF AttachedReturns, Recording
<1>11. ASSUME NEW s \in SessionIds, RecordLoad(s) PROVE AnswerOK'
  BY <1>11 DEF RecordLoad, Load
<1>12. ASSUME NEW s \in SessionIds, RecordSave(s) PROVE AnswerOK'
  <2>1. /\ Kept /\ file'.invite.status = "accepted" /\ file'.invite.session = s
        /\ "lost" \notin windows' => file'.sessions = file.sessions
        /\ Closed(s) => "late" \in windows'
    BY <1>12, WorkersAre, RecordWrites DEF Wrote, DiskOK
  <2> QED BY <1>12, <2>1 DEF RecordSave, Kept
<1>13. ASSUME NEW s \in SessionIds, RecordFails(s) PROVE AnswerOK'
  BY <1>13 DEF RecordFails, Fails
<1>14. ASSUME NEW s \in SessionIds, ProcessExits(s) PROVE AnswerOK'
  BY <1>14 DEF ProcessExits
<1>15. ASSUME NEW s \in SessionIds, WriteOutcome(s) PROVE AnswerOK'
  BY <1>15 DEF WriteOutcome
<1>16. ASSUME NEW s \in SessionIds, NEW w \in {Waiter(s), Remover(s)}, UnregisterLoad(s, w)
       PROVE  AnswerOK'
  BY <1>16, AfterIs DEF UnregisterLoad, Load
<1>17. ASSUME NEW s \in SessionIds, NEW w \in {Waiter(s), Remover(s)}, UnregisterSave(s, w)
       PROVE  AnswerOK'
  <2>1. /\ Kept
        /\ "lost" \notin windows' =>
              file'.sessions = file.sessions \ {s} /\ file'.invite = file.invite
    BY <1>17, WorkersAre, UnregisterWrites DEF Wrote, DiskOK
  <2> QED BY <1>17, <2>1, AfterIs DEF UnregisterSave, Kept, Save
<1>18. ASSUME NEW s \in SessionIds, NEW w \in {Waiter(s), Remover(s)}, UnregisterFails(s, w)
       PROVE  AnswerOK'
  BY <1>18, AfterIs DEF UnregisterFails, Fails
<1>19. ASSUME NEW s \in SessionIds, NEW w \in {Waiter(s), Remover(s)}, MarkFind(s, w)
       PROVE  AnswerOK'
  BY <1>19, AfterIs DEF MarkFind, FindInvite
<1>20. ASSUME NEW s \in SessionIds, NEW w \in {Waiter(s), Remover(s)}, MarkLoad(s, w)
       PROVE  AnswerOK'
  BY <1>20, AfterIs DEF MarkLoad, Load
<1>21. ASSUME NEW s \in SessionIds, NEW w \in {Waiter(s), Remover(s)}, MarkSave(s, w)
       PROVE  AnswerOK'
  <2>1. /\ Kept /\ file'.invite.status = "incomplete"
        /\ "lost" \notin windows' => file'.sessions = file.sessions
    BY <1>21, WorkersAre, MarkWrites DEF Wrote, DiskOK
  <2> QED BY <1>21, <2>1, AfterIs DEF MarkSave, Kept
<1>22. ASSUME NEW s \in SessionIds, NEW w \in {Waiter(s), Remover(s)}, MarkFails(s, w)
       PROVE  AnswerOK'
  BY <1>22, AfterIs DEF MarkFails, Fails
<1>23. ASSUME NEW s \in SessionIds, Forget(s) PROVE AnswerOK'
  BY <1>23 DEF Forget
<1>24. ASSUME NEW s \in SessionIds, CloseDone(s) PROVE AnswerOK'
  BY <1>24 DEF CloseDone
<1>25. ASSUME NEW s \in SessionIds, Stop(s) PROVE AnswerOK'
  BY <1>25 DEF Stop
<1>26. ASSUME NEW s \in SessionIds, StopReturns(s) PROVE AnswerOK'
  BY <1>26 DEF StopReturns
<1>27. ASSUME NEW s \in SessionIds, StopRemote(s) PROVE AnswerOK'
  BY <1>27 DEF StopRemote
<1>28. ASSUME NEW s \in SessionIds, CloseHub(s) PROVE AnswerOK'
  BY <1>28 DEF CloseHub
<1>29. CASE ProjectLoad
  BY <1>29 DEF ProjectLoad, RuntimeTurn, Load
<1>30. CASE ProjectSave
  <2>1. /\ Kept /\ file'.invite.status = "pending"
        /\ "lost" \notin windows' => file'.sessions = file.sessions
        /\ {"lost", "reopened"} \cap windows' = {} => file.invite.status = "pending"
    BY <1>30, WorkersAre, ProjectWrites DEF Wrote, DiskOK
  <2> QED BY <1>30, <2>1 DEF ProjectSave, Kept, RuntimeTurn, Save
<1>31. CASE CompleteFind
  BY <1>31 DEF CompleteFind, RuntimeTurn, FindInvite
<1>32. CASE CompleteLoad
  BY <1>32 DEF CompleteLoad, RuntimeTurn, Load
<1>33. CASE CompleteSave
  <2>1. /\ Kept /\ file'.invite.status \in {"completed", "incomplete"}
        /\ "lost" \notin windows' => file'.sessions = file.sessions
    BY <1>33, WorkersAre, CompleteWrites DEF Wrote, DiskOK
  <2> QED BY <1>33, <2>1 DEF CompleteSave, Kept, RuntimeTurn
<1>34. CASE RejectFind
  BY <1>34 DEF RejectFind, FindInvite
<1>35. CASE RejectLoad
  BY <1>35 DEF RejectLoad, Load
<1>36. CASE RejectSave
  <2>1. /\ Kept /\ file'.invite.status = "cancelled"
        /\ "lost" \notin windows' => file'.sessions = file.sessions
    BY <1>36, WorkersAre, RejectWrites DEF Wrote, DiskOK
  <2> QED BY <1>36, <2>1 DEF RejectSave, Kept
<1>37. CASE Broadcast
  BY <1>37 DEF Broadcast
<1>38. CASE AttachPTY
  BY <1>38 DEF AttachPTY, Relay
<1>39. CASE Subscribe
  BY <1>39 DEF Subscribe, Relay
<1>40. CASE Scrollback
  BY <1>40 DEF Scrollback, Relay
<1>41. CASE Receive
  BY <1>41 DEF Receive, Relay
<1>42. CASE SeeDone
  BY <1>42 DEF SeeDone, Relay
<1>43. CASE Disconnect
  BY <1>43 DEF Disconnect, Relay
<1> QED
  BY <1>1, <1>2, <1>3, <1>4, <1>5, <1>6, <1>7, <1>8, <1>9, <1>10, <1>11, <1>12, <1>13, <1>14,
     <1>15, <1>16, <1>17, <1>18, <1>19, <1>20, <1>21, <1>22, <1>23, <1>24, <1>25, <1>26, <1>27,
     <1>28, <1>29, <1>30, <1>31, <1>32, <1>33, <1>34, <1>35, <1>36, <1>37, <1>38, <1>39, <1>40,
     <1>41, <1>42, <1>43
  DEF SessionNext, Call, Wait, Closing, React, Reject, View

LEMMA ViewedIs ==
  ASSUME setup \in Setups, Viewer \in setup.others
  PROVE  Viewed \in SessionIds
BY SetupAssumption DEF Viewed, Viewer

LEMMA Queued ==
  ASSUME NEW q \in Seq(Nat), NEW n \in Nat
  PROVE  Append(q, n) \in Seq(Nat) /\ In(Append(q, n)) = In(q) \cup {n}
BY DEF In

LEMMA Taken ==
  ASSUME NEW q \in Seq(Nat), q # <<>>
  PROVE  Tail(q) \in Seq(Nat) /\ Head(q) \in Nat /\ In(q) = {Head(q)} \cup In(Tail(q))
<1>1. Len(q) \in Nat \ {0} /\ Head(q) = q[1] /\ Len(Tail(q)) = Len(q) - 1
      /\ Tail(q) \in Seq(Nat) /\ Head(q) \in Nat
  OBVIOUS
<1>2. \A i \in 1..Len(Tail(q)) : Tail(q)[i] = q[i + 1]
  OBVIOUS
<1>3. In(q) \subseteq {Head(q)} \cup In(Tail(q))
  <2> SUFFICES ASSUME NEW i \in 1..Len(q) PROVE q[i] \in {Head(q)} \cup In(Tail(q))
    BY DEF In
  <2>1. CASE i = 1
    BY <1>1, <2>1
  <2>2. CASE i # 1
    <3>1. i - 1 \in 1..Len(Tail(q)) /\ Tail(q)[i - 1] = q[i]
      BY <1>1, <1>2, <2>2
    <3> QED BY <3>1 DEF In
  <2> QED BY <2>1, <2>2
<1>4. {Head(q)} \cup In(Tail(q)) \subseteq In(q)
  BY <1>1, <1>2 DEF In
<1> QED BY <1>1, <1>3, <1>4

LEMMA ViewStep ==
  ASSUME Types, Life, ViewOK, SessionNext
  PROVE  ViewOK'
<1> USE DEF Goes, disk, life, screen
<1>1. CASE UNCHANGED <<setup, hub, screen>>
  BY <1>1 DEF ViewOK, NothingUnseen, Viewed
<1>2. ASSUME NEW s \in SessionIds, OpenHub(s) PROVE ViewOK'
  <2>1. UNCHANGED <<setup, screen>> /\ at[Caller(s)] = "hub"
        /\ hub' = IF s \in managed THEN [hub EXCEPT ![s] = "open"] ELSE hub
    BY <1>2 DEF OpenHub
  <2>2. hub[s] = "none"
    BY <2>1 DEF Types, LifeTypes, Life, LifeOf
  <2>3. viewer.at \in {"scroll", "watch"} => s # Viewed
    BY <2>2 DEF ViewOK
  <2>4. viewer.at \in {"scroll", "watch"} => hub'[Viewed] = hub[Viewed]
    BY <2>1, <2>3, ViewedIs DEF Types, LifeTypes, ViewOK
  <2> QED BY <2>1, <2>4 DEF ViewOK, NothingUnseen, Viewed
<1>3. ASSUME NEW s \in SessionIds, CloseHub(s) PROVE ViewOK'
  <2>1. /\ setup' = setup /\ output' = output /\ hub' = [hub EXCEPT ![s] = "closed"]
        /\ viewer' = IF s = Viewed THEN [viewer EXCEPT !.open = FALSE] ELSE viewer
    BY <1>3 DEF CloseHub
  <2>2. viewer.at \in {"scroll", "watch"} =>
           hub'[Viewed] = IF s = Viewed THEN "closed" ELSE hub[Viewed]
    BY <2>1, ViewedIs DEF Types, LifeTypes, ViewOK
  <2> QED BY <2>1, <2>2 DEF ViewOK, NothingUnseen, Viewed
<1>4. CASE Broadcast
  <2>1. /\ output \in Nat /\ output' = output + 1 /\ viewer.chan \in Seq(Nat)
        /\ UNCHANGED <<setup, hub>> /\ hub[Viewed] = "open"
    BY <1>4 DEF Broadcast, ViewOK
  <2>2. 1..output' = 1..output \cup {output'} /\ output' \in Nat
    BY <2>1
  <2>3. Append(viewer.chan, output') \in Seq(Nat)
        /\ In(Append(viewer.chan, output')) = In(viewer.chan) \cup {output'}
    BY <2>1, <2>2, Queued
  <2>4. CASE ~ viewer.open
    <3>1. viewer' = viewer
      BY <1>4, <2>4 DEF Broadcast
    <3> QED BY <2>1, <2>2, <2>4, <3>1 DEF ViewOK, NothingUnseen, Viewed
  <2>5. CASE viewer.open /\ Len(viewer.chan) < Capacity
    <3>1. viewer' = [viewer EXCEPT !.chan = Append(viewer.chan, output')]
      BY <1>4, <2>5 DEF Broadcast
    <3> QED BY <2>1, <2>2, <2>3, <3>1 DEF ViewOK, NothingUnseen, Viewed
  <2>6. CASE viewer.open /\ ~ (Len(viewer.chan) < Capacity)
    <3>1. viewer' = [viewer EXCEPT !.dropped = viewer.dropped \cup {output'}]
      BY <1>4, <2>6 DEF Broadcast
    <3> QED BY <2>1, <2>2, <3>1 DEF ViewOK, NothingUnseen, Viewed
  <2> QED BY <2>4, <2>5, <2>6
<1>5. CASE AttachPTY
  BY <1>5 DEF AttachPTY, Relay, ViewOK, NothingUnseen, Viewed
<1>6. CASE Subscribe
  <2>1. /\ UNCHANGED <<setup, hub, output>> /\ Viewer \in setup.others /\ viewer.at = "found"
        /\ viewer' = IF hub[Viewed] = "none" THEN [viewer EXCEPT !.at = "gone"]
                     ELSE [viewer EXCEPT !.at = "scroll", !.open = TRUE]
    BY <1>6 DEF Subscribe, Relay
  <2>2. hub[Viewed] \in {"none", "open", "closed"}
    BY <2>1, ViewedIs DEF Types, LifeTypes
  <2> QED BY <2>1, <2>2 DEF ViewOK, NothingUnseen, Viewed
<1>7. CASE Scrollback
  <2>1. /\ UNCHANGED <<setup, hub, output>> /\ viewer.at = "scroll"
        /\ viewer' = [viewer EXCEPT !.at = "watch", !.seen = 1..output]
    BY <1>7 DEF Scrollback, Relay
  <2>2. 1..output \in SUBSET Nat
    BY DEF ViewOK
  <2> QED BY <2>1, <2>2 DEF ViewOK, NothingUnseen, Viewed
<1>8. CASE Receive
  <2>1. /\ UNCHANGED <<setup, hub, output>> /\ viewer.at = "watch" /\ viewer.chan # <<>>
        /\ viewer' = [viewer EXCEPT !.seen = viewer.seen \cup {Head(viewer.chan)},
                                    !.chan = Tail(viewer.chan)]
    BY <1>8 DEF Receive, Relay
  <2>2. /\ Tail(viewer.chan) \in Seq(Nat) /\ Head(viewer.chan) \in Nat
        /\ In(viewer.chan) = {Head(viewer.chan)} \cup In(Tail(viewer.chan))
    <3>1. viewer.chan \in Seq(Nat)
      BY DEF ViewOK
    <3> QED BY <2>1, <3>1, Taken
  <2> QED BY <2>1, <2>2 DEF ViewOK, NothingUnseen, Viewed
<1>9. CASE SeeDone \/ Disconnect
  <2>1. /\ UNCHANGED <<setup, hub, output>> /\ viewer.at = "watch"
        /\ viewer' = [viewer EXCEPT !.at = "gone", !.open = FALSE]
    BY <1>9 DEF SeeDone, Disconnect, Relay
  <2> QED BY <2>1 DEF ViewOK, NothingUnseen, Viewed
<1>10. ASSUME NEW s \in SessionIds, Call(s), ~ OpenHub(s) PROVE UNCHANGED <<setup, hub, screen>>
  BY <1>10 DEF Call, AcceptFind, AcceptAnnounce, ResumeCheck, LaunchRefused, LaunchSession,
     RegisterLoad, RegisterSave, RegisterFails, AttachedReturns, RecordLoad, RecordSave,
     RecordFails,
     Start, Fails
<1>11. ASSUME NEW s \in SessionIds, NEW w, Closing(s, w) PROVE UNCHANGED <<setup, hub, screen>>
  BY <1>11 DEF Closing, UnregisterLoad, UnregisterSave, UnregisterFails, MarkFind, MarkLoad,
     MarkSave,
     MarkFails, Fails
<1>12. ASSUME NEW s \in SessionIds,
              \/ WriteOutcome(s) \/ Forget(s) \/ CloseDone(s) \/ ProcessExits(s)
              \/ Stop(s) \/ StopReturns(s) \/ StopRemote(s)
       PROVE UNCHANGED <<setup, hub, screen>>
  BY <1>12 DEF WriteOutcome, Forget, CloseDone, ProcessExits, Stop, StopReturns, StopRemote
<1>13. CASE React \/ Reject
  <2>1. UNCHANGED <<setup, hub, screen>>
    BY <1>13 DEF React, ProjectLoad, ProjectSave, CompleteFind, CompleteLoad, CompleteSave,
       RuntimeTurn,
       Reject, RejectFind, RejectLoad, RejectSave
  <2> QED BY <1>1, <2>1
<1> QED
  BY <1>1, <1>2, <1>3, <1>4, <1>5, <1>6, <1>7, <1>8, <1>9, <1>10, <1>11, <1>12, <1>13
  DEF SessionNext, Wait, View

-----------------------------------------------------------------------------
-----------------------------------------------------------------------------
(* The inductive invariant of Sessions *)

SessionIInv ==
    /\ Types /\ Life
    /\ OneAccepted /\ OneBusy /\ AnswerOK /\ ViewOK

LEMMA SetupKept ==
  ASSUME SessionNext
  PROVE  setup' = setup
<1> USE DEF RuntimeTurn, disk, life, screen, Goes, Through
<1>1. ASSUME NEW s \in SessionIds, AcceptFind(s) PROVE setup' = setup
  BY <1>1 DEF AcceptFind, Start, FindInvite
<1>2. ASSUME NEW s \in SessionIds, AcceptAnnounce(s) PROVE setup' = setup
  BY <1>2 DEF AcceptAnnounce, Start
<1>3. ASSUME NEW s \in SessionIds, ResumeCheck(s) PROVE setup' = setup
  BY <1>3 DEF ResumeCheck, Start
<1>4. ASSUME NEW s \in SessionIds, LaunchRefused(s) PROVE setup' = setup
  BY <1>4 DEF LaunchRefused
<1>5. ASSUME NEW s \in SessionIds, LaunchSession(s) PROVE setup' = setup
  BY <1>5 DEF LaunchSession
<1>6. ASSUME NEW s \in SessionIds, RegisterLoad(s) PROVE setup' = setup
  BY <1>6 DEF RegisterLoad, Load
<1>7. ASSUME NEW s \in SessionIds, RegisterSave(s) PROVE setup' = setup
  BY <1>7 DEF RegisterSave, Save, Store
<1>8. ASSUME NEW s \in SessionIds, RegisterFails(s) PROVE setup' = setup
  BY <1>8 DEF RegisterFails, Fails
<1>9. ASSUME NEW s \in SessionIds, OpenHub(s) PROVE setup' = setup
  BY <1>9 DEF OpenHub, Recording
<1>10. ASSUME NEW s \in SessionIds, AttachedReturns(s) PROVE setup' = setup
  BY <1>10 DEF AttachedReturns, Recording
<1>11. ASSUME NEW s \in SessionIds, RecordLoad(s) PROVE setup' = setup
  BY <1>11 DEF RecordLoad, Load
<1>12. ASSUME NEW s \in SessionIds, RecordSave(s) PROVE setup' = setup
  BY <1>12 DEF RecordSave, Upsert, Store
<1>13. ASSUME NEW s \in SessionIds, RecordFails(s) PROVE setup' = setup
  BY <1>13 DEF RecordFails, Fails
<1>14. ASSUME NEW s \in SessionIds, ProcessExits(s) PROVE setup' = setup
  BY <1>14 DEF ProcessExits
<1>15. ASSUME NEW s \in SessionIds, WriteOutcome(s) PROVE setup' = setup
  BY <1>15 DEF WriteOutcome
<1>16. ASSUME NEW s \in SessionIds, NEW w \in {Waiter(s), Remover(s)}, UnregisterLoad(s, w)
       PROVE  setup' = setup
  BY <1>16, AfterIs DEF UnregisterLoad, Load
<1>17. ASSUME NEW s \in SessionIds, NEW w \in {Waiter(s), Remover(s)}, UnregisterSave(s, w)
       PROVE  setup' = setup
  BY <1>17, AfterIs DEF UnregisterSave, Save, Store
<1>18. ASSUME NEW s \in SessionIds, NEW w \in {Waiter(s), Remover(s)}, UnregisterFails(s, w)
       PROVE  setup' = setup
  BY <1>18, AfterIs DEF UnregisterFails, Fails
<1>19. ASSUME NEW s \in SessionIds, NEW w \in {Waiter(s), Remover(s)}, MarkFind(s, w)
       PROVE  setup' = setup
  BY <1>19, AfterIs DEF MarkFind, FindInvite
<1>20. ASSUME NEW s \in SessionIds, NEW w \in {Waiter(s), Remover(s)}, MarkLoad(s, w)
       PROVE  setup' = setup
  BY <1>20, AfterIs DEF MarkLoad, Load
<1>21. ASSUME NEW s \in SessionIds, NEW w \in {Waiter(s), Remover(s)}, MarkSave(s, w)
       PROVE  setup' = setup
  BY <1>21, AfterIs DEF MarkSave, Upsert, Store
<1>22. ASSUME NEW s \in SessionIds, NEW w \in {Waiter(s), Remover(s)}, MarkFails(s, w)
       PROVE  setup' = setup
  BY <1>22, AfterIs DEF MarkFails, Fails
<1>23. ASSUME NEW s \in SessionIds, Forget(s) PROVE setup' = setup
  BY <1>23 DEF Forget
<1>24. ASSUME NEW s \in SessionIds, CloseDone(s) PROVE setup' = setup
  BY <1>24 DEF CloseDone
<1>25. ASSUME NEW s \in SessionIds, Stop(s) PROVE setup' = setup
  BY <1>25 DEF Stop
<1>26. ASSUME NEW s \in SessionIds, StopReturns(s) PROVE setup' = setup
  BY <1>26 DEF StopReturns
<1>27. ASSUME NEW s \in SessionIds, StopRemote(s) PROVE setup' = setup
  BY <1>27 DEF StopRemote
<1>28. ASSUME NEW s \in SessionIds, CloseHub(s) PROVE setup' = setup
  BY <1>28 DEF CloseHub
<1>29. CASE ProjectLoad
  BY <1>29 DEF ProjectLoad, RuntimeTurn, Load
<1>30. CASE ProjectSave
  BY <1>30 DEF ProjectSave, RuntimeTurn, Save, Store
<1>31. CASE CompleteFind
  BY <1>31 DEF CompleteFind, RuntimeTurn, FindInvite
<1>32. CASE CompleteLoad
  BY <1>32 DEF CompleteLoad, RuntimeTurn, Load
<1>33. CASE CompleteSave
  BY <1>33 DEF CompleteSave, RuntimeTurn, Upsert, Store
<1>34. CASE RejectFind
  BY <1>34 DEF RejectFind, FindInvite
<1>35. CASE RejectLoad
  BY <1>35 DEF RejectLoad, Load
<1>36. CASE RejectSave
  BY <1>36 DEF RejectSave, Upsert, Store
<1>37. CASE Broadcast
  BY <1>37 DEF Broadcast
<1>38. CASE AttachPTY
  BY <1>38 DEF AttachPTY, Relay
<1>39. CASE Subscribe
  BY <1>39 DEF Subscribe, Relay
<1>40. CASE Scrollback
  BY <1>40 DEF Scrollback, Relay
<1>41. CASE Receive
  BY <1>41 DEF Receive, Relay
<1>42. CASE SeeDone
  BY <1>42 DEF SeeDone, Relay
<1>43. CASE Disconnect
  BY <1>43 DEF Disconnect, Relay
<1> QED
  BY <1>1, <1>2, <1>3, <1>4, <1>5, <1>6, <1>7, <1>8, <1>9, <1>10, <1>11, <1>12, <1>13, <1>14,
     <1>15, <1>16, <1>17, <1>18, <1>19, <1>20, <1>21, <1>22, <1>23, <1>24, <1>25, <1>26, <1>27,
     <1>28, <1>29, <1>30, <1>31, <1>32, <1>33, <1>34, <1>35, <1>36, <1>37, <1>38, <1>39, <1>40,
     <1>41, <1>42, <1>43
  DEF SessionNext, Call, Wait, Closing, React, Reject, View

LEMMA SessionInitially == SessionInit => SessionIInv
<1> SUFFICES ASSUME SessionInit PROVE SessionIInv
  OBVIOUS
<1> USE WorkersAre DEF SessionInit
<1>1. Types
  BY DEF Types, AtOK, DiskOK, FileOK, HoldOK, LifeTypes, Places, CallerAt, WaiterAt, RemoverAt,
     Saving, File, Invite
<1>2. Life
  BY DEF Life, LifeOf, Unlaunched, Unwatched
<1>3. OneAccepted /\ OneBusy /\ AnswerOK
  BY DEF OneAccepted, Past, OneBusy, Busy, Launching, AnswerOK, Closed, Siblings
<1>4. ViewOK
  BY DEF ViewOK, NothingUnseen
<1> QED BY <1>1, <1>2, <1>3, <1>4 DEF SessionIInv

LEMMA SessionStep == SessionIInv /\ [SessionNext]_sessionVars => SessionIInv'
<1> SUFFICES ASSUME SessionIInv, [SessionNext]_sessionVars PROVE SessionIInv'
  OBVIOUS
<1>1. CASE SessionNext
  <2>1. Types'
    <3>1. setup' = setup
      BY <1>1, SetupKept
    <3> QED BY <1>1, <3>1, AtStep, FileStep, HoldStep, LifeTypesStep DEF SessionIInv, Types,
       DiskOK
  <2> QED BY <1>1, <2>1, LifeStep, AcceptedStep, BusyStep, AnswerStep, ViewStep DEF SessionIInv
<1>2. CASE UNCHANGED sessionVars
  BY <1>2 DEF sessionVars, SessionIInv, Types, AtOK, DiskOK, FileOK, HoldOK, LifeTypes, Life,
     LifeOf,
     OneAccepted, Past, OneBusy, Busy, Launching, Siblings, Provider, AnswerOK, Closed, Outside,
     ViewOK, NothingUnseen, Viewed
<1> QED BY <1>1, <1>2

LEMMA SessionInvariant == SessionSpec => []SessionIInv
BY SessionInitially, SessionStep, PTL DEF SessionSpec

\* The state file, the registry, the processes and the hubs keep their types,
\* whatever the order of the control plane's workers.
THEOREM SessionTypeCorrect == SessionSpec => []SessionTypeOK
<1>1. SessionIInv => SessionTypeOK
  BY DEF SessionIInv, Types, DiskOK, FileOK, LifeTypes, SessionTypeOK
<1> QED BY <1>1, SessionInvariant, PTL

\* However many accepts, resumes, waits and projections interleave, an invite
\* starts one session, unless one of the named windows opened.
THEOREM InviteStartsOneSession == SessionSpec => []OneSessionPerInvite
<1>1. SessionIInv => OneSessionPerInvite
  <2> SUFFICES ASSUME SessionIInv, Outside({"overlap", "reopened", "lost", "failed"})
               PROVE  Cardinality({s \in SessionIds :
                                      setup.origin[s] = "accept" /\ SessionStarted(s)}) <= 1
    BY DEF OneSessionPerInvite
  <2> DEFINE begun == {s \in SessionIds : setup.origin[s] = "accept" /\ SessionStarted(s)}
  <2>1. \A s \in begun : Past(s)
    BY DEF SessionIInv, Types, AtOK, CallerAt, Life, LifeOf, Unlaunched, SessionStarted, Past
  <2>2. \A s, t \in begun : s = t
    BY <2>1 DEF SessionIInv, OneAccepted
  <2>3. CASE begun = {}
    BY <2>3, FS_EmptySet
  <2>4. CASE begun # {}
    <3>1. PICK s \in begun : TRUE
      BY <2>4
    <3>2. begun = {s}
      BY <2>2, <3>1
    <3>3. Cardinality(begun) = 1
      BY <3>2, FS_Singleton
    <3> QED BY <3>3
  <2> QED BY <2>3, <2>4
<1> QED BY <1>1, SessionInvariant, PTL

\* Two live sessions never continue the same provider session, in one process or
\* in several, outside the windows the registry leaves open.
THEOREM ProviderSessionIsOne == SessionSpec => []OneLiveContinuation
<1>1. SessionIInv => OneLiveContinuation
  BY DEF SessionIInv, OneBusy, Busy, OneLiveContinuation
<1> QED BY <1>1, SessionInvariant, PTL

\* When a session is done, the invite it accepted is no longer accepted, unless
\* the acceptance was saved after the end or a save was lost.
THEOREM EndAnswersInvite == SessionSpec => []AcceptedIsLive
<1>1. SessionIInv => AcceptedIsLive
  BY DEF SessionIInv, Types, LifeTypes, Life, LifeOf, AnswerOK, Closed, AcceptedIsLive
<1> QED BY <1>1, SessionInvariant, PTL

\* What a hub broadcast is in the scrollback, in the channel, or was dropped by
\* a full channel: the relay subscribes before it reads the scrollback.
THEOREM BrowserMissesNothing == SessionSpec => []NothingUnseen
<1>1. SessionIInv => NothingUnseen
  BY DEF SessionIInv, ViewOK
<1> QED BY <1>1, SessionInvariant, PTL
=============================================================================
