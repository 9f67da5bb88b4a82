-------------------------- MODULE RunFinishProofs --------------------------
(***************************************************************************)
(* Theorems about RunFinish, for any setups, kinds and number of events:   *)
(* what a run's records, its queue and its sidecar say, wherever the       *)
(* finalizer, the operator or the agent's command stops.                   *)
(***************************************************************************)
EXTENDS RunFinish, TLAPS

(* Types *)

OwnEvent == {Own(id, kind) : id \in 1..MaxEvents, kind \in Kinds}
Synthesized == {Platform("rejection"), Platform("summary")}
Message == [event: Event, by: {"agent", "finalizer", "operator"}]
Progress == [at: {"idle", "publish", "record", "rewrite", "write"}, rest: Seq(OwnEvent)]

Types ==
    /\ setup \in Setup
    /\ outcome \in Outcome /\ status \in Outcome
    /\ result \in Outcome \cup {NoRecord} /\ apply \in BOOLEAN
    /\ pending \in Seq(OwnEvent) /\ log \in [Event -> 0..Several]
    /\ published \subseteq Message
    /\ patch \in {"none", "unpublished", "unconfirmed", "published"}
    /\ seen \subseteq Event /\ synth \in Seq(Synthesized) /\ explicit \in BOOLEAN
    /\ flush \in [Flushers -> Progress]
    /\ emit \in OwnEvent \cup {NoEvent} /\ emitted \in Nat
    /\ deferred \subseteq OwnEvent /\ overtaken \in BOOLEAN

\* A flush has something to do at each of its steps, and is the finalizer's own
\* only while the finalizer waits for it.
FlushOK ==
    /\ \A w \in Flushers : /\ flush[w].at \in {"publish", "record", "write"} => flush[w].rest # <<>>
                           /\ flush[w].at = "record" => Out(Head(flush[w].rest))
    /\ Flushing("finalizer") => pc = "flush"

Recorded(e) == Out(e) /\ e \in Lines
\* What of the queue has neither been given up nor done with is in S.
Covers(S) == \A e \in deferred : e \in forgone \/ e \in S \/ Recorded(e)

\* The file covers the queue, unless a flush has truncated it and not written it
\* back; whatever a flush holds covers it too, since it read the whole file.
QueueOK ==
    /\ \A w \in Flushers : Flushing(w) => Covers(In(flush[w].rest))
    /\ Covers(In(pending)) \/ \E w \in Flushers : flush[w].at = "write"

Core == Types /\ FlushOK /\ QueueOK

-----------------------------------------------------------------------------
(* Events, sequences, the log *)

LEMMA EventsAre ==
  /\ OwnEvent \subseteq Event /\ Synthesized \subseteq Event
  /\ Platform("artifact") \in Event /\ Platform("patch") \in Event
  /\ Platform("rejection") \in Synthesized /\ Platform("summary") \in Synthesized
  /\ NoEvent \notin OwnEvent
  /\ \A e \in OwnEvent : e.id > 0
  /\ \A kind : Platform(kind).id = 0 /\ Platform(kind).kind = kind
<1>1. OwnEvent \subseteq Event
  BY DEF OwnEvent, Event
<1>2. Synthesized \subseteq Event /\ Platform("artifact") \in Event /\ Platform("patch") \in Event
  BY DEF Synthesized, Event
<1>3. Platform("rejection") \in Synthesized /\ Platform("summary") \in Synthesized
  BY DEF Synthesized
<1>4. \A e \in OwnEvent : e.id > 0
  <2> SUFFICES ASSUME NEW id \in 1..MaxEvents, NEW kind \in Kinds PROVE Own(id, kind).id > 0
    BY DEF OwnEvent
  <2> QED BY SetupAssumption DEF Own
<1>5. NoEvent \notin OwnEvent
  BY <1>4 DEF NoEvent
<1>6. \A kind : Platform(kind).id = 0 /\ Platform(kind).kind = kind
  BY DEF Platform
<1> QED BY <1>1, <1>2, <1>3, <1>4, <1>5, <1>6

LEMMA AppendIn ==
  ASSUME NEW S, NEW s \in Seq(S), NEW e \in S
  PROVE  Append(s, e) \in Seq(S) /\ In(Append(s, e)) = In(s) \cup {e}
BY DEF In

LEMMA SingleIn ==
  ASSUME NEW S, NEW e \in S
  PROVE  <<e>> \in Seq(S) /\ In(<<e>>) = {e}
BY DEF In

LEMMA InIs ==
  ASSUME NEW S, NEW s \in Seq(S)
  PROVE  In(s) \subseteq S /\ In(<<>>) = {} /\ (s # <<>> => In(s) # {})
BY DEF In

LEMMA HeadTail ==
  ASSUME NEW S, NEW s \in Seq(S), s # <<>>
  PROVE  /\ Head(s) \in S /\ Tail(s) \in Seq(S)
         /\ In(s) = In(Tail(s)) \cup {Head(s)}
<1>1. /\ Len(s) \in Nat /\ Len(s) > 0 /\ Head(s) = s[1] /\ Head(s) \in S /\ Tail(s) \in Seq(S)
      /\ Len(Tail(s)) = Len(s) - 1 /\ \A i \in 1..(Len(s) - 1) : Tail(s)[i] = s[i + 1]
  OBVIOUS
<1>2. In(s) \subseteq In(Tail(s)) \cup {Head(s)}
  <2> SUFFICES ASSUME NEW i \in 1..Len(s), s[i] # Head(s) PROVE s[i] \in In(Tail(s))
    BY DEF In
  <2>1. i - 1 \in 1..(Len(s) - 1) /\ Tail(s)[i - 1] = s[i]
    BY <1>1
  <2> QED BY <1>1, <2>1 DEF In
<1>3. In(Tail(s)) \cup {Head(s)} \subseteq In(s)
  <2>1. \A i \in 1..(Len(s) - 1) : i + 1 \in 1..Len(s)
    BY <1>1
  <2> QED BY <1>1, <2>1 DEF In
<1> QED BY <1>1, <1>2, <1>3

LEMMA LoggedIs ==
  ASSUME log \in [Event -> 0..Several], NEW e \in Event
  PROVE  /\ Logged(e) \in [Event -> 0..Several]
         /\ log' = Logged(e) => Lines' = Lines \cup {e}
<1> DEFINE more == IF log[e] = Several THEN Several ELSE log[e] + 1
<1>1. log[e] \in 0..2 /\ more \in 0..2 /\ more > 0
  BY DEF Several
<1>2. Logged(e) = [log EXCEPT ![e] = more]
  BY DEF Logged
<1> HIDE DEF more
<1>3. Logged(e) \in [Event -> 0..Several]
  BY <1>1, <1>2 DEF Several
<1>4. \A x \in Event : Logged(e)[x] > 0 <=> x = e \/ log[x] > 0
  BY <1>1, <1>2
<1> QED BY <1>3, <1>4 DEF Lines

LEMMA PublishIs ==
  ASSUME published \subseteq Message, NEW e \in Event,
         NEW by \in {"agent", "finalizer", "operator"}, NEW ok \in BOOLEAN, Publish(e, by, ok)
  PROVE  /\ published' \subseteq Message /\ published \subseteq published'
         /\ \A m \in published' : m \in published \/ (m.event = e /\ m.by = by)
         /\ ok => Out(e)'
         /\ \A x : Out(x) => Out(x)'
         /\ \A x : Out(x)' => Out(x) \/ x = e
<1> DEFINE m == [event |-> e, by |-> by]
<1>1. m \in Message /\ m.event = e /\ m.by = by
  BY DEF Message
<1>2. published' = published \cup {m} \/ (~ok /\ published' = published)
  BY DEF Publish
<1> HIDE DEF m
<1> QED BY <1>1, <1>2 DEF Out

-----------------------------------------------------------------------------
(* The finalizer's steps that leave the queue and its flushes alone *)

DataTypes ==
    /\ outcome \in Outcome /\ status \in Outcome
    /\ result \in Outcome \cup {NoRecord} /\ apply \in BOOLEAN
    /\ log \in [Event -> 0..Several] /\ published \subseteq Message
    /\ patch \in {"none", "unpublished", "unconfirmed", "published"}
    /\ seen \subseteq Event /\ synth \in Seq(Synthesized) /\ explicit \in BOOLEAN

\* Only the platform's own events are logged and sent.
Quiet ==
    /\ UNCHANGED <<setup, pending, flush, emit, emitted, ghosts, overtaken>>
    /\ Finishing /\ pc # "flush" /\ pc' # "agent"
    /\ DataTypes'
    /\ \A e \in Lines : e \in Lines'
    /\ \A e \in Lines' : e \in Lines \/ e.id = 0
    /\ \A m \in published : m \in published'
    /\ \A m \in published' : m \in published \/ (m.by = "finalizer" /\ m.event.id = 0)

\* An event of the platform is logged, or sent.
Notes == \E kind : Platform(kind) \in Event /\ log' = Logged(Platform(kind))
Sends == \E kind : /\ Platform(kind) \in Event
                   /\ \E ok \in BOOLEAN : Publish(Platform(kind), "finalizer", ok)

LEMMA QuietIf ==
  ASSUME Types, NEW from, NEW to, Step(from, to), to # "agent",
         from \notin {"agent", "done", "aborted", "dead", "flush"},
         UNCHANGED pending, DataTypes',
         log' = log \/ Notes, published' = published \/ Sends
  PROVE  Quiet
<1>1. /\ UNCHANGED <<setup, pending, flush, emit, emitted, ghosts, overtaken>>
      /\ Finishing /\ pc # "flush" /\ pc' # "agent"
  BY DEF Step, Finishing
<1>2. (\A e \in Lines : e \in Lines') /\ (\A e \in Lines' : e \in Lines \/ e.id = 0)
  <2>1. CASE log' = log
    BY <2>1 DEF Lines
  <2>2. CASE Notes
    <3>1. PICK kind : Platform(kind) \in Event /\ log' = Logged(Platform(kind))
      BY <2>2 DEF Notes
    <3>2. Lines' = Lines \cup {Platform(kind)}
      BY <3>1, LoggedIs DEF Types
    <3> QED BY <3>2, EventsAre
  <2> QED BY <2>1, <2>2
<1>3. /\ \A m \in published : m \in published'
      /\ \A m \in published' : m \in published \/ (m.by = "finalizer" /\ m.event.id = 0)
  <2>1. CASE published' = published
    BY <2>1
  <2>2. CASE Sends
    <3>1. PICK kind : /\ Platform(kind) \in Event
                      /\ \E ok \in BOOLEAN : Publish(Platform(kind), "finalizer", ok)
      BY <2>2 DEF Sends
    <3>2. /\ published \subseteq published'
          /\ \A m \in published' :
                m \in published \/ (m.event = Platform(kind) /\ m.by = "finalizer")
      BY <3>1, PublishIs DEF Types
    <3> QED BY <3>2, EventsAre
  <2> QED BY <2>1, <2>2
<1> QED BY <1>1, <1>2, <1>3 DEF Quiet

LEMMA DataNow == Types => DataTypes
BY DEF Types, DataTypes

LEMMA FailsIs ==
  ASSUME NEW reason \in {"checks_failed", "run_summary_missing", "completion_contract"},
         Fails(reason)
  PROVE  outcome' \in Outcome /\ outcome'.state = "failed" /\ outcome'.reason = reason
BY DEF Fails, Outcome

LEMMA SendIs ==
  ASSUME Types, NEW kind, Platform(kind) \in Event, NEW ok \in BOOLEAN,
         Publish(Platform(kind), "finalizer", ok)
  PROVE  published' \subseteq Message /\ Sends
<1>1. published \subseteq Message
  BY DEF Types
<1>2. published' \subseteq Message
  BY <1>1, PublishIs
<1>3. Sends
  BY DEF Sends
<1> QED BY <1>2, <1>3

LEMMA NoteIs ==
  ASSUME Types, NEW kind, Platform(kind) \in Event, log' = Logged(Platform(kind))
  PROVE  log' \in [Event -> 0..Several] /\ Notes
BY LoggedIs DEF Types, Notes

LEMMA QuietAnnounce ==
  ASSUME Types, Announce
  PROVE  Quiet
<1>1. Remembered \in {"close", "events"} /\ AfterArtifacts(TRUE) \in {"close", "events"}
      /\ AfterArtifacts(FALSE) \in {"close", "events", "aborted"}
  BY DEF Remembered, AfterArtifacts
<1>2. CASE ArtifactsPending \/ ArtifactsLogged
  <2>1. /\ UNCHANGED <<outcome, records, pending, log, published, patch, seen, synth, explicit>>
        /\ \E from \in {"artifacts", "announced"}, to \in {"announced", "announce", "close", "events"} :
              Step(from, to)
    BY <1>1, <1>2 DEF ArtifactsPending, ArtifactsLogged
  <2>2. DataTypes'
    BY <2>1, DataNow DEF DataTypes, records
  <2> QED BY <2>1, <2>2, QuietIf
<1>3. CASE AnnounceArtifacts
  <2>1. PICK ok \in BOOLEAN :
            /\ Publish(Platform("artifact"), "finalizer", ok)
            /\ Step("announce", IF ok THEN "recordBatch" ELSE AfterArtifacts(FALSE))
    BY <1>3 DEF AnnounceArtifacts
  <2>2. UNCHANGED <<outcome, records, pending, log, patch, seen, synth, explicit>>
    BY <1>3 DEF AnnounceArtifacts
  <2>3. PICK to \in {"recordBatch", "close", "events", "aborted"} : Step("announce", to)
    BY <1>1, <2>1
  <2>4. published' \subseteq Message /\ Sends
    BY <2>1, SendIs, EventsAre
  <2>5. DataTypes'
    BY <2>2, <2>4, DataNow DEF DataTypes, records
  <2> QED BY <2>2, <2>3, <2>4, <2>5, QuietIf
<1>4. CASE RecordArtifacts
  <2>1. /\ UNCHANGED <<outcome, records, pending, published, patch, seen, synth, explicit>>
        /\ log' = log \/ log' = Logged(Platform("artifact"))
        /\ \E to \in {"close", "events", "aborted"} : Step("recordBatch", to)
    BY <1>1, <1>4 DEF RecordArtifacts
  <2>2. log' = log \/ (log' \in [Event -> 0..Several] /\ Notes)
    BY <2>1, NoteIs, EventsAre
  <2>3. DataTypes'
    BY <2>1, <2>2, DataNow DEF DataTypes, records
  <2> QED BY <2>1, <2>2, <2>3, QuietIf
<1> QED BY <1>2, <1>3, <1>4 DEF Announce

LEMMA QuietRecords ==
  ASSUME Types,
         \/ EnsureResultRecord
         \/ CloseSession
         \/ \E from \in {"gateStatus", "summaryStatus", "contractStatus"},
               to \in {"gateResult", "summaryResult", "contractResult"} :
               ReconcileStatus(from, to)
         \/ \E from \in {"gateResult", "summaryResult", "contractResult"},
               to \in {"reject", "contract", "explicit"} : ReconcileResult(from, to)
  PROVE  Quiet
<1>1. /\ UNCHANGED <<outcome, pending, log, published, patch, seen, synth, explicit>>
      /\ status' \in {status, outcome} /\ result' \in {result, outcome} /\ apply' \in BOOLEAN
      /\ \E from \in {"record", "close", "gateStatus", "summaryStatus", "contractStatus",
                      "gateResult", "summaryResult", "contractResult"},
            to \in {"gate", "reread", "done", "gateResult", "summaryResult",
                    "contractResult", "reject", "contract", "explicit"} : Step(from, to)
  BY DEF EnsureResultRecord, CloseSession, ReconcileStatus, ReconcileResult, Types
<1>2. DataTypes'
  BY <1>1, DataNow DEF DataTypes
<1> QED BY <1>1, <1>2, QuietIf

LEMMA QuietVerdicts ==
  ASSUME Types, CheckGate \/ RejectRun \/ ReadEvents \/ RequireSummary \/ EnforceContract
  PROVE  Quiet
<1>1. CASE CheckGate \/ RequireSummary \/ EnforceContract
  <2>1. /\ UNCHANGED <<records, pending, log, published, patch, seen, synth, explicit>>
        /\ outcome' = outcome \/ Fails("checks_failed") \/ Fails("run_summary_missing")
              \/ Fails("completion_contract")
        /\ \E from \in {"gate", "summary", "contract"},
              to \in {"flush", "events", "gateStatus", "summaryStatus", "contract",
                      "contractStatus", "explicit"} : Step(from, to)
    BY <1>1 DEF CheckGate, RequireSummary, EnforceContract
  <2>2. outcome' \in Outcome
    BY <2>1, FailsIs DEF Types
  <2>3. DataTypes'
    BY <2>1, <2>2, DataNow DEF DataTypes, records
  <2> QED BY <2>1, <2>3, QuietIf
<1>2. CASE RejectRun
  <2>1. /\ UNCHANGED <<outcome, records, pending, published, patch, seen, explicit>>
        /\ Step("reject", "events")
        /\ \/ UNCHANGED <<log, synth>>
           \/ log' = Logged(Platform("rejection")) /\ synth' = <<Platform("rejection")>>
    BY <1>2 DEF RejectRun
  <2>2. log' = log \/ (log' \in [Event -> 0..Several] /\ Notes)
    BY <2>1, NoteIs, EventsAre
  <2>3. synth' \in Seq(Synthesized)
    <3>1. Platform("rejection") \in Synthesized
      BY EventsAre
    <3>2. <<Platform("rejection")>> \in Seq(Synthesized)
      BY <3>1, SingleIn
    <3>3. synth \in Seq(Synthesized)
      BY DEF Types
    <3> QED BY <2>1, <3>2, <3>3
  <2>4. DataTypes'
    BY <2>1, <2>2, <2>3, DataNow DEF DataTypes, records
  <2> QED BY <2>1, <2>2, <2>4, QuietIf
<1>3. CASE ReadEvents
  <2>1. /\ UNCHANGED <<outcome, records, pending, published, patch, explicit>>
        /\ Step("events", "summary") /\ seen' \in {Lines, Lines'}
        /\ \/ UNCHANGED <<log, synth>>
           \/ log' = Logged(Platform("summary")) /\ synth' = Append(synth, Platform("summary"))
    BY <1>3 DEF ReadEvents
  <2>2. log' = log \/ (log' \in [Event -> 0..Several] /\ Notes)
    BY <2>1, NoteIs, EventsAre
  <2>3. synth' \in Seq(Synthesized)
    <3>1. synth \in Seq(Synthesized) /\ Platform("summary") \in Synthesized
      BY EventsAre DEF Types
    <3> QED BY <2>1, <3>1
  <2>4. seen' \subseteq Event
    BY <2>1 DEF Lines
  <2>5. DataTypes'
    BY <2>1, <2>2, <2>3, <2>4, DataNow DEF DataTypes, records
  <2> QED BY <2>1, <2>2, <2>5, QuietIf
<1> QED BY <1>1, <1>2, <1>3

LEMMA QuietPublishOutcome ==
  ASSUME Types, PublishOutcome
  PROVE  Quiet
<1>1. CASE RereadEvents \/ OwnProposal
  <2>1. /\ UNCHANGED <<outcome, records, pending, log, published, patch, synth>>
        /\ seen' \subseteq Event /\ explicit' \in BOOLEAN
        /\ \E from \in {"reread", "explicit"}, to \in {"explicit", "publish"} : Step(from, to)
    BY <1>1 DEF RereadEvents, OwnProposal, OwnKind, Lines, Types
  <2>2. DataTypes'
    BY <2>1, DataNow DEF DataTypes, records
  <2> QED BY <2>1, <2>2, QuietIf
<1>2. CASE PublishSynthesized
  <2>1. synth # <<>> /\ synth' = Tail(synth)
        /\ UNCHANGED <<outcome, records, pending, log, patch, seen, explicit>>
    BY <1>2 DEF PublishSynthesized
  <2>2. PICK ok \in BOOLEAN, to \in {"publish", "aborted", "done"} :
            Publish(Head(synth), "finalizer", ok) /\ Step("publish", to)
    BY <1>2 DEF PublishSynthesized
  <2>3. Head(synth) \in Synthesized /\ synth' \in Seq(Synthesized)
    BY <2>1, HeadTail DEF Types
  <2>4. PICK kind : Platform(kind) \in Event /\ Publish(Platform(kind), "finalizer", ok)
    BY <2>2, <2>3, EventsAre DEF Synthesized
  <2>5. published' \subseteq Message /\ Sends
    BY <2>4, SendIs
  <2>6. DataTypes'
    BY <2>1, <2>3, <2>5, DataNow DEF DataTypes, records
  <2> QED BY <2>1, <2>2, <2>5, <2>6, QuietIf
<1>3. CASE Archive \/ MarkAttempt \/ ConfirmPatch
  <2>1. /\ UNCHANGED <<outcome, records, pending, log, published, seen, synth, explicit>>
        /\ patch' \in {"unpublished", "unconfirmed", "published", patch}
        /\ \E from \in {"publish", "attempt", "confirm"}, to \in {"attempt", "send", "done"} :
              Step(from, to)
    BY <1>3 DEF Archive, MarkAttempt, ConfirmPatch
  <2>2. DataTypes'
    BY <2>1, DataNow DEF DataTypes, records
  <2> QED BY <2>1, <2>2, QuietIf
<1>4. CASE SendPatch
  <2>1. /\ UNCHANGED <<outcome, records, pending, log, patch, seen, synth, explicit>>
        /\ \E ok \in BOOLEAN : Publish(Platform("patch"), "finalizer", ok)
        /\ \E to \in {"confirm", "done"} : Step("send", to)
    BY <1>4 DEF SendPatch
  <2>2. published' \subseteq Message /\ Sends
    BY <2>1, SendIs, EventsAre
  <2>3. DataTypes'
    BY <2>1, <2>2, DataNow DEF DataTypes, records
  <2> QED BY <2>1, <2>2, <2>3, QuietIf
<1> QED BY <1>1, <1>2, <1>3, <1>4 DEF PublishOutcome

LEMMA QuietSteps ==
  ASSUME Types, Announce \/ Verdicts \/ PublishOutcome
  PROVE  Quiet
BY QuietAnnounce, QuietRecords, QuietVerdicts, QuietPublishOutcome DEF Verdicts

-----------------------------------------------------------------------------
(* The queue *)

\* A step that leaves the queue alone can only do more with its events.
LEMMA CoreKept ==
  ASSUME Core, Types', UNCHANGED <<pending, flush, deferred, forgone>>,
         pc' = pc \/ pc # "flush", \A e \in Lines : e \in Lines', \A e : Out(e) => Out(e)'
  PROVE  Core'
<1>1. FlushOK'
  BY DEF Core, FlushOK, Flushing
<1>2. QueueOK'
  BY DEF Core, QueueOK, Covers, Recorded, Flushing
<1> QED BY <1>1, <1>2 DEF Core

LEMMA OutKept == published' = published => \A e : Out(e)' <=> Out(e)
BY DEF Out

LEMMA LinesKept == log' = log => Lines' = Lines
BY DEF Lines

LEMMA QuietCore ==
  ASSUME Core, Quiet
  PROVE  Core'
<1>1. Types'
  BY DEF Core, Types, Quiet, DataTypes, ghosts
<1>2. \A e : Out(e) => Out(e)'
  BY DEF Quiet, Out
<1> QED BY <1>1, <1>2, CoreKept DEF Quiet, ghosts

LEMMA ExitCore ==
  ASSUME Core, \/ \E state \in {"completed", "failed", "cancelled"} :
                     AdapterExit(state) \/ SessionExit(state)
               \/ AdapterStatus
  PROVE  Core'
<1>1. /\ outcome' \in Outcome /\ status' \in {status, outcome}
      /\ result' \in {result, outcome', NoRecord} /\ apply' = apply
      /\ overtaken' \in BOOLEAN /\ pc # "flush"
      /\ UNCHANGED <<setup, pending, log, published, patch, seen, synth, explicit, flush,
                     emit, emitted, deferred, forgone>>
  <2>1. CASE AdapterStatus
    BY <2>1 DEF AdapterStatus, ghosts, Core, Types
  <2>2. ASSUME NEW state \in {"completed", "failed", "cancelled"}, Exits(state)
        PROVE  outcome' \in Outcome /\ overtaken' \in BOOLEAN /\ pc = "agent"
    BY <2>2 DEF Exits, Outcome, Flushing
  <2>3. ASSUME NEW state \in {"completed", "failed", "cancelled"},
               AdapterExit(state) \/ SessionExit(state)
        PROVE  /\ Exits(state) /\ status' = status /\ apply' = apply
               /\ result' \in {result, outcome', NoRecord}
               /\ UNCHANGED <<setup, pending, log, published, patch, seen, synth, explicit,
                              flush, emit, emitted, deferred, forgone>>
    BY <2>3 DEF AdapterExit, SessionExit, records, ghosts
  <2> QED BY <2>1, <2>2, <2>3
<1>2. Types'
  BY <1>1 DEF Core, Types
<1> QED BY <1>1, <1>2, OutKept, LinesKept, CoreKept

LEMMA DeferCore ==
  ASSUME Core, NEW kind \in Kinds, Defer(kind)
  PROVE  Core'
<1> DEFINE id == emitted + 1
           e == Own(id, kind)
<1>1. /\ pc = "agent" /\ pending' = Append(pending, e) /\ deferred' = deferred \cup {e}
      /\ forgone' = IF \E w \in Flushers : Flushing(w) THEN forgone \cup {e} ELSE forgone
      /\ emitted' = id /\ emitted < MaxEvents
      /\ UNCHANGED <<setup, pc, outcome, status, result, apply, log, published, patch, seen,
                     synth, explicit, flush, emit, overtaken>>
  BY DEF Defer, records
<1>2. id \in 1..MaxEvents /\ id \in Nat
  BY <1>1, SetupAssumption DEF Core, Types
<1> HIDE DEF id
<1>3. e \in OwnEvent
  BY <1>2 DEF OwnEvent
<1> HIDE DEF e
<1>4. pending' \in Seq(OwnEvent) /\ In(pending') = In(pending) \cup {e}
  BY <1>1, <1>3, AppendIn DEF Core, Types
<1>5. Types'
  BY <1>1, <1>2, <1>3, <1>4 DEF Core, Types
<1>6. FlushOK'
  BY <1>1, OutKept DEF Core, FlushOK, Flushing
<1>7. \A x : Recorded(x)' <=> Recorded(x)
  BY <1>1, OutKept, LinesKept DEF Recorded
<1>8. CASE \E w \in Flushers : Flushing(w)
  BY <1>1, <1>4, <1>5, <1>6, <1>7, <1>8 DEF Core, QueueOK, Covers, Flushing
<1>9. CASE ~ \E w \in Flushers : Flushing(w)
  BY <1>1, <1>4, <1>5, <1>6, <1>7, <1>9 DEF Core, QueueOK, Covers, Flushing
<1> QED BY <1>8, <1>9

LEMMA EmitCore ==
  ASSUME Core, (\E kind \in Kinds : EmitRecorded(kind)) \/ EmitPublished
  PROVE  Core'
<1>1. CASE \E kind \in Kinds : EmitRecorded(kind)
  <2>1. PICK kind \in Kinds : EmitRecorded(kind)
    BY <1>1
  <2> DEFINE id == emitted + 1
             e == Own(id, kind)
  <2>2. /\ pc = "agent" /\ emitted' = id /\ emitted < MaxEvents
        /\ emit' = e /\ log' = Logged(emit')
        /\ UNCHANGED <<setup, pc, outcome, status, result, apply, pending, published, patch,
                       seen, synth, explicit, flush, deferred, forgone, overtaken>>
    BY <2>1 DEF EmitRecorded, records, ghosts
  <2>3. id \in 1..MaxEvents /\ id \in Nat
    BY <2>2, SetupAssumption DEF Core, Types
  <2> HIDE DEF id
  <2>4. e \in OwnEvent /\ e \in Event
    BY <2>3, EventsAre DEF OwnEvent
  <2> HIDE DEF e
  <2>5. log' \in [Event -> 0..Several] /\ Lines' = Lines \cup {e}
    BY <2>2, <2>4, LoggedIs DEF Core, Types
  <2>6. Types'
    BY <2>2, <2>3, <2>4, <2>5 DEF Core, Types
  <2> QED BY <2>2, <2>5, <2>6, OutKept, CoreKept
<1>2. CASE EmitPublished
  <2>1. PICK ok \in BOOLEAN : Publish(emit, "agent", ok)
    BY <1>2 DEF EmitPublished
  <2>2. /\ emit # NoEvent /\ emit' = NoEvent
        /\ UNCHANGED <<setup, pc, outcome, status, result, apply, pending, log, patch, seen,
                       synth, explicit, flush, emitted, deferred, forgone, overtaken>>
    BY <1>2 DEF EmitPublished, records, ghosts
  <2>3. emit \in Event /\ published \subseteq Message
    BY <2>2, EventsAre DEF Core, Types
  <2>4. published' \subseteq Message /\ \A x : Out(x) => Out(x)'
    BY <2>1, <2>3, PublishIs
  <2>5. Types'
    BY <2>2, <2>4 DEF Core, Types
  <2> QED BY <2>2, <2>4, <2>5, LinesKept, CoreKept
<1> QED BY <1>1, <1>2

LEMMA GiveUpCore ==
  ASSUME Core, OperatorDiscards \/ OperatorDies \/ FinalizerDies
  PROVE  Core'
<1>1. CASE OperatorDiscards
  <2>1. /\ pending' = <<>> /\ forgone' = forgone \cup In(pending) /\ overtaken' \in BOOLEAN
        /\ UNCHANGED <<setup, pc, outcome, status, result, apply, log, published, patch, seen,
                       synth, explicit, flush, emit, emitted, deferred>>
    BY <1>1 DEF OperatorDiscards, records, Finishing, Core, Types
  <2>2. Types'
    BY <2>1 DEF Core, Types
  <2>3. FlushOK'
    BY <2>1, OutKept DEF Core, FlushOK, Flushing
  <2>4. \A x : Recorded(x)' <=> Recorded(x)
    BY <2>1, OutKept, LinesKept DEF Recorded
  <2>5. QueueOK'
    BY <2>1, <2>4 DEF Core, QueueOK, Covers, Flushing
  <2> QED BY <2>2, <2>3, <2>5 DEF Core
<1>2. CASE OperatorDies \/ FinalizerDies
  <2>1. PICK w \in Flushers :
            /\ flush' = [flush EXCEPT ![w] = NotFlushing] /\ forgone' = forgone \cup Torn(w)
            /\ pc' = pc \/ w = "finalizer"
            /\ UNCHANGED <<setup, outcome, status, result, apply, pending, log, published,
                           patch, seen, synth, explicit, emit, emitted, deferred, overtaken>>
    BY <1>2 DEF OperatorDies, FinalizerDies, records, Flushers
  <2>2. NotFlushing \in Progress /\ NotFlushing.at = "idle"
    BY DEF NotFlushing, Progress
  <2>3. /\ flush' \in [Flushers -> Progress] /\ flush'[w] = NotFlushing
        /\ \A v \in Flushers : v # w => flush'[v] = flush[v]
    BY <2>1, <2>2 DEF Core, Types
  <2>4. Types'
    BY <2>1, <2>3 DEF Core, Types
  <2>5. FlushOK'
    BY <2>1, <2>2, <2>3, OutKept DEF Core, FlushOK, Flushing, Flushers
  <2>6. \A x : Recorded(x)' <=> Recorded(x)
    BY <2>1, OutKept, LinesKept DEF Recorded
  <2>7. \A v \in Flushers : Flushing(v)' => Covers(In(flush[v].rest))'
    BY <2>1, <2>2, <2>3, <2>6 DEF Core, QueueOK, Covers, Flushing
  <2>8. Covers(In(pending))' \/ \E v \in Flushers : flush'[v].at = "write"
    <3>1. CASE flush[w].at = "write"
      BY <2>1, <2>6, <3>1 DEF Core, QueueOK, Covers, Torn, Flushing
    <3>2. CASE flush[w].at # "write"
      BY <2>1, <2>3, <2>6, <3>2 DEF Core, QueueOK, Covers
    <3> QED BY <3>1, <3>2
  <2>9. QueueOK'
    BY <2>3, <2>7, <2>8 DEF QueueOK
  <2> QED BY <2>4, <2>5, <2>9 DEF Core
<1> QED BY <1>1, <1>2

\* One step of a flush: w's progress becomes p.
LEMMA FlushCore ==
  ASSUME Core, NEW w \in Flushers, NEW at, FlushStep(w, at), NEW p \in Progress,
         flush' = [flush EXCEPT ![w] = p],
         pending' \in Seq(OwnEvent), log' \in [Event -> 0..Several], published' \subseteq Message,
         pc' = pc \/ (w = "finalizer" /\ p.at = "idle"),
         w = "finalizer" => pc = "flush",
         \A e \in Lines : e \in Lines', \A e : Out(e) => Out(e)',
         \A e \in forgone : e \in forgone',
         p.at \in {"publish", "record", "write"} => p.rest # <<>>,
         p.at = "record" => Out(Head(p.rest))',
         p.at # "idle" => Covers(In(p.rest))',
         Covers(In(pending))' \/ (pending' = pending /\ flush[w].at # "write") \/ p.at = "write"
  PROVE  Core'
<1>1. /\ flush' \in [Flushers -> Progress] /\ flush'[w] = p
      /\ \A v \in Flushers : v # w => flush'[v] = flush[v]
  BY DEF Core, Types
<1>2. /\ overtaken' \in BOOLEAN
      /\ UNCHANGED <<setup, outcome, status, result, apply, patch, seen, synth, explicit,
                     emit, emitted, deferred>>
  BY DEF FlushStep, records, Finishing, Core, Types
<1>3. Types'
  BY <1>1, <1>2 DEF Core, Types
<1>4. FlushOK'
  BY <1>1 DEF Core, FlushOK, Flushing, Flushers
<1>5. \A e : Recorded(e) => Recorded(e)'
  BY DEF Recorded
<1>6. \A S : Covers(S) => Covers(S)'
  BY <1>2, <1>5 DEF Covers
<1>7. \A v \in Flushers : Flushing(v)' => Covers(In(flush[v].rest))'
  <2> SUFFICES ASSUME NEW v \in Flushers, v # w, Flushing(v)'
               PROVE  Covers(In(flush[v].rest))'
    BY <1>1 DEF Flushing, Covers
  <2>1. flush'[v] = flush[v] /\ Covers(In(flush[v].rest))
    BY <1>1 DEF Core, QueueOK, Flushing
  <2> QED BY <1>2, <1>5, <2>1 DEF Covers
<1>8. Covers(In(pending))' \/ \E v \in Flushers : flush'[v].at = "write"
  <2>1. CASE pending' = pending /\ flush[w].at # "write"
    BY <1>1, <1>2, <1>5, <2>1 DEF Core, QueueOK, Covers
  <2> QED BY <1>1, <2>1
<1> QED BY <1>3, <1>4, <1>7, <1>8 DEF Core, QueueOK

LEMMA HeldIs ==
  ASSUME Core, NEW w \in Flushers, flush[w].at # "idle"
  PROVE  /\ flush[w] \in Progress /\ flush[w].rest \in Seq(OwnEvent)
         /\ In(flush[w].rest) \subseteq OwnEvent
         /\ Covers(In(flush[w].rest))
         /\ w = "finalizer" => pc = "flush"
         /\ flush[w].at \in {"publish", "record", "write"} => flush[w].rest # <<>>
         /\ flush[w].at = "record" => Out(Head(flush[w].rest))
<1>1. flush[w] \in Progress
  BY DEF Core, Types
<1>2. flush[w].rest \in Seq(OwnEvent)
  BY <1>1 DEF Progress
<1> QED BY <1>1, <1>2, InIs DEF Core, QueueOK, FlushOK, Flushing

LEMMA EndsIs ==
  ASSUME NEW w \in Flushers, NEW ok \in BOOLEAN, FlushEnds(w, ok)
  PROVE  /\ NotFlushing \in Progress /\ NotFlushing.at = "idle"
         /\ flush' = [flush EXCEPT ![w] = NotFlushing]
         /\ pc' = pc \/ w = "finalizer"
<1>1. <<>> \in Seq(OwnEvent)
  OBVIOUS
<1> QED BY <1>1 DEF FlushEnds, NotFlushing, Progress

LEMMA FlushReadCore ==
  ASSUME Core, NEW w \in Flushers, FlushRead(w)
  PROVE  Core'
<1>1. /\ FlushStep(w, "idle") /\ flush[w].at = "idle" /\ (w = "finalizer" => pc = "flush")
      /\ UNCHANGED <<pending, log, published>>
      /\ pending' \in Seq(OwnEvent) /\ log' \in [Event -> 0..Several] /\ published' \subseteq Message
  BY DEF FlushRead, FlushStep, MayFlush, Core, Types
<1>2. (\A e \in Lines : e \in Lines') /\ (\A e : Out(e) => Out(e)')
  BY <1>1, OutKept, LinesKept
<1>3. CASE pending = <<>>
  <2>1. FlushEnds(w, TRUE) /\ UNCHANGED forgone
    BY <1>3 DEF FlushRead
  <2> QED BY <1>1, <1>2, <2>1, EndsIs, FlushCore
<1>4. CASE pending # <<>>
  <2>0. PICK p : p = [at |-> "publish", rest |-> pending]
    OBVIOUS
  <2>1. /\ flush' = [flush EXCEPT ![w] = p] /\ UNCHANGED pc
        /\ forgone' = forgone \cup UNION {Torn(v) : v \in Flushers}
    BY <1>4, <2>0 DEF FlushRead
  <2>2. p \in Progress /\ p.at = "publish" /\ p.rest = pending
    BY <2>0 DEF Progress, Core, Types
  <2>3. \A e : Recorded(e) => Recorded(e)'
    BY <1>2 DEF Recorded
  <2>4. deferred' = deferred
    BY <1>1 DEF FlushStep
  <2>5. Covers(In(pending))'
    <3>1. CASE Covers(In(pending))
      BY <1>1, <2>1, <2>3, <2>4, <3>1 DEF Covers
    <3>2. CASE \E v \in Flushers : flush[v].at = "write"
      <4>1. PICK v \in Flushers : flush[v].at = "write"
        BY <3>2
      <4>2. Covers(In(flush[v].rest)) /\ Torn(v) = In(flush[v].rest)
        BY <4>1, HeldIs DEF Torn
      <4>3. \A e \in Torn(v) : e \in forgone'
        BY <2>1
      <4> QED BY <2>1, <2>3, <2>4, <4>2, <4>3 DEF Covers
    <3> QED BY <3>1, <3>2 DEF Core, QueueOK
  <2>6. Covers(In(p.rest))'
    BY <1>1, <2>2, <2>5 DEF Covers
  <2> QED BY <1>1, <1>2, <1>4, <2>1, <2>2, <2>5, <2>6, FlushCore
<1> QED BY <1>3, <1>4

LEMMA FlushPublishCore ==
  ASSUME Core, NEW w \in Flushers, FlushPublish(w)
  PROVE  Core'
<1>1. /\ FlushStep(w, "publish") /\ flush[w].at = "publish"
      /\ UNCHANGED <<pending, log, forgone>>
      /\ pending' \in Seq(OwnEvent) /\ log' \in [Event -> 0..Several]
  BY DEF FlushPublish, FlushStep, Core, Types
<1>2. PICK ok \in BOOLEAN :
          /\ Publish(Head(flush[w].rest), w, ok)
          /\ IF ok THEN flush' = [flush EXCEPT ![w].at = "record"] /\ UNCHANGED pc
             ELSE FlushEnds(w, FALSE)
  BY DEF FlushPublish
<1>3. PICK p : p = [at |-> "record", rest |-> flush[w].rest]
  OBVIOUS
<1>4. /\ p \in Progress /\ p.at = "record" /\ p.rest = flush[w].rest /\ p.rest # <<>>
      /\ Head(p.rest) \in Event /\ w \in {"agent", "finalizer", "operator"}
  BY <1>1, <1>3, HeldIs, HeadTail, EventsAre DEF Progress, Flushers
<1>5. /\ published' \subseteq Message /\ \A e : Out(e) => Out(e)'
      /\ ok => Out(Head(p.rest))'
  <2>1. Publish(Head(p.rest), w, ok) /\ published \subseteq Message
    BY <1>2, <1>4 DEF Core, Types
  <2> QED BY <1>4, <2>1, PublishIs
<1>6. \A e \in Lines : e \in Lines'
  BY <1>1, LinesKept
<1>7. CASE ok
  <2>1. flush' = [flush EXCEPT ![w] = p] /\ UNCHANGED pc
    BY <1>1, <1>2, <1>3, <1>7, HeldIs DEF Progress, Core, Types
  <2>2. Covers(In(flush[w].rest)) /\ deferred' = deferred
    BY <1>1, HeldIs DEF FlushStep
  <2>3. Covers(In(p.rest))'
    BY <1>1, <1>4, <1>5, <1>6, <2>2 DEF Covers, Recorded
  <2> QED BY <1>1, <1>4, <1>5, <1>6, <1>7, <2>1, <2>3, HeldIs, FlushCore
<1>8. CASE ~ ok
  <2>1. FlushEnds(w, FALSE)
    BY <1>2, <1>8
  <2> QED BY <1>1, <1>5, <1>6, <2>1, HeldIs, EndsIs, FlushCore
<1> QED BY <1>7, <1>8

LEMMA FlushRecordCore ==
  ASSUME Core, NEW w \in Flushers, FlushRecord(w)
  PROVE  Core'
<1>1. /\ FlushStep(w, "record") /\ flush[w].at = "record"
      /\ UNCHANGED <<pc, pending, published, forgone>>
      /\ log' = Logged(Head(flush[w].rest))
      /\ flush' = [flush EXCEPT ![w] = [at |-> "rewrite", rest |-> Tail(flush[w].rest)]]
      /\ pending' \in Seq(OwnEvent) /\ published' \subseteq Message
  BY DEF FlushRecord, FlushStep, Core, Types
<1>2. PICK p, h : p = [at |-> "rewrite", rest |-> Tail(flush[w].rest)] /\ h = Head(flush[w].rest)
  OBVIOUS
<1>3. /\ h \in OwnEvent /\ Tail(flush[w].rest) \in Seq(OwnEvent)
      /\ In(flush[w].rest) = In(Tail(flush[w].rest)) \cup {h}
  BY <1>1, <1>2, HeldIs, HeadTail
<1>4. p \in Progress /\ p.at = "rewrite" /\ p.rest = Tail(flush[w].rest)
  BY <1>2, <1>3 DEF Progress
<1>5. log' \in [Event -> 0..Several] /\ Lines' = Lines \cup {h}
  BY <1>1, <1>2, <1>3, EventsAre, LoggedIs DEF Core, Types
<1>6. \A e : Out(e) => Out(e)'
  BY <1>1, OutKept
<1>7. Recorded(h)' /\ \A e : Recorded(e) => Recorded(e)'
  BY <1>1, <1>2, <1>5, <1>6, HeldIs DEF Recorded
<1>8. Covers(In(p.rest))'
  <2>1. Covers(In(flush[w].rest)) /\ deferred' = deferred
    BY <1>1, HeldIs DEF FlushStep
  <2> QED BY <1>1, <1>3, <1>4, <1>7, <2>1 DEF Covers
<1>9. flush' = [flush EXCEPT ![w] = p]
  BY <1>1, <1>2
<1> QED BY <1>1, <1>4, <1>5, <1>6, <1>8, <1>9, HeldIs, FlushCore

LEMMA FlushWriteCore ==
  ASSUME Core, NEW w \in Flushers,
         FlushRecordFails(w) \/ FlushRewrite(w) \/ FlushWrite(w)
  PROVE  Core'
<1>1. /\ UNCHANGED <<log, published, forgone>> /\ flush[w].at # "idle"
      /\ log' \in [Event -> 0..Several] /\ published' \subseteq Message /\ <<>> \in Seq(OwnEvent)
      /\ deferred' = deferred
  <2>1. <<>> \in Seq(OwnEvent)
    OBVIOUS
  <2>2. /\ UNCHANGED <<log, published, forgone, deferred>> /\ flush[w].at # "idle"
    BY DEF FlushRecordFails, FlushRewrite, FlushWrite, FlushStep
  <2> QED BY <2>1, <2>2 DEF Core, Types
<1>2. (\A e \in Lines : e \in Lines') /\ (\A e : Out(e) => Out(e)')
  BY <1>1, OutKept, LinesKept
<1>3. \A e : Recorded(e) => Recorded(e)'
  BY <1>2 DEF Recorded
<1>4. CASE FlushRecordFails(w)
  <2>1. FlushStep(w, "record") /\ FlushEnds(w, FALSE) /\ UNCHANGED pending
        /\ flush[w].at = "record" /\ pending' \in Seq(OwnEvent)
    BY <1>4 DEF FlushRecordFails, FlushStep, Core, Types
  <2> QED BY <1>1, <1>2, <2>1, HeldIs, EndsIs, FlushCore
<1>5. CASE FlushRewrite(w)
  <2>1. FlushStep(w, "rewrite") /\ pending' = <<>> /\ Covers(In(flush[w].rest))
    BY <1>1, <1>5, HeldIs DEF FlushRewrite
  <2>2. CASE flush[w].rest = <<>>
    <3>1. FlushEnds(w, TRUE)
      BY <1>5, <2>2 DEF FlushRewrite
    <3>2. Covers(In(pending))'
      BY <1>1, <1>3, <2>1, <2>2 DEF Covers
    <3> QED BY <1>1, <1>2, <2>1, <3>1, <3>2, HeldIs, EndsIs, FlushCore
  <2>3. CASE flush[w].rest # <<>>
    <3>1. PICK p : p = [at |-> "write", rest |-> flush[w].rest]
      OBVIOUS
    <3>2. flush' = [flush EXCEPT ![w] = p] /\ UNCHANGED pc
      BY <1>1, <1>5, <2>3, <3>1, HeldIs DEF FlushRewrite, Progress, Core, Types
    <3>3. p \in Progress /\ p.at = "write" /\ p.rest = flush[w].rest
      BY <1>1, <3>1, HeldIs DEF Progress
    <3>4. Covers(In(p.rest))'
      BY <1>1, <1>3, <2>1, <3>3 DEF Covers
    <3> QED BY <1>1, <1>2, <2>1, <2>3, <3>2, <3>3, <3>4, HeldIs, FlushCore
  <2> QED BY <2>2, <2>3
<1>6. CASE FlushWrite(w)
  <2>1. /\ FlushStep(w, "write") /\ flush[w].at = "write" /\ pending' = flush[w].rest
        /\ Covers(In(flush[w].rest)) /\ UNCHANGED pc
    BY <1>1, <1>6, HeldIs DEF FlushWrite, FlushStep
  <2>2. PICK p : p = [at |-> "publish", rest |-> flush[w].rest]
    OBVIOUS
  <2>3. flush' = [flush EXCEPT ![w] = p]
    <3>1. flush[w] \in Progress /\ flush \in [Flushers -> Progress]
      BY <1>1, HeldIs DEF Core, Types
    <3>2. flush' = [flush EXCEPT ![w].at = "publish"]
      BY <1>6 DEF FlushWrite
    <3>3. [flush[w] EXCEPT !.at = "publish"] = p
      BY <2>2, <3>1 DEF Progress
    <3> QED BY <3>2, <3>3
  <2>4. p \in Progress /\ p.at = "publish" /\ p.rest = flush[w].rest /\ p.rest # <<>>
        /\ pending' \in Seq(OwnEvent)
    BY <1>1, <2>1, <2>2, HeldIs DEF Progress
  <2>5. Covers(In(p.rest))' /\ Covers(In(pending))'
    BY <1>1, <1>3, <2>1, <2>4 DEF Covers
  <2> QED BY <1>1, <1>2, <2>1, <2>3, <2>4, <2>5, HeldIs, FlushCore
<1> QED BY <1>4, <1>5, <1>6

LEMMA FlushStepCore ==
  ASSUME Core, NEW w \in Flushers, Flush(w)
  PROVE  Core'
BY FlushReadCore, FlushPublishCore, FlushRecordCore, FlushWriteCore DEF Flush

LEMMA NextCore == Core /\ [Next]_vars => Core'
<1> SUFFICES ASSUME Core, [Next]_vars PROVE Core'
  OBVIOUS
<1>1. CASE Agent
  BY <1>1, DeferCore, EmitCore, ExitCore DEF Agent
<1>2. CASE \E w \in Flushers : Flush(w)
  BY <1>2, FlushStepCore
<1>3. CASE OperatorDiscards \/ OperatorDies \/ FinalizerDies
  BY <1>3, GiveUpCore
<1>4. CASE Announce \/ Verdicts \/ PublishOutcome
  BY <1>4, QuietSteps, QuietCore DEF Core
<1>5. CASE UNCHANGED vars
  <2>1. Types'
    BY <1>5 DEF vars, records, ghosts, Core, Types
  <2> QED BY <1>5, <2>1, OutKept, LinesKept, CoreKept DEF vars, ghosts
<1> QED BY <1>1, <1>2, <1>3, <1>4, <1>5 DEF Next

LEMMA InitCore == Init => Core
<1> SUFFICES ASSUME Init PROVE Core
  OBVIOUS
<1>1. NotFlushing \in Progress /\ NotFlushing.at = "idle"
  <2>1. <<>> \in Seq(OwnEvent)
    OBVIOUS
  <2> QED BY <2>1 DEF NotFlushing, Progress
<1>2. Types
  <2>1. setup \in Setup
    BY SetupAssumption DEF Init
  <2>2. outcome \in Outcome /\ status \in Outcome /\ result \in Outcome \cup {NoRecord}
    BY DEF Init, Outcome
  <2>3. pending \in Seq(OwnEvent) /\ synth \in Seq(Synthesized)
    <3>1. <<>> \in Seq(OwnEvent) /\ <<>> \in Seq(Synthesized)
      OBVIOUS
    <3> QED BY <3>1 DEF Init
  <2>4. log \in [Event -> 0..Several] /\ flush \in [Flushers -> Progress]
    <3>1. 0 \in 0..Several
      BY DEF Several
    <3>2. log \in [Event -> 0..Several]
      BY <3>1 DEF Init
    <3> QED BY <1>1, <3>2 DEF Init
  <2> QED BY <2>1, <2>2, <2>3, <2>4 DEF Init, Types
<1>3. FlushOK /\ QueueOK
  <2>1. \A w \in Flushers : flush[w] = NotFlushing
    BY DEF Init
  <2>2. "finalizer" \in Flushers
    BY DEF Flushers
  <2>3. deferred = {}
    BY DEF Init
  <2> QED BY <1>1, <2>1, <2>2, <2>3 DEF FlushOK, QueueOK, Covers, Flushing
<1> QED BY <1>2, <1>3 DEF Core

-----------------------------------------------------------------------------
(* The outcome records *)

\* Where the two records stand at each step of the finalizer.
Synced == status = outcome /\ result = outcome
Behind == outcome.state = "failed" /\ status = result /\ status.state = "completed"
Halfway == outcome.state = "failed" /\ status = outcome /\ result.state = "completed" /\ apply
Written == result \in {outcome, NoRecord} /\ (status.state = "running" \/ status = outcome)

SessionRecords ==
    /\ result = NoRecord
    /\ \/ /\ pc \in {"agent", "flush", "artifacts", "announced", "announce", "recordBatch", "close"}
          /\ status.state = "running"
       \/ /\ pc \in {"reread", "explicit", "publish", "attempt", "send", "confirm", "done", "aborted"}
          /\ status = outcome
       \/ pc = "dead" /\ Written

RunRecords ==
    \/ pc = "agent" /\ status.state = "running" /\ result = NoRecord
    \/ pc = "adapterStatus" /\ status.state = "running" /\ result \in {outcome, NoRecord}
    \/ pc = "record" /\ status = outcome /\ result \in {outcome, NoRecord}
    \/ /\ pc \in {"gate", "flush", "artifacts", "announced", "announce", "recordBatch", "reject",
                  "events", "summary", "contract", "explicit", "publish", "attempt", "send",
                  "confirm", "done", "aborted"}
       /\ Synced
    \/ pc \in {"gateStatus", "summaryStatus", "contractStatus"} /\ Behind
    \/ pc \in {"gateResult", "summaryResult", "contractResult"} /\ Halfway
    \/ pc = "dead" /\ (Written \/ Behind \/ Halfway)

RecordsOK == IF setup.mode = "session" THEN SessionRecords ELSE RunRecords

LEMMA NoRecordIs == NoRecord.state = "absent"
BY DEF NoRecord

LEMMA RecordsKept ==
  ASSUME RecordsOK, UNCHANGED <<setup, pc, outcome, status, result, apply>>
  PROVE  RecordsOK'
BY DEF RecordsOK, SessionRecords, RunRecords, Synced, Behind, Halfway, Written

LEMMA RecordsOfAgent ==
  ASSUME Types, RecordsOK, Agent
  PROVE  RecordsOK'
<1>1. CASE (\E kind \in Kinds : Defer(kind) \/ EmitRecorded(kind)) \/ EmitPublished
  BY <1>1, RecordsKept DEF Defer, EmitRecorded, EmitPublished, records
<1>2. CASE \E state \in {"completed", "failed", "cancelled"} : AdapterExit(state)
  BY <1>2 DEF AdapterExit, Exits, RecordsOK, SessionRecords, RunRecords, Synced
<1>3. CASE \E state \in {"completed", "failed", "cancelled"} : SessionExit(state)
  BY <1>3 DEF SessionExit, Exits, RecordsOK, SessionRecords, RunRecords, records
<1>4. CASE AdapterStatus
  BY <1>4 DEF AdapterStatus, RecordsOK, SessionRecords, RunRecords, Synced
<1> QED BY <1>1, <1>2, <1>3, <1>4 DEF Agent

\* A flush moves the finalizer on only when it waits for it.
LEMMA FlushMoves ==
  ASSUME Core, NEW w \in Flushers, Flush(w)
  PROVE  /\ UNCHANGED <<setup, outcome, status, result, apply, patch, seen, synth, explicit,
                        emit, emitted, deferred>>
         /\ \/ pc' = pc
            \/ /\ w = "finalizer" /\ pc = "flush"
               /\ pc' \in {"artifacts", "aborted"}
               /\ pc' = "aborted" => setup.mode # "session"
<1>1. UNCHANGED <<setup, outcome, status, result, apply, patch, seen, synth, explicit,
                  emit, emitted, deferred>>
  BY DEF Flush, FlushRead, FlushPublish, FlushRecord, FlushRecordFails, FlushRewrite,
     FlushWrite, FlushStep, records
<1>2. pc' = pc \/ \E ok \in BOOLEAN : FlushEnds(w, ok)
  BY DEF Flush, FlushRead, FlushPublish, FlushRecord, FlushRecordFails, FlushRewrite,
     FlushWrite
<1>3. w = "finalizer" => pc = "flush"
  <2>1. FlushRead(w) \/ flush[w].at # "idle"
    BY DEF Flush, FlushRead, FlushPublish, FlushRecord, FlushRecordFails, FlushRewrite,
       FlushWrite, FlushStep
  <2> QED BY <2>1 DEF FlushRead, MayFlush, Core, FlushOK, Flushing
<1>4. ASSUME NEW ok \in BOOLEAN, FlushEnds(w, ok), pc' # pc
      PROVE  /\ w = "finalizer" /\ pc' \in {"artifacts", "aborted"}
             /\ pc' = "aborted" => setup.mode # "session"
  BY <1>4 DEF FlushEnds, AfterFlush
<1> QED BY <1>1, <1>2, <1>3, <1>4

LEMMA RecordsOfQueue ==
  ASSUME Core, RecordsOK,
         (\E w \in Flushers : Flush(w)) \/ OperatorDiscards \/ OperatorDies \/ FinalizerDies
  PROVE  RecordsOK'
<1>1. CASE \E w \in Flushers : Flush(w)
  <2>1. PICK w \in Flushers : Flush(w)
    BY <1>1
  <2> QED BY <2>1, FlushMoves DEF RecordsOK, SessionRecords, RunRecords, Synced, Behind,
             Halfway, Written
<1>2. CASE OperatorDiscards \/ OperatorDies
  BY <1>2, RecordsKept DEF OperatorDiscards, OperatorDies, records
<1>3. CASE FinalizerDies
  BY <1>3 DEF FinalizerDies, records, RecordsOK, SessionRecords, RunRecords, Synced, Behind,
     Halfway, Written
<1> QED BY <1>1, <1>2, <1>3

LEMMA RecordsOfAnnounce ==
  ASSUME Types, RecordsOK, Announce
  PROVE  RecordsOK'
<1>1. UNCHANGED <<setup, outcome, status, result, apply>>
  BY DEF Announce, ArtifactsPending, ArtifactsLogged, AnnounceArtifacts, RecordArtifacts,
     Step, records
<1>2. /\ pc \in {"artifacts", "announced", "announce", "recordBatch"}
      /\ pc' \in {"announced", "announce", "recordBatch", Remembered, AfterArtifacts(FALSE)}
  BY DEF Announce, ArtifactsPending, ArtifactsLogged, AnnounceArtifacts, RecordArtifacts,
     Step, AfterArtifacts
<1> QED BY <1>1, <1>2 DEF Remembered, AfterArtifacts, RecordsOK, SessionRecords, RunRecords,
           Synced

LEMMA RecordsOfVerdicts ==
  ASSUME Types, RecordsOK, Verdicts
  PROVE  RecordsOK'
<1>1. CASE EnsureResultRecord
  BY <1>1 DEF EnsureResultRecord, Step, RecordsOK, SessionRecords, RunRecords, Synced
<1>2. CASE CheckGate
  BY <1>2, FailsIs DEF CheckGate, Step, records, Completed, RecordsOK, SessionRecords,
     RunRecords, Synced, Behind
<1>3. CASE RequireSummary
  BY <1>3, FailsIs DEF RequireSummary, Step, records, Completed, RecordsOK, SessionRecords,
     RunRecords, Synced, Behind
<1>4. CASE EnforceContract
  BY <1>4, FailsIs DEF EnforceContract, Step, records, Completed, RecordsOK, SessionRecords,
     RunRecords, Synced, Behind
<1>5. ASSUME NEW from \in {"gateStatus", "summaryStatus", "contractStatus"},
             NEW to \in {"gateResult", "summaryResult", "contractResult"},
             ReconcileStatus(from, to)
      PROVE  RecordsOK'
  BY <1>5 DEF ReconcileStatus, Step, RecordedPrimaryFailure, RecordsOK, SessionRecords,
     RunRecords, Behind, Halfway
<1>6. ASSUME NEW from \in {"gateResult", "summaryResult", "contractResult"},
             NEW to \in {"reject", "contract", "explicit"}, ReconcileResult(from, to)
      PROVE  RecordsOK'
  <2>1. /\ pc = from /\ pc' = to /\ UNCHANGED <<setup, outcome, status, apply>>
        /\ result' = IF apply /\ result # NoRecord THEN outcome ELSE result
    BY <1>6 DEF ReconcileResult, Step
  <2>2. setup.mode # "session" /\ Halfway
    BY <2>1 DEF RecordsOK, SessionRecords, RunRecords
  <2>3. result' = outcome
    <3>1. result.state = "completed"
      BY <2>2 DEF Halfway
    <3>2. result # NoRecord
      BY <3>1, NoRecordIs
    <3>3. apply
      BY <2>2 DEF Halfway
    <3> QED BY <2>1, <3>2, <3>3
  <2>4. status' = outcome' /\ result' = outcome' /\ pc' \in {"reject", "contract", "explicit"}
        /\ setup' = setup
    BY <2>1, <2>2, <2>3 DEF Halfway
  <2> QED BY <2>2, <2>4 DEF RecordsOK, RunRecords, Synced
<1>7. CASE RejectRun \/ ReadEvents
  BY <1>7 DEF RejectRun, ReadEvents, Step, records, RecordsOK, SessionRecords, RunRecords,
     Synced
<1>8. CASE CloseSession
  BY <1>8 DEF CloseSession, Step, RecordsOK, SessionRecords, RunRecords
<1> QED BY <1>1, <1>2, <1>3, <1>4, <1>5, <1>6, <1>7, <1>8 DEF Verdicts

LEMMA RecordsOfPublish ==
  ASSUME Types, RecordsOK, PublishOutcome
  PROVE  RecordsOK'
<1>1. UNCHANGED <<setup, outcome, status, result, apply>>
  BY DEF PublishOutcome, RereadEvents, OwnProposal, PublishSynthesized, Archive, MarkAttempt,
     SendPatch, ConfirmPatch, Step, records
<1>2. /\ pc \in {"reread", "explicit", "publish", "attempt", "send", "confirm"}
      /\ pc' \in {"explicit", "publish", "attempt", "send", "confirm", "done", "aborted"}
  BY DEF PublishOutcome, RereadEvents, OwnProposal, PublishSynthesized, Archive, MarkAttempt,
     SendPatch, ConfirmPatch, Step
<1> QED BY <1>1, <1>2 DEF RecordsOK, SessionRecords, RunRecords, Synced

LEMMA NextRecords ==
  ASSUME Core, RecordsOK, [Next]_vars
  PROVE  RecordsOK'
<1>1. CASE UNCHANGED vars
  BY <1>1, RecordsKept DEF vars, records
<1> QED BY <1>1, RecordsOfAgent, RecordsOfQueue, RecordsOfAnnounce, RecordsOfVerdicts,
           RecordsOfPublish DEF Next, Core

LEMMA InitRecords ==
  ASSUME Init
  PROVE  RecordsOK
<1>1. pc = "agent" /\ status.state = "running" /\ result = NoRecord
  BY DEF Init
<1> QED BY <1>1 DEF RecordsOK, SessionRecords, RunRecords

\* What the two records are read as in each of these situations.
LEMMA RecordsRead ==
  ASSUME Types, RecordsOK
  PROVE  OutcomeFailsClosed
<1>1. status.state \in {"running", "completed", "failed", "cancelled"}
      /\ result.state \in {"running", "completed", "failed", "cancelled", "absent"}
  BY NoRecordIs DEF Types, Outcome
<1>2. ASSUME NEW readable \in BOOLEAN, ReadsAs(readable) = "completed"
      PROVE  /\ status.state \notin {"failed", "cancelled"}
             /\ result.state \notin {"failed", "cancelled"}
             /\ status.state = "completed" /\ result.state \in {"completed", "absent"}
  BY <1>1, <1>2 DEF ReadsAs, ProjectRunOutcome, Terminal, FailClosed, Conflict
<1>3. pc = "done" => status = outcome
  BY DEF RecordsOK, SessionRecords, RunRecords, Synced
<1>4. ASSUME NEW readable \in BOOLEAN, outcome.state = "failed", outcome \in {status, result}
      PROVE  ReadsAs(readable) = "failed"
  <2>1. \/ status.state = "failed" /\ result.state \in {"failed", "absent", "completed"}
        \/ status.state = "running" /\ result.state = "failed"
    BY <1>1, <1>4, NoRecordIs DEF RecordsOK, SessionRecords, RunRecords, Synced, Behind,
       Halfway, Written
  <2> QED BY <2>1 DEF ReadsAs, ProjectRunOutcome, Terminal, FailClosed, Conflict
<1> DEFINE read == {ReadsAs(readable) : readable \in {setup.mode = "session", TRUE}}
<1>5. {setup.mode = "session", TRUE} \subseteq BOOLEAN
  OBVIOUS
<1>6. "completed" \in read => /\ {status.state, result.state} \cap {"failed", "cancelled"} = {}
                              /\ status.state = "completed"
  BY <1>2, <1>5
<1>7. "completed" \in read /\ pc = "done" => Completed
  BY <1>3, <1>6 DEF Completed
<1>8. outcome.state = "failed" /\ outcome \in {status, result} => read = {"failed"}
  <2>1. TRUE \in {setup.mode = "session", TRUE}
    OBVIOUS
  <2> QED BY <1>4, <1>5, <2>1
<1> QED BY <1>6, <1>7, <1>8 DEF OutcomeFailsClosed

-----------------------------------------------------------------------------
(* What flushes move *)

\* The events a flush has in its hands.
Held(w) == IF Flushing(w) THEN In(flush[w].rest) ELSE {}

LEMMA FlushPlay ==
  ASSUME Core, NEW w \in Flushers, Flush(w)
  PROVE  /\ \A e \in Lines' : e \in Lines \/ e \in Held(w)
         /\ \A e \in In(pending') : e \in In(pending) \/ e \in Held(w)
         /\ \A e \in Held(w)' : e \in Held(w) \/ (~ Flushing(w) /\ e \in In(pending))
         /\ \A v \in Flushers : v # w => Held(v)' = Held(v)
         /\ \A m \in published : m \in published'
         /\ \A m \in published' : m \in published \/ (m.by = w /\ m.event \in Held(w))
<1>1. flush \in [Flushers -> Progress] /\ In(<<>>) = {} /\ NotFlushing.at = "idle"
  BY DEF In, NotFlushing, Core, Types
<1>2. flush[w] \in Progress /\ flush[w].rest \in Seq(OwnEvent)
  BY <1>1 DEF Progress
<1>3. ASSUME NEW p, flush' = [flush EXCEPT ![w] = p]
      PROVE  /\ Held(w)' = IF p.at # "idle" THEN In(p.rest) ELSE {}
             /\ \A v \in Flushers : v # w => Held(v)' = Held(v)
  BY <1>1, <1>3 DEF Held, Flushing, In
<1>4. ASSUME NEW ok \in BOOLEAN, FlushEnds(w, ok)
      PROVE  Held(w)' = {} /\ \A v \in Flushers : v # w => Held(v)' = Held(v)
  <2>1. flush' = [flush EXCEPT ![w] = NotFlushing]
    BY <1>4 DEF FlushEnds
  <2> QED BY <1>1, <1>3, <2>1
<1>5. CASE FlushRead(w)
  <2>1. UNCHANGED <<pending, log, published>> /\ ~ Flushing(w)
    BY <1>5 DEF FlushRead, FlushStep, Flushing
  <2>2. CASE pending = <<>>
    <3>1. FlushEnds(w, TRUE)
      BY <1>5, <2>2 DEF FlushRead
    <3> QED BY <1>4, <2>1, <3>1, LinesKept
  <2>3. CASE pending # <<>>
    <3>1. PICK p : p = [at |-> "publish", rest |-> pending]
      OBVIOUS
    <3>2. flush' = [flush EXCEPT ![w] = p] /\ p.at # "idle" /\ p.rest = pending
      BY <1>5, <2>3, <3>1 DEF FlushRead
    <3> QED BY <1>3, <2>1, <3>2, LinesKept
  <2> QED BY <2>2, <2>3
<1>6. CASE FlushPublish(w)
  <2>1. /\ UNCHANGED <<pending, log>> /\ flush[w].at = "publish" /\ Flushing(w)
        /\ Held(w) = In(flush[w].rest)
    BY <1>6 DEF FlushPublish, FlushStep, Flushing, Held
  <2>2. PICK ok \in BOOLEAN :
            /\ Publish(Head(flush[w].rest), w, ok)
            /\ IF ok THEN flush' = [flush EXCEPT ![w].at = "record"] ELSE FlushEnds(w, FALSE)
    BY <1>6 DEF FlushPublish
  <2>3. PICK h : h = Head(flush[w].rest)
    OBVIOUS
  <2>4. h \in In(flush[w].rest) /\ h \in Event
    BY <1>2, <2>1, <2>3, HeldIs, HeadTail, EventsAre
  <2>5. /\ published \subseteq published'
        /\ \A m \in published' : m \in published \/ (m.event = h /\ m.by = w)
    <3>1. published \subseteq Message /\ w \in {"agent", "finalizer", "operator"}
      BY DEF Core, Types, Flushers
    <3> QED BY <2>2, <2>3, <2>4, <3>1, PublishIs
  <2>6. CASE ok
    <3>1. PICK p : p = [flush[w] EXCEPT !.at = "record"]
      OBVIOUS
    <3>2. flush' = [flush EXCEPT ![w] = p]
      BY <2>2, <2>6, <3>1
    <3>3. p.at # "idle" /\ p.rest = flush[w].rest
      BY <1>2, <3>1 DEF Progress
    <3> QED BY <1>3, <2>1, <2>4, <2>5, <3>2, <3>3, LinesKept
  <2>7. CASE ~ ok
    <3>1. FlushEnds(w, FALSE)
      BY <2>2, <2>7
    <3> QED BY <1>4, <2>1, <2>4, <2>5, <3>1, LinesKept
  <2> QED BY <2>6, <2>7
<1>7. CASE FlushRecord(w)
  <2>1. /\ UNCHANGED <<pending, published>> /\ flush[w].at = "record"
        /\ Held(w) = In(flush[w].rest) /\ log' = Logged(Head(flush[w].rest))
    BY <1>7 DEF FlushRecord, FlushStep, Flushing, Held
  <2>2. PICK p, h : p = [at |-> "rewrite", rest |-> Tail(flush[w].rest)] /\ h = Head(flush[w].rest)
    OBVIOUS
  <2>3. flush' = [flush EXCEPT ![w] = p] /\ p.at # "idle" /\ p.rest = Tail(flush[w].rest)
    BY <1>7, <2>2 DEF FlushRecord
  <2>4. h \in OwnEvent /\ In(flush[w].rest) = In(Tail(flush[w].rest)) \cup {h}
    BY <1>2, <2>1, <2>2, HeldIs, HeadTail
  <2>5. Lines' = Lines \cup {h}
    BY <2>1, <2>2, <2>4, EventsAre, LoggedIs DEF Core, Types
  <2> QED BY <1>3, <2>1, <2>3, <2>4, <2>5
<1>8. CASE FlushRecordFails(w)
  <2>1. UNCHANGED <<pending, log, published>> /\ FlushEnds(w, FALSE)
    BY <1>8 DEF FlushRecordFails
  <2> QED BY <1>4, <2>1, LinesKept
<1>9. CASE FlushRewrite(w)
  <2>1. /\ UNCHANGED <<log, published>> /\ pending' = <<>> /\ Held(w) = In(flush[w].rest)
    BY <1>9 DEF FlushRewrite, FlushStep, Flushing, Held
  <2>2. CASE flush[w].rest = <<>>
    <3>1. FlushEnds(w, TRUE)
      BY <1>9, <2>2 DEF FlushRewrite
    <3> QED BY <1>1, <1>4, <2>1, <3>1, LinesKept
  <2>3. CASE flush[w].rest # <<>>
    <3>1. PICK p : p = [flush[w] EXCEPT !.at = "write"]
      OBVIOUS
    <3>2. flush' = [flush EXCEPT ![w] = p]
      BY <1>9, <2>3, <3>1 DEF FlushRewrite
    <3>3. p.at # "idle" /\ p.rest = flush[w].rest
      BY <1>2, <3>1 DEF Progress
    <3> QED BY <1>1, <1>3, <2>1, <3>2, <3>3, LinesKept
  <2> QED BY <2>2, <2>3
<1>10. CASE FlushWrite(w)
  <2>1. UNCHANGED <<log, published>> /\ pending' = flush[w].rest /\ Held(w) = In(flush[w].rest)
    BY <1>10 DEF FlushWrite, FlushStep, Flushing, Held
  <2>2. PICK p : p = [flush[w] EXCEPT !.at = "publish"]
    OBVIOUS
  <2>3. flush' = [flush EXCEPT ![w] = p]
    BY <1>10, <2>2 DEF FlushWrite
  <2>4. p.at # "idle" /\ p.rest = flush[w].rest
    BY <1>2, <2>2 DEF Progress
  <2> QED BY <1>3, <2>1, <2>3, <2>4, LinesKept
<1> QED BY <1>5, <1>6, <1>7, <1>8, <1>9, <1>10 DEF Flush

-----------------------------------------------------------------------------
(* What leaves a run *)

Proposal == Platform("patch")
Rejection == Platform("rejection")
Starting == {"agent", "adapterStatus", "record", "gate"}
Archiving == {"attempt", "send", "confirm"}
Final == {"done", "aborted", "dead"}

\* A proposal is archived of a completed run only, and last.
PatchOK ==
    /\ patch # "none" => outcome.state = "completed" /\ pc \in Archiving \cup Final
    /\ pc \in Archiving => patch # "none"
    /\ Out(Proposal) => patch # "none"
    /\ setup.broker =>
          /\ patch = "published" => Out(Proposal)
          /\ Out(Proposal) => patch \in {"unconfirmed", "published"}
          /\ pc = "send" => patch = "unconfirmed"
          /\ pc = "confirm" => Out(Proposal)

\* Before the gate nothing was sent; after a rejection, the rejection alone.
SilentOK ==
    /\ pc \in Starting => /\ synth = <<>> /\ outcome.reason # "checks_failed"
                          /\ \A m \in published : m.by # "finalizer"
    /\ outcome.reason = "checks_failed" =>
          /\ outcome.state = "failed"
          /\ pc \in {"gateStatus", "gateResult", "reject", "events", "summary", "contract",
                     "explicit", "publish"} \cup Final
          /\ In(synth) \subseteq {Rejection}
          /\ \A m \in published : m.by = "finalizer" => m.event = Rejection

SentOK == PatchOK /\ SilentOK

LEMMA ProposalIs ==
  /\ Proposal.id = 0 /\ Rejection.id = 0 /\ Proposal # Rejection
  /\ Proposal # Platform("artifact") /\ Proposal # Platform("summary")
  /\ Rejection = Platform("rejection")
BY DEF Proposal, Rejection, Platform

\* Nobody but the finalizer sends the platform's events.
LEMMA SentKept ==
  ASSUME SentOK, UNCHANGED <<setup, outcome, patch, synth>>,
         pc' = pc \/ pc' \in Final \/ (pc' \notin Starting \cup Archiving /\ outcome.reason # "checks_failed"),
         pc' \in Starting \cup Archiving => pc' = pc,
         patch # "none" => pc' \in Archiving \cup Final,
         \A m \in published : m \in published',
         \A m \in published' : m \in published \/
            (m.event # Proposal /\ (m.by = "finalizer" =>
               /\ outcome.reason = "checks_failed" => m.event = Rejection
               /\ pc' \notin Starting))
  PROVE  SentOK'
<1>1. Out(Proposal)' <=> Out(Proposal)
  BY DEF Out, Proposal, Platform
<1>2. PatchOK'
  BY <1>1 DEF SentOK, PatchOK, Archiving, Final
<1>3. SilentOK'
  BY DEF SentOK, SilentOK, Starting, Final, Archiving
<1> QED BY <1>2, <1>3 DEF SentOK

LEMMA SentByAgent ==
  ASSUME Core, SentOK, Agent
  PROVE  SentOK'
<1>1. CASE (\E kind \in Kinds : Defer(kind) \/ EmitRecorded(kind))
  <2>1. UNCHANGED <<setup, outcome, patch, synth, pc, published>>
    BY <1>1 DEF Defer, EmitRecorded
  <2> QED BY <2>1, SentKept DEF SentOK, PatchOK
<1>2. CASE EmitPublished
  <2>1. PICK ok \in BOOLEAN : Publish(emit, "agent", ok)
    BY <1>2 DEF EmitPublished
  <2>2. UNCHANGED <<setup, outcome, patch, synth, pc>> /\ emit # NoEvent
    BY <1>2 DEF EmitPublished
  <2>3. emit \in Event /\ emit.id > 0 /\ published \subseteq Message
    BY <2>2, EventsAre DEF Core, Types
  <2>4. /\ published \subseteq published'
        /\ \A m \in published' : m \in published \/ (m.event = emit /\ m.by = "agent")
    BY <2>1, <2>3, PublishIs
  <2> QED BY <2>2, <2>3, <2>4, ProposalIs, SentKept DEF SentOK, PatchOK
<1>3. CASE \E state \in {"completed", "failed", "cancelled"} :
              AdapterExit(state) \/ SessionExit(state)
  <2>1. PICK state \in {"completed", "failed", "cancelled"} : Exits(state)
    BY <1>3 DEF AdapterExit, SessionExit
  <2>2. /\ pc = "agent" /\ pc' \in {"adapterStatus", "flush", "close"}
        /\ outcome' = [state |-> state, reason |-> ""]
        /\ UNCHANGED <<setup, patch, synth, published>>
    BY <1>3, <2>1 DEF AdapterExit, SessionExit, Exits
  <2>3. Out(Proposal)' <=> Out(Proposal)
    BY <2>2, OutKept
  <2>4. patch = "none" /\ ~ Out(Proposal) /\ synth = <<>>
        /\ \A m \in published : m.by # "finalizer"
    BY <2>2 DEF SentOK, PatchOK, SilentOK, Starting, Archiving, Final
  <2> QED BY <2>2, <2>3, <2>4 DEF SentOK, PatchOK, SilentOK, Archiving, Final
<1>4. CASE AdapterStatus
  <2>1. /\ pc = "adapterStatus" /\ pc' = "record"
        /\ UNCHANGED <<setup, outcome, patch, synth, published>>
    BY <1>4 DEF AdapterStatus
  <2>2. Out(Proposal)' <=> Out(Proposal)
    BY <2>1, OutKept
  <2> QED BY <2>1, <2>2 DEF SentOK, PatchOK, SilentOK, Starting, Archiving, Final
<1> QED BY <1>1, <1>2, <1>3, <1>4 DEF Agent

LEMMA SentByQueue ==
  ASSUME Core, SentOK,
         (\E w \in Flushers : Flush(w)) \/ OperatorDiscards \/ OperatorDies \/ FinalizerDies
  PROVE  SentOK'
<1>1. CASE \E w \in Flushers : Flush(w)
  <2>1. PICK w \in Flushers : Flush(w)
    BY <1>1
  <2>2. /\ UNCHANGED <<setup, outcome, patch, synth>>
        /\ \/ pc' = pc
           \/ w = "finalizer" /\ pc = "flush" /\ pc' \in {"artifacts", "aborted"}
    BY <2>1, FlushMoves
  <2>3. /\ \A m \in published : m \in published'
        /\ \A m \in published' : m \in published \/ (m.by = w /\ m.event \in Held(w))
    BY <2>1, FlushPlay
  <2>4. \A e \in Held(w) : e.id > 0
    BY HeldIs, EventsAre DEF Held, Flushing
  <2>5. (w = "finalizer" /\ \E m \in published' : m \notin published) => pc = "flush"
    BY <2>3, HeldIs DEF Held, Flushing
  <2>6. pc = "flush" => outcome.reason # "checks_failed" /\ patch = "none"
    BY DEF SentOK, PatchOK, SilentOK, Archiving, Final
  <2>7. pc' \in Starting \cup Archiving => pc' = pc
    BY <2>2 DEF Starting, Archiving
  <2>8. pc' = pc \/ pc' \in Final \/
          (pc' \notin Starting \cup Archiving /\ outcome.reason # "checks_failed")
    BY <2>2, <2>6 DEF Starting, Archiving, Final
  <2>9. patch # "none" => pc' \in Archiving \cup Final
    BY <2>2, <2>6 DEF SentOK, PatchOK
  <2>10. pc = "flush" => pc' \notin Starting
    BY <2>2 DEF Starting
  <2> QED BY <2>2, <2>3, <2>4, <2>5, <2>6, <2>7, <2>8, <2>9, <2>10, ProposalIs, SentKept
<1>2. CASE OperatorDiscards \/ OperatorDies \/ FinalizerDies
  <2>1. /\ UNCHANGED <<setup, outcome, patch, synth, published>>
        /\ pc' = pc \/ pc' = "dead"
    BY <1>2 DEF OperatorDiscards, OperatorDies, FinalizerDies
  <2>2. pc' \in Starting \cup Archiving => pc' = pc
    BY <2>1 DEF Starting, Archiving
  <2>3. pc' = pc \/ pc' \in Final
    BY <2>1 DEF Final
  <2> QED BY <2>1, <2>2, <2>3, SentKept DEF SentOK, PatchOK
<1> QED BY <1>1, <1>2

LEMMA SentByAnnounce ==
  ASSUME Core, SentOK, Announce
  PROVE  SentOK'
<1>1. /\ UNCHANGED <<setup, outcome, patch, synth>>
      /\ pc \in {"artifacts", "announced", "announce", "recordBatch"}
      /\ pc' \in {"announced", "announce", "recordBatch", "close", "events", "aborted"}
  BY DEF Announce, ArtifactsPending, ArtifactsLogged, AnnounceArtifacts, RecordArtifacts,
     Step, AfterArtifacts, Remembered
<1>2. outcome.reason # "checks_failed" /\ patch = "none" /\ pc' \notin Starting \cup Archiving
  BY <1>1 DEF SentOK, PatchOK, SilentOK, Starting, Archiving, Final
<1>3. /\ \A m \in published : m \in published'
      /\ \A m \in published' : m \in published \/ m.event = Platform("artifact")
  <2>1. CASE published' = published
    BY <2>1
  <2>2. CASE \E ok \in BOOLEAN : Publish(Platform("artifact"), "finalizer", ok)
    <3>1. published \subseteq Message /\ Platform("artifact") \in Event
      BY EventsAre DEF Core, Types
    <3> QED BY <2>2, <3>1, PublishIs
  <2> QED BY <2>1, <2>2 DEF Announce, ArtifactsPending, ArtifactsLogged, AnnounceArtifacts,
             RecordArtifacts
<1> QED BY <1>1, <1>2, <1>3, ProposalIs, SentKept

\* A verdict: nothing is sent, and no proposal is archived yet.
LEMMA VerdictKeepsPatch ==
  ASSUME SentOK, pc \notin Archiving \cup Final, pc' \notin Archiving,
         UNCHANGED <<setup, patch, published>>
  PROVE  PatchOK'
<1>1. published' = published /\ patch' = patch /\ setup' = setup
  OBVIOUS
<1>2. Out(Proposal)' <=> Out(Proposal)
  BY <1>1, OutKept
<1>3. patch = "none" /\ ~Out(Proposal)
  BY DEF SentOK, PatchOK
<1>4. pc' # "send" /\ pc' # "confirm"
  BY DEF Archiving
<1> QED BY <1>1, <1>2, <1>3, <1>4 DEF PatchOK

LEMMA SentByVerdicts ==
  ASSUME Core, SentOK, Verdicts
  PROVE  SentOK'
<1>1. /\ pc \in {"record", "gate", "gateStatus", "gateResult", "reject", "events", "summary",
                 "summaryStatus", "summaryResult", "contract", "contractStatus",
                 "contractResult", "close"}
      /\ pc' \in {"gate", "flush", "gateStatus", "gateResult", "reject", "events", "summary",
                  "summaryStatus", "summaryResult", "contract", "contractStatus",
                  "contractResult", "explicit", "reread", "done"}
      /\ UNCHANGED <<setup, patch, published>>
  BY DEF Verdicts, EnsureResultRecord, CheckGate, ReconcileStatus, ReconcileResult, RejectRun,
     ReadEvents, RequireSummary, EnforceContract, CloseSession, Step
<1>2. PatchOK'
  BY <1>1, VerdictKeepsPatch DEF Archiving, Final
<1>3. CASE EnsureResultRecord \/ CloseSession
  <2>1. /\ UNCHANGED <<outcome, synth>>
        /\ \/ pc = "record" /\ pc' = "gate"
           \/ pc = "close" /\ pc' \in {"reread", "done"}
    BY <1>3 DEF EnsureResultRecord, CloseSession, Step
  <2> QED BY <1>1, <1>2, <2>1 DEF SentOK, SilentOK, Starting, Final
<1>4. CASE CheckGate
  <2>1. /\ pc = "gate" /\ synth' = synth
        /\ \/ outcome' = outcome /\ pc' \in {"flush", "events"}
           \/ Fails("checks_failed") /\ pc' = "gateStatus"
    BY <1>4 DEF CheckGate, Step
  <2>2. /\ synth = <<>> /\ outcome.reason # "checks_failed"
        /\ \A m \in published : m.by # "finalizer"
    BY <2>1 DEF SentOK, SilentOK, Starting
  <2>3. In(<<>>) = {}
    BY DEF In
  <2>4. SilentOK'
    BY <1>1, <2>1, <2>2, <2>3, FailsIs DEF SilentOK, Starting, Final
  <2> QED BY <1>2, <2>4 DEF SentOK
<1>5. CASE \/ ReconcileStatus("gateStatus", "gateResult") \/ ReconcileResult("gateResult", "reject")
           \/ ReconcileStatus("summaryStatus", "summaryResult")
           \/ ReconcileResult("summaryResult", "contract")
           \/ ReconcileStatus("contractStatus", "contractResult")
           \/ ReconcileResult("contractResult", "explicit")
  <2>1. /\ UNCHANGED <<outcome, synth>>
        /\ \/ pc = "gateStatus" /\ pc' = "gateResult"
           \/ pc = "gateResult" /\ pc' = "reject"
           \/ pc \in {"summaryStatus", "summaryResult", "contractStatus", "contractResult"}
              /\ pc' \notin Starting
    BY <1>5 DEF ReconcileStatus, ReconcileResult, Step, Starting
  <2>2. SilentOK'
    BY <1>1, <2>1 DEF SentOK, SilentOK, Starting, Final
  <2> QED BY <1>2, <2>2 DEF SentOK
<1>6. CASE RejectRun
  <2>1. /\ pc = "reject" /\ pc' = "events" /\ UNCHANGED outcome
        /\ synth' = synth \/ synth' = <<Rejection>>
    BY <1>6, ProposalIs DEF RejectRun, Step
  <2>2. In(<<Rejection>>) = {Rejection}
    BY DEF In
  <2>3. SilentOK'
    BY <1>1, <2>1, <2>2 DEF SentOK, SilentOK, Starting, Final
  <2> QED BY <1>2, <2>3 DEF SentOK
<1>7. CASE ReadEvents
  <2>1. /\ pc = "events" /\ pc' = "summary" /\ UNCHANGED outcome
        /\ synth' = synth \/ outcome.state = "completed"
    BY <1>7 DEF ReadEvents, Step, Completed
  <2>2. SilentOK'
    BY <1>1, <2>1 DEF SentOK, SilentOK, Starting, Final
  <2> QED BY <1>2, <2>2 DEF SentOK
<1>8. CASE RequireSummary \/ EnforceContract
  <2>1. /\ pc \in {"summary", "contract"} /\ synth' = synth
        /\ \/ /\ outcome' = outcome
              /\ pc' \in {"contract", "explicit"}
           \/ /\ Fails("run_summary_missing") \/ Fails("completion_contract")
              /\ outcome.state = "completed"
              /\ pc' \in {"summaryStatus", "contractStatus"}
    BY <1>8 DEF RequireSummary, EnforceContract, Step, Completed
  <2>2. CASE outcome' = outcome /\ pc' \in {"contract", "explicit"}
    <3>1. SilentOK'
      BY <1>1, <2>1, <2>2 DEF SentOK, SilentOK, Starting, Final
    <3> QED BY <1>2, <3>1 DEF SentOK
  <2>3. CASE /\ Fails("run_summary_missing") \/ Fails("completion_contract")
             /\ pc' \in {"summaryStatus", "contractStatus"}
    <3>1. outcome'.reason # "checks_failed" /\ pc' \notin Starting
      BY <2>3, FailsIs DEF Starting
    <3>2. SilentOK'
      BY <3>1 DEF SilentOK
    <3> QED BY <1>2, <3>2 DEF SentOK
  <2> QED BY <2>1, <2>2, <2>3
<1> QED BY <1>3, <1>4, <1>5, <1>6, <1>7, <1>8 DEF Verdicts

LEMMA SentByPublish ==
  ASSUME Core, SentOK, PublishOutcome
  PROVE  SentOK'
<1>1. UNCHANGED <<setup, outcome>>
  BY DEF PublishOutcome, RereadEvents, OwnProposal, PublishSynthesized, Archive, MarkAttempt,
     SendPatch, ConfirmPatch, Step
<1>2. CASE RereadEvents \/ OwnProposal
  <2>1. /\ pc \in {"reread", "explicit"} /\ UNCHANGED <<patch, synth, published>>
        /\ pc' = IF pc = "reread" THEN "explicit" ELSE "publish"
    BY <1>2 DEF RereadEvents, OwnProposal, Step
  <2>2. PatchOK'
    BY <1>1, <2>1, VerdictKeepsPatch DEF Archiving, Final
  <2>3. SilentOK'
    BY <1>1, <2>1 DEF SentOK, SilentOK, Starting, Final
  <2> QED BY <2>2, <2>3 DEF SentOK
<1>3. CASE PublishSynthesized
  <2>1. /\ pc = "publish" /\ pc' \in {"publish", "aborted", "done"} /\ synth # <<>>
        /\ synth' = Tail(synth) /\ UNCHANGED patch
        /\ \E ok \in BOOLEAN : Publish(Head(synth), "finalizer", ok)
    BY <1>3 DEF PublishSynthesized, Step
  <2>2. PICK h : h = Head(synth)
    OBVIOUS
  <2>3. h \in Synthesized /\ In(synth) = In(Tail(synth)) \cup {h}
    BY <2>1, <2>2, HeadTail DEF Core, Types
  <2>4. h # Proposal /\ h \in Event
    BY <2>3, EventsAre, ProposalIs DEF Synthesized
  <2>5. /\ published \subseteq published'
        /\ \A m \in published' : m \in published \/ (m.event = h /\ m.by = "finalizer")
    <3>1. published \subseteq Message
      BY DEF Core, Types
    <3> QED BY <2>1, <2>2, <2>4, <3>1, PublishIs
  <2>6. Out(Proposal)' <=> Out(Proposal)
    BY <2>4, <2>5 DEF Out, Proposal, Platform
  <2>7. PatchOK'
    BY <1>1, <2>1, <2>6 DEF SentOK, PatchOK, Archiving, Final
  <2>8. SilentOK'
    BY <1>1, <2>1, <2>3, <2>5 DEF SentOK, SilentOK, Starting, Final
  <2> QED BY <2>7, <2>8 DEF SentOK
<1>4. CASE Archive \/ MarkAttempt \/ ConfirmPatch
  <2>1. /\ UNCHANGED <<published, synth>>
        /\ \/ pc = "publish" /\ pc' = "done" /\ patch' = patch
           \/ /\ pc = "publish" /\ pc' = "attempt" /\ patch' = "unpublished"
              /\ outcome.state = "completed"
           \/ pc = "attempt" /\ pc' = "send"
              /\ patch' = IF setup.broker THEN "unconfirmed" ELSE patch
           \/ pc = "attempt" /\ pc' = "done" /\ patch' = patch
           \/ pc = "confirm" /\ pc' = "done" /\ patch' \in {"published", patch}
    BY <1>4 DEF Archive, MarkAttempt, ConfirmPatch, MayArchive, Completed, Step
  <2>2. Out(Proposal)' <=> Out(Proposal)
    BY <2>1, OutKept
  <2>3. PatchOK'
    BY <1>1, <2>1, <2>2 DEF SentOK, PatchOK, Archiving, Final
  <2>4. outcome.reason = "checks_failed" => outcome.state = "failed"
    BY DEF SentOK, SilentOK
  <2>5. pc \in Archiving => outcome.state = "completed"
    BY DEF SentOK, PatchOK
  <2>6. SilentOK'
    BY <1>1, <2>1, <2>4, <2>5 DEF SentOK, SilentOK, Starting, Archiving, Final
  <2> QED BY <2>3, <2>6 DEF SentOK
<1>5. CASE SendPatch
  <2>1. PICK ok \in BOOLEAN :
            /\ Publish(Proposal, "finalizer", ok)
            /\ pc = "send" /\ pc' = IF ok /\ setup.broker THEN "confirm" ELSE "done"
    BY <1>5 DEF SendPatch, Step, Proposal
  <2>2. UNCHANGED <<patch, synth>>
    BY <1>5 DEF SendPatch
  <2>3. /\ patch # "none" /\ outcome.state = "completed"
        /\ setup.broker => patch = "unconfirmed"
    BY <2>1 DEF SentOK, PatchOK, Archiving
  <2>4. /\ ok => Out(Proposal)'
        /\ \A x : Out(x) => Out(x)'
    <3>1. published \subseteq Message /\ Proposal \in Event
      BY EventsAre DEF Core, Types, Proposal
    <3> QED BY <2>1, <3>1, PublishIs
  <2>5. PatchOK'
    <3>1. setup' = setup /\ outcome' = outcome /\ patch' = patch
      BY <1>1, <2>2
    <3>2. pc' \in {"confirm", "done"} /\ (pc' = "confirm" => ok)
      BY <2>1 DEF Core, Types, Setup
    <3>3. setup.broker => patch' = "unconfirmed"
      BY <2>3, <3>1
    <3>4. pc' = "confirm" => Out(Proposal)'
      BY <2>4, <3>2
    <3>5. pc' \in Archiving \cup Final /\ pc' # "send" /\ patch' # "none"
      BY <2>3, <3>1, <3>2 DEF Archiving, Final
    <3> QED BY <2>3, <3>1, <3>3, <3>4, <3>5 DEF PatchOK
  <2>6. outcome.reason # "checks_failed" /\ pc' \notin Starting
    BY <2>1, <2>3 DEF SentOK, SilentOK, Starting
  <2>7. SilentOK'
    BY <1>1, <2>6 DEF SilentOK
  <2> QED BY <2>5, <2>7 DEF SentOK
<1> QED BY <1>2, <1>3, <1>4, <1>5 DEF PublishOutcome

LEMMA NextSent ==
  ASSUME Core, SentOK, [Next]_vars
  PROVE  SentOK'
<1>1. CASE UNCHANGED vars
  BY <1>1, SentKept DEF vars, SentOK, PatchOK
<1> QED BY <1>1, SentByAgent, SentByQueue, SentByAnnounce, SentByVerdicts, SentByPublish
        DEF Next

LEMMA InitSent ==
  ASSUME Init
  PROVE  SentOK
<1>1. pc = "agent" /\ patch = "none" /\ synth = <<>> /\ outcome.reason = "" /\ published = {}
  BY DEF Init
<1> QED BY <1>1 DEF SentOK, PatchOK, SilentOK, Out, Starting, Archiving, Final

-----------------------------------------------------------------------------
(* One proposal a run *)

\* Where an event of the agent is seen, or waits to be sent.
Around(e) ==
    e \in Lines \/ Out(e) \/ e \in In(pending) \/ \E w \in Flushers : e \in Held(w)

\* The queue and its flushes hold deferred events only, and whatever was sent had
\* been queued or logged.
KnownOK ==
    /\ In(pending) \subseteq deferred /\ \A w \in Flushers : Held(w) \subseteq deferred
    /\ emit # NoEvent => emit \in Lines
    /\ \A m \in published : m.event.id > 0 => m.event \in deferred \cup Lines

\* No flush of the operator overlaps the finalizer without being noticed.
AloneOK == Finishing /\ ~overtaken => ~Flushing("operator")

\* Between reading the log and deciding, nobody else adds to it.
Reading == {"summary", "summaryStatus", "summaryResult", "contract", "contractStatus",
            "contractResult", "explicit"}
SeenOK == pc \in Reading /\ ~overtaken => \A e \in Lines : e.id > 0 => e \in seen

\* Once the run is known to have no proposal of its own, none is left to be sent.
NoneLeft == \A e \in OwnEvent : e.kind = "proposal" /\ Around(e) => e \in forgone
ClearOK ==
    /\ patch # "none" => ~explicit
    /\ pc = "publish" \/ patch # "none" => explicit \/ overtaken \/ NoneLeft

OneOK == KnownOK /\ AloneOK /\ SeenOK /\ ClearOK

\* A step that brings no event nearer leaves none where none was left.
LEMMA ClearKept ==
  ASSUME ClearOK, UNCHANGED <<patch, explicit>>, overtaken => overtaken',
         pc' = "publish" => pc = "publish", forgone \subseteq forgone',
         \A e \in OwnEvent : Around(e)' => Around(e)
  PROVE  ClearOK'
<1>1. NoneLeft => NoneLeft'
  BY DEF NoneLeft
<1> QED BY <1>1 DEF ClearOK

\* While the agent works nothing has been looked at.
LEMMA EarlyOK ==
  ASSUME SentOK, patch' = patch, pc = "agent" \/ pc' \in {"agent", "adapterStatus", "record"},
         pc' \in {"agent", "adapterStatus", "record", "flush", "close"},
         pc \in {"agent", "adapterStatus"}
  PROVE  SeenOK' /\ ClearOK'
<1>1. patch = "none"
  BY DEF SentOK, PatchOK, Archiving, Final
<1> QED BY <1>1 DEF SeenOK, ClearOK, Reading

LEMMA OneByAgent ==
  ASSUME Core, SentOK, OneOK, Agent
  PROVE  OneOK'
<1>1. ASSUME NEW kind \in Kinds, Defer(kind)
      PROVE  OneOK'
  <2>1. PICK e : e = Own(emitted + 1, kind)
    OBVIOUS
  <2>2. /\ pc = "agent" /\ pc' = "agent" /\ pending' = Append(pending, e)
        /\ deferred' = deferred \cup {e} /\ emitted < MaxEvents
        /\ UNCHANGED <<log, published, patch, flush, emit>>
    BY <1>1, <2>1 DEF Defer
  <2>3. e \in OwnEvent
    <3>1. emitted + 1 \in 1..MaxEvents
      BY <2>2, SetupAssumption DEF Core, Types
    <3> QED BY <2>1, <3>1 DEF OwnEvent
  <2>4. In(pending') = In(pending) \cup {e}
    BY <2>2, <2>3, AppendIn DEF Core, Types
  <2>5. Lines' = Lines /\ \A w \in Flushers : Held(w)' = Held(w)
    BY <2>2, LinesKept DEF Held, Flushing
  <2>6. KnownOK'
    BY <2>2, <2>4, <2>5 DEF OneOK, KnownOK
  <2>7. AloneOK'
    BY <2>2 DEF AloneOK, Finishing
  <2> QED BY <2>2, <2>6, <2>7, EarlyOK DEF OneOK
<1>2. ASSUME NEW kind \in Kinds, EmitRecorded(kind)
      PROVE  OneOK'
  <2>1. PICK e : e = Own(emitted + 1, kind)
    OBVIOUS
  <2>2. /\ pc = "agent" /\ pc' = "agent" /\ emit' = e /\ log' = Logged(e) /\ emitted < MaxEvents
        /\ UNCHANGED <<pending, deferred, published, patch, flush>>
    BY <1>2, <2>1 DEF EmitRecorded, ghosts
  <2>3. e \in Event
    <3>1. emitted + 1 \in 1..MaxEvents
      BY <2>2, SetupAssumption DEF Core, Types
    <3> QED BY <2>1, <3>1, EventsAre DEF OwnEvent
  <2>4. Lines' = Lines \cup {e}
    BY <2>2, <2>3, LoggedIs DEF Core, Types
  <2>5. \A w \in Flushers : Held(w)' = Held(w)
    BY <2>2 DEF Held, Flushing
  <2>6. KnownOK'
    BY <2>2, <2>4, <2>5 DEF OneOK, KnownOK
  <2>7. AloneOK'
    BY <2>2 DEF AloneOK, Finishing
  <2> QED BY <2>2, <2>6, <2>7, EarlyOK DEF OneOK
<1>3. CASE EmitPublished
  <2>1. PICK ok \in BOOLEAN : Publish(emit, "agent", ok)
    BY <1>3 DEF EmitPublished
  <2>2. /\ emit # NoEvent /\ emit' = NoEvent
        /\ UNCHANGED <<pc, pending, log, patch, seen, explicit, flush, deferred, forgone, overtaken>>
    BY <1>3 DEF EmitPublished, ghosts
  <2>3. emit \in Lines
    BY <2>2 DEF OneOK, KnownOK
  <2>4. /\ \A m \in published' : m \in published \/ m.event = emit
        /\ \A x : Out(x)' => Out(x) \/ x = emit
    <3>1. emit \in Event /\ published \subseteq Message
      BY <2>3 DEF Lines, Core, Types
    <3> QED BY <2>1, <3>1, PublishIs
  <2>5. Lines' = Lines /\ \A w \in Flushers : Held(w)' = Held(w)
    BY <2>2, LinesKept DEF Held, Flushing
  <2>6. KnownOK'
    BY <2>2, <2>3, <2>4, <2>5 DEF OneOK, KnownOK
  <2>7. AloneOK' /\ SeenOK'
    BY <2>2, <2>5 DEF OneOK, AloneOK, SeenOK, Finishing, Flushing
  <2>8. \A e \in OwnEvent : Around(e)' => Around(e)
    BY <2>2, <2>3, <2>4, <2>5 DEF Around
  <2> QED BY <2>2, <2>6, <2>7, <2>8, ClearKept DEF OneOK
<1>4. CASE AdapterStatus \/ \E state \in {"completed", "failed", "cancelled"} :
                               AdapterExit(state) \/ SessionExit(state)
  <2>1. /\ UNCHANGED <<pending, log, published, patch, flush, emit, deferred>>
        /\ pc \in {"agent", "adapterStatus"}
        /\ pc' \in {"adapterStatus", "record", "flush", "close"}
        /\ pc = "adapterStatus" => pc' = "record"
    BY <1>4 DEF AdapterStatus, AdapterExit, SessionExit, Exits, ghosts
  <2>2. Lines' = Lines /\ \A w \in Flushers : Held(w)' = Held(w)
    BY <2>1, LinesKept DEF Held, Flushing
  <2>3. KnownOK'
    BY <2>1, <2>2 DEF OneOK, KnownOK
  <2>4. AloneOK'
    <3>1. ~ Flushing("operator") => ~ Flushing("operator")'
      BY <2>1 DEF Flushing
    <3>2. CASE AdapterStatus
      <4>1. pc = "adapterStatus" /\ (overtaken => overtaken')
        BY <3>2 DEF AdapterStatus
      <4>2. ~ overtaken => ~ Flushing("operator")
        BY <4>1 DEF OneOK, AloneOK, Finishing
      <4> QED BY <3>1, <4>1, <4>2 DEF AloneOK
    <3>3. ASSUME NEW state, Exits(state)
          PROVE  Flushing("operator") => overtaken'
      BY <3>3 DEF Exits
    <3> QED BY <1>4, <3>1, <3>2, <3>3 DEF AloneOK, AdapterExit, SessionExit
  <2> QED BY <2>1, <2>3, <2>4, EarlyOK DEF OneOK
<1> QED BY <1>1, <1>2, <1>3, <1>4 DEF Agent

LEMMA FlushKeeps ==
  ASSUME Core, NEW w \in Flushers, Flush(w)
  PROVE  /\ \A e \in Lines : e \in Lines'
         /\ forgone \subseteq forgone'
         /\ overtaken' = (overtaken \/ (w = "operator" /\ Finishing))
         /\ \A v \in Flushers : v # w => flush'[v] = flush[v]
<1>1. \A e \in Lines : e \in Lines'
  <2>1. CASE FlushRecord(w)
    <3>1. PICK h : h = Head(flush[w].rest)
      OBVIOUS
    <3>2. log' = Logged(h) /\ flush[w].at = "record"
      BY <2>1, <3>1 DEF FlushRecord, FlushStep
    <3>3. h \in Event
      BY <3>1, <3>2, HeldIs, HeadTail, EventsAre
    <3> QED BY <3>2, <3>3, LoggedIs DEF Core, Types
  <2>2. CASE ~ FlushRecord(w)
    BY <2>2, LinesKept DEF Flush, FlushRead, FlushPublish, FlushRecordFails, FlushRewrite,
       FlushWrite
  <2> QED BY <2>1, <2>2
<1>2. forgone \subseteq forgone'
  BY DEF Flush, FlushRead, FlushPublish, FlushRecord, FlushRecordFails, FlushRewrite, FlushWrite
<1>3. overtaken' = (overtaken \/ (w = "operator" /\ Finishing))
  BY DEF Flush, FlushRead, FlushPublish, FlushRecord, FlushRecordFails, FlushRewrite,
     FlushWrite, FlushStep
<1>4. flush' = flush \/ \E p : flush' = [flush EXCEPT ![w] = p]
  BY DEF Flush, FlushRead, FlushPublish, FlushRecord, FlushRecordFails, FlushRewrite,
     FlushWrite, FlushStep, FlushEnds
<1>5. \A v \in Flushers : v # w => flush'[v] = flush[v]
  BY <1>4 DEF Core, Types
<1> QED BY <1>1, <1>2, <1>3, <1>5

LEMMA OneByFlush ==
  ASSUME Core, OneOK, NEW w \in Flushers, Flush(w)
  PROVE  OneOK'
<1>1. UNCHANGED <<patch, seen, explicit, emit, deferred>>
  BY FlushMoves
<1>2. \/ pc' = pc
      \/ w = "finalizer" /\ pc = "flush" /\ pc' \in {"artifacts", "aborted"}
  BY FlushMoves
<1>3. w = "finalizer" => pc = "flush"
  BY HeldIs DEF Flush, FlushRead, MayFlush, FlushPublish, FlushRecord, FlushRecordFails,
     FlushRewrite, FlushWrite, FlushStep
<1>4. overtaken' = (overtaken \/ (w = "operator" /\ Finishing))
  BY FlushKeeps
<1>5. \A e \in OwnEvent : Around(e)' => Around(e)
  BY FlushPlay DEF Around, Out
<1>6. KnownOK'
  <2>1. Held(w) \subseteq deferred /\ In(pending) \subseteq deferred
        /\ \A v \in Flushers : Held(v) \subseteq deferred
    BY DEF OneOK, KnownOK
  <2>2. In(pending') \subseteq deferred /\ \A v \in Flushers : Held(v)' \subseteq deferred
    BY <2>1, FlushPlay
  <2>3. \A m \in published' : m.event.id > 0 => m.event \in deferred \cup Lines'
    BY <2>1, FlushPlay, FlushKeeps DEF OneOK, KnownOK
  <2>4. emit # NoEvent => emit \in Lines'
    BY FlushKeeps DEF OneOK, KnownOK
  <2> QED BY <1>1, <2>2, <2>3, <2>4 DEF KnownOK
<1>7. AloneOK'
  <2>1. SUFFICES ASSUME Finishing', ~ overtaken' PROVE ~ Flushing("operator")'
    BY DEF AloneOK
  <2>2. Finishing
    BY <1>2, <2>1 DEF Finishing
  <2>3. ~ overtaken /\ w # "operator"
    BY <1>4, <2>1, <2>2
  <2>4. flush'["operator"] = flush["operator"]
    BY <2>3, FlushKeeps DEF Flushers
  <2> QED BY <2>2, <2>3, <2>4 DEF OneOK, AloneOK, Flushing
<1>8. SeenOK'
  <2>1. SUFFICES ASSUME pc' \in Reading, ~ overtaken' PROVE FALSE
    BY DEF SeenOK
  <2>2. pc' = pc /\ Finishing /\ w # "finalizer"
    BY <1>2, <1>3, <2>1 DEF Reading, Finishing
  <2> QED BY <1>4, <2>1, <2>2 DEF Flushers
<1>9. ClearOK'
  <2>1. pc' = "publish" => pc = "publish"
    BY <1>2
  <2>2. overtaken => overtaken'
    BY <1>4
  <2> QED BY <1>1, <1>5, <2>1, <2>2, FlushKeeps, ClearKept DEF OneOK
<1> QED BY <1>6, <1>7, <1>8, <1>9 DEF OneOK

LEMMA OneByGivingUp ==
  ASSUME Core, OneOK, OperatorDiscards \/ OperatorDies \/ FinalizerDies
  PROVE  OneOK'
<1>1. /\ UNCHANGED <<log, published, patch, seen, explicit, emit, deferred>>
      /\ pc' \in {pc, "dead"} /\ pending' \in {pending, <<>>}
      /\ forgone \subseteq forgone'
      /\ flush' = flush \/ \E w \in Flushers : flush' = [flush EXCEPT ![w] = NotFlushing]
  BY DEF OperatorDiscards, OperatorDies, FinalizerDies, Flushers
<1>2. overtaken => overtaken'
  BY DEF OperatorDiscards, OperatorDies, FinalizerDies
<1>3. \A v \in Flushers : flush'[v] \in {flush[v], NotFlushing}
  BY <1>1 DEF Core, Types
<1>4. NotFlushing.at = "idle" /\ In(<<>>) = {}
  BY DEF NotFlushing, In
<1>5. \A v \in Flushers : Held(v)' \subseteq Held(v) /\ (Flushing(v)' => Flushing(v))
  BY <1>3, <1>4 DEF Held, Flushing
<1>6. In(pending') \subseteq In(pending) /\ Lines' = Lines
  BY <1>1, <1>4, LinesKept
<1>7. KnownOK'
  BY <1>1, <1>5, <1>6 DEF OneOK, KnownOK
<1>8. AloneOK' /\ SeenOK'
  <2>1. "operator" \in Flushers
    BY DEF Flushers
  <2> QED BY <1>1, <1>2, <1>5, <1>6, <2>1 DEF OneOK, AloneOK, SeenOK, Finishing, Reading
<1>9. \A e \in OwnEvent : Around(e)' => Around(e)
  BY <1>1, <1>5, <1>6, OutKept DEF Around
<1>10. ClearOK'
  BY <1>1, <1>2, <1>9, ClearKept DEF OneOK
<1> QED BY <1>7, <1>8, <1>10 DEF OneOK

\* What the finalizer's steps do to what it knows of its run's proposal.
LEMMA FinalizerLooks ==
  ASSUME SentOK, Announce \/ Verdicts \/ PublishOutcome
  PROVE  /\ pc' \in Reading => (pc \in Reading /\ seen' = seen) \/ seen' \in {Lines, Lines'}
         /\ \/ /\ explicit' = explicit
               /\ pc' = "publish" => pc = "publish"
               /\ patch' # "none" => patch # "none" \/ (pc = "publish" /\ ~ explicit)
            \/ OwnProposal
<1>1. CASE Announce
  BY <1>1 DEF Announce, ArtifactsPending, ArtifactsLogged, AnnounceArtifacts, RecordArtifacts,
     Step, AfterArtifacts, Remembered, Reading
<1>2. CASE Verdicts
  <2>1. CASE ReadEvents
    BY <2>1 DEF ReadEvents, Step, Reading
  <2>2. CASE ~ ReadEvents
    BY <1>2, <2>2 DEF Verdicts, EnsureResultRecord, CheckGate, ReconcileStatus,
       ReconcileResult, RejectRun, RequireSummary, EnforceContract, CloseSession, Step, Reading
  <2> QED BY <2>1, <2>2
<1>3. CASE PublishOutcome
  <2>1. CASE RereadEvents
    BY <2>1 DEF RereadEvents, Step, Reading
  <2>2. CASE OwnProposal
    BY <2>2 DEF OwnProposal, Step, Reading
  <2>3. CASE PublishSynthesized
    BY <2>3 DEF PublishSynthesized, Step, Reading
  <2>4. CASE Archive
    BY <2>4 DEF Archive, MayArchive, Step, Reading
  <2>5. CASE MarkAttempt \/ SendPatch \/ ConfirmPatch
    <3>1. pc \in {"attempt", "send", "confirm"} /\ pc' \in {"send", "confirm", "done"}
          /\ UNCHANGED <<seen, explicit>>
      BY <2>5 DEF MarkAttempt, SendPatch, ConfirmPatch, Step
    <3>2. patch # "none"
      BY <3>1 DEF SentOK, PatchOK, Archiving
    <3> QED BY <3>1, <3>2 DEF Reading
  <2> QED BY <1>3, <2>1, <2>2, <2>3, <2>4, <2>5 DEF PublishOutcome
<1> QED BY <1>1, <1>2, <1>3

\* The look itself: what is neither logged nor queued now was never the run's own.
LEMMA OwnProposalClears ==
  ASSUME Core, SentOK, OneOK, OwnProposal, ~ explicit', ~ overtaken
  PROVE  NoneLeft
<1>1. pc = "explicit" /\ ~ OwnKind(seen, "proposal") /\ ~ OwnKind(In(pending), "proposal")
  BY DEF OwnProposal, Step
<1>2. \A w \in Flushers : ~ Flushing(w)
  BY <1>1 DEF OneOK, AloneOK, Core, FlushOK, Finishing, Flushers
<1>3. \A w \in Flushers : Held(w) = {}
  BY <1>2 DEF Held
<1>4. SUFFICES ASSUME NEW e \in OwnEvent, e.kind = "proposal", Around(e), e \notin forgone
               PROVE  FALSE
  BY DEF NoneLeft
<1>5. e.id > 0
  BY EventsAre
<1>6. e \notin Lines
  BY <1>1, <1>4, <1>5 DEF OneOK, SeenOK, Reading, OwnKind
<1>7. e \notin In(pending)
  BY <1>1, <1>4, <1>5 DEF OwnKind
<1>8. e \in deferred
  BY <1>3, <1>4, <1>5, <1>6, <1>7 DEF Around, Out, OneOK, KnownOK
<1>9. Covers(In(pending))
  BY <1>2 DEF Core, QueueOK, Flushing
<1> QED BY <1>4, <1>6, <1>7, <1>8, <1>9 DEF Covers, Recorded

LEMMA OneByFinalizer ==
  ASSUME Core, SentOK, OneOK, Announce \/ Verdicts \/ PublishOutcome
  PROVE  OneOK'
<1>1. Quiet
  BY QuietSteps DEF Core
<1>2. /\ UNCHANGED <<pending, flush, emit, deferred, forgone>>
      /\ overtaken' = overtaken /\ Finishing
      /\ \A e \in Lines : e \in Lines'
      /\ \A e \in Lines' : e \in Lines \/ e.id = 0
      /\ \A m \in published' : m \in published \/ m.event.id = 0
  BY <1>1 DEF Quiet, ghosts
<1>3. \A w \in Flushers : Held(w)' = Held(w)
  BY <1>2 DEF Held, Flushing
<1>4. KnownOK'
  BY <1>2, <1>3 DEF OneOK, KnownOK
<1>5. AloneOK'
  BY <1>2 DEF OneOK, AloneOK, Flushing
<1>6. SeenOK'
  <2>1. SUFFICES ASSUME pc' \in Reading, ~ overtaken, NEW e \in Lines', e.id > 0
                 PROVE  e \in seen'
    BY <1>2 DEF SeenOK
  <2>2. e \in Lines
    BY <1>2, <2>1
  <2>3. CASE pc \in Reading /\ seen' = seen
    BY <2>1, <2>2, <2>3 DEF OneOK, SeenOK
  <2>4. CASE seen' \in {Lines, Lines'}
    BY <2>1, <2>2, <2>4
  <2> QED BY <2>1, <2>3, <2>4, FinalizerLooks
<1>7. NoneLeft => NoneLeft'
  <2>1. \A e \in OwnEvent : e.id > 0
    BY EventsAre
  <2>2. \A e \in OwnEvent : Around(e)' => Around(e)
    BY <1>2, <1>3, <2>1 DEF Around, Out
  <2> QED BY <1>2, <2>2 DEF NoneLeft
<1>8. ClearOK'
  <2>1. CASE OwnProposal
    <3>1. pc = "explicit" /\ patch' = patch
      BY <2>1 DEF OwnProposal, Step
    <3>2. patch' = "none"
      BY <3>1 DEF SentOK, PatchOK, Archiving, Final
    <3>3. explicit' \/ overtaken' \/ NoneLeft'
      BY <1>2, <1>7, <2>1, OwnProposalClears
    <3> QED BY <3>2, <3>3 DEF ClearOK
  <2>2. CASE ~ OwnProposal
    <3>1. /\ explicit' = explicit
          /\ pc' = "publish" => pc = "publish"
          /\ patch' # "none" => patch # "none" \/ (pc = "publish" /\ ~ explicit)
      BY <2>2, FinalizerLooks
    <3> QED BY <1>2, <1>7, <3>1 DEF OneOK, ClearOK
  <2> QED BY <2>1, <2>2
<1> QED BY <1>4, <1>5, <1>6, <1>8 DEF OneOK

LEMMA NextOne ==
  ASSUME Core, SentOK, OneOK, [Next]_vars
  PROVE  OneOK'
<1>1. CASE UNCHANGED vars
  <2>1. Lines' = Lines /\ (\A w \in Flushers : Held(w)' = Held(w)) /\ (Finishing' <=> Finishing)
    BY <1>1, LinesKept DEF vars, Held, Flushing, Finishing
  <2>2. KnownOK'
    BY <1>1, <2>1 DEF vars, ghosts, OneOK, KnownOK
  <2>3. AloneOK' /\ SeenOK'
    BY <1>1, <2>1 DEF vars, OneOK, AloneOK, SeenOK, Flushing
  <2>4. \A e \in OwnEvent : Around(e)' => Around(e)
    BY <1>1, <2>1, OutKept DEF vars, Around
  <2>5. ClearOK'
    BY <1>1, <2>4, ClearKept DEF vars, ghosts, OneOK
  <2> QED BY <2>2, <2>3, <2>5 DEF OneOK
<1> QED BY <1>1, OneByAgent, OneByFlush, OneByGivingUp, OneByFinalizer DEF Next

LEMMA InitOne ==
  ASSUME Init
  PROVE  OneOK
<1>1. /\ pc = "agent" /\ patch = "none" /\ pending = <<>> /\ published = {} /\ emit = NoEvent
      /\ \A w \in Flushers : flush[w] = NotFlushing
  BY DEF Init
<1>2. In(pending) = {} /\ \A w \in Flushers : Held(w) = {}
  BY <1>1 DEF In, Held, Flushing, NotFlushing
<1> QED BY <1>1, <1>2 DEF OneOK, KnownOK, AloneOK, SeenOK, ClearOK, Finishing, Reading

-----------------------------------------------------------------------------
(* The inductive invariant, and what follows from it *)

IInv == setup \in Setups /\ Core /\ RecordsOK /\ SentOK /\ OneOK

LEMMA SetupKept == [Next]_vars => setup' = setup
<1>1. Agent => setup' = setup
  BY DEF Agent, Defer, EmitRecorded, EmitPublished, AdapterExit, SessionExit, AdapterStatus
<1>2. (\E w \in Flushers : Flush(w)) => setup' = setup
  BY DEF Flush, FlushRead, FlushPublish, FlushRecord, FlushRecordFails, FlushRewrite,
     FlushWrite, FlushStep
<1>3. OperatorDiscards \/ OperatorDies \/ FinalizerDies => setup' = setup
  BY DEF OperatorDiscards, OperatorDies, FinalizerDies
<1>4. Announce => setup' = setup
  BY DEF Announce, ArtifactsPending, ArtifactsLogged, AnnounceArtifacts, RecordArtifacts, Step
<1>5. Verdicts => setup' = setup
  BY DEF Verdicts, EnsureResultRecord, CheckGate, ReconcileStatus, ReconcileResult, RejectRun,
     ReadEvents, RequireSummary, EnforceContract, CloseSession, Step
<1>6. PublishOutcome => setup' = setup
  BY DEF PublishOutcome, RereadEvents, OwnProposal, PublishSynthesized, Archive, MarkAttempt,
     SendPatch, ConfirmPatch, Step
<1> QED BY <1>1, <1>2, <1>3, <1>4, <1>5, <1>6 DEF Next, vars

LEMMA Inductive ==
  /\ Init => IInv
  /\ IInv /\ [Next]_vars => IInv'
<1>1. ASSUME Init PROVE IInv
  BY <1>1, InitCore, InitRecords, InitSent, InitOne DEF IInv, Init
<1>2. ASSUME IInv, [Next]_vars PROVE IInv'
  <2>1. Core' /\ RecordsOK'
    BY <1>2, NextCore, NextRecords DEF IInv
  <2>2. SentOK' /\ OneOK'
    BY <1>2, NextSent, NextOne DEF IInv
  <2>3. (setup \in Setups)'
    BY <1>2, SetupKept DEF IInv
  <2> QED BY <2>1, <2>2, <2>3 DEF IInv
<1> QED BY <1>1, <1>2

LEMMA Invariant == Spec => []IInv
BY Inductive, PTL DEF Spec

\* The records, the queue, the log and the sidecar keep their shapes.
THEOREM TypeCorrect == Spec => []TypeOK
<1>1. IInv => TypeOK
  <2> SUFFICES ASSUME IInv PROVE TypeOK
    OBVIOUS
  <2>1. Types /\ setup \in Setups
    BY DEF IInv, Core
  <2>2. In(pending) \subseteq Event
    BY <2>1, InIs, EventsAre DEF Types
  <2>3. \A m \in published : m.event \in Event
    BY <2>1 DEF Types, Message
  <2> QED BY <2>1, <2>2, <2>3 DEF TypeOK, Types
<1> QED BY <1>1, Invariant, PTL

\* However many flushes, deaths and failures overlap, a deferred event stays
\* queued until it is both published and in the run's log (deferred.go:79-209),
\* but for an operator's discard and the three windows the code leaves open.
THEOREM NothingDeferredIsLost == Spec => []DeferredIsKept
<1>1. IInv => DeferredIsKept
  <2> SUFFICES ASSUME IInv, NEW e \in deferred, e \notin forgone
               PROVE  Queued(e) \/ Recorded(e)
    BY DEF DeferredIsKept, Recorded
  <2>1. QueueOK
    BY DEF IInv, Core
  <2>2. CASE Covers(In(pending))
    BY <2>2 DEF Covers, Queued
  <2>3. CASE \E w \in Flushers : flush[w].at = "write"
    <3>1. PICK w \in Flushers : flush[w].at = "write"
      BY <2>3
    <3>2. Covers(In(flush[w].rest)) /\ Torn(w) = In(flush[w].rest)
      BY <2>1, <3>1 DEF QueueOK, Flushing, Torn
    <3> QED BY <3>1, <3>2 DEF Covers, Queued
  <2> QED BY <2>1, <2>2, <2>3 DEF QueueOK
<1> QED BY <1>1, Invariant, PTL

\* Wherever the process stops, the sidecar claims no more about the archived
\* proposal than the broker's answers allow (archive.go:196-249).
THEOREM SidecarIsHonest == Spec => []PublicationIsHonest
<1>1. IInv => PublicationIsHonest
  BY DEF IInv, SentOK, PatchOK, PublicationIsHonest, Proposal
<1> QED BY <1>1, Invariant, PTL

\* Of a run its check command rejected the runtime publishes the rejection alone,
\* and only a completed run leaves a code proposal (dispatch_stages.go:475-483).
THEOREM RejectionIsAllThatLeaves == Spec => []RejectedRunIsSilent
<1>1. IInv => RejectedRunIsSilent
  BY DEF IInv, SentOK, PatchOK, SilentOK, RejectedRunIsSilent, Rejection
<1> QED BY <1>1, Invariant, PTL

\* A run's own proposal, live or still queued, keeps the archived one from being
\* sent (proposal.go:49-62), unless an operator's flush overtook the finalizer.
THEOREM OneProposalPerRun == Spec => []OneProposal
<1>1. IInv => OneProposal
  <2> SUFFICES ASSUME IInv, Out(Platform("patch")), NEW m \in published, m.event \notin forgone,
                      m.event.id > 0, m.event.kind = "proposal", ~ overtaken
               PROVE  FALSE
    BY DEF OneProposal, OwnKind
  <2>1. patch # "none"
    BY DEF IInv, SentOK, PatchOK, Proposal
  <2>2. NoneLeft
    BY <2>1 DEF IInv, OneOK, ClearOK
  <2>3. m.event \in OwnEvent
    <3>1. m.event \in deferred \cup Lines
      BY DEF IInv, OneOK, KnownOK
    <3>2. m.event \in Event
      BY <3>1, EventsAre DEF IInv, Core, Types, Lines
    <3> QED BY <3>2 DEF Event, OwnEvent, Platform
  <2>4. Around(m.event)
    BY DEF Around, Out
  <2> QED BY <2>2, <2>3, <2>4 DEF NoneLeft
<1> QED BY <1>1, Invariant, PTL

\* Whatever half of its two records a run leaves behind, it is read back as
\* completed only if no record says otherwise, and as failed once one record says
\* so (projections.go:239-316).
THEOREM RecordsFailClosed == Spec => []OutcomeFailsClosed
<1>1. IInv => OutcomeFailsClosed
  BY RecordsRead DEF IInv, Core
<1> QED BY <1>1, Invariant, PTL
=============================================================================
