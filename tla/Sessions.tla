------------------------------ MODULE Sessions ------------------------------
(***************************************************************************)
(* Interactive sessions and the invites that start them.  The console      *)
(* process owns detached sessions and relays their terminal to a browser;  *)
(* a command-line process owns each attached one.  They share state.json,  *)
(* which holds the session registry and the invites and which every writer *)
(* loads, changes and saves whole, without a lock: a load and its save are *)
(* two steps, and what another writer saved in between is covered.         *)
(*                                                                         *)
(* Several guarantees hold only outside windows the code leaves open.  The *)
(* variable "windows" records the ones a behaviour went through, so that   *)
(* each property names exactly the windows it depends on.                  *)
(***************************************************************************)
EXTENDS Naturals, Sequences, FiniteSets

CONSTANTS
    SessionIds,  \* sessions that may be started
    NoSession,
    Setups,      \* who starts which session, and who else is about
    MaxEvents,   \* bound: events the runtime handles
    MaxOutput,   \* bound: chunks of terminal output
    Capacity     \* chunks a viewer's channel holds

\* A session starts from an invite or continues an earlier session: "source",
\* where NoSession is one that ended long ago.
Setup == [origin : [SessionIds -> {"accept", "resume", "unused"}],
          source : [SessionIds -> SessionIds \cup {NoSession}],
          detached : [SessionIds -> BOOLEAN],
          others : SUBSET (({"remover", "stopper"} \X SessionIds)
                           \cup {"keeper", "viewer"} \X {NoSession}),
          events : 0..MaxEvents]

ASSUME SetupAssumption ==
    /\ NoSession \notin SessionIds
    /\ Setups \subseteq Setup
    /\ \A u \in Setups, s \in SessionIds :
          u.origin[s] = "resume" /\ u.source[s] # NoSession => u.origin[u.source[s]] = "accept"
    /\ \A u \in Setups :  \* only a detached session has a hub to watch
          <<"viewer", NoSession>> \in u.others => \E s \in SessionIds : u.detached[s]

\* The code that writes state.json, and those who wait for a session's end.
Caller(s) == <<"caller", s>>      \* the accept or resume that launches it
Waiter(s) == <<"waiter", s>>      \* waitSession and finishSession
Remover(s) == <<"remover", s>>    \* StopRemote, from another process
Stopper(s) == <<"stopper", s>>    \* Stop, in its own process
Runtime == <<"runtime", NoSession>>
Keeper == <<"keeper", NoSession>> \* the operator declining the invite
Viewer == <<"viewer", NoSession>> \* a browser
Workers == ({"caller", "waiter", "remover", "stopper"} \X SessionIds) \cup {Runtime, Keeper}

Invite == [status : {"pending", "accepted", "cancelled", "completed", "incomplete"},
           session : SessionIds \cup {NoSession}]
File == [sessions : SUBSET SessionIds, invite : Invite]
NoInvite == [status |-> "none", session |-> NoSession]
NoFile == [sessions |-> {}, invite |-> NoInvite]

Windows == {"lost",       \* a save covered a change its writer had not read
            "failed",     \* a load or save of state.json failed
            "overlap",    \* a start was under way when another was checked
            "reopened",   \* an answered invite was projected as pending again
            "late",       \* an acceptance was recorded after the session's end
            "signalled"}  \* a session was unregistered with its process alive

VARIABLES
    setup,      \* the actors considered
    file,       \* state.json
    at,         \* each worker's next step
    loaded,     \* what each worker loaded and has not saved
    copy,       \* the invite entry each worker read earlier
    events,     \* how many events the runtime handled
    proc,       \* the agent process of each session
    managed,    \* the sessions in their manager's map
    ended,      \* the sessions whose outcome is written
    done,       \* the sessions whose done channel is closed
    hub,        \* the terminal hub of each session
    output,     \* chunks the viewed session's hub broadcast
    viewer,     \* the browser's relay
    windows     \* history: the windows gone through

sessionVars == <<setup, file, at, loaded, copy, events, proc, managed, ended, done, hub,
                 output, viewer, windows>>

disk == <<file, loaded, copy, windows>>
life == <<proc, managed, ended, done, hub>>
screen == <<output, viewer>>

SessionInit ==
    /\ setup \in Setups
    /\ file = [sessions |-> {}, invite |-> [status |-> "pending", session |-> NoSession]]
    /\ at = [w \in Workers |-> "idle"]
    /\ loaded = [w \in Workers |-> NoFile]
    /\ copy = [w \in Workers |-> NoInvite]
    /\ events = 0
    /\ proc = [s \in SessionIds |-> "none"]
    /\ managed = {} /\ ended = {} /\ done = {}
    /\ hub = [s \in SessionIds |-> "none"]
    /\ output = 0
    /\ viewer = [at |-> "idle", open |-> FALSE, chan |-> <<>>, seen |-> {}, dropped |-> {}]
    /\ windows = {}

In(q) == {q[i] : i \in 1..Len(q)}
Goes(w, from, to) == at[w] = from /\ at' = [at EXCEPT ![w] = to]
Through(names) == windows' = windows \cup names

-----------------------------------------------------------------------------
(* state.json *)

Load(w) ==
    /\ loaded' = [loaded EXCEPT ![w] = file]
    /\ UNCHANGED <<file, copy, windows>>

Lost(w) == IF file # loaded[w] THEN {"lost"} ELSE {}

Store(w, new, opened) ==
    /\ file' = new
    /\ loaded' = [loaded EXCEPT ![w] = NoFile]
    /\ Through(opened \cup Lost(w))

Save(w, new, opened) == Store(w, new, opened) /\ UNCHANGED copy

\* An upsert stores a whole entry, built from the copy its writer read earlier.
Upsert(w, entry, opened) ==
    /\ Store(w, [loaded[w] EXCEPT !.invite = entry],
             opened \cup IF loaded[w].invite # copy[w] THEN {"lost"} ELSE {})
    /\ copy' = [copy EXCEPT ![w] = NoInvite]

FindInvite(w) ==
    /\ copy' = [copy EXCEPT ![w] = file.invite]
    /\ UNCHANGED <<file, loaded>>

\* A failed load or save changes nothing; one is enough to see what follows.
Fails(w, from, to) ==
    /\ "failed" \notin windows
    /\ Goes(w, from, to)
    /\ Through({"failed"})
    /\ loaded' = [loaded EXCEPT ![w] = NoFile] /\ copy' = [copy EXCEPT ![w] = NoInvite]
    /\ UNCHANGED <<setup, file, events, screen>>

-----------------------------------------------------------------------------
(* Starting a session *)

Accepting(t) ==
    /\ setup.origin[t] = "accept"
    /\ at[Caller(t)] \notin {"idle", "refused", "hung", "returned"}

Start(s, origin) ==
    /\ setup.origin[s] = origin
    /\ UNCHANGED <<setup, events, life, screen>>

\* Fault: an invite is accepted whatever its status.
AcceptFind_Unchecked(s) ==
    /\ Start(s, "accept")
    /\ FindInvite(Caller(s))
    /\ Goes(Caller(s), "idle", "announce")
    /\ Through(IF \E t \in SessionIds : Accepting(t) THEN {"overlap"} ELSE {})

AcceptFind(s) ==
    /\ Start(s, "accept")
    /\ IF file.invite.status = "pending"
       THEN /\ FindInvite(Caller(s))
            /\ Goes(Caller(s), "idle", "announce")
            /\ Through(IF \E t \in SessionIds : Accepting(t) THEN {"overlap"} ELSE {})
       ELSE Goes(Caller(s), "idle", "refused") /\ UNCHANGED disk

\* The honey is charged and the acceptance announced, before anything starts.
AcceptAnnounce(s) ==
    /\ Start(s, "accept")
    /\ \E to \in {"launch", "refused"} : Goes(Caller(s), "announce", to)
    /\ UNCHANGED disk

\* Sessions that share a provider session share its conversation.
Provider(s) == IF setup.origin[s] = "accept" THEN s ELSE setup.source[s]
Siblings(s) == {t \in SessionIds \ {s} : setup.origin[t] # "unused" /\ Provider(t) = Provider(s)}
SameProcess(s, t) == setup.detached[s] /\ setup.detached[t]

\* Fault: only the sessions of one's own process are asked.
SeenLive_InProcess(s, t) == SameProcess(s, t) /\ t \in managed

\* A sibling is seen in the manager's own map, or in the registry with a live
\* process.
SeenLive(s, t) ==
    \/ SameProcess(s, t) /\ t \in managed
    \/ t \in file.sessions /\ proc[t] = "alive"

Launching(t) == at[Caller(t)] \in {"launch", "register", "registering"}

\* A source that was never started cannot be named.
ResumeCheck(s) ==
    /\ Start(s, "resume")
    /\ setup.source[s] # NoSession => proc[setup.source[s]] # "none"
    /\ IF \E t \in Siblings(s) : SeenLive(s, t)
       THEN Goes(Caller(s), "idle", "refused") /\ UNCHANGED windows
       ELSE /\ Goes(Caller(s), "idle", "launch")
            /\ Through(IF \E t \in Siblings(s) : Launching(t) THEN {"overlap"} ELSE {})
    /\ UNCHANGED <<file, loaded, copy>>

\* A dropped, unfinished or killed trail, a configuration change under way or a
\* missing piece of configuration refuses the launch before anything runs.
LaunchRefused(s) ==
    /\ Goes(Caller(s), "launch", "refused")
    /\ UNCHANGED <<setup, disk, events, life, screen>>

\* The terminal is started and the session entered into the manager's map.
LaunchSession(s) ==
    /\ Goes(Caller(s), "launch", "register")
    /\ proc' = [proc EXCEPT ![s] = "alive"]
    /\ managed' = managed \cup {s}
    /\ UNCHANGED <<setup, disk, events, ended, done, hub, screen>>

RegisterLoad(s) ==
    /\ Goes(Caller(s), "register", "registering")
    /\ Load(Caller(s))
    /\ UNCHANGED <<setup, events, life, screen>>

\* Registered, the session gets its waiter.
RegisterSave(s) ==
    /\ at[Caller(s)] = "registering"
    /\ at' = [at EXCEPT ![Caller(s)] = IF setup.detached[s] THEN "hub" ELSE "attached",
                        ![Waiter(s)] = "wait"]
    /\ Save(Caller(s), [loaded[Caller(s)] EXCEPT !.sessions = @ \cup {s}], {})
    /\ UNCHANGED <<setup, events, life, screen>>

\* Registration fails: launch stops the session and waits for a waiter that was
\* never started.
RegisterFails(s) ==
    /\ \E from \in {"register", "registering"} : Fails(Caller(s), from, "hung")
    /\ proc' = [proc EXCEPT ![s] = "dead"]
    /\ UNCHANGED <<managed, ended, done, hub>>

Recording(s) == IF setup.origin[s] = "accept" THEN "record" ELSE "returned"

\* A detached session gets its hub only if it is still the manager's.
OpenHub(s) ==
    /\ Goes(Caller(s), "hub", Recording(s))
    /\ hub' = IF s \in managed THEN [hub EXCEPT ![s] = "open"] ELSE hub
    /\ UNCHANGED <<setup, disk, events, proc, managed, ended, done, screen>>

\* An attached terminal keeps its caller until the session is finished.
AttachedReturns(s) ==
    /\ s \in done
    /\ Goes(Caller(s), "attached", Recording(s))
    /\ UNCHANGED <<setup, disk, events, life, screen>>

RecordLoad(s) ==
    /\ Goes(Caller(s), "record", "recording")
    /\ Load(Caller(s))
    /\ UNCHANGED <<setup, events, life, screen>>

\* The waiter has already looked for the invite of its session.
Closed(s) == at[Waiter(s)] \in {"forget", "close", "end"}

RecordSave(s) ==
    /\ Goes(Caller(s), "recording", "returned")
    /\ Upsert(Caller(s), [status |-> "accepted", session |-> s],
              IF Closed(s) THEN {"late"} ELSE {})
    /\ UNCHANGED <<setup, events, life, screen>>

RecordFails(s) ==
    /\ \E from \in {"record", "recording"} : Fails(Caller(s), from, "returned")
    /\ UNCHANGED life

-----------------------------------------------------------------------------
(* The end of a session *)

ProcessExits(s) ==
    /\ proc[s] = "alive"
    /\ proc' = [proc EXCEPT ![s] = "dead"]
    /\ UNCHANGED <<setup, disk, at, events, managed, ended, done, hub, screen>>

\* Fault: a session already taken off the registry is left as it is.
WriteOutcome_Unregistered(s) ==
    /\ proc[s] = "dead"
    /\ \/ s \in file.sessions /\ Goes(Waiter(s), "wait", "unregister")
       \/ s \notin file.sessions /\ Goes(Waiter(s), "wait", "end")
    /\ ended' = ended \cup {s}
    /\ UNCHANGED <<setup, disk, events, proc, managed, done, hub, screen>>

\* The outcome, the run's events and its proposal are written first.
WriteOutcome(s) ==
    /\ proc[s] = "dead"
    /\ Goes(Waiter(s), "wait", "unregister")
    /\ ended' = ended \cup {s}
    /\ UNCHANGED <<setup, disk, events, proc, managed, done, hub, screen>>

\* The waiter and a remote stop take the session off the registry, then close
\* its invite, with the same code; neither looks at an error.
After(w) == IF w[1] = "waiter" THEN "forget" ELSE "end"

UnregisterLoad(s, w) ==
    /\ Goes(w, "unregister", "unregistering")
    /\ Load(w)
    /\ UNCHANGED <<setup, events, life, screen>>

\* Fault: a session found unregistered needs no closing.
UnregisterSave_NothingLeft(s, w) ==
    /\ Goes(w, "unregistering", IF s \in loaded[w].sessions THEN "mark" ELSE After(w))
    /\ Save(w, [loaded[w] EXCEPT !.sessions = @ \ {s}], {})
    /\ UNCHANGED <<setup, events, life, screen>>

UnregisterSave(s, w) ==
    /\ Goes(w, "unregistering", "mark")
    /\ Save(w, [loaded[w] EXCEPT !.sessions = @ \ {s}], {})
    /\ UNCHANGED <<setup, events, life, screen>>

UnregisterFails(s, w) ==
    /\ \E from \in {"unregister", "unregistering"} : Fails(w, from, "mark")
    /\ UNCHANGED life

\* Only an invite still accepted by this very session is marked incomplete.
MarkFind(s, w) ==
    /\ IF file.invite.session = s /\ file.invite.status = "accepted"
       THEN FindInvite(w) /\ Goes(w, "mark", "markLoad")
       ELSE Goes(w, "mark", After(w)) /\ UNCHANGED <<file, loaded, copy>>
    /\ UNCHANGED <<setup, windows, events, life, screen>>

MarkLoad(s, w) ==
    /\ Goes(w, "markLoad", "marking")
    /\ Load(w)
    /\ UNCHANGED <<setup, events, life, screen>>

MarkSave(s, w) ==
    /\ Goes(w, "marking", After(w))
    /\ Upsert(w, [copy[w] EXCEPT !.status = "incomplete"], {})
    /\ UNCHANGED <<setup, events, life, screen>>

MarkFails(s, w) ==
    /\ \E from \in {"mark", "markLoad", "marking"} : Fails(w, from, After(w))
    /\ UNCHANGED life

Forget(s) ==
    /\ Goes(Waiter(s), "forget", "close")
    /\ managed' = managed \ {s}
    /\ UNCHANGED <<setup, disk, events, proc, ended, done, hub, screen>>

CloseDone(s) ==
    /\ Goes(Waiter(s), "close", "end")
    /\ done' = done \cup {s}
    /\ UNCHANGED <<setup, disk, events, proc, managed, ended, hub, screen>>

\* A stop in the session's own process kills the agent and waits for its end.
Stop(s) ==
    /\ Stopper(s) \in setup.others /\ s \in managed
    /\ Goes(Stopper(s), "idle", "waiting")
    /\ proc' = [proc EXCEPT ![s] = "dead"]
    /\ UNCHANGED <<setup, disk, events, managed, ended, done, hub, screen>>

StopReturns(s) ==
    /\ s \in done
    /\ Goes(Stopper(s), "waiting", "returned")
    /\ UNCHANGED <<setup, disk, events, life, screen>>

\* A stop from another process signals the agent, which may take its time, and
\* takes the session off the registry at once.
StopRemote(s) ==
    /\ Remover(s) \in setup.others /\ s \in file.sessions
    /\ IF proc[s] = "alive"
       THEN Goes(Remover(s), "idle", "unregister") /\ Through({"signalled"})
       ELSE Goes(Remover(s), "idle", "end") /\ UNCHANGED windows
    /\ UNCHANGED <<setup, file, loaded, copy, events, life, screen>>

-----------------------------------------------------------------------------
(* The other writers of the invite *)

RuntimeTurn(from, to) ==
    /\ Goes(Runtime, from, to)
    /\ UNCHANGED <<setup, life, screen>>

\* A delivered session.invite is stored as it was published: pending, and of no
\* session, though a redelivery may find it answered.
ProjectLoad ==
    /\ events < setup.events /\ events' = events + 1
    /\ RuntimeTurn("idle", "projecting")
    /\ Load(Runtime)

ProjectSave ==
    /\ RuntimeTurn("projecting", "idle")
    /\ Save(Runtime, [loaded[Runtime] EXCEPT !.invite =
                          [status |-> "pending", session |-> NoSession]],
            IF loaded[Runtime].invite.status # "pending" THEN {"reopened"} ELSE {})
    /\ UNCHANGED events

\* An event that matches the invite's done_when.
CompleteFind ==
    /\ events < setup.events /\ events' = events + 1
    /\ file.invite.status \in {"accepted", "incomplete"}
    /\ RuntimeTurn("idle", "complete")
    /\ FindInvite(Runtime)
    /\ UNCHANGED windows

CompleteLoad ==
    /\ RuntimeTurn("complete", "completing")
    /\ Load(Runtime)
    /\ UNCHANGED events

\* Completed if the required file is there.
CompleteSave ==
    /\ RuntimeTurn("completing", "idle")
    /\ \E status \in {"completed", "incomplete"} :
          Upsert(Runtime, [copy[Runtime] EXCEPT !.status = status], {})
    /\ UNCHANGED events

\* The operator declines: the answer is announced, then stored.
RejectFind ==
    /\ Keeper \in setup.others /\ file.invite.status = "pending"
    /\ Goes(Keeper, "idle", "announce")
    /\ FindInvite(Keeper)
    /\ UNCHANGED <<setup, windows, events, life, screen>>

RejectLoad ==
    /\ \/ Goes(Keeper, "announce", "refused") /\ UNCHANGED disk
       \/ Goes(Keeper, "announce", "storing") /\ Load(Keeper)
    /\ UNCHANGED <<setup, events, life, screen>>

RejectSave ==
    /\ Goes(Keeper, "storing", "end")
    /\ Upsert(Keeper, [copy[Keeper] EXCEPT !.status = "cancelled"], {})
    /\ UNCHANGED <<setup, events, life, screen>>

-----------------------------------------------------------------------------
(* The terminal hub of the viewed session, and the browser that watches it *)

Viewed == CHOOSE s \in SessionIds : setup.detached[s]

\* Under the hub's lock a chunk enters the scrollback and every open channel; a
\* full channel drops it.
Broadcast ==
    /\ Viewer \in setup.others /\ hub[Viewed] = "open" /\ output < MaxOutput
    /\ output' = output + 1
    /\ viewer' =
          IF ~viewer.open THEN viewer
          ELSE IF Len(viewer.chan) < Capacity
               THEN [viewer EXCEPT !.chan = Append(viewer.chan, output')]
               ELSE [viewer EXCEPT !.dropped = viewer.dropped \cup {output'}]
    /\ UNCHANGED <<setup, disk, at, events, life>>

\* The terminal's end closes the hub and every channel subscribed so far.
CloseHub(s) ==
    /\ hub[s] = "open" /\ proc[s] = "dead"
    /\ hub' = [hub EXCEPT ![s] = "closed"]
    /\ viewer' = IF s = Viewed THEN [viewer EXCEPT !.open = FALSE] ELSE viewer
    /\ UNCHANGED <<setup, disk, at, events, proc, managed, ended, done, output>>

Relay(from, new) ==
    /\ Viewer \in setup.others
    /\ viewer.at = from
    /\ viewer' = new
    /\ UNCHANGED <<setup, disk, at, events, life, output>>

AttachPTY ==
    Relay("idle", [viewer EXCEPT !.at = IF Viewed \in managed THEN "found" ELSE "gone"])

\* Fault: the scrollback is copied before the channel is subscribed.
Subscribe_Late ==
    \/ hub[Viewed] # "none"
       /\ Relay("found", [viewer EXCEPT !.at = "copied", !.seen = 1..output])
    \/ Relay("copied", [viewer EXCEPT !.at = "watch", !.open = TRUE])

\* The session was looked up before: its hub may be missing, or closed by now.
Subscribe ==
    Relay("found", IF hub[Viewed] = "none" THEN [viewer EXCEPT !.at = "gone"]
                   ELSE [viewer EXCEPT !.at = "scroll", !.open = TRUE])

Scrollback == Relay("scroll", [viewer EXCEPT !.at = "watch", !.seen = 1..output])

Receive ==
    /\ viewer.chan # <<>>
    /\ Relay("watch", [viewer EXCEPT !.seen = viewer.seen \cup {Head(viewer.chan)},
                                     !.chan = Tail(viewer.chan)])

\* Done may be taken with chunks still in the channel.
SeeDone ==
    /\ Viewed \in done
    /\ Relay("watch", [viewer EXCEPT !.at = "gone", !.open = FALSE])

Disconnect == Relay("watch", [viewer EXCEPT !.at = "gone", !.open = FALSE])

-----------------------------------------------------------------------------

Call(s) ==
    \/ AcceptFind(s) \/ AcceptAnnounce(s) \/ ResumeCheck(s)
    \/ LaunchRefused(s) \/ LaunchSession(s) \/ RegisterLoad(s) \/ RegisterSave(s) \/ RegisterFails(s)
    \/ OpenHub(s) \/ AttachedReturns(s)
    \/ RecordLoad(s) \/ RecordSave(s) \/ RecordFails(s)

Closing(s, w) ==
    \/ UnregisterLoad(s, w) \/ UnregisterSave(s, w) \/ UnregisterFails(s, w)
    \/ MarkFind(s, w) \/ MarkLoad(s, w) \/ MarkSave(s, w) \/ MarkFails(s, w)

Wait(s) == WriteOutcome(s) \/ Closing(s, Waiter(s)) \/ Forget(s) \/ CloseDone(s)

React == ProjectLoad \/ ProjectSave \/ CompleteFind \/ CompleteLoad \/ CompleteSave
Reject == RejectFind \/ RejectLoad \/ RejectSave
View == AttachPTY \/ Subscribe \/ Scrollback \/ Receive \/ SeeDone \/ Disconnect

SessionNext ==
    \/ \E s \in SessionIds :
          \/ Call(s) \/ ProcessExits(s) \/ Wait(s)
          \/ Stop(s) \/ StopReturns(s)
          \/ StopRemote(s) \/ Closing(s, Remover(s))
          \/ CloseHub(s)
    \/ React \/ Reject
    \/ Broadcast \/ View

\* Goroutines of a live process are scheduled; nothing makes an agent exit, an
\* operator call or an event arrive.
Fairness ==
    /\ \A s \in SessionIds : /\ WF_sessionVars(Wait(s))
                             /\ WF_sessionVars(RegisterLoad(s) \/ RegisterSave(s))
                             /\ WF_sessionVars(StopReturns(s) \/ AttachedReturns(s))
    /\ WF_sessionVars(SeeDone)

SessionSpec == SessionInit /\ [][SessionNext]_sessionVars /\ Fairness

-----------------------------------------------------------------------------
(* Properties *)

SessionTypeOK ==
    /\ file \in File
    /\ managed \subseteq SessionIds /\ ended \subseteq SessionIds /\ done \subseteq SessionIds
    /\ proc \in [SessionIds -> {"none", "alive", "dead"}]
    /\ hub \in [SessionIds -> {"none", "open", "closed"}]
    /\ windows \subseteq Windows

SessionStarted(s) == proc[s] # "none"
Outside(names) == windows \cap names = {}

\* An invite starts one session (service.go:39-90): a second accept is refused,
\* unless it was checked while the first was still under way - for an attached
\* terminal, as long as its session runs -, the runtime projected the invite
\* again, or the acceptance was lost or never saved.
OneSessionPerInvite ==
    Outside({"overlap", "reopened", "lost", "failed"}) =>
        Cardinality({s \in SessionIds : setup.origin[s] = "accept" /\ SessionStarted(s)}) <= 1

\* Two live sessions never fight over one provider session (resume.go:272-324;
\* docs/specs/025-cursor-session-resume.md:58), across processes too, unless
\* the other was still being launched, was taken off the registry while it
\* lived, or its registration was lost.
OneLiveContinuation ==
    Outside({"overlap", "signalled", "lost", "failed"}) =>
        \A s \in SessionIds : \A t \in Siblings(s) : {proc[s], proc[t]} # {"alive"}

\* Session end marks an accepted invite incomplete
\* (docs/specs/006-human-gateway-invites.md:61; state.go:461-471): nothing stays
\* accepted by a finished session, unless the acceptance was recorded after the
\* end - always so for an attached terminal -, or an unlocked save was lost.
AcceptedIsLive ==
    Outside({"late", "lost", "failed"}) /\ file.invite.status = "accepted"
        => file.invite.session \notin done

\* A browser misses no output (pty_relay.go:48-100): what was broadcast was in
\* the scrollback it got, is in its channel, or was dropped by a full channel.
NothingUnseen ==
    viewer.at = "watch" => 1..output \subseteq viewer.seen \cup In(viewer.chan) \cup viewer.dropped

\* Nobody waits for ever on a session whose process is dead: it becomes done, a
\* stop and an attached caller return and a browser is told, even one that
\* subscribed to a closed hub (manager.go:744-940, pty_relay.go:86-93) - unless
\* the launch could not register the session.
Released(s) ==
    \/ at[Caller(s)] = "hung"
    \/ /\ s \in done
       /\ at[Stopper(s)] # "waiting" /\ at[Caller(s)] # "attached"
       /\ s = Viewed => viewer.at # "watch"

WaitersReturn == []<>(\A s \in SessionIds : proc[s] = "dead" => Released(s))
=============================================================================
