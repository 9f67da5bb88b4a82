---------------------------- MODULE DirectChecks ----------------------------
(***************************************************************************)
(* What direct reactions promise, evaluated over every short history of a  *)
(* trail: deliveries and redeliveries, restarts, top-ups, a held change of *)
(* the configuration, rework and a kill.                                   *)
(***************************************************************************)
EXTENDS Integers, FiniteSets, Sequences, TLC

LOCAL Direct == INSTANCE DirectDispatch WITH
    Seconds <- [d \in {"90s"} |-> 90],
    Qualified <- [m \in {"acme/m1"} |-> <<"acme", "m1">>],
    PrefixedNames <- {}, ShapedNames <- {"a"}, LongTexts <- {},
    MaxSkillsPerRole <- 1, MaxSkillFileBytes <- 1, MaxStoreBytes <- 1,
    PathOrder <- <<"SKILL.md">>, TrailTokens <- {"t1"},
    CleanPath <- [p \in {"SKILL.md"} |-> p],
    StrayNames <- {}, SectorPaths <- [p \in {"src/web"} |-> p]

LOCAL Rule(type, kind, purpose) == [type |-> type, kind |-> kind, dispatch |-> "", purpose |-> purpose]
LOCAL Pub(type, kind) == [type |-> type, kind |-> kind]
LOCAL Bee(subscribes, publishes, worktree) ==
    [subscribes |-> subscribes, publishes |-> publishes, worktree |-> worktree, run_summary |-> ""]

-----------------------------------------------------------------------------
(* The colony, before and after the change of its configuration *)

LOCAL Sentry == Bee({Rule("MUTATION", "code.proposal", "")}, {}, TRUE)
LOCAL Second == Bee({Rule("MUTATION", "", ""), Rule("VERIFICATION", "", "")}, {}, TRUE)
LOCAL Analyst == Bee({Rule("SIGNAL", Direct!TrailWorkCompleted, "analysis")}, {}, FALSE)
LOCAL Watcher == Bee({Rule("SIGNAL", "", "")}, {}, FALSE)
LOCAL Before == [guard |-> Sentry, second |-> Second, analyst |-> Analyst, watcher |-> Watcher]
LOCAL After == [guard |-> Sentry, analyst |-> Analyst]
LOCAL Colony(outcome) ==
    [bees |-> [live |-> Before, r1 |-> Before, r2 |-> After],
     order |-> <<"analyst", "guard", "second", "watcher">>,
     agents |-> [a1 |-> "builder", a2 |-> "watcher"],
     outcome |-> [b \in DOMAIN Before |-> outcome]]

LOCAL Event(seq, type, kind, task, agent, attempt) ==
    [seq |-> seq, at |-> 1, type |-> type, kind |-> kind, task |-> task, agent |-> agent,
     attempt |-> attempt, completion |-> "", sector |-> ""]
LOCAL Milestone ==
    [Event(3, "SIGNAL", Direct!TrailWorkCompleted, "", "runtime", 0) EXCEPT !.completion = "done"]
LOCAL Deliverable ==
    {Event(1, "MUTATION", "code.proposal", "k", "a1", 0),
     Event(2, "MUTATION", "code.proposal", "k", "a1", 1),
     Milestone, [Milestone EXCEPT !.seq = 0, !.completion = ""],
     Event(4, "VERIFICATION", "verification.success", "k", "runtime", 0),
     Event(5, "SIGNAL", "task.ready", "k", "runtime", 0),
     Event(6, "SIGNAL", "note", "", "a2", 0), Event(0, "SIGNAL", "note", "", "a1", 9),
     Event(7, "SIGNAL", "trail.fork.approve", "", "a1", 0)}

LOCAL Fresh ==
    {[killed |-> FALSE, honey |-> h, bound |-> b, active |-> "r1", pending |-> p,
      attempts |-> IF b THEN <<Direct!NewTaskAttempt("k", "r1")>> ELSE <<>>,
      processed |-> {}, analyses |-> <<>>, deferred |-> <<>>, runs |-> <<>>] :
        h \in {0, 3}, b \in BOOLEAN, p \in BOOLEAN}

\* Another turn of the task under what is active, and its end.
LOCAL Rework(s) == [s EXCEPT !.attempts = Append(@, Direct!NewTaskAttempt("k", s.active))]
LOCAL Close(s) == [s EXCEPT !.attempts = [i \in DOMAIN @ |-> [@[i] EXCEPT !.open = FALSE]]]
LOCAL Kill(s) == [Close(s) EXCEPT !.killed = TRUE, !.pending = FALSE, !.deferred = <<>>]

LOCAL Steps(s, w) ==
    {Direct!ExecuteDispatches(s, w, ev) : ev \in Deliverable}
    \cup {[s EXCEPT !.processed = {}], Kill(s),
          Direct!ResumePendingDispatches([s EXCEPT !.honey = @ + 1], w)}
    \cup {[s EXCEPT !.pending = TRUE] : x \in {x \in {1} : s.bound}}
    \cup {Direct!ResumeBarrierHeldDispatches([s EXCEPT !.pending = FALSE, !.active = "r2"], w) :
            x \in {x \in {1} : s.pending}}
    \cup {Close(s)} \cup {Rework(s) : x \in {x \in {1} : s.bound}}
LOCAL Grow(states, w) == states \cup UNION {Steps(s, w) : s \in states}
LOCAL Possible == {s \in Fresh : s.pending => s.bound}
LOCAL Histories(w) == Grow(Grow(Grow(Possible, w), w), w)

\* Direct reactions over every history of three steps, however a run ends.
ASSUME ReactionsAreHonest ==
    \A outcome \in {"completed", "error", "crash"} :
        LET w == Colony(outcome)
        IN  \A s \in Histories(w) :
                /\ Direct!AnalysisRunsOnce(s)
                /\ Direct!DeferredAnalysisRuns(s, w)
                /\ Direct!RunsAreOwned(s, w)
                /\ \A ev \in Deliverable :
                      /\ Direct!LateEventsDoNothing(s, w, ev)
                      /\ Direct!EventsHaveOneConfiguration(s, ev)
                      /\ Direct!RedeliveryIsQuiet(s, w, ev)

\* An analysis that a change of the configuration held is run as work
\* (resumeBarrierHeldDispatches), though a reaction without a milestone "fails
\* closed instead of being recorded as unlabelled work" (dispatchReaction).
ASSUME HeldAnalysisIsWork ==
    \E s \in Histories(Colony("completed")) : \E i \in DOMAIN s.runs :
        s.runs[i].bee = "analyst" /\ s.runs[i].purpose = "work"

-----------------------------------------------------------------------------
(* Proposals and summaries *)

LOCAL Proposals ==
    {Pub("MUTATION", k) : k \in {"", "code.proposal", "code.proposal.isolated", "code.proposal.root"}}
LOCAL Authors == {Bee({}, p, t) : p \in SUBSET Proposals, t \in BOOLEAN}
LOCAL Reviewers ==
    {Bee({Rule("MUTATION", k, "")}, {}, t) :
        k \in {"", "code.proposal", "code.proposal.root"}, t \in BOOLEAN}
LOCAL Manifest == [sectors |-> [web |-> "src/web", odd |-> "../up"]]

\* A reviewer stands where the proposal was made.
ASSUME ReviewersStand ==
    \A a \in Authors, r \in Reviewers, root \in {"", "colony", "fork"}, sector \in {"", "web", "odd"},
       dirs \in {{}, {"colony", "worktree", "fork"} \X {"src/web"}} :
        Direct!ReviewersStandWithAuthor([author |-> a, reviewer |-> r], [workspace |-> root], Manifest,
                                        dirs, sector)

\* The runtime speaks for a bee as the bee declared.
ASSUME SynthesisIsDeclared ==
    \A pubs \in SUBSET (Proposals \cup {Pub("INSIGHT", "run.summary"), Pub("SIGNAL", "")}),
       t \in BOOLEAN, summary \in {"", "disabled"} :
        Direct!SynthesizedIsDeclared([author |-> [Bee({}, pubs, t) EXCEPT !.run_summary = summary]], "author")

-----------------------------------------------------------------------------
(* Invites *)

LOCAL Ask(bee, task, dedupe) ==
    [when |-> Rule("SIGNAL", "note", ""), match |-> <<>>, status |-> "", dedupe |-> dedupe,
     bee |-> bee, intent |-> [from |-> "intent", default |-> "fix"],
     artifactRef |-> [from |-> "ref", default |-> ""], task |-> task]
LOCAL Task(from, default) ==
    [from_trace_kind |-> "", from_trace_field |-> "", from |-> from, fallback_from |-> "",
     default |-> default, prefix |-> ""]
LOCAL Rules ==
    {Ask([from |-> f, default |-> d], t, k) :
        f \in {"", "bee"}, d \in {"", "queen"}, t \in {Task("", "talk"), Task("text", "")},
        k \in {{}, {"bee"}, {"bee", "artifactRef"}}}
LOCAL Notes ==
    {[type |-> "SIGNAL", kind |-> "note", payload |-> p] :
        p \in {<<>>, [bee |-> "scout"], [text |-> "hello", ref |-> "r"], [intent |-> "plan", text |-> "hi"]}}

\* An event that is delivered again invites nobody again.
ASSUME InvitesAreFew ==
    \A r1, r2 \in Rules, ev, other \in Notes :
        LET pending == Direct!AutoInviteFromEvent(other, <<r1, r2>>, <<>>, <<>>)
        IN  Direct!InvitesDoNotPile(ev, <<r1, r2>>, pending, <<>>)
=============================================================================
