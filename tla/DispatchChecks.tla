--------------------------- MODULE DispatchChecks ---------------------------
(***************************************************************************)
(* What the launch and dispatch modules promise, evaluated over small      *)
(* bees, machines, trails and requests.                                    *)
(***************************************************************************)
EXTENDS Integers, FiniteSets, Sequences, TLC

LOCAL Run == INSTANCE DispatchPlan WITH
    Seconds <- [d \in {"90s"} |-> 90],
    Qualified <- [m \in {"acme/m1"} |-> <<"acme", "m1">>],
    PrefixedNames <- {"LC_ALL", "PASEKA_BEE"},
    ShapedNames <- {"a", "b"}, LongTexts <- {},
    MaxSkillsPerRole <- 2, MaxSkillFileBytes <- 2, MaxStoreBytes <- 9,
    PathOrder <- <<"SKILL.md", "notes">>, TrailTokens <- {"t1"},
    CleanPath <- [p \in {"SKILL.md"} |-> p],
    StrayNames <- {"README"},
    SectorPaths <- [p \in {".", "src/web"} |-> IF p = "." THEN "" ELSE p]

LOCAL Str(s) == <<"string", s>>
LOCAL Bool(b) == <<"bool", b>>

-----------------------------------------------------------------------------
(* Launch *)

LOCAL Params ==
    {m @@ y @@ b @@ t :
        m \in {<<>>, [model |-> Str("fast")], [model |-> Str("m3")], [model |-> Str("")],
               [model |-> Str("m3"), provider |-> Str("acme")], [model |-> Str("acme/m1"), provider |-> Str("other")],
               [provider |-> Str("acme")]},
        y \in {<<>>, [yolo |-> Bool(FALSE)], [trust |-> Bool(FALSE)], [reasoning |-> Str("high")]},
        b \in {<<>>, [binary |-> Str("")], [binary |-> Str("mine")]},
        t \in {<<>>, [timeout |-> Str("90s"), plan |-> Bool(TRUE)], [env_mode |-> Str("strict")]}}
LOCAL Layer(adapter, file) ==
    Run!AdapterExtraLayer(Run!LoadAdapter(adapter, file), adapter, [n \in {"CURSOR_API_KEY"} |-> "secret"])
LOCAL MachineFiles == {Run!NoFile, [Run!NoFile EXCEPT !.binary = "theirs", !.version = "2"]}
LOCAL Request(adapter, params, command, file, aliases, resume) ==
    [adapter |-> adapter, workspace |-> "colony", mode |-> "afk", resume |-> resume,
     bee |-> [params |-> params, command |-> command], extra |-> Layer(adapter, file),
     aliases |-> aliases, system |-> "be kind", prompt |-> "do it",
     host |-> [HOME |-> "h", SECRET |-> "s", LC_ALL |-> "c"],
     run |-> [n \in {"PASEKA_BEE", "PASEKA_TASK_ID"} |-> IF n = "PASEKA_BEE" THEN "author" ELSE ""]]

\* The report of a launch names the layer that decided.
ASSUME AttributionsAreTrue ==
    \A a \in {"cursor", "pi", "claude", "opencodev2"}, p \in Params, f \in MachineFiles,
       al \in {<<>>, [fast |-> "acme/m1"]} :
        Run!AttributionIsTrue(Request(a, p, FALSE, f, al, FALSE))

\* The deprecated provider key can be replaced as the warning says.
ASSUME AdviceIsGood ==
    \A a \in Run!LLMAdapters : Run!AdviceIsSound(a, "acme/m1")

\* A strict child is closed, whatever the bee, the host and the run have.
ASSUME EnvironmentsAreClosed ==
    \A a \in {"cursor", "claude", "script"}, mode \in {"", "strict"}, command, resume \in BOOLEAN,
       env \in {<<>>, [TOKEN |-> <<"ref", "SECRET">>], [HOME |-> <<"text", "x">>],
                [CURSOR_API_KEY |-> <<"ref", "NONE">>], [PASEKA_BEE |-> <<"text", "x">>]} :
        Run!EnvironmentIsClosed(Request(a, [env |-> <<"map", env>>, env_mode |-> Str(mode)],
                                        command, Run!NoFile, <<>>, resume))

-----------------------------------------------------------------------------
(* A colony of a writer, a script and a reviewer *)

LOCAL Dir(entries) == [kind |-> "dir", entries |-> entries]
LOCAL File(content) == [kind |-> "file", mode |-> "rw-r", content |-> content]
LOCAL Gate(names) ==
    [present |-> TRUE, refs |-> {[form |-> "name", text |-> n, names |-> {n}] : n \in names}]
LOCAL Bee(role, adapter, worktree) ==
    [role |-> role, adapter |-> adapter, command |-> adapter = "script", params |-> <<>>,
     skills |-> Gate({"a"}), worktree |-> worktree, subscribes |-> {}, publishes |-> {},
     contract |-> [required |-> {}, intents |-> <<>>], run_summary |-> "", checks |-> "none",
     local_keys |-> {}, prompt |-> "", system |-> "", sector |-> "", intents |-> {"fix"},
     default_intent |-> "general", post_exec |-> FALSE]
LOCAL Manifest(prompt, aliases) ==
    [keys |-> {}, auto_invites |-> {}, model_aliases |-> aliases, delivery |-> "",
     slug |-> "colony", nats |-> "local",
     sectors |-> [web |-> "src/web", top |-> ".", odd |-> "../up"], merge |-> "none",
     defaults |-> [bee |-> "writer", skills |-> Run!Inherited, skills_delivery |-> "", prompt |-> prompt,
                   system |-> "", energy_budget |-> 0],
     closing |-> Run!NoClosing]
LOCAL Skill(name) ==
    [size |-> 1, lines |-> <<"text">>,
     doc |-> [front |-> "ok", name |-> name, description |-> "does it", metadata |-> <<>>, body |-> <<"do">>]]
LOCAL Colony(prompt, writer, skills) ==
    [n \in {"root"} |-> Dir([a \in {"colony", "bees", "skills", "prompts"} |-> a])]
    @@ [n \in {"a.md", "b.md"} |-> File(Skill(IF n = "a.md" THEN "a" ELSE "b"))]
    @@ [colony |-> File(Manifest(prompt, [fast |-> "m1"])),
        bees |-> Dir([writer |-> "writer", script |-> "script", reviewer |-> "reviewer"]),
        writer |-> File(writer), script |-> File(Bee("script", "script", TRUE)),
        reviewer |-> File([Bee("reviewer", "claude", FALSE) EXCEPT !.sector = "web", !.skills = Gate({})]),
        prompts |-> Dir([plan |-> "plan", tone |-> "tone"]), plan |-> File("plan"), tone |-> File("tone"),
        skills |-> Dir([s \in skills |-> s]), a |-> Dir([x \in {"SKILL.md"} |-> "a.md"]),
        b |-> Dir([x \in {"SKILL.md"} |-> "b.md"])]
LOCAL Writer == [Bee("writer", "", TRUE) EXCEPT !.params = [model |-> Str("fast")]]
LOCAL Colonies ==
    {Colony(p, w, {"a"}) : p \in {"", "plan"},
        w \in {Writer, [Writer EXCEPT !.sector = "odd"], [Writer EXCEPT !.prompt = "plan", !.system = "tone"],
               [Writer EXCEPT !.skills = Gate({})]}}
LOCAL Home == Colony("plan", Writer, {"a"})
LOCAL Edited == Colony("", [Writer EXCEPT !.adapter = "pi", !.worktree = FALSE], {"b"})

LOCAL Profile == [Run!NoProfile EXCEPT !.adapter = "claude", !.params = [reasoning |-> Str("high")]]
LOCAL Context(profile) ==
    [model_aliases |-> [fast |-> "m2"], home_aliases |-> <<>>, url |-> "",
     profile |-> IF profile = Run!NoProfile THEN "" ELSE "fast", bound |-> FALSE,
     colony_profile |-> profile, home_profile |-> Run!NoHomeProfile, layers |-> {}, workspace |-> "",
     slug |-> ""]

\* What is retained of a colony, alone on the disk.
LOCAL Frozen(fs) ==
    LET captured == CHOOSE c \in Run!Capture(fs, Context(Run!NoProfile)) : TRUE
        inventory == Run!InventoryOf(captured.files, captured.resolved)
    IN  [version |-> captured, ref |-> Run!ConfigRef(inventory),
         disk |-> [r \in {Run!ConfigRef(inventory)} |-> [inventory |-> inventory, tree |-> captured.files]]]
LOCAL First == Frozen(Home)
LOCAL Second == Frozen(Colony("plan", [Writer EXCEPT !.worktree = FALSE], {"a"}))

LOCAL NoManifest == [state |-> "missing", trace |-> "", revision |-> 0, initial |-> <<>>, active |-> <<>>,
                     policy |-> "", workspace |-> ""]
LOCAL Bound(ref, policy, workspace) ==
    [state |-> "written", trace |-> "t1", revision |-> 1, initial |-> ref, active |-> ref,
     policy |-> policy, workspace |-> workspace]
LOCAL NoLineage == [state |-> "missing", admission |-> ""]
LOCAL Machine ==
    [a \in Run!LLMAdapters \cup {"script"} |-> [Run!NoFile EXCEPT !.binary = IF a = "claude" THEN "theirs" ELSE ""]]
LOCAL AllDirs == {"colony", "worktree", "fork"} \X {"src/web"}
LOCAL World(fs, disk, file) ==
    [fs |-> fs, disk |-> disk, file |-> file, lineage |-> NoLineage, entries |-> {}, killed |-> FALSE,
     pending |-> FALSE, open |-> {}, dirs |-> AllDirs, adapters |-> Machine, keys |-> <<>>,
     host |-> [HOME |-> "h"], run |-> [PASEKA_BEE |-> "writer"], insights |-> <<"one", "two">>]
LOCAL Ask ==
    [mode |-> "task", trace |-> "t1", admitted |-> TRUE, task_id |-> "k", bee |-> "writer", task |-> "do it",
     inline |-> "", sector |-> "", kind |-> "", purpose |-> "", analysis_of |-> "", policy_params |-> <<>>,
     insights |-> <<"two", "", "zero">>, intent |-> "fix"]

\* The scope of a trail: what its manifest, its lineage and its directory say.
LOCAL Trails ==
    {[World(Home, First.disk @@ Second.disk, file) EXCEPT
        !.lineage = l, !.entries = e, !.killed = k, !.pending = p, !.open = o] :
        file \in {NoManifest, [NoManifest EXCEPT !.state = "damaged"]}
                 \cup {Bound(First.ref, p, f) : p \in {"editable", "pinned"}, f \in {"", "fork"}},
        l \in {NoLineage, [NoLineage EXCEPT !.state = "damaged"]}
              \cup {[state |-> "written", admission |-> a] : a \in {"", "creating", "dropped"}},
        e \in {{}, {<<"dir", "run">>}}, k, p \in BOOLEAN,
        o \in {{}, {<<Second.ref, 2>>}}}
LOCAL Asked ==
    {[Ask EXCEPT !.mode = IF cli THEN "cli" ELSE "task", !.admitted = ~cli, !.task_id = t, !.kind = k,
                 !.purpose = p, !.analysis_of = IF p = "analysis" THEN "done" ELSE ""] :
        cli \in BOOLEAN, t \in {"", "k"}, k \in {"", "code.proposal", "code.proposal.root"},
        p \in {"", "analysis"}}

\* Experiments keep to their checkout, and analyses out of worktrees.
ASSUME DispatchesAreContained ==
    \A w \in Trails, req \in Asked :
        /\ Run!ExperimentsAreContained(w, Context(Run!NoProfile), req)
        /\ Run!AnalysisStaysOut(w, Context(Run!NoProfile), req)
        /\ Run!AttemptsKeepTheirConfiguration(w, Context(Run!NoProfile), req)

\* A trail with a configuration runs by it.
ASSUME FrozenDecides ==
    \A file \in {Bound(First.ref, "editable", ""), NoManifest}, role \in {"writer", "script", "reviewer"},
       profile \in {Run!NoProfile, Profile} :
        Run!LiveEditsDoNotMatter(World(Home, First.disk, file), Edited, Context(Run!NoProfile), profile,
                                 [Ask EXCEPT !.bee = role])

\* What was accepted can run.
ASSUME AcceptedRuns ==
    \A fs \in Colonies, bee \in {"", "script", "reviewer"}, sector \in {"", "web", "top", "odd", "ghost"},
       review \in {"none", "required"}, dirs \in {{}, AllDirs}, inline \in {"", "now"},
       overlay \in {<<>>, [model |-> Str("m9")]} :
        LET frozen == Frozen(fs)
            w == [World(Edited, frozen.disk, Bound(frozen.ref, "editable", "")) EXCEPT !.dirs = dirs]
        IN  Run!AcceptedWorkDispatches(w, Context(Run!NoProfile), frozen.version,
                [id |-> "k", bee |-> bee, sector |-> sector, review |-> review, status |-> "ready",
                 final_review |-> FALSE],
                [Ask EXCEPT !.inline = inline, !.policy_params = overlay])

\* The plan of a live run, under every profile, and of a frozen one.
ASSUME PlansAreConsistent ==
    \A fs \in Colonies, file \in {NoManifest, Bound(First.ref, "editable", "")}, e \in {{}, {<<"dir", "run">>}},
       profile \in {Run!NoProfile, Profile}, role \in {"writer", "script", "reviewer"},
       overlay \in {<<>>, [model |-> Str("m9")], [reasoning |-> Str("low")]} :
        Run!PlanIsConsistent([World(fs, First.disk, file) EXCEPT !.entries = e], Context(profile),
                             [Ask EXCEPT !.bee = role, !.policy_params = overlay])
=============================================================================
