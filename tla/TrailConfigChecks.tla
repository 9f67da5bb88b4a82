------------------------- MODULE TrailConfigChecks -------------------------
(***************************************************************************)
(* What snapshots and candidates promise, evaluated over small file        *)
(* systems, colonies, disks and patches.                                   *)
(***************************************************************************)
EXTENDS Integers, FiniteSets, Sequences, TLC

LOCAL Trail == INSTANCE TrailCandidate WITH
    Seconds <- [d \in {"90s"} |-> 90],
    ShapedNames <- {"a", "b", "new"}, LongTexts <- {},
    MaxSkillsPerRole <- 2, MaxSkillFileBytes <- 2, MaxStoreBytes <- 9,
    PathOrder <- <<"SKILL.md", "notes">>, TrailTokens <- {"t1"},
    CleanPath <- [p \in {"SKILL.md", "notes", "../up"} |-> IF p = "../up" THEN "" ELSE p],
    StrayNames <- {"README"}

LOCAL Dir(entries) == [kind |-> "dir", entries |-> entries]
LOCAL Link(target) == [kind |-> "link", target |-> target]
LOCAL File(content) == [kind |-> "file", mode |-> "rw-r", content |-> content]
LOCAL Special == [kind |-> "special"]

\* Three nested directories, and links to any of them, to a file and to nothing.
LOCAL Targets == {"top", "sub", "low", "file", "gone"}
LOCAL Walked ==
    {[top |-> Dir([d |-> "sub", x |-> x]), sub |-> Dir([d |-> "low", x |-> y]),
      low |-> Dir([x |-> z, README |-> w]),
      one |-> Link(s), two |-> Link(t), file |-> File("text"), pipe |-> Special] :
        x, y \in {"file", "one", "two"}, z \in {"one", "two", "pipe"}, w \in {"file", "two", "pipe"},
        s, t \in Targets}

\* A capture misses no file and invents none, and a cycle of links ends it.
ASSUME WalksAreComplete ==
    \A fs \in Walked, yaml \in BOOLEAN : Trail!WalkIsComplete(fs, "top", yaml, 4)

-----------------------------------------------------------------------------
LOCAL Ref(n) == [form |-> IF n = "*" THEN "all" ELSE "name", text |-> n, names |-> {n} \ {"*"}]
LOCAL Gate(names) == [present |-> TRUE, refs |-> {Ref(n) : n \in names}]
LOCAL Str(s) == <<"string", s>>
LOCAL Bee(role, gate) ==
    [role |-> role, adapter |-> "", command |-> FALSE, params |-> <<>>, skills |-> gate,
     worktree |-> FALSE, subscribes |-> {}, publishes |-> {},
     contract |-> [required |-> {}, intents |-> <<>>], run_summary |-> "", checks |-> "none",
     local_keys |-> {}, prompt |-> "", system |-> "", sector |-> "", intents |-> {},
     default_intent |-> "", post_exec |-> FALSE]
LOCAL Manifest ==
    [keys |-> {}, auto_invites |-> {}, model_aliases |-> [fast |-> "m1"], delivery |-> "",
     slug |-> "colony", nats |-> "local", sectors |-> <<>>, merge |-> "none",
     defaults |-> [bee |-> "", skills |-> Gate({"*"}), skills_delivery |-> "", prompt |-> "",
                   system |-> "", energy_budget |-> 0],
     closing |-> Trail!NoClosing]
LOCAL Doc(name) ==
    [front |-> "ok", name |-> name, description |-> "does it", metadata |-> <<>>, body |-> <<"do">>]
LOCAL SkillFile(name, size) == [size |-> size, lines |-> <<"text">>, doc |-> Doc(name)]

\* A colony of one role, one profile and up to two skills, one of which is a
\* good one, an empty directory, half a link, or named by somebody else.
LOCAL Profile == [Trail!NoProfile EXCEPT !.adapter = "claude", !.params = [model |-> Str("fast")]]
LOCAL HomeProfile(gate) == [Trail!NoHomeProfile EXCEPT !.skills = gate]
LOCAL Off == [state |-> "parsed", version |-> 1, disabled |-> [b |-> [reason |-> "stale", timed |-> TRUE]]]
LOCAL Second(how) ==
    CASE how = "good" -> Dir([x \in {"SKILL.md"} |-> "b.md"])
      [] how = "empty" -> Dir(<<>>)
      [] how = "broken" -> Dir([x \in {"SKILL.md", "notes"} |-> IF x = "notes" THEN "lost" ELSE "b.md"])
      [] how = "large" -> Dir([x \in {"SKILL.md", "notes"} |-> IF x = "notes" THEN "big" ELSE "b.md"])
      [] how = "misnamed" -> Dir([x \in {"SKILL.md"} |-> "a.md"])
      [] how = "linked" -> Link("b.elsewhere")
      [] how = "stray" -> Link("big")
LOCAL Colony(gate, home, how, off) ==
    [n \in {"root"} |-> Dir([a \in {"colony", "bees", "skills", "profiles", "home.profiles"}
                                    \cup (IF off THEN {"ledger"} ELSE {}) |-> a])]
    @@ [n \in {"home.profiles"} |-> Dir([fast |-> "fast.home"])]
    @@ [n \in {"fast.home"} |-> File(HomeProfile(home))]
    @@ [n \in {"a.md", "b.md", "big"} |->
            File(SkillFile(IF n = "a.md" THEN "a" ELSE "b", IF n = "big" THEN 3 ELSE 1))]
    @@ [n \in {"b.elsewhere"} |-> Dir([x \in {"SKILL.md"} |-> "b.md"])]
    @@ [colony |-> File(Manifest), bees |-> Dir([author |-> "author"]),
        author |-> File(Bee("author", gate)),
        profiles |-> Dir([fast |-> "fast"]), fast |-> File(Profile), ledger |-> File(Off),
        skills |-> Dir([a |-> "a", b |-> "b"]), a |-> Dir([x \in {"SKILL.md"} |-> "a.md"]),
        b |-> Second(how), lost |-> Link("gone")]
LOCAL Gates == {Trail!Inherited, Gate({}), Gate({"a"}), Gate({"b"}), Gate({"*"})}
LOCAL Colonies ==
    {Colony(g, h, how, off) : g \in Gates, h \in {Trail!Inherited, Gate({"b"})}, off \in BOOLEAN,
        how \in {"good", "empty", "broken", "large", "misnamed", "linked", "stray"}}
LOCAL Context(profile, slug) ==
    [model_aliases |-> [fast |-> "m2"], home_aliases |-> <<>>, url |-> "", profile |-> profile,
     bound |-> FALSE, colony_profile |-> IF profile = "" THEN Trail!NoProfile ELSE Profile,
     home_profile |-> Trail!NoHomeProfile, layers |-> {}, workspace |-> "", slug |-> slug]

\* Bees and skills are frozen as they ran.
ASSUME SnapshotsKeepTheColony ==
    \A fs \in Colonies, profile \in {"", "fast"}, slug \in {"", "colony"} :
        /\ Trail!CaptureKeepsBees(fs, Context(profile, slug), [Profile EXCEPT !.adapter = "pi"])
        /\ Trail!FrozenEqualsLive(fs, Context(profile, slug), "author")
        /\ Trail!CaptureIsStable(fs, Context(profile, slug), {"home"})

\* What is retained: the capture, and everything that can become of it.
LOCAL Captured ==
    Trail!Capture(Colony(Gate({"a"}), Trail!Inherited, "good", TRUE), Context("fast", "colony"))
LOCAL Damaged(snapshot) ==
    {snapshot}
    \cup {[snapshot EXCEPT !.tree = [p \in DOMAIN @ \ {q} |-> @[p]]] : q \in DOMAIN snapshot.tree}
    \cup {[snapshot EXCEPT !.tree[<<"ledger">>].content.version = 2]}
    \cup {[snapshot EXCEPT !.inventory.entries = [p \in DOMAIN @ \ {q} |-> @[p]]] :
            q \in DOMAIN snapshot.tree}
    \cup {[snapshot EXCEPT !.inventory.resolved.profile = ""],
          [snapshot EXCEPT !.inventory.state = "damaged"]}
LOCAL Files ==
    {[state |-> "missing", trace |-> "", revision |-> 0, initial |-> <<>>, active |-> <<>>,
      policy |-> "", workspace |-> ""]}
    \cup {[state |-> s, trace |-> t, revision |-> 1, initial |-> <<1>>, active |-> <<1>>,
           policy |-> p, workspace |-> "fork"] :
            s \in {"written", "damaged"}, t \in {"t1", "other"}, p \in {"editable", "odd"}}

\* Damage stops a run before it starts.
ASSUME OnlyWhatWasCaptured ==
    \A captured \in Captured :
        LET inventory == Trail!InventoryOf(captured.files, captured.resolved)
            ref == Trail!ConfigRef(inventory)
        IN  \A snapshot \in Damaged([inventory |-> inventory, tree |-> captured.files]), file \in Files :
                Trail!BindsWhatWasCaptured(Context("", "colony"), [r \in {ref} |-> snapshot], file, "t1",
                                           captured)

-----------------------------------------------------------------------------
\* A retained version of two roles: the author inherits its list, from the
\* colony, the profile or the machine, and the reviewer has its own.
LOCAL Plain(content) == [mode |-> "rw-r", content |-> content]
LOCAL SkillPath(name) == <<"skills", name, "SKILL.md">>
LOCAL Retained(defaults, own, colony, home, off) ==
    [files |->
        [p \in {SkillPath("a"), SkillPath("b")} |-> Plain(SkillFile(p[2], 1))]
        @@ [p \in {<<"colony">>, <<"bees", "author">>, <<"bees", "reviewer">>, <<"prompts", "plan">>,
                   <<"profiles", "fast">>, <<"home.profiles", "fast">>}
                  \cup (IF off THEN {<<"ledger">>} ELSE {}) |->
            Plain(CASE p = <<"colony">> -> [Manifest EXCEPT !.defaults.skills = defaults,
                                                            !.sectors = [web |-> "src/web"]]
                    [] p = <<"bees", "author">> -> [Bee("author", own) EXCEPT !.params = [model |-> Str("fast")]]
                    [] p = <<"bees", "reviewer">> -> [Bee("reviewer", Gate({"a"})) EXCEPT !.prompt = "plan"]
                    [] p = <<"prompts", "plan">> -> "plan"
                    [] p = <<"profiles", "fast">> -> [Trail!NoProfile EXCEPT !.bees =
                            IF colony.present THEN [author |-> [Trail!NoBeeProfile EXCEPT !.skills = colony]]
                            ELSE <<>>]
                    [] p = <<"home.profiles", "fast">> -> [Trail!NoHomeProfile EXCEPT !.bees =
                            IF home.present THEN [author |-> [keys |-> {}, skills |-> home]] ELSE <<>>]
                    [] p = <<"ledger">> -> Off)],
     resolved |-> [profile |-> "fast", layers |-> {}, aliases |-> [fast |-> "m2"],
                   closing |-> Trail!NoClosing, merge |-> "none"]]
LOCAL Disk(version) ==
    LET inventory == Trail!InventoryOf(version.files, version.resolved)
    IN  [r \in {Trail!ConfigRef(inventory)} |-> [inventory |-> inventory, tree |-> version.files]]

LOCAL Bundle(name, files) ==
    [ref |-> IF name = "*" THEN Ref("*") ELSE Ref(name), files |-> files, hash |-> <<>>]
LOCAL Good == [p \in {"SKILL.md"} |-> SkillFile("new", 1)]
LOCAL Bundles ==
    {Bundle(n, Good) : n \in {"new", "a", "*"}}
    \cup {Bundle("a", [p \in {"SKILL.md"} |-> SkillFile("a", 2)]),
          Bundle("new", [p \in {"notes"} |-> SkillFile("new", 1)]),
          Bundle("new", [p \in {"SKILL.md", "../up"} |-> SkillFile("new", 1)]),
          [Bundle("new", Good) EXCEPT !.hash = <<"other">>],
          [Bundle("new", Good) EXCEPT !.hash = <<"do">>]}
LOCAL Lists == {Trail!Inherited, Gate({}), Gate({"a"}), Gate({"*"})}

\* A trial is for the roles it names, wherever their lists come from.
ASSUME TrialsReachTheirRoles ==
    \A d, o, c, h \in Lists, off \in BOOLEAN, roles \in SUBSET {"author", "reviewer"}, b \in Bundles :
        Trail!TrialReachesItsRoles(Retained(d, o, c, h, off), {b}, roles)

LOCAL Overrides ==
    [role : {"author", "ghost"}, key : {"model", "yolo", "env", "colour"}, value : {"fast", "slow", "false"}]
LOCAL Base == Retained(Trail!Inherited, Gate({"a"}), Trail!Inherited, Trail!Inherited, FALSE)
LOCAL Requests ==
    {[source |-> "overrides", overrides |-> os] : os \in {<<>>} \cup {<<o>> : o \in Overrides}
        \cup {<<o, p>> : o, p \in {o \in Overrides : o.role = "author" /\ o.key \in {"model", "yolo"}}}}
    \cup {[source |-> "skill_trial", bundles |-> {b}, roles |-> {"author"}] : b \in Bundles}
    \cup {[source |-> "colony"]}
    \cup {[source |-> "snapshot", ref |-> CHOOSE r \in DOMAIN Disk(v) : TRUE] :
            v \in {Base, [Base EXCEPT !.resolved.aliases = [fast |-> "m3"]]}}
LOCAL Tasks ==
    {[id |-> "t", bee |-> b, sector |-> s, review |-> "none", status |-> st, final_review |-> FALSE] :
        b \in {"", "author"}, s \in {"", "web", "ghost"}, st \in {"ready", "running"}}

\* The preview is the change.
ASSUME PreviewsTellTheChange ==
    /\ \A req \in Requests, t \in Tasks, profile \in {"", "fast"} :
        Trail!PreviewTellsChange(Colony(Gate({"a"}), Trail!Inherited, "good", FALSE),
            Context(profile, "colony"),
            Disk([Base EXCEPT !.resolved.aliases = [fast |-> "m3"]]) @@ Disk(Base),
            CHOOSE r \in DOMAIN Disk(Base) : TRUE, req, {t})
    /\ \A req \in {r \in Requests : r.source = "overrides"} :
        Trail!ShadowedIsNeedless(Base.files, req.overrides)

\* Patches of one or two files, in and out of the configuration.
LOCAL Overlaid ==
    [Base EXCEPT !.files[<<"bees", "author">>].content.sector = "web",
                 !.files = [p \in {<<"bees.local", "author">>, <<"home.skills", "x", "SKILL.md">>} |->
        IF p[1] = "bees.local" THEN Plain([prompt |-> "plan", system |-> ""])
        ELSE Plain(SkillFile("x", 1))] @@ @]
LOCAL After(p) ==
    LET old == Overlaid.files[p].content
        new == CASE p = <<"colony">> ->
                        {[old EXCEPT !.defaults.system = "plan"], [old EXCEPT !.sectors.web = "src/two"], [old EXCEPT !.slug = "other"],
                         [old EXCEPT !.sectors = <<>>], [old EXCEPT !.model_aliases = <<>>],
                         [old EXCEPT !.defaults.bee = "author"]}
                 [] p[1] = "bees" ->
                        {[old EXCEPT !.prompt = "plan"], [old EXCEPT !.prompt = "ghost"],
                         [old EXCEPT !.params = [yolo |-> <<"bool", FALSE>>]],
                         [old EXCEPT !.skills = Gate({"ghost"})], [old EXCEPT !.sector = "web"]}
                 [] p[1] = "bees.local" -> {[old EXCEPT !.prompt = ""], [old EXCEPT !.system = "plan"]}
                 [] p[1] = "profiles" -> {[old EXCEPT !.adapter = "pi"]}
                 [] p[1] = "prompts" -> {"plan better"}
                 [] OTHER -> {SkillFile("x", 2)}
    IN  {[kind |-> "file"] @@ Plain(c) : c \in new}
LOCAL Hunks ==
    UNION {{<<p, [before |-> {Overlaid.files[p]}, after |-> a]>> : a \in {{}} \cup {{n} : n \in After(p)}} :
        p \in {<<"colony">>, <<"bees", "author">>, <<"bees", "reviewer">>, <<"bees.local", "author">>,
               <<"profiles", "fast">>, <<"prompts", "plan">>, <<"home.skills", "x", "SKILL.md">>}}
    \cup {<<p, [before |-> {}, after |-> {[kind |-> k] @@ Plain("text")}]>> :
            p \in {<<"prompts", "plan">>, <<"prompts", "ghost">>, <<"source", "main">>, <<"git", "config">>},
            k \in {"file", "link"}}
LOCAL Patches == {[p \in {h[1]} |-> h[2]] : h \in Hunks}
LOCAL Delivered == {{}} \cup {{t} : t \in {t \in Tasks : t.status = "ready"}}

\* A fork's delta is reported in full and stays within its authority.
ASSUME DeltasAreHonest ==
    LET ref == CHOOSE r \in DOMAIN Disk(Overlaid) : TRUE
    IN  \A one, two \in Patches :
            /\ Trail!DeltaIsHonest(Disk(Overlaid), ref, one @@ two)
            /\ Trail!DeltaIsLocal(Disk(Overlaid), ref, one @@ two)
            /\ one = two => \A task \in Delivered, bee \in {"", "author", "ghost"} :
                    Trail!DeltaKeepsAuthority(Disk(Overlaid), ref, one, task, bee)
=============================================================================
