---------------------------- MODULE DispatchPlan ----------------------------
(***************************************************************************)
(* One dispatch of a bee, from admission to the plan that is launched      *)
(* (colony_dispatch.go and dispatch_stages.go): the trail it may run in,   *)
(* the configuration it is bound to, its attempt, the directory it stands  *)
(* in, its prompts and skills.                                             *)
(*                                                                         *)
(* A world is what a dispatch reads: the colony's file system, the         *)
(* retained snapshots, the trail's manifest, lineage and directory, open   *)
(* attempts, whether a change is pending or the trail was killed, the      *)
(* directories that exist in each root, and the machine.                   *)
(***************************************************************************)
EXTENDS TrailCandidate, LaunchPlan
LOCAL INSTANCE Sequences
LOCAL INSTANCE SequencesExt

CONSTANT SectorPaths    \* the sector paths inside the colony, and what they clean to

-----------------------------------------------------------------------------
(* Admission *)

\* An unnamed purpose is work; an analysis, and nothing else, says what it studies.
ResolveAdmissionAttribution(purpose, of) ==
    {p \in Purposes \cap {IF purpose = "" THEN "work" ELSE purpose} : (p = "analysis") <=> (of # "")}

\* An unreadable manifest or lineage is no answer; a lineage makes a trail an
\* experiment, and so does a pinned binding without one.
ResolveScope(file, lineage, trace) ==
    LET bound == Load(file, trace) # {}
        pinned == bound /\ file.policy = "pinned"
    IN  IF (~bound /\ ~Unbound(file, trace)) \/ lineage.state = "damaged" THEN {}
        ELSE {[experimental |-> pinned \/ lineage.state = "written",
               ref |-> IF bound THEN file.active ELSE <<>>,
               admission |-> CASE lineage.state = "written" ->
                                    IF lineage.admission = "" THEN "runnable" ELSE lineage.admission
                               [] lineage.state = "missing" /\ pinned -> "pinned"
                               [] OTHER -> "ordinary"]}

\* The first capture of a trail, bound as soon as it is retained.
EnsureInitial(w, context, trace) ==
    LET Captured(c) ==
            LET inventory == InventoryOf(c.files, c.resolved)
                ref == ConfigRef(inventory)
                file == [state |-> "written", trace |-> trace, revision |-> 1, initial |-> ref,
                         active |-> ref, policy |-> "editable", workspace |-> context.workspace]
            IN  UNION {{[context |-> b, now |-> TRUE, disk |-> d, file |-> file] :
                            b \in BindRef(context, d, file, trace, ref, 1)} :
                        d \in MaterializeSnapshot(w.disk, ref, c.files, inventory)}
    IN  UNION {Captured(c) : c \in IF w.killed THEN {} ELSE Capture(w.fs, context)}

\* The configuration of new work: a known binding, a first capture for a trail
\* that has nothing yet, and the live colony for an older one.
BindNewWork(w, context, trace) ==
    LET Here(c, now) == [context |-> c, now |-> now, disk |-> w.disk, file |-> w.file]
    IN  CASE Load(w.file, trace) # {} -> {Here(b, TRUE) : b \in Bind(context, w.disk, w.file, trace)}
          [] Unbound(w.file, trace) /\ ~IsNewTrail(w.entries) -> {Here(context, FALSE)}
          [] Unbound(w.file, trace) /\ IsNewTrail(w.entries) -> EnsureInitial(w, context, trace)
          [] OTHER -> {}

\* A command line owns an attempt as the reactor's dispatches do: the task's
\* open one, or a new one unless a change of the configuration is awaited.
EnsureCLIAttempt(w, bound, req) ==
    CASE bound.file.state = "missing" -> {<<>>}
      [] bound.file.state # "missing" /\ req.task_id # "" /\ w.open # {} -> w.open
      [] bound.file.state # "missing" /\ (req.task_id = "" \/ w.open = {}) ->
            {a \in {<<bound.context.ref, bound.context.revision>>} : ~w.pending}

\* A dispatch that the reactor admitted comes bound, and with its attempt.
Admit(w, context, req) ==
    LET bindings == IF context.bound
                    THEN {[context |-> context, now |-> TRUE, disk |-> w.disk, file |-> w.file]}
                    ELSE BindNewWork(w, context, req.trace)
        Attempts(b) == IF req.mode = "cli" /\ ~req.admitted THEN EnsureCLIAttempt(w, b, req) ELSE {<<>>}
        Pinned(b, scope) ==
            scope.experimental =>
                /\ b.now /\ Load(b.file, req.trace) # {} /\ b.file.policy = "pinned"
                /\ scope.ref # <<>> => b.context.ref = scope.ref
        Rebound(b, attempt) ==
            IF attempt = <<>> \/ attempt[1] = b.context.ref THEN {b}
            ELSE {[b EXCEPT !.context = c] :
                    c \in BindRef(b.context, b.disk, b.file, req.trace, attempt[1], attempt[2])}
    IN  IF w.killed \/ ResolveAdmissionAttribution(req.purpose, req.analysis_of) = {} THEN {}
        ELSE UNION {UNION {UNION {Rebound(b, attempt) : attempt \in Attempts(b)} :
                b \in {b \in bindings : Pinned(b, scope)}} :
                    scope \in {s \in ResolveScope(w.file, w.lineage, req.trace) :
                                    s.admission \notin {"dropped", "creating"}}}

-----------------------------------------------------------------------------
(* The directory *)

EffectiveSector(own, default) == IF own # "" THEN own ELSE default
SectorRelPath(manifest, sector) ==
    IF sector = "" THEN {""}
    ELSE {SectorPaths[p] : p \in {manifest.sectors[s] : s \in {sector} \cap DOMAIN manifest.sectors}
                                    \cap DOMAIN SectorPaths}

\* A fork stays in its own checkout.  Elsewhere a proposal says where it was
\* made, the role where it works, and an analysis studies what is retained at
\* the root.
WorkspaceForDispatch(context, manifest, bee, sector, kind, purpose, dirs) ==
    LET worktree == IF kind = "" THEN bee.worktree
                    ELSE CodeProposalFamily(kind) = "code.proposal.isolated"
        base == CASE context.workspace \notin {"", "colony"} -> context.workspace
                  [] context.workspace \in {"", "colony"} /\ worktree /\ purpose # "analysis" -> "worktree"
                  [] OTHER -> "colony"
    IN  {<<base, p>> : p \in {p \in SectorRelPath(manifest, sector) :
            /\ kind # "" => CodeProposalFamily(kind) # ""
            /\ p # "" => <<base, p>> \in dirs}}

-----------------------------------------------------------------------------
(* Preparation *)

WithParams(bee, overlay) == [bee EXCEPT !.params = overlay @@ @]
MergeInsights(manual, projected) ==
    LET all == SelectSeq(manual \o projected, LAMBDA s : s # "")
        first == {i \in DOMAIN all : \A j \in 1..(i - 1) : all[j] # all[i]}
        order == SetToSortSeq(first, LAMBDA i, j : i < j)
    IN  [i \in DOMAIN order |-> all[order[i]]]
NormalizeIntent(raw, known, default) == IF raw \in known THEN raw ELSE default

ConfigFiles(w, context) == IF context.bound THEN context.files ELSE LiveFiles(w.fs)
RunSkills(w, context, role) ==
    ResolveRun([role |-> role, frozen |-> context.bound, slug |-> context.slug, profile |-> context.profile],
        IF context.bound THEN TreeOf(context.files) ELSE LiveTree(w.fs),
        IF context.bound THEN NoMap ELSE Named(LiveFiles(w.fs), "home.profiles"))

\* The machine's overlay of a bee, the bee, the colony's default.
PromptOf(req, overlay, bee, default) ==
    CASE req.inline # "" -> req.inline
      [] req.inline = "" /\ bee.adapter = "script" -> FirstSet(<<overlay.prompt, bee.prompt>>)
      [] OTHER -> FirstSet(<<overlay.prompt, bee.prompt, default>>)

\* The role's instructions, and after them what the run advertises.
RenderSystem(files, template, run) ==
    {<<template, run.skills # {}>> : t \in {t \in {template} : ValidPromptTemplate(files, t)}}
SystemText(system) == IF system = <<"", FALSE>> THEN "" ELSE "instructions"

\* What the adapter is started with; a frozen alias map is used whole.
PlanOf(w, context, req, workspace, manifest, bee, run, system, prompt) ==
    LET adapter == ResolveAdapter(bee.adapter)
        launch == [adapter |-> adapter, workspace |-> workspace[1], mode |-> "afk", bee |-> bee,
                   extra |-> AdapterExtraLayer(LoadAdapter(adapter, w.adapters[adapter]), adapter, w.keys),
                   aliases |-> IF context.model_aliases = NoMap THEN manifest.model_aliases
                               ELSE context.model_aliases,
                   host |-> w.host, run |-> w.run, system |-> SystemText(system), prompt |-> prompt,
                   resume |-> FALSE]
    IN  {[launch |-> plan, bee |-> bee, workspace |-> workspace, skills |-> run.skills,
          system |-> system, prompt |-> prompt, context |-> context,
          insights |-> MergeInsights(req.insights, w.insights),
          intent |-> NormalizeIntent(req.intent, bee.intents, bee.default_intent)] :
            plan \in ResolveLaunch(launch)}

\* Everything that can be refused is refused before the run's directory and its
\* queued status are written.
PrepareDispatch(w, bound, req, workspace) ==
    LET context == bound.context
        files == ConfigFiles(w, context)
        manifest == ManifestOf(files)
        overlay == OverlayOf(files, req.bee)
        own == ContextLoadBee(context, BeesOf(files)[req.bee])
        bees == {b \in {WithParams(b, req.policy_params) : b \in own} : AdapterRequirementsMet(b)}
        Rendered(bee) ==
            {p \in {PromptOf(req, overlay, bee, manifest.defaults.prompt)} :
                /\ p = "" => bee.adapter = "script"
                /\ req.inline = "" => ValidPromptTemplate(files, p)}
        Plans(bee, run, system) ==
            UNION {PlanOf(w, context, req, workspace, manifest, bee, run, system, prompt) :
                        prompt \in Rendered(bee)}
    IN  UNION {UNION {UNION {Plans(bee, run, system) :
            system \in RenderSystem(files,
                FirstSet(<<overlay.system, bee.system, manifest.defaults.system>>), run)} :
            run \in RunSkills(w, context, req.bee)} : bee \in bees}

DispatchColonyBee(w, context, req) ==
    LET Of(b) ==
            LET files == ConfigFiles(w, b.context)
                purpose == CHOOSE p \in ResolveAdmissionAttribution(req.purpose, req.analysis_of) : TRUE
                bees == IF req.bee \in DOMAIN BeesOf(files)
                        THEN ContextLoadBee(b.context, BeesOf(files)[req.bee]) ELSE {}
                ready == {bee \in bees : bee.adapter = "script" \/ req.task # "" \/ req.inline # ""}
            IN  UNION {UNION {UNION {PrepareDispatch(w, b, req, workspace) :
                    workspace \in WorkspaceForDispatch(b.context, manifest, bee,
                        EffectiveSector(req.sector, bee.sector), req.kind, purpose, w.dirs)} :
                    bee \in ready} : manifest \in LoadColony(ManifestOf(files), BeesOf(files))}
    IN  UNION {Of(b) : b \in Admit(w, context, req)}

-----------------------------------------------------------------------------
(* What a dispatch promises *)

\* A procedure that was accepted can be dispatched: each task that it was
\* checked for (ValidateProcedure, "the remaining work") gets a plan, in the
\* worktree as at the root.  What the check does not look at is said here: that
\* the role has a prompt, a known default sector and its directory, and that
\* the closing round's own params are for a bee that takes any.
AcceptedWorkDispatches(w, context, version, task, req) ==
    LET files == version.files
        role == EffectiveTaskBee(task.bee, ManifestOf(files).defaults)
        bee == BeesOf(files)[role]
        asked == [req EXCEPT !.bee = role, !.sector = task.sector]
        paths == SectorRelPath(ManifestOf(files), EffectiveSector(task.sector, bee.sector))
    IN  /\ ValidateProcedure(files, ManifestOf(files), {task}, version.resolved.profile)
        /\ ResolvedPromptTemplate(files, role) # "" \/ bee.adapter = "script" \/ req.inline # ""
        /\ paths # {} /\ \A p \in paths, base \in {"colony", "worktree", "fork"} :
                                p = "" \/ <<base, p>> \in w.dirs
        /\ bee.command => req.policy_params = NoMap
        /\ \A n \in DOMAIN req.policy_params : n \in RunParamKeys
        /\ Admit(w, context, asked) # {}
        => DispatchColonyBee(w, context, asked) # {}

\* The trail's frozen configuration decides: whatever the live colony, its
\* profile and its skills have become, a bound dispatch makes the same plan.
LiveEditsDoNotMatter(w, edited, context, profile, req) ==
    LET Launched(plans) == {[p EXCEPT !.context = <<>>] : p \in plans}
    IN  Load(w.file, req.trace) # {} =>
            Launched(DispatchColonyBee(w, context, req))
                = Launched(DispatchColonyBee([w EXCEPT !.fs = edited],
                                             [context EXCEPT !.colony_profile = profile], req))

\* No experiment leaves its checkout or its pinned configuration, and a trail
\* that is killed, dropped or half created starts nothing.
ExperimentsAreContained(w, context, req) ==
    \A plan \in DispatchColonyBee(w, context, req) :
        /\ ~w.killed /\ w.lineage.state # "damaged"
        /\ w.lineage.state = "written" =>
                /\ w.lineage.admission \notin {"dropped", "creating"}
                /\ w.file.policy = "pinned"
                /\ w.file.workspace \notin {"", "colony"} => plan.workspace[1] = w.file.workspace
                /\ req.mode # "cli" \/ w.open = {} => plan.context.ref = w.file.active

\* A task that is rerun by hand continues by the configuration it was begun
\* under, and no new work begins while a change is awaited.
AttemptsKeepTheirConfiguration(w, context, req) ==
    \A plan \in DispatchColonyBee(w, context, req) :
        req.mode = "cli" /\ ~req.admitted /\ Load(w.file, req.trace) # {} =>
            IF req.task_id # "" /\ w.open # {}
            THEN \E attempt \in w.open : plan.context.ref = attempt[1]
            ELSE ~w.pending /\ plan.context.ref = w.file.active

\* An analysis depends on no worktree, and ordinary work of a worktree role
\* never stands in the colony's own checkout.
AnalysisStaysOut(w, context, req) ==
    \A plan \in DispatchColonyBee(w, context, req) :
        /\ req.purpose = "analysis" => plan.workspace[1] # "worktree"
        /\ plan.bee.worktree /\ req.kind = "" /\ req.purpose # "analysis" => plan.workspace[1] # "colony"

\* What is launched is what the resolvers say of it: the machine's layer is that
\* of the adapter that runs, a frozen alias wins over the colony's, and what the
\* prompt advertises is what the role was given.
PlanIsConsistent(w, context, req) ==
    \A plan \in DispatchColonyBee(w, context, req) :
        LET adapter == ResolveAdapter(plan.bee.adapter)
            layer == LayerFromBee(plan.bee.params)
        IN  /\ plan.launch.adapter = adapter
            /\ layer.params.binary = "" /\ adapter \notin OpenCode /\ w.adapters[adapter].binary # "" =>
                    plan.launch.binary = w.adapters[adapter].binary
            /\ plan.system[2] <=> plan.skills # {}
            /\ plan.launch.alias # "" /\ plan.context.model_aliases # NoMap =>
                    plan.launch.id = <<"", plan.context.model_aliases[plan.launch.alias]>>
            /\ \A n \in DOMAIN req.policy_params \cap {"model", "reasoning"} :
                    layer.params[n] = At(req.policy_params, n)
            /\ \A i, j \in DOMAIN plan.insights : plan.insights[i] = plan.insights[j] => i = j
=============================================================================
