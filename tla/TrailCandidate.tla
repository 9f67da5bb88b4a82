---------------------------- MODULE TrailCandidate ----------------------------
(***************************************************************************)
(* The candidate of a configuration change (apply.go, validate.go,         *)
(* skills.go, skills_trial.go and fork_delta.go of internal/trailconfig):  *)
(* how it is made from the active snapshot, what is validated before it    *)
(* may replace it, and what the preview says of it.  TrailConfig has what  *)
(* becomes of a validated candidate.                                       *)
(*                                                                         *)
(* A version is [files, resolved], as captured.  A line of a preview is    *)
(* <<what, path, detail>>.                                                 *)
(***************************************************************************)
EXTENDS TrailSnapshot
LOCAL INSTANCE Sequences
LOCAL INSTANCE SequencesExt

-----------------------------------------------------------------------------
(* Previews *)

DiffInventories(base, candidate) ==
    {<<"removed", p, "">> : p \in DOMAIN base \ DOMAIN candidate}
    \cup {<<"added", p, "">> : p \in DOMAIN candidate \ DOMAIN base}
    \cup {<<"changed", p, "">> : p \in {p \in DOMAIN base \cap DOMAIN candidate :
            base[p].content # candidate[p].content \/ base[p].mode # candidate[p].mode}}

\* What a param prints as: a truth value and its name are one.
PreviewValue(params, k) ==
    CASE TypeAt(params, k) \in {"absent", "nil"} -> <<"">>
      [] TypeAt(params, k) = "string" -> <<At(params, k)>>
      [] TypeAt(params, k) = "bool" -> IF At(params, k) THEN <<"true">> ELSE <<"false">>
      [] OTHER -> params[k]

AliasAt(aliases, k) == IF k \in DOMAIN aliases THEN aliases[k] ELSE ""
ResolvedDiffs(base, candidate) ==
    {l \in {<<"profile", <<>>, "">>} : base.profile # candidate.profile}
    \cup {<<"alias", <<k>>, "">> : k \in {k \in DOMAIN base.aliases \cup DOMAIN candidate.aliases :
            AliasAt(base.aliases, k) # AliasAt(candidate.aliases, k)}}

\* Every setting of a bee but its skills.
BeeSettings ==
    {"adapter", "prompt", "system", "sector", "worktree", "default_intent", "intents", "command",
     "post_exec", "checks", "subscribes", "publishes", "contract", "run_summary"}
BeeSettingDiffs(role, before, after) ==
    {<<"bee", <<role>>, s>> : s \in {s \in BeeSettings : before[s] # after[s]}}
    \cup {<<"param", <<role>>, k>> : k \in {k \in DOMAIN before.params \cup DOMAIN after.params :
            PreviewValue(before.params, k) # PreviewValue(after.params, k)}}
BeeDiffs(base, candidate) ==
    {<<"bee", <<role>>, "removed">> : role \in DOMAIN base \ DOMAIN candidate}
    \cup {<<"bee", <<role>>, "added">> : role \in DOMAIN candidate \ DOMAIN base}
    \cup UNION {BeeSettingDiffs(role, base[role], candidate[role]) :
                    role \in DOMAIN base \cap DOMAIN candidate}

PreviewDiffs(base, candidate) ==
    DiffInventories(base.files, candidate.files)
    \cup ResolvedDiffs(base.resolved, candidate.resolved)
    \cup BeeDiffs(BeesOf(base.files), BeesOf(candidate.files))

\* What activation would do now.
PreviewOutcome(ref, active, blocked) ==
    CASE ref = active -> "unchanged"
      [] ref # active /\ blocked -> "pending"
      [] OTHER -> "applied"

-----------------------------------------------------------------------------
(* Overrides: a sequence of [role, key, value] *)

ForbiddenOverrideKeys ==
    {"adapter", "binary", "slug", "identity", "trace", "trace_id", "nats", "nats_url",
     "subject_prefix", "transport", "home", "home_root", "colony_root", "energy", "energy_budget",
     "energy_default", "budget", "budget_ceiling", "delivery", "delivery_policy", "merge",
     "pull_request", "credentials", "credential", "api_key", "api_key_env", "token", "secret",
     "env", "env_mode", "policy", "config_policy"}

\* A value is written as the text it came as.
SetBeeParam(files, override) ==
    [files EXCEPT ![<<"bees", override.role>>].content.params =
        [k \in {override.key} |-> Value("string", override.value)] @@ @]

\* One bad override, or a bee that no longer loads, refuses them all.
ApplyOverrides(files, overrides) ==
    LET bees == BeesOf(files)
        applied == FoldLeft(SetBeeParam, files, overrides)
    IN  IF \/ LoadAllBees(bees, TRUE) = {}
           \/ \E i \in DOMAIN overrides :
                 \/ overrides[i].role \notin DOMAIN bees
                 \/ overrides[i].key \in {""} \cup ForbiddenOverrideKeys
        THEN {}
        ELSE {f \in {applied} : LoadAllBees(BeesOf(f), TRUE) # {}}

\* The overrides that change nothing, each with why.
ShadowedOverrides(overrides, base, candidate) ==
    LET Later(i) == \E j \in DOMAIN overrides :
            /\ j > i
            /\ overrides[j].role = overrides[i].role /\ overrides[j].key = overrides[i].key
        Already(i) == LET o == overrides[i]
                      IN  /\ PreviewValue(base[o.role].params, o.key) = <<o.value>>
                          /\ PreviewValue(candidate[o.role].params, o.key) = <<o.value>>
    IN  {<<i, "later">> : i \in {i \in DOMAIN overrides : Later(i)}}
        \cup {<<i, "already">> : i \in {i \in DOMAIN overrides : ~Later(i) /\ Already(i)}}

-----------------------------------------------------------------------------
(* A skill trial: bundles [ref, files, hash] and the roles that try them *)

NameRef(name) == [form |-> "name", text |-> name, names |-> {name}]
SelectionResolves(refs, name) ==
    \E raw \in refs : \E ref \in ParseReference(raw) : MatchesName(ref, name)

StoreEntries(files) == {p[2] : p \in {p \in DOMAIN files : p[1] = "skills" /\ Len(p) > 1}}

\* A trial adds: an entry that is there is never replaced, and the bytes that
\* land are the ones that were validated.
WriteTrialBundle(files, bundle) ==
    LET clean == {CleanPath[p] : p \in DOMAIN bundle.files}
        own == [f \in clean |-> bundle.files[CHOOSE p \in DOMAIN bundle.files : CleanPath[p] = f]]
        entry == SkillEntry("dir", own)
    IN  IF /\ ParseReference(bundle.ref) # {} /\ ~IsPattern(bundle.ref)
           /\ clean # {} /\ "" \notin clean /\ ManifestName \in clean
           /\ bundle.ref.text \notin StoreEntries(files)
           /\ bundle.hash \in {<<>>, ProcedureHash(entry.manifest.body, entry.files)}
        THEN {[p \in {<<"skills", bundle.ref.text, f>> : f \in clean} |->
                    [mode |-> "rw-r", content |-> own[p[3]]]] @@ files}
        ELSE {}

\* The layer that supplies the role's list gets the names it lacks; below the
\* bee nothing is a role's own, so the resolved list becomes the bee's.
EnsureRoleSkills(files, layers, profile, role, names) ==
    LET bee == BeesOf(files)[role]
        all == SkillLayers(ManifestOf(files).defaults, layers[1], layers[2], bee)
        gate == EffectiveSkillsFor(ManifestOf(files).defaults, layers[1], layers[2], bee)
        missing == {n \in names : ~SelectionResolves(gate.refs, n)}
        list == [present |-> TRUE, refs |-> gate.refs \cup {NameRef(n) : n \in missing}]
    IN  CASE missing = {} -> files
          [] missing # {} /\ all[1].present ->
                [files EXCEPT ![<<"home.profiles", profile>>].content.bees[role].skills = list]
          [] missing # {} /\ ~all[1].present /\ all[2].present ->
                [files EXCEPT ![<<"profiles", profile>>].content.bees[role].skills = list]
          [] OTHER -> [files EXCEPT ![<<"bees", role>>].content.skills = list]

ApplySkillTrial(files, profile, bundles, roles) ==
    LET order == SetToSeq(bundles)
        names == {b.ref.text : b \in bundles}
        written == FoldLeft(LAMBDA fs, b : UNION {WriteTrialBundle(f, b) : f \in fs}, {files}, order)
        selected == [role |-> "", frozen |-> TRUE, slug |-> "", profile |-> profile]
    IN  IF bundles = {} \/ roles = {} \/ LoadAllBees(BeesOf(files), TRUE) = {}
           \/ ~(roles \subseteq DOMAIN BeesOf(files))
        THEN {}
        ELSE {f \in {FoldSet(LAMBDA role, g : EnsureRoleSkills(g, layers, profile, role, names), w, roles) :
                        w \in {w \in written : LoadColony(ManifestOf(w), BeesOf(w)) # {}},
                        layers \in LoadSelectedProfile(selected, TreeOf(files), NoMap)} :
                LoadAllBees(BeesOf(f), TRUE) # {}}

-----------------------------------------------------------------------------
(* Validation of a whole candidate *)

\* The accepted work that has still to be dispatched.
RemainingProcedureWork(tasks) ==
    {t \in tasks : ~t.final_review /\ t.status \in {"planned", "ready", "blocked", "failed"}}

NoOverlay == [prompt |-> "", system |-> ""]
OverlayOf(files, role) ==
    IF <<"bees.local", role>> \in DOMAIN files THEN files[<<"bees.local", role>>].content ELSE NoOverlay
FirstSet(texts) == LET said == {i \in DOMAIN texts : texts[i] # ""}
                   IN  IF said = {} THEN "" ELSE texts[CHOOSE i \in said : \A j \in said : i <= j]

\* A script runs a command, so the colony's default prompt is not its own.
ResolvedPromptTemplate(files, role) ==
    FirstSet(<<OverlayOf(files, role).prompt, BeesOf(files)[role].prompt,
               IF BeesOf(files)[role].adapter = "script" THEN "" ELSE ManifestOf(files).defaults.prompt>>)
ResolvedSystemTemplate(files, role) ==
    FirstSet(<<OverlayOf(files, role).system, BeesOf(files)[role].system,
               ManifestOf(files).defaults.system>>)
ValidPromptTemplate(files, ref) == ref # "" => <<"prompts", ref>> \in DOMAIN files
ValidateBeeTemplates(files) ==
    \A role \in DOMAIN BeesOf(files) :
        /\ ValidPromptTemplate(files, ResolvedPromptTemplate(files, role))
        /\ ValidPromptTemplate(files, ResolvedSystemTemplate(files, role))

ResolveSector(manifest, sector) == sector # "" => sector \in DOMAIN manifest.sectors
ValidateProcedureWork(manifest, bees, work) ==
    LET role == EffectiveTaskBee(work.bee, manifest.defaults)
    IN  /\ role \in DOMAIN bees /\ AdapterRequirementsMet(bees[role])
        /\ ResolveSector(manifest, work.sector)
        /\ ValidTaskReview([work EXCEPT !.bee = role], bees, manifest.defaults)

\* The captured client skills are only looked at for their manifest.
ValidateCapturedClientSkills(files) ==
    \A p \in {p \in DOMAIN files : p[1] \in {"clients", "home.skills"} /\ Len(p) = 3} :
        <<p[1], p[2], ManifestName>> \in DOMAIN files

\* Without a name the profile is the one the tree holds, if it holds one.
InferCandidateProfile(files) ==
    LET names == {p[2] : p \in {p \in DOMAIN files :
                    p[1] \in {"profiles", "home.profiles", "home.adapters"} /\ Len(p) > 1}}
    IN  IF Cardinality(names) = 1 THEN CHOOSE n \in names : TRUE ELSE ""

CandidateRun(files, role, profile) ==
    ResolveRun([role |-> role, frozen |-> TRUE, slug |-> "", profile |-> profile], TreeOf(files), NoMap)

\* One rule set for the store, one resolver for every role.
ValidateCandidateSkills(files, profile) ==
    LET selected == IF profile = "" THEN InferCandidateProfile(files) ELSE profile
    IN  /\ Issues(Scan(StoreOf(files))) = {} /\ LoadLedger(TreeOf(files).ledger) # {}
        /\ ValidateCapturedClientSkills(files)
        /\ \A role \in DOMAIN BeesOf(files) : CandidateRun(files, role, selected) # {}
SkillWarnings(files, profile) ==
    UNION {UNION {{<<name, role>> : name \in run.disabled} : run \in CandidateRun(files, role, profile)} :
            role \in DOMAIN BeesOf(files)}

\* Identity, transport, budget and delivery are the colony's, not a trail's.
ValidatePolicyUnchanged(base, candidate) ==
    /\ base.slug = candidate.slug /\ base.nats = candidate.nats
    /\ base.defaults.energy_budget = candidate.defaults.energy_budget
    /\ ResolvedDelivery(base) = ResolvedDelivery(candidate)

ValidateProcedure(files, policy, work, profile) ==
    /\ <<"colony">> \in DOMAIN files
    /\ LoadColony(ManifestOf(files), BeesOf(files)) # {}
    /\ ValidatePolicyUnchanged(policy, ManifestOf(files))
    /\ LoadAllBees(BeesOf(files), TRUE) # {}
    /\ ValidateBeeTemplates(files)
    /\ ValidateCandidateSkills(files, profile)
    /\ \A w \in work : ValidateProcedureWork(ManifestOf(files), BeesOf(files), w)

\* A preview names what it checked and does not stop at the first problem.
EvaluateRemaining(files, tasks) ==
    LET work == RemainingProcedureWork(tasks)
        loads == /\ LoadColony(ManifestOf(files), BeesOf(files)) # {}
                 /\ LoadAllBees(BeesOf(files), TRUE) # {}
        bad == {w \in work : ~ValidateProcedureWork(ManifestOf(files), BeesOf(files), w)}
    IN  [checked |-> IF loads THEN {w.id : w \in work} ELSE {},
         compatible |-> loads /\ bad = {}, problems |-> {w.id : w \in bad}]

-----------------------------------------------------------------------------
(* The candidate of a request *)

Version(inventory, disk, ref) ==
    [files |-> ReadSnapshotContents(disk, ref, inventory), resolved |-> inventory.resolved]
RefOf(version) == ConfigRef(InventoryOf(version.files, version.resolved))

\* How a request changes the files of a snapshot.
Mutate(files, profile, req) ==
    IF req.source = "overrides" THEN ApplyOverrides(files, req.overrides)
    ELSE ApplySkillTrial(files, profile, req.bundles, req.roles)

\* Nothing is written to the active snapshot: a change of it is a new version
\* with the same resolved view.
PrepareFromActive(disk, active, req) ==
    UNION {LET base == Version(inventory, disk, active)
           IN  {[base EXCEPT !.files = f] : f \in Mutate(base.files, base.resolved.profile, req)} :
            inventory \in LoadVerifiedSnapshot(disk, active)}

PrepareCandidate(fs, context, disk, active, req) ==
    CASE req.source = "colony" -> Capture(fs, context)
      [] req.source = "snapshot" ->
            {Version(inventory, disk, req.ref) : inventory \in LoadVerifiedSnapshot(disk, req.ref)}
      [] OTHER -> PrepareFromActive(disk, active, req)

\* What an apply request may activate, and what it shows of it.
Prepared(fs, context, disk, active, req, tasks, blocked) ==
    UNION {LET base == Version(inventory, disk, active)
           IN  {[version |-> c, ref |-> RefOf(c), effective |-> PreviewDiffs(base, c),
                 warnings |-> SkillWarnings(c.files, c.resolved.profile),
                 remaining |-> EvaluateRemaining(c.files, tasks),
                 outcome |-> PreviewOutcome(RefOf(c), active, blocked)] :
                    c \in {c \in PrepareCandidate(fs, context, disk, active, req) :
                        ValidateProcedure(c.files, ManifestOf(base.files),
                            RemainingProcedureWork(tasks), c.resolved.profile)}} :
            inventory \in LoadVerifiedSnapshot(disk, active)}

-----------------------------------------------------------------------------
(* What a candidate promises *)

\* The preview is empty exactly when nothing would change, whatever the source,
\* and validated work never turns out incompatible in it.
PreviewTellsChange(fs, context, disk, active, req, tasks) ==
    \A p \in Prepared(fs, context, disk, active, req, tasks, FALSE) :
        /\ p.effective = {} <=> p.outcome = "unchanged"
        /\ p.remaining.compatible /\ p.remaining.problems = {}

\* What a preview calls shadowed can be left out of the request.
ShadowedIsNeedless(files, overrides) ==
    \A all \in ApplyOverrides(files, overrides) :
        LET shadowed == {s[1] : s \in ShadowedOverrides(overrides, BeesOf(files), BeesOf(all))}
            rest == SetToSortSeq(DOMAIN overrides \ shadowed, LAMBDA i, j : i < j)
        IN  \A needed \in ApplyOverrides(files, [i \in DOMAIN rest |-> overrides[rest[i]]]) :
                BeeDiffs(BeesOf(all), BeesOf(needed)) = {}

\* An accepted trial reaches every role it names, save for what the ledger
\* disables, and adds nothing to what another role is offered, unless that
\* role's own gate already let the name in.  No skill it found is rewritten.
TrialReachesItsRoles(base, bundles, roles) ==
    LET profile == base.resolved.profile
        names == {b.ref.text : b \in bundles}
        disabled == UNION {DOMAIN d : d \in LoadLedger(TreeOf(base.files).ledger)}
        Gate(files, layers, role) ==
            EffectiveSkillsFor(ManifestOf(files).defaults, layers[1], layers[2], BeesOf(files)[role])
        selected == [role |-> "", frozen |-> TRUE, slug |-> "", profile |-> profile]
    IN  \A files \in {f \in ApplySkillTrial(base.files, profile, bundles, roles) :
                        ValidateCandidateSkills(f, profile)} :
        /\ \A p \in {p \in DOMAIN base.files : p[1] = "skills"} : files[p] = base.files[p]
        /\ \A role \in DOMAIN BeesOf(files) : \A run \in CandidateRun(files, role, profile) :
               /\ role \in roles => names \subseteq run.skills \cup disabled
               /\ \A before \in CandidateRun(base.files, role, profile) : before.skills \subseteq run.skills
               /\ \A layers \in LoadSelectedProfile(selected, TreeOf(base.files), NoMap),
                     after \in LoadSelectedProfile(selected, TreeOf(files), NoMap) :
                       role \notin roles => Gate(files, after, role) = Gate(base.files, layers, role)
-----------------------------------------------------------------------------
(* The configuration of an experimental fork: a recorded patch is applied to
   a retained snapshot, what it may touch is checked, and its changes are
   sorted into those that have an effect and those a frozen layer shadows.  A
   patch is a function from paths to [before, after], each a set of at most
   one file [kind, mode, content]. *)

\* Areas that are no part of the portable configuration.
RefusedAreas ==
    {"source", "runs", "worktrees", "secrets", "home.profiles", "home.adapters", "home.skills"}
AllowedPortablePath(p) == p[1] \notin RefusedAreas

ValidatePatchPaths(patch) ==
    \A p \in DOMAIN patch :
        /\ p[1] \notin {"outside", "git"}
        /\ \A a \in patch[p].after : ~(a.kind = "link" /\ patch[p].before # {})

\* All hunks apply, or none.
ApplyPortablePatch(files, patch) ==
    LET touched == {p \in DOMAIN patch : patch[p].after # {}}
        kept == DOMAIN files \ DOMAIN patch
        New(p) == CHOOSE a \in patch[p].after : TRUE
    IN  IF \A p \in DOMAIN patch :
            /\ patch[p].before = {} => p \notin DOMAIN files
            /\ \A b \in patch[p].before : p \in DOMAIN files /\ files[p].content = b.content
        THEN {[p \in touched |-> New(p)] @@ [p \in kept |-> [kind |-> "file"] @@ files[p]]}
        ELSE {}
RejectUnsafeTreeEntries(tree) == \A p \in DOMAIN tree : tree[p].kind = "file"
CapturedTree(tree) == [p \in DOMAIN tree |-> [mode |-> tree[p].mode, content |-> tree[p].content]]

ValidatePortableChanges(lines) == \A l \in lines : AllowedPortablePath(l[2])

\* A bee as it is executed: a local overlay wins over the committed templates.
EffectiveBees(files) ==
    [role \in DOMAIN BeesOf(files) |->
        [BeesOf(files)[role] EXCEPT
            !.prompt = FirstSet(<<OverlayOf(files, role).prompt, @>>),
            !.system = FirstSet(<<OverlayOf(files, role).system, @>>)]]

SectorDiffs(base, candidate) ==
    {<<"sector", <<s>>, "">> : s \in {s \in DOMAIN base.sectors \cup DOMAIN candidate.sectors :
        AliasAt(base.sectors, s) # AliasAt(candidate.sectors, s)}}
ColonyEffectiveDiffs(base, candidate) ==
    {<<"default", <<>>, d>> : d \in {d \in {"bee", "prompt", "system"} :
        base.defaults[d] # candidate.defaults[d]}}
    \cup SectorDiffs(base, candidate)
    \cup {l \in {<<"auto_invites", <<>>, "">>} : base.auto_invites # candidate.auto_invites}
ShadowedAliasDiffs(base, candidate) ==
    {<<"alias", <<k>>, "">> : k \in
        {k \in DOMAIN base.model_aliases \cup DOMAIN candidate.model_aliases :
            AliasAt(base.model_aliases, k) # AliasAt(candidate.model_aliases, k)}}

\* A file line is effective if the file is used as it is, or if its bee or the
\* manifest changed in a setting that is compared.
CompareForkCandidate(base, candidate) ==
    LET raw == DiffInventories(base, candidate)
        bees == BeeDiffs(EffectiveBees(base), EffectiveBees(candidate))
        roles == {l[2][1] : l \in bees}
        settings == ColonyEffectiveDiffs(ManifestOf(base), ManifestOf(candidate))
        Shadowed(l) ==
            \/ l[2][1] \in {"bees", "bees.local"} /\ l[2][2] \notin roles
            \/ l[2][1] = "profiles"
            \/ l[2][1] = "colony" /\ settings = {}
    IN  [raw |-> raw,
         effective |-> bees \cup settings \cup {l \in raw : ~Shadowed(l)},
         shadowed |-> {l \in raw : Shadowed(l)}
                      \cup ShadowedAliasDiffs(ManifestOf(base), ManifestOf(candidate))]

\* The role a task without one had is the source's, not the candidate's default.
CarriedWork(files, task, resolvedBee) ==
    {[w EXCEPT !.bee = IF resolvedBee # "" THEN resolvedBee
                       ELSE EffectiveTaskBee(@, ManifestOf(files).defaults)] : w \in task}

ValidateForkCandidateTree(base, candidate, work, profile) ==
    LoadColony(ManifestOf(base), BeesOf(base)) # {}
        /\ ValidateProcedure(candidate, ManifestOf(base), work, profile)

\* The resolved view stays the source's.
PrepareForkDelta(disk, ref, patch, task, resolvedBee) ==
    UNION {LET base == Version(inventory, disk, ref)
           IN  {[base |-> base, version |-> [files |-> f, resolved |-> base.resolved]]
                    @@ CompareForkCandidate(base.files, f) :
                f \in {f \in {CapturedTree(t) : t \in {t \in ApplyPortablePatch(base.files, patch) :
                                                        RejectUnsafeTreeEntries(t)}} :
                    /\ <<"colony">> \in DOMAIN f
                    /\ ValidatePortableChanges(DiffInventories(base.files, f))
                    /\ ValidateForkCandidateTree(base.files, f, CarriedWork(f, task, resolvedBee),
                                                 base.resolved.profile)}} :
            inventory \in IF DOMAIN patch # {} /\ ValidatePatchPaths(patch)
                          THEN LoadVerifiedSnapshot(disk, ref) ELSE {}}

-----------------------------------------------------------------------------
(* What a delta promises *)

\* What a run of the role sees of the tree, but for its skills and for a param
\* that prints the same.
Seen(files, role) ==
    LET bee == EffectiveBees(files)[role]
        Content(ref) == IF <<"prompts", ref>> \in DOMAIN files THEN files[<<"prompts", ref>>].content ELSE ""
    IN  [settings |-> [s \in BeeSettings |-> bee[s]],
         params |-> {<<k, PreviewValue(bee.params, k)>> : k \in
                        {k \in DOMAIN bee.params : PreviewValue(bee.params, k) # <<"">>}},
         prompt |-> Content(ResolvedPromptTemplate(files, role)),
         system |-> Content(ResolvedSystemTemplate(files, role)),
         sector |-> AliasAt(ManifestOf(files).sectors, bee.sector)]

\* Every change is reported, as effective or as shadowed; what is only shadowed
\* changes nothing a run sees.
DeltaIsHonest(disk, ref, patch) ==
    \A d \in PrepareForkDelta(disk, ref, patch, {}, "") :
        /\ d.raw \subseteq d.effective \cup d.shadowed
        /\ d.raw = {} <=> RefOf(d.version) = ref
        /\ d.effective = {} =>
                /\ DOMAIN BeesOf(d.version.files) = DOMAIN BeesOf(d.base.files)
                /\ \A role \in DOMAIN BeesOf(d.base.files) :
                        Seen(d.version.files, role) = Seen(d.base.files, role)

\* A role of which no line speaks, in a tree whose manifest and contents no line
\* speaks of, runs as before.
DeltaIsLocal(disk, ref, patch) ==
    \A d \in PrepareForkDelta(disk, ref, patch, {}, "") :
        (\A l \in d.effective :
            \/ l[1] \in {"bee", "param"}
            \/ l[1] \in {"added", "removed", "changed"} /\ l[2][1] \in {"bees", "bees.local"}) =>
            \A role \in DOMAIN BeesOf(d.base.files) \cap DOMAIN BeesOf(d.version.files) :
                (\A l \in d.effective : role \notin {l[2][i] : i \in DOMAIN l[2]}) =>
                    Seen(d.version.files, role) = Seen(d.base.files, role)

\* The machine's part, the policy and the resolved view are the source's, and
\* the carried task finds its bee.
DeltaKeepsAuthority(disk, ref, patch, task, resolvedBee) ==
    \A d \in PrepareForkDelta(disk, ref, patch, task, resolvedBee) :
        LET Areas == {"home.profiles", "home.adapters", "home.skills"}
            Machine(files) == [p \in {p \in DOMAIN files : p[1] \in Areas} |-> files[p]]
            Policy(manifest) == <<manifest.slug, manifest.nats, manifest.defaults.energy_budget>>
        IN  /\ Machine(d.version.files) = Machine(d.base.files)
            /\ Policy(ManifestOf(d.version.files)) = Policy(ManifestOf(d.base.files))
            /\ d.version.resolved = d.base.resolved
            /\ \A w \in CarriedWork(d.version.files, task, resolvedBee) :
                    /\ w.bee \in DOMAIN BeesOf(d.version.files)
                    /\ CandidateRun(d.version.files, w.bee, d.base.resolved.profile) # {}
=============================================================================
