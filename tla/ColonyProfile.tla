--------------------------- MODULE ColonyProfile ---------------------------
(***************************************************************************)
(* How a colony, its profile and the machine become the configuration of a *)
(* run (bee.go, profile.go, profile_merge.go, skills.go and home.go of     *)
(* internal/colony): which profile is selected, what it may say, what it   *)
(* changes in a bee, which skills a role gets, and how a context and a bee *)
(* are loaded.                                                             *)
(*                                                                         *)
(* A bee is a record of what loading reads: role, adapter, command (is one *)
(* set), params, skills, and the fields of ColonyRouting.  A list of       *)
(* skills is [present, refs]: absent and empty are different answers.      *)
(***************************************************************************)
EXTENDS ColonyParams, ColonyRouting

None == "none"
Failed == "failed"

ValidName(name) == name \notin {"", ".hidden", "../up"}
ValidRole(role) == role \notin {"", "../up"}

\* The flags win over the environment, and that over the home file's choice.
SelectedProfile(flags, env, sticky) ==
    LET chosen == CASE flags.named -> flags.name
                    [] env # "" -> env
                    [] OTHER -> sticky
    IN  CASE flags.none \/ (~flags.named /\ chosen = "") -> None
          [] ValidName(chosen) -> chosen
          [] OTHER -> Failed

-----------------------------------------------------------------------------
(* Profiles *)

Inherited == [present |-> FALSE, refs |-> {}]
SkillsDeliveries == {"", "path", "command"}

\* The committed overlay may pick an LLM adapter and params, the machine's may not.
NoProfile == [keys |-> {}, adapter |-> "", params |-> NoMap, model_aliases |-> NoMap,
              skills |-> Inherited, skills_delivery |-> "", bees |-> NoMap]
NoBeeProfile == [keys |-> {}, adapter |-> "", params |-> NoMap, skills |-> Inherited]
NoHomeProfile == [keys |-> {}, url |-> "", model_aliases |-> NoMap,
                  skills |-> Inherited, skills_delivery |-> "", bees |-> NoMap]

ValidProfileAdapter(name) == name \in {""} \cup LLMAdapters

ValidColonyProfile(profile) ==
    /\ profile.keys \subseteq
          {"adapter", "params", "model_aliases", "skills", "skills_delivery", "bees"}
    /\ ValidProfileAdapter(profile.adapter)
    /\ profile.skills_delivery \in SkillsDeliveries
    /\ ValidRunParams(profile.params)
    /\ ValidModelAliases(profile.model_aliases)
    /\ \A role \in DOMAIN profile.bees :
          /\ ValidRole(role)
          /\ profile.bees[role].keys \subseteq {"adapter", "params", "skills"}
          /\ ValidProfileAdapter(profile.bees[role].adapter)
          /\ ValidRunParams(profile.bees[role].params)

ValidHomeProfile(profile) ==
    /\ profile.keys \subseteq {"nats", "model_aliases", "skills", "skills_delivery", "bees"}
    /\ profile.skills_delivery \in SkillsDeliveries
    /\ ValidModelAliases(profile.model_aliases)
    /\ \A role \in DOMAIN profile.bees :
          ValidRole(role) /\ profile.bees[role].keys \subseteq {"skills"}

-----------------------------------------------------------------------------
(* A bee under a profile *)

\* The profile's own adapter is for LLM bees the adapter runs by itself.
GlobalEligible(profile, bee) ==
    /\ profile.adapter # ""
    /\ ResolveAdapter(bee.adapter) \in LLMAdapters
    /\ ~bee.command

ApplyBeeProfile(profile, bee) ==
    LET own == IF bee.role \in DOMAIN profile.bees THEN profile.bees[bee.role]
               ELSE NoBeeProfile
        eligible == GlobalEligible(profile, bee)
    IN  [bee EXCEPT
            !.adapter = CASE own.adapter # "" -> own.adapter
                          [] eligible -> profile.adapter
                          [] OTHER -> @,
            !.params = own.params @@ ((IF eligible THEN profile.params ELSE NoMap) @@ @)]

\* What doctor says of the bee.
ProfileReport(profile, bee) ==
    LET own == bee.role \in DOMAIN profile.bees /\ profile.bees[bee.role].adapter # ""
    IN  CASE own -> IF profile.bees[bee.role].adapter # ResolveAdapter(bee.adapter)
                    THEN "remapped" ELSE None
          [] GlobalEligible(profile, bee) ->
                IF profile.adapter # ResolveAdapter(bee.adapter) THEN "remapped" ELSE None
          [] profile.adapter # "" /\ ResolveAdapter(bee.adapter) = "script" -> "skipped script"
          [] profile.adapter # "" /\ bee.command -> "skipped command"
          [] OTHER -> None

-----------------------------------------------------------------------------
(* Skills *)

RoleSkills(profile, role) ==
    IF role \in DOMAIN profile.bees THEN profile.bees[role].skills ELSE Inherited

\* The layers that may set a role's skills, the strongest first.
SkillLayers(defaults, colony, home, bee) ==
    <<RoleSkills(home, bee.role), RoleSkills(colony, bee.role), bee.skills,
      home.skills, colony.skills, defaults.skills>>

\* A list replaces what is below it; without any, the role gets nothing.
EffectiveSkillsFor(defaults, colony, home, bee) ==
    LET layers == SkillLayers(defaults, colony, home, bee)
        said == {i \in DOMAIN layers : layers[i].present}
    IN  IF said = {} THEN Inherited
        ELSE layers[CHOOSE i \in said : \A j \in said : i <= j]

EffectiveDelivery(defaults, colony, home) ==
    CASE home.skills_delivery # "" -> home.skills_delivery
      [] colony.skills_delivery # "" -> colony.skills_delivery
      [] defaults.skills_delivery # "" -> defaults.skills_delivery
      [] OTHER -> "path"

-----------------------------------------------------------------------------
(* Loading *)

ValidChecks(checks) ==
    checks # None =>
        /\ checks.command
        /\ checks.timeout # None => checks.timeout \in DOMAIN Seconds /\ Seconds[checks.timeout] > 0
        /\ checks.rejection_cap >= 0
RunSummaries == {"", "auto", "required", "disabled"}

\* Rules of a contract name a domain event and a kind; an intent overrides the
\* contract with a list of its own, never with an empty one.
ValidCompletionRule(rule) == rule.type \in DomainEvents /\ rule.kinds # {}
ValidCompletionContract(contract) ==
    /\ \A rule \in contract.required : ValidCompletionRule(rule)
    /\ \A intent \in DOMAIN contract.intents :
          /\ intent # "" /\ contract.intents[intent] # {}
          /\ \A rule \in contract.intents[intent] : ValidCompletionRule(rule)
ContractForIntent(contract, intent) ==
    IF intent \in DOMAIN contract.intents THEN contract.intents[intent] ELSE contract.required

\* Doctor's loader lets a wrong key through, to name it, but not a wrong value.
LoadBee(bee, strict) ==
    IF /\ ValidRole(bee.role)
       /\ IF strict THEN ValidRunParams(bee.params) ELSE ValidValues(bee.params)
       /\ ValidEventRules(bee)
       /\ ValidCompletionContract(bee.contract)
       /\ bee.run_summary \in RunSummaries
       /\ ValidChecks(bee.checks)
       /\ AdapterRequirementsMet(bee)
       /\ strict => ValidProposals(bee)
       /\ "skills" \notin bee.local_keys
    THEN {bee} ELSE {}

LoadAllBees(bees, strict) ==
    IF \A role \in DOMAIN bees : LoadBee(bees[role], strict) # {} THEN {bees} ELSE {}

\* The manifest: an enabled closing policy is checked against the bees.
LoadColony(manifest, bees) ==
    IF /\ "profile" \notin manifest.keys
       /\ \A rule \in manifest.auto_invites : ValidAutoInvite(rule)
       /\ ValidModelAliases(manifest.model_aliases)
       /\ manifest.delivery \in {"", "local_merge", "pull_request"}
       /\ manifest.defaults.skills_delivery \in SkillsDeliveries
       /\ manifest.closing.enabled => LoadAllBees(bees, TRUE) # {}
       /\ ValidClosing(manifest.closing, bees, manifest.defaults, RunParamKeys)
    THEN {manifest} ELSE {}

ResolvedDelivery(manifest) ==
    IF manifest.delivery = "" THEN "local_merge" ELSE manifest.delivery

NamesKnownRoles(profile, bees) ==
    DOMAIN profile.bees = {}
    \/ (LoadAllBees(bees, TRUE) # {} /\ DOMAIN profile.bees \subseteq DOMAIN bees)

\* The selected profile: one of its two files must exist, and aliases of all
\* four layers must still be flat when they are put together.
ApplySelectedProfile(context, manifest, bees, files, name) ==
    LET colony == IF name \in DOMAIN files.colony THEN files.colony[name] ELSE NoProfile
        home == IF name \in DOMAIN files.home THEN files.home[name] ELSE NoHomeProfile
        aliases == MergedModelAliases(
                      MergedModelAliases(
                          MergedModelAliases(manifest.model_aliases, colony.model_aliases),
                          context.home_aliases),
                      home.model_aliases)
    IN  IF /\ name \in DOMAIN files.colony \cup DOMAIN files.home
           /\ ValidColonyProfile(colony) /\ NamesKnownRoles(colony, bees)
           /\ ValidHomeProfile(home) /\ NamesKnownRoles(home, bees)
           /\ ValidModelAliases(aliases)
        THEN {[context EXCEPT
                !.profile = name, !.colony_profile = colony, !.home_profile = home,
                !.model_aliases = aliases, !.url = IF home.url # "" THEN home.url ELSE @]}
        ELSE {}

\* The home file must name this clone, and nothing is read past a failure.
ResolveContext(manifest, bees, machine, files, flags, env) ==
    LET name == SelectedProfile(flags, env, machine.profile)
        aliases == MergedModelAliases(manifest.model_aliases, machine.model_aliases)
        context == [model_aliases |-> aliases, home_aliases |-> machine.model_aliases,
                    url |-> machine.url, profile |-> "", bound |-> FALSE,
                    colony_profile |-> NoProfile, home_profile |-> NoHomeProfile]
    IN  IF \/ LoadColony(manifest, bees) = {}
           \/ ~machine.exists \/ ~machine.here
           \/ ~ValidModelAliases(machine.model_aliases) \/ ~ValidModelAliases(aliases)
           \/ name = Failed
        THEN {}
        ELSE IF name = None THEN {context}
        ELSE ApplySelectedProfile(context, manifest, bees, files, name)

\* A context bound to a trail's snapshot reads that tree and no profile: the
\* snapshot holds the bees as the profile left them.
ContextLoadBee(context, bee) ==
    {b \in {IF context.bound \/ context.profile = "" THEN loaded
            ELSE ApplyBeeProfile(context.colony_profile, loaded) : loaded \in LoadBee(bee, TRUE)} :
        AdapterRequirementsMet(b)}

ContextLoadAllBees(context, bees, strict) ==
    LET applied == [role \in DOMAIN bees |->
                        IF context.bound \/ context.profile = "" THEN bees[role]
                        ELSE ApplyBeeProfile(context.colony_profile, bees[role])]
    IN  {b \in {applied : loaded \in LoadAllBees(bees, strict)} :
            context.bound \/ \A role \in DOMAIN b : AdapterRequirementsMet(b[role])}

-----------------------------------------------------------------------------
(* What the layers promise together *)

\* A bee frozen under a profile is the bee a live run would load: loading it
\* again, from a snapshot or under the same profile, changes nothing.
ProfileIsIdempotent(profile, bee) ==
    LET applied == ApplyBeeProfile(profile, bee)
    IN  AdapterRequirementsMet(bee) => ApplyBeeProfile(profile, applied) = applied

\* What a valid profile can break in a valid bee: only a command bee, and only
\* by an entry of its own.  The profile-wide settings leave it alone.
OnlyOwnEntryBreaksBee(profile, bee) ==
    ValidColonyProfile(profile) /\ AdapterRequirementsMet(bee) /\ ValidRunParams(bee.params)
      /\ ~AdapterRequirementsMet(ApplyBeeProfile(profile, bee)) =>
        bee.command /\ bee.role \in DOMAIN profile.bees

\* A loaded bee keeps what no profile may set, and its params stay loadable.
ProfileStaysInBounds(profile, bee) ==
    LET applied == ApplyBeeProfile(profile, bee)
    IN  ValidColonyProfile(profile) /\ LoadBee(bee, TRUE) # {} =>
            /\ \A field \in DOMAIN bee \ {"adapter", "params"} : applied[field] = bee[field]
            /\ KnownAdapter(applied.adapter)
            /\ ValidRunParams(applied.params)
            /\ bee.adapter = "script" /\ bee.role \notin DOMAIN profile.bees => applied = bee

\* An explicit empty list is an answer: no lower layer can add to it.
OptOutHolds(defaults, colony, home, bee) ==
    LET layers == SkillLayers(defaults, colony, home, bee)
        gate == EffectiveSkillsFor(defaults, colony, home, bee)
    IN  \A i \in DOMAIN layers :
            layers[i].present /\ (\A j \in 1..(i - 1) : ~layers[j].present) =>
                gate = layers[i]

\* A context is resolved only with aliases that name models, in one step.
ContextAliasesAreFlat(contexts) ==
    \A context \in contexts : AliasesAreFlat(context.model_aliases)
                                  /\ ValidModelAliases(context.model_aliases)
=============================================================================
