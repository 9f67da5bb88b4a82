------------------------------ MODULE LaunchPlan ------------------------------
(***************************************************************************)
(* The one launch plan of a run (internal/launch): the merge of the bee's  *)
(* and the machine's layers, the model id each adapter gets, the           *)
(* environment of the child, and the report of which layer decided what.   *)
(*                                                                         *)
(* A model is <<vendor, name>>.  A declared environment value is           *)
(* <<"text", value>> or <<"ref", name>>, a reference to the host.          *)
(***************************************************************************)
EXTENDS ColonyParams
LOCAL INSTANCE Sequences
LOCAL INSTANCE SequencesExt

CONSTANTS
    Qualified,      \* the model ids with a vendor, and what they mean
    PrefixedNames   \* environment names that start with LC_ or PASEKA_

LaunchSpec(adapter) ==
    IF adapter \in LLMAdapters
    THEN [binary |-> BuiltIn(adapter).binary, credential |-> BuiltIn(adapter).key_env]
    ELSE [binary |-> "", credential |-> ""]

\* A provider is folded into a model without a vendor; pi alone is told the two
\* apart.  What a record keeps is the whole.
MapModel(adapter, model, provider) ==
    LET whole == CASE model \in DOMAIN Qualified -> Qualified[model]
                   [] model \notin DOMAIN Qualified /\ model # "" -> <<provider, model>>
                   [] OTHER -> <<"", "">>
    IN  [warned |-> provider # "",
         model |-> IF adapter = "pi" THEN <<"", whole[2]>> ELSE whole,
         provider |-> CASE adapter # "pi" -> ""
                        [] adapter = "pi" /\ model = "" -> provider
                        [] OTHER -> whole[1],
         id |-> IF adapter = "pi" /\ model = "" THEN <<provider, "">> ELSE whole]

-----------------------------------------------------------------------------
(* The environment of the child *)

StrictEnvAllow ==
    {"PATH", "HOME", "USER", "LOGNAME", "SHELL", "TERM", "TMPDIR", "TZ", "LANG", "PWD"}
FilterStrictEnv(env) ==
    [n \in DOMAIN env \cap (StrictEnvAllow \cup PrefixedNames) |-> env[n]]

ExpandHostRef(value, host) ==
    CASE value[1] = "text" -> value[2]
      [] value[1] = "ref" /\ value[2] \in DOMAIN host -> host[value[2]]
      [] OTHER -> ""
ExpandDeclaredEnv(declared, host) ==
    [n \in DOMAIN declared |-> ExpandHostRef(declared[n], host)]

\* What a run does not have leaves the inherited variable alone.
ScriptEnv(run) == [n \in {n \in DOMAIN run : run[n] # ""} |-> run[n]]

\* References are read from the whole host before it is filtered; a credential
\* wins over a declared value, and a script's run over everything.
ResolveEnv(req, params, spec) ==
    LET declared == ExpandDeclaredEnv(params.env, req.host)
        inherited == IF params.env_mode = "strict" THEN FilterStrictEnv(req.host) ELSE req.host
        credential == IF spec.credential # "" /\ params.api_key # ""
                      THEN [n \in {spec.credential} |-> params.api_key] ELSE NoMap
        script == IF req.adapter = "script" THEN ScriptEnv(req.run) ELSE NoMap
    IN  [env |-> script @@ credential @@ declared @@ inherited,
         redacted |-> DOMAIN declared \cup DOMAIN credential]

-----------------------------------------------------------------------------
(* The plan *)

JoinPrompt(system, prompt) == SelectSeq(<<system, prompt>>, LAMBDA part : part # "")
CommandPrompt(req) ==
    IF ~req.resume /\ req.adapter \in {"cursor"} \cup OpenCode
    THEN JoinPrompt(req.system, req.prompt) ELSE <<req.prompt>>

\* An unattended cursor takes its workspace as an argument.
ResolveDir(req) == IF req.mode = "afk" /\ req.adapter = "cursor" THEN "" ELSE req.workspace

\* A continued session runs the adapter's own command line.
ResolveCommand(req) ==
    IF req.bee.command /\ ~req.resume
    THEN {IF req.adapter = "script" THEN "script" ELSE "command"}
    ELSE {form \in {"params"} : req.adapter # "script"}

DeclaredLayer(base, over, keys) ==
    CASE keys \cap over.declared # {} -> "machine"
      [] keys \cap over.declared = {} /\ keys \cap base.declared # {} -> "bee"
      [] OTHER -> "default"
BinaryLayer(base, over) ==
    CASE base.params.binary # "" -> "bee"
      [] base.params.binary = "" /\ over.params.binary # "" -> "machine"
      [] OTHER -> "default"
AttributeFields(base, over, aliased) ==
    [f \in {"reasoning", "provider", "env", "env_mode", "plan", "timeout", "api_key"} |->
        DeclaredLayer(base, over, {f})]
    @@ [binary |-> BinaryLayer(base, over),
        yolo |-> DeclaredLayer(base, over, {"trust", "force"}),
        model |-> IF aliased THEN "alias" ELSE DeclaredLayer(base, over, {"model"})]

\* A human is the timeout of an interactive session.
ResolveLaunch(req) ==
    LET spec == LaunchSpec(req.adapter)
        base == LayerFromBee(req.bee.params)
        merged == MergeRunParamsLayers(base, req.extra)
        aliased == merged.model \in DOMAIN req.aliases
        mapped == MapModel(req.adapter, ResolveModel(merged.model, req.aliases), merged.provider)
        params == [merged EXCEPT !.model = mapped.model, !.provider = mapped.provider]
    IN  IF req.adapter = "" \/ req.workspace = "" THEN {}
        ELSE {[adapter |-> req.adapter, form |-> form, params |-> params, id |-> mapped.id,
               alias |-> IF aliased THEN merged.model ELSE "",
               binary |-> IF params.binary # "" THEN params.binary ELSE spec.binary,
               prompt |-> CommandPrompt(req), dir |-> ResolveDir(req),
               timeout |-> IF req.mode = "afk" THEN params.timeout ELSE 0,
               warned |-> mapped.warned, layers |-> AttributeFields(base, req.extra, aliased)]
                @@ ResolveEnv(req, params, spec) : form \in ResolveCommand(req)}

\* What the report shows of a field.
Attribution(plan) ==
    [f \in DOMAIN plan.layers |->
        CASE f = "yolo" -> <<plan.params.trust, plan.params.force>>
          [] f = "binary" -> <<plan.binary>>
          [] f = "timeout" -> <<plan.timeout>>
          [] f = "api_key" -> <<plan.params.api_key # "">>
          [] OTHER -> <<plan.params[f]>>]

-----------------------------------------------------------------------------
(* What a plan promises *)

\* A field is what the layer named for it would make it alone (LayerDefault,
\* LayerBee, LayerMachine and LayerAlias of attribution.go), but for the
\* provider that pi is told from a model's vendor.
AttributionIsTrue(req) ==
    LET silent == [declared |-> {}, params |-> DefaultParams]
        Chosen == MergeRunParamsLayers(LayerFromBee(req.bee.params), req.extra).model
        Alone(layer) ==
            CASE layer = "default" -> [req EXCEPT !.bee.params = NoMap, !.extra = silent]
              [] layer = "bee" -> [req EXCEPT !.extra = silent]
              [] layer = "machine" -> [req EXCEPT !.bee.params = NoMap]
              [] layer = "alias" ->
                    [req EXCEPT !.aliases = NoMap, !.extra.declared = @ \ {"model"},
                        !.bee.params =
                            [model |-> Value("string", req.aliases[Chosen])] @@ @]
    IN  \A plan \in ResolveLaunch(req) :
            \A f \in DOMAIN plan.layers \ (IF req.adapter = "pi" THEN {"provider"} ELSE {}) :
                \A alone \in ResolveLaunch(Alone(plan.layers[f])) :
                    Attribution(plan)[f] = Attribution(alone)[f]

\* Doing what the deprecation warning says changes nothing but the warning, and
\* every adapter is told the model that the record names.
AdviceIsSound(adapter, qualified) ==
    LET provider == Qualified[qualified][1]
        name == Qualified[qualified][2]
        old == MapModel(adapter, name, provider)
        new == MapModel(adapter, qualified, "")
    IN  /\ name \notin DOMAIN Qualified => [old EXCEPT !.warned = FALSE] = new
        /\ \A m \in {old, new} :
                m.id = IF adapter = "pi" THEN <<m.provider, m.model[2]>> ELSE m.model

\* A strict child sees of the host what is allowed and what the bee asked for by
\* name; no declared value or credential is shown in a log.
EnvironmentIsClosed(req) ==
    \A plan \in ResolveLaunch(req) :
        LET spec == LaunchSpec(req.adapter)
            script == IF req.adapter = "script" THEN {n \in DOMAIN req.run : req.run[n] # ""} ELSE {}
            asked == DOMAIN req.host \cup DOMAIN plan.params.env \cup {spec.credential}
            added == {n \in DOMAIN plan.env :
                        n \notin DOMAIN req.host \/ plan.env[n] # req.host[n]}
            own == DOMAIN plan.params.env \ (script \cup {spec.credential})
        IN  /\ added \subseteq plan.redacted \cup script
            /\ plan.params.env_mode = "strict" =>
                    DOMAIN plan.env \subseteq
                        StrictEnvAllow \cup PrefixedNames \cup plan.redacted \cup script
            /\ \A n \in own : plan.env[n] = ExpandHostRef(plan.params.env[n], req.host)
            /\ spec.credential # "" /\ plan.params.api_key # "" =>
                    plan.env[spec.credential] = plan.params.api_key
            /\ \A n \in script : plan.env[n] = req.run[n]
            /\ DOMAIN plan.env \subseteq asked \cup script
=============================================================================
