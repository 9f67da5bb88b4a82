---------------------------- MODULE ColonyParams ----------------------------
(***************************************************************************)
(* The run parameters of a bee (internal/colony/params.go and the machine  *)
(* files of home.go): what a `params` block may hold, the layer it         *)
(* declares, and how the machine-local layer is merged under it.           *)
(*                                                                         *)
(* A `params` block is a function from the keys the author wrote to typed  *)
(* values <<type, data>>; a layer says which keys its source declared, so  *)
(* that a declared FALSE can be told from one nobody wrote.                *)
(***************************************************************************)
EXTENDS Naturals, TLC

CONSTANTS
    Seconds     \* the duration strings that parse, and the seconds they mean

Value(type, data) == <<type, data>>
TypeAt(p, k) == IF k \in DOMAIN p THEN p[k][1] ELSE "absent"
At(p, k) == p[k][2]
Declares(p, k) == TypeAt(p, k) \notin {"absent", "nil"}

-----------------------------------------------------------------------------
(* What a block may hold *)

RunParamKeys ==
    {"binary", "env", "env_mode", "force", "model", "options", "output_format",
     "plan", "provider", "reasoning", "thinking", "timeout", "trust", "yolo"}

\* The keys the next release removes, each with its replacement.
RemovedRunParamKeys ==
    [trust |-> "yolo", force |-> "yolo", thinking |-> "reasoning",
     provider |-> "model", output_format |-> ""]

ValidKeys(p) == DOMAIN p \subseteq RunParamKeys

ValidValues(p) ==
    /\ Declares(p, "env_mode") =>
          TypeAt(p, "env_mode") = "string" /\ At(p, "env_mode") \in {"", "strict"}
    /\ \A k \in {"env", "options"} : Declares(p, k) => TypeAt(p, k) = "map"
    /\ Declares(p, "timeout") =>
          /\ TypeAt(p, "timeout") = "string"
          /\ At(p, "timeout") \in DOMAIN Seconds
          /\ Seconds[At(p, "timeout")] > 0

ValidRunParams(p) == ValidKeys(p) /\ ValidValues(p)

IsDefaultParam(p, k) ==
    CASE k \in {"trust", "force", "yolo"} -> TypeAt(p, k) = "bool" /\ At(p, k)
      [] k = "plan" -> TypeAt(p, k) = "bool" /\ ~At(p, k)
      [] k \in {"env", "options"} ->
            TypeAt(p, k) = "nil" \/ (TypeAt(p, k) = "map" /\ DOMAIN At(p, k) = {})
      [] OTHER -> TypeAt(p, k) = "string" /\ At(p, k) = ""

\* The timeout is the runtime's own, so it is never a deviation.
NonDefaultParamKeys(p) == {k \in DOMAIN p \ {"timeout"} : ~IsDefaultParam(p, k)}

-----------------------------------------------------------------------------
(* Adapters *)

OpenCode == {"opencode", "opencodev1", "opencodev2"}
LLMAdapters == {"cursor", "pi", "claude"} \cup OpenCode

ResolveAdapter(name) == IF name = "" THEN "cursor" ELSE name
KnownAdapter(name) == ResolveAdapter(name) \in LLMAdapters \cup {"script"}

\* A custom command ignores params, and a script is nothing without one.
AdapterRequirementsMet(bee) ==
    /\ KnownAdapter(bee.adapter)
    /\ bee.adapter = "script" => bee.command
    /\ bee.command => NonDefaultParamKeys(bee.params) = {}

MapsReasoning(adapter) == adapter \in {"pi"} \cup OpenCode
MapsYolo(adapter) == adapter \in {"cursor", "claude"} \cup OpenCode

\* The keys doctor warns about: unknown, deprecated, or without a flag.
WarnedKeys(bee) ==
    {k \in DOMAIN bee.params :
        /\ KnownAdapter(bee.adapter)
        /\ \/ k \notin RunParamKeys
           \/ k \in {"trust", "force", "thinking", "provider", "output_format"}
           \/ /\ k \in {"reasoning", "thinking"} /\ TypeAt(bee.params, k) = "string"
              /\ ~MapsReasoning(ResolveAdapter(bee.adapter))
           \/ k = "yolo" /\ ~MapsYolo(ResolveAdapter(bee.adapter))}

-----------------------------------------------------------------------------
(* Layers *)

NoMap == <<>>
DefaultParams ==
    [model |-> "", provider |-> "", reasoning |-> "", trust |-> TRUE,
     force |-> TRUE, plan |-> FALSE, binary |-> "", api_key |-> "",
     env |-> NoMap, env_mode |-> "", timeout |-> 0, options |-> NoMap]

\* A nested option is no option; what is left empty declares nothing.
ScalarOptions(p) ==
    LET kept == {n \in DOMAIN At(p, "options") : At(p, "options")[n] # "nested"}
    IN  [n \in kept |-> At(p, "options")[n]]

\* The first of the keys that the block holds with this type.
FirstOf(p, keys, type) ==
    {i \in DOMAIN keys : TypeAt(p, keys[i]) = type
        /\ \A j \in 1..(i - 1) : TypeAt(p, keys[j]) # type}

Pick(p, keys, type, otherwise) ==
    IF FirstOf(p, keys, type) = {} THEN otherwise
    ELSE At(p, keys[CHOOSE i \in FirstOf(p, keys, type) : TRUE])

Timed(p) == TypeAt(p, "timeout") = "string" /\ At(p, "timeout") \in DOMAIN Seconds
Optioned(p) == TypeAt(p, "options") = "map" /\ DOMAIN ScalarOptions(p) # {}

LayerDeclares(p) ==
    {k \in {"model", "binary", "provider", "reasoning", "env_mode"} :
        TypeAt(p, k) = "string"}
    \cup {k \in {"trust", "force"} :
            \E name \in {k, "yolo"} : TypeAt(p, name) = "bool"}
    \cup {k \in {"plan"} : TypeAt(p, k) = "bool"}
    \cup {k \in {"reasoning"} : TypeAt(p, "thinking") = "string"}
    \cup {k \in {"env"} : TypeAt(p, k) = "map"}
    \cup {k \in {"options"} : Optioned(p)}
    \cup {k \in {"timeout"} : Timed(p)}

\* yolo is the collapse of trust and force and wins over both; reasoning wins
\* over its alias; output_format is accepted and ignored.
LayerFromBee(p) ==
    [declared |-> LayerDeclares(p),
     params |-> [DefaultParams EXCEPT
        !.model = Pick(p, <<"model">>, "string", @),
        !.trust = Pick(p, <<"yolo", "trust">>, "bool", @),
        !.force = Pick(p, <<"yolo", "force">>, "bool", @),
        !.plan = Pick(p, <<"plan">>, "bool", @),
        !.binary = Pick(p, <<"binary">>, "string", @),
        !.provider = Pick(p, <<"provider">>, "string", @),
        !.reasoning = Pick(p, <<"reasoning", "thinking">>, "string", @),
        !.env = Pick(p, <<"env">>, "map", @),
        !.env_mode = Pick(p, <<"env_mode">>, "string", @),
        !.options = IF Optioned(p) THEN ScalarOptions(p) ELSE @,
        !.timeout = IF Timed(p) THEN Seconds[At(p, "timeout")] ELSE @]]

\* `over` is the machine's layer: what it declares wins, except for the binary
\* and the options, where it only supplies what the committed bee left open.
MergeRunParamsLayers(base, over) ==
    [k \in DOMAIN base.params |->
        IF k \notin over.declared THEN base.params[k]
        ELSE CASE k = "env" -> over.params.env @@ base.params.env
               [] k = "options" -> base.params.options @@ over.params.options
               [] k = "binary" /\ base.params.binary # "" -> base.params.binary
               [] OTHER -> over.params[k]]

-----------------------------------------------------------------------------
(* The machine's adapter files *)

\* What a file says; "" is a key it does not set.
NoFile == [binary |-> "", key_env |-> "", version |-> "", v1_binary |-> "",
           v2_binary |-> "", detect_timeout |-> ""]

BuiltIn(adapter) ==
    CASE adapter = "pi" -> [NoFile EXCEPT !.binary = "pi"]
      [] adapter = "claude" ->
            [NoFile EXCEPT !.binary = "claude", !.key_env = "ANTHROPIC_API_KEY"]
      [] adapter \in OpenCode ->
            [NoFile EXCEPT !.binary = "opencode", !.version = "auto"]
      [] OTHER -> [NoFile EXCEPT !.binary = "agent", !.key_env = "CURSOR_API_KEY"]

\* A loaded file: the declared keys, and the built-in value of the others.
LoadAdapter(adapter, file) ==
    [declared |-> {k \in DOMAIN file : file[k] # ""},
     config |-> [k \in DOMAIN file |->
                    IF file[k] # "" THEN file[k] ELSE BuiltIn(adapter)[k]]]

\* A home profile's file of the same adapter, laid over the machine's.
OverlayAdapter(base, over) ==
    [declared |-> base.declared \cup {k \in DOMAIN over : over[k] # ""},
     config |-> [k \in DOMAIN over |->
                    IF over[k] # "" THEN over[k] ELSE base.config[k]]]

OpenCodeBinary(c, adapter) ==
    CASE adapter = "opencodev1" /\ "v1_binary" \in c.declared -> c.config.v1_binary
      [] adapter = "opencodev2" /\ "v2_binary" \in c.declared -> c.config.v2_binary
      [] OTHER -> c.config.binary

OpenCodeBinaryDeclared(c, adapter) ==
    \/ "binary" \in c.declared
    \/ adapter = "opencodev1" /\ "v1_binary" \in c.declared
    \/ adapter = "opencodev2" /\ "v2_binary" \in c.declared

OpenCodeOptionKeys == {"version", "v1_binary", "v2_binary", "detect_timeout"}
OpenCodePin(adapter) ==
    CASE adapter = "opencodev1" -> [version |-> "1"]
      [] adapter = "opencodev2" -> [version |-> "2"]
      [] OTHER -> NoMap

\* Only declared keys travel, and a pinned adapter decides its version.
OpenCodeOptions(c, adapter) ==
    OpenCodePin(adapter) @@ [k \in OpenCodeOptionKeys \cap c.declared |-> c.config[k]]

Key(c, keys) == IF c.config.key_env \in DOMAIN keys THEN keys[c.config.key_env] ELSE ""

\* The machine's layer: its key, and a binary or options only if a file says so.
AdapterExtraLayer(c, adapter, keys) ==
    LET options == IF adapter \in OpenCode THEN OpenCodeOptions(c, adapter) ELSE NoMap
        named == IF adapter \in OpenCode THEN OpenCodeBinaryDeclared(c, adapter)
                 ELSE "binary" \in c.declared
    IN  [declared |-> {"api_key"}
            \cup {k \in {"binary"} : named}
            \cup {k \in {"options"} : DOMAIN options # {}},
         params |-> [DefaultParams EXCEPT
            !.api_key = IF adapter \in OpenCode THEN "" ELSE Key(c, keys),
            !.binary = IF ~named THEN ""
                       ELSE IF adapter \in OpenCode THEN OpenCodeBinary(c, adapter)
                       ELSE c.config.binary,
            !.options = options]]

-----------------------------------------------------------------------------
(* Model aliases *)

MergedModelAliases(lower, higher) == higher @@ lower

ValidModelAliases(aliases) ==
    \A a \in DOMAIN aliases :
        a # "" /\ aliases[a] # "" /\ aliases[a] \notin DOMAIN aliases

ResolveModel(name, aliases) ==
    IF name \in DOMAIN aliases THEN aliases[name] ELSE name

-----------------------------------------------------------------------------
(* What the comments of params.go promise *)

\* A command-mode bee's params are a no-op (ParamsAreDefault): a block without
\* a deviation asks for what an empty block asks for, the timeout aside.
DefaultsAreNoOp(p) ==
    NonDefaultParamKeys(p) = {} =>
        [LayerFromBee(p).params EXCEPT !.timeout = 0] = DefaultParams

\* The merge touches nothing the machine did not declare, never the executable
\* or an option the committed bee names, and a declared FALSE gets through.
MachineIsAFallback(base, over) ==
    LET merged == MergeRunParamsLayers(base, over)
    IN  /\ \A k \in DOMAIN merged :
              k \notin over.declared => merged[k] = base.params[k]
        /\ base.params.binary # "" => merged.binary = base.params.binary
        /\ \A n \in DOMAIN base.params.options :
              merged.options[n] = base.params.options[n]
        /\ \A k \in {"trust", "force", "plan"} \cap over.declared :
              merged[k] = over.params[k]

\* A pinned adapter never runs another version, whatever the files say.
PinHolds(machine, adapter) ==
    OpenCodePin(adapter) # NoMap =>
        OpenCodeOptions(machine, adapter).version = OpenCodePin(adapter).version

\* Resolving a model twice is resolving it once: no alias leads to another.
AliasesAreFlat(aliases) ==
    ValidModelAliases(aliases) =>
        \A a \in DOMAIN aliases :
            ResolveModel(ResolveModel(a, aliases), aliases) = ResolveModel(a, aliases)
=============================================================================
