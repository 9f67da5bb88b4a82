---------------------------- MODULE ColonyChecks ----------------------------
(***************************************************************************)
(* What the configuration modules promise, evaluated over small sets of    *)
(* blocks, bees, profiles, machines and events.                            *)
(***************************************************************************)
EXTENDS Integers, FiniteSets, Sequences, TLC

LOCAL Colony == INSTANCE ColonyProfile WITH
    Seconds <- [d \in {"90s", "0s"} |-> IF d = "90s" THEN 90 ELSE 0]

LOCAL Bool(b) == <<"bool", b>>
LOCAL Str(s) == <<"string", s>>
LOCAL Map(m) == <<"map", m>>

\* Blocks of at most two keys, over every key with a rule of its own.
LOCAL Entries ==
    {<<k, Bool(b)>> : k \in {"yolo", "trust", "plan"}, b \in BOOLEAN}
    \cup {<<k, Str(s)>> : k \in {"model", "binary", "reasoning", "thinking", "env_mode"},
                          s \in {"", "strict"}}
    \cup {<<"timeout", Str(s)>> : s \in {"90s", "0s", "soon"}}
    \cup {<<"env", v>> : v \in {<<"nil">>, Map(<<>>), Map([home |-> "a"])}}
    \cup {<<"options", v>> : v \in {Map([version |-> "2"]), Map([version |-> "nested"]), Str("x")}}
    \cup {<<"output_format", Str("json")>>, <<"colour", Str("red")>>}
LOCAL Blocks ==
    {<<>>} \cup {[k \in {e[1] : e \in es} |-> (CHOOSE e \in es : e[1] = k)[2]] : es \in {{e, f} : e, f \in Entries}}

\* A block without a deviation asks for the defaults.
ASSUME NoDeviationIsNoOp == \A p \in Blocks : Colony!DefaultsAreNoOp(p)

LOCAL Files ==
    {[Colony!NoFile EXCEPT !.binary = b, !.version = v, !.v2_binary = w] :
        b, v \in {"", "x"}, w \in {"", "y"}}
LOCAL Machines ==
    {Colony!OverlayAdapter(Colony!LoadAdapter(a, f), g) :
        a \in {"cursor", "opencode", "opencodev2"}, f, g \in Files}
LOCAL Keys == [n \in {"CURSOR_API_KEY"} |-> "secret"]

\* The machine is a fallback, whatever its files and the bee's block say.
ASSUME MachineIsFallback ==
    \A p \in {p \in Blocks : Cardinality(DOMAIN p) < 2}, m \in Machines,
       a \in {"cursor", "opencode", "opencodev2"} :
        Colony!MachineIsAFallback(Colony!LayerFromBee(p), Colony!AdapterExtraLayer(m, a, Keys))

\* A pinned adapter keeps its version.
ASSUME PinIsKept ==
    \A m \in Machines, a \in Colony!OpenCode : Colony!PinHolds(m, a)

LOCAL Aliases == {<<>>, [fast |-> "m1"], [best |-> "fast"], [fast |-> "m1", best |-> "m2"]}
ASSUME OneStepAliases ==
    \A low, high \in Aliases : Colony!AliasesAreFlat(Colony!MergedModelAliases(low, high))

-----------------------------------------------------------------------------
LOCAL Rule(t, k) == [type |-> t, kind |-> k]
LOCAL Sub(t, k, d, p) == [type |-> t, kind |-> k, dispatch |-> d, purpose |-> p]

LOCAL Subs ==
    {Sub("SIGNAL", k, "", p) : k \in {"task.ready", "trail.work.completed"}, p \in {"", "analysis"}}
    \cup {Sub("MUTATION", k, "", "") : k \in {"", "code.proposal", "code.proposal.root"}}
    \cup {Sub("SIGNAL", "", "task", ""), Sub("NOISE", "", "direct", "")}
LOCAL Pubs ==
    {Rule("MUTATION", k) : k \in {"", "code.proposal", "code.proposal.root"}}
    \cup {Rule("SIGNAL", "code.proposal.root"), Rule("VERIFICATION", "verification.success")}
LOCAL Bees ==
    {[worktree |-> w, subscribes |-> s, publishes |-> p] :
        w \in BOOLEAN, s \in {{}} \cup {{sub} : sub \in Subs} \cup {{Sub("SIGNAL", "trail.work.completed", "", "analysis"),
        Sub("SIGNAL", "", "direct", "")}}, p \in {{}} \cup {{pub} : pub \in Pubs}}
LOCAL Colonies ==
    {[author |-> a, reviewer |-> r] : a \in {b \in Bees : b.subscribes = {}},
                                      r \in {b \in Bees : b.publishes = {}}}
LOCAL Happenings ==
    {<<"SIGNAL", "task.ready">>, <<"SIGNAL", "trail.work.completed">>, <<"SIGNAL", "energy.paused">>,
     <<"MUTATION", "code.proposal.isolated">>, <<"MUTATION", "code.proposal.root">>,
     <<"MUTATION", "other">>}

\* A reviewer that names a proposal runs in the workspace it was made in.
ASSUME ReviewersAgree == \A bees \in Colonies : Colony!ReviewersShareWorkspace(bees)

\* The diagram says who reacts, for any event and any one bee.
ASSUME DiagramIsTrue ==
    \A bee \in Bees, e \in Happenings :
        /\ Colony!DiagramTellsReactions([author |-> bee], e[1], e[2])
        /\ Colony!AnalysisFollowsCompletion([author |-> bee], e[1], e[2])

\* The closing round of a valid policy finds a bee that takes it.
ASSUME ClosingFindsItsBee ==
    \A bee \in Bees, name \in {"", "author", "ghost"}, rounds \in {-1, 0, 1}, on \in BOOLEAN :
        Colony!ClosingIsTaken([Colony!NoClosing EXCEPT !.enabled = on, !.bee = name,
                                  !.max_rounds = rounds],
                              [author |-> bee], [bee |-> "author"], {})

LOCAL Field(f, d) == [from |-> f, default |-> d]
LOCAL InviteRules ==
    {[when |-> Rule("SIGNAL", "doc.ready"), match |-> <<>>, bee |-> Field("bee", d),
      intent |-> Field("", "write"), artifactRef |-> Field("ref", ""), status |-> "",
      dedupe |-> keys,
      task |-> [from_trace_kind |-> t, from_trace_field |-> "title", prefix |-> "Do ",
                from |-> "ref", fallback_from |-> "", default |-> o]] :
        d \in {"", "drone"}, t \in {"", "asked"}, o \in {"", "Write"},
        keys \in SUBSET {"bee", "intent", "artifactRef"}}
LOCAL Payloads == UNION {[fields -> {"", "a"}] : fields \in SUBSET {"bee", "ref", "title"}}

\* A second invite for the same work is a duplicate.
ASSUME InvitesDeduplicate ==
    \A rule \in InviteRules, p, q \in Payloads :
        Colony!SecondInviteIsDuplicate([type |-> "SIGNAL", kind |-> "doc.ready", payload |-> p],
            rule, <<[type |-> "SIGNAL", kind |-> "asked", payload |-> q]>>)

-----------------------------------------------------------------------------
LOCAL Plain ==
    [role |-> "author", adapter |-> "", command |-> FALSE, params |-> <<>>,
     skills |-> Colony!Inherited, worktree |-> FALSE, subscribes |-> {}, publishes |-> {},
     contract |-> [required |-> {}, intents |-> <<>>], run_summary |-> "", checks |-> "none",
     local_keys |-> {}]
LOCAL Params == {<<>>, [model |-> Str("fast")], [yolo |-> Bool(FALSE)], [colour |-> Str("red")]}
LOCAL Committed ==
    {[Plain EXCEPT !.adapter = a, !.command = c, !.params = p] :
        a \in {"", "pi", "script", "ghost"}, c \in BOOLEAN, p \in Params}
LOCAL Own == {[Colony!NoBeeProfile EXCEPT !.adapter = a, !.params = p] :
        a \in {"", "claude", "script"}, p \in Params}
LOCAL Profiles ==
    {[Colony!NoProfile EXCEPT !.adapter = a, !.params = p, !.bees = b] :
        a \in {"", "claude"}, p \in Params, b \in {<<>>} \cup {[author |-> o] : o \in Own}}

\* A profile remaps LLM bees only, once, within bounds.
ASSUME ProfilesAreBounded ==
    \A profile \in Profiles, bee \in Committed :
        /\ Colony!ProfileIsIdempotent(profile, bee)
        /\ Colony!OnlyOwnEntryBreaksBee(profile, bee)
        /\ Colony!ProfileStaysInBounds(profile, bee)

LOCAL Lists == {Colony!Inherited, [present |-> TRUE, refs |-> {}], [present |-> TRUE, refs |-> {"a"}]}

\* The strongest layer that says anything about skills is the answer.
ASSUME SkillsOptOut ==
    \A d, c, h, b, rc, rh \in Lists :
        Colony!OptOutHolds([skills |-> d],
            [Colony!NoProfile EXCEPT !.skills = c,
                 !.bees = [author |-> [Colony!NoBeeProfile EXCEPT !.skills = rc]]],
            [Colony!NoHomeProfile EXCEPT !.skills = h, !.bees = [author |-> [skills |-> rh]]],
            [Plain EXCEPT !.skills = b])

LOCAL Manifest(a) ==
    [keys |-> {}, auto_invites |-> {}, model_aliases |-> a, delivery |-> "",
     defaults |-> [bee |-> "", skills_delivery |-> ""], closing |-> Colony!NoClosing]

\* Every context that resolves has flat aliases, though each layer was valid
\* by itself and the four together may not be.
ASSUME ResolvedAliasesAreFlat ==
    \A a, b, c, d \in Aliases, named \in BOOLEAN :
        Colony!ContextAliasesAreFlat(Colony!ResolveContext(Manifest(a), [author |-> Plain],
            [exists |-> TRUE, here |-> TRUE, model_aliases |-> b, url |-> "", profile |-> ""],
            [colony |-> [fast |-> [Colony!NoProfile EXCEPT !.model_aliases = c]],
             home |-> [fast |-> [Colony!NoHomeProfile EXCEPT !.model_aliases = d]]],
            [none |-> FALSE, named |-> named, name |-> "fast"], ""))
=============================================================================
