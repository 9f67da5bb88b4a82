-------------------------- MODULE SkillStoreChecks --------------------------
(***************************************************************************)
(* What the readers of the skill store promise each other, evaluated over  *)
(* small stores, ledgers, gates, packages and logs.                        *)
(***************************************************************************)
EXTENDS Integers, FiniteSets, Sequences, TLC

LOCAL Paths == {"SKILL.md", "x/../SKILL.md", "notes", "../up"}
LOCAL Store == INSTANCE SkillStore WITH
    Seconds <- [d \in {"90s"} |-> 90],
    ShapedNames <- {"a", "b", "long"}, LongTexts <- {"long"},
    MaxSkillsPerRole <- 1, MaxSkillFileBytes <- 2, MaxStoreBytes <- 3,
    PathOrder <- <<"SKILL.md", "notes">>, TrailTokens <- {"t1", "t2"},
    CleanPath <- [p \in Paths |-> CASE p = "x/../SKILL.md" -> "SKILL.md"
                                    [] p = "../up" -> ""
                                    [] OTHER -> p]

LOCAL Ref(form, text, names) == [form |-> form, text |-> text, names |-> names]
LOCAL Refs ==
    {Ref("name", n, {n}) : n \in {"a", "b", "ghost"}}
    \cup {Ref("pattern", "b*", {"b"}), Ref("all", "*", {}), Ref("bad", "c:a", {})}

LOCAL Doc(name, description) ==
    [front |-> "ok", name |-> name, description |-> description, metadata |-> <<>>,
     body |-> <<"do it">>]
LOCAL Docs ==
    {Doc(n, d) : n \in {"", "a", "b"}, d \in {"", "does it"}}
    \cup {[Doc("", "") EXCEPT !.front = f] : f \in {"missing", "none", "metadata"}}
LOCAL File(size) == [mode |-> "regular", size |-> size, lines |-> <<"text">>]
LOCAL Entry(kind, doc, size) ==
    [kind |-> kind, manifest |-> doc, files |-> [f \in {"SKILL.md"} |-> File(size)]]

\* One skill in every condition, beside a good one and perhaps a stray file.
LOCAL Stores ==
    {[a |-> Entry("dir", d, z)] : d \in Docs, z \in {1, 3}}
    \cup {[a |-> Entry("dir", d, 1), b |-> Entry("link to dir", Doc("b", "does it"), z)] :
            d \in Docs, z \in {1, 3}}
    \cup {[a |-> Entry("dir", d, 1), stray |-> Entry("other", Doc("", ""), 1)] : d \in Docs}
    \cup {<<>>}
LOCAL Off == [reason |-> "stale", timed |-> TRUE]
LOCAL Ledgers ==
    {[state |-> "missing"], [state |-> "parsed", version |-> 1, disabled |-> [a |-> Off]],
     [state |-> "parsed", version |-> 1, disabled |-> [b |-> [Off EXCEPT !.timed = FALSE]]]}

LOCAL Gate(refs) == [present |-> TRUE, refs |-> refs]
LOCAL Gates == {Store!Inherited} \cup {Gate(refs) : refs \in {{r, s} : r, s \in Refs} \cup {{}}}
LOCAL Bee(gate) ==
    [role |-> "author", adapter |-> "", command |-> FALSE, params |-> <<>>, skills |-> gate,
     worktree |-> FALSE, subscribes |-> {}, publishes |-> {},
     contract |-> [required |-> {}, intents |-> <<>>], run_summary |-> "", checks |-> "none",
     local_keys |-> {}]
LOCAL Tree(store, ledger, gate) ==
    [store |-> store, ledger |-> ledger, bees |-> [author |-> Bee(gate)],
     profiles |-> <<>>, home_profiles |-> <<>>,
     manifest |-> [keys |-> {}, auto_invites |-> {}, model_aliases |-> <<>>, delivery |-> "",
                   defaults |-> [bee |-> "", skills |-> Gate({Ref("all", "*", {})}),
                                 skills_delivery |-> "command"],
                   closing |-> Store!NoClosing]]
LOCAL Home == [fast |-> [Store!NoHomeProfile EXCEPT !.skills = Gate({Ref("name", "b", {"b"})})]]
LOCAL Machine(profile) ==
    [exists |-> TRUE, here |-> TRUE, model_aliases |-> <<>>, url |-> "", profile |-> profile]
LOCAL Trees == {Tree(s, l, g) : s \in Stores, l \in Ledgers, g \in Gates}

\* The listing and the runs agree, with a profile over the gate and without.
ASSUME ListingIsTrue ==
    \A tree \in Trees, profile \in {"", "fast"} :
        Store!ListingAgreesWithRuns(tree, Machine(profile), Home)

\* A verdict on a reference is a verdict on a run of it.
ASSUME ValidateIsTrue ==
    \A tree \in {Tree(s, l, Store!Inherited) : s \in Stores, l \in Ledgers}, ref \in Refs :
        Store!ValidateAgreesWithRuns(tree, ref, "author")

\* A neighbour nobody named cannot break a run.
ASSUME NeighboursDoNotMatter ==
    \A tree \in {t \in Trees : t.bees["author"].skills.present /\ "b" \in DOMAIN t.store},
       name \in {"a", "b"}, doc \in Docs :
        Store!OthersDoNotMatter(tree, "author", name, doc)

\* Loads stay within the offer.
ASSUME LoadsAreOffered ==
    \A tree \in Trees, ref \in Refs :
        Store!LoadsWhatWasOffered(tree, Home, "", "author", ref)

LOCAL Carried ==
    {[files |-> [p \in paths |-> File(z)],
      manifest |-> [d EXCEPT !.metadata = m]] :
        paths \in SUBSET Paths, z \in {1, 3}, d \in Docs,
        m \in {<<>>, [source |-> "proposal", trail |-> "t1", licence |-> "free"]}}

\* An import passes the store's own rules and keeps its identity.
ASSUME ImportsAreSound ==
    \A ref \in Refs, carried \in Carried : Store!ImportIsSound(ref, carried)

\* A proposal can be named, and a name is never two of them.
ASSUME ProposalsHaveNames ==
    \A proposals \in SUBSET [name : {"a", "b"}, trail : {"t1", "t2"}] :
        Store!ProposalsAreAddressable(proposals)

\* The two answers to "is it there" differ on a stray entry alone.
ASSUME HeldAndInTheWay ==
    \A store \in Stores, name \in {"a", "b", "stray"} : Store!HeldIsInTheWay(store, name)

LOCAL Loads ==
    {[state |-> "line", name |-> n, at |-> "now"] : n \in {"", "a", "b"}}
    \cup {[state |-> s, name |-> "", at |-> ""] : s \in {"blank", "damaged"}}

\* The record of used skills is the loads, each once, in order.
ASSUME UsedIsInOrder ==
    \A log \in UNION {[1..n -> Loads] : n \in 0..4} : Store!UsedInOrder(log)
=============================================================================
