---------------------------- MODULE TrailSnapshot ----------------------------
(***************************************************************************)
(* What a trail freezes (trailconfig.go): which files of the colony and of *)
(* the machine are captured, the effective bees that replace the committed *)
(* ones, the identity of a snapshot, its verification, and the context a   *)
(* run is bound to.                                                        *)
(*                                                                         *)
(* A file system is a function from node names to nodes: a directory       *)
(* [kind, entries], a link [kind, target], a file [kind, mode, content] or *)
(* a special one.  A logical path is a sequence of names; its first names  *)
(* the area, and the home directory is the areas "home...": a bee or a     *)
(* profile is named by its role or name, its local overlay lies in         *)
(* "bees.local", and the files of a skill in <<area, skill, file>>.  A     *)
(* content is what loading reads from the file, and a digest is the        *)
(* content.                                                                *)
(***************************************************************************)
EXTENDS SkillStore
LOCAL INSTANCE Sequences
LOCAL INSTANCE SequencesExt

CONSTANT StrayNames     \* file names without a YAML extension

Root == "root"
Gone == "gone"

-----------------------------------------------------------------------------
(* The walk *)

Leads(fs, n) == IF fs[n].kind = "link" THEN fs[n].target ELSE n
IsDir(fs, n) == n # Gone /\ fs[n].kind = "dir"
IsFile(fs, n) == n # Gone /\ fs[n].kind = "file"

\* The node at a path, links on the way followed, the last one not.
NodeAt(fs, path) ==
    LET at[i \in 0..Len(path)] ==
            IF i = 0 THEN {Root}
            ELSE {fs[Leads(fs, n)].entries[path[i]] : n \in
                    {n \in at[i - 1] : /\ IsDir(fs, Leads(fs, n))
                                       /\ path[i] \in DOMAIN fs[Leads(fs, n)].entries}}
    IN  at[Len(path)]

Relevant(yaml, name) == yaml => name \notin StrayNames

\* The files below a directory, each with the path it is reached by.  A link is
\* followed unless it leads to a directory that is being walked through a link
\* (or is the root); what is relevant and no regular file is <<path, Gone>>.
WalkTree(fs, root, yaml) ==
    LET walk[d \in DOMAIN fs, active \in SUBSET DOMAIN fs] ==
            LET Entry(name) ==
                    LET linked == fs[fs[d].entries[name]].kind = "link"
                        n == Leads(fs, fs[d].entries[name])
                    IN  CASE IsDir(fs, n) /\ linked /\ n \in active -> {}
                          [] IsDir(fs, n) /\ ~(linked /\ n \in active) ->
                                {<<<<name>> \o f[1], f[2]>> : f \in
                                    walk[n, IF linked THEN active \cup {n} ELSE active]}
                          [] ~IsDir(fs, n) /\ ~Relevant(yaml, name) -> {}
                          [] OTHER -> {<<<<name>>, IF IsFile(fs, n) THEN n ELSE Gone>>}
            IN  UNION {Entry(name) : name \in DOMAIN fs[d].entries}
    IN  walk[root, {root}]

\* What is absent is skipped; what exists and cannot be captured fails.
AddTree(fs, path, yaml) ==
    UNION {IF IsDir(fs, Leads(fs, n))
           THEN {<<path \o f[1], f[2]>> : f \in WalkTree(fs, Leads(fs, n), yaml)}
           ELSE {<<path, Gone>>} : n \in NodeAt(fs, path)}
AddFile(fs, path) ==
    {<<path, IF IsFile(fs, Leads(fs, n)) THEN Leads(fs, n) ELSE Gone>> : n \in NodeAt(fs, path)}

\* The selected profile alone, and the machine's part when the slug is known.
CollectSources(fs, context) ==
    AddFile(fs, <<"colony">>)
    \cup UNION {AddTree(fs, <<area>>, TRUE) : area \in {"bees", "bees.local", "cues"}}
    \cup UNION {AddTree(fs, <<area>>, FALSE) : area \in {"prompts", "skills", "clients"}}
    \cup AddFile(fs, <<"ledger">>)
    \cup (IF context.profile = "" THEN {} ELSE AddFile(fs, <<"profiles", context.profile>>))
    \cup (IF context.profile = "" \/ context.slug = "" THEN {}
          ELSE AddTree(fs, <<"home.adapters", context.profile>>, TRUE)
               \cup AddFile(fs, <<"home.profiles", context.profile>>))
    \cup (IF context.slug = "" THEN {} ELSE AddTree(fs, <<"home.skills">>, FALSE))

-----------------------------------------------------------------------------
(* What a set of files says to its readers *)

Under(files, area, n) == {p \in DOMAIN files : p[1] = area /\ Len(p) = n}
Named(files, area) ==
    [name \in {p[2] : p \in Under(files, area, 2)} |-> files[<<area, name>>].content]

NoDocument == [front |-> "missing", name |-> "", description |-> "", metadata |-> NoMap, body |-> <<>>]
SkillEntry(kind, own) ==
    [kind |-> kind,
     files |-> [f \in DOMAIN own |-> [mode |-> "regular", size |-> own[f].size, lines |-> own[f].lines]],
     manifest |-> IF ManifestName \in DOMAIN own THEN own[ManifestName].doc ELSE NoDocument]
SkillFiles(files, area, skill) ==
    [f \in {p[3] : p \in {p \in Under(files, area, 3) : p[2] = skill}} |-> files[<<area, skill, f>>].content]

\* A tree of regular files: a directory is there because something is in it.
StoreOf(files) ==
    [e \in {p[2] : p \in Under(files, "skills", 3)} |-> SkillEntry("dir", SkillFiles(files, "skills", e))]
    @@ [e \in {p[2] : p \in Under(files, "skills", 2)} |-> SkillEntry("other", NoMap)]

ManifestOf(files) == files[<<"colony">>].content
BeesOf(files) == Named(files, "bees")
TreeOf(files) ==
    [store |-> StoreOf(files), bees |-> BeesOf(files), manifest |-> ManifestOf(files),
     ledger |-> IF <<"ledger">> \in DOMAIN files THEN files[<<"ledger">>].content
                ELSE [state |-> "missing"],
     profiles |-> Named(files, "profiles"), home_profiles |-> Named(files, "home.profiles")]

\* The live colony, read where it lies: the areas above, links followed, and in
\* the store what a scan finds beside regular files.
LiveFiles(fs) ==
    LET areas == DOMAIN fs[Root].entries
        found == {f \in UNION {IF IsDir(fs, Leads(fs, fs[Root].entries[a])) THEN AddTree(fs, <<a>>, a = "bees")
                               ELSE AddFile(fs, <<a>>) : a \in areas} : f[2] # Gone}
    IN  [p \in {f[1] : f \in found} |->
            LET n == (CHOOSE f \in found : f[1] = p)[2]
            IN  [mode |-> fs[n].mode, content |-> fs[n].content]]
LiveStore(fs) ==
    LET dirs == {Leads(fs, n) : n \in NodeAt(fs, <<"skills">>)}
        files == LiveFiles(fs)
        Seen(dir, e) ==
            LET n == fs[dir].entries[e]
                below == {f \in DOMAIN fs[Leads(fs, n)].entries :
                            Leads(fs, fs[Leads(fs, n)].entries[f]) = Gone}
                own == SkillEntry("dir", SkillFiles(files, "skills", e))
            IN  IF ~IsDir(fs, Leads(fs, n)) THEN SkillEntry("other", NoMap)
                ELSE [own EXCEPT !.kind = IF fs[n].kind = "link" THEN "link to dir" ELSE "dir",
                                 !.files = [f \in below |-> [mode |-> "unreadable", size |-> 0,
                                                             lines |-> <<>>]] @@ @]
    IN  CHOOSE s \in {[e \in DOMAIN fs[d].entries |-> Seen(d, e)] : d \in dirs}
                        \cup (IF dirs = {} THEN {NoMap} ELSE {}) : TRUE
LiveTree(fs) == [TreeOf(LiveFiles(fs)) EXCEPT !.store = LiveStore(fs)]

-----------------------------------------------------------------------------
(* Capture, and the identity of what is captured *)

PrivatePath(path) == path[1] \in {"home.profiles", "home.adapters", "home.skills", "bees.local"}

\* A blank policy block is none, so that it leaves the identity alone.
PinnedPolicies(manifest) ==
    [closing |-> IF Configured(manifest.closing) THEN Resolved(manifest.closing, manifest.defaults)
                 ELSE NoClosing,
     merge |-> manifest.merge]

\* The bees as the profile leaves them, in the place of the committed ones.
MaterializeEffectiveBees(context, files) ==
    {[p \in {<<"bees", role>> : role \in DOMAIN bees} |-> [mode |-> "rw-r", content |-> bees[p[2]]]]
        @@ files : bees \in ContextLoadAllBees(context, BeesOf(files), TRUE)}

NormalizedAliases(aliases) == [a \in DOMAIN aliases \ {""} |-> aliases[a]]

Capture(fs, context) ==
    LET sources == CollectSources(fs, context)
        files == [p \in {s[1] : s \in sources} |->
                    LET n == (CHOOSE s \in sources : s[1] = p)[2]
                    IN  [mode |-> fs[n].mode, content |-> fs[n].content]]
        resolved(manifest) ==
            [profile |-> context.profile, layers |-> context.layers,
             aliases |-> NormalizedAliases(context.model_aliases)] @@ PinnedPolicies(manifest)
    IN  IF \/ \E s \in sources : s[2] = Gone
           \/ \E p \in DOMAIN files : files[p].mode = "none"
           \/ <<"colony">> \notin DOMAIN files
        THEN {}
        ELSE {[files |-> frozen, resolved |-> resolved(manifest)] :
                frozen \in MaterializeEffectiveBees(context, files),
                manifest \in LoadColony(ManifestOf(files), BeesOf(files))}

\* The entries of an inventory name the bytes and the mode of every file.
InventoryOf(files, resolved) ==
    [state |-> "written", resolved |-> resolved,
     entries |-> [p \in DOMAIN files |-> files[p] @@ [private |-> PrivatePath(p)]]]

\* Which layers took part is provenance and no part of the identity.
ConfigRef(inventory) == <<inventory.entries, [inventory.resolved EXCEPT !.layers = {}]>>

-----------------------------------------------------------------------------
(* Retained snapshots: a function from references to [inventory, tree] *)

\* Every inventoried file still has the bytes it had.  Modes, and files that
\* came later, are not looked at.
LoadVerifiedSnapshot(disk, ref) ==
    IF /\ ref \in DOMAIN disk
       /\ disk[ref].inventory.state = "written"
       /\ ConfigRef(disk[ref].inventory) = ref
       /\ \A p \in DOMAIN disk[ref].inventory.entries :
             /\ p \in DOMAIN disk[ref].tree
             /\ disk[ref].tree[p].content = disk[ref].inventory.entries[p].content
    THEN {disk[ref].inventory} ELSE {}

\* An existing snapshot is verified and kept; a new one appears whole.
MaterializeSnapshot(disk, ref, files, inventory) ==
    IF ref \in DOMAIN disk
    THEN {d \in {disk} : LoadVerifiedSnapshot(disk, ref) # {}}
    ELSE {[r \in {ref} |-> [inventory |-> inventory, tree |-> files]] @@ disk}

ReadSnapshotContents(disk, ref, inventory) ==
    [p \in DOMAIN inventory.entries |->
        [mode |-> inventory.entries[p].mode, content |-> disk[ref].tree[p].content]]

-----------------------------------------------------------------------------
(* The binding of a trail, read from its manifest file *)

Policies == {"editable", "pinned"}
ValidTraceID(trace) == trace \in TrailTokens
ValidateManifest(file) ==
    file.revision >= 1 /\ file.initial # <<>> /\ file.active # <<>> /\ file.policy \in Policies

\* Missing is no error, anything else unreadable is.
Load(file, trace) ==
    IF /\ ValidTraceID(trace) /\ file.state = "written" /\ file.trace \in {"", trace}
       /\ ValidateManifest(file)
    THEN {file} ELSE {}
Unbound(file, trace) == ValidTraceID(trace) /\ file.state = "missing"

\* A trail is new while its directory holds its event log alone.
IsNewTrail(entries) == \A e \in entries : e \in {<<"dir", "config">>, <<"file", "events">>}

\* The snapshot's own profile and aliases, and the root the trail was given.
BindRef(context, disk, file, trace, ref, revision) ==
    {[ref |-> ref, revision |-> revision, files |-> disk[ref].tree]
        @@ [context EXCEPT !.bound = TRUE, !.profile = inventory.resolved.profile,
                           !.layers = inventory.resolved.layers,
                           !.model_aliases = inventory.resolved.aliases,
                           !.workspace = CASE file.state = "written" /\ file.workspace # "" -> file.workspace
                                           [] @ # "" -> @
                                           [] OTHER -> "colony"] :
        inventory \in IF Load(file, trace) # {} \/ Unbound(file, trace)
                      THEN LoadVerifiedSnapshot(disk, ref) ELSE {}}

\* It never captures: an unbound trail stays what it is.
Bind(context, disk, file, trace) ==
    UNION {BindRef(context, disk, file, trace, m.active, m.revision) : m \in Load(file, trace)}

\* Without a colony there is nothing to capture; one that does not resolve on
\* this machine is captured from its own files.
EnsureForRoot(fs, resolved, slug) ==
    IF NodeAt(fs, <<"colony">>) = {} THEN {}
    ELSE IF resolved # {} THEN resolved
    ELSE {[model_aliases |-> manifest.model_aliases, home_aliases |-> NoMap, url |-> "",
           profile |-> "", bound |-> FALSE, colony_profile |-> NoProfile,
           home_profile |-> NoHomeProfile, layers |-> {}, workspace |-> "",
           slug |-> IF manifest.slug = "" THEN slug ELSE manifest.slug] :
            manifest \in LoadColony(ManifestOf(LiveFiles(fs)), BeesOf(LiveFiles(fs)))}

-----------------------------------------------------------------------------
(* What the snapshot promises *)

\* A successful walk misses nothing: every path that leads to a relevant file
\* without entering a linked directory twice is captured, and no other path.
WalkIsComplete(fs, root, yaml, depth) ==
    LET names == UNION {DOMAIN fs[n].entries : n \in {n \in DOMAIN fs : fs[n].kind = "dir"}}
        paths == UNION {[1..k -> names] : k \in 1..depth}
        below == [n \in {Root} |-> fs[root]] @@ fs
        On(path) == [i \in 1..Len(path) |-> CHOOSE n \in NodeAt(below, SubSeq(path, 1, i)) : TRUE]
        Reached(path) ==
            /\ NodeAt(below, path) # {} /\ Relevant(yaml, Last(path))
            /\ LET on == On(path) IN
               /\ ~IsDir(fs, Leads(fs, Last(on)))
               /\ \A i \in 1..(Len(path) - 1) : fs[on[i]].kind = "link" =>
                    /\ Leads(fs, on[i]) # root
                    /\ \A j \in 1..(i - 1) : fs[on[j]].kind = "link" => Leads(fs, on[j]) # Leads(fs, on[i])
        walked == WalkTree(fs, root, yaml)
    IN  /\ {f[1] : f \in {f \in walked : Len(f[1]) <= depth}} = {p \in paths : Reached(p)}
        /\ \A f \in walked : f[2] # Gone => f[2] = Leads(fs, Last(On(f[1])))

\* What a capture keeps is what the colony runs by: loaded from the snapshot, by
\* under whatever the profile has become, the bees are those the live context
\* loaded.
CaptureKeepsBees(fs, context, later) ==
    \A captured \in Capture(fs, context) :
        LET inventory == InventoryOf(captured.files, captured.resolved)
            ref == ConfigRef(inventory)
            unbound == [state |-> "missing", workspace |-> ""]
        IN  \A disk \in MaterializeSnapshot(NoMap, ref, captured.files, inventory) :
            \A bound \in BindRef([context EXCEPT !.colony_profile = later], disk, unbound,
                                 CHOOSE t \in TrailTokens : TRUE, ref, 1) :
                ContextLoadAllBees(bound, BeesOf(bound.files), TRUE)
                    = ContextLoadAllBees(context, BeesOf(LiveFiles(fs)), TRUE)

\* A run is offered by a snapshot what the live colony offers, and is refused
\* where the colony refuses, unless a skill directory is empty: nothing of it is
\* captured, so what a live run rejects, or skips as disabled, is then unknown.
FrozenEqualsLive(fs, context, role) ==
    \A captured \in Capture(fs, context) :
        LET in == [role |-> role, frozen |-> FALSE, slug |-> context.slug, profile |-> context.profile]
            store == LiveStore(fs)
        IN  (\A e \in DOMAIN store : IsSkill(store, e) => store[e].files # NoMap) =>
                ResolveRun([in EXCEPT !.frozen = TRUE], TreeOf(captured.files), NoMap)
                    = ResolveRun(in, LiveTree(fs), Named(LiveFiles(fs), "home.profiles"))

\* Whatever became of the disk, what binds under a reference is what was
\* captured under it: no changed file, inventory or setting is run by.
BindsWhatWasCaptured(context, disk, file, trace, captured) ==
    LET ref == ConfigRef(InventoryOf(captured.files, captured.resolved))
    IN  \A bound \in BindRef(context, disk, file, trace, ref, 1) :
            /\ \A p \in DOMAIN captured.files :
                    p \in DOMAIN bound.files /\ bound.files[p].content = captured.files[p].content
            /\ bound.profile = captured.resolved.profile
            /\ bound.model_aliases = captured.resolved.aliases

\* A second capture of an unchanged colony is the same version, and reuses it.
CaptureIsStable(fs, context, layers) ==
    \A a \in Capture(fs, context), b \in Capture(fs, [context EXCEPT !.layers = layers]) :
        LET one == InventoryOf(a.files, a.resolved)
            two == InventoryOf(b.files, b.resolved)
        IN  /\ ConfigRef(one) = ConfigRef(two)
            /\ \A disk \in MaterializeSnapshot(NoMap, ConfigRef(one), a.files, one) :
                    MaterializeSnapshot(disk, ConfigRef(two), b.files, two) = {disk}
=============================================================================
