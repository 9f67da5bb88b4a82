----------------------------- MODULE SkillStore -----------------------------
(***************************************************************************)
(* Reading the skill store (internal/skills): the scan and its findings,   *)
(* the ledger of disabled skills, the resolution of a role's references,   *)
(* the listing, what a run is offered and records as used, the import of a *)
(* carried skill and the reading of proposals and decisions.               *)
(*                                                                         *)
(* A store is a function from entry names to entries; an entry is [kind,   *)
(* files, manifest], a manifest a document or why there is none.  Links    *)
(* are what they lead to.  A finding is <<skill, reason, detail>>, skill   *)
(* "" for the store itself; a reference is [form, text, names].            *)
(***************************************************************************)
EXTENDS ColonyProfile
LOCAL INSTANCE Sequences
LOCAL INSTANCE SequencesExt

CONSTANTS
    ShapedNames,        \* the names of the standard's shape
    LongTexts,          \* the names and descriptions over their bound
    MaxSkillsPerRole, MaxSkillFileBytes, MaxStoreBytes,
    PathOrder,          \* the paths inside a skill, in byte order
    CleanPath,          \* the paths a package may name, and what they clean to
    TrailTokens         \* the strings that can be a trail's identity

LedgerName == "skills.index.json"
ManifestName == "SKILL.md"

-----------------------------------------------------------------------------
(* References *)

\* What does not parse names nothing.
ParseReference(ref) == IF ref.form = "bad" THEN {} ELSE {ref}
IsPattern(ref) == ref.form \in {"pattern", "all"}
IsWildcard(ref) == ref.form = "all"
MatchesName(ref, name) == IsWildcard(ref) \/ name \in ref.names

\* The directory and the declared name both count: a mismatch is found by either.
IsNamedBy(ref, skill) ==
    \/ MatchesName(ref, skill.name)
    \/ skill.declared # "" /\ MatchesName(ref, skill.declared)

-----------------------------------------------------------------------------
(* The scan *)

DescriptionIssues(text) ==
    {r \in {"description is required", "description is empty", "description is long"} :
        r = CASE text = "" -> "description is required"
              [] text = " " -> "description is empty"
              [] text \in LongTexts -> "description is long"
              [] OTHER -> ""}

\* Without a name nothing else is looked at.
ValidateDocument(dir, doc) ==
    IF doc.name = "" THEN {"name is required"}
    ELSE {r \in {"name is long", "name has no shape", "name is not its directory"} :
             \/ r = "name is long" /\ doc.name \in LongTexts
             \/ r = "name has no shape" /\ doc.name \notin ShapedNames
             \/ r = "name is not its directory" /\ doc.name # dir}
         \cup DescriptionIssues(doc.description)

\* A frontmatter that does not parse, or whose metadata is not text, says nothing.
ParseDocument(manifest) == IF manifest.front = "ok" THEN {manifest} ELSE {}

FileIssues(files) ==
    {<<"unreadable", f>> : f \in {f \in DOMAIN files : files[f].mode = "unreadable"}}
    \cup {<<"file is large", f>> : f \in {f \in DOMAIN files :
            files[f].mode = "regular" /\ files[f].size > MaxSkillFileBytes}}

FilesSize(files) ==
    LET size[rest \in SUBSET DOMAIN files] ==
            IF rest = {} THEN 0
            ELSE LET f == CHOOSE f \in rest : TRUE
                 IN  (IF files[f].mode = "regular" THEN files[f].size ELSE 0) + size[rest \ {f}]
    IN  size[DOMAIN files]

ScanSkill(name, entry) ==
    LET docs == ParseDocument(entry.manifest)
        reasons == IF docs = {} THEN {entry.manifest.front}
                   ELSE ValidateDocument(name, entry.manifest)
    IN  [name |-> name, declared |-> IF docs = {} THEN "" ELSE entry.manifest.name,
         metadata |-> IF docs = {} THEN NoMap ELSE entry.manifest.metadata,
         issues |-> {<<name, r, "">> : r \in reasons}
                    \cup {<<name, i[1], i[2]>> : i \in FileIssues(entry.files)}]

IsSkill(store, name) == store[name].kind \in {"dir", "link to dir"}

StoreSize(store) ==
    LET size[rest \in SUBSET DOMAIN store] ==
            IF rest = {} THEN 0
            ELSE LET e == CHOOSE e \in rest : TRUE
                 IN  FilesSize(store[e].files) + size[rest \ {e}]
    IN  size[{e \in DOMAIN store \ {LedgerName} : IsSkill(store, e)}]

\* A missing store is an empty one; a ledger inside it is no part of it.
Scan(store) ==
    LET entries == DOMAIN store \ {LedgerName}
    IN  [skills |-> {ScanSkill(e, store[e]) : e \in {e \in entries : IsSkill(store, e)}},
         store |-> {<<"", "stray", e>> : e \in {e \in entries : ~IsSkill(store, e)}}
                   \cup {i \in {<<"", "store is large", "">>} : StoreSize(store) > MaxStoreBytes}]

Issues(report) == report.store \cup UNION {s.issues : s \in report.skills}
Matching(report, ref) == {s \in report.skills : IsNamedBy(ref, s)}
Unmatched(report, ref) ==
    {i \in {<<"", "matches no skill", ref.text>>} : Matching(report, ref) = {} /\ ~IsWildcard(ref)}

\* What validate and doctor say of one reference.
Find(report, ref) ==
    report.store \cup Unmatched(report, ref) \cup UNION {s.issues : s \in Matching(report, ref)}

-----------------------------------------------------------------------------
(* The ledger, and the resolution of a role *)

\* A missing ledger disables nothing; one bad record makes it corrupt.
LoadLedger(ledger) ==
    CASE ledger.state = "missing" -> {NoMap}
      [] /\ ledger.state = "parsed" /\ ledger.version = 1
         /\ \A n \in DOMAIN ledger.disabled :
               n # "" /\ ledger.disabled[n].timed /\ ledger.disabled[n].reason # "" ->
            {ledger.disabled}
      [] OTHER -> {}

\* The decision to disable comes before the bytes: a disabled skill is skipped
\* even when it is invalid.  Only `*` answers for the store's own findings.
Resolve(report, disabled, refs) ==
    LET parsed == UNION {ParseReference(ref) : ref \in refs}
        matched == UNION {Matching(report, ref) : ref \in parsed}
        enabled == {s \in matched : s.name \notin DOMAIN disabled}
        offered == {s.name : s \in {s \in enabled : s.issues = {}}}
    IN  [skills |-> offered,
         disabled |-> {s.name : s \in matched \ enabled},
         issues |-> {<<"", "invalid reference", ref.text>> : ref \in refs \ parsed}
            \cup UNION {Unmatched(report, ref) : ref \in parsed}
            \cup UNION {s.issues : s \in enabled}
            \cup {i \in report.store : \E ref \in parsed : IsWildcard(ref)}
            \cup {i \in {<<"", "too many skills", "">>} : Cardinality(offered) > MaxSkillsPerRole}]

\* A frozen run takes the home profile from its tree, a live one from the machine.
LoadSelectedProfile(in, tree, home) ==
    LET homes == CASE in.frozen -> tree.home_profiles
                   [] in.slug # "" -> home
                   [] OTHER -> NoMap
        colony == IF in.profile \in DOMAIN tree.profiles THEN tree.profiles[in.profile] ELSE NoProfile
        machine == IF in.profile \in DOMAIN homes THEN homes[in.profile] ELSE NoHomeProfile
    IN  IF in.profile = "" THEN {<<NoProfile, NoHomeProfile>>}
        ELSE IF ValidColonyProfile(colony) /\ ValidHomeProfile(machine) THEN {<<colony, machine>>}
        ELSE {}

\* Nothing falls back to the live store, and the store's own findings stop the
\* run whatever the role named.
ResolveRun(in, tree, home) ==
    LET report == Scan(tree.store)
        result(disabled, layers, bee) ==
            LET gate == EffectiveSkillsFor(tree.manifest.defaults, layers[1], layers[2], bee)
                resolution == Resolve(report, disabled, gate.refs)
            IN  [resolution EXCEPT !.issues = @ \cup report.store]
                    @@ [delivery |-> EffectiveDelivery(tree.manifest.defaults, layers[1], layers[2])]
    IN  IF \/ in.role \notin DOMAIN tree.bees \/ LoadColony(tree.manifest, tree.bees) = {}
           \/ LoadBee(tree.bees[in.role], TRUE) = {}
        THEN {}
        ELSE {r \in {result(disabled, layers, tree.bees[in.role]) :
                        disabled \in LoadLedger(tree.ledger),
                        layers \in LoadSelectedProfile(in, tree, home)} : r.issues = {}}

\* The advertisement, and what a script gets: each skill with the path or the
\* command its delivery says.  Without a skill there is none.
Section(run) == [name \in run.skills |-> run.delivery]
AdapterSkills(run) == [name \in run.skills |-> "path"]

-----------------------------------------------------------------------------
(* The listing *)

RoleMembership(tree, layers, report) ==
    [s \in report.skills |->
        {role \in DOMAIN tree.bees :
            LET gate == EffectiveSkillsFor(tree.manifest.defaults, layers[1], layers[2], tree.bees[role])
            IN  gate.present /\ \E raw \in gate.refs : \E ref \in ParseReference(raw) : IsNamedBy(ref, s)}]

State(skill, disabled) ==
    CASE skill.name \in DOMAIN disabled -> "disabled"
      [] skill.issues # {} -> "invalid"
      [] OTHER -> "ok"

Provenance(metadata) ==
    IF "source" \in DOMAIN metadata /\ metadata.source # "" THEN metadata.source ELSE "hand"

\* One unreadable ledger or bee fails the listing.
BuildInventory(tree, layers) ==
    LET report == Scan(tree.store)
        roles == RoleMembership(tree, layers, report)
    IN  {[rows |-> {[name |-> s.name, state |-> State(s, disabled), roles |-> roles[s],
                     provenance |-> Provenance(s.metadata)] : s \in report.skills},
          issues |-> report.store] :
            disabled \in IF LoadAllBees(tree.bees, FALSE) = {} THEN {} ELSE LoadLedger(tree.ledger)}

-----------------------------------------------------------------------------
(* Loading a skill in a run *)

\* Only what the run was offered, one at a time; the store is not asked again.
Offered(run, ref) ==
    {n \in run.skills : ParseReference(ref) # {} /\ ~IsPattern(ref) /\ n = ref.text}

Served(manifest) == {[body |-> d.body, hash |-> d] : d \in ParseDocument(manifest)}

AppendUsage(log, line) ==
    IF line.name = "" \/ line.at = "" THEN log ELSE Append(log, line)

\* A missing log is no loads; a damaged line fails the log, a blank one is skipped.
ReadUsage(log) ==
    IF \E i \in DOMAIN log : log[i].state = "damaged" THEN {}
    ELSE {SelectSeq(log, LAMBDA line : line.state # "blank")}

\* The first load of a name counts, and fixes the order.
UsedNames(records) ==
    LET first == {i \in DOMAIN records : records[i].name # ""
                    /\ \A j \in 1..(i - 1) : records[j].name # records[i].name}
        order == SetToSortSeq(first, LAMBDA i, j : i < j)
    IN  [k \in DOMAIN order |-> records[order[k]].name]

-----------------------------------------------------------------------------
(* The procedure hash, and the import of a carried skill *)

\* The body's lines, then every other regular file after its path.
SupportingFiles(files) ==
    SelectSeq(PathOrder, LAMBDA f :
        f \in DOMAIN files \ {ManifestName} /\ files[f].mode = "regular")
ProcedureHash(body, files) ==
    LET order == SupportingFiles(files)
    IN  body \o FlattenSeq([k \in DOMAIN order |-> <<order[k]>> \o files[order[k]].lines])

\* Where a skill recorded the hash it was approved with, it still has it.
ProvenanceIssues(store) ==
    {n \in {n \in DOMAIN store \ {LedgerName} : IsSkill(store, n)} :
        LET skill == ScanSkill(n, store[n])
        IN  /\ "procedure_hash" \in DOMAIN skill.metadata
            /\ ProcedureHash(store[n].manifest.body, store[n].files) # skill.metadata.procedure_hash}

\* A carried skill keeps its metadata but for where it came from.
PrepareNucSkill(ref, carried) ==
    LET clean == {CleanPath[p] : p \in DOMAIN carried.files}
        files == [f \in clean |-> carried.files[CHOOSE p \in DOMAIN carried.files : CleanPath[p] = f]]
        doc == carried.manifest
        foreign == {"trail", "role", "approved_at"}
        metadata == [source |-> "nuc", procedure_hash |-> ProcedureHash(doc.body, files)]
            @@ [k \in DOMAIN doc.metadata \ foreign |-> doc.metadata[k]]
    IN  IF /\ ParseReference(ref) # {} /\ ~IsPattern(ref)
           /\ "" \notin clean /\ Cardinality(clean) = Cardinality(DOMAIN carried.files)
           /\ ManifestName \in clean
           /\ ParseDocument(doc) # {} /\ ValidateDocument(ref.text, doc) = {}
        THEN {[kind |-> "dir", files |-> files, manifest |-> [doc EXCEPT !.metadata = metadata]]}
        ELSE {}

-----------------------------------------------------------------------------
(* Proposals and decisions *)

\* A bare name may be qualified by --trail, but never against its own trail.
ParseProposalReference(raw, default) ==
    IF \/ raw.parts \notin {1, 2} \/ ParseReference(raw.ref) = {} \/ IsPattern(raw.ref)
       \/ raw.parts = 2 /\ (raw.trail \notin TrailTokens \/ default \notin {"", raw.trail})
    THEN {}
    ELSE {[name |-> raw.ref.text, trail |-> IF raw.parts = 2 THEN raw.trail ELSE default]}

\* A name found in several trails is no answer.
ResolveProposal(proposals, ref) ==
    LET matched == {p \in proposals : p.name = ref.name /\ ref.trail \in {"", p.trail}}
    IN  IF ref.trail = "" /\ Cardinality(matched) > 1 THEN {} ELSE matched

\* A bundle inside the comb, a directory of regular files, with a frontmatter.
BundleEntryIssues(files) == {f \in DOMAIN files : files[f].mode # "regular"}
ReadProposalBody(bundle) ==
    IF bundle.kind = "dir" /\ bundle.in_comb /\ bundle.manifest.front \notin {"missing", "none"}
    THEN {bundle.manifest.body} ELSE {}

\* The log is append-only: a damaged or misplaced line does not hide the others.
ValidDecision(line, trace) ==
    /\ line.state = "written"
    /\ ParseReference(line.skill) # {} /\ ~IsPattern(line.skill)
    /\ line.trail = trace /\ line.hash # "" /\ line.timed
    /\ line.destination \in {"store"} \cup TrailTokens
    /\ CASE line.decision = "installed" -> line.destination = "store"
         [] line.decision = "trialled" -> line.destination # "store"
         [] OTHER -> line.decision = "refused"
ReadProposalDecisions(lines, trace) ==
    [decisions |-> SelectSeq(lines, LAMBDA line : ValidDecision(line, trace)),
     issues |-> {i \in DOMAIN lines : ~ValidDecision(lines[i], trace)}]

StoreHoldsSkill(store, name) == \E s \in Scan(store).skills : s.name = name
StoreEntryExists(store, name) == name \in DOMAIN store

-----------------------------------------------------------------------------
(* What the readers of the store promise each other *)

Live(role, profile) == [role |-> role, frozen |-> FALSE, slug |-> "colony", profile |-> profile]

\* The listing shows a role next to a skill exactly when a run of the role is
\* offered the skill, or has it withheld by the ledger, though the listing
\* reads the profile off the context and the run reads its files.
ListingAgreesWithRuns(tree, machine, home) ==
    \A context \in ResolveContext(tree.manifest, tree.bees, machine,
                        [colony |-> tree.profiles, home |-> home],
                        [none |-> FALSE, named |-> FALSE, name |-> ""], "") :
    \A inventory \in BuildInventory(tree, <<context.colony_profile, context.home_profile>>) :
    \A role \in DOMAIN tree.bees :
    \A run \in ResolveRun(Live(role, context.profile), tree, home), row \in inventory.rows :
        /\ role \in row.roles <=> row.name \in run.skills \cup run.disabled
        /\ row.name \in run.skills => row.state = "ok"
        /\ row.name \in run.disabled => row.state = "disabled"

\* What validate says of the one skill a role names is why its run fails, save
\* for what it says of a disabled skill.
ValidateAgreesWithRuns(tree, ref, role) ==
    LET named == [tree EXCEPT !.bees[role].skills = [present |-> TRUE, refs |-> {ref}]]
        resolves == ResolveRun(Live(role, ""), named, NoMap) # {}
    IN  (/\ ParseReference(ref) # {} /\ ~IsPattern(ref)
         /\ LoadLedger(tree.ledger) # {} /\ LoadColony(tree.manifest, named.bees) # {}
         /\ LoadBee(named.bees[role], TRUE) # {}) =>
            (resolves <=> \A i \in Find(Scan(tree.store), ref) :
                \E disabled \in LoadLedger(tree.ledger) : i[1] \in DOMAIN disabled)

\* A run of a role that resolves cannot be broken by a skill the role does not
\* name: changing that skill's document leaves the run alone.
OthersDoNotMatter(tree, role, name, manifest) ==
    LET changed == [tree EXCEPT !.store[name].manifest = manifest]
        runs == ResolveRun(Live(role, ""), tree, NoMap)
    IN  (\A ref \in tree.bees[role].skills.refs :
            /\ ~IsNamedBy(ref, ScanSkill(name, tree.store[name]))
            /\ ~IsNamedBy(ref, ScanSkill(name, changed.store[name]))) =>
                ResolveRun(Live(role, ""), changed, NoMap) = runs

\* What a bee loads is what it was offered, and never a disabled skill.
LoadsWhatWasOffered(tree, home, profile, role, ref) ==
    \A run \in ResolveRun(Live(role, profile), tree, home) :
        /\ Offered(run, ref) \subseteq DOMAIN Section(run) \ run.disabled
        /\ \A name \in Offered(run, ref) : Served(tree.store[name].manifest) # {}

\* An imported skill passes the scan (its files' sizes were not looked at), is
\* marked as carried, forgets the other colony and keeps its hash.
ImportIsSound(ref, carried) ==
    \A entry \in PrepareNucSkill(ref, carried) :
        LET skill == ScanSkill(ref.text, entry)
        IN  /\ skill.issues \subseteq {<<ref.text, i[1], i[2]>> : i \in FileIssues(entry.files)}
            /\ Provenance(skill.metadata) = "nuc"
            /\ {"trail", "role", "approved_at"} \cap DOMAIN skill.metadata = {}
            /\ ProvenanceIssues([n \in {ref.text} |-> entry]) = {}
            /\ PrepareNucSkill(ref, entry) = {entry}

\* Every proposal has a name of its own, its trail's; the bare name is an answer
\* only while one trail proposes it.
ProposalsAreAddressable(proposals) ==
    \A p \in proposals :
        LET raw(parts) == [parts |-> parts, trail |-> p.trail,
                           ref |-> [form |-> "name", text |-> p.name, names |-> {p.name}]]
            found(parts, default) ==
                UNION {ResolveProposal(proposals, ref) : ref \in ParseProposalReference(raw(parts), default)}
        IN  /\ found(2, "") = {p} /\ found(1, p.trail) = {p} /\ found(2, p.trail) = {p}
            /\ found(1, "") # {} => found(1, "") = {p}
            /\ \A other \in proposals : other.trail # p.trail => found(2, other.trail) = {}

\* What counts as installed is in the way of an install; what is in the way and
\* does not count as installed is no skill.
HeldIsInTheWay(store, name) ==
    /\ StoreHoldsSkill(store, name) => StoreEntryExists(store, name)
    /\ StoreEntryExists(store, name) /\ ~StoreHoldsSkill(store, name) =>
          name = LedgerName \/ store[name].kind = "other"

\* A used name was loaded, once, in the order of the first loads.
UsedInOrder(log) ==
    \A records \in ReadUsage(log) :
        LET used == UsedNames(records)
            First(n) == CHOOSE i \in DOMAIN records :
                records[i].name = n /\ \A j \in 1..(i - 1) : records[j].name # n
        IN  /\ \A i, j \in DOMAIN used : i < j => First(used[i]) < First(used[j])
            /\ {used[i] : i \in DOMAIN used} = {records[i].name : i \in DOMAIN records} \ {""}
=============================================================================
