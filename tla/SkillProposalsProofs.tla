----------------------- MODULE SkillProposalsProofs -----------------------
(***************************************************************************)
(* Theorems about SkillProposals, for any trails, names, hashes, operators *)
(* and bounds: decisions are final, what is installed was announced and is *)
(* not refused, and two commands never wait for each other's locks.        *)
(***************************************************************************)
EXTENDS SkillProposals, WellFoundedInduction, TLAPS

(* The inductive invariant *)

StoreEntry == [trail: Trails, hash: Hashes]

\* Sequences where the type invariant only bounds their elements.
Types ==
    /\ comb \in [Proposals -> Hashes \cup {NoHash}]
    /\ events \in [Proposals -> Seq(Hashes)]
    /\ log \in [Trails -> Seq(Decision)]
    /\ lock \in [Trails -> Operators \cup {Nobody, Dead}]
    /\ store \in [Names -> StoreEntry \cup {NoEntry}]
    /\ disabled \subseteq Names
    /\ candidate \in [Names -> Hashes \cup {NoHash}]
    /\ op \in [Operators -> Command]
    /\ revision \in Nat /\ unrecorded \subseteq Bundle

Locking == {"lock", "recheck", "commit", "append"}
Deciding == {"recheck", "commit", "append"}

\* What a command is at each of its steps.
KindOK(c) ==
    /\ c.pc = "plan" => c.kind = "approve"
    /\ c.pc \in Locking => c.kind \in {"approve", "reject"}
    /\ c.pc = "commit" => c.kind = "approve"
    /\ c.todo \subseteq c.plan
    /\ c.kind = "reject" => ~ c.force /\ \A a, b \in c.plan : a = b
    /\ c.pc = "save" => c.name \in Names

\* A deciding command holds the locks of its lowest trails, all of them once it
\* rechecks, and only a deciding command holds any.
LocksOK(o) ==
    /\ op[o].pc \in Deciding => \A b \in op[o].plan : lock[b.trail] = o
    /\ \A t \in Trails : lock[t] = o =>
          /\ op[o].pc \in Locking
          /\ \A b \in op[o].plan : b.trail < t => lock[b.trail] = o

\* What the recheck found is true until the command's own line.
Unrefused(o) ==
    op[o].kind = "approve" /\ op[o].pc \in {"commit", "append"} =>
        \A b \in op[o].plan : "refused" \notin Decided(b)
Undecided(o) ==
    op[o].kind = "reject" /\ op[o].pc = "append" =>
        \A b \in op[o].todo : "refused" \notin Decided(b) /\ "installed" \notin Decided(b)

Announced(b) == b.hash \in ToSet(events[<<b.trail, b.name>>])
PlanAnnounced(o) == op[o].kind = "approve" => \A b \in op[o].plan : Announced(b)

CommandOK(o) == KindOK(op[o]) /\ LocksOK(o) /\ Unrefused(o) /\ Undecided(o) /\ PlanAnnounced(o)
CommandsOK == \A o \in Operators : CommandOK(o)

Installed(n) == [trail |-> store[n].trail, name |-> n, hash |-> store[n].hash]

\* An entry of the store is on its trail's log, or about to be, or was lost.
StoreOK ==
    \A n \in Names : store[n] # NoEntry =>
        /\ Announced(Installed(n))
        /\ \/ Installed(n) \in unrecorded
           \/ "installed" \in Decided(Installed(n))
           \/ \E o \in Operators : Installed(n) \in Committed(o)

IInv == Types /\ CommandsOK /\ StoreOK /\ DecisionsAreFinal

-----------------------------------------------------------------------------
(* Logs *)

Verdict == {"installed", "refused", "trialled"}

DecidedIn(lg, b) ==
    {d.decision : d \in {e \in ToSet(lg[b.trail]) : e.skill = b.name /\ e.hash = b.hash}}

FinalIn(lg) ==
    \A t \in Trails : \A i, j \in DOMAIN lg[t] :
        (i < j /\ lg[t][i].skill = lg[t][j].skill /\ lg[t][i].hash = lg[t][j].hash)
        => /\ lg[t][i].decision = "refused" => lg[t][j].decision \notin {"installed", "refused"}
           /\ lg[t][i].decision = "installed" => lg[t][j].decision # "refused"

LEMMA DecidedAre ==
  ASSUME NEW lg, NEW b, NEW x
  PROVE  x \in DecidedIn(lg, b) <=>
            \E i \in DOMAIN lg[b.trail] :
                /\ lg[b.trail][i].skill = b.name /\ lg[b.trail][i].hash = b.hash
                /\ lg[b.trail][i].decision = x
BY DEF DecidedIn, ToSet

LEMMA DecidedBy ==
  ASSUME NEW lg, NEW b, NEW i \in DOMAIN lg[b.trail],
         lg[b.trail][i].skill = b.name, lg[b.trail][i].hash = b.hash
  PROVE  lg[b.trail][i].decision \in DecidedIn(lg, b)
BY DecidedAre, Zenon

LEMMA AppendIs ==
  ASSUME NEW S, NEW s \in Seq(S), NEW e \in S
  PROVE  /\ Append(s, e) \in Seq(S)
         /\ Len(s) \in Nat /\ DOMAIN s = 1..Len(s)
         /\ DOMAIN Append(s, e) = 1..(Len(s) + 1)
         /\ \A i \in DOMAIN s : Append(s, e)[i] = s[i]
         /\ Append(s, e)[Len(s) + 1] = e
OBVIOUS

\* A line more on one trail's log.
Longer(lg, b, d) == [lg EXCEPT ![b.trail] = Append(@, Line(b, d))]

LEMMA LongerIs ==
  ASSUME NEW lg \in [Trails -> Seq(Decision)], NEW b \in Bundle, NEW d \in Verdict
  PROVE  /\ Longer(lg, b, d) \in [Trails -> Seq(Decision)]
         /\ Line(b, d) \in Decision
         /\ \A t \in Trails : t # b.trail => Longer(lg, b, d)[t] = lg[t]
         /\ Longer(lg, b, d)[b.trail] = Append(lg[b.trail], Line(b, d))
<1>1. b.trail \in Trails /\ Line(b, d) \in Decision
  BY DEF Bundle, Line, Decision, Verdict
<1> QED BY <1>1 DEF Longer

LEMMA LongerDecides ==
  ASSUME NEW lg \in [Trails -> Seq(Decision)], NEW b \in Bundle, NEW d \in Verdict,
         NEW c \in Bundle
  PROVE  /\ \A x \in DecidedIn(lg, c) : x \in DecidedIn(Longer(lg, b, d), c)
         /\ \A x \in DecidedIn(Longer(lg, b, d), c) : x \in DecidedIn(lg, c) \/ x = d
         /\ c.trail # b.trail =>
               \A x : x \in DecidedIn(Longer(lg, b, d), c) => x \in DecidedIn(lg, c)
         /\ d \in DecidedIn(Longer(lg, b, d), b)
<1> DEFINE new == Longer(lg, b, d)
           s == lg[b.trail]
           e == Line(b, d)
<1>0. b.trail \in Trails /\ c.trail \in Trails
  BY DEF Bundle
<1>1. /\ e \in Decision /\ \A t \in Trails : t # b.trail => new[t] = lg[t]
      /\ new[b.trail] = Append(s, e)
  BY LongerIs
<1>2. s \in Seq(Decision)
  BY <1>0
<1>3. e.skill = b.name /\ e.hash = b.hash /\ e.decision = d
  BY DEF Line
<1> HIDE DEF new, s, e
<1>4. /\ DOMAIN s \subseteq DOMAIN new[b.trail]
      /\ \A i \in DOMAIN s : new[b.trail][i] = s[i]
      /\ \A i \in DOMAIN new[b.trail] : i \in DOMAIN s \/ new[b.trail][i] = e
      /\ \E i \in DOMAIN new[b.trail] : new[b.trail][i] = e
  BY <1>1, <1>2, AppendIs
<1>5. /\ \A i \in DOMAIN lg[c.trail] : i \in DOMAIN new[c.trail] /\ new[c.trail][i] = lg[c.trail][i]
      /\ \A i \in DOMAIN new[c.trail] :
            \/ i \in DOMAIN lg[c.trail] /\ new[c.trail][i] = lg[c.trail][i]
            \/ c.trail = b.trail /\ new[c.trail][i] = e
  BY <1>0, <1>1, <1>4 DEF s
<1>6. ASSUME NEW x \in DecidedIn(lg, c) PROVE x \in DecidedIn(new, c)
  <2>1. PICK i \in DOMAIN lg[c.trail] : /\ lg[c.trail][i].skill = c.name
                                        /\ lg[c.trail][i].hash = c.hash
                                        /\ lg[c.trail][i].decision = x
    BY <1>6, DecidedAre
  <2>2. /\ i \in DOMAIN new[c.trail] /\ new[c.trail][i].skill = c.name
        /\ new[c.trail][i].hash = c.hash /\ new[c.trail][i].decision = x
    BY <1>5, <2>1
  <2>3. new[c.trail][i].decision \in DecidedIn(new, c)
    BY <2>2, DecidedBy
  <2> QED BY <2>2, <2>3
<1>7. ASSUME NEW x \in DecidedIn(new, c)
      PROVE  x \in DecidedIn(lg, c) \/ (c.trail = b.trail /\ x = d)
  <2>1. PICK i \in DOMAIN new[c.trail] : /\ new[c.trail][i].skill = c.name
                                         /\ new[c.trail][i].hash = c.hash
                                         /\ new[c.trail][i].decision = x
    BY <1>7, DecidedAre
  <2>2. CASE i \in DOMAIN lg[c.trail] /\ new[c.trail][i] = lg[c.trail][i]
    BY <2>1, <2>2, DecidedAre
  <2>3. CASE c.trail = b.trail /\ new[c.trail][i] = e
    BY <1>3, <2>1, <2>3
  <2> QED BY <1>5, <2>2, <2>3
<1>8. d \in DecidedIn(new, b)
  <2>1. PICK i \in DOMAIN new[b.trail] : new[b.trail][i] = e
    BY <1>4
  <2>2. /\ new[b.trail][i].skill = b.name /\ new[b.trail][i].hash = b.hash
        /\ new[b.trail][i].decision = d
    BY <1>3, <2>1
  <2>3. new[b.trail][i].decision \in DecidedIn(new, b)
    BY <2>1, <2>2, DecidedBy
  <2> QED BY <2>2, <2>3
<1> QED BY <1>5, <1>6, <1>7, <1>8 DEF new

\* What may be decided about a bundle after what was.
LEMMA LongerIsFinal ==
  ASSUME NEW lg \in [Trails -> Seq(Decision)], NEW b \in Bundle, NEW d \in Verdict,
         FinalIn(lg),
         d \in {"installed", "refused"} => "refused" \notin DecidedIn(lg, b),
         d = "refused" => "installed" \notin DecidedIn(lg, b)
  PROVE  FinalIn(Longer(lg, b, d))
<1> DEFINE new == Longer(lg, b, d)
           s == lg[b.trail]
           e == Line(b, d)
<1>0. b.trail \in Trails
  BY DEF Bundle
<1>1. /\ e \in Decision /\ \A t \in Trails : t # b.trail => new[t] = lg[t]
      /\ new[b.trail] = Append(s, e)
  BY LongerIs
<1>2. s \in Seq(Decision)
  BY <1>0
<1>3. e.skill = b.name /\ e.hash = b.hash /\ e.decision = d
  BY DEF Line
<1>9. FinalIn(new) <=>
        \A t \in Trails : \A i, j \in DOMAIN new[t] :
        (i < j /\ new[t][i].skill = new[t][j].skill /\ new[t][i].hash = new[t][j].hash)
        => /\ new[t][i].decision = "refused" => new[t][j].decision \notin {"installed", "refused"}
           /\ new[t][i].decision = "installed" => new[t][j].decision # "refused"
  BY DEF FinalIn
<1> HIDE DEF new, s, e
<1>4. SUFFICES ASSUME NEW t \in Trails, NEW i \in DOMAIN new[t], NEW j \in DOMAIN new[t], i < j,
                 new[t][i].skill = new[t][j].skill, new[t][i].hash = new[t][j].hash
          PROVE  /\ new[t][i].decision = "refused" =>
                        new[t][j].decision \notin {"installed", "refused"}
                 /\ new[t][i].decision = "installed" => new[t][j].decision # "refused"
  BY <1>9 DEF new
<1>5. CASE t # b.trail
  <2>1. new[t] = lg[t]
    BY <1>1, <1>5
  <2> QED BY <2>1, <1>4 DEF FinalIn
<1>6. CASE t = b.trail
  <2>1. /\ Len(s) \in Nat /\ DOMAIN s = 1..Len(s) /\ DOMAIN new[t] = 1..(Len(s) + 1)
        /\ \A k \in DOMAIN s : new[t][k] = s[k]
        /\ new[t][Len(s) + 1] = e
    <3>1. new[t] = Append(s, e) /\ e \in Decision
      BY <1>1, <1>6
    <3> QED BY <1>2, <3>1, AppendIs
  <2>2. CASE j \in DOMAIN s
    <3>1. i \in DOMAIN s
      BY <1>4, <2>1, <2>2
    <3>2. new[t][i] = lg[t][i] /\ new[t][j] = lg[t][j] /\ i \in DOMAIN lg[t] /\ j \in DOMAIN lg[t]
      BY <1>6, <2>1, <2>2, <3>1 DEF s
    <3> QED BY <1>4, <3>2 DEF FinalIn
  <2>3. CASE j \notin DOMAIN s
    <3>1. j = Len(s) + 1 /\ i \in DOMAIN s
      BY <1>4, <2>1, <2>3
    <3>2. new[t][j] = e /\ new[t][i] = lg[b.trail][i] /\ i \in DOMAIN lg[b.trail]
      BY <1>6, <2>1, <3>1 DEF s
    <3>3. lg[b.trail][i].skill = b.name /\ lg[b.trail][i].hash = b.hash
      BY <1>3, <1>4, <3>2
    <3>4. \A x : lg[b.trail][i].decision = x => x \in DecidedIn(lg, b)
      BY <3>2, <3>3, DecidedAre, Zenon
    <3> QED BY <1>3, <3>2, <3>4
  <2> QED BY <2>2, <2>3
<1> QED BY <1>5, <1>6

-----------------------------------------------------------------------------
(* Locks *)

LEMMA LowestIs ==
  ASSUME NEW S \in SUBSET Nat, S # {}
  PROVE  Lowest(S) \in S /\ \A u \in S : Lowest(S) <= u
<1> DEFINE Less == OpToRel(<, Nat)
<1>1. IsWellFoundedOn(Less, Nat)
  BY NatLessThanWellFounded
<1>2. PICK d \in S : \A e \in S : ~ (<<e, d>> \in Less)
  <2> HIDE DEF Less
  <2> QED BY <1>1, WFMin, Zenon
<1>3. \A e \in S : d <= e
  <2> SUFFICES ASSUME NEW e \in S PROVE d <= e
    OBVIOUS
  <2>1. ~ (<<e, d>> \in {ss \in Nat \X Nat : ss[1] < ss[2]})
    BY <1>2 DEF OpToRel
  <2> QED BY <2>1
<1> QED BY <1>2, <1>3 DEF Lowest

LEMMA NextLockIs ==
  ASSUME Types, NEW o \in Operators, Unlocked(o) # {}
  PROVE  /\ NextLock(o) \in Trails /\ lock[NextLock(o)] # o
         /\ \E b \in op[o].plan : b.trail = NextLock(o)
         /\ \A b \in op[o].plan : lock[b.trail] # o => NextLock(o) <= b.trail
<1>1. op[o].plan \subseteq Bundle
  BY DEF Types, Command
<1>2. Unlocked(o) \in SUBSET Trails /\ Unlocked(o) \in SUBSET Nat
  BY <1>1, SkillAssumption DEF Unlocked, TrailsOf, Bundle
<1>3. NextLock(o) \in Unlocked(o) /\ \A u \in Unlocked(o) : NextLock(o) <= u
  BY <1>2, LowestIs DEF NextLock
<1> QED BY <1>2, <1>3 DEF Unlocked, TrailsOf

-----------------------------------------------------------------------------
(* A command that moves *)

Pcs == {"idle", "plan", "lock", "recheck", "commit", "append", "apply", "record",
        "save", "delete"}

\* Only o's command changes, and it becomes c.
Becomes(o, c) ==
    /\ op' \in [Operators -> Command]
    /\ op'[o] = c /\ \A p \in Operators : p # o => op'[p] = op[p]

LEMMA PcIs ==
  ASSUME NEW c \in Command, NEW pc \in Pcs
  PROVE  /\ [c EXCEPT !.pc = pc] \in Command
         /\ [c EXCEPT !.pc = pc].pc = pc
         /\ [c EXCEPT !.pc = pc].kind = c.kind /\ [c EXCEPT !.pc = pc].force = c.force
         /\ [c EXCEPT !.pc = pc].plan = c.plan /\ [c EXCEPT !.pc = pc].todo = c.todo
BY DEF Command, Pcs

LEMMA TodoIs ==
  ASSUME NEW c \in Command, NEW todo \in SUBSET Bundle
  PROVE  /\ [c EXCEPT !.todo = todo] \in Command
         /\ [c EXCEPT !.todo = todo].pc = c.pc
         /\ [c EXCEPT !.todo = todo].kind = c.kind /\ [c EXCEPT !.todo = todo].force = c.force
         /\ [c EXCEPT !.todo = todo].plan = c.plan /\ [c EXCEPT !.todo = todo].todo = todo
BY DEF Command

LEMMA IdleIs ==
  ASSUME NEW n \in Names \cup {NoName}
  PROVE  /\ Idle(n) \in Command /\ Idle(n).pc = "idle" /\ Idle(n).kind = "approve"
         /\ Idle(n).plan = {} /\ Idle(n).todo = {}
BY DEF Idle, Command

LEMMA BecomesIs ==
  ASSUME Types, NEW o \in Operators, NEW c \in Command, op' = [op EXCEPT ![o] = c]
  PROVE  Becomes(o, c)
BY DEF Types, Becomes

LEMMA GotoIs ==
  ASSUME Types, NEW o \in Operators, NEW pc \in Pcs, Goto(o, pc)
  PROVE  Becomes(o, [op[o] EXCEPT !.pc = pc])
<1> DEFINE c == [op[o] EXCEPT !.pc = pc]
<1>1. c \in Command
  BY PcIs DEF Types
<1>2. op' = [op EXCEPT ![o] = c]
  BY DEF Goto
<1> HIDE DEF c
<1> QED BY <1>1, <1>2, BecomesIs DEF c

\* The locks of the others stay as they are.
LocksOfOthers(o) ==
    \A p \in Operators, t \in Trails : p # o => (lock'[t] = p <=> lock[t] = p)

LEMMA ReturnIs ==
  ASSUME Types, NEW o \in Operators, Return(o)
  PROVE  /\ Becomes(o, Idle(NoName)) /\ LocksOfOthers(o)
         /\ lock' \in [Trails -> Operators \cup {Nobody, Dead}]
         /\ \A t \in Trails : lock'[t] # o
<1>1. Becomes(o, Idle(NoName))
  BY IdleIs, BecomesIs DEF Return
<1>2. lock' = [t \in Trails |-> IF lock[t] = o THEN Nobody ELSE lock[t]]
  BY DEF Return
<1>3. \A p \in Operators : p # Nobody
  BY SkillAssumption
<1> QED BY <1>1, <1>2, <1>3 DEF LocksOfOthers, Types

\* A command that is idle, or holds nothing and plans nothing, is in order.
LEMMA RestOK ==
  ASSUME NEW o \in Operators, Becomes(o, Idle(NoName)), \A t \in Trails : lock'[t] # o
  PROVE  CommandOK(o)'
<1>1. op'[o].pc = "idle" /\ op'[o].kind = "approve" /\ op'[o].plan = {} /\ op'[o].todo = {}
  BY IdleIs DEF Becomes
<1> QED BY <1>1 DEF CommandOK, KindOK, LocksOK, Unrefused, Undecided, PlanAnnounced,
               Locking, Deciding

\* What a step that is not p's own must leave alone.
LEMMA BystanderOK ==
  ASSUME IInv, NEW p \in Operators, op'[p] = op[p],
         \A t \in Trails : lock'[t] = p <=> lock[t] = p,
         \A b \in Bundle : lock[b.trail] = p =>
            \A d \in {"installed", "refused"} : d \in Decided(b)' => d \in Decided(b),
         \A b \in Bundle : Announced(b) => Announced(b)'
  PROVE  CommandOK(p)'
<1>1. CommandOK(p)
  BY DEF IInv, CommandsOK
<1>2. op[p].plan \subseteq Bundle /\ op[p].todo \subseteq Bundle
  BY DEF IInv, Types, Command
<1>3. \A b \in Bundle : b.trail \in Trails
  BY DEF Bundle
<1>4. op[p].todo \subseteq op[p].plan
  BY <1>1 DEF CommandOK, KindOK
<1>5. KindOK(op[p])'
  BY <1>1 DEF CommandOK, KindOK
<1>6. LocksOK(p)'
  BY <1>1, <1>2, <1>3 DEF CommandOK, LocksOK
<1>7. Unrefused(p)'
  BY <1>1, <1>2 DEF CommandOK, LocksOK, Unrefused, Deciding
<1>8. Undecided(p)'
  BY <1>1, <1>2, <1>4 DEF CommandOK, LocksOK, Undecided, Deciding
<1>9. PlanAnnounced(p)'
  BY <1>1, <1>2 DEF CommandOK, PlanAnnounced
<1> QED BY <1>5, <1>6, <1>7, <1>8, <1>9 DEF CommandOK

LEMMA StoreKept ==
  ASSUME IInv,
         \A n \in Names :
            \/ store'[n] = store[n] \/ store'[n] = NoEntry
            \/ \E b \in Bundle, o \in Operators :
                 b.name = n /\ store'[n] = Entry(b) /\ Announced(b)' /\ b \in Committed(o)',
         \A b \in Bundle : Announced(b) => Announced(b)',
         \A b \in Bundle : "installed" \in Decided(b) => "installed" \in Decided(b)',
         \A b \in unrecorded : b \in unrecorded',
         \A o \in Operators : \A b \in Committed(o) :
            b \in Committed(o)' \/ b \in unrecorded' \/ "installed" \in Decided(b)'
  PROVE  StoreOK'
<1> SUFFICES ASSUME NEW n \in Names, store'[n] # NoEntry
             PROVE  /\ Announced(Installed(n))'
                    /\ \/ (Installed(n) \in unrecorded)'
                       \/ ("installed" \in Decided(Installed(n)))'
                       \/ \E o \in Operators : (Installed(n) \in Committed(o))'
  BY DEF StoreOK
<1>1. PICK e : e = Installed(n)'
  OBVIOUS
<1>2. /\ e \in Bundle /\ Announced(e)'
      /\ \/ e \in unrecorded'
         \/ "installed" \in Decided(e)'
         \/ \E o \in Operators : e \in Committed(o)'
  <2>1. CASE store'[n] = store[n]
    <3>1. e = Installed(n) /\ store[n] # NoEntry /\ store[n] \in StoreEntry
      BY <1>1, <2>1 DEF Installed, IInv, Types
    <3>2. e \in Bundle
      BY <3>1 DEF Installed, Bundle, StoreEntry
    <3>3. /\ Announced(e)
          /\ \/ e \in unrecorded
             \/ "installed" \in Decided(e)
             \/ \E o \in Operators : e \in Committed(o)
      BY <3>1 DEF IInv, StoreOK
    <3> QED BY <3>2, <3>3
  <2>2. CASE \E b \in Bundle, o \in Operators :
                 b.name = n /\ store'[n] = Entry(b) /\ Announced(b)' /\ b \in Committed(o)'
    <3>1. PICK b \in Bundle, o \in Operators :
                 b.name = n /\ store'[n] = Entry(b) /\ Announced(b)' /\ b \in Committed(o)'
      BY <2>2
    <3>2. e = b
      BY <1>1, <3>1 DEF Installed, Entry, Bundle
    <3> QED BY <3>1, <3>2
  <2> QED BY <2>1, <2>2
<1>3. Announced(Installed(n))' <=> Announced(e)'
  BY <1>1 DEF Announced
<1>4. Decided(Installed(n))' = Decided(e)'
  BY <1>1 DEF Decided
<1> QED BY <1>1, <1>2, <1>3, <1>4

LEMMA SameLogs ==
  ASSUME UNCHANGED <<events, log>>
  PROVE  /\ \A b : (Announced(b) <=> Announced(b)') /\ Decided(b)' = Decided(b)
         /\ DecisionsAreFinal => DecisionsAreFinal'
BY DEF Announced, Decided, DecisionsAreFinal

\* The types of everything but the commands and their locks.
FilesTyped ==
    /\ comb \in [Proposals -> Hashes \cup {NoHash}]
    /\ events \in [Proposals -> Seq(Hashes)]
    /\ log \in [Trails -> Seq(Decision)]
    /\ store \in [Names -> StoreEntry \cup {NoEntry}]
    /\ disabled \subseteq Names
    /\ candidate \in [Names -> Hashes \cup {NoHash}]
    /\ revision \in Nat /\ unrecorded \subseteq Bundle

LEMMA CommittedKept ==
  ASSUME NEW o \in Operators, NEW p \in Operators, op'[p] = op[p]
  PROVE  Committed(p)' = Committed(p)
BY DEF Committed

\* An entry of the store stays or goes.
StoreShrinks == \A n \in Names : store'[n] = store[n] \/ store'[n] = NoEntry

\* o moves on; nothing new is installed, decided or discovered.
LEMMA OwnStep ==
  ASSUME IInv, NEW o \in Operators, NEW c, Becomes(o, c), LocksOfOthers(o),
         lock' \in [Trails -> Operators \cup {Nobody, Dead}],
         FilesTyped', UNCHANGED <<events, log>>, StoreShrinks, CommandOK(o)',
         \A b \in unrecorded : b \in unrecorded',
         \A b \in Committed(o) : b \in Committed(o)' \/ b \in unrecorded'
  PROVE  IInv'
<1>1. Types'
  BY DEF Becomes, FilesTyped, Types
<1>2. /\ \A b : (Announced(b) <=> Announced(b)') /\ Decided(b)' = Decided(b)
      /\ DecisionsAreFinal'
  BY SameLogs DEF IInv
<1>3. CommandsOK'
  <2> SUFFICES ASSUME NEW p \in Operators, p # o PROVE CommandOK(p)'
    BY DEF CommandsOK
  <2>1. op'[p] = op[p] /\ \A t \in Trails : lock'[t] = p <=> lock[t] = p
    BY DEF Becomes, LocksOfOthers
  <2> QED BY <1>2, <2>1, BystanderOK
<1>4. StoreOK'
  <2>1. \A p \in Operators : p # o => Committed(p)' = Committed(p)
    BY CommittedKept DEF Becomes
  <2>2. \A p \in Operators : \A b \in Committed(p) : b \in Committed(p)' \/ b \in unrecorded'
    BY <2>1
  <2> QED BY <1>2, <2>2, StoreKept DEF StoreShrinks
<1> QED BY <1>1, <1>2, <1>3, <1>4 DEF IInv

LEMMA FilesNow == IInv => FilesTyped
BY DEF IInv, Types, FilesTyped

\* A command that ends and leaves no entry unaccounted for.
LEMMA ReturnStep ==
  ASSUME IInv, NEW o \in Operators, Return(o), FilesTyped', UNCHANGED <<events, log>>,
         StoreShrinks,
         \A b \in unrecorded : b \in unrecorded',
         \A b \in Committed(o) : b \in unrecorded'
  PROVE  IInv'
<1>1. /\ Becomes(o, Idle(NoName)) /\ LocksOfOthers(o)
      /\ lock' \in [Trails -> Operators \cup {Nobody, Dead}]
      /\ \A t \in Trails : lock'[t] # o
  BY ReturnIs DEF IInv
<1>2. CommandOK(o)'
  BY <1>1, RestOK
<1> QED BY <1>1, <1>2, OwnStep

\* Outside a commit and its lines nothing is on its way.
LEMMA NothingCommitted ==
  ASSUME NEW o \in Operators, op[o].pc \notin {"commit", "append"}
  PROVE  Committed(o) = {}
BY DEF Committed

-----------------------------------------------------------------------------
(* Starting a command *)

LEMMA StartStep ==
  ASSUME IInv, NEW o \in Operators, NEW c \in Command, Start(o, c),
         KindOK(c), c.pc \in {"plan", "lock", "apply", "save"},
         c.kind = "approve" => \A b \in c.plan : Announced(b)
  PROVE  IInv'
<1>1. op[o].pc = "idle" /\ op' = [op EXCEPT ![o] = c]
      /\ UNCHANGED <<comb, events, log, lock, store, disabled, candidate, revision, unrecorded>>
  BY DEF Start
<1>2. Becomes(o, c)
  BY <1>1, BecomesIs DEF IInv
<1>3. \A t \in Trails : lock'[t] # o
  BY <1>1 DEF IInv, CommandsOK, CommandOK, LocksOK, Locking
<1>4. CommandOK(o)'
  BY <1>1, <1>2, <1>3 DEF Becomes, CommandOK, KindOK, LocksOK, Unrefused, Undecided,
     PlanAnnounced, Announced, Deciding
<1>5. Committed(o) = {}
  BY <1>1, NothingCommitted
<1>6. FilesTyped'
  BY <1>1, FilesNow DEF FilesTyped
<1>7. LocksOfOthers(o) /\ lock' \in [Trails -> Operators \cup {Nobody, Dead}]
  BY <1>1 DEF LocksOfOthers, IInv, Types
<1>8. StoreShrinks
  BY <1>1 DEF StoreShrinks
<1> QED BY <1>1, <1>2, <1>4, <1>5, <1>6, <1>7, <1>8, OwnStep

LEMMA BundleIs ==
  ASSUME IInv, NEW p \in Proposals, Valid(p)
  PROVE  BundleOf(p) \in Bundle /\ Announced(BundleOf(p))
<1>1. events[p] \in Seq(Hashes) /\ events[p] # <<>> /\ Discovered(p) = Last(events[p])
  BY DEF IInv, Types, Valid, Discovered
<1>2. Len(events[p]) \in DOMAIN events[p] /\ Last(events[p]) = events[p][Len(events[p])]
      /\ Last(events[p]) \in Hashes
  BY <1>1 DEF Last
<1>3. Discovered(p) \in ToSet(events[p])
  BY <1>1, <1>2 DEF ToSet
<1>4. p = <<p[1], p[2]>> /\ p[1] \in Trails /\ p[2] \in Names
  BY DEF Proposals
<1> QED BY <1>1, <1>2, <1>3, <1>4 DEF BundleOf, Bundle, Announced

LEMMA StartsOK ==
  ASSUME IInv, NEW o \in Operators
  PROVE  /\ \A refs \in SUBSET Proposals : Trial(o, refs) => IInv'
         /\ \A refs \in SUBSET Proposals, force \in BOOLEAN : Approve(o, refs, force) => IInv'
         /\ \A p \in Proposals : Reject(o, p) => IInv'
         /\ \A kind \in {"disable", "enable", "remove"}, n \in Names : Load(o, kind, n) => IInv'
<1>1. ASSUME NEW refs \in SUBSET Proposals, Trial(o, refs) PROVE IInv'
  <2> DEFINE bundles == {BundleOf(p) : p \in refs}
             c == [Idle(NoName) EXCEPT !.pc = "apply", !.kind = "trial", !.plan = bundles,
                                       !.todo = bundles, !.expected = revision]
  <2>1. bundles \in SUBSET Bundle
    BY <1>1, BundleIs DEF Trial
  <2>2. /\ c \in Command /\ c.pc = "apply" /\ c.kind = "trial" /\ c.plan = bundles
        /\ c.todo = bundles
    <3> HIDE DEF bundles
    <3> QED BY <2>1 DEF Idle, Command, IInv, Types
  <2>3. Start(o, c)
    BY <1>1 DEF Trial
  <2> HIDE DEF c, bundles
  <2>4. KindOK(c)
    BY <2>2 DEF KindOK, Locking
  <2> QED BY <2>2, <2>3, <2>4, StartStep
<1>2. ASSUME NEW refs \in SUBSET Proposals, NEW force \in BOOLEAN, Approve(o, refs, force)
      PROVE  IInv'
  <2> DEFINE bundles == {BundleOf(p) : p \in refs}
             c == [Idle(NoName) EXCEPT !.pc = "plan", !.force = force, !.plan = bundles]
  <2>1. bundles \in SUBSET Bundle /\ \A b \in bundles : Announced(b)
    BY <1>2, BundleIs DEF Approve
  <2>2. /\ c \in Command /\ c.pc = "plan" /\ c.kind = "approve" /\ c.plan = bundles
        /\ c.todo = {}
    <3> HIDE DEF bundles
    <3> QED BY <2>1 DEF Idle, Command
  <2>3. Start(o, c)
    BY <1>2 DEF Approve
  <2>4. \A b \in c.plan : Announced(b)
    <3> HIDE DEF c
    <3> QED BY <2>1, <2>2, Zenon
  <2> HIDE DEF c, bundles
  <2>5. KindOK(c)
    BY <2>2 DEF KindOK, Locking
  <2> QED BY <2>2, <2>3, <2>4, <2>5, StartStep
<1>3. ASSUME NEW p \in Proposals, Reject(o, p) PROVE IInv'
  <2> DEFINE b == BundleOf(p)
             c == [Idle(NoName) EXCEPT !.pc = "lock", !.kind = "reject", !.plan = {b},
                                       !.todo = {b}]
  <2>1. b \in Bundle
    BY <1>3, BundleIs DEF Reject
  <2>2. /\ c \in Command /\ c.pc = "lock" /\ c.kind = "reject" /\ c.plan = {b} /\ c.todo = {b}
        /\ c.force = FALSE
    <3> HIDE DEF b
    <3> QED BY <2>1 DEF Idle, Command
  <2>3. Start(o, c)
    BY <1>3 DEF Reject
  <2> HIDE DEF c, b
  <2>4. KindOK(c)
    BY <2>2 DEF KindOK, Locking
  <2> QED BY <2>2, <2>3, <2>4, StartStep
<1>4. ASSUME NEW kind \in {"disable", "enable", "remove"}, NEW n \in Names, Load(o, kind, n)
      PROVE  IInv'
  <2> DEFINE c == [Idle(n) EXCEPT !.pc = "save", !.kind = kind, !.ledger = disabled]
  <2>1. /\ c \in Command /\ c.pc = "save" /\ c.kind = kind /\ c.plan = {} /\ c.todo = {}
        /\ c.name \in Names
    BY DEF Idle, Command, IInv, Types
  <2>2. Start(o, c)
    BY <1>4 DEF Load
  <2> HIDE DEF c
  <2>3. KindOK(c)
    BY <2>1 DEF KindOK, Locking
  <2> QED BY <2>1, <2>2, <2>3, StartStep
<1> QED BY <1>1, <1>2, <1>3, <1>4

-----------------------------------------------------------------------------
(* Planning and locking *)

LEMMA PlanOK ==
  ASSUME IInv, NEW o \in Operators, Plan(o)
  PROVE  IInv'
<1>1. /\ op[o].pc = "plan" /\ op[o] \in Command /\ op[o].kind = "approve"
      /\ \A t \in Trails : lock[t] # o
  BY DEF Plan, IInv, Types, CommandsOK, CommandOK, KindOK, LocksOK, Locking
<1>2. Committed(o) = {}
  BY <1>1, NothingCommitted
<1>3. /\ FilesTyped' /\ StoreShrinks /\ UNCHANGED <<events, log>>
      /\ \A b \in unrecorded : b \in unrecorded'
  BY FilesNow DEF Plan, files, FilesTyped, StoreShrinks
<1>4. CASE Return(o)
  BY <1>2, <1>3, <1>4, ReturnStep
<1>5. CASE ~ Return(o)
  <2> DEFINE c == [op[o] EXCEPT !.pc = "lock", !.plan = {Planned(b) : b \in @},
                                !.todo = {Planned(b) : b \in op[o].plan}]
  <2>1. op' = [op EXCEPT ![o] = c] /\ UNCHANGED lock
    BY <1>5 DEF Plan
  <2>2. {Planned(b) : b \in op[o].plan} = op[o].plan
    BY DEF Planned
  <2>3. /\ c \in Command /\ c.pc = "lock" /\ c.kind = "approve" /\ c.plan = op[o].plan
        /\ c.todo = op[o].plan
    BY <1>1, <2>2 DEF Command
  <2> HIDE DEF c
  <2>4. Becomes(o, c)
    BY <2>1, <2>3, BecomesIs DEF IInv
  <2>5. LocksOfOthers(o) /\ lock' \in [Trails -> Operators \cup {Nobody, Dead}]
    BY <2>1 DEF LocksOfOthers, IInv, Types
  <2>6. \A b \in c.plan : Announced(b)'
    BY <1>1, <1>3, <2>3 DEF IInv, CommandsOK, CommandOK, PlanAnnounced, Announced
  <2>7. CommandOK(o)'
    BY <1>1, <2>1, <2>3, <2>4, <2>6 DEF Becomes, CommandOK, KindOK, LocksOK, Unrefused,
       Undecided, PlanAnnounced, Deciding, Locking
  <2> QED BY <1>2, <1>3, <2>4, <2>5, <2>7, OwnStep
<1> QED BY <1>4, <1>5

LEMMA AcquireLockOK ==
  ASSUME IInv, NEW o \in Operators, AcquireLock(o)
  PROVE  IInv'
<1>1. /\ op[o].pc = "lock" /\ op[o] \in Command /\ KindOK(op[o]) /\ LocksOK(o)
      /\ PlanAnnounced(o) /\ op[o].plan \subseteq Bundle
  BY DEF AcquireLock, IInv, Types, Command, CommandsOK, CommandOK
<1>2. Committed(o) = {}
  BY <1>1, NothingCommitted
<1>3. /\ FilesTyped' /\ StoreShrinks /\ UNCHANGED <<events, log>>
      /\ \A b \in unrecorded : b \in unrecorded'
  BY FilesNow DEF AcquireLock, files, FilesTyped, StoreShrinks
<1>4. CASE Unlocked(o) = {}
  <2> DEFINE c == [op[o] EXCEPT !.pc = "recheck"]
  <2>1. Goto(o, "recheck") /\ UNCHANGED lock
    BY <1>4 DEF AcquireLock
  <2>2. Becomes(o, c)
    BY <2>1, GotoIs DEF IInv, Pcs
  <2>3. /\ c.pc = "recheck" /\ c.kind = op[o].kind /\ c.plan = op[o].plan
        /\ c.todo = op[o].todo /\ c.force = op[o].force
    BY <1>1, PcIs DEF Pcs
  <2> HIDE DEF c
  <2>4. \A b \in op[o].plan : lock[b.trail] = o
    BY <1>1, <1>4 DEF Unlocked, TrailsOf, Bundle
  <2>5. LocksOfOthers(o) /\ lock' \in [Trails -> Operators \cup {Nobody, Dead}]
    BY <2>1 DEF LocksOfOthers, IInv, Types
  <2>6. KindOK(c)
    BY <1>1, <2>3 DEF KindOK, Locking
  <2>7. CommandOK(o)'
    BY <1>1, <1>3, <2>1, <2>2, <2>3, <2>4, <2>6 DEF Becomes, CommandOK, LocksOK,
       Unrefused, Undecided, PlanAnnounced, Announced, Deciding, Locking
  <2> QED BY <1>2, <1>3, <2>2, <2>5, <2>7, OwnStep
<1>5. CASE Unlocked(o) # {}
  <2> DEFINE n == NextLock(o)
  <2>1. /\ lock[n] = Nobody /\ lock' = [lock EXCEPT ![n] = o] /\ UNCHANGED op
    BY <1>5 DEF AcquireLock
  <2>2. /\ n \in Trails /\ n \in Nat
        /\ \A b \in op[o].plan : lock[b.trail] # o => n <= b.trail
    BY <1>5, NextLockIs, SkillAssumption DEF IInv
  <2> HIDE DEF n
  <2>3. lock' \in [Trails -> Operators \cup {Nobody, Dead}]
    BY <2>1 DEF IInv, Types
  <2>4. \A t \in Trails : (t # n => lock'[t] = lock[t]) /\ (t = n => lock'[t] = o)
    BY <2>1 DEF IInv, Types
  <2>5. LocksOfOthers(o)
    <3>1. \A p \in Operators : p # Nobody
      BY SkillAssumption
    <3> QED BY <2>1, <2>4, <3>1 DEF LocksOfOthers
  <2>6. Becomes(o, op[o])
    BY <2>1 DEF Becomes, IInv, Types
  <2>7. \A b \in op[o].plan : b.trail \in Trails /\ b.trail \in Nat
    BY <1>1, SkillAssumption DEF Bundle
  <2>8. ASSUME NEW t \in Trails, lock'[t] = o, NEW b \in op[o].plan, b.trail < t
        PROVE  lock'[b.trail] = o
    <3>1. CASE t = n
      BY <2>2, <2>4, <2>7, <2>8, <3>1
    <3>2. CASE t # n
      <4>1. lock[b.trail] = o
        BY <1>1, <2>4, <2>8, <3>2 DEF LocksOK
      <4> QED BY <2>4, <2>7, <4>1
    <3> QED BY <3>1, <3>2
  <2>9. LocksOK(o)'
    BY <1>1, <2>1, <2>8 DEF LocksOK, Locking, Deciding
  <2>10. CommandOK(o)'
    BY <1>1, <1>3, <2>1, <2>9 DEF CommandOK, KindOK, Unrefused, Undecided,
       PlanAnnounced, Announced
  <2> QED BY <1>2, <1>3, <2>3, <2>5, <2>6, <2>10, OwnStep
<1> QED BY <1>4, <1>5

LEMMA LockTimesOutOK ==
  ASSUME IInv, NEW o \in Operators, LockTimesOut(o)
  PROVE  IInv'
<1>1. Committed(o) = {}
  BY NothingCommitted DEF LockTimesOut
<1>2. /\ FilesTyped' /\ StoreShrinks /\ UNCHANGED <<events, log>>
      /\ \A b \in unrecorded : b \in unrecorded'
  BY FilesNow DEF LockTimesOut, files, FilesTyped, StoreShrinks
<1> QED BY <1>1, <1>2, ReturnStep DEF LockTimesOut

LEMMA RecheckOK ==
  ASSUME IInv, NEW o \in Operators, Recheck(o)
  PROVE  IInv'
<1>1. /\ op[o].pc = "recheck" /\ op[o] \in Command /\ CommandOK(o)
      /\ op[o].plan \subseteq Bundle /\ op[o].force \in BOOLEAN
  BY DEF Recheck, IInv, Types, Command, CommandsOK
<1>2. Committed(o) = {}
  BY <1>1, NothingCommitted
<1>3. /\ FilesTyped' /\ StoreShrinks /\ UNCHANGED <<events, log>>
      /\ \A b \in unrecorded : b \in unrecorded'
  BY FilesNow DEF Recheck, files, FilesTyped, StoreShrinks
<1>4. CASE Overtaken(o)
  BY <1>2, <1>3, <1>4, ReturnStep DEF Recheck
<1>5. CASE ~ Overtaken(o)
  <2> DEFINE pc == IF op[o].kind = "approve" THEN "commit" ELSE "append"
             c == [op[o] EXCEPT !.pc = pc]
  <2>1. Goto(o, pc) /\ UNCHANGED lock
    BY <1>5 DEF Recheck
  <2>2. pc \in Pcs
    BY DEF Pcs
  <2>3. Becomes(o, c)
    <3> HIDE DEF pc
    <3> QED BY <2>1, <2>2, GotoIs DEF IInv
  <2>4. /\ c.pc = pc /\ c.kind = op[o].kind /\ c.plan = op[o].plan
        /\ c.todo = op[o].todo /\ c.force = op[o].force
    <3> HIDE DEF pc
    <3> QED BY <1>1, <2>2, PcIs
  <2> HIDE DEF c
  <2>5. KindOK(c)
    BY <1>1, <2>4 DEF CommandOK, KindOK, Locking
  <2>6. \A b : Decided(b)' = Decided(b)
    BY <1>3, SameLogs
  <2>7. /\ \A b \in c.plan : "refused" \notin Decided(b)'
        /\ c.kind = "reject" => \A b \in c.plan : "installed" \notin Decided(b)'
    BY <1>1, <1>5, <2>4, <2>6 DEF Overtaken, CommandOK, KindOK
  <2>8. LocksOK(o)' /\ PlanAnnounced(o)'
    BY <1>1, <1>3, <2>1, <2>3, <2>4 DEF CommandOK, LocksOK, PlanAnnounced, Announced,
       Becomes, Locking, Deciding
  <2>9. Unrefused(o)' /\ Undecided(o)'
    BY <2>3, <2>5, <2>7 DEF Unrefused, Undecided, Becomes, KindOK
  <2>10. CommandOK(o)'
    BY <2>3, <2>5, <2>8, <2>9 DEF CommandOK, Becomes
  <2>11. LocksOfOthers(o) /\ lock' \in [Trails -> Operators \cup {Nobody, Dead}]
    BY <2>1 DEF LocksOfOthers, IInv, Types
  <2> QED BY <1>2, <1>3, <2>3, <2>10, <2>11, OwnStep
<1> QED BY <1>4, <1>5

-----------------------------------------------------------------------------
(* Installing and recording *)

LEMMA NextBundlesAre ==
  ASSUME IInv, NEW o \in Operators, NEW b \in NextBundles(o)
  PROVE  b \in op[o].todo /\ b \in op[o].plan /\ b \in Bundle /\ b.trail \in Trails
BY DEF NextBundles, IInv, Types, Command, CommandsOK, CommandOK, KindOK, Bundle

LEMMA CommitOK ==
  ASSUME IInv, NEW o \in Operators, Commit(o)
  PROVE  IInv'
<1>1. /\ op[o].pc = "commit" /\ op[o] \in Command /\ CommandOK(o) /\ op[o].kind = "approve"
      /\ op[o].plan \subseteq Bundle /\ op[o].todo \subseteq op[o].plan
  BY DEF Commit, IInv, Types, Command, CommandsOK, CommandOK, KindOK
<1>2. /\ UNCHANGED <<comb, events, log, lock, disabled, candidate, revision, unrecorded>>
      /\ \A b : (Announced(b) <=> Announced(b)') /\ Decided(b)' = Decided(b)
  BY SameLogs DEF Commit
<1>3. LocksOfOthers(o) /\ lock' \in [Trails -> Operators \cup {Nobody, Dead}]
  BY <1>2 DEF LocksOfOthers, IInv, Types
<1>4. CASE op[o].todo = {}
  <2> DEFINE c == [op[o] EXCEPT !.pc = "append", !.todo = op[o].plan]
  <2>1. op' = [op EXCEPT ![o] = c] /\ UNCHANGED store
    BY <1>4 DEF Commit
  <2>2. /\ c \in Command /\ c.pc = "append" /\ c.kind = "approve" /\ c.plan = op[o].plan
        /\ c.todo = op[o].plan
    BY <1>1 DEF Command
  <2> HIDE DEF c
  <2>3. Becomes(o, c)
    BY <2>1, <2>2, BecomesIs DEF IInv
  <2>4. KindOK(c)
    BY <2>2 DEF KindOK, Locking
  <2>5. CommandOK(o)'
    BY <1>1, <1>2, <2>2, <2>3, <2>4 DEF Becomes, CommandOK, LocksOK, Unrefused, Undecided,
       PlanAnnounced, Deciding, Locking
  <2>6. FilesTyped' /\ StoreShrinks
    BY <1>2, <2>1, FilesNow DEF FilesTyped, StoreShrinks
  <2>7. \A b \in Committed(o) : b \in Committed(o)'
    BY <1>1, <2>2, <2>3 DEF Committed, Becomes
  <2> QED BY <1>2, <1>3, <2>3, <2>5, <2>6, <2>7, OwnStep
<1>5. CASE op[o].todo # {}
  <2>1. PICK b \in NextBundles(o) : /\ store' = [store EXCEPT ![b.name] = Entry(b)]
                                    /\ op' = [op EXCEPT ![o].todo = @ \ {b}]
    BY <1>5 DEF Commit
  <2> DEFINE rest == op[o].todo \ {b}
             c == [op[o] EXCEPT !.todo = rest]
  <2>2. b \in op[o].todo /\ b \in op[o].plan /\ b \in Bundle
    BY NextBundlesAre
  <2>3. rest \in SUBSET Bundle
    BY <1>1
  <2>4. /\ c \in Command /\ c.pc = "commit" /\ c.kind = "approve" /\ c.plan = op[o].plan
        /\ c.todo = rest
    <3> HIDE DEF rest
    <3> QED BY <1>1, <2>3, TodoIs
  <2>5. op' = [op EXCEPT ![o] = c]
    BY <2>1
  <2> HIDE DEF c
  <2>6. Becomes(o, c)
    BY <2>4, <2>5, BecomesIs DEF IInv
  <2>7. KindOK(c)
    BY <1>1, <2>4 DEF KindOK, Locking
  <2>8. CommandOK(o)'
    BY <1>1, <1>2, <2>4, <2>6, <2>7 DEF Becomes, CommandOK, LocksOK, Unrefused, Undecided,
       PlanAnnounced, Deciding, Locking
  <2>9. b \in Committed(o)' /\ \A d \in Committed(o) : d \in Committed(o)'
    BY <1>1, <2>2, <2>4, <2>6 DEF Committed, Becomes
  <2>10. Entry(b) \in StoreEntry /\ b.name \in Names
    BY <2>2 DEF Entry, StoreEntry, Bundle
  <2>11. Announced(b)'
    BY <1>1, <1>2, <2>2 DEF CommandOK, PlanAnnounced
  <2>12. store' \in [Names -> StoreEntry \cup {NoEntry}]
    BY <2>1, <2>10 DEF IInv, Types
  <2>13. \A n \in Names : store'[n] = store[n] \/ (n = b.name /\ store'[n] = Entry(b))
    BY <2>1, <2>10 DEF IInv, Types
  <2>14. StoreOK'
    <3>1. \A p \in Operators : p # o => Committed(p)' = Committed(p)
      BY <2>6, CommittedKept DEF Becomes
    <3>2. \A p \in Operators : \A d \in Committed(p) : d \in Committed(p)'
      BY <2>9, <3>1
    <3>3. \A n \in Names :
            \/ store'[n] = store[n] \/ store'[n] = NoEntry
            \/ \E d \in Bundle, p \in Operators :
                 d.name = n /\ store'[n] = Entry(d) /\ Announced(d)' /\ d \in Committed(p)'
      BY <2>2, <2>9, <2>11, <2>13
    <3> QED BY <1>2, <3>2, <3>3, StoreKept
  <2>15. Types'
    BY <1>2, <1>3, <2>6, <2>12 DEF Becomes, Types, IInv
  <2>16. CommandsOK'
    <3> SUFFICES ASSUME NEW p \in Operators, p # o PROVE CommandOK(p)'
      BY <2>8 DEF CommandsOK
    <3>1. op'[p] = op[p] /\ \A t \in Trails : lock'[t] = p <=> lock[t] = p
      BY <1>2, <2>6 DEF Becomes
    <3> QED BY <1>2, <3>1, BystanderOK
  <2>17. DecisionsAreFinal'
    BY <1>2, SameLogs DEF IInv
  <2> QED BY <2>14, <2>15, <2>16, <2>17 DEF IInv
<1> QED BY <1>4, <1>5

\* o adds a line to the log of a trail nobody else has locked.
LEMMA AppendStep ==
  ASSUME IInv, NEW o \in Operators, NEW c, NEW b \in Bundle, NEW d \in Verdict,
         Becomes(o, c), AppendLine(b, d), UNCHANGED <<comb, events, lock, store, disabled,
         candidate, revision, unrecorded>>, lock[b.trail] \in {o, Nobody}, CommandOK(o)',
         d \in {"installed", "refused"} => "refused" \notin Decided(b),
         d = "refused" => "installed" \notin Decided(b),
         \A e \in Committed(o) : e \in Committed(o)' \/ (e = b /\ d = "installed")
  PROVE  IInv'
<1>1. log' = Longer(log, b, d) /\ log \in [Trails -> Seq(Decision)]
  BY DEF AppendLine, Longer, IInv, Types
<1>2. \A e : Decided(e) = DecidedIn(log, e) /\ Decided(e)' = DecidedIn(log', e)
  BY DEF Decided, DecidedIn
<1>3. log' \in [Trails -> Seq(Decision)]
  BY <1>1, LongerIs
<1>4. \A e \in Bundle :
         /\ \A x \in Decided(e) : x \in Decided(e)'
         /\ e.trail # b.trail => \A x : x \in Decided(e)' => x \in Decided(e)
  BY <1>1, <1>2, LongerDecides
<1>5. d \in Decided(b)'
  BY <1>1, <1>2, LongerDecides
<1>6. \A e : Announced(e) <=> Announced(e)'
  BY DEF Announced
<1>7. DecisionsAreFinal'
  <2>1. FinalIn(log)
    BY DEF IInv, DecisionsAreFinal, FinalIn
  <2>2. FinalIn(Longer(log, b, d))
    BY <1>1, <1>2, <2>1, LongerIsFinal
  <2> QED BY <1>1, <2>2 DEF DecisionsAreFinal, FinalIn
<1>8. Types'
  BY <1>3 DEF Becomes, Types, IInv
<1>9. CommandsOK'
  <2> SUFFICES ASSUME NEW p \in Operators, p # o PROVE CommandOK(p)'
    BY DEF CommandsOK
  <2>1. op'[p] = op[p] /\ \A t \in Trails : lock'[t] = p <=> lock[t] = p
    BY DEF Becomes
  <2>2. lock[b.trail] # p
    BY SkillAssumption
  <2>3. \A e \in Bundle : lock[e.trail] = p =>
            \A x \in {"installed", "refused"} : x \in Decided(e)' => x \in Decided(e)
    BY <1>4, <2>2
  <2> QED BY <1>6, <2>1, <2>3, BystanderOK
<1>10. StoreOK'
  <2>1. \A p \in Operators : p # o => Committed(p)' = Committed(p)
    BY CommittedKept DEF Becomes
  <2>2. \A p \in Operators : \A e \in Committed(p) :
            e \in Committed(p)' \/ e \in unrecorded' \/ "installed" \in Decided(e)'
    BY <1>5, <2>1
  <2>3. \A e \in Bundle : "installed" \in Decided(e) => "installed" \in Decided(e)'
    BY <1>4
  <2> QED BY <1>6, <2>2, <2>3, StoreKept
<1> QED BY <1>7, <1>8, <1>9, <1>10 DEF IInv

LEMMA AppendDecisionOK ==
  ASSUME IInv, NEW o \in Operators, AppendDecision(o)
  PROVE  IInv'
<1>1. /\ op[o].pc = "append" /\ op[o] \in Command /\ CommandOK(o)
      /\ op[o].kind \in {"approve", "reject"}
      /\ op[o].plan \subseteq Bundle /\ op[o].todo \subseteq op[o].plan
  BY DEF AppendDecision, IInv, Types, Command, CommandsOK, CommandOK, KindOK, Locking
<1>2. UNCHANGED <<comb, events, store, disabled, candidate, revision, unrecorded>>
  BY DEF AppendDecision
<1>3. CASE op[o].todo = {}
  <2>1. Return(o) /\ UNCHANGED log
    BY <1>3 DEF AppendDecision
  <2>2. Committed(o) = {}
    BY <1>1, <1>3 DEF Committed
  <2>3. FilesTyped' /\ StoreShrinks
    BY <1>2, <2>1, FilesNow DEF FilesTyped, StoreShrinks
  <2> QED BY <1>2, <2>1, <2>2, <2>3, ReturnStep
<1>4. CASE op[o].todo # {}
  <2> DEFINE d == IF op[o].kind = "approve" THEN "installed" ELSE "refused"
  <2>1. PICK b \in NextBundles(o) : /\ AppendLine(b, d)
                                    /\ op' = [op EXCEPT ![o].todo = LeftAfter(o, b)]
                                    /\ UNCHANGED lock
    BY <1>4 DEF AppendDecision
  <2> DEFINE rest == op[o].todo \ {b}
             c == [op[o] EXCEPT !.todo = rest]
  <2>2. b \in op[o].todo /\ b \in op[o].plan /\ b \in Bundle
    BY NextBundlesAre
  <2>3. rest \in SUBSET Bundle
    BY <1>1
  <2>4. /\ c \in Command /\ c.pc = "append" /\ c.kind = op[o].kind /\ c.plan = op[o].plan
        /\ c.todo = rest /\ c.force = op[o].force
    <3> HIDE DEF rest
    <3> QED BY <1>1, <2>3, TodoIs
  <2>5. op' = [op EXCEPT ![o] = c]
    BY <2>1 DEF LeftAfter
  <2> HIDE DEF c
  <2>6. Becomes(o, c)
    BY <2>4, <2>5, BecomesIs DEF IInv
  <2>7. KindOK(c)
    BY <1>1, <2>4 DEF CommandOK, KindOK, Locking
  <2>8. LocksOK(o)' /\ PlanAnnounced(o)'
    BY <1>1, <1>2, <2>1, <2>4, <2>6 DEF CommandOK, LocksOK, PlanAnnounced, Announced,
       Becomes, Deciding, Locking
  <2>9. /\ d \in Verdict /\ "refused" \notin Decided(b)
        /\ d = "refused" => "installed" \notin Decided(b)
    BY <1>1, <2>2 DEF CommandOK, Unrefused, Undecided, Verdict
  <2>10. Unrefused(o)'
    <3> SUFFICES ASSUME op[o].kind = "approve", NEW e \in op[o].plan
                 PROVE  "refused" \notin Decided(e)'
      BY <2>4, <2>6 DEF Unrefused, Becomes
    <3>1. d = "installed" /\ e \in Bundle /\ "refused" \notin Decided(e)
      BY <1>1 DEF CommandOK, Unrefused
    <3>2. log' = Longer(log, b, d) /\ log \in [Trails -> Seq(Decision)]
      BY <2>1 DEF AppendLine, Longer, IInv, Types
    <3>3. Decided(e) = DecidedIn(log, e) /\ Decided(e)' = DecidedIn(log', e)
      BY DEF Decided, DecidedIn
    <3> HIDE DEF d
    <3> QED BY <2>2, <2>9, <3>1, <3>2, <3>3, LongerDecides
  <2>11. Undecided(o)'
    <3>1. op[o].kind = "reject" => rest = {}
      BY <1>1, <2>2 DEF CommandOK, KindOK
    <3> QED BY <2>4, <2>6, <3>1 DEF Undecided, Becomes
  <2>12. CommandOK(o)'
    BY <2>6, <2>7, <2>8, <2>10, <2>11 DEF CommandOK, Becomes
  <2>13. lock[b.trail] = o
    BY <1>1, <2>2 DEF CommandOK, LocksOK, Deciding
  <2>14. \A e \in Committed(o) : e \in Committed(o)' \/ (e = b /\ d = "installed")
    BY <1>1, <2>4, <2>6 DEF Committed, Becomes
  <2> HIDE DEF d
  <2> QED BY <1>2, <2>1, <2>2, <2>6, <2>9, <2>12, <2>13, <2>14, AppendStep
<1> QED BY <1>3, <1>4

-----------------------------------------------------------------------------
(* Trials, the ledger, failures *)

LEMMA ApplyTrialOK ==
  ASSUME IInv, NEW o \in Operators, ApplyTrial(o)
  PROVE  IInv'
<1>1. /\ op[o].pc = "apply" /\ op[o] \in Command /\ CommandOK(o) /\ op[o].plan \subseteq Bundle
      /\ \A t \in Trails : lock[t] # o
  BY DEF ApplyTrial, IInv, Types, Command, CommandsOK, CommandOK, LocksOK, Locking
<1>2. /\ UNCHANGED <<comb, events, log, store, disabled, unrecorded>> /\ Committed(o) = {}
      /\ StoreShrinks /\ \A b \in unrecorded : b \in unrecorded'
  BY <1>1, NothingCommitted DEF ApplyTrial, StoreShrinks
<1>3. CASE ~ Admits(o)
  <2>1. Return(o) /\ UNCHANGED <<candidate, revision>>
    BY <1>3 DEF ApplyTrial
  <2>2. FilesTyped'
    BY <1>2, <2>1, FilesNow DEF FilesTyped
  <2> QED BY <1>2, <2>1, <2>2, ReturnStep
<1>4. CASE Admits(o)
  <2> DEFINE c == [op[o] EXCEPT !.pc = "record"]
             hash(n) == (CHOOSE b \in op[o].plan : b.name = n).hash
  <2>1. /\ Goto(o, "record") /\ UNCHANGED lock /\ revision' = revision + 1
        /\ candidate' = [n \in Names |->
              IF \E b \in op[o].plan : b.name = n THEN hash(n) ELSE candidate[n]]
    BY <1>4 DEF ApplyTrial
  <2>2. \A n \in Names : (\E b \in op[o].plan : b.name = n) => hash(n) \in Hashes
    BY <1>1 DEF Bundle
  <2> HIDE DEF hash
  <2>3. FilesTyped'
    BY <1>2, <2>1, <2>2, FilesNow DEF FilesTyped
  <2>4. Becomes(o, c)
    BY <2>1, GotoIs DEF IInv, Pcs
  <2>5. /\ c.pc = "record" /\ c.kind = op[o].kind /\ c.plan = op[o].plan
        /\ c.todo = op[o].todo /\ c.force = op[o].force
    BY <1>1, PcIs DEF Pcs
  <2> HIDE DEF c
  <2>6. CommandOK(o)'
    BY <1>1, <1>2, <2>1, <2>4, <2>5 DEF Becomes, CommandOK, KindOK, LocksOK, Unrefused,
       Undecided, PlanAnnounced, Announced, Deciding, Locking
  <2>7. LocksOfOthers(o) /\ lock' \in [Trails -> Operators \cup {Nobody, Dead}]
    BY <2>1 DEF LocksOfOthers, IInv, Types
  <2> QED BY <1>2, <2>3, <2>4, <2>6, <2>7, OwnStep
<1> QED BY <1>3, <1>4

LEMMA RecordTrialOK ==
  ASSUME IInv, NEW o \in Operators, RecordTrial(o)
  PROVE  IInv'
<1>1. /\ op[o].pc = "record" /\ op[o] \in Command /\ CommandOK(o)
      /\ op[o].plan \subseteq Bundle /\ op[o].todo \subseteq op[o].plan
      /\ \A t \in Trails : lock[t] # o
  BY DEF RecordTrial, IInv, Types, Command, CommandsOK, CommandOK, KindOK, LocksOK, Locking
<1>2. UNCHANGED <<comb, events, store, disabled, candidate, revision, unrecorded>>
      /\ Committed(o) = {}
  BY <1>1, NothingCommitted DEF RecordTrial
<1>3. CASE Return(o) /\ UNCHANGED log
  <2>1. FilesTyped' /\ StoreShrinks
    BY <1>2, <1>3, FilesNow DEF FilesTyped, StoreShrinks
  <2> QED BY <1>2, <1>3, <2>1, ReturnStep
<1>4. CASE \E b \in NextBundles(o) : /\ lock[b.trail] = Nobody
                                     /\ AppendLine(b, "trialled")
                                     /\ op' = [op EXCEPT ![o].todo = @ \ {b}]
                                     /\ UNCHANGED lock
  <2>1. PICK b \in NextBundles(o) : /\ lock[b.trail] = Nobody
                                    /\ AppendLine(b, "trialled")
                                    /\ op' = [op EXCEPT ![o].todo = @ \ {b}]
                                    /\ UNCHANGED lock
    BY <1>4
  <2> DEFINE rest == op[o].todo \ {b}
             c == [op[o] EXCEPT !.todo = rest]
  <2>2. b \in Bundle /\ rest \in SUBSET Bundle
    BY <1>1, NextBundlesAre
  <2>3. /\ c \in Command /\ c.pc = "record" /\ c.kind = op[o].kind /\ c.plan = op[o].plan
        /\ c.todo = rest /\ c.force = op[o].force
    <3> HIDE DEF rest
    <3> QED BY <1>1, <2>2, TodoIs
  <2>4. op' = [op EXCEPT ![o] = c]
    BY <2>1
  <2> HIDE DEF c
  <2>5. Becomes(o, c)
    BY <2>3, <2>4, BecomesIs DEF IInv
  <2>6. CommandOK(o)'
    BY <1>1, <1>2, <2>1, <2>3, <2>5 DEF Becomes, CommandOK, KindOK, LocksOK, Unrefused,
       Undecided, PlanAnnounced, Announced, Deciding, Locking
  <2>7. "trialled" \in Verdict
    BY DEF Verdict
  <2> QED BY <1>2, <2>1, <2>2, <2>5, <2>6, <2>7, AppendStep
<1> QED BY <1>3, <1>4 DEF RecordTrial

LEMMA SaveOK ==
  ASSUME IInv, NEW o \in Operators, Save(o)
  PROVE  IInv'
<1>1. /\ op[o].pc = "save" /\ op[o] \in Command /\ CommandOK(o) /\ op[o].plan \subseteq Bundle
      /\ \A t \in Trails : lock[t] # o
      /\ op[o].name \in Names /\ op[o].ledger \subseteq Names
  BY DEF Save, IInv, Types, Command, CommandsOK, CommandOK, KindOK, LocksOK, Locking
<1>2. /\ UNCHANGED <<comb, events, log, store, candidate, revision, unrecorded>>
      /\ disabled' \subseteq Names /\ Committed(o) = {}
      /\ StoreShrinks /\ \A b \in unrecorded : b \in unrecorded'
  BY <1>1, NothingCommitted DEF Save, Changed, StoreShrinks, IInv, Types
<1>3. FilesTyped'
  BY <1>2, FilesNow DEF FilesTyped
<1>4. CASE op[o].kind # "remove"
  BY <1>2, <1>3, <1>4, ReturnStep DEF Save
<1>5. CASE op[o].kind = "remove"
  <2> DEFINE c == [op[o] EXCEPT !.pc = "delete"]
  <2>1. Goto(o, "delete") /\ UNCHANGED lock
    BY <1>5 DEF Save
  <2>2. Becomes(o, c)
    BY <2>1, GotoIs DEF IInv, Pcs
  <2>3. /\ c.pc = "delete" /\ c.kind = op[o].kind /\ c.plan = op[o].plan
        /\ c.todo = op[o].todo /\ c.force = op[o].force
    BY <1>1, PcIs DEF Pcs
  <2> HIDE DEF c
  <2>4. CommandOK(o)'
    BY <1>1, <1>2, <1>5, <2>1, <2>2, <2>3 DEF Becomes, CommandOK, KindOK, LocksOK,
       Unrefused, Undecided, PlanAnnounced, Announced, Deciding, Locking
  <2>5. LocksOfOthers(o) /\ lock' \in [Trails -> Operators \cup {Nobody, Dead}]
    BY <2>1 DEF LocksOfOthers, IInv, Types
  <2> QED BY <1>2, <1>3, <2>2, <2>4, <2>5, OwnStep
<1> QED BY <1>4, <1>5

LEMMA DeleteEntryOK ==
  ASSUME IInv, NEW o \in Operators, DeleteEntry(o)
  PROVE  IInv'
<1>1. Committed(o) = {}
  BY NothingCommitted DEF DeleteEntry
<1>2. /\ UNCHANGED <<comb, events, log, disabled, candidate, revision, unrecorded>>
      /\ Return(o) /\ store' = [store EXCEPT ![op[o].name] = NoEntry]
      /\ \A b \in unrecorded : b \in unrecorded'
  BY DEF DeleteEntry
<1>3. StoreShrinks /\ store' \in [Names -> StoreEntry \cup {NoEntry}]
  BY <1>2 DEF StoreShrinks, IInv, Types
<1>4. FilesTyped'
  BY <1>2, <1>3, FilesNow DEF FilesTyped
<1> QED BY <1>1, <1>2, <1>3, <1>4, ReturnStep

LEMMA CommittedIs ==
  ASSUME IInv, NEW o \in Operators
  PROVE  Committed(o) \subseteq Bundle
BY DEF Committed, IInv, Types, Command

LEMMA FailuresOK ==
  ASSUME IInv, NEW o \in Operators, WriteFails(o) \/ Crash(o)
  PROVE  IInv'
<1>1. /\ UNCHANGED <<comb, events, log, store, disabled, candidate, revision>>
      /\ unrecorded' = unrecorded \cup Committed(o) /\ StoreShrinks
  BY DEF WriteFails, Crash, StoreShrinks
<1>2. FilesTyped'
  BY <1>1, FilesNow, CommittedIs DEF FilesTyped
<1>3. /\ \A b \in unrecorded : b \in unrecorded'
      /\ \A b \in Committed(o) : b \in unrecorded'
  BY <1>1
<1>4. CASE WriteFails(o)
  BY <1>1, <1>2, <1>3, <1>4, ReturnStep DEF WriteFails
<1>5. CASE Crash(o)
  <2>1. Becomes(o, Idle(NoName))
    BY <1>5, IdleIs, BecomesIs DEF Crash, IInv
  <2>2. lock' = [t \in Trails |-> IF lock[t] = o THEN Dead ELSE lock[t]]
    BY <1>5 DEF Crash
  <2>3. \A p \in Operators : p # Dead
    BY SkillAssumption
  <2>4. /\ LocksOfOthers(o) /\ lock' \in [Trails -> Operators \cup {Nobody, Dead}]
        /\ \A t \in Trails : lock'[t] # o
    BY <2>2, <2>3 DEF LocksOfOthers, IInv, Types
  <2>5. CommandOK(o)'
    BY <2>1, <2>4, RestOK
  <2> QED BY <1>1, <1>2, <1>3, <2>1, <2>4, <2>5, OwnStep
<1> QED BY <1>4, <1>5

-----------------------------------------------------------------------------
(* Steps that are no command's *)

LEMMA NobodysStep ==
  ASSUME IInv, UNCHANGED <<op, log, store, unrecorded>>, FilesTyped',
         lock' \in [Trails -> Operators \cup {Nobody, Dead}],
         \A p \in Operators, t \in Trails : lock'[t] = p <=> lock[t] = p,
         \A b \in Bundle : Announced(b) => Announced(b)'
  PROVE  IInv'
<1>1. Types'
  BY DEF FilesTyped, Types, IInv
<1>2. \A b : Decided(b)' = Decided(b)
  BY DEF Decided
<1>3. CommandsOK'
  BY <1>2, BystanderOK DEF CommandsOK
<1>4. StoreOK'
  BY <1>2, StoreKept DEF Committed
<1>5. DecisionsAreFinal'
  BY DEF IInv, DecisionsAreFinal
<1> QED BY <1>1, <1>3, <1>4, <1>5 DEF IInv

LEMMA BeesOK ==
  ASSUME IInv, NEW p \in Proposals, WriteBundle(p) \/ Announce(p)
  PROVE  IInv'
<1>1. /\ UNCHANGED <<log, lock, store, disabled, candidate, revision, op, unrecorded>>
      /\ lock' \in [Trails -> Operators \cup {Nobody, Dead}]
  BY DEF WriteBundle, Announce, IInv, Types
<1>2. CASE WriteBundle(p)
  <2>1. FilesTyped' /\ UNCHANGED events
    BY <1>1, <1>2, FilesNow DEF WriteBundle, FilesTyped
  <2>2. \A b \in Bundle : Announced(b) => Announced(b)'
    BY <2>1 DEF Announced
  <2> QED BY <1>1, <2>1, <2>2, NobodysStep
<1>3. CASE Announce(p)
  <2>1. /\ UNCHANGED comb /\ comb[p] \in Hashes /\ events \in [Proposals -> Seq(Hashes)]
        /\ events' = [events EXCEPT ![p] = Append(@, comb[p])]
    BY <1>3 DEF Announce, IInv, Types
  <2>2. events' \in [Proposals -> Seq(Hashes)]
    BY <2>1
  <2>3. FilesTyped'
    BY <1>1, <2>1, <2>2, FilesNow DEF FilesTyped
  <2>4. ASSUME NEW q \in Proposals, NEW h \in ToSet(events[q]) PROVE h \in ToSet(events'[q])
    <3>1. events[q] \in Seq(Hashes)
      BY <2>1
    <3>2. events'[q] = events[q] \/ (q = p /\ events'[q] = Append(events[q], comb[p]))
      BY <2>1
    <3>3. /\ DOMAIN events[q] \subseteq DOMAIN events'[q]
          /\ \A i \in DOMAIN events[q] : events'[q][i] = events[q][i]
      BY <2>1, <3>1, <3>2, AppendIs
    <3> QED BY <2>4, <3>3 DEF ToSet
  <2>5. \A b \in Bundle : <<b.trail, b.name>> \in Proposals
    BY DEF Bundle, Proposals
  <2>6. \A b \in Bundle : Announced(b) => Announced(b)'
    BY <2>4, <2>5 DEF Announced
  <2> QED BY <1>1, <2>3, <2>6, NobodysStep
<1> QED BY <1>2, <1>3

LEMMA BreakLockOK ==
  ASSUME IInv, NEW t \in Trails, BreakLock(t)
  PROVE  IInv'
<1>1. /\ UNCHANGED <<comb, events, log, store, disabled, candidate, revision, unrecorded, op>>
      /\ lock[t] = Dead /\ lock' = [lock EXCEPT ![t] = Nobody]
  BY DEF BreakLock, files
<1>2. \A p \in Operators : p # Dead /\ p # Nobody
  BY SkillAssumption
<1>3. /\ lock' \in [Trails -> Operators \cup {Nobody, Dead}]
      /\ \A p \in Operators, u \in Trails : lock'[u] = p <=> lock[u] = p
  BY <1>1, <1>2 DEF IInv, Types
<1>4. FilesTyped'
  BY <1>1, FilesNow DEF FilesTyped
<1>5. \A b \in Bundle : Announced(b) => Announced(b)'
  BY <1>1 DEF Announced
<1> QED BY <1>1, <1>3, <1>4, <1>5, NobodysStep

LEMMA ApplyColonyOK ==
  ASSUME IInv, ApplyColony
  PROVE  IInv'
<1>1. /\ UNCHANGED <<comb, events, log, lock, store, disabled, op, unrecorded>>
      /\ revision' = revision + 1
      /\ candidate' = [n \in Names |-> IF store[n] = NoEntry THEN NoHash ELSE store[n].hash]
  BY DEF ApplyColony
<1>2. \A n \in Names : store[n] # NoEntry => store[n].hash \in Hashes
  BY DEF IInv, Types, StoreEntry
<1>3. FilesTyped'
  BY <1>1, <1>2, FilesNow DEF FilesTyped
<1>4. lock' \in [Trails -> Operators \cup {Nobody, Dead}]
  BY <1>1 DEF IInv, Types
<1>5. \A b \in Bundle : Announced(b) => Announced(b)'
  BY <1>1 DEF Announced
<1> QED BY <1>1, <1>3, <1>4, <1>5, NobodysStep

LEMMA StutterOK ==
  ASSUME IInv, UNCHANGED vars
  PROVE  IInv'
<1>1. FilesTyped' /\ lock' \in [Trails -> Operators \cup {Nobody, Dead}]
  BY FilesNow DEF vars, FilesTyped, IInv, Types
<1>2. \A b \in Bundle : Announced(b) => Announced(b)'
  BY DEF vars, Announced
<1> QED BY <1>1, <1>2, NobodysStep DEF vars

-----------------------------------------------------------------------------
(* The specification *)

LEMMA InitIInv == Init => IInv
<1> SUFFICES ASSUME Init PROVE IInv
  OBVIOUS
<1>1. Idle(NoName) \in Command /\ Idle(NoName).pc = "idle" /\ Idle(NoName).kind = "approve"
      /\ Idle(NoName).plan = {} /\ Idle(NoName).todo = {}
  BY IdleIs
<1>2. \A o \in Operators : op[o] = Idle(NoName)
  BY DEF Init
<1>3. Types
  BY <1>1 DEF Init, Types, Proposals
<1>4. \A t \in Trails, o \in Operators : lock[t] # o
  BY SkillAssumption DEF Init
<1>5. CommandsOK
  BY <1>1, <1>2, <1>4 DEF CommandsOK, CommandOK, KindOK, LocksOK, Unrefused, Undecided,
     PlanAnnounced, Locking, Deciding
<1>6. StoreOK /\ DecisionsAreFinal
  BY DEF Init, StoreOK, DecisionsAreFinal
<1> QED BY <1>3, <1>5, <1>6 DEF IInv

LEMMA NextIInv == IInv /\ [Next]_vars => IInv'
<1> SUFFICES ASSUME IInv, [Next]_vars PROVE IInv'
  OBVIOUS
<1>1. CASE \E p \in Proposals : WriteBundle(p) \/ Announce(p)
  BY <1>1, BeesOK
<1>2. CASE \E o \in Operators : Step(o)
  <2>1. PICK o \in Operators : Step(o)
    BY <1>2
  <2> QED BY <2>1, PlanOK, AcquireLockOK, LockTimesOutOK, RecheckOK, CommitOK,
          AppendDecisionOK, ApplyTrialOK, RecordTrialOK, SaveOK, DeleteEntryOK,
          FailuresOK DEF Step
<1>3. CASE \E o \in Operators, refs \in SUBSET Proposals : Trial(o, refs)
  BY <1>3, StartsOK
<1>4. CASE \E o \in Operators, refs \in SUBSET Proposals, force \in BOOLEAN :
              Approve(o, refs, force)
  BY <1>4, StartsOK
<1>5. CASE \E o \in Operators, p \in Proposals : Reject(o, p)
  BY <1>5, StartsOK
<1>6. CASE \E o \in Operators, kind \in {"disable", "enable", "remove"}, n \in Names :
              Load(o, kind, n)
  BY <1>6, StartsOK
<1>7. CASE \E t \in Trails : BreakLock(t)
  BY <1>7, BreakLockOK
<1>8. CASE ApplyColony
  BY <1>8, ApplyColonyOK
<1>9. CASE UNCHANGED vars
  BY <1>9, StutterOK
<1> QED BY <1>1, <1>2, <1>3, <1>4, <1>5, <1>6, <1>7, <1>8, <1>9 DEF Next

LEMMA Inductive == Spec => []IInv
BY InitIInv, NextIInv, PTL DEF Spec

-----------------------------------------------------------------------------
(* Theorems *)

LEMMA SeqValues ==
  ASSUME NEW S, NEW s \in Seq(S)
  PROVE  ToSet(s) \subseteq S
BY DEF ToSet

\* Every file and every command keeps its shape.
THEOREM TypeCorrect == Spec => []TypeOK
<1>1. IInv => TypeOK
  BY SeqValues DEF IInv, Types, TypeOK, StoreEntry
<1> QED BY <1>1, Inductive, PTL

\* A decision about an exact bundle is final: however the commands of any number of
\* operators overlap, crash and fail, the re-read under the trail's lock keeps a
\* refusal from being followed by an install or a second refusal, and an install
\* from being followed by a refusal (ApproveProposals, RejectProposal).
THEOREM FinalDecisions == Spec => []DecisionsAreFinal
<1>1. IInv => DecisionsAreFinal
  BY DEF IInv
<1> QED BY <1>1, Inductive, PTL

\* The store never holds bytes a bee wrote over a bundle after its discovery: every
\* entry was announced under its trail and name (readValidatedBundle).
THEOREM OnlyAnnouncedInstalled == Spec => []InstalledWasAnnounced
<1>1. ASSUME IInv, NEW n \in Names, store[n] # NoEntry
      PROVE  store[n].hash \in ToSet(events[<<store[n].trail, n>>])
  <2>1. Announced(Installed(n))
    BY <1>1 DEF IInv, StoreOK
  <2> QED BY <2>1 DEF Announced, Installed
<1>2. IInv => InstalledWasAnnounced
  BY <1>1 DEF InstalledWasAnnounced
<1> QED BY <1>2, Inductive, PTL

\* A refused bundle is in the store only when the approval that put it there died or
\* failed before its line: the trail's lock covers the rename and the line.
THEOREM RefusedStaysOut == Spec => []RefusedIsNotInstalled
<1>1. ASSUME IInv, NEW b \in Bundle, "refused" \in Decided(b), "installed" \in Decided(b)
      PROVE  FALSE
  <2>1. \A x : x \in Decided(b) <=>
            \E i \in DOMAIN log[b.trail] :
                /\ log[b.trail][i].skill = b.name /\ log[b.trail][i].hash = b.hash
                /\ log[b.trail][i].decision = x
    BY DEF Decided, ToSet
  <2>2. PICK i \in DOMAIN log[b.trail] :
                /\ log[b.trail][i].skill = b.name /\ log[b.trail][i].hash = b.hash
                /\ log[b.trail][i].decision = "refused"
    BY <1>1, <2>1
  <2>3. PICK j \in DOMAIN log[b.trail] :
                /\ log[b.trail][j].skill = b.name /\ log[b.trail][j].hash = b.hash
                /\ log[b.trail][j].decision = "installed"
    BY <1>1, <2>1
  <2>4. b.trail \in Trails /\ i \in Nat /\ j \in Nat
    <3>1. b.trail \in Trails /\ log[b.trail] \in Seq(Decision)
      BY <1>1 DEF IInv, Types, Bundle
    <3> QED BY <3>1
  <2>5. i < j \/ j < i
    BY <2>2, <2>3, <2>4
  <2> QED BY <1>1, <2>2, <2>3, <2>4, <2>5 DEF IInv, DecisionsAreFinal
<1>2. ASSUME IInv, NEW b \in Bundle, NEW o \in Operators, b \in Committed(o)
      PROVE  "refused" \notin Decided(b)
  <2>1. op[o].kind = "approve" /\ op[o].pc \in {"commit", "append"} /\ b \in op[o].plan
    BY <1>2 DEF Committed, IInv, CommandsOK, CommandOK, KindOK
  <2> QED BY <1>2, <2>1 DEF IInv, CommandsOK, CommandOK, Unrefused
<1>3. ASSUME IInv, NEW n \in Names, store[n] # NoEntry, "refused" \in Decided(Installed(n))
      PROVE  Installed(n) \in unrecorded
  <2>1. Installed(n) \in Bundle
    BY <1>3 DEF Installed, Bundle, StoreEntry, IInv, Types
  <2>2. \/ Installed(n) \in unrecorded
        \/ "installed" \in Decided(Installed(n))
        \/ \E o \in Operators : Installed(n) \in Committed(o)
    BY <1>3 DEF IInv, StoreOK
  <2> QED BY <1>1, <1>2, <1>3, <2>1, <2>2
<1>4. IInv => RefusedIsNotInstalled
  BY <1>3 DEF RefusedIsNotInstalled, Installed
<1> QED BY <1>4, Inductive, PTL

\* Two batches that share trails never wait for each other: locks are taken in trail
\* order, so a command that holds a trail's lock holds those of its lower trails.
THEOREM NoDeadlock == Spec => []NoLockCycle
<1> DEFINE waits(a, b) == op[a].pc = "lock" /\ Unlocked(a) # {} /\ lock[NextLock(a)] = b
<1>1. ASSUME IInv, NEW p \in Operators, NEW q \in Operators, waits(p, q), waits(q, p)
      PROVE  NextLock(p) <= NextLock(q)
  <2>1. /\ NextLock(p) \in Trails /\ NextLock(q) \in Trails
        /\ lock[NextLock(p)] = q /\ lock[NextLock(q)] # q
    BY <1>1, NextLockIs DEF IInv
  <2>2. PICK b \in op[q].plan : b.trail = NextLock(q)
    BY <1>1, NextLockIs DEF IInv
  <2>3. ~ (b.trail < NextLock(p))
    <3>1. LocksOK(q)
      BY <1>1 DEF IInv, CommandsOK, CommandOK
    <3> QED BY <2>1, <2>2, <3>1 DEF LocksOK
  <2>4. NextLock(p) \in Nat /\ NextLock(q) \in Nat
    BY <2>1, SkillAssumption
  <2> QED BY <2>2, <2>3, <2>4
<1>2. ASSUME IInv, NEW p \in Operators, NEW q \in Operators, waits(p, q), waits(q, p)
      PROVE  FALSE
  <2>1. NextLock(p) <= NextLock(q) /\ NextLock(q) <= NextLock(p)
    BY <1>1, <1>2
  <2>2. /\ NextLock(p) \in Nat /\ NextLock(q) \in Nat
        /\ lock[NextLock(p)] # p /\ lock[NextLock(q)] # q
    BY <1>2, NextLockIs, SkillAssumption DEF IInv
  <2>3. NextLock(p) = NextLock(q)
    BY <2>1, <2>2
  <2> QED BY <1>2, <2>2, <2>3
<1>3. IInv => NoLockCycle
  BY <1>2 DEF NoLockCycle
<1> QED BY <1>3, Inductive, PTL
=============================================================================
