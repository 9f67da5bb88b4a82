----------------------------- MODULE Milestone -----------------------------
(***************************************************************************)
(* What the completion of a trail's work promises whoever listens          *)
(* (trail.work.completed): a certified revision has one identity, nothing  *)
(* is certified over an announcement that is still owed, revisions only    *)
(* grow, and an announcement may be heard again but never differently.     *)
(* TrailDelivery's processes implement it.                                 *)
(***************************************************************************)
EXTENDS Naturals

CONSTANTS
    MaxRevision,    \* bound on the work revision, a natural number
    Captures,       \* who may have captured a completion's evidence
    Nobody

VARIABLES
    certified,      \* the revision certified last; 0: none
    by,             \* whose capture its identity is
    published,      \* its announcement is known to have been made
    heard           \* every announcement made

vars == <<certified, by, published, heard>>
Current == [revision |-> certified, by |-> by]

TypeOK ==
    /\ certified \in 0..MaxRevision
    /\ by \in Captures \cup {Nobody}
    /\ published \in BOOLEAN
    /\ heard \subseteq [revision: 1..MaxRevision, by: Captures]

Init == certified = 0 /\ by = Nobody /\ published = FALSE /\ heard = {}

Certify(revision, capture) ==
    /\ certified = 0 \/ published
    /\ revision > certified
    /\ certified' = revision /\ by' = capture /\ published' = FALSE
    /\ UNCHANGED heard

Announce ==
    /\ certified # 0 /\ ~published
    /\ heard' = heard \cup {Current}
    /\ UNCHANGED <<certified, by, published>>

Acknowledge ==
    /\ Current \in heard /\ ~published
    /\ published' = TRUE
    /\ UNCHANGED <<certified, by, heard>>

Next ==
    \/ \E revision \in 1..MaxRevision, capture \in Captures : Certify(revision, capture)
    \/ Announce
    \/ Acknowledge

Spec == Init /\ [][Next]_vars

-----------------------------------------------------------------------------
(* Every announcement of a revision carries the same identity: a listener  *)
(* that keeps the first one it hears of a revision misses nothing          *)
(* (work_completion.go: a retry reuses the recorded identity).             *)
OneIdentityPerRevision ==
    \A a, b \in heard : a.revision = b.revision => a.by = b.by

(* An announcement that is still owed is never replaced by a later         *)
(* completion (work_completion.go: the recorded episode comes first).      *)
NothingSkipped ==
    [][certified' # certified => certified = 0 \/ Current \in heard]_vars
=============================================================================
