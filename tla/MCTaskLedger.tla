---------------------------- MODULE MCTaskLedger ----------------------------
(***************************************************************************)
(* Small instances of TaskLedger, one family of plans per configuration.   *)
(***************************************************************************)
EXTENDS TaskLedger

Author(phase, deps) == [phase |-> phase, deps |-> deps, bee |-> NoBee]

\* One goal task, planned again and again.
OneTask == {[id \in {1} |-> Author("work", {})]}

=============================================================================
