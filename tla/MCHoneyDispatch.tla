-------------------------- MODULE MCHoneyDispatch --------------------------
(***************************************************************************)
(* Instances of HoneyDispatch for TLC: which events meet on one trail.     *)
(***************************************************************************)
EXTENDS HoneyDispatch, TLC

Event(n, kind, task) == [id |-> n, kind |-> kind, task |-> task]

\* The first task is kicked around honey and a kill.
KickTwiceAddAndKill ==
    {Event(1, "task.ready", 1), Event(2, "task.ready", 1), Event(3, "energy.add", 1),
     Event(4, "system.kill", 1)}
KickAddAndStipend ==
    {Event(1, "task.ready", 1), Event(2, "energy.add", 1), Event(3, "energy.stipend", 1)}

\* The second task waits for the first.
Chain == [id \in TaskIds |-> {n \in TaskIds : n < id}]

GoroutineSymmetry == Permutations(Goroutines)
=============================================================================
