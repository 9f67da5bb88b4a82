-------------------------- MODULE MCConfigBarrier --------------------------
(***************************************************************************)
(* Small instances of ConfigBarrier; request identities are alike.  The    *)
(* promises of the configuration modules are evaluated with it.            *)
(***************************************************************************)
EXTENDS ConfigBarrier, TLC, ColonyChecks

RequestSymmetry == Permutations(RequestIds)
=============================================================================
