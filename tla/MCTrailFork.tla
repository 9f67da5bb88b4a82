---------------------------- MODULE MCTrailFork ----------------------------
(***************************************************************************)
(* Small instances of TrailFork; operators and request identities are      *)
(* alike.                                                                  *)
(***************************************************************************)
EXTENDS TrailFork, TLC, TrailConfigChecks

ForkSymmetry == Permutations(Operators) \cup Permutations(RequestIds)
=============================================================================
