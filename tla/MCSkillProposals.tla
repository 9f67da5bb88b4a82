------------------------- MODULE MCSkillProposals -------------------------
\* The instances of SkillProposals that TLC checks; the promises of the readers
\* of the store are evaluated with it.
EXTENDS SkillProposals, TLC, SkillStoreChecks

Symmetric ==
    Permutations(Hashes) \cup Permutations(Names) \cup Permutations(Operators)
=============================================================================
