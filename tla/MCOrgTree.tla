------------------------------ MODULE MCOrgTree ------------------------------
EXTENDS OrgTree, TLC

CONSTANTS a1, a2, a3, a4

AgentSymmetry == Permutations({a1, a2, a3, a4})
=============================================================================
