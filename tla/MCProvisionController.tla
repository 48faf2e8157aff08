----------------------- MODULE MCProvisionController -----------------------
EXTENDS ProvisionController, TLC

CONSTANTS k1, u1, u2, c1, c2, v1

Symmetry == Permutations(UIDs) \cup Permutations(ClaimWorkers)
=============================================================================
