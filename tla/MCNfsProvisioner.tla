-------------------------- MODULE MCNfsProvisioner --------------------------
EXTENDS NfsProvisioner, TLC

CONSTANTS w1, w2, a, b, c

Symmetry == Permutations(Workers) \cup Permutations(Volumes)
=============================================================================
