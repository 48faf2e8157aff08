-------------------------- MODULE MCEFSProvisioner --------------------------
EXTENDS EFSProvisioner, TLC

CONSTANTS w1, w2, a, b, c

OneRange == {<<1, 2>>}

TwoRanges == {<<1, 2>>, <<2, 3>>}

Symmetry == Permutations(Workers) \cup Permutations(Volumes)
=============================================================================
