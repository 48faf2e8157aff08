------------------------- MODULE MCMinMaxAllocator -------------------------
(* Two callers, ranges that overlap, nest and are disjoint.                *)
EXTENDS MinMaxAllocator, TLC

CONSTANTS c1, c2

MCRanges == {<<0, 2>>, <<1, 3>>, <<2, 2>>, <<3, 4>>}

MCNumbers == 0 .. 4

Symmetry == Permutations({c1, c2})
=============================================================================
