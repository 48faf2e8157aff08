SPECIFICATION Spec
CONSTANTS
  c1 = c1
  c2 = c2
  Callers = {c1, c2}
  Numbers <- MCNumbers
  Ranges <- MCRanges
SYMMETRY Symmetry
INVARIANTS
  TypeOK
  FreeIsExact
  HeldOnce
  NoSpuriousAnswer
