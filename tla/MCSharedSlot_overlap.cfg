SPECIFICATION Spec
CONSTANTS
  c1 = c1
  c2 = c2
  r1 = r1
  r2 = r2
  Order <- MCOrder
  KindOf <- MCKindOf
  NoOrder = NoOrder
SYMMETRY MCSymmetry
INVARIANTS OneKindAtATime
