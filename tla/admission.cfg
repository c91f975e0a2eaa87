\* Three starters and the removal of two categories, every interleaving.
SPECIFICATION Spec
CONSTANTS
  a1 = a1  a2 = a2  a3 = a3  g1 = g1  g2 = g2
  Starters <- ThreeStarters
  Categories <- TwoCategories
  None = None
  MaxRevivals = 1
INVARIANTS
  TypeOK
  OneCrawlPerScope
PROPERTIES
  RemovesOnlyIdle
SYMMETRY Symmetry
\* Every request is answered in the end.
CHECK_DEADLOCK FALSE
