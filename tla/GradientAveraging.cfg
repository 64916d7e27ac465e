SPECIFICATION Spec
CONSTANTS
  Workers = {w1, w2}
  total_workers = 2
  Values = {1, 2}
  Layouts <- MCLayouts
  Dummy <- MCDummy
  MaxIteration = 1
SYMMETRY Symmetry
INVARIANT TypeOK
PROPERTIES
  OrderIndependent
  EveryElementUpdated
  LayoutIsStable
