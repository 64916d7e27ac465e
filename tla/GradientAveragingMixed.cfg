SPECIFICATION Spec
CONSTANTS
  Workers = {w1, w2}
  total_workers = 2
  Values = {1}
  Layouts <- MCLayouts
  Dummy <- MCDummy
  MaxIteration = 0
SYMMETRY Symmetry
PROPERTY CompleteMeansUpdated
