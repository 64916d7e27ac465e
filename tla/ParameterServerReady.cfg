SPECIFICATION Spec
CONSTANTS
  Threads = {t1, t2}
  Workers = {w1, w2}
  Iterations = {0}
  Gradients = {g1}
  NoGradient = NoGradient
  NoThread = NoThread
  total_workers = 2
INVARIANT ReadyMeansUpdated
SYMMETRY Symmetry
