SPECIFICATION FairSpec
CONSTANTS
  Threads = {t1, t2}
  Workers = {w1, w2, w3}
  Iterations = {0, 1}
  Gradients = {g1}
  NoGradient = NoGradient
  NoThread = NoThread
  total_workers = 2
INVARIANTS
  TypeOK
  AppliedExactlyOnce
  UpdateIsFinal
  CompleteMeansApplied
  NewModelIsMarkedReady
  CountsMatchVerdict
PROPERTY ImplementsBarrier
