SPECIFICATION FairTrainingSpec
CONSTANTS
  Threads = {t1, t2}
  Workers = {w1, w2}
  Iterations = {0, 1}
  Gradients = {0, 1, 2}
  NoGradient = NoGradient
  NoThread = NoThread
  NoWorker = NoWorker
  total_workers = 2
  iterations = 2
  max_retries = 2
  max_polls = 2
  MaxFaults = 1
  Unlucky = {w1}
INVARIANTS
  TrainingTypeOK
  DoneMeansContributed
  OneBasis
  InOrder
PROPERTIES
  CallsRunOut
  ImplementsSynchronous
  EveryRunEnds
  EveryIterationApplied
