SPECIFICATION FairCheckpointSpec
CONSTANTS
  Threads = {t1}
  Workers = {w1}
  Iterations = {1, 2}
  Gradients = {g1}
  NoGradient = NoGradient
  NoThread = NoThread
  total_workers = 1
  Saver = Saver
  checkpoint_interval = 2
  MaxCalls = 1
  MaxFaults = 2
INVARIANT
  CheckpointTypeOK
PROPERTIES
  ImplementsStore
  EpochIsSaved
