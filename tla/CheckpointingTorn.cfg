SPECIFICATION CheckpointSpec
CONSTANTS
  Threads = {t1}
  Workers = {w1}
  Iterations = {1}
  Gradients = {g1}
  NoGradient = NoGradient
  NoThread = NoThread
  total_workers = 1
  Saver = Saver
  checkpoint_interval = 1
  MaxCalls = 1
  MaxFaults = 1
INVARIANT LoadedMeansAvailable
