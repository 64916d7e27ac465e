SPECIFICATION CheckpointSpec
CONSTANTS
  Threads = {t1, t2}
  Workers = {w1}
  Iterations = {1, 2}
  Gradients = {g1}
  NoGradient = NoGradient
  NoThread = NoThread
  total_workers = 1
  Saver = Saver
  checkpoint_interval = 2
  MaxCalls = 2
  MaxFaults = 0
SYMMETRY Symmetry
INVARIANTS
  FilesAreSnapshots
  HeaderFits
  OnlyFaultsDamage
  NoneTwice
PROPERTY ImplementsStore
