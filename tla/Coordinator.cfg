SPECIFICATION Spec
CONSTANTS
  Workers = {w1, w2}
  second = 2
  heartbeat_interval = 2
  cleanup_interval = 4
  timeout = 4
  Delay = 1
  MaxLosses = 2
  MaxRestarts = 1
SYMMETRY Symmetry
INVARIANTS
  TypeOK
  StaleIsEvicted
  TimelyIsKept
