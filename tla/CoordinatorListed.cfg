SPECIFICATION FairSpec
CONSTANTS
  Workers = {w1}
  second = 1
  heartbeat_interval = 1
  cleanup_interval = 2
  timeout = 2
  Delay = 0
  MaxLosses = 1
  MaxRestarts = 1
PROPERTY LiveIsListed
