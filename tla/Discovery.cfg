SPECIFICATION DiscoverySpec
CONSTANTS
  Workers = {w1, w2}
  argument <- TestLocalArgument
  listening <- LocalServer
  max_attempts = 5
  MaxFaults = 1
INVARIANT WorkerReachesServer
