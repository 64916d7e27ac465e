SPECIFICATION FairScalingSpec
CONSTANTS
  Workers = {0, 1, 2}
  argument <- NoArgument
  listening <- ServerElsewhere
  max_attempts = 2
  MaxFaults = 1
  iterations = 1
  max_retries = 2
  MaxScalings = 2
INVARIANTS
  ScalingTypeOK
  RemovedStayOut
  DoneMeansContributed
PROPERTIES
  CallsRunOut
  InitializationEnds
CHECK_DEADLOCK FALSE
