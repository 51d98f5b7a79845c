SPECIFICATION FairSpec
CONSTANTS
  CPUs = {0, 1, 2}
  Pluggable = {1, 2}
  PRINT_BOUND = 3
INVARIANTS
  StepsOnOwnCpu
PROPERTIES
  PrintsInOrder
  OnlineCpuPrints
