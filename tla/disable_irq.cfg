SPECIFICATION FairSpec
CONSTANTS
  CPUs = {c1, c2}
  DISABLED_RAISE_COUNT = 5
INVARIANTS
  MergedIntoOne
  OnlyResent
PROPERTIES
  LatchedIsDelivered
  LoaderEnds
