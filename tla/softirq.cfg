SPECIFICATION FairSpec
CONSTANTS
  CPUs = {c1, c2}
  ULONG_MAX = 7
  SAMPLE_EVERY = 4
INVARIANTS
  OneTimer
  NoHookAfterUnload
PROPERTIES
  OneInSampleEvery
  KeepsTicking
  UnloadsComplete
