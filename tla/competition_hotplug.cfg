SPECIFICATION FairSpec
CONSTANTS
  CPUs = {c1, c2}
  Pluggable = {c2}
  RAISES_PER_CPU = 2
INVARIANTS
  TypeOK
  CounterGapFree
  NoSelfDeadlock
  NoHardirqUnreported
  HandlerNeedsRaise
  NoCodeAfterUnload
PROPERTIES
  RaiseOnLiveLine
  HardirqPickedUp
  EveryCpuRaises
  UnloadCompletes
