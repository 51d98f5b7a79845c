SPECIFICATION Spec
CONSTANTS
  CPUs = {c1, c2, c3}
  Pluggable = {}
  RAISES_PER_CPU = 1
SYMMETRY Symmetry
INVARIANTS
  CounterGapFree
