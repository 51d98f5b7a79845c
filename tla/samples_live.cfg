SPECIFICATION FairSpec
CONSTANTS
  Programs <- AllPrograms
  CPUs = {c1, c2}
  Users = {u1}
PROPERTIES
  LoadingServesIrq
  UnloadCompletes
