SPECIFICATION Spec
CONSTANTS
  Programs <- AllPrograms
  CPUs = {c1, c2}
  Users = {u1, u2}
INVARIANTS
  TypeOK
  BuiltOnHeld
  NoUseAfterRelease
  NothingLeaks
PROPERTY
  RaiseOnLiveLine
