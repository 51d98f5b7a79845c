SPECIFICATION Spec
CONSTANTS
  Addrs = {a1, a2, a3, a4, a5}
  HEAD = HEAD
  POISON = POISON
  N_USER_INFOS = 5
  Carts <- MCCarts
SYMMETRY AddrSymmetry
INVARIANTS
  TypeOK
  WellLinked
  NoDanglingCursor
  LoadedUsers
  CartsPrintedInFull
PROPERTIES
  ImplementsSequence
