SPECIFICATION Spec
CONSTANTS
  Samples = {s1, s2, s3}
  Pairs = {p1, p2, p3}
  FirstJobs = {1}
  Jobs = {1, 3}
  FirstFiles <- AnyFiles
SYMMETRY PairSymmetry
INVARIANT
  SignedByKeyOnDisk
