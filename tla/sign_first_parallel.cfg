SPECIFICATION Spec
CONSTANTS
  Samples = {s1, s2}
  Pairs = {p1, p2, p3, p4}
  FirstJobs = {2}
  Jobs = {2}
  FirstFiles <- NoFiles
INVARIANT
  SignedByKeyOnDisk
