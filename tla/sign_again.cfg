SPECIFICATION Spec
CONSTANTS
  Samples = {s1, s2}
  Pairs = {p1, p2, p3}
  FirstJobs = {1}
  Jobs = {1}
  FirstFiles <- NoFiles
INVARIANT
  NextMakeSigns
