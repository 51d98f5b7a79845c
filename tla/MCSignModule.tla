---------------------------- MODULE MCSignModule ----------------------------
\* Instances of SignModule for TLC.
EXTENDS SignModule, TLC

\* Whatever is left of the two files, by whatever went wrong before.
AnyFiles == Contents \X Contents

\* A fresh clone.
NoFiles == {<<"absent", "absent">>}

\* Pairs are only compared with one another.
PairSymmetry == Permutations(Pairs)
=============================================================================
