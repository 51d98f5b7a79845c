----------------------- MODULE MCInterruptCompetition -----------------------
(***************************************************************************)
(* TLC instances of InterruptCompetition.                                  *)
(***************************************************************************)
EXTENDS InterruptCompetition, TLC

\* The CPUs are interchangeable when none of them is pluggable.
Symmetry == Permutations(CPUs)
=============================================================================
