------------------------------ MODULE NumberLog ------------------------------
(***************************************************************************)
(* What percpu_parallel promises: while it is loaded, every CPU prints     *)
(* consecutive numbers, from a first one of its own, and nothing is        *)
(* printed before or after.  How the numbers are counted, by whom, and     *)
(* what happens to a CPU in between is not said here.                      *)
(***************************************************************************)
EXTENDS Naturals

CONSTANTS
  CPUs,
  First(_)   \* the first number a CPU prints

VARIABLES
  phase,     \* closed, open, shut
  shown      \* the last number each CPU has printed, First(c) - 1 at the start

vars == <<phase, shown>>

Init == phase = "closed" /\ shown = [c \in CPUs |-> First(c) - 1]

Open == phase = "closed" /\ phase' = "open" /\ UNCHANGED shown

PrintNumber(c) ==
  /\ phase = "open"
  /\ shown' = [shown EXCEPT ![c] = @ + 1]
  /\ UNCHANGED phase

Shut == phase = "open" /\ phase' = "shut" /\ UNCHANGED shown

Next == Open \/ (\E c \in CPUs : PrintNumber(c)) \/ Shut

Spec == Init /\ [][Next]_vars
=============================================================================
