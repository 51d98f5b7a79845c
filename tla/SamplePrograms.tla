--------------------------- MODULE SamplePrograms ---------------------------
(***************************************************************************)
(* The module_init() and module_exit() functions of the eight samples that *)
(* have one simulated IRQ line and no hotplug thread, as data:             *)
(*                                                                         *)
(*   init    what each call of the init function acquires, in order; the   *)
(*           call that acquires nothing is irq_set_irqchip_state, "raise"  *)
(*   goto    where a failure of that call goes: the resource the err_      *)
(*           label releases, "return", or "never" for a call that cannot   *)
(*           fail                                                          *)
(*   err     what the err_ labels release, from the first to the last      *)
(*   exit    what the exit function releases, in order                     *)
(*   bottom  what the top half defers its work to; a workqueue and a       *)
(*           tasklet are resources of that name, an IRQ thread comes with  *)
(*           the "irq"                                                     *)
(*                                                                         *)
(* "sim" is the irq_sim domain, "map" the virq, "irq" the requested line,  *)
(* "dir" the debugfs directory with its two files.                         *)
(***************************************************************************)
EXTENDS Naturals, Sequences

\* The calls, each named by what it acquires or releases.
Calls == {"raise", "dir", "irq", "map", "sim", "tasklet", "workqueue"}

\* interrupts/hardirq/hardirq.c
hardirq ==
  [init   |-> <<"sim", "map", "irq", "raise">>,
   goto   |-> <<"return", "sim", "map", "irq">>,
   err    |-> <<"irq", "map", "sim">>,
   exit   |-> <<"irq", "map", "sim">>,
   bottom |-> "none"]

\* interrupts/hardirq/irq_none.c
irq_none ==
  [init   |-> <<"sim", "map", "irq", "raise">>,
   goto   |-> <<"return", "sim", "map", "irq">>,
   err    |-> <<"irq", "map", "sim">>,
   exit   |-> <<"irq", "map", "sim">>,
   bottom |-> "none"]

\* interrupts/deferred/tasklet.c
tasklet ==
  [init   |-> <<"tasklet", "sim", "map", "irq", "raise">>,
   goto   |-> <<"never", "tasklet", "sim", "map", "irq">>,
   err    |-> <<"irq", "map", "sim", "tasklet">>,
   exit   |-> <<"irq", "map", "sim", "tasklet">>,
   bottom |-> "tasklet"]

\* Fault: destroy_workqueue() comes first in the exit function.
bh_workqueue_destroyed_first ==
  [init   |-> <<"workqueue", "sim", "map", "irq", "raise">>,
   goto   |-> <<"return", "workqueue", "sim", "map", "irq">>,
   err    |-> <<"irq", "map", "sim", "workqueue">>,
   exit   |-> <<"workqueue", "irq", "map", "sim">>,
   bottom |-> "workqueue"]

\* interrupts/deferred/bh_workqueue.c
bh_workqueue ==
  [init   |-> <<"workqueue", "sim", "map", "irq", "raise">>,
   goto   |-> <<"return", "workqueue", "sim", "map", "irq">>,
   err    |-> <<"irq", "map", "sim", "workqueue">>,
   exit   |-> <<"irq", "map", "sim", "workqueue">>,
   bottom |-> "workqueue"]

\* Fault: a failed irq_create_mapping() takes the label of the failed domain.
workqueue_sample_wrong_label ==
  [init   |-> <<"workqueue", "sim", "map", "irq", "raise">>,
   goto   |-> <<"return", "workqueue", "workqueue", "map", "irq">>,
   err    |-> <<"irq", "map", "sim", "workqueue">>,
   exit   |-> <<"irq", "map", "sim", "workqueue">>,
   bottom |-> "workqueue"]

\* interrupts/deferred/workqueue_sample.c
workqueue_sample ==
  [init   |-> <<"workqueue", "sim", "map", "irq", "raise">>,
   goto   |-> <<"return", "workqueue", "sim", "map", "irq">>,
   err    |-> <<"irq", "map", "sim", "workqueue">>,
   exit   |-> <<"irq", "map", "sim", "workqueue">>,
   bottom |-> "workqueue"]

\* Fault: the virq is disposed of before the line is freed.
threaded_irq_disposed_first ==
  [init   |-> <<"sim", "map", "irq", "raise">>,
   goto   |-> <<"return", "sim", "map", "irq">>,
   err    |-> <<"irq", "map", "sim">>,
   exit   |-> <<"map", "irq", "sim">>,
   bottom |-> "thread"]

\* interrupts/deferred/threaded_irq.c
threaded_irq ==
  [init   |-> <<"sim", "map", "irq", "raise">>,
   goto   |-> <<"return", "sim", "map", "irq">>,
   err    |-> <<"irq", "map", "sim">>,
   exit   |-> <<"irq", "map", "sim">>,
   bottom |-> "thread"]

\* interrupts/danger/sleep_in_hardirq_danger.c
sleep_in_hardirq_danger ==
  [init   |-> <<"sim", "map", "irq", "dir">>,
   goto   |-> <<"return", "sim", "map", "irq">>,
   err    |-> <<"irq", "map", "sim">>,
   exit   |-> <<"dir", "irq", "map", "sim">>,
   bottom |-> "none"]

\* Fault: the debugfs files are created before the line is requested.
sleep_in_softirq_danger_exposed_early ==
  [init   |-> <<"tasklet", "sim", "map", "dir", "irq">>,
   goto   |-> <<"never", "tasklet", "sim", "map", "dir">>,
   err    |-> <<"dir", "map", "sim", "tasklet">>,
   exit   |-> <<"irq", "dir", "map", "sim", "tasklet">>,
   bottom |-> "tasklet"]

\* Fault: tasklet_kill() comes before free_irq() in the exit function.
sleep_in_softirq_danger_killed_early ==
  [init   |-> <<"tasklet", "sim", "map", "irq", "dir">>,
   goto   |-> <<"never", "tasklet", "sim", "map", "irq">>,
   err    |-> <<"irq", "map", "sim", "tasklet">>,
   exit   |-> <<"dir", "tasklet", "irq", "map", "sim">>,
   bottom |-> "tasklet"]

\* interrupts/danger/sleep_in_softirq_danger.c
sleep_in_softirq_danger ==
  [init   |-> <<"tasklet", "sim", "map", "irq", "dir">>,
   goto   |-> <<"never", "tasklet", "sim", "map", "irq">>,
   err    |-> <<"irq", "map", "sim", "tasklet">>,
   exit   |-> <<"dir", "irq", "map", "sim", "tasklet">>,
   bottom |-> "tasklet"]

AllPrograms ==
  {hardirq, irq_none, tasklet, bh_workqueue, workqueue_sample, threaded_irq,
   sleep_in_hardirq_danger, sleep_in_softirq_danger}

-----------------------------------------------------------------------------
\* The labels fall through: a goto to the one that releases r releases r and all
\* that follow; "return" is no label.
FallThrough(err, r) ==
  IF \E i \in DOMAIN err : err[i] = r
  THEN SubSeq(err, CHOOSE i \in DOMAIN err : err[i] = r, Len(err))
  ELSE << >>

\* What is released when the i-th call of p's init function fails.
Unwind(p, i) == FallThrough(p.err, p.goto[i])

Resources(p) == {p.init[i] : i \in DOMAIN p.init} \ {"raise"}

-----------------------------------------------------------------------------
(***************************************************************************)
(* What the programs have in common, and all that the proofs use of them:  *)
(* every list of releases undoes the acquisitions before it in reverse.    *)
(***************************************************************************)

\* seq releases the first n resources p acquires, in reverse.
Undoes(seq, p, n) ==
  /\ seq \in Seq(Calls) /\ Len(seq) = n
  /\ \A k \in 1 .. n : seq[k] = p.init[n + 1 - k]

\* A resource is acquired before another.
Precedes(p, r, q) ==
  \A j \in DOMAIN p.init : p.init[j] = q => \E i \in 1 .. j - 1 : p.init[i] = r

WellFormed(p) ==
  LET n == Len(p.init) IN
  /\ p.init \in Seq(Calls) /\ n > 0
  /\ \A i, j \in 1 .. n : p.init[i] = p.init[j] => i = j
  /\ \A i \in 1 .. n : p.init[i] \in {"raise", "dir"} => i = n
  /\ \A i \in 1 .. n : p.goto[i] # "never" => Undoes(Unwind(p, i), p, i - 1)
  /\ Undoes(p.exit, p, IF p.init[n] = "raise" THEN n - 1 ELSE n)
  /\ p.exit # << >>
  /\ "irq" \in Resources(p)
  /\ Precedes(p, "sim", "map") /\ Precedes(p, "map", "irq")
  /\ Precedes(p, "irq", "raise") /\ Precedes(p, "irq", "dir")
  /\ p.bottom \in {"none", "thread", "tasklet", "workqueue"}
  /\ p.bottom \in {"none", "thread"} \/ Precedes(p, p.bottom, "irq")
=============================================================================
