--------------------------- MODULE SoftirqSamples ---------------------------
(***************************************************************************)
(* timer_softirq and net_rx_softirq loaded together: modules that do not   *)
(* know of each other, on the softirq contexts of the same CPUs, so that   *)
(* on each CPU the callback of one delays that of the other.               *)
(***************************************************************************)
EXTENDS TimerSoftirq, NetRxSoftirq

vars == <<serving, timerVars, hookVars>>

TypeOK ==
  /\ TimerTypeOK /\ HookTypeOK
  /\ serving \in [CPUs -> {"none"} \cup TimerPoints \cup HookPoints]

Init == SoftirqInit /\ TimerInit /\ HookInit

\* Both modules are unloaded, or failed to load.
Unloaded == timerPc = "gone" /\ hookPc = "gone" /\ UNCHANGED vars

Next ==
  \/ TimerNext /\ UNCHANGED hookVars
  \/ HookNext /\ UNCHANGED timerVars
  \/ Unloaded

Spec == Init /\ [][Next]_vars

(***************************************************************************)
(* The tasks and the callbacks that are running go on.  A timer that keeps *)
(* finding its CPU busy with packets is fired at last (strong fairness):   *)
(* the softirq loop serves TIMER_SOFTIRQ before NET_RX_SOFTIRQ and gives   *)
(* up to ksoftirqd after some rounds.  Nothing makes packets arrive.       *)
(***************************************************************************)
FairSpec ==
  /\ Spec
  /\ WF_vars(TimerLoaderStep /\ UNCHANGED hookVars)
  /\ WF_vars(HookLoaderStep /\ UNCHANGED timerVars)
  /\ SF_vars(\E c \in CPUs : TimerFires(c) /\ UNCHANGED hookVars)
  /\ \A c \in CPUs : /\ WF_vars(TimerCallback(c) /\ UNCHANGED hookVars)
                     /\ WF_vars(HookRuns(c) /\ UNCHANGED timerVars)

(***************************************************************************)
(* Either module can be unloaded: timer_shutdown_sync() returns although   *)
(* the callback it waits for arms its own timer, nf_unregister_net_hook()  *)
(* however many packets keep arriving (timer_softirq.c:22 and 41,          *)
(* net_rx_softirq.c:76-83).                                                *)
(***************************************************************************)
UnloadsComplete ==
  (timerPc = "wait" ~> timerPc = "gone") /\ (hookPc = "wait" ~> hookPc = "gone")
=============================================================================
