--------------------------- MODULE SoftirqContext ---------------------------
(***************************************************************************)
(* The softirq context of each CPU, which timer callbacks (TIMER_SOFTIRQ)  *)
(* and receive hooks (NET_RX_SOFTIRQ) of all modules share.  An external   *)
(* component: on one CPU softirqs run one after the other and never nest,  *)
(* on different CPUs they run at once.                                     *)
(***************************************************************************)
CONSTANT CPUs

\* What each CPU serves: "none", or the point its callback has reached.
VARIABLE serving

SoftirqInit == serving = [c \in CPUs |-> "none"]

\* CPU c is at point p of a callback and goes on to point q.
Advance(c, p, q) == serving[c] = p /\ serving' = [serving EXCEPT ![c] = q]

\* No CPU is at any of the points in S.
Nowhere(S) == \A c \in CPUs : serving[c] \notin S
=============================================================================
