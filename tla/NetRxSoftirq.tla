---------------------------- MODULE NetRxSoftirq ----------------------------
(***************************************************************************)
(* interrupts/deferred/net_rx_softirq.c: a netfilter hook that runs for    *)
(* packets on any CPU, numbers the TCP ones with one atomic counter and    *)
(* logs every SAMPLE_EVERY-th of them.                                     *)
(***************************************************************************)
EXTENDS UnsignedLong, SoftirqContext

CONSTANT SAMPLE_EVERY

ASSUME SampleAssumption ==
  SAMPLE_EVERY \in Nat \ {0} /\ (ULONG_MAX + 1) % SAMPLE_EVERY = 0

VARIABLES
  hookPc,         \* where the insmod/rmmod task of net_rx_softirq is
  linked,         \* packets reach the hook
  gs_seen_count, gs_captured_count,
  gap             \* history: the packets numbered since the last one sampled

hookVars == <<hookPc, linked, gs_seen_count, gs_captured_count, gap>>

HookTypeOK ==
  /\ hookPc \in {"register", "live", "wait", "gone"}
  /\ linked \in BOOLEAN
  /\ gs_seen_count \in UnsignedLongs /\ gs_captured_count \in UnsignedLongs
  /\ gap \in 0 .. SAMPLE_EVERY - 1

\* The next packet is to be sampled, as if the last one had been long ago.
HookInit ==
  /\ hookPc = "register"
  /\ linked = FALSE
  /\ gs_seen_count = 0 /\ gs_captured_count = 0
  /\ gap = SAMPLE_EVERY - 1

\* The points of net_rx_softirq_hook().
HookPoints == {"hook", "capture"}

-----------------------------------------------------------------------------
HookProceeds(from, to, l) ==
  /\ hookPc = from /\ hookPc' = to
  /\ linked' = l
  /\ UNCHANGED <<gs_seen_count, gs_captured_count, gap, serving>>

\* nf_register_net_hook(), which may fail.
RegisterHook == HookProceeds("register", "live", TRUE)
RegisterHookFails == HookProceeds("register", "gone", FALSE)

\* Fault: the exit function does not unregister the hook.
UnregisterForgotten == HookProceeds("live", "gone", linked)

\* nf_unregister_net_hook() unlinks the hook ...
HookRmmod == HookProceeds("live", "wait", FALSE)

\* ... and synchronize_net() waits for the hooks that are running.
UnregisterReturns == Nowhere(HookPoints) /\ HookProceeds("wait", "gone", FALSE)

\* A packet arrives on CPU c.
EnterHook(c) == linked /\ Advance(c, "none", "hook") /\ UNCHANGED hookVars

\* It is not a TCP packet.
AcceptOther(c) == Advance(c, "hook", "none") /\ UNCHANGED hookVars

\* Fault: atomic_long_inc_return() instead of atomic_long_fetch_inc().
SampledByNewCount == Increment(gs_seen_count) % SAMPLE_EVERY = 0

Sampled == gs_seen_count % SAMPLE_EVERY = 0

\* atomic_long_fetch_inc() numbers it; most are accepted without more.
NumberPacket(c) ==
  /\ Advance(c, "hook", IF Sampled THEN "capture" ELSE "none")
  /\ gs_seen_count' = Increment(gs_seen_count)
  /\ gap' = IF Sampled THEN 0 ELSE gap + 1
  /\ UNCHANGED <<hookPc, linked, gs_captured_count>>

\* The sampled packet is counted and logged, unless it has no TCP header.
CapturePacket(c) ==
  /\ Advance(c, "capture", "none")
  /\ gs_captured_count' \in {gs_captured_count, Increment(gs_captured_count)}
  /\ UNCHANGED <<hookPc, linked, gs_seen_count, gap>>

-----------------------------------------------------------------------------
HookLoaderStep == RegisterHook \/ RegisterHookFails \/ UnregisterReturns

HookRuns(c) == AcceptOther(c) \/ NumberPacket(c) \/ CapturePacket(c)

HookNext ==
  \/ HookLoaderStep \/ HookRmmod
  \/ \E c \in CPUs : EnterHook(c) \/ HookRuns(c)

-----------------------------------------------------------------------------
(***************************************************************************)
(* Properties.                                                             *)
(***************************************************************************)

(***************************************************************************)
(* Of the packets numbered on all CPUs exactly every SAMPLE_EVERY-th is    *)
(* sampled, the first of all included, for ever: not even the wrap of the  *)
(* counter makes two samples closer or wider apart (lines 36-37 and 67:    *)
(* "logs every %u-th TCP packet").                                         *)
(***************************************************************************)
OneInSampleEvery ==
  [][gs_seen_count' # gs_seen_count =>
       gap' = IF gap = SAMPLE_EVERY - 1 THEN 0 ELSE gap + 1]_gs_seen_count

(***************************************************************************)
(* Once nf_unregister_net_hook() has returned the hook is not running and  *)
(* cannot be entered, so that the module may go and the counts it reports  *)
(* are final (comment in lines 76-82, lines 83-85).                        *)
(***************************************************************************)
NoHookAfterUnload == hookPc = "gone" => ~linked /\ Nowhere(HookPoints)
=============================================================================
