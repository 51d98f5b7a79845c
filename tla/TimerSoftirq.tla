---------------------------- MODULE TimerSoftirq ----------------------------
(***************************************************************************)
(* interrupts/deferred/timer_softirq.c: a timer whose callback counts a    *)
(* tick and arms its own timer again, until timer_shutdown_sync().         *)
(***************************************************************************)
EXTENDS UnsignedLong, SoftirqContext

VARIABLES
  timerPc,      \* where the insmod/rmmod task of timer_softirq is
  armed,        \* the timer is pending
  shut,         \* the timer's function is cleared: mod_timer() does nothing
  gs_tick_count

timerVars == <<timerPc, armed, shut, gs_tick_count>>

TimerTypeOK ==
  /\ timerPc \in {"arm", "live", "wait", "gone"}
  /\ armed \in BOOLEAN /\ shut \in BOOLEAN
  /\ gs_tick_count \in UnsignedLongs

\* timer_setup() has been called.
TimerInit ==
  /\ timerPc = "arm"
  /\ armed = FALSE /\ shut = FALSE
  /\ gs_tick_count = 0

\* The points of timer_softirq_bottom_half().
TimerPoints == {"tick", "rearm", "return"}

-----------------------------------------------------------------------------
\* init arms the timer for the first time.
ArmTimer ==
  /\ timerPc = "arm" /\ timerPc' = "live"
  /\ armed' = TRUE
  /\ UNCHANGED <<shut, gs_tick_count, serving>>

\* timer_shutdown_sync() calls off a pending timer and refuses a new one ...
TimerRmmod ==
  /\ timerPc = "live" /\ timerPc' = "wait"
  /\ armed' = FALSE /\ shut' = TRUE
  /\ UNCHANGED <<gs_tick_count, serving>>

\* Fault: timer_shutdown() instead: it does not wait.
ShutdownReturnsAtOnce ==
  /\ timerPc = "wait" /\ timerPc' = "gone"
  /\ UNCHANGED <<armed, shut, gs_tick_count, serving>>

\* ... and waits for a callback that is running.
ShutdownReturns ==
  /\ timerPc = "wait" /\ timerPc' = "gone"
  /\ Nowhere(TimerPoints)
  /\ UNCHANGED <<armed, shut, gs_tick_count, serving>>

\* The timer expires: it is not pending any more when its callback is entered,
\* and the callback never runs twice at a time.
TimerFires(c) ==
  /\ armed
  /\ Nowhere(TimerPoints)
  /\ Advance(c, "none", "tick")
  /\ armed' = FALSE
  /\ UNCHANGED <<timerPc, shut, gs_tick_count>>

CountTick(c) ==
  /\ Advance(c, "tick", "rearm")
  /\ gs_tick_count' = Increment(gs_tick_count)
  /\ UNCHANGED <<timerPc, armed, shut>>

\* Fault: the callback does not arm the timer again.
RearmForgotten(c) ==
  /\ Advance(c, "rearm", "return")
  /\ UNCHANGED <<timerPc, armed, shut, gs_tick_count>>

\* Fault: the callback insists until the timer is pending again.
RearmRetried(c) ==
  /\ Advance(c, "rearm", IF shut THEN "rearm" ELSE "return")
  /\ armed' = ~shut
  /\ UNCHANGED <<timerPc, shut, gs_tick_count>>

\* mod_timer() in the callback.
Rearm(c) ==
  /\ Advance(c, "rearm", "return")
  /\ armed' = ~shut
  /\ UNCHANGED <<timerPc, shut, gs_tick_count>>

TimerReturns(c) == Advance(c, "return", "none") /\ UNCHANGED timerVars

-----------------------------------------------------------------------------
TimerLoaderStep == ArmTimer \/ ShutdownReturns

TimerCallback(c) == CountTick(c) \/ Rearm(c) \/ TimerReturns(c)

TimerNext ==
  \/ TimerLoaderStep \/ TimerRmmod
  \/ \E c \in CPUs : TimerFires(c) \/ TimerCallback(c)

-----------------------------------------------------------------------------
(***************************************************************************)
(* Properties.                                                             *)
(***************************************************************************)

(***************************************************************************)
(* The timer fires at most once per arming, is never lost while the module *)
(* is loaded, and never armed again by the callback that timer_shutdown_   *)
(* sync() waits for; once that has returned neither the timer nor its      *)
(* callback is left, so gs_tick_count is final (lines 20-22 and 41-42).    *)
(***************************************************************************)
OneTimer ==
  LET yetToArm == ~Nowhere({"tick", "rearm"}) IN
  /\ timerPc = "live" => (armed <=> ~yetToArm)
  /\ timerPc \in {"wait", "gone"} => ~armed
  /\ timerPc = "gone" => Nowhere(TimerPoints)

(***************************************************************************)
(* A loaded timer_softirq ticks for ever, through any load of the network  *)
(* softirq on the CPUs (lines 20-22; README.md lines 100-101).             *)
(***************************************************************************)
KeepsTicking ==
  \A n \in UnsignedLongs :
    timerPc = "live" /\ gs_tick_count = n ~> gs_tick_count # n \/ timerPc # "live"
=============================================================================
