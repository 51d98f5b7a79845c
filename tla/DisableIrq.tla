----------------------------- MODULE DisableIrq -----------------------------
(***************************************************************************)
(* interrupts/hardirq/disable_irq.c: init disables its simulated line,     *)
(* raises it DISABLED_RAISE_COUNT times, which only latches the interrupt, *)
(* and enables it, upon which the kernel resends it once, from a tasklet   *)
(* of its own.                                                             *)
(*                                                                         *)
(* Actors: the insmod/rmmod task (pc), the hardirq context of each CPU     *)
(* (IrqSim) and the kernel's resend tasklet.                               *)
(***************************************************************************)
EXTENDS Naturals

CONSTANTS
  CPUs,
  DISABLED_RAISE_COUNT   \* how often init raises the disabled line

ASSUME DisableIrqAssumption == DISABLED_RAISE_COUNT \in Nat \ {0}

VARIABLES
  pc,                    \* where the insmod/rmmod task is
  held,                  \* what it holds of "sim", "map" and "irq"
  made,                  \* the raises that did not fail
  pending, work, irq,    \* the simulated line (IrqSim)
  disabled,              \* the line's disable depth is not 0
  latched,               \* IRQS_PENDING: an interrupt came while it was disabled
  resend,                \* the resend of the line: none, queued, in the handler
  gs_handler_run_count

lineVars == <<pending, work, irq>>
flowVars == <<disabled, latched, resend>>
vars == <<pc, held, made, lineVars, flowVars, gs_handler_run_count>>

Line == INSTANCE IrqSim

LoaderPcs == {"create_sim", "create_mapping", "request_irq", "disable_irq", "raise",
              "sleep", "enable_irq", "report", "live", "err_enable_irq", "free_irq",
              "synchronize_irq", "dispose_mapping", "remove_sim", "gone"}

TypeOK ==
  /\ pc \in LoaderPcs
  /\ held \subseteq {"sim", "map", "irq"}
  /\ made \in 0 .. DISABLED_RAISE_COUNT
  /\ Line!LineTypeOK
  /\ disabled \in BOOLEAN /\ latched \in BOOLEAN
  /\ resend \in {"none", "queued", "handler"}
  /\ gs_handler_run_count \in Nat

Init ==
  /\ pc = "create_sim" /\ held = {} /\ made = 0
  /\ Line!LineInit
  /\ disabled = FALSE /\ latched = FALSE /\ resend = "none"
  /\ gs_handler_run_count = 0

-----------------------------------------------------------------------------
(***************************************************************************)
(* The insmod/rmmod task.                                                  *)
(***************************************************************************)

Goto(from, to) == pc = from /\ pc' = to

TaskFrame == UNCHANGED <<held, made, lineVars, flowVars, gs_handler_run_count>>

\* A call that acquires r, or fails and goes to the label err.
Obtain(from, r, to, err) ==
  /\ \/ Goto(from, to) /\ held' = held \cup {r}
     \/ Goto(from, err) /\ UNCHANGED held
  /\ UNCHANGED <<made, lineVars, flowVars, gs_handler_run_count>>

\* A call that ends with resource r released.
GiveUp(from, r, to) ==
  /\ Goto(from, to)
  /\ held' = held \ {r}
  /\ UNCHANGED <<made, lineVars, disabled, latched, gs_handler_run_count>>

CreateSim == Obtain("create_sim", "sim", "create_mapping", "gone")
CreateMapping == Obtain("create_mapping", "map", "request_irq", "remove_sim")
RequestIrq == Obtain("request_irq", "irq", "disable_irq", "dispose_mapping")

\* A handler of this module is running, in hardirq or in the resend tasklet.
Running == Line!InProgress \/ resend = "handler"

DisableFrame == UNCHANGED <<held, made, lineVars, latched, resend,
                            gs_handler_run_count>>

\* Fault: disable_irq() is left out.
DisableMissing == Goto("disable_irq", "raise") /\ UNCHANGED disabled /\ DisableFrame

\* disable_irq() waits for a handler that is running.
DisableIrq ==
  /\ ~Running
  /\ Goto("disable_irq", "raise")
  /\ disabled' = TRUE
  /\ DisableFrame

\* irq_set_irqchip_state() raises the line, whose interrupt CPU c takes.
RaiseIrq(c) ==
  /\ Goto("raise", "sleep")
  /\ Line!Raise(c)
  /\ made' = made + 1
  /\ UNCHANGED <<held, flowVars, gs_handler_run_count>>

\* It fails.
RaiseFails == Goto("raise", "err_enable_irq") /\ TaskFrame

\* enable_irq() has a latched interrupt resent: its bit goes to the tasklet.
Enable(from, to) ==
  /\ Goto(from, to)
  /\ disabled' = FALSE /\ latched' = FALSE
  /\ resend' = IF latched THEN "queued" ELSE resend
  /\ UNCHANGED <<held, made, lineVars, gs_handler_run_count>>

LastRaise == made = DISABLED_RAISE_COUNT

\* Fault: the line is enabled in the loop.
SleepEnables ==
  Line!Quiet /\ Enable("sleep", IF LastRaise THEN "report" ELSE "raise")

\* Fault: init waits for the handler to run instead of sleeping.
SleepUntilHandled ==
  /\ Line!Quiet /\ gs_handler_run_count > 0
  /\ Goto("sleep", IF LastRaise THEN "enable_irq" ELSE "raise")
  /\ TaskFrame

(***************************************************************************)
(* msleep() between two raises: its second is far longer than the irq_work *)
(* of the raise takes to reach its CPU, which is assumed.                  *)
(***************************************************************************)
SleepReturns ==
  /\ Line!Quiet
  /\ Goto("sleep", IF LastRaise THEN "enable_irq" ELSE "raise")
  /\ TaskFrame

\* Fault: init ends without enable_irq().
EnableMissing == Goto("enable_irq", "report") /\ TaskFrame

EnableIrq == Enable("enable_irq", "report")

ErrEnableIrq == Enable("err_enable_irq", "free_irq")

\* The last msleep() is over, whether or not the resent interrupt has run.
Report == Goto("report", "live") /\ TaskFrame

Rmmod == Goto("live", "free_irq") /\ TaskFrame

\* free_irq() unlinks the handler and calls off a resend that has not begun ...
FreeIrq ==
  /\ GiveUp("free_irq", "irq", "synchronize_irq")
  /\ resend' = IF resend = "queued" THEN "none" ELSE resend

\* ... and waits for a handler that is running.
FreeIrqReturns ==
  /\ ~Running
  /\ Goto("synchronize_irq", "dispose_mapping") /\ TaskFrame

DisposeMapping == GiveUp("dispose_mapping", "map", "remove_sim") /\ UNCHANGED resend

\* irq_domain_remove_sim() waits for the domain's irq_work.
RemoveSim ==
  /\ Line!Quiet
  /\ GiveUp("remove_sim", "sim", "gone") /\ UNCHANGED resend

-----------------------------------------------------------------------------
(***************************************************************************)
(* The line in hardirq context and its resend in softirq context.          *)
(***************************************************************************)

Interrupt(c) ==
  /\ Line!Interrupt(c)
  /\ UNCHANGED <<pc, held, made, flowVars, gs_handler_run_count>>

(***************************************************************************)
(* handle_simple_irq() latches the interrupt of a disabled line, drops one *)
(* of a line in progress, and otherwise enters the handler.                *)
(***************************************************************************)
HandleSimpleIrq(c) ==
  /\ IF disabled \/ Running \/ "irq" \notin held
     THEN Line!Drop(c, FALSE) /\ latched' = (latched \/ ~Running)
     ELSE Line!Deliver(c) /\ UNCHANGED latched
  /\ UNCHANGED <<pc, held, made, disabled, resend, gs_handler_run_count>>

EndIrqWork(c) ==
  /\ Line!Drained(c)
  /\ UNCHANGED <<pc, held, made, flowVars, gs_handler_run_count>>

\* The resend tasklet calls the flow handler of the line, which is not disabled.
ResendBegins ==
  /\ resend = "queued" /\ ~Running
  /\ resend' = "handler"
  /\ UNCHANGED <<pc, held, made, lineVars, disabled, latched,
                 gs_handler_run_count>>

\* disable_irq_top_half() counts its run and returns, in whichever context.
TopHalf ==
  /\ Running
  /\ IF resend = "handler"
     THEN resend' = "none" /\ UNCHANGED lineVars
     ELSE (\E c \in CPUs : Line!Return(c)) /\ UNCHANGED resend
  /\ gs_handler_run_count' = gs_handler_run_count + 1
  /\ UNCHANGED <<pc, held, made, disabled, latched>>

-----------------------------------------------------------------------------
LoaderStep ==
  \/ CreateSim \/ CreateMapping \/ RequestIrq \/ DisableIrq
  \/ \E c \in CPUs : RaiseIrq(c)
  \/ RaiseFails \/ SleepReturns \/ EnableIrq \/ ErrEnableIrq \/ Report
  \/ FreeIrq \/ FreeIrqReturns \/ DisposeMapping \/ RemoveSim

LineStep(c) == Interrupt(c) \/ HandleSimpleIrq(c) \/ EndIrqWork(c)

SoftStep == ResendBegins \/ TopHalf

\* The module is unloaded; nothing of it is left to run.
Unloaded == pc = "gone" /\ UNCHANGED vars

Next == LoaderStep \/ Rmmod \/ (\E c \in CPUs : LineStep(c)) \/ SoftStep \/ Unloaded

Spec == Init /\ [][Next]_vars

\* The loader goes on and every context runs; nobody has to unload the module.
FairSpec ==
  /\ Spec
  /\ WF_vars(LoaderStep)
  /\ \A c \in CPUs : WF_vars(LineStep(c))
  /\ WF_vars(SoftStep)

-----------------------------------------------------------------------------
(***************************************************************************)
(* Properties.                                                             *)
(***************************************************************************)

\* The deliveries that were made, are being made or are still owed.
Deliveries ==
  gs_handler_run_count + (IF latched THEN 1 ELSE 0) + (IF resend = "none" THEN 0 ELSE 1)

(***************************************************************************)
(* The raises of the disabled line merge into one delivery: however many   *)
(* were made, and whether init enables the line after the last or on the   *)
(* way out because one failed, exactly one run of the handler is owed or   *)
(* done while the handler is installed, none if no raise was made, and     *)
(* freeing the line can only call it off (lines 62-77 and 86-88; README.md *)
(* line 28: "merged into one delivery").                                   *)
(***************************************************************************)
MergedIntoOne ==
  /\ Deliveries <= (IF made = 0 THEN 0 ELSE 1)
  /\ made > 0 /\ Line!Quiet /\ "irq" \in held => Deliveries = 1

(***************************************************************************)
(* The handler runs in softirq context only, never while the line is       *)
(* disabled or freed, and a module that is gone, unloaded or failed to     *)
(* load, leaves nothing held and nothing to be delivered (comment in line  *)
(* 29, lines 62, 77, 86-93 and 100-102).                                   *)
(***************************************************************************)
OnlyResent ==
  /\ ~Line!InProgress
  /\ resend # "none" => ~disabled /\ {"sim", "map"} \subseteq held
  /\ resend = "queued" => "irq" \in held
  /\ pc = "gone" => held = {} /\ Line!Quiet /\ resend = "none"

(***************************************************************************)
(* The pending interrupt of a loaded module is delivered at last: enabling *)
(* the line is enough, no further raise is needed (lines 76-77).           *)
(***************************************************************************)
LatchedIsDelivered == pc = "live" ~> gs_handler_run_count = 1 \/ pc # "live"

(***************************************************************************)
(* insmod ends, loaded or not, and so does rmmod: neither disable_irq()    *)
(* nor any wait of the way out blocks for ever (lines 62, 86-93, 100-102). *)
(***************************************************************************)
LoaderEnds == pc \notin {"live", "gone"} ~> pc \in {"live", "gone"}
=============================================================================
