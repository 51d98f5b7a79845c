----------------------------- MODULE SleepDanger -----------------------------
(***************************************************************************)
(* interrupts/danger: what SimIrqSample leaves out of the two danger       *)
(* samples.  Their handler (sleep_in_hardirq_danger) or their tasklet      *)
(* (sleep_in_softirq_danger) reads the knob "danger_enabled" when it runs, *)
(* long after the trigger was written perhaps, and either returns, the     *)
(* safe mock, or sleeps where sleeping is illegal.                         *)
(*                                                                         *)
(* An illegal sleep leaves the kernel in a state the samples say nothing   *)
(* of; the module follows the traces in their header comments, in which    *)
(* the sleeper wakes up and returns.                                       *)
(***************************************************************************)
EXTENDS SimIrqSample

DangerPrograms == {sleep_in_hardirq_danger, sleep_in_softirq_danger}

ASSUME DangerAssumption == Programs \subseteq DangerPrograms

VARIABLES
  gs_debugfs_danger_enabled,
  took,    \* the path the dangerous code has taken: none yet, mock, asleep, woken
  armed    \* history: the knob has been on since the dangerous code was entered

dangerVars == <<gs_debugfs_danger_enabled, took, armed>>
allVars == <<vars, dangerVars>>

DangerTypeOK ==
  /\ TypeOK
  /\ gs_debugfs_danger_enabled \in BOOLEAN
  /\ took \in {"none", "mock", "asleep", "woken"}
  /\ armed \in BOOLEAN

DangerInit ==
  /\ Init
  /\ gs_debugfs_danger_enabled = FALSE /\ took = "none" /\ armed = FALSE

\* The handler or the tasklet that holds the dangerous code is running.
InDanger == IF prog.bottom = "none" THEN Line!InProgress ELSE running

-----------------------------------------------------------------------------
\* A write to "danger_enabled", by a user inside an access to the file.
WriteKnob(u, v) ==
  /\ u \in knobbing
  /\ gs_debugfs_danger_enabled' = v
  /\ armed' = (InDanger /\ (armed \/ v))
  /\ UNCHANGED <<vars, took>>

\* Fault: the test has lost its "!".
ReadsInverted ==
  /\ InDanger /\ took = "none"
  /\ took' = IF gs_debugfs_danger_enabled THEN "mock" ELSE "asleep"
  /\ UNCHANGED <<vars, gs_debugfs_danger_enabled, armed>>

\* READ_ONCE() of the knob decides for the mock or for msleep(100).
ReadKnob ==
  /\ InDanger /\ took = "none"
  /\ took' = IF gs_debugfs_danger_enabled THEN "asleep" ELSE "mock"
  /\ UNCHANGED <<vars, gs_debugfs_danger_enabled, armed>>

Wake ==
  /\ took = "asleep"
  /\ took' = "woken"
  /\ UNCHANGED <<vars, gs_debugfs_danger_enabled, armed>>

(***************************************************************************)
(* What every other step means for the dangerous code: it is entered, it   *)
(* returns, which it does only from the mock or from the sleep, or it goes *)
(* on where it is.                                                         *)
(***************************************************************************)
Alongside ==
  /\ InDanger /\ ~InDanger' => took \in {"mock", "woken"}
  /\ took' = IF InDanger' THEN took ELSE "none"
  /\ armed' = (InDanger' /\ IF InDanger THEN armed ELSE gs_debugfs_danger_enabled)
  /\ UNCHANGED gs_debugfs_danger_enabled

DangerStep == ReadKnob \/ Wake

DangerLoaderStep == LoaderStep /\ Alongside
DangerRmmod == Rmmod /\ Alongside
DangerLineStep(c) == LineStep(c) /\ Alongside
DangerBottomStep == BottomStep /\ Alongside
DangerUserStep(u) == UserStep(u) /\ Alongside

DangerNext ==
  \/ DangerLoaderStep \/ DangerRmmod
  \/ \E c \in CPUs : DangerLineStep(c)
  \/ DangerBottomStep
  \/ \E u \in Users : DangerUserStep(u) \/ \E v \in BOOLEAN : WriteKnob(u, v)
  \/ DangerStep
  \/ Unloaded /\ UNCHANGED dangerVars

DangerSpec == DangerInit /\ [][DangerNext]_allVars

\* As for the other samples; the dangerous code goes on and its sleep is timed.
DangerFairSpec ==
  /\ DangerSpec
  /\ WF_allVars(DangerLoaderStep)
  /\ \A c \in CPUs : WF_allVars(DangerLineStep(c))
  /\ WF_allVars(DangerBottomStep)
  /\ WF_allVars(DangerStep)
  /\ \A u \in Users : WF_allVars(LeaveKnob(u) /\ Alongside)

-----------------------------------------------------------------------------
(***************************************************************************)
(* Properties.                                                             *)
(***************************************************************************)

(***************************************************************************)
(* The illegal path never fires by accident: code that sleeps was armed    *)
(* while it ran or when it was entered, whatever was written to the knob   *)
(* between the trigger and now (sleep_in_hardirq_danger.c:121-122 and 152; *)
(* sleep_in_softirq_danger.c:119-120, 151 and 235).                        *)
(***************************************************************************)
SleepsOnlyArmed == took \in {"asleep", "woken"} => armed

(***************************************************************************)
(* Code that sleeps finds everything when it wakes up: rmmod, begun while  *)
(* it sleeps, waits for it, and only the debugfs files may be gone before  *)
(* (sleep_in_hardirq_danger.c:163 and 244-247; sleep_in_softirq_danger.c:  *)
(* 162 and 254-258).                                                       *)
(***************************************************************************)
SleeperIsWaitedFor ==
  took # "none" =>
    /\ phase # "gone"
    /\ (IF prog.bottom = "none" THEN {"sim", "map", "irq"} ELSE {prog.bottom})
         \subseteq held

(***************************************************************************)
(* A knob that is turned off for good ends the illegal sleeps, triggered   *)
(* before or after (sleep_in_softirq_danger.c:235: "trigger alone is a     *)
(* safe mock").                                                            *)
(***************************************************************************)
DisarmingEndsSleeps ==
  <>[](~gs_debugfs_danger_enabled) => <>[](took # "asleep")
=============================================================================
