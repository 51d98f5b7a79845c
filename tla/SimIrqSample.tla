---------------------------- MODULE SimIrqSample ----------------------------
(***************************************************************************)
(* A sample with one simulated IRQ line, from insmod to the end of rmmod:  *)
(* any of the programs of SamplePrograms, run by the insmod/rmmod task     *)
(* against the line (IrqSim), the handler, the bottom half the handler     *)
(* defers to, and, in the danger samples, users of the two debugfs files.  *)
(*                                                                         *)
(* A resource is held until the call that releases it returns, and such a  *)
(* call is two steps: it takes the resource out of use, then waits for     *)
(* those who still use it.  What the waits are for is kernel behaviour the *)
(* samples rely on; that they are called, and in which order, is theirs.   *)
(***************************************************************************)
EXTENDS SamplePrograms

CONSTANTS
  Programs,   \* the samples, each a record as in SamplePrograms
  CPUs,
  Users       \* who opens the debugfs files of a danger sample

ASSUME ProgramsAssumption == Programs \subseteq AllPrograms

VARIABLES
  prog,       \* the sample being loaded
  phase,      \* init, live, down (exit function or unwinding), gone
  path, at,   \* the calls the insmod/rmmod task makes, and the one it is at
  begun,      \* the release at path[at] has taken its resource out of use
  held,       \* the resources held
  pending, work, irq,   \* the simulated line (IrqSim)
  queued,     \* the bottom half is scheduled, queued or woken
  running,    \* the bottom half runs
  triggering, \* the users that have "trigger" open, each with a module reference
  knobbing,   \* the users inside an access to "danger_enabled"
  served      \* history: an interrupt has been handled, bottom half included

lineVars == <<pending, work, irq>>
bottomVars == <<queued, running, served>>
userVars == <<triggering, knobbing>>
loaderVars == <<prog, phase, path, at, begun, held>>
vars == <<loaderVars, lineVars, bottomVars, userVars>>

Line == INSTANCE IrqSim

TypeOK ==
  /\ prog \in Programs
  /\ phase \in {"init", "live", "down", "gone"}
  /\ at \in Nat /\ (phase \in {"init", "down"} => at \in 1 .. Len(path))
  /\ begun \in BOOLEAN
  /\ held \subseteq Resources(prog)
  /\ Line!LineTypeOK
  /\ queued \in BOOLEAN /\ running \in BOOLEAN /\ served \in BOOLEAN
  /\ triggering \subseteq Users /\ knobbing \subseteq Users

Init ==
  /\ prog \in Programs
  /\ phase = "init" /\ path = prog.init /\ at = 1 /\ begun = FALSE
  /\ held = {}
  /\ Line!LineInit
  /\ queued = FALSE /\ running = FALSE /\ served = FALSE
  /\ triggering = {} /\ knobbing = {}

-----------------------------------------------------------------------------
(***************************************************************************)
(* The insmod/rmmod task.                                                  *)
(***************************************************************************)

\* Resource r is in use: acquired, and its release has not begun.
InUse(r) == r \in held /\ ~(begun /\ phase = "down" /\ path[at] = r)

\* The release of p from now on; the module is gone if nothing is to be released.
Release(p) ==
  /\ path' = p /\ at' = 1
  /\ phase' = IF p = << >> THEN "gone" ELSE "down"

\* A call of the init function succeeds; after the last one the module is live.
InitCall ==
  /\ phase = "init"
  /\ IF at = Len(path)
     THEN phase' = "live" /\ UNCHANGED at
     ELSE at' = at + 1 /\ UNCHANGED phase
  /\ IF path[at] = "raise"
     THEN (\E c \in CPUs : Line!Raise(c)) /\ UNCHANGED held
     ELSE held' = held \cup {path[at]} /\ UNCHANGED lineVars
  /\ UNCHANGED <<prog, path, begun, bottomVars, userVars>>

\* It fails, and what had been acquired is released.
InitFails ==
  /\ phase = "init"
  /\ prog.goto[at] # "never"
  /\ Release(Unwind(prog, at))
  /\ UNCHANGED <<prog, begun, held, lineVars, bottomVars, userVars>>

\* rmmod, which needs the last module reference to have been dropped.
Rmmod ==
  /\ phase = "live"
  /\ triggering = {}
  /\ Release(prog.exit)
  /\ UNCHANGED <<prog, begun, held, lineVars, bottomVars, userVars>>

\* debugfs_remove, free_irq, ...: the resource is taken out of use ...
ReleaseBegins ==
  /\ phase = "down" /\ ~begun
  /\ begun' = TRUE
  /\ UNCHANGED <<prog, phase, path, at, held, lineVars, bottomVars, userVars>>

\* ... and the call returns when nothing uses it any more.
Unused(r) ==
  /\ r = "dir" => triggering = {} /\ knobbing = {}
  /\ r = "irq" => ~Line!InProgress
  /\ r = "sim" => Line!Quiet
  /\ r \in {"tasklet", "workqueue"} \/ (r = "irq" /\ prog.bottom = "thread")
       => ~queued /\ ~running

\* Fault: the exit function does not return after the last release.
ReleaseGoesOn ==
  /\ phase = "down" /\ begun
  /\ Unused(path[at])
  /\ begun' = FALSE
  /\ held' = held \ {path[at]}
  /\ at' = at + 1
  /\ UNCHANGED <<prog, phase, path, lineVars, bottomVars, userVars>>

ReleaseReturns ==
  /\ phase = "down" /\ begun
  /\ Unused(path[at])
  /\ begun' = FALSE
  /\ held' = held \ {path[at]}
  /\ IF at = Len(path)
     THEN phase' = "gone" /\ UNCHANGED at
     ELSE at' = at + 1 /\ UNCHANGED phase
  /\ UNCHANGED <<prog, path, lineVars, bottomVars, userVars>>

-----------------------------------------------------------------------------
(***************************************************************************)
(* The debugfs files of the danger samples.                                *)
(***************************************************************************)

\* simple_open() of "trigger"; its owner field takes a reference to the module,
\* which a module being unloaded refuses.
OpenTrigger(u) ==
  /\ InUse("dir") /\ phase # "down"
  /\ u \notin triggering
  /\ triggering' = triggering \cup {u}
  /\ UNCHANGED <<loaderVars, lineVars, bottomVars, knobbing>>

\* trigger_write() on CPU c.
trigger_write(u, c) ==
  /\ u \in triggering
  /\ Line!Raise(c)
  /\ UNCHANGED <<loaderVars, bottomVars, userVars>>

CloseTrigger(u) ==
  /\ u \in triggering
  /\ triggering' = triggering \ {u}
  /\ UNCHANGED <<loaderVars, lineVars, bottomVars, knobbing>>

\* "danger_enabled" is debugfs' own bool file: it takes no module reference.
EnterKnob(u) ==
  /\ InUse("dir")
  /\ u \notin knobbing
  /\ knobbing' = knobbing \cup {u}
  /\ UNCHANGED <<loaderVars, lineVars, bottomVars, triggering>>

LeaveKnob(u) ==
  /\ u \in knobbing
  /\ knobbing' = knobbing \ {u}
  /\ UNCHANGED <<loaderVars, lineVars, bottomVars, triggering>>

-----------------------------------------------------------------------------
(***************************************************************************)
(* The line, the top half and the bottom half.                             *)
(***************************************************************************)

Interrupt(c) ==
  /\ Line!Interrupt(c)
  /\ UNCHANGED <<loaderVars, bottomVars, userVars>>

EnterTopHalf(c) ==
  /\ InUse("irq")
  /\ Line!Deliver(c)
  /\ UNCHANGED <<loaderVars, bottomVars, userVars>>

DropRaise(c) ==
  /\ Line!Drop(c, InUse("irq"))
  /\ UNCHANGED <<loaderVars, bottomVars, userVars>>

EndIrqWork(c) ==
  /\ Line!Drained(c)
  /\ UNCHANGED <<loaderVars, bottomVars, userVars>>

\* Fault: the top half returns without deferring anything.
TopHalfForgets(c) ==
  /\ Line!Return(c)
  /\ IF prog.bottom = "none" THEN served' = TRUE ELSE UNCHANGED served
  /\ UNCHANGED <<loaderVars, userVars, queued, running>>

\* The top half schedules its bottom half, if it has one, and returns.
TopHalf(c) ==
  /\ Line!Return(c)
  /\ IF prog.bottom = "none"
     THEN served' = TRUE /\ UNCHANGED queued
     ELSE queued' = TRUE /\ UNCHANGED served
  /\ UNCHANGED <<loaderVars, userVars, running>>

\* The bottom half is taken off its queue before it runs, and never runs twice
\* at a time.
BottomHalfBegins ==
  /\ queued /\ ~running
  /\ queued' = FALSE /\ running' = TRUE
  /\ UNCHANGED <<loaderVars, lineVars, userVars, served>>

\* Fault: the bottom half schedules itself again.
BottomHalfRequeues ==
  /\ running
  /\ running' = FALSE /\ queued' = TRUE /\ served' = TRUE
  /\ UNCHANGED <<loaderVars, lineVars, userVars>>

BottomHalfEnds ==
  /\ running
  /\ running' = FALSE /\ served' = TRUE
  /\ UNCHANGED <<loaderVars, lineVars, userVars, queued>>

-----------------------------------------------------------------------------
LoaderStep == InitCall \/ InitFails \/ ReleaseBegins \/ ReleaseReturns

LineStep(c) ==
  Interrupt(c) \/ EnterTopHalf(c) \/ DropRaise(c) \/ EndIrqWork(c) \/ TopHalf(c)

BottomStep == BottomHalfBegins \/ BottomHalfEnds

UserStep(u) ==
  \/ OpenTrigger(u) \/ CloseTrigger(u)
  \/ EnterKnob(u) \/ LeaveKnob(u)
  \/ \E c \in CPUs : trigger_write(u, c)

\* The module is unloaded; nothing of it is left to run.
Unloaded == phase = "gone" /\ UNCHANGED vars

Next ==
  \/ LoaderStep \/ Rmmod
  \/ \E c \in CPUs : LineStep(c)
  \/ BottomStep
  \/ \E u \in Users : UserStep(u)
  \/ Unloaded

Spec == Init /\ [][Next]_vars

\* The kernel's contexts and the loader go on and an access to a file ends;
\* nobody has to open a file or unload the module.
Fairness ==
  /\ WF_vars(LoaderStep)
  /\ \A c \in CPUs : WF_vars(LineStep(c))
  /\ WF_vars(BottomStep)
  /\ \A u \in Users : WF_vars(LeaveKnob(u))

FairSpec == Spec /\ Fairness

-----------------------------------------------------------------------------
(***************************************************************************)
(* Properties.                                                             *)
(***************************************************************************)

(***************************************************************************)
(* Resources are released in the reverse order of their acquisition: none  *)
(* is ever held without all that were acquired before it, in the exit      *)
(* function as in every way out of a failed init (tasklet.c:85-93 and      *)
(* 96-105, and the same functions of the other samples).                   *)
(***************************************************************************)
BuiltOnHeld ==
  \A j \in DOMAIN prog.init : prog.init[j] \in held =>
    \A i \in 1 .. j - 1 : prog.init[i] \in held

(***************************************************************************)
(* Whatever still uses a resource finds it: the irq_work its domain, the   *)
(* handler its line, the bottom half its tasklet, workqueue or IRQ thread, *)
(* a debugfs user the directory.  So a top half never queues on a          *)
(* destroyed workqueue, and once everything is released, after rmmod as    *)
(* after a failed insmod, nothing of the module can run.                   *)
(***************************************************************************)
NoUseAfterRelease ==
  /\ ~Line!Quiet => "sim" \in held
  /\ Line!InProgress => {"irq", prog.bottom} \cap Resources(prog) \subseteq held
  /\ queued \/ running =>
       (IF prog.bottom = "thread" THEN "irq" ELSE prog.bottom) \in held
  /\ triggering \cup knobbing # {} => "dir" \in held

\* A module that is gone has released everything: no way out of init leaks.
NothingLeaks == phase = "gone" => held = {}

(***************************************************************************)
(* The line is raised only while it is requested and its release has not   *)
(* begun, whoever writes "trigger" and whenever (tasklet.c:76;             *)
(* sleep_in_softirq_danger.c:178, 233 and 254).                            *)
(***************************************************************************)
RaiseOnLiveLine ==
  [][(pending' /\ ~pending) \/ (work = {} /\ work' # {})
       => {"sim", "map"} \subseteq held /\ InUse("irq")]_vars

(***************************************************************************)
(* Loading a sample shows what it is for: if it stays loaded, its          *)
(* interrupt is handled, bottom half included (tasklet.c:76, 43 and 35).   *)
(* A danger sample waits for its trigger instead.                          *)
(***************************************************************************)
LoadingServesIrq ==
  phase = "live" /\ "dir" \notin Resources(prog) ~> served \/ phase # "live"

\* rmmod, and the unwinding of a failed insmod, ends (no wait is in vain).
UnloadCompletes == phase = "down" ~> phase = "gone"
=============================================================================
