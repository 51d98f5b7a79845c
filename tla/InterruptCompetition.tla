------------------------ MODULE InterruptCompetition ------------------------
(***************************************************************************)
(* interrupts/concurrency/interrupt_competition.c: one simulated IRQ line, *)
(* raised by a hotplug kthread on every online CPU, a top half that counts *)
(* and stamps under gs_counter_lock and schedules a tasklet, and the       *)
(* tasklet, which counts under the same lock and reports the stamp.        *)
(*                                                                         *)
(* Actors: the insmod/rmmod task (pc), one raiser thread per CPU, the      *)
(* hardirq context and the softirq context of each CPU.  On one CPU a      *)
(* hardirq preempts the softirq, and both preempt the thread; between CPUs *)
(* everything interleaves.  A critical section is two steps, the locked    *)
(* load and the store that ends with the unlock, so that a lost update is  *)
(* a behaviour the lock has to exclude.                                    *)
(***************************************************************************)
EXTENDS Naturals, FiniteSets, Functions

CONSTANTS
  CPUs,            \* the possible CPUs
  Pluggable,       \* those that may go offline and online
  RAISES_PER_CPU   \* how often each CPU raises the line

ASSUME CompetitionAssumption ==
  /\ IsFiniteSet(CPUs)
  /\ Pluggable \subseteq CPUs
  /\ RAISES_PER_CPU \in Nat

VARIABLES
  pc,                    \* where the insmod/rmmod task is
  held,                  \* what it holds of "sim", "map" and "irq"
  online, thread,        \* the CPUs and their raiser threads (Smpboot)
  raised,                \* the CPUs whose raiser has raised and not counted it yet
  pending, work, irq,    \* the simulated line (IrqSim)
  hardPc, hardN, hardVal,  \* the top half on each CPU and its locals n, val
  softPc, softSeq, softVal, \* the bottom half on each CPU and its locals seq, val
  sched,                 \* TASKLET_STATE_SCHED: the CPU the tasklet is queued on
  lock,                  \* the holder of gs_counter_lock, <<CPU, context>>
  gs_raise_count,        \* per-CPU
  gs_shared_count, gs_hardirq_run_count, gs_pending_seq,
  softRuns,              \* history: how many bottom halves counted
  picked                 \* history: the stamp the last bottom half reported

smpVars == <<online, thread, raised>>
lineVars == <<pending, work, irq>>
hardVars == <<hardPc, hardN, hardVal>>
softVars == <<softPc, softSeq, softVal>>
counters == <<gs_shared_count, gs_hardirq_run_count, gs_pending_seq>>
history == <<softRuns, picked>>
vars == <<pc, held, smpVars, lineVars, hardVars, softVars, sched, lock,
          gs_raise_count, counters, history>>

Line == INSTANCE IrqSim
Smp == INSTANCE Smpboot

LoaderPcs == {"create_sim", "create_mapping", "request_irq", "register", "live",
              "unregister", "free_irq", "synchronize_irq", "dispose_mapping",
              "remove_sim", "kill_tasklet", "gone"}

TypeOK ==
  /\ pc \in LoaderPcs
  /\ held \subseteq {"sim", "map", "irq"}
  /\ Smp!SmpTypeOK
  /\ raised \subseteq CPUs
  /\ Line!LineTypeOK
  /\ hardPc \in [CPUs -> {"none", "lock", "store", "schedule"}]
  /\ hardN \in [CPUs -> Nat] /\ hardVal \in [CPUs -> Nat]
  /\ softPc \in [CPUs -> {"none", "lock", "store"}]
  /\ softSeq \in [CPUs -> Nat] /\ softVal \in [CPUs -> Nat]
  /\ sched \subseteq CPUs
  /\ lock \subseteq CPUs \X {"hard", "soft"}
  /\ gs_raise_count \in [CPUs -> 0 .. RAISES_PER_CPU]
  /\ gs_shared_count \in Nat
  /\ gs_hardirq_run_count \in Nat
  /\ gs_pending_seq \in Nat
  /\ softRuns \in Nat
  /\ picked \in Nat

\* The module's static data at insmod; interrupt_competition_module_init() begins.
Init ==
  /\ pc = "create_sim"
  /\ held = {}
  /\ Smp!SmpInit
  /\ raised = {}
  /\ Line!LineInit
  /\ hardPc = [c \in CPUs |-> "none"]
  /\ hardN = [c \in CPUs |-> 0] /\ hardVal = [c \in CPUs |-> 0]
  /\ softPc = [c \in CPUs |-> "none"]
  /\ softSeq = [c \in CPUs |-> 0] /\ softVal = [c \in CPUs |-> 0]
  /\ sched = {}
  /\ lock = {}
  /\ gs_raise_count = [c \in CPUs |-> 0]
  /\ gs_shared_count = 0 /\ gs_hardirq_run_count = 0 /\ gs_pending_seq = 0
  /\ softRuns = 0 /\ picked = 0

-----------------------------------------------------------------------------
(***************************************************************************)
(* The insmod/rmmod task.                                                  *)
(***************************************************************************)

Goto(from, to) == pc = from /\ pc' = to

LoaderFrame == UNCHANGED <<lineVars, hardVars, softVars, sched, lock,
                           gs_raise_count, counters, history>>

\* A call that acquires r, or fails and goes to the label err.
Obtain(from, r, to, err) ==
  /\ \/ Goto(from, to) /\ held' = held \cup {r}
     \/ Goto(from, err) /\ UNCHANGED held
  /\ UNCHANGED smpVars /\ LoaderFrame

\* A call that releases r, and one that changes nothing but where the task is.
GiveUp(from, r, to) ==
  Goto(from, to) /\ held' = held \ {r} /\ UNCHANGED smpVars /\ LoaderFrame
Proceed(from, to) ==
  Goto(from, to) /\ UNCHANGED <<held, smpVars>> /\ LoaderFrame

\* irq_domain_create_sim(), irq_create_mapping() and request_irq().
CreateSim == Obtain("create_sim", "sim", "create_mapping", "kill_tasklet")
CreateMapping == Obtain("create_mapping", "map", "request_irq", "remove_sim")
RequestIrq == Obtain("request_irq", "irq", "register", "dispose_mapping")

\* smpboot_register_percpu_thread() starts the raiser of one more online CPU.
RegisterThread(c) ==
  /\ pc = "register"
  /\ Smp!Spawn(c)
  /\ UNCHANGED <<pc, held, raised>>
  /\ LoaderFrame

(***************************************************************************)
(* smpboot_register_percpu_thread() returns: every online CPU has its      *)
(* raiser, or creating one failed and those already running are stopped    *)
(* before the error is returned and err_free_irq is taken.                 *)
(***************************************************************************)
RegisterReturns ==
  IF \A c \in online : thread[c] # "none"
  THEN Proceed("register", "live")
  ELSE Proceed("register", "unregister")

\* Fault: the exit function forgets smpboot_unregister_percpu_thread().
RmmodThreadsLeft == Proceed("live", "free_irq")

\* rmmod: interrupt_competition_module_exit() begins.
Rmmod == Proceed("live", "unregister")

\* smpboot_unregister_percpu_thread() stops the raiser of one more CPU.
StopThread(c) ==
  /\ pc = "unregister"
  /\ c \notin raised
  /\ Smp!Stop(c)
  /\ UNCHANGED <<pc, held, raised>>
  /\ LoaderFrame

UnregisterReturns == Smp!NoThreads /\ Proceed("unregister", "free_irq")

\* free_irq(): the handler is unlinked, then a running one is waited for.
FreeIrq == GiveUp("free_irq", "irq", "synchronize_irq")
FreeIrqReturns == ~Line!InProgress /\ Proceed("synchronize_irq", "dispose_mapping")

DisposeMapping == GiveUp("dispose_mapping", "map", "remove_sim")

\* irq_domain_remove_sim() waits for the domain's irq_work.
RemoveSim == Line!Quiet /\ GiveUp("remove_sim", "sim", "kill_tasklet")

\* Fault: tasklet_kill() is left out.
KillTaskletMissing == Proceed("kill_tasklet", "gone")

\* tasklet_kill() waits for a queued tasklet to have run; then the module goes.
KillTasklet ==
  /\ sched = {} /\ \A c \in CPUs : softPc[c] = "none"
  /\ Proceed("kill_tasklet", "gone")

-----------------------------------------------------------------------------
(***************************************************************************)
(* The raiser threads and CPU hotplug.                                     *)
(***************************************************************************)

\* Faults: the comparison off by one, either way.
ShouldRunOneMore(c) == gs_raise_count[c] <= RAISES_PER_CPU
ShouldRunOneLess(c) == gs_raise_count[c] + 1 < RAISES_PER_CPU

irq_raiser_should_run(c) == gs_raise_count[c] < RAISES_PER_CPU

\* Neither an interrupt nor the tasklet has preempted the thread on CPU c.
TaskContext(c) == irq[c] = "idle" /\ softPc[c] = "none"

\* run_irq_raiser() on CPU c raises the line; its interrupt may come at once.
RunIrqRaiser(c) ==
  /\ thread[c] = "active" /\ c \notin raised
  /\ TaskContext(c)
  /\ irq_raiser_should_run(c)
  /\ Line!Raise(c)
  /\ raised' = raised \cup {c}
  /\ UNCHANGED <<pc, held, online, thread, hardVars, softVars, sched, lock,
                 gs_raise_count, counters, history>>

Count(c) == gs_raise_count' = [gs_raise_count EXCEPT ![c] = @ + 1]

\* It counts the raise and sleeps until its next step.
CountRaise(c) ==
  /\ c \in raised
  /\ TaskContext(c)
  /\ Count(c)
  /\ raised' = raised \ {c}
  /\ UNCHANGED <<pc, held, online, thread, lineVars, hardVars, softVars, sched, lock,
                 counters, history>>

\* Hotplug waits for smpboot's registration calls, which hold cpus_read_lock().
HotplugAllowed == pc \notin {"register", "unregister"}

\* CPU c goes down, its thread parked; a tasklet queued on it moves to another.
CpuOffline(c) ==
  /\ HotplugAllowed
  /\ TaskContext(c) /\ c \notin work /\ c \notin raised
  /\ Smp!Offline(c)
  /\ IF c \in sched THEN \E d \in online \ {c} : sched' = {d} ELSE UNCHANGED sched
  /\ UNCHANGED <<pc, held, raised, lineVars, hardVars, softVars, lock,
                 gs_raise_count, counters, history>>

\* Fault: an unpark callback of the raiser resets its count.
CpuOnlineResets(c) ==
  /\ HotplugAllowed
  /\ Smp!Online(c, pc = "live")
  /\ gs_raise_count' = [gs_raise_count EXCEPT ![c] = 0]
  /\ UNCHANGED <<pc, held, raised, lineVars, hardVars, softVars, sched, lock,
                 counters, history>>

CpuOnline(c) ==
  /\ HotplugAllowed
  /\ Smp!Online(c, pc = "live")
  /\ UNCHANGED <<pc, held, raised, lineVars, hardVars, softVars, sched, lock,
                 gs_raise_count, counters, history>>

-----------------------------------------------------------------------------
(***************************************************************************)
(* The hardirq context.                                                    *)
(***************************************************************************)

\* Fault: spin_lock() instead of spin_lock_irqsave().
IrqsStayOn(c) == FALSE

\* spin_lock_irqsave(&gs_counter_lock, flags) in the bottom half on CPU c.
IrqsOff(c) == <<c, "soft">> \in lock

\* Fault: no lock is taken.
AcquireNothing(x) == UNCHANGED lock

\* Fault: a path out of the critical section forgets the unlock.
ReleaseNothing(x) == UNCHANGED lock

Acquire(x) == lock = {} /\ lock' = {x}
Release(x) == lock' = lock \ {x}

HardFrame == UNCHANGED <<pc, held, smpVars, softVars, gs_raise_count, history>>

\* The line interrupts CPU c, delivers, drops or is done.
Interrupt(c) ==
  /\ ~IrqsOff(c)
  /\ Line!Interrupt(c)
  /\ HardFrame
  /\ UNCHANGED <<hardVars, sched, lock, counters>>

EnterTopHalf(c) ==
  /\ "irq" \in held
  /\ Line!Deliver(c)
  /\ hardPc' = [hardPc EXCEPT ![c] = "lock"]
  /\ HardFrame
  /\ UNCHANGED <<hardN, hardVal, sched, lock, counters>>

DropRaise(c) ==
  /\ Line!Drop(c, "irq" \in held)
  /\ HardFrame
  /\ UNCHANGED <<hardVars, sched, lock, counters>>

EndIrqWork(c) ==
  /\ Line!Drained(c)
  /\ HardFrame
  /\ UNCHANGED <<hardVars, sched, lock, counters>>

\* interrupt_competition_top_half(): the lock, and the counters loaded.
TopHalfLock(c) ==
  /\ hardPc[c] = "lock"
  /\ Acquire(<<c, "hard">>)
  /\ hardN' = [hardN EXCEPT ![c] = gs_hardirq_run_count + 1]
  /\ hardVal' = [hardVal EXCEPT ![c] = gs_shared_count + 1]
  /\ hardPc' = [hardPc EXCEPT ![c] = "store"]
  /\ HardFrame
  /\ UNCHANGED <<lineVars, sched, counters>>

\* Fault: the stamp is taken before the count is incremented.
StampStale(c) == gs_pending_seq' = gs_hardirq_run_count

Stamp(c) == gs_pending_seq' = hardN[c]

\* The counters stored, the stamp set, the lock released.
TopHalfStamp(c) ==
  /\ hardPc[c] = "store"
  /\ gs_hardirq_run_count' = hardN[c]
  /\ gs_shared_count' = hardVal[c]
  /\ Stamp(c)
  /\ Release(<<c, "hard">>)
  /\ hardPc' = [hardPc EXCEPT ![c] = "schedule"]
  /\ hardN' = [hardN EXCEPT ![c] = 0] /\ hardVal' = [hardVal EXCEPT ![c] = 0]
  /\ HardFrame
  /\ UNCHANGED <<lineVars, sched>>

\* Fault: the top half forgets tasklet_schedule().
TaskletNotScheduled(c) == UNCHANGED sched

\* tasklet_schedule() on CPU c: nothing if the tasklet is already queued.
TaskletSchedule(c) == sched' = IF sched = {} THEN {c} ELSE sched

\* The tasklet is scheduled and the handler returns IRQ_HANDLED.
TopHalfSchedule(c) ==
  /\ hardPc[c] = "schedule"
  /\ TaskletSchedule(c)
  /\ Line!Return(c)
  /\ hardPc' = [hardPc EXCEPT ![c] = "none"]
  /\ HardFrame
  /\ UNCHANGED <<hardN, hardVal, lock, counters>>

-----------------------------------------------------------------------------
(***************************************************************************)
(* The softirq context.                                                    *)
(***************************************************************************)

SoftFrame == UNCHANGED <<pc, held, smpVars, lineVars, hardVars, gs_raise_count>>

(***************************************************************************)
(* TASKLET_SOFTIRQ on CPU c takes the tasklet off its queue, unless it is  *)
(* running on another CPU; SCHED is cleared before the function is called. *)
(***************************************************************************)
EnterBottomHalf(c) ==
  /\ c \in sched \cap online
  /\ irq[c] = "idle"
  /\ \A d \in CPUs : softPc[d] = "none"
  /\ sched' = {}
  /\ softPc' = [softPc EXCEPT ![c] = "lock"]
  /\ SoftFrame
  /\ UNCHANGED <<softSeq, softVal, lock, counters, history>>

\* interrupt_competition_bottom_half(): the lock, the stamp and the counter loaded.
BottomHalfLock(c) ==
  /\ softPc[c] = "lock"
  /\ irq[c] = "idle"
  /\ Acquire(<<c, "soft">>)
  /\ softSeq' = [softSeq EXCEPT ![c] = gs_pending_seq]
  /\ softVal' = [softVal EXCEPT ![c] = gs_shared_count + 1]
  /\ softPc' = [softPc EXCEPT ![c] = "store"]
  /\ SoftFrame
  /\ UNCHANGED <<sched, counters, history>>

\* The counter stored, the lock released, the stamp reported; the tasklet ends.
BottomHalfCount(c) ==
  /\ softPc[c] = "store"
  /\ irq[c] = "idle"
  /\ gs_shared_count' = softVal[c]
  /\ Release(<<c, "soft">>)
  /\ softRuns' = softRuns + 1
  /\ picked' = softSeq[c]
  /\ softPc' = [softPc EXCEPT ![c] = "none"]
  /\ softSeq' = [softSeq EXCEPT ![c] = 0] /\ softVal' = [softVal EXCEPT ![c] = 0]
  /\ SoftFrame
  /\ UNCHANGED <<sched, gs_hardirq_run_count, gs_pending_seq>>

-----------------------------------------------------------------------------
LoaderStep ==
  \/ CreateSim \/ CreateMapping \/ RequestIrq
  \/ \E c \in CPUs : RegisterThread(c)
  \/ RegisterReturns
  \/ \E c \in CPUs : StopThread(c)
  \/ UnregisterReturns
  \/ FreeIrq \/ FreeIrqReturns \/ DisposeMapping \/ RemoveSim \/ KillTasklet

RaiserStep(c) == RunIrqRaiser(c) \/ CountRaise(c)

HardStep(c) ==
  \/ Interrupt(c) \/ EnterTopHalf(c) \/ DropRaise(c) \/ EndIrqWork(c)
  \/ TopHalfLock(c) \/ TopHalfStamp(c) \/ TopHalfSchedule(c)

SoftStep(c) == EnterBottomHalf(c) \/ BottomHalfLock(c) \/ BottomHalfCount(c)

Hotplug(c) == CpuOffline(c) \/ CpuOnline(c)

\* The module is unloaded; nothing of it is left to run.
Unloaded == pc = "gone" /\ UNCHANGED vars

Next ==
  \/ LoaderStep
  \/ Rmmod
  \/ \E c \in CPUs : RaiserStep(c) \/ HardStep(c) \/ SoftStep(c) \/ Hotplug(c)
  \/ Unloaded

Spec == Init /\ [][Next]_vars

(***************************************************************************)
(* The insmod/rmmod task, the threads and the interrupt contexts of every  *)
(* CPU go on; nobody has to unload the module or plug a CPU.               *)
(***************************************************************************)
Fairness ==
  /\ WF_vars(LoaderStep)
  /\ \A c \in CPUs : /\ WF_vars(RaiserStep(c))
                     /\ WF_vars(HardStep(c))
                     /\ WF_vars(SoftStep(c))

FairSpec == Spec /\ Fairness

-----------------------------------------------------------------------------
(***************************************************************************)
(* Safety.                                                                 *)
(***************************************************************************)

(***************************************************************************)
(* The shared counter is gap-free: every top half and every bottom half    *)
(* that ran has added exactly one to it, whatever ran at the same time on  *)
(* whichever CPU (header comment, lines 11-12; lines 56-60 and 70-76).     *)
(***************************************************************************)
CounterGapFree == gs_shared_count = gs_hardirq_run_count + softRuns

(***************************************************************************)
(* No CPU's top half waits for a lock that the bottom half it interrupted  *)
(* on the same CPU holds (spin_lock_irqsave in lines 56 and 70).           *)
(***************************************************************************)
NoSelfDeadlock == \A c \in CPUs : hardPc[c] = "lock" => <<c, "soft">> \notin lock

\* No top half is about to schedule and no bottom half is queued or running.
ChainIdle ==
  /\ sched = {}
  /\ \A c \in CPUs : hardPc[c] # "schedule" /\ softPc[c] = "none"

(***************************************************************************)
(* No hardirq is left without the softirq that picks it up: once the chain *)
(* from top half to tasklet is idle, the last bottom half has reported the *)
(* latest top half, although schedules of a queued tasklet coalesce (lines *)
(* 14-17, 57, 75 and 79).                                                  *)
(***************************************************************************)
NoHardirqUnreported == ChainIdle => picked = gs_hardirq_run_count

(***************************************************************************)
(* Raises merge or drop, they never multiply: the handler has not been     *)
(* entered more often than all CPUs together have raised (lines 7-10),     *)
(* the raises counted so far and those a raiser has yet to count.          *)
(***************************************************************************)
HandlerNeedsRaise ==
  gs_hardirq_run_count + Cardinality({c \in CPUs : hardPc[c] \in {"lock", "store"}})
    <= SumFunction(gs_raise_count) + Cardinality(raised)

(***************************************************************************)
(* When the module's text and data are gone nothing of it can run: no      *)
(* thread, no handler, no irq_work, no tasklet, and nothing is still held, *)
(* after a failed insmod as after rmmod (lines 143-151 and 158-162).       *)
(***************************************************************************)
NoCodeAfterUnload ==
  pc = "gone" =>
    /\ held = {}
    /\ Smp!NoThreads /\ raised = {}
    /\ Line!Quiet
    /\ sched = {}
    /\ \A c \in CPUs : hardPc[c] = "none" /\ softPc[c] = "none"

(***************************************************************************)
(* The line is only ever raised while it is requested, so no raise races   *)
(* with free_irq(), irq_dispose_mapping() or irq_domain_remove_sim(),      *)
(* whatever CPUs come and go (lines 90, 134, 158-161).                     *)
(***************************************************************************)
RaiseOnLiveLine ==
  [][raised' \subseteq raised \/ held = {"sim", "map", "irq"}]_vars

-----------------------------------------------------------------------------
(***************************************************************************)
(* Liveness.                                                               *)
(***************************************************************************)

(***************************************************************************)
(* The n-th hardirq is eventually picked up by a bottom half that reports  *)
(* it or a later one (lines 14-17).                                        *)
(***************************************************************************)
HardirqPickedUp ==
  \A n \in 1 .. Cardinality(CPUs) * RAISES_PER_CPU :
    gs_hardirq_run_count >= n ~> picked >= n

(***************************************************************************)
(* A CPU that stays online raises the line RAISES_PER_CPU times, unless    *)
(* the module is unloaded before (lines 83-95 and 133).                    *)
(***************************************************************************)
EveryCpuRaises ==
  \A c \in CPUs :
    thread[c] = "active" ~> gs_raise_count[c] = RAISES_PER_CPU \/ thread[c] # "active"

(***************************************************************************)
(* rmmod, and the unwinding of a failed insmod, ends: none of its waits is *)
(* for something that cannot happen any more (lines 143-150, 158-162).     *)
(***************************************************************************)
UnloadCompletes == pc \in {"unregister", "free_irq", "dispose_mapping"} ~> pc = "gone"
=============================================================================
