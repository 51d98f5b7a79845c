--------------------------- MODULE PercpuParallel ---------------------------
(***************************************************************************)
(* smp/percpu/percpu_parallel.c: a counter per CPU and a hotplug thread    *)
(* per CPU (Smpboot) that reads, increments and prints it, once a second.  *)
(* No lock and no atomic operation is used: a counter belongs to the       *)
(* thread of its CPU, through any hotplug.                                 *)
(***************************************************************************)
EXTENDS Naturals

CONSTANTS
  CPUs,          \* the possible CPUs, by number
  Pluggable,     \* those that may go offline and online
  PRINT_BOUND    \* a bound of the model: how many numbers each CPU prints

ASSUME PercpuAssumption ==
  CPUs \subseteq Nat /\ Pluggable \subseteq CPUs /\ PRINT_BOUND \in Nat

VARIABLES
  pc,                \* where the insmod/rmmod task is
  online, thread,    \* the CPUs and their threads (Smpboot)
  step, val,         \* what the thread of each CPU does next, and its local val
  gs_count,          \* per-CPU
  shown              \* history: the last number printed for each CPU

smpVars == <<online, thread>>
threadVars == <<step, val>>
vars == <<pc, smpVars, threadVars, gs_count, shown>>

Smp == INSTANCE Smpboot

First(c) == (c + 1) * 100

TypeOK ==
  /\ pc \in {"init_counts", "register", "live", "unregister", "gone"}
  /\ Smp!SmpTypeOK
  /\ step \in [CPUs -> {"idle", "inc", "print"}]
  /\ val \in [CPUs -> Nat] /\ gs_count \in [CPUs -> Nat] /\ shown \in [CPUs -> Nat]
  /\ pc # "init_counts" =>
       \A c \in CPUs : gs_count[c] \in First(c) .. First(c) + PRINT_BOUND

Init ==
  /\ pc = "init_counts"
  /\ Smp!SmpInit
  /\ step = [c \in CPUs |-> "idle"] /\ val = [c \in CPUs |-> 0]
  /\ gs_count = [c \in CPUs |-> 0]
  /\ shown = [c \in CPUs |-> First(c) - 1]

-----------------------------------------------------------------------------
(***************************************************************************)
(* The insmod/rmmod task.                                                  *)
(***************************************************************************)

Proceed(from, to) ==
  /\ pc = from /\ pc' = to
  /\ UNCHANGED <<smpVars, threadVars, gs_count, shown>>

\* Fault: for_each_online_cpu() instead of for_each_possible_cpu().
InitOnlineCounts ==
  /\ pc = "init_counts" /\ pc' = "register"
  /\ gs_count' = [c \in CPUs |-> IF c \in online THEN First(c) ELSE 0]
  /\ UNCHANGED <<smpVars, threadVars, shown>>

InitCounts ==
  /\ pc = "init_counts" /\ pc' = "register"
  /\ gs_count' = [c \in CPUs |-> First(c)]
  /\ UNCHANGED <<smpVars, threadVars, shown>>

\* smpboot_register_percpu_thread() starts the thread of one more online CPU.
RegisterThread(c) ==
  /\ pc = "register"
  /\ Smp!Spawn(c)
  /\ UNCHANGED <<pc, threadVars, gs_count, shown>>

\* It returns, or fails after stopping the threads it has started.
RegisterReturns ==
  Proceed("register",
          IF \A c \in online : thread[c] # "none" THEN "live" ELSE "unregister")

\* Fault: the exit function does nothing.
UnregisterForgotten == Proceed("live", "gone")

Rmmod == Proceed("live", "unregister")

\* smpboot_unregister_percpu_thread(): one more thread has ended.
StopThread(c) ==
  /\ pc = "unregister"
  /\ step[c] = "idle"
  /\ Smp!Stop(c)
  /\ UNCHANGED <<pc, threadVars, gs_count, shown>>

UnregisterReturns == Smp!NoThreads /\ Proceed("unregister", "gone")

-----------------------------------------------------------------------------
(***************************************************************************)
(* The threads: smpboot's loop asks percpu_parallel_should_run() and calls *)
(* run_percpu_parallel(); parking and stopping come between two calls.     *)
(***************************************************************************)

\* Fault: it returns 0.
ShouldNotRun(c) == FALSE

percpu_parallel_should_run(c) == TRUE

\* this_cpu_read(); no more than PRINT_BOUND numbers are looked at.
ReadCount(c) ==
  /\ thread[c] = "active" /\ step[c] = "idle"
  /\ percpu_parallel_should_run(c)
  /\ gs_count[c] < First(c) + PRINT_BOUND
  /\ val' = [val EXCEPT ![c] = gs_count[c]]
  /\ step' = [step EXCEPT ![c] = "inc"]
  /\ UNCHANGED <<pc, smpVars, gs_count, shown>>

\* this_cpu_inc().
IncCount(c) ==
  /\ step[c] = "inc"
  /\ gs_count' = [gs_count EXCEPT ![c] = @ + 1]
  /\ step' = [step EXCEPT ![c] = "print"]
  /\ UNCHANGED <<pc, smpVars, val, shown>>

\* The number is printed and the thread sleeps for INTERVAL_MS.
PrintCount(c) ==
  /\ step[c] = "print"
  /\ shown' = [shown EXCEPT ![c] = val[c]]
  /\ val' = [val EXCEPT ![c] = 0]
  /\ step' = [step EXCEPT ![c] = "idle"]
  /\ UNCHANGED <<pc, smpVars, gs_count>>

\* smpboot's calls exclude hotplug; a thread is parked between two of its calls.
HotplugAllowed == pc \notin {"register", "unregister"}

CpuOffline(c) ==
  /\ HotplugAllowed /\ step[c] = "idle"
  /\ Smp!Offline(c)
  /\ UNCHANGED <<pc, threadVars, gs_count, shown>>

CpuOnline(c) ==
  /\ HotplugAllowed
  /\ Smp!Online(c, pc = "live")
  /\ UNCHANGED <<pc, threadVars, gs_count, shown>>

-----------------------------------------------------------------------------
LoaderStep ==
  \/ InitCounts \/ RegisterReturns \/ UnregisterReturns
  \/ \E c \in CPUs : RegisterThread(c) \/ StopThread(c)

ThreadStep(c) == ReadCount(c) \/ IncCount(c) \/ PrintCount(c)

\* The module is unloaded; nothing of it is left to run.
Unloaded == pc = "gone" /\ UNCHANGED vars

Next ==
  \/ LoaderStep \/ Rmmod
  \/ \E c \in CPUs : ThreadStep(c) \/ CpuOffline(c) \/ CpuOnline(c)
  \/ Unloaded

Spec == Init /\ [][Next]_vars

\* The loader and the threads that are not parked go on.
FairSpec == Spec /\ WF_vars(LoaderStep) /\ \A c \in CPUs : WF_vars(ThreadStep(c))

-----------------------------------------------------------------------------
(***************************************************************************)
(* Properties.                                                             *)
(***************************************************************************)

Log == INSTANCE NumberLog
  WITH phase <- CASE pc = "init_counts" -> "closed"
                  [] pc = "gone"        -> "shut"
                  [] OTHER              -> "open"

(***************************************************************************)
(* Every CPU prints consecutive numbers, from (cpu + 1) * 100: none is     *)
(* printed twice, none is skipped, whatever threads are parked, stopped or *)
(* never started, and none after the module is unloaded (lines 18-24, 50   *)
(* and 61).                                                                *)
(***************************************************************************)
PrintsInOrder == Log!Spec

(***************************************************************************)
(* The counter a thread works on is its own from the read to the print: no *)
(* CPU leaves its thread, and no module leaves its threads, in between     *)
(* (lines 20-23, 53 and 61).                                               *)
(***************************************************************************)
StepsOnOwnCpu ==
  \A c \in CPUs : step[c] # "idle" =>
    /\ pc # "gone" /\ c \in online
    /\ thread[c] = "active"
    /\ gs_count[c] = IF step[c] = "inc" THEN val[c] ELSE val[c] + 1

(***************************************************************************)
(* A CPU that stays online goes on printing (lines 26-30 and 34-35).       *)
(***************************************************************************)
OnlineCpuPrints ==
  \A c \in CPUs : \A n \in 0 .. PRINT_BOUND - 1 :
    thread[c] = "active" /\ shown[c] = First(c) - 1 + n
      ~> shown[c] # First(c) - 1 + n \/ thread[c] # "active"
=============================================================================
