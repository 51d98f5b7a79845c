----------------------- MODULE PercpuParallel_proofs -----------------------
(***************************************************************************)
(* percpu_parallel for any CPUs, any hotplug and any number of prints: a   *)
(* counter is always one ahead of what its CPU has printed last, or two    *)
(* when the increment is done and the print is not, and a thread in        *)
(* between keeps its CPU online and the module loaded.                     *)
(***************************************************************************)
EXTENDS PercpuParallel, TLAPS

Loaded == pc \in {"register", "live", "unregister"}

\* A thread exists only while the module is loaded, and runs on its online CPU.
ThreadInv ==
  \A c \in CPUs :
    /\ thread[c] # "none" => Loaded
    /\ thread[c] = "active" => c \in online

\* A counter and the number its CPU has printed last.
CountInv ==
  \A c \in CPUs :
    /\ pc = "init_counts" => shown[c] = First(c) - 1
    /\ pc # "init_counts" =>
         gs_count[c] = shown[c] + (IF step[c] = "print" THEN 2 ELSE 1)
    /\ step[c] = "inc" => gs_count[c] < First(c) + PRINT_BOUND

IInv == TypeOK /\ ThreadInv /\ StepsOnOwnCpu /\ CountInv

LEMMA FirstType == \A c \in CPUs : First(c) \in Nat /\ First(c) > 0
BY PercpuAssumption DEF PercpuAssumption, First

LEMMA InitIInv == Init => IInv
<1> SUFFICES ASSUME Init PROVE IInv
  OBVIOUS
<1>1. TypeOK
  BY FirstType DEF Init, TypeOK, Smp!SmpInit, Smp!SmpTypeOK
<1>2. ThreadInv /\ StepsOnOwnCpu
  BY DEF Init, ThreadInv, StepsOnOwnCpu, Smp!SmpInit
<1>3. CountInv
  BY FirstType DEF Init, CountInv
<1> QED
  BY <1>1, <1>2, <1>3 DEF IInv

LEMMA LoaderKeeps ==
  ASSUME IInv, LoaderStep \/ Rmmod
  PROVE  IInv'
<1> USE FirstType, PercpuAssumption DEF PercpuAssumption
<1>1. CASE InitCounts
  <2>1. TypeOK'
    BY <1>1 DEF InitCounts, IInv, TypeOK, Smp!SmpTypeOK, smpVars, threadVars
  <2>2. ThreadInv' /\ StepsOnOwnCpu' /\ CountInv'
    BY <1>1 DEF InitCounts, IInv, TypeOK, ThreadInv, StepsOnOwnCpu, CountInv, Loaded,
                smpVars, threadVars
  <2> QED
    BY <2>1, <2>2 DEF IInv
<1>2. ASSUME NEW from, NEW to, Proceed(from, to), from # "init_counts",
             to \in {"live", "unregister", "gone"},
             to = "gone" => Smp!NoThreads, from # "gone"
      PROVE  IInv'
  <2>1. TypeOK'
    BY <1>2 DEF Proceed, IInv, TypeOK, Smp!SmpTypeOK, smpVars, threadVars
  <2>2. ThreadInv' /\ StepsOnOwnCpu' /\ CountInv'
    BY <1>2 DEF Proceed, IInv, TypeOK, ThreadInv, StepsOnOwnCpu, CountInv, Loaded,
                smpVars, threadVars, Smp!NoThreads
  <2> QED
    BY <2>1, <2>2 DEF IInv
<1>3. CASE RegisterReturns
  BY <1>2, <1>3 DEF RegisterReturns
<1>4. CASE Rmmod
  BY <1>2, <1>4 DEF Rmmod
<1>5. CASE UnregisterReturns
  BY <1>2, <1>5 DEF UnregisterReturns
<1>6. ASSUME NEW c \in CPUs, RegisterThread(c) \/ StopThread(c)
      PROVE  IInv'
  <2>1. TypeOK'
    BY <1>6 DEF RegisterThread, StopThread, Smp!Spawn, Smp!Stop, IInv, TypeOK,
                Smp!SmpTypeOK, threadVars
  <2>2. ThreadInv' /\ StepsOnOwnCpu' /\ CountInv'
    BY <1>6 DEF RegisterThread, StopThread, Smp!Spawn, Smp!Stop, IInv, TypeOK,
                Smp!SmpTypeOK, ThreadInv, StepsOnOwnCpu, CountInv, Loaded, threadVars
  <2> QED
    BY <2>1, <2>2 DEF IInv
<1> QED
  BY <1>1, <1>3, <1>4, <1>5, <1>6 DEF LoaderStep

LEMMA ThreadKeeps ==
  ASSUME IInv, NEW c \in CPUs, ThreadStep(c)
  PROVE  IInv'
<1> USE FirstType, PercpuAssumption DEF PercpuAssumption
<1>1. CASE ReadCount(c)
  <2>1. TypeOK'
    BY <1>1 DEF ReadCount, IInv, TypeOK, Smp!SmpTypeOK, smpVars
  <2>2. ThreadInv' /\ StepsOnOwnCpu' /\ CountInv'
    BY <1>1 DEF ReadCount, IInv, TypeOK, Smp!SmpTypeOK, ThreadInv, StepsOnOwnCpu,
                CountInv, Loaded, smpVars
  <2> QED
    BY <2>1, <2>2 DEF IInv
<1>2. CASE IncCount(c)
  <2>1. pc # "init_counts" /\ gs_count[c] \in Nat /\ gs_count[c] >= First(c)
        /\ gs_count[c] < First(c) + PRINT_BOUND
    BY <1>2 DEF IncCount, IInv, TypeOK, ThreadInv, StepsOnOwnCpu, CountInv, Loaded
  <2>2. TypeOK'
    BY <1>2, <2>1 DEF IncCount, IInv, TypeOK, Smp!SmpTypeOK, smpVars
  <2>3. ThreadInv' /\ StepsOnOwnCpu' /\ CountInv'
    BY <1>2, <2>1 DEF IncCount, IInv, TypeOK, Smp!SmpTypeOK, ThreadInv, StepsOnOwnCpu,
                CountInv, Loaded, smpVars
  <2> QED
    BY <2>2, <2>3 DEF IInv
<1>3. CASE PrintCount(c)
  <2>1. TypeOK'
    BY <1>3 DEF PrintCount, IInv, TypeOK, Smp!SmpTypeOK, smpVars
  <2>2. ThreadInv' /\ StepsOnOwnCpu' /\ CountInv'
    BY <1>3 DEF PrintCount, IInv, TypeOK, Smp!SmpTypeOK, ThreadInv, StepsOnOwnCpu,
                CountInv, Loaded, smpVars
  <2> QED
    BY <2>1, <2>2 DEF IInv
<1> QED
  BY <1>1, <1>2, <1>3 DEF ThreadStep

LEMMA HotplugKeeps ==
  ASSUME IInv, NEW c \in CPUs, CpuOffline(c) \/ CpuOnline(c)
  PROVE  IInv'
<1>1. TypeOK'
  BY DEF CpuOffline, CpuOnline, Smp!Offline, Smp!Online, IInv, TypeOK, Smp!SmpTypeOK,
         threadVars
<1>2. ThreadInv'
  BY DEF CpuOffline, CpuOnline, Smp!Offline, Smp!Online, IInv, TypeOK, Smp!SmpTypeOK,
         ThreadInv, Loaded
<1>3. StepsOnOwnCpu' /\ CountInv'
  BY DEF CpuOffline, CpuOnline, Smp!Offline, Smp!Online, IInv, TypeOK, Smp!SmpTypeOK,
         StepsOnOwnCpu, CountInv, threadVars
<1> QED
  BY <1>1, <1>2, <1>3 DEF IInv

LEMMA NextIInv ==
  ASSUME IInv, [Next]_vars
  PROVE  IInv'
<1>1. CASE UNCHANGED vars
  BY <1>1 DEF vars, smpVars, threadVars, IInv, TypeOK, Smp!SmpTypeOK, ThreadInv,
              StepsOnOwnCpu, CountInv, Loaded
<1> QED
  BY <1>1, LoaderKeeps, ThreadKeeps, HotplugKeeps DEF Next, Unloaded

LEMMA SpecIInv == Spec => []IInv
BY InitIInv, NextIInv, PTL DEF Spec

-----------------------------------------------------------------------------
(***************************************************************************)
(* The variables keep their types, and no counter passes the bound.        *)
(***************************************************************************)
THEOREM PercpuTypes == Spec => []TypeOK
<1>1. IInv => TypeOK
  BY DEF IInv
<1> QED
  BY <1>1, SpecIInv, PTL

(***************************************************************************)
(* A thread between its read and its print keeps its CPU online and the    *)
(* module loaded, and nobody else touches its counter (lines 20-23).       *)
(***************************************************************************)
THEOREM AlwaysOnOwnCpu == Spec => []StepsOnOwnCpu
<1>1. IInv => StepsOnOwnCpu
  BY DEF IInv
<1> QED
  BY <1>1, SpecIInv, PTL

LEMMA StepIsLogged ==
  ASSUME IInv, [Next]_vars
  PROVE  [Log!Next]_(Log!vars)
<1> USE DEF Log!vars
<1>1. CASE InitCounts
  BY <1>1 DEF InitCounts, Log!Next, Log!Open
<1>2. CASE RegisterReturns \/ Rmmod
  BY <1>2 DEF RegisterReturns, Rmmod, Proceed
<1>3. CASE UnregisterReturns
  BY <1>3 DEF UnregisterReturns, Proceed, Log!Next, Log!Shut
<1>4. ASSUME NEW c \in CPUs, RegisterThread(c) \/ StopThread(c) \/ CpuOffline(c)
             \/ CpuOnline(c) \/ ReadCount(c) \/ IncCount(c)
      PROVE  UNCHANGED Log!vars
  BY <1>4 DEF RegisterThread, StopThread, CpuOffline, CpuOnline, ReadCount, IncCount
<1>5. ASSUME NEW c \in CPUs, PrintCount(c)
      PROVE  Log!PrintNumber(c)
  <2>1. Loaded /\ step[c] = "print" /\ gs_count[c] = shown[c] + 2
        /\ gs_count[c] = val[c] + 1
    BY <1>5 DEF PrintCount, IInv, ThreadInv, StepsOnOwnCpu, CountInv, Loaded
  <2>2. val[c] = shown[c] + 1
    BY <2>1 DEF IInv, TypeOK
  <2> QED
    BY <1>5, <2>1, <2>2 DEF PrintCount, Log!PrintNumber, Loaded
<1>6. CASE UNCHANGED vars
  BY <1>6 DEF vars
<1> QED
  BY <1>1, <1>2, <1>3, <1>4, <1>5, <1>6
     DEF Next, LoaderStep, ThreadStep, Unloaded, Log!Next

(***************************************************************************)
(* percpu_parallel implements the log of numbers: every CPU prints         *)
(* consecutive ones from (cpu + 1) * 100, whatever CPUs come and go        *)
(* (lines 18-24 and 50).                                                   *)
(***************************************************************************)
THEOREM ImplementsNumberLog == Spec => PrintsInOrder
<1>1. Init => Log!Init
  BY DEF Init, Log!Init
<1> QED
  BY <1>1, StepIsLogged, SpecIInv, PTL DEF Spec, PrintsInOrder, Log!Spec
=============================================================================
