------------------------ MODULE SoftirqSamples_proofs ------------------------
(***************************************************************************)
(* timer_softirq and net_rx_softirq for any CPUs, any width of the         *)
(* counters and any sampling period that divides their range.  Neither     *)
(* module touches the points the other one's callback is at, so that each  *)
(* has an invariant of its own.                                            *)
(***************************************************************************)
EXTENDS SoftirqSamples, Integers, TLAPS

\* The callback runs on one CPU at most, for an armed timer or a loaded module.
TimerInv ==
  /\ \A c, d \in CPUs :
       serving[c] \in TimerPoints /\ serving[d] \in TimerPoints => c = d
  /\ timerPc = "arm" => ~armed /\ Nowhere(TimerPoints)
  /\ shut <=> timerPc \in {"wait", "gone"}
  /\ OneTimer

\* The hook is entered only while it is linked, and left before rmmod returns.
HookInv ==
  /\ linked <=> hookPc = "live"
  /\ ~Nowhere(HookPoints) => hookPc \in {"live", "wait"}

\* The packets numbered since the last sample, read off the counter.
GapInv == gs_seen_count % SAMPLE_EVERY = (IF gap = SAMPLE_EVERY - 1 THEN 0 ELSE gap + 1)

IInv == TypeOK /\ TimerInv /\ HookInv /\ GapInv

-----------------------------------------------------------------------------
(***************************************************************************)
(* Remainders.                                                             *)
(***************************************************************************)

LEMMA Division ==
  ASSUME NEW n \in Nat \ {0}, NEW x \in Nat
  PROVE  /\ x % n \in 0 .. n - 1
         /\ x = n * (x \div n) + (x % n)
         /\ x \div n \in Int
<1>1. x % n \in 0 .. n - 1
  OBVIOUS
<1>2. x = n * (x \div n) + (x % n)
  OBVIOUS
<1>3. x \div n \in Int
  OBVIOUS
<1> QED
  BY <1>1, <1>2, <1>3

LEMMA DivisionUnique ==
  ASSUME NEW n \in Nat \ {0}, NEW p \in Int, NEW q \in Int,
         NEW r \in 0 .. n - 1, NEW s \in 0 .. n - 1,
         n * q + r = n * p + s
  PROVE  r = s
OBVIOUS

LEMMA NextRemainder ==
  ASSUME NEW n \in Nat \ {0}, NEW x \in Nat
  PROVE  (x + 1) % n = IF x % n = n - 1 THEN 0 ELSE (x % n) + 1
<1> DEFINE q == x \div n  r == x % n  p == (x + 1) \div n  s == (x + 1) % n
<1>1. q \in Int /\ r \in 0 .. n - 1 /\ x = n * q + r
  BY Division
<1>2. p \in Int /\ s \in 0 .. n - 1 /\ x + 1 = n * p + s
  BY Division
<1> SUFFICES s = IF r = n - 1 THEN 0 ELSE r + 1
  OBVIOUS
<1> HIDE DEF q, r, p, s
<1>3. n * q \in Int /\ n * p \in Int /\ n * (q + 1) = n * q + n
  BY <1>1, <1>2
<1>4. CASE r = n - 1
  <2>1. n * (q + 1) + 0 = n * p + s
    BY <1>1, <1>2, <1>3, <1>4
  <2> QED
    BY <2>1, <1>1, <1>2, <1>4, DivisionUnique
<1>5. CASE r # n - 1
  <2>1. n * q + (r + 1) = n * p + s
    BY <1>1, <1>2, <1>3
  <2> QED
    BY <2>1, <1>1, <1>2, <1>5, DivisionUnique
<1> QED
  BY <1>4, <1>5

LEMMA IncrementType == \A x \in UnsignedLongs : Increment(x) \in UnsignedLongs
BY WidthAssumption DEF WidthAssumption, UnsignedLongs, Increment

\* The wrap of the counter does not disturb its remainder.
LEMMA IncrementRemainder ==
  ASSUME NEW x \in UnsignedLongs
  PROVE  Increment(x) % SAMPLE_EVERY =
           IF x % SAMPLE_EVERY = SAMPLE_EVERY - 1 THEN 0 ELSE (x % SAMPLE_EVERY) + 1
<1> USE WidthAssumption, SampleAssumption
    DEF WidthAssumption, SampleAssumption, UnsignedLongs
<1>1. (x + 1) % SAMPLE_EVERY =
        IF x % SAMPLE_EVERY = SAMPLE_EVERY - 1 THEN 0 ELSE (x % SAMPLE_EVERY) + 1
  <2>1. SAMPLE_EVERY \in Nat \ {0} /\ x \in Nat
    OBVIOUS
  <2> QED
    BY ONLY <2>1, NextRemainder
<1>2. CASE x = ULONG_MAX
  <2>1. Increment(x) = 0
    BY <1>2 DEF Increment
  <2>2. 0 % SAMPLE_EVERY = 0
    OBVIOUS
  <2> QED
    BY <1>1, <1>2, <2>1, <2>2
<1>3. CASE x # ULONG_MAX
  <2>1. Increment(x) = x + 1
    BY <1>3 DEF Increment
  <2> QED
    BY <1>1, <2>1
<1> QED
  BY <1>2, <1>3

-----------------------------------------------------------------------------
(***************************************************************************)
(* The invariant.                                                          *)
(***************************************************************************)

LEMMA InitIInv == Init => IInv
<1> SUFFICES ASSUME Init PROVE IInv
  OBVIOUS
<1> USE WidthAssumption, SampleAssumption
    DEF WidthAssumption, SampleAssumption, Init, SoftirqInit, TimerInit, HookInit
<1>1. TypeOK
  <2>1. 0 \in UnsignedLongs /\ SAMPLE_EVERY - 1 \in 0 .. SAMPLE_EVERY - 1
    BY DEF UnsignedLongs
  <2>2. TimerTypeOK /\ HookTypeOK
    BY <2>1 DEF TimerTypeOK, HookTypeOK
  <2> QED
    BY <2>2 DEF TypeOK
<1>2. TimerInv
  BY DEF TimerInv, OneTimer, Nowhere, TimerPoints
<1>3. HookInv
  BY DEF HookInv, Nowhere, HookPoints
<1>4. GapInv
  BY DEF GapInv
<1> QED
  BY <1>1, <1>2, <1>3, <1>4 DEF IInv

LEMMA TimerKeeps ==
  ASSUME IInv, TimerNext, UNCHANGED hookVars
  PROVE  IInv'
<1> USE DEF IInv, TimerLoaderStep, ArmTimer, ShutdownReturns, TimerRmmod, hookVars
<1>1. CASE TimerLoaderStep \/ TimerRmmod
  <2>1. TypeOK'
    BY <1>1 DEF TypeOK, TimerTypeOK, HookTypeOK
  <2>2. TimerInv'
    BY <1>1 DEF TimerInv, OneTimer, Nowhere, TimerPoints
  <2>3. HookInv' /\ GapInv'
    BY <1>1 DEF HookInv, GapInv, Nowhere
  <2> QED
    BY <2>1, <2>2, <2>3
<1>2. ASSUME NEW c \in CPUs, TimerFires(c) \/ TimerCallback(c)
      PROVE  IInv'
  <2> USE <1>2 DEF TimerFires, TimerCallback, CountTick, Rearm, TimerReturns,
                   Advance, timerVars
  <2>1. TypeOK'
    BY IncrementType DEF TypeOK, TimerTypeOK, HookTypeOK, TimerPoints
  <2>2. TimerInv'
    <3> USE DEF TypeOK
    <3>1. CASE TimerFires(c)
      BY <3>1 DEF TimerInv, OneTimer, Nowhere, TimerPoints
    <3>2. CASE CountTick(c)
      BY <3>2 DEF TimerInv, OneTimer, Nowhere, TimerPoints
    <3>3. CASE Rearm(c)
      BY <3>3 DEF TimerInv, OneTimer, Nowhere, TimerPoints, TimerTypeOK
    <3>4. CASE TimerReturns(c)
      BY <3>4 DEF TimerInv, OneTimer, Nowhere, TimerPoints
    <3> QED
      BY <3>1, <3>2, <3>3, <3>4
  <2>3. HookInv' /\ GapInv'
    BY DEF TypeOK, HookInv, GapInv, Nowhere, HookPoints, TimerPoints
  <2> QED
    BY <2>1, <2>2, <2>3
<1> QED
  BY <1>1, <1>2 DEF TimerNext

\* A step of the hook keeps the remainder in step with the gap.
LEMMA HookKeepsGap ==
  ASSUME IInv, NEW c \in CPUs, NumberPacket(c)
  PROVE  GapInv' /\ gs_seen_count' \in UnsignedLongs /\ gap' \in 0 .. SAMPLE_EVERY - 1
<1> DEFINE r == gs_seen_count % SAMPLE_EVERY
<1>1. gs_seen_count \in UnsignedLongs /\ gap \in 0 .. SAMPLE_EVERY - 1
  BY DEF IInv, TypeOK, HookTypeOK
<1>2. r = (IF gap = SAMPLE_EVERY - 1 THEN 0 ELSE gap + 1)
  BY DEF IInv, GapInv
<1>3. gs_seen_count' = Increment(gs_seen_count) /\ gap' = IF r = 0 THEN 0 ELSE gap + 1
  BY DEF NumberPacket, Sampled
<1>4. gs_seen_count' % SAMPLE_EVERY = IF r = SAMPLE_EVERY - 1 THEN 0 ELSE r + 1
  BY <1>1, <1>3, IncrementRemainder
<1>5. gs_seen_count' \in UnsignedLongs
  BY <1>1, <1>3, IncrementType
<1> HIDE DEF r
<1>6. gap' \in 0 .. SAMPLE_EVERY - 1
      /\ (IF r = SAMPLE_EVERY - 1 THEN 0 ELSE r + 1)
           = (IF gap' = SAMPLE_EVERY - 1 THEN 0 ELSE gap' + 1)
  BY <1>1, <1>2, <1>3, SampleAssumption DEF SampleAssumption
<1> QED
  BY <1>4, <1>5, <1>6 DEF GapInv

LEMMA HookKeeps ==
  ASSUME IInv, HookNext, UNCHANGED timerVars
  PROVE  IInv'
<1> USE DEF IInv, timerVars
<1>1. CASE HookLoaderStep \/ HookRmmod
  <2> USE <1>1 DEF HookLoaderStep, HookRmmod, RegisterHook, RegisterHookFails,
                   UnregisterReturns, HookProceeds
  <2>1. TypeOK'
    BY DEF TypeOK, TimerTypeOK, HookTypeOK
  <2>2. TimerInv' /\ GapInv'
    BY DEF TimerInv, OneTimer, Nowhere, GapInv
  <2>3. HookInv'
    BY DEF HookInv, Nowhere
  <2> QED
    BY <2>1, <2>2, <2>3
<1>2. ASSUME NEW c \in CPUs, EnterHook(c) \/ HookRuns(c)
      PROVE  IInv'
  <2> USE <1>2 DEF EnterHook, HookRuns, AcceptOther, CapturePacket, Advance, hookVars
  <2>1. UNCHANGED <<gs_seen_count, gap>> \/ NumberPacket(c)
    OBVIOUS
  <2>2. GapInv' /\ gs_seen_count' \in UnsignedLongs /\ gap' \in 0 .. SAMPLE_EVERY - 1
    BY <2>1, HookKeepsGap DEF GapInv, TypeOK, HookTypeOK
  <2> USE DEF NumberPacket
  <2>3. TypeOK'
    BY <2>2, IncrementType DEF TypeOK, TimerTypeOK, HookTypeOK, HookPoints
  <2>4. TimerInv'
    BY DEF TypeOK, TimerInv, OneTimer, Nowhere, TimerPoints
  <2>5. HookInv'
    BY DEF TypeOK, HookInv, Nowhere, HookPoints
  <2> QED
    BY <2>2, <2>3, <2>4, <2>5
<1> QED
  BY <1>1, <1>2 DEF HookNext

LEMMA NextIInv == IInv /\ [Next]_vars => IInv'
<1> SUFFICES ASSUME IInv, [Next]_vars PROVE IInv'
  OBVIOUS
<1>1. CASE UNCHANGED vars
  BY <1>1 DEF vars, timerVars, hookVars, IInv, TypeOK, TimerTypeOK, HookTypeOK, TimerInv,
              HookInv, GapInv, OneTimer, Nowhere
<1> QED
  BY <1>1, TimerKeeps, HookKeeps DEF Next, Unloaded

LEMMA AlwaysIInv == Spec => []IInv
BY InitIInv, NextIInv, PTL DEF Spec

-----------------------------------------------------------------------------
(***************************************************************************)
(* The timer fires once per arming, and neither it nor its callback        *)
(* outlives timer_shutdown_sync() (timer_softirq.c:20-22 and 41-42).       *)
(***************************************************************************)
THEOREM AlwaysOneTimer == Spec => []OneTimer
BY AlwaysIInv, PTL DEF IInv, TimerInv

(***************************************************************************)
(* No hook runs or can be entered once nf_unregister_net_hook() has        *)
(* returned (net_rx_softirq.c:83-85).                                      *)
(***************************************************************************)
THEOREM HookGoneAfterUnload == Spec => []NoHookAfterUnload
<1>1. IInv => NoHookAfterUnload
  BY DEF IInv, HookInv, NoHookAfterUnload
<1> QED
  BY <1>1, AlwaysIInv, PTL

(***************************************************************************)
(* Exactly one packet in SAMPLE_EVERY is sampled, for any width of the     *)
(* counter whose range SAMPLE_EVERY divides, the wrap included             *)
(* (net_rx_softirq.c:36-37).                                               *)
(***************************************************************************)
THEOREM SamplesEvenly == Spec => OneInSampleEvery
<1>1. ASSUME IInv, [Next]_vars
      PROVE  [gs_seen_count' # gs_seen_count =>
                gap' = IF gap = SAMPLE_EVERY - 1 THEN 0 ELSE gap + 1]_gs_seen_count
  <2> SUFFICES ASSUME gs_seen_count' # gs_seen_count
               PROVE  gap' = IF gap = SAMPLE_EVERY - 1 THEN 0 ELSE gap + 1
    OBVIOUS
  <2>1. PICK c \in CPUs : NumberPacket(c)
    BY <1>1 DEF Next, TimerNext, HookNext, HookLoaderStep, HookRmmod, RegisterHook,
                RegisterHookFails, UnregisterReturns, HookProceeds, EnterHook, HookRuns,
                AcceptOther, CapturePacket, Unloaded, vars, hookVars
  <2>2. gap \in 0 .. SAMPLE_EVERY - 1 /\ SAMPLE_EVERY \in Nat
    BY <1>1, SampleAssumption DEF IInv, TypeOK, HookTypeOK, SampleAssumption
  <2> QED
    BY <1>1, <2>1, <2>2 DEF NumberPacket, Sampled, IInv, GapInv
<1> QED
  BY <1>1, AlwaysIInv, PTL DEF Spec, OneInSampleEvery
=============================================================================
