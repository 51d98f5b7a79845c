--------------------- MODULE InterruptCompetition_proofs ---------------------
(***************************************************************************)
(* What holds of interrupt_competition.c for any set of CPUs, any set of   *)
(* pluggable ones and any RAISES_PER_CPU, by one inductive invariant.      *)
(***************************************************************************)
EXTENDS InterruptCompetition, FiniteSetTheorems, TLAPS

\* The lock is held exactly by the one context that is inside its section.
LockInv ==
  /\ \A c \in CPUs : <<c, "hard">> \in lock <=> hardPc[c] = "store"
  /\ \A c \in CPUs : <<c, "soft">> \in lock <=> softPc[c] = "store"
  /\ \A x, y \in lock : x = y

\* The handler and the tasklet run on one CPU at a time; a bottom half inside
\* its section is not interrupted.
ContextInv ==
  /\ \A c \in CPUs : hardPc[c] # "none" <=> irq[c] = "handler"
  /\ \A c, d \in CPUs : hardPc[c] # "none" /\ hardPc[d] # "none" => c = d
  /\ \A c, d \in CPUs : softPc[c] # "none" /\ softPc[d] # "none" => c = d
  /\ \A c \in CPUs : softPc[c] = "store" => irq[c] = "idle"

\* What a context loaded under the lock is still true when it stores.
LoadInv ==
  /\ \A c \in CPUs : hardPc[c] = "store" =>
       hardN[c] = gs_hardirq_run_count + 1 /\ hardVal[c] = gs_shared_count + 1
  /\ \A c \in CPUs : softPc[c] = "store" =>
       softSeq[c] = gs_pending_seq /\ softVal[c] = gs_shared_count + 1

\* The stamp is the number of the last top half that counted.
CountInv ==
  /\ CounterGapFree
  /\ gs_pending_seq = gs_hardirq_run_count

\* A count that is not reported yet has a bottom half on its way.
ReportInv ==
  \/ picked = gs_hardirq_run_count
  \/ sched # {}
  \/ \E c \in CPUs : hardPc[c] = "schedule" \/ softPc[c] # "none"

\* A raise that is not counted yet was within the CPU's share.
RaiserInv ==
  \A c \in raised : thread[c] = "active" /\ gs_raise_count[c] < RAISES_PER_CPU

HeldAt(p) ==
  {r \in {"sim", "map", "irq"} :
     \/ p \in {"register", "live", "unregister", "free_irq"}
     \/ p \in {"request_irq", "synchronize_irq", "dispose_mapping"} /\ r # "irq"
     \/ p \in {"create_mapping", "remove_sim"} /\ r = "sim"}

\* What exists, and what may run, at each point of the insmod/rmmod task.
LoaderInv ==
  /\ held = HeldAt(pc)
  /\ pc \notin {"register", "live", "unregister"} => \A c \in CPUs : thread[c] = "none"
  /\ pc \in {"create_sim", "create_mapping", "request_irq", "kill_tasklet", "gone"} =>
       work = {} /\ \A c \in CPUs : irq[c] = "idle"
  /\ pc \in {"dispose_mapping", "remove_sim"} => \A c \in CPUs : irq[c] # "handler"
  /\ pc = "gone" => sched = {} /\ \A c \in CPUs : softPc[c] = "none"

\* The units of f over s: f[x] of them, at most m, at each x.
Units(f, m, s) == {u \in s \X (1 .. m) : u[2] <= f[u[1]]}

Raises == Units(gs_raise_count, RAISES_PER_CPU, CPUs)
TopHalves == {c \in CPUs : hardPc[c] \in {"lock", "store"}}

\* Every top half, and the pending bit, has a raise of its own.
RaisesInv ==
  gs_hardirq_run_count + Cardinality(TopHalves) + (IF pending THEN 1 ELSE 0)
    <= Cardinality(Raises) + Cardinality(raised)

IInv ==
  /\ TypeOK /\ LockInv /\ ContextInv /\ LoadInv /\ CountInv /\ ReportInv
  /\ RaiserInv /\ LoaderInv /\ RaisesInv

-----------------------------------------------------------------------------
(***************************************************************************)
(* The sum of a function over a finite set, as the number of its units, so *)
(* that one more at one place is one more element of a set.                *)
(***************************************************************************)

\* A set of numbers has a smallest one: how what is recursive is proved here.
LEMMA SmallestElement ==
  ASSUME NEW T \in SUBSET Nat, T # {}
  PROVE  \E n \in T : \A m \in T : n <= m
<1>1. IsWellFoundedOn(OpToRel(<, Nat), Nat)
  BY NatLessThanWellFounded
<1>2. PICK n \in T : \A m \in T : <<m, n>> \notin OpToRel(<, Nat)
  BY <1>1, WFMin
<1>3. \A m \in T : ~ (m < n)
  BY <1>2 DEF OpToRel
<1> QED
  BY <1>3

\* They are finitely many.
LEMMA UnitsFinite ==
  ASSUME NEW S, IsFiniteSet(S), NEW m \in Nat, NEW f
  PROVE  IsFiniteSet(Units(f, m, S)) /\ Cardinality(Units(f, m, S)) \in Nat
<1>1. IsFiniteSet(1 .. m)
  BY FS_Interval
<1>3. IsFiniteSet(S \X (1 .. m))
  BY <1>1, FS_Product
<1>2. Units(f, m, S) \in SUBSET (S \X (1 .. m))
  BY DEF Units
<1> QED
  BY <1>2, <1>3, FS_Subset, FS_CardinalityType

\* One element has as many as f says.
LEMMA UnitsOfOne ==
  ASSUME NEW m \in Nat, NEW f, NEW x, f[x] \in 0 .. m
  PROVE  IsFiniteSet(Units(f, m, {x})) /\ Cardinality(Units(f, m, {x})) = f[x]
<1> DEFINE b == [k \in 1 .. f[x] |-> <<x, k>>]
<1>1. b \in Bijection(1 .. f[x], Units(f, m, {x}))
  <2>1. b \in [1 .. f[x] -> Units(f, m, {x})]
    BY DEF Units
  <2>2. \A i, j \in 1 .. f[x] : b[i] = b[j] => i = j
    OBVIOUS
  <2>3. \A u \in Units(f, m, {x}) : u[2] \in 1 .. f[x] /\ b[u[2]] = u
    BY DEF Units
  <2> QED
    BY <2>1, <2>2, <2>3 DEF Bijection, Injection, Surjection, IsInjective
<1>2. ExistsBijection(1 .. f[x], Units(f, m, {x}))
  BY <1>1 DEF ExistsBijection
<1> QED
  BY <1>2, FS_CountingElements, FS_NatBijection, f[x] \in Nat

\* Two finite sets with nothing in common.
LEMMA DisjointUnion ==
  ASSUME NEW A, NEW B, IsFiniteSet(A), IsFiniteSet(B), A \cap B = {}
  PROVE  Cardinality(A \cup B) = Cardinality(A) + Cardinality(B)
<1>1. Cardinality(A) \in Nat /\ Cardinality(B) \in Nat
  BY FS_CardinalityType
<1>2. Cardinality(A \cap B) = 0
  BY FS_EmptySet
<1>3. Cardinality(A \cup B) = Cardinality(A) + Cardinality(B) - Cardinality(A \cap B)
  BY FS_Union
<1> QED
  BY <1>1, <1>2, <1>3

\* The units of a set are those of one element and those of the rest.
LEMMA UnitsInsert ==
  ASSUME NEW S, IsFiniteSet(S), NEW m \in Nat, NEW f \in [S -> 0 .. m],
         NEW s \in SUBSET S, NEW x \in s
  PROVE  Cardinality(Units(f, m, s)) = f[x] + Cardinality(Units(f, m, s \ {x}))
<1>1. IsFiniteSet(s \ {x})
  BY FS_Subset
<1>2. IsFiniteSet(Units(f, m, s \ {x})) /\ Cardinality(Units(f, m, s \ {x})) \in Nat
  BY <1>1, UnitsFinite
<1>3. IsFiniteSet(Units(f, m, {x})) /\ Cardinality(Units(f, m, {x})) = f[x]
  BY UnitsOfOne
<1>4. /\ Units(f, m, s) = Units(f, m, {x}) \cup Units(f, m, s \ {x})
      /\ Units(f, m, {x}) \cap Units(f, m, s \ {x}) = {}
  BY DEF Units
<1>5. Cardinality(Units(f, m, s))
        = Cardinality(Units(f, m, {x})) + Cardinality(Units(f, m, s \ {x}))
  BY <1>2, <1>3, <1>4, DisjointUnion
<1> QED
  BY <1>3, <1>5

\* The recursion that SumFunction() is defined by.
Sums(f, S, g) ==
  g = [s \in SUBSET S |->
         IF s = {} THEN 0 ELSE LET x == CHOOSE x \in s : TRUE IN f[x] + g[s \ {x}]]

\* SumFunction() is the value of that recursion at the whole domain.
LEMMA SumUnfolds ==
  ASSUME NEW f
  PROVE  SumFunction(f) = (CHOOSE g : Sums(f, DOMAIN f, g))[DOMAIN f]
  BY DEF SumFunction, SumFunctionOnSet, FoldFunctionOnSet, MapThenFoldSet, Sums

\* The sum of f is the number of its units: both satisfy the one recursion, and
\* a smallest set on which they differ is none.
LEMMA SumIsCardinality ==
  ASSUME NEW S, IsFiniteSet(S), NEW m \in Nat, NEW f \in [S -> 0 .. m]
  PROVE  SumFunction(f) = Cardinality(Units(f, m, S))
<1> DEFINE h == [s \in SUBSET S |-> Cardinality(Units(f, m, s))]
           g == CHOOSE g : Sums(f, S, g)
           Wrong == {n \in Nat : \E s \in SUBSET S : Cardinality(s) = n /\ g[s] # h[s]}
<1>1. Sums(f, S, h)
  <2>1. h[{}] = 0
    <3>1. Units(f, m, {}) = {}
      BY DEF Units
    <3> QED
      BY <3>1, FS_EmptySet
  <2>2. ASSUME NEW s \in SUBSET S, s # {}
        PROVE  h[s] = LET x == CHOOSE x \in s : TRUE IN f[x] + h[s \ {x}]
    <3>1. PICK x : x = CHOOSE y \in s : TRUE
      OBVIOUS
    <3>2. x \in s
      BY <2>2, <3>1
    <3>3. s \ {x} \in SUBSET S
      OBVIOUS
    <3>4. h[s] = f[x] + h[s \ {x}]
      BY <3>2, <3>3, UnitsInsert
    <3> QED
      BY <3>1, <3>4
  <2>3. h = [s \in SUBSET S |->
               IF s = {} THEN 0 ELSE LET x == CHOOSE x \in s : TRUE IN f[x] + h[s \ {x}]]
    BY <2>1, <2>2
  <2> QED
    BY <2>3 DEF Sums
<1>2. Sums(f, S, g)
  BY <1>1
<1> HIDE DEF g
<1>3. Wrong = {}
  <2> SUFFICES ASSUME Wrong # {} PROVE FALSE
    OBVIOUS
  <2>1. PICK n \in Wrong : \A k \in Wrong : n <= k
    BY SmallestElement
  <2>2. PICK s \in SUBSET S : Cardinality(s) = n /\ g[s] # h[s]
    BY <2>1
  <2>3. s # {}
    BY <1>1, <1>2, <2>2 DEF Sums
  <2> DEFINE x == CHOOSE x \in s : TRUE
  <2>4. x \in s
    BY <2>3
  <2>5. g[s] = f[x] + g[s \ {x}] /\ h[s] = f[x] + h[s \ {x}]
    BY <1>1, <1>2, <2>3 DEF Sums
  <2> HIDE DEF x, h
  <2>6. Cardinality(s \ {x}) = n - 1 /\ n - 1 \in Nat
    <3>1. IsFiniteSet(s)
      BY FS_Subset
    <3>2. Cardinality(s \ {x}) = Cardinality(s) - 1
      BY <2>4, <3>1, FS_RemoveElement
    <3>3. Cardinality(s \ {x}) \in Nat
      BY <3>1, FS_RemoveElement, FS_CardinalityType
    <3> QED
      BY <2>2, <3>2, <3>3
  <2>7. g[s \ {x}] = h[s \ {x}]
    BY <2>1, <2>6
  <2> QED
    BY <2>2, <2>5, <2>7
<1>4. Cardinality(S) \in Nat /\ S \in SUBSET S
  BY FS_CardinalityType
<1>5. g[S] = h[S]
  BY <1>3, <1>4
<1> QED
  BY <1>5, SumUnfolds DEF g

\* One more at one place is one more of the sum.
LEMMA OneMoreUnit ==
  ASSUME NEW S, IsFiniteSet(S), NEW m \in Nat, NEW f \in [S -> 0 .. m],
         NEW g \in [S -> 0 .. m],
         NEW x \in S, g[x] = f[x] + 1, \A y \in S \ {x} : g[y] = f[y]
  PROVE  Cardinality(Units(g, m, S)) = Cardinality(Units(f, m, S)) + 1
<1>1. f[x] \in Nat /\ f[x] + 1 \in 1 .. m
  OBVIOUS
<1>2. /\ Units(g, m, S) = Units(f, m, S) \cup {<<x, f[x] + 1>>}
      /\ <<x, f[x] + 1>> \notin Units(f, m, S)
  <2>1. \A u \in S \X (1 .. m) :
          u[2] <= g[u[1]] <=> u[2] <= f[u[1]] \/ u = <<x, f[x] + 1>>
    <3> SUFFICES ASSUME NEW y \in S, NEW i \in 1 .. m
                 PROVE  i <= g[y] <=> i <= f[y] \/ <<y, i>> = <<x, f[x] + 1>>
      OBVIOUS
    <3>1. CASE y = x
      BY <1>1, <3>1
    <3>2. CASE y # x
      BY <3>2
    <3> QED
      BY <3>1, <3>2
  <2>2. <<x, f[x] + 1>> \in S \X (1 .. m) /\ ~ (f[x] + 1 <= f[x])
    BY <1>1
  <2> QED
    BY <2>1, <2>2 DEF Units
<1>3. IsFiniteSet(Units(f, m, S))
  BY UnitsFinite
<1>4. PICK U, u : U = Units(f, m, S) /\ u = <<x, f[x] + 1>>
  OBVIOUS
<1>5. IsFiniteSet(U) /\ u \notin U /\ Units(g, m, S) = U \cup {u}
  BY <1>2, <1>3, <1>4
<1>6. Cardinality(U \cup {u}) = Cardinality(U) + 1
  BY <1>5, FS_AddElement
<1> QED
  BY <1>4, <1>5, <1>6

-----------------------------------------------------------------------------
(***************************************************************************)
(* Frames: what the groups of actions leave alone.                         *)
(***************************************************************************)

\* The insmod/rmmod task touches neither the line nor any context's state.
LEMMA LoaderFrameLemma ==
  ASSUME LoaderStep \/ Rmmod
  PROVE  LoaderFrame
  BY DEF LoaderStep, Rmmod, CreateSim, CreateMapping, RequestIrq, RegisterThread,
         RegisterReturns, StopThread, UnregisterReturns, FreeIrq, FreeIrqReturns,
         DisposeMapping, RemoveSim, KillTasklet, Obtain, GiveUp, Proceed

\* Stuttering, the unloaded module included.
LEMMA StutterLemma ==
  ASSUME Unloaded \/ UNCHANGED vars
  PROVE  UNCHANGED vars
  BY DEF Unloaded

-----------------------------------------------------------------------------
(***************************************************************************)
(* Type correctness.                                                       *)
(***************************************************************************)

LEMMA InitType ==
  ASSUME Init
  PROVE  TypeOK
<1>1. gs_raise_count \in [CPUs -> 0 .. RAISES_PER_CPU]
  BY CompetitionAssumption DEF CompetitionAssumption, Init
<1>2. Smp!SmpTypeOK /\ Line!LineTypeOK
  BY DEF Init, Smp!SmpInit, Smp!SmpTypeOK, Line!LineInit, Line!LineTypeOK
<1> QED
  BY <1>1, <1>2 DEF Init, TypeOK, LoaderPcs

LEMMA LoaderType ==
  ASSUME TypeOK, LoaderStep \/ Rmmod
  PROVE  TypeOK'
<1>1. LoaderFrame
  BY LoaderFrameLemma
<1>2. pc' \in LoaderPcs /\ held' \subseteq {"sim", "map", "irq"} /\ Smp!SmpTypeOK'
      /\ raised' \subseteq CPUs
  BY DEF TypeOK, LoaderPcs, Smp!SmpTypeOK, LoaderStep, Rmmod, CreateSim, CreateMapping,
         RequestIrq, RegisterThread, RegisterReturns, StopThread, UnregisterReturns,
         FreeIrq, FreeIrqReturns, DisposeMapping, RemoveSim, KillTasklet, Obtain, GiveUp,
         Proceed, Goto, smpVars, Smp!Spawn, Smp!Stop
<1> QED
  BY <1>1, <1>2 DEF TypeOK, LoaderFrame, Line!LineTypeOK, lineVars, hardVars, softVars,
                    counters, history

LEMMA TypeStep ==
  ASSUME TypeOK, RaiserInv, Next \/ UNCHANGED vars
  PROVE  TypeOK'
<1>1. CASE LoaderStep \/ Rmmod
  BY <1>1, LoaderType
<1>2. CASE Unloaded \/ UNCHANGED vars
  BY <1>2, StutterLemma
  DEF TypeOK, vars, smpVars, lineVars, hardVars, softVars, counters, history,
      Smp!SmpTypeOK, Line!LineTypeOK
<1>3. ASSUME NEW c \in CPUs, RaiserStep(c) PROVE TypeOK'
  <2>1. CASE RunIrqRaiser(c)
    BY <2>1 DEF TypeOK, RunIrqRaiser, Line!Raise, Smp!SmpTypeOK, Line!LineTypeOK,
                hardVars, softVars, counters, history
  <2>2. CASE CountRaise(c)
    <3>1. gs_raise_count[c] + 1 \in 0 .. RAISES_PER_CPU
      BY <2>2, CompetitionAssumption
      DEF CountRaise, Count, RaiserInv, TypeOK, CompetitionAssumption
    <3> QED
      BY <2>2, <3>1 DEF TypeOK, CountRaise, Count, Smp!SmpTypeOK, Line!LineTypeOK,
                        lineVars, hardVars, softVars, counters, history
  <2> QED
    BY <1>3, <2>1, <2>2 DEF RaiserStep
<1>4. ASSUME NEW c \in CPUs, HardStep(c) PROVE TypeOK'
  <2>1. CASE Interrupt(c) \/ EnterTopHalf(c) \/ DropRaise(c) \/ EndIrqWork(c)
    BY <2>1
    DEF TypeOK, Interrupt, EnterTopHalf, DropRaise, EndIrqWork, HardFrame, Line!Interrupt,
        Line!Deliver, Line!Drop, Line!Drained, Smp!SmpTypeOK, Line!LineTypeOK, smpVars,
        lineVars, hardVars, softVars, counters, history
  <2>2. CASE TopHalfLock(c) \/ TopHalfStamp(c)
    <3>1. lock' \subseteq CPUs \X {"hard", "soft"}
      BY <2>2 DEF TypeOK, TopHalfLock, TopHalfStamp, Stamp, Acquire, Release
    <3>2. hardN' \in [CPUs -> Nat] /\ hardVal' \in [CPUs -> Nat]
      BY <2>2 DEF TypeOK, TopHalfLock, TopHalfStamp, Stamp
    <3>3. gs_shared_count' \in Nat /\ gs_hardirq_run_count' \in Nat /\ gs_pending_seq' \in Nat
      BY <2>2 DEF TypeOK, TopHalfLock, TopHalfStamp, Stamp, counters
    <3>4. hardPc' \in [CPUs -> {"none", "lock", "store", "schedule"}]
      BY <2>2 DEF TypeOK, TopHalfLock, TopHalfStamp
    <3>5. HardFrame /\ UNCHANGED <<lineVars, sched>>
      BY <2>2 DEF TopHalfLock, TopHalfStamp
    <3> QED
      BY <3>1, <3>2, <3>3, <3>4, <3>5
      DEF TypeOK, HardFrame, Smp!SmpTypeOK, Line!LineTypeOK, smpVars, lineVars,
          softVars, history
  <2>3. CASE TopHalfSchedule(c)
    BY <2>3
    DEF TypeOK, TopHalfSchedule, TaskletSchedule, Line!Return, HardFrame, Smp!SmpTypeOK,
        Line!LineTypeOK, smpVars, softVars, counters, history
  <2> QED
    BY <1>4, <2>1, <2>2, <2>3 DEF HardStep
<1>5. ASSUME NEW c \in CPUs, SoftStep(c) PROVE TypeOK'
  <2>1. lock' \subseteq CPUs \X {"hard", "soft"}
    BY <1>5 DEF TypeOK, SoftStep, EnterBottomHalf, BottomHalfLock, BottomHalfCount,
                Acquire, Release
  <2>2. softSeq' \in [CPUs -> Nat] /\ softVal' \in [CPUs -> Nat]
    BY <1>5 DEF TypeOK, SoftStep, EnterBottomHalf, BottomHalfLock, BottomHalfCount
  <2>3. /\ gs_shared_count' \in Nat /\ gs_hardirq_run_count' \in Nat
        /\ gs_pending_seq' \in Nat /\ softRuns' \in Nat /\ picked' \in Nat
    BY <1>5 DEF TypeOK, SoftStep, EnterBottomHalf, BottomHalfLock, BottomHalfCount,
                counters, history
  <2>4. softPc' \in [CPUs -> {"none", "lock", "store"}] /\ sched' \subseteq CPUs
    BY <1>5 DEF TypeOK, SoftStep, EnterBottomHalf, BottomHalfLock, BottomHalfCount
  <2>5. SoftFrame
    BY <1>5 DEF SoftStep, EnterBottomHalf, BottomHalfLock, BottomHalfCount
  <2> QED
    BY <2>1, <2>2, <2>3, <2>4, <2>5
    DEF TypeOK, SoftFrame, Smp!SmpTypeOK, Line!LineTypeOK, smpVars, lineVars, hardVars
<1>6. ASSUME NEW c \in CPUs, Hotplug(c) PROVE TypeOK'
  <2>1. Smp!SmpTypeOK'
    BY <1>6, CompetitionAssumption
    DEF CompetitionAssumption, TypeOK, Hotplug, CpuOffline, CpuOnline, Smp!Offline,
        Smp!Online, Smp!SmpTypeOK
  <2>2. sched' \subseteq CPUs
    BY <1>6 DEF TypeOK, Hotplug, CpuOffline, CpuOnline, Smp!SmpTypeOK
  <2> QED
    BY <1>6, <2>1, <2>2
    DEF TypeOK, Hotplug, CpuOffline, CpuOnline, Line!LineTypeOK, lineVars, hardVars,
        softVars, counters, history
<1> QED
  BY <1>1, <1>2, <1>3, <1>4, <1>5, <1>6 DEF Next

-----------------------------------------------------------------------------
(***************************************************************************)
(* The lock and the contexts.                                              *)
(***************************************************************************)

LEMMA LockStep ==
  ASSUME TypeOK, LockInv, ContextInv, Next \/ UNCHANGED vars
  PROVE  LockInv'
<1> USE DEF LockInv
<1>1. CASE LoaderStep \/ Rmmod
  BY <1>1, LoaderFrameLemma DEF LoaderFrame, hardVars, softVars
<1>2. CASE Unloaded \/ UNCHANGED vars
  BY <1>2, StutterLemma DEF vars, hardVars, softVars
<1>3. ASSUME NEW c \in CPUs, RaiserStep(c) \/ Hotplug(c) PROVE LockInv'
  BY <1>3 DEF RaiserStep, RunIrqRaiser, CountRaise, Count, Hotplug, CpuOffline, CpuOnline,
              hardVars, softVars
<1>4. ASSUME NEW c \in CPUs, HardStep(c) PROVE LockInv'
  <2>1. CASE Interrupt(c) \/ DropRaise(c) \/ EndIrqWork(c)
    BY <2>1 DEF Interrupt, DropRaise, EndIrqWork, HardFrame, hardVars, softVars
  <2>2. CASE EnterTopHalf(c) \/ TopHalfSchedule(c)
    BY <2>2 DEF TypeOK, ContextInv, EnterTopHalf, TopHalfSchedule, Line!Deliver,
                HardFrame, softVars
  <2>3. CASE TopHalfLock(c)
    BY <2>3 DEF TypeOK, TopHalfLock, Acquire, HardFrame, softVars
  <2>4. CASE TopHalfStamp(c)
    BY <2>4 DEF TypeOK, TopHalfStamp, Stamp, Release, HardFrame, softVars
  <2> QED
    BY <1>4, <2>1, <2>2, <2>3, <2>4 DEF HardStep
<1>5. ASSUME NEW c \in CPUs, SoftStep(c) PROVE LockInv'
  <2>1. CASE EnterBottomHalf(c)
    BY <2>1 DEF TypeOK, EnterBottomHalf, SoftFrame, hardVars
  <2>2. CASE BottomHalfLock(c)
    BY <2>2 DEF TypeOK, BottomHalfLock, Acquire, SoftFrame, hardVars
  <2>3. CASE BottomHalfCount(c)
    BY <2>3 DEF TypeOK, BottomHalfCount, Release, SoftFrame, hardVars
  <2> QED
    BY <1>5, <2>1, <2>2, <2>3 DEF SoftStep
<1> QED
  BY <1>1, <1>2, <1>3, <1>4, <1>5 DEF Next

LEMMA ContextStep ==
  ASSUME TypeOK, LockInv, ContextInv, Next \/ UNCHANGED vars
  PROVE  ContextInv'
<1> USE DEF ContextInv
<1>1. CASE LoaderStep \/ Rmmod
  BY <1>1, LoaderFrameLemma DEF LoaderFrame, lineVars, hardVars, softVars
<1>2. CASE Unloaded \/ UNCHANGED vars
  BY <1>2, StutterLemma DEF vars, lineVars, hardVars, softVars
<1>3. ASSUME NEW c \in CPUs, RaiserStep(c) \/ Hotplug(c) PROVE ContextInv'
  BY <1>3 DEF RaiserStep, RunIrqRaiser, CountRaise, Count, Hotplug, CpuOffline, CpuOnline,
              Line!Raise, lineVars, hardVars, softVars
<1>4. ASSUME NEW c \in CPUs, HardStep(c) PROVE ContextInv'
  <2>1. CASE Interrupt(c)
    BY <2>1 DEF TypeOK, LockInv, Line!LineTypeOK, Interrupt, IrqsOff, Line!Interrupt,
                HardFrame, hardVars, softVars
  <2>2. CASE EnterTopHalf(c)
    BY <2>2 DEF TypeOK, Line!LineTypeOK, EnterTopHalf, Line!Deliver, Line!InProgress,
                HardFrame, softVars
  <2>3. CASE DropRaise(c) \/ EndIrqWork(c)
    BY <2>3 DEF TypeOK, Line!LineTypeOK, DropRaise, EndIrqWork, Line!Drop, Line!Drained,
                HardFrame, hardVars, softVars
  <2>4. CASE TopHalfLock(c) \/ TopHalfStamp(c)
    BY <2>4 DEF TypeOK, TopHalfLock, TopHalfStamp, Stamp, HardFrame, lineVars, softVars
  <2>5. CASE TopHalfSchedule(c)
    BY <2>5 DEF TypeOK, Line!LineTypeOK, TopHalfSchedule, Line!Return, HardFrame, softVars
  <2> QED
    BY <1>4, <2>1, <2>2, <2>3, <2>4, <2>5 DEF HardStep
<1>5. ASSUME NEW c \in CPUs, SoftStep(c) PROVE ContextInv'
  BY <1>5 DEF TypeOK, SoftStep, EnterBottomHalf, BottomHalfLock, BottomHalfCount,
              SoftFrame, lineVars, hardVars
<1> QED
  BY <1>1, <1>2, <1>3, <1>4, <1>5 DEF Next

-----------------------------------------------------------------------------
(***************************************************************************)
(* The counters: what was loaded under the lock is what is stored.         *)
(***************************************************************************)

LEMMA CounterStep ==
  ASSUME TypeOK, LockInv, ContextInv, LoadInv, CountInv, Next \/ UNCHANGED vars
  PROVE  LoadInv' /\ CountInv'
<1> USE DEF LoadInv, CountInv, CounterGapFree
<1>1. CASE LoaderStep \/ Rmmod
  BY <1>1, LoaderFrameLemma DEF LoaderFrame, hardVars, softVars, counters, history
<1>2. CASE Unloaded \/ UNCHANGED vars
  BY <1>2, StutterLemma DEF vars, hardVars, softVars, counters, history
<1>3. ASSUME NEW c \in CPUs, RaiserStep(c) \/ Hotplug(c) PROVE LoadInv' /\ CountInv'
  BY <1>3 DEF RaiserStep, RunIrqRaiser, CountRaise, Count, Hotplug, CpuOffline, CpuOnline,
              hardVars, softVars, counters, history
<1>4. ASSUME NEW c \in CPUs, HardStep(c) PROVE LoadInv' /\ CountInv'
  <2>1. CASE Interrupt(c) \/ DropRaise(c) \/ EndIrqWork(c)
    BY <2>1 DEF Interrupt, DropRaise, EndIrqWork, HardFrame, hardVars, softVars, counters,
                history
  <2>2. CASE EnterTopHalf(c) \/ TopHalfSchedule(c)
    BY <2>2 DEF TypeOK, EnterTopHalf, TopHalfSchedule, HardFrame, softVars, counters,
                history
  <2>3. CASE TopHalfLock(c)
    BY <2>3 DEF TypeOK, TopHalfLock, HardFrame, softVars, counters, history
  <2>4. CASE TopHalfStamp(c)
    <3>1. \A d \in CPUs : softPc[d] # "store" /\ (hardPc[d] = "store" => d = c)
      BY <2>4 DEF LockInv, TopHalfStamp, Stamp
    <3> QED
      BY <2>4, <3>1 DEF TypeOK, TopHalfStamp, Stamp, HardFrame, softVars, history
  <2> QED
    BY <1>4, <2>1, <2>2, <2>3, <2>4 DEF HardStep
<1>5. ASSUME NEW c \in CPUs, SoftStep(c) PROVE LoadInv' /\ CountInv'
  <2>1. CASE EnterBottomHalf(c)
    BY <2>1 DEF TypeOK, EnterBottomHalf, SoftFrame, hardVars, counters, history
  <2>2. CASE BottomHalfLock(c)
    BY <2>2 DEF TypeOK, BottomHalfLock, SoftFrame, hardVars, counters, history
  <2>3. CASE BottomHalfCount(c)
    <3>1. \A d \in CPUs : hardPc[d] # "store" /\ (softPc[d] = "store" => d = c)
      BY <2>3 DEF LockInv, BottomHalfCount
    <3> QED
      BY <2>3, <3>1 DEF TypeOK, BottomHalfCount, SoftFrame, hardVars
  <2> QED
    BY <1>5, <2>1, <2>2, <2>3 DEF SoftStep
<1> QED
  BY <1>1, <1>2, <1>3, <1>4, <1>5 DEF Next

-----------------------------------------------------------------------------
(***************************************************************************)
(* The report: no count without a bottom half on its way.                  *)
(***************************************************************************)

LEMMA ReportStep ==
  ASSUME TypeOK, ContextInv, LoadInv, CountInv, ReportInv, Next \/ UNCHANGED vars
  PROVE  ReportInv'
<1> USE DEF ReportInv
<1>1. CASE LoaderStep \/ Rmmod
  BY <1>1, LoaderFrameLemma DEF LoaderFrame, hardVars, softVars, counters, history
<1>2. CASE Unloaded \/ UNCHANGED vars
  BY <1>2, StutterLemma DEF vars, hardVars, softVars, counters, history
<1>3. ASSUME NEW c \in CPUs, RaiserStep(c) \/ Hotplug(c) PROVE ReportInv'
  BY <1>3 DEF RaiserStep, RunIrqRaiser, CountRaise, Count, Hotplug, CpuOffline, CpuOnline,
              hardVars, softVars, counters, history
<1>4. ASSUME NEW c \in CPUs, HardStep(c) PROVE ReportInv'
  <2>1. CASE Interrupt(c) \/ DropRaise(c) \/ EndIrqWork(c)
    BY <2>1 DEF Interrupt, DropRaise, EndIrqWork, HardFrame, hardVars, softVars, counters,
                history
  <2>2. CASE EnterTopHalf(c)
    BY <2>2 DEF TypeOK, ContextInv, EnterTopHalf, Line!Deliver, HardFrame, softVars,
                counters, history
  <2>3. CASE TopHalfLock(c)
    BY <2>3 DEF TypeOK, TopHalfLock, HardFrame, softVars, counters, history
  <2>4. CASE TopHalfStamp(c)
    BY <2>4 DEF TypeOK, TopHalfStamp, Stamp
  <2>5. CASE TopHalfSchedule(c)
    BY <2>5 DEF TopHalfSchedule, TaskletSchedule
  <2> QED
    BY <1>4, <2>1, <2>2, <2>3, <2>4, <2>5 DEF HardStep
<1>5. ASSUME NEW c \in CPUs, SoftStep(c) PROVE ReportInv'
  BY <1>5 DEF TypeOK, LoadInv, CountInv, SoftStep, EnterBottomHalf, BottomHalfLock,
              BottomHalfCount, SoftFrame, hardVars, counters, history
<1> QED
  BY <1>1, <1>2, <1>3, <1>4, <1>5 DEF Next

-----------------------------------------------------------------------------
(***************************************************************************)
(* The raisers and the insmod/rmmod task.                                  *)
(***************************************************************************)

LEMMA RaiserInvStep ==
  ASSUME TypeOK, RaiserInv, Next \/ UNCHANGED vars
  PROVE  RaiserInv'
<1> USE DEF RaiserInv
<1>1. CASE LoaderStep \/ Rmmod
  <2>1. gs_raise_count' = gs_raise_count /\ raised' = raised
    BY <1>1, LoaderFrameLemma
    DEF LoaderFrame, LoaderStep, Rmmod, CreateSim, CreateMapping, RequestIrq,
        RegisterThread, RegisterReturns, StopThread, UnregisterReturns, FreeIrq,
        FreeIrqReturns, DisposeMapping, RemoveSim, KillTasklet, Obtain, GiveUp, Proceed,
        smpVars
  <2>2. CASE \E c \in CPUs : RegisterThread(c) \/ StopThread(c)
    BY <2>1, <2>2 DEF TypeOK, Smp!SmpTypeOK, RegisterThread, StopThread, Smp!Spawn,
                      Smp!Stop
  <2>3. CASE thread' = thread
    BY <2>1, <2>3
  <2> QED
    BY <1>1, <2>2, <2>3
    DEF LoaderStep, Rmmod, CreateSim, CreateMapping, RequestIrq, RegisterReturns,
        UnregisterReturns, FreeIrq, FreeIrqReturns, DisposeMapping, RemoveSim,
        KillTasklet, Obtain, GiveUp, Proceed, smpVars
<1>2. CASE Unloaded \/ UNCHANGED vars
  BY <1>2, StutterLemma DEF vars, smpVars
<1>3. ASSUME NEW c \in CPUs, RaiserStep(c) PROVE RaiserInv'
  <2>1. CASE RunIrqRaiser(c)
    BY <2>1 DEF RunIrqRaiser, irq_raiser_should_run
  <2>2. CASE CountRaise(c)
    BY <2>2 DEF TypeOK, CountRaise, Count
  <2> QED
    BY <1>3, <2>1, <2>2 DEF RaiserStep
<1>4. ASSUME NEW c \in CPUs, HardStep(c) \/ SoftStep(c) PROVE RaiserInv'
  BY <1>4 DEF HardStep, Interrupt, EnterTopHalf, DropRaise, EndIrqWork, TopHalfLock,
              TopHalfStamp, Stamp, TopHalfSchedule, HardFrame, SoftStep, EnterBottomHalf,
              BottomHalfLock, BottomHalfCount, SoftFrame, smpVars
<1>5. ASSUME NEW c \in CPUs, Hotplug(c) PROVE RaiserInv'
  BY <1>5 DEF TypeOK, Smp!SmpTypeOK, Hotplug, CpuOffline, CpuOnline, Smp!Offline,
              Smp!Online
<1> QED
  BY <1>1, <1>2, <1>3, <1>4, <1>5 DEF Next

\* The handler, and so tasklet_schedule(), runs only while the line is requested
\* or free_irq() is waiting for it.
LEMMA HandlerLemma ==
  ASSUME ContextInv, LoaderInv, NEW c \in CPUs, hardPc[c] # "none"
  PROVE  pc \in {"register", "live", "unregister", "free_irq", "synchronize_irq"}
         \/ pc \notin LoaderPcs
  BY DEF ContextInv, LoaderInv, LoaderPcs

LEMMA LoaderInvStep ==
  ASSUME TypeOK, ContextInv, RaiserInv, LoaderInv, Next \/ UNCHANGED vars
  PROVE  LoaderInv'
<1>1. CASE LoaderStep \/ Rmmod
  <2>1. UNCHANGED <<lineVars, softVars, sched>>
    BY <1>1, LoaderFrameLemma DEF LoaderFrame
  <2>2. held' = HeldAt(pc')
    BY <1>1
    DEF LoaderInv, HeldAt, LoaderStep, Rmmod, CreateSim, CreateMapping, RequestIrq,
        RegisterThread, RegisterReturns, StopThread, UnregisterReturns, FreeIrq,
        FreeIrqReturns, DisposeMapping, RemoveSim, KillTasklet, Obtain, GiveUp, Proceed,
        Goto
  <2>3. pc' \notin {"register", "live", "unregister"} => \A c \in CPUs : thread'[c] = "none"
    BY <1>1
    DEF LoaderInv, LoaderStep, Rmmod, CreateSim, CreateMapping, RequestIrq,
        RegisterThread, RegisterReturns, StopThread, UnregisterReturns, FreeIrq,
        FreeIrqReturns, DisposeMapping, RemoveSim, KillTasklet, Obtain, GiveUp, Proceed,
        Goto, Smp!NoThreads, smpVars
  <2>4. pc' \in {"create_sim", "create_mapping", "request_irq", "kill_tasklet", "gone"} =>
          work = {} /\ \A c \in CPUs : irq[c] = "idle"
    BY <1>1
    DEF LoaderInv, LoaderStep, Rmmod, CreateSim, CreateMapping, RequestIrq,
        RegisterThread, RegisterReturns, StopThread, UnregisterReturns, FreeIrq,
        FreeIrqReturns, DisposeMapping, RemoveSim, KillTasklet, Obtain, GiveUp, Proceed,
        Goto, Line!Quiet
  <2>5. pc' \in {"dispose_mapping", "remove_sim"} => \A c \in CPUs : irq[c] # "handler"
    BY <1>1
    DEF LoaderInv, LoaderStep, Rmmod, CreateSim, CreateMapping, RequestIrq,
        RegisterThread, RegisterReturns, StopThread, UnregisterReturns, FreeIrq,
        FreeIrqReturns, DisposeMapping, RemoveSim, KillTasklet, Obtain, GiveUp, Proceed,
        Goto, Line!InProgress
  <2>6. pc' = "gone" => sched = {} /\ \A c \in CPUs : softPc[c] = "none"
    BY <1>1
    DEF LoaderInv, LoaderStep, Rmmod, CreateSim, CreateMapping, RequestIrq,
        RegisterThread, RegisterReturns, StopThread, UnregisterReturns, FreeIrq,
        FreeIrqReturns, DisposeMapping, RemoveSim, KillTasklet, Obtain, GiveUp, Proceed,
        Goto
  <2> QED
    BY <2>1, <2>2, <2>3, <2>4, <2>5, <2>6 DEF LoaderInv, lineVars, softVars
<1>2. CASE Unloaded \/ UNCHANGED vars
  BY <1>2, StutterLemma DEF vars, smpVars, lineVars, softVars, LoaderInv
<1>3. ASSUME NEW c \in CPUs, RaiserStep(c) PROVE LoaderInv'
  <2>1. pc \in {"register", "live", "unregister"}
    BY <1>3 DEF LoaderInv, RaiserInv, RaiserStep, RunIrqRaiser, CountRaise, Count
  <2> QED
    BY <1>3, <2>1 DEF LoaderInv, RaiserStep, RunIrqRaiser, CountRaise, Count
<1>4. ASSUME NEW c \in CPUs, HardStep(c) PROVE LoaderInv'
  <2> USE DEF LoaderInv, HardFrame, smpVars, lineVars, softVars
  <2>1. CASE Interrupt(c) \/ EnterTopHalf(c)
    BY <2>1 DEF TypeOK, LoaderPcs, HeldAt, Line!LineTypeOK, Interrupt, EnterTopHalf,
                Line!Interrupt, Line!Deliver
  <2>2. CASE DropRaise(c) \/ EndIrqWork(c)
    BY <2>2 DEF TypeOK, Line!LineTypeOK, DropRaise, EndIrqWork, Line!Drop, Line!Drained
  <2>3. CASE TopHalfLock(c) \/ TopHalfStamp(c)
    BY <2>3 DEF TopHalfLock, TopHalfStamp, Stamp
  <2>4. CASE TopHalfSchedule(c)
    BY <2>4, HandlerLemma DEF TypeOK, LoaderPcs, TopHalfSchedule
  <2> QED
    BY <1>4, <2>1, <2>2, <2>3, <2>4 DEF HardStep
<1>5. ASSUME NEW c \in CPUs, SoftStep(c) PROVE LoaderInv'
  BY <1>5 DEF LoaderInv, TypeOK, SoftStep, EnterBottomHalf, BottomHalfLock,
              BottomHalfCount, SoftFrame, smpVars, lineVars
<1>6. ASSUME NEW c \in CPUs, Hotplug(c) PROVE LoaderInv'
  BY <1>6 DEF LoaderInv, TypeOK, Smp!SmpTypeOK, Hotplug, CpuOffline, CpuOnline,
              Smp!Offline, Smp!Online, lineVars, softVars
<1> QED
  BY <1>1, <1>2, <1>3, <1>4, <1>5, <1>6 DEF Next

-----------------------------------------------------------------------------
(***************************************************************************)
(* The raises: a handler takes the pending bit that a raise has set.       *)
(***************************************************************************)

\* What the raises, the handlers and the bit are counted by is finite.
LEMMA RaisesFinite ==
  ASSUME TypeOK
  PROVE  /\ IsFiniteSet(TopHalves) /\ Cardinality(TopHalves) \in Nat
         /\ IsFiniteSet(raised) /\ Cardinality(raised) \in Nat
         /\ Cardinality(Raises) \in Nat
         /\ SumFunction(gs_raise_count) = Cardinality(Raises)
<1> USE CompetitionAssumption DEF CompetitionAssumption
<1>1. TopHalves \in SUBSET CPUs /\ raised \in SUBSET CPUs
  BY DEF TypeOK, TopHalves
<1>2. gs_raise_count \in [CPUs -> 0 .. RAISES_PER_CPU]
  BY DEF TypeOK
<1>3. Cardinality(Raises) \in Nat
  BY UnitsFinite DEF Raises
<1>4. SumFunction(gs_raise_count) = Cardinality(Raises)
  BY <1>2, SumIsCardinality DEF Raises
<1> QED
  BY <1>1, <1>3, <1>4, FS_Subset, FS_CardinalityType

LEMMA RaisesStep ==
  ASSUME TypeOK, ContextInv, LoadInv, RaiserInv, RaisesInv, Next \/ UNCHANGED vars
  PROVE  RaisesInv'
<1> USE RaisesFinite DEF RaisesInv
<1>1. CASE LoaderStep \/ Rmmod
  <2>1. UNCHANGED <<pending, hardPc, gs_raise_count, gs_hardirq_run_count>>
    BY <1>1, LoaderFrameLemma DEF LoaderFrame, lineVars, hardVars, counters
  <2>2. raised' = raised
    BY <1>1
    DEF LoaderStep, Rmmod, CreateSim, CreateMapping, RequestIrq, RegisterThread,
        RegisterReturns, StopThread, UnregisterReturns, FreeIrq, FreeIrqReturns,
        DisposeMapping, RemoveSim, KillTasklet, Obtain, GiveUp, Proceed, smpVars
  <2> QED
    BY <2>1, <2>2 DEF TopHalves, Raises
<1>2. CASE Unloaded \/ UNCHANGED vars
  <2>1. UNCHANGED <<pending, hardPc, gs_raise_count, gs_hardirq_run_count, raised>>
    BY <1>2, StutterLemma DEF vars, smpVars, lineVars, hardVars, counters
  <2> QED
    BY <2>1 DEF TopHalves, Raises
<1>3. ASSUME NEW c \in CPUs, RaiserStep(c) PROVE RaisesInv'
  <2>1. CASE RunIrqRaiser(c)
    <3>1. Cardinality(raised') = Cardinality(raised) + 1
      BY <2>1, FS_AddElement DEF RunIrqRaiser
    <3>2. UNCHANGED <<hardPc, gs_raise_count, gs_hardirq_run_count>>
      BY <2>1 DEF RunIrqRaiser, hardVars, counters
    <3>3. gs_hardirq_run_count \in Nat
      BY DEF TypeOK
    <3>4. TopHalves' = TopHalves /\ Raises' = Raises
      BY <3>2 DEF TopHalves, Raises
    <3> QED
      BY <3>1, <3>2, <3>3, <3>4
  <2>2. CASE CountRaise(c)
    <3>1. Cardinality(raised') = Cardinality(raised) - 1
      BY <2>2, FS_RemoveElement DEF CountRaise
    <3>2. UNCHANGED <<pending, hardPc, gs_hardirq_run_count>>
      BY <2>2 DEF CountRaise, lineVars, hardVars, counters
    <3>3. gs_raise_count' = [gs_raise_count EXCEPT ![c] = @ + 1]
      BY <2>2 DEF CountRaise, Count
    <3>4. gs_raise_count \in [CPUs -> 0 .. RAISES_PER_CPU] /\ gs_raise_count[c] < RAISES_PER_CPU
      BY <2>2 DEF CountRaise, RaiserInv, TypeOK
    <3>5. Cardinality(Raises') = Cardinality(Raises) + 1
      <4>1. IsFiniteSet(CPUs) /\ RAISES_PER_CPU \in Nat
        BY CompetitionAssumption DEF CompetitionAssumption
      <4>2. Cardinality(Units(gs_raise_count', RAISES_PER_CPU, CPUs))
              = Cardinality(Units(gs_raise_count, RAISES_PER_CPU, CPUs)) + 1
        <5>1. /\ gs_raise_count' \in [CPUs -> 0 .. RAISES_PER_CPU]
              /\ gs_raise_count'[c] = gs_raise_count[c] + 1
              /\ \A d \in CPUs \ {c} : gs_raise_count'[d] = gs_raise_count[d]
          BY <3>3, <3>4, <4>1
        <5> QED
          BY <3>4, <4>1, <5>1, OneMoreUnit
      <4> QED
        BY <4>2 DEF Raises
    <3>6. TopHalves' = TopHalves
      BY <3>2 DEF TopHalves
    <3>7. gs_hardirq_run_count \in Nat
      BY DEF TypeOK
    <3> QED
      BY <3>1, <3>2, <3>5, <3>6, <3>7
  <2> QED
    BY <1>3, <2>1, <2>2 DEF RaiserStep
<1>4. ASSUME NEW c \in CPUs, HardStep(c) PROVE RaisesInv'
  <2>1. raised' = raised /\ Raises' = Raises
    BY <1>4 DEF HardStep, Interrupt, EnterTopHalf, DropRaise, EndIrqWork, TopHalfLock,
                TopHalfStamp, Stamp, TopHalfSchedule, HardFrame, smpVars, Raises
  <2>2. gs_hardirq_run_count \in Nat
    BY DEF TypeOK
  <2>3. CASE Interrupt(c) \/ DropRaise(c) \/ EndIrqWork(c)
    <3>1. TopHalves' = TopHalves /\ gs_hardirq_run_count' = gs_hardirq_run_count
      BY <2>3 DEF Interrupt, DropRaise, EndIrqWork, hardVars, counters, TopHalves
    <3>2. pending' => pending
      BY <2>3 DEF Interrupt, DropRaise, EndIrqWork, Line!Interrupt, Line!Drop, Line!Drained
    <3> QED
      BY <2>1, <2>2, <3>1, <3>2
  <2>4. CASE EnterTopHalf(c)
    <3>1. pending /\ ~pending' /\ gs_hardirq_run_count' = gs_hardirq_run_count
      BY <2>4 DEF EnterTopHalf, Line!Deliver, counters
    <3>2. TopHalves' = TopHalves \cup {c} /\ c \notin TopHalves
      BY <2>4 DEF TypeOK, ContextInv, EnterTopHalf, Line!Deliver, TopHalves
    <3>3. Cardinality(TopHalves') = Cardinality(TopHalves) + 1
      BY <3>2, FS_AddElement
    <3> QED
      BY <2>1, <2>2, <3>1, <3>3
  <2>5. CASE TopHalfLock(c) \/ TopHalfSchedule(c)
    <3>1. TopHalves' = TopHalves
      BY <2>5 DEF TypeOK, TopHalfLock, TopHalfSchedule, TopHalves
    <3>2. UNCHANGED <<pending, gs_hardirq_run_count>>
      BY <2>5 DEF TopHalfLock, TopHalfSchedule, Line!Return, lineVars, counters
    <3> QED
      BY <2>1, <2>2, <3>1, <3>2
  <2>6. CASE TopHalfStamp(c)
    <3>1. gs_hardirq_run_count' = gs_hardirq_run_count + 1 /\ pending' = pending
      BY <2>6 DEF LoadInv, TopHalfStamp, Stamp, lineVars
    <3>2. TopHalves' = TopHalves \ {c} /\ c \in TopHalves
      BY <2>6 DEF TypeOK, TopHalfStamp, Stamp, TopHalves
    <3>3. Cardinality(TopHalves') = Cardinality(TopHalves) - 1
      BY <3>2, FS_RemoveElement
    <3> QED
      BY <2>1, <2>2, <3>1, <3>3
  <2> QED
    BY <1>4, <2>3, <2>4, <2>5, <2>6 DEF HardStep
<1>5. ASSUME NEW c \in CPUs, SoftStep(c) \/ Hotplug(c) PROVE RaisesInv'
  <2>1. UNCHANGED <<pending, hardPc, gs_raise_count, gs_hardirq_run_count, raised>>
    BY <1>5 DEF SoftStep, EnterBottomHalf, BottomHalfLock, BottomHalfCount, SoftFrame,
                Hotplug, CpuOffline, CpuOnline, smpVars, lineVars, hardVars, counters
  <2> QED
    BY <2>1 DEF TopHalves, Raises
<1> QED
  BY <1>1, <1>2, <1>3, <1>4, <1>5 DEF Next

-----------------------------------------------------------------------------
(***************************************************************************)
(* The inductive invariant and what follows from it.                       *)
(***************************************************************************)

LEMMA InitIInv ==
  ASSUME Init
  PROVE  IInv
<1>1. TypeOK
  BY InitType
<1>2. LockInv /\ ContextInv
  BY DEF Init, Line!LineInit, LockInv, ContextInv
<1>3. LoadInv /\ CountInv /\ ReportInv /\ RaiserInv
  BY DEF Init, LoadInv, CountInv, CounterGapFree, ReportInv, RaiserInv
<1>4. LoaderInv
  BY DEF Init, Line!LineInit, Smp!SmpInit, LoaderInv, HeldAt
<1>5. RaisesInv
  <2>1. TopHalves = {} /\ raised = {} /\ ~pending /\ gs_hardirq_run_count = 0
    BY DEF Init, Line!LineInit, TopHalves
  <2>2. Cardinality(Raises) \in Nat
    BY <1>1, RaisesFinite
  <2> QED
    BY <2>1, <2>2, FS_EmptySet DEF RaisesInv
<1> QED
  BY <1>1, <1>2, <1>3, <1>4, <1>5 DEF IInv

LEMMA StepIInv ==
  ASSUME IInv, [Next]_vars
  PROVE  IInv'
<1> USE DEF IInv
<1>1. TypeOK'
  BY TypeStep
<1>2. LockInv' /\ ContextInv'
  BY LockStep, ContextStep
<1>3. LoadInv' /\ CountInv' /\ ReportInv'
  BY CounterStep, ReportStep
<1>4. RaiserInv' /\ LoaderInv'
  BY RaiserInvStep, LoaderInvStep
<1>5. RaisesInv'
  BY RaisesStep
<1> QED
  BY <1>1, <1>2, <1>3, <1>4, <1>5

\* The inductive invariant holds of every reachable state.
THEOREM Invariance == Spec => []IInv
  BY InitIInv, StepIInv, PTL DEF Spec

\* The state has its types; gs_raise_count never passes RAISES_PER_CPU.
THEOREM TypeCorrect == Spec => []TypeOK
<1>1. IInv => TypeOK
  BY DEF IInv
<1> QED
  BY <1>1, Invariance, PTL

\* Every top half and every bottom half adds exactly one to gs_shared_count.
THEOREM GapFree == Spec => []CounterGapFree
<1>1. IInv => CounterGapFree
  BY DEF IInv, CountInv
<1> QED
  BY <1>1, Invariance, PTL

\* No top half spins on a lock its own CPU's bottom half holds.
THEOREM NoDeadlockOnOneCpu == Spec => []NoSelfDeadlock
<1>1. IInv => NoSelfDeadlock
  BY DEF IInv, LockInv, ContextInv, NoSelfDeadlock
<1> QED
  BY <1>1, Invariance, PTL

\* Once top half and tasklet are idle, the latest hardirq has been reported.
THEOREM EveryHardirqReported == Spec => []NoHardirqUnreported
<1>1. IInv => NoHardirqUnreported
  BY DEF IInv, ReportInv, NoHardirqUnreported, ChainIdle
<1> QED
  BY <1>1, Invariance, PTL

\* The handler has not been entered more often than the CPUs have raised the line.
THEOREM RaisesNeverMultiply == Spec => []HandlerNeedsRaise
<1>1. ASSUME IInv PROVE HandlerNeedsRaise
  <2>1. gs_hardirq_run_count \in Nat
    BY <1>1 DEF IInv, TypeOK
  <2>2. gs_hardirq_run_count + Cardinality(TopHalves) <= SumFunction(gs_raise_count) + Cardinality(raised)
    BY <1>1, <2>1, RaisesFinite DEF IInv, RaisesInv
  <2> QED
    BY <2>2 DEF HandlerNeedsRaise, TopHalves
<1> QED
  BY <1>1, Invariance, PTL

\* Nothing of the module is left to run, and nothing is held, once it is gone.
THEOREM SafeUnload == Spec => []NoCodeAfterUnload
<1>1. ASSUME IInv PROVE NoCodeAfterUnload
  <2> SUFFICES ASSUME pc = "gone" PROVE NoCodeAfterUnload
    BY DEF NoCodeAfterUnload
  <2>1. held = {} /\ Smp!NoThreads /\ Line!Quiet
    BY <1>1 DEF IInv, LoaderInv, HeldAt, Smp!NoThreads, Line!Quiet
  <2>2. raised = {}
    BY <1>1, <2>1 DEF IInv, TypeOK, RaiserInv, Smp!NoThreads
  <2>3. sched = {} /\ \A c \in CPUs : hardPc[c] = "none" /\ softPc[c] = "none"
    BY <1>1, <2>1 DEF IInv, LoaderInv, ContextInv, Line!Quiet
  <2> QED
    BY <2>1, <2>2, <2>3 DEF NoCodeAfterUnload
<1> QED
  BY <1>1, Invariance, PTL

\* No raise finds the line freed, disposed of or removed.
THEOREM RaisesOnLiveLine == Spec => RaiseOnLiveLine
<1>1. ASSUME IInv, [Next]_vars
      PROVE  [raised' \subseteq raised \/ held = {"sim", "map", "irq"}]_vars
  <2>1. CASE \E c \in CPUs : RunIrqRaiser(c)
    <3>1. pc \in {"register", "live", "unregister"}
      BY <1>1, <2>1 DEF IInv, LoaderInv, RunIrqRaiser
    <3>2. held = {"sim", "map", "irq"}
      BY <1>1, <3>1 DEF IInv, LoaderInv, HeldAt
    <3> QED
      BY <3>2
  <2>2. CASE \E c \in CPUs : CountRaise(c)
    BY <2>2 DEF CountRaise, Count
  <2>3. CASE LoaderStep \/ Rmmod
    BY <2>3
    DEF LoaderStep, Rmmod, CreateSim, CreateMapping, RequestIrq, RegisterThread,
        RegisterReturns, StopThread, UnregisterReturns, FreeIrq, FreeIrqReturns,
        DisposeMapping, RemoveSim, KillTasklet, Obtain, GiveUp, Proceed, smpVars
  <2>4. CASE \E c \in CPUs : HardStep(c) \/ SoftStep(c) \/ Hotplug(c)
    BY <2>4
    DEF HardStep, Interrupt, EnterTopHalf, DropRaise, EndIrqWork, TopHalfLock,
        TopHalfStamp, Stamp, TopHalfSchedule, HardFrame, SoftStep, EnterBottomHalf,
        BottomHalfLock, BottomHalfCount, SoftFrame, smpVars, Hotplug, CpuOffline,
        CpuOnline
  <2>5. CASE UNCHANGED vars
    BY <2>5
  <2> QED
    BY <1>1, <2>1, <2>2, <2>3, <2>4, <2>5 DEF Next, RaiserStep, Unloaded
<1> QED
  BY <1>1, Invariance, PTL DEF Spec, RaiseOnLiveLine
=============================================================================
