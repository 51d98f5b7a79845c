------------------------- MODULE SleepDanger_proofs -------------------------
(***************************************************************************)
(* The danger samples with their knob and their sleep, for any CPUs and    *)
(* users: they are samples as SimIrqSample describes them, so what is      *)
(* proved of those holds of them, and the dangerous code sleeps only armed *)
(* and on what is held.                                                    *)
(***************************************************************************)
EXTENDS SleepDanger, SimIrqSample_proofs

DangerInv ==
  /\ took # "none" => InDanger
  /\ InDanger /\ gs_debugfs_danger_enabled => armed
  /\ SleepsOnlyArmed

(***************************************************************************)
(* The danger samples behave as samples: the knob and the sleep add no     *)
(* step to the line, to the loader or to the users (refinement, with the   *)
(* variables of SimIrqSample kept as they are).                            *)
(***************************************************************************)
THEOREM DangerIsASample == DangerSpec => Spec
<1>1. DangerInit => Init
  BY DEF DangerInit
<1>2. [DangerNext]_allVars => [Next]_vars
  BY DEF DangerNext, allVars, DangerLoaderStep, DangerRmmod, DangerLineStep,
         DangerBottomStep, DangerUserStep, WriteKnob, DangerStep, ReadKnob, Wake, Next
<1> QED
  BY <1>1, <1>2, PTL DEF DangerSpec, Spec

\* No step changes the sample that is loaded.
LEMMA ProgKept ==
  ASSUME Next PROVE prog' = prog
BY DEF Next, LoaderStep, Rmmod, LineStep, BottomStep, UserStep, Unloaded, InitCall,
       InitFails, ReleaseBegins, ReleaseReturns, OpenTrigger, CloseTrigger, EnterKnob,
       LeaveKnob, trigger_write, Interrupt, EnterTopHalf, DropRaise, EndIrqWork,
       TopHalf, BottomHalfBegins, BottomHalfEnds, vars, loaderVars

LEMMA DangerNextInv ==
  ASSUME DangerInv, [DangerNext]_allVars
  PROVE  DangerInv'
<1>1. CASE Alongside
  <2>1. /\ took' = IF InDanger' THEN took ELSE "none"
        /\ armed' <=> InDanger' /\ IF InDanger THEN armed ELSE gs_debugfs_danger_enabled
        /\ gs_debugfs_danger_enabled' = gs_debugfs_danger_enabled
    BY <1>1 DEF Alongside
  <2>2. took # "none" => InDanger
    BY DEF DangerInv
  <2>3. CASE InDanger /\ InDanger'
    BY <2>1, <2>3 DEF DangerInv, SleepsOnlyArmed
  <2>4. CASE ~InDanger /\ InDanger'
    BY <2>1, <2>2, <2>4 DEF DangerInv, SleepsOnlyArmed
  <2>5. CASE ~InDanger'
    BY <2>1, <2>5 DEF DangerInv, SleepsOnlyArmed
  <2> QED
    BY <2>3, <2>4, <2>5
<1>2. CASE UNCHANGED allVars
  BY <1>2 DEF DangerInv, SleepsOnlyArmed, InDanger, Line!InProgress, allVars, vars,
              dangerVars, loaderVars, lineVars, bottomVars
<1>3. ASSUME UNCHANGED vars
      PROVE  InDanger' = InDanger
  BY <1>3 DEF InDanger, Line!InProgress, vars, loaderVars, lineVars, bottomVars
<1>4. ASSUME NEW u \in Users, NEW v \in BOOLEAN, WriteKnob(u, v)
      PROVE  DangerInv'
  <2>1. /\ gs_debugfs_danger_enabled' = v /\ took' = took
        /\ armed' <=> InDanger /\ (armed \/ v)
        /\ InDanger' = InDanger
    BY <1>3, <1>4 DEF WriteKnob
  <2>2. took # "none" => InDanger
    BY DEF DangerInv
  <2> QED
    BY <2>1, <2>2 DEF DangerInv, SleepsOnlyArmed
<1>5. CASE ReadKnob
  BY <1>3, <1>5 DEF DangerInv, SleepsOnlyArmed, ReadKnob
<1>6. CASE Wake
  BY <1>3, <1>6 DEF DangerInv, SleepsOnlyArmed, Wake
<1>7. CASE Unloaded /\ UNCHANGED dangerVars
  BY <1>2, <1>7 DEF Unloaded, allVars
<1> QED
  BY <1>1, <1>2, <1>4, <1>5, <1>6, <1>7
     DEF DangerNext, DangerLoaderStep, DangerRmmod, DangerLineStep, DangerBottomStep,
         DangerUserStep, DangerStep

LEMMA DangerSpecInv == DangerSpec => []DangerInv
<1>1. DangerInit => DangerInv
  BY DEF DangerInit, DangerInv, SleepsOnlyArmed, Init, InDanger, Line!InProgress,
         Line!LineInit
<1> QED
  BY <1>1, DangerNextInv, PTL DEF DangerSpec

\* Whatever the handler is built on is held with it.
LEMMA LineHeld ==
  ASSUME TypeOK, LoaderInv, "irq" \in held
  PROVE  {"sim", "map"} \subseteq held
<1>1. /\ BuiltOnHeld /\ held = Prefix(prog, Level) /\ Level \in 0 .. Len(prog.init)
      /\ Precedes(prog, "sim", "map") /\ Precedes(prog, "map", "irq")
      /\ WellFormed(prog)
  BY PrefixBuilt, ProgWellFormed, LevelType DEF LoaderInv, WellFormed
<1>2. "map" \in held
  BY <1>1, PrefixClosed
<1> QED
  BY <1>1, <1>2, PrefixClosed

LEMMA DangerousHeld ==
  ASSUME IInv, InDanger
  PROVE  /\ phase # "gone"
         /\ (IF prog.bottom = "none" THEN {"sim", "map", "irq"} ELSE {prog.bottom})
              \subseteq held
<1>1. TypeOK /\ LoaderInv /\ NoUseAfterRelease /\ NothingLeaks
  BY NothingHeldWhenGone DEF IInv
<1>2. CASE prog.bottom = "none"
  <2>1. "irq" \in Resources(prog)
    BY <1>1, ProgWellFormed DEF WellFormed
  <2>2. "irq" \in held
    BY <1>1, <1>2, <2>1 DEF InDanger, NoUseAfterRelease
  <2> QED
    BY <1>1, <1>2, <2>2, LineHeld DEF NothingLeaks
<1>3. CASE prog.bottom # "none"
  <2>1. prog.bottom # "thread"
    BY <1>1, DangerAssumption DEF TypeOK, DangerAssumption, DangerPrograms,
       sleep_in_hardirq_danger, sleep_in_softirq_danger
  <2>2. prog.bottom \in held
    BY <1>1, <1>3, <2>1 DEF InDanger, NoUseAfterRelease
  <2> QED
    BY <1>1, <1>3, <2>2 DEF NothingLeaks
<1> QED
  BY <1>2, <1>3

-----------------------------------------------------------------------------
(***************************************************************************)
(* The illegal path is taken only by code that was armed while it ran or   *)
(* when it was entered, for any users that write the knob at any time      *)
(* (sleep_in_hardirq_danger.c:152, sleep_in_softirq_danger.c:151).         *)
(***************************************************************************)
THEOREM NeverSleepsByAccident == DangerSpec => []SleepsOnlyArmed
<1>1. DangerInv => SleepsOnlyArmed
  BY DEF DangerInv
<1> QED
  BY <1>1, DangerSpecInv, PTL

(***************************************************************************)
(* Code that sleeps finds the line, or its tasklet, when it wakes up, and  *)
(* the module is not gone (sleep_in_hardirq_danger.c:244-247,              *)
(* sleep_in_softirq_danger.c:254-258).                                     *)
(***************************************************************************)
THEOREM SleeperFindsItsLine == DangerSpec => []SleeperIsWaitedFor
<1>1. IInv /\ DangerInv => SleeperIsWaitedFor
  BY DangerousHeld DEF DangerInv, SleeperIsWaitedFor
<1> QED
  BY <1>1, DangerIsASample, SpecIInv, DangerSpecInv, PTL
=============================================================================
