-------------------------- MODULE DisableIrq_proofs --------------------------
(***************************************************************************)
(* disable_irq for any CPUs and any number of raises: a raise of the       *)
(* disabled line is latched before the next one is made, so that what is   *)
(* latched, queued for resending, in the handler and counted is one        *)
(* delivery altogether.                                                    *)
(***************************************************************************)
EXTENDS DisableIrq, TLAPS

Requested == {"disable_irq", "raise", "sleep", "enable_irq", "report", "live",
              "err_enable_irq", "free_irq"}

Disabled == {"raise", "sleep", "enable_irq", "err_enable_irq"}

\* Nothing is delivered yet where the line has never been enabled after raises.
Early == {"create_sim", "create_mapping", "request_irq", "disable_irq"}

\* What init and exit hold at each of their points.
LoaderInv ==
  /\ "irq" \in held <=> pc \in Requested
  /\ "map" \in held <=> pc \in Requested \cup {"request_irq", "synchronize_irq",
                                               "dispose_mapping"}
  /\ "sim" \in held <=> pc \notin {"create_sim", "gone"}
  /\ disabled <=> pc \in Disabled
  /\ pc \in Early => made = 0
  /\ pc = "raise" => made < DISABLED_RAISE_COUNT
  /\ pc \in {"sleep", "enable_irq", "report", "live"} => made > 0

\* The line is raised only while init sleeps after a raise, and nobody sees it.
LineInv ==
  /\ ~Line!InProgress
  /\ pending => ~Line!Quiet
  /\ pc # "sleep" => Line!Quiet

\* Where the one delivery is.
DeliveryInv ==
  /\ Deliveries \in {0, 1}
  /\ made = 0 => Deliveries = 0
  /\ disabled \/ pc \in Early => gs_handler_run_count = 0 /\ resend = "none"
  /\ latched => disabled
  /\ pc \in Disabled /\ made > 0 => latched \/ pending
  /\ pc \in {"report", "live", "free_irq"} /\ made > 0 => Deliveries = 1
  /\ resend = "queued" => pc \in Requested
  /\ resend = "handler" => pc \in Requested \cup {"synchronize_irq"}

IInv == TypeOK /\ LoaderInv /\ LineInv /\ DeliveryInv

USE DEF TypeOK, LoaderPcs, Line!LineTypeOK, Requested, Disabled, Early

LEMMA InitIInv == Init => IInv
<1> SUFFICES ASSUME Init PROVE IInv
  OBVIOUS
<1> USE DisableIrqAssumption DEF DisableIrqAssumption, Init, Line!LineInit
<1>1. TypeOK
  <2>1. Line!LineTypeOK
    OBVIOUS
  <2>2. made \in 0 .. DISABLED_RAISE_COUNT /\ gs_handler_run_count \in Nat
    OBVIOUS
  <2> QED
    BY <2>1, <2>2
<1>2. LoaderInv
  BY DEF LoaderInv
<1>3. LineInv
  BY DEF LineInv, Line!InProgress, Line!Quiet
<1>4. DeliveryInv
  BY DEF DeliveryInv, Deliveries
<1> QED
  BY <1>1, <1>2, <1>3, <1>4 DEF IInv

\* A step of the task that leaves the line and the delivery where they are.
LEMMA TaskKeeps ==
  ASSUME IInv,
         CreateSim \/ CreateMapping \/ RequestIrq \/ DisableIrq \/ RaiseFails
           \/ SleepReturns \/ Report \/ Rmmod \/ FreeIrqReturns
           \/ DisposeMapping \/ RemoveSim
  PROVE  IInv'
<1> USE DisableIrqAssumption
    DEF DisableIrqAssumption, CreateSim, CreateMapping, RequestIrq, DisableIrq, RaiseFails,
        SleepReturns, Report, Rmmod, FreeIrqReturns, DisposeMapping, RemoveSim,
        Obtain, GiveUp, Goto, TaskFrame, DisableFrame, LastRaise, lineVars, flowVars,
        IInv
<1>1. TypeOK'
  OBVIOUS
<1>2. LoaderInv'
  BY DEF LoaderInv
<1>3. LineInv'
  BY DEF LineInv, Line!InProgress, Line!Quiet
<1>4. DeliveryInv'
  <2>1. Deliveries' = Deliveries
    BY DEF Deliveries
  <2> QED
    BY <2>1 DEF DeliveryInv, LoaderInv, LineInv, Running
<1> QED
  BY <1>1, <1>2, <1>3, <1>4

LEMMA RaiseKeeps ==
  ASSUME IInv, NEW c \in CPUs, RaiseIrq(c)
  PROVE  IInv'
<1> USE DisableIrqAssumption
    DEF DisableIrqAssumption, RaiseIrq, Goto, Line!Raise, flowVars, IInv
<1>1. TypeOK'
  BY DEF LoaderInv
<1>2. LoaderInv'
  BY DEF LoaderInv
<1>3. LineInv'
  BY DEF LineInv, Line!InProgress, Line!Quiet
<1>4. DeliveryInv'
  BY DEF DeliveryInv, Deliveries
<1> QED
  BY <1>1, <1>2, <1>3, <1>4

\* The latched interrupt becomes a queued resend.
LEMMA EnableKeeps ==
  ASSUME IInv, EnableIrq \/ ErrEnableIrq
  PROVE  IInv'
<1> USE DEF EnableIrq, ErrEnableIrq, Enable, Goto, lineVars, IInv
<1>1. TypeOK'
  OBVIOUS
<1>2. LoaderInv'
  BY DEF LoaderInv
<1>3. LineInv'
  BY DEF LineInv, Line!InProgress, Line!Quiet
<1>4. DeliveryInv'
  BY DEF DeliveryInv, Deliveries, LoaderInv, LineInv
<1> QED
  BY <1>1, <1>2, <1>3, <1>4

\* free_irq() keeps the delivery or calls it off.
LEMMA FreeKeeps ==
  ASSUME IInv, FreeIrq
  PROVE  IInv'
<1> USE DEF FreeIrq, GiveUp, Goto, lineVars, IInv
<1>1. TypeOK'
  OBVIOUS
<1>2. LoaderInv'
  BY DEF LoaderInv
<1>3. LineInv'
  BY DEF LineInv, Line!InProgress, Line!Quiet
<1>4. DeliveryInv'
  BY DEF DeliveryInv, Deliveries, LoaderInv
<1> QED
  BY <1>1, <1>2, <1>3, <1>4

\* An interrupt of the line finds it disabled.
LEMMA LineKeeps ==
  ASSUME IInv, NEW c \in CPUs, LineStep(c)
  PROVE  IInv'
<1>1. CASE Interrupt(c) \/ EndIrqWork(c)
  <2> USE <1>1 DEF Interrupt, EndIrqWork, Line!Interrupt, Line!Drained, flowVars, IInv
  <2>1. TypeOK'
    OBVIOUS
  <2>2. LoaderInv'
    BY DEF LoaderInv
  <2>3. LineInv'
    BY DEF LineInv, Line!InProgress, Line!Quiet
  <2>4. DeliveryInv'
    BY DEF DeliveryInv, Deliveries
  <2> QED
    BY <2>1, <2>2, <2>3, <2>4
<1>2. CASE HandleSimpleIrq(c)
  <2>1. disabled /\ ~Running /\ pc = "sleep"
    BY <1>2 DEF HandleSimpleIrq, Line!Drop, Line!Deliver, IInv, LoaderInv, LineInv,
                DeliveryInv, Line!Quiet, Running
  <2>2. Line!Drop(c, FALSE) /\ latched'
        /\ UNCHANGED <<pc, held, made, disabled, resend, gs_handler_run_count>>
    BY <1>2, <2>1 DEF HandleSimpleIrq
  <2> USE <2>1, <2>2 DEF IInv, Line!Drop
  <2>3. TypeOK' /\ LoaderInv'
    BY DEF LoaderInv
  <2>4. LineInv'
    BY DEF LineInv, Line!InProgress, Line!Quiet
  <2>5. DeliveryInv'
    BY DEF DeliveryInv, Deliveries, LoaderInv
  <2> QED
    BY <2>3, <2>4, <2>5
<1> QED
  BY <1>1, <1>2 DEF LineStep

\* The resend goes on, from the queue to the handler and to the count.
LEMMA SoftKeeps ==
  ASSUME IInv, SoftStep
  PROVE  IInv'
<1>1. resend # "none" /\ ~disabled
      /\ UNCHANGED <<pc, held, made, lineVars, disabled, latched>>
      /\ \/ resend = "queued" /\ resend' = "handler" /\ UNCHANGED gs_handler_run_count
         \/ resend = "handler" /\ resend' = "none"
            /\ gs_handler_run_count' = gs_handler_run_count + 1
  BY DEF SoftStep, ResendBegins, TopHalf, Running, IInv, LineInv, DeliveryInv
<1> USE <1>1 DEF IInv, lineVars
<1>2. TypeOK' /\ LoaderInv'
  BY DEF LoaderInv
<1>3. LineInv'
  BY DEF LineInv, Line!InProgress, Line!Quiet
<1>4. DeliveryInv'
  BY DEF DeliveryInv, Deliveries
<1> QED
  BY <1>2, <1>3, <1>4

LEMMA NextIInv == IInv /\ [Next]_vars => IInv'
<1> SUFFICES ASSUME IInv, [Next]_vars PROVE IInv'
  OBVIOUS
<1>1. CASE UNCHANGED vars
  BY <1>1 DEF vars, lineVars, flowVars, IInv, LoaderInv, LineInv, DeliveryInv, Deliveries,
              Line!InProgress, Line!Quiet
<1> QED
  BY <1>1, TaskKeeps, RaiseKeeps, EnableKeeps, FreeKeeps, LineKeeps, SoftKeeps
  DEF Next, LoaderStep, Unloaded

LEMMA AlwaysIInv == Spec => []IInv
BY InitIInv, NextIInv, PTL DEF Spec

-----------------------------------------------------------------------------
(***************************************************************************)
(* The types of disable_irq's state, for any CPUs and number of raises.    *)
(***************************************************************************)
THEOREM DisableTypes == Spec => []TypeOK
BY AlwaysIInv, PTL DEF IInv

(***************************************************************************)
(* However often the disabled line is raised, and whichever raise fails,   *)
(* there is one delivery (lines 62-77 and 86-88 of disable_irq.c).         *)
(***************************************************************************)
THEOREM RaisesMerge == Spec => []MergedIntoOne
<1>1. IInv => MergedIntoOne
  <2> SUFFICES ASSUME IInv PROVE MergedIntoOne
    OBVIOUS
  <2>1. Deliveries <= (IF made = 0 THEN 0 ELSE 1)
    BY DEF IInv, DeliveryInv
  <2>2. ASSUME made > 0, Line!Quiet, "irq" \in held
        PROVE  Deliveries = 1
    BY <2>2 DEF IInv, LoaderInv, LineInv, DeliveryInv, Deliveries
  <2> QED
    BY <2>1, <2>2 DEF MergedIntoOne
<1> QED
  BY <1>1, AlwaysIInv, PTL

(***************************************************************************)
(* The handler runs from the resend only, of a line that is enabled and    *)
(* held, and nothing is left when the module is gone, on every path out    *)
(* (lines 86-93 and 100-102 of disable_irq.c).                             *)
(***************************************************************************)
THEOREM RunsOnlyResent == Spec => []OnlyResent
<1>1. IInv => OnlyResent
  <2> SUFFICES ASSUME IInv PROVE OnlyResent
    OBVIOUS
  <2>1. ~Line!InProgress
    BY DEF IInv, LineInv
  <2>2. resend # "none" => ~disabled /\ {"sim", "map"} \subseteq held
    BY DEF IInv, LoaderInv, DeliveryInv
  <2>3. resend = "queued" => "irq" \in held
    BY DEF IInv, LoaderInv, DeliveryInv
  <2>4. pc = "gone" => held = {} /\ Line!Quiet /\ resend = "none"
    BY DEF IInv, LoaderInv, LineInv, DeliveryInv
  <2> QED
    BY <2>1, <2>2, <2>3, <2>4 DEF OnlyResent
<1> QED
  BY <1>1, AlwaysIInv, PTL
=============================================================================
