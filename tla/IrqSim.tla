------------------------------- MODULE IrqSim -------------------------------
(***************************************************************************)
(* The simulated interrupt line every IRQ sample of the repository uses:   *)
(* one virq of an irq_sim domain (irq_domain_create_sim), delivered by the *)
(* generic IRQ layer.  The kernel is not part of the repository, so this   *)
(* module is an external component, modelled from what the samples rely    *)
(* on: one pending bit per line and one irq_work per domain, so raises     *)
(* that land together merge; a raise that is delivered while the handler   *)
(* is INPROGRESS is dropped, never queued.                                 *)
(*                                                                         *)
(* The composing module says when a raise, a delivery and a return of the  *)
(* handler happen and what the handler does in between.                    *)
(***************************************************************************)
CONSTANT CPUs

VARIABLES
  pending,   \* irq_sim's pending bit of the line
  work,      \* the CPU whose irq_work list holds the domain's irq_work, as a set
  irq        \* hardirq context of each CPU: out of it, draining, in the handler

LineTypeOK ==
  /\ pending \in BOOLEAN
  /\ work \subseteq CPUs
  /\ irq \in [CPUs -> {"idle", "drain", "handler"}]

LineInit ==
  /\ pending = FALSE
  /\ work = {}
  /\ irq = [c \in CPUs |-> "idle"]

\* IRQD_IRQ_INPROGRESS of the line's descriptor.
InProgress == \E c \in CPUs : irq[c] = "handler"

\* Nothing of the line is queued or running any more (irq_work_sync).
Quiet == work = {} /\ \A c \in CPUs : irq[c] = "idle"

(***************************************************************************)
(* irq_set_irqchip_state(virq, IRQCHIP_STATE_PENDING, true) on CPU c of a  *)
(* line that is enabled.  An irq_work that is already queued stays where   *)
(* it is.                                                                  *)
(***************************************************************************)
Raise(c) ==
  /\ pending' = TRUE
  /\ work' = IF work = {} THEN {c} ELSE work
  /\ UNCHANGED irq

\* The irq_work interrupt reaches CPU c.
Interrupt(c) ==
  /\ c \in work
  /\ irq[c] = "idle"
  /\ work' = {}
  /\ irq' = [irq EXCEPT ![c] = "drain"]
  /\ UNCHANGED pending

\* The irq_work consumes the pending bit and the handler is entered.
Deliver(c) ==
  /\ irq[c] = "drain"
  /\ pending
  /\ ~InProgress
  /\ pending' = FALSE
  /\ irq' = [irq EXCEPT ![c] = "handler"]
  /\ UNCHANGED work

(***************************************************************************)
(* The irq_work consumes the pending bit and no handler is entered: one is *)
(* INPROGRESS on another CPU, or the line has none (requested is FALSE).   *)
(***************************************************************************)
Drop(c, requested) ==
  /\ irq[c] = "drain"
  /\ pending
  /\ InProgress \/ ~requested
  /\ pending' = FALSE
  /\ UNCHANGED <<work, irq>>

\* The handler on CPU c returns to the irq_work, which looks for more work.
Return(c) ==
  /\ irq[c] = "handler"
  /\ irq' = [irq EXCEPT ![c] = "drain"]
  /\ UNCHANGED <<pending, work>>

\* The pending bitmap is empty: the irq_work ends.
Drained(c) ==
  /\ irq[c] = "drain"
  /\ ~pending
  /\ irq' = [irq EXCEPT ![c] = "idle"]
  /\ UNCHANGED <<pending, work>>
=============================================================================
