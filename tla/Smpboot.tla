------------------------------- MODULE Smpboot -------------------------------
(***************************************************************************)
(* The per-CPU hotplug threads two samples register with                   *)
(* smpboot_register_percpu_thread().  An external component, modelled from *)
(* what the samples rely on: one kthread per online CPU, bound to it,      *)
(* parked before its CPU goes offline, unparked (or created) when the CPU  *)
(* comes online, and stopped, on every CPU, before unregistering returns.  *)
(* The composing module excludes hotplug while it registers or             *)
(* unregisters, which smpboot does under cpus_read_lock().                 *)
(***************************************************************************)
EXTENDS FiniteSets

CONSTANTS
  CPUs,        \* the possible CPUs
  Pluggable    \* those that may go offline and online

VARIABLES
  online,      \* the online CPUs
  thread       \* the hotplug thread of each CPU

SmpTypeOK ==
  /\ online \subseteq CPUs
  /\ thread \in [CPUs -> {"none", "active", "parked"}]

\* The sample is loaded while any of the pluggable CPUs may be offline.
SmpInit ==
  /\ online \in {S \in SUBSET CPUs : CPUs \ Pluggable \subseteq S /\ S # {}}
  /\ thread = [c \in CPUs |-> "none"]

NoThreads == \A c \in CPUs : thread[c] = "none"

\* smpboot_register_percpu_thread() creates and unparks the thread of CPU c.
Spawn(c) ==
  /\ c \in online
  /\ thread[c] = "none"
  /\ thread' = [thread EXCEPT ![c] = "active"]
  /\ UNCHANGED online

\* kthread_stop() of CPU c's thread, which returns when the thread has ended.
Stop(c) ==
  /\ thread[c] # "none"
  /\ thread' = [thread EXCEPT ![c] = "none"]
  /\ UNCHANGED online

\* CPU c goes down; its thread reaches its parking point first.
Offline(c) ==
  /\ c \in Pluggable \cap online
  /\ online # {c}
  /\ online' = online \ {c}
  /\ thread' = [thread EXCEPT ![c] = IF @ = "active" THEN "parked" ELSE @]

\* CPU c comes up; its thread runs if a registration is in force.
Online(c, registered) ==
  /\ c \in Pluggable \ online
  /\ online' = online \cup {c}
  /\ thread' = [thread EXCEPT ![c] = IF registered THEN "active" ELSE @]
=============================================================================
