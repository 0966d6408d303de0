---------------------------- MODULE Supervision -----------------------------
(***************************************************************************)
(* The screens of an administrator: those that read the database and the   *)
(* one that reads the queue.  They share no state, so that a behaviour     *)
(* follows one of them while the other part of the system is left alone.   *)
(***************************************************************************)
EXTENDS Readings, QueueMonitor

VARIABLE screen  \* what the administrator looks at

vars == <<readingsVars, queueVars, screen>>

TypeOK == ReadingsTypeOK /\ QueueTypeOK /\ screen \in {"database", "queue"}

Init ==
  /\ ReadingsInit /\ QueueInit
  /\ screen \in {"database", "queue"}
  /\ screen = "database" => grouped  \* the queue is not looked at

Next ==
  /\ \/ screen = "database" /\ ReadingsNext /\ UNCHANGED queueVars
     \/ screen = "queue" /\ QueueNext /\ UNCHANGED readingsVars
  /\ UNCHANGED screen

Spec == Init /\ [][Next]_vars
=============================================================================
