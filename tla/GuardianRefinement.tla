-------------------------- MODULE GuardianRefinement --------------------------
(* Module Guardian implements module Supervision. *)
EXTENDS Guardian

EntryOf(s) == CHOOSE i \in DOMAIN services : services[i].svc = s

DeadStage(ok) == IF ok THEN "ended" ELSE "failed"

(* The stage of a service, read off the table, the processes and the pid   *)
(* that handle_child_exit is about to look up.                             *)
GuardedStage(e) ==
  IF IsScheduled(e) THEN "backoff"
  ELSE IF BeingHandled(e.pid) THEN DeadStage(reaped.ok)
  ELSE IF state[e.pid] = "running" THEN "up"
  ELSE DeadStage(clean[e.pid])
StageOf(s) ==
  IF starts[s] = 0 THEN "idle"
  ELSE IF \E i \in DOMAIN services : services[i].svc = s
       THEN GuardedStage(services[EntryOf(s)])
       ELSE "gone"

LifeBar == [s \in Services |-> StageOf(s)]
TriesBar == [s \in Services |-> IF starts[s] = 0 THEN 0 ELSE starts[s] - 1]

Promise == INSTANCE Supervision WITH
  life <- LifeBar, tries <- TriesBar,
  stopping <- shutting_down, halted <- pc = "exited"

(* Every behaviour of the guardian is one the promise allows.              *)
ImplementsPromise == Promise!Spec

(* A restart that is promised is carried out, unless a stop comes first:   *)
(* do_restart is reached from whatever state the loop is in.               *)
KeepsPromise == Promise!Fairness
=============================================================================
