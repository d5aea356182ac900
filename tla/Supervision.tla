----------------------------- MODULE Supervision -----------------------------
(***************************************************************************)
(* What UsagiInit promises for each service, with no pids, table, signals  *)
(* or clock: the life of a service between the script's launch and the     *)
(* moment it is given up.  GuardianRefinement shows that module Guardian   *)
(* implements this specification.                                          *)
(*                                                                         *)
(*   idle     not launched by the script in this boot                      *)
(*   up       a process runs it                                            *)
(*   ended    its process exited with code 0, nothing decided yet          *)
(*   failed   its process ended otherwise, nothing decided yet             *)
(*   backoff  it will be started again                                     *)
(*   gone     it was given up                                              *)
(***************************************************************************)
EXTENDS Naturals

CONSTANTS Services, MAX_RESTARTS, RestartPolicy, Reinitialize

VARIABLES
  life,       \* Services -> one of the six stages above
  tries,      \* Services -> restarts used in this boot
  stopping,   \* UsagiInit was told to stop
  halted      \* UsagiInit is gone

vars == <<life, tries, stopping, halted>>

Move(s, stage) == life' = [life EXCEPT ![s] = stage]
Dead(s) == life[s] \in {"ended", "failed"}

(* The build's policy says that s is to run again.                         *)
Deserves(s) ==
  /\ ~stopping
  /\ \/ RestartPolicy = "terminated"
     \/ RestartPolicy = "failed" /\ life[s] = "failed"
  /\ tries[s] < MAX_RESTARTS

(* s is the last service there is anything to do about.                    *)
IsLast(s) == \A t \in Services \ {s} : life[t] \in {"idle", "gone"}

Start(s) ==
  /\ ~halted /\ life[s] = "idle"
  /\ Move(s, "up")
  /\ UNCHANGED <<tries, stopping, halted>>

Die(s, stage) ==
  /\ life[s] = "up"
  /\ Move(s, stage)
  /\ UNCHANGED <<tries, stopping, halted>>

Schedule(s) ==
  /\ ~halted /\ Dead(s) /\ Deserves(s)
  /\ Move(s, "backoff")
  /\ UNCHANGED <<tries, stopping, halted>>

Restart(s) ==
  /\ ~halted /\ ~stopping /\ life[s] = "backoff"
  /\ Move(s, "up")
  /\ tries' = [tries EXCEPT ![s] = @ + 1]
  /\ UNCHANGED <<stopping, halted>>

GiveUp(s) ==
  /\ ~halted /\ Dead(s) /\ ~Deserves(s)
  /\ ~(Reinitialize /\ ~stopping /\ IsLast(s))
  /\ Move(s, "gone")
  /\ UNCHANGED <<tries, stopping, halted>>

(* The last service is given up: everything starts over.                   *)
StartOver(s) ==
  /\ ~halted /\ Dead(s) /\ ~Deserves(s)
  /\ Reinitialize /\ ~stopping /\ IsLast(s)
  /\ life' = [t \in Services |-> "idle"]
  /\ tries' = [t \in Services |-> 0]
  /\ UNCHANGED <<stopping, halted>>

(* A request to stop is obeyed at once, or while the script still runs and *)
(* no restart is promised to anybody.                                      *)
Stop ==
  /\ ~halted
  /\ stopping' = TRUE
  /\ \/ halted' = TRUE
     \/ halted' = FALSE /\ \A s \in Services : life[s] # "backoff"
  /\ UNCHANGED <<life, tries>>

(* Without a request, only when nothing is left to supervise.              *)
Halt ==
  /\ ~halted
  /\ \A s \in Services : life[s] \in {"idle", "gone"}
  /\ halted' = TRUE
  /\ UNCHANGED <<life, tries, stopping>>

Init ==
  /\ life = [s \in Services |-> "idle"]
  /\ tries = [s \in Services |-> 0]
  /\ stopping = FALSE /\ halted = FALSE

Next ==
  \/ \E s \in Services :
       \/ Start(s) \/ Schedule(s) \/ Restart(s) \/ GiveUp(s) \/ StartOver(s)
       \/ \E stage \in {"ended", "failed"} : Die(s, stage)
  \/ Stop \/ Halt

(* A promised restart is carried out.                                      *)
Fairness == \A s \in Services : WF_vars(Restart(s))

Spec == Init /\ [][Next]_vars
FairSpec == Spec /\ Fairness
=============================================================================
