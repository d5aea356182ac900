------------------------------- MODULE Guardian -------------------------------
(***************************************************************************)
(* UsagiInit as a supervisor: src/guardian.c, run_guardian of src/main.c   *)
(* and the signal handler of src/signals.c, over the table of              *)
(* ServiceTable and the kernel's view of the child processes.              *)
(*                                                                         *)
(* The shell phase appears here only by what it leaves in the table:       *)
(* Register stands for one background line of the script, from sh's fork   *)
(* to add_service.  Module Registration opens that step up.                *)
(*                                                                         *)
(* The control point pc of UsagiInit:                                      *)
(*   boot          a fresh image, before setup_signal_forwarding           *)
(*   shell         the shell phase (PHASE_SHELL)                           *)
(*   drain         run_guardian's first loop, about to call waitpid        *)
(*   drain_handle  in that loop, about to call handle_child_exit           *)
(*   poll, block   waitpid with WNOHANG, waitpid that may block            *)
(*   handle        about to call handle_child_exit                         *)
(*   restart       in restart_pending_services                             *)
(*   exited        UsagiInit is gone, with exit_code                       *)
(* From drain to restart the global `phase' is PHASE_GUARDIAN.             *)
(***************************************************************************)
EXTENDS ServiceTable, FiniteSets

CONSTANTS
  Services,         \* the background commands of the init script
  Pids,             \* pid numbers the kernel hands out
  NoService,        \* the command of a process that is no service
  NoPid,            \* what a failed fork() returns, and "nothing reaped"
  MAX_RESTARTS,     \* guardian.c: 999 in a release build, 2 otherwise
  RestartPolicy,    \* "terminated" | "failed" | "none": the build's flags
  Reinitialize,     \* REINITIALIZE_ON_ALL_SERVICE_TERMINATION
  TerminateAll,     \* TERMINATE_ALL_PROCESSES
  Faults,           \* what may go wrong around UsagiInit, see below
  MaxOrphans        \* bound: processes adopted over a whole behaviour

(* "fork"       fork() in do_restart may fail                              *)
(* "startup"    execvp of UsagiInit itself, or its start-up, may fail      *)
(* "add"        add_service may fail on getcwd or an overlong path         *)
(* "pid_reuse"  a pid may be handed out again while the table names it     *)
AllFaults == {"fork", "startup", "add", "pid_reuse"}

ASSUME GuardianAssumption ==
  /\ NoService \notin Services
  /\ NoPid \notin Pids
  /\ MAX_RESTARTS \in Nat
  /\ RestartPolicy \in {"terminated", "failed", "none"}
  /\ Reinitialize \in BOOLEAN
  /\ TerminateAll \in BOOLEAN
  /\ Faults \subseteq AllFaults
  /\ MaxOrphans \in Nat

VARIABLES
  services,         \* the table, a sequence of entries
  state,            \* kernel: Pids -> "free" | "running" | "zombie"
  command,          \* kernel: what each process was started to run
  clean,            \* kernel: a zombie's status is exit code 0
  now,              \* time(NULL), in seconds since UsagiInit was exec'd
  shutting_down,    \* the flag the signal handler sets
  pc,               \* the control point, see above
  reaped,           \* pid and status waitpid just returned
  exit_code,        \* "none" until pc = "exited"
  starts,           \* history: processes started per service since boot
  signalled,        \* history: processes a signal was forwarded to
  orphans           \* bound: processes adopted so far

kernel  == <<state, command, clean>>
history == <<starts, signalled>>
vars == <<services, kernel, now, shutting_down, pc, reaped, exit_code,
          history, orphans>>

GuardianPoints ==
  {"drain", "drain_handle", "poll", "block", "handle", "restart"}

Nothing == [pid |-> NoPid, ok |-> FALSE]

-----------------------------------------------------------------------------
(* compute_backoff: 1 s, doubled for each earlier restart, at most 30 s.   *)
BACKOFF_MAX_SECS == 30
Doubled == <<1, 2, 4, 8, 16, 32>>
compute_backoff(restart_count) ==
  LET delay == Doubled[IF restart_count < 5 THEN restart_count + 1 ELSE 6]
  IN  IF delay < BACKOFF_MAX_SECS THEN delay ELSE BACKOFF_MAX_SECS

(* The kernel's side of fork(), exit() and waitpid().                      *)
NamedPids == {services[i].pid : i \in DOMAIN services}
IsFree(p) ==
  state[p] = "free" /\ ("pid_reuse" \in Faults \/ p \notin NamedPids)
Spawn(p, svc) ==
  /\ IsFree(p)
  /\ state' = [state EXCEPT ![p] = "running"]
  /\ command' = [command EXCEPT ![p] = svc]
  /\ UNCHANGED clean
Reap(p) ==
  /\ state[p] = "zombie"
  /\ state' = [state EXCEPT ![p] = "free"]
  /\ command' = [command EXCEPT ![p] = NoService]
  /\ clean' = [clean EXCEPT ![p] = FALSE]
  /\ reaped' = [pid |-> p, ok |-> clean[p]]
NoZombie == \A p \in Pids : state[p] # "zombie"
NoChild == \A p \in Pids : state[p] = "free"
Live == {p \in Pids : state[p] = "running"}

Exited(code) == pc' = "exited" /\ exit_code' = code

-----------------------------------------------------------------------------
(* main up to the shell phase.  A signal that comes before                 *)
(* setup_signal_forwarding meets its default action: it ends the process,  *)
(* or is dropped by the kernel when UsagiInit is PID 1.                    *)
Boot ==
  /\ pc = "boot"
  /\ pc' = "shell"
  /\ UNCHANGED <<services, kernel, now, shutting_down, reaped, exit_code,
                 history, orphans>>
BootFails ==
  /\ pc = "boot" /\ "startup" \in Faults
  /\ Exited("failure")
  /\ UNCHANGED <<services, kernel, now, shutting_down, reaped, history, orphans>>
SignalBeforeHandler ==
  /\ pc = "boot"
  /\ Exited("killed")
  /\ UNCHANGED <<services, kernel, now, shutting_down, reaped, history, orphans>>

(* One background line of the script: usagi-reg forks s, writes its        *)
(* record, and main's read loop adds it to the table or, when add_service  *)
(* returns -1, leaves it running without an entry.                         *)
Launch(s, p) ==
  /\ pc = "shell" /\ starts[s] = 0
  /\ Spawn(p, s)
  /\ starts' = [starts EXCEPT ![s] = 1]
  /\ UNCHANGED <<now, shutting_down, pc, reaped, exit_code, signalled, orphans>>
Register(s, p) ==
  /\ Launch(s, p)
  /\ services' = AddService(services, s, p)
RegisterFails(s, p) ==
  /\ Launch(s, p)
  /\ "add" \in Faults
  /\ UNCHANGED services

(* sh has exited and the registration pipe is at end of file.              *)
EndShell ==
  /\ pc = "shell"
  /\ pc' = "drain"
  /\ UNCHANGED <<services, kernel, now, shutting_down, reaped, exit_code,
                 history, orphans>>

-----------------------------------------------------------------------------
(* run_guardian.  Its first loop reaps, without blocking, what died during *)
(* the shell phase; a table that is empty after it ends UsagiInit.         *)
LoopTopBlocks == "block"    \* mutant: always the blocking waitpid
LoopTop == IF HasDeadline(services) THEN "poll" ELSE "block"

DrainReap(p) ==
  /\ pc = "drain"
  /\ Reap(p)
  /\ pc' = "drain_handle"
  /\ UNCHANGED <<services, now, shutting_down, exit_code, history, orphans>>
DrainDone ==
  /\ pc = "drain" /\ NoZombie
  /\ IF Len(services) = 0
     THEN Exited("success")
     ELSE pc' = LoopTop /\ UNCHANGED exit_code
  /\ UNCHANGED <<services, kernel, now, shutting_down, reaped, history, orphans>>

(* The main loop: waitpid polls while a restart is scheduled (with a nap   *)
(* of 50 ms when children exist but none has died) and blocks otherwise;   *)
(* it returns at once when there is no child at all (ECHILD).              *)
WaitReapRegistered(p) ==    \* mutant: waits for the registered pids only
  /\ pc \in {"poll", "block"} /\ p \in NamedPids
  /\ Reap(p)
  /\ pc' = "handle"
  /\ UNCHANGED <<services, now, shutting_down, exit_code, history, orphans>>
WaitReap(p) ==
  /\ pc \in {"poll", "block"}
  /\ Reap(p)
  /\ pc' = "handle"
  /\ UNCHANGED <<services, now, shutting_down, exit_code, history, orphans>>
WaitNothing ==
  /\ \/ pc = "poll" /\ NoZombie
     \/ pc = "block" /\ NoChild
  /\ pc' = "restart"
  /\ UNCHANGED <<services, kernel, now, shutting_down, reaped, exit_code,
                 history, orphans>>

(* handle_child_exit.  What the table becomes for the reaped pid:          *)
Policy(ok) ==
  RestartPolicy = "terminated" \/ (RestartPolicy = "failed" /\ ~ok)
WantsRestartOnceMore(e, ok) ==      \* mutant: <= instead of <
  ~shutting_down /\ Policy(ok) /\ e.restart_count <= MAX_RESTARTS
WantsRestartOnceLess(e, ok) ==      \* mutant: the limit counts starts
  ~shutting_down /\ Policy(ok) /\ e.restart_count + 1 < MAX_RESTARTS
WantsRestartInShutdown(e, ok) ==    \* mutant: shutting_down is not tested
  Policy(ok) /\ e.restart_count < MAX_RESTARTS
WantsRestartAnyStatus(e, ok) ==     \* mutant: the exit status is not tested
  ~shutting_down /\ RestartPolicy # "none" /\ e.restart_count < MAX_RESTARTS
WantsRestart(e, ok) ==
  /\ ~shutting_down
  /\ Policy(ok)
  /\ e.restart_count < MAX_RESTARTS
ScheduleFlat(e) ==                  \* mutant: the delay never grows
  [e EXCEPT !.next_restart = now + compute_backoff(0)]
Schedule(e) ==
  [e EXCEPT !.next_restart = now + compute_backoff(e.restart_count)]
TableAfterExit(pid, ok) ==
  IF ~IsRegistered(services, pid) THEN services
  ELSE LET i == FindService(services, pid)
       IN  IF WantsRestart(services[i], ok)
           THEN [services EXCEPT ![i] = Schedule(services[i])]
           ELSE RemoveService(services, pid)

(* ... and the check at its end, which every reaped pid reaches.           *)
MustReinitializeEarly(tbl) ==       \* mutant: count <= 1
  Reinitialize /\ ~shutting_down /\ Len(tbl) <= 1
MustReinitializeStale(tbl) ==       \* mutant: the count from before the removal
  Reinitialize /\ ~shutting_down /\ Len(services) = 0
MustReinitialize(tbl) == Reinitialize /\ ~shutting_down /\ Len(tbl) = 0

HandleChildExit ==
  LET tbl == TableAfterExit(reaped.pid, reaped.ok)
  IN  /\ pc \in {"drain_handle", "handle"}
      /\ ~MustReinitialize(tbl)
      /\ services' = tbl
      /\ reaped' = Nothing
      /\ pc' = IF pc = "drain_handle" THEN "drain" ELSE "restart"
      /\ UNCHANGED <<kernel, now, shutting_down, exit_code, history, orphans>>

(* execvp of UsagiInit itself: a fresh image with the same children.       *)
Reexec ==
  LET tbl == TableAfterExit(reaped.pid, reaped.ok)
  IN  /\ pc \in {"drain_handle", "handle"}
      /\ MustReinitialize(tbl)
      /\ services' = <<>>
      /\ reaped' = Nothing
      /\ pc' = "boot"
      /\ now' = 0
      /\ starts' = [s \in Services |-> 0]
      /\ UNCHANGED <<kernel, shutting_down, exit_code, signalled, orphans>>
ReexecFails ==
  LET tbl == TableAfterExit(reaped.pid, reaped.ok)
  IN  /\ pc \in {"drain_handle", "handle"}
      /\ MustReinitialize(tbl)
      /\ "startup" \in Faults
      /\ services' = tbl
      /\ reaped' = Nothing
      /\ Exited("failure")
      /\ UNCHANGED <<kernel, now, shutting_down, history, orphans>>

(* restart_pending_services: do_restart on the first due entry until there *)
(* is none.  The parent's branch of do_restart does not look whether       *)
(* fork() gave it a child.                                                 *)
RestartedUncleared(e, new_pid) ==   \* mutant: next_restart stays set
  [e EXCEPT !.pid = new_pid, !.restart_count = @ + 1]
Restarted(e, new_pid) ==
  [e EXCEPT !.pid = new_pid, !.restart_count = @ + 1, !.next_restart = 0]
RestartOne(i, p) ==
  /\ pc = "restart" /\ i \in DOMAIN services
  /\ IsFirstDue(services, i, now)
  /\ Spawn(p, services[i].svc)
  /\ services' = [services EXCEPT ![i] = Restarted(services[i], p)]
  /\ starts' = [starts EXCEPT ![services[i].svc] = @ + 1]
  /\ UNCHANGED <<now, shutting_down, pc, reaped, exit_code, signalled, orphans>>
RestartForkFails(i) ==
  /\ pc = "restart" /\ i \in DOMAIN services
  /\ IsFirstDue(services, i, now)
  /\ "fork" \in Faults
  /\ services' = [services EXCEPT ![i] = Restarted(services[i], NoPid)]
  /\ UNCHANGED <<kernel, now, shutting_down, pc, reaped, exit_code, history,
                 orphans>>
RestartDone ==
  /\ pc = "restart"
  /\ ~\E i \in DOMAIN services : IsDue(services[i], now)
  /\ pc' = LoopTop
  /\ UNCHANGED <<services, kernel, now, shutting_down, reaped, exit_code,
                 history, orphans>>

(* signal_handler, for SIGINT, SIGTERM and SIGHUP.                         *)
ForwardOnce ==              \* mutant: only the first signal is forwarded
  signalled' = IF TerminateAll /\ ~shutting_down THEN signalled \cup Live
               ELSE signalled
Forward ==
  signalled' = IF TerminateAll THEN signalled \cup Live ELSE signalled
SignalInShell ==
  /\ pc = "shell"
  /\ shutting_down' = TRUE
  /\ Forward
  /\ UNCHANGED <<services, kernel, now, pc, reaped, exit_code, starts, orphans>>
SignalInGuardian ==
  /\ pc \in GuardianPoints
  /\ shutting_down' = TRUE
  /\ Forward
  /\ Exited("success")
  /\ UNCHANGED <<services, kernel, now, reaped, starts, orphans>>

-----------------------------------------------------------------------------
(* Around UsagiInit: a process ends, with a clean status or not; a         *)
(* process whose parent died is adopted (UsagiInit is PID 1 or a           *)
(* subreaper); the clock ticks.  Time only matters while a restart is      *)
(* scheduled in the future.                                                *)
Exit(p, ok) ==
  /\ pc # "exited"
  /\ state[p] = "running"
  /\ state' = [state EXCEPT ![p] = "zombie"]
  /\ clean' = [clean EXCEPT ![p] = ok]
  /\ signalled' = signalled \ {p}
  /\ UNCHANGED <<services, command, now, shutting_down, pc, reaped, exit_code,
                 starts, orphans>>
Adopt(p) ==
  /\ pc # "exited"
  /\ orphans < MaxOrphans
  /\ orphans' = orphans + 1
  /\ Spawn(p, NoService)
  /\ UNCHANGED <<services, now, shutting_down, pc, reaped, exit_code, history>>
Tick ==
  /\ pc \in GuardianPoints
  /\ \E i \in DOMAIN services : services[i].next_restart > now
  /\ now' = now + 1
  /\ UNCHANGED <<services, kernel, shutting_down, pc, reaped, exit_code,
                 history, orphans>>
Terminated == pc = "exited" /\ UNCHANGED vars

-----------------------------------------------------------------------------
Init ==
  /\ services = <<>>
  /\ state = [p \in Pids |-> "free"]
  /\ command = [p \in Pids |-> NoService]
  /\ clean = [p \in Pids |-> FALSE]
  /\ now = 0 /\ shutting_down = FALSE
  /\ pc = "boot" /\ reaped = Nothing /\ exit_code = "none"
  /\ starts = [s \in Services |-> 0]
  /\ signalled = {} /\ orphans = 0

GuardianStep ==
  \/ \E p \in Pids : DrainReap(p) \/ WaitReap(p)
  \/ DrainDone \/ WaitNothing
  \/ HandleChildExit \/ Reexec \/ ReexecFails
  \/ \E i \in 1 .. MAX_SERVICES :
       RestartForkFails(i) \/ \E p \in Pids : RestartOne(i, p)
  \/ RestartDone

ShellStep ==
  \/ Boot \/ BootFails
  \/ \E s \in Services, p \in Pids : Register(s, p) \/ RegisterFails(s, p)
  \/ EndShell

Environment ==
  \/ SignalBeforeHandler \/ SignalInShell \/ SignalInGuardian
  \/ \E p \in Pids : Adopt(p) \/ \E ok \in BOOLEAN : Exit(p, ok)
  \/ Tick

Next == GuardianStep \/ ShellStep \/ Environment \/ Terminated

(* UsagiInit keeps running its own code and time passes; nothing makes a   *)
(* script end, a process die or a signal come.                             *)
Fairness == WF_vars(GuardianStep) /\ WF_vars(Boot) /\ WF_vars(Tick)

Spec == Init /\ [][Next]_vars
FairSpec == Spec /\ Fairness

-----------------------------------------------------------------------------
(* What each variable holds.                                               *)
EntryType == [svc: Services, pid: Pids \cup {NoPid},
              restart_count: 0 .. MAX_RESTARTS, next_restart: Nat]
TypeOK ==
  /\ services \in Seq(EntryType)
  /\ Len(services) <= MAX_SERVICES
  /\ state \in [Pids -> {"free", "running", "zombie"}]
  /\ command \in [Pids -> Services \cup {NoService}]
  /\ clean \in [Pids -> BOOLEAN]
  /\ now \in Nat
  /\ shutting_down \in BOOLEAN
  /\ pc \in GuardianPoints \cup {"boot", "shell", "exited"}
  /\ reaped \in [pid: Pids \cup {NoPid}, ok: BOOLEAN]
  /\ exit_code \in {"none", "success", "failure", "killed"}
  /\ (exit_code = "none") <=> (pc # "exited")
  /\ starts \in [Services -> Nat]
  /\ signalled \subseteq Pids
  /\ orphans \in 0 .. MaxOrphans

Runs(p, s) == state[p] # "free" /\ command[p] = s
BeingHandled(pid) ==
  pc \in {"drain_handle", "handle", "exited"} /\ reaped.pid = pid

(* An entry without a scheduled restart guards something: its pid is an    *)
(* unreaped child that was started for that very service, or the child     *)
(* just reaped.  If this failed, no exit would ever be reported for the    *)
(* entry and the service would be lost (handle_child_exit, do_restart).    *)
Watched ==
  \A i \in DOMAIN services :
    ~IsScheduled(services[i]) =>
      \/ BeingHandled(services[i].pid)
      \/ services[i].pid \in Pids /\ Runs(services[i].pid, services[i].svc)

(* Conversely no service process is outside the table: remove_service only *)
(* drops what is dead, and a re-exec (whose new image starts with an empty *)
(* table) leaves no service of the old image running beside the new ones.  *)
Supervised ==
  \A p \in Pids : state[p] # "free" /\ command[p] \in Services =>
    \E i \in DOMAIN services : /\ services[i].pid = p
                               /\ services[i].svc = command[p]
                               /\ ~IsScheduled(services[i])

(* Two live processes never run the same service, over restarts of the     *)
(* service, reuse of table slots and re-execs of UsagiInit.                *)
OnePerService ==
  \A p, q \in Live : command[p] = command[q] /\ command[p] # NoService => p = q

(* A boot starts a service at most once from the script and MAX_RESTARTS   *)
(* times from do_restart.                                                  *)
RestartBudget == \A s \in Services : starts[s] <= MAX_RESTARTS + 1

(* Backoff as a rate: the n-th restart of a service comes no earlier than  *)
(* the sum of the first n delays after the boot, however the exits fall:   *)
(* 1, 3, 7, 15, 31 seconds and then BACKOFF_MAX_SECS more for each.        *)
SumOfDoubled == <<0, 1, 3, 7, 15, 31>>
BackoffSum(n) ==
  IF n < 6 THEN SumOfDoubled[n + 1] ELSE 31 + BACKOFF_MAX_SECS * (n - 5)
RestartRate ==
  \A s \in Services : starts[s] > 0 => now >= BackoffSum(starts[s] - 1)

(* A build that restarts every service drops one from the table only after *)
(* all its restarts were used, unless it is shutting down.                 *)
NeverDroppedEarly ==
  RestartPolicy = "terminated" /\ ~shutting_down =>
    \A s \in Services :
      \/ starts[s] \in {0, MAX_RESTARTS + 1}
      \/ \E i \in DOMAIN services : services[i].svc = s

(* A re-initialising build never sits in its main loop with nothing to     *)
(* guard: the last removal re-executes it.                                 *)
KeepsGuarding ==
  Reinitialize /\ ~shutting_down /\ pc \in {"poll", "block", "handle", "restart"}
    => Len(services) > 0

(* When UsagiInit exits because of a signal, every service process still   *)
(* running was sent that signal (README, "Signal forwarding"), whatever    *)
(* phase the signal met and whoever was registered or restarted after it.  *)
SignalForwarded ==
  pc = "exited" /\ exit_code = "success" /\ shutting_down =>
    \A p \in Live : command[p] # NoService => p \in signalled

(* Once shutting_down is set the guardian starts nothing more.             *)
NoRestartInShutdown ==
  [][shutting_down /\ pc # "shell" => starts' = starts]_vars

(* A restart once scheduled is carried out when it is due, by a process of *)
(* that service which the table then names, and until then nothing forgets *)
(* it or moves its deadline: no exit of another service or of an orphan,   *)
(* no removal that shifts the table's slots, no other restart, no signal   *)
(* and no re-exec of a UsagiInit that still has a restart to carry out.    *)
CarriedOut(e) ==
  /\ pc = "restart" /\ e.next_restart <= now
  /\ \E p \in Pids : /\ state[p] = "free" /\ state'[p] = "running"
                     /\ command'[p] = e.svc
                     /\ \E j \in DOMAIN services' : /\ services'[j].svc = e.svc
                                                   /\ services'[j].pid = p
PendingRestartKept ==
  [][\A i \in DOMAIN services :
       IsScheduled(services[i]) =>
         \/ \E j \in DOMAIN services' : services'[j] = services[i]
         \/ CarriedOut(services[i])]_vars

(* A boot whose script registered no service ends instead of starting over *)
(* (main.c, "Nothing to guard -- exit cleanly").                           *)
NoServicesNoReexec ==
  [][pc # "boot" /\ pc' = "boot" => \E s \in Services : starts[s] > 0]_vars

(* A scheduled restart happens: the service runs again, unless UsagiInit   *)
(* exits first.                                                            *)
EventuallyRestarted ==
  \A s \in Services :
    (\E i \in DOMAIN services : services[i].svc = s /\ IsScheduled(services[i]))
      ~> (pc = "exited" \/ \E p \in Live : command[p] = s)

(* A service that dies in the guardian phase is reaped.                    *)
ExitNoticed ==
  \A p \in Pids :
    (state[p] = "zombie" /\ pc \in GuardianPoints)
      ~> (state[p] = "free" \/ pc = "exited" \/ pc = "shell")

(* A guardian with an empty table and no child left ends (main.c, "Nothing *)
(* to guard -- exit cleanly").                                             *)
NothingToGuardExits ==
  (pc \in GuardianPoints /\ services = <<>> /\ NoChild) ~> pc \in {"exited", "boot"}
=============================================================================
