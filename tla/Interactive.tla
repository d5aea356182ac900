----------------------------- MODULE Interactive -----------------------------
(***************************************************************************)
(* The fallback shell, which reads commands when no script can be opened:  *)
(* run_command and execute_pipeline of src/shell/executor.c inside the     *)
(* process that is to be the guardian, before the guardian of Guardian.    *)
(* The shell waits for its own commands while services may die, and the    *)
(* table only learns of those whose exit the guardian gets to see.         *)
(*                                                                         *)
(* The control point at_shell of the shell, while pc = "shell":            *)
(*   prompt      about to read a line                                      *)
(*   stage       in a pipeline, about to fork the next command             *)
(*   wait_own    in waitpid(pid) for its foreground command                *)
(*   wait_any    in wait(NULL), or in waitpid(-1) after a failed fork      *)
(***************************************************************************)
EXTENDS Guardian

CONSTANTS
  MAX_CMDS,         \* executor.c: commands of a pipeline, 10
  MaxTyped          \* bound: lines other than background lines

ASSUME InteractiveAssumption == MAX_CMDS \in Nat \ {0} /\ MaxTyped \in Nat

VARIABLES
  at_shell,         \* the control point, see above
  fg,               \* the foreground command that is waited for
  stages,           \* commands of the pipeline not yet forked
  jobs,             \* history: foreground processes of this image, unreaped
  taken,            \* history: what else the shell's waits reaped
  typed             \* bound

shell == <<at_shell, fg, stages, jobs, taken, typed>>
allvars == <<vars, shell>>

-----------------------------------------------------------------------------
AtShell(point) == pc = "shell" /\ at_shell = point
Type ==
  /\ AtShell("prompt") /\ typed < MaxTyped
  /\ typed' = typed + 1
AfterWait == IF stages = 0 THEN "prompt" ELSE "stage"
Ends(code) == Exited(code) /\ UNCHANGED <<services, kernel, now, shutting_down,
                                          reaped, history, orphans>>
SameGuardian == UNCHANGED <<services, now, shutting_down, pc, reaped, exit_code,
                            history, orphans>>

(* A background line: fork and add_service, as one line of a script.  The  *)
(* pid is not looked at: a failed fork gives an entry of its own.          *)
RunBackground ==
  /\ AtShell("prompt")
  /\ \E s \in Services, p \in Pids : Register(s, p) \/ RegisterFails(s, p)
  /\ UNCHANGED shell
BackgroundForkFails(s) ==
  /\ Type /\ "fork" \in Faults
  /\ services' = AddService(services, s, NoPid)
  /\ UNCHANGED <<kernel, now, shutting_down, pc, reaped, exit_code, history,
                 orphans, at_shell, fg, stages, jobs, taken>>

(* A foreground command, and waitpid for it.                               *)
RunForeground(p) ==
  /\ Type
  /\ Spawn(p, NoService)
  /\ fg' = p /\ jobs' = jobs \cup {p} /\ at_shell' = "wait_own"
  /\ SameGuardian /\ UNCHANGED <<stages, taken>>
ForegroundForkFails ==
  /\ Type /\ "fork" \in Faults
  /\ fg' = NoPid /\ at_shell' = "wait_any"
  /\ SameGuardian /\ UNCHANGED <<kernel, stages, jobs, taken>>

(* The builtin exit; end of input comes to EndShell instead.               *)
BuiltinExit == Type /\ Ends("success") /\ UNCHANGED <<at_shell, fg, stages, jobs, taken>>
EndOfInput == AtShell("prompt") /\ EndShell /\ UNCHANGED shell

(* A pipeline of fewer than MAX_CMDS commands dies in trim_whitespace; a   *)
(* longer one is cut at MAX_CMDS.  Each command is forked when a wait for  *)
(* whatever child has returned.                                            *)
ShortPipeline ==
  Type /\ MAX_CMDS > 1 /\ Ends("killed") /\ UNCHANGED <<at_shell, fg, stages, jobs, taken>>
LongPipeline ==
  /\ Type
  /\ stages' = MAX_CMDS /\ at_shell' = "stage"
  /\ SameGuardian /\ UNCHANGED <<kernel, fg, jobs, taken>>
AfterForkLast ==            \* mutant: the wait stands behind the loop
  IF stages > 1 THEN "stage" ELSE "wait_any"
AfterFork == "wait_any"
ForkStage ==
  /\ AtShell("stage")
  /\ stages' = stages - 1 /\ at_shell' = AfterFork
  /\ \/ \E p \in Pids : Spawn(p, NoService) /\ jobs' = jobs \cup {p}
     \/ "fork" \in Faults /\ UNCHANGED <<kernel, jobs>>
  /\ SameGuardian /\ UNCHANGED <<fg, taken, typed>>
PipeFails ==
  /\ AtShell("stage") /\ stages > 1 /\ "fork" \in Faults
  /\ Ends("failure") /\ UNCHANGED shell

(* The waits.  The status, and whose it was, is dropped.                   *)
Collect(p) ==
  /\ state[p] = "zombie"
  /\ state' = [state EXCEPT ![p] = "free"]
  /\ command' = [command EXCEPT ![p] = NoService]
  /\ clean' = [clean EXCEPT ![p] = FALSE]
  /\ jobs' = jobs \ {p}
  /\ SameGuardian /\ UNCHANGED <<fg, stages, typed>>
WaitForegroundAny(p) ==     \* mutant: wait(NULL) instead of waitpid(pid)
  /\ AtShell("wait_own")
  /\ Collect(p)
  /\ at_shell' = "prompt" /\ UNCHANGED taken
WaitForeground(p) ==
  /\ AtShell("wait_own") /\ p = fg
  /\ Collect(p)
  /\ at_shell' = "prompt" /\ UNCHANGED taken
WaitAny(p) ==
  /\ AtShell("wait_any")
  /\ Collect(p)
  /\ at_shell' = AfterWait
  /\ taken' = IF p \in jobs THEN taken ELSE taken \cup {command[p]}
WaitNobody ==
  /\ AtShell("wait_any") /\ NoChild
  /\ at_shell' = AfterWait
  /\ SameGuardian /\ UNCHANGED <<kernel, fg, stages, jobs, taken, typed>>

(* The guardian, which reaps what the shell left, and a re-execution of    *)
(* UsagiInit, which starts with a new table.                               *)
Guards ==
  /\ GuardianStep \/ Boot \/ BootFails \/ Environment \/ Terminated
  /\ taken' = IF pc' = "boot" THEN {} ELSE taken
  /\ jobs' = IF pc' = "boot" THEN {} ELSE {p \in jobs : state'[p] # "free"}
  /\ UNCHANGED <<at_shell, fg, stages, typed>>

-----------------------------------------------------------------------------
InteractiveInit ==
  /\ Init
  /\ at_shell = "prompt" /\ fg = NoPid /\ stages = 0
  /\ jobs = {} /\ taken = {} /\ typed = 0
InteractiveNext ==
  \/ RunBackground \/ ForegroundForkFails \/ BuiltinExit \/ EndOfInput
  \/ ShortPipeline \/ LongPipeline \/ ForkStage \/ PipeFails \/ WaitNobody
  \/ \E s \in Services : BackgroundForkFails(s)
  \/ \E p \in Pids : RunForeground(p) \/ WaitForeground(p) \/ WaitAny(p)
  \/ Guards
InteractiveSpec == InteractiveInit /\ [][InteractiveNext]_allvars

-----------------------------------------------------------------------------
(* The entries the guardian will never hear of again: their fork failed,   *)
(* or a wait of the shell took their exit.                                 *)
IsLost(e) == e.pid = NoPid \/ e.svc \in taken

(* A foreground command costs no service: whatever dies while the shell    *)
(* waits for its own command stays for the guardian to reap, so that only  *)
(* a pipeline or a failed fork can leave an entry nobody watches.          *)
LostOnlyToAnyWait ==
  \A i \in DOMAIN services :
    LET e == services[i]
    IN  ~IsScheduled(e) /\ ~IsLost(e) =>
          BeingHandled(e.pid) \/ (e.pid \in Pids /\ Runs(e.pid, e.svc))

(* And only such an entry can make the guardian of a re-initialising build *)
(* wait for children when there are none, that is for ever.                *)
SpinsOnlyIfLost ==
  Reinitialize /\ ~shutting_down /\ pc = "block" /\ NoChild =>
    \E i \in DOMAIN services : IsLost(services[i])

(* The prompt comes back after the command: the next line is run when all  *)
(* processes of the line before have ended, also those of a pipeline,      *)
(* unless a wait took the exit of something else for that of a command.    *)
PromptAfterCommand == AtShell("prompt") /\ taken = {} => jobs = {}
=============================================================================
