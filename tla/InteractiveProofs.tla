--------------------------- MODULE InteractiveProofs ---------------------------
(***************************************************************************)
(* What the fallback shell may lose, for every number of services, pids    *)
(* and lines typed, every policy, with forks that fail in the shell and in *)
(* do_restart, provided a pid is not reused while the table names it.      *)
(*                                                                         *)
(* Neither BudgetInv nor WatchInv holds here: a background line whose fork *)
(* failed adds an entry with pid -1, for whatever command, any number of   *)
(* times.  Only Typed and LoopInv carry over.                              *)
(***************************************************************************)
EXTENDS Interactive, GuardianProofs

(* What an entry says of its pid, if it has one: a scheduled entry names   *)
(* nobody, another one its process, the child in hand, or a process whose  *)
(* exit a wait of the shell took.                                          *)
SeenEntry(e, st, cmd, h, lost) ==
  /\ IsScheduled(e) => e.pid \in Pids /\ st[e.pid] = "free" /\ h # e.pid
  /\ ~IsScheduled(e) /\ e.pid \in Pids /\ h = e.pid => st[e.pid] = "free"
  /\ ~IsScheduled(e) /\ e.pid \in Pids /\ h # e.pid =>
       \/ st[e.pid] # "free" /\ cmd[e.pid] = e.svc
       \/ st[e.pid] = "free" /\ e.svc \in lost
RealPidsDistinct(tbl) ==
  \A i, j \in DOMAIN tbl : tbl[i].pid = tbl[j].pid /\ tbl[i].pid # NoPid => i = j
TableSeen(tbl, st, cmd, h, lost) ==
  /\ RealPidsDistinct(tbl)
  /\ \A i \in DOMAIN tbl : SeenEntry(tbl[i], st, cmd, h, lost)

(* The shell's own children run no service, so that its waits for them     *)
(* touch no entry; one of them is the command it waits for by its pid.     *)
ShellInv ==
  /\ jobs \subseteq Pids
  /\ \A p \in jobs : state[p] # "free" /\ command[p] = NoService
  /\ AtShell("wait_own") => fg \in jobs
  /\ pc \in GuardianPoints \cup {"boot"} => at_shell = "prompt"
  /\ pc = "boot" => taken = {} /\ jobs = {}

SeenInv ==
  /\ Typed
  /\ TableSeen(services, state, command, InHand, taken)
  /\ pc \notin Handling => reaped = Nothing
  /\ pc \in {"drain_handle", "handle"} => reaped.pid \in Pids

InteractiveInv == SeenInv /\ ShellInv /\ LoopInv

-----------------------------------------------------------------------------
(* What the shell's waits do to the process they collect.                  *)
Collected(p) ==
  /\ state[p] = "zombie"
  /\ state' = [state EXCEPT ![p] = "free"]
  /\ command' = [command EXCEPT ![p] = NoService]
  /\ clean' = [clean EXCEPT ![p] = FALSE]

(* A step of this system is one of Guardian, or a step of the shell, which *)
(* changes at most the processes, or adds an entry without a process, or   *)
(* ends UsagiInit.                                                         *)
ShellMove ==
  /\ pc = "shell"
  /\ UNCHANGED <<now, shutting_down, reaped, starts, signalled, orphans>>
  /\ \/ /\ UNCHANGED <<state, command, clean, pc, exit_code>>
        /\ \E s \in Services : services' = AddService(services, s, NoPid)
     \/ UNCHANGED <<services, state, command, clean, pc, exit_code>>
     \/ /\ UNCHANGED <<services, pc, exit_code>>
        /\ \E p \in Pids : Spawn(p, NoService) \/ Collected(p)
     \/ /\ UNCHANGED <<services, state, command, clean>>
        /\ pc' = "exited" /\ exit_code' \in {"success", "failure", "killed"}
ShellStepOf ==
  \/ ForegroundForkFails \/ BuiltinExit \/ ShortPipeline \/ LongPipeline
  \/ ForkStage \/ PipeFails \/ WaitNobody
  \/ \E s \in Services : BackgroundForkFails(s)
  \/ \E p \in Pids : RunForeground(p) \/ WaitForeground(p) \/ WaitAny(p)

(* Every step of the shell that Guardian does not know is such a move.     *)
LEMMA ShellMoves == ShellStepOf => ShellMove
<1> USE DEF SameGuardian, kernel, history, AtShell, Type, Ends, Exited
<1>1. ForegroundForkFails => ShellMove
  BY DEF ForegroundForkFails, ShellMove
<1>2. BuiltinExit \/ ShortPipeline \/ PipeFails => ShellMove
  BY DEF BuiltinExit, ShortPipeline, PipeFails, ShellMove
<1>3. LongPipeline \/ WaitNobody => ShellMove
  BY DEF LongPipeline, WaitNobody, ShellMove
<1>4. ForkStage => ShellMove
  BY DEF ForkStage, ShellMove
<1>5. ASSUME NEW s \in Services
      PROVE  BackgroundForkFails(s) => ShellMove
  BY DEF BackgroundForkFails, ShellMove
<1>6. ASSUME NEW p \in Pids
      PROVE  RunForeground(p) \/ WaitForeground(p) \/ WaitAny(p) => ShellMove
  BY DEF RunForeground, WaitForeground, WaitAny, Collect, Collected, ShellMove
<1> QED  BY <1>1, <1>2, <1>3, <1>4, <1>5, <1>6 DEF ShellStepOf

(* The rest of InteractiveNext is Guardian's: a background line whose fork *)
(* succeeds, the end of the input, and all that comes after it.            *)
LEMMA StepKinds ==
  InteractiveNext =>
    \/ ShellStepOf
    \/ RunBackground \/ EndOfInput \/ Guards
BY DEF InteractiveNext, ShellStepOf

(* Those are steps of Guardian, whose lemmas speak of them.                *)
LEMMA GuardianMoves == RunBackground \/ EndOfInput \/ Guards => Next
BY DEF RunBackground, EndOfInput, Guards, Next, ShellStep

-----------------------------------------------------------------------------
(* A move of the shell keeps the types, and the limit on restarts.         *)
LEMMA ShellTyped == Typed /\ ShellMove => Typed'
<1> SUFFICES ASSUME Typed, ShellMove PROVE Typed'
  OBVIOUS
<1>0. TypeOK /\ WithinLimit(services)
  BY DEF Typed
<1> USE DEF ShellMove
<1>1. ASSUME NEW s \in Services, services' = AddService(services, s, NoPid),
             UNCHANGED <<state, command, clean, pc, exit_code>>
      PROVE  Typed'
  <2>1. LET tbl == AddService(services, s, NoPid)
        IN  /\ tbl \in Seq(EntryType) /\ Len(tbl) <= MAX_SERVICES
            /\ \A j \in DOMAIN tbl :
                 \/ tbl[j] = Entry(s, NoPid)
                 \/ j \in DOMAIN services /\ tbl[j] = services[j]
    BY AddEntries
  <2>2. ~IsScheduled(Entry(s, NoPid))
    BY DEF Entry, IsScheduled
  <2>3. WithinLimit(AddService(services, s, NoPid))
    BY <1>0, <2>1, <2>2 DEF WithinLimit
  <2> QED  BY <1>0, <1>1, <2>1, <2>3 DEF TypeOK, Typed
<1>2. CASE UNCHANGED <<services, state, command, clean, pc, exit_code>>
  BY <1>0, <1>2 DEF TypeOK, WithinLimit, Typed
<1>3. ASSUME NEW p \in Pids, Spawn(p, NoService),
             UNCHANGED <<services, pc, exit_code>>
      PROVE  Typed'
  BY <1>0, <1>3, SpawnType DEF TypeOK, WithinLimit, Typed
<1>4. ASSUME NEW p \in Pids, Collected(p), UNCHANGED <<services, pc, exit_code>>
      PROVE  Typed'
  BY <1>0, <1>4 DEF Collected, TypeOK, WithinLimit, Typed
<1>5. CASE /\ UNCHANGED <<services, state, command, clean>>
           /\ pc' = "exited" /\ exit_code' \in {"success", "failure", "killed"}
  BY <1>0, <1>5 DEF TypeOK, WithinLimit, Typed
<1> QED  BY <1>1, <1>2, <1>3, <1>4, <1>5

(* While the shell is at work no restart is scheduled, so that it leaves   *)
(* the guardian's loop in order.                                           *)
LEMMA ShellLoop == LoopInv /\ ShellMove => LoopInv'
<1> SUFFICES ASSUME LoopInv, ShellMove PROVE LoopInv'
  OBVIOUS
<1>1. Typed /\ Typed' /\ pc = "shell" /\ Unscheduled(services)
  BY ShellTyped DEF LoopInv, ShellMove
<1>2. CASE pc' = "exited"
  BY <1>1, <1>2 DEF LoopInv, KeepsGuarding, BlocksUnscheduled
<1>3. CASE pc' = "shell"
  <2>1. Unscheduled(services')
    BY <1>1, <1>3, AddUnscheduled DEF ShellMove
  <2> QED
    BY <1>1, <1>3, <2>1
       DEF LoopInv, KeepsGuarding, BlocksUnscheduled, Unscheduled
<1> QED  BY <1>1, <1>2, <1>3 DEF ShellMove

(* Before the first boot the loop is in order.                             *)
LEMMA InteractiveLoopInit == InteractiveInit => LoopInv
BY LoopInit DEF InteractiveInit

(* Every step keeps it in order.                                           *)
LEMMA InteractiveLoop == LoopInv /\ [InteractiveNext]_allvars => LoopInv'
BY ShellLoop, ShellMoves, StepKinds, GuardianMoves, LoopStep DEF allvars

-----------------------------------------------------------------------------
(* What touches no named pid leaves the table as it was seen.              *)
LEMMA FrameSeen ==
  ASSUME NEW tbl, NEW st, NEW cmd, NEW h, NEW lost, TableSeen(tbl, st, cmd, h, lost),
         NEW st1, NEW cmd1, NEW h1, NEW lost1, lost \subseteq lost1,
         \A i \in DOMAIN tbl : tbl[i].pid \in Pids =>
           /\ st1[tbl[i].pid] = "free" <=> st[tbl[i].pid] = "free"
           /\ cmd1[tbl[i].pid] = cmd[tbl[i].pid]
           /\ h1 = tbl[i].pid <=> h = tbl[i].pid
  PROVE  TableSeen(tbl, st1, cmd1, h1, lost1)
BY DEF TableSeen, SeenEntry

(* The guardian takes a process into its hand.                             *)
LEMMA ReapSeen ==
  ASSUME Typed, TableSeen(services, state, command, NoPid, taken),
         NEW p \in Pids, Reap(p)
  PROVE  TableSeen(services, state', command', p, taken)
<1>1. /\ state[p] = "zombie" /\ state'[p] = "free"
      /\ \A q \in Pids \ {p} : state'[q] = state[q] /\ command'[q] = command[q]
  BY DEF Reap, Typed, TypeOK
<1>2. ASSUME NEW i \in DOMAIN services
      PROVE  SeenEntry(services[i], state', command', p, taken)
  <2>1. SeenEntry(services[i], state, command, NoPid, taken)
    BY DEF TableSeen
  <2>2. CASE services[i].pid = p
    BY <1>1, <2>1, <2>2, GuardianAssumption DEF SeenEntry
  <2>3. CASE services[i].pid # p
    BY <1>1, <2>1, <2>3, GuardianAssumption DEF SeenEntry
  <2> QED  BY <2>2, <2>3
<1> QED  BY <1>2 DEF TableSeen

(* A wait of the shell takes a process away: one of its own, or one whose  *)
(* service is counted as lost from then on.                                *)
LEMMA CollectSeen ==
  ASSUME Typed, TableSeen(services, state, command, NoPid, taken),
         NEW p \in Pids, Collected(p),
         NEW lost, taken \subseteq lost, command[p] \in lost \cup {NoService}
  PROVE  TableSeen(services, state', command', NoPid, lost)
<1>1. /\ state[p] = "zombie" /\ state'[p] = "free"
      /\ \A q \in Pids \ {p} : state'[q] = state[q] /\ command'[q] = command[q]
  BY DEF Collected, Typed, TypeOK
<1>2. \A i \in DOMAIN services : services[i].svc \in Services
  <2>1. \A i \in DOMAIN services : services[i] \in EntryType
    BY IndexBasics DEF Typed, TypeOK
  <2> QED  BY <2>1 DEF EntryType
<1>3. ASSUME NEW i \in DOMAIN services
      PROVE  SeenEntry(services[i], state', command', NoPid, lost)
  <2>1. SeenEntry(services[i], state, command, NoPid, taken)
    BY DEF TableSeen
  <2>2. CASE services[i].pid = p
    BY <1>1, <1>2, <2>1, <2>2, GuardianAssumption DEF SeenEntry
  <2>3. CASE services[i].pid # p
    BY <1>1, <2>1, <2>3, GuardianAssumption DEF SeenEntry
  <2> QED  BY <2>2, <2>3
<1> QED  BY <1>3 DEF TableSeen

(* A new entry: of a process started for it, or of a fork that failed.     *)
LEMMA AddSeen ==
  ASSUME Typed, NEW st, NEW cmd, NEW lost,
         TableSeen(services, st, cmd, NoPid, lost),
         NEW s \in Services, NEW p \in Pids \cup {NoPid},
         p \in Pids => /\ st[p] # "free" /\ cmd[p] = s
                       /\ \A i \in DOMAIN services : services[i].pid # p
  PROVE  TableSeen(AddService(services, s, p), st, cmd, NoPid, lost)
<1> DEFINE tbl == AddService(services, s, p)
<1>1. \A j \in DOMAIN tbl :
        \/ tbl[j] = Entry(s, p) /\ j = Len(services) + 1
        \/ j \in DOMAIN services /\ tbl[j] = services[j]
  BY AddEntries
<1>2. SeenEntry(Entry(s, p), st, cmd, NoPid, lost)
  BY GuardianAssumption DEF Entry, IsScheduled, SeenEntry
<1>3. Entry(s, p).pid = p
  BY DEF Entry
<1> HIDE DEF tbl
<1>4. RealPidsDistinct(tbl)
  BY <1>1, <1>3 DEF RealPidsDistinct, TableSeen
<1> QED  BY <1>1, <1>2, <1>4 DEF TableSeen, tbl

(* An entry restarted: under the pid of a new process, or of none.         *)
LEMMA RestartSeen ==
  ASSUME Typed, NEW st, NEW cmd, NEW lost,
         TableSeen(services, st, cmd, NoPid, lost),
         NEW i \in DOMAIN services, IsScheduled(services[i]),
         NEW p \in Pids \cup {NoPid},
         services' = [services EXCEPT ![i] = Restarted(services[i], p)],
         p \in Pids => /\ st[p] # "free" /\ cmd[p] = services[i].svc
                       /\ \A j \in DOMAIN services : services[j].pid # p
  PROVE  TableSeen(services', st, cmd, NoPid, lost)
<1> DEFINE e == Restarted(services[i], p)
<1>1. /\ DOMAIN services' = DOMAIN services /\ services[i] \in EntryType
      /\ \A j \in DOMAIN services : services'[j] = IF j = i THEN e ELSE services[j]
  BY RestartEntries
<1>2. /\ e.pid = p /\ e.svc = services[i].svc /\ ~IsScheduled(e)
  <2>1. services[i].restart_count < MAX_RESTARTS
    BY DEF Typed, WithinLimit
  <2> QED  BY <1>1, <2>1, RestartedEntry
<1> HIDE DEF e
<1>3. SeenEntry(e, st, cmd, NoPid, lost)
  BY <1>2, GuardianAssumption DEF SeenEntry
<1>4. RealPidsDistinct(services')
  BY <1>1, <1>2 DEF RealPidsDistinct, TableSeen
<1> QED  BY <1>1, <1>3, <1>4 DEF TableSeen

(* handle_child_exit schedules or drops the entry of the pid in hand.      *)
LEMMA AfterExitSeen ==
  ASSUME Typed, reaped.pid \in Pids,
         TableSeen(services, state, command, reaped.pid, taken)
  PROVE  TableSeen(TableAfterExit(reaped.pid, reaped.ok), state, command, NoPid, taken)
<1> DEFINE pid == reaped.pid
           ok == reaped.ok
           tbl == TableAfterExit(pid, ok)
<1>1. services \in Seq(EntryType) /\ ok \in BOOLEAN /\ now \in Nat
  BY DEF Typed, TypeOK
<1>2. /\ Len(services) \in Nat /\ DOMAIN services = 1 .. Len(services)
      /\ \A i \in DOMAIN services : services[i] \in EntryType
  BY <1>1, IndexBasics
<1>3. \A i \in DOMAIN services :
        /\ services[i].pid # pid => SeenEntry(services[i], state, command, NoPid, taken)
        /\ services[i].pid = pid => state[pid] = "free"
  BY GuardianAssumption DEF TableSeen, SeenEntry
<1>4. RealPidsDistinct(services) /\ pid \in Pids /\ pid # NoPid
  BY GuardianAssumption DEF TableSeen
<1> SUFFICES TableSeen(tbl, state, command, NoPid, taken)
  OBVIOUS
<1> HIDE DEF pid, ok
<1>5. \/ ~IsRegistered(services, pid) /\ tbl = services
      \/ \E i \in DOMAIN services :
           /\ services[i].pid = pid
           /\ tbl = [services EXCEPT ![i] = Schedule(services[i])]
      \/ \E i \in DOMAIN services :
           services[i].pid = pid /\ tbl = DropSlot(services, i)
  <2>1. \/ ~IsRegistered(services, pid) /\ tbl = services
        \/ \E i \in DOMAIN services :
             /\ services[i].pid = pid /\ WantsRestart(services[i], ok)
             /\ tbl = [services EXCEPT ![i] = Schedule(services[i])]
        \/ \E i \in DOMAIN services :
             /\ services[i].pid = pid /\ ~WantsRestart(services[i], ok)
             /\ tbl = DropSlot(services, i)
    BY <1>1, AfterExitCases
  <2> HIDE DEF tbl
  <2> QED  BY <2>1
<1> HIDE DEF tbl
<1>6. CASE ~IsRegistered(services, pid) /\ tbl = services
  BY <1>3, <1>4, <1>6 DEF IsRegistered, TableSeen
<1>7. ASSUME NEW i \in DOMAIN services, services[i].pid = pid,
             tbl = [services EXCEPT ![i] = Schedule(services[i])]
      PROVE  TableSeen(tbl, state, command, NoPid, taken)
  <2> DEFINE e == Schedule(services[i])
  <2>1. e \in EntryType /\ IsScheduled(e) /\ e.pid = pid
    BY <1>1, <1>2, <1>7, ScheduleEntry
  <2> HIDE DEF e
  <2>2. DOMAIN tbl = DOMAIN services
          /\ \A j \in DOMAIN tbl : tbl[j] = IF j = i THEN e ELSE services[j]
    BY <1>1, <1>7, <2>1, ExceptSeq DEF e
  <2>3. RealPidsDistinct(tbl)
    BY <1>4, <1>7, <2>1, <2>2 DEF RealPidsDistinct
  <2>4. SeenEntry(e, state, command, NoPid, taken)
    BY <1>3, <1>4, <1>7, <2>1 DEF SeenEntry
  <2>5. \A j \in DOMAIN services : j # i => services[j].pid # pid
    BY <1>4, <1>7 DEF RealPidsDistinct
  <2> QED  BY <1>3, <2>2, <2>3, <2>4, <2>5 DEF TableSeen
<1>8. ASSUME NEW i \in DOMAIN services, services[i].pid = pid,
             tbl = DropSlot(services, i)
      PROVE  TableSeen(tbl, state, command, NoPid, taken)
  <2> DEFINE old(k) == IF k < i THEN k ELSE k + 1
  <2>1. /\ DOMAIN tbl = 1 .. Len(services) - 1
        /\ \A k \in 1 .. Len(services) - 1 :
             tbl[k] = IF k < i THEN services[k] ELSE services[k + 1]
    BY <1>1, <1>8, DropSlotProperties
  <2>2. \A k \in DOMAIN tbl : /\ old(k) \in DOMAIN services /\ old(k) # i
                              /\ tbl[k] = services[old(k)]
    BY <1>2, <2>1
  <2>3. RealPidsDistinct(tbl)
    BY <1>2, <1>4, <2>1, <2>2 DEF RealPidsDistinct
  <2>4. \A j \in DOMAIN services : j # i => services[j].pid # pid
    BY <1>4, <1>8 DEF RealPidsDistinct
  <2> HIDE DEF old
  <2> QED  BY <1>3, <2>2, <2>3, <2>4 DEF TableSeen
<1> QED  BY <1>5, <1>6, <1>7, <1>8

-----------------------------------------------------------------------------
(* What the guardian and the world do to a process that is not free: it    *)
(* keeps its command until it is reaped, which does not happen while the   *)
(* shell is at work.                                                       *)
LEMMA GuardsMoves ==
  ASSUME Typed, Guards
  PROVE  /\ \A p \in Pids : state[p] # "free" /\ state'[p] # "free"
                              => command'[p] = command[p]
         /\ pc = "shell" => /\ pc' \in {"shell", "exited"}
                            /\ \A p \in Pids : state[p] # "free" => state'[p] # "free"
         /\ pc = "boot" => pc' \in {"boot", "shell", "exited"} /\ services' = services
         /\ pc = "exited" => UNCHANGED vars
         /\ pc \in GuardianPoints => /\ pc' \in GuardianPoints \cup {"boot", "exited"}
                                     /\ pc' = "boot" => services' = <<>>
<1> DEFINE Kept == \A p \in Pids : state[p] # "free" /\ state'[p] # "free"
                                     => command'[p] = command[p]
           NoneFreed == \A p \in Pids : state[p] # "free" => state'[p] # "free"
           Moves == /\ Kept
                    /\ pc = "shell" => pc' \in {"shell", "exited"} /\ NoneFreed
                    /\ pc = "boot" => /\ pc' \in {"boot", "shell", "exited"}
                                      /\ services' = services
                    /\ pc = "exited" => UNCHANGED vars
                    /\ pc \in GuardianPoints =>
                         /\ pc' \in GuardianPoints \cup {"boot", "exited"}
                         /\ pc' = "boot" => services' = <<>>
<1> SUFFICES Moves
  OBVIOUS
<1>0. state \in [Pids -> {"free", "running", "zombie"}]
        /\ command \in [Pids -> Services \cup {NoService}]
  BY DEF Typed, TypeOK
<1>1. CASE Boot \/ BootFails \/ SignalBeforeHandler \/ SignalInShell \/ Terminated
  <2>1. UNCHANGED <<state, command, services>>
          /\ \/ pc = "boot" /\ pc' = "shell"
             \/ pc' = "exited" /\ (pc = "exited" => UNCHANGED vars)
             \/ pc = "shell" /\ pc' = "shell"
    BY <1>1 DEF Boot, BootFails, SignalBeforeHandler, SignalInShell, Terminated,
                Exited, kernel, vars
  <2> QED  BY <2>1 DEF GuardianPoints
<1>2. CASE SignalInGuardian \/ Tick \/ DrainDone \/ WaitNothing \/ RestartDone
             \/ HandleChildExit \/ Reexec \/ ReexecFails
             \/ \E i \in 1 .. MAX_SERVICES : RestartForkFails(i)
  <2>1. UNCHANGED <<state, command>> /\ pc \in GuardianPoints
          /\ \/ pc' \in GuardianPoints \cup {"exited"}
             \/ pc' = "boot" /\ services' = <<>>
    BY <1>2 DEF SignalInGuardian, Tick, DrainDone, WaitNothing, RestartDone,
                HandleChildExit, Reexec, ReexecFails, RestartForkFails, Exited,
                LoopTop, GuardianPoints, kernel
  <2> QED  BY <2>1 DEF GuardianPoints
<1>3. ASSUME NEW p \in Pids, DrainReap(p) \/ WaitReap(p)
      PROVE  Moves
  <2>1. /\ pc \in {"drain", "poll", "block"} /\ pc' \in {"drain_handle", "handle"}
        /\ state' = [state EXCEPT ![p] = "free"]
        /\ command' = [command EXCEPT ![p] = NoService]
    BY <1>3 DEF DrainReap, WaitReap, Reap
  <2>2. Kept
    BY <1>0, <2>1
  <2> QED  BY <2>1, <2>2 DEF GuardianPoints
<1>4. ASSUME NEW p \in Pids, NEW s, Spawn(p, s), UNCHANGED pc, pc # "exited",
             pc = "boot" => services' = services
      PROVE  Moves
  <2>1. state[p] = "free" /\ state' = [state EXCEPT ![p] = "running"]
          /\ command' = [command EXCEPT ![p] = s]
    BY <1>4 DEF Spawn, IsFree
  <2>2. Kept /\ NoneFreed
    BY <1>0, <2>1
  <2> QED  BY <1>4, <2>2 DEF GuardianPoints
<1>5. ASSUME NEW p \in Pids, NEW ok \in BOOLEAN, Exit(p, ok)
      PROVE  Moves
  <2>1. /\ state' = [state EXCEPT ![p] = "zombie"] /\ pc # "exited"
        /\ UNCHANGED <<command, services, pc>>
    BY <1>5 DEF Exit
  <2>2. Kept /\ NoneFreed
    BY <1>0, <2>1
  <2> QED  BY <2>1, <2>2 DEF GuardianPoints
<1>6. ASSUME NEW p \in Pids, Adopt(p)
      PROVE  Moves
  BY <1>4, <1>6 DEF Adopt
<1>7. ASSUME NEW i \in 1 .. MAX_SERVICES, NEW p \in Pids, RestartOne(i, p)
      PROVE  Moves
  BY <1>4, <1>7 DEF RestartOne
<1> HIDE DEF Moves
<1> QED
  BY <1>1, <1>2, <1>3, <1>5, <1>6, <1>7 DEF Guards, GuardianStep, Environment

(* Before the first boot the shell has no children.                        *)
LEMMA ShellInvInit == InteractiveInit => ShellInv
BY DEF InteractiveInit, Init, ShellInv, AtShell

(* Every step keeps the shell's children apart from the services.          *)
LEMMA ShellInvStep ==
  ASSUME Typed, ShellInv, [InteractiveNext]_allvars
  PROVE  ShellInv'
<1>0. state \in [Pids -> {"free", "running", "zombie"}]
        /\ command \in [Pids -> Services \cup {NoService}]
  BY DEF Typed, TypeOK
<1>1. CASE UNCHANGED allvars
  BY <1>1 DEF allvars, vars, kernel, shell, ShellInv, AtShell
<1>2. CASE Guards
  <2>1. /\ jobs' = IF pc' = "boot" THEN {} ELSE {p \in jobs : state'[p] # "free"}
        /\ taken' = IF pc' = "boot" THEN {} ELSE taken
        /\ UNCHANGED <<at_shell, fg>>
    BY <1>2 DEF Guards
  <2>2. \A p \in jobs' : state'[p] # "free" /\ command'[p] = NoService /\ p \in Pids
    BY <1>2, <2>1, GuardsMoves DEF ShellInv
  <2>3. pc \in GuardianPoints \cup {"boot", "shell", "exited"}
    BY DEF Typed, TypeOK
  <2>4. pc' = "shell" /\ at_shell' = "wait_own" => fg' \in jobs'
    <3> SUFFICES ASSUME pc' = "shell", at_shell = "wait_own" PROVE fg \in jobs'
      BY <2>1
    <3>1. pc = "shell"
      BY <1>2, <2>3, GuardsMoves DEF ShellInv, GuardianPoints, vars
    <3>2. fg \in jobs /\ fg \in Pids /\ state'[fg] # "free"
      BY <1>2, <3>1, GuardsMoves DEF ShellInv, AtShell
    <3> QED  BY <2>1, <3>2
  <2>5. pc' \in GuardianPoints \cup {"boot"} => at_shell' = "prompt"
    BY <1>2, <2>1, <2>3, GuardsMoves DEF ShellInv, GuardianPoints, vars
  <2> QED  BY <2>1, <2>2, <2>4, <2>5 DEF ShellInv, AtShell
<1>3. CASE EndOfInput
  BY <1>3 DEF EndOfInput, EndShell, shell, kernel, ShellInv, AtShell
<1>4. ASSUME NEW p \in Pids, NEW s, Spawn(p, s), UNCHANGED pc, pc = "shell"
      PROVE  /\ \A q \in jobs : state'[q] # "free" /\ command'[q] = NoService
             /\ state'[p] # "free" /\ command'[p] = s
  <2>1. p \notin jobs
    BY <1>4 DEF Spawn, IsFree, ShellInv
  <2> QED  BY <1>0, <1>4, <2>1 DEF Spawn, ShellInv
<1>5. CASE RunBackground
  <2>1. PICK p \in Pids, s \in Services : Spawn(p, s)
    BY <1>5 DEF RunBackground, Register, RegisterFails, Launch
  <2>2. pc = "shell" /\ UNCHANGED <<pc, shell>>
    BY <1>5 DEF RunBackground, Register, RegisterFails, Launch
  <2> QED  BY <1>4, <2>1, <2>2 DEF shell, ShellInv, AtShell, GuardianPoints
<1>6. CASE BuiltinExit \/ ShortPipeline \/ PipeFails
  BY <1>6 DEF BuiltinExit, ShortPipeline, PipeFails, Type, Ends, Exited, kernel,
              shell, ShellInv, AtShell, GuardianPoints
<1>7. CASE \/ LongPipeline \/ WaitNobody \/ ForegroundForkFails
           \/ \E s \in Services : BackgroundForkFails(s)
  <2>1. /\ pc = "shell" /\ UNCHANGED <<pc, state, command, jobs>>
        /\ at_shell' = "wait_own" => at_shell = "wait_own" /\ fg' = fg
    BY <1>7 DEF LongPipeline, WaitNobody, ForegroundForkFails, BackgroundForkFails,
                Type, AtShell, SameGuardian, kernel, AfterWait
  <2> QED  BY <2>1 DEF ShellInv, AtShell, GuardianPoints
<1>8. CASE ForkStage
  <2>1. /\ pc = "shell" /\ pc' = pc /\ at_shell' # "wait_own"
        /\ \/ UNCHANGED <<state, command, jobs>>
           \/ \E p \in Pids : Spawn(p, NoService) /\ jobs' = jobs \cup {p}
    BY <1>8 DEF ForkStage, AtShell, SameGuardian, AfterFork, kernel
  <2>2. jobs' \subseteq Pids
          /\ \A q \in jobs' : state'[q] # "free" /\ command'[q] = NoService
    BY <1>4, <2>1 DEF ShellInv
  <2> QED  BY <2>1, <2>2 DEF ShellInv, AtShell, GuardianPoints
<1>9. ASSUME NEW p \in Pids, RunForeground(p)
      PROVE  ShellInv'
  <2>1. /\ pc = "shell" /\ pc' = pc /\ fg' = p
        /\ Spawn(p, NoService) /\ jobs' = jobs \cup {p}
    BY <1>9 DEF RunForeground, Type, AtShell, SameGuardian
  <2>2. jobs' \subseteq Pids
          /\ \A q \in jobs' : state'[q] # "free" /\ command'[q] = NoService
    BY <1>4, <2>1 DEF ShellInv
  <2> QED  BY <2>1, <2>2 DEF ShellInv, AtShell, GuardianPoints
<1>10. ASSUME NEW p \in Pids, WaitForeground(p) \/ WaitAny(p)
       PROVE  ShellInv'
  <2>1. /\ pc = "shell" /\ pc' = pc /\ jobs' = jobs \ {p}
        /\ at_shell' # "wait_own"
        /\ state' = [state EXCEPT ![p] = "free"]
        /\ command' = [command EXCEPT ![p] = NoService]
    BY <1>10 DEF WaitForeground, WaitAny, Collect, AtShell, SameGuardian, AfterWait
  <2>2. jobs' \subseteq Pids
          /\ \A q \in jobs' : state'[q] # "free" /\ command'[q] = NoService
    BY <1>0, <2>1 DEF ShellInv
  <2> QED  BY <2>1, <2>2 DEF ShellInv, AtShell, GuardianPoints
<1> QED
  BY <1>1, <1>2, <1>3, <1>5, <1>6, <1>7, <1>8, <1>9, <1>10 DEF InteractiveNext

-----------------------------------------------------------------------------
(* Before the first boot the table is empty.                               *)
LEMMA SeenInit == InteractiveInit => SeenInv
<1> SUFFICES ASSUME InteractiveInit PROVE SeenInv
  OBVIOUS
<1>1. DOMAIN services = {} /\ reaped = Nothing /\ pc = "boot" /\ Typed
  BY BudgetInit, BudgetTyped DEF InteractiveInit, Init
<1> QED  BY <1>1 DEF SeenInv, TableSeen, RealPidsDistinct

(* A new process has a pid that no entry names, and leaves the others.     *)
LEMMA SpawnSeen ==
  ASSUME Typed, "pid_reuse" \notin Faults,
         NEW h, TableSeen(services, state, command, h, taken),
         NEW p \in Pids, NEW s, Spawn(p, s)
  PROVE  TableSeen(services, state', command', h, taken)
BY SpawnFresh, FrameSeen

(* Nobody is in hand outside handle_child_exit.                            *)
LEMMA HandEmpty == reaped = Nothing => InHand = NoPid
BY DEF InHand, Nothing

(* The guardian keeps its table in order, whatever the shell has lost.     *)
LEMMA SeenGuards ==
  ASSUME SeenInv, ShellInv, "pid_reuse" \notin Faults, Guards
  PROVE  SeenInv'
<1> DEFINE Good == /\ TableSeen(services', state', command', InHand', taken')
                   /\ pc' \notin Handling => reaped' = Nothing
                   /\ pc' \in {"drain_handle", "handle"} => reaped'.pid \in Pids
<1>0. /\ Typed /\ Typed' /\ TableSeen(services, state, command, InHand, taken)
      /\ pc \notin Handling => reaped = Nothing
      /\ pc \in {"drain_handle", "handle"} => reaped.pid \in Pids
  BY GuardianMoves, TypedStep DEF SeenInv
<1>1. SUFFICES Good
  BY <1>0 DEF SeenInv
<1>2. services' = <<>> \/ taken' = taken
  <2>1. taken' = IF pc' = "boot" THEN {} ELSE taken
    BY DEF Guards
  <2>2. pc \in GuardianPoints \cup {"boot", "shell", "exited"}
    BY <1>0 DEF Typed, TypeOK
  <2>3. CASE pc' = "boot" /\ pc = "boot"
    BY <2>1, <2>3 DEF ShellInv
  <2>4. CASE pc' = "boot" /\ pc # "boot"
    BY <1>0, <2>2, <2>4, GuardsMoves DEF vars
  <2> QED  BY <2>1, <2>3, <2>4
<1>3. ASSUME services' = <<>>, reaped' = Nothing, pc' \notin {"drain_handle", "handle"}
      PROVE  Good
  BY <1>3 DEF TableSeen, RealPidsDistinct
<1>4. ASSUME UNCHANGED reaped,
             pc' \in {"drain_handle", "handle"} => pc' = pc,
             pc \in Handling => pc' \in Handling
      PROVE  /\ InHand' = InHand
             /\ pc' \notin Handling => reaped' = Nothing
             /\ pc' \in {"drain_handle", "handle"} => reaped'.pid \in Pids
  BY <1>0, <1>4 DEF InHand, Handling, Nothing
<1>5. CASE \/ Terminated \/ Boot \/ BootFails \/ SignalBeforeHandler \/ SignalInShell
           \/ SignalInGuardian \/ Tick \/ DrainDone \/ WaitNothing \/ RestartDone
  <2>1. UNCHANGED <<services, state, command, reaped>>
    BY <1>5 DEF Terminated, Boot, BootFails, SignalBeforeHandler, SignalInShell,
                SignalInGuardian, Tick, DrainDone, WaitNothing, RestartDone,
                kernel, vars
  <2>2. /\ pc' \in {"drain_handle", "handle"} => pc' = pc
        /\ pc \in Handling => pc' \in Handling
    BY <1>5 DEF Terminated, Boot, BootFails, SignalBeforeHandler, SignalInShell,
                SignalInGuardian, Tick, DrainDone, WaitNothing, RestartDone,
                Exited, LoopTop, Handling, vars
  <2>3. CASE taken' = taken
    BY <1>0, <1>4, <2>1, <2>2, <2>3
  <2>4. CASE services' = <<>>
    BY <1>4, <2>1, <2>2, <2>4 DEF TableSeen, RealPidsDistinct
  <2> QED  BY <1>2, <2>3, <2>4
<1>6. ASSUME NEW p \in Pids, NEW ok \in BOOLEAN, Exit(p, ok)
      PROVE  Good
  <2>1. /\ UNCHANGED <<services, command, reaped, pc>>
        /\ \A q \in Pids : state'[q] = "free" <=> state[q] = "free"
    BY <1>0, <1>6 DEF Exit, Typed, TypeOK
  <2>2. CASE taken' = taken
    <3>1. TableSeen(services, state', command', InHand, taken)
      BY <1>0, <2>1, FrameSeen
    <3> QED  BY <1>4, <2>1, <2>2, <3>1
  <2>3. CASE services' = <<>>
    BY <1>4, <2>1, <2>3 DEF TableSeen, RealPidsDistinct
  <2> QED  BY <1>2, <2>2, <2>3
<1>7. ASSUME NEW p \in Pids, Adopt(p)
      PROVE  Good
  <2>1. Spawn(p, NoService) /\ UNCHANGED <<services, reaped, pc>>
    BY <1>7 DEF Adopt
  <2>2. TableSeen(services, state', command', InHand, taken)
    BY <1>0, <2>1, SpawnSeen
  <2>3. CASE taken' = taken
    BY <1>4, <2>1, <2>2, <2>3
  <2>4. CASE services' = <<>>
    BY <1>4, <2>1, <2>4 DEF TableSeen, RealPidsDistinct
  <2> QED  BY <1>2, <2>3, <2>4
<1>8. ASSUME NEW p \in Pids, DrainReap(p) \/ WaitReap(p)
      PROVE  Good
  <2>1. /\ Reap(p) /\ pc \notin Handling /\ services' = services
        /\ pc' \in {"drain_handle", "handle"} /\ reaped'.pid = p
    BY <1>8 DEF DrainReap, WaitReap, Handling, Reap
  <2>2. InHand' = p /\ pc' \in Handling /\ pc' # "boot" /\ InHand = NoPid
    BY <1>0, <2>1, HandEmpty DEF InHand, Handling
  <2>3. TableSeen(services, state', command', p, taken)
    BY <1>0, <2>1, <2>2, ReapSeen
  <2>4. taken' = taken
    BY <2>2 DEF Guards
  <2> QED  BY <2>1, <2>2, <2>3, <2>4
<1>9. CASE HandleChildExit \/ ReexecFails
  <2>1. /\ services' = TableAfterExit(reaped.pid, reaped.ok)
        /\ pc \in {"drain_handle", "handle"} /\ UNCHANGED <<state, command>>
        /\ reaped' = Nothing /\ pc' \in {"drain", "restart", "exited"}
    BY <1>9 DEF HandleChildExit, ReexecFails, Exited, kernel
  <2>2. InHand' = NoPid /\ InHand = reaped.pid /\ taken' = taken
    BY <2>1 DEF InHand, Nothing, Guards
  <2> QED  BY <1>0, <2>1, <2>2, AfterExitSeen
<1>10. CASE Reexec
  BY <1>3, <1>10 DEF Reexec
<1>11. ASSUME NEW i \in 1 .. MAX_SERVICES, NEW p \in Pids \cup {NoPid},
              \/ RestartForkFails(i) /\ p = NoPid
              \/ p \in Pids /\ RestartOne(i, p)
       PROVE  Good
  <2>1. /\ i \in DOMAIN services /\ IsScheduled(services[i])
        /\ services' = [services EXCEPT ![i] = Restarted(services[i], p)]
        /\ pc = "restart" /\ UNCHANGED <<pc, reaped>>
        /\ p \in Pids => Spawn(p, services[i].svc)
        /\ p = NoPid => UNCHANGED <<state, command>>
    BY <1>11, GuardianAssumption
       DEF RestartForkFails, RestartOne, IsFirstDue, IsDue, kernel
  <2>2. InHand = NoPid /\ reaped' = Nothing /\ InHand' = NoPid /\ taken' = taken
    BY <1>0, <2>1, HandEmpty DEF InHand, Handling, Guards
  <2>3. TableSeen(services, state', command', NoPid, taken)
    BY <1>0, <2>1, <2>2, SpawnSeen
  <2>4. p \in Pids => /\ state'[p] # "free" /\ command'[p] = services[i].svc
                      /\ \A j \in DOMAIN services : services[j].pid # p
    BY <1>0, <2>1, SpawnFresh
  <2>5. TableSeen(services', state', command', NoPid, taken)
    BY <1>0, <2>1, <2>3, <2>4, RestartSeen
  <2> QED  BY <2>1, <2>2, <2>5
<1>12. ASSUME NEW i \in 1 .. MAX_SERVICES,
              RestartForkFails(i) \/ \E p \in Pids : RestartOne(i, p)
       PROVE  Good
  BY <1>11, <1>12
<1> HIDE DEF Good
<1> QED
  BY <1>5, <1>6, <1>7, <1>8, <1>9, <1>10, <1>12 DEF Guards, GuardianStep, Environment

(* And the shell does, as far as its waits allow.                          *)
LEMMA SeenStep ==
  ASSUME "pid_reuse" \notin Faults,
         SeenInv, ShellInv, [InteractiveNext]_allvars
  PROVE  SeenInv'
<1>0. /\ Typed /\ TableSeen(services, state, command, InHand, taken)
      /\ pc \notin Handling => reaped = Nothing
      /\ pc \in {"drain_handle", "handle"} => reaped.pid \in Pids
  BY DEF SeenInv
<1>1. Typed'
  BY <1>0, StepKinds, ShellMoves, ShellTyped, GuardianMoves, TypedStep DEF allvars
<1>2. CASE UNCHANGED allvars
  BY <1>0, <1>1, <1>2 DEF allvars, vars, kernel, shell, SeenInv, InHand
<1>3. CASE Guards
  BY <1>3, SeenGuards
<1>4. ASSUME pc = "shell", UNCHANGED reaped,
             pc' \notin {"drain_handle", "handle"},
             TableSeen(services', state', command', NoPid, taken')
      PROVE  SeenInv'
  <2>1. reaped' = Nothing /\ InHand' = NoPid
    BY <1>0, <1>4, HandEmpty DEF Handling, InHand, Nothing
  <2> QED  BY <1>1, <1>4, <2>1 DEF SeenInv
<1>5. pc = "shell" => InHand = NoPid /\ TableSeen(services, state, command, NoPid, taken)
  BY <1>0 DEF InHand
<1>6. CASE EndOfInput
  BY <1>4, <1>5, <1>6 DEF EndOfInput, EndShell, shell, kernel
<1>7. ASSUME NEW s \in Services, NEW p \in Pids, Register(s, p) \/ RegisterFails(s, p),
             UNCHANGED shell
      PROVE  SeenInv'
  <2>1. /\ pc = "shell" /\ UNCHANGED <<pc, reaped, taken>> /\ Spawn(p, s)
        /\ services' = services \/ services' = AddService(services, s, p)
    BY <1>7 DEF Register, RegisterFails, Launch, shell
  <2>2. TableSeen(services, state', command', NoPid, taken)
    BY <1>0, <1>5, <2>1, SpawnSeen
  <2>3. /\ state'[p] # "free" /\ command'[p] = s
        /\ \A i \in DOMAIN services : services[i].pid # p
    BY <1>0, <2>1, SpawnFresh
  <2>4. TableSeen(AddService(services, s, p), state', command', NoPid, taken)
    BY <1>0, <2>2, <2>3, AddSeen
  <2>5. TableSeen(services', state', command', NoPid, taken)
    BY <2>1, <2>2, <2>4
  <2> QED  BY <1>4, <2>1, <2>5
<1>8. CASE RunBackground
  BY <1>7, <1>8 DEF RunBackground
<1>9. ASSUME NEW s \in Services, BackgroundForkFails(s)
      PROVE  SeenInv'
  <2>1. /\ pc = "shell" /\ UNCHANGED <<pc, reaped, taken, state, command>>
        /\ services' = AddService(services, s, NoPid)
    BY <1>9 DEF BackgroundForkFails, Type, AtShell, kernel
  <2>2. TableSeen(AddService(services, s, NoPid), state, command, NoPid, taken)
    BY <1>0, <1>5, <2>1, AddSeen, GuardianAssumption
  <2> QED  BY <1>4, <2>1, <2>2
<1>10. CASE \/ BuiltinExit \/ ShortPipeline \/ PipeFails \/ LongPipeline
            \/ WaitNobody \/ ForegroundForkFails
  <2>1. /\ pc = "shell" /\ UNCHANGED <<services, state, command, reaped, taken>>
        /\ pc' \in {"shell", "exited"}
    BY <1>10 DEF BuiltinExit, ShortPipeline, PipeFails, LongPipeline, WaitNobody,
                 ForegroundForkFails, Type, AtShell, Ends, Exited, SameGuardian,
                 kernel, shell
  <2> QED  BY <1>4, <1>5, <2>1
<1>11. ASSUME NEW p \in Pids, Spawn(p, NoService), pc = "shell",
              UNCHANGED <<services, pc, reaped, taken>>
       PROVE  SeenInv'
  <2>1. TableSeen(services, state', command', NoPid, taken)
    BY <1>0, <1>5, <1>11, SpawnSeen
  <2> QED  BY <1>4, <1>11, <2>1
<1>12. ASSUME NEW p \in Pids, RunForeground(p)
       PROVE  SeenInv'
  BY <1>11, <1>12 DEF RunForeground, Type, AtShell, SameGuardian
<1>13. CASE ForkStage
  <2>1. /\ pc = "shell" /\ UNCHANGED <<services, pc, reaped, taken>>
        /\ \/ UNCHANGED <<state, command>>
           \/ \E p \in Pids : Spawn(p, NoService)
    BY <1>13 DEF ForkStage, AtShell, SameGuardian, kernel
  <2> QED  BY <1>4, <1>5, <1>11, <2>1
<1>14. ASSUME NEW p \in Pids, WaitForeground(p) \/ WaitAny(p)
       PROVE  SeenInv'
  <2>1. /\ pc = "shell" /\ UNCHANGED <<services, pc, reaped>> /\ Collected(p)
    BY <1>14 DEF WaitForeground, WaitAny, Collect, Collected, AtShell, SameGuardian
  <2>2. taken \subseteq taken' /\ command[p] \in taken' \cup {NoService}
    <3>1. CASE WaitForeground(p)
      BY <3>1 DEF WaitForeground, ShellInv
    <3>2. CASE WaitAny(p)
      BY <3>2 DEF WaitAny, ShellInv
    <3> QED  BY <1>14, <3>1, <3>2
  <2>3. TableSeen(services, state', command', NoPid, taken')
    BY <1>0, <1>5, <2>1, <2>2, CollectSeen
  <2> QED  BY <1>4, <2>1, <2>3
<1> QED
  BY <1>2, <1>3, <1>6, <1>8, <1>9, <1>10, <1>12, <1>13, <1>14 DEF InteractiveNext

(* All of it holds before the first boot.                                  *)
LEMMA InteractiveInvInit == InteractiveInit => InteractiveInv
BY SeenInit, ShellInvInit, InteractiveLoopInit DEF InteractiveInv

(* Every step keeps it, as long as no pid of the table is reused.          *)
LEMMA InteractiveInvStep ==
  ASSUME "pid_reuse" \notin Faults
  PROVE  InteractiveInv /\ [InteractiveNext]_allvars => InteractiveInv'
BY SeenStep, ShellInvStep, InteractiveLoop DEF InteractiveInv, SeenInv

(* Only a failed fork, or a wait of the shell for any child, leaves an     *)
(* entry that nobody watches: waitpid for a command (executor.c) takes no  *)
(* service's exit.                                                         *)
THEOREM LostOnlyToAnyWaitAlways ==
  ASSUME "pid_reuse" \notin Faults
  PROVE  InteractiveSpec => []LostOnlyToAnyWait
<1>1. InteractiveInv => LostOnlyToAnyWait
  <2> SUFFICES ASSUME InteractiveInv, NEW i \in DOMAIN services,
                      ~IsScheduled(services[i]), ~IsLost(services[i])
               PROVE  \/ BeingHandled(services[i].pid)
                      \/ /\ services[i].pid \in Pids
                         /\ Runs(services[i].pid, services[i].svc)
    BY DEF LostOnlyToAnyWait
  <2>1. SeenEntry(services[i], state, command, InHand, taken)
    BY DEF InteractiveInv, SeenInv, TableSeen
  <2>2. services[i] \in EntryType
    BY IndexBasics DEF InteractiveInv, SeenInv, Typed, TypeOK
  <2>3. services[i].pid \in Pids
    BY <2>2 DEF IsLost, EntryType
  <2> QED
    BY <2>1, <2>3, GuardianAssumption
       DEF SeenEntry, InHand, BeingHandled, Runs, IsLost
<1> QED
  BY InteractiveInvInit, InteractiveInvStep, <1>1, PTL DEF InteractiveSpec

(* A re-initialising guardian that blocks in waitpid without a child has   *)
(* such an entry in its table: KeepsGuarding says there is one at all,     *)
(* BlocksUnscheduled that no restart is due.                               *)
THEOREM SpinsOnlyIfLostAlways ==
  ASSUME "pid_reuse" \notin Faults
  PROVE  InteractiveSpec => []SpinsOnlyIfLost
<1>1. InteractiveInv => SpinsOnlyIfLost
  <2> SUFFICES ASSUME InteractiveInv, Reinitialize, ~shutting_down, pc = "block",
                      NoChild
               PROVE  \E i \in DOMAIN services : IsLost(services[i])
    BY DEF SpinsOnlyIfLost
  <2>1. /\ services \in Seq(EntryType) /\ Len(services) > 0
        /\ \A i \in DOMAIN services : ~IsScheduled(services[i])
    BY DEF InteractiveInv, LoopInv, Typed, TypeOK, KeepsGuarding,
           BlocksUnscheduled, HasDeadline
  <2>2. 1 \in DOMAIN services /\ services[1] \in EntryType
    BY <2>1, IndexBasics
  <2>3. InHand = NoPid
    BY DEF InHand
  <2>4. SeenEntry(services[1], state, command, NoPid, taken)
    BY <2>2, <2>3 DEF InteractiveInv, SeenInv, TableSeen
  <2>5. services[1].pid \in Pids => services[1].svc \in taken
    BY <2>1, <2>2, <2>4, GuardianAssumption DEF SeenEntry, NoChild
  <2> QED  BY <2>2, <2>5 DEF IsLost, EntryType
<1> QED
  BY InteractiveInvInit, InteractiveInvStep, <1>1, PTL DEF InteractiveSpec

-----------------------------------------------------------------------------
(* The children the shell has at each of its control points, as long as no *)
(* wait has taken somebody else for one of them: none at the prompt and    *)
(* between the commands of a pipeline, at most one in a wait.              *)
PromptInv ==
  pc = "shell" /\ taken = {} =>
    /\ at_shell \in {"prompt", "stage"} => jobs = {}
    /\ at_shell = "wait_own" => jobs = {fg}
    /\ at_shell = "wait_any" => \A p, q \in jobs : p = q

(* Every step keeps it.                                                    *)
LEMMA PromptStep ==
  ASSUME Typed, ShellInv, PromptInv, [InteractiveNext]_allvars
  PROVE  PromptInv'
<1>1. CASE UNCHANGED allvars \/ EndOfInput
  BY <1>1 DEF allvars, vars, shell, EndOfInput, EndShell, PromptInv
<1>2. CASE Guards
  <2>1. SUFFICES ASSUME pc' = "shell", taken' = {} PROVE PromptInv'
    BY DEF PromptInv
  <2>2. /\ jobs' = {p \in jobs : state'[p] # "free"} /\ taken' = taken
        /\ UNCHANGED <<at_shell, fg>>
    BY <1>2, <2>1 DEF Guards
  <2>3. pc \in GuardianPoints \cup {"boot", "shell", "exited"}
    BY DEF Typed, TypeOK
  <2>4. pc \in {"boot", "shell"}
    BY <1>2, <2>1, <2>3, GuardsMoves DEF GuardianPoints, vars
  <2>5. CASE pc = "boot"
    BY <2>2, <2>5 DEF ShellInv, PromptInv
  <2>6. CASE pc = "shell"
    <3>1. jobs' = jobs
      BY <1>2, <2>2, <2>6, GuardsMoves DEF ShellInv
    <3> QED  BY <2>1, <2>2, <2>6, <3>1 DEF PromptInv
  <2> QED  BY <2>4, <2>5, <2>6
<1>3. CASE RunBackground
  <2>1. UNCHANGED <<pc, at_shell, fg, jobs, taken>>
    BY <1>3 DEF RunBackground, Register, RegisterFails, Launch, shell
  <2> QED  BY <2>1 DEF PromptInv
<1>4. CASE BuiltinExit \/ ShortPipeline \/ PipeFails
  BY <1>4 DEF BuiltinExit, ShortPipeline, PipeFails, Ends, Exited, PromptInv
<1>5. ASSUME NEW s \in Services, BackgroundForkFails(s)
      PROVE  PromptInv'
  BY <1>5 DEF BackgroundForkFails, PromptInv
<1>6. CASE LongPipeline \/ ForegroundForkFails
  BY <1>6 DEF LongPipeline, ForegroundForkFails, Type, AtShell, SameGuardian,
              PromptInv
<1>7. ASSUME NEW p \in Pids, RunForeground(p)
      PROVE  PromptInv'
  BY <1>7 DEF RunForeground, Type, AtShell, SameGuardian, PromptInv
<1>8. CASE ForkStage
  BY <1>8 DEF ForkStage, AtShell, SameGuardian, AfterFork, PromptInv
<1>9. CASE WaitNobody
  <2>1. jobs = {}
    BY <1>9 DEF WaitNobody, NoChild, ShellInv
  <2> QED
    BY <1>9, <2>1 DEF WaitNobody, AtShell, SameGuardian, AfterWait, PromptInv
<1>10. ASSUME NEW p \in Pids, WaitForeground(p)
       PROVE  PromptInv'
  BY <1>10 DEF WaitForeground, Collect, AtShell, SameGuardian, PromptInv
<1>11. ASSUME NEW p \in Pids, WaitAny(p)
       PROVE  PromptInv'
  BY <1>11 DEF WaitAny, Collect, AtShell, SameGuardian, AfterWait, PromptInv
<1> QED
  BY <1>1, <1>2, <1>3, <1>4, <1>5, <1>6, <1>7, <1>8, <1>9, <1>10, <1>11
     DEF InteractiveNext

(* The prompt comes back after the command: no child of the line before is *)
(* left, unless a wait took the exit of something else for a command's.    *)
(* This holds with reused pids, too.                                       *)
THEOREM PromptAfterCommandAlways == InteractiveSpec => []PromptAfterCommand
<1> DEFINE Inv == LoopInv /\ ShellInv /\ PromptInv
<1>1. InteractiveInit => Inv
  BY InteractiveLoopInit, ShellInvInit DEF InteractiveInit, Init, PromptInv
<1>2. Inv /\ [InteractiveNext]_allvars => Inv'
  BY InteractiveLoop, ShellInvStep, PromptStep DEF LoopInv
<1>3. Inv => PromptAfterCommand
  BY DEF PromptInv, PromptAfterCommand, AtShell
<1> QED  BY <1>1, <1>2, <1>3, PTL DEF InteractiveSpec
=============================================================================
