----------------------- MODULE GuardianRefinementProofs -----------------------
(***************************************************************************)
(* Module Guardian implements the safety part of module Supervision: for   *)
(* every number of services, pids and restarts and every policy, provided  *)
(* the table has room for every service and none of the faults happens.    *)
(***************************************************************************)
EXTENDS GuardianRefinement, GuardianProofs

(* A boot that has started something and is not told to stop keeps         *)
(* something in its table, if it re-initialises at all: a re-execution     *)
(* with an empty table is one that found it empty because nothing had been *)
(* started, or one that gives up the last service.                         *)
Fresh ==
  pc = "boot" \/ (Reinitialize /\ ~shutting_down /\ DOMAIN services = {}) =>
    \A s \in Services : starts[s] = 0

PromiseInv == SupervisedInv /\ LoopInv /\ KeptInv /\ Fresh

Stages == {"idle", "up", "ended", "failed", "backoff", "gone"}

-----------------------------------------------------------------------------
(* The stage of a service, with everything it depends on as a parameter.   *)
StageOfEntry(e, h, ok, st, cl) ==
  IF IsScheduled(e) THEN "backoff"
  ELSE IF h = e.pid THEN DeadStage(ok)
  ELSE IF st[e.pid] = "running" THEN "up"
  ELSE DeadStage(cl[e.pid])
Stage(e) == StageOfEntry(e, InHand, reaped.ok, state, clean)
NextStage(e) == StageOfEntry(e, InHand', reaped'.ok, state', clean')

(* What the refinement mapping makes of a service that was not started, of *)
(* one with an entry and of one that has lost its entry.                   *)
Mapped ==
  /\ LifeBar \in [Services -> Stages] /\ TriesBar \in [Services -> Nat]
  /\ \A s \in Services :
       /\ starts[s] = 0 => LifeBar[s] = "idle" /\ TriesBar[s] = 0
       /\ starts[s] # 0 => TriesBar[s] = starts[s] - 1
       /\ starts[s] # 0 /\ (\A i \in DOMAIN services : services[i].svc # s)
            => LifeBar[s] = "gone"
  /\ \A i \in DOMAIN services :
       /\ services[i].svc \in Services /\ starts[services[i].svc] # 0
       /\ LifeBar[services[i].svc] = Stage(services[i])

(* What was said of the mapping follows from the invariants of Guardian.   *)
LEMMA MappedHolds == PromiseInv => Mapped
<1> SUFFICES ASSUME PromiseInv PROVE Mapped
  OBVIOUS
<1>1. /\ BudgetInv /\ TableGood(services, state, command, InHand)
      /\ starts \in [Services -> Nat]
  BY DEF PromiseInv, SupervisedInv, WatchInv, BudgetInv, TypeOK
<1>2. \A i \in DOMAIN services : services[i] \in EntryType
  BY <1>1, ServicesTyped
<1>3. ASSUME NEW s \in Services
      PROVE  /\ StageOf(s) \in Stages
             /\ starts[s] = 0 => StageOf(s) = "idle"
             /\ starts[s] # 0 /\ (\A i \in DOMAIN services : services[i].svc # s)
                  => StageOf(s) = "gone"
  <2>1. \A e : GuardedStage(e) \in Stages
    BY DEF GuardedStage, DeadStage, Stages
  <2>2. StageOf(s) \in Stages
    BY <2>1 DEF StageOf, Stages
  <2>3. starts[s] = 0 => StageOf(s) = "idle"
    BY DEF StageOf
  <2>4. starts[s] # 0 /\ (\A i \in DOMAIN services : services[i].svc # s)
          => StageOf(s) = "gone"
    BY DEF StageOf
  <2> QED  BY <2>2, <2>3, <2>4
<1>4. ASSUME NEW i \in DOMAIN services
      PROVE  /\ services[i].svc \in Services /\ starts[services[i].svc] # 0
             /\ StageOf(services[i].svc) = Stage(services[i])
  <2> DEFINE s == services[i].svc
  <2>1. s \in Services /\ starts[s] # 0
    BY <1>1, <1>2 DEF BudgetInv, TableOK, Accounted, EntryType
  <2>2. \A j \in DOMAIN services : services[j].svc = s => j = i
    BY <1>1 DEF BudgetInv, TableOK, SvcDistinct
  <2>3. EntryOf(s) = i
    BY <2>2 DEF EntryOf
  <2>4. StageOf(s) = GuardedStage(services[i])
    BY <2>1, <2>3 DEF StageOf
  <2>5. services[i].pid # NoPid
    BY <1>1, GuardianAssumption DEF TableGood, EntryGood
  <2>6. BeingHandled(services[i].pid) <=> InHand = services[i].pid
    BY <2>5 DEF BeingHandled, InHand
  <2>7. GuardedStage(services[i]) = Stage(services[i])
    BY <2>6 DEF GuardedStage, Stage, StageOfEntry
  <2> QED  BY <2>1, <2>4, <2>7
<1>5. /\ LifeBar \in [Services -> Stages] /\ TriesBar \in [Services -> Nat]
      /\ \A s \in Services : LifeBar[s] = StageOf(s)
      /\ \A s \in Services :
           TriesBar[s] = IF starts[s] = 0 THEN 0 ELSE starts[s] - 1
  BY <1>1, <1>3 DEF LifeBar, TriesBar
<1> QED  BY <1>3, <1>4, <1>5 DEF Mapped

-----------------------------------------------------------------------------
(* A service that a step does not touch.                                   *)
Untouched(t) ==
  /\ starts'[t] = starts[t]
  /\ \A i \in DOMAIN services : services[i].svc = t =>
       \E j \in DOMAIN services' :
         services'[j].svc = t /\ NextStage(services'[j]) = Stage(services[i])
  /\ \A j \in DOMAIN services' : services'[j].svc = t =>
       \E i \in DOMAIN services : services[i].svc = t

(* The promise does not see it move.                                       *)
LEMMA UntouchedStays ==
  ASSUME Mapped, Mapped', NEW t \in Services, Untouched(t)
  PROVE  LifeBar'[t] = LifeBar[t] /\ TriesBar'[t] = TriesBar[t]
<1>1. TriesBar'[t] = TriesBar[t]
  BY DEF Mapped, Untouched
<1>2. CASE starts[t] = 0
  BY <1>2 DEF Mapped, Untouched
<1>3. CASE starts[t] # 0 /\ \A i \in DOMAIN services : services[i].svc # t
  BY <1>3 DEF Mapped, Untouched
<1>4. ASSUME NEW i \in DOMAIN services, services[i].svc = t
      PROVE  LifeBar'[t] = LifeBar[t]
  <2>1. PICK j \in DOMAIN services' :
          services'[j].svc = t /\ NextStage(services'[j]) = Stage(services[i])
    BY <1>4 DEF Untouched
  <2>2. LifeBar'[t] = NextStage(services'[j])
    BY <2>1 DEF Mapped, Stage, NextStage
  <2> QED  BY <1>4, <2>1, <2>2 DEF Mapped
<1> QED  BY <1>1, <1>2, <1>3, <1>4

(* If a step touches nobody the promise sees nothing of it.                *)
LEMMA AllStay ==
  ASSUME Mapped, Mapped', \A t \in Services : Untouched(t)
  PROVE  LifeBar' = LifeBar /\ TriesBar' = TriesBar
<1>1. \A t \in Services : LifeBar'[t] = LifeBar[t] /\ TriesBar'[t] = TriesBar[t]
  BY UntouchedStays
<1>2. /\ LifeBar \in [Services -> Stages] /\ TriesBar \in [Services -> Nat]
      /\ LifeBar' \in [Services -> Stages] /\ TriesBar' \in [Services -> Nat]
  BY DEF Mapped
<1> QED  BY <1>1, <1>2

(* If it touches one service, that one moves.                              *)
LEMMA OneMoves ==
  ASSUME Mapped, Mapped', NEW s \in Services,
         \A t \in Services \ {s} : Untouched(t)
  PROVE  /\ LifeBar' = [LifeBar EXCEPT ![s] = LifeBar'[s]]
         /\ TriesBar' = [TriesBar EXCEPT ![s] = TriesBar'[s]]
<1>1. \A t \in Services \ {s} :
        LifeBar'[t] = LifeBar[t] /\ TriesBar'[t] = TriesBar[t]
  BY UntouchedStays
<1>2. /\ LifeBar \in [Services -> Stages] /\ TriesBar \in [Services -> Nat]
      /\ LifeBar' \in [Services -> Stages] /\ TriesBar' \in [Services -> Nat]
  BY DEF Mapped
<1> QED  BY <1>1, <1>2

(* A step that leaves the table alone touches the services whose stage     *)
(* changes.                                                                *)
LEMMA SameTableUntouched ==
  ASSUME UNCHANGED <<services, starts>>, NEW t,
         \A i \in DOMAIN services : services[i].svc = t =>
           NextStage(services[i]) = Stage(services[i])
  PROVE  Untouched(t)
BY DEF Untouched

-----------------------------------------------------------------------------
(* The boot at the start of a behaviour is a fresh one.                    *)
LEMMA PromiseInit == Init => PromiseInv
<1> SUFFICES ASSUME Init PROVE PromiseInv
  OBVIOUS
<1>1. \A s \in Services : starts[s] = 0
  BY DEF Init
<1> QED  BY <1>1, SupervisedInit, LoopInit, KeptInit DEF PromiseInv, Fresh

(* Only a re-execution leads back to boot, with every count at zero, and   *)
(* only a re-execution empties the table of a build that re-initialises.   *)
LEMMA PromiseStep ==
  ASSUME Roomy, Faults = {}
  PROVE  PromiseInv /\ [Next]_vars => PromiseInv'
<1> SUFFICES ASSUME PromiseInv, [Next]_vars PROVE PromiseInv'
  OBVIOUS
<1>1. SupervisedInv' /\ LoopInv' /\ KeptInv' /\ BudgetInv /\ BudgetInv' /\ Fresh
  BY SupervisedStep, LoopStep, KeptStep, BudgetStep DEF PromiseInv, KeptInv
<1> SUFFICES Fresh'
  BY <1>1 DEF PromiseInv
<1>2. CASE UNCHANGED vars \/ Terminated \/ Boot \/ BootFails \/ SignalBeforeHandler
             \/ EndShell \/ WaitNothing \/ DrainDone \/ RestartDone
             \/ SignalInShell \/ SignalInGuardian \/ Tick
             \/ \E p \in Pids : \/ DrainReap(p) \/ WaitReap(p) \/ Adopt(p)
                                \/ \E ok \in BOOLEAN : Exit(p, ok)
  <2>1. /\ UNCHANGED <<services, starts>>
        /\ shutting_down' = shutting_down \/ shutting_down' = TRUE
        /\ pc' = "boot" => pc = "boot"
    BY <1>2 DEF Terminated, vars, Boot, BootFails, SignalBeforeHandler, EndShell,
                WaitNothing, DrainDone, RestartDone, SignalInShell, LoopTop,
                SignalInGuardian, Tick, DrainReap, WaitReap, Adopt, Exit, history,
                Exited
  <2> QED  BY <1>1, <2>1 DEF Fresh
<1>3. ASSUME NEW s \in Services, NEW p \in Pids, Register(s, p)
      PROVE  Fresh'
  <2>1. /\ services' = AddService(services, s, p) /\ pc' = "shell"
        /\ starts[s] = 0
    BY <1>3 DEF Register, Launch
  <2>2. Len(services) + 1 \in DOMAIN services'
    BY <1>1, <2>1, AddAppends, ServicesTyped
  <2> QED  BY <2>1, <2>2 DEF Fresh
<1>4. CASE HandleChildExit
  <2>1. /\ ~MustReinitialize(services') /\ UNCHANGED shutting_down
        /\ pc' # "boot"
    BY <1>4 DEF HandleChildExit
  <2>2. Len(services') \in Nat /\ DOMAIN services' = 1 .. Len(services')
    BY <1>1, IndexBasics DEF BudgetInv, TypeOK
  <2>3. Reinitialize /\ ~shutting_down' => 1 \in DOMAIN services'
    BY <2>1, <2>2 DEF MustReinitialize
  <2> QED  BY <2>1, <2>3 DEF Fresh
<1>5. CASE Reexec
  BY <1>5 DEF Reexec, Fresh
<1>6. ASSUME NEW i, NEW p \in Pids, RestartOne(i, p)
      PROVE  Fresh'
  BY <1>6 DEF RestartOne, Fresh
<1> QED
  BY <1>2, <1>3, <1>4, <1>5, <1>6
     DEF Next, GuardianStep, ShellStep, Environment, RegisterFails, ReexecFails,
         RestartForkFails

(* The mapping is described by Mapped before and after a step.             *)
LEMMA MappedNext == PromiseInv' => Mapped'
BY MappedHolds, PTL

-----------------------------------------------------------------------------
(* What the invariants say of one entry, and of any other.                 *)
LEMMA EntryFacts ==
  ASSUME PromiseInv, NEW i \in DOMAIN services
  PROVE  /\ services[i] \in EntryType /\ services[i].svc \in Services
         /\ services[i].pid \in Pids /\ services[i].pid # NoPid
         /\ EntryGood(services[i], state, command, InHand)
         /\ starts[services[i].svc] = services[i].restart_count + 1
         /\ \A j \in DOMAIN services : j # i =>
              /\ services[j].svc # services[i].svc
              /\ services[j].pid # services[i].pid
<1>1. BudgetInv /\ TableGood(services, state, command, InHand)
        /\ Exact(services, starts)
  BY DEF PromiseInv, SupervisedInv, WatchInv, KeptInv
<1>2. services[i] \in EntryType
  BY <1>1, ServicesTyped
<1>3. EntryGood(services[i], state, command, InHand)
  BY <1>1 DEF TableGood
<1>4. /\ services[i].svc \in Services
      /\ services[i].pid \in Pids /\ services[i].pid # NoPid
  BY <1>2, <1>3, GuardianAssumption DEF EntryType, EntryGood
<1> QED
  BY <1>1, <1>2, <1>3, <1>4
     DEF Exact, BudgetInv, TableOK, SvcDistinct, TableGood, PidDistinct

(* A step that leaves the table, the flag and UsagiInit itself alone, and  *)
(* every entry at its stage, is none of the promise's.                     *)
LEMMA QuietStays ==
  ASSUME Mapped, Mapped', UNCHANGED <<services, starts, shutting_down>>,
         (pc' = "exited") = (pc = "exited"),
         \A i \in DOMAIN services : NextStage(services[i]) = Stage(services[i])
  PROVE  UNCHANGED Promise!vars
<1>1. \A t \in Services : Untouched(t)
  BY SameTableUntouched
<1>2. LifeBar' = LifeBar /\ TriesBar' = TriesBar
  BY <1>1, AllStay
<1> QED  BY <1>2 DEF Promise!vars

(* So are the steps that do nothing but move pc or the clock, adopt a      *)
(* process or reap one, whose status then is in hand.                      *)
LEMMA QuietSteps ==
  ASSUME Faults = {}, PromiseInv, Mapped, Mapped',
         \/ UNCHANGED vars \/ Terminated \/ Boot \/ EndShell \/ WaitNothing
         \/ RestartDone \/ Tick \/ (DrainDone /\ Len(services) # 0)
         \/ \E p \in Pids : DrainReap(p) \/ WaitReap(p) \/ Adopt(p)
  PROVE  UNCHANGED Promise!vars
<1>1. TypeOK /\ (pc \notin {"drain_handle", "handle", "exited"} => reaped = Nothing)
  BY DEF PromiseInv, SupervisedInv, WatchInv, BudgetInv
<1>2. CASE UNCHANGED vars \/ Terminated \/ Boot \/ EndShell \/ WaitNothing
             \/ RestartDone \/ Tick \/ (DrainDone /\ Len(services) # 0)
  <2>1. /\ UNCHANGED <<services, starts, shutting_down, kernel, reaped>>
        /\ \/ pc' = pc
           \/ pc \notin {"drain_handle", "handle", "exited"}
                /\ pc' \notin {"drain_handle", "handle", "exited"}
    BY <1>2 DEF vars, Terminated, Boot, EndShell, WaitNothing, RestartDone, Tick,
                DrainDone, history, LoopTop
  <2>2. InHand' = InHand /\ (pc' = "exited") = (pc = "exited")
    BY <2>1 DEF InHand
  <2>3. \A e : NextStage(e) = Stage(e)
    BY <2>1, <2>2 DEF NextStage, Stage, kernel
  <2> QED  BY <2>1, <2>2, <2>3, QuietStays
<1>3. ASSUME NEW p \in Pids, Adopt(p)
      PROVE  UNCHANGED Promise!vars
  <2>1. /\ UNCHANGED <<services, starts, shutting_down, reaped, pc, clean>>
        /\ p \notin NamedPids /\ \A q \in Pids \ {p} : state'[q] = state[q]
    BY <1>1, <1>3 DEF Adopt, Spawn, IsFree, history, TypeOK
  <2>2. InHand' = InHand
    BY <2>1 DEF InHand
  <2>3. ASSUME NEW i \in DOMAIN services
        PROVE  NextStage(services[i]) = Stage(services[i])
    <3>1. services[i].pid \in Pids \ {p}
      BY <2>1, EntryFacts DEF NamedPids
    <3> QED  BY <2>1, <2>2, <3>1 DEF NextStage, Stage, StageOfEntry
  <2> QED  BY <2>1, <2>3, QuietStays
<1>4. ASSUME NEW p \in Pids, DrainReap(p) \/ WaitReap(p)
      PROVE  UNCHANGED Promise!vars
  <2>1. /\ UNCHANGED <<services, starts, shutting_down>>
        /\ pc \notin {"drain_handle", "handle", "exited"}
        /\ pc' \in {"drain_handle", "handle"}
        /\ reaped' = [pid |-> p, ok |-> clean[p]] /\ state[p] = "zombie"
        /\ \A q \in Pids \ {p} : state'[q] = state[q] /\ clean'[q] = clean[q]
    BY <1>1, <1>4 DEF DrainReap, WaitReap, Reap, history, TypeOK
  <2>2. InHand = NoPid /\ InHand' = p /\ reaped'.ok = clean[p]
    BY <2>1 DEF InHand
  <2>3. ASSUME NEW i \in DOMAIN services
        PROVE  NextStage(services[i]) = Stage(services[i])
    <3>1. /\ services[i].pid \in Pids /\ services[i].pid # NoPid
          /\ EntryGood(services[i], state, command, InHand)
      BY EntryFacts
    <3>2. CASE services[i].pid = p
      BY <2>1, <2>2, <3>1, <3>2 DEF NextStage, Stage, StageOfEntry, EntryGood
    <3>3. CASE services[i].pid # p
      BY <2>1, <2>2, <3>1, <3>3 DEF NextStage, Stage, StageOfEntry
    <3> QED  BY <3>2, <3>3
  <2> QED  BY <2>1, <2>3, QuietStays
<1> QED  BY <1>2, <1>3, <1>4

(* A process that dies takes its service from up to ended or failed; an    *)
(* adopted one is nobody's.                                                *)
LEMMA ExitDies ==
  ASSUME PromiseInv, Mapped, Mapped', NEW p \in Pids, NEW ok \in BOOLEAN, Exit(p, ok)
  PROVE  [Promise!Next]_(Promise!vars)
<1>1. /\ UNCHANGED <<services, starts, shutting_down, reaped, pc>>
      /\ state[p] = "running" /\ state'[p] = "zombie" /\ clean'[p] = ok
      /\ \A q \in Pids \ {p} : state'[q] = state[q] /\ clean'[q] = clean[q]
  BY DEF Exit, PromiseInv, SupervisedInv, WatchInv, BudgetInv, TypeOK
<1>2. InHand' = InHand
  BY <1>1 DEF InHand
<1>3. ASSUME NEW i \in DOMAIN services, services[i].pid # p
      PROVE  NextStage(services[i]) = Stage(services[i])
  BY <1>1, <1>2, <1>3, EntryFacts DEF NextStage, Stage, StageOfEntry
<1>4. CASE \A i \in DOMAIN services : services[i].pid # p
  BY <1>1, <1>3, <1>4, QuietStays
<1>5. ASSUME NEW i \in DOMAIN services, services[i].pid = p
      PROVE  Promise!Next
  <2> DEFINE s == services[i].svc
             stage == DeadStage(ok)
  <2>1. /\ s \in Services /\ EntryGood(services[i], state, command, InHand)
        /\ starts[s] # 0
        /\ \A j \in DOMAIN services : j # i =>
             services[j].svc # s /\ services[j].pid # p
    BY <1>5, EntryFacts DEF Mapped
  <2>2. ~IsScheduled(services[i]) /\ InHand # p
    BY <1>1, <1>5, <2>1 DEF EntryGood
  <2>3. Stage(services[i]) = "up" /\ NextStage(services[i]) = stage
    BY <1>1, <1>2, <1>5, <2>2 DEF Stage, NextStage, StageOfEntry
  <2>4. LifeBar[s] = "up" /\ LifeBar'[s] = stage
    BY <1>1, <2>3 DEF Mapped, Stage, NextStage
  <2>5. \A t \in Services \ {s} : Untouched(t)
    BY <1>1, <1>3, <2>1, SameTableUntouched
  <2>6. TriesBar' = TriesBar
    <3>1. \A t \in Services : TriesBar'[t] = TriesBar[t]
      BY <1>1 DEF Mapped
    <3> QED  BY <3>1 DEF Mapped
  <2>7. LifeBar' = [LifeBar EXCEPT ![s] = stage]
    BY <2>1, <2>4, <2>5, OneMoves
  <2> HIDE DEF s, stage
  <2>8. Promise!Die(s, stage)
    BY <1>1, <2>4, <2>6, <2>7 DEF Promise!Die, Promise!Move
  <2>9. stage \in {"ended", "failed"}
    BY DEF stage, DeadStage
  <2> QED  BY <2>1, <2>8, <2>9 DEF Promise!Next
<1> QED  BY <1>4, <1>5

(* A background line starts its service.                                   *)
LEMMA RegisterStarts ==
  ASSUME Roomy, Faults = {}, PromiseInv, Mapped, Mapped',
         NEW s \in Services, NEW p \in Pids, Register(s, p)
  PROVE  Promise!Start(s)
<1>1. /\ starts[s] = 0 /\ starts' = [starts EXCEPT ![s] = 1] /\ pc = "shell"
      /\ services' = AddService(services, s, p)
      /\ UNCHANGED <<shutting_down, reaped, pc>>
      /\ Spawn(p, s)
  BY DEF Register, Launch
<1>2. /\ BudgetInv /\ starts \in [Services -> Nat] /\ reaped = Nothing
      /\ state \in [Pids -> {"free", "running", "zombie"}]
  BY <1>1 DEF PromiseInv, SupervisedInv, WatchInv, BudgetInv, TypeOK
<1>3. /\ p \notin NamedPids /\ clean' = clean /\ state'[p] = "running"
      /\ \A q \in Pids \ {p} : state'[q] = state[q]
  BY <1>1, <1>2 DEF Spawn, IsFree
<1>4. InHand = NoPid /\ InHand' = NoPid /\ p # NoPid
  BY <1>1, GuardianAssumption DEF InHand
<1>5. /\ DOMAIN services' = 1 .. Len(services) + 1
      /\ \A i \in DOMAIN services :
           i \in DOMAIN services' /\ services'[i] = services[i] /\ services[i].svc # s
      /\ services'[Len(services) + 1] = Entry(s, p)
      /\ Len(services) \in Nat /\ DOMAIN services = 1 .. Len(services)
  BY <1>1, <1>2, AddAppends, ServicesTyped
<1>6. ASSUME NEW i \in DOMAIN services
      PROVE  NextStage(services'[i]) = Stage(services[i])
  <2>1. services[i].pid \in Pids \ {p}
    BY <1>3, EntryFacts DEF NamedPids
  <2> QED  BY <1>1, <1>3, <1>4, <1>5, <2>1 DEF NextStage, Stage, StageOfEntry
<1>7. ASSUME NEW t \in Services \ {s}
      PROVE  Untouched(t)
  <2>1. \A i \in DOMAIN services : services[i].svc = t =>
          \E j \in DOMAIN services' :
            services'[j].svc = t /\ NextStage(services'[j]) = Stage(services[i])
    BY <1>5, <1>6
  <2>2. \A j \in DOMAIN services' : services'[j].svc = t =>
          \E i \in DOMAIN services : services[i].svc = t
    <3>1. Entry(s, p).svc # t
      BY DEF Entry
    <3>2. \A j \in DOMAIN services' : j \in DOMAIN services \/ j = Len(services) + 1
      BY <1>5
    <3> QED  BY <1>5, <3>1, <3>2
  <2>3. starts'[t] = starts[t]
    BY <1>1, <1>2
  <2> QED  BY <2>1, <2>2, <2>3 DEF Untouched
<1>8. LifeBar[s] = "idle" /\ TriesBar[s] = 0
  BY <1>1 DEF Mapped
<1>9. LifeBar'[s] = "up" /\ TriesBar'[s] = 0
  <2>1. Entry(s, p).svc = s /\ NextStage(Entry(s, p)) = "up"
    BY <1>3, <1>4 DEF Entry, NextStage, StageOfEntry, IsScheduled
  <2>2. starts'[s] = 1
    BY <1>1, <1>2
  <2>3. \E j \in DOMAIN services' : services'[j] = Entry(s, p)
    BY <1>5
  <2>4. \A j \in DOMAIN services' :
          LifeBar'[services'[j].svc] = NextStage(services'[j])
    BY DEF Mapped, Stage, NextStage
  <2>5. LifeBar'[s] = "up"
    BY <2>1, <2>3, <2>4
  <2>6. TriesBar'[s] = 0
    BY <2>2 DEF Mapped
  <2> QED  BY <2>5, <2>6
<1>10. LifeBar' = [LifeBar EXCEPT ![s] = "up"] /\ TriesBar' = TriesBar
  <2>1. TriesBar' = [TriesBar EXCEPT ![s] = TriesBar[s]] /\ TriesBar \in [Services -> Nat]
    BY <1>7, <1>8, <1>9, OneMoves DEF Mapped
  <2> QED  BY <1>7, <1>9, <2>1, OneMoves
<1> QED  BY <1>1, <1>8, <1>10 DEF Promise!Start, Promise!Move

(* A due restart runs its service again.  After a signal none is due.      *)
LEMMA RestartRestarts ==
  ASSUME Faults = {}, PromiseInv, Mapped, Mapped', NEW i, NEW p \in Pids, RestartOne(i, p)
  PROVE  \E s \in Services : Promise!Restart(s)
<1> DEFINE s == services[i].svc
           e == Restarted(services[i], p)
<1>1. /\ i \in DOMAIN services /\ IsScheduled(services[i]) /\ pc = "restart"
      /\ services' = [services EXCEPT ![i] = e]
      /\ starts' = [starts EXCEPT ![s] = @ + 1]
      /\ UNCHANGED <<shutting_down, pc, reaped>> /\ Spawn(p, s)
  BY DEF RestartOne, IsFirstDue, IsDue
<1>2. /\ BudgetInv /\ starts \in [Services -> Nat] /\ shutting_down \in BOOLEAN
      /\ state \in [Pids -> {"free", "running", "zombie"}]
      /\ shutting_down /\ pc # "exited" => Unscheduled(services)
  BY DEF PromiseInv, LoopInv, SupervisedInv, WatchInv, BudgetInv, TypeOK
<1>3. ~shutting_down
  BY <1>1, <1>2 DEF Unscheduled
<1>4. /\ p \notin NamedPids /\ clean' = clean /\ state'[p] = "running"
      /\ \A q \in Pids \ {p} : state'[q] = state[q]
  BY <1>1, <1>2 DEF Spawn, IsFree
<1>5. InHand = NoPid /\ InHand' = NoPid /\ p # NoPid
  BY <1>1, GuardianAssumption DEF InHand
<1>6. e.svc = s /\ e.pid = p /\ ~IsScheduled(e)
  <2>1. services[i] \in EntryType /\ services[i].restart_count < MAX_RESTARTS
    BY <1>1, <1>2, ServicesTyped DEF BudgetInv, TableOK, WithinLimit
  <2> QED  BY <2>1, RestartedEntry
<1>7. /\ DOMAIN services' = DOMAIN services
      /\ \A j \in DOMAIN services : services'[j] = IF j = i THEN e ELSE services[j]
  BY <1>1, <1>2, RestartEntries, BudgetTyped
<1>8. /\ s \in Services /\ starts[s] \in Nat /\ starts[s] # 0
      /\ \A j \in DOMAIN services : j # i => services[j].svc # s
  BY <1>1, <1>2, EntryFacts DEF Mapped
<1> HIDE DEF s, e
<1>9. ASSUME NEW t \in Services \ {s}
      PROVE  Untouched(t)
  <2>1. ASSUME NEW j \in DOMAIN services, services[j].svc = t
        PROVE  /\ services'[j] = services[j]
               /\ NextStage(services[j]) = Stage(services[j])
    <3>1. services[j].pid \in Pids \ {p}
      BY <1>4, EntryFacts DEF NamedPids
    <3>2. j # i
      BY <2>1 DEF s
    <3> QED  BY <1>1, <1>4, <1>5, <1>7, <3>1, <3>2 DEF NextStage, Stage, StageOfEntry
  <2>2. \A j \in DOMAIN services' : services'[j].svc = t => services[j].svc = t
    BY <1>6, <1>7
  <2>3. starts'[t] = starts[t]
    BY <1>1, <1>2
  <2> QED  BY <1>7, <2>1, <2>2, <2>3 DEF Untouched
<1>10. LifeBar[s] = "backoff"
  <2>1. Stage(services[i]) = "backoff"
    BY <1>1 DEF Stage, StageOfEntry
  <2> QED  BY <1>1, <2>1 DEF Mapped, s
<1>11. LifeBar'[s] = "up" /\ TriesBar'[s] = TriesBar[s] + 1
  <2>1. NextStage(e) = "up"
    BY <1>4, <1>5, <1>6 DEF NextStage, StageOfEntry
  <2>2. \A j \in DOMAIN services' :
          LifeBar'[services'[j].svc] = NextStage(services'[j])
    BY DEF Mapped, Stage, NextStage
  <2>3. starts'[s] = starts[s] + 1
    BY <1>1, <1>2, <1>8
  <2>4. TriesBar'[s] = TriesBar[s] + 1
    BY <1>8, <2>3 DEF Mapped
  <2> QED  BY <1>1, <1>6, <1>7, <2>1, <2>2, <2>4
<1>12. /\ LifeBar' = [LifeBar EXCEPT ![s] = "up"]
       /\ TriesBar' = [TriesBar EXCEPT ![s] = @ + 1]
  BY <1>8, <1>9, <1>11, OneMoves
<1> QED
  BY <1>1, <1>3, <1>8, <1>10, <1>12 DEF Promise!Restart, Promise!Move

-----------------------------------------------------------------------------
(* The entry of the reaped child: its service is ended or failed, and the  *)
(* guardian wants the restart if the promise grants it.                    *)
LEMMA InHandEntry ==
  ASSUME PromiseInv, Mapped, pc \in {"drain_handle", "handle"},
         NEW i \in DOMAIN services, services[i].pid = reaped.pid
  PROVE  LET s == services[i].svc
         IN  /\ s \in Services /\ Promise!Dead(s)
             /\ WantsRestart(services[i], reaped.ok) <=> Promise!Deserves(s)
<1> DEFINE s == services[i].svc
<1>1. /\ s \in Services /\ EntryGood(services[i], state, command, InHand)
      /\ starts[s] = services[i].restart_count + 1
      /\ services[i].restart_count \in Nat
  BY EntryFacts, GuardianAssumption DEF EntryType
<1>2. InHand = reaped.pid /\ reaped.ok \in BOOLEAN
  BY DEF InHand, PromiseInv, SupervisedInv, WatchInv, BudgetInv, TypeOK
<1>3. ~IsScheduled(services[i])
  BY <1>1, <1>2 DEF EntryGood
<1>4. Stage(services[i]) = DeadStage(reaped.ok)
  BY <1>2, <1>3 DEF Stage, StageOfEntry
<1>5. LifeBar[s] = DeadStage(reaped.ok)
  BY <1>4 DEF Mapped
<1>6. TriesBar[s] = services[i].restart_count
  BY <1>1 DEF Mapped
<1> HIDE DEF s
<1>7. Promise!Dead(s) /\ (LifeBar[s] = "failed" <=> ~reaped.ok)
  BY <1>2, <1>5 DEF Promise!Dead, DeadStage
<1>8. WantsRestart(services[i], reaped.ok) <=> Promise!Deserves(s)
  BY <1>6, <1>7 DEF WantsRestart, Policy, Promise!Deserves
<1> QED  BY <1>1, <1>7, <1>8 DEF s

(* The other entries stay where they are when the child is dealt with.     *)
LEMMA OthersStay ==
  ASSUME PromiseInv, pc \in {"drain_handle", "handle"}, UNCHANGED kernel,
         reaped' = Nothing, NEW j \in DOMAIN services, services[j].pid # reaped.pid
  PROVE  NextStage(services[j]) = Stage(services[j])
<1>1. InHand = reaped.pid /\ InHand' = NoPid
  BY DEF InHand, Nothing
<1>2. services[j].pid # NoPid
  BY EntryFacts
<1> QED  BY <1>1, <1>2 DEF Stage, NextStage, StageOfEntry, kernel

(* handle_child_exit schedules the service or gives it up; of an orphan    *)
(* the promise knows nothing.                                              *)
LEMMA ExitHandled ==
  ASSUME PromiseInv, Mapped, Mapped', HandleChildExit
  PROVE  [Promise!Next]_(Promise!vars)
<1> DEFINE pid == reaped.pid
           ok == reaped.ok
<1>1. /\ pc \in {"drain_handle", "handle"} /\ pc' \in {"drain", "restart"}
      /\ ~MustReinitialize(services') /\ services' = TableAfterExit(pid, ok)
      /\ reaped' = Nothing /\ UNCHANGED <<kernel, starts, shutting_down>>
  BY DEF HandleChildExit, history
<1>2. /\ BudgetInv /\ ok \in BOOLEAN /\ now \in Nat
      /\ services \in Seq(EntryType) /\ Len(services) \in Nat
      /\ DOMAIN services = 1 .. Len(services)
      /\ \A i \in DOMAIN services : services[i] \in EntryType
  BY ServicesTyped DEF PromiseInv, SupervisedInv, WatchInv, BudgetInv, TypeOK
<1>3. ASSUME NEW j \in DOMAIN services, services[j].pid # pid
      PROVE  NextStage(services[j]) = Stage(services[j])
  BY <1>1, <1>3, OthersStay
<1>4. TriesBar' = TriesBar
  <2>1. \A t \in Services : TriesBar'[t] = TriesBar[t]
    BY <1>1 DEF Mapped
  <2> QED  BY <2>1 DEF Mapped
<1> HIDE DEF pid, ok
<1>5. CASE ~IsRegistered(services, pid) /\ services' = services
  <2>1. \A j \in DOMAIN services : NextStage(services[j]) = Stage(services[j])
    BY <1>3, <1>5 DEF IsRegistered
  <2> QED  BY <1>1, <1>5, <2>1, QuietStays
<1>6. ASSUME NEW i \in DOMAIN services, services[i].pid = pid
      PROVE  /\ services[i].svc \in Services /\ Promise!Dead(services[i].svc)
             /\ WantsRestart(services[i], ok) <=> Promise!Deserves(services[i].svc)
             /\ \A j \in DOMAIN services : j # i =>
                  /\ services[j].svc # services[i].svc
                  /\ NextStage(services[j]) = Stage(services[j])
  BY <1>1, <1>3, <1>6, InHandEntry, EntryFacts DEF pid, ok
<1>7. ASSUME NEW i \in DOMAIN services, services[i].pid = pid,
             WantsRestart(services[i], ok),
             services' = [services EXCEPT ![i] = Schedule(services[i])]
      PROVE  \E s \in Services : Promise!Schedule(s)
  <2> DEFINE s == services[i].svc
             e == Schedule(services[i])
  <2>1. e.svc = s /\ IsScheduled(e)
    BY <1>2, ScheduleEntry
  <2> HIDE DEF e
  <2>2. /\ DOMAIN services' = DOMAIN services
        /\ \A j \in DOMAIN services : services'[j] = IF j = i THEN e ELSE services[j]
    BY <1>2, <1>7 DEF e
  <2>3. s \in Services /\ Promise!Dead(s) /\ Promise!Deserves(s)
    BY <1>6, <1>7
  <2>4. \A j \in DOMAIN services : j # i =>
          services[j].svc # s /\ NextStage(services[j]) = Stage(services[j])
    BY <1>6, <1>7
  <2> HIDE DEF s
  <2>5. ASSUME NEW t \in Services \ {s}
        PROVE  Untouched(t)
    <3>1. \A j \in DOMAIN services : services[j].svc = t =>
            services'[j] = services[j] /\ NextStage(services[j]) = Stage(services[j])
      BY <2>2, <2>4 DEF s
    <3>2. \A j \in DOMAIN services' : services'[j].svc = t => services[j].svc = t
      BY <2>1, <2>2
    <3> QED  BY <1>1, <2>2, <3>1, <3>2 DEF Untouched
  <2>6. LifeBar'[s] = "backoff"
    <3>1. NextStage(e) = "backoff"
      BY <2>1 DEF NextStage, StageOfEntry
    <3>2. \A j \in DOMAIN services' :
            LifeBar'[services'[j].svc] = NextStage(services'[j])
      BY DEF Mapped, Stage, NextStage
    <3> QED  BY <2>1, <2>2, <3>1, <3>2
  <2>7. LifeBar' = [LifeBar EXCEPT ![s] = "backoff"]
    BY <2>3, <2>5, <2>6, OneMoves
  <2> QED
    BY <1>1, <1>4, <2>3, <2>7 DEF Promise!Schedule, Promise!Move
<1>8. ASSUME NEW i \in DOMAIN services, services[i].pid = pid,
             ~WantsRestart(services[i], ok), services' = DropSlot(services, i)
      PROVE  \E s \in Services : Promise!GiveUp(s)
  <2> DEFINE s == services[i].svc
  <2>1. /\ Len(services') = Len(services) - 1 /\ DOMAIN services' = 1 .. Len(services) - 1
        /\ \A k \in 1 .. Len(services) - 1 :
             services'[k] = IF k < i THEN services[k] ELSE services[k + 1]
    BY <1>2, <1>8, DropSlotProperties
  <2>2. s \in Services /\ Promise!Dead(s) /\ ~Promise!Deserves(s)
    BY <1>6, <1>8
  <2>3. \A j \in DOMAIN services : j # i =>
          services[j].svc # s /\ NextStage(services[j]) = Stage(services[j])
    BY <1>6, <1>8
  <2> HIDE DEF s
  <2>4. \A j \in DOMAIN services : j # i => \E k \in DOMAIN services' : services'[k] = services[j]
    <3> SUFFICES ASSUME NEW j \in DOMAIN services, j # i
                 PROVE  \E k \in DOMAIN services' : services'[k] = services[j]
      OBVIOUS
    <3>1. CASE j < i
      BY <1>2, <2>1, <3>1
    <3>2. CASE j > i
      <4>1. j - 1 \in DOMAIN services' /\ services'[j - 1] = services[j]
        BY <1>2, <2>1, <3>2
      <4> QED  BY <4>1
    <3> QED  BY <1>2, <3>1, <3>2
  <2>5. \A k \in DOMAIN services' :
          \E j \in DOMAIN services : j # i /\ services'[k] = services[j]
    <3> SUFFICES ASSUME NEW k \in DOMAIN services'
                 PROVE  \E j \in DOMAIN services : j # i /\ services'[k] = services[j]
      OBVIOUS
    <3>1. CASE k < i
      BY <1>2, <2>1, <3>1
    <3>2. CASE ~(k < i)
      <4>1. k + 1 \in DOMAIN services /\ k + 1 # i /\ services'[k] = services[k + 1]
        BY <1>2, <2>1, <3>2
      <4> QED  BY <4>1
    <3> QED  BY <3>1, <3>2
  <2>6. ASSUME NEW t \in Services \ {s}
        PROVE  Untouched(t)
    <3>1. \A j \in DOMAIN services : services[j].svc = t =>
            \E k \in DOMAIN services' :
              services'[k].svc = t /\ NextStage(services'[k]) = Stage(services[j])
      BY <2>3, <2>4 DEF s
    <3>2. \A k \in DOMAIN services' : services'[k].svc = t =>
            \E j \in DOMAIN services : services[j].svc = t
      BY <2>5
    <3> QED  BY <1>1, <3>1, <3>2 DEF Untouched
  <2>7. LifeBar'[s] = "gone"
    <3>1. starts'[s] # 0
      BY <1>1 DEF Mapped, s
    <3>2. \A k \in DOMAIN services' : services'[k].svc # s
      BY <2>3, <2>5
    <3> QED  BY <2>2, <3>1, <3>2 DEF Mapped
  <2>8. LifeBar' = [LifeBar EXCEPT ![s] = "gone"]
    BY <2>2, <2>6, <2>7, OneMoves
  <2>9. ~(Reinitialize /\ ~shutting_down /\ Promise!IsLast(s))
    <3> SUFFICES ASSUME Reinitialize, ~shutting_down, Promise!IsLast(s) PROVE FALSE
      OBVIOUS
    <3>1. Len(services') # 0
      BY <1>1 DEF MustReinitialize
    <3>2. 1 \in DOMAIN services'
      BY <1>2, <2>1, <3>1
    <3>3. PICK j \in DOMAIN services : j # i
      BY <2>5, <3>2
    <3>4. services[j].svc \in Services \ {s}
            /\ LifeBar[services[j].svc] = Stage(services[j])
      BY <2>3, <3>3 DEF Mapped
    <3>5. Stage(services[j]) \notin {"idle", "gone"}
      BY DEF Stage, StageOfEntry, DeadStage
    <3> QED  BY <3>4, <3>5 DEF Promise!IsLast
  <2> QED
    BY <1>1, <1>4, <2>2, <2>8, <2>9 DEF Promise!GiveUp, Promise!Move
<1> QED
  BY <1>1, <1>2, <1>5, <1>7, <1>8, AfterExitCases DEF Promise!Next

(* A re-execution gives up the last service and starts over, or finds a    *)
(* table in which nothing was ever entered.                                *)
LEMMA ReexecStartsOver ==
  ASSUME PromiseInv, Mapped, Mapped', Reexec
  PROVE  [Promise!Next]_(Promise!vars)
<1> DEFINE pid == reaped.pid
           ok == reaped.ok
           tbl == TableAfterExit(pid, ok)
<1>1. /\ pc \in {"drain_handle", "handle"} /\ pc' = "boot"
      /\ Reinitialize /\ ~shutting_down /\ Len(tbl) = 0
      /\ starts' = [s \in Services |-> 0] /\ UNCHANGED shutting_down
  BY DEF Reexec, MustReinitialize
<1>2. /\ BudgetInv /\ ok \in BOOLEAN
      /\ services \in Seq(EntryType) /\ Len(services) \in Nat
      /\ DOMAIN services = 1 .. Len(services)
  BY ServicesTyped DEF PromiseInv, SupervisedInv, WatchInv, BudgetInv, TypeOK
<1>3. /\ LifeBar' = [t \in Services |-> "idle"]
      /\ TriesBar' = [t \in Services |-> 0]
  <2>1. \A t \in Services : LifeBar'[t] = "idle" /\ TriesBar'[t] = 0
    BY <1>1 DEF Mapped
  <2> QED  BY <2>1 DEF Mapped
<1> HIDE DEF pid, ok
<1>4. \/ tbl = services
      \/ \E i \in DOMAIN services : tbl = [services EXCEPT ![i] = Schedule(services[i])]
      \/ \E i \in DOMAIN services :
           /\ services[i].pid = pid /\ ~WantsRestart(services[i], ok)
           /\ tbl = DropSlot(services, i)
  BY <1>2, AfterExitCases
<1> HIDE DEF tbl
<1>5. CASE tbl = services
  <2>1. DOMAIN services = {}
    BY <1>1, <1>2, <1>5
  <2>2. \A t \in Services : LifeBar[t] = "idle" /\ TriesBar[t] = 0
    BY <1>1, <2>1 DEF PromiseInv, Fresh, Mapped
  <2>3. LifeBar' = LifeBar /\ TriesBar' = TriesBar
    BY <1>3, <2>2 DEF Mapped
  <2> QED  BY <1>1, <2>3 DEF Promise!vars
<1>6. ASSUME NEW i \in DOMAIN services,
             tbl = [services EXCEPT ![i] = Schedule(services[i])]
      PROVE  FALSE
  <2> DEFINE e == Schedule(services[i])
  <2> HIDE DEF e
  <2>1. tbl = [services EXCEPT ![i] = e]
    BY <1>6 DEF e
  <2>2. Len(tbl) = Len(services)
    BY <1>2, <2>1
  <2> QED  BY <1>1, <1>2, <2>2
<1>7. ASSUME NEW i \in DOMAIN services, services[i].pid = pid,
             ~WantsRestart(services[i], ok), tbl = DropSlot(services, i)
      PROVE  \E s \in Services : Promise!StartOver(s)
  <2> DEFINE s == services[i].svc
  <2>1. Len(services) = 1
    BY <1>1, <1>2, <1>7, DropSlotProperties
  <2>2. s \in Services /\ Promise!Dead(s) /\ ~Promise!Deserves(s)
    BY <1>1, <1>7, InHandEntry DEF pid, ok
  <2> HIDE DEF s
  <2>3. \A j \in DOMAIN services : services[j].svc = s
    BY <1>2, <2>1 DEF s
  <2>4. \A t \in Services \ {s} : LifeBar[t] \in {"idle", "gone"}
    BY <2>3 DEF Mapped
  <2> QED
    BY <1>1, <1>3, <2>2, <2>4 DEF Promise!StartOver, Promise!IsLast
<1> QED  BY <1>4, <1>5, <1>6, <1>7 DEF Promise!Next

-----------------------------------------------------------------------------
(* A signal stops UsagiInit, or tells the running script's UsagiInit to    *)
(* promise nothing more; nobody has been promised a restart by then.       *)
LEMMA SignalStops ==
  ASSUME PromiseInv, Mapped, Mapped', SignalInShell \/ SignalInGuardian
  PROVE  Promise!Stop
<1>1. /\ UNCHANGED <<services, starts, kernel, reaped>> /\ shutting_down' = TRUE
      /\ \/ pc = "shell" /\ pc' = "shell"
         \/ pc \in GuardianPoints /\ pc' = "exited"
  BY DEF SignalInShell, SignalInGuardian, Exited
<1>2. /\ pc \notin {"drain_handle", "handle", "exited"} => reaped = Nothing
      /\ pc \in {"boot", "shell"} => Unscheduled(services)
  BY DEF PromiseInv, SupervisedInv, WatchInv, LoopInv
<1>3. InHand' = InHand
  BY <1>1, <1>2 DEF InHand, GuardianPoints, Nothing
<1>4. \A t \in Services : Untouched(t)
  <2>1. \A e : NextStage(e) = Stage(e)
    BY <1>1, <1>3 DEF NextStage, Stage, kernel
  <2> QED  BY <1>1, <2>1, SameTableUntouched
<1>5. LifeBar' = LifeBar /\ TriesBar' = TriesBar
  BY <1>4, AllStay
<1>6. ASSUME pc = "shell", NEW s \in Services
      PROVE  LifeBar[s] # "backoff"
  <2>1. \A i \in DOMAIN services : Stage(services[i]) # "backoff"
    BY <1>2, <1>6 DEF Unscheduled, Stage, StageOfEntry, DeadStage
  <2>2. CASE \E i \in DOMAIN services : services[i].svc = s
    BY <2>1, <2>2 DEF Mapped
  <2>3. CASE \A i \in DOMAIN services : services[i].svc # s
    BY <2>3 DEF Mapped
  <2> QED  BY <2>2, <2>3
<1>7. CASE pc \in GuardianPoints /\ pc' = "exited"
  BY <1>1, <1>5, <1>7 DEF Promise!Stop, GuardianPoints
<1>8. CASE pc = "shell" /\ pc' = "shell"
  BY <1>1, <1>5, <1>6, <1>8 DEF Promise!Stop
<1> QED  BY <1>1, <1>7, <1>8

(* Without one it ends at boot, or after the drain, when nothing is left.  *)
LEMMA NothingLeftHalts ==
  ASSUME PromiseInv, Mapped, Mapped',
         SignalBeforeHandler \/ (DrainDone /\ Len(services) = 0)
  PROVE  Promise!Halt
<1>1. /\ UNCHANGED <<services, starts, kernel, reaped, shutting_down>>
      /\ pc' = "exited" /\ pc # "exited"
      /\ pc \in {"boot", "drain"}
      /\ pc = "drain" => Len(services) = 0
  BY DEF SignalBeforeHandler, DrainDone, Exited, history
<1>2. /\ reaped = Nothing /\ BudgetInv
      /\ pc = "boot" => \A s \in Services : starts[s] = 0
  BY <1>1 DEF PromiseInv, SupervisedInv, WatchInv, Fresh
<1>3. DOMAIN services = {} \/ \A s \in Services : starts[s] = 0
  BY <1>1, <1>2, ServicesTyped
<1>4. \A s \in Services : LifeBar[s] \in {"idle", "gone"}
  BY <1>3 DEF Mapped
<1>5. InHand' = InHand
  BY <1>1, <1>2 DEF InHand, Nothing
<1>6. \A t \in Services : Untouched(t)
  <2>1. \A e : NextStage(e) = Stage(e)
    BY <1>1, <1>5 DEF NextStage, Stage, kernel
  <2> QED  BY <1>1, <2>1, SameTableUntouched
<1>7. LifeBar' = LifeBar /\ TriesBar' = TriesBar
  BY <1>6, AllStay
<1> QED  BY <1>1, <1>4, <1>7 DEF Promise!Halt

-----------------------------------------------------------------------------
(* At boot the promise is at its beginning too.                            *)
LEMMA PromiseBegins == Init => Promise!Init
<1> SUFFICES ASSUME Init PROVE Promise!Init
  OBVIOUS
<1>1. /\ \A s \in Services : starts[s] = 0
      /\ pc = "boot" /\ shutting_down = FALSE
  BY DEF Init
<1>2. Mapped
  BY PromiseInit, MappedHolds
<1>3. /\ LifeBar = [s \in Services |-> "idle"]
      /\ TriesBar = [s \in Services |-> 0]
  BY <1>1, <1>2 DEF Mapped
<1> QED  BY <1>1, <1>3 DEF Promise!Init

(* Each step of the guardian is one of the promise's, or none.             *)
LEMMA PromiseNext ==
  ASSUME Roomy, Faults = {}
  PROVE  PromiseInv /\ PromiseInv' /\ [Next]_vars => [Promise!Next]_(Promise!vars)
<1> SUFFICES ASSUME PromiseInv, PromiseInv', [Next]_vars
             PROVE  [Promise!Next]_(Promise!vars)
  OBVIOUS
<1>1. Mapped /\ Mapped'
  BY MappedHolds, MappedNext
<1>2. CASE \/ UNCHANGED vars \/ Terminated \/ Boot \/ EndShell \/ WaitNothing
           \/ RestartDone \/ Tick \/ (DrainDone /\ Len(services) # 0)
           \/ \E p \in Pids : DrainReap(p) \/ WaitReap(p) \/ Adopt(p)
  BY <1>1, <1>2, QuietSteps
<1>3. ASSUME NEW p \in Pids, NEW ok \in BOOLEAN, Exit(p, ok)
      PROVE  [Promise!Next]_(Promise!vars)
  BY <1>1, <1>3, ExitDies
<1>4. ASSUME NEW s \in Services, NEW p \in Pids, Register(s, p)
      PROVE  Promise!Next
  BY <1>1, <1>4, RegisterStarts DEF Promise!Next
<1>5. ASSUME NEW i, NEW p \in Pids, RestartOne(i, p)
      PROVE  Promise!Next
  BY <1>1, <1>5, RestartRestarts DEF Promise!Next
<1>6. CASE HandleChildExit
  BY <1>1, <1>6, ExitHandled
<1>7. CASE Reexec
  BY <1>1, <1>7, ReexecStartsOver
<1>8. CASE SignalInShell \/ SignalInGuardian
  BY <1>1, <1>8, SignalStops DEF Promise!Next
<1>9. CASE SignalBeforeHandler \/ (DrainDone /\ Len(services) = 0)
  BY <1>1, <1>9, NothingLeftHalts DEF Promise!Next
<1>10. CASE BootFails \/ ReexecFails
              \/ (\E s \in Services, p \in Pids : RegisterFails(s, p))
              \/ \E i \in 1 .. MAX_SERVICES : RestartForkFails(i)
  BY <1>10 DEF BootFails, ReexecFails, RegisterFails, RestartForkFails
<1> QED
  BY <1>2, <1>3, <1>4, <1>5, <1>6, <1>7, <1>8, <1>9, <1>10
     DEF Next, GuardianStep, ShellStep, Environment

(* The guardian keeps the safety part of its promise: what run_guardian,   *)
(* handle_child_exit, do_restart and the signal handler do to a service is *)
(* at every moment something Supervision allows.  The table must have room *)
(* for every service of the script, and no fault may happen: a refused     *)
(* registration, for one, leaves a service running that the promise must   *)
(* take for one given up.                                                  *)
THEOREM PromiseImplemented ==
  ASSUME Roomy, Faults = {}
  PROVE  Spec => ImplementsPromise
BY PromiseInit, PromiseStep, PromiseBegins, PromiseNext, PTL
   DEF Spec, ImplementsPromise, Promise!Spec
=============================================================================
